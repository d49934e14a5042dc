# A formal model of AccountingOS

AccountingOS closes the books of one company for one month. An operator creates a
*close run*; worker processes read Xero, Plaid and Google, reconcile, and freeze a
review package; the controller approves it; a worker then creates the approved draft
journals in Xero and, on request, sends recovery emails through Gmail. Everything that
must survive a crash is a row in PostgreSQL (Supabase). The program is in
`src/backend/app`, its tables and triggers are in `src/supabase/migrations`.

This directory models the life of one close run, the facts it is made of (the
synchronization with Plaid, reconciliation) and the credentials that its workers need
(onboarding, token refresh, the connection pool), checks the models with TLC, and proves
what it can with TLAPS. `PROJECT.json` lists the runs, the source lines each definition
stands for, the hazards the properties are aimed at, the theorems and the disagreements
found between the code and its documents.

## 1. Inventory

| Component | Where | State | Operations | Status |
|---|---|---|---|---|
| Close-run store, task queue | `supabase_db.py`, migrations | rows of runs, tasks, snapshot, checklist, report, exceptions, packages, approvals, proposals, actions | create, claim, renew, complete, block, retry (task, run), cancel, persist (snapshot, evidence, execution, artifact), freeze, approve, request changes, action ledger, queue email, resolve | modelled (`TaskRow`, `CloseStore`) |
| Durable worker, executors | `durable_worker.py` | program counter, loaded rows, lease heartbeat | `process_once` and six executors | modelled (`CloseWorker`) |
| Worker loop, coordinator | `worker_main.py` | none | poll Plaid, then the close queue | modelled: the loop in `CloseWorkflow`, the coordinator's priority in `PlaidSync` |
| API | `main.py` | none of its own | ten requests that change a run | modelled (`CloseWorkflow`); onboarding requests in `Onboarding` |
| Xero drafts, Gmail recovery | `durable_worker.py`, `provider_runtime.py`, `evidence.py` | at the provider | search by marker, create or send, read back | modelled (`CloseWorker`) |
| Plaid webhook sync | `plaid_webhooks.py`, `PlaidWebhookSyncWorker`, `supabase_db.py` | receipts, sync requests with leases, cursor and record cache; key cache of the verifier | receive, claim, sync, settle; verify | modelled (`PlaidSync`, `WebhookKeys`) |
| Connection pool | `supabase_db.py` `_ConnectionPool` | idle list, created count | acquire, release, discard | modelled (`ConnectionPool`) |
| OAuth sessions | `supabase_db.py`, `security.py` | one row per state value | put, consume | modelled (`Onboarding`) |
| Token refresh, secrets | `xero_oauth.py`, `google_oauth.py`, `secrets_store.py` | single-use refresh token, advisory lock | refresh, store, delete | Xero modelled (`TokenRefresh`); Google's token does not rotate |
| Connections, mappings | `connections.py`, `close_mapping.py`, `plaid_link.py` | connections, mapping versions | connect, disconnect, save mapping | connections modelled (`Onboarding`), mapping versions not |
| Provider adapters | `providers.py`, `provider_runtime.py`, `normalization.py` | sync cursor | paged reads | Plaid's modelled (`PlaidSync`) |
| Reconciliation | `reconciliation.py`, `close_execution.py` | pure | match, raise exceptions, propose journals | modelled (`Reconciliation`, `CloseExecution`); in `CloseStore` its outcome is a choice |
| Reports, archive, explanations, preflight, fixtures, auth, web | see section 6 | | | not modelled |

The components meet in the rows of one run. Workers and the API never talk to each
other; they only run transactions of the store, each of which locks the run or the
task. Between two transactions of a worker everything may happen: the API may cancel or
retry, the lease may run out and another worker may claim the task, the process may die.

What is hard, and what makes each part correct:

- *Queue*: prerequisites before tasks, though the claim does not look at them; attempts
  that are counted, tested and reset in five different statements; leases that find
  abandoned work without ever leaving a running row unfound.
- *Executors*: persisting an outcome and completing the task are two transactions.
- *Review*: what the controller looked at stays true after the approval.
- *External actions*: no duplicate, no unrecorded success, no success recorded that was
  not observed, under lost answers, crashes and two workers.
- *Cache of Plaid*: what is stored belongs to one cursor, although pages, removals, retries and
  two workers interleave; a request that succeeded was really followed by a synchronization.
- *Refresh token*: Xero accepts it once, so that every failure between exchange and store may
  cost the credential; the lock that protects it holds one connection while its holder
  needs another one.
- *Consents*: callbacks arrive twice, at once, late; the credential that a callback stores is
  shared by connections that other requests create and remove.
- *Reconciliation*: greedy matching must account for every transaction once, at the edges of
  dates, fees and aggregates, and a report must not pass over something material.
- *Run state*: a single column written by everybody; finished runs stay finished, and a
  run that waits for something has somebody who will do it.

## 2. Modules

| Module | Models |
|---|---|
| `TaskRow` | one row of `workflow.tasks` and what each SQL statement does to it; a deadline is `null`, `live` or `expired` |
| `CloseStore` | the rows of one run and every transaction of `SupabaseWorkflowStore` on them; the store's own specification and its properties |
| `CloseWorker` | worker processes, the executors step by step, Xero and Gmail |
| `CloseWorkflow` | the composition: API, workers, leases; fairness |
| `CloseProperties` | the type invariant of the whole, safety, action and liveness properties |
| `CloseDivergences` | what the documents say and the code does not keep |
| `MCClose` | instances for TLC, with a start after the approval |
| `ApprovedDrafts` | abstract: what a close promises the controller about drafts |
| `ConnectionPool` | the pool of each process, as its threads see it |
| `TokenRefresh` | `XeroOAuthClient.refresh` over the Vault, the advisory lock and the pool |
| `RotatingCredential` | abstract: a chain of single-use tokens |
| `TokenProperties` | what the pool and the refresh promise; the refinement |
| `Onboarding` | OAuth sessions, callbacks, Plaid Link, connection rows, disconnect |
| `MCCredentials` | instance of the refresh over the pool, and of onboarding |
| `PlaidSync` | webhook receipts, sync requests, workers and the close task on one Item |
| `WebhookKeys` | the verifier's key cache with shared fetches and their budget |
| `Reconciliation`, `CloseExecution` | `reconcile` and `derive_close_execution` as functions |
| `MCFacts` | instances of the previous three |
| `StoreProofs` | theorems about the store, whoever calls it |
| `CloseProofs` | the whole run: types, the refinement of the store, preparation and cancellation |
| `CloseSafety` | external actions: approval, observation; what holds with one worker process |
| `DraftProofs` | the promise to the controller, applying approved actions, leases and attempts |
| `PlaidProofs` | the synchronization and the key cache of the webhook verifier |
| `TokenProofs` | the operations of the pool; the refresh over them |
| `OnboardingProofs` | sessions, callbacks and credentials |
| `ReconcileProofs` | sums, the steps of the matching, and the execution that is derived from it |

`CloseWorkflow` composes `CloseStore` and `CloseWorker`; `TokenRefresh` extends `ConnectionPool`, whose
actions are part of every step that borrows a connection; `CloseExecution` extends
`Reconciliation`. Where parts share no state, an MC module runs them beside each other in one
instance: a variable (`part`, `facts`) says at the start which of them moves.

Three abstract specifications are implemented: `StoreSpec` by the composed system (checked in
`Prepare`, proved in `CloseProofs`), `DraftsSpec` of `ApprovedDrafts` by the composed system
(checked in `Close`, proved in `DraftProofs`), and `CredentialSpec` of `RotatingCredential` by the
refresh (checked in `Credentials`, proved in `TokenProofs`).

One transaction is one action: its guard is the condition under which it commits, its
primed variables are the columns it writes. A refused transaction raises and changes
nothing; `ExecutorFails`, `SendFails` and `LeaveTask` say what the caller then does. A
provider read has no effect, so it is one step together with the branch that follows
from the answer; a provider write is a step of its own, and so is every transaction
before and after it. A worker is a record: its program counter, the claimed task, the
rows it loaded and has not done yet, the row in hand, and the status it is about to
write.

Abstractions: one run, one organization and one controller (a run's transactions touch
only its own rows, except for the sweep, which treats every run alike); hashes and
markers are the identity of the proposal or exception they are computed from; the
package hash covers the proposals in it, so equal hashes are equal contents; the
verdict of the checklist, the status of the report and the set of open exceptions are
choices of the task that computes them; every email of a run goes to one recipient, so
the two counters of the email policy agree; Xero's and Gmail's searches see every
journal and message that exists. `task_events` is written and never read back by a
transaction.

`PlaidSync` follows one Item. Plaid's side is a log of changes; a cursor is a position in it, and a
stored transaction is named by the change that wrote it last, so that a cache is compared with
a point in time by comparing sets. A page holds the net effect of the changes it spans. A close
has one snapshot. `TokenRefresh` follows one Xero credential; its tokens are numbered, and the
access tokens are left out, because a refresh may start at any time. `hazards` and `raced` and
`overwritten` are history: they record what the code cannot undo, so that a property can say
that nothing goes wrong without such a cause. `Onboarding` has one organization and one
provider, chosen at the start; an authorization stands for the state value, the code and the
grant together. `CloseExecution` is evaluated once, in a single step, on inputs that the initial
state picks; amounts and days are integers and all transactions are in one currency. A transaction is named
by the place of its fact in the snapshot, and the facts that are none (removed, voided, outside the period) have
no entry in `Banks` and `Ledgers`.

## 3. Runs

| Run | Instance | What it shows |
|---|---|---|
| `Prepare` | 2 workers, 1 retry, no proposals | tasks follow their prerequisites and leave behind what they promise, review only of a complete run, cancellation quiets the run, the system implements the store |
| `Close` | 1 worker, 2 proposals (1 derived), 1 retry | a whole close: approval before drafts and justified ever after, no duplicate, evidence stays complete, frozen packages, leases and attempts sound |
| `Actions` | 2 workers, 1 proposal, 1 retry, from the approval on | what the run says of drafts is true, applying is never stuck and ends |
| `Emails` | 1 worker, 1 proposal, 1 exception, 1 retry, from the approval on | both action tasks side by side: no second message, no invented success, finished runs stay finished |
| `Credentials` | 2 threads, pools of 1 to 3; 2 consents, 2 targets, 2 requests | the pool counts right and leaves no thread asleep, whatever breaks; the refresh implements the chain of tokens, explains every loss, and ends; a code is redeemed once; no credential in use is deleted |
| `Facts` | 2 workers, 2 changes, 3 feeds; 3 verifiers, 2 keys; up to 2 bank and 3 ledger facts | the cache and the snapshot are what Plaid held at their cursor, success was earned, requests end and stay; fetches of keys are shared and budgeted; every transaction is accounted for, no report passes over something material |
| `LivePrepare` | 1 worker, 1 retry | abandoned tasks are found, ready ones claimed, preparation comes to rest |

They have between about 14,000 (`LivePrepare`) and 711,000 (`Emails`) distinct states; the longest
takes about a minute and a half. The store on its own, with callers that may ask for anything
at any time, is what `StoreProofs` is about; the runs reach it through `StoreSpec`, the
property of `Prepare` that the composed system implements it.

*Bounds.* `MaxAttempts = 2` (the column's default is 3) is the least budget with both a
retry and an exhaustion. Two workers are enough for one to overtake another; a third
would only overtake again. Two proposals distinguish first from last, and one of two
being derived lets the API submit a package other than the worker's. `MaxJournals` and
`MaxSent` are 2: the properties fail at 2, so the second object is never cut off.
`MaxRetries` bounds the operator's retries, each of which resets the attempts; one shows
everything that a retry after a blocker can meet. `Spec` starts with the created run;
`ApprovedSpec` starts from the state that the approval leaves, which is a reachable one
(all default tasks succeeded in one attempt), because the action races after it need the
state space for themselves.

For `Credentials`, `MCDeployments` has the pools that differ: fewer connections than two refreshes need,
enough for one of them, enough for one beside a waiting thread, and two processes whose
pools share only the lock. A refresh holds at most two connections, so `MaxSize = 3` is the
first size at which neither of two threads can starve the other. `MaxToken = 3` allows two rotations, the second
one by a thread that has to see what the first one stored. The consents of `MCReach` overlap in one
target and differ in the other. For `Facts`, `Length = 2` and `MCFeeds` give a removal, a revision, and
an account that the mapping does not select; `SyncBound` keeps the requests and the close from multiplying:
two webhooks are followed while no close waits, and accounts are disconnected only where there are two.
`MaxFetches = 2` in a `Minute` of two ticks lets a budget be spent and recover. The bank facts include
equal amounts, a sum of two, an inflow, a fee, a pending and a removed one, one beyond the window and one of an
unmapped account; three ledger facts are the least with two aggregates that compete; thresholds of 0
and 1 lie on both sides of the smallest amount, and both policies for pending transactions are taken.

*Deadlock* is not checked: a run legitimately ends, approved, cancelled, or waiting for
an operator who need not come, and the bounds end it too.

*Fairness.* `Poll`: `main` loops for ever and survives any exception. `Work`: an executor
loops over rows that it loaded, its HTTP calls time out, and `process_once` catches every
exception, so a running iteration ends. The expiry of a lease is fair only when no
worker works on the task: then nothing renews it and the clock passes it. Crashes, the loss
of a live lease and every API request are possible and never forced. Liveness of leases
leaves `send_recovery_request` out: queueing another email clears the lease of a running task
and keeps a used-up budget (section 4), and then nobody need ever claim it.

`TokenFairness`: statements, calls to Xero and waits for a connection have time limits, so a thread that can
take a step of its refresh takes one. Taking the lock needs strong fairness, because other sessions hold it in
between: PostgreSQL grants an advisory lock in the order of arrival. `PlaidFairness`: workers poll on, calls
to Plaid have time limits, and a lease runs out unless its request ends before: nothing renews
the lease of a Plaid request.

*Instances that matter.* Some properties hold only in the smaller instance, and the larger
one shows a flaw of the code: `NoDuplicateDraft` and `EvidenceCompleteAfterApproval` with one
worker, `ApprovedMeansAllDrafted` with one proposal, `RunningTasksLeased` and
`ReadyTasksHaveBudget` without recovery emails. Each comment says so, and section 4 tells what
happens beyond.

## 4. What the code does not keep

Five disagreements are runs that TLC must find violated; `PROJECT.json` quotes the sentence
that the code does not keep.

| Run | Counterexample in short |
|---|---|
| `DivApproved` | two proposals: the first one succeeds, its row is the only one, the run is approved; the second fails unseen |
| `DivDuplicate` | worker 1 searches, its lease runs out, worker 2 claims, searches and creates, worker 1 creates |
| `DivRetry` | the archive failed after freezing; retry puts the run in `synchronizing`; the kept reconciliation does not move it to `running`; freezing is refused, and the task is blocked or retried until it fails |
| `DivTenant` | two Xero callbacks overlap; the token that one caches in the API's only client lists the tenants for the other, which registers a tenant that its credential does not reach |
| `DivStartedEmail` | crash after the send; the row is `started` and not loaded any more; the task succeeds over it |

Also met while modelling, and not kept as runs. Those that name a property are reproduced by
checking it on the instance given.

- An overtaken worker writes its late answer. Its incomplete evidence batch replaces the
  checklist of an approved close (`EvidenceCompleteAfterApproval` with two workers), and
  `update_action_execution`, which does not compare the old status, puts `outcome_unknown`
  over a recorded success.
- A recovery email that is queued while another one is being sent takes the lease off the
  running row: if the worker dies now, nobody finds it, and if not, it cannot settle it
  (`RunningTasksLeased` with one exception). Queued after the task used its attempts up, it
  makes the task ready with none left (`ReadyTasksHaveBudget` with one exception).
- A run cancelled during `apply_approved_actions` still gets its remaining drafts: the loop
  never looks at the run again.
- A crash after `outcome_unknown` is written and before the task is blocked: the next claim
  starts the action again, without the operator.
- An overtaken worker writes a failure after the task was settled: the run is `action_failed`,
  and `retry_run` finds nothing to retry.
- A message left `started` by a crash does not count for the limits of the email policy, so a
  second one is authorized.
- *Plaid.* The cursor is stored by an unconditional upsert: a sync that started earlier and ends later
  puts an older cursor and its cache back (`overwritten`; the pair is consistent, and the next sync
  catches up). A request whose HTTP call fails, or for which the pool had no connection, is
  blocked and not retried, because those errors are `ValueError`s too. The coordinator turns to close tasks
  only when no request is ready, so a steady supply of webhooks starves them, although
  `worker_main.py:32` says "without starving close tasks"; the model has finitely many requests and
  cannot show this.
- *Refresh.* A token is lost for good when the answer or the store fails after Xero rotated it, which includes
  a pool that has no connection for the store: waiters for the lock hold one each, and with a
  pool no larger than the number of threads they can take them all. A refresh
  that overlaps a disconnect stores its new token and so re-creates the deleted secret.
- *Disconnect.* The decision that a credential is unused and its deletion are two steps: a callback
  that registers it in between is left with a healthy connection without a credential (`raced`).
  Deleting may fail, and then the secret stays.
- *Reports.* An excluded pending transaction still counts in the bank total, and a match within the fee
  tolerance does not tie exactly, so a report with either does not pass although nothing is open. A Xero
  transaction of unknown direction is left out of the ledger without an exception, although the comment in
  `close_execution.py` (193-195) expects reconciliation to produce one.
- A reconcile task that fails to archive blocks a run that awaits approval, a transition that
  is not in the table of `docs/TDD.md`.

## 5. Proofs

The theorems hold for every set of workers, every attempt budget and
any number of proposals and exceptions; of threads, processes and pool sizes; of authorizations,
targets and requests; of verifiers and keys; for every log of Plaid; and for any number of facts, amounts
and mappings. They assume only what the
modules' named assumptions say: `NoWorker` is no worker, `MaxAttempts` is positive, the counts and
bounds are naturals, `Derived` is a set of proposals, `Feeds` holds logs of the given length,
`Threads` is finite, no authorization is called `None`, amounts and days are integers, and windows, tolerances and
thresholds are naturals. Three results need more, and say so in their statement,
because beyond it they are false: one worker process (`OneWorker`; `DivDuplicate` and section 4
show what two do), packages of at most one proposal (`DivApproved`), and no exceptions to write
emails about (section 4). Every strengthening below was checked with TLC before it was proved.

### The close run

Types and refinement (`StoreProofs`, `CloseProofs`):

- `StoreTypeCorrect`: the type invariant of the store is inductive. That no attempt
  exceeds `max_attempts` is part of it, and needs the claim's filter.
- `TasksFollowDependencies`: `DependencyOrder` is inductive together with the types. The
  argument: no transaction takes `succeeded` away from a default task (only the upserts
  requeue succeeded rows, and those are action tasks without dependants,
  `PrerequisitesAreDefault`), and every transaction that makes a task ready either looked at
  its prerequisites or moves a row that was ready before.
- `ApprovalsStayJustified`: `ApprovalGate` is inductive together with the types: a second reconciliation
  keeps the report, and a frozen package never returns to `review_frozen`.
- `PackagesStayFrozen`, `TerminalRunsStay`: action properties, transaction by transaction.
- `TypeCorrect`: the type invariant of the whole. Its strengthening is `Coherent`: a worker at
  a step of `_execute_proposal` works for `apply_approved_actions` on a proposal, one
  in `_send` on an exception, and the register that is about to be written holds a status.
- `RunImplementsStore`: `Spec => StoreSpec`. Every step of the composed system is one
  transaction of the store or leaves its rows alone; `TypeOK` is needed so that what a
  worker hands to the store is what the store expects.
- `RunKeepsStorePromises`: therefore the guarantees of the store are guarantees of the run.

Preparation and cancellation (`CloseProofs`). The lemmas `RowChanges` and `RunChanges` say once what any
step may do to a task's row and to the state of the run; the proofs here and in `DraftProofs` argue from them.

- `SucceededTasksLeftTheirFacts`: `TaskEffects` is not inductive, because an outcome is persisted in one
  transaction and the task completed in another, perhaps by then on behalf of somebody else. `PrepInv` adds `Prepared`: a
  worker that is about to complete a task has persisted its outcome. Outcomes are never taken back (`FactsStay`), so
  this stays true of a worker that was overtaken, and a task succeeds only where a worker completes it
  (`SuccessRecorded`).
- `ControllerSeesAReport`: `ReviewableWhenAwaiting`, from the same invariant. `RunReported` is the part that
  requests of the API could break: a run that is `running` has a report, so that freezing a package
  never asks the controller without one.
- `CancelledRunsStayQuiet`: the action property `CancelStopsNewWork`. Every way out of `idle` is a
  claim, the claim looks at the run, and journals and messages are created only by workers that are not idle.

External actions (`CloseSafety`):

- `ApprovalBeforeDrafts`: `DraftsNeedApproval` is not inductive, because a worker creates the
  journal long after it loaded the proposal. `DraftInv` adds what the worker has in hand and
  still has to do (`LoadedApproved`): all of it was approved. What was approved stays approved
  (`ApprovableGrows`: decisions only grow and an approved package never changes), so the
  knowledge of a worker that was overtaken or whose run was cancelled is still sound.
- `SuccessesWereObserved`: `VerifiedDrafts` and `VerifiedSends`. `VerifyInv` adds `Observed`: a
  worker that reads a journal back, or is about to write a success, has seen the journal or
  the message. Journals and messages are never taken back (`ProvidersGrow`), and only
  `WriteOutcome` records a success (`WhoRecords`).
- `OneWorkerActsOnce`, for one worker process: `NoDuplicateDraft` and `NoDuplicateSend`. `OnceInv` adds `Searched`: between the
  search and the call the provider still has nothing. It is here that a second process breaks the proof: its
  call may come in between, and no lock is held. Crashes, lost answers and lost leases do not matter, because every
  attempt starts with a search.
- `ApprovedEvidenceStays`, for one worker process: `EvidenceCompleteAfterApproval`. A report is based on collected
  evidence (`ReportAfterEvidence`), so no approval comes before `collect_evidence` succeeded. A succeeded default
  task does not run again, and a single worker holds no task whose row says something else than `running`
  (`TasksHeld`): so nobody can bring a late batch. With two workers `TasksHeld` is false.

These rest on two facts about interleaving: a step of one worker leaves the registers of the
others alone (`OwnRegisters`), and only the steps of workers touch the providers (`WhoSteps`).

The promise, applying, leases (`DraftProofs`):

- `DraftsOnlyAsApproved`: `Spec => DraftsAsApproved`, the refinement of `ApprovedDrafts`. A transaction of
  the store fixes the package, approves it or keeps both (`StoreKeepsPromise`); the creation of a
  journal is `Create`, or a stutter when the proposal has one. The step needs `DraftInv`: the
  proposal in a worker's hand is one that was approved.
- `ApplyingNeverStuck`: `NoStuckApplying` relates the run's state, the task's row and the ledger of actions, which
  are written by different transactions. `ApplyInv` says how they move together: an approval always leaves an apply
  task (`ApplyRequested`), and after it the run never asks the controller again (`PastReview`); the ledger
  and the proposals tell the same story (`LedgerAgrees`).
- `ApprovedRunHasItsDraft`: with at most one proposal `ApprovedMeansAllDrafted` follows from `ApplyInv`: an approved run
  has succeeded once (`EndsWithDraft`), and one success is all. The code approves at the first success
  (`FirstSuccessEnds`), which is why two proposals refute it.
- `LeasedTasksRecover`, `TasksRecoverWithoutEmails`: every running task has a deadline and every ready one an attempt left
  (`Recoverable`), except `send_recovery_request`, whose upsert clears deadlines. The apply
  task is queued by an upsert as well; it is safe because an approval only ever meets a run without one, a
  part of `ApplyInv`.

### Plaid

- `CacheFollowsPlaid`, `SuccessIsEarned`: `SyncInv` adds to the two properties what a worker has in hand (`Sound`):
  the pages it has staged are a view of Plaid at its own cursor, of accounts it may read, and at least as
  recent as its request. `StagedIsView` is the heart: applying the net effect of the next page to a view gives the
  view at the page's end. The workers need no exclusion from each other, which is why an
  overlapping sync can only replace one consistent pair by another.
- `EndedRequestsStay`: from the same invariant. A claim takes only ready rows, and the settling statements
  compare state, owner and lease.
- `PlaidTypeCorrect`: `BoundInv` adds that a row that waits has an attempt left (`Spent`): recovery of leases and `Fail` make a
  request ready only within its budget, so that the claim, which does not look at the attempts, never exceeds it;
  and that the queue holds every request once, because a receipt is recorded once.
- `OneFetchForEachKey`: a key is in flight exactly while one thread fetches it (`Fetchers`), and who waits for a key in flight will be
  woken (`Waiters`). For the budget, the deque and the history of all fetches are compared: the deque ends with all fetches of the
  last minute, after some that are older (`Remembered`). Pruning drops only stamps older than a
  minute, because the deque is sorted, so counting the deque is counting the last minute.
- `KeysTypeCorrect`: from the same invariant.

### Pool, refresh, onboarding

- `OneChain`: `TokenSpec => ChainSpec`. `ChainInv` says that a thread with a received token is alone with it, that no
  token is ahead of Xero's, and that an accepted token in hand is also the stored one unless that was
  deleted. The advisory lock is not needed for this: Xero's accepting a token once is enough.
- `EveryConnectionCounted`: `PoolAccounted`. Each operation of the pool is one lemma, about any number of
  threads: what it adds to `created` is what it adds to the idle, borrowed and opening connections. Which lemma
  applies depends on how many connections a thread holds where it is in a refresh (`HoldsSlots`).
- `NoLostWakeup`: `NoSleepingWaiter`. `acquire` takes idle connections from the end and discards those that are dead, without a
  notification; the proof compares what that frees with the threads already woken. A thread that goes to
  sleep has found neither a connection nor a slot, and whatever gives one back wakes a sleeper, if there is one.
- `FailuresHaveCauses`: `RotationsExplained`. That a token is refused only for a cause needs the lock: from reading the token to
  the unlock a thread is alone unless a session was lost (`Exclusive`), and then what it read is what Xero
  accepts (`Fresh`). That a store is never starved in a pool larger than its number of threads is a
  count: while the lock's holder stores, every other thread of its process has at most one connection.
- `TokenTypeCorrect`: `created` is never negative and never above `pool_max_size`; the first follows from
  `PoolAccounted`, not from the code of a single operation.
- `CodesRedeemedOnce`: a callback owns the authorization it redeemed (`Owned`), because reading and
  deleting the session is one statement, or because Plaid accepts a public token once.
- `OnboardingTypeCorrect`: from the same invariant.
- `CredentialsKept`: `KeptInv` anticipates the deletions. A credential that is about to be deleted is in use by no healthy
  connection and by no callback, unless it is in `raced`; and nothing is registered with a credential
  that its Xero callback may still discard.

### Reconciliation

`reconcile` is a loop over the bank transactions, written as the recursive function `after`, and the totals are sums over
finite sets. The induction theorems of the library cannot be instantiated by the provers, so `ReconcileProofs` replaces
them with least counterexamples: `LeastSet` and `LeastNumber` follow from well-foundedness, and `OverSubsets` and `UpTo`
are the two forms of induction, with the predicate given as a set. From them come the laws of a sum: that its
recursive function exists (`SumsExist`, by the size of the subsets) and does not depend on the set it was
defined over (`SumsAgree`), that any element may be taken out first (`SumTakes`), and the sum of two parts (`SumParts`).

- `EveryTransactionAccounted`: `EverythingAccounted`. The invariant of the loop is `Accounted`, about the transactions done so
  far: each is in one match or in one exception (`EitherOr`), no two matches share a transaction (`MatchesDisjoint`),
  each ties within the window (`MatchesTie`), and no exception is about two transactions or about the ledger.
  `OneBank` reduces the branches of the loop's body to two outcomes, an exception or a match with free ledger
  transactions; it does not matter which size of group came first, only that exactly one group was left. The equation of the totals
  is an induction over the matches (`GapsExplainMatches`): each adds its gap, because it shares nothing with the others.
- `ReportsAndProposalsSound`: `ExecutionSound`. A bank transaction without a match has an exception, so a report without material
  exceptions leaves nothing large open (`PassedIsClear`). A proposal belongs to one unmatched bank transaction whose account is
  mapped, because an execution with an unmapped one is refused (`PostedForOneBank`); so the cash lines of all
  proposals add up to what is unmatched (`SumOverExceptions`), and with the equation above the gap closes.
- `ExecutionWellTyped`: from the same account. The invariant of the specification, `ExecutionInv`, says that what has been derived
  is what the facts say, which never change.

### Model-checked only

- Liveness and `ENABLED` (`ApplyingEnds`, `PreparationSettles`, `LeaseRecovery`, `ReadyTaskClaimed`, `RefreshEnds`,
  `RequestsEnd`) are out of the prover's reach.
- `CredentialsTypeOK` and `FactsTypeOK` are conjunctions for an instance that runs parts beside each other; each of their parts
  (`TokenTypeOK`, `OnboardingTypeOK`, `PlaidTypeOK`, `KeysTypeOK`, `ExecutionTypeOK`) is a theorem of its own specification.

## 6. Not modelled, and what is left

Not modelled, with the reason:

- *Reports* (`reports.py`), *evidence collection* and *explanations*: functions from provider data to fields
  that no transaction reads; where their verdict matters it is a choice of the task.
- *Archive* (`b2.py`), *preflight*, *authentication*, *web interface*: input and output without a state of a run.
- *Mapping versions* (`close_mapping.py`): a run reads the version that it was created with; a version never
  changes.
- *Google's refresh* and *Xero's paging*: no token that rotates and no cursor that is kept.
- The *in-memory service*, the demo executors and the *fixtures*: not run in production mode.

Hazards without a property are listed in `PROJECT.json` with the reason; three of them are flaws that
section 4 describes, so that a passing property would have to exclude them, and one (starvation by
Plaid requests) needs an unbounded supply.

Left to prove: liveness, when a prover for it is at hand. Every safety invariant and action property of the runs
that is not a conjunction for an instance is a theorem, some under the conditions that section 5 states.
