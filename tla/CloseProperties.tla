---------------------------- MODULE CloseProperties ----------------------------
(***************************************************************************)
(* What one close run promises, beyond the properties of the store alone.  *)
(***************************************************************************)
EXTENDS CloseWorkflow

Succeeded(k) == tasks[k].state = "succeeded"

\* The program counters inside _execute_proposal and inside _send.
XeroPC  == {"ensure", "start", "search", "create", "readback", "recover"}
GmailPC == {"authorize", "lookup", "mark", "send", "reclaim", "conclude"}

\* The registers of a worker: a program counter of an executor belongs to that
\* executor's task, the items are rows of that task's provider, and the result
\* is an action status only between an answer and the write that records it.
Registers == [pc     : WorkerPC,
              task   : TaskKeys,
              todo   : SUBSET (Proposals \cup Exceptions),
              item   : Proposals \cup Exceptions \cup {NoItem},
              result : {"ok", "blocked", "error"} \cup DecidedStatus]

OnProposals(r) == r.pc \in XeroPC \/ (r.pc = "settle" /\ r.task = "apply_approved_actions")
OnEmails(r)    == r.pc \in GmailPC \/ (r.pc = "settle" /\ r.task = "send_recovery_request")

Coherent(r) ==
    /\ OnProposals(r) => r.task = "apply_approved_actions" /\ r.item \in Proposals
    /\ OnEmails(r) => r.task = "send_recovery_request" /\ r.item \in Exceptions
    /\ r.pc \in {"each", "settle"} =>
         r.task \in {"apply_approved_actions", "send_recovery_request"}
    /\ r.task = "apply_approved_actions" => r.todo \subseteq Proposals
    /\ r.task = "send_recovery_request" => r.todo \subseteq Exceptions
    /\ r.pc \in {"conclude", "settle"} => r.result \in DecidedStatus
    /\ r.pc = "finish" => r.result \in {"ok", "blocked", "error"}

WorkerTypeOK ==
    /\ worker \in [Workers -> Registers]
    /\ \A w \in Workers : Coherent(worker[w])

\* The type invariant of the whole system.
TypeOK ==
    /\ StoreTypeOK
    /\ WorkerTypeOK
    /\ journals \in [Proposals -> 0..MaxJournals]
    /\ sent \in [Exceptions -> 0..MaxSent]
    /\ retries \in 0..MaxRetries

-----------------------------------------------------------------------------
(* Preparation *)

\* A succeeded task has left behind what the tasks after it read: complete_task
\* is a separate transaction from those that persist the task's outcome, and the
\* worker that calls it may have been overtaken by another one.
TaskEffects ==
    /\ Succeeded("synchronize_sources") => snapshot
    /\ Succeeded("collect_evidence") => checklist # "none"
    /\ Succeeded("reconcile") => report # "none" /\ package.status # "none" /\ artifact

\* The controller is only ever asked about a package that has a snapshot and a
\* persisted report behind it, though prepare-review may be called at any time.
ReviewableWhenAwaiting ==
    runState = "awaiting_approval" => snapshot /\ report # "none" /\ package.status # "none"

\* A cancelled run stays quiet once its running workers have stopped: nothing
\* claims its tasks again, and no journal is created and no message sent.
CancelStopsNewWork ==
    [][(runState = "cancelled" /\ \A w \in Workers : worker[w].pc = "idle")
         => UNCHANGED <<worker, journals, sent>>]_allVars

-----------------------------------------------------------------------------
(* Approved actions *)

\* A draft journal in Xero belongs to a proposal of the package that the
\* controller approved (approve_review_package, approved_xero_proposals_for_run).
DraftsNeedApproval ==
    \A p \in Proposals : journals[p] > 0 => "approved" \in decisions /\ p \in package.content

\* The store, the workers and Xero together implement the promise made to the
\* controller: what is reviewed is fixed, what is approved is what was reviewed,
\* and each draft that appears is the next one of the approved journals.
Promise == INSTANCE ApprovedDrafts WITH
    fixed    <- package.status # "none",
    content  <- package.content,
    approved <- "approved" \in decisions,
    created  <- {p \in Proposals : journals[p] > 0}

DraftsAsApproved == Promise!DraftsSpec

\* A proposal marked as actioned has a journal in Xero and a manifest: no
\* recovery path of _execute_proposal records a success it did not observe.
VerifiedDrafts ==
    \A p \in Proposals : proposals[p] = "actioned" => journals[p] > 0 /\ p \in manifests

\* However often the worker dies and the task is claimed again, at most one
\* journal per proposal is created: the marker search comes before every POST.
\* With one worker process; DivDuplicate shows the race of two.
NoDuplicateDraft == \A p \in Proposals : journals[p] <= 1

\* The evidence checklist that the controller approved stays complete: nothing
\* evaluates it again for an approved run.  With one worker process: the late answer
\* of an overtaken one replaces it.
EvidenceCompleteAfterApproval == "approved" \in decisions => checklist = "ready"

\* A run reported as approved has all intended drafts.  For packages of one
\* proposal; DivApproved shows what update_action_execution does with two.
ApprovedMeansAllDrafted ==
    runState = "approved" => \A p \in package.content : journals[p] > 0

\* While approved actions are being applied there is a task to apply them, or
\* a worker that will still say what became of them.
NoStuckApplying ==
    runState = "applying_approved_actions" =>
        tasks["apply_approved_actions"].state \in {"ready", "running"}

-----------------------------------------------------------------------------
(* Leases and attempts *)

\* Every running task has a deadline, so that a dead worker's task is found.
\* Without recovery emails: the upsert of a second recovery email clears the
\* deadline of a running task.
RunningTasksLeased ==
    \A k \in TaskKeys : tasks[k].state = "running" => tasks[k].expiry # "null"

\* Every ready task has attempts left, so that some worker can claim it: the
\* resets of retry_run, retry_task and the claim agree on the budget.  Without
\* recovery emails: their upsert keeps a used-up budget.
ReadyTasksHaveBudget ==
    \A k \in TaskKeys : tasks[k].state = "ready" => tasks[k].attempt < MaxAttempts

-----------------------------------------------------------------------------
(* Recovery emails *)

\* At most one message per exception is sent: the sent mail is searched first.
NoDuplicateSend == \A e \in Exceptions : sent[e] <= 1

\* A message that the ledger reports as sent was sent: neither the first search
\* nor the one after a failure invents an answer.
VerifiedSends == \A e \in Exceptions : emails[e] \in Done => sent[e] > 0

-----------------------------------------------------------------------------
(* Liveness, under FairSpec *)

LeasedTasks == TaskKeys \ {"send_recovery_request"}

\* A task that a worker abandoned does not stay running: its lease passes, it is
\* claimed again, and when its attempts are used up the sweep fails it.  A
\* cancelled run is not polled.
LeaseRecovery ==
    \A k \in LeasedTasks :
        tasks[k].state = "running" ~> tasks[k].state # "running" \/ runState = "cancelled"

\* A ready task is claimed or cancelled.
ReadyTaskClaimed ==
    \A k \in LeasedTasks :
        tasks[k].state = "ready" ~> tasks[k].state # "ready" \/ runState = "cancelled"

\* Preparation comes to rest: a decision, a blocker or a cancellation.
PreparationSettles ==
    runState \in {"synchronizing", "running"} ~> runState \notin {"synchronizing", "running"}

\* Applying the approved actions ends.
ApplyingEnds ==
    runState = "applying_approved_actions" ~> runState # "applying_approved_actions"
=============================================================================
