------------------------------ MODULE CloseWorker ------------------------------
(***************************************************************************)
(* The worker processes: DurableWorkflowWorker.process_once and the task   *)
(* executors of production mode, together with the two providers they      *)
(* write to, Xero (journals) and Gmail (sent mail).                        *)
(*                                                                         *)
(* A worker runs one task at a time.  Between two transactions, or a       *)
(* transaction and a provider call, every other actor may step, the lease  *)
(* may run out and the process may die.  A provider read has no effect, so *)
(* it is one step with the control flow that follows from its answer.      *)
(***************************************************************************)
EXTENDS CloseStore

CONSTANTS
    MaxJournals,  \* bound: journals created per proposal
    MaxSent       \* bound: messages sent per exception

ASSUME CloseWorkerAssumption == MaxJournals \in Nat /\ MaxSent \in Nat

VARIABLES
    worker,    \* what each worker process holds in memory
    journals,  \* Xero: draft journals whose narration has the proposal's marker
    sent       \* Gmail: sent messages that carry the exception's marker

providerVars == <<journals, sent>>
vars == <<storeVars, worker, providerVars>>

NoItem == 0

\* "conclude" writes an outcome inside the try block of _send, "settle" one
\* whose failure leaves the executor.
WorkerPC == {"idle", "execute", "persist", "freeze", "archive", "each", "ensure", "start",
             "search", "create", "readback", "recover", "authorize", "lookup", "mark",
             "send", "reclaim", "conclude", "settle", "finish"}

Idle == [pc |-> "idle", task |-> "preflight", todo |-> {}, item |-> NoItem, result |-> "ok"]

WorkerInit ==
    /\ worker = [w \in Workers |-> Idle]
    /\ journals = [p \in Proposals |-> 0]
    /\ sent = [e \in Exceptions |-> 0]

-----------------------------------------------------------------------------
At(w, pc, k) == worker[w].pc = pc /\ worker[w].task = k

GoTo(w, pc) == worker' = [worker EXCEPT ![w].pc = pc]

\* The executor returns ("ok") or raises TaskBlocked ("blocked") or another
\* exception ("error").
Return(w, result) == worker' = [worker EXCEPT ![w].pc = "finish", ![w].result = result]

\* The next step writes status s of the item's action.
Write(w, pc, s) == worker' = [worker EXCEPT ![w].pc = pc, ![w].result = s]

Claim(w, k) ==
    /\ worker[w].pc = "idle"
    /\ ClaimNextTask(w, k)
    /\ worker' = [worker EXCEPT ![w] = [Idle EXCEPT !.pc = "execute", !.task = k]]
    /\ UNCHANGED providerVars

FindNothing(w) ==
    /\ worker[w].pc = "idle"
    /\ SweepOnly
    /\ UNCHANGED <<worker, providerVars>>

\* Mutant of Finish: success is written without checking the ownership.
FinishUnowned(w) ==
    /\ worker[w].pc = "finish"
    /\ IF worker[w].result = "ok"
       THEN /\ tasks' = Promoted([tasks EXCEPT ![worker[w].task] = Released(@, "succeeded")])
            /\ UNCHANGED <<runState, closeVars, exceptions, reviewVars, proposals, actionVars>>
       ELSE BlockTask(w, worker[w].task)
    /\ worker' = [worker EXCEPT ![w] = Idle]
    /\ UNCHANGED providerVars

Finish(w) ==
    /\ worker[w].pc = "finish"
    /\ LET k == worker[w].task IN
         CASE worker[w].result = "ok"      -> CompleteTask(w, k)
           [] worker[w].result = "blocked" -> BlockTask(w, k)
           [] worker[w].result = "error"   -> RetryTask(w, k)
    /\ worker' = [worker EXCEPT ![w] = Idle]
    /\ UNCHANGED providerVars

\* The heartbeat could not renew the lease, or the transaction of Finish is
\* refused or cannot reach the database: the task is left as it is.
LeaveTask(w) ==
    /\ worker[w].pc = "finish"
    /\ worker' = [worker EXCEPT ![w] = Idle]
    /\ UNCHANGED <<storeVars, providerVars>>

\* The process dies; the row keeps its owner and its deadline.
Crash(w) ==
    /\ worker[w].pc \notin {"idle", "finish"}
    /\ worker' = [worker EXCEPT ![w] = Idle]
    /\ UNCHANGED <<storeVars, providerVars>>

\* Mutant of ExecutorFails: the exception is swallowed.
SwallowFailure(w) ==
    /\ worker[w].pc \in {"execute", "persist", "freeze", "archive"}
    /\ Return(w, "ok")
    /\ UNCHANGED <<storeVars, providerVars>>

\* A transaction is refused, or a read, a credential, the database or a
\* provider fails, where nothing but process_once catches it.
ExecutorFails(w) ==
    /\ worker[w].pc \in {"execute", "persist", "freeze", "archive", "ensure", "start", "settle"}
    /\ \E result \in {"blocked", "error"} : Return(w, result)
    /\ UNCHANGED <<storeVars, providerVars>>

\* The same inside the try block of _send, which then looks for its message.
SendFails(w) ==
    /\ worker[w].pc \in {"authorize", "lookup", "mark", "send", "conclude"}
    /\ GoTo(w, "reclaim")
    /\ UNCHANGED <<storeVars, providerVars>>

-----------------------------------------------------------------------------
(* preflight, synchronize_sources, collect_evidence, reconcile *)

Preflight(w) ==
    /\ At(w, "execute", "preflight")
    /\ Return(w, "ok")
    /\ UNCHANGED <<storeVars, providerVars>>

ReadSources(w) ==
    /\ At(w, "execute", "synchronize_sources")
    /\ runState = "synchronizing"
    /\ IF snapshot THEN Return(w, "ok") ELSE GoTo(w, "persist")
    /\ UNCHANGED <<storeVars, providerVars>>

CommitSources(w) ==
    /\ At(w, "persist", "synchronize_sources")
    /\ PersistSourceSnapshot
    /\ Return(w, "ok")
    /\ UNCHANGED providerVars

ReadSnapshot(w) ==
    /\ At(w, "execute", "collect_evidence") \/ At(w, "execute", "reconcile")
    /\ snapshot
    /\ GoTo(w, "persist")
    /\ UNCHANGED <<storeVars, providerVars>>

CommitEvidence(w) ==
    /\ At(w, "persist", "collect_evidence")
    /\ \E verdict \in {"ready", "missing"} :
         /\ PersistEvidenceBatch(verdict)
         /\ Return(w, IF verdict = "ready" THEN "ok" ELSE "blocked")
    /\ UNCHANGED providerVars

\* The explanations that follow change no row that another transaction reads.
CommitExecution(w) ==
    /\ At(w, "persist", "reconcile")
    /\ \E control \in {"passed", "exception"} : PersistCloseExecution(control)
    /\ GoTo(w, "freeze")
    /\ UNCHANGED providerVars

FreezePackage(w) ==
    /\ At(w, "freeze", "reconcile")
    /\ CreateReviewPackage(Derived)
    /\ GoTo(w, "archive")
    /\ UNCHANGED providerVars

ArchivePackage(w) ==
    /\ At(w, "archive", "reconcile")
    /\ RecordCloseArtifact
    /\ Return(w, "ok")
    /\ UNCHANGED providerVars

-----------------------------------------------------------------------------
(* The loop of both action executors over the rows they loaded *)

LoadItems(w) ==
    /\ \/ At(w, "execute", "apply_approved_actions")
          /\ worker' = [worker EXCEPT ![w].pc = "each", ![w].todo = ApprovedProposals]
       \/ At(w, "execute", "send_recovery_request")
          /\ worker' = [worker EXCEPT ![w].pc = "each", ![w].todo = PreparedEmails]
    /\ UNCHANGED <<storeVars, providerVars>>

\* Proposals go in id order.  Messages go in the order they were queued, which
\* the model does not keep: any loaded one may be next.
NextItem(w) ==
    /\ worker[w].pc = "each"
    /\ \E x \in worker[w].todo :
         IF worker[w].task = "apply_approved_actions"
         THEN /\ \A y \in worker[w].todo : x <= y
              /\ worker' = [worker EXCEPT ![w].pc = "ensure", ![w].item = x,
                                          ![w].todo = @ \ {x}]
         ELSE worker' = [worker EXCEPT ![w].pc = "authorize", ![w].item = x,
                                       ![w].todo = @ \ {x}]
    /\ UNCHANGED <<storeVars, providerVars>>

NoMoreItems(w) ==
    /\ worker[w].pc = "each"
    /\ worker[w].todo = {}
    /\ Return(w, "ok")
    /\ UNCHANGED <<storeVars, providerVars>>

\* update_action_execution with the outcome; only a success goes on.
WriteOutcome(w) ==
    /\ worker[w].pc \in {"conclude", "settle"}
    /\ LET s == worker[w].result IN
         /\ IF worker[w].task = "apply_approved_actions"
            THEN UpdateDraftAction(worker[w].item, s)
            ELSE UpdateEmailAction(worker[w].item, s)
         /\ IF s \in Done THEN Write(w, "each", "ok") ELSE Return(w, "blocked")
    /\ UNCHANGED providerVars

-----------------------------------------------------------------------------
(* XeroDraftActionExecutor._execute_proposal *)

EnsureAction(w) ==
    /\ worker[w].pc = "ensure"
    /\ EnsureDraftAction(worker[w].item)
    /\ GoTo(w, IF drafts[worker[w].item] \in Done THEN "each" ELSE "start")
    /\ UNCHANGED providerVars

StartAction(w) ==
    /\ worker[w].pc = "start"
    /\ UpdateDraftAction(worker[w].item, "started")
    /\ GoTo(w, "search")
    /\ UNCHANGED providerVars

\* Mutant of SearchJournals: create first, look for the marker only on failure.
CreateWithoutSearch(w) ==
    /\ worker[w].pc = "search"
    /\ GoTo(w, "create")
    /\ UNCHANGED <<storeVars, providerVars>>

SearchJournals(w) ==
    /\ worker[w].pc = "search"
    /\ LET found == journals[worker[w].item] IN
         \/ Write(w, "settle", "outcome_unknown")  \* the search failed
         \/ found > 1 /\ Write(w, "settle", "failed")
         \/ found = 1 /\ GoTo(w, "readback")
         \/ found = 0 /\ GoTo(w, "create")
    /\ UNCHANGED <<storeVars, providerVars>>

\* The POST carries no idempotency key: Xero makes a journal of each.
CreateJournal(w) ==
    /\ worker[w].pc = "create"
    /\ journals[worker[w].item] < MaxJournals
    /\ journals' = [journals EXCEPT ![worker[w].item] = @ + 1]
    /\ GoTo(w, "readback") \/ GoTo(w, "recover")  \* or the answer is lost
    /\ UNCHANGED <<storeVars, sent>>

CreateRefused(w) ==
    /\ worker[w].pc = "create"
    /\ GoTo(w, "recover")
    /\ UNCHANGED <<storeVars, providerVars>>

ReadBack(w) ==
    /\ worker[w].pc = "readback"
    /\ \/ Write(w, "settle", "succeeded")
       \/ Write(w, "settle", "failed")  \* the journal is not what was approved
       \/ GoTo(w, "recover")            \* the read failed
    /\ UNCHANGED <<storeVars, providerVars>>

\* Mutant of RecoverJournal: a search without an answer counts as a success.
RecoverWithoutJournal(w) ==
    /\ worker[w].pc = "recover"
    /\ Write(w, "settle", "succeeded")
    /\ UNCHANGED <<storeVars, providerVars>>

RecoverJournal(w) ==
    /\ worker[w].pc = "recover"
    /\ \/ Write(w, "settle", "outcome_unknown")
       \/ /\ journals[worker[w].item] = 1
          /\ \E s \in {"succeeded", "failed"} : Write(w, "settle", s)
    /\ UNCHANGED <<storeVars, providerVars>>

-----------------------------------------------------------------------------
(* GmailRecoveryActionExecutor._send *)

AuthorizeEmail(w) ==
    /\ worker[w].pc = "authorize"
    /\ \/ Write(w, "settle", "failed")  \* the policy refuses it
       \/ OtherEmailsSent(worker[w].item) = {} /\ GoTo(w, "lookup")
    /\ UNCHANGED <<storeVars, providerVars>>

\* Mutant of LookUpSent: the sent mail is not searched before a retry.
SendWithoutLookup(w) ==
    /\ worker[w].pc = "lookup"
    /\ GoTo(w, "mark")
    /\ UNCHANGED <<storeVars, providerVars>>

LookUpSent(w) ==
    /\ worker[w].pc = "lookup"
    /\ LET found == sent[worker[w].item] IN
         \/ Write(w, "conclude", "outcome_unknown")  \* the search is unavailable
         \/ found > 1 /\ Write(w, "conclude", "failed")
         \/ found = 1 /\ Write(w, "conclude", "succeeded")
         \/ found = 0 /\ GoTo(w, "mark")
    /\ UNCHANGED <<storeVars, providerVars>>

MarkStarted(w) ==
    /\ worker[w].pc = "mark"
    /\ UpdateEmailAction(worker[w].item, "started")
    /\ GoTo(w, "send")
    /\ UNCHANGED providerVars

SendEmail(w) ==
    /\ worker[w].pc = "send"
    /\ sent[worker[w].item] < MaxSent
    /\ sent' = [sent EXCEPT ![worker[w].item] = @ + 1]
    /\ Write(w, "conclude", "succeeded") \/ GoTo(w, "reclaim")  \* or the answer is lost
    /\ UNCHANGED <<storeVars, journals>>

\* Mutant of ReclaimSent: not finding the message counts as a success.
ReclaimUnseen(w) ==
    /\ worker[w].pc = "reclaim"
    /\ Write(w, "settle", "reconciled")
    /\ UNCHANGED <<storeVars, providerVars>>

ReclaimSent(w) ==
    /\ worker[w].pc = "reclaim"
    /\ \/ Write(w, "settle", "outcome_unknown")
       \/ sent[worker[w].item] = 1 /\ Write(w, "settle", "reconciled")
    /\ UNCHANGED <<storeVars, providerVars>>
=============================================================================
