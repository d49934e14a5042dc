----------------------------- MODULE CloseWorkflow -----------------------------
(***************************************************************************)
(* One close run of AccountingOS: the store, its worker processes, and the *)
(* operator and controller who reach the store through the API while the   *)
(* workers run.                                                            *)
(***************************************************************************)
EXTENDS CloseWorker

CONSTANT MaxRetries  \* bound: retries of the run by the operator

VARIABLE retries     \* how often the operator retried the run

allVars == <<vars, retries>>

ASSUME CloseWorkflowAssumption == MaxRetries \in Nat

WorkflowInit == StoreInit /\ WorkerInit /\ retries = 0

-----------------------------------------------------------------------------
(* The API *)

OperatorRetry ==
    /\ retries < MaxRetries
    /\ RetryRun
    /\ retries' = retries + 1
    /\ UNCHANGED <<worker, providerVars>>

OperatorCancel ==
    /\ CancelRun
    /\ UNCHANGED <<worker, providerVars, retries>>

\* POST prepare-review takes any proposals within the mapping's account codes.
OperatorPrepareReview(content) ==
    /\ CreateReviewPackage(content)
    /\ UNCHANGED <<worker, providerVars, retries>>

ControllerApprove ==
    /\ ApproveReviewPackage(package.content)
    /\ UNCHANGED <<worker, providerVars, retries>>

ControllerRequestChanges ==
    /\ RequestReviewChanges(package.content)
    /\ UNCHANGED <<worker, providerVars, retries>>

OperatorQueueEmail(e) ==
    /\ QueueRecoveryEmail(e)
    /\ UNCHANGED <<worker, providerVars, retries>>

OperatorResolve(e) ==
    /\ ResolveException(e)
    /\ UNCHANGED <<worker, providerVars, retries>>

Api ==
    \/ OperatorRetry
    \/ OperatorCancel
    \/ \E content \in SUBSET Proposals : OperatorPrepareReview(content)
    \/ ControllerApprove
    \/ ControllerRequestChanges
    \/ \E e \in Exceptions : OperatorQueueEmail(e) \/ OperatorResolve(e)

-----------------------------------------------------------------------------
(* The workers *)

Poll(w) == (\E k \in TaskKeys : Claim(w, k)) \/ FindNothing(w)

Prepare(w) ==
    \/ Preflight(w)
    \/ ReadSources(w)
    \/ CommitSources(w)
    \/ ReadSnapshot(w)
    \/ CommitEvidence(w)
    \/ CommitExecution(w)
    \/ FreezePackage(w)
    \/ ArchivePackage(w)

ActOnXero(w) ==
    \/ EnsureAction(w)
    \/ StartAction(w)
    \/ SearchJournals(w)
    \/ CreateJournal(w)
    \/ CreateRefused(w)
    \/ ReadBack(w)
    \/ RecoverJournal(w)

ActOnGmail(w) ==
    \/ AuthorizeEmail(w)
    \/ LookUpSent(w)
    \/ MarkStarted(w)
    \/ SendEmail(w)
    \/ ReclaimSent(w)

Loop(w) == LoadItems(w) \/ NextItem(w) \/ NoMoreItems(w) \/ WriteOutcome(w)

\* A step of the process itself: it always ends in Finish or LeaveTask.
Work(w) ==
    \/ Prepare(w) \/ Loop(w) \/ ActOnXero(w) \/ ActOnGmail(w)
    \/ ExecutorFails(w) \/ SendFails(w) \/ Finish(w) \/ LeaveTask(w)

Working(w, k) == worker[w].pc # "idle" /\ worker[w].task = k

Expire(k) == LeaseExpires(k) /\ UNCHANGED <<worker, providerVars>>

WorkersNext ==
    /\ \/ \E w \in Workers : Poll(w) \/ Work(w) \/ Crash(w)
       \/ \E k \in TaskKeys : Expire(k)
    /\ UNCHANGED retries

Next == Api \/ WorkersNext

Spec == WorkflowInit /\ [][Next]_allVars

-----------------------------------------------------------------------------
(* A worker process keeps polling, and an executor that runs comes to an end:  *)
(* it loops over loaded rows, its calls time out, and every exception is       *)
(* caught.  A lease nobody works on is not renewed and its deadline passes.    *)
(* The API, a crash and the loss of a live lease are never forced.             *)

Orphaned(k) == \A w \in Workers : ~Working(w, k)

Fairness ==
    /\ \A w \in Workers : WF_allVars(Poll(w) /\ UNCHANGED retries)
    /\ \A w \in Workers : WF_allVars(Work(w) /\ UNCHANGED retries)
    /\ \A k \in TaskKeys : WF_allVars(Orphaned(k) /\ Expire(k) /\ UNCHANGED retries)

FairSpec == Spec /\ Fairness
=============================================================================
