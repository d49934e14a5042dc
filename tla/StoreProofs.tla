------------------------------ MODULE StoreProofs ------------------------------
(***************************************************************************)
(* The properties of CloseStore hold for every number of workers, attempts *)
(* proposals and exceptions.  StoreTypeOK, DependencyOrder and             *)
(* ApprovalGate are inductive; the two action properties need no           *)
(* invariant.                                                              *)
(***************************************************************************)
EXTENDS CloseStore, TLAPS

-----------------------------------------------------------------------------
(* Rows of the task queue *)

\* Every statement of the queue turns a row into a row; the claim needs an
\* attempt that is left (claim_next_task, _finish_task, retry_task, the upsert
\* of apply_approved_actions and send_recovery_request).
LEMMA RowsStayRows ==
    ASSUME NEW row \in Row, NEW w \in Workers
    PROVE  /\ \A s \in TaskState : Released(row, s) \in Row
           /\ \A s \in TaskState : Inserted(s) \in Row
           /\ Claimable(row) => Claimed(row, w) \in Row
           /\ AfterFailure(row) \in Row
<1>1. \A s \in TaskState : Released(row, s) \in Row
  BY DEF Released, Row
<1>2. \A s \in TaskState : Inserted(s) \in Row
  BY TaskRowAssumption DEF Inserted, Row
<1>3. Claimable(row) => Claimed(row, w) \in Row
  BY TaskRowAssumption DEF Claimable, Claimed, Row, TaskState
<1>4. AfterFailure(row) \in Row
  BY <1>1 DEF AfterFailure, TaskState
<1> QED
  BY <1>1, <1>2, <1>3, <1>4

\* The upsert of an approval or of a recovery email, which names no worker.
LEMMA RequeuedIsRow == ASSUME NEW row \in Row PROVE Requeued(row) \in Row
<1>1. Inserted("ready") \in Row
  BY TaskRowAssumption DEF Inserted, Row, TaskState
<1>2. \A s \in TaskState : Released(row, s) \in Row
  BY DEF Released, Row
<1> QED
  BY <1>1, <1>2 DEF Requeued, Row, TaskState

\* The sweep of claim_next_task and the promotion of _finish_task.
LEMMA SweepKeepsRows ==
    ASSUME tasks \in [TaskKeys -> Row]
    PROVE  Swept \in [TaskKeys -> Row]
<1> SUFFICES ASSUME NEW k \in TaskKeys PROVE Swept[k] \in Row
  BY DEF Swept
<1>1. Released(tasks[k], "failed") \in Row
  BY DEF Released, Row, TaskState
<1> QED
  BY <1>1 DEF Swept

\* A promotion only turns pending rows into ready ones: rows stay rows.
LEMMA PromotionKeepsRows ==
    ASSUME NEW ts \in [TaskKeys -> Row]
    PROVE  Promoted(ts) \in [TaskKeys -> Row]
<1> SUFFICES ASSUME NEW k \in TaskKeys PROVE Promoted(ts)[k] \in Row
  BY DEF Promoted
<1>1. [ts[k] EXCEPT !.state = "ready"] \in Row
  BY DEF Row, TaskState
<1> QED
  BY <1>1 DEF Promoted

\* retry_run and cancel_run, over all rows of the run.
LEMMA OperatorKeepsRows ==
    ASSUME tasks \in [TaskKeys -> Row]
    PROVE  /\ RetryRun => tasks' \in [TaskKeys -> Row]
           /\ CancelRun => tasks' \in [TaskKeys -> Row]
<1>1. ASSUME NEW k \in TaskKeys
      PROVE  Inserted("ready") \in Row /\ Released(tasks[k], "cancelled") \in Row
  <2>1. Inserted("ready") \in Row
    BY TaskRowAssumption DEF Inserted, Row, TaskState
  <2>2. Released(tasks[k], "cancelled") \in Row
    BY DEF Released, Row, TaskState
  <2> QED
    BY <2>1, <2>2
<1>2. RetryRun => tasks' \in [TaskKeys -> Row]
  BY <1>1 DEF RetryRun
<1>3. CancelRun => tasks' \in [TaskKeys -> Row]
  BY <1>1 DEF CancelRun
<1> QED
  BY <1>2, <1>3

\* Every transaction of the queue turns rows into rows.
LEMMA QueueKeepsRows ==
    ASSUME tasks \in [TaskKeys -> Row], QueueNext
    PROVE  tasks' \in [TaskKeys -> Row]
<1>1. ASSUME NEW w \in Workers, NEW k \in TaskKeys, ClaimNextTask(w, k)
      PROVE  tasks' \in [TaskKeys -> Row]
  <2>1. Claimable(tasks[k]) /\ tasks[k] \in Row
    BY <1>1 DEF ClaimNextTask, Candidates
  <2>2. Swept[k] = tasks[k]
    <3>1. tasks[k].attempt \in Nat /\ MaxAttempts \in Nat
      BY <2>1, TaskRowAssumption DEF Row
    <3>2. ~Exhausted(tasks[k])
      BY <2>1, <3>1 DEF Claimable, Exhausted
    <3> QED
      BY <3>2 DEF Swept
  <2>3. Claimed(tasks[k], w) \in Row
    BY <2>1, RowsStayRows
  <2>4. tasks' = [Swept EXCEPT ![k] = Claimed(tasks[k], w)]
    BY <1>1, <2>2, SweepKeepsRows DEF ClaimNextTask
  <2> QED
    BY <2>3, <2>4, SweepKeepsRows
<1>2. ASSUME NEW w \in Workers, NEW k \in TaskKeys, CompleteTask(w, k)
      PROVE  tasks' \in [TaskKeys -> Row]
  <2>1. [tasks EXCEPT ![k] = Released(@, "succeeded")] \in [TaskKeys -> Row]
    BY RowsStayRows DEF TaskState
  <2> QED
    BY <1>2, <2>1, PromotionKeepsRows DEF CompleteTask
<1>3. ASSUME NEW w \in Workers, NEW k \in TaskKeys, BlockTask(w, k)
      PROVE  tasks' \in [TaskKeys -> Row]
  BY <1>3, RowsStayRows DEF BlockTask, TaskState
<1>4. ASSUME NEW w \in Workers, NEW k \in TaskKeys, RetryTask(w, k)
      PROVE  tasks' \in [TaskKeys -> Row]
  BY <1>4, RowsStayRows DEF RetryTask
<1>5. CASE SweepOnly
  BY <1>5, SweepKeepsRows DEF SweepOnly
<1>6. ASSUME NEW k \in TaskKeys, LeaseExpires(k)
      PROVE  tasks' \in [TaskKeys -> Row]
  <2>1. [tasks[k] EXCEPT !.expiry = "expired"] \in Row
    BY DEF Row
  <2> QED
    BY <1>6, <2>1 DEF LeaseExpires
<1>7. CASE RetryRun
  BY <1>7, OperatorKeepsRows
<1>8. CASE CancelRun
  BY <1>8, OperatorKeepsRows
<1> QED
  BY <1>1, <1>2, <1>3, <1>4, <1>5, <1>6, <1>7, <1>8 DEF QueueNext

\* The states that a statement assigns to a run, and those it keeps.
LEMMA RunStates ==
    ASSUME runState \in RunState
    PROVE  /\ \A s \in RunState : UnlessTerminal(s) \in RunState
           /\ SweptRunState \in RunState
BY DEF UnlessTerminal, SweptRunState, RunState

-----------------------------------------------------------------------------
(* Type correctness *)

\* The rows that create_close_run inserts are well typed.
LEMMA TypeInit == StoreInit => StoreTypeOK
<1> SUFFICES ASSUME StoreInit PROVE StoreTypeOK
  OBVIOUS
<1>1. tasks \in [TaskKeys -> Row]
  <2>1. \A s \in TaskState : Inserted(s) \in Row
    BY TaskRowAssumption DEF Inserted, Row
  <2> QED
    BY <2>1 DEF StoreInit, TaskState
<1> QED
  BY <1>1, CloseStoreAssumption
     DEF StoreInit, StoreTypeOK, RunState, ActionStatus, Proposals, Exceptions

\* Every transaction of the store keeps its rows well typed.
LEMMA TypeStep == StoreTypeOK /\ [StoreNext]_storeVars => StoreTypeOK'
<1> SUFFICES ASSUME StoreTypeOK, [StoreNext]_storeVars PROVE StoreTypeOK'
  OBVIOUS
<1> USE DEF StoreTypeOK
<1>1. CASE QueueNext
  <2>1. tasks' \in [TaskKeys -> Row]
    BY <1>1, QueueKeepsRows
  <2>2. runState' \in RunState
    <3>1. UnlessTerminal("blocked") \in RunState /\ SweptRunState \in RunState
      BY RunStates DEF RunState
    <3>2. runState' \in {runState, SweptRunState, UnlessTerminal("blocked"),
                         "running", "synchronizing", "cancelled"}
      BY <1>1 DEF QueueNext, ClaimNextTask, CompleteTask, BlockTask, RetryTask,
                  SweepOnly, LeaseExpires, RetryRun, CancelRun
    <3> QED
      BY <3>1, <3>2 DEF RunState
  <2>3. UNCHANGED <<closeVars, exceptions, reviewVars, proposals, actionVars>>
    BY <1>1 DEF QueueNext, ClaimNextTask, CompleteTask, BlockTask, RetryTask,
                SweepOnly, LeaseExpires, RetryRun, CancelRun
  <2> QED
    BY <2>1, <2>2, <2>3 DEF closeVars, reviewVars, actionVars
<1>2. CASE PersistSourceSnapshot
  BY <1>2 DEF PersistSourceSnapshot, reviewVars, actionVars
<1>3. ASSUME NEW verdict \in {"ready", "missing"}, PersistEvidenceBatch(verdict)
      PROVE  StoreTypeOK'
  BY <1>3 DEF PersistEvidenceBatch, reviewVars, actionVars
<1>4. ASSUME NEW control \in {"passed", "exception"}, PersistCloseExecution(control)
      PROVE  StoreTypeOK'
  <2>1. /\ runState' \in RunState
        /\ report' \in {"none", "passed", "exception"}
        /\ exceptions' \in [Exceptions -> {"absent", "open", "closed"}]
    BY <1>4 DEF PersistCloseExecution, RunState
  <2> QED
    BY <1>4, <2>1 DEF PersistCloseExecution, reviewVars, actionVars
<1>5. CASE RecordCloseArtifact
  BY <1>5 DEF RecordCloseArtifact, reviewVars, actionVars
<1>6. ASSUME NEW content \in SUBSET Proposals, CreateReviewPackage(content)
      PROVE  StoreTypeOK'
  <2>1. /\ runState' \in RunState
        /\ package' \in [status : {"none", "review_frozen", "finalized"},
                         content : SUBSET Proposals]
        /\ proposals' \in [Proposals -> {"absent", "proposed", "approved", "actioned"}]
    BY <1>6 DEF CreateReviewPackage, RunState
  <2> QED
    BY <1>6, <2>1 DEF CreateReviewPackage, closeVars, actionVars
<1>7. ASSUME NEW content \in SUBSET Proposals, ApproveReviewPackage(content)
      PROVE  StoreTypeOK'
  <2>1. tasks' \in [TaskKeys -> Row]
    <3>1. Requeued(tasks["apply_approved_actions"]) \in Row
      BY RequeuedIsRow DEF TaskKeys
    <3> QED
      BY <1>7, <3>1 DEF ApproveReviewPackage
  <2>2. /\ runState' \in RunState
        /\ package' \in [status : {"none", "review_frozen", "finalized"},
                         content : SUBSET Proposals]
        /\ decisions' \subseteq {"approved", "changes_requested"}
        /\ proposals' \in [Proposals -> {"absent", "proposed", "approved", "actioned"}]
    BY <1>7 DEF ApproveReviewPackage, RunState
  <2> QED
    BY <1>7, <2>1, <2>2 DEF ApproveReviewPackage, closeVars, actionVars
<1>8. ASSUME NEW content \in SUBSET Proposals, RequestReviewChanges(content)
      PROVE  StoreTypeOK'
  BY <1>8 DEF RequestReviewChanges, closeVars, actionVars, RunState
<1>9. ASSUME NEW e \in Exceptions, QueueRecoveryEmail(e)
      PROVE  StoreTypeOK'
  <2>1. tasks' \in [TaskKeys -> Row]
    <3>1. Requeued(tasks["send_recovery_request"]) \in Row
      BY RequeuedIsRow DEF TaskKeys
    <3> QED
      BY <1>9, <3>1 DEF QueueRecoveryEmail
  <2>2. emails' \in [Exceptions -> ActionStatus]
    BY <1>9 DEF QueueRecoveryEmail, ActionStatus
  <2> QED
    BY <1>9, <2>1, <2>2 DEF QueueRecoveryEmail, closeVars, reviewVars
<1>10. ASSUME NEW e \in Exceptions, ResolveException(e)
       PROVE  StoreTypeOK'
  BY <1>10 DEF ResolveException, closeVars, reviewVars, actionVars
<1>11. ASSUME NEW p \in Proposals, EnsureDraftAction(p)
       PROVE  StoreTypeOK'
  BY <1>11 DEF EnsureDraftAction, closeVars, reviewVars, ActionStatus
<1>12. ASSUME NEW p \in Proposals, NEW s \in DecidedStatus \cup {"started"},
              UpdateDraftAction(p, s)
       PROVE  StoreTypeOK'
  <2>1. drafts' \in [Proposals -> ActionStatus]
    BY <1>12 DEF UpdateDraftAction, DecidedStatus, ActionStatus
  <2>2. /\ runState' \in RunState
        /\ proposals' \in [Proposals -> {"absent", "proposed", "approved", "actioned"}]
        /\ manifests' \subseteq Proposals
    BY <1>12, RunStates DEF UpdateDraftAction, RunState
  <2> QED
    BY <1>12, <2>1, <2>2 DEF UpdateDraftAction, closeVars, reviewVars
<1>13. ASSUME NEW e \in Exceptions, NEW s \in DecidedStatus \cup {"started"},
              UpdateEmailAction(e, s)
       PROVE  StoreTypeOK'
  <2>1. emails' \in [Exceptions -> ActionStatus]
    BY <1>13 DEF UpdateEmailAction, DecidedStatus, ActionStatus
  <2>2. runState' \in RunState
    BY <1>13, RunStates DEF UpdateEmailAction, RunState
  <2> QED
    BY <1>13, <2>1, <2>2 DEF UpdateEmailAction, closeVars, reviewVars
<1>14. CASE UNCHANGED storeVars
  BY <1>14 DEF storeVars, closeVars, reviewVars, actionVars
<1> QED
  BY <1>1, <1>2, <1>3, <1>4, <1>5, <1>6, <1>7, <1>8, <1>9, <1>10, <1>11, <1>12, <1>13, <1>14
     DEF StoreNext, PersistNext, ReviewNext, LedgerNext

\* The columns keep to their constraints, attempts to max_attempts, for every
\* number of workers, attempts, proposals and exceptions.
THEOREM StoreTypeCorrect == StoreSpec => []StoreTypeOK
BY TypeInit, TypeStep, PTL DEF StoreSpec

-----------------------------------------------------------------------------
(* The order of the tasks *)

Started(row) == row.state \notin {"absent", "pending", "cancelled"}

\* The prerequisites of a task are default tasks, never action tasks.
LEMMA PrerequisitesAreDefault == \A k \in TaskKeys : DependsOn(k) \subseteq DefaultTasks
BY DEF DependsOn, DefaultTasks, TaskKeys

\* The argument of the invariant: a prerequisite that has succeeded stays so,
\* and a task starts only over prerequisites that have succeeded.
LEMMA OrderPreserved ==
    ASSUME DependencyOrder,
           \A k \in DefaultTasks : tasks[k].state = "succeeded" => tasks'[k].state = "succeeded",
           \A k \in TaskKeys :
               Started(tasks'[k]) => Started(tasks[k]) \/ DependenciesMet(tasks', k)
    PROVE  DependencyOrder'
<1> SUFFICES ASSUME NEW k \in TaskKeys, Started(tasks'[k]) PROVE DependenciesMet(tasks', k)
  BY DEF DependencyOrder, DependenciesMet, Started
<1>1. CASE Started(tasks[k])
  <2>1. DependenciesMet(tasks, k)
    BY <1>1 DEF DependencyOrder, Started
  <2> QED
    BY <2>1, PrerequisitesAreDefault DEF DependenciesMet
<1> QED
  BY <1>1

\* A new run has made ready only the task without prerequisites.
LEMMA OrderInit == StoreInit => DependencyOrder
BY DEF StoreInit, DependencyOrder, DependenciesMet, DependsOn, Inserted, TaskKeys, DefaultTasks

\* A claim and its sweep only touch running and ready rows.
LEMMA OrderClaim ==
    ASSUME StoreTypeOK, DependencyOrder, NEW w \in Workers, NEW k \in TaskKeys,
           ClaimNextTask(w, k)
    PROVE  DependencyOrder'
<1>1. tasks[k].state \in {"ready", "running"}
  BY DEF ClaimNextTask, Candidates, Claimable
<1>2. \A j \in TaskKeys :
        j # k => tasks'[j] = IF Exhausted(tasks[j]) THEN Released(tasks[j], "failed")
                             ELSE tasks[j]
  BY DEF ClaimNextTask, Swept
<1>3. \A j \in TaskKeys \ {k} : Exhausted(tasks[j]) => tasks[j].state = "running"
  BY DEF Exhausted
<1>4. \A j \in TaskKeys : tasks[j].state = "succeeded" => tasks'[j].state = "succeeded"
  BY <1>1, <1>2, <1>3
<1>5. \A j \in TaskKeys : Started(tasks'[j]) => Started(tasks[j])
  BY <1>1, <1>2, <1>3 DEF Started
<1> QED
  BY <1>4, <1>5, OrderPreserved DEF TaskKeys

\* The sweep fails abandoned rows and leaves succeeded ones alone.
LEMMA OrderSweep == ASSUME DependencyOrder, SweepOnly PROVE DependencyOrder'
<1>1. \A j \in TaskKeys :
        tasks'[j] = IF Exhausted(tasks[j]) THEN Released(tasks[j], "failed") ELSE tasks[j]
  BY DEF SweepOnly, Swept
<1>2. \A j \in TaskKeys : Exhausted(tasks[j]) => tasks[j].state = "running"
  BY DEF Exhausted
<1>3. \A j \in TaskKeys : tasks[j].state = "succeeded" => tasks'[j].state = "succeeded"
  BY <1>1, <1>2
<1>4. \A j \in TaskKeys : Started(tasks'[j]) => Started(tasks[j])
  BY <1>1, <1>2 DEF Started
<1> QED
  BY <1>3, <1>4, OrderPreserved DEF TaskKeys

\* A completion promotes pending tasks whose prerequisites now have succeeded.
LEMMA OrderComplete ==
    ASSUME StoreTypeOK, DependencyOrder, NEW w \in Workers, NEW k \in TaskKeys,
           CompleteTask(w, k)
    PROVE  DependencyOrder'
<1> DEFINE done == [tasks EXCEPT ![k] = Released(@, "succeeded")]
<1>1. tasks[k].state = "running"
  BY DEF CompleteTask, Owned
<1>2. tasks[k] \in Row /\ tasks \in [TaskKeys -> Row]
  BY DEF StoreTypeOK
<1>3. /\ done[k].state = "succeeded"
      /\ \A j \in TaskKeys \ {k} : done[j] = tasks[j]
  BY <1>2 DEF Released, Row
<1>4. tasks' = Promoted(done)
  BY DEF CompleteTask
<1>5. \A j \in TaskKeys : done[j].state = "succeeded" => tasks'[j] = done[j]
  BY <1>4 DEF Promoted
<1>6. \A j \in TaskKeys : tasks[j].state = "succeeded" => tasks'[j].state = "succeeded"
  BY <1>1, <1>3, <1>5
<1>7. ASSUME NEW j \in TaskKeys, Started(tasks'[j])
      PROVE  Started(tasks[j]) \/ DependenciesMet(tasks', j)
  <2>1. CASE j = k
    BY <1>1, <2>1 DEF Started
  <2>2. CASE j # k /\ tasks'[j] = done[j]
    BY <1>3, <1>7, <2>2
  <2>3. CASE j # k /\ tasks'[j] # done[j]
    <3>1. DependenciesMet(done, j)
      BY <1>4, <2>3 DEF Promoted
    <3> QED
      BY <1>5, <3>1, PrerequisitesAreDefault DEF DependenciesMet, TaskKeys
  <2> QED
    BY <2>1, <2>2, <2>3
<1> QED
  BY <1>6, <1>7, OrderPreserved DEF TaskKeys

\* Every other statement changes one row that has started, or a row that no
\* other task waits for.
LEMMA OrderStep == StoreTypeOK /\ DependencyOrder /\ [StoreNext]_storeVars => DependencyOrder'
<1> SUFFICES ASSUME StoreTypeOK, DependencyOrder, [StoreNext]_storeVars PROVE DependencyOrder'
  OBVIOUS
<1>0. tasks \in [TaskKeys -> Row]
  BY DEF StoreTypeOK
<1>1. ASSUME NEW w \in Workers, NEW k \in TaskKeys, ClaimNextTask(w, k) PROVE DependencyOrder'
  BY <1>1, OrderClaim
<1>2. ASSUME NEW w \in Workers, NEW k \in TaskKeys, CompleteTask(w, k) PROVE DependencyOrder'
  BY <1>2, OrderComplete
<1>3. ASSUME NEW w \in Workers, NEW k \in TaskKeys, BlockTask(w, k) \/ RetryTask(w, k)
      PROVE  DependencyOrder'
  <2>1. tasks[k].state = "running"
    BY <1>3 DEF BlockTask, RetryTask, Owned
  <2>2. \A j \in TaskKeys \ {k} : tasks'[j] = tasks[j]
    BY <1>0, <1>3 DEF BlockTask, RetryTask
  <2>3. \A j \in TaskKeys : tasks[j].state = "succeeded" => tasks'[j].state = "succeeded"
    BY <2>1, <2>2
  <2>4. \A j \in TaskKeys : Started(tasks'[j]) => Started(tasks[j])
    BY <2>1, <2>2 DEF Started
  <2> QED
    BY <2>3, <2>4, OrderPreserved DEF TaskKeys
<1>4. CASE SweepOnly
  BY <1>4, OrderSweep
<1>5. ASSUME NEW k \in TaskKeys, LeaseExpires(k) PROVE DependencyOrder'
  <2>1. \A j \in TaskKeys : tasks'[j].state = tasks[j].state
    BY <1>0, <1>5 DEF LeaseExpires, Row
  <2> QED
    BY <2>1, OrderPreserved DEF TaskKeys, Started
<1>6. CASE RetryRun
  <2>1. \A j \in TaskKeys :
          tasks'[j] # tasks[j] => tasks[j].state \in {"blocked", "failed"}
    BY <1>6 DEF RetryRun
  <2>2. \A j \in TaskKeys : tasks[j].state = "succeeded" => tasks'[j].state = "succeeded"
    BY <2>1
  <2>3. \A j \in TaskKeys : Started(tasks'[j]) => Started(tasks[j])
    BY <2>1 DEF Started
  <2> QED
    BY <2>2, <2>3, OrderPreserved DEF TaskKeys
<1>7. CASE CancelRun
  <2>1. \A j \in TaskKeys :
          \/ tasks'[j] = tasks[j]
          \/ tasks[j].state \in {"pending", "ready"} /\ tasks'[j] = Released(tasks[j], "cancelled")
    BY <1>7 DEF CancelRun
  <2>2. \A j \in TaskKeys : Released(tasks[j], "cancelled").state = "cancelled"
    BY <1>0 DEF Released, Row
  <2>3. \A j \in TaskKeys : tasks[j].state = "succeeded" => tasks'[j].state = "succeeded"
    BY <2>1
  <2>4. \A j \in TaskKeys : Started(tasks'[j]) => Started(tasks[j])
    BY <2>1, <2>2 DEF Started
  <2> QED
    BY <2>3, <2>4, OrderPreserved DEF TaskKeys
<1>8. ASSUME NEW content \in SUBSET Proposals, ApproveReviewPackage(content)
      PROVE  DependencyOrder'
  <2>1. \A j \in TaskKeys \ {"apply_approved_actions"} : tasks'[j] = tasks[j]
    BY <1>0, <1>8 DEF ApproveReviewPackage
  <2>2. DependenciesMet(tasks', "apply_approved_actions")
    BY DEF DependenciesMet, DependsOn
  <2> QED
    BY <2>1, <2>2, OrderPreserved DEF TaskKeys, DefaultTasks
<1>9. ASSUME NEW e \in Exceptions, QueueRecoveryEmail(e) PROVE DependencyOrder'
  <2>1. \A j \in TaskKeys \ {"send_recovery_request"} : tasks'[j] = tasks[j]
    BY <1>0, <1>9 DEF QueueRecoveryEmail
  <2>2. DependenciesMet(tasks', "send_recovery_request")
    BY DEF DependenciesMet, DependsOn
  <2> QED
    BY <2>1, <2>2, OrderPreserved DEF TaskKeys, DefaultTasks
<1>10. CASE UNCHANGED tasks
  BY <1>10 DEF DependencyOrder, DependenciesMet
<1>11. PersistNext \/ LedgerNext \/ UNCHANGED storeVars => UNCHANGED tasks
  BY DEF PersistNext, PersistSourceSnapshot, PersistEvidenceBatch, PersistCloseExecution,
         RecordCloseArtifact, LedgerNext, EnsureDraftAction, UpdateDraftAction,
         UpdateEmailAction, storeVars
<1>12. ASSUME NEW content \in SUBSET Proposals,
              CreateReviewPackage(content) \/ RequestReviewChanges(content)
       PROVE  UNCHANGED tasks
  BY <1>12 DEF CreateReviewPackage, RequestReviewChanges
<1>13. ASSUME NEW e \in Exceptions, ResolveException(e) PROVE UNCHANGED tasks
  BY <1>13 DEF ResolveException
<1> QED
  BY <1>1, <1>2, <1>3, <1>4, <1>5, <1>6, <1>7, <1>8, <1>9, <1>10, <1>11, <1>12, <1>13
     DEF StoreNext, QueueNext, ReviewNext

\* A task is never worked on before its prerequisites have succeeded, whatever
\* retries, cancellations and requeueings the run went through.
THEOREM TasksFollowDependencies == StoreSpec => []DependencyOrder
<1>1. StoreInit => StoreTypeOK /\ DependencyOrder
  BY TypeInit, OrderInit
<1>2. StoreTypeOK /\ DependencyOrder /\ [StoreNext]_storeVars => (StoreTypeOK /\ DependencyOrder)'
  BY TypeStep, OrderStep
<1> QED
  BY <1>1, <1>2, PTL DEF StoreSpec

-----------------------------------------------------------------------------
(* The approval *)

\* The queue, the resolution of exceptions and the ledger stay away from what
\* the controller decides upon.
LEMMA ReviewUntouched ==
    ASSUME \/ QueueNext \/ LedgerNext \/ UNCHANGED storeVars
           \/ \E e \in Exceptions : QueueRecoveryEmail(e) \/ ResolveException(e)
    PROVE  UNCHANGED <<report, package, decisions>>
<1>1. QueueNext => UNCHANGED <<report, package, decisions>>
  BY DEF QueueNext, ClaimNextTask, CompleteTask, BlockTask, RetryTask, SweepOnly,
         LeaseExpires, RetryRun, CancelRun, closeVars, reviewVars
<1>2. LedgerNext \/ UNCHANGED storeVars => UNCHANGED <<report, package, decisions>>
  BY DEF LedgerNext, EnsureDraftAction, UpdateDraftAction, UpdateEmailAction,
         closeVars, reviewVars, storeVars
<1>3. ASSUME NEW e \in Exceptions, QueueRecoveryEmail(e) \/ ResolveException(e)
      PROVE  UNCHANGED <<report, package, decisions>>
  BY <1>3 DEF QueueRecoveryEmail, ResolveException, closeVars, reviewVars
<1> QED
  BY <1>1, <1>2, <1>3

\* A new run has no recorded decision.
LEMMA ApprovalInit == StoreInit => ApprovalGate
BY DEF StoreInit, ApprovalGate

\* No transaction replaces the report or the package behind an approval.
LEMMA ApprovalStep == StoreTypeOK /\ ApprovalGate /\ [StoreNext]_storeVars => ApprovalGate'
<1> SUFFICES ASSUME StoreTypeOK, ApprovalGate, [StoreNext]_storeVars PROVE ApprovalGate'
  OBVIOUS
<1>1. package \in [status : {"none", "review_frozen", "finalized"}, content : SUBSET Proposals]
  BY DEF StoreTypeOK
<1>2. CASE PersistNext
  <2>1. UNCHANGED <<package, decisions>>
    BY <1>2 DEF PersistNext, PersistSourceSnapshot, PersistEvidenceBatch,
                PersistCloseExecution, RecordCloseArtifact, reviewVars
  <2>2. report # "none" => report' = report
    BY <1>2 DEF PersistNext, PersistSourceSnapshot, PersistEvidenceBatch,
                PersistCloseExecution, RecordCloseArtifact
  <2> QED
    BY <2>1, <2>2 DEF ApprovalGate
<1>3. ASSUME NEW content \in SUBSET Proposals, CreateReviewPackage(content)
      PROVE  ApprovalGate'
  <2>1. UNCHANGED <<report, decisions>>
    BY <1>3 DEF CreateReviewPackage, closeVars
  <2>2. package.status # "none" => package' = package
    BY <1>3 DEF CreateReviewPackage
  <2> QED
    BY <2>1, <2>2 DEF ApprovalGate
<1>4. ASSUME NEW content \in SUBSET Proposals, ApproveReviewPackage(content)
      PROVE  ApprovalGate'
  <2>1. report' = "passed"
    BY <1>4 DEF ApproveReviewPackage, closeVars
  <2>2. package'.status = "finalized"
    BY <1>1, <1>4 DEF ApproveReviewPackage
  <2> QED
    BY <2>1, <2>2 DEF ApprovalGate
<1>5. ASSUME NEW content \in SUBSET Proposals, RequestReviewChanges(content)
      PROVE  ApprovalGate'
  <2>1. UNCHANGED <<report, package>> /\ decisions' = decisions \cup {"changes_requested"}
    BY <1>5 DEF RequestReviewChanges, closeVars
  <2> QED
    BY <2>1 DEF ApprovalGate
<1>6. UNCHANGED <<report, package, decisions>> => ApprovalGate'
  BY DEF ApprovalGate
<1> QED
  BY <1>2, <1>3, <1>4, <1>5, <1>6, ReviewUntouched DEF StoreNext, ReviewNext

\* Nothing that happens after an approval takes away what it was based on.
THEOREM ApprovalsStayJustified == StoreSpec => []ApprovalGate
<1>1. StoreInit => StoreTypeOK /\ ApprovalGate
  BY TypeInit, ApprovalInit
<1>2. StoreTypeOK /\ ApprovalGate /\ [StoreNext]_storeVars => (StoreTypeOK /\ ApprovalGate)'
  BY TypeStep, ApprovalStep
<1> QED
  BY <1>1, <1>2, PTL DEF StoreSpec

\* No transaction changes the content of a package that exists.
LEMMA FreezeStep ==
    ASSUME StoreTypeOK, [StoreNext]_storeVars, package.status # "none"
    PROVE  package'.content = package.content
<1>1. package \in [status : {"none", "review_frozen", "finalized"}, content : SUBSET Proposals]
  BY DEF StoreTypeOK
<1>2. PersistNext => UNCHANGED package
  BY DEF PersistNext, PersistSourceSnapshot, PersistEvidenceBatch,
         PersistCloseExecution, RecordCloseArtifact, reviewVars
<1>3. ASSUME NEW content \in SUBSET Proposals,
             CreateReviewPackage(content) \/ RequestReviewChanges(content)
      PROVE  UNCHANGED package
  BY <1>3 DEF CreateReviewPackage, RequestReviewChanges
<1>4. ASSUME NEW content \in SUBSET Proposals, ApproveReviewPackage(content)
      PROVE  package'.content = package.content
  BY <1>1, <1>4 DEF ApproveReviewPackage
<1> QED
  BY <1>2, <1>3, <1>4, ReviewUntouched DEF StoreNext, ReviewNext

\* A decision, once recorded, is never removed.
LEMMA DecisionsGrow == [StoreNext]_storeVars => decisions \subseteq decisions'
<1>1. PersistNext => UNCHANGED decisions
  BY DEF PersistNext, PersistSourceSnapshot, PersistEvidenceBatch,
         PersistCloseExecution, RecordCloseArtifact, reviewVars
<1>2. ASSUME NEW content \in SUBSET Proposals,
             \/ CreateReviewPackage(content)
             \/ ApproveReviewPackage(content)
             \/ RequestReviewChanges(content)
      PROVE  decisions \subseteq decisions'
  BY <1>2 DEF CreateReviewPackage, ApproveReviewPackage, RequestReviewChanges
<1> QED
  BY <1>1, <1>2, ReviewUntouched DEF StoreNext, ReviewNext

\* The content of a frozen package is the one that was frozen first.
THEOREM PackagesStayFrozen == StoreSpec => FrozenPackage
<1>1. StoreTypeOK /\ [StoreNext]_storeVars
        => [package.status # "none" => package'.content = package.content]_storeVars
  BY FreezeStep
<1>2. StoreInit => StoreTypeOK
  BY TypeInit
<1>3. StoreTypeOK /\ [StoreNext]_storeVars => StoreTypeOK'
  BY TypeStep
<1> QED
  BY <1>1, <1>2, <1>3, PTL DEF StoreSpec, FrozenPackage

-----------------------------------------------------------------------------
(* Terminal runs *)

\* No transaction changes the state of an approved or cancelled run.
LEMMA TerminalStep ==
    ASSUME [StoreNext]_storeVars, runState \in Terminal
    PROVE  runState' = runState
<1> USE DEF Terminal
<1>1. \A s : UnlessTerminal(s) = runState
  BY DEF UnlessTerminal
<1>2. SweptRunState = runState
  BY <1>1 DEF SweptRunState
<1>3. QueueNext => UNCHANGED runState
  <2>1. ASSUME NEW w \in Workers, NEW k \in TaskKeys,
               ClaimNextTask(w, k) \/ CompleteTask(w, k) \/ BlockTask(w, k) \/ RetryTask(w, k)
        PROVE  UNCHANGED runState
    BY <1>1, <1>2, <2>1 DEF ClaimNextTask, CompleteTask, BlockTask, RetryTask
  <2>2. SweepOnly \/ RetryRun \/ CancelRun => UNCHANGED runState
    BY <1>2 DEF SweepOnly, RetryRun, CancelRun
  <2>3. ASSUME NEW k \in TaskKeys, LeaseExpires(k) PROVE UNCHANGED runState
    BY <2>3 DEF LeaseExpires
  <2> QED
    BY <2>1, <2>2, <2>3 DEF QueueNext
<1>4. PersistNext => UNCHANGED runState
  BY DEF PersistNext, PersistSourceSnapshot, PersistEvidenceBatch,
         PersistCloseExecution, RecordCloseArtifact
<1>5. ReviewNext => UNCHANGED runState
  BY DEF ReviewNext, CreateReviewPackage, Reviewable, ApproveReviewPackage,
         RequestReviewChanges, QueueRecoveryEmail, ResolveException
<1>6. LedgerNext => UNCHANGED runState
  <2>1. ASSUME NEW p \in Proposals, NEW s \in DecidedStatus \cup {"started"},
               UpdateDraftAction(p, s)
        PROVE  UNCHANGED runState
    BY <1>1, <2>1 DEF UpdateDraftAction
  <2>2. ASSUME NEW e \in Exceptions, NEW s \in DecidedStatus \cup {"started"},
               UpdateEmailAction(e, s)
        PROVE  UNCHANGED runState
    BY <1>1, <2>2 DEF UpdateEmailAction
  <2>3. ASSUME NEW p \in Proposals, EnsureDraftAction(p) PROVE UNCHANGED runState
    BY <2>3 DEF EnsureDraftAction
  <2> QED
    BY <2>1, <2>2, <2>3 DEF LedgerNext
<1>7. UNCHANGED storeVars => UNCHANGED runState
  BY DEF storeVars
<1> QED
  BY <1>3, <1>4, <1>5, <1>6, <1>7 DEF StoreNext

\* No late answer, sweep or retry revives an approved or a cancelled run: every
\* statement is guarded, and cancel_run by the trigger.
THEOREM TerminalRunsStay == StoreSpec => TerminalRunFrozen
<1>1. [StoreNext]_storeVars => [(runState \in Terminal) => UNCHANGED runState]_storeVars
  BY TerminalStep
<1> QED
  BY <1>1, PTL DEF StoreSpec, TerminalRunFrozen
=============================================================================
