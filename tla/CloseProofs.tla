------------------------------ MODULE CloseProofs ------------------------------
(***************************************************************************)
(* Proofs about the whole close run, for every number of workers,          *)
(* attempts, proposals, exceptions and retries: type correctness, and that *)
(* the workers and the API only use the store through its transactions, so *)
(* that what StoreProofs proves of the store holds of the run.  Then what  *)
(* a step may do to one task and to the run, stated once, and what follows *)
(* from it about the preparation of a close and about its cancellation.    *)
(***************************************************************************)
EXTENDS CloseProperties, StoreProofs

-----------------------------------------------------------------------------
(* The registers of a worker *)

\* Replacing the registers of one worker by well-typed ones keeps all well typed.
LEMMA RegisterStep ==
    ASSUME WorkerTypeOK, NEW w \in Workers, NEW r \in Registers, Coherent(r),
           worker' = [worker EXCEPT ![w] = r]
    PROVE  WorkerTypeOK'
BY DEF WorkerTypeOK

\* A worker that goes back to idle is well typed.
LEMMA IdleStep ==
    ASSUME WorkerTypeOK, NEW w \in Workers, NEW k \in TaskKeys,
           \/ worker' = [worker EXCEPT ![w] = Idle]
           \/ worker' = [worker EXCEPT ![w] = [Idle EXCEPT !.pc = "execute", !.task = k]]
    PROVE  WorkerTypeOK'
<1>1. Idle \in Registers /\ Coherent(Idle)
  BY DEF Idle, Registers, Coherent, OnProposals, OnEmails, WorkerPC, XeroPC, GmailPC, TaskKeys, DefaultTasks
<1> DEFINE r == [Idle EXCEPT !.pc = "execute", !.task = k]
<1>2. r \in Registers /\ Coherent(r)
  BY DEF Idle, Registers, Coherent, OnProposals, OnEmails, WorkerPC, XeroPC, GmailPC
<1> QED
  BY <1>1, <1>2, RegisterStep

\* Return always leaves coherent registers.
LEMMA ReturnStep ==
    ASSUME WorkerTypeOK, NEW w \in Workers, NEW s \in {"ok", "blocked", "error"}, Return(w, s)
    PROVE  WorkerTypeOK'
<1> DEFINE r == [worker[w] EXCEPT !.pc = "finish", !.result = s]
<1>1. worker[w] \in Registers /\ Coherent(worker[w])
  BY DEF WorkerTypeOK
<1>2. r \in Registers
  BY <1>1 DEF Registers, WorkerPC
<1>3. Coherent(r)
  BY <1>1 DEF Registers, Coherent, OnProposals, OnEmails, XeroPC, GmailPC
<1>4. worker' = [worker EXCEPT ![w] = r]
  BY DEF Return
<1> QED
  BY <1>2, <1>3, <1>4, RegisterStep

\* Moving the program counter keeps the registers well typed where the target is coherent.
LEMMA GoToStep ==
    ASSUME WorkerTypeOK, NEW w \in Workers, NEW pc \in WorkerPC, GoTo(w, pc),
           \/ pc \in {"persist", "freeze", "archive"}
           \/ OnProposals(worker[w]) /\ pc \in XeroPC \cup {"each"}
           \/ OnEmails(worker[w]) /\ pc \in GmailPC \ {"conclude"}
    PROVE  WorkerTypeOK'
<1> DEFINE r == [worker[w] EXCEPT !.pc = pc]
<1>1. worker[w] \in Registers /\ Coherent(worker[w])
  BY DEF WorkerTypeOK
<1>2. r \in Registers
  BY <1>1 DEF Registers
<1>3. Coherent(r)
  BY <1>1 DEF Registers, Coherent, OnProposals, OnEmails, XeroPC, GmailPC
<1>4. worker' = [worker EXCEPT ![w] = r]
  BY DEF GoTo
<1> QED
  BY <1>2, <1>3, <1>4, RegisterStep

\* Choosing the status to be written keeps the registers well typed.
LEMMA WriteStep ==
    ASSUME WorkerTypeOK, NEW w \in Workers, NEW pc \in WorkerPC, NEW s \in DecidedStatus,
           Write(w, pc, s),
           \/ OnProposals(worker[w]) /\ pc = "settle"
           \/ OnEmails(worker[w]) /\ pc \in {"settle", "conclude"}
    PROVE  WorkerTypeOK'
<1> DEFINE r == [worker[w] EXCEPT !.pc = pc, !.result = s]
<1>1. worker[w] \in Registers /\ Coherent(worker[w])
  BY DEF WorkerTypeOK
<1>2. r \in Registers
  BY <1>1 DEF Registers
<1>3. Coherent(r)
  BY <1>1 DEF Registers, Coherent, OnProposals, OnEmails, XeroPC, GmailPC
<1>4. worker' = [worker EXCEPT ![w] = r]
  BY DEF Write
<1> QED
  BY <1>2, <1>3, <1>4, RegisterStep

-----------------------------------------------------------------------------
(* The run uses the store as the store's specification allows *)

\* Every API request is one transaction of the store.
LEMMA ApiUsesStore ==
    ASSUME TypeOK, Api
    PROVE  StoreNext /\ UNCHANGED <<worker, journals, sent>> /\ retries' \in 0..MaxRetries
<1>1. package.content \in SUBSET Proposals /\ retries \in 0..MaxRetries
  BY DEF TypeOK, StoreTypeOK
<1>2. CASE OperatorRetry
  BY <1>1, <1>2, CloseWorkflowAssumption
     DEF OperatorRetry, StoreNext, QueueNext, providerVars
<1>3. CASE OperatorCancel
  BY <1>1, <1>3 DEF OperatorCancel, StoreNext, QueueNext, providerVars
<1>4. ASSUME NEW content \in SUBSET Proposals, OperatorPrepareReview(content)
      PROVE  StoreNext /\ UNCHANGED <<worker, journals, sent>> /\ retries' \in 0..MaxRetries
  BY <1>1, <1>4 DEF OperatorPrepareReview, StoreNext, ReviewNext, providerVars
<1>5. CASE ControllerApprove \/ ControllerRequestChanges
  BY <1>1, <1>5 DEF ControllerApprove, ControllerRequestChanges, StoreNext, ReviewNext, providerVars
<1>6. ASSUME NEW e \in Exceptions, OperatorQueueEmail(e) \/ OperatorResolve(e)
      PROVE  StoreNext /\ UNCHANGED <<worker, journals, sent>> /\ retries' \in 0..MaxRetries
  BY <1>1, <1>6 DEF OperatorQueueEmail, OperatorResolve, StoreNext, ReviewNext, providerVars
<1> QED
  BY <1>2, <1>3, <1>4, <1>5, <1>6 DEF Api

\* The claim, the end of a task and the sweep.
LEMMA QueueUsesStore ==
    ASSUME TypeOK, NEW w \in Workers, Poll(w) \/ Finish(w)
    PROVE  QueueNext
<1>1. worker[w] \in Registers /\ Coherent(worker[w])
  BY DEF TypeOK, WorkerTypeOK
<1>2. CASE Poll(w)
  BY <1>2 DEF Poll, Claim, FindNothing, QueueNext
<1>3. CASE Finish(w)
  <2>1. worker[w].task \in TaskKeys /\ worker[w].result \in {"ok", "blocked", "error"}
    BY <1>1, <1>3 DEF Finish, Coherent, Registers
  <2> QED
    BY <1>3, <2>1 DEF Finish, QueueNext
<1> QED
  BY <1>2, <1>3

\* What the executors write.
LEMMA PrepareUsesStore ==
    ASSUME TypeOK, NEW w \in Workers, Prepare(w)
    PROVE  StoreNext \/ UNCHANGED storeVars
<1>1. Derived \in SUBSET Proposals
  BY CloseStoreAssumption
<1>2. CASE Preflight(w) \/ ReadSources(w) \/ ReadSnapshot(w)
  BY <1>2 DEF Preflight, ReadSources, ReadSnapshot
<1>3. CASE CommitSources(w) \/ CommitEvidence(w) \/ CommitExecution(w) \/ ArchivePackage(w)
  BY <1>3 DEF CommitSources, CommitEvidence, CommitExecution, ArchivePackage, StoreNext, PersistNext
<1>4. CASE FreezePackage(w)
  BY <1>1, <1>4 DEF FreezePackage, StoreNext, ReviewNext
<1> QED
  BY <1>2, <1>3, <1>4 DEF Prepare

\* Every step of the action executors is a transaction of the store or leaves it alone.
LEMMA ExecutorsUseStore ==
    ASSUME TypeOK, NEW w \in Workers, Loop(w) \/ ActOnXero(w) \/ ActOnGmail(w)
    PROVE  LedgerNext \/ UNCHANGED storeVars
<1>1. worker[w] \in Registers /\ Coherent(worker[w])
  BY DEF TypeOK, WorkerTypeOK
<1>2. CASE LoadItems(w) \/ NextItem(w) \/ NoMoreItems(w)
  BY <1>2 DEF LoadItems, NextItem, NoMoreItems
<1>3. CASE WriteOutcome(w)
  <2>1. worker[w].result \in DecidedStatus
    BY <1>1, <1>3 DEF WriteOutcome, Coherent
  <2>2. CASE worker[w].task = "apply_approved_actions"
    <3>1. worker[w].item \in Proposals
      BY <1>1, <1>3, <2>2 DEF WriteOutcome, Coherent, OnProposals, OnEmails, GmailPC
    <3> QED
      BY <1>3, <2>1, <2>2, <3>1 DEF WriteOutcome, LedgerNext
  <2>3. CASE worker[w].task # "apply_approved_actions"
    <3>1. worker[w].item \in Exceptions
      BY <1>1, <1>3, <2>3 DEF WriteOutcome, Coherent, OnProposals, OnEmails, GmailPC
    <3> QED
      BY <1>3, <2>1, <2>3, <3>1 DEF WriteOutcome, LedgerNext
  <2> QED
    BY <2>2, <2>3
<1>4. CASE ActOnXero(w)
  <2>1. CASE EnsureAction(w) \/ StartAction(w)
    <3>1. worker[w].item \in Proposals
      BY <1>1, <2>1 DEF EnsureAction, StartAction, Coherent, OnProposals, XeroPC
    <3> QED
      BY <2>1, <3>1 DEF EnsureAction, StartAction, LedgerNext
  <2>2. SearchJournals(w) \/ CreateJournal(w) \/ CreateRefused(w) \/ ReadBack(w) \/ RecoverJournal(w)
          => UNCHANGED storeVars
    BY DEF SearchJournals, CreateJournal, CreateRefused, ReadBack, RecoverJournal
  <2> QED
    BY <1>4, <2>1, <2>2 DEF ActOnXero
<1>5. CASE ActOnGmail(w)
  <2>1. CASE MarkStarted(w)
    <3>1. worker[w].item \in Exceptions
      BY <1>1, <2>1 DEF MarkStarted, Coherent, OnEmails, GmailPC
    <3> QED
      BY <2>1, <3>1 DEF MarkStarted, LedgerNext
  <2>2. AuthorizeEmail(w) \/ LookUpSent(w) \/ SendEmail(w) \/ ReclaimSent(w) => UNCHANGED storeVars
    BY DEF AuthorizeEmail, LookUpSent, SendEmail, ReclaimSent
  <2> QED
    BY <1>5, <2>1, <2>2 DEF ActOnGmail
<1> QED
  BY <1>2, <1>3, <1>4, <1>5 DEF Loop

\* Every step of the system is a step of the store or stutters on it.
LEMMA StepUsesStore == TypeOK /\ [Next]_allVars => [StoreNext]_storeVars
<1> SUFFICES ASSUME TypeOK, [Next]_allVars PROVE [StoreNext]_storeVars
  OBVIOUS
<1>1. CASE Api
  BY <1>1, ApiUsesStore
<1>2. ASSUME NEW w \in Workers, Poll(w) \/ Work(w) \/ Crash(w)
      PROVE  [StoreNext]_storeVars
  <2>1. ExecutorFails(w) \/ SendFails(w) \/ LeaveTask(w) \/ Crash(w) => UNCHANGED storeVars
    BY DEF ExecutorFails, SendFails, LeaveTask, Crash
  <2> QED
    BY <1>2, <2>1, QueueUsesStore, PrepareUsesStore, ExecutorsUseStore DEF Work, StoreNext
<1>3. ASSUME NEW k \in TaskKeys, Expire(k) PROVE [StoreNext]_storeVars
  BY <1>3 DEF Expire, StoreNext, QueueNext
<1>4. CASE UNCHANGED allVars
  BY <1>4 DEF allVars, vars
<1> QED
  BY <1>1, <1>2, <1>3, <1>4 DEF Next, WorkersNext

-----------------------------------------------------------------------------
(* Type correctness *)

\* The system starts well typed.
LEMMA TypeWorkerStart == WorkflowInit => TypeOK
<1> SUFFICES ASSUME WorkflowInit PROVE TypeOK
  OBVIOUS
<1>1. StoreTypeOK
  BY TypeInit DEF WorkflowInit
<1>2. Idle \in Registers /\ Coherent(Idle)
  BY DEF Idle, Registers, Coherent, OnProposals, OnEmails, WorkerPC, XeroPC, GmailPC,
         TaskKeys, DefaultTasks
<1>3. WorkerTypeOK
  BY <1>2 DEF WorkflowInit, WorkerInit, WorkerTypeOK
<1> QED
  BY <1>1, <1>3, CloseWorkerAssumption, CloseWorkflowAssumption
     DEF TypeOK, WorkflowInit, WorkerInit

\* The preparation executors keep the system well typed.
LEMMA TypePrepare ==
    ASSUME TypeOK, NEW w \in Workers, Prepare(w)
    PROVE  WorkerTypeOK' /\ UNCHANGED <<journals, sent>>
<1>0. WorkerTypeOK
  BY DEF TypeOK
<1>1. CASE Preflight(w)
  BY <1>0, <1>1, ReturnStep DEF Preflight, providerVars
<1>2. CASE ReadSources(w)
  BY <1>0, <1>2, ReturnStep, GoToStep DEF ReadSources, providerVars, WorkerPC
<1>3. CASE CommitSources(w)
  BY <1>0, <1>3, ReturnStep DEF CommitSources, providerVars
<1>4. CASE ReadSnapshot(w)
  BY <1>0, <1>4, GoToStep DEF ReadSnapshot, providerVars, WorkerPC
<1>5. CASE CommitEvidence(w)
  BY <1>0, <1>5, ReturnStep DEF CommitEvidence, providerVars
<1>6. CASE CommitExecution(w)
  BY <1>0, <1>6, GoToStep DEF CommitExecution, providerVars, WorkerPC
<1>7. CASE FreezePackage(w)
  BY <1>0, <1>7, GoToStep DEF FreezePackage, providerVars, WorkerPC
<1>8. CASE ArchivePackage(w)
  BY <1>0, <1>8, ReturnStep DEF ArchivePackage, providerVars
<1> QED
  BY <1>1, <1>2, <1>3, <1>4, <1>5, <1>6, <1>7, <1>8 DEF Prepare

\* The loop over the loaded rows keeps the system well typed.
LEMMA TypeLoop ==
    ASSUME TypeOK, NEW w \in Workers, Loop(w)
    PROVE  WorkerTypeOK' /\ UNCHANGED <<journals, sent>>
<1>0. WorkerTypeOK /\ worker[w] \in Registers /\ Coherent(worker[w])
  BY DEF TypeOK, WorkerTypeOK
<1>1. CASE LoadItems(w)
  <2>1. CASE At(w, "execute", "apply_approved_actions")
    <3> DEFINE r == [worker[w] EXCEPT !.pc = "each", !.todo = ApprovedProposals]
    <3>1. ApprovedProposals \subseteq Proposals
      BY DEF ApprovedProposals, TypeOK, StoreTypeOK
    <3>2. r \in Registers /\ Coherent(r)
      BY <1>0, <2>1, <3>1 DEF At, Registers, Coherent, OnProposals, OnEmails, XeroPC, GmailPC, WorkerPC
    <3>3. worker' = [worker EXCEPT ![w] = r]
      BY <1>1, <2>1 DEF LoadItems, At
    <3> QED
      BY <1>0, <1>1, <3>2, <3>3, RegisterStep DEF LoadItems, providerVars
  <2>2. CASE At(w, "execute", "send_recovery_request")
    <3> DEFINE r == [worker[w] EXCEPT !.pc = "each", !.todo = PreparedEmails]
    <3>1. PreparedEmails \subseteq Exceptions
      BY DEF PreparedEmails
    <3>2. r \in Registers /\ Coherent(r)
      BY <1>0, <2>2, <3>1 DEF At, Registers, Coherent, OnProposals, OnEmails, XeroPC, GmailPC, WorkerPC
    <3>3. worker' = [worker EXCEPT ![w] = r]
      BY <1>1, <2>2 DEF LoadItems, At
    <3> QED
      BY <1>0, <1>1, <3>2, <3>3, RegisterStep DEF LoadItems, providerVars
  <2> QED
    BY <1>1, <2>1, <2>2 DEF LoadItems
<1>2. CASE NextItem(w)
  <2>1. PICK x \in worker[w].todo :
          IF worker[w].task = "apply_approved_actions"
          THEN worker' = [worker EXCEPT ![w] = [worker[w] EXCEPT !.pc = "ensure", !.item = x,
                                                                 !.todo = @ \ {x}]]
          ELSE worker' = [worker EXCEPT ![w] = [worker[w] EXCEPT !.pc = "authorize", !.item = x,
                                                                 !.todo = @ \ {x}]]
    BY <1>2 DEF NextItem
  <2>2. worker[w].task \in {"apply_approved_actions", "send_recovery_request"}
    BY <1>0, <1>2 DEF NextItem, Coherent
  <2>3. CASE worker[w].task = "apply_approved_actions"
    <3> DEFINE r == [worker[w] EXCEPT !.pc = "ensure", !.item = x, !.todo = @ \ {x}]
    <3>1. x \in Proposals
      BY <1>0, <2>3 DEF Coherent
    <3>2. r \in Registers /\ Coherent(r)
      BY <1>0, <2>3, <3>1 DEF Registers, Coherent, OnProposals, OnEmails, XeroPC, GmailPC, WorkerPC
    <3> QED
      BY <1>0, <1>2, <2>1, <2>3, <3>2, RegisterStep DEF NextItem, providerVars
  <2>4. CASE worker[w].task = "send_recovery_request"
    <3> DEFINE r == [worker[w] EXCEPT !.pc = "authorize", !.item = x, !.todo = @ \ {x}]
    <3>1. x \in Exceptions
      BY <1>0, <2>4 DEF Coherent
    <3>2. r \in Registers /\ Coherent(r)
      BY <1>0, <2>4, <3>1 DEF Registers, Coherent, OnProposals, OnEmails, XeroPC, GmailPC, WorkerPC
    <3> QED
      BY <1>0, <1>2, <2>1, <2>4, <3>2, RegisterStep DEF NextItem, providerVars
  <2> QED
    BY <2>2, <2>3, <2>4
<1>3. CASE NoMoreItems(w)
  BY <1>0, <1>3, ReturnStep DEF NoMoreItems, providerVars
<1>4. CASE WriteOutcome(w)
  <2>1. CASE Write(w, "each", "ok")
    <3> DEFINE r == [worker[w] EXCEPT !.pc = "each", !.result = "ok"]
    <3>1. worker[w].task \in {"apply_approved_actions", "send_recovery_request"}
      BY <1>0, <1>4 DEF WriteOutcome, Coherent, OnProposals, OnEmails, GmailPC
    <3>2. r \in Registers /\ Coherent(r)
      BY <1>0, <3>1 DEF Registers, Coherent, OnProposals, OnEmails, XeroPC, GmailPC, WorkerPC
    <3>3. worker' = [worker EXCEPT ![w] = r]
      BY <2>1 DEF Write
    <3> QED
      BY <1>0, <1>4, <3>2, <3>3, RegisterStep DEF WriteOutcome, providerVars
  <2>2. CASE Return(w, "blocked")
    BY <1>0, <1>4, <2>2, ReturnStep DEF WriteOutcome, providerVars
  <2> QED
    BY <1>4, <2>1, <2>2 DEF WriteOutcome
<1> QED
  BY <1>1, <1>2, <1>3, <1>4 DEF Loop

\* The steps of _execute_proposal keep the system well typed.
LEMMA TypeXero ==
    ASSUME TypeOK, NEW w \in Workers, ActOnXero(w)
    PROVE  WorkerTypeOK' /\ journals' \in [Proposals -> 0..MaxJournals] /\ UNCHANGED sent
<1>0. WorkerTypeOK /\ journals \in [Proposals -> 0..MaxJournals]
  BY DEF TypeOK
<1>1. OnProposals(worker[w])
  BY <1>0 DEF ActOnXero, EnsureAction, StartAction, SearchJournals, CreateJournal,
              CreateRefused, ReadBack, RecoverJournal, OnProposals, XeroPC
<1>2. CASE EnsureAction(w) \/ StartAction(w)
  BY <1>0, <1>1, <1>2, GoToStep DEF EnsureAction, StartAction, providerVars, WorkerPC, XeroPC
<1>3. CASE SearchJournals(w)
  BY <1>0, <1>1, <1>3, GoToStep, WriteStep
     DEF SearchJournals, providerVars, WorkerPC, XeroPC, DecidedStatus
<1>4. CASE CreateJournal(w)
  <2>1. worker[w].item \in Proposals
    BY <1>0, <1>1 DEF WorkerTypeOK, Coherent
  <2>2. journals' \in [Proposals -> 0..MaxJournals]
    BY <1>0, <1>4, <2>1, CloseWorkerAssumption DEF CreateJournal
  <2>3. WorkerTypeOK'
    BY <1>0, <1>1, <1>4, GoToStep DEF CreateJournal, WorkerPC, XeroPC
  <2> QED
    BY <1>4, <2>2, <2>3 DEF CreateJournal
<1>5. CASE CreateRefused(w)
  BY <1>0, <1>1, <1>5, GoToStep DEF CreateRefused, providerVars, WorkerPC, XeroPC
<1>6. CASE ReadBack(w)
  BY <1>0, <1>1, <1>6, GoToStep, WriteStep
     DEF ReadBack, providerVars, WorkerPC, XeroPC, DecidedStatus
<1>7. CASE RecoverJournal(w)
  BY <1>0, <1>1, <1>7, WriteStep DEF RecoverJournal, providerVars, WorkerPC, DecidedStatus
<1> QED
  BY <1>2, <1>3, <1>4, <1>5, <1>6, <1>7 DEF ActOnXero

\* The steps of _send keep the system well typed.
LEMMA TypeGmail ==
    ASSUME TypeOK, NEW w \in Workers, ActOnGmail(w)
    PROVE  WorkerTypeOK' /\ sent' \in [Exceptions -> 0..MaxSent] /\ UNCHANGED journals
<1>0. WorkerTypeOK /\ sent \in [Exceptions -> 0..MaxSent]
  BY DEF TypeOK
<1>1. OnEmails(worker[w])
  BY <1>0 DEF ActOnGmail, AuthorizeEmail, LookUpSent, MarkStarted, SendEmail, ReclaimSent,
              OnEmails, GmailPC
<1>2. CASE AuthorizeEmail(w)
  BY <1>0, <1>1, <1>2, GoToStep, WriteStep
     DEF AuthorizeEmail, providerVars, WorkerPC, GmailPC, DecidedStatus
<1>3. CASE LookUpSent(w)
  BY <1>0, <1>1, <1>3, GoToStep, WriteStep
     DEF LookUpSent, providerVars, WorkerPC, GmailPC, DecidedStatus
<1>4. CASE MarkStarted(w)
  BY <1>0, <1>1, <1>4, GoToStep DEF MarkStarted, providerVars, WorkerPC, GmailPC
<1>5. CASE SendEmail(w)
  <2>1. worker[w].item \in Exceptions
    BY <1>0, <1>1 DEF WorkerTypeOK, Coherent
  <2>2. sent' \in [Exceptions -> 0..MaxSent]
    BY <1>0, <1>5, <2>1, CloseWorkerAssumption DEF SendEmail
  <2>3. WorkerTypeOK'
    BY <1>0, <1>1, <1>5, GoToStep, WriteStep DEF SendEmail, WorkerPC, GmailPC, DecidedStatus
  <2> QED
    BY <1>5, <2>2, <2>3 DEF SendEmail
<1>6. CASE ReclaimSent(w)
  BY <1>0, <1>1, <1>6, WriteStep DEF ReclaimSent, providerVars, WorkerPC, DecidedStatus
<1> QED
  BY <1>2, <1>3, <1>4, <1>5, <1>6 DEF ActOnGmail

\* Claims, ends and failures of a worker's task.
LEMMA TypeTask ==
    ASSUME TypeOK, NEW w \in Workers,
           Poll(w) \/ Finish(w) \/ LeaveTask(w) \/ Crash(w) \/ ExecutorFails(w) \/ SendFails(w)
    PROVE  WorkerTypeOK' /\ UNCHANGED <<journals, sent>>
<1>0. WorkerTypeOK
  BY DEF TypeOK
<1>1. ASSUME NEW k \in TaskKeys, Claim(w, k)
      PROVE  WorkerTypeOK' /\ UNCHANGED <<journals, sent>>
  BY <1>0, <1>1, IdleStep DEF Claim, providerVars
<1>2. CASE FindNothing(w)
  BY <1>0, <1>2 DEF FindNothing, providerVars, WorkerTypeOK
<1>3. CASE Finish(w) \/ LeaveTask(w) \/ Crash(w)
  <2>1. "preflight" \in TaskKeys
    BY DEF TaskKeys, DefaultTasks
  <2> QED
    BY <1>0, <1>3, <2>1, IdleStep DEF Finish, LeaveTask, Crash, providerVars
<1>4. CASE ExecutorFails(w)
  BY <1>0, <1>4, ReturnStep DEF ExecutorFails, providerVars
<1>5. CASE SendFails(w)
  <2>1. OnEmails(worker[w])
    BY <1>5 DEF SendFails, OnEmails, GmailPC
  <2> QED
    BY <1>0, <1>5, <2>1, GoToStep DEF SendFails, providerVars, WorkerPC, GmailPC
<1> QED
  BY <1>1, <1>2, <1>3, <1>4, <1>5 DEF Poll

\* Every step of the system keeps it well typed.
LEMMA TypeNext == TypeOK /\ [Next]_allVars => TypeOK'
<1> SUFFICES ASSUME TypeOK, [Next]_allVars PROVE TypeOK'
  OBVIOUS
<1>1. StoreTypeOK'
  BY StepUsesStore, TypeStep DEF TypeOK
<1>2. WorkerTypeOK' /\ journals' \in [Proposals -> 0..MaxJournals] /\ sent' \in [Exceptions -> 0..MaxSent]
  <2>1. CASE Api
    BY <2>1, ApiUsesStore DEF TypeOK, WorkerTypeOK
  <2>2. ASSUME NEW w \in Workers, Poll(w) \/ Work(w) \/ Crash(w)
        PROVE  /\ WorkerTypeOK'
               /\ journals' \in [Proposals -> 0..MaxJournals]
               /\ sent' \in [Exceptions -> 0..MaxSent]
    BY <2>2, TypePrepare, TypeLoop, TypeXero, TypeGmail, TypeTask DEF Work, TypeOK
  <2>3. ASSUME NEW k \in TaskKeys, Expire(k) PROVE UNCHANGED <<worker, journals, sent>>
    BY <2>3 DEF Expire, providerVars
  <2>4. UNCHANGED allVars => UNCHANGED <<worker, journals, sent>>
    BY DEF allVars, vars, providerVars
  <2>5. UNCHANGED <<worker, journals, sent>> =>
          /\ WorkerTypeOK'
          /\ journals' \in [Proposals -> 0..MaxJournals]
          /\ sent' \in [Exceptions -> 0..MaxSent]
    BY DEF TypeOK, WorkerTypeOK
  <2> QED
    BY <2>1, <2>2, <2>3, <2>4, <2>5 DEF Next, WorkersNext
<1>3. retries' \in 0..MaxRetries
  BY ApiUsesStore DEF Next, WorkersNext, allVars, TypeOK
<1> QED
  BY <1>1, <1>2, <1>3 DEF TypeOK

\* The whole run is type correct, for every number of workers, attempts,
\* proposals, exceptions and retries.
THEOREM TypeCorrect == Spec => []TypeOK
BY TypeWorkerStart, TypeNext, PTL DEF Spec

-----------------------------------------------------------------------------
(* The run implements the store *)

\* However workers crash, lose their leases and race with the API, every change
\* of a row is a transaction that the store's own specification allows.
THEOREM RunImplementsStore == Spec => StoreSpec
<1>1. WorkflowInit => StoreInit
  BY DEF WorkflowInit
<1> QED
  BY <1>1, StepUsesStore, TypeCorrect, PTL DEF Spec, StoreSpec

\* So the guarantees of the store are guarantees of the run.
THEOREM RunKeepsStorePromises ==
    Spec => [](DependencyOrder /\ ApprovalGate) /\ FrozenPackage /\ TerminalRunFrozen
BY RunImplementsStore, TasksFollowDependencies, ApprovalsStayJustified, PackagesStayFrozen,
   TerminalRunsStay, PTL
-----------------------------------------------------------------------------
(* What a step of one worker leaves alone *)

StepOf(w) == Poll(w) \/ Work(w) \/ Crash(w)

\* A worker's step does not touch the registers of another worker.
LEMMA OwnRegisters ==
    ASSUME TypeOK, NEW w \in Workers, NEW v \in Workers, v # w, StepOf(w)
    PROVE  worker'[v] = worker[v]
<1>1. worker \in [Workers -> Registers]
  BY DEF TypeOK, WorkerTypeOK
<1>2. CASE Poll(w) \/ Crash(w) \/ Finish(w) \/ LeaveTask(w) \/ ExecutorFails(w) \/ SendFails(w)
  BY <1>1, <1>2 DEF Poll, Claim, FindNothing, Crash, Finish, LeaveTask, ExecutorFails, SendFails,
                    Return, GoTo
<1>3. CASE Prepare(w)
  BY <1>1, <1>3 DEF Prepare, Preflight, ReadSources, CommitSources, ReadSnapshot, CommitEvidence,
                    CommitExecution, FreezePackage, ArchivePackage, Return, GoTo
<1>4. CASE Loop(w)
  BY <1>1, <1>4 DEF Loop, LoadItems, NextItem, NoMoreItems, WriteOutcome, Return, Write
<1>5. CASE ActOnXero(w)
  BY <1>1, <1>5 DEF ActOnXero, EnsureAction, StartAction, SearchJournals, CreateJournal,
                    CreateRefused, ReadBack, RecoverJournal, GoTo, Write
<1>6. CASE ActOnGmail(w)
  BY <1>1, <1>6 DEF ActOnGmail, AuthorizeEmail, LookUpSent, MarkStarted, SendEmail, ReclaimSent,
                    GoTo, Write
<1> QED
  BY <1>2, <1>3, <1>4, <1>5, <1>6 DEF StepOf, Work

\* A step of the system is a worker's own, or leaves workers and providers alone.
LEMMA WhoSteps ==
    ASSUME [Next]_allVars, UNCHANGED <<worker, journals, sent>> => FALSE
    PROVE  \E w \in Workers : StepOf(w)
<1>1. Api => UNCHANGED <<worker, journals, sent>>
  BY DEF Api, OperatorRetry, OperatorCancel, OperatorPrepareReview, ControllerApprove,
         ControllerRequestChanges, OperatorQueueEmail, OperatorResolve, providerVars
<1>2. ASSUME NEW k \in TaskKeys, Expire(k) PROVE UNCHANGED <<worker, journals, sent>>
  BY <1>2 DEF Expire, providerVars
<1>3. UNCHANGED allVars => UNCHANGED <<worker, journals, sent>>
  BY DEF allVars, vars, providerVars
<1> QED
  BY <1>1, <1>2, <1>3 DEF Next, WorkersNext, StepOf

\* A journal or a message is never taken back, and only the step that creates
\* one adds it.
LEMMA OnlyCreates ==
    ASSUME TypeOK, NEW w \in Workers, StepOf(w)
    PROVE  /\ journals' = journals \/ CreateJournal(w)
           /\ sent' = sent \/ SendEmail(w)
<1>1. CASE Poll(w) \/ Crash(w) \/ Finish(w) \/ LeaveTask(w) \/ ExecutorFails(w) \/ SendFails(w)
  BY <1>1 DEF Poll, Claim, FindNothing, Crash, Finish, LeaveTask, ExecutorFails, SendFails, providerVars
<1>2. CASE Prepare(w) \/ Loop(w)
  BY <1>2, TypePrepare, TypeLoop
<1>3. CASE ActOnXero(w)
  BY <1>3 DEF ActOnXero, EnsureAction, StartAction, SearchJournals, CreateJournal,
              CreateRefused, ReadBack, RecoverJournal, providerVars
<1>4. CASE ActOnGmail(w)
  BY <1>4 DEF ActOnGmail, AuthorizeEmail, LookUpSent, MarkStarted, SendEmail, ReclaimSent, providerVars
<1> QED
  BY <1>1, <1>2, <1>3, <1>4 DEF StepOf, Work

\* The number of journals and messages never falls.
LEMMA ProvidersGrow ==
    ASSUME TypeOK, [Next]_allVars
    PROVE  /\ \A p \in Proposals : journals'[p] >= journals[p]
           /\ \A e \in Exceptions : sent'[e] >= sent[e]
<1>1. /\ journals \in [Proposals -> 0..MaxJournals] /\ sent \in [Exceptions -> 0..MaxSent]
      /\ MaxJournals \in Nat /\ MaxSent \in Nat
  BY CloseWorkerAssumption DEF TypeOK
<1>2. ASSUME NEW w \in Workers, CreateJournal(w)
      PROVE  \A p \in Proposals : journals'[p] >= journals[p]
  BY <1>1, <1>2 DEF CreateJournal
<1>3. ASSUME NEW w \in Workers, SendEmail(w)
      PROVE  \A e \in Exceptions : sent'[e] >= sent[e]
  BY <1>1, <1>3 DEF SendEmail
<1>4. journals' = journals => \A p \in Proposals : journals'[p] >= journals[p]
  BY <1>1
<1>5. sent' = sent => \A e \in Exceptions : sent'[e] >= sent[e]
  BY <1>1
<1> QED
  BY <1>2, <1>3, <1>4, <1>5, WhoSteps, OnlyCreates

-----------------------------------------------------------------------------
(* What a step does to a task and to the run *)

Apply == "apply_approved_actions"
SendEmails == "send_recovery_request"

\* A worker settles the task that it holds.
Settles(w, k) ==
    /\ Finish(w) /\ worker[w].task = k /\ Owned(tasks[k], w)
    /\ \/ worker[w].result = "ok" /\ tasks'[k] = Released(tasks[k], "succeeded")
       \/ worker[w].result = "blocked" /\ tasks'[k] = Released(tasks[k], "blocked")
       \/ worker[w].result = "error" /\ tasks'[k] = AfterFailure(tasks[k])
    /\ tasks'[k].state \in {"blocked", "failed"} => runState' = UnlessTerminal("blocked")

RowChange(k) ==
    \/ tasks'[k] = tasks[k]
    \/ \E w \in Workers : Claim(w, k) /\ Claimable(tasks[k]) /\ tasks'[k] = Claimed(tasks[k], w)
    \/ /\ tasks[k].state = "running" /\ tasks'[k] = Released(tasks[k], "failed")
       /\ runState' = UnlessTerminal("blocked")
       /\ \E w \in Workers : Poll(w)
    \/ tasks[k].state = "running" /\ tasks'[k] = [tasks[k] EXCEPT !.expiry = "expired"]
    \/ /\ tasks[k].state = "pending" /\ tasks'[k] = [tasks[k] EXCEPT !.state = "ready"]
       /\ \E w \in Workers : Finish(w)
    \/ \E w \in Workers : Settles(w, k)
    \/ /\ tasks[k].state \in {"blocked", "failed"} /\ tasks'[k] = Inserted("ready")
       /\ runState' = "synchronizing"
    \/ /\ tasks[k].state \in {"pending", "ready"} /\ tasks'[k] = Released(tasks[k], "cancelled")
       /\ runState' = "cancelled"
    \/ k = Apply /\ ControllerApprove /\ tasks'[k] = Requeued(tasks[k])
    \/ k = SendEmails /\ Exceptions # {} /\ tasks'[k] = Requeued(tasks[k])

\* Every way in which a row of the queue changes.
LEMMA RowChanges ==
    ASSUME TypeOK, [Next]_allVars, NEW k \in TaskKeys
    PROVE  RowChange(k)
<1>0. tasks \in [TaskKeys -> Row] /\ tasks[k] \in Row
  BY DEF TypeOK, StoreTypeOK
<1>1. Exhausted(tasks[k]) => tasks[k].state = "running"
  BY DEF Exhausted
<1>2. ASSUME NEW w \in Workers, NEW j \in TaskKeys, Claim(w, j) PROVE RowChange(k)
  <2>1. /\ tasks' = [Swept EXCEPT ![j] = Claimed(Swept[j], w)] /\ runState' = SweptRunState
        /\ Claimable(tasks[j])
    BY <1>2, SweepKeepsRows DEF Claim, ClaimNextTask, Candidates, TypeOK, StoreTypeOK
  <2>2. CASE k = j
    <3>1. ~Exhausted(tasks[k])
      <4>1. tasks[k].attempt \in Nat /\ MaxAttempts \in Nat
        BY <1>0, TaskRowAssumption DEF Row
      <4> QED
        BY <2>1, <2>2, <4>1 DEF Claimable, Exhausted
    <3>2. Swept[k] = tasks[k]
      BY <3>1 DEF Swept
    <3> QED
      BY <1>2, <2>1, <2>2, <3>2, SweepKeepsRows DEF RowChange, TypeOK, StoreTypeOK
  <2>3. CASE k # j
    <3>1. tasks'[k] = Swept[k]
      BY <2>1, <2>3, SweepKeepsRows DEF TypeOK, StoreTypeOK
    <3> QED
      BY <1>1, <1>2, <2>1, <3>1 DEF Swept, SweptRunState, RowChange, Poll
  <2> QED
    BY <2>2, <2>3
<1>3. ASSUME NEW w \in Workers, FindNothing(w) PROVE RowChange(k)
  BY <1>1, <1>3 DEF FindNothing, SweepOnly, Swept, SweptRunState, RowChange, Poll
<1>4. ASSUME NEW w \in Workers, Finish(w) PROVE RowChange(k)
  <2> DEFINE j == worker[w].task
  <2>1. j \in TaskKeys /\ worker[w].result \in {"ok", "blocked", "error"}
    BY <1>4 DEF Finish, TypeOK, WorkerTypeOK, Coherent, Registers
  <2>2. CASE worker[w].result = "ok"
    <3> DEFINE done == [tasks EXCEPT ![j] = Released(@, "succeeded")]
    <3>1. Owned(tasks[j], w) /\ tasks' = Promoted(done)
      BY <1>4, <2>2 DEF Finish, CompleteTask
    <3>2. done[k] = IF k = j THEN Released(tasks[k], "succeeded") ELSE tasks[k]
      BY <1>0
    <3>3. tasks'[k] = done[k] \/ (done[k].state = "pending" /\ tasks'[k] = [done[k] EXCEPT !.state = "ready"])
      BY <3>1 DEF Promoted
    <3>4. CASE k = j
      <4>1. done[k].state = "succeeded"
        BY <1>0, <3>2, <3>4 DEF Released, Row
      <4>2. tasks'[k] = Released(tasks[k], "succeeded") /\ tasks'[k].state = "succeeded"
        BY <3>2, <3>3, <3>4, <4>1
      <4>3. Settles(w, k)
        BY <1>4, <2>2, <3>1, <3>4, <4>2 DEF Settles
      <4> QED
        BY <4>3 DEF RowChange
    <3>5. CASE k # j
      BY <1>4, <3>2, <3>3, <3>5 DEF RowChange
    <3> QED
      BY <3>4, <3>5
  <2>3. CASE worker[w].result \in {"blocked", "error"}
    <3>1. Owned(tasks[j], w) /\ \A i \in TaskKeys \ {j} : tasks'[i] = tasks[i]
      BY <1>0, <1>4, <2>3 DEF Finish, BlockTask, RetryTask
    <3>2. CASE k = j
      <4>1. Settles(w, k)
        <5>1. CASE worker[w].result = "blocked"
          <6>1. BlockTask(w, k)
            BY <1>4, <3>2, <5>1 DEF Finish
          <6>2. tasks'[k] = Released(tasks[k], "blocked") /\ runState' = UnlessTerminal("blocked")
            BY <1>0, <6>1 DEF BlockTask
          <6> QED
            BY <1>4, <3>1, <3>2, <5>1, <6>2 DEF Settles
        <5>2. CASE worker[w].result = "error"
          <6>1. RetryTask(w, k)
            BY <1>4, <3>2, <5>2 DEF Finish
          <6>2. /\ tasks'[k] = AfterFailure(tasks[k]) /\ tasks'[k].state # "blocked"
                /\ tasks'[k].state = "failed" => runState' = UnlessTerminal("blocked")
            BY <1>0, <6>1 DEF RetryTask, AfterFailure, Released, Row
          <6> QED
            BY <1>4, <3>1, <3>2, <5>2, <6>2 DEF Settles
        <5> QED
          BY <2>3, <5>1, <5>2
      <4> QED
        BY <4>1 DEF RowChange
    <3>3. CASE k # j
      BY <3>1, <3>3 DEF RowChange
    <3> QED
      BY <3>2, <3>3
  <2> QED
    BY <2>1, <2>2, <2>3
<1>5. ASSUME NEW j \in TaskKeys, Expire(j) PROVE RowChange(k)
  BY <1>0, <1>5 DEF Expire, LeaseExpires, RowChange
<1>6. ASSUME UNCHANGED tasks PROVE RowChange(k)
  BY <1>6 DEF RowChange
<1>7. ASSUME NEW w \in Workers, StepOf(w), ~Poll(w), ~Finish(w) PROVE UNCHANGED tasks
  <2>1. CASE Crash(w) \/ LeaveTask(w) \/ ExecutorFails(w) \/ SendFails(w)
    BY <2>1 DEF Crash, LeaveTask, ExecutorFails, SendFails, storeVars
  <2>2. CASE Prepare(w)
    BY <2>2 DEF Prepare, Preflight, ReadSources, CommitSources, ReadSnapshot, CommitEvidence,
                CommitExecution, FreezePackage, ArchivePackage, PersistSourceSnapshot,
                PersistEvidenceBatch, PersistCloseExecution, CreateReviewPackage,
                RecordCloseArtifact, storeVars
  <2>3. CASE Loop(w) \/ ActOnXero(w) \/ ActOnGmail(w)
    <3>1. LedgerNext => UNCHANGED tasks
      BY DEF LedgerNext, EnsureDraftAction, UpdateDraftAction, UpdateEmailAction
    <3> QED
      BY <2>3, <3>1, ExecutorsUseStore DEF storeVars
  <2> QED
    BY <1>7, <2>1, <2>2, <2>3 DEF StepOf, Work
<1>8. ASSUME Api PROVE RowChange(k)
  <2>1. CASE OperatorRetry
    BY <2>1 DEF OperatorRetry, RetryRun, RowChange
  <2>2. CASE OperatorCancel
    BY <2>2 DEF OperatorCancel, CancelRun, RowChange
  <2>3. CASE ControllerApprove
    BY <1>0, <2>3 DEF ControllerApprove, ApproveReviewPackage, RowChange, Apply
  <2>4. ASSUME NEW e \in Exceptions, OperatorQueueEmail(e) PROVE RowChange(k)
    BY <1>0, <2>4 DEF OperatorQueueEmail, QueueRecoveryEmail, RowChange, SendEmails
  <2>5. ControllerRequestChanges => UNCHANGED tasks
    BY DEF ControllerRequestChanges, RequestReviewChanges
  <2>6. ASSUME NEW content \in SUBSET Proposals, OperatorPrepareReview(content) PROVE UNCHANGED tasks
    BY <2>6 DEF OperatorPrepareReview, CreateReviewPackage
  <2>7. ASSUME NEW e \in Exceptions, OperatorResolve(e) PROVE UNCHANGED tasks
    BY <2>7 DEF OperatorResolve, ResolveException
  <2> QED
    BY <1>6, <1>8, <2>1, <2>2, <2>3, <2>4, <2>5, <2>6, <2>7 DEF Api
<1>9. UNCHANGED allVars => UNCHANGED tasks
  BY DEF allVars, vars, storeVars
<1> QED
  BY <1>2, <1>3, <1>4, <1>5, <1>6, <1>7, <1>8, <1>9 DEF Next, WorkersNext, StepOf, Poll

RunChange ==
    \/ runState' = runState
    \/ runState \in {"blocked", "failed"} /\ runState' = "synchronizing"
    \/ runState' = "cancelled"
    \/ runState \notin Terminal /\ runState' \in {"blocked", "action_failed"}
    \/ /\ runState = "synchronizing" /\ runState' = "running"
       /\ \A k \in TaskKeys : tasks'[k].state \in {"absent", "succeeded"}
    \/ runState' = "running" /\ report = "none" /\ report' # "none"
    \/ runState' = "awaiting_approval" /\ Reviewable /\ package'.status # "none" /\ UNCHANGED report
    \/ runState = "awaiting_approval" /\ runState' = "changes_requested"
    \/ ControllerApprove /\ runState' \in {"approved", "applying_approved_actions"}
    \/ /\ runState' = "approved" /\ manifests' # {}
       /\ \E w \in Workers : WriteOutcome(w) /\ worker[w].task = Apply /\ worker[w].result \in Done

\* What the write of a success changes.
LEMMA SuccessRecorded ==
    ASSUME NEW p \in Proposals, NEW s \in Done, UpdateDraftAction(p, s)
    PROVE  /\ drafts' = [drafts EXCEPT ![p] = s]
           /\ proposals' = [proposals EXCEPT ![p] = "actioned"]
           /\ manifests' = manifests \cup {p} /\ manifests' # {}
           /\ AllSettled(drafts') => runState' = UnlessTerminal("approved")
           /\ ~AllSettled(drafts') => UNCHANGED runState
           /\ runState' \in {runState, UnlessTerminal("approved")}
<1>1. CASE AllSettled(drafts')
  BY <1>1 DEF UpdateDraftAction, Done
<1>2. CASE ~AllSettled(drafts')
  BY <1>2 DEF UpdateDraftAction, Done
<1> QED
  BY <1>1, <1>2

\* Every way in which the state of the run changes.
LEMMA RunChanges == ASSUME TypeOK, [Next]_allVars PROVE RunChange
<1>0. package \in [status : {"none", "review_frozen", "finalized"}, content : SUBSET Proposals]
  BY DEF TypeOK, StoreTypeOK
<1>1. ASSUME runState' \in {runState, UnlessTerminal("blocked"), UnlessTerminal("action_failed")}
      PROVE  RunChange
  BY <1>1 DEF UnlessTerminal, RunChange
<1>2. ASSUME NEW w \in Workers, Poll(w) \/ Finish(w) PROVE RunChange
  <2>1. CASE Poll(w)
    BY <1>1, <2>1 DEF Poll, Claim, FindNothing, ClaimNextTask, SweepOnly, SweptRunState
  <2>2. ASSUME Finish(w), worker[w].result = "ok" PROVE RunChange
    BY <2>2 DEF Finish, CompleteTask, RunChange
  <2>3. ASSUME Finish(w), worker[w].result # "ok" PROVE RunChange
    <3>1. worker[w].result \in {"ok", "blocked", "error"}
      BY <2>3 DEF Finish, TypeOK, WorkerTypeOK, Coherent
    <3> QED
      BY <1>1, <2>3, <3>1 DEF Finish, BlockTask, RetryTask
  <2> QED
    BY <1>2, <2>1, <2>2, <2>3
<1>3. ASSUME NEW w \in Workers, Prepare(w) PROVE RunChange
  <2>1. CASE Preflight(w) \/ ReadSources(w) \/ CommitSources(w) \/ ReadSnapshot(w)
             \/ CommitEvidence(w) \/ ArchivePackage(w)
    BY <1>1, <2>1 DEF Preflight, ReadSources, CommitSources, ReadSnapshot, CommitEvidence, ArchivePackage,
                      PersistSourceSnapshot, PersistEvidenceBatch, RecordCloseArtifact, storeVars
  <2>2. CASE CommitExecution(w)
    BY <2>2 DEF CommitExecution, PersistCloseExecution, RunChange
  <2>3. CASE FreezePackage(w)
    BY <1>0, <2>3 DEF FreezePackage, CreateReviewPackage, closeVars, RunChange
  <2> QED
    BY <1>3, <2>1, <2>2, <2>3 DEF Prepare
<1>4. ASSUME NEW w \in Workers, Loop(w) PROVE RunChange
  <2>1. CASE LoadItems(w) \/ NextItem(w) \/ NoMoreItems(w)
    BY <1>1, <2>1 DEF LoadItems, NextItem, NoMoreItems, storeVars
  <2>2. CASE WriteOutcome(w) /\ worker[w].task = Apply /\ worker[w].result \in Done
    <3>1. worker[w].item \in Proposals /\ UpdateDraftAction(worker[w].item, worker[w].result)
      BY <2>2 DEF WriteOutcome, Apply, TypeOK, WorkerTypeOK, Coherent, OnProposals, OnEmails, GmailPC
    <3>2. manifests' # {} /\ runState' \in {runState, UnlessTerminal("approved")}
      BY <2>2, <3>1, SuccessRecorded
    <3> QED
      BY <2>2, <3>2 DEF UnlessTerminal, RunChange
  <2>3. CASE WriteOutcome(w) /\ worker[w].task = Apply /\ worker[w].result \notin Done
    BY <1>1, <2>3 DEF WriteOutcome, UpdateDraftAction, Apply
  <2>4. CASE WriteOutcome(w) /\ worker[w].task # Apply
    BY <1>1, <2>4 DEF WriteOutcome, UpdateEmailAction, Apply
  <2> QED
    BY <1>4, <2>1, <2>2, <2>3, <2>4 DEF Loop
<1>5. ASSUME NEW w \in Workers, ActOnXero(w) \/ ActOnGmail(w) PROVE RunChange
  <2>1. CASE ActOnXero(w)
    BY <1>1, <2>1 DEF ActOnXero, EnsureAction, StartAction, SearchJournals, CreateJournal, CreateRefused,
                      ReadBack, RecoverJournal, EnsureDraftAction, UpdateDraftAction, Done, storeVars
  <2>2. CASE ActOnGmail(w)
    BY <1>1, <2>2 DEF ActOnGmail, AuthorizeEmail, LookUpSent, MarkStarted, SendEmail, ReclaimSent,
                      UpdateEmailAction, storeVars
  <2> QED
    BY <1>5, <2>1, <2>2
<1>6. ASSUME NEW w \in Workers, Crash(w) \/ LeaveTask(w) \/ ExecutorFails(w) \/ SendFails(w) PROVE RunChange
  BY <1>1, <1>6 DEF Crash, LeaveTask, ExecutorFails, SendFails, storeVars
<1>7. ASSUME NEW k \in TaskKeys, Expire(k) PROVE RunChange
  BY <1>1, <1>7 DEF Expire, LeaseExpires
<1>8. CASE Api
  <2>1. CASE OperatorRetry \/ OperatorCancel
    BY <2>1 DEF OperatorRetry, RetryRun, OperatorCancel, CancelRun, RunChange
  <2>2. ASSUME NEW content \in SUBSET Proposals, OperatorPrepareReview(content) PROVE RunChange
    BY <1>0, <2>2 DEF OperatorPrepareReview, CreateReviewPackage, closeVars, RunChange
  <2>3. CASE ControllerApprove
    BY <2>3 DEF ControllerApprove, ApproveReviewPackage, RunChange
  <2>4. CASE ControllerRequestChanges
    BY <2>4 DEF ControllerRequestChanges, RequestReviewChanges, RunChange
  <2>5. ASSUME NEW e \in Exceptions, OperatorQueueEmail(e) \/ OperatorResolve(e) PROVE RunChange
    BY <1>1, <2>5 DEF OperatorQueueEmail, QueueRecoveryEmail, OperatorResolve, ResolveException
  <2> QED
    BY <1>8, <2>1, <2>2, <2>3, <2>4, <2>5 DEF Api
<1>9. CASE UNCHANGED allVars
  BY <1>1, <1>9 DEF allVars, vars, storeVars
<1> QED
  BY <1>2, <1>3, <1>4, <1>5, <1>6, <1>7, <1>8, <1>9 DEF Next, WorkersNext, Work

\* What a move of the program counter leaves alone.
LEMMA Returned ==
    ASSUME TypeOK, NEW w \in Workers, NEW s, Return(w, s)
    PROVE  /\ worker'[w].pc = "finish" /\ worker'[w].result = s
           /\ worker'[w].task = worker[w].task
           /\ worker'[w].todo = worker[w].todo /\ worker'[w].item = worker[w].item
BY DEF TypeOK, WorkerTypeOK, Return, Registers

LEMMA Gone ==
    ASSUME TypeOK, NEW w \in Workers, NEW pc, GoTo(w, pc)
    PROVE  /\ worker'[w].pc = pc /\ worker'[w].result = worker[w].result
           /\ worker'[w].task = worker[w].task
           /\ worker'[w].todo = worker[w].todo /\ worker'[w].item = worker[w].item
BY DEF TypeOK, WorkerTypeOK, GoTo, Registers

LEMMA Written ==
    ASSUME TypeOK, NEW w \in Workers, NEW pc, NEW s, Write(w, pc, s)
    PROVE  /\ worker'[w].pc = pc /\ worker'[w].result = s
           /\ worker'[w].task = worker[w].task
           /\ worker'[w].todo = worker[w].todo /\ worker'[w].item = worker[w].item
BY DEF TypeOK, WorkerTypeOK, Write, Registers

\* What the executors load, and the next item that they take.
LEMMA ItemsLoaded ==
    ASSUME TypeOK, NEW w \in Workers, LoadItems(w)
    PROVE  /\ worker'[w].pc = "each" /\ worker'[w].result = worker[w].result
           /\ worker'[w].task = worker[w].task /\ worker'[w].item = worker[w].item
           /\ worker[w].task \in {Apply, SendEmails}
           /\ worker[w].task = Apply => worker'[w].todo = ApprovedProposals
           /\ worker[w].task = SendEmails => worker'[w].todo = PreparedEmails
<1>1. worker \in [Workers -> Registers]
  BY DEF TypeOK, WorkerTypeOK
<1>2. CASE At(w, "execute", Apply)
  BY <1>1, <1>2 DEF LoadItems, At, Registers, Apply, SendEmails
<1>3. CASE At(w, "execute", SendEmails)
  BY <1>1, <1>3 DEF LoadItems, At, Registers, Apply, SendEmails
<1> QED
  BY <1>2, <1>3 DEF LoadItems, Apply, SendEmails

LEMMA ItemTaken ==
    ASSUME TypeOK, NEW w \in Workers, NextItem(w)
    PROVE  /\ worker[w].pc = "each"
           /\ worker'[w].task = worker[w].task /\ worker'[w].result = worker[w].result
           /\ worker'[w].item \in worker[w].todo
           /\ worker'[w].todo = worker[w].todo \ {worker'[w].item}
           /\ worker[w].task = Apply =>
                worker'[w].pc = "ensure" /\ \A y \in worker[w].todo : worker'[w].item <= y
           /\ worker[w].task # Apply => worker'[w].pc = "authorize"
<1>1. worker \in [Workers -> Registers]
  BY DEF TypeOK, WorkerTypeOK
<1>2. CASE worker[w].task = Apply
  <2>1. PICK x \in worker[w].todo :
          /\ \A y \in worker[w].todo : x <= y
          /\ worker' = [worker EXCEPT ![w].pc = "ensure", ![w].item = x, ![w].todo = @ \ {x}]
    BY <1>2 DEF NextItem, Apply
  <2> QED
    BY <1>1, <1>2, <2>1 DEF NextItem, Registers
<1>3. CASE worker[w].task # Apply
  <2>1. PICK x \in worker[w].todo :
          worker' = [worker EXCEPT ![w].pc = "authorize", ![w].item = x, ![w].todo = @ \ {x}]
    BY <1>3 DEF NextItem, Apply
  <2> QED
    BY <1>1, <1>3, <2>1 DEF NextItem, Registers
<1> QED
  BY <1>2, <1>3

\* The registers of a worker between two steps.
LEMMA RegistersOf ==
    ASSUME TypeOK, NEW w \in Workers
    PROVE  worker \in [Workers -> Registers] /\ worker[w] \in Registers /\ Coherent(worker[w])
BY DEF TypeOK, WorkerTypeOK

\* Between its claim and its end a worker stays with its task.
LEMMA TaskKept ==
    ASSUME TypeOK, NEW w \in Workers, StepOf(w)
    PROVE  \/ \E k \in TaskKeys : Claim(w, k) /\ worker'[w].task = k /\ worker'[w].pc = "execute"
           \/ worker'[w] = worker[w]
           \/ worker'[w].pc = "idle"
           \/ worker[w].pc # "idle" /\ worker'[w].task = worker[w].task
<1>0. worker \in [Workers -> Registers]
  BY RegistersOf
<1>1. ASSUME NEW k \in TaskKeys, Claim(w, k) PROVE worker'[w].task = k /\ worker'[w].pc = "execute"
  BY <1>0, <1>1 DEF Claim, Idle
<1>2. FindNothing(w) => worker'[w] = worker[w]
  BY DEF FindNothing
<1>3. CASE Crash(w) \/ Finish(w) \/ LeaveTask(w)
  <2>1. worker' = [worker EXCEPT ![w] = Idle]
    BY <1>3, Zenon DEF Crash, Finish, LeaveTask
  <2> QED
    BY <1>0, <2>1 DEF Idle
<1>4. CASE ExecutorFails(w) \/ SendFails(w)
  BY <1>4, Returned, Gone DEF ExecutorFails, SendFails
<1>5. CASE Prepare(w)
  BY <1>5, Returned, Gone DEF Prepare, Preflight, ReadSources, CommitSources, ReadSnapshot,
                              CommitEvidence, CommitExecution, FreezePackage, ArchivePackage, At
<1>6. CASE Loop(w)
  BY <1>6, Returned, Written, ItemsLoaded, ItemTaken DEF Loop, LoadItems, NoMoreItems, WriteOutcome, At
<1>7. CASE ActOnXero(w)
  BY <1>7, Gone, Written DEF ActOnXero, EnsureAction, StartAction, SearchJournals, CreateJournal,
                             CreateRefused, ReadBack, RecoverJournal
<1>8. CASE ActOnGmail(w)
  BY <1>8, Gone, Written DEF ActOnGmail, AuthorizeEmail, LookUpSent, MarkStarted, SendEmail, ReclaimSent
<1> QED
  BY <1>1, <1>2, <1>3, <1>4, <1>5, <1>6, <1>7, <1>8 DEF StepOf, Poll, Work

-----------------------------------------------------------------------------
(* Preparation *)

\* What the preparation leaves behind is never taken away.
LEMMA FactsStay ==
    ASSUME [StoreNext]_storeVars
    PROVE  /\ snapshot => snapshot'
           /\ checklist # "none" => checklist' # "none"
           /\ report # "none" => report' = report
           /\ package.status # "none" => package'.status # "none"
           /\ artifact => artifact'
<1>1. CASE QueueNext \/ LedgerNext \/ UNCHANGED storeVars
  <2>1. QueueNext => UNCHANGED <<closeVars, reviewVars>>
    BY DEF QueueNext, ClaimNextTask, CompleteTask, BlockTask, RetryTask, SweepOnly, LeaseExpires,
           RetryRun, CancelRun
  <2>2. LedgerNext => UNCHANGED <<closeVars, reviewVars>>
    BY DEF LedgerNext, EnsureDraftAction, UpdateDraftAction, UpdateEmailAction
  <2>3. UNCHANGED storeVars => UNCHANGED <<closeVars, reviewVars>>
    BY DEF storeVars
  <2> QED
    BY <1>1, <2>1, <2>2, <2>3 DEF closeVars, reviewVars
<1>2. CASE PersistNext
  BY <1>2 DEF PersistNext, PersistSourceSnapshot, PersistEvidenceBatch, PersistCloseExecution,
              RecordCloseArtifact, reviewVars
<1>3. ASSUME NEW content \in SUBSET Proposals, CreateReviewPackage(content) \/ RequestReviewChanges(content)
      PROVE  UNCHANGED closeVars /\ (package.status # "none" => package'.status # "none")
  BY <1>3 DEF CreateReviewPackage, RequestReviewChanges
<1>4. ASSUME NEW content \in SUBSET Proposals, ApproveReviewPackage(content)
      PROVE  UNCHANGED closeVars /\ (package.status # "none" => package'.status # "none")
  BY <1>4 DEF ApproveReviewPackage
<1>5. ASSUME NEW e \in Exceptions, QueueRecoveryEmail(e) \/ ResolveException(e)
      PROVE  UNCHANGED closeVars /\ UNCHANGED package
  BY <1>5 DEF QueueRecoveryEmail, ResolveException, reviewVars
<1> QED
  BY <1>1, <1>2, <1>3, <1>4, <1>5 DEF StoreNext, ReviewNext, closeVars

Answered(r, k) == r.pc = "finish" /\ r.task = k /\ r.result = "ok"

\* What a worker has persisted by the time it reports its task as done.
Prepared(r) ==
    /\ Answered(r, "synchronize_sources") => snapshot
    /\ Answered(r, "collect_evidence") => checklist # "none"
    /\ r.task = "reconcile" /\ r.pc \in {"freeze", "archive"} => report # "none"
    /\ r.task = "reconcile" /\ r.pc = "archive" => package.status # "none"
    /\ Answered(r, "reconcile") => report # "none" /\ package.status # "none" /\ artifact

\* The preparing executors.
LEMMA PreparedByExecutor ==
    ASSUME TypeOK, [Next]_allVars, NEW w \in Workers, Prepared(worker[w]), Prepare(w)
    PROVE  Prepared(worker[w])'
<1>1. ASSUME NEW k \in {"preflight", "synchronize_sources", "collect_evidence", "reconcile"},
             worker[w].task = k, Return(w, "ok")
      PROVE  worker'[w].task = k /\ worker'[w].pc = "finish"
  BY <1>1, Returned
<1>2. ASSUME NEW pc, GoTo(w, pc) PROVE worker'[w].task = worker[w].task /\ worker'[w].pc = pc
  BY <1>2, Gone
<1>3. CASE Preflight(w)
  BY <1>1, <1>3 DEF Preflight, At, Prepared, Answered
<1>4. CASE ReadSources(w)
  <2>1. CASE snapshot
    BY <1>1, <1>4, <2>1 DEF ReadSources, At, Prepared, Answered, storeVars, closeVars
  <2>2. CASE ~snapshot
    BY <1>2, <1>4, <2>2 DEF ReadSources, At, Prepared, Answered
  <2> QED
    BY <2>1, <2>2
<1>5. CASE CommitSources(w)
  BY <1>1, <1>5 DEF CommitSources, PersistSourceSnapshot, At, Prepared, Answered
<1>6. CASE ReadSnapshot(w)
  BY <1>2, <1>6 DEF ReadSnapshot, At, Prepared, Answered
<1>7. CASE CommitEvidence(w)
  <2>1. PICK verdict \in {"ready", "missing"} :
          PersistEvidenceBatch(verdict) /\ Return(w, IF verdict = "ready" THEN "ok" ELSE "blocked")
    BY <1>7 DEF CommitEvidence
  <2>2. checklist' # "none" /\ worker[w].task = "collect_evidence"
    BY <1>7, <2>1 DEF CommitEvidence, At, PersistEvidenceBatch
  <2>3. worker'[w].task = "collect_evidence" /\ worker'[w].pc = "finish"
    BY <2>1, <2>2, Returned
  <2> QED
    BY <2>2, <2>3 DEF Prepared, Answered
<1>8. CASE CommitExecution(w)
  <2>1. report' # "none"
    BY <1>8 DEF CommitExecution, PersistCloseExecution
  <2> QED
    BY <1>2, <1>8, <2>1 DEF CommitExecution, At, Prepared, Answered
<1>9. CASE FreezePackage(w)
  <2>1. report' # "none" /\ package'.status # "none"
    BY <1>9 DEF FreezePackage, CreateReviewPackage, At, Prepared, closeVars
  <2> QED
    BY <1>2, <1>9, <2>1 DEF FreezePackage, At, Prepared, Answered
<1>10. CASE ArchivePackage(w)
  <2>1. report' # "none" /\ package'.status # "none" /\ artifact'
    BY <1>10 DEF ArchivePackage, RecordCloseArtifact, At, Prepared, reviewVars
  <2> QED
    BY <1>1, <1>10, <2>1 DEF ArchivePackage, At, Prepared, Answered
<1> QED
  BY <1>3, <1>4, <1>5, <1>6, <1>7, <1>8, <1>9, <1>10 DEF Prepare

\* A worker's step never claims more than was persisted.
LEMMA PreparedStep ==
    ASSUME TypeOK, [Next]_allVars, NEW w \in Workers, Prepared(worker[w]), StepOf(w)
    PROVE  Prepared(worker[w])'
<1>0. worker \in [Workers -> Registers] /\ worker[w] \in Registers /\ Coherent(worker[w])
  BY RegistersOf
<1>1. ASSUME \/ worker'[w].pc \notin {"finish", "freeze", "archive"}
             \/ worker'[w].pc = "finish" /\ worker'[w].result # "ok"
             \/ worker'[w].task \in {Apply, SendEmails}
      PROVE  Prepared(worker[w])'
  BY <1>1 DEF Prepared, Answered, Apply, SendEmails
<1>2. ASSUME NEW k \in TaskKeys, Claim(w, k) PROVE worker'[w].pc = "execute"
  BY <1>0, <1>2 DEF Claim, Idle
<1>3. CASE FindNothing(w)
  BY <1>3, FactsStay, StepUsesStore DEF FindNothing, SweepOnly, closeVars, reviewVars, Prepared, Answered
<1>4. CASE Crash(w) \/ Finish(w) \/ LeaveTask(w)
  <2>1. worker' = [worker EXCEPT ![w] = Idle]
    BY <1>4, Zenon DEF Crash, Finish, LeaveTask
  <2>2. worker'[w].pc = "idle"
    BY <1>0, <2>1 DEF Idle
  <2> QED
    BY <1>1, <2>2
<1>5. CASE ExecutorFails(w)
  <2>1. PICK s \in {"blocked", "error"} : Return(w, s)
    BY <1>5 DEF ExecutorFails
  <2>2. worker'[w].pc = "finish" /\ worker'[w].result # "ok"
    BY <2>1, Returned
  <2> QED
    BY <1>1, <2>2
<1>6. CASE SendFails(w)
  <2>1. worker'[w].pc = "reclaim"
    BY <1>6, Gone DEF SendFails
  <2> QED
    BY <1>1, <2>1
<1>7. CASE Loop(w)
  <2>1. worker'[w].task \in {Apply, SendEmails}
    <3>1. worker'[w].task = worker[w].task
      <4>1. CASE LoadItems(w)
        BY <4>1, ItemsLoaded
      <4>3. CASE NextItem(w)
        BY <4>3, ItemTaken
      <4>2. CASE NoMoreItems(w) \/ WriteOutcome(w)
        BY <4>2, Returned, Written DEF NoMoreItems, WriteOutcome
      <4> QED
        BY <1>7, <4>1, <4>2, <4>3 DEF Loop
    <3>2. worker[w].task \in {Apply, SendEmails}
      BY <1>0, <1>7 DEF Loop, LoadItems, NextItem, NoMoreItems, WriteOutcome, At, Coherent,
                        OnEmails, GmailPC, Apply, SendEmails
    <3> QED
      BY <3>1, <3>2
  <2> QED
    BY <1>1, <2>1
<1>8. CASE ActOnXero(w) \/ ActOnGmail(w)
  <2>1. worker'[w].pc \notin {"finish", "freeze", "archive"}
    <3>1. CASE EnsureAction(w) \/ StartAction(w) \/ CreateJournal(w) \/ CreateRefused(w)
      BY <1>0, <3>1 DEF EnsureAction, StartAction, CreateJournal, CreateRefused, GoTo, Registers
    <3>2. CASE SearchJournals(w) \/ ReadBack(w) \/ RecoverJournal(w)
      BY <1>0, <3>2 DEF SearchJournals, ReadBack, RecoverJournal, GoTo, Write, Registers
    <3>3. CASE ActOnGmail(w)
      BY <1>0, <3>3 DEF ActOnGmail, AuthorizeEmail, LookUpSent, MarkStarted, SendEmail, ReclaimSent,
                        GoTo, Write, Registers
    <3> QED
      BY <1>8, <3>1, <3>2, <3>3 DEF ActOnXero
  <2> QED
    BY <1>1, <2>1
<1> QED
  BY <1>1, <1>2, <1>3, <1>4, <1>5, <1>6, <1>7, <1>8, PreparedByExecutor DEF StepOf, Poll, Work

\* A task becomes succeeded only when its worker, still its owner, says so.
LEMMA NewlySucceeded ==
    ASSUME TypeOK, [Next]_allVars, NEW k \in TaskKeys, tasks'[k].state = "succeeded"
    PROVE  \/ tasks[k].state = "succeeded"
           \/ \E w \in Workers : Finish(w) /\ Answered(worker[w], k)
<1>1. RowChange(k) /\ tasks[k] \in Row
  BY RowChanges DEF TypeOK, StoreTypeOK
<1>2. ASSUME NEW w \in Workers, Settles(w, k), worker[w].result # "ok" PROVE tasks'[k].state # "succeeded"
  BY <1>1, <1>2 DEF Settles, AfterFailure, Released, Row
<1>3. ASSUME NEW w \in Workers, Settles(w, k), worker[w].result = "ok" PROVE Answered(worker[w], k)
  BY <1>3 DEF Settles, Finish, Answered
<1>4. \A w \in Workers : Claimed(tasks[k], w).state = "running"
  BY DEF Claimed
<1>5. \A s \in {"failed", "cancelled"} : Released(tasks[k], s).state = s
  BY <1>1 DEF Released, Row
<1>6. Requeued(tasks[k]).state # "succeeded" /\ Inserted("ready").state = "ready"
  BY <1>1 DEF Requeued, Released, Inserted, Row
<1>7. /\ [tasks[k] EXCEPT !.expiry = "expired"].state = tasks[k].state
      /\ [tasks[k] EXCEPT !.state = "ready"].state = "ready"
  BY <1>1 DEF Row
<1>8. \A w \in Workers : Settles(w, k) => Finish(w)
  BY DEF Settles
<1> QED
  BY <1>1, <1>2, <1>3, <1>4, <1>5, <1>6, <1>7, <1>8 DEF RowChange

\* The rows of the default tasks are there from the start.
DefaultRows == \A k \in DefaultTasks : tasks[k].state # "absent"

\* A run is "running" or awaits the controller only behind a report.
RunReported == runState \in {"running", "awaiting_approval"} => report # "none"

PrepInv ==
    /\ TypeOK
    /\ DefaultRows
    /\ \A w \in Workers : Prepared(worker[w])
    /\ TaskEffects
    /\ RunReported
    /\ ReviewableWhenAwaiting

\* No row of the queue is ever deleted.
LEMMA RowsStay ==
    ASSUME TypeOK, [Next]_allVars, NEW k \in TaskKeys, tasks[k].state # "absent"
    PROVE  tasks'[k].state # "absent"
<1>1. RowChange(k) /\ tasks[k] \in Row
  BY RowChanges DEF TypeOK, StoreTypeOK
<1>2. \A s \in TaskState : Released(tasks[k], s).state = s
  BY <1>1 DEF Released, Row
<1>3. ASSUME NEW w \in Workers, Settles(w, k) PROVE tasks'[k].state # "absent"
  BY <1>2, <1>3 DEF Settles, AfterFailure, TaskState
<1>4. \A w \in Workers : Claimed(tasks[k], w).state = "running"
  BY DEF Claimed
<1>5. Requeued(tasks[k]).state # "absent" /\ Inserted("ready").state = "ready"
  BY <1>1, <1>2 DEF Requeued, Inserted, TaskState, Row
<1>6. /\ [tasks[k] EXCEPT !.expiry = "expired"].state = tasks[k].state
      /\ [tasks[k] EXCEPT !.state = "ready"].state = "ready"
  BY <1>1 DEF Row
<1> QED
  BY <1>1, <1>2, <1>3, <1>4, <1>5, <1>6 DEF RowChange, TaskState

\* A step keeps what every worker has persisted.
LEMMA AllPrepared ==
    ASSUME TypeOK, [Next]_allVars, NEW v \in Workers, Prepared(worker[v])
    PROVE  Prepared(worker[v])'
<1>1. CASE worker'[v] = worker[v]
  <2>1. /\ snapshot => snapshot'
        /\ checklist # "none" => checklist' # "none"
        /\ report # "none" => report' # "none"
        /\ package.status # "none" => package'.status # "none"
        /\ artifact => artifact'
    BY FactsStay, StepUsesStore
  <2> QED
    BY <1>1, <2>1 DEF Prepared, Answered
<1>2. CASE worker'[v] # worker[v]
  <2>1. PICK w \in Workers : StepOf(w)
    BY <1>2, WhoSteps
  <2>2. v = w
    BY <1>2, <2>1, OwnRegisters
  <2> QED
    BY <2>1, <2>2, PreparedStep
<1> QED
  BY <1>1, <1>2

\* The strengthened invariant is inductive.
LEMMA PrepStep == PrepInv /\ [Next]_allVars => PrepInv'
<1> SUFFICES ASSUME PrepInv, [Next]_allVars PROVE PrepInv'
  OBVIOUS
<1>0. TypeOK /\ TypeOK' /\ DefaultTasks \subseteq TaskKeys
  BY TypeNext DEF PrepInv, TaskKeys
<1>1. DefaultRows'
  BY <1>0, RowsStay DEF PrepInv, DefaultRows
<1>2. \A v \in Workers : Prepared(worker[v])'
  BY <1>0, AllPrepared DEF PrepInv
<1>3. /\ snapshot => snapshot'
      /\ checklist # "none" => checklist' # "none"
      /\ report # "none" => report' # "none"
      /\ package.status # "none" => package'.status # "none"
      /\ artifact => artifact'
  BY <1>0, FactsStay, StepUsesStore
<1>4. TaskEffects'
  <2>1. "synchronize_sources" \in TaskKeys /\ "collect_evidence" \in TaskKeys /\ "reconcile" \in TaskKeys
    BY DEF TaskKeys, DefaultTasks
  <2>2. ASSUME NEW k \in TaskKeys, Succeeded(k)'
        PROVE  Succeeded(k) \/ \E w \in Workers : Answered(worker[w], k)
    BY <1>0, <2>2, NewlySucceeded DEF Succeeded
  <2>3. Succeeded("synchronize_sources")' => snapshot'
    BY <1>3, <2>1, <2>2 DEF PrepInv, TaskEffects, Prepared
  <2>4. Succeeded("collect_evidence")' => checklist' # "none"
    BY <1>3, <2>1, <2>2 DEF PrepInv, TaskEffects, Prepared
  <2>5. Succeeded("reconcile")' => report' # "none" /\ package'.status # "none" /\ artifact'
    BY <1>3, <2>1, <2>2 DEF PrepInv, TaskEffects, Prepared
  <2> QED
    BY <2>3, <2>4, <2>5 DEF TaskEffects
<1>5. RunChange
  BY <1>0, RunChanges
<1>6. RunReported'
  <2>1. CASE \A k \in TaskKeys : tasks'[k].state \in {"absent", "succeeded"}
    <3>1. Succeeded("reconcile")'
      BY <1>0, <1>1, <2>1 DEF DefaultRows, DefaultTasks, Succeeded
    <3> QED
      BY <1>4, <3>1 DEF TaskEffects, RunReported
  <2>2. CASE ~\A k \in TaskKeys : tasks'[k].state \in {"absent", "succeeded"}
    BY <1>3, <1>5, <2>2 DEF RunChange, PrepInv, RunReported, Reviewable
  <2> QED
    BY <2>1, <2>2
<1>7. ReviewableWhenAwaiting'
  BY <1>3, <1>5 DEF RunChange, PrepInv, RunReported, ReviewableWhenAwaiting, Reviewable
<1> QED
  BY <1>0, <1>1, <1>2, <1>4, <1>6, <1>7 DEF PrepInv

LEMMA PrepAlways == Spec => []PrepInv
<1>1. WorkflowInit => PrepInv
  <2> SUFFICES ASSUME WorkflowInit PROVE PrepInv
    OBVIOUS
  <2>1. TypeOK
    BY TypeWorkerStart
  <2>2. \A k \in TaskKeys : tasks[k].state # "succeeded" /\ (k \in DefaultTasks => tasks[k].state # "absent")
    BY DEF WorkflowInit, StoreInit, Inserted
  <2>3. DefaultRows /\ TaskEffects
    BY <2>2 DEF DefaultRows, TaskEffects, Succeeded, TaskKeys, DefaultTasks
  <2>4. \A w \in Workers : Prepared(worker[w])
    BY DEF WorkflowInit, WorkerInit, Idle, Prepared, Answered
  <2>5. RunReported /\ ReviewableWhenAwaiting
    BY DEF WorkflowInit, StoreInit, RunReported, ReviewableWhenAwaiting
  <2> QED
    BY <2>1, <2>3, <2>4, <2>5 DEF PrepInv
<1> QED
  BY <1>1, PrepStep, PTL DEF Spec

\* A succeeded task has persisted what the tasks after it read, whichever worker
\* ran it, lost its lease on it or was overtaken (complete_task, the executors).
THEOREM SucceededTasksLeftTheirFacts == Spec => []TaskEffects
<1>1. PrepInv => TaskEffects
  BY DEF PrepInv
<1> QED
  BY <1>1, PrepAlways, PTL

\* The controller is only asked about a package with a snapshot and a report
\* behind it, whoever called prepare-review, and when.
THEOREM ControllerSeesAReport == Spec => []ReviewableWhenAwaiting
<1>1. PrepInv => ReviewableWhenAwaiting
  BY DEF PrepInv
<1> QED
  BY <1>1, PrepAlways, PTL

\* Once the workers of a cancelled run have stopped, nothing claims its tasks
\* again, and no journal is created and no message sent.
THEOREM CancelledRunsStayQuiet == Spec => CancelStopsNewWork
<1>1. TypeOK /\ [Next]_allVars =>
        [(runState = "cancelled" /\ \A w \in Workers : worker[w].pc = "idle")
           => UNCHANGED <<worker, journals, sent>>]_allVars
  <2> SUFFICES ASSUME TypeOK, [Next]_allVars, runState = "cancelled",
                      \A w \in Workers : worker[w].pc = "idle",
                      ~UNCHANGED <<worker, journals, sent>>
               PROVE  FALSE
    OBVIOUS
  <2>1. PICK w \in Workers : StepOf(w)
    BY WhoSteps
  <2>2. worker[w].pc = "idle"
    OBVIOUS
  <2>3. ~Prepare(w) /\ ~Loop(w)
    BY <2>2 DEF Prepare, Preflight, ReadSources, CommitSources, ReadSnapshot, CommitEvidence,
                CommitExecution, FreezePackage, ArchivePackage, At,
                Loop, LoadItems, NextItem, NoMoreItems, WriteOutcome
  <2>4. ~ActOnXero(w) /\ ~ActOnGmail(w)
    BY <2>2 DEF ActOnXero, EnsureAction, StartAction, SearchJournals, CreateJournal, CreateRefused,
                ReadBack, RecoverJournal, ActOnGmail, AuthorizeEmail, LookUpSent, MarkStarted,
                SendEmail, ReclaimSent
  <2>5. ~Crash(w) /\ ~Finish(w) /\ ~LeaveTask(w) /\ ~ExecutorFails(w) /\ ~SendFails(w)
    BY <2>2 DEF Crash, Finish, LeaveTask, ExecutorFails, SendFails
  <2>6. \A k \in TaskKeys : ~Claim(w, k)
    BY DEF Claim, ClaimNextTask, Candidates
  <2>7. ~FindNothing(w)
    BY DEF FindNothing, providerVars
  <2> QED
    BY <2>1, <2>3, <2>4, <2>5, <2>6, <2>7 DEF StepOf, Poll, Work
<1> QED
  BY <1>1, TypeCorrect, PTL DEF Spec, CancelStopsNewWork
=============================================================================
