------------------------------ MODULE CloseSafety ------------------------------
(***************************************************************************)
(* Proofs about the external actions: a draft needs an approval, and no    *)
(* success is recorded that was not observed.  Each rests on what a worker *)
(* knows between two transactions, which is the strengthening that makes   *)
(* the invariant inductive.  The last part is about a single worker        *)
(* process: no duplicates, and evidence that stays what was approved.      *)
(***************************************************************************)
EXTENDS CloseProofs

-----------------------------------------------------------------------------
(* Drafts need an approval *)

Approvable == IF "approved" \in decisions THEN package.content ELSE {}

\* What a worker loaded to apply, and what it has in hand, was approved.
LoadedApproved(r) ==
    r.task = "apply_approved_actions" =>
        /\ r.todo \subseteq Approvable
        /\ r.pc \in XeroPC => r.item \in Approvable

DraftInv ==
    /\ TypeOK
    /\ ApprovalGate
    /\ \A w \in Workers : LoadedApproved(worker[w])
    /\ DraftsNeedApproval

\* What was approved stays approved.
LEMMA ApprovableGrows ==
    ASSUME TypeOK, ApprovalGate, [Next]_allVars
    PROVE  Approvable \subseteq Approvable'
<1>1. StoreTypeOK /\ [StoreNext]_storeVars
  BY StepUsesStore DEF TypeOK
<1>2. "approved" \in decisions => package'.content = package.content
  BY <1>1, FreezeStep DEF ApprovalGate
<1> QED
  BY <1>1, <1>2, DecisionsGrow DEF Approvable

\* A worker's own step keeps what it has in hand approved.
LEMMA LoadedStep ==
    ASSUME TypeOK, NEW w \in Workers, LoadedApproved(worker[w]), StepOf(w)
    PROVE  worker'[w].task = "apply_approved_actions" =>
             /\ worker'[w].todo \subseteq Approvable
             /\ worker'[w].pc \in XeroPC => worker'[w].item \in Approvable
<1>1. worker \in [Workers -> Registers] /\ worker[w] \in Registers /\ Coherent(worker[w])
  BY DEF TypeOK, WorkerTypeOK
<1>2. CASE Poll(w)
  BY <1>1, <1>2 DEF Poll, Claim, FindNothing, Idle, XeroPC, LoadedApproved
<1>3. CASE Crash(w) \/ Finish(w) \/ LeaveTask(w)
  <2>1. worker' = [worker EXCEPT ![w] = Idle]
    BY <1>3, Zenon DEF Crash, Finish, LeaveTask
  <2>2. worker'[w].task = "preflight"
    BY <1>1, <2>1 DEF Idle
  <2> QED
    BY <2>2
<1>4. CASE ExecutorFails(w) \/ Prepare(w)
  <2>1. \/ \E s \in {"ok", "blocked", "error"} : Return(w, s)
        \/ \E pc \in {"persist", "freeze", "archive"} : GoTo(w, pc)
    <3>1. CASE ExecutorFails(w)
      BY <3>1 DEF ExecutorFails
    <3>2. CASE Preflight(w) \/ ReadSources(w) \/ CommitSources(w) \/ ReadSnapshot(w)
      BY <3>2 DEF Preflight, ReadSources, CommitSources, ReadSnapshot
    <3>3. CASE CommitEvidence(w)
      BY <3>3 DEF CommitEvidence
    <3>4. CASE CommitExecution(w) \/ FreezePackage(w) \/ ArchivePackage(w)
      BY <3>4 DEF CommitExecution, FreezePackage, ArchivePackage
    <3> QED
      BY <1>4, <3>1, <3>2, <3>3, <3>4 DEF Prepare
  <2>2. /\ worker'[w].task = worker[w].task
        /\ worker'[w].todo = worker[w].todo
        /\ worker'[w].pc \notin XeroPC
    <3>1. ASSUME NEW s \in {"ok", "blocked", "error"}, Return(w, s)
          PROVE  worker'[w] = [worker[w] EXCEPT !.pc = "finish", !.result = s]
      BY <1>1, <3>1 DEF Return
    <3>2. ASSUME NEW pc \in {"persist", "freeze", "archive"}, GoTo(w, pc)
          PROVE  worker'[w] = [worker[w] EXCEPT !.pc = pc]
      BY <1>1, <3>2 DEF GoTo
    <3> QED
      BY <1>1, <2>1, <3>1, <3>2 DEF Registers, XeroPC
  <2> QED
    BY <2>2 DEF LoadedApproved
<1>5. CASE SendFails(w) \/ ActOnGmail(w)
  <2>1. OnEmails(worker[w])
    BY <1>5 DEF SendFails, ActOnGmail, AuthorizeEmail, LookUpSent, MarkStarted, SendEmail,
                ReclaimSent, OnEmails, GmailPC
  <2>2. worker[w].task = "send_recovery_request"
    BY <1>1, <2>1 DEF Coherent
  <2>3. worker'[w].task = worker[w].task
    BY <1>1, <1>5 DEF SendFails, ActOnGmail, AuthorizeEmail, LookUpSent, MarkStarted, SendEmail,
                ReclaimSent, GoTo, Write, Registers
  <2> QED
    BY <2>2, <2>3
<1>6. CASE LoadItems(w)
  <2>1. ApprovedProposals \subseteq Approvable
    BY DEF ApprovedProposals, Approvable
  <2> QED
    BY <1>1, <1>6, <2>1 DEF LoadItems, At, XeroPC, Registers
<1>7. CASE NextItem(w)
  BY <1>1, <1>7 DEF NextItem, LoadedApproved, Registers, XeroPC
<1>8. CASE NoMoreItems(w) \/ WriteOutcome(w)
  BY <1>1, <1>8 DEF NoMoreItems, WriteOutcome, Return, Write, LoadedApproved, Registers, XeroPC
<1>9. CASE ActOnXero(w)
  <2>1. worker[w].pc \in XeroPC
    BY <1>9 DEF ActOnXero, EnsureAction, StartAction, SearchJournals, CreateJournal,
                CreateRefused, ReadBack, RecoverJournal, XeroPC
  <2>2. /\ worker'[w].task = worker[w].task
        /\ worker'[w].todo = worker[w].todo
        /\ worker'[w].item = worker[w].item
    BY <1>1, <1>9 DEF ActOnXero, EnsureAction, StartAction, SearchJournals, CreateJournal,
                CreateRefused, ReadBack, RecoverJournal, GoTo, Write, Registers
  <2> QED
    BY <2>1, <2>2 DEF LoadedApproved
<1> QED
  BY <1>2, <1>3, <1>4, <1>5, <1>6, <1>7, <1>8, <1>9 DEF StepOf, Work, Loop

\* The strengthened invariant is inductive.
LEMMA DraftStep == DraftInv /\ [Next]_allVars => DraftInv'
<1> SUFFICES ASSUME DraftInv, [Next]_allVars PROVE DraftInv'
  OBVIOUS
<1>1. TypeOK /\ TypeOK' /\ ApprovalGate /\ ApprovalGate'
  BY TypeNext, StepUsesStore, ApprovalStep DEF DraftInv, TypeOK
<1>2. Approvable \subseteq Approvable'
  BY <1>1, ApprovableGrows
<1>3. ASSUME NEW v \in Workers PROVE LoadedApproved(worker[v])'
  <2>1. LoadedApproved(worker[v])
    BY DEF DraftInv
  <2>2. CASE worker'[v] = worker[v]
    BY <1>2, <2>1, <2>2 DEF LoadedApproved
  <2>3. CASE worker'[v] # worker[v]
    <3>1. PICK w \in Workers : StepOf(w)
      BY <2>3, WhoSteps
    <3>2. v = w
      BY <1>1, <2>3, <3>1, OwnRegisters
    <3>3. worker'[v].task = "apply_approved_actions" =>
             /\ worker'[v].todo \subseteq Approvable
             /\ worker'[v].pc \in XeroPC => worker'[v].item \in Approvable
      BY <1>1, <2>1, <3>1, <3>2, LoadedStep
    <3> QED
      BY <1>2, <3>3 DEF LoadedApproved
  <2> QED
    BY <2>2, <2>3
<1>4. ASSUME NEW p \in Proposals, journals'[p] > 0 PROVE p \in Approvable'
  <2>1. CASE journals[p] > 0
    BY <1>2, <2>1 DEF DraftInv, DraftsNeedApproval, Approvable
  <2>2. CASE ~(journals[p] > 0)
    <3>1. journals' # journals
      BY <1>4, <2>2
    <3>2. PICK w \in Workers : StepOf(w)
      BY <3>1, WhoSteps
    <3>3. CreateJournal(w)
      BY <1>1, <3>1, <3>2, OnlyCreates
    <3>4. p = worker[w].item
      BY <1>1, <1>4, <2>2, <3>3 DEF CreateJournal, TypeOK
    <3>5. worker[w].pc \in XeroPC /\ worker[w].task = "apply_approved_actions"
      BY <1>1, <3>3 DEF CreateJournal, XeroPC, TypeOK, WorkerTypeOK, Coherent, OnProposals
    <3>6. worker[w].item \in Approvable
      BY <3>5 DEF DraftInv, LoadedApproved
    <3> QED
      BY <1>2, <3>4, <3>6
  <2> QED
    BY <2>1, <2>2
<1>5. DraftsNeedApproval'
  BY <1>4 DEF DraftsNeedApproval, Approvable
<1> QED
  BY <1>1, <1>3, <1>5 DEF DraftInv

\* No journal is created without the controller's approval of its proposal,
\* whatever workers crash and whatever the API asks for meanwhile.
THEOREM ApprovalBeforeDrafts == Spec => []DraftsNeedApproval
<1>1. WorkflowInit => DraftInv
  <2> SUFFICES ASSUME WorkflowInit PROVE DraftInv
    OBVIOUS
  <2>1. TypeOK /\ ApprovalGate
    BY TypeWorkerStart, ApprovalInit DEF WorkflowInit
  <2>2. \A w \in Workers : LoadedApproved(worker[w])
    BY DEF WorkflowInit, WorkerInit, Idle, LoadedApproved
  <2>3. DraftsNeedApproval
    BY DEF WorkflowInit, WorkerInit, DraftsNeedApproval
  <2> QED
    BY <2>1, <2>2, <2>3 DEF DraftInv
<1>2. DraftInv => DraftsNeedApproval
  BY DEF DraftInv
<1> QED
  BY <1>1, <1>2, DraftStep, PTL DEF Spec

-----------------------------------------------------------------------------
(* A recorded success was observed *)

\* What a worker is about to record as a success, or to read back, is there.
Observed(r) ==
    /\ r.task = "apply_approved_actions" /\ (r.pc = "readback" \/ (r.pc = "settle" /\ r.result \in Done))
         => journals[r.item] > 0
    /\ r.task = "send_recovery_request" /\ r.pc \in {"conclude", "settle"} /\ r.result \in Done
         => sent[r.item] > 0

VerifyInv ==
    /\ TypeOK
    /\ \A w \in Workers : Observed(worker[w])
    /\ VerifiedDrafts
    /\ VerifiedSends

NoNewSuccess ==
    /\ \A p \in Proposals : proposals'[p] = "actioned" => proposals[p] = "actioned"
    /\ manifests \subseteq manifests'
    /\ \A e \in Exceptions : emails'[e] \in Done => emails[e] \in Done

\* Outside the action ledger no transaction records a success.
LEMMA OthersRecordNothing ==
    ASSUME StoreTypeOK, QueueNext \/ PersistNext \/ ReviewNext \/ UNCHANGED storeVars
    PROVE  NoNewSuccess
<1>1. /\ emails \in [Exceptions -> ActionStatus]
      /\ proposals \in [Proposals -> {"absent", "proposed", "approved", "actioned"}]
  BY DEF StoreTypeOK
<1>2. QueueNext \/ PersistNext \/ UNCHANGED storeVars => UNCHANGED <<proposals, manifests, emails>>
  BY DEF QueueNext, ClaimNextTask, CompleteTask, BlockTask, RetryTask, SweepOnly, LeaseExpires,
         RetryRun, CancelRun, PersistNext, PersistSourceSnapshot, PersistEvidenceBatch,
         PersistCloseExecution, RecordCloseArtifact, storeVars, actionVars
<1>3. ASSUME NEW content \in SUBSET Proposals,
             \/ CreateReviewPackage(content)
             \/ ApproveReviewPackage(content)
             \/ RequestReviewChanges(content)
      PROVE  NoNewSuccess
  BY <1>1, <1>3 DEF CreateReviewPackage, ApproveReviewPackage, RequestReviewChanges, actionVars,
                    NoNewSuccess
<1>4. ASSUME NEW e \in Exceptions, QueueRecoveryEmail(e) \/ ResolveException(e)
      PROVE  NoNewSuccess
  BY <1>1, <1>4 DEF QueueRecoveryEmail, ResolveException, actionVars, NoNewSuccess, Done
<1> QED
  BY <1>2, <1>3, <1>4 DEF ReviewNext, NoNewSuccess

\* Only WriteOutcome records a success, the one that its worker holds.
LEMMA WhoRecords ==
    ASSUME TypeOK, [Next]_allVars
    PROVE  \/ NoNewSuccess
           \/ \E w \in Workers : WriteOutcome(w) /\ worker[w].result \in Done
<1>0. StoreTypeOK /\ drafts \in [Proposals -> ActionStatus] /\ emails \in [Exceptions -> ActionStatus]
  BY DEF TypeOK, StoreTypeOK
<1>1. ASSUME NEW w \in Workers, WriteOutcome(w), worker[w].result \notin Done PROVE NoNewSuccess
  BY <1>0, <1>1 DEF WriteOutcome, UpdateDraftAction, UpdateEmailAction, NoNewSuccess, Done
<1>2. ASSUME NEW w \in Workers, EnsureAction(w) \/ StartAction(w) \/ MarkStarted(w) PROVE NoNewSuccess
  BY <1>0, <1>2 DEF EnsureAction, StartAction, MarkStarted, EnsureDraftAction, UpdateDraftAction,
                    UpdateEmailAction, NoNewSuccess, Done
<1>3. ASSUME NEW w \in Workers, Poll(w) \/ Finish(w) PROVE NoNewSuccess
  BY <1>0, <1>3, QueueUsesStore, OthersRecordNothing
<1>4. ASSUME NEW w \in Workers, Prepare(w) PROVE NoNewSuccess
  <2>1. QueueNext \/ PersistNext \/ ReviewNext \/ UNCHANGED storeVars
    BY <1>4, CloseStoreAssumption
       DEF Prepare, Preflight, ReadSources, CommitSources, ReadSnapshot, CommitEvidence,
           CommitExecution, FreezePackage, ArchivePackage, PersistNext, ReviewNext
  <2> QED
    BY <1>0, <2>1, OthersRecordNothing
<1>5. ASSUME NEW w \in Workers, ~WriteOutcome(w), ~EnsureAction(w), ~StartAction(w), ~MarkStarted(w),
             \/ Loop(w) \/ ActOnXero(w) \/ ActOnGmail(w)
             \/ ExecutorFails(w) \/ SendFails(w) \/ LeaveTask(w) \/ Crash(w)
      PROVE  NoNewSuccess
  <2>1. UNCHANGED storeVars
    BY <1>5 DEF Loop, LoadItems, NextItem, NoMoreItems, ActOnXero, SearchJournals, CreateJournal,
                CreateRefused, ReadBack, RecoverJournal, ActOnGmail, AuthorizeEmail, LookUpSent,
                SendEmail, ReclaimSent, ExecutorFails, SendFails, LeaveTask, Crash
  <2> QED
    BY <1>0, <2>1, OthersRecordNothing
<1>6. CASE Api
  <2>1. QueueNext \/ PersistNext \/ ReviewNext
    <3>1. package.content \in SUBSET Proposals
      BY DEF TypeOK, StoreTypeOK
    <3> QED
      BY <1>6, <3>1 DEF Api, OperatorRetry, OperatorCancel, OperatorPrepareReview, ControllerApprove,
                        ControllerRequestChanges, OperatorQueueEmail, OperatorResolve,
                        QueueNext, ReviewNext
  <2> QED
    BY <1>0, <2>1, OthersRecordNothing
<1>7. ASSUME NEW k \in TaskKeys, Expire(k) PROVE NoNewSuccess
  BY <1>0, <1>7, OthersRecordNothing DEF Expire, QueueNext
<1>8. CASE UNCHANGED allVars
  BY <1>0, <1>8, OthersRecordNothing DEF allVars, vars
<1>9. ASSUME NEW w \in Workers, Poll(w) \/ Work(w) \/ Crash(w)
      PROVE  NoNewSuccess \/ (WriteOutcome(w) /\ worker[w].result \in Done)
  BY <1>9, <1>1, <1>2, <1>3, <1>4, <1>5 DEF Work
<1> QED
  BY <1>6, <1>7, <1>8, <1>9 DEF Next, WorkersNext

\* A worker's own step keeps what it is about to record observed.
LEMMA ObservedStep ==
    ASSUME TypeOK, NEW w \in Workers, Observed(worker[w]), StepOf(w)
    PROVE  Observed(worker[w])'
<1>1. /\ worker \in [Workers -> Registers]
      /\ worker[w] \in Registers
      /\ Coherent(worker[w])
      /\ journals \in [Proposals -> 0..MaxJournals]
      /\ sent \in [Exceptions -> 0..MaxSent]
      /\ MaxJournals \in Nat /\ MaxSent \in Nat
  BY CloseWorkerAssumption DEF TypeOK, WorkerTypeOK
<1>2. CASE worker'[w].pc \notin {"readback", "settle", "conclude"}
  BY <1>2 DEF Observed
<1>3. CASE UNCHANGED <<worker, journals, sent>>
  BY <1>3 DEF Observed
<1>4. CASE ActOnXero(w) /\ worker'[w].pc \in {"readback", "settle", "conclude"}
  <2>1. OnProposals(worker[w]) /\ worker[w].pc # "settle"
    BY <1>4 DEF ActOnXero, EnsureAction, StartAction, SearchJournals, CreateJournal,
                CreateRefused, ReadBack, RecoverJournal, OnProposals, XeroPC
  <2>2. worker[w].task = "apply_approved_actions" /\ worker[w].item \in Proposals
    BY <1>1, <2>1 DEF Coherent
  <2>3. /\ worker'[w].task = worker[w].task
        /\ worker'[w].item = worker[w].item
    BY <1>1, <1>4 DEF ActOnXero, EnsureAction, StartAction, SearchJournals, CreateJournal,
                CreateRefused, ReadBack, RecoverJournal, GoTo, Write, Registers
  <2>4. ASSUME worker'[w].pc = "readback" \/ worker'[w].result \in Done
        PROVE  journals'[worker[w].item] > 0
    <3>1. CASE EnsureAction(w) \/ StartAction(w) \/ CreateRefused(w)
      BY <1>1, <1>4, <3>1 DEF EnsureAction, StartAction, CreateRefused, Registers, Write, GoTo, Return
    <3>2. CASE SearchJournals(w)
      BY <1>1, <1>4, <2>2, <2>4, <3>2 DEF SearchJournals, Registers, Done, providerVars, Write, GoTo, Return
    <3>3. CASE CreateJournal(w)
      BY <1>1, <2>2, <3>3 DEF CreateJournal
    <3>4. CASE ReadBack(w)
      BY <2>2, <3>4 DEF ReadBack, Observed, providerVars
    <3>5. CASE RecoverJournal(w)
      BY <1>1, <1>4, <2>2, <2>4, <3>5 DEF RecoverJournal, Registers, Done, providerVars, Write, GoTo, Return
    <3> QED
      BY <1>4, <3>1, <3>2, <3>3, <3>4, <3>5 DEF ActOnXero
  <2> QED
    BY <2>2, <2>3, <2>4 DEF Observed
<1>5. CASE ActOnGmail(w) /\ worker'[w].pc \in {"readback", "settle", "conclude"}
  <2>1. OnEmails(worker[w]) /\ worker[w].pc # "settle"
    BY <1>5 DEF ActOnGmail, AuthorizeEmail, LookUpSent, MarkStarted, SendEmail, ReclaimSent,
                OnEmails, GmailPC
  <2>2. worker[w].task = "send_recovery_request" /\ worker[w].item \in Exceptions
    BY <1>1, <2>1 DEF Coherent
  <2>3. /\ worker'[w].task = worker[w].task
        /\ worker'[w].item = worker[w].item
    BY <1>1, <1>5 DEF ActOnGmail, AuthorizeEmail, LookUpSent, MarkStarted, SendEmail, ReclaimSent,
                GoTo, Write, Registers
  <2>4. ASSUME worker'[w].pc \in {"conclude", "settle"}, worker'[w].result \in Done
        PROVE  sent'[worker[w].item] > 0
    <3>1. CASE AuthorizeEmail(w) \/ MarkStarted(w)
      BY <1>1, <2>4, <3>1 DEF AuthorizeEmail, MarkStarted, Registers, Done, Write, GoTo, Return
    <3>2. CASE LookUpSent(w)
      BY <1>1, <2>2, <2>4, <3>2 DEF LookUpSent, Registers, Done, providerVars, Write, GoTo, Return
    <3>3. CASE SendEmail(w)
      BY <1>1, <2>2, <3>3 DEF SendEmail
    <3>4. CASE ReclaimSent(w)
      BY <1>1, <2>2, <2>4, <3>4 DEF ReclaimSent, Registers, Done, providerVars, Write, GoTo, Return
    <3> QED
      BY <1>5, <3>1, <3>2, <3>3, <3>4 DEF ActOnGmail
  <2> QED
    BY <2>2, <2>3, <2>4 DEF Observed
<1>6. CASE Finish(w) \/ LeaveTask(w) \/ Crash(w) \/ \E k \in TaskKeys : Claim(w, k)
  <2>1. \/ worker' = [worker EXCEPT ![w] = Idle]
        \/ \E k \in TaskKeys :
             worker' = [worker EXCEPT ![w] = [Idle EXCEPT !.pc = "execute", !.task = k]]
    BY <1>6, Zenon DEF Finish, LeaveTask, Crash, Claim
  <2>2. worker'[w].pc \in {"idle", "execute"}
    <3>1. ASSUME NEW k \in TaskKeys,
                 worker' = [worker EXCEPT ![w] = [Idle EXCEPT !.pc = "execute", !.task = k]]
          PROVE  worker'[w].pc = "execute"
      BY <1>1, <3>1 DEF Idle
    <3>2. worker' = [worker EXCEPT ![w] = Idle] => worker'[w].pc = "idle"
      BY <1>1 DEF Idle
    <3> QED
      BY <2>1, <3>1, <3>2
  <2> QED
    BY <1>2, <2>2
<1>7. CASE FindNothing(w)
  BY <1>3, <1>7 DEF FindNothing, providerVars
<1>8. CASE ExecutorFails(w) \/ SendFails(w) \/ Prepare(w)
  <2>1. \/ \E s \in {"ok", "blocked", "error"} : Return(w, s)
        \/ \E pc \in {"persist", "freeze", "archive", "reclaim"} : GoTo(w, pc)
    <3>1. CASE ExecutorFails(w) \/ SendFails(w)
      BY <3>1 DEF ExecutorFails, SendFails
    <3>2. CASE Preflight(w) \/ ReadSources(w) \/ CommitSources(w) \/ ReadSnapshot(w)
      BY <3>2 DEF Preflight, ReadSources, CommitSources, ReadSnapshot
    <3>3. CASE CommitEvidence(w)
      BY <3>3 DEF CommitEvidence
    <3>4. CASE CommitExecution(w) \/ FreezePackage(w) \/ ArchivePackage(w)
      BY <3>4 DEF CommitExecution, FreezePackage, ArchivePackage
    <3> QED
      BY <1>8, <3>1, <3>2, <3>3, <3>4 DEF Prepare
  <2>2. worker'[w].pc \in {"finish", "persist", "freeze", "archive", "reclaim"}
    BY <1>1, <2>1 DEF Registers, Write, GoTo, Return
  <2> QED
    BY <1>2, <2>2
<1>9. CASE Loop(w)
  <2>1. worker'[w].pc \in {"each", "ensure", "authorize", "finish"}
    <3>1. CASE LoadItems(w)
      BY <1>1, <3>1 DEF LoadItems, Registers
    <3>2. CASE NextItem(w)
      BY <1>1, <3>2 DEF NextItem, Registers
    <3>3. CASE NoMoreItems(w) \/ WriteOutcome(w)
      BY <1>1, <3>3 DEF NoMoreItems, WriteOutcome, Registers, Write, GoTo, Return
    <3> QED
      BY <1>9, <3>1, <3>2, <3>3 DEF Loop
  <2> QED
    BY <1>2, <2>1
<1> QED
  BY <1>2, <1>4, <1>5, <1>6, <1>7, <1>8, <1>9 DEF StepOf, Poll, Work

\* The strengthened invariant is inductive.
LEMMA VerifyStep == VerifyInv /\ [Next]_allVars => VerifyInv'
<1> SUFFICES ASSUME VerifyInv, [Next]_allVars PROVE VerifyInv'
  OBVIOUS
<1>1. TypeOK /\ TypeOK'
  BY TypeNext DEF VerifyInv
<1>2. /\ \A p \in Proposals : journals'[p] >= journals[p]
      /\ \A e \in Exceptions : sent'[e] >= sent[e]
  BY <1>1, ProvidersGrow
<1>3. ASSUME NEW v \in Workers PROVE Observed(worker[v])'
  <2>1. Observed(worker[v])
    BY DEF VerifyInv
  <2>2. CASE worker'[v] # worker[v]
    <3>1. PICK w \in Workers : StepOf(w)
      BY <2>2, WhoSteps
    <3>2. v = w
      BY <1>1, <2>2, <3>1, OwnRegisters
    <3> QED
      BY <1>1, <2>1, <3>1, <3>2, ObservedStep
  <2>3. CASE worker'[v] = worker[v]
    <3>1. /\ Coherent(worker[v])
          /\ journals \in [Proposals -> 0..MaxJournals] /\ journals' \in [Proposals -> 0..MaxJournals]
          /\ sent \in [Exceptions -> 0..MaxSent] /\ sent' \in [Exceptions -> 0..MaxSent]
          /\ MaxJournals \in Nat /\ MaxSent \in Nat
      BY <1>1, CloseWorkerAssumption DEF TypeOK, WorkerTypeOK
    <3> QED
      BY <1>2, <2>1, <2>3, <3>1 DEF Observed, Coherent, OnProposals, OnEmails, XeroPC, GmailPC
  <2> QED
    BY <2>2, <2>3
<1>4. VerifiedDrafts' /\ VerifiedSends'
  <2>1. /\ journals \in [Proposals -> 0..MaxJournals] /\ journals' \in [Proposals -> 0..MaxJournals]
        /\ sent \in [Exceptions -> 0..MaxSent] /\ sent' \in [Exceptions -> 0..MaxSent]
        /\ MaxJournals \in Nat /\ MaxSent \in Nat
    BY <1>1, CloseWorkerAssumption DEF TypeOK
  <2>2. CASE NoNewSuccess
    BY <1>2, <2>1, <2>2 DEF VerifyInv, VerifiedDrafts, VerifiedSends, NoNewSuccess
  <2>3. ASSUME NEW w \in Workers, WriteOutcome(w), worker[w].result \in Done
        PROVE  VerifiedDrafts' /\ VerifiedSends'
    <3>1. Coherent(worker[w]) /\ Observed(worker[w])
      BY <1>1 DEF VerifyInv, TypeOK, WorkerTypeOK
    <3>2. UNCHANGED <<journals, sent>>
      BY <2>3 DEF WriteOutcome, providerVars
    <3>3. CASE worker[w].task = "apply_approved_actions"
      <4>1. worker[w].item \in Proposals /\ journals[worker[w].item] > 0
        BY <2>3, <3>1, <3>3 DEF WriteOutcome, Coherent, Observed, OnProposals, OnEmails, GmailPC
      <4>2. UpdateDraftAction(worker[w].item, worker[w].result)
        BY <2>3, <3>3 DEF WriteOutcome
      <4> QED
        BY <1>1, <2>3, <3>2, <4>1, <4>2
           DEF UpdateDraftAction, VerifyInv, VerifiedDrafts, VerifiedSends, TypeOK, StoreTypeOK
    <3>4. CASE worker[w].task # "apply_approved_actions"
      <4>1. worker[w].item \in Exceptions /\ sent[worker[w].item] > 0
        BY <2>3, <3>1, <3>4 DEF WriteOutcome, Coherent, Observed, OnProposals, OnEmails, GmailPC
      <4>2. UpdateEmailAction(worker[w].item, worker[w].result)
        BY <2>3, <3>4 DEF WriteOutcome
      <4> QED
        BY <1>1, <2>3, <3>2, <4>1, <4>2
           DEF UpdateEmailAction, VerifyInv, VerifiedDrafts, VerifiedSends, TypeOK, StoreTypeOK
    <3> QED
      BY <3>3, <3>4
  <2> QED
    BY <1>1, <2>2, <2>3, WhoRecords
<1> QED
  BY <1>1, <1>3, <1>4 DEF VerifyInv

\* Nothing is recorded when the run is created.
LEMMA VerifyInit == WorkflowInit => VerifyInv
<1> SUFFICES ASSUME WorkflowInit PROVE VerifyInv
  OBVIOUS
<1>1. TypeOK
  BY TypeWorkerStart
<1>2. \A w \in Workers : Observed(worker[w])
  BY DEF WorkflowInit, WorkerInit, Idle, Observed
<1>3. VerifiedDrafts /\ VerifiedSends
  BY DEF WorkflowInit, StoreInit, VerifiedDrafts, VerifiedSends, Done
<1> QED
  BY <1>1, <1>2, <1>3 DEF VerifyInv

\* No proposal is reported as actioned without a journal in Xero, and no message
\* as sent without one in the Sent mailbox: lost answers, crashes and two workers
\* on one action included.
THEOREM SuccessesWereObserved == Spec => [](VerifiedDrafts /\ VerifiedSends)
<1>1. WorkflowInit => VerifyInv
  BY VerifyInit
<1>2. VerifyInv => VerifiedDrafts /\ VerifiedSends
  BY DEF VerifyInv
<1> QED
  BY <1>1, <1>2, VerifyStep, PTL DEF Spec

\* Only the controller's approval records one.
LEMMA Approving ==
    ASSUME TypeOK, [Next]_allVars, "approved" \in decisions', "approved" \notin decisions
    PROVE  ControllerApprove
<1>1. QueueNext \/ LedgerNext \/ PersistNext \/ UNCHANGED storeVars => UNCHANGED decisions
  BY ReviewUntouched
     DEF PersistNext, PersistSourceSnapshot, PersistEvidenceBatch, PersistCloseExecution,
         RecordCloseArtifact, reviewVars
<1>2. ASSUME NEW w \in Workers, StepOf(w) PROVE UNCHANGED decisions
  <2>1. LeaveTask(w) \/ Crash(w) \/ ExecutorFails(w) \/ SendFails(w) => UNCHANGED storeVars
    BY DEF LeaveTask, Crash, ExecutorFails, SendFails
  <2>2. Prepare(w) => PersistNext \/ UNCHANGED storeVars \/ UNCHANGED decisions
    BY DEF Prepare, Preflight, ReadSources, CommitSources, ReadSnapshot, CommitEvidence,
           CommitExecution, FreezePackage, ArchivePackage, PersistNext, CreateReviewPackage
  <2> QED
    BY <1>1, <1>2, <2>1, <2>2, QueueUsesStore, ExecutorsUseStore DEF StepOf, Work
<1>3. Api => ControllerApprove \/ "approved" \notin decisions'
  BY DEF Api, OperatorRetry, OperatorCancel, OperatorPrepareReview, ControllerRequestChanges,
         OperatorQueueEmail, OperatorResolve, RetryRun, CancelRun, CreateReviewPackage,
         RequestReviewChanges, QueueRecoveryEmail, ResolveException, reviewVars
<1>4. (\E k \in TaskKeys : Expire(k)) \/ UNCHANGED allVars => UNCHANGED decisions
  BY DEF Expire, LeaseExpires, allVars, vars, storeVars, reviewVars
<1> QED
  BY <1>2, <1>3, <1>4 DEF Next, WorkersNext, StepOf

-----------------------------------------------------------------------------
(* One worker process *)

OneWorker == \A v, w \in Workers : v = w

\* At the POST the search found no journal, and at the call of Gmail no message.
Searched(r) ==
    /\ r.pc = "create" => journals[r.item] = 0
    /\ r.pc \in {"mark", "send"} => sent[r.item] = 0

OnceInv ==
    /\ TypeOK
    /\ \A w \in Workers : Searched(worker[w])
    /\ NoDuplicateDraft
    /\ NoDuplicateSend

\* A worker's own step creates nothing between its search and its call.
LEMMA SearchedStep ==
    ASSUME TypeOK, NEW w \in Workers, Searched(worker[w]), StepOf(w)
    PROVE  Searched(worker[w])'
<1>0. worker \in [Workers -> Registers] /\ worker[w] \in Registers /\ Coherent(worker[w])
  BY RegistersOf
<1>1. ASSUME worker'[w].pc \notin {"create", "mark", "send"} PROVE Searched(worker[w])'
  BY <1>1 DEF Searched
<1>2. CASE worker'[w] = worker[w] /\ UNCHANGED <<journals, sent>>
  BY <1>2 DEF Searched
<1>3. CASE SearchJournals(w)
  <2>1. \/ worker'[w].pc \notin {"create", "mark", "send"}
        \/ worker'[w].pc = "create" /\ worker'[w].item = worker[w].item /\ journals[worker[w].item] = 0
    BY <1>3, Gone, Written DEF SearchJournals
  <2> QED
    BY <1>1, <1>3, <2>1 DEF SearchJournals, Searched, providerVars
<1>4. CASE LookUpSent(w)
  <2>1. \/ worker'[w].pc \notin {"create", "mark", "send"}
        \/ worker'[w].pc = "mark" /\ worker'[w].item = worker[w].item /\ sent[worker[w].item] = 0
    BY <1>4, Gone, Written DEF LookUpSent
  <2> QED
    BY <1>1, <1>4, <2>1 DEF LookUpSent, Searched, providerVars
<1>5. CASE MarkStarted(w)
  <2>1. worker'[w].pc = "send" /\ worker'[w].item = worker[w].item
    BY <1>5, Gone DEF MarkStarted
  <2> QED
    BY <1>5, <2>1 DEF MarkStarted, Searched, providerVars
<1>6. CASE ActOnXero(w) /\ ~SearchJournals(w)
  <2>1. worker'[w].pc \notin {"create", "mark", "send"}
    BY <1>6, Gone, Written DEF ActOnXero, EnsureAction, StartAction, CreateJournal, CreateRefused,
                               ReadBack, RecoverJournal
  <2> QED
    BY <1>1, <2>1
<1>7. CASE ActOnGmail(w) /\ ~LookUpSent(w) /\ ~MarkStarted(w)
  <2>1. worker'[w].pc \notin {"create", "mark", "send"}
    BY <1>7, Gone, Written DEF ActOnGmail, AuthorizeEmail, SendEmail, ReclaimSent
  <2> QED
    BY <1>1, <2>1
<1>8. CASE Prepare(w)
  <2>1. worker'[w].pc \notin {"create", "mark", "send"}
    BY <1>8, Returned, Gone DEF Prepare, Preflight, ReadSources, CommitSources, ReadSnapshot,
                                CommitEvidence, CommitExecution, FreezePackage, ArchivePackage
  <2> QED
    BY <1>1, <2>1
<1>9. CASE Loop(w)
  <2>1. worker'[w].pc \notin {"create", "mark", "send"}
    BY <1>9, Returned, Written, ItemsLoaded, ItemTaken DEF Loop, NoMoreItems, WriteOutcome
  <2> QED
    BY <1>1, <2>1
<1>10. CASE ExecutorFails(w) \/ SendFails(w)
  <2>1. worker'[w].pc \notin {"create", "mark", "send"}
    BY <1>10, Returned, Gone DEF ExecutorFails, SendFails
  <2> QED
    BY <1>1, <2>1
<1>11. CASE Crash(w) \/ Finish(w) \/ LeaveTask(w)
  <2>1. worker' = [worker EXCEPT ![w] = Idle]
    BY <1>11, Zenon DEF Crash, Finish, LeaveTask
  <2>2. worker'[w].pc = "idle"
    BY <1>0, <2>1 DEF Idle
  <2> QED
    BY <1>1, <2>2
<1>12. ASSUME NEW k \in TaskKeys, Claim(w, k) PROVE worker'[w].pc = "execute"
  BY <1>0, <1>12 DEF Claim, Idle
<1>13. FindNothing(w) => worker'[w] = worker[w] /\ UNCHANGED <<journals, sent>>
  BY DEF FindNothing, providerVars
<1> QED
  BY <1>1, <1>2, <1>3, <1>4, <1>5, <1>6, <1>7, <1>8, <1>9, <1>10, <1>11, <1>12, <1>13
     DEF StepOf, Poll, Work

\* The strengthened invariant is inductive where one worker process runs.
LEMMA OnceStep == ASSUME OneWorker PROVE OnceInv /\ [Next]_allVars => OnceInv'
<1> SUFFICES ASSUME OnceInv, [Next]_allVars PROVE OnceInv'
  OBVIOUS
<1>1. TypeOK /\ TypeOK'
  BY TypeNext DEF OnceInv
<1>2. /\ journals \in [Proposals -> 0..MaxJournals] /\ journals' \in [Proposals -> 0..MaxJournals]
      /\ sent \in [Exceptions -> 0..MaxSent] /\ sent' \in [Exceptions -> 0..MaxSent]
      /\ MaxJournals \in Nat /\ MaxSent \in Nat
  BY <1>1, CloseWorkerAssumption DEF TypeOK
<1>3. CASE UNCHANGED <<worker, journals, sent>>
  BY <1>1, <1>3 DEF OnceInv, Searched, NoDuplicateDraft, NoDuplicateSend
<1>4. ASSUME NEW w \in Workers, StepOf(w) PROVE OnceInv'
  <2>1. Searched(worker[w]) /\ Workers = {w}
    BY DEF OnceInv, OneWorker
  <2>2. Searched(worker[w])'
    BY <1>1, <1>4, <2>1, SearchedStep
  <2>3. NoDuplicateDraft'
    <3>1. CASE CreateJournal(w)
      <4>1. worker[w].item \in Proposals /\ journals[worker[w].item] = 0
        BY <1>1, <2>1, <3>1, RegistersOf DEF CreateJournal, Searched, Coherent, OnProposals, XeroPC
      <4> QED
        BY <1>2, <3>1, <4>1 DEF CreateJournal, OnceInv, NoDuplicateDraft
    <3>2. CASE journals' = journals
      BY <3>2 DEF OnceInv, NoDuplicateDraft
    <3> QED
      BY <1>1, <1>4, <3>1, <3>2, OnlyCreates
  <2>4. NoDuplicateSend'
    <3>1. CASE SendEmail(w)
      <4>1. worker[w].item \in Exceptions /\ sent[worker[w].item] = 0
        BY <1>1, <2>1, <3>1, RegistersOf DEF SendEmail, Searched, Coherent, OnEmails, GmailPC
      <4> QED
        BY <1>2, <3>1, <4>1 DEF SendEmail, OnceInv, NoDuplicateSend
    <3>2. CASE sent' = sent
      BY <3>2 DEF OnceInv, NoDuplicateSend
    <3> QED
      BY <1>1, <1>4, <3>1, <3>2, OnlyCreates
  <2> QED
    BY <1>1, <2>1, <2>2, <2>3, <2>4 DEF OnceInv
<1> QED
  BY <1>3, <1>4, WhoSteps

\* One worker process creates each journal and sends each message at most once,
\* however often it dies and claims the task again: every search sees what
\* every earlier attempt created.
THEOREM OneWorkerActsOnce == ASSUME OneWorker PROVE Spec => [](NoDuplicateDraft /\ NoDuplicateSend)
<1>1. WorkflowInit => OnceInv
  <2> SUFFICES ASSUME WorkflowInit PROVE OnceInv
    OBVIOUS
  <2>1. TypeOK
    BY TypeWorkerStart
  <2>2. \A w \in Workers : Searched(worker[w])
    BY DEF WorkflowInit, WorkerInit, Idle, Searched
  <2>3. NoDuplicateDraft /\ NoDuplicateSend
    BY DEF WorkflowInit, WorkerInit, NoDuplicateDraft, NoDuplicateSend
  <2> QED
    BY <2>1, <2>2, <2>3 DEF OnceInv
<1>2. OnceInv => NoDuplicateDraft /\ NoDuplicateSend
  BY DEF OnceInv
<1>3. OnceInv /\ [Next]_allVars => OnceInv'
  BY OnceStep
<1> QED
  BY <1>1, <1>2, <1>3, PTL DEF Spec

\* A prerequisite that has succeeded stays so.
LEMMA PrerequisitesStay ==
    ASSUME TypeOK, [Next]_allVars, NEW k \in TaskKeys, DependenciesMet(tasks, k)
    PROVE  DependenciesMet(tasks', k)
<1>1. ASSUME NEW d \in DefaultTasks, tasks[d].state = "succeeded" PROVE tasks'[d].state = "succeeded"
  <2>1. d \in TaskKeys /\ d # Apply /\ d # SendEmails
    BY DEF TaskKeys, DefaultTasks, Apply, SendEmails
  <2>2. RowChange(d)
    BY <2>1, RowChanges
  <2> QED
    BY <1>1, <2>1, <2>2 DEF RowChange, Claimable, Settles, Owned
<1>2. DependsOn(k) \subseteq DefaultTasks
  BY PrerequisitesAreDefault
<1> QED
  BY <1>1, <1>2 DEF DependenciesMet

\* Only the reconcile task writes the report, and only evidence collection the checklist.
LEMMA WhoPersists ==
    ASSUME TypeOK, [Next]_allVars
    PROVE  /\ report' # report => \E w \in Workers : CommitExecution(w)
           /\ checklist' # checklist => \E w \in Workers : CommitEvidence(w)
<1>1. QueueNext \/ LedgerNext \/ UNCHANGED storeVars => UNCHANGED <<report, checklist>>
  BY DEF QueueNext, ClaimNextTask, CompleteTask, BlockTask, RetryTask, SweepOnly, LeaseExpires,
         RetryRun, CancelRun, LedgerNext, EnsureDraftAction, UpdateDraftAction, UpdateEmailAction,
         storeVars, closeVars
<1>2. ASSUME NEW w \in Workers, Poll(w) \/ Finish(w) PROVE UNCHANGED <<report, checklist>>
  BY <1>1, <1>2, QueueUsesStore
<1>3. ASSUME NEW w \in Workers, Loop(w) \/ ActOnXero(w) \/ ActOnGmail(w) PROVE UNCHANGED <<report, checklist>>
  BY <1>1, <1>3, ExecutorsUseStore
<1>4. ASSUME NEW w \in Workers, LeaveTask(w) \/ Crash(w) \/ ExecutorFails(w) \/ SendFails(w)
      PROVE  UNCHANGED <<report, checklist>>
  BY <1>1, <1>4 DEF LeaveTask, Crash, ExecutorFails, SendFails
<1>5. ASSUME NEW w \in Workers, Prepare(w)
      PROVE  /\ report' = report \/ CommitExecution(w)
             /\ checklist' = checklist \/ CommitEvidence(w)
  BY <1>5 DEF Prepare, Preflight, ReadSources, CommitSources, ReadSnapshot, CommitEvidence,
              CommitExecution, FreezePackage, ArchivePackage, PersistSourceSnapshot,
              PersistEvidenceBatch, PersistCloseExecution, CreateReviewPackage,
              RecordCloseArtifact, storeVars, closeVars
<1>6. Api => UNCHANGED <<report, checklist>>
  BY DEF Api, OperatorRetry, OperatorCancel, OperatorPrepareReview, ControllerApprove,
         ControllerRequestChanges, OperatorQueueEmail, OperatorResolve, RetryRun, CancelRun,
         CreateReviewPackage, ApproveReviewPackage, RequestReviewChanges, QueueRecoveryEmail,
         ResolveException, closeVars
<1>7. (\E k \in TaskKeys : Expire(k)) \/ UNCHANGED allVars => UNCHANGED <<report, checklist>>
  BY DEF Expire, LeaseExpires, allVars, vars, storeVars, closeVars
<1> QED
  BY <1>2, <1>3, <1>4, <1>5, <1>6, <1>7 DEF Next, WorkersNext, Work

\* A worker only runs tasks whose prerequisites have succeeded, so that a report
\* follows the evidence; with one worker the row of its task stays running.
StartedInOrder == \A w \in Workers, k \in TaskKeys : Working(w, k) => DependenciesMet(tasks, k)

ReportAfterEvidence == report # "none" => Succeeded("collect_evidence")

TasksHeld == \A w \in Workers, k \in TaskKeys : Working(w, k) => tasks[k].state = "running"

EvidenceInv ==
    /\ TypeOK
    /\ DependencyOrder
    /\ ApprovalGate
    /\ StartedInOrder
    /\ ReportAfterEvidence
    /\ TasksHeld
    /\ EvidenceCompleteAfterApproval

\* A worker has its task from a claim or had it before.
LEMMA TaskTaken ==
    ASSUME TypeOK, [Next]_allVars, NEW w \in Workers, NEW k \in TaskKeys, Working(w, k)'
    PROVE  Working(w, k) \/ Claim(w, k)
<1>1. CASE worker'[w] = worker[w]
  BY <1>1 DEF Working
<1>2. CASE worker'[w] # worker[w]
  <2>1. StepOf(w)
    BY <1>2, WhoSteps, OwnRegisters
  <2> QED
    BY <1>2, <2>1, TaskKept DEF Working
<1> QED
  BY <1>1, <1>2

\* The task that the only worker runs stays running until that worker settles it.
LEMMA HeldStep ==
    ASSUME OneWorker, TypeOK, [Next]_allVars, TasksHeld,
           NEW w \in Workers, NEW k \in TaskKeys, Working(w, k)'
    PROVE  tasks'[k].state = "running"
<1>1. tasks[k] \in Row /\ RowChange(k) /\ worker \in [Workers -> Registers]
  BY RowChanges, RegistersOf DEF TypeOK, StoreTypeOK
<1>2. ASSUME NEW v \in Workers, Claim(v, k), tasks'[k] = Claimed(tasks[k], v) PROVE tasks'[k].state = "running"
  BY <1>2 DEF Claimed
<1>3. CASE Working(w, k)
  <2>1. tasks[k].state = "running" /\ worker[w].pc # "idle" /\ Workers = {w}
    BY <1>3 DEF TasksHeld, Working, OneWorker
  <2>2. ~Poll(w) /\ ~Finish(w)
    <3>1. ~Poll(w)
      BY <2>1 DEF Poll, Claim, FindNothing
    <3>2. Finish(w) => worker'[w].pc = "idle"
      BY <1>1 DEF Finish, Idle
    <3> QED
      BY <3>1, <3>2 DEF Working
  <2>3. /\ [tasks[k] EXCEPT !.expiry = "expired"].state = tasks[k].state
        /\ Requeued(tasks[k]).state = "running"
    BY <1>1, <2>1 DEF Requeued, Released, Row
  <2> QED
    BY <1>1, <1>2, <2>1, <2>2, <2>3 DEF RowChange, Settles
<1>4. CASE Claim(w, k)
  <2>1. tasks' = [Swept EXCEPT ![k] = Claimed(Swept[k], w)]
    BY <1>4 DEF Claim, ClaimNextTask
  <2> QED
    BY <2>1, SweepKeepsRows DEF TypeOK, StoreTypeOK, Claimed
<1> QED
  BY <1>3, <1>4, TaskTaken

\* The strengthened invariant is inductive where one worker process runs.
LEMMA EvidenceStep == ASSUME OneWorker PROVE EvidenceInv /\ [Next]_allVars => EvidenceInv'
<1> SUFFICES ASSUME EvidenceInv, [Next]_allVars PROVE EvidenceInv'
  OBVIOUS
<1>1. /\ TypeOK /\ TypeOK' /\ ApprovalGate /\ ApprovalGate'
      /\ DependencyOrder /\ DependencyOrder' /\ [StoreNext]_storeVars
  BY TypeNext, StepUsesStore, ApprovalStep, OrderStep DEF EvidenceInv, TypeOK
<1>2. StartedInOrder'
  <2> SUFFICES ASSUME NEW w \in Workers, NEW k \in TaskKeys, Working(w, k)'
               PROVE  DependenciesMet(tasks', k)
    BY DEF StartedInOrder, DependenciesMet
  <2>1. CASE Working(w, k)
    BY <1>1, <2>1, PrerequisitesStay DEF EvidenceInv, StartedInOrder
  <2>2. CASE Claim(w, k)
    <3>1. tasks[k].state \in {"ready", "running"}
      BY <2>2 DEF Claim, ClaimNextTask, Candidates, Claimable
    <3>2. DependenciesMet(tasks, k)
      BY <1>1, <3>1 DEF DependencyOrder
    <3> QED
      BY <1>1, <3>2, PrerequisitesStay
  <2> QED
    BY <1>1, <2>1, <2>2, TaskTaken
<1>3. /\ DependsOn("reconcile") = {"collect_evidence"}
      /\ "reconcile" \in TaskKeys /\ "collect_evidence" \in TaskKeys
  BY DEF DependsOn, TaskKeys, DefaultTasks
<1>4. Succeeded("collect_evidence") => Succeeded("collect_evidence")'
  BY <1>1, <1>3, PrerequisitesStay DEF DependenciesMet, Succeeded
<1>5. ReportAfterEvidence'
  <2>1. CASE report' = report
    BY <1>4, <2>1 DEF EvidenceInv, ReportAfterEvidence
  <2>2. CASE report' # report
    <3>1. PICK w \in Workers : CommitExecution(w)
      BY <1>1, <2>2, WhoPersists
    <3>2. Working(w, "reconcile")
      BY <3>1 DEF CommitExecution, At, Working
    <3>3. DependenciesMet(tasks, "reconcile")
      BY <1>3, <3>2 DEF EvidenceInv, StartedInOrder
    <3> QED
      BY <1>3, <1>4, <3>3 DEF DependenciesMet, Succeeded, ReportAfterEvidence
  <2> QED
    BY <2>1, <2>2
<1>6. TasksHeld'
  BY <1>1, HeldStep DEF EvidenceInv, TasksHeld
<1>7. EvidenceCompleteAfterApproval'
  <2> SUFFICES ASSUME "approved" \in decisions' PROVE checklist' = "ready"
    BY DEF EvidenceCompleteAfterApproval
  <2>1. CASE "approved" \in decisions
    <3>1. checklist = "ready" /\ Succeeded("collect_evidence")
      BY <1>1, <2>1 DEF EvidenceInv, EvidenceCompleteAfterApproval, ApprovalGate, ReportAfterEvidence
    <3>2. \A w \in Workers : ~CommitEvidence(w)
      <4>1. ASSUME NEW w \in Workers, CommitEvidence(w) PROVE Working(w, "collect_evidence")
        BY <4>1 DEF CommitEvidence, At, Working
      <4> QED
        BY <1>3, <3>1, <4>1 DEF EvidenceInv, TasksHeld, Succeeded
    <3> QED
      BY <1>1, <3>1, <3>2, WhoPersists
  <2>2. CASE "approved" \notin decisions
    BY <1>1, <2>2, Approving DEF ControllerApprove, ApproveReviewPackage, closeVars
  <2> QED
    BY <2>1, <2>2
<1> QED
  BY <1>1, <1>2, <1>5, <1>6, <1>7 DEF EvidenceInv

\* With one worker process the checklist that the controller approved stays
\* complete: evidence is not collected again once a report is based on it.
THEOREM ApprovedEvidenceStays == ASSUME OneWorker PROVE Spec => []EvidenceCompleteAfterApproval
<1>1. WorkflowInit => EvidenceInv
  <2> SUFFICES ASSUME WorkflowInit PROVE EvidenceInv
    OBVIOUS
  <2>1. TypeOK /\ ApprovalGate /\ DependencyOrder
    BY TypeWorkerStart, ApprovalInit, OrderInit DEF WorkflowInit
  <2>2. StartedInOrder /\ TasksHeld
    BY DEF WorkflowInit, WorkerInit, Idle, StartedInOrder, TasksHeld, Working
  <2>3. ReportAfterEvidence /\ EvidenceCompleteAfterApproval
    BY DEF WorkflowInit, StoreInit, ReportAfterEvidence, EvidenceCompleteAfterApproval
  <2> QED
    BY <2>1, <2>2, <2>3 DEF EvidenceInv
<1>2. EvidenceInv => EvidenceCompleteAfterApproval
  BY DEF EvidenceInv
<1>3. EvidenceInv /\ [Next]_allVars => EvidenceInv'
  BY EvidenceStep
<1> QED
  BY <1>1, <1>2, <1>3, PTL DEF Spec
=============================================================================
