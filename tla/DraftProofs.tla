------------------------------ MODULE DraftProofs ------------------------------
(***************************************************************************)
(* What happens after the approval.  First the proof that the store, the   *)
(* workers and Xero together implement the promise of ApprovedDrafts:      *)
(* under the refinement mapping a transaction of the store is Fix, Approve *)
(* or nothing, and the creation of a journal is Create or, when the        *)
(* proposal has one already, nothing.  Then how the run, its apply task    *)
(* and the ledger of actions move together until applying ends, and that   *)
(* no task is left where a claim cannot find it.                           *)
(***************************************************************************)
EXTENDS CloseSafety

Created == {p \in Proposals : journals[p] > 0}

\* What a transaction of the store does to the package and to its approval.
PackageFixed ==
    /\ package.status = "none" /\ package'.status # "none"
    /\ UNCHANGED decisions

PackageApproved ==
    /\ package.status # "none" /\ package'.status # "none"
    /\ package'.content = package.content
    /\ decisions' = decisions \cup {"approved"}

PackageKept ==
    /\ (package'.status # "none") <=> (package.status # "none")
    /\ package'.content = package.content
    /\ ("approved" \in decisions') <=> ("approved" \in decisions)

\* Every transaction fixes the package, approves it, or keeps both.
LEMMA StoreKeepsPromise ==
    ASSUME StoreTypeOK, [StoreNext]_storeVars
    PROVE  PackageFixed \/ PackageApproved \/ PackageKept
<1>1. package \in [status : {"none", "review_frozen", "finalized"}, content : SUBSET Proposals]
  BY DEF StoreTypeOK
<1>2. UNCHANGED <<package, decisions>> => PackageKept
  BY DEF PackageKept
<1>3. CASE PersistNext
  BY <1>2, <1>3 DEF PersistNext, PersistSourceSnapshot, PersistEvidenceBatch,
                    PersistCloseExecution, RecordCloseArtifact, reviewVars
<1>4. CASE \/ QueueNext \/ LedgerNext \/ UNCHANGED storeVars
           \/ \E e \in Exceptions : QueueRecoveryEmail(e) \/ ResolveException(e)
  BY <1>2, <1>4, ReviewUntouched
<1>5. ASSUME NEW content \in SUBSET Proposals, CreateReviewPackage(content)
      PROVE  PackageFixed \/ PackageKept
  <2>1. CASE package.status = "none"
    BY <1>5, <2>1 DEF CreateReviewPackage, PackageFixed
  <2>2. CASE package.status # "none"
    BY <1>2, <1>5, <2>2 DEF CreateReviewPackage
  <2> QED
    BY <2>1, <2>2
<1>6. ASSUME NEW content \in SUBSET Proposals, ApproveReviewPackage(content)
      PROVE  PackageApproved
  BY <1>1, <1>6 DEF ApproveReviewPackage, PackageApproved
<1>7. ASSUME NEW content \in SUBSET Proposals, RequestReviewChanges(content)
      PROVE  PackageKept
  BY <1>7 DEF RequestReviewChanges, PackageKept
<1> QED
  BY <1>3, <1>4, <1>5, <1>6, <1>7 DEF StoreNext, ReviewNext

\* A step that creates no journal is a step of the promise, or nothing.
LEMMA QuietStep ==
    ASSUME TypeOK, [StoreNext]_storeVars, UNCHANGED journals
    PROVE  [Promise!DraftsNext]_(Promise!draftVars)
<1>1. UNCHANGED Created
  BY DEF Created
<1>2. PackageFixed \/ PackageApproved \/ PackageKept
  BY StoreKeepsPromise DEF TypeOK
<1>3. CASE PackageFixed
  BY <1>1, <1>3 DEF PackageFixed, Created, Promise!DraftsNext, Promise!Fix
<1>4. CASE PackageApproved
  <2>1. CASE "approved" \in decisions
    BY <1>1, <1>4, <2>1 DEF PackageApproved, Created, Promise!draftVars
  <2>2. CASE "approved" \notin decisions
    BY <1>1, <1>4, <2>2 DEF PackageApproved, Created, Promise!DraftsNext, Promise!Approve
  <2> QED
    BY <2>1, <2>2
<1>5. CASE PackageKept
  BY <1>1, <1>5 DEF PackageKept, Created, Promise!draftVars
<1> QED
  BY <1>2, <1>3, <1>4, <1>5

\* A worker creates a journal of an approved proposal of the package.
LEMMA CreatingStep ==
    ASSUME DraftInv, NEW w \in Workers, CreateJournal(w)
    PROVE  [Promise!DraftsNext]_(Promise!draftVars)
<1> DEFINE p == worker[w].item
<1>1. TypeOK /\ journals \in [Proposals -> 0..MaxJournals] /\ MaxJournals \in Nat
  BY CloseWorkerAssumption DEF DraftInv, TypeOK
<1>2. worker[w].pc \in XeroPC /\ worker[w].task = "apply_approved_actions" /\ p \in Proposals
  BY <1>1 DEF CreateJournal, XeroPC, TypeOK, WorkerTypeOK, Coherent, OnProposals
<1>3. "approved" \in decisions /\ p \in package.content
  BY <1>2 DEF DraftInv, LoadedApproved, Approvable
<1>4. UNCHANGED <<package, decisions>>
  BY DEF CreateJournal, storeVars, reviewVars
<1>5. Created' = Created \cup {p}
  <2>1. ASSUME NEW q \in Proposals PROVE journals'[q] > 0 <=> journals[q] > 0 \/ q = p
    BY <1>1, <1>2 DEF CreateJournal
  <2> QED
    BY <1>2, <2>1 DEF Created
<1>6. CASE p \in Created
  <2>1. UNCHANGED Created
    BY <1>5, <1>6
  <2> QED
    BY <1>4, <2>1 DEF Created, Promise!draftVars
<1>7. CASE p \notin Created
  <2>1. Promise!Create
    BY <1>3, <1>4, <1>5, <1>7 DEF Created, Promise!Create
  <2> QED
    BY <2>1 DEF Promise!DraftsNext
<1> QED
  BY <1>6, <1>7

\* What a close promises the controller, for every number of workers and
\* proposals: drafts appear only of the package that was approved, one after
\* the other, and neither crashes, lost leases nor late requests change it.
THEOREM DraftsOnlyAsApproved == Spec => DraftsAsApproved
<1>1. WorkflowInit => DraftInv /\ Promise!DraftsInit
  <2> SUFFICES ASSUME WorkflowInit PROVE DraftInv /\ Promise!DraftsInit
    OBVIOUS
  <2>1. TypeOK /\ ApprovalGate
    BY TypeWorkerStart, ApprovalInit DEF WorkflowInit
  <2>2. \A w \in Workers : LoadedApproved(worker[w])
    BY DEF WorkflowInit, WorkerInit, Idle, LoadedApproved
  <2>3. \A p \in Proposals : ~(journals[p] > 0)
    BY DEF WorkflowInit, WorkerInit
  <2>4. DraftInv
    BY <2>1, <2>2, <2>3 DEF DraftInv, DraftsNeedApproval
  <2>5. Promise!DraftsInit
    BY <2>3 DEF WorkflowInit, StoreInit, Promise!DraftsInit
  <2> QED
    BY <2>4, <2>5
<1>2. DraftInv /\ [Next]_allVars => [Promise!DraftsNext]_(Promise!draftVars)
  <2> SUFFICES ASSUME DraftInv, [Next]_allVars
               PROVE  [Promise!DraftsNext]_(Promise!draftVars)
    OBVIOUS
  <2>1. TypeOK /\ [StoreNext]_storeVars
    BY StepUsesStore DEF DraftInv
  <2>2. CASE UNCHANGED journals
    BY <2>1, <2>2, QuietStep
  <2>3. CASE journals' # journals
    <3>1. PICK w \in Workers : StepOf(w)
      BY <2>3, WhoSteps
    <3>2. CreateJournal(w)
      BY <2>1, <2>3, <3>1, OnlyCreates
    <3> QED
      BY <3>2, CreatingStep
  <2> QED
    BY <2>2, <2>3
<1> QED
  BY <1>1, <1>2, DraftStep, PTL DEF Spec, DraftsAsApproved, Promise!DraftsSpec

-----------------------------------------------------------------------------
(* Applying the approved proposals *)

\* The proposal that the executor takes first: the rows are ordered by id.
First(content) == {p \in content : \A q \in content : p <= q}

\* A worker writes the outcome of a draft.
Records(w) ==
    /\ WriteOutcome(w) /\ worker[w].task = Apply
    /\ drafts' = [drafts EXCEPT ![worker[w].item] = worker[w].result]
    /\ worker[w].result \in Done =>
         /\ manifests' = manifests \cup {worker[w].item}
         /\ AllSettled(drafts') => runState' = UnlessTerminal("approved")
    /\ worker[w].result \notin Done => UNCHANGED manifests

\* The ledger of the drafts changes when a worker begins with one or ends.
Begins(w) ==
    /\ EnsureAction(w) \/ StartAction(w)
    /\ UNCHANGED manifests
    /\ \A q \in Proposals : q # worker[w].item => drafts'[q] = drafts[q]
    /\ drafts'[worker[w].item] \in Done => drafts[worker[w].item] \in Done

LedgerChange == UNCHANGED <<drafts, manifests>> \/ \E w \in Workers : Begins(w) \/ Records(w)

\* What the item of a worker is.
LEMMA ItemOf ==
    ASSUME TypeOK, NEW w \in Workers
    PROVE  /\ WriteOutcome(w) /\ worker[w].task = Apply => worker[w].item \in Proposals
           /\ OnProposals(worker[w]) => worker[w].item \in Proposals /\ worker[w].task = Apply
           /\ OnEmails(worker[w]) => worker[w].task = SendEmails
           /\ worker[w].task = Apply => worker[w].todo \subseteq Proposals
<1>1. Coherent(worker[w])
  BY RegistersOf
<1> QED
  BY <1>1 DEF Coherent, WriteOutcome, OnProposals, OnEmails, GmailPC, Apply, SendEmails

LEMMA LedgerChanges == ASSUME TypeOK, [Next]_allVars PROVE LedgerChange
<1>0. drafts \in [Proposals -> ActionStatus]
  BY DEF TypeOK, StoreTypeOK
<1>1. QueueNext \/ PersistNext \/ ReviewNext \/ UNCHANGED storeVars => UNCHANGED <<drafts, manifests>>
  BY DEF QueueNext, ClaimNextTask, CompleteTask, BlockTask, RetryTask, SweepOnly, LeaseExpires,
         RetryRun, CancelRun, PersistNext, PersistSourceSnapshot, PersistEvidenceBatch,
         PersistCloseExecution, RecordCloseArtifact, ReviewNext, CreateReviewPackage,
         ApproveReviewPackage, RequestReviewChanges, QueueRecoveryEmail, ResolveException,
         storeVars, actionVars
<1>2. ASSUME NEW w \in Workers, EnsureAction(w) \/ StartAction(w) PROVE Begins(w)
  <2>1. worker[w].item \in Proposals
    BY <1>2, ItemOf DEF EnsureAction, StartAction, OnProposals, XeroPC
  <2>2. CASE EnsureAction(w)
    BY <1>0, <2>1, <2>2 DEF EnsureAction, EnsureDraftAction, Begins, Done
  <2>3. CASE StartAction(w)
    BY <1>0, <2>1, <2>3 DEF StartAction, UpdateDraftAction, Begins, Done
  <2> QED
    BY <1>2, <2>2, <2>3
<1>3. ASSUME NEW w \in Workers, WriteOutcome(w), worker[w].task = Apply PROVE Records(w)
  <2>1. worker[w].item \in Proposals /\ UpdateDraftAction(worker[w].item, worker[w].result)
    BY <1>3, ItemOf DEF WriteOutcome, Apply
  <2>2. CASE worker[w].result \in Done
    BY <1>3, <2>1, <2>2, SuccessRecorded DEF Records
  <2>3. CASE worker[w].result \notin Done
    BY <1>3, <2>1, <2>3 DEF Records, UpdateDraftAction
  <2> QED
    BY <2>2, <2>3
<1>4. ASSUME NEW w \in Workers, (WriteOutcome(w) /\ worker[w].task # Apply) \/ MarkStarted(w)
      PROVE  UNCHANGED <<drafts, manifests>>
  BY <1>4 DEF WriteOutcome, MarkStarted, UpdateEmailAction, Apply
<1>5. ASSUME NEW w \in Workers, StepOf(w), ~EnsureAction(w), ~StartAction(w), ~WriteOutcome(w), ~MarkStarted(w)
      PROVE  UNCHANGED <<drafts, manifests>>
  <2>1. Prepare(w) => QueueNext \/ PersistNext \/ ReviewNext \/ UNCHANGED storeVars
    BY CloseStoreAssumption
       DEF Prepare, Preflight, ReadSources, CommitSources, ReadSnapshot, CommitEvidence,
           CommitExecution, FreezePackage, ArchivePackage, PersistNext, ReviewNext
  <2>2. ASSUME \/ Loop(w) \/ ActOnXero(w) \/ ActOnGmail(w)
               \/ ExecutorFails(w) \/ SendFails(w) \/ LeaveTask(w) \/ Crash(w)
        PROVE  UNCHANGED storeVars
    BY <2>2, <1>5 DEF Loop, LoadItems, NextItem, NoMoreItems, ActOnXero, SearchJournals, CreateJournal,
                CreateRefused, ReadBack, RecoverJournal, ActOnGmail, AuthorizeEmail, LookUpSent,
                SendEmail, ReclaimSent, ExecutorFails, SendFails, LeaveTask, Crash
  <2>3. Poll(w) \/ Finish(w) => QueueNext
    BY QueueUsesStore
  <2> QED
    BY <1>1, <1>5, <2>1, <2>2, <2>3 DEF StepOf, Work
<1>6. Api => UNCHANGED <<drafts, manifests>>
  BY DEF Api, OperatorRetry, OperatorCancel, OperatorPrepareReview, ControllerApprove,
         ControllerRequestChanges, OperatorQueueEmail, OperatorResolve, RetryRun, CancelRun,
         CreateReviewPackage, ApproveReviewPackage, RequestReviewChanges, QueueRecoveryEmail,
         ResolveException, actionVars
<1>7. (\E k \in TaskKeys : Expire(k)) \/ UNCHANGED allVars => UNCHANGED <<drafts, manifests>>
  BY DEF Expire, LeaseExpires, allVars, vars, storeVars, actionVars
<1> QED
  BY <1>2, <1>3, <1>4, <1>5, <1>6, <1>7 DEF Next, WorkersNext, StepOf, LedgerChange

\* Every way in which the status of a proposal changes.
LEMMA ProposalChanges ==
    ASSUME TypeOK, [Next]_allVars, NEW p \in Proposals
    PROVE  \/ proposals'[p] = proposals[p]
           \/ proposals[p] = "absent" /\ proposals'[p] = "proposed"
           \/ ControllerApprove /\ proposals'[p] = "approved"
           \/ proposals'[p] = "actioned" /\ p \in manifests'
<1>0. proposals \in [Proposals -> {"absent", "proposed", "approved", "actioned"}]
  BY DEF TypeOK, StoreTypeOK
<1> DEFINE Goal == \/ proposals'[p] = proposals[p]
                   \/ proposals[p] = "absent" /\ proposals'[p] = "proposed"
                   \/ ControllerApprove /\ proposals'[p] = "approved"
                   \/ proposals'[p] = "actioned" /\ p \in manifests'
<1>1. ASSUME NEW content \in SUBSET Proposals, CreateReviewPackage(content) PROVE Goal
  BY <1>0, <1>1 DEF CreateReviewPackage
<1>2. ASSUME ControllerApprove PROVE Goal
  BY <1>0, <1>2 DEF ControllerApprove, ApproveReviewPackage
<1>3. ASSUME NEW w \in Workers, WriteOutcome(w), worker[w].task = Apply PROVE Goal
  <2>1. worker[w].item \in Proposals /\ UpdateDraftAction(worker[w].item, worker[w].result)
    BY <1>3, ItemOf DEF WriteOutcome, Apply
  <2>2. CASE worker[w].result \in Done
    BY <1>0, <2>1, <2>2, SuccessRecorded
  <2>3. CASE worker[w].result \notin Done
    BY <2>1, <2>3 DEF UpdateDraftAction
  <2> QED
    BY <2>2, <2>3
<1>4. ASSUME NEW w \in Workers, (WriteOutcome(w) /\ worker[w].task # Apply) \/ MarkStarted(w)
      PROVE  UNCHANGED proposals
  BY <1>4 DEF WriteOutcome, MarkStarted, UpdateEmailAction, Apply
<1>5. ASSUME NEW w \in Workers, EnsureAction(w) \/ StartAction(w) PROVE UNCHANGED proposals
  BY <1>5 DEF EnsureAction, StartAction, EnsureDraftAction, UpdateDraftAction, Done
<1>6. ASSUME NEW w \in Workers, StepOf(w), ~EnsureAction(w), ~StartAction(w), ~WriteOutcome(w), ~MarkStarted(w),
             ~FreezePackage(w)
      PROVE  UNCHANGED proposals
  <2>1. QueueNext \/ PersistNext \/ UNCHANGED storeVars => UNCHANGED proposals
    BY DEF QueueNext, ClaimNextTask, CompleteTask, BlockTask, RetryTask, SweepOnly, LeaseExpires,
           RetryRun, CancelRun, PersistNext, PersistSourceSnapshot, PersistEvidenceBatch,
           PersistCloseExecution, RecordCloseArtifact, storeVars
  <2>2. Prepare(w) => PersistNext \/ UNCHANGED storeVars
    BY <1>6 DEF Prepare, Preflight, ReadSources, CommitSources, ReadSnapshot, CommitEvidence,
                CommitExecution, ArchivePackage, PersistNext
  <2>3. ASSUME \/ Loop(w) \/ ActOnXero(w) \/ ActOnGmail(w)
               \/ ExecutorFails(w) \/ SendFails(w) \/ LeaveTask(w) \/ Crash(w)
        PROVE  UNCHANGED storeVars
    BY <2>3, <1>6 DEF Loop, LoadItems, NextItem, NoMoreItems, ActOnXero, SearchJournals, CreateJournal,
                CreateRefused, ReadBack, RecoverJournal, ActOnGmail, AuthorizeEmail, LookUpSent,
                SendEmail, ReclaimSent, ExecutorFails, SendFails, LeaveTask, Crash
  <2>4. Poll(w) \/ Finish(w) => QueueNext
    BY QueueUsesStore
  <2> QED
    BY <1>6, <2>1, <2>2, <2>3, <2>4 DEF StepOf, Work
<1>7. ASSUME NEW w \in Workers, FreezePackage(w) PROVE Goal
  BY <1>1, <1>7, CloseStoreAssumption DEF FreezePackage
<1>8. ASSUME Api, ~ControllerApprove PROVE Goal
  <2>1. CASE \E content \in SUBSET Proposals : OperatorPrepareReview(content)
    BY <1>1, <2>1 DEF OperatorPrepareReview
  <2>2. CASE ~\E content \in SUBSET Proposals : OperatorPrepareReview(content)
    BY <1>8, <2>2 DEF Api, OperatorRetry, OperatorCancel, ControllerRequestChanges,
                      OperatorQueueEmail, OperatorResolve, RetryRun, CancelRun,
                      RequestReviewChanges, QueueRecoveryEmail, ResolveException
  <2> QED
    BY <2>1, <2>2
<1>9. (\E k \in TaskKeys : Expire(k)) \/ UNCHANGED allVars => UNCHANGED proposals
  BY DEF Expire, LeaseExpires, allVars, vars, storeVars
<1> QED
  BY <1>2, <1>3, <1>4, <1>5, <1>6, <1>7, <1>8, <1>9 DEF Next, WorkersNext, StepOf

-----------------------------------------------------------------------------
(* One draft before the run is approved *)

\* Until the first success every worker that applies holds the first proposal,
\* or all of them, and none has come to the end.
HoldsFirst(r, content) ==
    /\ OnProposals(r) => r.item \in First(content)
    /\ r.task = Apply /\ r.pc = "each" => r.todo = content
    /\ ~Answered(r, Apply)

LEMMA HoldsFirstStep ==
    ASSUME TypeOK, [Next]_allVars, NEW w \in Workers, StepOf(w),
           HoldsFirst(worker[w], package.content), manifests' = {},
           worker[w].task = Apply /\ worker[w].pc # "idle" =>
             ApprovedProposals = package.content /\ package.content # {},
           \A p \in Proposals : drafts[p] \notin Done
    PROVE  HoldsFirst(worker'[w], package.content)
<1>0. worker \in [Workers -> Registers]
  BY RegistersOf
<1>1. /\ worker'[w].task = Apply \/ ~OnProposals(worker'[w])
  <2>1. Coherent(worker[w])'
    BY TypeNext DEF TypeOK, WorkerTypeOK
  <2> QED
    BY <2>1 DEF Coherent, Apply
<1>2. ASSUME worker'[w].pc \notin XeroPC \cup {"settle", "each", "finish"}
      PROVE  HoldsFirst(worker'[w], package.content)
  BY <1>2 DEF HoldsFirst, OnProposals, Answered
<1>3. CASE worker'[w].task # Apply
  BY <1>1, <1>3 DEF HoldsFirst, Answered
<1>4. CASE worker'[w] = worker[w] \/ worker'[w].pc \in {"idle", "execute"}
  BY <1>2, <1>4 DEF XeroPC
<1>5. ASSUME worker[w].pc # "idle", worker[w].task = Apply, worker'[w] # worker[w],
             worker'[w].pc # "idle"
      PROVE  HoldsFirst(worker'[w], package.content)
  <2>1. CASE ExecutorFails(w)
    <3>1. worker'[w].pc = "finish" /\ worker'[w].result # "ok"
      BY <2>1, Returned DEF ExecutorFails
    <3> QED
      BY <3>1 DEF HoldsFirst, OnProposals, XeroPC, Answered
  <2>2. ~Prepare(w)
    BY <1>5 DEF Prepare, Preflight, ReadSources, CommitSources, ReadSnapshot, CommitEvidence,
                CommitExecution, FreezePackage, ArchivePackage, At, Apply
  <2>3. ~SendFails(w) /\ ~ActOnGmail(w)
    <3>1. ~OnEmails(worker[w])
      BY <1>5, ItemOf DEF Apply, SendEmails
    <3> QED
      BY <3>1 DEF SendFails, ActOnGmail, AuthorizeEmail, LookUpSent, MarkStarted, SendEmail,
                  ReclaimSent, OnEmails, GmailPC
  <2>4. CASE LoadItems(w)
    BY <1>5, <2>4, ItemsLoaded DEF HoldsFirst, OnProposals, XeroPC, Answered
  <2>5. CASE NextItem(w)
    <3>1. /\ worker[w].todo = package.content /\ worker'[w].item \in worker[w].todo
          /\ \A y \in worker[w].todo : worker'[w].item <= y
          /\ worker'[w].pc = "ensure"
      BY <1>5, <2>5, ItemTaken DEF HoldsFirst
    <3> QED
      BY <3>1 DEF HoldsFirst, First, Answered
  <2>6. ~NoMoreItems(w)
    BY <1>5 DEF NoMoreItems, HoldsFirst
  <2>7. CASE WriteOutcome(w)
    <3>1. worker[w].result \notin Done
      <4>1. worker[w].item \in Proposals /\ UpdateDraftAction(worker[w].item, worker[w].result)
        BY <1>5, <2>7, ItemOf DEF WriteOutcome, Apply
      <4> QED
        BY <4>1, SuccessRecorded
    <3>2. Return(w, "blocked")
      BY <2>7, <3>1 DEF WriteOutcome
    <3>3. worker'[w].pc = "finish" /\ worker'[w].result # "ok"
      BY <3>2, Returned
    <3> QED
      BY <3>3 DEF HoldsFirst, OnProposals, XeroPC, Answered
  <2>8. CASE ActOnXero(w)
    <3>1. OnProposals(worker[w])
      BY <2>8 DEF ActOnXero, EnsureAction, StartAction, SearchJournals, CreateJournal,
                  CreateRefused, ReadBack, RecoverJournal, OnProposals, XeroPC
    <3>2. worker[w].item \in Proposals /\ worker[w].item \in First(package.content)
      BY <3>1, ItemOf DEF HoldsFirst
    <3>3. worker'[w].item = worker[w].item /\ worker'[w].pc \notin {"each", "finish"}
      <4>1. CASE EnsureAction(w)
        <5>1. GoTo(w, "start")
          BY <3>2, <4>1 DEF EnsureAction
        <5> QED
          BY <5>1, Gone
      <4>2. CASE ~EnsureAction(w)
        BY <2>8, <4>2, Gone, Written DEF ActOnXero, StartAction, SearchJournals, CreateJournal,
                                         CreateRefused, ReadBack, RecoverJournal
      <4> QED
        BY <4>1, <4>2
    <3> QED
      BY <3>2, <3>3 DEF HoldsFirst, Answered
  <2>9. CASE Crash(w) \/ Finish(w) \/ LeaveTask(w)
    <3>1. worker' = [worker EXCEPT ![w] = Idle]
      BY <2>9, Zenon DEF Crash, Finish, LeaveTask
    <3>2. worker'[w].pc = "idle"
      BY <1>0, <3>1 DEF Idle
    <3> QED
      BY <1>5, <3>2
  <2>10. ~Poll(w)
    BY <1>5 DEF Poll, Claim, FindNothing
  <2> QED
    BY <2>1, <2>2, <2>3, <2>4, <2>5, <2>6, <2>7, <2>8, <2>9, <2>10 DEF StepOf, Work, Loop
<1> QED
  BY <1>3, <1>4, <1>5, TaskKept

Approved == "approved" \in decisions

\* The apply task is there exactly where an approval asked for it.
ApplyRequested ==
    /\ tasks[Apply].state # "absent" =>
         /\ Approved /\ package.content # {}
         /\ \A p \in package.content : proposals[p] \in {"approved", "actioned"}
    /\ Approved /\ tasks[Apply].state = "absent" => package.content = {} /\ runState \in Terminal
    /\ \A w \in Workers : Working(w, Apply) => tasks[Apply].state # "absent"

\* An approved run never comes back to the controller.
PastReview == Approved => runState \notin {"running", "awaiting_approval"}

\* The first success ends the run, because the other proposals have no row yet.
FirstSuccessEnds ==
    /\ manifests # {} => runState \in Terminal
    /\ manifests = {} => \A p \in Proposals : drafts[p] # "none" => Approved /\ p \in First(package.content)
    /\ manifests = {} => \A w \in Workers : HoldsFirst(worker[w], package.content)

\* What the ledger says is what the manifests and Xero say.
LedgerAgrees ==
    \A p \in Proposals :
        /\ drafts[p] \in Done \/ proposals[p] = "actioned" => p \in manifests
        /\ p \in manifests => journals[p] > 0

\* The end of the apply task, and of the run, has a draft behind it.
EndsWithDraft ==
    /\ tasks[Apply].state = "succeeded" => manifests # {}
    /\ runState = "approved" => Approved /\ (package.content = {} \/ manifests # {})

ApplyInv ==
    /\ VerifyInv
    /\ ApprovalGate
    /\ ApplyRequested
    /\ PastReview
    /\ FirstSuccessEnds
    /\ LedgerAgrees
    /\ EndsWithDraft
    /\ NoStuckApplying

\* What holds after every step from a state of ApplyInv.
Kept ==
    /\ TypeOK /\ TypeOK' /\ ApprovalGate' /\ VerifyInv'
    /\ [StoreNext]_storeVars
    /\ Approved => Approved' /\ package'.content = package.content
    /\ manifests \subseteq manifests'
    /\ runState \in Terminal => runState' = runState
    /\ ControllerApprove => ~Approved /\ tasks[Apply].state = "absent"
    /\ Approved' => Approved \/ ControllerApprove

LEMMA KeptStep == ASSUME ApplyInv, [Next]_allVars PROVE Kept
<1>1. TypeOK /\ TypeOK' /\ ApprovalGate /\ VerifyInv' /\ [StoreNext]_storeVars
  BY VerifyStep, TypeNext, StepUsesStore DEF ApplyInv, VerifyInv
<1>2. ApprovalGate'
  BY <1>1, ApprovalStep DEF TypeOK
<1>3. Approved => Approved' /\ package'.content = package.content
  BY <1>1, FreezeStep, DecisionsGrow DEF ApprovalGate, Approved, TypeOK
<1>4. manifests \subseteq manifests'
  BY <1>1, LedgerChanges DEF LedgerChange, Begins, Records
<1>5. ControllerApprove => ~Approved /\ tasks[Apply].state = "absent"
  BY DEF ControllerApprove, ApproveReviewPackage, ApplyInv, ApplyRequested, PastReview
<1> QED
  BY <1>1, <1>2, <1>3, <1>4, <1>5, TerminalStep, Approving DEF Kept, Approved

\* What an approval does.
LEMMA ApprovalDoes ==
    ASSUME TypeOK, ControllerApprove
    PROVE  /\ Approved' /\ package'.content = package.content
           /\ package.content = {} => runState' = "approved" /\ UNCHANGED tasks
           /\ package.content # {} =>
                /\ runState' = "applying_approved_actions"
                /\ tasks'[Apply] = Requeued(tasks[Apply])
                /\ \A p \in package.content : proposals'[p] = "approved"
<1>1. /\ tasks \in [TaskKeys -> Row] /\ Apply \in TaskKeys /\ package.content \subseteq Proposals
      /\ package \in [status : {"none", "review_frozen", "finalized"}, content : SUBSET Proposals]
  BY DEF TypeOK, StoreTypeOK, Apply, TaskKeys
<1>2. ApproveReviewPackage(package.content)
  BY DEF ControllerApprove
<1>3. Approved' /\ package'.content = package.content
  BY <1>1, <1>2 DEF ApproveReviewPackage, Approved
<1>4. package.content = {} => runState' = "approved" /\ UNCHANGED tasks
  BY <1>2 DEF ApproveReviewPackage
<1>5. package.content # {} =>
        /\ runState' = "applying_approved_actions"
        /\ tasks' = [tasks EXCEPT ![Apply] = Requeued(tasks[Apply])]
        /\ proposals' = [p \in Proposals |-> IF p \in package.content THEN "approved" ELSE proposals[p]]
  BY <1>2 DEF ApproveReviewPackage, Apply
<1> QED
  BY <1>1, <1>3, <1>4, <1>5

LEMMA RequestedStep == ASSUME ApplyInv, [Next]_allVars PROVE ApplyRequested'
<1>1. Kept /\ TypeOK /\ ApplyRequested /\ Apply \in TaskKeys
  BY KeptStep DEF ApplyInv, VerifyInv, Apply, TaskKeys
<1>2. ASSUME tasks'[Apply].state # "absent", tasks[Apply].state = "absent"
      PROVE  ControllerApprove /\ package.content # {}
  <2>1. RowChange(Apply)
    BY <1>1, RowChanges
  <2>2. ControllerApprove
    BY <1>2, <2>1 DEF RowChange, Claimable, Settles, Owned, Apply, SendEmails
  <2> QED
    BY <1>1, <1>2, <2>2, ApprovalDoes
<1>3. ASSUME tasks'[Apply].state # "absent"
      PROVE  /\ Approved' /\ package'.content # {}
             /\ \A p \in package'.content : proposals'[p] \in {"approved", "actioned"}
  <2>1. CASE tasks[Apply].state = "absent"
    BY <1>1, <1>2, <1>3, <2>1, ApprovalDoes
  <2>2. CASE tasks[Apply].state # "absent"
    <3>1. /\ Approved' /\ package'.content = package.content /\ package.content # {}
          /\ package.content \subseteq Proposals
      BY <1>1, <2>2 DEF Kept, ApplyRequested, TypeOK, StoreTypeOK
    <3>2. ASSUME NEW p \in package.content PROVE proposals'[p] \in {"approved", "actioned"}
      BY <1>1, <2>2, <3>1, ProposalChanges DEF ApplyRequested
    <3> QED
      BY <3>1, <3>2
  <2> QED
    BY <2>1, <2>2
<1>4. ASSUME Approved', tasks'[Apply].state = "absent" PROVE package'.content = {} /\ runState' \in Terminal
  <2>1. tasks[Apply].state = "absent"
    BY <1>1, <1>4, RowsStay
  <2>2. CASE Approved
    BY <1>1, <2>1, <2>2 DEF Kept, ApplyRequested
  <2>3. CASE ControllerApprove
    <3>1. Requeued(tasks[Apply]).state # "absent"
      BY <2>1 DEF Requeued, Inserted
    <3> QED
      BY <1>1, <1>4, <2>3, <3>1, ApprovalDoes DEF Terminal
  <2> QED
    BY <1>1, <1>4, <2>2, <2>3 DEF Kept
<1>5. ASSUME NEW w \in Workers, Working(w, Apply)' PROVE tasks'[Apply].state # "absent"
  <2>1. tasks[Apply].state # "absent"
    BY <1>1, <1>5, TaskTaken DEF ApplyRequested, Claim, ClaimNextTask, Candidates, Claimable
  <2> QED
    BY <1>1, <2>1, RowsStay
<1> QED
  BY <1>3, <1>4, <1>5 DEF ApplyRequested

LEMMA AgreesStep == ASSUME ApplyInv, [Next]_allVars PROVE LedgerAgrees'
<1>1. Kept /\ TypeOK /\ LedgerAgrees /\ VerifyInv
  BY KeptStep DEF ApplyInv, VerifyInv
<1>2. drafts \in [Proposals -> ActionStatus]
  BY <1>1 DEF TypeOK, StoreTypeOK
<1> SUFFICES ASSUME NEW p \in Proposals
             PROVE  /\ drafts'[p] \in Done \/ proposals'[p] = "actioned" => p \in manifests'
                    /\ p \in manifests' => journals'[p] > 0
  BY DEF LedgerAgrees
<1>3. drafts'[p] \in Done => p \in manifests'
  <2>1. ASSUME NEW w \in Workers, Begins(w), drafts'[p] \in Done PROVE drafts[p] \in Done
    BY <2>1 DEF Begins
  <2>2. ASSUME NEW w \in Workers, Records(w), drafts'[p] \in Done PROVE drafts[p] \in Done \/ p \in manifests'
    BY <1>2, <2>2 DEF Records
  <2> QED
    BY <1>1, <2>1, <2>2, LedgerChanges DEF LedgerChange, LedgerAgrees, Kept
<1>4. proposals'[p] = "actioned" => p \in manifests'
  BY <1>1, ProposalChanges DEF LedgerAgrees, Kept
<1>5. ASSUME p \in manifests' PROVE journals'[p] > 0
  <2>1. CASE p \in manifests
    <3>1. journals[p] > 0 /\ journals'[p] >= journals[p] /\ journals[p] \in Nat /\ journals'[p] \in Nat
      BY <1>1, <2>1, ProvidersGrow, CloseWorkerAssumption DEF LedgerAgrees, Kept, TypeOK
    <3> QED
      BY <3>1
  <2>2. CASE p \notin manifests
    <3>1. PICK w \in Workers : Records(w) /\ worker[w].result \in Done /\ worker[w].item = p
      BY <1>1, <1>5, <2>2, LedgerChanges DEF LedgerChange, Begins, Records
    <3>2. journals[p] > 0
      <4>1. Observed(worker[w]) /\ Coherent(worker[w])
        BY <1>1, RegistersOf DEF VerifyInv
      <4>2. worker[w].pc = "settle" /\ worker[w].task = "apply_approved_actions"
        BY <3>1, <4>1 DEF Records, WriteOutcome, Coherent, OnEmails, GmailPC, Apply
      <4> QED
        BY <3>1, <4>1, <4>2 DEF Observed
    <3>3. journals' = journals
      BY <3>1 DEF Records, WriteOutcome, providerVars
    <3> QED
      BY <3>2, <3>3
  <2> QED
    BY <2>1, <2>2
<1> QED
  BY <1>3, <1>4, <1>5

LEMMA FirstStep == ASSUME ApplyInv, [Next]_allVars PROVE FirstSuccessEnds'
<1>1. Kept /\ TypeOK /\ FirstSuccessEnds /\ ApplyRequested /\ LedgerAgrees
  BY KeptStep DEF ApplyInv, VerifyInv
<1>2. /\ drafts \in [Proposals -> ActionStatus] /\ package.content \subseteq Proposals
      /\ proposals \in [Proposals -> {"absent", "proposed", "approved", "actioned"}]
  BY <1>1 DEF TypeOK, StoreTypeOK
<1>3. \A p, q \in First(package.content) : p = q
  <2>1. \A p \in package.content : p \in Nat
    BY <1>2, CloseStoreAssumption DEF Proposals
  <2> QED
    BY <2>1 DEF First
\* What a worker that applies the approved proposals works on.
<1>4. ASSUME NEW w \in Workers, worker[w].task = Apply, worker[w].pc # "idle"
      PROVE  Approved /\ tasks[Apply].state # "absent"
  BY <1>1, <1>4 DEF ApplyRequested, Working
<1>5. ASSUME manifests = {}, tasks[Apply].state # "absent"
      PROVE  ApprovedProposals = package.content /\ package.content # {}
  <2>1. \A p \in package.content : proposals[p] = "approved"
    BY <1>1, <1>2, <1>5 DEF ApplyRequested, LedgerAgrees
  <2> QED
    BY <1>1, <1>5, <2>1 DEF ApprovedProposals, ApplyRequested, Approved
<1>6. ASSUME manifests' # {} PROVE runState' \in Terminal
  <2>1. CASE manifests # {}
    BY <1>1, <2>1 DEF FirstSuccessEnds, Kept
  <2>2. CASE manifests = {}
    <3>1. PICK w \in Workers : Records(w) /\ worker[w].result \in Done
      BY <1>1, <1>6, <2>2, LedgerChanges DEF LedgerChange, Begins, Records
    <3>2. OnProposals(worker[w])
      BY <1>1, <3>1, RegistersOf DEF Records, WriteOutcome, Coherent, OnProposals, OnEmails, GmailPC, Apply
    <3>3. worker[w].item \in First(package.content) /\ worker[w].item \in Proposals
      BY <1>1, <2>2, <3>2, ItemOf DEF FirstSuccessEnds, HoldsFirst
    <3>4. ASSUME NEW q \in Proposals PROVE drafts'[q] \in Done \cup {"none"}
      <4>1. CASE q = worker[w].item
        BY <1>2, <3>1, <3>3, <4>1 DEF Records
      <4>2. CASE q # worker[w].item
        BY <1>1, <1>2, <1>3, <2>2, <3>1, <3>3, <4>2 DEF Records, FirstSuccessEnds
      <4> QED
        BY <4>1, <4>2
    <3>5. runState' = UnlessTerminal("approved")
      BY <3>1, <3>4 DEF Records, AllSettled
    <3> QED
      BY <3>5 DEF UnlessTerminal, Terminal
  <2> QED
    BY <2>1, <2>2
<1>7. ASSUME manifests' = {}, NEW p \in Proposals, drafts'[p] # "none"
      PROVE  Approved' /\ p \in First(package'.content)
  <2>1. manifests = {}
    BY <1>1, <1>7 DEF Kept
  <2>2. Approved /\ p \in First(package.content)
    <3>1. CASE drafts'[p] = drafts[p]
      BY <1>1, <1>7, <2>1, <3>1 DEF FirstSuccessEnds
    <3>2. CASE drafts'[p] # drafts[p]
      <4>1. PICK w \in Workers : (Begins(w) \/ Records(w)) /\ p = worker[w].item
        BY <1>1, <1>2, <3>2, LedgerChanges DEF LedgerChange, Begins, Records
      <4>2. OnProposals(worker[w])
        BY <1>1, <4>1, RegistersOf
           DEF Begins, EnsureAction, StartAction, Records, WriteOutcome, Coherent, OnProposals,
               OnEmails, GmailPC, XeroPC, Apply
      <4>3. worker[w].task = Apply /\ worker[w].pc # "idle"
        BY <1>1, <4>2, ItemOf DEF OnProposals, XeroPC
      <4> QED
        BY <1>1, <1>4, <2>1, <4>1, <4>2, <4>3 DEF FirstSuccessEnds, HoldsFirst
    <3> QED
      BY <3>1, <3>2
  <2> QED
    BY <1>1, <2>2 DEF Kept
<1>8. ASSUME manifests' = {}, NEW v \in Workers PROVE HoldsFirst(worker'[v], package'.content)
  <2>1. manifests = {} /\ HoldsFirst(worker[v], package.content)
    BY <1>1, <1>8 DEF Kept, FirstSuccessEnds
  <2>2. HoldsFirst(worker'[v], package.content)
    <3>1. CASE worker'[v] = worker[v]
      BY <2>1, <3>1
    <3>2. CASE worker'[v] # worker[v]
      <4>1. StepOf(v)
        BY <1>1, <3>2, WhoSteps, OwnRegisters
      <4>2. \A p \in Proposals : drafts[p] \notin Done
        BY <1>1, <2>1 DEF LedgerAgrees
      <4>3. worker[v].task = Apply /\ worker[v].pc # "idle" =>
              ApprovedProposals = package.content /\ package.content # {}
        BY <1>4, <1>5, <2>1
      <4> QED
        BY <1>1, <1>8, <2>1, <4>1, <4>2, <4>3, HoldsFirstStep
    <3> QED
      BY <3>1, <3>2
  <2>3. CASE Working(v, Apply)'
    <3>1. tasks[Apply].state # "absent"
      BY <1>1, <2>3, TaskTaken DEF ApplyRequested, Claim, ClaimNextTask, Candidates, Claimable,
                                   Apply, TaskKeys
    <3>2. package'.content = package.content
      BY <1>1, <3>1 DEF Kept, ApplyRequested
    <3> QED
      BY <2>2, <3>2
  <2>4. CASE ~Working(v, Apply)'
    <3>1. Coherent(worker'[v])
      BY <1>1 DEF Kept, TypeOK, WorkerTypeOK
    <3> QED
      BY <2>4, <3>1 DEF Working, HoldsFirst, Coherent, OnProposals, XeroPC, Answered, Apply
  <2> QED
    BY <2>3, <2>4
<1> QED
  BY <1>6, <1>7, <1>8 DEF FirstSuccessEnds

LEMMA EndsStep == ASSUME ApplyInv, [Next]_allVars PROVE EndsWithDraft'
<1>1. Kept /\ TypeOK /\ RunChange /\ ApplyRequested /\ FirstSuccessEnds /\ EndsWithDraft
  BY KeptStep, RunChanges DEF ApplyInv, VerifyInv
<1>2. ASSUME tasks'[Apply].state = "succeeded" PROVE manifests' # {}
  <2>1. CASE tasks[Apply].state = "succeeded"
    BY <1>1, <2>1 DEF EndsWithDraft, Kept
  <2>2. ASSUME NEW w \in Workers, Answered(worker[w], Apply) PROVE manifests' # {}
    BY <1>1, <2>2 DEF FirstSuccessEnds, HoldsFirst, Kept
  <2> QED
    BY <1>1, <1>2, <2>1, <2>2, NewlySucceeded DEF Apply, TaskKeys
<1>3. ASSUME runState' = "approved" PROVE Approved' /\ (package'.content = {} \/ manifests' # {})
  <2>1. CASE runState = "approved"
    BY <1>1, <2>1 DEF EndsWithDraft, Kept
  <2>2. CASE ControllerApprove
    BY <1>1, <1>3, <2>2, ApprovalDoes
  <2>3. ASSUME NEW w \in Workers, WriteOutcome(w), worker[w].task = Apply, manifests' # {}
        PROVE  Approved'
    BY <1>1, <2>3 DEF WriteOutcome, ApplyRequested, Working, Kept
  <2> QED
    BY <1>1, <1>3, <2>1, <2>2, <2>3 DEF RunChange
<1> QED
  BY <1>2, <1>3 DEF EndsWithDraft

LEMMA PastReviewStep == ASSUME ApplyInv, [Next]_allVars PROVE PastReview'
<1>1. Kept /\ TypeOK /\ RunChange /\ PastReview /\ ApprovalGate
  BY KeptStep, RunChanges DEF ApplyInv, VerifyInv
<1>2. ApplyRequested' /\ FirstSuccessEnds' /\ EndsWithDraft' /\ Apply \in TaskKeys
  BY RequestedStep, FirstStep, EndsStep DEF Apply, TaskKeys
<1> SUFFICES ASSUME Approved' PROVE runState' \notin {"running", "awaiting_approval"}
  BY DEF PastReview
<1>3. CASE ControllerApprove
  BY <1>1, <1>3, ApprovalDoes
<1>4. CASE Approved
  <2>1. runState \notin {"running", "awaiting_approval"} /\ report = "passed"
    BY <1>1, <1>4 DEF PastReview, ApprovalGate, Approved
  <2>2. ASSUME \A k \in TaskKeys : tasks'[k].state \in {"absent", "succeeded"}
        PROVE  runState' \in Terminal
    BY <1>2, <2>2 DEF ApplyRequested, FirstSuccessEnds, EndsWithDraft
  <2> QED
    BY <1>1, <2>1, <2>2 DEF RunChange, Reviewable, Terminal
<1> QED
  BY <1>1, <1>3, <1>4 DEF Kept

LEMMA StuckStep == ASSUME ApplyInv, [Next]_allVars PROVE NoStuckApplying'
<1>1. /\ Kept /\ TypeOK /\ RunChange /\ NoStuckApplying /\ Apply \in TaskKeys
      /\ RowChange(Apply) /\ tasks[Apply] \in Row
  BY KeptStep, RunChanges, RowChanges DEF ApplyInv, VerifyInv, Apply, TaskKeys, TypeOK, StoreTypeOK
<1>2. FirstSuccessEnds' /\ EndsWithDraft'
  BY FirstStep, EndsStep
<1> SUFFICES ASSUME runState' = "applying_approved_actions"
             PROVE  tasks'[Apply].state \in {"ready", "running"}
  BY DEF NoStuckApplying, Apply
<1>3. CASE ControllerApprove
  <2>1. Requeued(tasks[Apply]).state = "ready"
    BY <1>1, <1>3 DEF Kept, Requeued, Inserted
  <2> QED
    BY <1>1, <1>3, <2>1, ApprovalDoes
<1>4. CASE ~ControllerApprove
  <2>1. runState = "applying_approved_actions"
    BY <1>1, <1>4 DEF RunChange
  <2>2. tasks[Apply].state \in {"ready", "running"}
    BY <1>1, <2>1 DEF NoStuckApplying, Apply
  <2>3. runState' # UnlessTerminal("blocked")
    BY <2>1 DEF UnlessTerminal, Terminal
  <2>4. tasks'[Apply].state # "succeeded"
    BY <1>2 DEF FirstSuccessEnds, EndsWithDraft, Terminal
  <2>5. ASSUME NEW w \in Workers, Settles(w, Apply) PROVE tasks'[Apply].state \in {"ready", "running"}
    <3>1. tasks'[Apply].state \notin {"blocked", "failed", "succeeded"}
      BY <2>3, <2>4, <2>5 DEF Settles
    <3> QED
      BY <1>1, <2>5, <3>1 DEF Settles, Released, AfterFailure, Row
  <2>6. ASSUME NEW w \in Workers PROVE Claimed(tasks[Apply], w).state = "running"
    BY DEF Claimed
  <2>7. /\ [tasks[Apply] EXCEPT !.expiry = "expired"].state = tasks[Apply].state
        /\ [tasks[Apply] EXCEPT !.state = "ready"].state = "ready"
    BY <1>1 DEF Row
  <2> QED
    BY <1>1, <1>4, <2>2, <2>3, <2>5, <2>6, <2>7 DEF RowChange, Apply, SendEmails
<1> QED
  BY <1>3, <1>4

LEMMA ApplyAlways == Spec => []ApplyInv
<1>1. WorkflowInit => ApplyInv
  <2> SUFFICES ASSUME WorkflowInit PROVE ApplyInv
    OBVIOUS
  <2>1. VerifyInv /\ ApprovalGate
    BY VerifyInit, ApprovalInit DEF WorkflowInit
  <2>2. ApplyRequested /\ EndsWithDraft
    BY DEF WorkflowInit, StoreInit, WorkerInit, Idle, ApplyRequested, EndsWithDraft, Working, Approved,
           Apply, TaskKeys, DefaultTasks, Inserted
  <2>3. PastReview /\ LedgerAgrees /\ NoStuckApplying
    BY DEF WorkflowInit, StoreInit, PastReview, LedgerAgrees, NoStuckApplying, Approved, Done
  <2>4. FirstSuccessEnds
    BY DEF WorkflowInit, StoreInit, WorkerInit, Idle, FirstSuccessEnds, HoldsFirst, OnProposals, XeroPC,
           Answered, Apply
  <2> QED
    BY <2>1, <2>2, <2>3, <2>4 DEF ApplyInv
<1>2. ApplyInv /\ [Next]_allVars => ApplyInv'
  <2> SUFFICES ASSUME ApplyInv, [Next]_allVars PROVE ApplyInv'
    OBVIOUS
  <2>1. VerifyInv' /\ ApprovalGate'
    BY KeptStep DEF Kept
  <2> QED
    BY <2>1, RequestedStep, PastReviewStep, FirstStep, AgreesStep, EndsStep, StuckStep DEF ApplyInv
<1> QED
  BY <1>1, <1>2, PTL DEF Spec

\* While approved actions are applied the task that applies them is ready or
\* running: whatever ends it takes the run out of that state as well, and only
\* its success leaves the run approved (update_action_execution, _finish_task).
THEOREM ApplyingNeverStuck == Spec => []NoStuckApplying
<1>1. ApplyInv => NoStuckApplying
  BY DEF ApplyInv
<1> QED
  BY <1>1, ApplyAlways, PTL

\* With packages of at most one proposal an approved run has its draft in Xero.
THEOREM ApprovedRunHasItsDraft == ASSUME ProposalCount <= 1 PROVE Spec => []ApprovedMeansAllDrafted
<1>1. ApplyInv => ApprovedMeansAllDrafted
  <2> SUFFICES ASSUME ApplyInv, runState = "approved", NEW p \in package.content PROVE journals[p] > 0
    BY DEF ApprovedMeansAllDrafted
  <2>1. manifests # {} /\ manifests \subseteq Proposals /\ package.content \subseteq Proposals
    BY DEF ApplyInv, EndsWithDraft, VerifyInv, TypeOK, StoreTypeOK
  <2>2. \A q, r \in Proposals : q = r
    <3> SUFFICES ASSUME NEW q \in Proposals, NEW r \in Proposals PROVE q = r
      OBVIOUS
    <3>1. q \in Nat /\ r \in Nat /\ 1 <= q /\ q <= ProposalCount /\ 1 <= r /\ r <= ProposalCount
      BY CloseStoreAssumption DEF Proposals
    <3> QED
      BY <3>1, CloseStoreAssumption
  <2>3. p \in manifests /\ p \in Proposals
    BY <2>1, <2>2
  <2> QED
    BY <2>3 DEF ApplyInv, LedgerAgrees
<1> QED
  BY <1>1, ApplyAlways, PTL

-----------------------------------------------------------------------------
(* Leases and attempts *)

\* A running row can be found again, and a ready one be claimed.
Recoverable(row) ==
    /\ row.state = "running" => row.expiry # "null"
    /\ row.state = "ready" => row.attempt < MaxAttempts
    /\ row.state = "pending" => row.attempt = 0

LeaseInv ==
    /\ \A k \in LeasedTasks : Recoverable(tasks[k])
    /\ Exceptions = {} => tasks[SendEmails].state = "absent"

\* Every change of a leased row keeps it recoverable: an approval, whose upsert
\* clears the deadline, only ever meets a run without an apply task.
LEMMA LeaseStep == ASSUME ApplyInv, LeaseInv, [Next]_allVars PROVE LeaseInv'
<1>1. Kept /\ TypeOK /\ MaxAttempts \in Nat \ {0} /\ SendEmails \in TaskKeys
  BY KeptStep, TaskRowAssumption DEF ApplyInv, VerifyInv, SendEmails, TaskKeys
<1>2. ASSUME NEW k \in LeasedTasks PROVE Recoverable(tasks'[k])
  <2>1. k \in TaskKeys /\ k # SendEmails
    BY DEF LeasedTasks, SendEmails
  <2>2. RowChange(k) /\ tasks[k] \in Row /\ Recoverable(tasks[k])
    BY <1>1, <2>1, RowChanges DEF TypeOK, StoreTypeOK, LeaseInv
  <2>3. ASSUME NEW w \in Workers PROVE Recoverable(Claimed(tasks[k], w))
    BY DEF Recoverable, Claimed
  <2>4. ASSUME NEW s \in {"failed", "cancelled", "succeeded", "blocked"} PROVE Recoverable(Released(tasks[k], s))
    BY <2>2 DEF Recoverable, Released, Row
  <2>5. Recoverable([tasks[k] EXCEPT !.expiry = "expired"])
    BY <2>2 DEF Recoverable, Row
  <2>6. tasks[k].state = "pending" => Recoverable([tasks[k] EXCEPT !.state = "ready"])
    BY <1>1, <2>2 DEF Recoverable, Row
  <2>7. ASSUME NEW w \in Workers, Settles(w, k) PROVE Recoverable(tasks'[k])
    <3>1. Recoverable(AfterFailure(tasks[k]))
      BY <2>2 DEF Recoverable, AfterFailure, Released, Row
    <3> QED
      BY <2>4, <2>7, <3>1 DEF Settles
  <2>8. Recoverable(Inserted("ready"))
    BY <1>1 DEF Recoverable, Inserted
  <2>9. ControllerApprove /\ k = Apply => Recoverable(Requeued(tasks[k]))
    BY <1>1, <2>8 DEF Kept, Requeued
  <2> QED
    BY <2>1, <2>2, <2>3, <2>4, <2>5, <2>6, <2>7, <2>8, <2>9 DEF RowChange
<1>3. ASSUME Exceptions = {} PROVE tasks'[SendEmails].state = "absent"
  <2>1. RowChange(SendEmails) /\ tasks[SendEmails].state = "absent"
    BY <1>1, <1>3, RowChanges DEF LeaseInv
  <2> QED
    BY <1>3, <2>1 DEF RowChange, Claimable, Settles, Owned, Apply, SendEmails
<1> QED
  BY <1>2, <1>3 DEF LeaseInv

LEMMA LeaseAlways == Spec => []LeaseInv
<1>1. WorkflowInit => LeaseInv
  <2> SUFFICES ASSUME WorkflowInit PROVE LeaseInv
    OBVIOUS
  <2>1. ASSUME NEW k \in LeasedTasks PROVE Recoverable(tasks[k])
    <3>1. k \in TaskKeys /\ tasks[k] \in {Inserted("absent"), Inserted("ready"), Inserted("pending")}
      BY DEF WorkflowInit, StoreInit, LeasedTasks
    <3> QED
      BY <3>1, TaskRowAssumption DEF Recoverable, Inserted
  <2>2. tasks[SendEmails].state = "absent"
    BY DEF WorkflowInit, StoreInit, Inserted, SendEmails, TaskKeys, DefaultTasks
  <2> QED
    BY <2>1, <2>2 DEF LeaseInv
<1>2. ApplyInv /\ LeaseInv /\ [Next]_allVars => LeaseInv'
  BY LeaseStep
<1> QED
  BY <1>1, <1>2, ApplyAlways, PTL DEF Spec

\* Every running task other than the one that sends emails has a deadline, and
\* every ready one an attempt left, whatever the queue holds besides.
THEOREM LeasedTasksRecover ==
    Spec => [](\A k \in LeasedTasks :
                 /\ tasks[k].state = "running" => tasks[k].expiry # "null"
                 /\ tasks[k].state = "ready" => tasks[k].attempt < MaxAttempts)
<1>1. LeaseInv => \A k \in LeasedTasks :
                    /\ tasks[k].state = "running" => tasks[k].expiry # "null"
                    /\ tasks[k].state = "ready" => tasks[k].attempt < MaxAttempts
  BY DEF LeaseInv, Recoverable
<1> QED
  BY <1>1, LeaseAlways, PTL

\* Without recovery emails that holds of every task of the run.
THEOREM TasksRecoverWithoutEmails ==
    ASSUME Exceptions = {} PROVE Spec => [](RunningTasksLeased /\ ReadyTasksHaveBudget)
<1>1. LeaseInv => RunningTasksLeased /\ ReadyTasksHaveBudget
  BY DEF LeaseInv, Recoverable, RunningTasksLeased, ReadyTasksHaveBudget, LeasedTasks, SendEmails
<1> QED
  BY <1>1, LeaseAlways, PTL
=============================================================================
