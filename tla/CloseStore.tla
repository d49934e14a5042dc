------------------------------ MODULE CloseStore ------------------------------
(***************************************************************************)
(* The rows that PostgreSQL keeps for one close run, and every transaction *)
(* of SupabaseWorkflowStore on them.  A transaction is one action: it      *)
(* locks the run or the task, so it is atomic; its guard is the condition  *)
(* under which it commits.  A refused transaction raises and changes       *)
(* nothing; what its caller then does belongs to CloseWorker and           *)
(* CloseWorkflow.                                                          *)
(*                                                                         *)
(* Left out: task_events (written, never read back by a transaction), the  *)
(* organization and controller checks (one organization, one controller),  *)
(* the normalized facts (what reconciliation makes of them is Derived and  *)
(* the choice of a report status).                                         *)
(***************************************************************************)
EXTENDS TaskRow

CONSTANTS
    ProposalCount,  \* journal proposals are 1..ProposalCount, in id order
    Derived,        \* the proposals reconciliation derives from the snapshot
    ExceptionCount  \* the exceptions reconciliation finds are 1..ExceptionCount

Proposals  == 1..ProposalCount
Exceptions == 1..ExceptionCount

ASSUME CloseStoreAssumption ==
    /\ ProposalCount \in Nat
    /\ ExceptionCount \in Nat
    /\ Derived \subseteq Proposals

VARIABLES
    runState,    \* close_runs.state
    tasks,       \* tasks, by task_key
    snapshot,    \* close_runs.snapshot_id is not null
    checklist,   \* evidence_checklist_evaluations.ready: "none" before the first
    report,      \* close_reports.control_status: "none" before reconciliation
    exceptions,  \* reconciliation_exceptions.status
    artifact,    \* a verified close_artifacts row exists
    package,     \* review_packages
    decisions,   \* the decisions recorded in approvals
    proposals,   \* journal_proposals.status
    drafts,      \* action_executions.status of the Xero actions, by proposal
    manifests,   \* the proposals with an action_manifests row
    emails       \* action_executions.status of the Gmail actions, by exception

closeVars  == <<snapshot, checklist, report, artifact>>
reviewVars == <<package, decisions>>
actionVars == <<drafts, manifests, emails>>
storeVars  == <<runState, tasks, closeVars, exceptions, reviewVars, proposals, actionVars>>

DefaultTasks == {"preflight", "synchronize_sources", "collect_evidence", "reconcile"}
TaskKeys     == DefaultTasks \cup {"apply_approved_actions", "send_recovery_request"}

\* DEFAULT_CLOSE_TASKS; the two action tasks have no dependency rows.
DependsOn(k) ==
    CASE k = "synchronize_sources" -> {"preflight"}
      [] k = "collect_evidence"    -> {"synchronize_sources"}
      [] k = "reconcile"           -> {"collect_evidence"}
      [] OTHER                     -> {}

\* The states of close_runs.state that some statement of the code assigns,
\* and "failed", which retry_run accepts.
RunState == {"synchronizing", "running", "blocked", "failed", "awaiting_approval",
             "changes_requested", "applying_approved_actions", "action_failed",
             "approved", "cancelled"}

Terminal == {"approved", "cancelled"}

ActionStatus == {"none", "prepared", "started", "succeeded", "failed",
                 "outcome_unknown", "reconciled"}

Done == {"succeeded", "reconciled"}

\* Mutant of UnlessTerminal: the where clause is missing.
EvenIfTerminal(s) == s

\* update close_runs set state = s where state not in ('approved', 'cancelled')
UnlessTerminal(s) == IF runState \in Terminal THEN runState ELSE s

DependenciesMet(ts, k) == \A d \in DependsOn(k) : ts[d].state = "succeeded"

-----------------------------------------------------------------------------
\* create_close_run has committed.  Its replay under the same request key
\* inserts nothing and keeps every state, so it is not a step.
StoreInit ==
    /\ runState = "synchronizing"
    /\ tasks = [k \in TaskKeys |->
                  IF k \notin DefaultTasks THEN Inserted("absent")
                  ELSE Inserted(IF DependsOn(k) = {} THEN "ready" ELSE "pending")]
    /\ snapshot = FALSE
    /\ checklist = "none"
    /\ report = "none"
    /\ exceptions = [e \in Exceptions |-> "absent"]
    /\ artifact = FALSE
    /\ package = [status |-> "none", content |-> {}]
    /\ decisions = {}
    /\ proposals = [p \in Proposals |-> "absent"]
    /\ drafts = [p \in Proposals |-> "none"]
    /\ manifests = {}
    /\ emails = [e \in Exceptions |-> "none"]

-----------------------------------------------------------------------------
(* The task queue *)

\* The first statement of claim_next_task, over all rows of the run.
Swept == [k \in TaskKeys |->
            IF Exhausted(tasks[k]) THEN Released(tasks[k], "failed") ELSE tasks[k]]

\* Mutant of SweptRunState: the sweep surfaces no blocker.
UnsurfacedSweep == runState

SweptRunState ==
    IF \E k \in TaskKeys : Exhausted(tasks[k]) THEN UnlessTerminal("blocked") ELSE runState

\* Mutant of Candidates: the state of the run is not joined.
CandidatesOfAnyRun == {k \in TaskKeys : Claimable(tasks[k])}

Candidates ==
    IF runState = "cancelled" THEN {} ELSE {k \in TaskKeys : Claimable(tasks[k])}

\* The default tasks are inserted in one transaction and share created_at, and
\* the query skips locked rows: any candidate may be the one that is claimed.
ClaimNextTask(w, k) ==
    /\ k \in Candidates
    /\ tasks' = [Swept EXCEPT ![k] = Claimed(@, w)]
    /\ runState' = SweptRunState
    /\ UNCHANGED <<closeVars, exceptions, reviewVars, proposals, actionVars>>

\* claim_next_task without a candidate still commits the sweep.
SweepOnly ==
    /\ Candidates = {}
    /\ \E k \in TaskKeys : Exhausted(tasks[k])
    /\ tasks' = Swept
    /\ runState' = SweptRunState
    /\ UNCHANGED <<closeVars, exceptions, reviewVars, proposals, actionVars>>

\* The deadline of a running row passes.
LeaseExpires(k) ==
    /\ tasks[k].state = "running" /\ tasks[k].expiry = "live"
    /\ tasks' = [tasks EXCEPT ![k].expiry = "expired"]
    /\ UNCHANGED <<runState, closeVars, exceptions, reviewVars, proposals, actionVars>>

\* Mutant of Promoted: one succeeded prerequisite promotes every pending task.
PromotedUnchecked(ts) ==
    [k \in TaskKeys |-> IF ts[k].state = "pending" /\ runState # "cancelled"
                        THEN [ts[k] EXCEPT !.state = "ready"] ELSE ts[k]]

Promoted(ts) ==
    [k \in TaskKeys |->
        IF ts[k].state = "pending" /\ runState # "cancelled" /\ DependenciesMet(ts, k)
        THEN [ts[k] EXCEPT !.state = "ready"] ELSE ts[k]]

\* _finish_task, state = 'succeeded'
CompleteTask(w, k) ==
    /\ Owned(tasks[k], w)
    /\ tasks' = Promoted([tasks EXCEPT ![k] = Released(@, "succeeded")])
    /\ runState' = IF /\ runState = "synchronizing"
                      /\ \A j \in TaskKeys : tasks'[j].state \in {"absent", "succeeded"}
                   THEN "running" ELSE runState
    /\ UNCHANGED <<closeVars, exceptions, reviewVars, proposals, actionVars>>

\* _finish_task, state = 'blocked'
BlockTask(w, k) ==
    /\ Owned(tasks[k], w)
    /\ tasks' = [tasks EXCEPT ![k] = Released(@, "blocked")]
    /\ runState' = UnlessTerminal("blocked")
    /\ UNCHANGED <<closeVars, exceptions, reviewVars, proposals, actionVars>>

RetryTask(w, k) ==
    /\ Owned(tasks[k], w)
    /\ tasks' = [tasks EXCEPT ![k] = AfterFailure(@)]
    /\ runState' = IF tasks'[k].state = "failed" THEN UnlessTerminal("blocked") ELSE runState
    /\ UNCHANGED <<closeVars, exceptions, reviewVars, proposals, actionVars>>

\* Mutant of RetryRun: succeeded tasks run again as well.
RetryEverything ==
    /\ runState \in {"blocked", "failed"}
    /\ tasks' = [k \in TaskKeys |->
                   IF tasks[k].state \in {"succeeded", "blocked", "failed"} /\ DependenciesMet(tasks, k)
                   THEN Inserted("ready") ELSE tasks[k]]
    /\ runState' = "synchronizing"
    /\ UNCHANGED <<closeVars, exceptions, reviewVars, proposals, actionVars>>

RetryRun ==
    /\ runState \in {"blocked", "failed"}
    /\ tasks' = [k \in TaskKeys |->
                   IF tasks[k].state \in {"blocked", "failed"} /\ DependenciesMet(tasks, k)
                   THEN Inserted("ready") ELSE tasks[k]]
    /\ runState' = "synchronizing"
    /\ UNCHANGED <<closeVars, exceptions, reviewVars, proposals, actionVars>>

\* The trigger refuses the update of an approved run, and the transaction
\* with it; a running task is left to its worker.
CancelRun ==
    /\ runState # "approved"
    /\ tasks' = [k \in TaskKeys |->
                   IF tasks[k].state \in {"pending", "ready"}
                   THEN Released(tasks[k], "cancelled") ELSE tasks[k]]
    /\ runState' = "cancelled"
    /\ UNCHANGED <<closeVars, exceptions, reviewVars, proposals, actionVars>>

-----------------------------------------------------------------------------
(* What the preparation tasks persist *)

PersistSourceSnapshot ==
    /\ snapshot \/ runState = "synchronizing"
    /\ snapshot' = TRUE
    /\ UNCHANGED <<runState, tasks, checklist, report, artifact,
                   exceptions, reviewVars, proposals, actionVars>>

\* persist_evidence_batch locks the run but looks at nothing of it.
PersistEvidenceBatch(verdict) ==
    /\ checklist' = verdict
    /\ UNCHANGED <<runState, tasks, snapshot, report, artifact,
                   exceptions, reviewVars, proposals, actionVars>>

\* Mutant of PersistCloseExecution: a second execution replaces the report.
PersistLatestExecution(control) ==
    /\ snapshot
    /\ report' = control
    /\ IF report # "none" THEN UNCHANGED <<runState, exceptions>>
       ELSE /\ runState \in {"synchronizing", "running"}
            /\ exceptions' \in [Exceptions -> {"open", "closed"}]
            /\ runState' = "running"
    /\ UNCHANGED <<tasks, snapshot, checklist, artifact, reviewVars, proposals, actionVars>>

\* A reconciliation that is already there is kept, and so is the run's state.
PersistCloseExecution(control) ==
    /\ snapshot
    /\ IF report # "none" THEN UNCHANGED <<runState, report, exceptions>>
       ELSE /\ runState \in {"synchronizing", "running"}
            /\ report' = control
            /\ exceptions' \in [Exceptions -> {"open", "closed"}]  \* excluded ones are closed
            /\ runState' = "running"
    /\ UNCHANGED <<tasks, snapshot, checklist, artifact, reviewVars, proposals, actionVars>>

RecordCloseArtifact ==
    /\ artifact' = TRUE
    /\ UNCHANGED <<runState, tasks, snapshot, checklist, report,
                   exceptions, reviewVars, proposals, actionVars>>

-----------------------------------------------------------------------------
(* The review package and the controller's decision *)

\* Mutant of Reviewable: a run that is still preparing is accepted.
ReviewableEarly == runState \in {"synchronizing", "running", "awaiting_approval"} /\ snapshot

Reviewable == runState \in {"running", "awaiting_approval"} /\ snapshot

\* Mutant of CreateReviewPackage: on conflict the new content wins.
ReplaceReviewPackage(content) ==
    /\ Reviewable
    /\ package' = [status |-> "review_frozen", content |-> content]
    /\ proposals' = [p \in Proposals |->
                       IF p \in content /\ proposals[p] = "absent" THEN "proposed" ELSE proposals[p]]
    /\ runState' = "awaiting_approval"
    /\ UNCHANGED <<tasks, closeVars, exceptions, decisions, actionVars>>

\* The package hash covers the proposals in it: equal hash, equal content.
CreateReviewPackage(content) ==
    /\ Reviewable
    /\ package.status = "none" \/ package.content = content
    /\ package' = IF package.status = "none"
                  THEN [status |-> "review_frozen", content |-> content] ELSE package
    /\ proposals' = [p \in Proposals |->
                       IF p \in content /\ proposals[p] = "absent" THEN "proposed" ELSE proposals[p]]
    /\ runState' = "awaiting_approval"
    /\ UNCHANGED <<tasks, closeVars, exceptions, decisions, actionVars>>

ApproveReviewPackage(content) ==
    /\ runState = "awaiting_approval"
    /\ package.status # "none" /\ package.content = content
    /\ report = "passed"
    /\ checklist = "ready"
    /\ decisions' = decisions \cup {"approved"}
    /\ package' = [package EXCEPT !.status = "finalized"]
    /\ IF content = {}
       THEN runState' = "approved" /\ UNCHANGED <<tasks, proposals>>
       ELSE /\ runState' = "applying_approved_actions"
            /\ tasks' = [tasks EXCEPT !["apply_approved_actions"] = Requeued(@)]
            /\ proposals' = [p \in Proposals |->
                               IF p \in content THEN "approved" ELSE proposals[p]]
    /\ UNCHANGED <<closeVars, exceptions, actionVars>>

RequestReviewChanges(content) ==
    /\ runState = "awaiting_approval"
    /\ package.status # "none" /\ package.content = content
    /\ decisions' = decisions \cup {"changes_requested"}
    /\ runState' = "changes_requested"
    /\ UNCHANGED <<tasks, closeVars, exceptions, package, proposals, actionVars>>

\* Mutant of ApprovedProposals: joined by run instead of by package.
ProposalsOfRun == IF "approved" \in decisions THEN Proposals ELSE {}

\* approved_xero_proposals_for_run
ApprovedProposals ==
    IF "approved" \in decisions THEN {p \in package.content : proposals[p] = "approved"} ELSE {}

-----------------------------------------------------------------------------
(* The ledger of external actions *)

EnsureDraftAction(p) ==
    /\ drafts' = [drafts EXCEPT ![p] = IF @ = "none" THEN "prepared" ELSE @]
    /\ UNCHANGED <<runState, tasks, closeVars, exceptions, reviewVars, proposals,
                   manifests, emails>>

\* Mutant of AllSettled: the last success goes unnoticed.
NeverSettled(ds) == FALSE

\* No row of the Xero actions has an open or failed outcome; proposals that
\* have no row yet do not count.
AllSettled(ds) == \A q \in Proposals : ds[q] \in Done \cup {"none"}

\* update_action_execution for a Xero action.  Only a success names its
\* proposal; the run is approved when no Xero row is left unsettled.
UpdateDraftAction(p, s) ==
    /\ drafts' = [drafts EXCEPT ![p] = s]
    /\ CASE s \in Done ->
              /\ proposals' = [proposals EXCEPT ![p] = "actioned"]
              /\ manifests' = manifests \cup {p}
              /\ runState' = IF AllSettled(drafts') THEN UnlessTerminal("approved") ELSE runState
         [] s \in {"failed", "outcome_unknown"} ->
              /\ runState' = UnlessTerminal("action_failed")
              /\ UNCHANGED <<proposals, manifests>>
         [] OTHER -> UNCHANGED <<runState, proposals, manifests>>
    /\ UNCHANGED <<tasks, closeVars, exceptions, reviewVars, emails>>

\* update_action_execution for a Gmail action, which names no proposal.
UpdateEmailAction(e, s) ==
    /\ emails' = [emails EXCEPT ![e] = s]
    /\ runState' = IF s \in {"failed", "outcome_unknown"}
                   THEN UnlessTerminal("action_failed") ELSE runState
    /\ UNCHANGED <<tasks, closeVars, exceptions, reviewVars, proposals, drafts, manifests>>

QueueRecoveryEmail(e) ==
    /\ package.status # "none" /\ "approved" \in decisions
    /\ exceptions[e] = "open"
    /\ emails' = [emails EXCEPT ![e] = IF @ = "none" THEN "prepared" ELSE @]
    /\ tasks' = [tasks EXCEPT !["send_recovery_request"] = Requeued(@)]
    /\ UNCHANGED <<runState, closeVars, exceptions, reviewVars, proposals, drafts, manifests>>

\* prepared_recovery_email_actions
PreparedEmails == {e \in Exceptions : emails[e] \in {"prepared", "outcome_unknown"}}

\* recovery_email_counts, with one recipient per run
OtherEmailsSent(e) == {f \in Exceptions \ {e} : emails[f] \in Done}

ResolveException(e) ==
    /\ exceptions[e] = "open"
    /\ exceptions' = [exceptions EXCEPT ![e] = "closed"]
    /\ UNCHANGED <<runState, tasks, closeVars, reviewVars, proposals, actionVars>>

-----------------------------------------------------------------------------
(* The store on its own: its callers may ask for any transaction at any time *)

DecidedStatus == {"succeeded", "reconciled", "failed", "outcome_unknown"}

QueueNext ==
    \/ \E w \in Workers, k \in TaskKeys :
         ClaimNextTask(w, k) \/ CompleteTask(w, k) \/ BlockTask(w, k) \/ RetryTask(w, k)
    \/ SweepOnly
    \/ \E k \in TaskKeys : LeaseExpires(k)
    \/ RetryRun
    \/ CancelRun

PersistNext ==
    \/ PersistSourceSnapshot
    \/ \E verdict \in {"ready", "missing"} : PersistEvidenceBatch(verdict)
    \/ \E control \in {"passed", "exception"} : PersistCloseExecution(control)
    \/ RecordCloseArtifact

ReviewNext ==
    \/ \E content \in SUBSET Proposals :
         CreateReviewPackage(content) \/ ApproveReviewPackage(content) \/ RequestReviewChanges(content)
    \/ \E e \in Exceptions : QueueRecoveryEmail(e) \/ ResolveException(e)

LedgerNext ==
    \/ \E p \in Proposals : EnsureDraftAction(p)
    \/ \E p \in Proposals, s \in DecidedStatus \cup {"started"} : UpdateDraftAction(p, s)
    \/ \E e \in Exceptions, s \in DecidedStatus \cup {"started"} : UpdateEmailAction(e, s)

StoreNext == QueueNext \/ PersistNext \/ ReviewNext \/ LedgerNext

StoreSpec == StoreInit /\ [][StoreNext]_storeVars

-----------------------------------------------------------------------------
\* Every row keeps to the columns' check constraints.  No attempt exceeds
\* max_attempts: the claim's filter, the sweep and the operator's reset
\* (claim_next_task, retry_run) together bound the retries of a task.
StoreTypeOK ==
    /\ runState \in RunState
    /\ tasks \in [TaskKeys -> Row]
    /\ snapshot \in BOOLEAN
    /\ checklist \in {"none", "missing", "ready"}
    /\ report \in {"none", "passed", "exception"}
    /\ exceptions \in [Exceptions -> {"absent", "open", "closed"}]
    /\ artifact \in BOOLEAN
    /\ package \in [status : {"none", "review_frozen", "finalized"}, content : SUBSET Proposals]
    /\ decisions \subseteq {"approved", "changes_requested"}
    /\ proposals \in [Proposals -> {"absent", "proposed", "approved", "actioned"}]
    /\ drafts \in [Proposals -> ActionStatus]
    /\ manifests \subseteq Proposals
    /\ emails \in [Exceptions -> ActionStatus]

\* A task that has ever been made ready has all its prerequisites succeeded:
\* claim_next_task does not look at task_dependencies, so this must follow
\* from promotion, retries, cancellation and requeueing together.
DependencyOrder ==
    \A k \in TaskKeys :
        tasks[k].state \notin {"absent", "pending", "cancelled"} => DependenciesMet(tasks, k)

\* A recorded approval is for a package that is finalized and a report whose
\* controls passed, at every later time: no replayed reconciliation, second
\* package or retry replaces what approve_review_package looked at.
ApprovalGate ==
    "approved" \in decisions => report = "passed" /\ package.status = "finalized"

\* The content of a frozen package never changes again, whoever submits one
\* (create_review_package, the reconcile task and the API).
FrozenPackage ==
    [][package.status # "none" => package'.content = package.content]_storeVars

\* An approved or cancelled run keeps its state through every late answer of a
\* worker, sweep and retry; only a cancellation needs the trigger's refusal.
TerminalRunFrozen ==
    [][(runState \in Terminal) => UNCHANGED runState]_storeVars
=============================================================================
