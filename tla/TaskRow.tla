------------------------------- MODULE TaskRow -------------------------------
(***************************************************************************)
(* One row of workflow.tasks and what each SQL statement of                *)
(* SupabaseWorkflowStore does to it.  A lease deadline is abstracted to    *)
(* what the statements compare: "null", still in the future ("live"), or   *)
(* in the past ("expired").  last_error, updated_at and the idempotency    *)
(* key are left out: no statement reads them.                              *)
(***************************************************************************)
EXTENDS Naturals

CONSTANTS
    Workers,      \* worker ids (hostname-pid of the worker processes)
    NoWorker,     \* lease_owner is null
    MaxAttempts   \* max_attempts of every row (3 by default, 1..10)

ASSUME TaskRowAssumption ==
    /\ NoWorker \notin Workers
    /\ MaxAttempts \in Nat \ {0}

\* "absent" stands for a row that has not been inserted.
TaskState == {"absent", "pending", "ready", "running",
              "succeeded", "blocked", "failed", "cancelled"}

Row == [state   : TaskState,
        attempt : 0..MaxAttempts,
        owner   : Workers \cup {NoWorker},
        expiry  : {"null", "live", "expired"}]

Inserted(s) == [state |-> s, attempt |-> 0, owner |-> NoWorker, expiry |-> "null"]

\* set state = s, lease_owner = null, lease_expires_at = null
Released(row, s) == [row EXCEPT !.state = s, !.owner = NoWorker, !.expiry = "null"]

\* Mutant of Exhausted: abandoned rows are never given up.
NeverExhausted(row) == row.attempt > MaxAttempts

\* The first statement of claim_next_task: an abandoned row without budget.
Exhausted(row) ==
    row.state = "running" /\ row.expiry = "expired" /\ row.attempt >= MaxAttempts

\* Mutant of Claimable: attempts are not counted.
ClaimableBeyondBudget(row) ==
    \/ row.state = "ready" /\ row.expiry # "live"
    \/ row.state = "running" /\ row.expiry = "expired"

\* The candidate rows of claim_next_task.  A null deadline is not "< now()",
\* so a running row without a deadline is no candidate.
Claimable(row) ==
    /\ row.attempt < MaxAttempts
    /\ \/ row.state = "ready" /\ row.expiry # "live"
       \/ row.state = "running" /\ row.expiry = "expired"

\* Mutant of Claimed: the claim sets no deadline.
ClaimedWithoutLease(row, w) ==
    [state |-> "running", attempt |-> row.attempt + 1, owner |-> w, expiry |-> "null"]

Claimed(row, w) ==
    [state |-> "running", attempt |-> row.attempt + 1, owner |-> w, expiry |-> "live"]

\* The where clause of every statement by which a worker settles its task.
Owned(row, w) == row.state = "running" /\ row.owner = w /\ row.expiry = "live"

\* Mutant of AfterFailure: off by one.
AfterFailureOffByOne(row) ==
    Released(row, IF row.attempt <= MaxAttempts THEN "ready" ELSE "failed")

\* retry_task
AfterFailure(row) ==
    Released(row, IF row.attempt < MaxAttempts THEN "ready" ELSE "failed")

\* The upsert with which an approval or a recovery email asks for a task.
Requeued(row) ==
    IF row.state = "absent" THEN Inserted("ready")
    ELSE Released(row, IF row.state \in {"succeeded", "blocked", "failed"}
                       THEN "ready" ELSE row.state)
=============================================================================
