-------------------------------- MODULE MCClose --------------------------------
(***************************************************************************)
(* Instances of CloseProperties for TLC.                                   *)
(***************************************************************************)
EXTENDS CloseProperties, TLC

WorkerSymmetry == Permutations(Workers)

\* The state in which the controller's approval leaves a run whose four default
\* tasks each took one attempt: runs about the actions start here.
OnceSucceeded == [Claimed(Inserted("ready"), NoWorker) EXCEPT !.state = "succeeded", !.expiry = "null"]

ApprovedInit ==
    /\ runState = IF Proposals = {} THEN "approved" ELSE "applying_approved_actions"
    /\ tasks = [k \in TaskKeys |->
                  CASE k \in DefaultTasks -> OnceSucceeded
                    [] k = "apply_approved_actions" /\ Proposals # {} -> Inserted("ready")
                    [] OTHER -> Inserted("absent")]
    /\ snapshot = TRUE
    /\ checklist = "ready"
    /\ report = "passed"
    /\ exceptions = [e \in Exceptions |-> "open"]
    /\ artifact = TRUE
    /\ package = [status |-> "finalized", content |-> Proposals]
    /\ decisions = {"approved"}
    /\ proposals = [p \in Proposals |-> "approved"]
    /\ drafts = [p \in Proposals |-> "none"]
    /\ manifests = {}
    /\ emails = [e \in Exceptions |-> "none"]
    /\ WorkerInit
    /\ retries = 0

ApprovedSpec == ApprovedInit /\ [][Next]_allVars

FairApprovedSpec == ApprovedSpec /\ Fairness
=============================================================================
