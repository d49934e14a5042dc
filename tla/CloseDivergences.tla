--------------------------- MODULE CloseDivergences ---------------------------
(***************************************************************************)
(* What the documents, comments and messages of the repository say of a    *)
(* close run and the code does not keep.  Each formula is checked by a run *)
(* that is expected to violate it; see README.md for the counterexamples.  *)
(* More divergences are properties of CloseProperties, which hold for      *)
(* smaller instances and fail for larger ones.                             *)
(***************************************************************************)
EXTENDS MCClose

\* durable_worker.py on the reconcile executor: create_review_package is
\* idempotent, "which protects retry safety".  A retried reconciliation must
\* then find the run in a state that create_review_package accepts.
RetryReachesReview ==
    \A w \in Workers : worker[w].pc = "freeze" => runState # "synchronizing"

\* docs/TDD.md: after a crash between send and persistence, search the Sent
\* mailbox for the marker.  So the task never succeeds over an open send.
StartedEmailsLookedUp ==
    Succeeded("send_recovery_request") => \A e \in Exceptions : emails[e] # "started"
=============================================================================
