----------------------------- MODULE ApprovedDrafts -----------------------------
(***************************************************************************)
(* What a close promises the controller: one set of journals is fixed for  *)
(* review, it is approved as a whole and once, and only then do drafts of  *)
(* its journals appear in Xero, and of no others.                          *)
(***************************************************************************)
EXTENDS Naturals

VARIABLES
    fixed,     \* there is a package
    content,   \* the journals in it
    approved,  \* the controller has approved it
    created    \* the journals that Xero has a draft of

draftVars == <<fixed, content, approved, created>>

DraftsInit == ~fixed /\ content = {} /\ ~approved /\ created = {}

\* The journals are chosen freely; content' is what they are from now on.
Fix ==
    /\ ~fixed /\ fixed'
    /\ UNCHANGED <<approved, created>>

Approve ==
    /\ fixed /\ ~approved /\ approved'
    /\ UNCHANGED <<fixed, content, created>>

Create ==
    /\ approved
    /\ \E journal \in content \ created : created' = created \cup {journal}
    /\ UNCHANGED <<fixed, content, approved>>

DraftsNext == Fix \/ Approve \/ Create

DraftsSpec == DraftsInit /\ [][DraftsNext]_draftVars
=============================================================================
