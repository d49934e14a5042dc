--------------------------- MODULE RotatingCredential ---------------------------
(***************************************************************************)
(* What the stored credential of one Xero connection is to its users: a    *)
(* chain of single-use tokens that is rotated one step at a time.  Once    *)
(* the end of the chain is lost nothing is ever accepted again, and the    *)
(* controller has to authorize the connection anew.                        *)
(***************************************************************************)
EXTENDS Naturals

VARIABLES
    credential,  \* "usable", "withdrawn" (the secret is deleted while a
                 \* refresh still has the token in hand), or "lost"
    generation   \* how often Xero has rotated it

CredentialInit == credential = "usable" /\ generation = 1

Rotate ==
    /\ credential = "usable" /\ UNCHANGED credential
    /\ generation' = generation + 1

Withdraw ==
    /\ credential = "usable" /\ credential' = "withdrawn"
    /\ UNCHANGED generation

\* The refresh that was in hand succeeds and stores the token again.
Restore ==
    /\ credential = "withdrawn" /\ credential' = "usable"
    /\ generation' = generation + 1

Lose ==
    /\ credential # "lost" /\ credential' = "lost"
    /\ generation' \in {generation, generation + 1}

CredentialNext == Rotate \/ Withdraw \/ Restore \/ Lose

CredentialSpec == CredentialInit /\ [][CredentialNext]_<<credential, generation>>
=============================================================================
