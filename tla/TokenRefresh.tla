------------------------------ MODULE TokenRefresh ------------------------------
(***************************************************************************)
(* The rotation of one Xero refresh token (XeroOAuthClient.refresh) over   *)
(* the Vault secret store and its advisory lock, in threads that share the *)
(* pool of their process.  Xero accepts a refresh token once and answers   *)
(* with the next one; the tokens of a credential are numbered in order.    *)
(*                                                                         *)
(* Threads also run ordinary transactions (the heartbeat, other requests), *)
(* which compete for the pool.  Access tokens are left out: a thread whose *)
(* cached one is fresh takes no step, and one that finds it stale starts a *)
(* refresh, so a refresh may start at any time.                            *)
(***************************************************************************)
EXTENDS ConnectionPool

CONSTANT MaxToken  \* bound: the tokens of the credential are 1..MaxToken

ASSUME TokenRefreshAssumption == MaxToken \in Nat \ {0}

VARIABLES
    pc,       \* where a thread is inside refresh
    token,    \* the token a thread has read, or has received
    locked,   \* the threads whose session holds the advisory lock
    vault,    \* the stored token, 0 when the secret does not exist
    current,  \* the only token Xero accepts
    hazards   \* what has gone wrong so far that the code cannot undo

refreshVars == <<pc, token, locked, vault, current, hazards>>
tokenVars == <<deployment, poolVars, refreshVars>>

RefreshPC == {"idle", "query", "lock", "read", "exchange", "store", "unlock"}

Hazard == {"session lost",   \* the session of a held lock broke
           "token lost",     \* a received token was never stored
           "starved",        \* ... because the pool had no connection for it
           "refused",        \* Xero refused a token that was already spent
           "removed"}        \* the secret was deleted

TokenInit ==
    /\ PoolInit
    /\ pc = [t \in Threads |-> "idle"]
    /\ token = [t \in Threads |-> 0]
    /\ locked = {}
    /\ vault = 1
    /\ current = 1
    /\ hazards = {}

\* How many connections a thread holds when its current step can run.
Need(t) == CASE pc[t] \in {"query", "lock"} -> 1
             [] pc[t] \in {"read", "store"} -> 2
             [] OTHER -> 0

Wants(t)   == Len(borrowed[t]) < Need(t)
Equipped(t) == Len(borrowed[t]) >= Need(t)

Goto(t, l) == pc' = [pc EXCEPT ![t] = l]

-----------------------------------------------------------------------------
(* Borrowing *)

Borrow(t) ==
    /\ Wants(t)
    /\ TakeIdle(t) \/ StartOpening(t) \/ OpenSucceeds(t)
    /\ UNCHANGED refreshVars

Wait(t)      == Wants(t) /\ t \notin waiting /\ StartWaiting(t) /\ UNCHANGED refreshVars
WaitAgain(t) == Wants(t) /\ t \in notified /\ StartWaiting(t) /\ UNCHANGED refreshVars

\* acquire raises.  A refresh that has received a token loses it here.
BorrowFails(t) ==
    /\ Wants(t)
    /\ Exhausted(t) \/ OpenFails(t)
    /\ Goto(t, IF pc[t] \in {"read", "store"} THEN "unlock" ELSE "idle")
    /\ hazards' = hazards \cup
         (IF pc[t] # "store" THEN {}
          ELSE {"token lost"} \cup (IF t \in waiting THEN {"starved"} ELSE {}))
    /\ token' = [token EXCEPT ![t] = 0]
    /\ UNCHANGED <<locked, vault, current>>

-----------------------------------------------------------------------------
(* An ordinary transaction *)

StartQuery(t) ==
    /\ pc[t] = "idle" /\ Goto(t, "query")
    /\ UNCHANGED <<poolVars, token, locked, vault, current, hazards>>

EndQuery(t) ==
    /\ pc[t] = "query" /\ Equipped(t)
    /\ Release(t) /\ Goto(t, "idle")
    /\ UNCHANGED <<token, locked, vault, current, hazards>>

-----------------------------------------------------------------------------
(* refresh *)

StartRefresh(t) ==
    /\ pc[t] = "idle" /\ Goto(t, "lock")
    /\ UNCHANGED <<poolVars, token, locked, vault, current, hazards>>

\* Mutant of TakeLock: exclusive_lock does not wait for another session.
TakeLockUnchecked(t) ==
    /\ pc[t] = "lock" /\ Equipped(t)
    /\ borrowed[t][1] = "up"
    /\ locked' = locked \cup {t}
    /\ Goto(t, "read")
    /\ UNCHANGED <<poolVars, token, vault, current, hazards>>

\* pg_advisory_lock on a session of its own, which is held until unlock.
TakeLock(t) ==
    /\ pc[t] = "lock" /\ Equipped(t)
    /\ borrowed[t][1] = "up"
    /\ locked = {}
    /\ locked' = {t}
    /\ Goto(t, "read")
    /\ UNCHANGED <<poolVars, token, vault, current, hazards>>

\* The session breaks while it waits for the lock.
LockFails(t) ==
    /\ pc[t] = "lock" /\ Equipped(t)
    /\ borrowed[t][1] = "down"
    /\ Release(t) /\ Goto(t, "idle")
    /\ UNCHANGED <<token, locked, vault, current, hazards>>

\* resolve, after the lock is held.
ReadToken(t) ==
    /\ pc[t] = "read" /\ Equipped(t)
    /\ IF Top(borrowed[t]) = "up" /\ vault # 0
       THEN token' = [token EXCEPT ![t] = vault] /\ Goto(t, "exchange")
       ELSE UNCHANGED token /\ Goto(t, "unlock")
    /\ Release(t)
    /\ UNCHANGED <<locked, vault, current, hazards>>

\* Xero rotates the token; the answer arrives or is lost.
Exchange(t) ==
    /\ pc[t] = "exchange" /\ token[t] = current /\ current < MaxToken
    /\ current' = current + 1
    /\ \/ /\ token' = [token EXCEPT ![t] = current + 1]
          /\ Goto(t, "store") /\ UNCHANGED hazards
       \/ /\ token' = [token EXCEPT ![t] = 0]
          /\ Goto(t, "unlock") /\ hazards' = hazards \cup {"token lost"}
    /\ UNCHANGED <<poolVars, locked, vault>>

\* Xero refuses a spent token.
ExchangeRefused(t) ==
    /\ pc[t] = "exchange" /\ token[t] # current
    /\ token' = [token EXCEPT ![t] = 0]
    /\ hazards' = hazards \cup {"refused"}
    /\ Goto(t, "unlock")
    /\ UNCHANGED <<poolVars, locked, vault, current>>

\* Mutant of ExchangeFails: the old token is written back.
ExchangeFailsStoring(t) ==
    /\ pc[t] = "exchange"
    /\ Goto(t, "store")
    /\ UNCHANGED <<poolVars, token, locked, vault, current, hazards>>

\* The request never reaches Xero.
ExchangeFails(t) ==
    /\ pc[t] = "exchange"
    /\ token' = [token EXCEPT ![t] = 0]
    /\ Goto(t, "unlock")
    /\ UNCHANGED <<poolVars, locked, vault, current, hazards>>

\* store creates the secret when it does not exist.  A connection that breaks
\* leaves open whether the transaction was committed.
StoreToken(t) ==
    /\ pc[t] = "store" /\ Equipped(t)
    /\ \/ vault' = token[t] /\ UNCHANGED hazards
       \/ /\ Top(borrowed[t]) = "down"
          /\ hazards' = hazards \cup {"token lost"} /\ UNCHANGED vault
    /\ token' = [token EXCEPT ![t] = 0]
    /\ Release(t) /\ Goto(t, "unlock")
    /\ UNCHANGED <<locked, current>>

\* Mutant of Unlock: the session goes back to the pool with its lock.
UnlockForgotten(t) ==
    /\ pc[t] = "unlock"
    /\ Release(t) /\ Goto(t, "idle")
    /\ UNCHANGED <<token, locked, vault, current, hazards>>

\* The unlock is a statement on the session; a broken session has lost the lock.
Unlock(t) ==
    /\ pc[t] = "unlock"
    /\ locked' = locked \ {t}
    /\ Release(t) /\ Goto(t, "idle")
    /\ UNCHANGED <<token, vault, current, hazards>>

-----------------------------------------------------------------------------
(* The environment *)

\* A connection that is borrowed breaks.  The lock goes with its session.
SessionBreaks(t, i) ==
    /\ borrowed[t] # <<>> /\ BorrowedBreaks(t, i)
    /\ IF i = 1 /\ t \in locked
       THEN locked' = locked \ {t} /\ hazards' = hazards \cup {"session lost"}
       ELSE UNCHANGED <<locked, hazards>>
    /\ UNCHANGED <<pc, token, vault, current>>

IdleConnectionBreaks(p, i) == IdleBreaks(p, i) /\ UNCHANGED refreshVars

Crash(p) ==
    LET own == {t \in Threads : home[t] = p}
    IN  /\ ProcessDies(p)
        /\ pc' = [t \in Threads |-> IF t \in own THEN "idle" ELSE pc[t]]
        /\ token' = [t \in Threads |-> IF t \in own THEN 0 ELSE token[t]]
        /\ locked' = locked \ own
        /\ hazards' = hazards \cup
             (IF \E t \in own : pc[t] = "store" THEN {"token lost"} ELSE {})
        /\ UNCHANGED <<vault, current>>

\* The disconnect endpoint of the API deletes the secret; it takes no lock.
DeleteSecret ==
    /\ vault # 0 /\ "removed" \notin hazards
    /\ vault' = 0
    /\ hazards' = hazards \cup {"removed"}
    /\ UNCHANGED <<poolVars, pc, token, locked, current>>

-----------------------------------------------------------------------------
Step(t) ==
    \/ Borrow(t) \/ Wait(t) \/ BorrowFails(t)
    \/ EndQuery(t)
    \/ TakeLock(t) \/ LockFails(t)
    \/ ReadToken(t)
    \/ Exchange(t) \/ ExchangeRefused(t) \/ ExchangeFails(t)
    \/ StoreToken(t)
    \/ Unlock(t)

Environment ==
    \/ \E t \in Threads : \E i \in 1..2 : SessionBreaks(t, i)
    \/ \E p \in Processes : \E i \in 1..MaxSize : IdleConnectionBreaks(p, i)
    \/ \E p \in Processes : Crash(p)
    \/ DeleteSecret

TokenNext ==
    /\ \/ \E t \in Threads : StartQuery(t) \/ StartRefresh(t) \/ WaitAgain(t) \/ Step(t)
       \/ Environment
    /\ UNCHANGED deployment

TokenSpec == TokenInit /\ [][TokenNext]_tokenVars

\* A thread runs on: statements, requests to Xero and waits for a connection
\* have time limits.  PostgreSQL grants an advisory lock in order of arrival.
TokenFairness ==
    \A t \in Threads : /\ WF_tokenVars(Step(t) /\ UNCHANGED deployment)
                       /\ SF_tokenVars(TakeLock(t) /\ UNCHANGED deployment)

-----------------------------------------------------------------------------
TokenTypeOK ==
    /\ PoolTypeOK
    /\ pc \in [Threads -> RefreshPC]
    /\ token \in [Threads -> 0..MaxToken]
    /\ locked \subseteq Threads
    /\ vault \in 0..MaxToken
    /\ current \in 1..MaxToken
    /\ hazards \subseteq Hazard

=============================================================================
