---------------------------- MODULE TokenProperties ----------------------------
(***************************************************************************)
(* What the connection pool and the token refresh promise.                 *)
(***************************************************************************)
EXTENDS TokenRefresh

ThreadsOf(p) == {t \in Threads : home[t] = p}

\* The connections that the threads of a process hold: the i-th one of each.
Held(p) == UNION {{t} \X DOMAIN borrowed[t] : t \in ThreadsOf(p)}

\* The count that the pool keeps by hand is the number of connections that
\* exist: idle ones, borrowed ones and reserved slots, through failed opens,
\* discarded connections and crashes.  A lost decrement would shrink the pool
\* for good, a lost increment would open more than pool_max_size.
PoolAccounted ==
    \A p \in Processes :
        created[p] = Len(idle[p]) + Cardinality(opening \cap ThreadsOf(p)) + Cardinality(Held(p))

\* No thread sleeps while the pool could serve it: every idle connection or free
\* slot has a woken thread that will look for it (acquire discards and reserves
\* without a notify, release and a failed open notify one thread only).
NoSleepingWaiter ==
    \A p \in Processes :
        (waiting \ notified) \cap ThreadsOf(p) # {} =>
            Len(idle[p]) + size - created[p] <= Cardinality(notified \cap ThreadsOf(p))

Accepted == vault = current \/ \E t \in Threads : pc[t] = "store"

InHand == \E t \in Threads : pc[t] = "exchange" /\ token[t] = current

\* Nothing goes wrong with a rotation without its cause: a credential becomes
\* unusable only when an answer or a store failed after Xero had rotated it, or
\* when it was deleted; Xero refuses a token only after that or after the session
\* of a held lock broke; and when the pool is larger than the number of threads
\* it always has a connection for the store, although every waiter for the lock
\* holds one, unless a session of the lock was lost.
RotationsExplained ==
    /\ ~Accepted => {"token lost", "removed"} \cap hazards # {}
    /\ "refused" \in hazards => {"token lost", "session lost"} \cap hazards # {}
    /\ "starved" \in hazards =>
         "session lost" \in hazards \/ \E p \in Processes : size <= Cardinality(ThreadsOf(p))

\* The stored token, the lock and the threads together implement one chain of
\* tokens: no interleaving, lost session or crash forks it or revives it.
Credential == INSTANCE RotatingCredential WITH
    credential <- IF Accepted THEN "usable" ELSE IF vault = 0 /\ InHand THEN "withdrawn" ELSE "lost",
    generation <- current

ChainSpec == Credential!CredentialSpec

\* Under TokenFairness every refresh comes to an end: holders and waiters of the
\* lock, which compete for the pool, never wait for each other forever.
RefreshEnds == \A t \in Threads : pc[t] = "lock" ~> pc[t] = "idle"
=============================================================================
