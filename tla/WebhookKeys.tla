------------------------------- MODULE WebhookKeys -------------------------------
(***************************************************************************)
(* The cache of Plaid's webhook verification keys in the API process       *)
(* (PlaidWebhookVerifier._verification_key): a request thread finds the    *)
(* key cached, fetches it, or waits for the thread that fetches it, within *)
(* a budget of fetches per minute.  What is checked before and after, the  *)
(* claims and the signature, involves nobody else and is left out.         *)
(***************************************************************************)
EXTENDS Naturals, Sequences, FiniteSets

CONSTANTS
    Verifiers,  \* request threads
    Keys,
    MaxFetches, \* max_key_fetches_per_minute
    Minute      \* bound: a minute is this many ticks of the clock

ASSUME WebhookKeysAssumption == MaxFetches \in Nat \ {0} /\ Minute \in Nat \ {0}

VARIABLES
    verifier,  \* where a thread is, and for which key
    known,     \* the keys in _key_cache that are valid
    denied,    \* the keys in _negative_key_cache that are
    inflight,  \* _inflight_keys: the keys that are being fetched
    woken,     \* the threads whose event has been set
    fetches,   \* _key_fetches: the ages of the fetches that it remembers
    recent     \* the ages of all fetches of the last minute

keyVars == <<verifier, known, denied, inflight, woken, fetches, recent>>

NoKey == [pc |-> "idle", key |-> "none"]

KeysInit ==
    /\ verifier = [v \in Verifiers |-> NoKey]
    /\ known = {} /\ denied = {} /\ inflight = {} /\ woken = {}
    /\ fetches = <<>> /\ recent = <<>>

Turns(v, pc) == verifier' = [verifier EXCEPT ![v].pc = pc]
Returns(v) == verifier' = [verifier EXCEPT ![v] = NoKey]

\* A webhook with well-formed claims names a key.
Arrive(v, k) ==
    /\ verifier[v].pc = "idle"
    /\ verifier' = [verifier EXCEPT ![v] = [pc |-> "lookup", key |-> k]]
    /\ UNCHANGED <<known, denied, inflight, woken, fetches, recent>>

\* The deque without the fetches at its left end that are a minute old.
Popped(ages, n) == /\ \A i \in 1..n : ages[i] >= Minute
                   /\ n < Len(ages) => ages[n + 1] < Minute
OldFetches(ages) == CHOOSE n \in 0..Len(ages) : Popped(ages, n)
Within(ages) == SubSeq(ages, OldFetches(ages) + 1, Len(ages))

\* The first critical section: the cache knows the answer, ...
Answered(v) ==
    /\ verifier[v].pc = "lookup" /\ verifier[v].key \in known \cup denied
    /\ Returns(v)
    /\ UNCHANGED <<known, denied, inflight, woken, fetches, recent>>

Unanswered(v) == verifier[v].pc = "lookup" /\ verifier[v].key \notin known \cup denied

\* ... somebody fetches the key, ...
Join(v) ==
    /\ Unanswered(v) /\ verifier[v].key \in inflight
    /\ fetches' = Within(fetches)
    /\ Turns(v, "wait")
    /\ UNCHANGED <<known, denied, inflight, woken, recent>>

\* ... the budget is spent, ...
RateLimited(v) ==
    /\ Unanswered(v) /\ verifier[v].key \notin inflight
    /\ fetches' = Within(fetches)
    /\ Len(fetches') >= MaxFetches
    /\ Returns(v)
    /\ UNCHANGED <<known, denied, inflight, woken, recent>>

\* Mutant of StartFetch: the budget allows one fetch too many.
StartFetchBeyond(v) ==
    /\ Unanswered(v) /\ verifier[v].key \notin inflight
    /\ Len(Within(fetches)) <= MaxFetches
    /\ fetches' = Append(Within(fetches), 0)
    /\ recent' = Append(recent, 0)
    /\ inflight' = inflight \cup {verifier[v].key}
    /\ Turns(v, "fetch")
    /\ UNCHANGED <<known, denied, woken>>

\* ... or this thread fetches it.
StartFetch(v) ==
    /\ Unanswered(v) /\ verifier[v].key \notin inflight
    /\ Len(Within(fetches)) < MaxFetches
    /\ fetches' = Append(Within(fetches), 0)
    /\ recent' = Append(recent, 0)
    /\ inflight' = inflight \cup {verifier[v].key}
    /\ Turns(v, "fetch")
    /\ UNCHANGED <<known, denied, woken>>

\* Plaid knows the key, does not know it, or cannot say.
Fetch(v) ==
    LET k == verifier[v].key
    IN  /\ verifier[v].pc = "fetch"
        /\ \/ known' = known \cup {k} /\ UNCHANGED denied
           \/ denied' = denied \cup {k} /\ UNCHANGED known
           \/ UNCHANGED <<known, denied>>
        /\ Turns(v, "land")
        /\ UNCHANGED <<inflight, woken, fetches, recent>>

\* finally: the entry goes, and every thread that waits for it wakes.
Land(v) ==
    LET k == verifier[v].key
    IN  /\ verifier[v].pc = "land"
        /\ inflight' = inflight \ {k}
        /\ woken' = woken \cup {u \in Verifiers : verifier[u] = [pc |-> "wait", key |-> k]}
        /\ Returns(v)
        /\ UNCHANGED <<known, denied, fetches, recent>>

\* A thread that wakes looks again; after fifteen seconds it gives up.
LookAgain(v) ==
    /\ v \in woken /\ woken' = woken \ {v}
    /\ Turns(v, "lookup")
    /\ UNCHANGED <<known, denied, inflight, fetches, recent>>

GiveUp(v) ==
    /\ verifier[v].pc = "wait" /\ v \notin woken
    /\ Returns(v)
    /\ UNCHANGED <<known, denied, inflight, woken, fetches, recent>>

Expire(k) ==
    /\ k \in known \cup denied
    /\ known' = known \ {k} /\ denied' = denied \ {k}
    /\ UNCHANGED <<verifier, inflight, woken, fetches, recent>>

Older(ages) == [i \in DOMAIN ages |-> IF ages[i] < Minute THEN ages[i] + 1 ELSE Minute]

Tick ==
    /\ fetches' = Older(fetches)
    /\ recent' = Within(Older(recent))
    /\ UNCHANGED <<verifier, known, denied, inflight, woken>>

KeysNext ==
    \/ \E v \in Verifiers :
          \/ \E k \in Keys : Arrive(v, k)
          \/ Answered(v) \/ Join(v) \/ RateLimited(v) \/ StartFetch(v)
          \/ Fetch(v) \/ Land(v) \/ LookAgain(v) \/ GiveUp(v)
    \/ \E k \in Keys : Expire(k)
    \/ Tick

KeysSpec == KeysInit /\ [][KeysNext]_keyVars

-----------------------------------------------------------------------------
Ages == UNION {[1..n -> 0..Minute] : n \in 0..MaxFetches}

KeysTypeOK ==
    /\ verifier \in [Verifiers -> [pc : {"idle", "lookup", "wait", "fetch", "land"},
                                   key : Keys \cup {"none"}]]
    /\ known \subseteq Keys /\ denied \subseteq Keys /\ inflight \subseteq Keys
    /\ woken \subseteq {v \in Verifiers : verifier[v].pc = "wait"}
    /\ fetches \in Ages /\ recent \in Ages

FetchersOf(k) == {v \in Verifiers : verifier[v].key = k /\ verifier[v].pc \in {"fetch", "land"}}

\* Threads that need one key share one fetch: a key is marked as in flight while
\* exactly one thread fetches it, so that a thread that waits is woken.  And no
\* minute sees more fetches than the budget allows, whatever the deque, which is
\* pruned now and then, has forgotten.
FetchesShared ==
    /\ \A k \in Keys : Cardinality(FetchersOf(k)) = IF k \in inflight THEN 1 ELSE 0
    /\ \A v \in Verifiers : verifier[v].pc = "wait" /\ v \notin woken => verifier[v].key \in inflight
    /\ Len(recent) <= MaxFetches
=============================================================================
