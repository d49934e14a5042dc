------------------------------- MODULE PlaidProofs -------------------------------
(***************************************************************************)
(* Proofs about the cache of a Plaid Item.  The heart is StagedIsView: a   *)
(* page that is applied to what Plaid held at one cursor gives what Plaid  *)
(* held at the next.  The rest carries that fact through workers that      *)
(* overlap, crash and lose their leases, and bounds what their retries     *)
(* spend.  The last part is about the verifier's cache of keys: the stamps *)
(* that it drops from its deque are those that no budget counts any more.  *)
(***************************************************************************)
EXTENDS PlaidSync, WebhookKeys, FiniteSetTheorems, SequenceTheorems, WellFoundedInduction, TLAPS

-----------------------------------------------------------------------------
(* Pages *)

LEMMA ViewBounds == ASSUME NEW n \in Nat PROVE View(n) \subseteq 1..n
  BY DEF View

\* A page applied to the view at its cursor is the view at its end.
LEMMA StagedIsView ==
    ASSUME NEW c \in Nat, NEW n \in Nat, c <= n
    PROVE  Staged(View(c), c, n) = View(n)
<1>1. ASSUME NEW i \in Staged(View(c), c, n) PROVE i \in View(n)
  <2>1. CASE i \in Upserts(c, n)
    BY <2>1 DEF Upserts
  <2>2. CASE i \notin Upserts(c, n)
    <3>1. /\ i \in View(c)
          /\ \A k \in Upserts(c, n) : ~About(i, k)
          /\ \A k \in Removals(c, n) : ~About(i, k)
      BY <1>1, <2>2 DEF Staged
    <3>2. PICK k \in View(n) : About(i, k)
      BY <3>1 DEF Removals, About
    <3>3. k \in 1..c
      BY <3>1, <3>2 DEF Upserts
    <3>4. k = i
      BY <3>1, <3>2, <3>3 DEF View, About
    <3> QED
      BY <3>2, <3>4
  <2> QED
    BY <2>1, <2>2
<1>2. ASSUME NEW i \in View(n) PROVE i \in Staged(View(c), c, n)
  <2>1. \A k \in Removals(c, n) : ~About(i, k)
    BY <1>2 DEF Removals, About
  <2>2. CASE i \in 1..c
    <3>1. i \in View(c)
      BY <1>2, <2>2 DEF View
    <3>2. \A k \in Upserts(c, n) : ~About(i, k)
      BY <1>2, <2>2 DEF Upserts, View
    <3> QED
      BY <2>1, <3>1, <3>2 DEF Staged
  <2>3. CASE i \notin 1..c
    BY <1>2, <2>1, <2>3 DEF Staged, Upserts
  <2> QED
    BY <2>2, <2>3
<1> QED
  BY <1>1, <1>2

-----------------------------------------------------------------------------
(* The invariant *)

\* Only a running row has a lease.
Rows == {row \in [state : {"none", "ready", "running"} \cup Final, attempt : Nat,
                  owner : Workers \cup {Nobody}, live : BOOLEAN] :
            row.live => row.state = "running"}

Hands == [pc : {"idle", "look", "read", "persist", "finish"}, job : {0} \cup Changes,
          allowed : SUBSET Accounts, cursor : Nat, staged : SUBSET Nat, refused : BOOLEAN]

SyncTypes ==
    /\ log \in Nat /\ healthy \subseteq Accounts /\ receipts \subseteq 1..log
    /\ request \in [Changes -> Rows]
    /\ stored.cursor \in 0..log /\ snapshot.cursor \in 0..log
    /\ worker \in [Workers -> Hands]
    /\ overwritten \in BOOLEAN

\* The cache has been at change n.
Reached(n) == stored.cursor >= n \/ overwritten

Reading(r) == r.pc \in {"read", "persist"}

\* What a worker has in hand is a view of Plaid, of the accounts that it may
\* read, and recent enough for the request that it will call succeeded.
Sound(r) ==
    /\ r.cursor <= log
    /\ r.job # 0 => r.job \in receipts
    /\ Reading(r) => r.staged = View(r.cursor)
    /\ Reading(r) /\ r.job = 0 => r.allowed = Selected
    /\ r.pc = "persist" => r.job <= r.cursor
    /\ r.pc = "persist" /\ r.job = 0 => {feed[i].account : i \in r.staged} \subseteq Selected
    /\ r.pc = "finish" => r.job # 0
    /\ r.pc = "finish" /\ ~r.refused => Reached(r.job)

RequestsReceived == \A n \in Changes : request[n].state # "none" => n \in receipts

SyncInv ==
    /\ SyncTypes
    /\ \A w \in Workers : Sound(worker[w])
    /\ RequestsReceived
    /\ CacheAtCursor
    /\ SucceededMeansSynced

LEMMA SyncStart == PlaidInit => SyncInv
<1> SUFFICES ASSUME PlaidInit PROVE SyncInv
  OBVIOUS
<1>0. Length \in Nat /\ healthy \subseteq Accounts
  <2>1. feed \in Seq([transaction : STRING, account : Accounts, removed : BOOLEAN]) /\ Len(feed) = Length
    BY PlaidSyncAssumption DEF PlaidInit
  <2>2. \A i \in Changes : feed[i] \in [transaction : STRING, account : Accounts, removed : BOOLEAN]
    BY <2>1, ElementOfSeq DEF Changes
  <2> QED
    BY <2>2, PlaidSyncAssumption DEF PlaidInit
<1>1. SyncTypes
  <2>1. request \in [Changes -> Rows]
    BY DEF PlaidInit, NoRequest, Rows
  <2>2. worker \in [Workers -> Hands]
    BY DEF PlaidInit, Rest, Hands
  <2>3. stored.cursor = 0 /\ snapshot.cursor = 0
    BY DEF PlaidInit
  <2>4. log = 0 /\ receipts = {} /\ overwritten = FALSE
    BY DEF PlaidInit
  <2>5. log \in Nat /\ receipts \subseteq 1..log /\ stored.cursor \in 0..log /\ snapshot.cursor \in 0..log
    BY <2>3, <2>4
  <2> QED
    BY <1>0, <2>1, <2>2, <2>4, <2>5, Zenon DEF SyncTypes
<1>2. \A w \in Workers : Sound(worker[w])
  BY DEF PlaidInit, Sound, Rest, Reading
<1>3. View(0) = {}
  BY DEF View
<1>4. CacheAtCursor
  BY <1>3 DEF PlaidInit, CacheAtCursor
<1>5. RequestsReceived /\ SucceededMeansSynced
  BY DEF PlaidInit, RequestsReceived, SucceededMeansSynced, NoRequest
<1> QED
  BY <1>1, <1>2, <1>4, <1>5 DEF SyncInv

-----------------------------------------------------------------------------
(* Steps of the environment *)

LEMMA OutsideStep ==
    ASSUME SyncInv, UNCHANGED feed,
           \/ Change
           \/ \E n \in Changes : Receive(n) \/ LeaseExpires(n)
           \/ \E a \in Accounts : Disconnected(a)
    PROVE  SyncInv'
<1> USE DEF requestVars
<1>0. SyncTypes
  BY DEF SyncInv
<1>1. UNCHANGED <<stored, snapshot, worker, overwritten>> /\ log' \in Nat /\ log <= log' /\ receipts \subseteq receipts'
  BY <1>0 DEF Change, Receive, LeaseExpires, Disconnected, SyncTypes
<1>2. receipts' \subseteq 1..log' /\ healthy' \subseteq Accounts
  BY <1>0, <1>1 DEF Change, Receive, LeaseExpires, Disconnected, SyncTypes, Changes
<1>3. request' \in [Changes -> Rows]
  <2>1. UNCHANGED request => request' \in [Changes -> Rows]
    BY <1>0 DEF SyncTypes
  <2>2. ASSUME NEW n \in Changes, n \notin receipts, request' = [request EXCEPT ![n].state = "ready"]
        PROVE  request' \in [Changes -> Rows]
    <3>1. request[n].state = "none"
      BY <2>2 DEF SyncInv, RequestsReceived
    <3> QED
      BY <1>0, <2>2, <3>1 DEF SyncTypes, Rows
  <2>3. ASSUME NEW n \in Changes, request' = [request EXCEPT ![n].live = FALSE]
        PROVE  request' \in [Changes -> Rows]
    BY <1>0, <2>3 DEF SyncTypes, Rows
  <2> QED
    BY <2>1, <2>2, <2>3 DEF Change, Receive, LeaseExpires, Disconnected
<1>4. \A n \in Changes : /\ request'[n].state = "succeeded" => request[n].state = "succeeded"
                         /\ request'[n].state # "none" => request[n].state # "none" \/ n \in receipts'
  BY <1>0 DEF Change, Receive, LeaseExpires, Disconnected, SyncTypes, Rows
<1>5. SyncTypes'
  BY <1>0, <1>1, <1>2, <1>3 DEF SyncTypes
<1>6. ASSUME NEW w \in Workers PROVE Sound(worker[w])'
  <2>1. Sound(worker[w]) /\ worker[w] \in Hands
    BY DEF SyncInv, SyncTypes
  <2>2. \A n \in Nat : View(n)' = View(n)
    BY DEF View, About
  <2>3. worker[w].cursor <= log'
    BY <1>0, <1>1, <2>1 DEF Sound, Hands, SyncTypes
  <2> QED
    BY <1>1, <2>1, <2>2, <2>3 DEF Sound, Reading, Reached, Hands
<1>7. RequestsReceived'
  BY <1>1, <1>4 DEF SyncInv, RequestsReceived
<1>8. CacheAtCursor' /\ SucceededMeansSynced'
  BY <1>1, <1>4 DEF SyncInv, CacheAtCursor, SucceededMeansSynced, View, About
<1> QED
  BY <1>5, <1>6, <1>7, <1>8 DEF SyncInv

-----------------------------------------------------------------------------
(* Steps of the workers *)

\* What a step of worker w must establish, and leaves alone.
HandStep(w) ==
    /\ worker'[w] \in Hands /\ worker' = [worker EXCEPT ![w] = worker'[w]]
    /\ Sound(worker[w])'

\* Reading concerns the worker alone.
LEMMA ReadingStep ==
    ASSUME SyncInv, UNCHANGED feed, NEW w \in Workers,
           LookUp(w) \/ (\E n \in 0..log : ReadPage(w, n)) \/ SyncBlocked(w) \/ Crash(w)
    PROVE  HandStep(w) /\ UNCHANGED <<log, healthy, requestVars, stored, snapshot, overwritten>>
<1> DEFINE hand == worker[w]
<1>0. /\ SyncTypes /\ hand \in Hands /\ Sound(hand) /\ Selected \subseteq Accounts
      /\ \A n \in Nat : View(n)' = View(n)
  BY PlaidSyncAssumption DEF SyncInv, SyncTypes, View, About
<1>1. UNCHANGED <<log, healthy, requestVars, stored, snapshot, overwritten>>
  BY DEF LookUp, ReadPage, SyncBlocked, Crash, Reads
<1>2. ASSUME NEW new \in Hands, worker' = [worker EXCEPT ![w] = new],
             Sound(new)
      PROVE  HandStep(w)
  <2>1. worker'[w] = new
    BY <1>0, <1>2 DEF SyncTypes
  <2>2. new.cursor \in Nat
    BY DEF Hands
  <2>3. Sound(worker[w])'
    BY <1>0, <1>1, <1>2, <2>1, <2>2 DEF Sound, Reading, Reached, requestVars
  <2> QED
    BY <1>2, <2>1, <2>3 DEF HandStep
<1>3. Rest \in Hands /\ Sound(Rest)
  BY <1>0 DEF Rest, Hands, Sound, Reading, SyncTypes
<1>4. Ending(hand, TRUE) \in Hands /\ Sound(Ending(hand, TRUE))
  BY <1>0, <1>3 DEF Ending, Rest, Hands, Sound, Reading, SyncTypes
<1>5. CASE Crash(w)
  BY <1>2, <1>3, <1>5 DEF Crash
<1>6. CASE SyncBlocked(w)
  BY <1>2, <1>4, <1>6 DEF SyncBlocked, Reads
<1>7. CASE LookUp(w)
  <2> DEFINE needed == IF hand.job = 0 THEN Selected ELSE healthy
             next == [hand EXCEPT !.pc = "read", !.allowed = needed,
                                  !.cursor = stored.cursor, !.staged = stored.records]
  <2>1. stored.records = View(stored.cursor) /\ stored.cursor \in 0..log /\ log \in Nat
    BY <1>0 DEF SyncInv, CacheAtCursor, SyncTypes
  <2>2. stored.records \in SUBSET Nat
    BY <2>1, ViewBounds
  <2>3. needed \in SUBSET Accounts /\ stored.cursor \in Nat /\ stored.cursor <= log
    BY <1>0, <2>1 DEF SyncTypes
  <2>4. \/ worker' = [worker EXCEPT ![w] = next]
        \/ worker' = [worker EXCEPT ![w] = Ending(hand, TRUE)]
    BY <1>7 DEF LookUp, Reads
  <2>5. hand.job = 0 => needed = Selected
    OBVIOUS
  <2> HIDE DEF needed
  <2>6. next \in Hands
    BY <1>0, <2>2, <2>3 DEF Hands
  <2>7. Sound(next)
    BY <1>0, <2>1, <2>3, <2>5 DEF Hands, Sound, Reading
  <2> HIDE DEF next
  <2>8. CASE worker' = [worker EXCEPT ![w] = next]
    BY <1>1, <1>2, <2>6, <2>7, <2>8
  <2>9. CASE worker' = [worker EXCEPT ![w] = Ending(hand, TRUE)]
    BY <1>1, <1>2, <1>4, <2>9
  <2> QED
    BY <2>4, <2>8, <2>9
<1>8. ASSUME NEW n \in 0..log, ReadPage(w, n) PROVE HandStep(w)
  <2> DEFINE staged == Staged(hand.staged, hand.cursor, n)
             more == [hand EXCEPT !.cursor = n, !.staged = staged]
             last == [hand EXCEPT !.pc = "persist", !.cursor = n, !.staged = staged]
             inBatch == staged \cup Removals(hand.cursor, n)
  <2>0. hand.pc = "read" /\ n \in hand.cursor .. log
    BY <1>8 DEF ReadPage
  <2>1. /\ hand.cursor \in Nat /\ n \in Nat /\ log \in Nat /\ hand.cursor <= n /\ n <= log
        /\ hand.staged = View(hand.cursor)
    BY <1>0, <2>0 DEF Hands, SyncTypes, Sound, Reading
  <2>2. staged = View(n)
    BY <2>1, StagedIsView
  <2>3. staged \in SUBSET Nat
    BY <2>1, <2>2, ViewBounds
  <2> HIDE DEF staged
  <2>4. more \in Hands /\ last \in Hands
    BY <1>0, <2>1, <2>3 DEF Hands
  <2>5. Sound(more)
    BY <1>0, <2>0, <2>1, <2>2 DEF Hands, Sound, Reading
  <2>6. ASSUME n = log, {feed[i].account : i \in inBatch} \subseteq hand.allowed
        PROVE  Sound(last)
    <3>1. hand.job <= n
      <4>1. hand.job = 0 \/ hand.job \in 1..log
        BY <1>0 DEF Sound, SyncTypes
      <4> QED
        BY <2>1, <2>6, <4>1
    <3>2. hand.job = 0 => {feed[i].account : i \in staged} \subseteq Selected
      BY <1>0, <2>0, <2>6 DEF Sound, Reading
    <3> QED
      BY <1>0, <2>0, <2>1, <2>2, <2>6, <3>1, <3>2 DEF Hands, Sound, Reading
  <2>7. CASE n < log
    <3>1. worker' = [worker EXCEPT ![w] = more]
      BY <1>8, <2>7 DEF ReadPage, Reads, staged
    <3> HIDE DEF more
    <3> QED
      BY <1>2, <2>4, <2>5, <3>1
  <2>8. CASE n = log /\ n > 0 /\ {feed[i].account : i \in inBatch} \subseteq hand.allowed
    <3>0. ~(n < log)
      BY <2>1, <2>8
    <3>1. worker' = [worker EXCEPT ![w] = last]
      BY <1>8, <2>8, <3>0, Zenon DEF ReadPage, Reads, staged
    <3> HIDE DEF last
    <3> QED
      BY <1>2, <2>4, <2>6, <2>8, <3>1
  <2>9. CASE n = log /\ ~(n > 0 /\ {feed[i].account : i \in inBatch} \subseteq hand.allowed)
    <3>0. ~(n < log)
      BY <2>1, <2>9
    <3>1. worker' = [worker EXCEPT ![w] = Ending(hand, TRUE)]
      BY <1>8, <2>9, <3>0, Zenon DEF ReadPage, Reads, staged
    <3> QED
      BY <1>2, <1>4, <3>1
  <2> QED
    BY <2>1, <2>7, <2>8, <2>9
<1> QED
  BY <1>1, <1>5, <1>6, <1>7, <1>8
\* What a transaction on the requests leaves of those that have ended, and that
\* it invents none.
Keeps(rows) ==
    /\ rows \in [Changes -> Rows]
    /\ \A n \in Changes : /\ request[n].state \in Final => rows[n] = request[n]
                          /\ rows[n].state # "none" => request[n].state # "none"

LEMMA ReleasedRow ==
    ASSUME SyncTypes, NEW n \in Changes, NEW state \in {"ready"} \cup Final
    PROVE  Released(n, state) \in Rows /\ Released(n, state).state = state
  BY DEF SyncTypes, Released, Rows, Final

LEMMA RecoveredKeeps ==
    ASSUME SyncTypes
    PROVE  /\ Keeps(Recovered)
           /\ \A n \in Changes : Recovered[n].state = "succeeded" => request[n].state = "succeeded"
<1>1. ASSUME NEW n \in Changes
      PROVE  /\ Recovered[n] \in Rows
             /\ request[n].state \in Final => Recovered[n] = request[n]
             /\ Recovered[n].state # "none" => request[n].state # "none"
             /\ Recovered[n].state = "succeeded" => request[n].state = "succeeded"
  <2>1. CASE Expired(n)
    <3>1. Recovered[n] = Released(n, "ready") \/ Recovered[n] = Released(n, "failed")
      BY <2>1 DEF Recovered
    <3>2. request[n].state = "running"
      BY <2>1 DEF Expired
    <3>3. /\ Released(n, "ready") \in Rows /\ Released(n, "ready").state = "ready"
          /\ Released(n, "failed") \in Rows /\ Released(n, "failed").state = "failed"
      BY ReleasedRow DEF Final
    <3> QED
      BY <3>1, <3>2, <3>3 DEF Final
  <2>2. CASE ~Expired(n)
    BY <2>2 DEF Recovered, SyncTypes
  <2> QED
    BY <2>1, <2>2
<1>2. DOMAIN Recovered = Changes /\ Recovered = [n \in Changes |-> Recovered[n]]
  BY DEF Recovered
<1> QED
  BY <1>1, <1>2 DEF Keeps

\* A worker claims a request or the close task.
LEMMA ClaimStep ==
    ASSUME SyncInv, UNCHANGED feed, NEW w \in Workers, Claim(w) \/ ClaimClose(w)
    PROVE  /\ HandStep(w)
           /\ Keeps(request')
           /\ \A n \in Changes : request'[n].state = "succeeded" => request[n].state = "succeeded"
           /\ UNCHANGED <<log, healthy, receipts, stored, snapshot, overwritten>>
<1>0. SyncTypes /\ Sound(worker[w]) /\ worker[w] \in Hands /\ \A n \in Nat : View(n)' = View(n)
  BY DEF SyncInv, SyncTypes, View, About
<1>1. UNCHANGED <<log, healthy, receipts, stored, snapshot, overwritten>>
  BY DEF Claim, ClaimClose
<1>2. ASSUME NEW n \in {0} \cup Changes, n # 0 => n \in receipts,
             worker' = [worker EXCEPT ![w] = TakesRequest(n)]
      PROVE  HandStep(w)
  <2>1. worker'[w] = TakesRequest(n)
    BY <1>0, <1>2 DEF SyncTypes
  <2>2. TakesRequest(n) \in Hands
    BY <1>2 DEF TakesRequest, Rest, Hands
  <2>3. Sound(worker[w])'
    BY <1>0, <1>1, <1>2, <2>1 DEF TakesRequest, Rest, Sound, Reading, SyncTypes
  <2> QED
    BY <1>2, <2>1, <2>2, <2>3 DEF HandStep
<1>3. CASE Claim(w)
  <2>1. PICK n \in Changes :
          /\ Oldest(Recovered, n)
          /\ request' = Claimed(Recovered, w, n)
          /\ worker' = [worker EXCEPT ![w] = TakesRequest(n)]
    BY <1>3 DEF Claim
  <2>2. Recovered[n].state = "ready" /\ Recovered[n] \in Rows
    BY <1>0, <2>1, RecoveredKeeps DEF Oldest, Keeps
  <2>3. request[n].state # "none" /\ request[n].state \notin Final
    BY <1>0, <2>2, RecoveredKeeps DEF Keeps, Final
  <2>4. n \in receipts
    BY <2>3 DEF SyncInv, RequestsReceived
  <2> DEFINE row == [state |-> "running", attempt |-> Recovered[n].attempt + 1, owner |-> w, live |-> TRUE]
  <2>5. request' = [Recovered EXCEPT ![n] = row]
    BY <2>1 DEF Claimed
  <2>6. row \in Rows /\ row.state = "running"
    BY <2>2 DEF Rows
  <2> HIDE DEF row
  <2>7. /\ request' \in [Changes -> Rows]
        /\ request'[n] = row
        /\ \A m \in Changes : m # n => request'[m] = Recovered[m]
    BY <1>0, <2>5, <2>6, RecoveredKeeps DEF Keeps
  <2>8. Keeps(request')
    BY <1>0, <2>3, <2>6, <2>7, RecoveredKeeps DEF Keeps
  <2>9. \A m \in Changes : request'[m].state = "succeeded" => request[m].state = "succeeded"
    BY <1>0, <2>6, <2>7, RecoveredKeeps
  <2> QED
    BY <1>1, <1>2, <2>1, <2>4, <2>8, <2>9
<1>4. CASE ClaimClose(w)
  <2>1. request' = Recovered
    BY <1>4 DEF ClaimClose
  <2>2. CASE worker' = [worker EXCEPT ![w] = TakesRequest(0)]
    BY <1>0, <1>1, <1>2, <2>1, <2>2, RecoveredKeeps
  <2>3. CASE UNCHANGED worker
    <3>1. Sound(worker[w])'
      BY <1>0, <1>1, <2>3 DEF Sound, Reading, Reached, Hands
    <3>2. HandStep(w)
      BY <1>0, <2>3, <3>1 DEF HandStep, SyncTypes
    <3> QED
      BY <1>0, <1>1, <2>1, <3>2, RecoveredKeeps
  <2> QED
    BY <1>4, <2>2, <2>3 DEF ClaimClose
<1> QED
  BY <1>3, <1>4

\* A worker settles its request, or gives it up.
LEMMA SettleStep ==
    ASSUME SyncInv, UNCHANGED feed, NEW w \in Workers, Finish(w) \/ Fail(w)
    PROVE  /\ HandStep(w)
           /\ Keeps(request')
           /\ SucceededMeansSynced'
           /\ UNCHANGED <<log, healthy, receipts, stored, snapshot, overwritten>>
<1> DEFINE hand == worker[w]
<1>0. SyncTypes /\ Sound(hand) /\ hand \in Hands
  BY DEF SyncInv, SyncTypes
<1>1. UNCHANGED <<log, healthy, receipts, stored, snapshot, overwritten>>
  BY DEF Finish, Fail
<1>2. HandStep(w)
  <2>1. worker' = [worker EXCEPT ![w] = Rest] /\ worker'[w] = Rest
    BY <1>0 DEF Finish, Fail, SyncTypes
  <2> QED
    BY <1>0, <1>1, <2>1 DEF HandStep, Rest, Hands, Sound, Reading, SyncTypes
<1>3. SucceededMeansSynced
  BY DEF SyncInv
<1>4. CASE UNCHANGED request
  BY <1>0, <1>1, <1>2, <1>3, <1>4 DEF Keeps, SyncTypes, SucceededMeansSynced
<1>5. ASSUME NEW n \in Changes, NEW state \in {"ready"} \cup Final, Owns(w, n),
             request' = [request EXCEPT ![n] = Released(n, state)],
             state = "succeeded" => Reached(n)
      PROVE  Keeps(request') /\ SucceededMeansSynced'
  <2>1. Released(n, state) \in Rows /\ Released(n, state).state = state
    BY <1>0, ReleasedRow
  <2>2. /\ request' \in [Changes -> Rows]
        /\ request'[n] = Released(n, state)
        /\ \A m \in Changes : m # n => request'[m] = request[m]
    BY <1>0, <1>5, <2>1 DEF SyncTypes
  <2>3. request[n].state = "running"
    BY <1>5 DEF Owns
  <2>4. Keeps(request')
    BY <2>2, <2>3 DEF Keeps, Final
  <2>5. SucceededMeansSynced'
    BY <1>1, <1>3, <1>5, <2>1, <2>2 DEF SucceededMeansSynced, Reached
  <2> QED
    BY <2>4, <2>5
<1>6. CASE Finish(w) /\ Owns(w, hand.job)
  <2> DEFINE state == IF hand.refused THEN "blocked" ELSE "succeeded"
  <2>1. hand.job \in Changes /\ (~hand.refused => Reached(hand.job))
    BY <1>0, <1>6 DEF Finish, Sound, Hands
  <2>2. request' = [request EXCEPT ![hand.job] = Released(hand.job, state)]
    BY <1>6 DEF Finish
  <2>3. state \in {"ready"} \cup Final /\ (state = "succeeded" => Reached(hand.job))
    BY <2>1 DEF Final
  <2> HIDE DEF state
  <2> QED
    BY <1>1, <1>2, <1>5, <1>6, <2>1, <2>2, <2>3
<1>7. CASE Fail(w) /\ hand.job # 0 /\ Owns(w, hand.job)
  <2> DEFINE state == IF request[hand.job].attempt >= MaxAttempts THEN "failed" ELSE "ready"
  <2>1. hand.job \in Changes
    BY <1>0, <1>7 DEF Hands
  <2>2. request' = [request EXCEPT ![hand.job] = Released(hand.job, state)]
    BY <1>7 DEF Fail
  <2>3. state \in {"ready"} \cup Final /\ state # "succeeded"
    BY DEF Final
  <2> HIDE DEF state
  <2> QED
    BY <1>1, <1>2, <1>5, <1>7, <2>1, <2>2, <2>3
<1> QED
  BY <1>1, <1>2, <1>4, <1>6, <1>7 DEF Finish, Fail
\* A worker writes the cache: what was reached stays reached, or is overwritten.
LEMMA StoreStep ==
    ASSUME SyncInv, UNCHANGED feed, NEW w \in Workers, Persist(w) \/ PersistSnapshot(w)
    PROVE  /\ HandStep(w)
           /\ UNCHANGED <<log, healthy, requestVars>>
           /\ CacheAtCursor'
           /\ stored'.cursor \in 0..log /\ snapshot'.cursor \in 0..log /\ overwritten' \in BOOLEAN
           /\ \A n \in Nat : Reached(n) => Reached(n)'
<1> DEFINE hand == worker[w]
<1>0. /\ SyncTypes /\ Sound(hand) /\ hand \in Hands /\ CacheAtCursor
      /\ \A n \in Nat : View(n)' = View(n)
  BY DEF SyncInv, SyncTypes, View, About
<1>1. UNCHANGED <<log, healthy, requestVars>>
  BY DEF Persist, PersistSnapshot
<1>2. hand.pc = "persist"
  BY DEF Persist, PersistSnapshot
<1>3. hand.staged = View(hand.cursor) /\ hand.cursor \in 0..log /\ hand.cursor \in Nat
  BY <1>0, <1>2 DEF Sound, Reading, Hands, SyncTypes
<1>4. ASSUME NEW next \in Hands, worker' = [worker EXCEPT ![w] = next],
             next = Rest \/ next = [Rest EXCEPT !.pc = "finish", !.job = hand.job, !.refused = FALSE],
             next # Rest => hand.job # 0 /\ (stored'.cursor >= hand.job \/ overwritten')
      PROVE  HandStep(w)
  <2>1. worker'[w] = next
    BY <1>0, <1>4 DEF SyncTypes
  <2>2. Sound(next)'
    <3>1. CASE next = Rest
      BY <1>0, <1>1, <3>1 DEF Rest, Sound, Reading, SyncTypes, requestVars
    <3>2. CASE next # Rest
      <4>1. /\ next.pc = "finish" /\ next.job = hand.job /\ next.cursor = 0
        BY <1>4, <3>2 DEF Rest
      <4>2. hand.job \in receipts'
        BY <1>0, <1>1, <1>4, <3>2 DEF Sound, requestVars
      <4>3. next.cursor <= log'
        BY <1>0, <1>1, <4>1 DEF SyncTypes
      <4>4. Reached(next.job)'
        BY <1>4, <3>2, <4>1 DEF Reached
      <4> QED
        BY <1>4, <3>2, <4>1, <4>2, <4>3, <4>4 DEF Sound, Reading
    <3> QED
      BY <3>1, <3>2
  <2>3. Sound(worker[w])'
    BY <2>1, <2>2 DEF Sound, Reading, Reached
  <2> QED
    BY <1>4, <2>1, <2>3 DEF HandStep
<1>5. Rest \in Hands
  BY DEF Rest, Hands
<1>6. CASE PersistSnapshot(w) /\ snapshot.state = "taken"
  <2>1. worker' = [worker EXCEPT ![w] = Rest] /\ UNCHANGED <<stored, snapshot, overwritten>>
    BY <1>6 DEF PersistSnapshot
  <2>2. HandStep(w)
    BY <1>4, <1>5, <2>1
  <2>3. CacheAtCursor'
    BY <1>0, <2>1 DEF CacheAtCursor, SyncTypes
  <2> QED
    BY <1>0, <1>1, <2>1, <2>2, <2>3 DEF SyncTypes, Reached
<1>7. CASE Store(hand)
  <2>1. /\ stored'.cursor = hand.cursor /\ stored'.records = hand.staged
        /\ overwritten' = (overwritten \/ hand.cursor < stored.cursor)
    BY <1>7 DEF Store
  <2>2. overwritten' \in BOOLEAN /\ (overwritten => overwritten') /\ (hand.cursor < stored.cursor => overwritten')
    BY <1>0, <2>1 DEF SyncTypes
  <2>3. \A n \in Nat : Reached(n) => Reached(n)'
    <3>1. log \in Nat /\ stored.cursor \in 0..log
      BY <1>0 DEF SyncTypes
    <3> QED
      BY <1>3, <2>1, <2>2, <3>1 DEF Reached
  <2>4. \/ UNCHANGED snapshot
        \/ hand.job = 0 /\ snapshot'.cursor = hand.cursor /\ snapshot'.records = hand.staged
    <3>1. CASE Persist(w)
      BY <3>1 DEF Persist
    <3>2. CASE PersistSnapshot(w) /\ snapshot.state # "taken"
      BY <3>2 DEF PersistSnapshot
    <3>3. CASE PersistSnapshot(w) /\ snapshot.state = "taken"
      BY <3>3 DEF PersistSnapshot
    <3> QED
      BY <3>1, <3>2, <3>3
  <2>5. stored'.cursor \in 0..log /\ snapshot'.cursor \in 0..log
    BY <1>0, <1>3, <2>1, <2>4 DEF SyncTypes
  <2>6. CacheAtCursor'
    <3>1. (stored.records = View(stored.cursor))'
      BY <1>0, <1>3, <2>1 DEF View, About
    <3>2. (snapshot.records = View(snapshot.cursor))'
      BY <1>0, <1>3, <2>4 DEF CacheAtCursor, View, About
    <3>3. ({feed[i].account : i \in snapshot.records} \subseteq Selected)'
      BY <1>0, <1>2, <1>3, <2>4 DEF CacheAtCursor, Sound
    <3> QED
      BY <3>1, <3>2, <3>3 DEF CacheAtCursor
  <2>7. hand.job # 0 => stored'.cursor >= hand.job
    <3>1. hand.job <= hand.cursor /\ hand.job \in Nat
      BY <1>0, <1>2, PlaidSyncAssumption DEF Sound, Hands, Changes
    <3>2. stored'.cursor = hand.cursor
      BY <2>1
    <3> QED
      BY <1>3, <3>1, <3>2
  <2>8. HandStep(w)
    <3> DEFINE next == [Rest EXCEPT !.pc = "finish", !.job = hand.job, !.refused = FALSE]
    <3>1. CASE hand.job = 0
      <4>1. worker' = [worker EXCEPT ![w] = Rest]
        BY <3>1 DEF Persist, PersistSnapshot
      <4> QED
        BY <1>4, <1>5, <4>1
    <3>2. CASE hand.job # 0
      <4>1. worker' = [worker EXCEPT ![w] = next]
        BY <3>2 DEF Persist, PersistSnapshot, Ending
      <4>2. next \in Hands
        BY <1>0 DEF Rest, Hands
      <4> HIDE DEF next
      <4>3. next = [Rest EXCEPT !.pc = "finish", !.job = hand.job, !.refused = FALSE]
        BY DEF next
      <4> QED
        BY <1>4, <2>7, <3>2, <4>1, <4>2, <4>3
    <3> QED
      BY <3>1, <3>2
  <2> QED
    BY <1>1, <2>2, <2>3, <2>5, <2>6, <2>8
<1> QED
  BY <1>6, <1>7 DEF Persist, PersistSnapshot

-----------------------------------------------------------------------------
(* All steps *)

\* A worker's step keeps the invariant, and what has ended.
LEMMA WorkStep ==
    ASSUME SyncInv, UNCHANGED feed, NEW w \in Workers, Work(w) \/ Crash(w)
    PROVE  SyncInv' /\ Keeps(request')
<1>0. SyncTypes /\ CacheAtCursor /\ SucceededMeansSynced /\ Keeps(request)
  BY DEF SyncInv, SyncTypes, Keeps
<1>1. /\ HandStep(w) /\ Keeps(request') /\ CacheAtCursor' /\ SucceededMeansSynced'
      /\ UNCHANGED <<log, healthy, receipts>>
      /\ stored'.cursor \in 0..log /\ snapshot'.cursor \in 0..log /\ overwritten' \in BOOLEAN
      /\ \A n \in Nat : Reached(n) => Reached(n)'
  <2>0. UNCHANGED stored /\ UNCHANGED snapshot => CacheAtCursor'
    BY <1>0 DEF CacheAtCursor, View, About
  <2>1. CASE LookUp(w) \/ (\E n \in 0..log : ReadPage(w, n)) \/ SyncBlocked(w) \/ Crash(w)
    BY <1>0, <2>0, <2>1, ReadingStep DEF requestVars, SyncTypes, Reached, SucceededMeansSynced
  <2>2. CASE Claim(w) \/ ClaimClose(w)
    BY <1>0, <2>0, <2>2, ClaimStep DEF SyncTypes, Reached, SucceededMeansSynced
  <2>3. CASE Finish(w) \/ Fail(w)
    BY <1>0, <2>0, <2>3, SettleStep DEF SyncTypes, Reached
  <2>4. CASE Persist(w) \/ PersistSnapshot(w)
    <3>1. SucceededMeansSynced'
      BY <1>0, <2>4, StoreStep, PlaidSyncAssumption DEF SucceededMeansSynced, Reached, requestVars, Changes
    <3> QED
      BY <1>0, <2>4, <3>1, StoreStep DEF requestVars, SyncTypes
  <2> QED
    BY <2>1, <2>2, <2>3, <2>4 DEF Work
<1>2. SyncTypes'
  <2>1. worker' \in [Workers -> Hands]
    BY <1>0, <1>1 DEF HandStep, SyncTypes
  <2> QED
    BY <1>0, <1>1, <2>1 DEF SyncTypes, Keeps
<1>3. ASSUME NEW v \in Workers PROVE Sound(worker[v])'
  <2>1. CASE v = w
    BY <1>1, <2>1 DEF HandStep
  <2>2. CASE v # w
    <3>1. worker'[v] = worker[v]
      BY <1>0, <1>1, <2>2 DEF HandStep, SyncTypes
    <3>2. Sound(worker[v]) /\ worker[v] \in Hands
      BY DEF SyncInv, SyncTypes
    <3>3. \A n \in Nat : View(n)' = View(n)
      BY DEF View, About
    <3>4. worker[v].job \in Nat /\ worker[v].cursor \in Nat
      BY <3>2, PlaidSyncAssumption DEF Hands, Changes
    <3> QED
      BY <1>1, <3>1, <3>2, <3>3, <3>4 DEF Sound, Reading
  <2> QED
    BY <2>1, <2>2
<1>4. RequestsReceived'
  BY <1>1 DEF SyncInv, RequestsReceived, Keeps
<1> QED
  BY <1>1, <1>2, <1>3, <1>4 DEF SyncInv

LEMMA SyncStep == SyncInv /\ [PlaidNext]_plaidVars => SyncInv'
<1> SUFFICES ASSUME SyncInv, [PlaidNext]_plaidVars PROVE SyncInv'
  OBVIOUS
<1>1. CASE UNCHANGED plaidVars
  BY <1>1 DEF plaidVars, requestVars, SyncInv, SyncTypes, Sound, Reading, Reached, RequestsReceived,
              CacheAtCursor, SucceededMeansSynced, View, About
<1>2. CASE PlaidNext
  <2>1. UNCHANGED feed
    BY <1>2 DEF PlaidNext
  <2>2. CASE \E n \in Changes : ReceiveAgain(n)
    BY <1>1, <2>2 DEF ReceiveAgain
  <2> QED
    BY <1>2, <2>1, <2>2, OutsideStep, WorkStep DEF PlaidNext
<1> QED
  BY <1>1, <1>2

\* The cached transactions are what Plaid held at the stored cursor, and the
\* snapshot of a close what it held at one point and only of selected accounts,
\* for any number of workers, requests, pages and changes.
THEOREM CacheFollowsPlaid == PlaidSpec => []CacheAtCursor
<1>1. SyncInv => CacheAtCursor
  BY DEF SyncInv
<1> QED
  BY <1>1, SyncStart, SyncStep, PTL DEF PlaidSpec

\* A request that succeeded has brought the cache to the change it announced,
\* whoever settled it, unless an overlapping sync has taken the cache back.
THEOREM SuccessIsEarned == PlaidSpec => []SucceededMeansSynced
<1>1. SyncInv => SucceededMeansSynced
  BY DEF SyncInv
<1> QED
  BY <1>1, SyncStart, SyncStep, PTL DEF PlaidSpec

\* No repeated webhook, late worker or recovery reopens a request that has ended.
THEOREM EndedRequestsStay == PlaidSpec => FinalRequestsStay
<1>1. SyncInv /\ [PlaidNext]_plaidVars
        => [\A n \in Changes : request[n].state \in Final => request'[n] = request[n]]_plaidVars
  <2> SUFFICES ASSUME SyncInv, PlaidNext, NEW n \in Changes, request[n].state \in Final
               PROVE  request'[n] = request[n]
    OBVIOUS
  <2>1. SyncTypes /\ UNCHANGED feed /\ request[n].state \notin {"none", "running"}
    BY DEF SyncInv, PlaidNext, Final
  <2>2. CASE \E w \in Workers : Work(w) \/ Crash(w)
    BY <2>1, <2>2, WorkStep DEF Keeps
  <2>3. CASE Change \/ (\E a \in Accounts : Disconnected(a)) \/ (\E m \in Changes : ReceiveAgain(m))
    BY <2>3 DEF Change, Disconnected, ReceiveAgain, requestVars, plaidVars
  <2>4. ASSUME NEW m \in Changes, Receive(m) PROVE request'[n] = request[n]
    <3>1. n \in receipts
      BY <2>1 DEF SyncInv, RequestsReceived
    <3> QED
      BY <2>1, <2>4, <3>1 DEF Receive, SyncTypes
  <2>5. ASSUME NEW m \in Changes, LeaseExpires(m) PROVE request'[n] = request[n]
    <3>1. m # n
      BY <2>1, <2>5 DEF LeaseExpires, SyncTypes, Rows
    <3> QED
      BY <2>1, <2>5, <3>1 DEF LeaseExpires, SyncTypes
  <2> QED
    BY <2>2, <2>3, <2>4, <2>5 DEF PlaidNext
<1> QED
  BY <1>1, SyncStart, SyncStep, PTL DEF PlaidSpec, FinalRequestsStay
-----------------------------------------------------------------------------
(* The queue and the attempts of requests *)

\* A row that waits has an attempt left, and no row has used more than it has.
Spent(row) ==
    /\ row.attempt <= MaxAttempts
    /\ row.state \in {"none", "ready"} => row.attempt < MaxAttempts

\* The queue holds every request that exists, once.
Queued == /\ queue \in Seq(Changes) /\ IsInjective(queue)
          /\ ToSet(queue) = {n \in Changes : request[n].state # "none"}

Shapes ==
    /\ feed \in Feeds /\ log <= Length
    /\ stored \in [cursor : Nat, records : SUBSET Nat]
    /\ snapshot \in [state : {"none", "due", "taken"}, cursor : Nat, records : SUBSET Nat]

BoundInv ==
    /\ SyncInv /\ Shapes /\ Queued
    /\ \A n \in Changes : Spent(request[n])
    /\ \A w \in Workers : Reading(worker[w]) \/ worker[w].staged = {}

\* What a transaction makes of the rows, when it neither creates nor deletes one.
Spends(rows) ==
    \A n \in Changes : /\ Spent(rows[n])
                       /\ rows[n].state # "none" <=> request[n].state # "none"

LEMMA BoundStart == PlaidInit => BoundInv
<1> SUFFICES ASSUME PlaidInit PROVE BoundInv
  OBVIOUS
<1>1. SyncInv
  BY SyncStart
<1>2. Shapes
  BY PlaidSyncAssumption DEF PlaidInit, Shapes
<1>3. \A n \in Changes : Spent(request[n]) /\ request[n].state = "none"
  BY PlaidSyncAssumption DEF PlaidInit, NoRequest, Spent
<1>4. Queued
  <2>1. queue = <<>> /\ queue \in Seq(Changes) /\ DOMAIN queue = {}
    BY DEF PlaidInit
  <2> QED
    BY <1>3, <2>1 DEF Queued, IsInjective, ToSet
<1>5. \A w \in Workers : worker[w].staged = {}
  BY DEF PlaidInit, Rest
<1> QED
  BY <1>1, <1>2, <1>3, <1>4, <1>5 DEF BoundInv

\* A webhook appends a request that was not in the queue.
LEMMA Enqueued ==
    ASSUME Queued, NEW m \in Changes, request[m].state = "none", queue' = Append(queue, m),
           \A n \in Changes : request'[n].state # "none" <=> request[n].state # "none" \/ n = m
    PROVE  Queued'
<1>1. /\ Len(queue) \in Nat /\ DOMAIN queue = 1..Len(queue)
      /\ \A i \in 1..Len(queue) : queue[i] \in Changes /\ queue[i] # m
  BY DEF Queued, ToSet
<1>2. /\ queue' \in Seq(Changes) /\ DOMAIN queue' = 1..Len(queue) + 1
      /\ \A i \in 1..Len(queue) : queue'[i] = queue[i]
      /\ queue'[Len(queue) + 1] = m
  <2>1. queue \in Seq(Changes)
    BY DEF Queued
  <2> QED
    BY <2>1, AppendProperties
<1>3. \A i \in DOMAIN queue' : i \in 1..Len(queue) \/ i = Len(queue) + 1
  BY <1>1, <1>2
<1>4. IsInjective(queue')
  <2> SUFFICES ASSUME NEW i \in DOMAIN queue', NEW j \in DOMAIN queue', queue'[i] = queue'[j]
               PROVE  i = j
    BY DEF IsInjective
  <2>1. CASE i \in 1..Len(queue) /\ j \in 1..Len(queue)
    BY <1>1, <1>2, <2>1 DEF Queued, IsInjective
  <2> QED
    BY <1>1, <1>2, <1>3, <2>1
<1>5. ToSet(queue') = ToSet(queue) \cup {m}
  <2>1. ASSUME NEW i \in DOMAIN queue' PROVE queue'[i] \in ToSet(queue) \cup {m}
    BY <1>1, <1>2, <1>3 DEF ToSet
  <2>2. ASSUME NEW i \in DOMAIN queue PROVE queue[i] \in ToSet(queue')
    <3>1. i \in DOMAIN queue' /\ queue'[i] = queue[i]
      BY <1>1, <1>2
    <3> QED
      BY <3>1 DEF ToSet
  <2>3. m \in ToSet(queue')
    <3>1. Len(queue) + 1 \in DOMAIN queue'
      BY <1>1, <1>2
    <3> QED
      BY <1>2, <3>1 DEF ToSet
  <2> QED
    BY <2>1, <2>2, <2>3 DEF ToSet
<1>6. ToSet(queue') = {n \in Changes : request'[n].state # "none"}
  BY <1>5 DEF Queued
<1> QED
  BY <1>2, <1>4, <1>6 DEF Queued

LEMMA QueueStays == ASSUME Queued, Spends(request'), UNCHANGED queue PROVE Queued'
BY DEF Queued, Spends

LEMMA RecoveredSpends == ASSUME BoundInv PROVE Spends(Recovered)
<1> SUFFICES ASSUME NEW n \in Changes
             PROVE  /\ Spent(Recovered[n])
                    /\ Recovered[n].state # "none" <=> request[n].state # "none"
  BY DEF Spends
<1>1. request[n] \in Rows /\ Spent(request[n]) /\ MaxAttempts \in Nat
  BY PlaidSyncAssumption DEF BoundInv, SyncInv, SyncTypes
<1>2. CASE ~Expired(n)
  BY <1>1, <1>2 DEF Recovered
<1>3. CASE Expired(n)
  <2>1. /\ request[n].state = "running"
        /\ Recovered[n].attempt = request[n].attempt
        /\ \/ Recovered[n].state = "ready" /\ request[n].attempt < MaxAttempts
           \/ Recovered[n].state = "failed"
    BY <1>1, <1>3 DEF Expired, Recovered, Released, Rows
  <2> QED
    BY <1>1, <2>1 DEF Spent
<1> QED
  BY <1>2, <1>3

\* A step of a worker spends an attempt only when there is one.
LEMMA WorkSpends ==
    ASSUME BoundInv, NEW w \in Workers, Work(w) \/ Crash(w)
    PROVE  Spends(request') /\ UNCHANGED queue
<1>1. /\ \A n \in Changes : request[n] \in Rows /\ Spent(request[n])
      /\ request \in [Changes -> Rows] /\ MaxAttempts \in Nat /\ Spends(request)
      /\ worker[w].job \in {0} \cup Changes
  BY PlaidSyncAssumption DEF BoundInv, SyncInv, SyncTypes, Spends, Hands
<1>2. UNCHANGED queue
  BY DEF Work, Crash, Claim, ClaimClose, LookUp, ReadPage, SyncBlocked, Reads, Persist, PersistSnapshot,
         Finish, Fail, requestVars
<1>3. CASE UNCHANGED request
  BY <1>1, <1>2, <1>3 DEF Spends
<1>4. CASE Claim(w)
  <2>1. PICK n \in Changes : Oldest(Recovered, n) /\ request' = Claimed(Recovered, w, n)
    BY <1>4 DEF Claim
  <2>2. Recovered[n].state = "ready" /\ Spent(Recovered[n]) /\ request[n].state # "none"
    BY <2>1, RecoveredSpends DEF Oldest, Spends
  <2>3. Recovered[n].attempt \in Nat /\ DOMAIN Recovered = Changes
    <3>1. SyncTypes
      BY DEF BoundInv, SyncInv
    <3> QED
      BY <3>1, RecoveredKeeps DEF Keeps, Rows
  <2>4. /\ request'[n].state = "running" /\ request'[n].attempt = Recovered[n].attempt + 1
        /\ \A m \in Changes : m # n => request'[m] = Recovered[m]
    BY <2>1, <2>3 DEF Claimed
  <2>5. Spent(request'[n])
    BY <1>1, <2>2, <2>3, <2>4 DEF Spent
  <2> QED
    BY <1>2, <2>2, <2>4, <2>5, RecoveredSpends DEF Spends
<1>5. CASE ClaimClose(w)
  BY <1>2, <1>5, RecoveredSpends DEF ClaimClose
<1>6. ASSUME NEW n \in Changes, NEW state \in {"ready"} \cup Final, request[n].state = "running",
             state = "ready" => request[n].attempt < MaxAttempts,
             request' = [request EXCEPT ![n] = Released(n, state)]
      PROVE  Spends(request')
  <2>1. /\ request'[n].state = state /\ request'[n].attempt = request[n].attempt
        /\ \A m \in Changes : m # n => request'[m] = request[m]
    BY <1>1, <1>6 DEF Released, Rows
  <2>2. state \notin {"none"} /\ (state \in {"none", "ready"} => state = "ready")
    BY DEF Final
  <2>3. Spent(request'[n]) /\ request'[n].state # "none" /\ request[n].state # "none"
    BY <1>1, <1>6, <2>1, <2>2 DEF Spent
  <2> QED
    BY <1>1, <2>1, <2>3 DEF Spends
<1>7. CASE Finish(w) /\ request' # request
  <2>1. worker[w].job \in Changes /\ request[worker[w].job].state = "running"
    BY <1>1, <1>7 DEF Finish, Owns, BoundInv, SyncInv, Sound
  <2>2. PICK state \in {"blocked", "succeeded"} :
          request' = [request EXCEPT ![worker[w].job] = Released(worker[w].job, state)]
    BY <1>7 DEF Finish
  <2> QED
    BY <1>2, <1>6, <2>1, <2>2 DEF Final
<1>8. CASE Fail(w) /\ request' # request
  <2> DEFINE n == worker[w].job
  <2>1. n \in Changes /\ request[n].state = "running" /\ request[n].attempt \in Nat
    BY <1>1, <1>8 DEF Fail, Owns, Rows
  <2>2. PICK state \in {"failed", "ready"} :
          /\ request' = [request EXCEPT ![n] = Released(n, state)]
          /\ state = "ready" => ~(request[n].attempt >= MaxAttempts)
    BY <1>1, <1>8, <2>1 DEF Fail
  <2>3. state = "ready" => request[n].attempt < MaxAttempts
    BY <1>1, <2>1, <2>2
  <2> QED
    BY <1>2, <1>6, <2>1, <2>2, <2>3 DEF Final
<1> QED
  BY <1>3, <1>4, <1>5, <1>7, <1>8
     DEF Work, Crash, LookUp, ReadPage, SyncBlocked, Reads, Persist, PersistSnapshot, requestVars

\* A worker drops what it staged when it stops reading, and stores nothing else.
LEMMA WorkShapes ==
    ASSUME BoundInv, UNCHANGED feed, NEW w \in Workers, Work(w) \/ Crash(w)
    PROVE  /\ Shapes' /\ worker' = [worker EXCEPT ![w] = worker'[w]]
           /\ Reading(worker'[w]) \/ worker'[w].staged = {}
<1>1. /\ worker \in [Workers -> Hands] /\ worker[w] \in Hands /\ Shapes
      /\ Reading(worker[w]) \/ worker[w].staged = {}
  BY DEF BoundInv, SyncInv, SyncTypes
<1>2. Ending(worker[w], TRUE).staged = {} /\ Ending(worker[w], FALSE).staged = {} /\ Rest.staged = {}
  BY DEF Ending, Rest
<1> DEFINE Handled == /\ worker' = [worker EXCEPT ![w] = worker'[w]]
                      /\ Reading(worker'[w]) \/ worker'[w].staged = {}
<1>3. ASSUME NEW hand, Reading(hand) \/ hand.staged = {}, worker' = [worker EXCEPT ![w] = hand]
      PROVE  Handled
  BY <1>1, <1>3
<1>4. ASSUME UNCHANGED worker PROVE Handled
  BY <1>1, <1>4
<1> HIDE DEF Handled
<1>6. CASE LookUp(w) \/ (\E n \in 0..log : ReadPage(w, n)) \/ SyncBlocked(w) \/ Crash(w)
  <2>1. UNCHANGED <<log, stored, snapshot>>
    BY <1>6 DEF LookUp, ReadPage, SyncBlocked, Crash, Reads
  <2>2. ASSUME LookUp(w) PROVE Handled
    <3> DEFINE needed == IF worker[w].job = 0 THEN Selected ELSE healthy
               read == [worker[w] EXCEPT !.pc = "read", !.allowed = needed,
                                         !.cursor = stored.cursor, !.staged = stored.records]
    <3>1. \/ worker' = [worker EXCEPT ![w] = read]
          \/ worker' = [worker EXCEPT ![w] = Ending(worker[w], TRUE)]
      BY <2>2 DEF LookUp, Reads
    <3>2. Reading(read)
      BY <1>1 DEF Reading, Hands
    <3> QED
      BY <1>2, <1>3, <3>1, <3>2
  <2>3. ASSUME NEW n \in 0..log, ReadPage(w, n) PROVE Handled
    <3> DEFINE staged == Staged(worker[w].staged, worker[w].cursor, n)
               next == [worker[w] EXCEPT !.cursor = n, !.staged = staged]
               last == [worker[w] EXCEPT !.pc = "persist", !.cursor = n, !.staged = staged]
    <3>1. /\ worker[w].pc = "read"
          /\ \/ worker' = [worker EXCEPT ![w] = next]
             \/ worker' = [worker EXCEPT ![w] = last]
             \/ worker' = [worker EXCEPT ![w] = Ending(worker[w], TRUE)]
      BY <2>3 DEF ReadPage, Reads
    <3>2. Reading(next) /\ Reading(last)
      BY <1>1, <3>1 DEF Reading, Hands
    <3> HIDE DEF next, last
    <3> QED
      BY <1>2, <1>3, <3>1, <3>2
  <2>4. ASSUME SyncBlocked(w) \/ Crash(w) PROVE Handled
    BY <1>2, <1>3, <2>4 DEF SyncBlocked, Crash, Reads
  <2> QED
    BY <1>1, <1>6, <2>1, <2>2, <2>3, <2>4 DEF Shapes, Handled
<1>7. CASE Claim(w) \/ ClaimClose(w) \/ Finish(w) \/ Fail(w)
  <2>1. UNCHANGED <<log, stored, snapshot>>
    BY <1>7 DEF Claim, ClaimClose, Finish, Fail
  <2>2. \/ UNCHANGED worker
        \/ worker' = [worker EXCEPT ![w] = Rest]
        \/ \E n \in {0} \cup Changes : worker' = [worker EXCEPT ![w] = TakesRequest(n)]
    BY <1>7 DEF Claim, ClaimClose, Finish, Fail
  <2>3. \A n \in {0} \cup Changes : TakesRequest(n).staged = {}
    BY DEF TakesRequest, Rest
  <2>4. Handled
    BY <1>2, <1>3, <1>4, <2>2, <2>3
  <2> QED
    BY <1>1, <2>1, <2>4 DEF Shapes, Handled
<1>5. CASE Persist(w) \/ PersistSnapshot(w)
  <2>1. worker[w].cursor \in Nat /\ worker[w].staged \in SUBSET Nat
    BY <1>1 DEF Hands
  <2>2. UNCHANGED log /\ worker' \in {[worker EXCEPT ![w] = Ending(worker[w], FALSE)], [worker EXCEPT ![w] = Rest]}
    BY <1>5 DEF Persist, PersistSnapshot
  <2>3. /\ stored' \in {stored, [cursor |-> worker[w].cursor, records |-> worker[w].staged]}
        /\ snapshot' \in {snapshot, [state |-> "taken", cursor |-> worker[w].cursor, records |-> worker[w].staged]}
    BY <1>5 DEF Persist, PersistSnapshot, Store
  <2>4. Shapes'
    BY <1>1, <2>1, <2>2, <2>3 DEF Shapes
  <2> QED
    BY <1>2, <1>3, <2>2, <2>4 DEF Handled
<1> QED
  BY <1>5, <1>6, <1>7 DEF Work

LEMMA BoundStep == BoundInv /\ [PlaidNext]_plaidVars => BoundInv'
<1> SUFFICES ASSUME BoundInv, [PlaidNext]_plaidVars PROVE BoundInv'
  OBVIOUS
<1>1. SyncInv' /\ UNCHANGED feed /\ request \in [Changes -> Rows] /\ Spends(request)
  BY SyncStep DEF BoundInv, SyncInv, SyncTypes, PlaidNext, plaidVars, Spends
<1>2. CASE UNCHANGED <<requestVars, worker>> /\ Shapes'
  BY <1>1, <1>2 DEF BoundInv, Queued, requestVars
<1>3. CASE \E w \in Workers : Work(w) \/ Crash(w)
  <2>1. PICK w \in Workers : Work(w) \/ Crash(w)
    BY <1>3
  <2>2. Spends(request') /\ UNCHANGED queue /\ Queued /\ worker \in [Workers -> Hands]
    BY <2>1, WorkSpends DEF BoundInv, SyncInv, SyncTypes
  <2>3. Queued'
    BY <2>2, QueueStays
  <2>4. \A v \in Workers : Reading(worker'[v]) \/ worker'[v].staged = {}
    <3> SUFFICES ASSUME NEW v \in Workers PROVE Reading(worker'[v]) \/ worker'[v].staged = {}
      OBVIOUS
    <3>1. v # w => worker'[v] = worker[v]
      BY <1>1, <2>1, <2>2, WorkShapes
    <3> QED
      BY <1>1, <2>1, <3>1, WorkShapes DEF BoundInv
  <2>5. Shapes'
    BY <1>1, <2>1, WorkShapes
  <2> QED
    BY <1>1, <2>2, <2>3, <2>4, <2>5 DEF BoundInv, Spends, Reading
<1>4. ASSUME NEW m \in Changes, Receive(m) PROVE BoundInv'
  <2>1. UNCHANGED <<log, stored, snapshot, worker>> /\ m \notin receipts
    BY <1>4 DEF Receive
  <2>2. Shapes' /\ request[m].state = "none"
    BY <1>1, <2>1 DEF BoundInv, Shapes, SyncInv, RequestsReceived
  <2>3. CASE UNCHANGED <<request, queue>>
    BY <1>1, <2>1, <2>2, <2>3 DEF BoundInv, Queued, Reading
  <2>4. CASE request' = [request EXCEPT ![m].state = "ready"] /\ queue' = Append(queue, m)
    <3>1. /\ request'[m].state = "ready" /\ request'[m].attempt = request[m].attempt
          /\ \A n \in Changes : n # m => request'[n] = request[n]
      BY <1>1, <2>4 DEF Rows
    <3>2. \A n \in Changes : Spent(request'[n])
      BY <2>2, <3>1 DEF BoundInv, Spent
    <3>3. Queued'
      BY <2>2, <2>4, <3>1, Enqueued DEF BoundInv
    <3> QED
      BY <1>1, <2>1, <2>2, <3>2, <3>3 DEF BoundInv, Reading
  <2> QED
    BY <1>4, <2>3, <2>4 DEF Receive
<1>5. ASSUME NEW m \in Changes, LeaseExpires(m) PROVE BoundInv'
  <2>1. UNCHANGED <<log, queue, stored, snapshot, worker>> /\ request' = [request EXCEPT ![m].live = FALSE]
    BY <1>5 DEF LeaseExpires
  <2>2. \A n \in Changes : request'[n].state = request[n].state /\ request'[n].attempt = request[n].attempt
    BY <1>1, <2>1 DEF Rows
  <2>3. Spends(request') /\ Shapes'
    BY <1>1, <2>1, <2>2 DEF BoundInv, Spends, Spent, Shapes
  <2>4. Queued'
    BY <2>1, <2>3, QueueStays DEF BoundInv
  <2> QED
    BY <1>1, <2>1, <2>3, <2>4 DEF BoundInv, Spends, Reading
<1>6. CASE Change
  <2>1. UNCHANGED <<requestVars, stored, snapshot, worker>> /\ log' <= Length
    <3>1. log \in Nat /\ Length \in Nat
      BY PlaidSyncAssumption DEF BoundInv, SyncInv, SyncTypes
    <3> QED
      BY <1>6, <3>1 DEF Change
  <2> QED
    BY <1>1, <1>2, <2>1 DEF BoundInv, Shapes
<1>7. CASE UNCHANGED plaidVars \/ (\E a \in Accounts : Disconnected(a)) \/ (\E m \in Changes : ReceiveAgain(m))
  BY <1>1, <1>2, <1>7 DEF Disconnected, ReceiveAgain, plaidVars, BoundInv, Shapes
<1> QED
  BY <1>3, <1>4, <1>5, <1>6, <1>7 DEF PlaidNext

\* For any number of workers, changes and retries no request is claimed more
\* often than max_attempts allows, the queue holds each request once, and what
\* is cached, staged and snapshot stays within what Plaid has announced.
THEOREM PlaidTypeCorrect == PlaidSpec => []PlaidTypeOK
<1>1. BoundInv => PlaidTypeOK
  <2> SUFFICES ASSUME BoundInv PROVE PlaidTypeOK
    OBVIOUS
  <2>1. /\ SyncTypes /\ CacheAtCursor /\ Shapes /\ Queued /\ Length \in Nat /\ MaxAttempts \in Nat
        /\ \A w \in Workers : Sound(worker[w])
    BY PlaidSyncAssumption DEF BoundInv, SyncInv
  <2>2. \A n \in 0..log : View(n) \subseteq Changes
    <3> SUFFICES ASSUME NEW n \in 0..log PROVE View(n) \subseteq Changes
      OBVIOUS
    <3>1. n \in Nat /\ n <= Length
      BY <2>1 DEF SyncTypes, Shapes
    <3>2. View(n) \subseteq 1..n /\ 1..n \subseteq Changes
      BY <2>1, <3>1, ViewBounds DEF Changes
    <3> QED
      BY <3>2
  <2>3. log \in 0..Length /\ stored \in [cursor : 0..log, records : SUBSET Changes]
        /\ snapshot \in [state : {"none", "due", "taken"}, cursor : 0..log, records : SUBSET Changes]
    BY <2>1, <2>2 DEF SyncTypes, Shapes, CacheAtCursor
  <2>4. ASSUME NEW n \in Changes
        PROVE  request[n] \in [state : {"none", "ready", "running"} \cup Final, attempt : 0..MaxAttempts,
                               owner : Workers \cup {Nobody}, live : BOOLEAN]
    BY <2>1 DEF BoundInv, SyncTypes, Rows, Spent
  <2>5. ASSUME NEW w \in Workers
        PROVE  worker[w] \in [pc : {"idle", "look", "read", "persist", "finish"}, job : {0} \cup Changes,
                              allowed : SUBSET Accounts, cursor : 0..log, staged : SUBSET Changes,
                              refused : BOOLEAN]
    <3>1. worker[w] \in Hands /\ worker[w].cursor \in 0..log
      BY <2>1 DEF SyncTypes, Sound, Hands
    <3>2. worker[w].staged \subseteq Changes
      BY <2>1, <2>2, <3>1 DEF BoundInv, Sound
    <3> QED
      BY <3>1, <3>2 DEF Hands
  <2> QED
    BY <2>1, <2>3, <2>4, <2>5 DEF PlaidTypeOK, SyncTypes, Shapes, Queued
<1> QED
  BY <1>1, BoundStart, BoundStep, PTL DEF PlaidSpec

-----------------------------------------------------------------------------
(* The budget of key fetches *)

Less == {e \in Nat \X Nat : e[1] < e[2]}

LEMMA LessWF == IsWellFoundedOn(Less, Nat)
  BY NatLessThanWellFounded, Zenon DEF OpToRel, Less

\* The oldest fetch comes first, and no age passes a minute.
Deque == {s \in Seq(0..Minute) : \A i, j \in 1..Len(s) : i <= j => s[i] >= s[j]}

\* The first n fetches are a minute old, and no other.
Split(s, n) ==
    /\ n \in 0..Len(s)
    /\ \A i \in 1..n : s[i] >= Minute
    /\ \A i \in n + 1 .. Len(s) : s[i] < Minute

LEMMA DequeSplits == ASSUME NEW s \in Deque PROVE \E n \in Nat : Split(s, n)
<1> DEFINE fresh == {i \in 1 .. Len(s) + 1 : i <= Len(s) => s[i] < Minute}
<1>0. /\ Len(s) \in Nat /\ Minute \in Nat \ {0}
      /\ \A i \in 1..Len(s) : s[i] \in 0..Minute
      /\ \A i, j \in 1..Len(s) : i <= j => s[i] >= s[j]
  BY WebhookKeysAssumption DEF Deque
<1>1. fresh \subseteq Nat /\ Len(s) + 1 \in fresh
  BY <1>0
<1>2. PICK m \in fresh : \A k \in fresh : ~(<<k, m>> \in Less)
  <2> HIDE DEF fresh
  <2>1. \A T : T \subseteq Nat /\ T # {} => \E x \in T : \A y \in T : ~(<<y, x>> \in Less)
    BY LessWF, WFMin
  <2> QED BY <1>1, <2>1
<1>3. m \in 1 .. Len(s) + 1 /\ (m <= Len(s) => s[m] < Minute)
  OBVIOUS
<1>4. ASSUME NEW i \in 1 .. m - 1 PROVE s[i] >= Minute
  <2>1. i \in 1..Len(s) /\ i < m /\ <<i, m>> \in Less
    BY <1>0, <1>3 DEF Less
  <2>2. i \notin fresh
    BY <1>2, <2>1
  <2> QED BY <1>0, <2>1, <2>2
<1>5. ASSUME NEW i \in m .. Len(s) PROVE s[i] < Minute
  <2>1. i \in 1..Len(s) /\ m \in 1..Len(s) /\ m <= i
    BY <1>0, <1>3
  <2>2. s[m] >= s[i] /\ s[m] < Minute
    BY <1>0, <1>3, <2>1
  <2>3. s[m] \in Nat /\ s[i] \in Nat
    BY <1>0, <2>1
  <2> QED BY <1>0, <2>2, <2>3
<1>6. m - 1 \in 0..Len(s) /\ m - 1 \in Nat /\ (m - 1) + 1 = m
  BY <1>0, <1>3
<1> QED BY <1>4, <1>5, <1>6 DEF Split

\* What pruning a deque drops and keeps.
LEMMA Pruned ==
    ASSUME NEW s \in Deque, NEW n \in Nat, Split(s, n)
    PROVE  /\ OldFetches(s) = n
           /\ Within(s) \in Deque /\ Split(Within(s), 0)
           /\ Len(Within(s)) = Len(s) - n /\ Len(Within(s)) <= Len(s)
           /\ \A i \in 1 .. Len(s) - n : Within(s)[i] = s[n + i]
<1>0. /\ Len(s) \in Nat /\ Minute \in Nat \ {0} /\ n \in 0..Len(s) /\ s \in Seq(0..Minute)
      /\ \A i \in 1..Len(s) : s[i] \in 0..Minute
      /\ \A i, j \in 1..Len(s) : i <= j => s[i] >= s[j]
  BY WebhookKeysAssumption DEF Deque, Split
<1>1. OldFetches(s) = n
  <2>1. Popped(s, n)
    BY <1>0 DEF Split, Popped
  <2>2. ASSUME NEW m \in 0..Len(s), Popped(s, m), m < n PROVE FALSE
    <3>1. m + 1 \in 1..n /\ m < Len(s) /\ m + 1 \in 1..Len(s)
      BY <1>0, <2>2
    <3>2. s[m + 1] >= Minute /\ s[m + 1] < Minute /\ s[m + 1] \in Nat
      BY <1>0, <2>2, <3>1 DEF Split, Popped
    <3> QED BY <1>0, <3>2
  <2>3. ASSUME NEW m \in 0..Len(s), Popped(s, m), n < m PROVE FALSE
    <3>1. n + 1 \in 1..m /\ n + 1 \in n + 1 .. Len(s) /\ n + 1 \in 1..Len(s)
      BY <1>0, <2>3
    <3>2. s[n + 1] >= Minute /\ s[n + 1] < Minute /\ s[n + 1] \in Nat
      BY <1>0, <2>3, <3>1 DEF Split, Popped
    <3> QED BY <1>0, <3>2
  <2>4. \A m \in 0..Len(s) : Popped(s, m) => m = n
    BY <1>0, <2>2, <2>3
  <2>5. OldFetches(s) \in 0..Len(s) /\ Popped(s, OldFetches(s))
    BY <1>0, <2>1 DEF OldFetches
  <2> QED BY <2>4, <2>5
<1>2. Within(s) = SubSeq(s, n + 1, Len(s))
  BY <1>1 DEF Within
<1>3. /\ Within(s) \in Seq(0..Minute) /\ Len(Within(s)) = Len(s) - n
      /\ \A i \in 1 .. Len(s) - n : Within(s)[i] = s[n + i]
  <2> HIDE DEF Within
  <2>1. n + 1 \in 1 .. Len(s) + 1 /\ \A i \in n + 1 .. Len(s) : s[i] \in 0..Minute
    BY <1>0
  <2>2. /\ SubSeq(s, n + 1, Len(s)) \in Seq(0..Minute)
        /\ Len(SubSeq(s, n + 1, Len(s))) = IF n + 1 <= Len(s) THEN Len(s) - (n + 1) + 1 ELSE 0
        /\ \A i \in 1 .. Len(s) - (n + 1) + 1 : SubSeq(s, n + 1, Len(s))[i] = s[n + 1 + i - 1]
    BY <1>0, <2>1, SubSeqProperties
  <2>3. \A i \in 1 .. Len(s) - n : i \in 1 .. Len(s) - (n + 1) + 1 /\ n + 1 + i - 1 = n + i
    BY <1>0
  <2>4. (IF n + 1 <= Len(s) THEN Len(s) - (n + 1) + 1 ELSE 0) = Len(s) - n
    BY <1>0
  <2> QED BY <1>2, <2>2, <2>3, <2>4
<1>4. \A i \in 1 .. Len(s) - n : n + i \in 1..Len(s) /\ n + i \in n + 1 .. Len(s)
  BY <1>0
<1>5. Within(s) \in Deque
  <2>1. ASSUME NEW i \in 1..Len(Within(s)), NEW j \in 1..Len(Within(s)), i <= j
        PROVE  Within(s)[i] >= Within(s)[j]
    <3>1. n + i <= n + j /\ i \in 1 .. Len(s) - n /\ j \in 1 .. Len(s) - n
      BY <1>0, <1>3, <2>1
    <3> QED BY <1>0, <1>3, <1>4, <3>1
  <2> QED BY <1>3, <2>1 DEF Deque
<1>6. Split(Within(s), 0)
  <2>1. \A i \in 1 .. Len(s) : i \in n + 1 .. Len(s) => s[i] < Minute
    BY DEF Split
  <2>2. \A i \in 1..Len(Within(s)) : Within(s)[i] < Minute
    <3> HIDE DEF Within
    <3> QED BY <1>0, <1>3, <1>4, <2>1
  <2>3. \A i \in 0 + 1 .. Len(Within(s)) : i \in 1..Len(Within(s))
    OBVIOUS
  <2>4. 0 \in 0..Len(Within(s))
    BY <1>0, <1>3
  <2> HIDE DEF Within
  <2> QED BY <2>2, <2>3, <2>4 DEF Split
<1>7. Len(Within(s)) <= Len(s)
  BY <1>0, <1>3
<1> QED BY <1>1, <1>3, <1>5, <1>6, <1>7

\* A fetch that starts is the youngest.
LEMMA FetchAppended ==
    ASSUME NEW s \in Deque, Split(s, 0)
    PROVE  /\ Append(s, 0) \in Deque /\ Split(Append(s, 0), 0) /\ Len(Append(s, 0)) = Len(s) + 1
<1>0. /\ Len(s) \in Nat /\ Minute \in Nat \ {0} /\ s \in Seq(0..Minute) /\ 0 \in 0..Minute
      /\ \A i \in 1..Len(s) : s[i] \in 0..Minute /\ s[i] < Minute
      /\ \A i, j \in 1..Len(s) : i <= j => s[i] >= s[j]
  BY WebhookKeysAssumption DEF Deque, Split
<1>1. /\ Append(s, 0) \in Seq(0..Minute) /\ Len(Append(s, 0)) = Len(s) + 1
      /\ \A i \in 1..Len(s) : Append(s, 0)[i] = s[i]
      /\ Append(s, 0)[Len(s) + 1] = 0
  BY <1>0, AppendProperties
<1>2. \A i \in 1 .. Len(s) + 1 : i \in 1..Len(s) \/ i = Len(s) + 1
  BY <1>0
<1>3. ASSUME NEW i \in 1 .. Len(s) + 1, NEW j \in 1 .. Len(s) + 1, i <= j
      PROVE  Append(s, 0)[i] >= Append(s, 0)[j]
  <2>1. CASE j = Len(s) + 1
    <3>1. Append(s, 0)[i] \in Nat
      BY <1>0, <1>1, <1>2
    <3> QED BY <1>1, <2>1, <3>1
  <2>2. CASE j \in 1..Len(s)
    <3>1. i \in 1..Len(s)
      BY <1>0, <1>3, <2>2
    <3> QED BY <1>0, <1>1, <1>3, <2>2, <3>1
  <2> QED BY <1>2, <2>1, <2>2
<1>4. \A i \in 1 .. Len(s) + 1 : Append(s, 0)[i] < Minute
  BY <1>0, <1>1, <1>2
<1>5. Append(s, 0) \in Deque
  BY <1>0, <1>1, <1>3 DEF Deque
<1>6. Split(Append(s, 0), 0)
  BY <1>0, <1>1, <1>4 DEF Split
<1> QED BY <1>1, <1>5, <1>6

\* A tick leaves the order as it is, and what is a minute old stays so.
LEMMA Ageing ==
    ASSUME NEW s \in Deque
    PROVE  /\ Older(s) \in Deque /\ Len(Older(s)) = Len(s)
           /\ \A i \in 1..Len(s) : /\ s[i] >= Minute => Older(s)[i] >= Minute
                                   /\ Older(s)[i] = IF s[i] < Minute THEN s[i] + 1 ELSE Minute
<1>0. /\ Len(s) \in Nat /\ Minute \in Nat \ {0} /\ s \in Seq(0..Minute) /\ DOMAIN s = 1..Len(s)
      /\ \A i \in 1..Len(s) : s[i] \in 0..Minute
      /\ \A i, j \in 1..Len(s) : i <= j => s[i] >= s[j]
  BY WebhookKeysAssumption DEF Deque
<1>1. \A i \in 1..Len(s) : Older(s)[i] = IF s[i] < Minute THEN s[i] + 1 ELSE Minute
  BY <1>0 DEF Older
<1>2. \A i \in 1..Len(s) : Older(s)[i] \in 0..Minute
  BY <1>0, <1>1
<1>3. Older(s) \in Seq(0..Minute) /\ Len(Older(s)) = Len(s)
  <2>1. Older(s) \in [1..Len(s) -> 0..Minute]
    BY <1>0, <1>2 DEF Older
  <2> QED BY <1>0, <2>1, IsASeq, LenProperties
<1>4. ASSUME NEW i \in 1..Len(s), NEW j \in 1..Len(s), i <= j PROVE Older(s)[i] >= Older(s)[j]
  <2>1. s[i] \in 0..Minute /\ s[j] \in 0..Minute /\ s[i] >= s[j]
    BY <1>0, <1>4
  <2> QED BY <1>0, <1>1, <2>1
<1> QED BY <1>0, <1>1, <1>3, <1>4 DEF Deque
-----------------------------------------------------------------------------
(* One fetch for each key *)

KeyHands == [pc : {"idle", "lookup", "wait", "fetch", "land"}, key : Keys \cup {"none"}]

Fetching(r) == r.pc \in {"fetch", "land"}

\* The deque holds all fetches of the last minute, after some that are older.
Remembered ==
    /\ fetches \in Deque /\ recent \in Deque /\ Split(recent, 0)
    /\ Len(fetches) <= MaxFetches
    /\ \E n \in Nat : /\ Split(fetches, n) /\ Len(recent) = Len(fetches) - n
                      /\ \A i \in 1..Len(recent) : recent[i] = fetches[n + i]

KeyTypes ==
    /\ verifier \in [Verifiers -> KeyHands]
    /\ known \subseteq Keys /\ denied \subseteq Keys /\ inflight \subseteq Keys
    /\ woken \subseteq {v \in Verifiers : verifier[v].pc = "wait"}
    /\ \A v \in Verifiers : verifier[v].pc # "idle" => verifier[v].key \in Keys

\* A key is in flight while a thread fetches it, and no other thread does.
Fetchers ==
    /\ \A v \in Verifiers : Fetching(verifier[v]) => verifier[v].key \in inflight
    /\ \A k \in inflight : \E v \in Verifiers : Fetching(verifier[v]) /\ verifier[v].key = k
    /\ \A u, v \in Verifiers : Fetching(verifier[u]) /\ Fetching(verifier[v])
                                  /\ verifier[u].key = verifier[v].key => u = v

Waiters == \A v \in Verifiers : verifier[v].pc = "wait" /\ v \notin woken => verifier[v].key \in inflight

KeysInv == KeyTypes /\ Fetchers /\ Waiters /\ Remembered

LEMMA KeysStart == KeysInit => KeysInv
<1> SUFFICES ASSUME KeysInit PROVE KeysInv
  OBVIOUS
<1>1. KeyTypes /\ Fetchers /\ Waiters
  BY DEF KeysInit, NoKey, KeyTypes, KeyHands, Fetchers, Fetching, Waiters
<1>2. <<>> \in Deque /\ Split(<<>>, 0) /\ Len(<<>>) = 0
  BY DEF Deque, Split
<1>3. Remembered
  BY <1>2, WebhookKeysAssumption DEF KeysInit, Remembered
<1> QED BY <1>1, <1>3 DEF KeysInv

\* The prune of the deque brings it down to the fetches of the last minute.
LEMMA WithinIsRecent == ASSUME Remembered PROVE Within(fetches) = recent
<1>1. PICK n \in Nat : /\ Split(fetches, n) /\ Len(recent) = Len(fetches) - n
                       /\ \A i \in 1..Len(recent) : recent[i] = fetches[n + i]
  BY DEF Remembered
<1>2. /\ Within(fetches) \in Deque /\ Len(Within(fetches)) = Len(recent)
      /\ \A i \in 1..Len(recent) : Within(fetches)[i] = recent[i]
  <2>1. fetches \in Deque
    BY DEF Remembered
  <2>2. /\ Within(fetches) \in Deque /\ Len(Within(fetches)) = Len(fetches) - n
        /\ \A i \in 1 .. Len(fetches) - n : Within(fetches)[i] = fetches[n + i]
    BY <1>1, <2>1, Pruned
  <2> QED BY <1>1, <2>2
<1>3. Within(fetches) \in Seq(0..Minute) /\ recent \in Seq(0..Minute)
  BY <1>2 DEF Remembered, Deque
<1> QED BY <1>2, <1>3, SeqEqual

LEMMA RecentBounded == ASSUME Remembered PROVE Len(recent) <= MaxFetches
<1>1. PICK n \in Nat : Split(fetches, n) /\ Len(recent) = Len(fetches) - n
  BY DEF Remembered
<1>2. Len(fetches) \in Nat /\ MaxFetches \in Nat /\ Len(fetches) <= MaxFetches
  BY WebhookKeysAssumption DEF Remembered, Deque
<1> QED BY <1>1, <1>2

LEMMA RememberedStep ==
    ASSUME KeysInv, [KeysNext]_keyVars
    PROVE  Remembered'
<1>0. Remembered
  BY DEF KeysInv
<1>1. ASSUME UNCHANGED <<fetches, recent>> PROVE Remembered'
  <2>1. PICK n \in Nat : /\ Split(fetches, n) /\ Len(recent) = Len(fetches) - n
                         /\ \A i \in 1..Len(recent) : recent[i] = fetches[n + i]
    BY <1>0 DEF Remembered
  <2>2. fetches' = fetches /\ recent' = recent
    BY <1>1
  <2> QED BY <1>0, <2>1, <2>2 DEF Remembered, Deque, Split
<1>2. ASSUME NEW s \in Deque, Split(s, 0), Len(s) <= MaxFetches, fetches' = s, recent' = s
      PROVE  Remembered'
  <2>1. Len(s) \in Nat /\ Len(s) = Len(s) - 0 /\ \A i \in 1..Len(s) : s[i] = s[0 + i]
    BY DEF Deque
  <2>2. (Split(fetches, 0))'
    BY <1>2 DEF Split
  <2> QED BY <1>2, <2>1, <2>2 DEF Remembered, Deque, Split
<1>3. recent \in Deque /\ Split(recent, 0) /\ Within(fetches) = recent /\ Len(recent) <= MaxFetches
  BY <1>0, WithinIsRecent, RecentBounded DEF Remembered
<1>4. ASSUME NEW v \in Verifiers, Join(v) \/ RateLimited(v) PROVE Remembered'
  <2>1. fetches' = recent /\ recent' = recent
    BY <1>3, <1>4 DEF Join, RateLimited
  <2> QED BY <1>2, <1>3, <2>1
<1>5. ASSUME NEW v \in Verifiers, StartFetch(v) PROVE Remembered'
  <2>1. fetches' = Append(recent, 0) /\ recent' = Append(recent, 0) /\ Len(recent) < MaxFetches
    BY <1>3, <1>5 DEF StartFetch
  <2>2. /\ Append(recent, 0) \in Deque /\ Split(Append(recent, 0), 0)
        /\ Len(Append(recent, 0)) = Len(recent) + 1
    BY <1>3, FetchAppended
  <2>3. Len(Append(recent, 0)) <= MaxFetches
    <3>1. Len(recent) \in Nat /\ MaxFetches \in Nat
      BY <1>3, WebhookKeysAssumption DEF Deque
    <3> QED BY <2>1, <2>2, <3>1
  <2> QED BY <1>2, <2>1, <2>2, <2>3
<1>6. ASSUME Tick PROVE Remembered'
  <2> DEFINE old == Older(fetches)
             aged == Older(recent)
  <2>1. fetches' = old /\ recent' = Within(aged)
    BY <1>6 DEF Tick
  <2>2. /\ fetches \in Deque /\ recent \in Deque /\ Len(fetches) <= MaxFetches
        /\ Len(fetches) \in Nat /\ Len(recent) \in Nat /\ Minute \in Nat
        /\ \A i \in 1..Len(fetches) : fetches[i] \in Nat
    BY <1>0, WebhookKeysAssumption DEF Remembered, Deque
  <2>3. PICK n \in Nat : /\ Split(fetches, n) /\ Len(recent) = Len(fetches) - n
                         /\ \A i \in 1..Len(recent) : recent[i] = fetches[n + i]
    BY <1>0 DEF Remembered
  <2>4. /\ old \in Deque /\ Len(old) = Len(fetches)
        /\ \A i \in 1..Len(fetches) : /\ fetches[i] >= Minute => old[i] >= Minute
                                      /\ old[i] = IF fetches[i] < Minute THEN fetches[i] + 1 ELSE Minute
    BY <2>2, Ageing
  <2>5. /\ aged \in Deque /\ Len(aged) = Len(recent)
        /\ \A i \in 1..Len(recent) : aged[i] = IF recent[i] < Minute THEN recent[i] + 1 ELSE Minute
    BY <2>2, Ageing
  <2> HIDE DEF old, aged
  <2>6. PICK m \in Nat : Split(aged, m)
    BY <2>5, DequeSplits
  <2>7. /\ Within(aged) \in Deque /\ Split(Within(aged), 0) /\ Len(Within(aged)) = Len(aged) - m
        /\ \A i \in 1 .. Len(aged) - m : Within(aged)[i] = aged[m + i]
    BY <2>5, <2>6, Pruned
  <2>8. n \in 0..Len(fetches) /\ m \in 0..Len(recent)
    BY <2>3, <2>5, <2>6 DEF Split
  <2>9. \A i \in 1..Len(recent) : n + i \in 1..Len(fetches) /\ old[n + i] = aged[i]
    <3>1. ASSUME NEW i \in 1..Len(recent)
          PROVE  n + i \in 1..Len(fetches) /\ old[n + i] = aged[i]
      <4>1. n + i \in 1..Len(fetches)
        BY <2>2, <2>3, <2>8
      <4>2. recent[i] = fetches[n + i]
        BY <2>3
      <4> QED BY <2>4, <2>5, <4>1, <4>2
    <3> QED BY <3>1
  <2>10. Split(old, n + m)
    <3>1. n + m \in 0..Len(old)
      BY <2>2, <2>3, <2>4, <2>8
    <3>2. ASSUME NEW i \in 1 .. n + m PROVE old[i] >= Minute
      <4>1. CASE i <= n
        <5>1. i \in 1..n /\ i \in 1..Len(fetches)
          BY <2>2, <2>8, <4>1
        <5> QED BY <2>3, <2>4, <5>1 DEF Split
      <4>2. CASE ~(i <= n)
        <5>1. i - n \in 1..m /\ i - n \in 1..Len(recent) /\ n + (i - n) = i
          BY <2>2, <2>8, <4>2
        <5>2. aged[i - n] >= Minute
          BY <2>6, <5>1 DEF Split
        <5>3. old[n + (i - n)] = aged[i - n]
          BY <2>9, <5>1
        <5> QED BY <5>1, <5>2, <5>3
      <4> QED BY <4>1, <4>2
    <3>3. ASSUME NEW i \in n + m + 1 .. Len(old) PROVE old[i] < Minute
      <4>1. /\ i - n \in m + 1 .. Len(aged) /\ i - n \in 1..Len(recent) /\ n + (i - n) = i
        BY <2>2, <2>3, <2>4, <2>5, <2>8
      <4>2. aged[i - n] < Minute
        BY <2>6, <4>1 DEF Split
      <4>3. old[n + (i - n)] = aged[i - n]
        BY <2>9, <4>1
      <4> QED BY <4>1, <4>2, <4>3
    <3> QED BY <3>1, <3>2, <3>3 DEF Split
  <2>11. Len(Within(aged)) = Len(old) - (n + m)
    BY <2>2, <2>3, <2>4, <2>5, <2>7, <2>8
  <2>12. ASSUME NEW i \in 1..Len(Within(aged)) PROVE Within(aged)[i] = old[(n + m) + i]
    <3>1. i \in 1 .. Len(aged) - m /\ m + i \in 1..Len(recent) /\ n + (m + i) = (n + m) + i
      BY <2>2, <2>5, <2>7, <2>8, <2>12
    <3>2. Within(aged)[i] = aged[m + i] /\ old[n + (m + i)] = aged[m + i]
      BY <2>7, <2>9, <3>1
    <3> QED BY <3>1, <3>2
  <2>13. Len(old) <= MaxFetches /\ n + m \in Nat
    BY <2>2, <2>4
  <2> DEFINE kept == Within(aged)
  <2>14. /\ kept \in Deque /\ Split(kept, 0) /\ Len(kept) = Len(old) - (n + m)
         /\ \A i \in 1..Len(kept) : kept[i] = old[(n + m) + i]
         /\ recent' = kept
    BY <2>1, <2>7, <2>11, <2>12
  <2> HIDE DEF kept
  <2> QED BY <2>1, <2>4, <2>10, <2>13, <2>14 DEF Remembered, Deque, Split
<1>7. CASE UNCHANGED keyVars
  BY <1>1, <1>7 DEF keyVars
<1>8. CASE \/ \E v \in Verifiers : \/ \E k \in Keys : Arrive(v, k)
                                  \/ Answered(v) \/ Fetch(v) \/ Land(v) \/ LookAgain(v) \/ GiveUp(v)
           \/ \E k \in Keys : Expire(k)
  BY <1>1, <1>8 DEF Arrive, Answered, Fetch, Land, LookAgain, GiveUp, Expire
<1> QED BY <1>4, <1>5, <1>6, <1>7, <1>8 DEF KeysNext

\* What a step of one thread does to the threads that fetch and wait.
LEMMA KeyThreadsStep ==
    ASSUME KeysInv, [KeysNext]_keyVars
    PROVE  (KeyTypes /\ Fetchers /\ Waiters)'
<1>0. KeyTypes /\ Fetchers /\ Waiters
  BY DEF KeysInv
<1> DEFINE Goal == (KeyTypes /\ Fetchers /\ Waiters)'
<1>1. ASSUME NEW v \in Verifiers, NEW k \in Keys, Arrive(v, k) PROVE Goal
  BY <1>0, <1>1 DEF Arrive, KeyTypes, KeyHands, Fetchers, Fetching, Waiters
<1>2. ASSUME NEW v \in Verifiers, Answered(v) \/ RateLimited(v) \/ GiveUp(v) PROVE Goal
  BY <1>0, <1>2 DEF Answered, RateLimited, GiveUp, Unanswered, Returns, NoKey,
                    KeyTypes, KeyHands, Fetchers, Fetching, Waiters
<1>3. ASSUME NEW v \in Verifiers, Join(v) PROVE Goal
  BY <1>0, <1>3 DEF Join, Unanswered, Turns, KeyTypes, KeyHands, Fetchers, Fetching, Waiters
<1>4. ASSUME NEW v \in Verifiers, StartFetch(v) PROVE Goal
  BY <1>0, <1>4 DEF StartFetch, Unanswered, Turns, KeyTypes, KeyHands, Fetchers, Fetching, Waiters
<1>5. ASSUME NEW v \in Verifiers, Fetch(v) PROVE Goal
  BY <1>0, <1>5 DEF Fetch, Turns, KeyTypes, KeyHands, Fetchers, Fetching, Waiters
<1>6. ASSUME NEW v \in Verifiers, Land(v) PROVE Goal
  BY <1>0, <1>6 DEF Land, Returns, NoKey, KeyTypes, KeyHands, Fetchers, Fetching, Waiters
<1>7. ASSUME NEW v \in Verifiers, LookAgain(v) PROVE Goal
  BY <1>0, <1>7 DEF LookAgain, Turns, KeyTypes, KeyHands, Fetchers, Fetching, Waiters
<1>8. ASSUME NEW k \in Keys, Expire(k) PROVE Goal
  BY <1>0, <1>8 DEF Expire, KeyTypes, Fetchers, Waiters
<1>9. ASSUME Tick \/ UNCHANGED keyVars PROVE Goal
  BY <1>0, <1>9 DEF Tick, keyVars, KeyTypes, Fetchers, Waiters
<1>10. Goal
  <2> HIDE DEF Goal
  <2>1. ASSUME NEW v \in Verifiers,
               \/ \E k \in Keys : Arrive(v, k)
               \/ Answered(v) \/ Join(v) \/ RateLimited(v) \/ StartFetch(v)
               \/ Fetch(v) \/ Land(v) \/ LookAgain(v) \/ GiveUp(v)
        PROVE  Goal
    BY <1>1, <1>2, <1>3, <1>4, <1>5, <1>6, <1>7, <2>1
  <2> QED
    BY <1>8, <1>9, <2>1 DEF KeysNext
<1> QED BY <1>10

\* Threads that need one verification key share one fetch, every thread that waits
\* for one has somebody to wake it, and the deque, though it is pruned only when
\* somebody looks, keeps every minute within the budget: for every number of
\* threads and keys, every budget and every clock.
THEOREM OneFetchForEachKey == KeysSpec => []FetchesShared
<1>1. KeysInv /\ [KeysNext]_keyVars => KeysInv'
  BY RememberedStep, KeyThreadsStep DEF KeysInv
<1>2. KeysInv => FetchesShared
  <2> SUFFICES ASSUME KeysInv PROVE FetchesShared
    OBVIOUS
  <2>0. KeyTypes /\ Fetchers /\ Waiters /\ Len(recent) <= MaxFetches
    BY RecentBounded DEF KeysInv
  <2>1. ASSUME NEW k \in Keys PROVE Cardinality(FetchersOf(k)) = IF k \in inflight THEN 1 ELSE 0
    <3>1. CASE k \in inflight
      <4>1. PICK v \in Verifiers : Fetching(verifier[v]) /\ verifier[v].key = k
        BY <2>0, <3>1 DEF Fetchers
      <4>2. FetchersOf(k) = {v}
        BY <2>0, <4>1 DEF FetchersOf, Fetchers, Fetching
      <4> QED BY <3>1, <4>2, FS_Singleton
    <3>2. CASE k \notin inflight
      <4>1. FetchersOf(k) = {}
        BY <2>0, <3>2 DEF FetchersOf, Fetchers, Fetching
      <4> QED BY <3>2, <4>1, FS_EmptySet
    <3> QED BY <3>1, <3>2
  <2> QED BY <2>0, <2>1 DEF FetchesShared, Waiters
<1> QED
  BY <1>1, <1>2, KeysStart, PTL DEF KeysSpec

\* The cache of the keys is well typed, and neither the deque nor the last minute
\* ever holds more fetches than the budget.
THEOREM KeysTypeCorrect == KeysSpec => []KeysTypeOK
<1>1. KeysInv /\ [KeysNext]_keyVars => KeysInv'
  BY RememberedStep, KeyThreadsStep DEF KeysInv
<1>2. KeysInv => KeysTypeOK
  <2> SUFFICES ASSUME KeysInv PROVE KeysTypeOK
    OBVIOUS
  <2>1. KeyTypes /\ Len(fetches) <= MaxFetches /\ Len(recent) <= MaxFetches
    BY RecentBounded DEF KeysInv, Remembered
  <2>2. ASSUME NEW s \in Deque, Len(s) <= MaxFetches PROVE s \in Ages
    <3>1. s \in [1..Len(s) -> 0..Minute] /\ Len(s) \in 0..MaxFetches
      BY <2>2, WebhookKeysAssumption DEF Deque
    <3> QED BY <3>1 DEF Ages
  <2> QED BY <2>1, <2>2 DEF KeysInv, Remembered, KeyTypes, KeyHands, KeysTypeOK
<1> QED
  BY <1>1, <1>2, KeysStart, PTL DEF KeysSpec
=============================================================================
