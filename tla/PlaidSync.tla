-------------------------------- MODULE PlaidSync --------------------------------
(***************************************************************************)
(* How the cached transactions of one Plaid Item follow Plaid: webhooks    *)
(* that are received, the requests they leave behind, the workers that     *)
(* claim a request and read the pages of transactions/sync, and the close  *)
(* task that reads them too, for the snapshot of its run.                  *)
(*                                                                         *)
(* Plaid's side is a log of changes to transactions, and a cursor is a     *)
(* position in it.  A stored transaction is named by the change that last  *)
(* wrote it, so that a set of positions says which transactions there are  *)
(* and in which version.                                                   *)
(***************************************************************************)
EXTENDS Naturals, Sequences, SequencesExt

CONSTANTS
    Workers,
    Accounts,
    Feeds,       \* bound: what Plaid's log may be, [transaction, account, removed]
    Selected,    \* the accounts that the mapping of the close selects
    Length,      \* bound: how many changes there are
    MaxAttempts, \* max_attempts of a request
    Nobody

ASSUME PlaidSyncAssumption ==
    /\ \A f \in Feeds : /\ f \in Seq([transaction : STRING, account : Accounts, removed : BOOLEAN])
                      /\ Len(f) = Length
    /\ Selected \subseteq Accounts
    /\ Length \in Nat
    /\ MaxAttempts \in Nat \ {0}
    /\ Nobody \notin Workers

VARIABLES
    feed,        \* Plaid's log, which is of Feeds
    log,         \* how much of it has happened
    healthy,     \* the accounts that have a healthy connection
    receipts,    \* the webhooks in audit.webhook_receipts
    queue,       \* workflow.plaid_sync_requests in order of creation
    request,     \* the rows, by the change that the webhook announces
    stored,      \* normalized.plaid_sync_states of the Item
    snapshot,    \* of the close run, if there is one: its bank transactions
    worker,      \* where a worker is, and what it has in hand
    overwritten  \* an older cursor has replaced a newer one

requestVars == <<receipts, queue, request>>
plaidVars == <<feed, log, healthy, requestVars, stored, snapshot, worker, overwritten>>

Changes == 1..Length

About(i, j) == feed[i].transaction = feed[j].transaction

\* What Plaid holds after the first n changes.
View(n) == {i \in 1..n : ~feed[i].removed /\ \A j \in i + 1 .. n : ~About(i, j)}

NoRequest == [state |-> "none", attempt |-> 0, owner |-> Nobody, live |-> FALSE]

Rest == [pc |-> "idle", job |-> 0, allowed |-> {}, cursor |-> 0, staged |-> {}, refused |-> FALSE]

PlaidInit ==
    /\ feed \in Feeds
    /\ log = 0
    /\ healthy = {feed[i].account : i \in Changes}
    /\ receipts = {}
    /\ queue = <<>>
    /\ request = [n \in Changes |-> NoRequest]
    /\ stored = [cursor |-> 0, records |-> {}]
    /\ snapshot \in [state : {"none", "due"}, cursor : {0}, records : {{}}]
    /\ worker = [w \in Workers |-> Rest]
    /\ overwritten = FALSE

-----------------------------------------------------------------------------
(* Plaid, its webhooks, and the controller *)

Change ==
    /\ log < Length /\ log' = log + 1
    /\ UNCHANGED <<healthy, requestVars, stored, snapshot, worker, overwritten>>

\* record_webhook_receipt.  A webhook comes late, again, out of order or never.
Receive(n) ==
    /\ n <= log
    /\ n \notin receipts
    /\ receipts' = receipts \cup {n}
    /\ IF healthy # {}
       THEN /\ request' = [request EXCEPT ![n].state = "ready"]
            /\ queue' = Append(queue, n)
       ELSE UNCHANGED <<request, queue>>
    /\ UNCHANGED <<log, healthy, stored, snapshot, worker, overwritten>>

\* A receipt that exists answers a repeated delivery.
ReceiveAgain(n) == n \in receipts /\ UNCHANGED plaidVars

\* The controller disconnects an account.  Linking it again makes another Item.
Disconnected(a) ==
    /\ a \in healthy /\ healthy' = healthy \ {a}
    /\ UNCHANGED <<log, requestVars, stored, snapshot, worker, overwritten>>

-----------------------------------------------------------------------------
(* Claiming *)

LeaseExpires(n) ==
    /\ request[n].live
    /\ request' = [request EXCEPT ![n].live = FALSE]
    /\ UNCHANGED <<log, healthy, receipts, queue, stored, snapshot, worker, overwritten>>

Expired(n) == request[n].state = "running" /\ ~request[n].live

Released(n, state) == [request[n] EXCEPT !.state = state, !.owner = Nobody, !.live = FALSE]

\* What every claim does first with the leases that have expired.
Recovered ==
    [n \in Changes |->
        IF ~Expired(n) THEN request[n]
        ELSE Released(n, IF request[n].attempt < MaxAttempts THEN "ready" ELSE "failed")]

TakesRequest(n) == [Rest EXCEPT !.pc = "look", !.job = n]

Claimed(rows, w, n) ==
    [rows EXCEPT ![n] = [state |-> "running", attempt |-> @.attempt + 1, owner |-> w, live |-> TRUE]]

\* The first row in the order of creation that is ready.
Oldest(rows, n) ==
    \E i \in DOMAIN queue :
        /\ queue[i] = n /\ rows[n].state = "ready"
        /\ \A j \in 1..i - 1 : rows[queue[j]].state # "ready"

\* Mutant of Claim: expired leases are not recovered.
ClaimReady(w) ==
    \E n \in Changes :
        /\ worker[w].pc = "idle" /\ Oldest(request, n)
        /\ request' = Claimed(request, w, n)
        /\ worker' = [worker EXCEPT ![w] = TakesRequest(n)]
        /\ UNCHANGED <<log, healthy, receipts, queue, stored, snapshot, overwritten>>

\* The coordinator of a worker process asks for a request, the oldest one first.
Claim(w) ==
    \E n \in Changes :
        /\ worker[w].pc = "idle" /\ Oldest(Recovered, n)
        /\ request' = Claimed(Recovered, w, n)
        /\ worker' = [worker EXCEPT ![w] = TakesRequest(n)]
        /\ UNCHANGED <<log, healthy, receipts, queue, stored, snapshot, overwritten>>

\* When there is none it turns to the close tasks: to the source task of a run, or
\* to something else.
ClaimClose(w) ==
    /\ worker[w].pc = "idle" /\ \A n \in Changes : ~Oldest(Recovered, n)
    /\ request' = Recovered
    /\ \/ snapshot.state = "due" /\ worker' = [worker EXCEPT ![w] = TakesRequest(0)]
       \/ UNCHANGED worker
    /\ UNCHANGED <<log, healthy, receipts, queue, stored, snapshot, overwritten>>

-----------------------------------------------------------------------------
(* Reading.  A read only changes what the worker has in hand; a refused one *)
(* raises TaskBlocked.                                                      *)

Reads(w, hand) ==
    /\ worker' = [worker EXCEPT ![w] = hand]
    /\ UNCHANGED <<log, healthy, requestVars, stored, snapshot, overwritten>>

\* What is left to do for a request, and for the close task nothing.
Ending(hand, refused) ==
    IF hand.job = 0 THEN Rest ELSE [Rest EXCEPT !.pc = "finish", !.job = hand.job, !.refused = refused]

\* The accounts and the credential they share, and the cursor and transactions
\* where the reading starts.
LookUp(w) ==
    LET hand == worker[w]
        needed == IF hand.job = 0 THEN Selected ELSE healthy
    IN  /\ hand.pc = "look"
        /\ Reads(w, IF needed # {} /\ needed \subseteq healthy
                    THEN [hand EXCEPT !.pc = "read", !.allowed = needed,
                                      !.cursor = stored.cursor, !.staged = stored.records]
                    ELSE Ending(hand, TRUE))

\* A page holds the net effect of the changes after cursor, up to and with n.
Upserts(cursor, n)  == View(n) \ 1..cursor
Removals(cursor, n) == {i \in View(cursor) : \A j \in View(n) : ~About(i, j)}

\* Mutant of Staged: removals are reported in the batch, and stay in the cache.
StagedWithoutRemovals(staged, cursor, n) ==
    {i \in staged : \A j \in Upserts(cursor, n) : ~About(i, j)} \cup Upserts(cursor, n)

Staged(staged, cursor, n) ==
    LET added == {i \in staged : \A j \in Upserts(cursor, n) : ~About(i, j)} \cup Upserts(cursor, n)
    IN  {i \in added : \A j \in Removals(cursor, n) : ~About(i, j)}

\* One call of transactions/sync.  The last page is followed by the validation of
\* all transactions that the batch holds; an Item without changes has no cursor.
ReadPage(w, n) ==
    LET hand == worker[w]
        staged == Staged(hand.staged, hand.cursor, n)
        inBatch == staged \cup Removals(hand.cursor, n)
    IN  /\ hand.pc = "read" /\ n \in hand.cursor .. log
        /\ IF n < log
           THEN /\ n > hand.cursor
                /\ Reads(w, [hand EXCEPT !.cursor = n, !.staged = staged])
           ELSE Reads(w, IF n > 0 /\ {feed[i].account : i \in inBatch} \subseteq hand.allowed
                         THEN [hand EXCEPT !.pc = "persist", !.cursor = n, !.staged = staged]
                         ELSE Ending(hand, TRUE))

\* The request to Plaid fails, Plaid refuses it because the data moved while it
\* was paged, the answer is malformed; or Vault or the pool has no connection,
\* which are ValueErrors like the others.
SyncBlocked(w) ==
    /\ worker[w].pc \in {"look", "read", "persist"}
    /\ Reads(w, Ending(worker[w], TRUE))

-----------------------------------------------------------------------------
(* Writing *)

Store(hand) ==
    /\ stored' = [cursor |-> hand.cursor, records |-> hand.staged]
    /\ overwritten' = (overwritten \/ hand.cursor < stored.cursor)

\* persist_plaid_sync_state: an unconditional upsert.
Persist(w) ==
    LET hand == worker[w]
    IN  /\ hand.pc = "persist" /\ hand.job # 0
        /\ Store(hand)
        /\ worker' = [worker EXCEPT ![w] = Ending(hand, FALSE)]
        /\ UNCHANGED <<log, healthy, requestVars, snapshot>>

\* persist_source_snapshot: the first one wins, and writes both at once.
PersistSnapshot(w) ==
    LET hand == worker[w]
    IN  /\ hand.pc = "persist" /\ hand.job = 0
        /\ IF snapshot.state = "taken" THEN UNCHANGED <<stored, snapshot, overwritten>>
           ELSE /\ Store(hand)
                /\ snapshot' = [state |-> "taken", cursor |-> hand.cursor, records |-> hand.staged]
        /\ worker' = [worker EXCEPT ![w] = Rest]
        /\ UNCHANGED <<log, healthy, requestVars>>

Owns(w, n) == request[n].state = "running" /\ request[n].owner = w /\ request[n].live

\* Mutant of Finish: neither the owner nor the lease is compared.
FinishUnfenced(w) ==
    LET hand == worker[w]
    IN  /\ hand.pc = "finish"
        /\ request' = [request EXCEPT ![hand.job] =
                          Released(hand.job, IF hand.refused THEN "blocked" ELSE "succeeded")]
        /\ worker' = [worker EXCEPT ![w] = Rest]
        /\ UNCHANGED <<log, healthy, receipts, queue, stored, snapshot, overwritten>>

\* Mutant of Finish: a request is completed although its sync was refused.
FinishAnyway(w) ==
    LET hand == worker[w]
    IN  /\ hand.pc = "finish"
        /\ IF Owns(w, hand.job)
           THEN request' = [request EXCEPT ![hand.job] = Released(hand.job, "succeeded")]
           ELSE UNCHANGED request
        /\ worker' = [worker EXCEPT ![w] = Rest]
        /\ UNCHANGED <<log, healthy, receipts, queue, stored, snapshot, overwritten>>

\* complete or block, which raise when the lease is lost.
Finish(w) ==
    LET hand == worker[w]
    IN  /\ hand.pc = "finish"
        /\ IF Owns(w, hand.job)
           THEN request' = [request EXCEPT ![hand.job] =
                                Released(hand.job, IF hand.refused THEN "blocked" ELSE "succeeded")]
           ELSE UNCHANGED request
        /\ worker' = [worker EXCEPT ![w] = Rest]
        /\ UNCHANGED <<log, healthy, receipts, queue, stored, snapshot, overwritten>>

\* A statement of _sync raises: the request is retried within its budget.
Fail(w) ==
    LET n == worker[w].job
    IN  /\ worker[w].pc \in {"look", "persist"}
        /\ IF n # 0 /\ Owns(w, n)
           THEN request' = [request EXCEPT ![n] =
                                Released(n, IF @.attempt >= MaxAttempts THEN "failed" ELSE "ready")]
           ELSE UNCHANGED request
        /\ worker' = [worker EXCEPT ![w] = Rest]
        /\ UNCHANGED <<log, healthy, receipts, queue, stored, snapshot, overwritten>>

\* The process dies, or its finishing statement fails; its lease runs on.
Crash(w) ==
    /\ worker[w].pc # "idle"
    /\ worker' = [worker EXCEPT ![w] = Rest]
    /\ UNCHANGED <<log, healthy, requestVars, stored, snapshot, overwritten>>

-----------------------------------------------------------------------------
Work(w) ==
    \/ Claim(w) \/ ClaimClose(w)
    \/ LookUp(w)
    \/ \E n \in 0..log : ReadPage(w, n)
    \/ SyncBlocked(w)
    \/ Persist(w) \/ PersistSnapshot(w)
    \/ Finish(w) \/ Fail(w)

PlaidNext ==
    /\ \/ Change
       \/ \E n \in Changes : Receive(n) \/ ReceiveAgain(n) \/ LeaseExpires(n)
       \/ \E a \in Accounts : Disconnected(a)
       \/ \E w \in Workers : Work(w) \/ Crash(w)
    /\ UNCHANGED feed

PlaidSpec == PlaidInit /\ [][PlaidNext]_plaidVars

\* Worker processes poll on, calls to Plaid have time limits, leases run out.
PlaidFairness ==
    /\ \A w \in Workers : WF_plaidVars(Work(w) /\ UNCHANGED feed)
    /\ \A n \in Changes : WF_plaidVars(LeaseExpires(n) /\ UNCHANGED feed)

-----------------------------------------------------------------------------
Final == {"succeeded", "blocked", "failed"}

PlaidTypeOK ==
    /\ feed \in Feeds
    /\ log \in 0..Length
    /\ healthy \subseteq Accounts
    /\ receipts \subseteq 1..log
    /\ request \in [Changes -> [state : {"none", "ready", "running"} \cup Final,
                                attempt : 0..MaxAttempts,
                                owner : Workers \cup {Nobody}, live : BOOLEAN]]
    /\ IsInjective(queue) /\ ToSet(queue) = {n \in Changes : request[n].state # "none"}
    /\ stored \in [cursor : 0..log, records : SUBSET Changes]
    /\ snapshot \in [state : {"none", "due", "taken"}, cursor : 0..log, records : SUBSET Changes]
    /\ worker \in [Workers -> [pc : {"idle", "look", "read", "persist", "finish"},
                               job : {0} \cup Changes, allowed : SUBSET Accounts,
                               cursor : 0..log, staged : SUBSET Changes, refused : BOOLEAN]]
    /\ overwritten \in BOOLEAN

\* The cached transactions are what Plaid held at the stored cursor, and the
\* snapshot of a close what it held at one point and only of selected accounts:
\* however pages, retries, crashes, removals and overlapping syncs interleave.
\* The next sync applies its pages to this cache, so a mix would never heal.
CacheAtCursor ==
    /\ stored.records = View(stored.cursor)
    /\ snapshot.records = View(snapshot.cursor)
    /\ {feed[i].account : i \in snapshot.records} \subseteq Selected

\* A request that succeeded has brought the cache to the change it announced,
\* except that an overlapping sync which started earlier may take it back.
SucceededMeansSynced ==
    \A n \in Changes : request[n].state = "succeeded" => stored.cursor >= n \/ overwritten

\* A request that has ended stays as it is: neither a repeated webhook nor a
\* worker whose lease was taken over reopens or rewrites it.
FinalRequestsStay ==
    [][\A n \in Changes : request[n].state \in Final => request'[n] = request[n]]_plaidVars

\* Every request ends, within its attempts, whatever crashes.
RequestsEnd ==
    \A n \in Changes : request[n].state \in {"ready", "running"} ~> request[n].state \in Final
=============================================================================
