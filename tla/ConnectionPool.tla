----------------------------- MODULE ConnectionPool -----------------------------
(***************************************************************************)
(* The bounded pool of database connections that each process keeps        *)
(* (supabase_db._ConnectionPool), as its threads see it.  One action is    *)
(* one stretch of code under the pool's condition variable; opening a      *)
(* connection happens outside of it and is a step of its own.              *)
(*                                                                         *)
(* A connection is "up" or "down"; the pool learns which only when it      *)
(* probes the connection.  A thread may hold several connections: a        *)
(* token refresh borrows one for its lock and another one per statement,   *)
(* and gives them back in the opposite order.                              *)
(***************************************************************************)
EXTENDS Integers, Sequences, FiniteSets

CONSTANTS
    Threads,    \* the threads of all processes
    Processes,  \* each process has a pool of its own
    MaxSize,    \* bound: pool_max_size is at most MaxSize
    Deployments \* the pool sizes and placements of threads to look at

ASSUME ConnectionPoolAssumption ==
    /\ IsFiniteSet(Threads)
    /\ MaxSize \in Nat \ {0}
    /\ Deployments \subseteq [size : 1..MaxSize, home : [Threads -> Processes]]

VARIABLES
    size,      \* pool_max_size, which never changes
    home,      \* the process of each thread, which never changes
    idle,      \* _idle, by process: a stack
    created,   \* _created, by process
    waiting,   \* the threads inside Condition.wait
    notified,  \* those of them that a notify has woken
    opening,   \* the threads between the reservation of a slot and its connection
    borrowed   \* the connections a thread holds, oldest first

deployment == <<size, home>>
poolVars == <<idle, created, waiting, notified, opening, borrowed>>

Health == {"up", "down"}

Stack == UNION {[1..n -> Health] : n \in 0..MaxSize}

PoolInit ==
    /\ \E d \in Deployments : size = d.size /\ home = d.home
    /\ idle = [p \in Processes |-> <<>>]
    /\ created = [p \in Processes |-> 0]
    /\ waiting = {}
    /\ notified = {}
    /\ opening = {}
    /\ borrowed = [t \in Threads |-> <<>>]

Top(s) == s[Len(s)]
Pop(s) == SubSeq(s, 1, Len(s) - 1)

\* The position of the first connection that the loop of acquire finds usable,
\* 0 when it discards them all.
Usable(s) == LET ups == {i \in DOMAIN s : s[i] = "up"}
             IN  IF ups = {} THEN 0 ELSE CHOOSE i \in ups : \A j \in ups : j <= i

\* Condition.notify: one thread that waits and has not been woken, if any.
Notify(p) ==
    LET asleep == {t \in waiting \ notified : home[t] = p}
    IN  IF asleep = {} THEN notified' = notified
        ELSE \E t \in asleep : notified' = notified \cup {t}

\* A thread is at the head of acquire's loop on entry, when it is woken, and when
\* its deadline passes: then it looks once more before it raises.
AtHead(t) == t \notin opening

-----------------------------------------------------------------------------
(* acquire *)

\* What the loop takes off the idle stack is probed; what is down is discarded.
TakeIdle(t) ==
    LET p == home[t]
        i == Usable(idle[p])
    IN  /\ AtHead(t) /\ i > 0
        /\ idle' = [idle EXCEPT ![p] = SubSeq(@, 1, i - 1)]
        /\ created' = [created EXCEPT ![p] = @ - (Len(idle[p]) - i)]
        /\ borrowed' = [borrowed EXCEPT ![t] = Append(@, "up")]
        /\ waiting' = waiting \ {t}
        /\ notified' = notified \ {t}
        /\ UNCHANGED opening

\* Mutant of StartOpening: the limit is off by one.
StartOpeningBeyond(t) ==
    LET p == home[t]
        left == created[p] - Len(idle[p])
    IN  /\ AtHead(t) /\ Usable(idle[p]) = 0 /\ left <= size
        /\ idle' = [idle EXCEPT ![p] = <<>>]
        /\ created' = [created EXCEPT ![p] = left + 1]
        /\ opening' = opening \cup {t}
        /\ waiting' = waiting \ {t}
        /\ notified' = notified \ {t}
        /\ UNCHANGED borrowed

\* No idle connection is usable, and the number created stays below the limit.
StartOpening(t) ==
    LET p == home[t]
        left == created[p] - Len(idle[p])
    IN  /\ AtHead(t) /\ Usable(idle[p]) = 0 /\ left < size
        /\ idle' = [idle EXCEPT ![p] = <<>>]
        /\ created' = [created EXCEPT ![p] = left + 1]
        /\ opening' = opening \cup {t}
        /\ waiting' = waiting \ {t}
        /\ notified' = notified \ {t}
        /\ UNCHANGED borrowed

Full(p) == idle[p] = <<>> /\ created[p] >= size

StartWaiting(t) ==
    /\ AtHead(t) /\ Full(home[t])
    /\ waiting' = waiting \cup {t}
    /\ notified' = notified \ {t}
    /\ UNCHANGED <<idle, created, opening, borrowed>>

\* The deadline has passed and there is still nothing.
Exhausted(t) ==
    /\ t \in waiting /\ Full(home[t])
    /\ waiting' = waiting \ {t}
    /\ notified' = notified \ {t}
    /\ UNCHANGED <<idle, created, opening, borrowed>>

OpenSucceeds(t) ==
    /\ t \in opening
    /\ opening' = opening \ {t}
    /\ borrowed' = [borrowed EXCEPT ![t] = Append(@, "up")]
    /\ UNCHANGED <<idle, created, waiting, notified>>

\* Mutant of OpenFails: the reserved slot is not given back.
OpenFailsKeepingSlot(t) ==
    /\ t \in opening
    /\ opening' = opening \ {t}
    /\ Notify(home[t])
    /\ UNCHANGED <<idle, created, waiting, borrowed>>

OpenFails(t) ==
    /\ t \in opening
    /\ opening' = opening \ {t}
    /\ created' = [created EXCEPT ![home[t]] = @ - 1]
    /\ Notify(home[t])
    /\ UNCHANGED <<idle, waiting, borrowed>>

-----------------------------------------------------------------------------
(* release *)

\* Mutant of Release: a waiting thread is not woken for a discarded connection.
ReleaseSilently(t) ==
    LET p == home[t]
    IN  /\ borrowed[t] # <<>>
        /\ borrowed' = [borrowed EXCEPT ![t] = Pop(@)]
        /\ IF Top(borrowed[t]) = "up"
           THEN /\ idle' = [idle EXCEPT ![p] = Append(@, "up")]
                /\ UNCHANGED created
                /\ Notify(p)
           ELSE /\ created' = [created EXCEPT ![p] = @ - 1]
                /\ UNCHANGED <<idle, notified>>
        /\ UNCHANGED <<waiting, opening>>

\* The connection borrowed last goes back if its probe succeeds.
Release(t) ==
    LET p == home[t]
    IN  /\ borrowed[t] # <<>>
        /\ borrowed' = [borrowed EXCEPT ![t] = Pop(@)]
        /\ IF Top(borrowed[t]) = "up"
           THEN idle' = [idle EXCEPT ![p] = Append(@, "up")] /\ UNCHANGED created
           ELSE created' = [created EXCEPT ![p] = @ - 1] /\ UNCHANGED idle
        /\ Notify(p)
        /\ UNCHANGED <<waiting, opening>>

-----------------------------------------------------------------------------
(* The environment *)

IdleBreaks(p, i) ==
    /\ i \in DOMAIN idle[p]
    /\ idle' = [idle EXCEPT ![p][i] = "down"]
    /\ UNCHANGED <<created, waiting, notified, opening, borrowed>>

BorrowedBreaks(t, i) ==
    /\ i \in DOMAIN borrowed[t]
    /\ borrowed' = [borrowed EXCEPT ![t][i] = "down"]
    /\ UNCHANGED <<idle, created, waiting, notified, opening>>

\* The process dies; its successor starts with an empty pool.
ProcessDies(p) ==
    LET own == {t \in Threads : home[t] = p}
    IN  /\ idle' = [idle EXCEPT ![p] = <<>>]
        /\ created' = [created EXCEPT ![p] = 0]
        /\ waiting' = waiting \ own
        /\ notified' = notified \ own
        /\ opening' = opening \ own
        /\ borrowed' = [t \in Threads |-> IF t \in own THEN <<>> ELSE borrowed[t]]

-----------------------------------------------------------------------------
PoolTypeOK ==
    /\ [size |-> size, home |-> home] \in Deployments
    /\ idle \in [Processes -> Stack]
    /\ created \in [Processes -> 0..size]
    /\ waiting \subseteq Threads
    /\ notified \subseteq waiting
    /\ opening \subseteq Threads \ waiting
    /\ borrowed \in [Threads -> Stack]
=============================================================================
