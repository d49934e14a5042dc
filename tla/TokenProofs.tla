------------------------------- MODULE TokenProofs -------------------------------
(***************************************************************************)
(* Proofs about the connection pool and the rotation of a refresh token,   *)
(* for every number of threads, processes and connections.                 *)
(*                                                                         *)
(* Each operation of the pool keeps the count of the connections that      *)
(* exist, stays within the limit, and leaves no thread asleep that the     *)
(* pool could serve.  The threads come in only through AtMostTwo: no       *)
(* thread holds more than two connections.                                 *)
(*                                                                         *)
(* That the stored token, the lock and the threads implement one chain of  *)
(* tokens does not depend on the lock at all: it follows from Xero's       *)
(* accepting a token once, and from what a thread with a token in hand     *)
(* knows of the others.  The lock is needed so that no thread is refused,  *)
(* and the connections that a thread holds in each place of a refresh      *)
(* bound what the pool has to offer.                                       *)
(***************************************************************************)
EXTENDS TokenProperties, FiniteSetTheorems, SequenceTheorems, TLAPS

\* The types of the pool, without the limits on its size.
PoolTypes ==
    /\ size \in Nat \ {0} /\ home \in [Threads -> Processes]
    /\ idle \in [Processes -> Seq(Health)]
    /\ created \in [Processes -> Int]
    /\ waiting \subseteq Threads /\ notified \subseteq waiting
    /\ opening \subseteq Threads \ waiting
    /\ borrowed \in [Threads -> Seq(Health)]

AtMostTwo == \A t \in Threads : Len(borrowed[t]) <= 2

-----------------------------------------------------------------------------
(* The stack of idle connections *)

Less == {ss \in Nat \X Nat : ss[1] < ss[2]}
LEMMA LessWF == IsWellFoundedOn(Less, Nat)
  BY NatLessThanWellFounded, Zenon DEF OpToRel, Less

\* A set of positions has a last one.
LEMMA LastOne ==
    ASSUME NEW n \in Nat, NEW ups, ups \subseteq 1..n, ups # {}
    PROVE  \E i \in ups : \A j \in ups : j <= i
<1> DEFINE below == {n - i : i \in ups}
<1>0. \A i \in ups : n - i \in Nat
  OBVIOUS
<1>1. below \subseteq Nat /\ below # {}
  BY <1>0
<1>2. PICK m \in below : \A k \in below : ~(<<k, m>> \in Less)
  <2> HIDE DEF below
  <2>1. \A T : T \subseteq Nat /\ T # {} => \E x \in T : \A y \in T : ~(<<y, x>> \in Less)
    BY LessWF, WFMin
  <2> QED BY <1>1, <2>1
<1>3. \A k \in below : ~(k < m)
  BY <1>1, <1>2 DEF Less
<1>4. PICK i \in ups : m = n - i
  OBVIOUS
<1>5. ASSUME NEW j \in ups PROVE j <= i
  <2>1. n - j \in below OBVIOUS
  <2>2. ~(n - j < n - i)
    BY <2>1, <1>3, <1>4
  <2> QED BY <2>2
<1> QED BY <1>5

\* The position that acquire takes a connection from is one of the stack's.
LEMMA UsablePosition ==
    ASSUME NEW s \in Seq(Health)
    PROVE  Usable(s) \in 0..Len(s)
<1> DEFINE ups == {i \in DOMAIN s : s[i] = "up"}
<1>1. ups \subseteq 1..Len(s) /\ Len(s) \in Nat
  OBVIOUS
<1>2. CASE ups = {}
  BY <1>1, <1>2 DEF Usable
<1>3. CASE ups # {}
  <2>1. \E i \in ups : \A j \in ups : j <= i
    <3> HIDE DEF ups
    <3> QED BY <1>1, <1>3, LastOne
  <2>2. Usable(s) = CHOOSE i \in ups : \A j \in ups : j <= i
    BY <1>3, Zenon DEF Usable
  <2>3. Usable(s) \in ups
    <3> HIDE DEF ups
    <3> QED BY <2>1, <2>2
  <2> QED BY <1>1, <2>3
<1> QED BY <1>2, <1>3

-----------------------------------------------------------------------------
(* The operations of the pool *)

PoolStep ==
    \/ \E t \in Threads : TakeIdle(t) \/ StartOpening(t) \/ StartWaiting(t) \/ Exhausted(t)
                          \/ OpenSucceeds(t) \/ OpenFails(t) \/ Release(t)
    \/ \E t \in Threads, i \in 1..2 : BorrowedBreaks(t, i)
    \/ \E p \in Processes, i \in 1..MaxSize : IdleBreaks(p, i)
    \/ \E p \in Processes : ProcessDies(p)
    \/ UNCHANGED poolVars

\* What the operations make of a stack of connections.
LEMMA Stacks ==
    /\ <<>> \in Seq(Health) /\ Len(<<>>) = 0
    /\ \A s \in Seq(Health) :
         /\ DOMAIN s = 1..Len(s) /\ Len(s) \in Nat
         /\ Append(s, "up") \in Seq(Health) /\ Len(Append(s, "up")) = Len(s) + 1
         /\ \A i \in 0..Len(s) : SubSeq(s, 1, i) \in Seq(Health) /\ Len(SubSeq(s, 1, i)) = i
         /\ s # <<>> => Pop(s) \in Seq(Health) /\ Len(Pop(s)) = Len(s) - 1
         /\ \A i \in DOMAIN s : /\ [s EXCEPT ![i] = "down"] \in Seq(Health)
                                /\ Len([s EXCEPT ![i] = "down"]) = Len(s)
<1>1. <<>> \in Seq(Health) /\ Len(<<>>) = 0
  OBVIOUS
<1>2. ASSUME NEW s \in Seq(Health)
      PROVE  /\ DOMAIN s = 1..Len(s) /\ Len(s) \in Nat
             /\ Append(s, "up") \in Seq(Health) /\ Len(Append(s, "up")) = Len(s) + 1
  BY DEF Health
<1>3. ASSUME NEW s \in Seq(Health), NEW i \in 0..Len(s)
      PROVE  SubSeq(s, 1, i) \in Seq(Health) /\ Len(SubSeq(s, 1, i)) = i
  <2>1. \A j \in 1..i : s[j] \in Health
    OBVIOUS
  <2> QED BY <2>1, SubSeqProperties
<1>4. ASSUME NEW s \in Seq(Health), s # <<>>
      PROVE  Pop(s) \in Seq(Health) /\ Len(Pop(s)) = Len(s) - 1
  <2>1. Len(s) \in Nat \ {0}
    BY <1>4, EmptySeq
  <2>2. Len(s) - 1 \in 0..Len(s)
    BY <2>1
  <2> QED BY <2>2, <1>3 DEF Pop
<1>5. ASSUME NEW s \in Seq(Health), NEW i \in DOMAIN s
      PROVE  [s EXCEPT ![i] = "down"] \in Seq(Health) /\ Len([s EXCEPT ![i] = "down"]) = Len(s)
  <2>1. i \in 1..Len(s) /\ "down" \in Health
    BY DEF Health
  <2> QED BY <2>1, ExceptSeq
<1> QED BY <1>1, <1>2, <1>3, <1>4, <1>5

-----------------------------------------------------------------------------
(* Counting the connections that threads hold *)

\* Held(p) has one slot for each connection of each thread.
LEMMA HeldSlots ==
    ASSUME PoolTypes, NEW p
    PROVE  \A x : x \in Held(p) <=>
              \E t \in ThreadsOf(p) : \E i \in 1..Len(borrowed[t]) : x = <<t, i>>
<1>1. \A t \in ThreadsOf(p) : DOMAIN borrowed[t] = 1..Len(borrowed[t])
  BY DEF PoolTypes, ThreadsOf
<1> QED BY <1>1 DEF Held

LEMMA HeldSlotsNext ==
    ASSUME PoolTypes', NEW p
    PROVE  \A x : x \in Held(p)' <=>
              \E t \in ThreadsOf(p)' : \E i \in 1..Len(borrowed'[t]) : x = <<t, i>>
<1>1. \A t \in ThreadsOf(p)' : DOMAIN borrowed'[t] = 1..Len(borrowed'[t])
  BY DEF PoolTypes, ThreadsOf
<1> QED BY <1>1 DEF Held

\* What the pool counts is finite.
LEMMA Finite ==
    ASSUME PoolTypes, AtMostTwo, NEW p
    PROVE  /\ IsFiniteSet(ThreadsOf(p)) /\ IsFiniteSet(Held(p))
           /\ IsFiniteSet(opening \cap ThreadsOf(p)) /\ IsFiniteSet(notified \cap ThreadsOf(p))
           /\ Cardinality(ThreadsOf(p)) \in Nat /\ Cardinality(Held(p)) \in Nat
           /\ Cardinality(opening \cap ThreadsOf(p)) \in Nat
           /\ Cardinality(notified \cap ThreadsOf(p)) \in Nat
<1>1. IsFiniteSet(Threads)
  BY ConnectionPoolAssumption
<1>2. IsFiniteSet(Threads \X (1..2))
  <2>1. \A n \in Nat : IsFiniteSet(1..n)
    BY FS_Interval
  <2>2. 2 \in Nat OBVIOUS
  <2> QED BY <1>1, <2>1, <2>2, FS_Product
<1>3. Held(p) \subseteq Threads \X (1..2)
  <2> SUFFICES ASSUME NEW x \in Held(p) PROVE x \in Threads \X (1..2)
    OBVIOUS
  <2>0. PICK t \in ThreadsOf(p) : \E i \in 1..Len(borrowed[t]) : x = <<t, i>>
    BY HeldSlots
  <2>1. PICK i \in 1..Len(borrowed[t]) : x = <<t, i>>
    BY <2>0
  <2>2. t \in Threads /\ Len(borrowed[t]) \in Nat /\ Len(borrowed[t]) <= 2
    BY DEF ThreadsOf, PoolTypes, AtMostTwo
  <2>3. i \in 1..2
    BY <2>2
  <2> QED BY <2>1, <2>2, <2>3
<1>4. /\ ThreadsOf(p) \in SUBSET Threads /\ opening \cap ThreadsOf(p) \in SUBSET Threads
      /\ notified \cap ThreadsOf(p) \in SUBSET Threads
  BY DEF ThreadsOf
<1>5. IsFiniteSet(Held(p))
  BY <1>2, <1>3, FS_Subset
<1>6. /\ IsFiniteSet(ThreadsOf(p)) /\ IsFiniteSet(opening \cap ThreadsOf(p))
      /\ IsFiniteSet(notified \cap ThreadsOf(p))
  BY <1>1, <1>4, FS_Subset
<1> QED BY <1>5, <1>6, FS_CardinalityType

\* Borrowing adds one slot to the process of the thread, and releasing takes one away.
LEMMA HeldAfterBorrow ==
    ASSUME PoolTypes, AtMostTwo, NEW t \in Threads, UNCHANGED home, PoolTypes',
           borrowed' = [borrowed EXCEPT ![t] = Append(@, "up")], NEW p
    PROVE  Cardinality(Held(p))' = Cardinality(Held(p)) + (IF p = home[t] THEN 1 ELSE 0)
<1> DEFINE slot == <<t, Len(borrowed[t]) + 1>>
<1>1. \A u \in Threads : Len(borrowed'[u]) = IF u = t THEN Len(borrowed[u]) + 1 ELSE Len(borrowed[u])
  BY DEF PoolTypes
<1>2. Len(borrowed[t]) \in Nat
  BY DEF PoolTypes
<1>3. ThreadsOf(p)' = ThreadsOf(p)
  BY DEF ThreadsOf
<1>4. \A x : x \in Held(p)' <=>
          \E u \in ThreadsOf(p) : \E i \in 1..Len(borrowed'[u]) : x = <<u, i>>
  BY <1>3, HeldSlotsNext
<1>5. CASE p = home[t]
  <2>1. t \in ThreadsOf(p)
    BY <1>5 DEF ThreadsOf
  <2>2. slot \notin Held(p)
    BY <1>2, HeldSlots DEF ThreadsOf
  <2>3. Held(p)' = Held(p) \cup {slot}
    <3>1. slot \in Held(p)'
      BY <1>1, <1>2, <1>4, <2>1
    <3>2. \A x \in Held(p) : x \in Held(p)'
      <4> SUFFICES ASSUME NEW u \in ThreadsOf(p), NEW i \in 1..Len(borrowed[u])
                   PROVE i \in 1..Len(borrowed'[u])
        BY <1>4, HeldSlots
      <4> QED BY <1>1 DEF ThreadsOf, PoolTypes
    <3>3. \A x \in Held(p)' : x \in Held(p) \/ x = slot
      <4> SUFFICES ASSUME NEW u \in ThreadsOf(p), NEW i \in 1..Len(borrowed'[u])
                   PROVE i \in 1..Len(borrowed[u]) \/ <<u, i>> = slot
        BY <1>4, HeldSlots
      <4> QED BY <1>1, <1>2 DEF ThreadsOf, PoolTypes
    <3> QED BY <3>1, <3>2, <3>3
  <2> QED BY <1>5, <2>2, <2>3, Finite, FS_AddElement
<1>6. CASE p # home[t]
  <2>1. t \notin ThreadsOf(p)
    BY <1>6 DEF ThreadsOf
  <2>3. \A u \in ThreadsOf(p) : Len(borrowed'[u]) = Len(borrowed[u])
    BY <1>1, <2>1 DEF ThreadsOf
  <2>4. \A x : x \in Held(p)' <=> x \in Held(p)
    BY <1>4, <2>3, HeldSlots
  <2>2. Held(p)' = Held(p)
    BY <2>4
  <2>5. Cardinality(Held(p)) \in Nat
    BY Finite
  <2> QED BY <1>6, <2>2, <2>5
<1> QED BY <1>5, <1>6

LEMMA HeldAfterRelease ==
    ASSUME PoolTypes, AtMostTwo, NEW t \in Threads, UNCHANGED home, PoolTypes',
           borrowed[t] # <<>>, borrowed' = [borrowed EXCEPT ![t] = Pop(@)], NEW p
    PROVE  Cardinality(Held(p))' = Cardinality(Held(p)) - (IF p = home[t] THEN 1 ELSE 0)
<1> DEFINE slot == <<t, Len(borrowed[t])>>
<1>0. Len(borrowed[t]) \in Nat \ {0}
  BY EmptySeq DEF PoolTypes
<1>1. \A u \in Threads : Len(borrowed'[u]) = IF u = t THEN Len(borrowed[u]) - 1 ELSE Len(borrowed[u])
  BY <1>0, Stacks DEF PoolTypes
<1>3. ThreadsOf(p)' = ThreadsOf(p)
  BY DEF ThreadsOf
<1>4. \A x : x \in Held(p)' <=>
          \E u \in ThreadsOf(p) : \E i \in 1..Len(borrowed'[u]) : x = <<u, i>>
  BY <1>3, HeldSlotsNext
<1>5. CASE p = home[t]
  <2>1. t \in ThreadsOf(p)
    BY <1>5 DEF ThreadsOf
  <2>2. slot \in Held(p)
    BY <1>0, <2>1, HeldSlots
  <2>3. Held(p)' = Held(p) \ {slot}
    <3>1. slot \notin Held(p)'
      BY <1>0, <1>1, <1>4 DEF ThreadsOf
    <3>2. \A x \in Held(p)' : x \in Held(p)
      <4> SUFFICES ASSUME NEW u \in ThreadsOf(p), NEW i \in 1..Len(borrowed'[u])
                   PROVE i \in 1..Len(borrowed[u])
        BY <1>4, HeldSlots
      <4> QED BY <1>0, <1>1 DEF ThreadsOf, PoolTypes
    <3>3. \A x \in Held(p) : x \in Held(p)' \/ x = slot
      <4> SUFFICES ASSUME NEW u \in ThreadsOf(p), NEW i \in 1..Len(borrowed[u])
                   PROVE i \in 1..Len(borrowed'[u]) \/ <<u, i>> = slot
        BY <1>4, HeldSlots
      <4> QED BY <1>0, <1>1 DEF ThreadsOf, PoolTypes
    <3> QED BY <3>1, <3>2, <3>3
  <2>4. Cardinality(Held(p)) \in Nat
    BY Finite
  <2>5. Cardinality(Held(p) \ {slot}) = Cardinality(Held(p)) - 1
    BY <2>2, Finite, FS_RemoveElement
  <2> QED BY <1>5, <2>3, <2>4, <2>5
<1>6. CASE p # home[t]
  <2>1. t \notin ThreadsOf(p)
    BY <1>6 DEF ThreadsOf
  <2>2. \A u \in ThreadsOf(p) : Len(borrowed'[u]) = Len(borrowed[u])
    BY <1>1, <2>1 DEF ThreadsOf
  <2>3. \A x : x \in Held(p)' <=> x \in Held(p)
    BY <1>4, <2>2, HeldSlots
  <2>4. Held(p)' = Held(p)
    BY <2>3
  <2>5. Cardinality(Held(p)) \in Nat
    BY Finite
  <2> QED BY <1>6, <2>4, <2>5
<1> QED BY <1>5, <1>6

LEMMA HeldUnchanged ==
    ASSUME PoolTypes, PoolTypes', UNCHANGED home, NEW p,
           \A t \in ThreadsOf(p) : Len(borrowed'[t]) = Len(borrowed[t])
    PROVE  Held(p)' = Held(p)
<1>1. ThreadsOf(p)' = ThreadsOf(p)
  BY DEF ThreadsOf
<1>2. \A x : x \in Held(p)' <=> x \in Held(p)
  BY <1>1, HeldSlots, HeldSlotsNext
<1> QED BY <1>2

\* One element more or less among those of a set that belong to a process.
LEMMA CountAdd ==
    ASSUME NEW A, NEW B, NEW x, IsFiniteSet(A \cap B), x \notin A
    PROVE  /\ x \in B => Cardinality((A \cup {x}) \cap B) = Cardinality(A \cap B) + 1
           /\ x \notin B => Cardinality((A \cup {x}) \cap B) = Cardinality(A \cap B)
<1>2. CASE x \in B
  <2>1. (A \cup {x}) \cap B = (A \cap B) \cup {x}
    BY <1>2
  <2> QED BY <1>2, <2>1, FS_AddElement
<1>3. CASE x \notin B
  <2>1. (A \cup {x}) \cap B = A \cap B
    BY <1>3
  <2> QED BY <1>3, <2>1, Zenon
<1> QED BY <1>2, <1>3

LEMMA CountRemove ==
    ASSUME NEW A, NEW B, NEW x, IsFiniteSet(A \cap B)
    PROVE  Cardinality((A \ {x}) \cap B) =
               Cardinality(A \cap B) - (IF x \in A \cap B THEN 1 ELSE 0)
<1>1. (A \ {x}) \cap B = (A \cap B) \ {x}
  OBVIOUS
<1>2. Cardinality(A \cap B) \in Nat
  BY FS_CardinalityType
<1> QED BY <1>1, <1>2, FS_RemoveElement

-----------------------------------------------------------------------------
(* The types *)

LEMMA PoolTypesStep ==
    ASSUME PoolTypes, UNCHANGED deployment, PoolStep
    PROVE  PoolTypes'
<1> USE DEF PoolTypes, deployment
<1>1. ASSUME NEW t \in Threads, TakeIdle(t) PROVE PoolTypes'
  <2>1. Usable(idle[home[t]]) - 1 \in 0..Len(idle[home[t]])
    BY <1>1, UsablePosition DEF TakeIdle
  <2> QED BY <1>1, <2>1, UsablePosition, Stacks DEF TakeIdle, AtHead
<1>2. ASSUME NEW t \in Threads, StartOpening(t) PROVE PoolTypes'
  BY <1>2, Stacks DEF StartOpening, AtHead
<1>3. ASSUME NEW t \in Threads, StartWaiting(t) PROVE PoolTypes'
  BY <1>3 DEF StartWaiting, AtHead
<1>4. ASSUME NEW t \in Threads, Exhausted(t) PROVE PoolTypes'
  BY <1>4 DEF Exhausted
<1>5. ASSUME NEW t \in Threads, OpenSucceeds(t) PROVE PoolTypes'
  BY <1>5, Stacks DEF OpenSucceeds
<1>6. ASSUME NEW t \in Threads, OpenFails(t) PROVE PoolTypes'
  BY <1>6 DEF OpenFails, Notify
<1>7. ASSUME NEW t \in Threads, Release(t) PROVE PoolTypes'
  <2>1. borrowed' \in [Threads -> Seq(Health)]
    BY <1>7, Stacks DEF Release
  <2>2. idle' \in [Processes -> Seq(Health)]
    <3>1. idle' = idle \/ idle' = [idle EXCEPT ![home[t]] = Append(@, "up")]
      BY <1>7 DEF Release
    <3>2. Append(idle[home[t]], "up") \in Seq(Health)
      BY Stacks
    <3> QED BY <3>1, <3>2
  <2>4. created' \in [Processes -> Int]
    BY <1>7 DEF Release
  <2>3. notified' \subseteq waiting' /\ waiting' = waiting /\ opening' = opening
    BY <1>7 DEF Release, Notify
  <2> QED BY <2>1, <2>2, <2>3, <2>4
<1>8. ASSUME NEW t \in Threads, NEW i \in 1..2, BorrowedBreaks(t, i) PROVE PoolTypes'
  BY <1>8, Stacks DEF BorrowedBreaks
<1>9. ASSUME NEW p \in Processes, NEW i \in 1..MaxSize, IdleBreaks(p, i) PROVE PoolTypes'
  BY <1>9, Stacks DEF IdleBreaks
<1>10. ASSUME NEW p \in Processes, ProcessDies(p) PROVE PoolTypes'
  BY <1>10, Stacks DEF ProcessDies
<1>11. CASE UNCHANGED poolVars
  BY <1>11 DEF poolVars
<1> QED BY <1>1, <1>2, <1>3, <1>4, <1>5, <1>6, <1>7, <1>8, <1>9, <1>10, <1>11 DEF PoolStep

-----------------------------------------------------------------------------
(* The count of connections *)

Counts(p) ==
    /\ created[p] \in Int /\ Len(idle[p]) \in Nat
    /\ Cardinality(opening \cap ThreadsOf(p)) \in Nat
    /\ Cardinality(Held(p)) \in Nat /\ Cardinality(notified \cap ThreadsOf(p)) \in Nat

LEMMA CountsAreNumbers ==
    ASSUME PoolTypes, AtMostTwo, NEW p \in Processes PROVE Counts(p)
BY Finite, Stacks DEF Counts, PoolTypes

\* How many connections a process could still hand out, up to the constant size.
Spare(p) == Len(idle[p]) - created[p]

\* 1 when the thread belongs to the process.
Own(t, p) == IF p = home[t] THEN 1 ELSE 0

\* Every operation changes the spare connections of the process of its thread by
\* one at most, whatever it discards on its way.
LEMMA SpareAfter ==
    ASSUME PoolTypes, UNCHANGED deployment, NEW p \in Processes
    PROVE  /\ \A t \in Threads :
                /\ TakeIdle(t) \/ StartOpening(t) => Spare(p)' = Spare(p) - Own(t, p)
                /\ StartWaiting(t) \/ Exhausted(t) \/ OpenSucceeds(t) => Spare(p)' = Spare(p)
                /\ OpenFails(t) \/ Release(t) => Spare(p)' = Spare(p) + Own(t, p)
                /\ \A i : BorrowedBreaks(t, i) => Spare(p)' = Spare(p)
           /\ \A q \in Processes :
                /\ \A i : IdleBreaks(q, i) => Spare(p)' = Spare(p)
                /\ ProcessDies(q) /\ q # p => Spare(p)' = Spare(p)
<1> USE DEF PoolTypes, Spare, Own
<1>0. /\ created[p] \in Int /\ Len(idle[p]) \in Nat /\ idle[p] \in Seq(Health)
      /\ \A t \in Threads : home[t] \in Processes
  BY Stacks
<1>1. ASSUME NEW t \in Threads, TakeIdle(t) PROVE Spare(p)' = Spare(p) - Own(t, p)
  <2>1. CASE p = home[t]
    <3> DEFINE i == Usable(idle[p])
    <3>1. i \in 1..Len(idle[p]) /\ i - 1 \in 0..Len(idle[p])
      BY <1>0, <1>1, <2>1, UsablePosition DEF TakeIdle
    <3>2. Len(idle'[p]) = i - 1 /\ created'[p] = created[p] - (Len(idle[p]) - i)
      BY <1>0, <1>1, <2>1, <3>1, Stacks DEF TakeIdle
    <3> HIDE DEF i
    <3> QED BY <1>0, <2>1, <3>1, <3>2
  <2>2. CASE p # home[t]
    BY <1>0, <1>1, <2>2 DEF TakeIdle
  <2> QED BY <2>1, <2>2
<1>2. ASSUME NEW t \in Threads, StartOpening(t) PROVE Spare(p)' = Spare(p) - Own(t, p)
  BY <1>0, <1>2, Stacks DEF StartOpening
<1>3. ASSUME NEW t \in Threads, StartWaiting(t) \/ Exhausted(t) \/ OpenSucceeds(t)
      PROVE  Spare(p)' = Spare(p)
  BY <1>3 DEF StartWaiting, Exhausted, OpenSucceeds
<1>4. ASSUME NEW t \in Threads, OpenFails(t) PROVE Spare(p)' = Spare(p) + Own(t, p)
  BY <1>0, <1>4 DEF OpenFails
<1>5. ASSUME NEW t \in Threads, Release(t) PROVE Spare(p)' = Spare(p) + Own(t, p)
  <2>1. \/ idle' = [idle EXCEPT ![home[t]] = Append(@, "up")] /\ created' = created
        \/ created' = [created EXCEPT ![home[t]] = @ - 1] /\ idle' = idle
    BY <1>5 DEF Release
  <2>2. Len(Append(idle[p], "up")) = Len(idle[p]) + 1
    BY <1>0, Stacks
  <2> QED BY <1>0, <2>1, <2>2
<1>6. ASSUME NEW t \in Threads, NEW i, BorrowedBreaks(t, i) PROVE Spare(p)' = Spare(p)
  BY <1>6 DEF BorrowedBreaks
<1>7. ASSUME NEW q \in Processes, NEW i, IdleBreaks(q, i) PROVE Spare(p)' = Spare(p)
  BY <1>0, <1>7, Stacks DEF IdleBreaks
<1>8. ASSUME NEW q \in Processes, ProcessDies(q), q # p PROVE Spare(p)' = Spare(p)
  BY <1>8 DEF ProcessDies
<1> QED BY <1>1, <1>2, <1>3, <1>4, <1>5, <1>6, <1>7, <1>8

\* What an operation adds to the spare connections it takes from those that are
\* being opened or held, and the other way round.
LEMMA AccountedStep ==
    ASSUME PoolTypes, AtMostTwo, PoolAccounted, UNCHANGED deployment, PoolStep
    PROVE  PoolAccounted'
<1>0. PoolTypes'
  BY PoolTypesStep
<1>h. home' = home /\ \A p : ThreadsOf(p)' = ThreadsOf(p)
  BY DEF deployment, ThreadsOf
<1> SUFFICES ASSUME NEW p \in Processes
             PROVE  created'[p] = Len(idle'[p]) + Cardinality(opening' \cap ThreadsOf(p))
                                  + Cardinality(Held(p)')
  BY <1>h DEF PoolAccounted
<1> DEFINE Goal == created'[p] = Len(idle'[p]) + Cardinality(opening' \cap ThreadsOf(p))
                                 + Cardinality(Held(p)')
           Opens(n) == Cardinality(opening' \cap ThreadsOf(p)) = Cardinality(opening \cap ThreadsOf(p)) + n
           Borrows(n) == Cardinality(Held(p)') = Cardinality(Held(p)) + n
<1>a. created[p] = Len(idle[p]) + Cardinality(opening \cap ThreadsOf(p)) + Cardinality(Held(p))
  BY DEF PoolAccounted
<1>b. Counts(p) /\ Len(idle'[p]) \in Nat /\ created'[p] \in Int
  BY <1>0, CountsAreNumbers, Stacks DEF PoolTypes
<1>c. ASSUME NEW n \in Int, NEW m \in Int, Spare(p)' = Spare(p) - (n + m), Opens(n), Borrows(m)
      PROVE  Goal
  <2> DEFINE o == Cardinality(opening \cap ThreadsOf(p))
             h == Cardinality(Held(p))
             o1 == Cardinality(opening' \cap ThreadsOf(p))
             h1 == Cardinality(Held(p)')
  <2>1. o \in Int /\ h \in Int /\ o1 = o + n /\ h1 = h + m
    BY <1>b, <1>c DEF Counts
  <2>2. Spare(p) + (o + h) = 0
    <3>1. created[p] \in Int /\ Len(idle[p]) \in Int /\ created[p] = Len(idle[p]) + o + h
      BY <1>a, <1>b DEF Counts
    <3> HIDE DEF o, h, o1, h1
    <3> QED BY <2>1, <3>1 DEF Spare
  <2>3. Spare(p)' + (o1 + h1) = 0
    <3>1. Spare(p) \in Int /\ Spare(p)' = Spare(p) - (n + m)
      BY <1>b, <1>c DEF Counts, Spare
    <3> HIDE DEF o, h, o1, h1
    <3> QED BY <2>1, <2>2, <3>1
  <2>4. created'[p] = Len(idle'[p]) + o1 + h1
    <3>1. Spare(p)' = Len(idle'[p]) - created'[p]
      BY DEF Spare
    <3>2. o1 \in Int /\ h1 \in Int
      BY <2>1
    <3> HIDE DEF o, h, o1, h1
    <3> QED BY <1>b, <2>3, <3>1, <3>2
  <2> QED BY <2>4
<1>d. (\A t \in ThreadsOf(p) : Len(borrowed'[t]) = Len(borrowed[t])) => Borrows(0)
  BY <1>0, <1>b, <1>h, HeldUnchanged DEF Counts
<1>e. opening' = opening => Opens(0)
  BY <1>b DEF Counts
<1>f. IsFiniteSet(opening \cap ThreadsOf(p))
  BY Finite
<1>g. \A t \in Threads : (t \in ThreadsOf(p) <=> p = home[t])
  BY DEF ThreadsOf
<1>i. /\ Spare(p) \in Int /\ Spare(p)' \in Int
      /\ \A t \in Threads : Own(t, p) \in Int /\ (0 - Own(t, p)) \in Int
      /\ 0 \in Int /\ 0 + 0 = 0 /\ Spare(p) - 0 = Spare(p)
  BY <1>b DEF Counts, Spare, Own
<1>j. \A t \in Threads : /\ t \notin opening /\ opening' = opening \cup {t} => Opens(Own(t, p))
                         /\ t \in opening /\ opening' = opening \ {t} => Opens(0 - Own(t, p))
  <2> SUFFICES ASSUME NEW t \in Threads
               PROVE  /\ t \notin opening /\ opening' = opening \cup {t} => Opens(Own(t, p))
                      /\ t \in opening /\ opening' = opening \ {t} => Opens(0 - Own(t, p))
    OBVIOUS
  <2>1. ASSUME t \notin opening, opening' = opening \cup {t} PROVE Opens(Own(t, p))
    BY <1>b, <1>f, <1>g, <2>1, CountAdd DEF Counts, Own
  <2>2. ASSUME t \in opening, opening' = opening \ {t} PROVE Opens(0 - Own(t, p))
    BY <1>b, <1>f, <1>g, <2>2, CountRemove DEF Counts, Own
  <2> QED BY <2>1, <2>2
<1>k. \A t \in Threads :
         /\ borrowed' = [borrowed EXCEPT ![t] = Append(@, "up")] => Borrows(Own(t, p))
         /\ borrowed[t] # <<>> /\ borrowed' = [borrowed EXCEPT ![t] = Pop(@)] => Borrows(0 - Own(t, p))
  <2> SUFFICES ASSUME NEW t \in Threads
      PROVE /\ borrowed' = [borrowed EXCEPT ![t] = Append(@, "up")] => Borrows(Own(t, p))
            /\ borrowed[t] # <<>> /\ borrowed' = [borrowed EXCEPT ![t] = Pop(@)] => Borrows(0 - Own(t, p))
    OBVIOUS
  <2>1. ASSUME borrowed' = [borrowed EXCEPT ![t] = Append(@, "up")] PROVE Borrows(Own(t, p))
    BY <1>0, <1>h, <2>1, HeldAfterBorrow DEF Own
  <2>2. ASSUME borrowed[t] # <<>>, borrowed' = [borrowed EXCEPT ![t] = Pop(@)]
        PROVE Borrows(0 - Own(t, p))
    <3>1. Cardinality(Held(p)') = Cardinality(Held(p)) - Own(t, p)
      BY <1>0, <1>h, <2>2, HeldAfterRelease DEF Own
    <3> QED BY <1>b, <1>i, <3>1 DEF Counts
  <2> QED BY <2>1, <2>2
<1>1. ASSUME NEW t \in Threads, TakeIdle(t) PROVE Goal
  <2>1. Opens(0) /\ Borrows(Own(t, p)) /\ Spare(p)' = Spare(p) - Own(t, p)
    BY <1>1, <1>e, <1>k, SpareAfter DEF TakeIdle
  <2> HIDE DEF Opens, Borrows, Goal
  <2> QED BY <1>c, <1>i, <2>1
<1>2. ASSUME NEW t \in Threads, StartOpening(t) PROVE Goal
  <2>1. Opens(Own(t, p)) /\ Borrows(0) /\ Spare(p)' = Spare(p) - Own(t, p)
    BY <1>2, <1>d, <1>j, SpareAfter DEF StartOpening, AtHead
  <2> HIDE DEF Opens, Borrows, Goal
  <2> QED BY <1>c, <1>i, <2>1
<1>3. ASSUME NEW t \in Threads, StartWaiting(t) \/ Exhausted(t) PROVE Goal
  <2>1. Opens(0) /\ Borrows(0) /\ Spare(p)' = Spare(p)
    BY <1>3, <1>d, <1>e, SpareAfter DEF StartWaiting, Exhausted
  <2> HIDE DEF Opens, Borrows, Goal
  <2> QED BY <1>c, <1>i, <2>1
<1>4. ASSUME NEW t \in Threads, OpenSucceeds(t) PROVE Goal
  <2>1. Opens(0 - Own(t, p)) /\ Borrows(Own(t, p)) /\ Spare(p)' = Spare(p)
    BY <1>4, <1>j, <1>k, SpareAfter DEF OpenSucceeds
  <2> HIDE DEF Opens, Borrows, Goal
  <2> QED BY <1>c, <1>i, <2>1
<1>5. ASSUME NEW t \in Threads, OpenFails(t) PROVE Goal
  <2>1. Opens(0 - Own(t, p)) /\ Borrows(0) /\ Spare(p)' = Spare(p) + Own(t, p)
    BY <1>5, <1>d, <1>j, SpareAfter DEF OpenFails
  <2> HIDE DEF Opens, Borrows, Goal
  <2> QED BY <1>c, <1>i, <2>1
<1>6. ASSUME NEW t \in Threads, Release(t) PROVE Goal
  <2>1. Opens(0) /\ Borrows(0 - Own(t, p)) /\ Spare(p)' = Spare(p) + Own(t, p)
    BY <1>6, <1>e, <1>k, SpareAfter DEF Release
  <2> HIDE DEF Opens, Borrows, Goal
  <2> QED BY <1>c, <1>i, <2>1
<1>7. ASSUME NEW t \in Threads, NEW i \in 1..2, BorrowedBreaks(t, i) PROVE Goal
  <2>1. Opens(0) /\ Borrows(0) /\ Spare(p)' = Spare(p)
    <3>1. \A u \in ThreadsOf(p) : Len(borrowed'[u]) = Len(borrowed[u])
      BY <1>7, Stacks DEF BorrowedBreaks, PoolTypes, ThreadsOf
    <3> QED BY <1>7, <3>1, <1>d, <1>e, SpareAfter DEF BorrowedBreaks
  <2> HIDE DEF Opens, Borrows, Goal
  <2> QED BY <1>c, <1>i, <2>1
<1>8. ASSUME NEW q \in Processes, NEW i \in 1..MaxSize, IdleBreaks(q, i) PROVE Goal
  <2>1. Opens(0) /\ Borrows(0) /\ Spare(p)' = Spare(p)
    BY <1>8, <1>d, <1>e, SpareAfter DEF IdleBreaks
  <2> HIDE DEF Opens, Borrows, Goal
  <2> QED BY <1>c, <1>i, <2>1
<1>9. ASSUME NEW q \in Processes, ProcessDies(q), q # p PROVE Goal
  <2>1. Opens(0)
    <3>1. opening' \cap ThreadsOf(p) = opening \cap ThreadsOf(p)
      BY <1>9 DEF ProcessDies, ThreadsOf
    <3>2. Cardinality(opening' \cap ThreadsOf(p)) = Cardinality(opening \cap ThreadsOf(p))
      BY <3>1, Zenon
    <3> QED BY <1>b, <3>2 DEF Counts
  <2>2. Borrows(0)
    <3>1. \A u \in ThreadsOf(p) : Len(borrowed'[u]) = Len(borrowed[u])
      BY <1>9 DEF ProcessDies, ThreadsOf
    <3> QED BY <3>1, <1>d
  <2>3. Spare(p)' = Spare(p)
    BY <1>9, SpareAfter
  <2> HIDE DEF Opens, Borrows, Goal
  <2> QED BY <1>c, <1>i, <2>1, <2>2, <2>3
<1>10. ASSUME ProcessDies(p) PROVE Goal
  <2>1. created'[p] = 0 /\ Len(idle'[p]) = 0
    BY <1>10, Stacks DEF ProcessDies, PoolTypes
  <2>2. opening' \cap ThreadsOf(p) = {}
    BY <1>10 DEF ProcessDies, ThreadsOf
  <2>3. Held(p)' = {}
    <3>1. \A u \in ThreadsOf(p) : 1..Len(borrowed'[u]) = {}
      BY <1>10, Stacks DEF ProcessDies, ThreadsOf
    <3> QED BY <1>0, <1>h, <3>1, HeldSlotsNext
  <2>4. Cardinality(opening' \cap ThreadsOf(p)) = 0 /\ Cardinality(Held(p)') = 0
    BY <2>2, <2>3, FS_EmptySet, Zenon
  <2> QED BY <2>1, <2>4
<1>11. ASSUME UNCHANGED poolVars PROVE Goal
  <2>1. Opens(0) /\ Borrows(0) /\ Spare(p)' = Spare(p)
    BY <1>11, <1>d, <1>e DEF poolVars, Spare
  <2> HIDE DEF Opens, Borrows, Goal
  <2> QED BY <1>c, <1>i, <2>1
<1> HIDE DEF Opens, Borrows, Goal
<1>12. ASSUME NEW q \in Processes, ProcessDies(q) PROVE Goal
  BY <1>9, <1>10, <1>12
<1>13. Goal
  BY <1>1, <1>2, <1>3, <1>4, <1>5, <1>6, <1>7, <1>8, <1>11, <1>12 DEF PoolStep
<1> QED BY <1>13 DEF Goal

-----------------------------------------------------------------------------
(* Threads that wait *)

Asleep(p) == (waiting \ notified) \cap ThreadsOf(p)

Woken(p) == Cardinality(notified \cap ThreadsOf(p))

\* A notify wakes one of the threads of the pool that are still asleep.
LEMMA WokenAfter ==
    ASSUME PoolTypes, PoolTypes', AtMostTwo, UNCHANGED home, NEW p \in Processes
    PROVE  /\ \A t \in Threads :
                notified' = notified \ {t} => Woken(p)' \in Int /\ Woken(p)' >= Woken(p) - Own(t, p)
           /\ \A t \in Threads :
                Notify(home[t]) /\ waiting' = waiting /\ Asleep(p)' # {} =>
                    Asleep(p) # {} /\ Woken(p)' = Woken(p) + Own(t, p)
<1>0. \A t \in Threads : t \in ThreadsOf(p) <=> p = home[t]
  BY DEF ThreadsOf
<1>1. ThreadsOf(p)' = ThreadsOf(p) /\ Woken(p)' = Cardinality(notified' \cap ThreadsOf(p))
  BY DEF ThreadsOf, Woken
<1>2. IsFiniteSet(notified \cap ThreadsOf(p)) /\ Woken(p) \in Nat
  BY Finite DEF Woken
<1>3. ASSUME NEW t \in Threads, notified' = notified \ {t}
      PROVE  Woken(p)' \in Int /\ Woken(p)' >= Woken(p) - Own(t, p)
  <2>1. Woken(p)' = Woken(p) - (IF t \in notified \cap ThreadsOf(p) THEN 1 ELSE 0)
    BY <1>1, <1>2, <1>3, CountRemove DEF Woken
  <2> QED BY <1>0, <1>2, <2>1 DEF Own
<1>4. ASSUME NEW t \in Threads, Notify(home[t]), waiting' = waiting, Asleep(p)' # {}
      PROVE  Asleep(p) # {} /\ Woken(p)' = Woken(p) + Own(t, p)
  <2>1. CASE notified' = notified
    <3>1. Asleep(p)' = Asleep(p)
      BY <1>1, <1>4, <2>1 DEF Asleep
    <3>2. p # home[t]
      <4>1. ASSUME p = home[t] PROVE FALSE
        <5>1. {u \in waiting \ notified : home[u] = home[t]} # {}
          BY <1>4, <3>1, <4>1 DEF Asleep, ThreadsOf
        <5>2. \E u \in waiting \ notified : notified' = notified \cup {u}
          BY <1>4, <5>1 DEF Notify
        <5> QED BY <2>1, <5>2
      <4> QED BY <4>1
    <3> QED BY <1>1, <1>2, <1>4, <2>1, <3>1, <3>2 DEF Own, Woken
  <2>2. CASE notified' # notified
    <3>1. PICK u \in waiting \ notified : home[u] = home[t] /\ notified' = notified \cup {u}
      BY <1>4, <2>2 DEF Notify
    <3>2. u \in Threads /\ (u \in ThreadsOf(p) <=> p = home[t])
      BY <3>1 DEF PoolTypes, ThreadsOf
    <3>3. Asleep(p) # {}
      BY <1>1, <1>4, <3>1 DEF Asleep
    <3>4. Woken(p)' = Woken(p) + Own(t, p)
      BY <1>1, <1>2, <3>1, <3>2, CountAdd DEF Own, Woken
    <3> QED BY <3>3, <3>4
  <2> QED BY <2>1, <2>2
<1> QED BY <1>3, <1>4

LEMMA WokenIsNat ==
    ASSUME PoolTypes', NEW p PROVE Woken(p)' \in Nat
<1>1. (notified \cap ThreadsOf(p))' \in SUBSET Threads
  BY DEF PoolTypes
<1>2. IsFiniteSet((notified \cap ThreadsOf(p))')
  BY <1>1, FS_Subset, ConnectionPoolAssumption
<1> QED BY <1>2, FS_CardinalityType DEF Woken

\* An operation that leaves a connection or a slot behind wakes a thread for it.
LEMMA AwakeStep ==
    ASSUME PoolTypes, AtMostTwo, NoSleepingWaiter, UNCHANGED deployment, PoolStep
    PROVE  NoSleepingWaiter'
<1>0. PoolTypes'
  BY PoolTypesStep
<1>h. home' = home /\ size' = size /\ size \in Int /\ \A p : ThreadsOf(p)' = ThreadsOf(p)
  BY DEF deployment, ThreadsOf, PoolTypes
<1> SUFFICES ASSUME NEW p \in Processes, Asleep(p)' # {}
             PROVE  Len(idle'[p]) + size - created'[p] <= Woken(p)'
  BY <1>h DEF NoSleepingWaiter, Asleep, Woken
<1> DEFINE Goal == Spare(p)' + size <= Woken(p)'
<1>k. Counts(p)
  BY CountsAreNumbers
<1>n. /\ created[p] \in Int /\ Len(idle[p]) \in Int /\ Woken(p) \in Int
      /\ created'[p] \in Int /\ Len(idle'[p]) \in Int
  BY <1>0, <1>k, Stacks DEF Counts, Woken, PoolTypes
<1>a. Asleep(p) # {} => Spare(p) + size <= Woken(p)
  <2>1. created[p] \in Int /\ Len(idle[p]) \in Int
    BY <1>n
  <2>2. Asleep(p) # {} => Len(idle[p]) + size - created[p] <= Woken(p)
    BY DEF NoSleepingWaiter, Asleep, Woken
  <2>3. Len(idle[p]) + size - created[p] = Spare(p) + size
    BY <1>h, <2>1 DEF Spare
  <2> QED BY <2>2, <2>3
<1>b. /\ Spare(p) \in Int /\ Spare(p)' \in Int /\ Woken(p) \in Int
      /\ \A t \in Threads : Own(t, p) \in Int /\ Own(t, p) >= 0
  BY <1>n DEF Spare, Own
<1>c. waiting' \subseteq waiting /\ notified' = notified => Woken(p)' = Woken(p) /\ Asleep(p) # {}
  BY <1>h DEF Woken, Asleep
<1>1. ASSUME NEW t \in Threads, TakeIdle(t) \/ StartOpening(t) PROVE Goal
  <2>1. notified' = notified \ {t} /\ waiting' = waiting \ {t}
    BY <1>1 DEF TakeIdle, StartOpening
  <2>2. Asleep(p) # {}
    BY <1>h, <2>1 DEF Asleep
  <2>3. Woken(p)' \in Int /\ Woken(p)' >= Woken(p) - Own(t, p)
    BY <1>0, <1>h, <2>1, WokenAfter
  <2>4. Spare(p)' = Spare(p) - Own(t, p)
    BY <1>1, SpareAfter
  <2> QED BY <1>a, <1>b, <1>h, <2>2, <2>3, <2>4
<1>2. ASSUME NEW t \in Threads, StartWaiting(t) \/ Exhausted(t) PROVE Goal
  <2>1. notified' = notified \ {t} /\ Full(home[t]) /\ Spare(p)' = Spare(p)
    BY <1>2, SpareAfter DEF StartWaiting, Exhausted
  <2>2. Woken(p)' \in Int /\ Woken(p)' >= Woken(p) - Own(t, p)
    BY <1>0, <1>h, <2>1, WokenAfter
  <2>3. CASE p = home[t]
    <3>1. Spare(p) + size <= 0
      <4>1. Len(idle[p]) = 0 /\ created[p] >= size
        BY <2>1, <2>3 DEF Full
      <4> QED BY <1>h, <1>n, <4>1 DEF Spare
    <3>2. Woken(p)' \in Nat
      BY <1>0, <1>h, <2>1, WokenIsNat DEF Woken
    <3> QED BY <1>b, <1>h, <2>1, <3>1, <3>2
  <2>4. CASE p # home[t]
    <3>1. t \notin ThreadsOf(p)
      BY <2>4 DEF ThreadsOf
    <3>2. waiting' \cap ThreadsOf(p) = waiting \cap ThreadsOf(p)
      BY <1>2, <3>1 DEF StartWaiting, Exhausted
    <3>3. notified' \cap ThreadsOf(p) = notified \cap ThreadsOf(p)
      BY <2>1, <3>1
    <3>4. Asleep(p)' = Asleep(p)
      BY <1>h, <3>2, <3>3 DEF Asleep
    <3>5. Woken(p)' = Woken(p)
      BY <1>h, <3>3, Zenon DEF Woken
    <3> QED BY <1>a, <1>b, <1>h, <2>1, <3>4, <3>5
  <2> QED BY <2>3, <2>4
<1>3. ASSUME NEW t \in Threads, OpenSucceeds(t) PROVE Goal
  BY <1>3, <1>a, <1>b, <1>c, <1>h, SpareAfter DEF OpenSucceeds
<1>4. ASSUME NEW t \in Threads, OpenFails(t) \/ Release(t) PROVE Goal
  <2>1. Notify(home[t]) /\ waiting' = waiting /\ Spare(p)' = Spare(p) + Own(t, p)
    BY <1>4, SpareAfter DEF OpenFails, Release
  <2>2. Asleep(p) # {} /\ Woken(p)' = Woken(p) + Own(t, p)
    BY <1>0, <1>h, <2>1, WokenAfter
  <2> QED BY <1>a, <1>b, <1>h, <2>1, <2>2
<1>5. ASSUME NEW t \in Threads, NEW i \in 1..2, BorrowedBreaks(t, i) PROVE Goal
  BY <1>5, <1>a, <1>b, <1>c, <1>h, SpareAfter DEF BorrowedBreaks
<1>6. ASSUME NEW q \in Processes, NEW i \in 1..MaxSize, IdleBreaks(q, i) PROVE Goal
  BY <1>6, <1>a, <1>b, <1>c, <1>h, SpareAfter DEF IdleBreaks
<1>7. ASSUME NEW q \in Processes, ProcessDies(q) PROVE Goal
  <2>1. q # p
    BY <1>7, <1>h DEF ProcessDies, Asleep, ThreadsOf
  <2>2. /\ waiting' \cap ThreadsOf(p) = waiting \cap ThreadsOf(p)
        /\ notified' \cap ThreadsOf(p) = notified \cap ThreadsOf(p)
    BY <1>7, <2>1 DEF ProcessDies, ThreadsOf
  <2>3. Asleep(p)' = Asleep(p)
    BY <1>h, <2>2 DEF Asleep
  <2>4. Woken(p)' = Woken(p)
    BY <1>h, <2>2, Zenon DEF Woken
  <2>5. Spare(p)' = Spare(p)
    BY <1>7, <2>1, SpareAfter
  <2> QED BY <1>a, <1>b, <1>h, <2>3, <2>4, <2>5
<1>8. ASSUME UNCHANGED poolVars PROVE Goal
  <2>1. Spare(p)' = Spare(p)
    BY <1>8 DEF poolVars, Spare
  <2> QED BY <1>8, <1>a, <1>b, <1>c, <1>h, <2>1 DEF poolVars
<1>9. Goal
  <2> HIDE DEF Goal
  <2> QED BY <1>1, <1>2, <1>3, <1>4, <1>5, <1>6, <1>7, <1>8 DEF PoolStep
<1>10. Woken(p)' \in Nat
  BY <1>0, WokenIsNat
<1> QED BY <1>9, <1>n, <1>h, <1>10 DEF Spare

-----------------------------------------------------------------------------
(* The limit *)

Limited == \A p \in Processes : created[p] <= size

\* No operation opens a connection beyond pool_max_size.
LEMMA LimitedStep ==
    ASSUME PoolTypes, AtMostTwo, Limited, UNCHANGED deployment, PoolStep
    PROVE  Limited'
<1>0. size \in Int /\ size' = size /\ home' = home /\ \A t \in Threads : home[t] \in Processes
  BY DEF PoolTypes, deployment
<1> SUFFICES ASSUME NEW p \in Processes PROVE created'[p] <= size
  BY <1>0 DEF Limited
<1>k. created[p] \in Int /\ Len(idle[p]) \in Nat /\ created[p] <= size /\ created \in [Processes -> Int]
  BY Stacks DEF PoolTypes, Limited
<1>1. ASSUME NEW t \in Threads, TakeIdle(t) PROVE created'[p] <= size
  <2>1. CASE p = home[t]
    <3>1. Usable(idle[p]) \in 0..Len(idle[p])
      BY UsablePosition DEF PoolTypes
    <3>2. created'[p] = created[p] - (Len(idle[p]) - Usable(idle[p]))
      BY <1>1, <1>k, <2>1 DEF TakeIdle
    <3> QED BY <1>0, <1>k, <3>1, <3>2
  <2>2. CASE p # home[t]
    BY <1>1, <1>k, <2>2 DEF TakeIdle
  <2> QED BY <2>1, <2>2
<1>2. ASSUME NEW t \in Threads, StartOpening(t) PROVE created'[p] <= size
  <2>1. CASE p = home[t]
    <3>1. /\ created'[p] = created[p] - Len(idle[p]) + 1
          /\ created[p] - Len(idle[p]) < size
      BY <1>2, <1>k, <2>1 DEF StartOpening
    <3> QED BY <1>0, <1>k, <3>1
  <2>2. CASE p # home[t]
    BY <1>2, <1>k, <2>2 DEF StartOpening
  <2> QED BY <2>1, <2>2
<1>3. ASSUME NEW t \in Threads, OpenFails(t) \/ Release(t) PROVE created'[p] <= size
  <2>1. created' = created \/ created' = [created EXCEPT ![home[t]] = @ - 1]
    BY <1>3 DEF OpenFails, Release
  <2> QED BY <1>0, <1>k, <2>1
<1>4. ASSUME created' = created PROVE created'[p] <= size
  BY <1>4, <1>k
<1>5. ASSUME NEW t \in Threads, StartWaiting(t) \/ Exhausted(t) \/ OpenSucceeds(t)
      PROVE  created' = created
  BY <1>5 DEF StartWaiting, Exhausted, OpenSucceeds
<1>6. /\ \A t \in Threads, i \in 1..2 : BorrowedBreaks(t, i) => created' = created
      /\ \A q \in Processes, i \in 1..MaxSize : IdleBreaks(q, i) => created' = created
      /\ UNCHANGED poolVars => created' = created
  BY DEF BorrowedBreaks, IdleBreaks, poolVars
<1>7. ASSUME NEW q \in Processes, ProcessDies(q) PROVE created'[p] <= size
  <2>1. created' = [created EXCEPT ![q] = 0] /\ size >= 0
    BY <1>7 DEF ProcessDies, PoolTypes
  <2> QED BY <1>k, <2>1
<1> QED BY <1>1, <1>2, <1>3, <1>4, <1>5, <1>6, <1>7 DEF PoolStep

-----------------------------------------------------------------------------
(* The refresh of a token *)

\* What a refresh consists of, without the pool.
TokenTypes ==
    /\ pc \in [Threads -> RefreshPC]
    /\ token \in [Threads -> Nat]
    /\ vault \in Nat /\ current \in Nat \ {0}

\* A thread that has received a token holds the end of the chain: nobody else
\* does, and the stored token is spent.
StoringAlone ==
    \A t \in Threads : pc[t] = "store" =>
        /\ token[t] = current /\ vault # current
        /\ \A u \in Threads : u # t => pc[u] # "store" /\ (pc[u] = "exchange" => token[u] # current)

\* No token is ahead of the one that Xero accepts.
NoneAhead == vault <= current /\ \A t \in Threads : pc[t] = "exchange" => token[t] <= current

\* The accepted token is in hand only while it is stored as well, or deleted.
HandFromVault ==
    \A t \in Threads : pc[t] = "exchange" /\ token[t] = current => vault \in {0, current}

ChainInv == TokenTypes /\ StoringAlone /\ NoneAhead /\ HandFromVault

LEMMA ChainStart == TokenInit => ChainInv
  BY DEF TokenInit, ChainInv, TokenTypes, RefreshPC, StoringAlone, NoneAhead, HandFromVault

-----------------------------------------------------------------------------
(* The steps, as far as the token is concerned *)

\* A thread goes from one place to another without a token.
Moves(t) ==
    \E l \in {"idle", "query", "lock", "read", "unlock"} :
        /\ pc' = [pc EXCEPT ![t] = l]
        /\ token' = token \/ token' = [token EXCEPT ![t] = 0]
        /\ UNCHANGED <<vault, current>>

Receives(t) ==
    /\ pc[t] = "read" /\ vault # 0
    /\ pc' = [pc EXCEPT ![t] = "exchange"] /\ token' = [token EXCEPT ![t] = vault]
    /\ UNCHANGED <<vault, current>>

Rotates(t) ==
    /\ pc[t] = "exchange" /\ token[t] = current /\ current' = current + 1
    /\ \/ pc' = [pc EXCEPT ![t] = "store"] /\ token' = [token EXCEPT ![t] = current + 1]
       \/ pc' = [pc EXCEPT ![t] = "unlock"] /\ token' = [token EXCEPT ![t] = 0]
    /\ UNCHANGED vault

Stores(t) ==
    /\ pc[t] = "store" /\ vault' = token[t]
    /\ pc' = [pc EXCEPT ![t] = "unlock"] /\ token' = [token EXCEPT ![t] = 0]
    /\ UNCHANGED current

Dies ==
    \E own \in SUBSET Threads :
        /\ pc' = [t \in Threads |-> IF t \in own THEN "idle" ELSE pc[t]]
        /\ token' = [t \in Threads |-> IF t \in own THEN 0 ELSE token[t]]
        /\ UNCHANGED <<vault, current>>

Deletes == vault' = 0 /\ UNCHANGED <<pc, token, current>>

\* Every step of the system is one of these, or does not touch the token.
LEMMA TokenSteps ==
    ASSUME TokenTypes, [TokenNext]_tokenVars
    PROVE  \/ UNCHANGED <<pc, token, vault, current>>
           \/ \E t \in Threads : Moves(t) \/ Receives(t) \/ Rotates(t) \/ Stores(t)
           \/ Dies \/ Deletes
<1>1. CASE UNCHANGED tokenVars
  BY <1>1 DEF tokenVars, refreshVars
<1>2. ASSUME NEW t \in Threads,
             StartQuery(t) \/ StartRefresh(t) \/ EndQuery(t) \/ TakeLock(t) \/ LockFails(t)
             \/ ExchangeRefused(t) \/ ExchangeFails(t) \/ Unlock(t) \/ BorrowFails(t)
      PROVE  Moves(t)
  BY <1>2 DEF StartQuery, StartRefresh, EndQuery, TakeLock, LockFails, ExchangeRefused, ExchangeFails,
              Unlock, BorrowFails, Goto, Moves
<1>3. ASSUME NEW t \in Threads, Borrow(t) \/ Wait(t) \/ WaitAgain(t)
      PROVE  UNCHANGED <<pc, token, vault, current>>
  BY <1>3 DEF Borrow, Wait, WaitAgain, refreshVars
<1>4. ASSUME NEW t \in Threads, ReadToken(t) PROVE Receives(t) \/ Moves(t)
  BY <1>4 DEF ReadToken, Goto, Receives, Moves
<1>5. ASSUME NEW t \in Threads, Exchange(t) PROVE Rotates(t)
  BY <1>5 DEF Exchange, Goto, Rotates
<1>6. ASSUME NEW t \in Threads, StoreToken(t) PROVE Stores(t) \/ Moves(t)
  BY <1>6 DEF StoreToken, Goto, Stores, Moves
<1>7. ASSUME NEW p \in Processes, Crash(p) PROVE Dies
  <2>1. {t \in Threads : home[t] = p} \in SUBSET Threads
    OBVIOUS
  <2> QED
    BY <1>7, <2>1 DEF Crash, Dies
<1>8. DeleteSecret => Deletes
  BY DEF DeleteSecret, Deletes
<1>9. /\ \A t \in Threads, i \in 1..2 : SessionBreaks(t, i) => UNCHANGED <<pc, token, vault, current>>
      /\ \A p \in Processes, i \in 1..MaxSize : IdleConnectionBreaks(p, i) => UNCHANGED <<pc, token, vault, current>>
  BY DEF SessionBreaks, IdleConnectionBreaks, refreshVars
<1> QED
  BY <1>1, <1>2, <1>3, <1>4, <1>5, <1>6, <1>7, <1>8, <1>9 DEF TokenNext, Step, Environment

-----------------------------------------------------------------------------
(* The invariant *)

LEMMA ChainStep == ChainInv /\ [TokenNext]_tokenVars => ChainInv'
<1> SUFFICES ASSUME ChainInv, [TokenNext]_tokenVars PROVE ChainInv'
  OBVIOUS
<1> USE DEF ChainInv, TokenTypes, RefreshPC, StoringAlone, NoneAhead, HandFromVault
<1>1. CASE UNCHANGED <<pc, token, vault, current>>
  BY <1>1
<1>2. ASSUME NEW t \in Threads, Moves(t) PROVE ChainInv'
  BY <1>2 DEF Moves
<1>3. ASSUME NEW t \in Threads, Receives(t) PROVE ChainInv'
  BY <1>3 DEF Receives
<1>4. ASSUME NEW t \in Threads, Rotates(t) PROVE ChainInv'
  <2>1. \A u \in Threads : pc[u] # "store"
    BY <1>4 DEF Rotates
  <2>2. vault' < current' /\ \A u \in Threads : u # t /\ pc[u] = "exchange" => token[u] < current'
    BY <1>4 DEF Rotates
  <2> QED
    BY <1>4, <2>1, <2>2 DEF Rotates
<1>5. ASSUME NEW t \in Threads, Stores(t) PROVE ChainInv'
  BY <1>5 DEF Stores
<1>6. CASE Dies
  BY <1>6 DEF Dies
<1>7. CASE Deletes
  BY <1>7 DEF Deletes
<1> QED
  BY <1>1, <1>2, <1>3, <1>4, <1>5, <1>6, <1>7, TokenSteps

-----------------------------------------------------------------------------
(* The refinement *)

Withdrawn == ~Accepted /\ vault = 0 /\ InHand

Status == IF Accepted THEN "usable" ELSE IF vault = 0 /\ InHand THEN "withdrawn" ELSE "lost"

\* A step that does not rotate the token keeps the credential, or loses or
\* withdraws it, and a store makes nothing usable that was not.
LEMMA QuietChain ==
    ASSUME ChainInv, UNCHANGED current,
           Accepted' => Accepted,
           Withdrawn' => Accepted \/ Withdrawn
    PROVE  [Credential!CredentialNext]_<<Status, current>>
  BY DEF Status, Withdrawn, Credential!CredentialNext, Credential!Withdraw, Credential!Lose

LEMMA ChainRefines ==
    ASSUME ChainInv, [TokenNext]_tokenVars
    PROVE  [Credential!CredentialNext]_<<Status, current>>
<1> USE DEF ChainInv, TokenTypes, StoringAlone, NoneAhead, HandFromVault
<1>1. CASE UNCHANGED <<pc, token, vault, current>>
  BY <1>1, QuietChain DEF Accepted, InHand, Withdrawn
<1>2. ASSUME NEW t \in Threads, Moves(t)
      PROVE  [Credential!CredentialNext]_<<Status, current>>
  <2>1. Accepted' => Accepted
    BY <1>2 DEF Moves, Accepted
  <2>2. Withdrawn' => Accepted \/ Withdrawn
    BY <1>2 DEF Moves, Accepted, InHand, Withdrawn
  <2> QED
    BY <1>2, <2>1, <2>2, QuietChain DEF Moves
<1>3. ASSUME NEW t \in Threads, Receives(t)
      PROVE  [Credential!CredentialNext]_<<Status, current>>
  <2>1. Accepted' => Accepted
    BY <1>3 DEF Receives, Accepted
  <2>2. ~Withdrawn'
    BY <1>3 DEF Receives, Withdrawn
  <2> QED
    BY <1>3, <2>1, <2>2, QuietChain DEF Receives
<1>4. ASSUME NEW t \in Threads, Rotates(t)
      PROVE  [Credential!CredentialNext]_<<Status, current>>
  <2>1. vault \in {0, current} /\ InHand /\ (Accepted \/ Withdrawn)
    BY <1>4 DEF Rotates, InHand, Accepted, Withdrawn
  <2>2. ~InHand' /\ vault' # current'
    BY <1>4 DEF Rotates, InHand
  <2>3. Status \in {"usable", "withdrawn"}
    BY <2>1 DEF Status, Withdrawn
  <2>4. Status' \in {"usable", "lost"} /\ current' = current + 1
    BY <1>4, <2>2 DEF Status, Rotates
  <2> QED
    BY <2>3, <2>4 DEF Status, Credential!CredentialNext, Credential!Rotate, Credential!Restore, Credential!Lose
<1>5. ASSUME NEW t \in Threads, Stores(t)
      PROVE  [Credential!CredentialNext]_<<Status, current>>
  <2>1. Accepted /\ Accepted'
    BY <1>5 DEF Stores, Accepted
  <2> QED
    BY <1>5, <2>1 DEF Stores, Status
<1>6. CASE Dies
  <2>1. Accepted' => Accepted
    BY <1>6 DEF Dies, Accepted
  <2>2. Withdrawn' => Accepted \/ Withdrawn
    BY <1>6 DEF Dies, Accepted, InHand, Withdrawn
  <2> QED
    BY <1>6, <2>1, <2>2, QuietChain DEF Dies
<1>7. CASE Deletes
  <2>1. Accepted' => Accepted
    BY <1>7 DEF Deletes, Accepted
  <2>2. Withdrawn' => Accepted \/ Withdrawn
    BY <1>7 DEF Deletes, Accepted, InHand, Withdrawn
  <2> QED
    BY <1>7, <2>1, <2>2, QuietChain DEF Deletes
<1> QED
  BY <1>1, <1>2, <1>3, <1>4, <1>5, <1>6, <1>7, TokenSteps

\* The stored token, the lock and the threads implement one chain of tokens, for
\* every number of threads, processes and connections: nothing forks the chain,
\* and nothing revives a credential that is lost.
THEOREM OneChain == TokenSpec => ChainSpec
<1>1. TokenInit => Credential!CredentialInit
  BY DEF TokenInit, Credential!CredentialInit, Accepted
<1>2. ChainInv /\ [TokenNext]_tokenVars => [Credential!CredentialNext]_<<Status, current>>
  BY ChainRefines
<1> QED
  BY <1>1, <1>2, ChainStart, ChainStep, PTL DEF TokenSpec, ChainSpec, Credential!CredentialSpec, Status

-----------------------------------------------------------------------------
(* The connections of a refresh *)

Critical == {"read", "exchange", "store", "unlock"}

\* A thread inside the critical section holds one connection for its lock and at
\* most another one for a statement, and it waits for the pool only when it needs
\* one more than it has.
Slots(t) ==
    /\ Len(borrowed[t]) <= (IF pc[t] = "idle" THEN 0 ELSE IF pc[t] \in {"read", "store"} THEN 2 ELSE 1)
    /\ pc[t] \in Critical => Len(borrowed[t]) >= 1
    /\ t \in opening \cup waiting => Len(borrowed[t]) < Need(t)

HoldsSlots == \A t \in Threads : Slots(t)

\* Every step of the system is an operation of the pool, or does not touch it.
LEMMA PoolSteps ==
    ASSUME [TokenNext]_tokenVars
    PROVE  UNCHANGED deployment /\ PoolStep
<1>1. CASE UNCHANGED tokenVars
  BY <1>1 DEF tokenVars, PoolStep
<1>2. ASSUME NEW t \in Threads,
             StartQuery(t) \/ StartRefresh(t) \/ TakeLock(t) \/ Exchange(t) \/ ExchangeRefused(t)
             \/ ExchangeFails(t) \/ DeleteSecret
      PROVE  UNCHANGED poolVars
  BY <1>2 DEF StartQuery, StartRefresh, TakeLock, Exchange, ExchangeRefused, ExchangeFails, DeleteSecret
<1>3. ASSUME NEW t \in Threads,
             EndQuery(t) \/ LockFails(t) \/ ReadToken(t) \/ StoreToken(t) \/ Unlock(t)
      PROVE  Release(t)
  BY <1>3 DEF EndQuery, LockFails, ReadToken, StoreToken, Unlock
<1>4. ASSUME NEW t \in Threads, Borrow(t) \/ Wait(t) \/ WaitAgain(t) \/ BorrowFails(t)
      PROVE  TakeIdle(t) \/ StartOpening(t) \/ OpenSucceeds(t) \/ StartWaiting(t) \/ Exhausted(t) \/ OpenFails(t)
  BY <1>4 DEF Borrow, Wait, WaitAgain, BorrowFails
<1>5. /\ \A t \in Threads, i \in 1..2 : SessionBreaks(t, i) => BorrowedBreaks(t, i)
      /\ \A p \in Processes, i \in 1..MaxSize : IdleConnectionBreaks(p, i) => IdleBreaks(p, i)
      /\ \A p \in Processes : Crash(p) => ProcessDies(p)
      /\ DeleteSecret => UNCHANGED poolVars
  BY DEF SessionBreaks, IdleConnectionBreaks, Crash, DeleteSecret
<1>6. ASSUME NEW t \in Threads, Step(t) \/ StartQuery(t) \/ StartRefresh(t) \/ WaitAgain(t)
      PROVE  PoolStep
  BY <1>2, <1>3, <1>4, <1>6 DEF Step, PoolStep
<1>7. ASSUME Environment PROVE PoolStep
  BY <1>5, <1>7 DEF Environment, PoolStep
<1> QED BY <1>1, <1>6, <1>7 DEF TokenNext

LEMMA SlotsElsewhere ==
    ASSUME HoldsSlots, NEW t \in Threads, Slots(t)',
           \A u \in Threads : u # t =>
               /\ pc'[u] = pc[u] /\ borrowed'[u] = borrowed[u]
               /\ (u \in opening' \cup waiting' => u \in opening \cup waiting)
    PROVE  HoldsSlots'
<1> SUFFICES ASSUME NEW u \in Threads, u # t PROVE Slots(u)'
  BY DEF HoldsSlots
<1> QED BY DEF HoldsSlots, Slots, Need

LEMMA ReleaseLengths ==
    ASSUME PoolTypes, NEW t \in Threads, Release(t)
    PROVE  /\ Len(borrowed[t]) \in Nat \ {0} /\ Len(borrowed'[t]) = Len(borrowed[t]) - 1
           /\ \A u \in Threads : u # t => borrowed'[u] = borrowed[u]
           /\ opening' = opening /\ waiting' = waiting
<1>1. borrowed[t] \in Seq(Health) /\ borrowed[t] # <<>> /\ Len(borrowed[t]) \in Nat \ {0}
  BY EmptySeq DEF Release, PoolTypes
<1>2. borrowed' = [borrowed EXCEPT ![t] = Pop(borrowed[t])]
  BY DEF Release
<1>3. Len(Pop(borrowed[t])) = Len(borrowed[t]) - 1
  BY <1>1, Stacks
<1> QED BY <1>1, <1>2, <1>3 DEF Release, PoolTypes

LEMMA SlotsStep ==
    ASSUME PoolTypes, TokenTypes, HoldsSlots, [TokenNext]_tokenVars
    PROVE  HoldsSlots'
<1>0. \A t \in Threads : Len(borrowed[t]) \in Nat /\ pc[t] \in RefreshPC
  BY Stacks DEF PoolTypes, TokenTypes
<1>a. \A t \in Threads : Slots(t)
  BY DEF HoldsSlots
<1>1. CASE UNCHANGED tokenVars
  BY <1>1 DEF tokenVars, poolVars, refreshVars, HoldsSlots, Slots, Need
<1>2. ASSUME NEW t \in Threads, StartQuery(t) \/ StartRefresh(t) \/ TakeLock(t) \/ Exchange(t)
                                \/ ExchangeRefused(t) \/ ExchangeFails(t)
      PROVE  HoldsSlots'
  <2>1. UNCHANGED poolVars /\ \A u \in Threads : u # t => pc'[u] = pc[u]
    BY <1>2 DEF StartQuery, StartRefresh, TakeLock, Exchange, ExchangeRefused, ExchangeFails, Goto, TokenTypes
  <2>2. \/ pc[t] = "idle" /\ pc'[t] \in {"query", "lock"}
        \/ pc[t] = "lock" /\ pc'[t] = "read" /\ Equipped(t)
        \/ pc[t] = "exchange" /\ pc'[t] \in {"store", "unlock"}
    BY <1>2 DEF StartQuery, StartRefresh, TakeLock, Exchange, ExchangeRefused, ExchangeFails, Goto, TokenTypes
  <2>3. Slots(t)'
    BY <1>0, <1>a, <2>1, <2>2 DEF Slots, Need, Equipped, Critical, poolVars
  <2> QED BY <2>1, <2>3, SlotsElsewhere DEF poolVars
<1>3. ASSUME NEW t \in Threads, EndQuery(t) \/ LockFails(t) \/ ReadToken(t) \/ StoreToken(t) \/ Unlock(t)
      PROVE  HoldsSlots'
  <2>1. Release(t) /\ \A u \in Threads : u # t => pc'[u] = pc[u]
    BY <1>3 DEF EndQuery, LockFails, ReadToken, StoreToken, Unlock, Goto, TokenTypes
  <2>2. \/ pc[t] = "query" /\ pc'[t] = "idle" /\ Equipped(t)
        \/ pc[t] = "lock" /\ pc'[t] = "idle" /\ Equipped(t)
        \/ pc[t] = "read" /\ pc'[t] \in {"exchange", "unlock"} /\ Equipped(t)
        \/ pc[t] = "store" /\ pc'[t] = "unlock" /\ Equipped(t)
        \/ pc[t] = "unlock" /\ pc'[t] = "idle"
    BY <1>3 DEF EndQuery, LockFails, ReadToken, StoreToken, Unlock, Goto, TokenTypes
  <2>3. Slots(t)'
    BY <1>0, <1>a, <2>1, <2>2, ReleaseLengths DEF Slots, Need, Equipped, Critical
  <2> QED BY <2>1, <2>3, SlotsElsewhere, ReleaseLengths
<1>4. ASSUME NEW t \in Threads, Borrow(t) \/ Wait(t) \/ WaitAgain(t)
      PROVE  HoldsSlots'
  <2>1. /\ pc' = pc /\ Wants(t)
        /\ opening' \subseteq opening \cup {t} /\ waiting' \subseteq waiting \cup {t}
        /\ \/ borrowed' = borrowed
           \/ /\ borrowed' = [borrowed EXCEPT ![t] = Append(@, "up")]
              /\ t \notin opening' \cup waiting'
    BY <1>4 DEF Borrow, Wait, WaitAgain, TakeIdle, StartOpening, OpenSucceeds, StartWaiting, refreshVars,
                AtHead, PoolTypes
  <2>2. /\ \A u \in Threads : u # t => borrowed'[u] = borrowed[u]
        /\ Len(borrowed'[t]) \in {Len(borrowed[t]), Len(borrowed[t]) + 1}
        /\ t \in opening' \cup waiting' => borrowed'[t] = borrowed[t]
    BY <2>1, Stacks DEF PoolTypes
  <2>3. Slots(t)'
    BY <1>0, <1>a, <2>1, <2>2 DEF Slots, Need, Wants, Critical, RefreshPC
  <2> QED BY <2>1, <2>2, <2>3, SlotsElsewhere
<1>5. ASSUME NEW t \in Threads, BorrowFails(t) PROVE HoldsSlots'
  <2>1. /\ Wants(t) /\ borrowed' = borrowed /\ opening' \subseteq opening /\ waiting' \subseteq waiting
        /\ t \notin opening' \cup waiting'
        /\ \A u \in Threads : u # t => pc'[u] = pc[u]
        /\ pc'[t] = IF pc[t] \in {"read", "store"} THEN "unlock" ELSE "idle"
    BY <1>5 DEF BorrowFails, Exhausted, OpenFails, Goto, PoolTypes, TokenTypes
  <2>2. Slots(t)'
    BY <1>0, <1>a, <2>1 DEF Slots, Need, Wants, Critical
  <2> QED BY <2>1, <2>2, SlotsElsewhere
<1>6. ASSUME NEW p \in Processes, Crash(p) PROVE HoldsSlots'
  <2> SUFFICES ASSUME NEW t \in Threads PROVE Slots(t)'
    BY DEF HoldsSlots
  <2>1. CASE home[t] = p
    <3>1. pc'[t] = "idle" /\ Len(borrowed'[t]) = 0 /\ t \notin opening' \cup waiting'
      BY <1>6, <2>1, Stacks DEF Crash, ProcessDies
    <3> QED BY <3>1 DEF Slots, Critical
  <2>2. CASE home[t] # p
    BY <1>6, <1>a, <2>2 DEF Crash, ProcessDies, Slots, Need
  <2> QED BY <2>1, <2>2
<1>7. ASSUME UNCHANGED <<pc, opening, waiting>>,
             \A t \in Threads : Len(borrowed'[t]) = Len(borrowed[t])
      PROVE  HoldsSlots'
  BY <1>7 DEF HoldsSlots, Slots, Need
<1>8. ASSUME NEW t \in Threads, NEW i \in 1..2, SessionBreaks(t, i) PROVE HoldsSlots'
  <2>1. \A u \in Threads : Len(borrowed'[u]) = Len(borrowed[u])
    <3>1. i \in DOMAIN borrowed[t] /\ borrowed' = [borrowed EXCEPT ![t] = [borrowed[t] EXCEPT ![i] = "down"]]
      BY <1>8 DEF SessionBreaks, BorrowedBreaks
    <3>2. borrowed[t] \in Seq(Health) /\ Len([borrowed[t] EXCEPT ![i] = "down"]) = Len(borrowed[t])
      BY <3>1, Stacks DEF PoolTypes
    <3> QED BY <3>1, <3>2 DEF PoolTypes
  <2> QED BY <1>7, <1>8, <2>1 DEF SessionBreaks, BorrowedBreaks
<1>9. ASSUME NEW p \in Processes, NEW i \in 1..MaxSize, IdleConnectionBreaks(p, i) PROVE HoldsSlots'
  BY <1>7, <1>9 DEF IdleConnectionBreaks, IdleBreaks, refreshVars
<1>10. ASSUME DeleteSecret PROVE HoldsSlots'
  BY <1>7, <1>10 DEF DeleteSecret, poolVars
<1>11. ASSUME Environment PROVE HoldsSlots'
  BY <1>6, <1>8, <1>9, <1>10, <1>11 DEF Environment
<1>12. ASSUME NEW t \in Threads, Step(t) PROVE HoldsSlots'
  BY <1>2, <1>3, <1>4, <1>5, <1>12 DEF Step
<1> QED BY <1>1, <1>2, <1>4, <1>11, <1>12 DEF TokenNext

PoolInv == PoolTypes /\ HoldsSlots /\ Limited /\ PoolAccounted /\ NoSleepingWaiter

LEMMA TwoAtMost == PoolTypes /\ HoldsSlots => AtMostTwo
<1> SUFFICES ASSUME PoolTypes, HoldsSlots, NEW t \in Threads PROVE Len(borrowed[t]) <= 2
  BY DEF AtMostTwo
<1>1. Len(borrowed[t]) \in Nat
  BY Stacks DEF PoolTypes
<1> QED BY <1>1 DEF HoldsSlots, Slots

LEMMA PoolStart == TokenInit => PoolInv
<1> SUFFICES ASSUME TokenInit PROVE PoolInv
  OBVIOUS
<1>1. size \in 1..MaxSize /\ home \in [Threads -> Processes]
  BY ConnectionPoolAssumption DEF TokenInit, PoolInit
<1>2. PoolTypes
  BY <1>1, Stacks, ConnectionPoolAssumption DEF TokenInit, PoolInit, PoolTypes
<1>3. HoldsSlots
  BY Stacks DEF TokenInit, PoolInit, HoldsSlots, Slots, Critical
<1>4. \A p : Held(p) = {} /\ opening \cap ThreadsOf(p) = {}
  <2>1. \A t \in Threads : DOMAIN borrowed[t] = {}
    BY Stacks DEF TokenInit, PoolInit
  <2> QED BY <2>1 DEF Held, ThreadsOf, TokenInit, PoolInit
<1>5. PoolAccounted
  <2>1. \A p : Cardinality(Held(p)) = 0 /\ Cardinality(opening \cap ThreadsOf(p)) = 0
    BY <1>4, FS_EmptySet, Zenon
  <2>2. \A p \in Processes : created[p] = 0 /\ Len(idle[p]) = 0
    BY Stacks DEF TokenInit, PoolInit
  <2> QED BY <2>1, <2>2 DEF PoolAccounted
<1>6. NoSleepingWaiter /\ Limited
  BY <1>1, ConnectionPoolAssumption DEF TokenInit, PoolInit, NoSleepingWaiter, Limited
<1> QED BY <1>2, <1>3, <1>5, <1>6 DEF PoolInv

LEMMA PoolInvStep == ChainInv /\ PoolInv /\ [TokenNext]_tokenVars => PoolInv'
<1> SUFFICES ASSUME ChainInv, PoolInv, [TokenNext]_tokenVars PROVE PoolInv'
  OBVIOUS
<1>1. PoolTypes /\ HoldsSlots /\ Limited /\ PoolAccounted /\ NoSleepingWaiter /\ AtMostTwo /\ TokenTypes
  BY TwoAtMost DEF PoolInv, ChainInv
<1>2. UNCHANGED deployment /\ PoolStep
  BY PoolSteps
<1>3. PoolTypes' /\ HoldsSlots'
  BY <1>1, <1>2, PoolTypesStep, SlotsStep
<1>4. Limited' /\ PoolAccounted' /\ NoSleepingWaiter'
  BY <1>1, <1>2, LimitedStep, AccountedStep, AwakeStep
<1> QED BY <1>3, <1>4 DEF PoolInv

\* The pool never loses a slot or counts one twice.
THEOREM EveryConnectionCounted == TokenSpec => []PoolAccounted
<1>1. PoolInv => PoolAccounted
  BY DEF PoolInv
<1> QED BY <1>1, ChainStart, ChainStep, PoolStart, PoolInvStep, PTL DEF TokenSpec

\* No wake-up is lost.
THEOREM NoLostWakeup == TokenSpec => []NoSleepingWaiter
<1>1. PoolInv => NoSleepingWaiter
  BY DEF PoolInv
<1> QED BY <1>1, ChainStart, ChainStep, PoolStart, PoolInvStep, PTL DEF TokenSpec

-----------------------------------------------------------------------------
(* The lock *)

\* As long as no session of a held lock breaks, a thread between its lock and its
\* unlock is the only one there.
Exclusive ==
    "session lost" \notin hazards =>
        \A t \in Threads : pc[t] \in Critical => locked = {t}

\* What the holder of the lock has read is the end of the chain, unless it was lost.
Fresh ==
    {"token lost", "session lost"} \cap hazards = {} =>
        /\ vault \in {0, current} \/ \E t \in Threads : pc[t] = "store"
        /\ \A t \in Threads : pc[t] = "exchange" => token[t] = current

LockInv == Exclusive /\ Fresh /\ RotationsExplained

LEMMA HazardsGrow ==
    ASSUME [TokenNext]_tokenVars PROVE hazards \subseteq hazards'
<1>1. CASE UNCHANGED tokenVars
  BY <1>1 DEF tokenVars, refreshVars
<1>2. ASSUME NEW t \in Threads, Step(t) \/ StartQuery(t) \/ StartRefresh(t) \/ WaitAgain(t)
      PROVE  hazards \subseteq hazards'
  BY <1>2 DEF Step, StartQuery, StartRefresh, WaitAgain, Borrow, Wait, BorrowFails, EndQuery, TakeLock,
              LockFails, ReadToken, Exchange, ExchangeRefused, ExchangeFails, StoreToken, Unlock, refreshVars
<1>3. ASSUME Environment PROVE hazards \subseteq hazards'
  BY <1>3 DEF Environment, SessionBreaks, IdleConnectionBreaks, Crash, DeleteSecret, refreshVars
<1> QED BY <1>1, <1>2, <1>3 DEF TokenNext

LEMMA ExclusiveStep ==
    ASSUME TokenTypes, Exclusive, [TokenNext]_tokenVars PROVE Exclusive'
<1> SUFFICES ASSUME "session lost" \notin hazards', NEW u \in Threads, pc'[u] \in Critical
             PROVE  locked' = {u}
  BY DEF Exclusive
<1>0. "session lost" \notin hazards
  BY HazardsGrow
<1>a. \A t \in Threads : pc[t] \in Critical => locked = {t}
  BY <1>0 DEF Exclusive
<1>b. \A t \in Threads : pc[t] \in RefreshPC /\ home[t] = home[t]
  BY DEF TokenTypes
<1>1. CASE UNCHANGED <<pc, locked>>
  BY <1>1, <1>a
<1>2. ASSUME NEW t \in Threads, TakeLock(t) PROVE locked' = {u}
  BY <1>2, <1>a DEF TakeLock, Goto, TokenTypes
<1>3. ASSUME NEW t \in Threads, Unlock(t) PROVE locked' = {u}
  <2>1. pc[t] \in Critical /\ pc'[t] = "idle" /\ u # t /\ pc'[u] = pc[u]
    BY <1>3 DEF Unlock, Goto, TokenTypes, Critical
  <2> QED BY <1>a, <2>1
<1>4. ASSUME UNCHANGED locked, NEW t \in Threads, NEW l, pc' = [pc EXCEPT ![t] = l],
             l \in Critical => pc[t] \in Critical
      PROVE  locked' = {u}
  BY <1>4, <1>a DEF TokenTypes
<1>5. ASSUME NEW t \in Threads, StartQuery(t) \/ StartRefresh(t) \/ EndQuery(t) \/ LockFails(t)
      PROVE  locked' = {u}
  BY <1>5, <1>a DEF StartQuery, StartRefresh, EndQuery, LockFails, Goto, Critical, TokenTypes
<1>6. ASSUME NEW t \in Threads, ReadToken(t) \/ Exchange(t) \/ ExchangeRefused(t)
                                \/ ExchangeFails(t) \/ StoreToken(t)
      PROVE  locked' = {u}
  <2>1. pc[t] \in Critical /\ UNCHANGED locked /\ \E l : pc' = [pc EXCEPT ![t] = l]
    BY <1>6 DEF ReadToken, Exchange, ExchangeRefused, ExchangeFails, StoreToken, Goto, Critical
  <2> QED BY <2>1, <1>4
<1>7. ASSUME NEW t \in Threads, BorrowFails(t) PROVE locked' = {u}
  BY <1>7, <1>a DEF BorrowFails, Goto, Critical, TokenTypes
<1>8. ASSUME NEW t \in Threads, Borrow(t) \/ Wait(t) \/ WaitAgain(t) PROVE locked' = {u}
  BY <1>1, <1>8 DEF Borrow, Wait, WaitAgain, refreshVars
<1>9. ASSUME NEW t \in Threads, NEW i \in 1..2, SessionBreaks(t, i) PROVE locked' = {u}
  BY <1>1, <1>9 DEF SessionBreaks
<1>10. ASSUME NEW p \in Processes, Crash(p) PROVE locked' = {u}
  <2>1. u \notin {t \in Threads : home[t] = p} /\ pc'[u] = pc[u]
    BY <1>10 DEF Crash, Critical
  <2>2. locked = {u}
    BY <1>a, <2>1
  <2> QED BY <1>10, <2>1, <2>2 DEF Crash
<1>11. ASSUME NEW p \in Processes, NEW i \in 1..MaxSize, IdleConnectionBreaks(p, i) PROVE locked' = {u}
  BY <1>1, <1>11 DEF IdleConnectionBreaks, refreshVars
<1>12. ASSUME DeleteSecret PROVE locked' = {u}
  BY <1>1, <1>12 DEF DeleteSecret
<1>13. ASSUME NEW t \in Threads, Step(t) PROVE locked' = {u}
  BY <1>2, <1>3, <1>5, <1>6, <1>7, <1>8, <1>13 DEF Step
<1>14. ASSUME Environment PROVE locked' = {u}
  BY <1>9, <1>10, <1>11, <1>12, <1>14 DEF Environment
<1>15. CASE UNCHANGED tokenVars
  BY <1>1, <1>15 DEF tokenVars, refreshVars
<1> QED BY <1>5, <1>8, <1>13, <1>14, <1>15 DEF TokenNext

\* A thread of the critical section keeps the others out of it.
LEMMA AloneInside ==
    ASSUME Exclusive, "session lost" \notin hazards, NEW t \in Threads, pc[t] \in Critical
    PROVE  \A u \in Threads : u # t => pc[u] \notin Critical
BY DEF Exclusive

LEMMA FreshStep ==
    ASSUME ChainInv, Exclusive, Fresh, [TokenNext]_tokenVars PROVE Fresh'
<1> SUFFICES ASSUME {"token lost", "session lost"} \cap hazards' = {}
             PROVE  /\ vault' \in {0, current'} \/ \E t \in Threads : pc'[t] = "store"
                    /\ \A t \in Threads : pc'[t] = "exchange" => token'[t] = current'
  BY DEF Fresh
<1> DEFINE Goal == /\ vault' \in {0, current'} \/ \E t \in Threads : pc'[t] = "store"
                   /\ \A t \in Threads : pc'[t] = "exchange" => token'[t] = current'
<1>0. /\ "token lost" \notin hazards /\ "session lost" \notin hazards
      /\ "token lost" \notin hazards' /\ "session lost" \notin hazards'
  BY HazardsGrow
<1>a. /\ vault \in {0, current} \/ \E t \in Threads : pc[t] = "store"
      /\ \A t \in Threads : pc[t] = "exchange" => token[t] = current
  BY <1>0 DEF Fresh
<1>b. TokenTypes /\ \A t \in Threads : pc[t] \in Critical => \A u \in Threads : u # t => pc[u] \notin Critical
  BY <1>0, AloneInside DEF ChainInv
<1>1. ASSUME UNCHANGED <<pc, token, vault, current>> PROVE Goal
  BY <1>1, <1>a
<1>2. ASSUME UNCHANGED <<vault, current>>, NEW t \in Threads, pc[t] # "store",
             NEW l \in {"idle", "query", "lock", "read", "unlock"}, pc' = [pc EXCEPT ![t] = l],
             token' = token \/ token' = [token EXCEPT ![t] = 0]
      PROVE  Goal
  BY <1>2, <1>a, <1>b DEF TokenTypes
<1>3. ASSUME NEW t \in Threads,
             StartQuery(t) \/ StartRefresh(t) \/ EndQuery(t) \/ TakeLock(t) \/ LockFails(t)
             \/ ExchangeRefused(t) \/ ExchangeFails(t) \/ Unlock(t)
      PROVE  Goal
  <2>1. /\ UNCHANGED <<vault, current>> /\ pc[t] # "store"
        /\ token' = token \/ token' = [token EXCEPT ![t] = 0]
        /\ \E l \in {"idle", "query", "lock", "read", "unlock"} : pc' = [pc EXCEPT ![t] = l]
    BY <1>3 DEF StartQuery, StartRefresh, EndQuery, TakeLock, LockFails, ExchangeRefused,
                ExchangeFails, Unlock, Goto
  <2> HIDE DEF Goal
  <2> QED BY <1>2, <2>1
<1>4. ASSUME NEW t \in Threads, BorrowFails(t) PROVE Goal
  <2>1. pc[t] # "store"
    BY <1>0, <1>4 DEF BorrowFails
  <2>2. /\ UNCHANGED <<vault, current>> /\ token' = [token EXCEPT ![t] = 0]
        /\ \E l \in {"idle", "query", "lock", "read", "unlock"} : pc' = [pc EXCEPT ![t] = l]
    BY <1>4 DEF BorrowFails, Goto
  <2> HIDE DEF Goal
  <2> QED BY <1>2, <2>1, <2>2
<1>5. ASSUME NEW t \in Threads, ReadToken(t) PROVE Goal
  <2>1. pc[t] = "read" /\ \A u \in Threads : pc[u] # "store"
    BY <1>5, <1>b DEF ReadToken, Critical
  <2>2. vault \in {0, current}
    BY <1>a, <2>1
  <2>3. CASE UNCHANGED token /\ Goto(t, "unlock")
    BY <1>5, <1>a, <1>b, <2>2, <2>3 DEF ReadToken, Goto, TokenTypes
  <2>4. CASE vault # 0 /\ token' = [token EXCEPT ![t] = vault] /\ Goto(t, "exchange")
    BY <1>5, <1>a, <1>b, <2>2, <2>4 DEF ReadToken, Goto, TokenTypes
  <2> QED BY <1>5, <2>3, <2>4 DEF ReadToken
<1>6. ASSUME NEW t \in Threads, Exchange(t) PROVE Goal
  <2>1. pc[t] = "exchange" /\ \A u \in Threads : u # t => pc[u] # "exchange"
    BY <1>6, <1>b DEF Exchange, Critical
  <2>2. pc' = [pc EXCEPT ![t] = "store"]
    BY <1>0, <1>6 DEF Exchange, Goto
  <2> QED BY <1>b, <2>1, <2>2 DEF TokenTypes
<1>7. ASSUME NEW t \in Threads, StoreToken(t) PROVE Goal
  <2>1. /\ pc[t] = "store" /\ vault' = token[t] /\ current' = current
        /\ pc' = [pc EXCEPT ![t] = "unlock"] /\ token' = [token EXCEPT ![t] = 0]
    BY <1>0, <1>7 DEF StoreToken, Goto
  <2>2. token[t] = current
    BY <2>1 DEF ChainInv, StoringAlone
  <2> QED BY <1>a, <1>b, <2>1, <2>2 DEF TokenTypes
<1>8. ASSUME NEW t \in Threads, Borrow(t) \/ Wait(t) \/ WaitAgain(t) PROVE Goal
  BY <1>1, <1>8 DEF Borrow, Wait, WaitAgain, refreshVars
<1>9. ASSUME NEW t \in Threads, NEW i \in 1..2, SessionBreaks(t, i) PROVE Goal
  BY <1>1, <1>9 DEF SessionBreaks
<1>10. ASSUME NEW p \in Processes, Crash(p) PROVE Goal
  <2>1. \A t \in Threads : home[t] = p => pc[t] # "store"
    BY <1>0, <1>10 DEF Crash
  <2> QED BY <1>10, <1>a, <2>1 DEF Crash
<1>11. ASSUME NEW p \in Processes, NEW i \in 1..MaxSize, IdleConnectionBreaks(p, i) PROVE Goal
  BY <1>1, <1>11 DEF IdleConnectionBreaks, refreshVars
<1>12. ASSUME DeleteSecret PROVE Goal
  BY <1>12, <1>a DEF DeleteSecret
<1>13. ASSUME UNCHANGED tokenVars PROVE Goal
  BY <1>1, <1>13 DEF tokenVars, refreshVars
<1> HIDE DEF Goal
<1>14. ASSUME NEW t \in Threads, Step(t) PROVE Goal
  BY <1>3, <1>4, <1>5, <1>6, <1>7, <1>8, <1>14 DEF Step
<1>15. ASSUME Environment PROVE Goal
  BY <1>9, <1>10, <1>11, <1>12, <1>15 DEF Environment
<1>16. Goal
  BY <1>3, <1>8, <1>13, <1>14, <1>15 DEF TokenNext
<1> QED BY <1>16 DEF Goal

-----------------------------------------------------------------------------
(* What goes wrong has a cause *)

\* Only the loss of a received token or the deletion of the secret ends the chain.
LEMMA LossExplained ==
    ASSUME ChainInv, ~Accepted => {"token lost", "removed"} \cap hazards # {}, [TokenNext]_tokenVars,
           ~Accepted'
    PROVE  {"token lost", "removed"} \cap hazards' # {}
<1> SUFFICES ASSUME "token lost" \notin hazards', "removed" \notin hazards' PROVE FALSE
  OBVIOUS
<1>0. Accepted /\ "token lost" \notin hazards /\ "removed" \notin hazards
  BY HazardsGrow
<1>b. TokenTypes
  BY DEF ChainInv
<1>1. ASSUME UNCHANGED <<pc, vault, current>> PROVE FALSE
  BY <1>0, <1>1 DEF Accepted
<1>2. ASSUME UNCHANGED <<vault, current>>, NEW t \in Threads, pc[t] # "store", NEW l, pc' = [pc EXCEPT ![t] = l]
      PROVE  FALSE
  BY <1>0, <1>b, <1>2 DEF Accepted, TokenTypes
<1>3. ASSUME NEW t \in Threads,
             StartQuery(t) \/ StartRefresh(t) \/ EndQuery(t) \/ TakeLock(t) \/ LockFails(t)
             \/ ReadToken(t) \/ ExchangeRefused(t) \/ ExchangeFails(t) \/ Unlock(t)
      PROVE  FALSE
  <2>1. UNCHANGED <<vault, current>> /\ pc[t] # "store" /\ \E l : pc' = [pc EXCEPT ![t] = l]
    BY <1>3 DEF StartQuery, StartRefresh, EndQuery, TakeLock, LockFails, ReadToken, ExchangeRefused,
                ExchangeFails, Unlock, Goto
  <2> QED BY <1>2, <2>1
<1>4. ASSUME NEW t \in Threads, BorrowFails(t) PROVE FALSE
  <2>1. UNCHANGED <<vault, current>> /\ pc[t] # "store" /\ \E l : pc' = [pc EXCEPT ![t] = l]
    BY <1>4 DEF BorrowFails, Goto
  <2> QED BY <1>2, <2>1
<1>5. ASSUME NEW t \in Threads, Exchange(t) PROVE FALSE
  BY <1>5, <1>b DEF Exchange, Goto, Accepted, TokenTypes
<1>6. ASSUME NEW t \in Threads, StoreToken(t) PROVE FALSE
  <2>1. pc[t] = "store" /\ vault' = token[t] /\ current' = current
    BY <1>6 DEF StoreToken
  <2>2. token[t] = current
    BY <2>1 DEF ChainInv, StoringAlone
  <2> QED BY <2>1, <2>2 DEF Accepted
<1>7. ASSUME NEW t \in Threads, Borrow(t) \/ Wait(t) \/ WaitAgain(t) PROVE FALSE
  BY <1>1, <1>7 DEF Borrow, Wait, WaitAgain, refreshVars
<1>8. ASSUME Environment PROVE FALSE
  <2>1. ASSUME NEW t \in Threads, NEW i \in 1..2, SessionBreaks(t, i) PROVE FALSE
    BY <1>1, <2>1 DEF SessionBreaks
  <2>2. ASSUME NEW p \in Processes, Crash(p) PROVE FALSE
    <3>1. \A t \in Threads : home[t] = p => pc[t] # "store"
      BY <2>2 DEF Crash
    <3> QED BY <1>0, <2>2, <3>1 DEF Crash, Accepted
  <2>3. ASSUME NEW p \in Processes, NEW i \in 1..MaxSize, IdleConnectionBreaks(p, i) PROVE FALSE
    BY <1>1, <2>3 DEF IdleConnectionBreaks, refreshVars
  <2>4. ASSUME DeleteSecret PROVE FALSE
    BY <2>4 DEF DeleteSecret
  <2> QED BY <1>8, <2>1, <2>2, <2>3, <2>4 DEF Environment
<1>9. CASE UNCHANGED tokenVars
  BY <1>1, <1>9 DEF tokenVars, refreshVars
<1>10. ASSUME NEW t \in Threads, Step(t) PROVE FALSE
  BY <1>3, <1>4, <1>5, <1>6, <1>7, <1>10 DEF Step
<1> QED BY <1>3, <1>7, <1>8, <1>9, <1>10 DEF TokenNext

\* Which steps record a refusal and a starved store.
LEMMA RecordedBy ==
    ASSUME [TokenNext]_tokenVars
    PROVE  /\ "refused" \in hazards' \ hazards =>
                \E t \in Threads : pc[t] = "exchange" /\ token[t] # current
           /\ "starved" \in hazards' \ hazards =>
                \E t \in Threads : pc[t] = "store" /\ Wants(t) /\ t \in waiting
                                   /\ (Exhausted(t) \/ OpenFails(t))
<1>1. CASE UNCHANGED hazards
  BY <1>1
<1>2. ASSUME NEW t \in Threads, BorrowFails(t)
      PROVE  /\ "refused" \notin hazards' \ hazards
             /\ "starved" \in hazards' \ hazards =>
                  pc[t] = "store" /\ Wants(t) /\ t \in waiting /\ (Exhausted(t) \/ OpenFails(t))
  BY <1>2 DEF BorrowFails
<1>3. ASSUME NEW t \in Threads, ExchangeRefused(t)
      PROVE  pc[t] = "exchange" /\ token[t] # current /\ "starved" \notin hazards' \ hazards
  BY <1>3 DEF ExchangeRefused
<1>4. ASSUME hazards' \subseteq hazards \cup {"token lost", "session lost", "removed"}
      PROVE  "refused" \notin hazards' \ hazards /\ "starved" \notin hazards' \ hazards
  BY <1>4
<1>5. ASSUME NEW t \in Threads,
             \/ StartQuery(t) \/ StartRefresh(t) \/ WaitAgain(t) \/ Borrow(t) \/ Wait(t) \/ EndQuery(t)
             \/ TakeLock(t) \/ LockFails(t) \/ ReadToken(t) \/ Exchange(t) \/ ExchangeFails(t)
             \/ StoreToken(t) \/ Unlock(t)
      PROVE  hazards' \subseteq hazards \cup {"token lost", "session lost", "removed"}
  BY <1>5 DEF StartQuery, StartRefresh, WaitAgain, Borrow, Wait, EndQuery, TakeLock, LockFails,
              ReadToken, Exchange, ExchangeFails, StoreToken, Unlock, refreshVars
<1>6. ASSUME Environment
      PROVE  hazards' \subseteq hazards \cup {"token lost", "session lost", "removed"}
  BY <1>6 DEF Environment, SessionBreaks, IdleConnectionBreaks, Crash, DeleteSecret, refreshVars
<1>7. CASE UNCHANGED tokenVars
  BY <1>1, <1>7 DEF tokenVars, refreshVars
<1>8. ASSUME NEW t \in Threads, Step(t) \/ StartQuery(t) \/ StartRefresh(t) \/ WaitAgain(t)
      PROVE  \/ hazards' \subseteq hazards \cup {"token lost", "session lost", "removed"}
             \/ BorrowFails(t) \/ ExchangeRefused(t)
  BY <1>5, <1>8 DEF Step
<1> QED BY <1>2, <1>3, <1>4, <1>6, <1>7, <1>8 DEF TokenNext

\* While one thread of a process waits for its second connection, and all others
\* hold or open one at most, a full pool is no larger than the number of threads.
LEMMA FullPoolIsSmall ==
    ASSUME PoolInv, NEW t \in Threads, pc[t] = "store", t \in waiting,
           \A u \in Threads : u # t => pc[u] \notin Critical,
           Full(home[t])
    PROVE  size <= Cardinality(ThreadsOf(home[t]))
<1> DEFINE p == home[t]
           calm == ThreadsOf(p) \ opening
           owner == [slot \in Held(p) |-> slot[1]]
<1>0. PoolTypes /\ HoldsSlots /\ AtMostTwo /\ p \in Processes
  BY TwoAtMost DEF PoolInv, PoolTypes
<1>1. \A u \in ThreadsOf(p) : /\ u \in Threads /\ Len(borrowed[u]) \in Nat /\ Len(borrowed[u]) <= 1
                              /\ u \in opening => Len(borrowed[u]) = 0
  <2> SUFFICES ASSUME NEW u \in Threads
               PROVE  /\ Len(borrowed[u]) \in Nat /\ Len(borrowed[u]) <= 1
                      /\ u \in opening => Len(borrowed[u]) = 0
    BY DEF ThreadsOf
  <2>1. Len(borrowed[u]) \in Nat /\ Slots(u)
    BY <1>0, Stacks DEF PoolTypes, HoldsSlots
  <2>2. CASE u = t
    <3>1. Len(borrowed[u]) < 2 /\ u \notin opening
      BY <1>0, <2>1, <2>2 DEF Slots, Need, PoolTypes
    <3> QED BY <2>1, <3>1
  <2>3. CASE u # t
    BY <2>1, <2>3 DEF Slots, Critical, Need
  <2> QED BY <2>2, <2>3
<1>2. \A slot \in Held(p) : slot[1] \in calm /\ slot = <<slot[1], 1>>
  <2> SUFFICES ASSUME NEW slot \in Held(p) PROVE slot[1] \in calm /\ slot = <<slot[1], 1>>
    OBVIOUS
  <2>1. PICK u \in ThreadsOf(p) : \E i \in 1..Len(borrowed[u]) : slot = <<u, i>>
    BY <1>0, HeldSlots
  <2>2. PICK i \in 1..Len(borrowed[u]) : slot = <<u, i>>
    BY <2>1
  <2>3. i = 1 /\ u \notin opening
    BY <1>1, <2>2
  <2> QED BY <2>2, <2>3
<1>3. owner \in Injection(Held(p), calm)
  <2>1. owner \in [Held(p) -> calm]
    BY <1>2
  <2>2. \A a, b \in Held(p) : owner[a] = owner[b] => a = b
    BY <1>2
  <2> QED BY <2>1, <2>2 DEF Injection, IsInjective
<1>4. /\ IsFiniteSet(calm) /\ Cardinality(calm) \in Nat
      /\ Cardinality(calm) = Cardinality(ThreadsOf(p)) - Cardinality(opening \cap ThreadsOf(p))
  <2>1. IsFiniteSet(ThreadsOf(p)) /\ ThreadsOf(p) \cap opening = opening \cap ThreadsOf(p)
    BY <1>0, Finite
  <2>2. IsFiniteSet(calm)
    BY <2>1, FS_Difference
  <2>3. Cardinality(calm) = Cardinality(ThreadsOf(p)) - Cardinality(ThreadsOf(p) \cap opening)
    BY <2>1, FS_Difference
  <2> QED BY <2>1, <2>2, <2>3, FS_CardinalityType
<1>5. Cardinality(Held(p)) <= Cardinality(calm)
  <2> HIDE DEF owner, calm
  <2> QED BY <1>3, <1>4, FS_Injection
<1>6. created[p] = Len(idle[p]) + Cardinality(opening \cap ThreadsOf(p)) + Cardinality(Held(p))
  BY <1>0 DEF PoolInv, PoolAccounted
<1>7. Len(idle[p]) = 0 /\ created[p] >= size
  BY Stacks DEF Full
<1>8. Counts(p) /\ Cardinality(ThreadsOf(p)) \in Nat /\ size \in Nat
  BY <1>0, CountsAreNumbers, Finite DEF PoolTypes
<1> HIDE DEF calm, p
<1>9. size <= Cardinality(ThreadsOf(p))
  BY <1>4, <1>5, <1>6, <1>7, <1>8 DEF Counts
<1> QED BY <1>9 DEF p

LEMMA RotationsStep ==
    ASSUME ChainInv, PoolInv, LockInv, [TokenNext]_tokenVars PROVE RotationsExplained'
<1>0. hazards \subseteq hazards' /\ size' = size /\ home' = home
  BY HazardsGrow, PoolSteps DEF deployment
<1>1. ~Accepted' => {"token lost", "removed"} \cap hazards' # {}
  BY LossExplained DEF LockInv, RotationsExplained
<1>2. "refused" \in hazards' => {"token lost", "session lost"} \cap hazards' # {}
  <2>1. CASE "refused" \in hazards
    BY <1>0, <2>1 DEF LockInv, RotationsExplained
  <2>2. CASE "refused" \in hazards' \ hazards
    <3>1. PICK t \in Threads : pc[t] = "exchange" /\ token[t] # current
      BY <2>2, RecordedBy
    <3> QED BY <1>0, <3>1 DEF LockInv, Fresh
  <2> QED BY <2>1, <2>2
<1>3. "starved" \in hazards' =>
          "session lost" \in hazards' \/ \E p \in Processes : size <= Cardinality(ThreadsOf(p))
  <2>1. CASE "starved" \in hazards
    BY <1>0, <2>1 DEF LockInv, RotationsExplained
  <2>2. CASE "starved" \in hazards' \ hazards /\ "session lost" \notin hazards'
    <3>1. PICK t \in Threads : pc[t] = "store" /\ t \in waiting /\ (Exhausted(t) \/ OpenFails(t))
      BY <2>2, RecordedBy
    <3>2. Full(home[t]) /\ home[t] \in Processes
      BY <3>1 DEF Exhausted, OpenFails, PoolInv, PoolTypes
    <3>3. \A u \in Threads : u # t => pc[u] \notin Critical
      <4>1. "session lost" \notin hazards /\ pc[t] \in Critical
        BY <1>0, <2>2, <3>1 DEF Critical
      <4> QED BY <4>1, AloneInside DEF LockInv
    <3>4. size <= Cardinality(ThreadsOf(home[t]))
      BY <3>1, <3>2, <3>3, FullPoolIsSmall
    <3> QED BY <3>2, <3>4
  <2> QED BY <2>1, <2>2
<1>4. \A p : ThreadsOf(p)' = ThreadsOf(p)
  BY <1>0 DEF ThreadsOf
<1> QED BY <1>0, <1>1, <1>2, <1>3, <1>4 DEF RotationsExplained

LEMMA LockStart == TokenInit => LockInv
BY DEF TokenInit, LockInv, Exclusive, Fresh, RotationsExplained, Critical, Accepted

LEMMA LockStep == ChainInv /\ PoolInv /\ LockInv /\ [TokenNext]_tokenVars => LockInv'
<1> SUFFICES ASSUME ChainInv, PoolInv, LockInv, [TokenNext]_tokenVars PROVE LockInv'
  OBVIOUS
<1>1. Exclusive' /\ Fresh'
  BY ExclusiveStep, FreshStep DEF ChainInv, LockInv
<1> QED BY <1>1, RotationsStep DEF LockInv

\* A credential is lost, a token refused and a store starved only for the causes
\* that RotationsExplained names; in particular a pool with one connection more than
\* its process has threads never starves the store of a rotated token.
THEOREM FailuresHaveCauses == TokenSpec => []RotationsExplained
<1>1. LockInv => RotationsExplained
  BY DEF LockInv
<1> QED BY <1>1, ChainStart, ChainStep, PoolStart, PoolInvStep, LockStart, LockStep, PTL DEF TokenSpec

-----------------------------------------------------------------------------
(* The types and their limits *)

Bounded ==
    /\ [size |-> size, home |-> home] \in Deployments
    /\ current <= MaxToken
    /\ \A t \in Threads : token[t] <= current
    /\ hazards \subseteq Hazard
    /\ locked \subseteq Threads

LEMMA BoundedStart == TokenInit => Bounded
<1> SUFFICES ASSUME TokenInit PROVE Bounded
  OBVIOUS
<1>1. PICK d \in Deployments : size = d.size /\ home = d.home
  BY DEF TokenInit, PoolInit
<1>2. d = [size |-> size, home |-> home]
  BY <1>1, ConnectionPoolAssumption
<1> QED BY <1>1, <1>2, TokenRefreshAssumption DEF Bounded, TokenInit

LEMMA CurrentSteps ==
    ASSUME [TokenNext]_tokenVars
    PROVE  current' = current \/ (current' = current + 1 /\ current < MaxToken)
<1>1. ASSUME NEW t \in Threads,
             \/ StartQuery(t) \/ StartRefresh(t) \/ WaitAgain(t) \/ Borrow(t) \/ Wait(t) \/ BorrowFails(t)
             \/ EndQuery(t) \/ TakeLock(t) \/ LockFails(t) \/ ReadToken(t) \/ ExchangeRefused(t)
             \/ ExchangeFails(t) \/ StoreToken(t) \/ Unlock(t)
      PROVE  current' = current
  BY <1>1 DEF StartQuery, StartRefresh, WaitAgain, Borrow, Wait, BorrowFails, EndQuery, TakeLock,
              LockFails, ReadToken, ExchangeRefused, ExchangeFails, StoreToken, Unlock, refreshVars
<1>2. ASSUME NEW t \in Threads, Exchange(t)
      PROVE  current' = current + 1 /\ current < MaxToken
  BY <1>2 DEF Exchange
<1>3. ASSUME Environment PROVE current' = current
  BY <1>3 DEF Environment, SessionBreaks, IdleConnectionBreaks, Crash, DeleteSecret, refreshVars
<1>4. UNCHANGED tokenVars => current' = current
  BY DEF tokenVars, refreshVars
<1>5. ASSUME NEW t \in Threads, Step(t)
      PROVE  current' = current \/ (current' = current + 1 /\ current < MaxToken)
  BY <1>1, <1>2, <1>5 DEF Step
<1> QED BY <1>1, <1>3, <1>4, <1>5 DEF TokenNext

LEMMA BoundedStep == ChainInv /\ Bounded /\ [TokenNext]_tokenVars => Bounded'
<1> SUFFICES ASSUME ChainInv, Bounded, [TokenNext]_tokenVars PROVE Bounded'
  OBVIOUS
<1>b. TokenTypes /\ NoneAhead /\ current \in Nat /\ vault \in Nat
  BY DEF ChainInv, TokenTypes
<1>1. [size |-> size, home |-> home]' \in Deployments
  BY PoolSteps DEF Bounded, deployment
<1>2. current' <= MaxToken /\ \A t \in Threads : token'[t] <= current'
  <2>1. current' = current \/ (current' = current + 1 /\ current < MaxToken)
    BY CurrentSteps
  <2>2. \A t \in Threads : token'[t] <= current'
    <3>1. CASE UNCHANGED <<pc, token, vault, current>>
      BY <3>1 DEF Bounded
    <3>2. ASSUME NEW t \in Threads, Moves(t) PROVE \A u \in Threads : token'[u] <= current'
      BY <1>b, <3>2 DEF Moves, Bounded, TokenTypes
    <3>3. ASSUME NEW t \in Threads, Receives(t) PROVE \A u \in Threads : token'[u] <= current'
      BY <1>b, <3>3 DEF Receives, Bounded, TokenTypes, NoneAhead
    <3>4. ASSUME NEW t \in Threads, Rotates(t) PROVE \A u \in Threads : token'[u] <= current'
      BY <1>b, <3>4 DEF Rotates, Bounded, TokenTypes
    <3>5. ASSUME NEW t \in Threads, Stores(t) PROVE \A u \in Threads : token'[u] <= current'
      BY <1>b, <3>5 DEF Stores, Bounded, TokenTypes
    <3>6. CASE Dies
      BY <1>b, <3>6 DEF Dies, Bounded, TokenTypes
    <3>7. CASE Deletes
      BY <3>7 DEF Deletes, Bounded
    <3> QED BY <1>b, <3>1, <3>2, <3>3, <3>4, <3>5, <3>6, <3>7, TokenSteps
  <2> QED BY <1>b, <2>1, <2>2, TokenRefreshAssumption DEF Bounded
<1>3. hazards' \subseteq Hazard
  <2>1. hazards' \subseteq hazards \cup {"token lost", "starved", "refused", "session lost", "removed"}
    <3>1. ASSUME NEW t \in Threads, Step(t) \/ StartQuery(t) \/ StartRefresh(t) \/ WaitAgain(t)
          PROVE  hazards' \subseteq hazards \cup {"token lost", "starved", "refused"}
      BY <3>1 DEF Step, StartQuery, StartRefresh, WaitAgain, Borrow, Wait, BorrowFails, EndQuery, TakeLock,
                  LockFails, ReadToken, Exchange, ExchangeRefused, ExchangeFails, StoreToken, Unlock, refreshVars
    <3>2. ASSUME Environment PROVE hazards' \subseteq hazards \cup {"token lost", "session lost", "removed"}
      BY <3>2 DEF Environment, SessionBreaks, IdleConnectionBreaks, Crash, DeleteSecret, refreshVars
    <3>3. CASE UNCHANGED tokenVars
      BY <3>3 DEF tokenVars, refreshVars
    <3> QED BY <3>1, <3>2, <3>3 DEF TokenNext
  <2> QED BY <2>1 DEF Bounded, Hazard
<1>4. locked' \subseteq Threads
  <2>1. ASSUME NEW t \in Threads, Step(t) \/ StartQuery(t) \/ StartRefresh(t) \/ WaitAgain(t)
        PROVE  locked' \subseteq locked \cup {t}
    BY <2>1 DEF Step, StartQuery, StartRefresh, WaitAgain, Borrow, Wait, BorrowFails, EndQuery, TakeLock,
                LockFails, ReadToken, Exchange, ExchangeRefused, ExchangeFails, StoreToken, Unlock, refreshVars
  <2>2. ASSUME Environment PROVE locked' \subseteq locked
    BY <2>2 DEF Environment, SessionBreaks, IdleConnectionBreaks, Crash, DeleteSecret, refreshVars
  <2>3. UNCHANGED tokenVars => locked' = locked
    BY DEF tokenVars, refreshVars
  <2>4. locked \subseteq Threads
    BY DEF Bounded
  <2> QED BY <2>1, <2>2, <2>3, <2>4 DEF TokenNext
<1> QED BY <1>1, <1>2, <1>3, <1>4 DEF Bounded

\* A process never counts, keeps or hands out more connections than its pool may
\* have, and a thread holds no more than that.
LEMMA WithinLimits == ChainInv /\ PoolInv /\ Bounded => TokenTypeOK
<1> SUFFICES ASSUME ChainInv, PoolInv, Bounded PROVE TokenTypeOK
  OBVIOUS
<1>0. PoolTypes /\ HoldsSlots /\ AtMostTwo /\ TokenTypes
  BY TwoAtMost DEF PoolInv, ChainInv
<1>1. size \in 1..MaxSize /\ size \in Nat /\ MaxSize \in Nat
  BY ConnectionPoolAssumption DEF Bounded
<1>2. \A p \in Processes : /\ created[p] \in 0..size /\ Len(idle[p]) <= size
                           /\ Cardinality(Held(p)) <= size
  <2> SUFFICES ASSUME NEW p \in Processes
               PROVE  created[p] \in 0..size /\ Len(idle[p]) <= size /\ Cardinality(Held(p)) <= size
    OBVIOUS
  <2>1. Counts(p)
    BY <1>0, CountsAreNumbers
  <2>2. created[p] = Len(idle[p]) + Cardinality(opening \cap ThreadsOf(p)) + Cardinality(Held(p))
    BY DEF PoolInv, PoolAccounted
  <2>3. created[p] <= size
    BY DEF PoolInv, Limited
  <2> QED BY <1>1, <2>1, <2>2, <2>3 DEF Counts
<1>3. \A s \in Seq(Health) : Len(s) <= size => s \in Stack
  <2> SUFFICES ASSUME NEW s \in Seq(Health), Len(s) <= size PROVE s \in Stack
    OBVIOUS
  <2>1. s \in [1..Len(s) -> Health] /\ Len(s) \in 0..MaxSize
    BY <1>1, LenProperties
  <2> QED BY <2>1 DEF Stack
<1>4. \A t \in Threads : Len(borrowed[t]) <= size
  <2> SUFFICES ASSUME NEW t \in Threads PROVE Len(borrowed[t]) <= Cardinality(Held(home[t]))
    <3>1. \A t \in Threads : home[t] \in Processes /\ Cardinality(Held(home[t])) \in Nat
                             /\ Len(borrowed[t]) \in Nat
      BY <1>0, Finite, Stacks DEF PoolTypes
    <3> QED BY <1>1, <1>2, <3>1
  <2> DEFINE mine == {t} \X (1..Len(borrowed[t]))
  <2>1. Len(borrowed[t]) \in Nat /\ t \in ThreadsOf(home[t]) /\ IsFiniteSet(Held(home[t]))
    BY <1>0, Stacks, Finite DEF PoolTypes, ThreadsOf
  <2>2. mine \subseteq Held(home[t])
    BY <1>0, <2>1, HeldSlots
  <2>3. IsFiniteSet(1..Len(borrowed[t])) /\ Cardinality(1..Len(borrowed[t])) = Len(borrowed[t])
    BY <2>1, FS_Interval
  <2>4. IsFiniteSet({t}) /\ Cardinality({t}) = 1
    BY FS_Singleton
  <2>5. Cardinality(mine) = Len(borrowed[t])
    <3>1. Cardinality(mine) = Cardinality({t}) * Cardinality(1..Len(borrowed[t]))
      BY <2>3, <2>4, FS_Product
    <3> QED BY <2>1, <2>3, <2>4, <3>1
  <2>6. Cardinality(mine) <= Cardinality(Held(home[t]))
    <3> HIDE DEF mine
    <3> QED BY <2>1, <2>2, FS_Subset
  <2> QED BY <2>5, <2>6
<1>5. PoolTypeOK
  <2>1. idle \in [Processes -> Stack] /\ borrowed \in [Threads -> Stack] /\ created \in [Processes -> 0..size]
    BY <1>0, <1>2, <1>3, <1>4 DEF PoolTypes
  <2> QED BY <1>0, <2>1 DEF PoolTypeOK, PoolTypes, Bounded
<1>6. token \in [Threads -> 0..MaxToken] /\ vault \in 0..MaxToken /\ current \in 1..MaxToken
  <2>1. /\ current \in Nat \ {0} /\ vault \in Nat /\ vault <= current /\ current <= MaxToken
        /\ MaxToken \in Nat
        /\ token \in [Threads -> Nat] /\ \A t \in Threads : token[t] <= current
    BY TokenRefreshAssumption DEF ChainInv, TokenTypes, NoneAhead, Bounded
  <2> QED BY <2>1
<1> QED BY <1>0, <1>5, <1>6 DEF TokenTypeOK, TokenTypes, Bounded

\* Every variable of the pool and of the refresh stays within its type: in particular
\* created is never negative and never above pool_max_size.
THEOREM TokenTypeCorrect == TokenSpec => []TokenTypeOK
BY ChainStart, ChainStep, PoolStart, PoolInvStep, BoundedStart, BoundedStep, WithinLimits, PTL
   DEF TokenSpec
=============================================================================
