----------------------------- MODULE ReconcileProofs -----------------------------
(***************************************************************************)
(* Proofs about the execution of a close, for every snapshot and mapping:  *)
(* the matching accounts for each transaction once, its exceptions explain *)
(* the whole difference between the bank and the ledger, and what is       *)
(* reported and proposed follows from that.  Sums and the steps of the     *)
(* matching are recursive functions; that they exist, and what holds of    *)
(* them, is shown with a least counterexample.                             *)
(***************************************************************************)
EXTENDS CloseExecution, FiniteSetTheorems, WellFoundedInduction, TLAPS

-----------------------------------------------------------------------------
(* Least counterexamples *)

\* Among subsets of a finite set there is a least one.
LEMMA LeastSet ==
    ASSUME NEW S, IsFiniteSet(S), NEW B \in SUBSET SUBSET S, B # {}
    PROVE  \E T \in B : \A U \in B : U \subseteq T => U = T
<1>1. IsWellFoundedOn(StrictSubsetOrdering(S), SUBSET S)
  BY FS_StrictSubsetOrderingWellFounded, FS_FiniteSubsetsOfFinite
<1>2. \A C : C \subseteq SUBSET S /\ C # {} =>
        \E x \in C : \A y \in C : ~(<<y, x>> \in StrictSubsetOrdering(S))
  BY <1>1, WFMin
<1>3. PICK T \in B : \A U \in B : ~(<<U, T>> \in StrictSubsetOrdering(S))
  BY <1>2
<1> QED BY <1>3 DEF StrictSubsetOrdering

Less == {e \in Nat \X Nat : e[1] < e[2]}

LEMMA LessWF == IsWellFoundedOn(Less, Nat)
  BY NatLessThanWellFounded, Zenon DEF OpToRel, Less

\* And among natural numbers.
LEMMA LeastNumber ==
    ASSUME NEW B \in SUBSET Nat, B # {}
    PROVE  \E n \in B : \A k \in B : n <= k
<1>1. \A C : C \subseteq Nat /\ C # {} => \E x \in C : \A y \in C : ~(<<y, x>> \in Less)
  BY LessWF, WFMin
<1>2. PICK n \in B : \A k \in B : ~(<<k, n>> \in Less)
  BY <1>1
<1>3. \A k \in B : ~(k < n)
  BY <1>2 DEF Less
<1>4. \A k \in B : n <= k
  BY <1>3
<1> QED BY <1>4

\* Induction over the subsets of a finite set.
LEMMA OverSubsets ==
    ASSUME NEW S, IsFiniteSet(S), NEW P, {} \in P,
           \A T \in SUBSET S : \A x \in S \ T : T \in P => T \cup {x} \in P
    PROVE  S \in P
<1> DEFINE B == {T \in SUBSET S : T \notin P}
<1>1. ASSUME B # {} PROVE FALSE
  <2>1. PICK T \in B : \A U \in B : U \subseteq T => U = T
    <3>1. B \in SUBSET SUBSET S
      OBVIOUS
    <3> HIDE DEF B
    <3> QED BY <1>1, <3>1, LeastSet
  <2>2. PICK x \in T : TRUE
    BY <2>1
  <2>3. T \ {x} \in P /\ T \ {x} \in SUBSET S /\ x \in S \ (T \ {x})
    BY <2>1, <2>2
  <2>4. (T \ {x}) \cup {x} = T
    BY <2>2
  <2> QED BY <2>1, <2>3, <2>4
<1> QED BY <1>1

\* Induction up to a number.
LEMMA UpTo ==
    ASSUME NEW n \in Nat, NEW P, 0 \in P, \A k \in 0..(n - 1) : k \in P => k + 1 \in P
    PROVE  \A k \in 0..n : k \in P
<1> DEFINE B == {k \in 0..n : k \notin P}
<1>1. ASSUME B # {} PROVE FALSE
  <2>1. B \in SUBSET Nat
    OBVIOUS
  <2>2. PICK k \in B : \A j \in B : k <= j
    BY <1>1, <2>1, LeastNumber
  <2>3. k \in 1..n /\ k - 1 \in 0..(n - 1) /\ (k - 1) + 1 = k
    BY <2>2
  <2>4. k - 1 \in P
    BY <2>2, <2>3
  <2> QED BY <2>2, <2>3, <2>4
<1> QED BY <1>1

-----------------------------------------------------------------------------
(* Sums over finite sets *)

Chosen(s) == CHOOSE x \in s : TRUE

IsSums(g, F, D) ==
    g = [s \in D |-> IF s = {} THEN 0 ELSE F[Chosen(s)] + g[s \ {Chosen(s)}]]

LEMMA SumIsSums ==
    ASSUME NEW F, NEW S
    PROVE  SumFunctionOnSet(F, S) = (CHOOSE g : IsSums(g, F, SUBSET S))[S]
  BY DEF SumFunctionOnSet, FoldFunctionOnSet, MapThenFoldSet, IsSums, Chosen

LEMMA SumsExist ==
    ASSUME NEW F, NEW S, IsFiniteSet(S)
    PROVE  \E g : IsSums(g, F, SUBSET S)
<1> DEFINE N == Cardinality(S)
           D(n) == {s \in SUBSET S : Cardinality(s) <= n}
           P == {n \in Nat : \E g : IsSums(g, F, D(n))}
<1>1. N \in Nat /\ \A s \in SUBSET S : IsFiniteSet(s) /\ Cardinality(s) \in Nat /\ Cardinality(s) <= N
  BY FS_CardinalityType, FS_Subset
<1>2. 0 \in P
  <2>1. D(0) = {{}}
    BY <1>1, FS_EmptySet
  <2>2. IsSums([s \in {{}} |-> 0], F, {{}})
    BY DEF IsSums
  <2> QED BY <2>1, <2>2
<1>3. ASSUME NEW n \in 0..(N - 1), n \in P PROVE n + 1 \in P
  <2>1. PICK g : IsSums(g, F, D(n))
    BY <1>3
  <2>2. D(n) \subseteq D(n + 1) /\ n + 1 \in Nat
    BY <1>1
  <2>3. ASSUME NEW s \in D(n + 1), s # {} PROVE s \ {Chosen(s)} \in D(n)
    <3>1. Chosen(s) \in s
      BY <2>3 DEF Chosen
    <3>2. Cardinality(s \ {Chosen(s)}) = Cardinality(s) - 1
      BY <1>1, <3>1, FS_RemoveElement
    <3> QED BY <1>1, <3>2
  <2> DEFINE h == [s \in D(n + 1) |-> IF s = {} THEN 0 ELSE F[Chosen(s)] + g[s \ {Chosen(s)}]]
  <2>4. \A s \in D(n) : g[s] = h[s]
    BY <2>1, <2>2 DEF IsSums
  <2>5. h = [s \in D(n + 1) |-> IF s = {} THEN 0 ELSE F[Chosen(s)] + h[s \ {Chosen(s)}]]
    <3> HIDE DEF D
    <3> QED BY <2>3, <2>4
  <2>6. IsSums(h, F, D(n + 1))
    BY <2>5 DEF IsSums
  <2> QED BY <2>2, <2>6
<1>4. \A k \in 0..N : k \in P
  <2> HIDE DEF P
  <2> QED BY <1>1, <1>2, <1>3, UpTo
<1>5. D(N) = SUBSET S
  BY <1>1
<1>6. N \in P
  <2> HIDE DEF P
  <2> QED BY <1>1, <1>4
<1> QED BY <1>5, <1>6

LEMMA SumsAgree ==
    ASSUME NEW F, NEW S, IsFiniteSet(S), NEW T \in SUBSET S, NEW g, NEW h,
           IsSums(g, F, SUBSET S), IsSums(h, F, SUBSET T)
    PROVE  g[T] = h[T]
<1> DEFINE B == {s \in SUBSET T : g[s] # h[s]}
<1>1. ASSUME B # {} PROVE FALSE
  <2>1. PICK s \in B : \A U \in B : U \subseteq s => U = s
    <3>1. B \in SUBSET SUBSET S
      OBVIOUS
    <3> HIDE DEF B
    <3> QED BY <1>1, <3>1, LeastSet
  <2>2. s \in SUBSET S /\ s \in SUBSET T
    BY <2>1
  <2>3. s # {}
    BY <2>1, <2>2 DEF IsSums
  <2>4. Chosen(s) \in s
    BY <2>3 DEF Chosen
  <2>5. s \ {Chosen(s)} \in SUBSET T /\ s \ {Chosen(s)} # s
    BY <2>2, <2>4
  <2>6. g[s \ {Chosen(s)}] = h[s \ {Chosen(s)}]
    BY <2>1, <2>5
  <2>7. g[s] = F[Chosen(s)] + g[s \ {Chosen(s)}] /\ h[s] = F[Chosen(s)] + h[s \ {Chosen(s)}]
    BY <2>2, <2>3 DEF IsSums
  <2> QED BY <2>1, <2>6, <2>7
<1>2. T \in SUBSET T
  OBVIOUS
<1> QED BY <1>1, <1>2

\* The equation that defines a sum.
LEMMA SumEmpty == ASSUME NEW F PROVE SumFunctionOnSet(F, {}) = 0
<1>1. PICK g : g = (CHOOSE f : IsSums(f, F, SUBSET {}))
  OBVIOUS
<1>2. IsSums(g, F, SUBSET {})
  BY <1>1, SumsExist, FS_EmptySet
<1> QED BY <1>1, <1>2, SumIsSums DEF IsSums

LEMMA SumStep ==
    ASSUME NEW F, NEW S, IsFiniteSet(S), S # {}
    PROVE  /\ Chosen(S) \in S
           /\ SumFunctionOnSet(F, S) = F[Chosen(S)] + SumFunctionOnSet(F, S \ {Chosen(S)})
<1> DEFINE T == S \ {Chosen(S)}
<1>1. Chosen(S) \in S /\ T \in SUBSET S /\ IsFiniteSet(T)
  BY FS_Subset DEF Chosen
<1>2. PICK g : g = (CHOOSE f : IsSums(f, F, SUBSET S))
  OBVIOUS
<1>3. PICK h : h = (CHOOSE f : IsSums(f, F, SUBSET T))
  OBVIOUS
<1>4. IsSums(g, F, SUBSET S) /\ IsSums(h, F, SUBSET T)
  BY <1>1, <1>2, <1>3, SumsExist
<1>5. g[T] = h[T]
  <2> HIDE DEF T
  <2> QED BY <1>1, <1>4, SumsAgree
<1>6. g[S] = F[Chosen(S)] + g[T]
  BY <1>4 DEF IsSums
<1>7. SumFunctionOnSet(F, S) = g[S] /\ SumFunctionOnSet(F, T) = h[T]
  BY <1>2, <1>3, SumIsSums
<1> QED BY <1>1, <1>5, <1>6, <1>7

\* A sum of integers is an integer.
LEMMA SumInt ==
    ASSUME NEW F, NEW S, IsFiniteSet(S), \A x \in S : F[x] \in Int
    PROVE  SumFunctionOnSet(F, S) \in Int
<1> DEFINE B == {T \in SUBSET S : SumFunctionOnSet(F, T) \notin Int}
<1>1. ASSUME B # {} PROVE FALSE
  <2>1. PICK T \in B : \A U \in B : U \subseteq T => U = T
    <3>1. B \in SUBSET SUBSET S
      OBVIOUS
    <3> HIDE DEF B
    <3> QED BY <1>1, <3>1, LeastSet
  <2>2. IsFiniteSet(T) /\ T # {}
    <3>1. T \in SUBSET S /\ SumFunctionOnSet(F, T) # 0
      BY <2>1
    <3> QED BY <3>1, FS_Subset, SumEmpty
  <2>3. Chosen(T) \in T
        /\ SumFunctionOnSet(F, T) = F[Chosen(T)] + SumFunctionOnSet(F, T \ {Chosen(T)})
    BY <2>2, SumStep
  <2>4. SumFunctionOnSet(F, T \ {Chosen(T)}) \in Int
    BY <2>1, <2>3
  <2> QED BY <2>1, <2>3, <2>4
<1> QED BY <1>1

\* Any element may be taken out first.
LEMMA SumTakes ==
    ASSUME NEW F, NEW S, IsFiniteSet(S), \A x \in S : F[x] \in Int
    PROVE  \A x \in S : SumFunctionOnSet(F, S) = F[x] + SumFunctionOnSet(F, S \ {x})
<1> DEFINE Sum(T) == SumFunctionOnSet(F, T)
           B == {T \in SUBSET S : \E x \in T : Sum(T) # F[x] + Sum(T \ {x})}
<1>1. ASSUME B # {} PROVE FALSE
  <2>1. PICK T \in B : \A U \in B : U \subseteq T => U = T
    <3>1. B \in SUBSET SUBSET S
      OBVIOUS
    <3> HIDE DEF B
    <3> QED BY <1>1, <3>1, LeastSet
  <2>2. PICK x \in T : Sum(T) # F[x] + Sum(T \ {x})
    BY <2>1
  <2>3. \A U \in SUBSET S : Sum(U) \in Int
    BY FS_Subset, SumInt
  <2>4. PICK p \in T : Sum(T) = F[p] + Sum(T \ {p})
    BY <2>1, <2>2, FS_Subset, SumStep
  <2>5. p # x
    BY <2>2, <2>4
  <2>6. Sum(T \ {p}) = F[x] + Sum((T \ {p}) \ {x})
    BY <2>1, <2>2, <2>4, <2>5
  <2>7. Sum(T \ {x}) = F[p] + Sum((T \ {x}) \ {p})
    BY <2>1, <2>2, <2>4, <2>5
  <2>8. (T \ {p}) \ {x} = (T \ {x}) \ {p}
    OBVIOUS
  <2>9. /\ F[x] \in Int /\ F[p] \in Int /\ Sum((T \ {x}) \ {p}) \in Int
        /\ Sum(T \ {p}) = F[x] + Sum((T \ {x}) \ {p})
    BY <2>1, <2>2, <2>3, <2>4, <2>6, <2>8
  <2> HIDE DEF Sum
  <2> QED BY <2>2, <2>4, <2>7, <2>9
<1> QED BY <1>1

LEMMA SumAdds ==
    ASSUME NEW F, NEW S, IsFiniteSet(S), NEW x, x \notin S, \A y \in S \cup {x} : F[y] \in Int
    PROVE  SumFunctionOnSet(F, S \cup {x}) = F[x] + SumFunctionOnSet(F, S)
<1>1. IsFiniteSet(S \cup {x}) /\ (S \cup {x}) \ {x} = S
  BY FS_AddElement
<1>2. SumFunctionOnSet(F, S \cup {x}) = F[x] + SumFunctionOnSet(F, (S \cup {x}) \ {x})
  BY <1>1, SumTakes
<1> QED BY <1>1, <1>2

LEMMA SumOne ==
    ASSUME NEW F, NEW x, F[x] \in Int
    PROVE  SumFunctionOnSet(F, {x}) = F[x]
<1>1. SumFunctionOnSet(F, {x}) = F[x] + SumFunctionOnSet(F, {x} \ {x})
  BY FS_Singleton, SumTakes
<1>2. {x} \ {x} = {}
  OBVIOUS
<1> QED BY <1>1, <1>2, SumEmpty

\* The sum over two sets without a common element.
LEMMA SumParts ==
    ASSUME NEW F, NEW S, IsFiniteSet(S), NEW T, IsFiniteSet(T), S \cap T = {},
           \A x \in S \cup T : F[x] \in Int
    PROVE  SumFunctionOnSet(F, S \cup T) = SumFunctionOnSet(F, S) + SumFunctionOnSet(F, T)
<1> DEFINE P == {U \in SUBSET T : SumFunctionOnSet(F, S \cup U)
                                    = SumFunctionOnSet(F, S) + SumFunctionOnSet(F, U)}
<1>1. SumFunctionOnSet(F, S) \in Int
  BY SumInt
<1>2. {} \in P
  <2>1. S \cup {} = S
    OBVIOUS
  <2> QED BY <1>1, <2>1, SumEmpty
<1>3. ASSUME NEW U \in SUBSET T, NEW x \in T \ U, U \in P PROVE U \cup {x} \in P
  <2>1. IsFiniteSet(U) /\ IsFiniteSet(S \cup U) /\ S \cup (U \cup {x}) = (S \cup U) \cup {x}
    BY FS_Subset, FS_Union
  <2>2. SumFunctionOnSet(F, U \cup {x}) = F[x] + SumFunctionOnSet(F, U)
    BY <2>1, SumAdds
  <2>3. SumFunctionOnSet(F, (S \cup U) \cup {x}) = F[x] + SumFunctionOnSet(F, S \cup U)
    BY <2>1, SumAdds
  <2>4. SumFunctionOnSet(F, U) \in Int /\ F[x] \in Int
    BY <2>1, SumInt
  <2>5. SumFunctionOnSet(F, S \cup U) = SumFunctionOnSet(F, S) + SumFunctionOnSet(F, U)
    BY <1>3
  <2>6. SumFunctionOnSet(F, (S \cup U) \cup {x})
          = SumFunctionOnSet(F, S) + SumFunctionOnSet(F, U \cup {x})
    BY <1>1, <2>2, <2>3, <2>4, <2>5
  <2> QED BY <2>1, <2>6
<1>4. T \in P
  <2> HIDE DEF P
  <2> QED BY <1>2, <1>3, OverSubsets
<1> QED BY <1>4

\* A sum of zeros.
LEMMA SumZero ==
    ASSUME NEW F, NEW S, IsFiniteSet(S), \A x \in S : F[x] = 0
    PROVE  SumFunctionOnSet(F, S) = 0
<1> DEFINE P == {U \in SUBSET S : SumFunctionOnSet(F, U) = 0}
<1>1. {} \in P
  BY SumEmpty
<1>2. ASSUME NEW U \in SUBSET S, NEW x \in S \ U, U \in P PROVE U \cup {x} \in P
  <2>1. SumFunctionOnSet(F, U \cup {x}) = F[x] + SumFunctionOnSet(F, U)
    BY FS_Subset, SumAdds
  <2> QED BY <1>2, <2>1
<1>3. S \in P
  <2> HIDE DEF P
  <2> QED BY <1>1, <1>2, OverSubsets
<1> QED BY <1>3

-----------------------------------------------------------------------------
(* One bank transaction *)

\* What the matching needs to know of the transactions and the rules.
Inputs(banks, ledgers, rules) ==
    /\ IsFiniteSet(DOMAIN banks) /\ IsFiniteSet(DOMAIN ledgers)
    /\ \A b \in DOMAIN banks : banks[b].amount \in Int
    /\ \A l \in DOMAIN ledgers : ledgers[l].amount \in Int
    /\ rules.tolerance \in Nat

\* A match is within the date window and ties up to a tolerated fee.
Ties(b, group, banks, ledgers, rules) ==
    LET difference == Total(ledgers, group) - banks[b].amount
    IN  /\ \A l \in group : l \in DOMAIN ledgers /\ Near(banks[b], ledgers[l], rules)
        /\ difference \in {0, banks[b].fee} /\ difference <= rules.tolerance

MatchesTie(M, done, banks, ledgers, rules) ==
    \A m \in M : m.bank \in done /\ Ties(m.bank, m.ledgers, banks, ledgers, rules)

MatchesDisjoint(M) ==
    \A m, n \in M : m # n => m.bank # n.bank /\ m.ledgers \cap n.ledgers = {}

ExceptionsOfBanks(E, done, banks) ==
    \A e \in E : \E b \in done :
        /\ e.banks = {b} /\ e.code # "unmatched_ledger"
        /\ e.code = "pending_transaction" => banks[b].pending

ExceptionsDisjoint(E) == \A e, x \in E : e # x => e.banks \cap x.banks = {}

\* Of the bank transactions seen so far, each is in a match or in an exception.
EitherOr(M, E, done) ==
    \A b \in done : (\E m \in M : m.bank = b) <=> ~(\E e \in E : b \in e.banks)

Accounted(M, E, done, banks, ledgers, rules) ==
    /\ IsFiniteSet(M) /\ IsFiniteSet(E)
    /\ MatchesTie(M, done, banks, ledgers, rules) /\ MatchesDisjoint(M)
    /\ ExceptionsOfBanks(E, done, banks) /\ ExceptionsDisjoint(E)
    /\ EitherOr(M, E, done)

LEMMA TotalInt ==
    ASSUME NEW transactions, IsFiniteSet(DOMAIN transactions),
           \A t \in DOMAIN transactions : transactions[t].amount \in Int,
           NEW S \in SUBSET DOMAIN transactions
    PROVE  IsFiniteSet(S) /\ Total(transactions, S) \in Int
<1>1. IsFiniteSet(S) /\ \A t \in S : Amounts(transactions)[t] \in Int
  BY FS_Subset DEF Amounts
<1> QED BY <1>1, SumInt DEF Total

\* One candidate ties: the amounts are equal or differ by a tolerated fee.
LEMMA CandidateTies ==
    ASSUME NEW banks, NEW ledgers, NEW rules, Inputs(banks, ledgers, rules),
           NEW b \in DOMAIN banks, NEW l \in DOMAIN ledgers,
           Near(banks[b], ledgers[l], rules), AmountMatches(banks[b], ledgers[l], rules)
    PROVE  Ties(b, {l}, banks, ledgers, rules)
<1>1. ledgers[l].amount \in Int /\ banks[b].amount \in Int /\ rules.tolerance \in Nat
  BY DEF Inputs
<1>2. Total(ledgers, {l}) = ledgers[l].amount
  <2>1. Amounts(ledgers)[l] = ledgers[l].amount
    BY DEF Amounts
  <2> QED BY <1>1, <2>1, SumOne DEF Total
<1>3. CASE ledgers[l].amount = banks[b].amount
  <2>1. Total(ledgers, {l}) - banks[b].amount = 0
    BY <1>1, <1>2, <1>3
  <2> QED BY <1>1, <2>1 DEF Ties
<1>4. CASE banks[b].fee \in 1..rules.tolerance /\ ledgers[l].amount = banks[b].amount + banks[b].fee
  <2>1. /\ Total(ledgers, {l}) - banks[b].amount = banks[b].fee
        /\ banks[b].fee <= rules.tolerance
    BY <1>1, <1>2, <1>4
  <2> QED BY <2>1 DEF Ties
<1> QED BY <1>3, <1>4 DEF AmountMatches

\* So does a group that adds up to the amount of the bank.
LEMMA AggregateTies ==
    ASSUME NEW banks, NEW ledgers, NEW rules, Inputs(banks, ledgers, rules),
           NEW b \in DOMAIN banks, NEW M, NEW size,
           NEW group \in Aggregates(banks[b], ledgers, Free(banks[b], ledgers, M, rules), size)
    PROVE  /\ group \subseteq Free(banks[b], ledgers, M, rules)
           /\ Ties(b, group, banks, ledgers, rules)
<1>1. group \subseteq Free(banks[b], ledgers, M, rules) /\ Total(ledgers, group) = banks[b].amount
  BY DEF Aggregates, kSubset
<1>2. \A l \in group : l \in DOMAIN ledgers /\ Near(banks[b], ledgers[l], rules)
  BY <1>1 DEF Free
<1>3. Total(ledgers, group) - banks[b].amount = 0 /\ 0 <= rules.tolerance
  BY <1>1 DEF Inputs
<1> QED BY <1>1, <1>2, <1>3 DEF Ties

Excepts(M, E, b, banks, r) ==
    \E code, ls :
        /\ r = [matches |-> M, exceptions |-> E \cup {Exception(code, {b}, ls)}]
        /\ code # "unmatched_ledger" /\ (code = "pending_transaction" => banks[b].pending)

Matches(M, E, b, banks, ledgers, rules, r) ==
    \E group, kind :
        /\ r = [matches |-> M \cup {Match(b, group, kind)}, exceptions |-> E]
        /\ group \subseteq Free(banks[b], ledgers, M, rules)
        /\ Ties(b, group, banks, ledgers, rules)

\* The bank transaction is matched with free ledger transactions, or excepted.
LEMMA OneBank ==
    ASSUME NEW banks, NEW ledgers, NEW rules, Inputs(banks, ledgers, rules),
           NEW b \in DOMAIN banks, NEW M, NEW E, NEW r,
           r = ReconcileBank([matches |-> M, exceptions |-> E], b, banks, ledgers, rules)
    PROVE  Excepts(M, E, b, banks, r) \/ Matches(M, E, b, banks, ledgers, rules, r)
<1> DEFINE bank == banks[b]
           free == Free(bank, ledgers, M, rules)
           candidates == {l \in free : AmountMatches(bank, ledgers[l], rules)}
           sizes == {s \in 2..rules.maxAggregate : Aggregates(bank, ledgers, free, s) # {}}
           groups == Aggregates(bank, ledgers, free, Min(sizes))
           result == [matches |-> M, exceptions |-> E]
           InMatch(group, kind) ==
               [result EXCEPT !.matches = result.matches \cup {Match(b, group, kind)}]
           InException(code, ls) ==
               [result EXCEPT !.exceptions = result.exceptions \cup {Exception(code, {b}, ls)}]
<1>1. r = CASE bank.pending -> InException("pending_transaction", {})
            [] ~bank.pending /\ Cardinality(candidates) = 1 -> InMatch(candidates, "single")
            [] ~bank.pending /\ Cardinality(candidates) > 1 ->
                 InException("duplicate_candidate", candidates)
            [] OTHER ->
                 IF sizes = {} THEN InException("unmatched_bank", {})
                 ELSE IF Cardinality(groups) = 1 THEN InMatch(UNION groups, "aggregate")
                 ELSE InException("duplicate_aggregate_candidate", {})
  BY DEF ReconcileBank
<1>2. \/ bank.pending /\ r = InException("pending_transaction", {})
      \/ Cardinality(candidates) = 1 /\ r = InMatch(candidates, "single")
      \/ r = InException("duplicate_candidate", candidates)
      \/ r = InException("unmatched_bank", {})
      \/ Cardinality(groups) = 1 /\ r = InMatch(UNION groups, "aggregate")
      \/ r = InException("duplicate_aggregate_candidate", {})
  <2> HIDE DEF candidates, sizes, groups, InMatch, InException
  <2> QED BY <1>1
<1>3. /\ \A group, kind :
           InMatch(group, kind) = [matches |-> M \cup {Match(b, group, kind)}, exceptions |-> E]
      /\ \A code, ls :
           InException(code, ls) = [matches |-> M, exceptions |-> E \cup {Exception(code, {b}, ls)}]
  OBVIOUS
<1>4. free \subseteq DOMAIN ledgers /\ \A l \in free : Near(bank, ledgers[l], rules)
  BY DEF Free
<1>5. ASSUME NEW code, NEW ls, r = InException(code, ls), code # "unmatched_ledger",
             code = "pending_transaction" => bank.pending
      PROVE  Excepts(M, E, b, banks, r)
  BY <1>3, <1>5 DEF Excepts
<1>6. ASSUME Cardinality(candidates) = 1, r = InMatch(candidates, "single")
      PROVE  Matches(M, E, b, banks, ledgers, rules, r)
  <2>1. IsFiniteSet(candidates)
    BY <1>4, FS_Subset DEF Inputs
  <2>2. PICK l : candidates = {l}
    <3> HIDE DEF candidates
    <3> QED BY <1>6, <2>1, FS_Singleton
  <2>3. l \in free /\ AmountMatches(bank, ledgers[l], rules)
    BY <2>2
  <2>4. Ties(b, {l}, banks, ledgers, rules)
    BY <1>4, <2>3, CandidateTies
  <2> QED BY <1>3, <1>6, <2>2, <2>3, <2>4 DEF Matches
<1>7. ASSUME Cardinality(groups) = 1, r = InMatch(UNION groups, "aggregate")
      PROVE  Matches(M, E, b, banks, ledgers, rules, r)
  <2>1. IsFiniteSet(groups)
    <3>1. groups \in SUBSET SUBSET DOMAIN ledgers
      BY <1>4 DEF Aggregates, kSubset
    <3>2. IsFiniteSet(SUBSET DOMAIN ledgers)
      BY FS_SUBSET DEF Inputs
    <3> QED BY <3>1, <3>2, FS_Subset
  <2>2. PICK group : groups = {group}
    <3> HIDE DEF groups
    <3> QED BY <1>7, <2>1, FS_Singleton
  <2>3. group \in groups /\ UNION groups = group
    BY <2>2
  <2>4. group \subseteq free /\ Ties(b, group, banks, ledgers, rules)
    BY <2>3, AggregateTies
  <2> QED BY <1>3, <1>7, <2>3, <2>4 DEF Matches
<1> HIDE DEF candidates, sizes, groups, InMatch, InException
<1> QED BY <1>2, <1>5, <1>6, <1>7

-----------------------------------------------------------------------------
(* All bank transactions *)

LEMMA ExceptsKeepsAccounts ==
    ASSUME NEW banks, NEW ledgers, NEW rules, NEW done, NEW b, b \notin done,
           NEW M, NEW E, Accounted(M, E, done, banks, ledgers, rules),
           NEW e, e.banks = {b}, e.code # "unmatched_ledger",
           e.code = "pending_transaction" => banks[b].pending
    PROVE  Accounted(M, E \cup {e}, done \cup {b}, banks, ledgers, rules)
<1>1. /\ IsFiniteSet(M) /\ MatchesDisjoint(M) /\ MatchesTie(M, done \cup {b}, banks, ledgers, rules)
      /\ IsFiniteSet(E \cup {e})
  BY FS_AddElement DEF Accounted, MatchesTie
<1>2. ExceptionsOfBanks(E \cup {e}, done \cup {b}, banks)
  BY DEF Accounted, ExceptionsOfBanks
<1>3. \A x \in E : x.banks \subseteq done
  BY DEF Accounted, ExceptionsOfBanks
<1>4. ExceptionsDisjoint(E \cup {e})
  BY <1>3 DEF Accounted, ExceptionsDisjoint
<1>5. EitherOr(M, E \cup {e}, done \cup {b})
  <2>1. \A m \in M : m.bank # b
    BY DEF Accounted, MatchesTie
  <2> QED BY <1>3, <2>1 DEF Accounted, EitherOr
<1> QED BY <1>1, <1>2, <1>4, <1>5 DEF Accounted

LEMMA MatchKeepsAccounts ==
    ASSUME NEW banks, NEW ledgers, NEW rules, NEW done, NEW b, b \notin done,
           NEW M, NEW E, Accounted(M, E, done, banks, ledgers, rules),
           NEW m, m.bank = b, Ties(b, m.ledgers, banks, ledgers, rules),
           \A l \in m.ledgers : \A n \in M : l \notin n.ledgers
    PROVE  Accounted(M \cup {m}, E, done \cup {b}, banks, ledgers, rules)
<1>1. /\ IsFiniteSet(M \cup {m}) /\ MatchesTie(M \cup {m}, done \cup {b}, banks, ledgers, rules)
      /\ IsFiniteSet(E)
  BY FS_AddElement DEF Accounted, MatchesTie
<1>2. \A n \in M : n.bank \in done
  BY DEF Accounted, MatchesTie
<1>3. MatchesDisjoint(M \cup {m})
  BY <1>2 DEF Accounted, MatchesDisjoint
<1>4. ExceptionsOfBanks(E, done \cup {b}, banks) /\ ExceptionsDisjoint(E)
  BY DEF Accounted, ExceptionsOfBanks
<1>5. EitherOr(M \cup {m}, E, done \cup {b})
  <2>1. \A x \in E : x.banks \subseteq done
    BY DEF Accounted, ExceptionsOfBanks
  <2> QED BY <1>2, <2>1 DEF Accounted, EitherOr
<1> QED BY <1>1, <1>3, <1>4, <1>5 DEF Accounted

\* Accounts(r, done, ...): the result so far accounts for those done.
Accounts(r, done, banks, ledgers, rules) ==
    /\ r = [matches |-> r.matches, exceptions |-> r.exceptions]
    /\ Accounted(r.matches, r.exceptions, done, banks, ledgers, rules)

LEMMA BankKeepsAccounts ==
    ASSUME NEW banks, NEW ledgers, NEW rules, Inputs(banks, ledgers, rules),
           NEW done, NEW b \in DOMAIN banks, b \notin done,
           NEW r, Accounts(r, done, banks, ledgers, rules)
    PROVE  Accounts(ReconcileBank(r, b, banks, ledgers, rules), done \cup {b}, banks, ledgers, rules)
<1>1. PICK M, E : /\ r = [matches |-> M, exceptions |-> E]
                  /\ Accounted(M, E, done, banks, ledgers, rules)
  BY DEF Accounts
<1>2. PICK s : s = ReconcileBank([matches |-> M, exceptions |-> E], b, banks, ledgers, rules)
  OBVIOUS
<1>3. CASE Excepts(M, E, b, banks, s)
  <2>1. PICK code, ls : /\ s = [matches |-> M, exceptions |-> E \cup {Exception(code, {b}, ls)}]
                        /\ code # "unmatched_ledger"
                        /\ code = "pending_transaction" => banks[b].pending
    BY <1>3 DEF Excepts
  <2> DEFINE e == Exception(code, {b}, ls)
  <2>2. e.banks = {b} /\ e.code = code
    BY DEF Exception
  <2>3. s.matches = M /\ s.exceptions = E \cup {e}
    BY <2>1
  <2> HIDE DEF e
  <2>4. Accounted(M, E \cup {e}, done \cup {b}, banks, ledgers, rules)
    BY <1>1, <2>1, <2>2, ExceptsKeepsAccounts
  <2>5. s = [matches |-> s.matches, exceptions |-> s.exceptions]
    BY <2>1
  <2> QED BY <1>1, <1>2, <2>3, <2>4, <2>5 DEF Accounts
<1>4. CASE Matches(M, E, b, banks, ledgers, rules, s)
  <2>1. PICK group, kind :
          /\ s = [matches |-> M \cup {Match(b, group, kind)}, exceptions |-> E]
          /\ group \subseteq Free(banks[b], ledgers, M, rules)
          /\ Ties(b, group, banks, ledgers, rules)
    BY <1>4 DEF Matches
  <2> DEFINE m == Match(b, group, kind)
  <2>2. m.bank = b /\ m.ledgers = group
    BY DEF Match
  <2>3. s.matches = M \cup {m} /\ s.exceptions = E
    BY <2>1
  <2>4. \A l \in group : \A n \in M : l \notin n.ledgers
    BY <2>1 DEF Free
  <2> HIDE DEF m
  <2>5. Accounted(M \cup {m}, E, done \cup {b}, banks, ledgers, rules)
    BY <1>1, <2>1, <2>2, <2>4, MatchKeepsAccounts
  <2>6. s = [matches |-> s.matches, exceptions |-> s.exceptions]
    BY <2>1
  <2> QED BY <1>1, <1>2, <2>3, <2>5, <2>6 DEF Accounts
<1> QED BY <1>2, <1>3, <1>4, OneBank

LEMMA NothingAccounts ==
    ASSUME NEW banks, NEW ledgers, NEW rules
    PROVE  Accounts([matches |-> {}, exceptions |-> {}], {}, banks, ledgers, rules)
  BY FS_EmptySet DEF Accounts, Accounted, MatchesTie, MatchesDisjoint, ExceptionsOfBanks,
                     ExceptionsDisjoint, EitherOr

IsRun(f, n, banks, ledgers, rules) ==
    f = [b \in 0..n |->
            IF b = 0 THEN [matches |-> {}, exceptions |-> {}]
            ELSE IF b \in DOMAIN banks THEN ReconcileBank(f[b - 1], b, banks, ledgers, rules)
            ELSE f[b - 1]]

LEMMA RunExists ==
    ASSUME NEW banks, NEW ledgers, NEW rules, NEW n \in Nat
    PROVE  \E f : IsRun(f, n, banks, ledgers, rules)
<1> DEFINE Step(r, b) == IF b \in DOMAIN banks THEN ReconcileBank(r, b, banks, ledgers, rules) ELSE r
           None == [matches |-> {}, exceptions |-> {}]
           Run(f, k) == f = [b \in 0..k |-> IF b = 0 THEN None ELSE Step(f[b - 1], b)]
           P == {k \in Nat : \E f : Run(f, k)}
<1> HIDE DEF Step, None
<1>1. 0 \in P
  <2>1. Run([b \in 0..0 |-> None], 0)
    OBVIOUS
  <2> QED BY <2>1
<1>2. ASSUME NEW k \in 0..(n - 1), k \in P PROVE k + 1 \in P
  <2>1. PICK f : Run(f, k)
    BY <1>2
  <2> DEFINE g == [b \in 0..(k + 1) |-> IF b = 0 THEN None ELSE Step(f[b - 1], b)]
  <2>2. \A b \in 0..k : g[b] = f[b]
    BY <2>1
  <2>3. \A b \in 0..(k + 1) : b # 0 => b - 1 \in 0..k
    OBVIOUS
  <2>4. Run(g, k + 1)
    BY <2>2, <2>3
  <2>5. k + 1 \in Nat
    OBVIOUS
  <2> HIDE DEF g, Run
  <2> QED BY <2>4, <2>5
<1>3. n \in P
  <2>1. \A k \in 0..n : k \in P
    <3> HIDE DEF P
    <3> QED BY <1>1, <1>2, UpTo
  <2> HIDE DEF P
  <2> QED BY <2>1
<1>4. PICK f : Run(f, n)
  BY <1>3
<1>5. IsRun(f, n, banks, ledgers, rules)
  BY <1>4 DEF IsRun, Step, None
<1> QED BY <1>5

LEMMA RunAccounts ==
    ASSUME NEW banks, NEW ledgers, NEW rules, Inputs(banks, ledgers, rules),
           DOMAIN banks \subseteq Nat \ {0},
           NEW n \in Nat, NEW f, IsRun(f, n, banks, ledgers, rules)
    PROVE  Accounts(f[n], {b \in DOMAIN banks : b <= n}, banks, ledgers, rules)
<1> DEFINE Done(k) == {b \in DOMAIN banks : b <= k}
           P == {k \in 0..n : Accounts(f[k], Done(k), banks, ledgers, rules)}
<1>1. 0 \in P
  <2>1. f[0] = [matches |-> {}, exceptions |-> {}] /\ Done(0) = {}
    BY DEF IsRun
  <2> QED BY <2>1, NothingAccounts
<1>2. ASSUME NEW k \in 0..(n - 1), k \in P PROVE k + 1 \in P
  <2>1. Accounts(f[k], Done(k), banks, ledgers, rules) /\ k + 1 \in 0..n /\ k + 1 # 0 /\ (k + 1) - 1 = k
    BY <1>2
  <2>2. CASE k + 1 \in DOMAIN banks
    <3>1. f[k + 1] = ReconcileBank(f[k], k + 1, banks, ledgers, rules)
      BY <2>1, <2>2 DEF IsRun
    <3>2. Done(k + 1) = Done(k) \cup {k + 1} /\ k + 1 \notin Done(k)
      BY <2>2
    <3> HIDE DEF Done
    <3>3. Accounts(f[k + 1], Done(k + 1), banks, ledgers, rules)
      BY <2>1, <2>2, <3>1, <3>2, BankKeepsAccounts
    <3> QED BY <2>1, <3>3
  <2>3. CASE k + 1 \notin DOMAIN banks
    <3>1. f[k + 1] = f[k]
      BY <2>1, <2>3 DEF IsRun
    <3>2. Done(k + 1) = Done(k)
      BY <2>3
    <3> QED BY <2>1, <3>1, <3>2
  <2> QED BY <2>2, <2>3
<1>3. n \in P
  <2>1. \A k \in 0..n : k \in P
    <3> HIDE DEF P
    <3> QED BY <1>1, <1>2, UpTo
  <2> HIDE DEF P
  <2> QED BY <2>1
<1> QED BY <1>3

LEMMA LastOne ==
    ASSUME NEW D, IsFiniteSet(D), D \subseteq Nat
    PROVE  Max(D \cup {0}) \in Nat /\ \A b \in D : b <= Max(D \cup {0})
<1> DEFINE P == {U \in SUBSET D : \E x \in U \cup {0} : \A y \in U \cup {0} : x >= y}
<1>1. {} \in P
  OBVIOUS
<1>2. ASSUME NEW U \in SUBSET D, NEW z \in D \ U, U \in P PROVE U \cup {z} \in P
  <2>1. PICK x \in U \cup {0} : \A y \in U \cup {0} : x >= y
    BY <1>2
  <2>2. z \in Nat /\ x \in Nat /\ U \subseteq Nat
    OBVIOUS
  <2>3. CASE x >= z
    BY <2>1, <2>3
  <2>4. CASE z >= x
    <3>1. \A y \in (U \cup {z}) \cup {0} : z >= y
      BY <2>1, <2>2, <2>4
    <3> QED BY <3>1
  <2> QED BY <2>2, <2>3, <2>4
<1>3. D \in P
  <2> HIDE DEF P
  <2> QED BY <1>1, <1>2, OverSubsets
<1>4. \E x \in D \cup {0} : \A y \in D \cup {0} : x >= y
  BY <1>3
<1> DEFINE m == Max(D \cup {0})
<1>5. m \in D \cup {0} /\ \A y \in D \cup {0} : m >= y
  BY <1>4 DEF Max
<1> HIDE DEF m
<1>6. m \in Nat /\ \A y \in D : y \in Nat /\ m >= y
  BY <1>5
<1>7. m \in Nat /\ \A b \in D : b <= m
  BY <1>6
<1> QED BY <1>7 DEF m

\* The reconciliation: an account of all bank transactions, and then what the
\* ledger has left.
LEMMA ReconcileAccounts ==
    ASSUME NEW banks, NEW ledgers, NEW rules, Inputs(banks, ledgers, rules),
           DOMAIN banks \subseteq Nat \ {0}
    PROVE  \E M, E :
             /\ Accounted(M, E, DOMAIN banks, banks, ledgers, rules)
             /\ Reconcile(banks, ledgers, rules) =
                  [matches |-> M,
                   exceptions |->
                     E \cup {Exception("unmatched_ledger", {}, {l}) : l \in Unused(ledgers, M)}]
<1> DEFINE last == Max(DOMAIN banks \cup {0})
           after == CHOOSE f : IsRun(f, last, banks, ledgers, rules)
           r == after[last]
<1>1. last \in Nat /\ {b \in DOMAIN banks : b <= last} = DOMAIN banks
  <2>1. IsFiniteSet(DOMAIN banks) /\ DOMAIN banks \subseteq Nat
    BY DEF Inputs
  <2> QED BY <2>1, LastOne
<1>2. Reconcile(banks, ledgers, rules) =
        [r EXCEPT !.exceptions = r.exceptions \cup
            {Exception("unmatched_ledger", {}, {l}) : l \in Unused(ledgers, r.matches)}]
  BY DEF Reconcile, IsRun
<1> HIDE DEF last
<1>3. IsRun(after, last, banks, ledgers, rules)
  BY <1>1, RunExists
<1> HIDE DEF after
<1>4. Accounts(r, DOMAIN banks, banks, ledgers, rules)
  <2>1. Accounts(r, {b \in DOMAIN banks : b <= last}, banks, ledgers, rules)
    BY <1>1, <1>3, RunAccounts
  <2> QED BY <1>1, <2>1
<1> HIDE DEF r
<1>5. PICK M, E : r = [matches |-> M, exceptions |-> E]
                  /\ Accounted(M, E, DOMAIN banks, banks, ledgers, rules)
  BY <1>4 DEF Accounts
<1> QED BY <1>2, <1>5

-----------------------------------------------------------------------------
(* What an account says of the transactions *)

\* The exceptions for what the ledger has left.
LeftOver(M, ledgers) == {Exception("unmatched_ledger", {}, {l}) : l \in Unused(ledgers, M)}

MatchesFor(M, b) == {m \in M : m.bank = b}
MatchesUsing(M, l) == {m \in M : l \in m.ledgers}
ExceptionsFor(X, b) == {e \in X : b \in e.banks}

LEMMA BankCountedOnce ==
    ASSUME NEW banks, NEW ledgers, NEW rules, NEW done, NEW M, NEW E,
           Accounted(M, E, done, banks, ledgers, rules), NEW b \in done
    PROVE  Cardinality(MatchesFor(M, b))
             + Cardinality(ExceptionsFor(E \cup LeftOver(M, ledgers), b)) = 1
<1> DEFINE X == ExceptionsFor(E \cup LeftOver(M, ledgers), b)
<1>1. X = {e \in E : b \in e.banks}
  BY DEF ExceptionsFor, LeftOver, Exception
<1> HIDE DEF X
<1>2. CASE \E m \in M : m.bank = b
  <2>1. PICK m \in M : m.bank = b
    BY <1>2
  <2>2. MatchesFor(M, b) = {m}
    BY <2>1 DEF Accounted, MatchesDisjoint, MatchesFor
  <2>3. X = {}
    BY <1>1, <1>2 DEF Accounted, EitherOr
  <2>4. Cardinality(MatchesFor(M, b)) = 1
    BY <2>2, <2>3, FS_EmptySet, FS_Singleton
  <2>5. Cardinality(X) = 0
    BY <2>2, <2>3, FS_EmptySet, FS_Singleton
  <2> QED BY <2>4, <2>5 DEF X
<1>3. CASE ~\E m \in M : m.bank = b
  <2>1. PICK e \in E : b \in e.banks
    BY <1>3 DEF Accounted, EitherOr
  <2>2. X = {e}
    BY <1>1, <2>1 DEF Accounted, ExceptionsDisjoint
  <2>3. MatchesFor(M, b) = {}
    BY <1>3 DEF MatchesFor
  <2>4. Cardinality(MatchesFor(M, b)) = 0
    BY <2>2, <2>3, FS_EmptySet, FS_Singleton
  <2>5. Cardinality(X) = 1
    BY <2>2, <2>3, FS_EmptySet, FS_Singleton
  <2> QED BY <2>4, <2>5 DEF X
<1> QED BY <1>2, <1>3

LEMMA LedgerCountedOnce ==
    ASSUME NEW banks, NEW ledgers, NEW rules, NEW done, NEW M, NEW E,
           Accounted(M, E, done, banks, ledgers, rules), NEW l \in DOMAIN ledgers
    PROVE  /\ Cardinality(MatchesUsing(M, l)) <= 1
           /\ MatchesUsing(M, l) = {}
                <=> Exception("unmatched_ledger", {}, {l}) \in E \cup LeftOver(M, ledgers)
<1>1. Cardinality(MatchesUsing(M, l)) <= 1
  <2>1. CASE MatchesUsing(M, l) = {}
    BY <2>1, FS_EmptySet
  <2>2. CASE MatchesUsing(M, l) # {}
    <3>1. PICK m \in MatchesUsing(M, l) : TRUE
      BY <2>2
    <3>2. MatchesUsing(M, l) = {m}
      BY <3>1 DEF Accounted, MatchesDisjoint, MatchesUsing
    <3>3. Cardinality({m}) = 1
      BY FS_Singleton
    <3> QED BY <3>2, <3>3
  <2> QED BY <2>1, <2>2
<1>2. MatchesUsing(M, l) = {} <=> l \in Unused(ledgers, M)
  BY DEF MatchesUsing, Unused
<1>3. Exception("unmatched_ledger", {}, {l}) \notin E
  BY DEF Accounted, ExceptionsOfBanks, Exception
<1>4. Exception("unmatched_ledger", {}, {l}) \in LeftOver(M, ledgers) <=> l \in Unused(ledgers, M)
  <2>1. ASSUME NEW k, Exception("unmatched_ledger", {}, {l}) = Exception("unmatched_ledger", {}, {k})
        PROVE  k = l
    <3>1. {l} = {k}
      BY <2>1 DEF Exception
    <3> QED BY <3>1
  <2> QED BY <2>1 DEF LeftOver
<1> QED BY <1>1, <1>2, <1>3, <1>4

LEMMA TotalParts ==
    ASSUME NEW transactions, IsFiniteSet(DOMAIN transactions),
           \A t \in DOMAIN transactions : transactions[t].amount \in Int,
           NEW S \in SUBSET DOMAIN transactions, NEW T \in SUBSET DOMAIN transactions, S \cap T = {}
    PROVE  Total(transactions, S \cup T) = Total(transactions, S) + Total(transactions, T)
<1>1. IsFiniteSet(S) /\ IsFiniteSet(T) /\ \A t \in S \cup T : Amounts(transactions)[t] \in Int
  BY FS_Subset DEF Amounts
<1> QED BY <1>1, SumParts DEF Total

LEMMA TotalOne ==
    ASSUME NEW transactions, NEW t \in DOMAIN transactions, transactions[t].amount \in Int
    PROVE  Total(transactions, {t}) = transactions[t].amount
<1>1. Amounts(transactions)[t] = transactions[t].amount
  BY DEF Amounts
<1> QED BY <1>1, SumOne DEF Total

LEMMA TotalEmpty == ASSUME NEW transactions PROVE Total(transactions, {}) = 0
  BY SumEmpty DEF Total

BanksOf(K) == {m.bank : m \in K}
LedgersOf(K) == UNION {m.ledgers : m \in K}
GapOf(m, banks, ledgers) == banks[m.bank].amount - Total(ledgers, m.ledgers)
Gaps(K, banks, ledgers) == [m \in K |-> GapOf(m, banks, ledgers)]

\* Any set of matches leaves as a difference the sum of its gaps.
LEMMA GapsExplainMatches ==
    ASSUME NEW banks, NEW ledgers, NEW rules, Inputs(banks, ledgers, rules),
           NEW M, NEW E, Accounted(M, E, DOMAIN banks, banks, ledgers, rules)
    PROVE  /\ BanksOf(M) \subseteq DOMAIN banks /\ LedgersOf(M) \subseteq DOMAIN ledgers
           /\ Total(banks, BanksOf(M)) - Total(ledgers, LedgersOf(M))
                = SumFunctionOnSet(Gaps(M, banks, ledgers), M)
<1> DEFINE G == Gaps(M, banks, ledgers)
           Difference(K) == Total(banks, BanksOf(K)) - Total(ledgers, LedgersOf(K))
           P == {K \in SUBSET M : Difference(K) = SumFunctionOnSet(G, K)}
<1>1. \A m \in M : m.bank \in DOMAIN banks /\ m.ledgers \subseteq DOMAIN ledgers
  BY DEF Accounted, MatchesTie, Ties
<1>2. \A K \in SUBSET M : BanksOf(K) \subseteq DOMAIN banks /\ LedgersOf(K) \subseteq DOMAIN ledgers
  BY <1>1 DEF BanksOf, LedgersOf
<1>3. /\ \A S \in SUBSET DOMAIN banks : Total(banks, S) \in Int
      /\ \A S \in SUBSET DOMAIN ledgers : Total(ledgers, S) \in Int
  BY TotalInt DEF Inputs
<1>4. \A m \in M : G[m] = banks[m.bank].amount - Total(ledgers, m.ledgers) /\ G[m] \in Int
  <2>1. \A m \in M : banks[m.bank].amount \in Int /\ Total(ledgers, m.ledgers) \in Int
    BY <1>1, <1>3 DEF Inputs
  <2> QED BY <2>1 DEF Gaps, GapOf
<1> HIDE DEF G
<1>5. {} \in P
  <2>1. BanksOf({}) = {} /\ LedgersOf({}) = {}
    BY DEF BanksOf, LedgersOf
  <2> QED BY <2>1, SumEmpty, TotalEmpty
<1>6. ASSUME NEW K \in SUBSET M, NEW m \in M \ K, K \in P PROVE K \cup {m} \in P
  <2>1. BanksOf(K \cup {m}) = BanksOf(K) \cup {m.bank}
    BY DEF BanksOf
  <2>2. LedgersOf(K \cup {m}) = LedgersOf(K) \cup m.ledgers
    BY DEF LedgersOf
  <2>3. BanksOf(K) \cap {m.bank} = {} /\ LedgersOf(K) \cap m.ledgers = {}
    BY DEF Accounted, MatchesDisjoint, BanksOf, LedgersOf
  <2>4. Total(banks, BanksOf(K \cup {m})) = Total(banks, BanksOf(K)) + banks[m.bank].amount
    <3>1. Total(banks, BanksOf(K) \cup {m.bank}) = Total(banks, BanksOf(K)) + Total(banks, {m.bank})
      BY <1>1, <1>2, <2>3, TotalParts DEF Inputs
    <3>2. Total(banks, {m.bank}) = banks[m.bank].amount
      BY <1>1, TotalOne DEF Inputs
    <3> QED BY <2>1, <3>1, <3>2
  <2>5. Total(ledgers, LedgersOf(K \cup {m})) = Total(ledgers, LedgersOf(K)) + Total(ledgers, m.ledgers)
    <3>1. m.ledgers \in SUBSET DOMAIN ledgers /\ LedgersOf(K) \in SUBSET DOMAIN ledgers
      BY <1>1, <1>2
    <3>2. Total(ledgers, LedgersOf(K) \cup m.ledgers)
            = Total(ledgers, LedgersOf(K)) + Total(ledgers, m.ledgers)
      BY <2>3, <3>1, TotalParts DEF Inputs
    <3> QED BY <2>2, <3>2
  <2>6. SumFunctionOnSet(G, K \cup {m}) = G[m] + SumFunctionOnSet(G, K)
    <3>1. IsFiniteSet(K) /\ \A n \in K \cup {m} : G[n] \in Int
      BY <1>4, FS_Subset DEF Accounted
    <3> QED BY <3>1, SumAdds
  <2>7. /\ Total(banks, BanksOf(K)) \in Int /\ Total(ledgers, LedgersOf(K)) \in Int
        /\ banks[m.bank].amount \in Int /\ Total(ledgers, m.ledgers) \in Int
    BY <1>1, <1>2, <1>3 DEF Inputs
  <2>8. Difference(K) = SumFunctionOnSet(G, K)
    BY <1>6
  <2>9. Difference(K \cup {m}) = SumFunctionOnSet(G, K \cup {m})
    BY <1>4, <2>4, <2>5, <2>6, <2>7, <2>8
  <2> QED BY <2>9
<1>7. M \in P
  <2>1. IsFiniteSet(M)
    BY DEF Accounted
  <2> HIDE DEF P
  <2> QED BY <1>5, <1>6, <2>1, OverSubsets
<1> QED BY <1>2, <1>7 DEF G

\* The matches, and what is in none, explain the whole difference.
LEMMA DifferenceExplained ==
    ASSUME NEW banks, NEW ledgers, NEW rules, Inputs(banks, ledgers, rules),
           NEW M, NEW E, Accounted(M, E, DOMAIN banks, banks, ledgers, rules)
    PROVE  Total(banks, DOMAIN banks) - Total(ledgers, DOMAIN ledgers)
             = Total(banks, DOMAIN banks \ BanksOf(M)) - Total(ledgers, Unused(ledgers, M))
               + SumFunctionOnSet(Gaps(M, banks, ledgers), M)
<1> DEFINE unmatched == DOMAIN banks \ BanksOf(M)
           open == Unused(ledgers, M)
<1>1. /\ BanksOf(M) \subseteq DOMAIN banks /\ LedgersOf(M) \subseteq DOMAIN ledgers
      /\ Total(banks, BanksOf(M)) - Total(ledgers, LedgersOf(M))
           = SumFunctionOnSet(Gaps(M, banks, ledgers), M)
  BY GapsExplainMatches
<1>2. /\ BanksOf(M) \cup unmatched = DOMAIN banks /\ BanksOf(M) \cap unmatched = {}
      /\ unmatched \subseteq DOMAIN banks
  BY <1>1
<1>3. /\ LedgersOf(M) \cup open = DOMAIN ledgers /\ LedgersOf(M) \cap open = {}
      /\ open \subseteq DOMAIN ledgers
  BY <1>1 DEF Unused, LedgersOf
<1> HIDE DEF unmatched, open
<1>4. Total(banks, DOMAIN banks) = Total(banks, BanksOf(M)) + Total(banks, unmatched)
  <2>1. Total(banks, BanksOf(M) \cup unmatched) = Total(banks, BanksOf(M)) + Total(banks, unmatched)
    BY <1>1, <1>2, TotalParts DEF Inputs
  <2> QED BY <1>2, <2>1
<1>5. Total(ledgers, DOMAIN ledgers) = Total(ledgers, LedgersOf(M)) + Total(ledgers, open)
  <2>1. Total(ledgers, LedgersOf(M) \cup open) = Total(ledgers, LedgersOf(M)) + Total(ledgers, open)
    BY <1>1, <1>3, TotalParts DEF Inputs
  <2> QED BY <1>3, <2>1
<1>6. /\ Total(banks, BanksOf(M)) \in Int /\ Total(banks, unmatched) \in Int
      /\ Total(ledgers, LedgersOf(M)) \in Int /\ Total(ledgers, open) \in Int
  BY <1>1, <1>2, <1>3, TotalInt DEF Inputs
<1>7. Total(banks, DOMAIN banks) - Total(ledgers, DOMAIN ledgers)
        = Total(banks, unmatched) - Total(ledgers, open)
          + (Total(banks, BanksOf(M)) - Total(ledgers, LedgersOf(M)))
  BY <1>4, <1>5, <1>6
<1> QED BY <1>1, <1>7 DEF unmatched, open

-----------------------------------------------------------------------------
(* The execution *)

Given ==
    /\ bankFacts \in SeqOf(BankFacts, MaxBanks) /\ ledgerFacts \in SeqOf(LedgerFacts, MaxLedgers)
    /\ mapping \in Mappings

LEMMA GivenInputs ==
    ASSUME Given
    PROVE  Inputs(Banks, Ledgers, mapping) /\ DOMAIN Banks \subseteq Nat \ {0}
<1>1. PICK n \in 0..MaxBanks : bankFacts \in [1..n -> BankFacts]
  BY DEF Given, SeqOf
<1>2. PICK k \in 0..MaxLedgers : ledgerFacts \in [1..k -> LedgerFacts]
  BY DEF Given, SeqOf
<1>3. n \in Nat /\ k \in Nat
  BY CloseExecutionAssumption
<1>4. DOMAIN Banks \subseteq 1..n /\ DOMAIN Ledgers \subseteq 1..k
  BY <1>1, <1>2 DEF Banks, Ledgers
<1>5. IsFiniteSet(DOMAIN Banks) /\ IsFiniteSet(DOMAIN Ledgers)
  <2>1. IsFiniteSet(1..n) /\ IsFiniteSet(1..k)
    BY <1>3, FS_Interval
  <2> QED BY <1>4, <2>1, FS_Subset
<1>6. \A b \in DOMAIN Banks : Banks[b].amount \in Int
  <2>1. \A b \in DOMAIN Banks : Banks[b].amount = bankFacts[b].amount
    BY DEF Banks
  <2> QED BY <1>1, <1>4, <2>1, CloseExecutionAssumption
<1>7. \A l \in DOMAIN Ledgers : Ledgers[l].amount \in Int
  <2>1. \A l \in DOMAIN Ledgers : Ledgers[l].amount = CashAmount(ledgerFacts[l])
    BY DEF Ledgers
  <2>2. \A l \in DOMAIN Ledgers : ledgerFacts[l].amount \in Int
    BY <1>2, <1>4, CloseExecutionAssumption
  <2> QED BY <2>1, <2>2 DEF CashAmount
<1>8. mapping.tolerance \in Nat
  BY CloseExecutionAssumption DEF Given
<1>9. DOMAIN Banks \subseteq Nat \ {0}
  BY <1>3, <1>4
<1> QED BY <1>5, <1>6, <1>7, <1>8, <1>9 DEF Inputs

\* What has been derived is an account of the facts.
LEMMA DerivedAccount ==
    ASSUME Given, execution = DeriveCloseExecution
    PROVE  \E E : /\ Accounted(execution.matches, E, DOMAIN Banks, Banks, Ledgers, mapping)
                  /\ execution.exceptions = E \cup LeftOver(execution.matches, Ledgers)
<1>1. PICK M, E :
        /\ Accounted(M, E, DOMAIN Banks, Banks, Ledgers, mapping)
        /\ Reconcile(Banks, Ledgers, mapping) =
             [matches |-> M,
              exceptions |-> E \cup {Exception("unmatched_ledger", {}, {l}) : l \in Unused(Ledgers, M)}]
  BY GivenInputs, ReconcileAccounts
<1>2. /\ execution.matches = Reconcile(Banks, Ledgers, mapping).matches
      /\ execution.exceptions = Reconcile(Banks, Ledgers, mapping).exceptions
  BY DEF DeriveCloseExecution
<1>3. execution.matches = M /\ execution.exceptions = E \cup LeftOver(M, Ledgers)
  BY <1>1, <1>2 DEF LeftOver
<1> QED BY <1>1, <1>3

LEMMA DerivedIsAccounted ==
    ASSUME Given, execution = DeriveCloseExecution
    PROVE  EverythingAccounted
<1> DEFINE banks == Banks
           ledgers == Ledgers
           M == execution.matches
           Used(l) == {m \in M : l \in m.ledgers}
           Gap(m) == banks[m.bank].amount - Total(ledgers, m.ledgers)
           open == {l \in DOMAIN ledgers : Used(l) = {}}
<1>1. PICK E : /\ Accounted(M, E, DOMAIN banks, banks, ledgers, mapping)
               /\ execution.exceptions = E \cup LeftOver(M, ledgers)
  BY DerivedAccount
<1>2. Inputs(banks, ledgers, mapping)
  BY GivenInputs
<1> HIDE DEF banks, ledgers
<1>3. \A b \in DOMAIN banks : Cardinality(MatchesOf(b)) + Cardinality(Excepted(b)) = 1
  <2>1. \A b : MatchesOf(b) = MatchesFor(M, b) /\ Excepted(b) = ExceptionsFor(execution.exceptions, b)
    BY DEF MatchesOf, MatchesFor, Excepted, ExceptionsFor
  <2>2. \A b \in DOMAIN banks :
          Cardinality(MatchesFor(M, b)) + Cardinality(ExceptionsFor(execution.exceptions, b)) = 1
    BY <1>1, BankCountedOnce
  <2> QED BY <2>1, <2>2
<1>4. \A l \in DOMAIN ledgers :
        /\ Cardinality(Used(l)) <= 1
        /\ Used(l) = {} <=> Exception("unmatched_ledger", {}, {l}) \in execution.exceptions
  <2>1. \A l : Used(l) = MatchesUsing(M, l)
    BY DEF MatchesUsing
  <2> HIDE DEF Used, M
  <2> QED BY <1>1, <2>1, LedgerCountedOnce
<1>5. ASSUME NEW m \in M
      PROVE  /\ -Gap(m) \in {0, banks[m.bank].fee} /\ -Gap(m) <= mapping.tolerance
             /\ \A l \in m.ledgers : Near(banks[m.bank], ledgers[l], mapping)
  <2>1. m.bank \in DOMAIN banks /\ Ties(m.bank, m.ledgers, banks, ledgers, mapping)
    BY <1>1 DEF Accounted, MatchesTie
  <2>2. m.ledgers \subseteq DOMAIN ledgers
    BY <2>1 DEF Ties
  <2>3. banks[m.bank].amount \in Int /\ Total(ledgers, m.ledgers) \in Int
    BY <1>2, <2>1, <2>2, TotalInt DEF Inputs
  <2>4. -Gap(m) = Total(ledgers, m.ledgers) - banks[m.bank].amount
    BY <2>3
  <2> HIDE DEF Gap
  <2> QED BY <2>1, <2>4 DEF Ties
<1>6. BankTotal(banks) - Total(ledgers, DOMAIN ledgers)
        = Total(banks, DOMAIN banks \ MatchedBanks) - Total(ledgers, open)
          + SumFunction([m \in M |-> Gap(m)])
  <2>1. MatchedBanks = BanksOf(M)
    BY DEF MatchedBanks, BanksOf
  <2>2. open = Unused(ledgers, M)
    BY DEF Unused
  <2>3. SumFunction([m \in M |-> Gap(m)]) = SumFunctionOnSet(Gaps(M, banks, ledgers), M)
    BY DEF SumFunction, Gaps, GapOf
  <2> HIDE DEF open, M, Gap
  <2> QED BY <1>1, <1>2, <2>1, <2>2, <2>3, DifferenceExplained DEF BankTotal
<1> HIDE DEF Gap, open, Used
<1> QED BY <1>3, <1>4, <1>5, <1>6 DEF EverythingAccounted, banks, ledgers, Gap, open, Used

-----------------------------------------------------------------------------
(* The report and the proposals *)

DerivedReport == Given /\ ~Unmapped /\ execution = DeriveCloseExecution

\* An exception with a proposal is about one bank transaction without a match,
\* and the journal moves its amount between permitted accounts, one of cash.
LEMMA PostedForOneBank ==
    ASSUME DerivedReport, NEW e \in DOMAIN execution.proposals
    PROVE  /\ e \in execution.exceptions /\ e.code = "unmatched_bank"
           /\ \E b \in DOMAIN Banks :
                LET code == mapping.bankCode[Banks[b].account]
                IN  /\ e.banks = {b} /\ Banks[b].amount \in Int
                    /\ execution.proposals[e] = << [code |-> mapping.offset, amount |-> Banks[b].amount],
                                                   [code |-> code, amount |-> -Banks[b].amount] >>
                    /\ mapping.offset \in mapping.permitted
                    /\ code \in mapping.permitted /\ code \in CashCodes
<1>1. PICK E : /\ Accounted(execution.matches, E, DOMAIN Banks, Banks, Ledgers, mapping)
               /\ execution.exceptions = E \cup LeftOver(execution.matches, Ledgers)
  BY DerivedAccount DEF DerivedReport
<1>2. e \in execution.exceptions /\ Proposes(e, Banks) /\ execution.proposals[e] = Proposal(e, Banks)
  <2> DEFINE material == {x \in Reconcile(Banks, Ledgers, mapping).exceptions :
                              Material(x, Banks, Ledgers)}
  <2>1. /\ execution.proposals = [x \in {y \in material : Proposes(y, Banks)} |-> Proposal(x, Banks)]
        /\ execution.exceptions = Reconcile(Banks, Ledgers, mapping).exceptions
    BY DEF DerivedReport, DeriveCloseExecution
  <2> QED BY <2>1
<1>3. e.code = "unmatched_bank" /\ mapping.offset \in mapping.permitted
  BY <1>2 DEF Proposes
<1>4. e \in E
  BY <1>1, <1>2, <1>3 DEF LeftOver, Exception
<1>5. PICK b \in DOMAIN Banks : e.banks = {b}
  BY <1>1, <1>4 DEF Accounted, ExceptionsOfBanks
<1> DEFINE code == mapping.bankCode[Banks[b].account]
<1>6. code \in mapping.permitted
  BY <1>2, <1>5 DEF Proposes
<1>7. code \in CashCodes
  <2>1. b \in DOMAIN bankFacts /\ bankFacts[b].status # "removed"
        /\ Banks[b].account = bankFacts[b].account
    BY <1>5 DEF Banks
  <2>2. Banks[b].account \in DOMAIN mapping.bankCode
    BY <2>1 DEF DerivedReport, Unmapped
  <2> QED BY <2>2 DEF CashCodes
<1>8. (CHOOSE c \in e.banks : TRUE) = b
  BY <1>5
<1>9. Proposal(e, Banks) = << [code |-> mapping.offset, amount |-> Banks[b].amount],
                              [code |-> code, amount |-> -Banks[b].amount] >>
  BY <1>8 DEF Proposal
<1>10. Banks[b].amount \in Int
  BY GivenInputs DEF DerivedReport, Inputs
<1> QED BY <1>2, <1>3, <1>5, <1>6, <1>7, <1>9, <1>10

\* Amounts that are stated once for each of some exceptions of one bank
\* transaction each add up to the amounts of those transactions.
LEMMA SumOverExceptions ==
    ASSUME NEW banks, NEW ledgers, NEW rules, Inputs(banks, ledgers, rules),
           NEW E, IsFiniteSet(E), ExceptionsDisjoint(E), NEW F,
           \A e \in E : \E b \in DOMAIN banks : e.banks = {b} /\ F[e] = banks[b].amount
    PROVE  SumFunctionOnSet(F, E) = Total(banks, UNION {e.banks : e \in E})
<1> DEFINE BanksIn(K) == UNION {e.banks : e \in K}
           P == {K \in SUBSET E : SumFunctionOnSet(F, K) = Total(banks, BanksIn(K))}
<1>1. {} \in P
  <2>1. BanksIn({}) = {}
    OBVIOUS
  <2> QED BY <2>1, SumEmpty, TotalEmpty
<1>2. \A e \in E : F[e] \in Int
  BY DEF Inputs
<1>3. ASSUME NEW K \in SUBSET E, NEW e \in E \ K, K \in P PROVE K \cup {e} \in P
  <2>1. PICK b \in DOMAIN banks : e.banks = {b} /\ F[e] = banks[b].amount
    OBVIOUS
  <2>2. BanksIn(K \cup {e}) = BanksIn(K) \cup {b} /\ BanksIn(K) \in SUBSET DOMAIN banks
    BY <2>1
  <2>3. BanksIn(K) \cap {b} = {}
    BY <2>1 DEF ExceptionsDisjoint
  <2> HIDE DEF BanksIn
  <2>4. SumFunctionOnSet(F, K \cup {e}) = F[e] + SumFunctionOnSet(F, K)
    BY <1>2, FS_Subset, SumAdds
  <2>5. Total(banks, BanksIn(K) \cup {b}) = Total(banks, BanksIn(K)) + Total(banks, {b})
    BY <2>2, <2>3, TotalParts DEF Inputs
  <2>6. Total(banks, {b}) = F[e] /\ F[e] \in Int
    BY <1>2, <2>1, TotalOne DEF Inputs
  <2>7. Total(banks, BanksIn(K)) \in Int /\ SumFunctionOnSet(F, K) = Total(banks, BanksIn(K))
    BY <1>3, <2>2, TotalInt DEF Inputs
  <2>8. SumFunctionOnSet(F, K \cup {e}) = Total(banks, BanksIn(K) \cup {b})
    BY <2>4, <2>5, <2>6, <2>7
  <2>9. SumFunctionOnSet(F, K \cup {e}) = Total(banks, BanksIn(K \cup {e}))
    BY <2>2, <2>8
  <2> QED BY <2>9
<1>4. E \in P
  <2> HIDE DEF P
  <2> QED BY <1>1, <1>3, OverSubsets
<1> QED BY <1>4

\* A report that passes ties, and what it leaves open is small or excluded.
LEMMA PassedIsClear ==
    ASSUME DerivedReport, execution.status = "passed"
    PROVE  /\ BankTotal(Banks) = CashTotal(Ledgers) /\ DOMAIN execution.proposals = {}
           /\ \A b \in DOMAIN Banks \ MatchedBanks :
                \/ Abs(Banks[b].amount) <= mapping.materiality
                \/ Banks[b].pending /\ mapping.pendingPolicy = "exclude"
<1> DEFINE material == {e \in Reconcile(Banks, Ledgers, mapping).exceptions :
                            Material(e, Banks, Ledgers)}
<1>1. /\ execution.status = ReportStatus(Banks, Ledgers, material)
      /\ execution.exceptions = Reconcile(Banks, Ledgers, mapping).exceptions
      /\ execution.proposals = [x \in {y \in material : Proposes(y, Banks)} |-> Proposal(x, Banks)]
  BY DEF DerivedReport, DeriveCloseExecution
<1>2. BankTotal(Banks) = CashTotal(Ledgers) /\ material = {}
  <2> HIDE DEF material
  <2> QED BY <1>1 DEF ReportStatus
<1>3. DOMAIN execution.proposals = {}
  BY <1>1, <1>2
<1>4. ASSUME NEW b \in DOMAIN Banks \ MatchedBanks
      PROVE  \/ Abs(Banks[b].amount) <= mapping.materiality
             \/ Banks[b].pending /\ mapping.pendingPolicy = "exclude"
  <2>1. PICK E : /\ Accounted(execution.matches, E, DOMAIN Banks, Banks, Ledgers, mapping)
                 /\ execution.exceptions = E \cup LeftOver(execution.matches, Ledgers)
    BY DerivedAccount DEF DerivedReport
  <2>2. PICK e \in E : b \in e.banks
    BY <2>1 DEF Accounted, EitherOr, MatchedBanks
  <2>3. e.banks = {b} /\ (e.code = "pending_transaction" => Banks[b].pending)
    BY <2>1, <2>2 DEF Accounted, ExceptionsOfBanks
  <2>4. ~Material(e, Banks, Ledgers)
    BY <1>1, <1>2, <2>1
  <2>5. Amount(e, Banks, Ledgers) = Banks[b].amount
    <3>1. (CHOOSE c \in e.banks : TRUE) = b
      BY <2>3
    <3> QED BY <2>3, <3>1 DEF Amount
  <2>6. Banks[b].amount \in Int /\ mapping.materiality \in Nat
    BY GivenInputs, CloseExecutionAssumption DEF DerivedReport, Given, Inputs
  <2>7. Abs(Banks[b].amount) \in Int
    BY <2>6 DEF Abs
  <2>8. Ignored(e) \/ ~(Abs(Banks[b].amount) > mapping.materiality)
    BY <2>4, <2>5 DEF Material
  <2> QED BY <2>3, <2>6, <2>7, <2>8 DEF Ignored
<1> QED BY <1>2, <1>3, <1>4

\* A journal balances, and posts to permitted accounts.
LEMMA ProposalsBalance ==
    ASSUME DerivedReport, NEW e \in DOMAIN execution.proposals
    PROVE  /\ execution.proposals[e][1].amount + execution.proposals[e][2].amount = 0
           /\ {execution.proposals[e][i].code : i \in 1..2} \subseteq mapping.permitted
<1>1. PICK amount \in Int, code \in mapping.permitted :
        /\ execution.proposals[e] = << [code |-> mapping.offset, amount |-> amount],
                                       [code |-> code, amount |-> -amount] >>
        /\ mapping.offset \in mapping.permitted
  BY PostedForOneBank
<1>2. execution.proposals[e][1].amount = amount /\ execution.proposals[e][2].amount = -amount
  BY <1>1
<1>3. execution.proposals[e][1].code = mapping.offset /\ execution.proposals[e][2].code = code
  BY <1>1
<1>4. \A i \in 1..2 : i = 1 \/ i = 2
  OBVIOUS
<1> QED BY <1>1, <1>2, <1>3, <1>4

Cash(line) == IF line.code \in CashCodes THEN -line.amount ELSE 0
Posted(journal) == Cash(journal[1]) + Cash(journal[2])

\* If every exception has a proposal, all the cash of the ledger is matched, and
\* no fee was kept, then posting the proposals closes the gap.
LEMMA PostingClosesTheGap ==
    ASSUME DerivedReport, execution.exceptions = DOMAIN execution.proposals,
           mapping.offset \notin CashCodes,
           \A m \in execution.matches : \A l \in m.ledgers : Ledgers[l].code \in CashCodes,
           \A m \in execution.matches : Banks[m.bank].fee = 0
    PROVE  BankTotal(Banks) = CashTotal(Ledgers)
             + SumFunction([e \in DOMAIN execution.proposals |-> Posted(execution.proposals[e])])
<1> DEFINE banks == Banks
           ledgers == Ledgers
           M == execution.matches
           posted == DOMAIN execution.proposals
           F == [e \in posted |-> Posted(execution.proposals[e])]
<1>1. PICK E : /\ Accounted(M, E, DOMAIN banks, banks, ledgers, mapping)
               /\ execution.exceptions = E \cup LeftOver(M, ledgers)
  BY DerivedAccount DEF DerivedReport
<1>2. Inputs(banks, ledgers, mapping)
  BY GivenInputs DEF DerivedReport
<1>3. \A e \in posted : e.code = "unmatched_bank"
  BY PostedForOneBank
<1>4. LeftOver(M, ledgers) = {} /\ E = posted
  <2>1. \A e \in LeftOver(M, ledgers) : e.code = "unmatched_ledger"
    BY DEF LeftOver, Exception
  <2> QED BY <1>1, <1>3, <2>1
<1>5. Unused(ledgers, M) = {}
  BY <1>4 DEF LeftOver
<1>6. CashTotal(ledgers) = Total(ledgers, DOMAIN ledgers)
  <2>1. {l \in DOMAIN ledgers : ledgers[l].code \in CashCodes} = DOMAIN ledgers
    BY <1>5 DEF Unused
  <2> QED BY <2>1 DEF CashTotal
<1>7. SumFunctionOnSet(Gaps(M, banks, ledgers), M) = 0
  <2>1. ASSUME NEW m \in M PROVE Gaps(M, banks, ledgers)[m] = 0
    <3>1. m.bank \in DOMAIN banks /\ Ties(m.bank, m.ledgers, banks, ledgers, mapping)
      BY <1>1 DEF Accounted, MatchesTie
    <3>2. m.ledgers \subseteq DOMAIN ledgers /\ banks[m.bank].fee = 0
      BY <3>1 DEF Ties
    <3>3. banks[m.bank].amount \in Int /\ Total(ledgers, m.ledgers) \in Int
      BY <1>2, <3>1, <3>2, TotalInt DEF Inputs
    <3>4. Total(ledgers, m.ledgers) - banks[m.bank].amount = 0
      BY <3>1, <3>2 DEF Ties
    <3>5. banks[m.bank].amount - Total(ledgers, m.ledgers) = 0
      BY <3>3, <3>4
    <3> QED BY <3>5 DEF Gaps, GapOf
  <2>2. IsFiniteSet(M)
    BY <1>1 DEF Accounted
  <2> HIDE DEF M
  <2> QED BY <2>1, <2>2, SumZero
<1>8. SumFunction(F) = Total(banks, DOMAIN banks \ BanksOf(M))
  <2>1. ASSUME NEW e \in posted
        PROVE  \E b \in DOMAIN banks : e.banks = {b} /\ F[e] = banks[b].amount
    <3> DEFINE code(b) == mapping.bankCode[banks[b].account]
    <3>1. PICK b \in DOMAIN banks :
            /\ e.banks = {b} /\ banks[b].amount \in Int
            /\ execution.proposals[e] = << [code |-> mapping.offset, amount |-> banks[b].amount],
                                           [code |-> code(b), amount |-> -banks[b].amount] >>
            /\ code(b) \in CashCodes
      BY PostedForOneBank
    <3>2. Cash(execution.proposals[e][1]) = 0
      BY <3>1 DEF Cash
    <3>3. Cash(execution.proposals[e][2]) = banks[b].amount
      <4>1. Cash(execution.proposals[e][2]) = -(-banks[b].amount)
        BY <3>1 DEF Cash
      <4> QED BY <3>1, <4>1
    <3>4. F[e] = banks[b].amount
      BY <3>1, <3>2, <3>3 DEF Posted
    <3> QED BY <3>1, <3>4
  <2>2. IsFiniteSet(posted) /\ ExceptionsDisjoint(posted)
    BY <1>1, <1>4 DEF Accounted
  <2>3. UNION {e.banks : e \in posted} = DOMAIN banks \ BanksOf(M)
    <3>1. UNION {e.banks : e \in E} \subseteq DOMAIN banks
      BY <1>1 DEF Accounted, ExceptionsOfBanks
    <3> QED BY <1>1, <1>4, <3>1 DEF Accounted, EitherOr, BanksOf
  <2>4. SumFunction(F) = SumFunctionOnSet(F, posted)
    BY DEF SumFunction
  <2> HIDE DEF F, posted, banks, ledgers, M
  <2>5. SumFunctionOnSet(F, posted) = Total(banks, UNION {e.banks : e \in posted})
    BY <1>2, <2>1, <2>2, SumOverExceptions
  <2> QED BY <2>3, <2>4, <2>5
<1> HIDE DEF banks, ledgers, M, F
<1>9. Total(banks, DOMAIN banks) - Total(ledgers, DOMAIN ledgers) = SumFunction(F) - 0 + 0
  BY <1>1, <1>2, <1>5, <1>7, <1>8, DifferenceExplained, TotalEmpty
<1>10. /\ Total(banks, DOMAIN banks) \in Int /\ Total(ledgers, DOMAIN ledgers) \in Int
       /\ SumFunction(F) \in Int
  BY <1>2, <1>8, TotalInt DEF Inputs
<1>11. BankTotal(banks) = CashTotal(ledgers) + SumFunction(F)
  BY <1>6, <1>9, <1>10 DEF BankTotal
<1> QED BY <1>11 DEF banks, ledgers, F

LEMMA DerivedIsSound ==
    ASSUME DerivedReport
    PROVE  ExecutionSound
<1>1. execution.status = "passed" =>
        /\ BankTotal(Banks) = CashTotal(Ledgers) /\ DOMAIN execution.proposals = {}
        /\ \A b \in DOMAIN Banks \ MatchedBanks :
             \/ Abs(Banks[b].amount) <= mapping.materiality
             \/ Banks[b].pending /\ mapping.pendingPolicy = "exclude"
  BY PassedIsClear
<1>2. \A e \in DOMAIN execution.proposals :
        /\ execution.proposals[e][1].amount + execution.proposals[e][2].amount = 0
        /\ {execution.proposals[e][i].code : i \in 1..2} \subseteq mapping.permitted
  BY ProposalsBalance
<1>3. (/\ execution.exceptions = DOMAIN execution.proposals
       /\ mapping.offset \notin CashCodes
       /\ \A m \in execution.matches : \A l \in m.ledgers : Ledgers[l].code \in CashCodes
       /\ \A m \in execution.matches : Banks[m.bank].fee = 0)
      => BankTotal(Banks) = CashTotal(Ledgers)
           + SumFunction([e \in DOMAIN execution.proposals |-> Posted(execution.proposals[e])])
  BY PostingClosesTheGap
<1> QED BY <1>1, <1>2, <1>3 DEF ExecutionSound, Posted, Cash

LEMMA DerivedIsTyped ==
    ASSUME DerivedReport
    PROVE  ExecutionTypeOK
<1>1. execution.status \in {"unavailable", "passed", "exception"}
  BY DEF DerivedReport, DeriveCloseExecution, ReportStatus
<1>2. execution.material \subseteq execution.exceptions
  BY DEF DerivedReport, DeriveCloseExecution
<1>3. \A m \in execution.matches : m.bank \in DOMAIN Banks /\ m.ledgers \subseteq DOMAIN Ledgers
  BY DerivedAccount DEF DerivedReport, Accounted, MatchesTie, Ties
<1> QED BY <1>1, <1>2, <1>3 DEF ExecutionTypeOK

-----------------------------------------------------------------------------
(* The invariant *)

\* What has been derived is what the facts say, which stay as they are.
ExecutionInv == Given /\ (execution \in {NotDerived, Refused} \/ DerivedReport)

LEMMA SameFacts ==
    ASSUME UNCHANGED <<bankFacts, ledgerFacts, mapping, complete>>
    PROVE  /\ Given' = Given /\ Unmapped' = Unmapped
           /\ DeriveCloseExecution' = DeriveCloseExecution
<1>1. Given' = Given
  BY DEF Given
<1>2. Unmapped' = Unmapped
  BY DEF Unmapped
<1>3. Banks' = Banks
  BY DEF Banks, InPeriod
<1>4. Ledgers' = Ledgers
  BY DEF Ledgers, InPeriod
<1>5. DeriveCloseExecution' = DeriveCloseExecution
  BY <1>3, <1>4 DEF DeriveCloseExecution, Material, Ignored, ReportStatus, CashTotal, CashCodes,
                    Proposes, Proposal
<1> QED BY <1>1, <1>2, <1>5

LEMMA ExecutionInvariant == ExecutionSpec => []ExecutionInv
<1>1. ExecutionInit => ExecutionInv
  BY DEF ExecutionInit, ExecutionInv, Given
<1>2. ExecutionInv /\ [Derive]_executionVars => ExecutionInv'
  <2> SUFFICES ASSUME ExecutionInv, [Derive]_executionVars PROVE ExecutionInv'
    OBVIOUS
  <2>1. CASE Derive
    <3>1. UNCHANGED <<bankFacts, ledgerFacts, mapping, complete>>
      BY <2>1 DEF Derive
    <3>2. Given' /\ Unmapped' = Unmapped /\ DeriveCloseExecution' = DeriveCloseExecution
      BY <3>1, SameFacts DEF ExecutionInv
    <3>3. execution' = IF Unmapped THEN Refused ELSE DeriveCloseExecution
      BY <2>1 DEF Derive
    <3>4. CASE Unmapped
      <4>1. execution' = Refused /\ Refused' = Refused
        BY <3>3, <3>4 DEF Refused
      <4> QED BY <3>2, <4>1 DEF ExecutionInv
    <3>5. CASE ~Unmapped
      <4>1. DerivedReport'
        BY <3>2, <3>3, <3>5 DEF DerivedReport
      <4> QED BY <3>2, <4>1 DEF ExecutionInv
    <3> QED BY <3>4, <3>5
  <2>2. CASE UNCHANGED executionVars
    <3>1. UNCHANGED <<bankFacts, ledgerFacts, mapping, complete>> /\ execution' = execution
      BY <2>2 DEF executionVars
    <3>2. Given' = Given /\ Unmapped' = Unmapped /\ DeriveCloseExecution' = DeriveCloseExecution
      BY <3>1, SameFacts
    <3>3. NotDerived' = NotDerived /\ Refused' = Refused
      BY DEF NotDerived, Refused
    <3> QED BY <3>1, <3>2, <3>3 DEF ExecutionInv, DerivedReport
  <2> QED BY <2>1, <2>2
<1> QED BY <1>1, <1>2, PTL DEF ExecutionSpec

LEMMA DerivedMeansReport ==
    ASSUME ExecutionInv, Derived
    PROVE  DerivedReport
  BY DEF ExecutionInv, Derived

\* What is derived has a control status, material exceptions that are exceptions,
\* and matches of transactions of the snapshot.
THEOREM ExecutionWellTyped == ExecutionSpec => []ExecutionTypeOK
<1>1. ExecutionInv => ExecutionTypeOK
  <2> SUFFICES ASSUME ExecutionInv, Derived PROVE ExecutionTypeOK
    BY DEF ExecutionTypeOK
  <2> QED BY DerivedMeansReport, DerivedIsTyped
<1> QED BY <1>1, ExecutionInvariant, PTL

\* reconcile accounts for every transaction of a snapshot exactly once, matches
\* only what ties within the window, and its exceptions, with the tolerated fees,
\* are the whole difference between the bank and the ledger: for every number
\* of facts, every amount and every approved mapping.
THEOREM EveryTransactionAccounted == ExecutionSpec => []EverythingAccounted
<1>1. ExecutionInv => EverythingAccounted
  <2> SUFFICES ASSUME ExecutionInv, Derived PROVE EverythingAccounted
    BY DEF EverythingAccounted
  <2>1. Given /\ execution = DeriveCloseExecution
    BY DerivedMeansReport DEF DerivedReport
  <2> QED BY <2>1, DerivedIsAccounted
<1> QED BY <1>1, ExecutionInvariant, PTL

\* A report that passes ties and leaves nothing above materiality open that the
\* mapping does not exclude, the proposed journals balance on permitted accounts,
\* and posting them closes the gap where all that is open has a proposal.
THEOREM ReportsAndProposalsSound == ExecutionSpec => []ExecutionSound
<1>1. ExecutionInv => ExecutionSound
  <2> SUFFICES ASSUME ExecutionInv, Derived PROVE ExecutionSound
    BY DEF ExecutionSound
  <2> QED BY DerivedMeansReport, DerivedIsSound
<1> QED BY <1>1, ExecutionInvariant, PTL
=============================================================================
