------------------------------ MODULE Reconciliation ------------------------------
(***************************************************************************)
(* reconcile: the greedy matching of bank transactions, one after the      *)
(* other, with the ledger transactions that are still free.  Transactions  *)
(* are named by their place among the facts, of which some are no          *)
(* transactions.  Amounts are integers, dates are days, and all            *)
(* transactions are in one currency.                                       *)
(***************************************************************************)
EXTENDS Integers, Sequences, FiniteSets, SequencesExt, FiniteSetsExt

Amounts(transactions) == [t \in DOMAIN transactions |-> transactions[t].amount]

Total(transactions, S) == SumFunctionOnSet(Amounts(transactions), S)

\* _within_window
Near(bank, ledger, rules) ==
    LET distance == bank.day - ledger.day
    IN  distance \in -rules.window .. rules.window

\* amount_matches, with a fee that the bank has kept.
AmountMatches(bank, ledger, rules) ==
    \/ ledger.amount = bank.amount
    \/ bank.fee \in 1..rules.tolerance /\ ledger.amount = bank.amount + bank.fee

\* Mutant of Free: a ledger transaction may be matched twice.
AllNear(bank, ledgers, matches, rules) == {l \in DOMAIN ledgers : Near(bank, ledgers[l], rules)}

Free(bank, ledgers, matches, rules) ==
    {l \in DOMAIN ledgers : Near(bank, ledgers[l], rules)
                            /\ \A m \in matches : l \notin m.ledgers}

Aggregates(bank, ledgers, free, size) ==
    {group \in kSubset(size, free) : Total(ledgers, group) = bank.amount}

Match(b, group, kind) == [bank |-> b, ledgers |-> group, kind |-> kind]
Exception(code, bs, ls) == [code |-> code, banks |-> bs, ledgers |-> ls]

\* One bank transaction: it joins the matches, or the exceptions.
ReconcileBank(result, b, banks, ledgers, rules) ==
    LET bank == banks[b]
        free == Free(bank, ledgers, result.matches, rules)
        candidates == {l \in free : AmountMatches(bank, ledgers[l], rules)}
        sizes == {s \in 2..rules.maxAggregate : Aggregates(bank, ledgers, free, s) # {}}
        groups == Aggregates(bank, ledgers, free, Min(sizes))
        Matched(group, kind) == [result EXCEPT !.matches = @ \cup {Match(b, group, kind)}]
        Excepted(code, ls) == [result EXCEPT !.exceptions = @ \cup {Exception(code, {b}, ls)}]
    IN  CASE bank.pending -> Excepted("pending_transaction", {})
          [] ~bank.pending /\ Cardinality(candidates) = 1 -> Matched(candidates, "single")
          [] ~bank.pending /\ Cardinality(candidates) > 1 -> Excepted("duplicate_candidate", candidates)
          [] OTHER ->
               IF sizes = {} THEN Excepted("unmatched_bank", {})
               ELSE IF Cardinality(groups) = 1 THEN Matched(UNION groups, "aggregate")
               ELSE Excepted("duplicate_aggregate_candidate", {})

Unused(ledgers, matches) == {l \in DOMAIN ledgers : \A m \in matches : l \notin m.ledgers}

\* The bank transactions in their order, then what the ledger has left.
Reconcile(banks, ledgers, rules) ==
    LET last == Max(DOMAIN banks \cup {0})
        after[b \in 0..last] ==
            IF b = 0 THEN [matches |-> {}, exceptions |-> {}]
            ELSE IF b \in DOMAIN banks THEN ReconcileBank(after[b - 1], b, banks, ledgers, rules)
            ELSE after[b - 1]
        result == after[last]
    IN  [result EXCEPT !.exceptions = @ \cup
            {Exception("unmatched_ledger", {}, {l}) : l \in Unused(ledgers, result.matches)}]
=============================================================================
