------------------------------ MODULE CloseExecution ------------------------------
(***************************************************************************)
(* derive_close_execution: from the facts of a frozen snapshot and the     *)
(* mapping of the run to the reconciliation, the control status of the     *)
(* report, and the journals that are proposed.  It is a function of its    *)
(* inputs, which the module picks and evaluates once.                      *)
(*                                                                         *)
(* Not modelled are the checks of the shape of a payload, the fields that  *)
(* are only carried along (evidence, descriptions, hashes), and the manual *)
(* journals, which add warnings to a report and never change its status.   *)
(***************************************************************************)
EXTENDS Reconciliation

CONSTANTS
    BankFacts,   \* Plaid facts: [account, amount, fee, day, status]
    LedgerFacts, \* Xero cash facts: [code, amount, direction, voided, day]
    Mappings,    \* what an approved mapping says
    MaxBanks,    \* bound: the number of Plaid facts
    MaxLedgers   \* bound: the number of Xero facts

ASSUME CloseExecutionAssumption ==
    /\ MaxBanks \in Nat /\ MaxLedgers \in Nat
    /\ \A f \in BankFacts : f.amount \in Int /\ f.fee \in Int /\ f.day \in Int
    /\ \A f \in LedgerFacts : f.amount \in Int /\ f.day \in Int
    /\ \A m \in Mappings : /\ m.window \in Nat /\ m.tolerance \in Nat /\ m.materiality \in Nat
                           /\ m.maxAggregate \in Nat \ {0, 1}

VARIABLES
    bankFacts, ledgerFacts, mapping,
    complete,   \* the snapshot holds the three Xero reports
    execution   \* what has been derived

executionVars == <<bankFacts, ledgerFacts, mapping, complete, execution>>

NotDerived == [status |-> "not derived"]
Refused == [status |-> "refused"]

ExecutionInit ==
    /\ bankFacts \in SeqOf(BankFacts, MaxBanks)
    /\ ledgerFacts \in SeqOf(LedgerFacts, MaxLedgers)
    /\ mapping \in Mappings
    /\ complete \in BOOLEAN
    /\ execution = NotDerived

\* The period of the close is the days from 1 to mapping.lastDay.
InPeriod(fact) == fact.day \in 1..mapping.lastDay

\* _bank_transactions; a removed one is none.
Banks ==
    LET Kept(f) == f.status # "removed" /\ InPeriod(f)
        BankOf(f) == [amount |-> f.amount, fee |-> f.fee, day |-> f.day,
                      pending |-> f.status = "pending", account |-> f.account]
    IN  [i \in {i \in DOMAIN bankFacts : Kept(bankFacts[i])} |-> BankOf(bankFacts[i])]

Unmapped ==
    \E i \in DOMAIN bankFacts :
        bankFacts[i].status # "removed" /\ bankFacts[i].account \notin DOMAIN mapping.bankCode

\* _xero_cash_amount: Xero states a direction, Plaid an outflow as positive.
CashAmount(f) == IF f.direction = "spend" THEN f.amount ELSE -f.amount

\* _ledger_transactions; one without a known direction is left out.
Ledgers ==
    LET Kept(f) == ~f.voided /\ f.direction # "unknown" /\ InPeriod(f)
        LedgerOf(f) == [amount |-> CashAmount(f), day |-> f.day, code |-> f.code]
    IN  [i \in {i \in DOMAIN ledgerFacts : Kept(ledgerFacts[i])} |-> LedgerOf(ledgerFacts[i])]

Amount(e, banks, ledgers) ==
    IF e.banks # {} THEN banks[CHOOSE b \in e.banks : TRUE].amount
    ELSE ledgers[CHOOSE l \in e.ledgers : TRUE].amount

Ignored(e) == mapping.pendingPolicy = "exclude" /\ e.code = "pending_transaction"

Abs(n) == IF n < 0 THEN -n ELSE n

\* Mutant of Material: the threshold is compared with the signed amount.
MaterialSigned(e, banks, ledgers) ==
    ~Ignored(e) /\ Amount(e, banks, ledgers) > mapping.materiality

Material(e, banks, ledgers) ==
    ~Ignored(e) /\ Abs(Amount(e, banks, ledgers)) > mapping.materiality

CashCodes == {mapping.bankCode[a] : a \in DOMAIN mapping.bankCode}

BankTotal(banks) == Total(banks, DOMAIN banks)

CashTotal(ledgers) ==
    Total(ledgers, {l \in DOMAIN ledgers : ledgers[l].code \in CashCodes})

\* _report_payload
ReportStatus(banks, ledgers, material) ==
    IF ~complete THEN "unavailable"
    ELSE IF BankTotal(banks) = CashTotal(ledgers) /\ material = {} THEN "passed" ELSE "exception"

\* _proposal_for_exception: the lines of a journal that moves the amount between
\* the bank account and the offset that the controller chose; positive is debit.
Proposes(e, banks) ==
    /\ e.code = "unmatched_bank"
    /\ mapping.offset \in mapping.permitted
    /\ \A b \in e.banks : mapping.bankCode[banks[b].account] \in mapping.permitted /\ banks[b].amount # 0

Proposal(e, banks) ==
    LET bank == banks[CHOOSE b \in e.banks : TRUE]
        code == mapping.bankCode[bank.account]
    IN  << [code |-> mapping.offset, amount |-> bank.amount], [code |-> code, amount |-> -bank.amount] >>

DeriveCloseExecution ==
    LET banks == Banks
        ledgers == Ledgers
        reconciliation == Reconcile(banks, ledgers, mapping)
        material == {e \in reconciliation.exceptions : Material(e, banks, ledgers)}
    IN  [status     |-> ReportStatus(banks, ledgers, material),
         matches    |-> reconciliation.matches,
         exceptions |-> reconciliation.exceptions,
         material   |-> material,
         proposals  |-> [e \in {x \in material : Proposes(x, banks)} |-> Proposal(e, banks)]]

Derive ==
    /\ execution = NotDerived
    /\ execution' = IF Unmapped THEN Refused ELSE DeriveCloseExecution
    /\ UNCHANGED <<bankFacts, ledgerFacts, mapping, complete>>

ExecutionSpec == ExecutionInit /\ [][Derive]_executionVars

-----------------------------------------------------------------------------
Derived == execution # NotDerived /\ execution # Refused

ExecutionTypeOK ==
    Derived => /\ execution.status \in {"unavailable", "passed", "exception"}
               /\ execution.material \subseteq execution.exceptions
               /\ \A m \in execution.matches : m.bank \in DOMAIN Banks /\ m.ledgers \subseteq DOMAIN Ledgers

MatchesOf(b) == {m \in execution.matches : m.bank = b}
Excepted(b) == {e \in execution.exceptions : b \in e.banks}
MatchedBanks == {m.bank : m \in execution.matches}

\* Every transaction is accounted for exactly once: a bank transaction is in one
\* match or in one exception, a ledger transaction in one match or unmatched, and
\* a match ties up to a tolerated fee and stays within the date window.  Hence
\* the exceptions explain the whole difference between the bank and the ledger.
EverythingAccounted ==
    Derived =>
        LET banks == Banks
            ledgers == Ledgers
            Used(l) == {m \in execution.matches : l \in m.ledgers}
            Gap(m) == banks[m.bank].amount - Total(ledgers, m.ledgers)
            open == {l \in DOMAIN ledgers : Used(l) = {}}
        IN  /\ \A b \in DOMAIN banks : Cardinality(MatchesOf(b)) + Cardinality(Excepted(b)) = 1
            /\ \A l \in DOMAIN ledgers :
                   /\ Cardinality(Used(l)) <= 1
                   /\ Used(l) = {} <=> Exception("unmatched_ledger", {}, {l}) \in execution.exceptions
            /\ \A m \in execution.matches :
                   /\ -Gap(m) \in {0, banks[m.bank].fee} /\ -Gap(m) <= mapping.tolerance
                   /\ \A l \in m.ledgers : Near(banks[m.bank], ledgers[l], mapping)
            /\ BankTotal(banks) - Total(ledgers, DOMAIN ledgers)
                 = Total(banks, DOMAIN banks \ MatchedBanks) - Total(ledgers, open)
                   + SumFunction([m \in execution.matches |-> Gap(m)])

\* What the controller may rely on.  A report that passes ties and leaves no
\* transaction above the materiality threshold open, except a pending one that
\* the mapping excludes.  Each proposal posts a balanced journal to permitted
\* accounts.  And if all that stands between the bank and the ledger is material
\* unmatched bank transactions with a proposal each, posting them closes the gap.
ExecutionSound ==
    Derived =>
        LET banks == Banks
            ledgers == Ledgers
            posted == DOMAIN execution.proposals
            Cash(line) == IF line.code \in CashCodes THEN -line.amount ELSE 0
            Posted(journal) == Cash(journal[1]) + Cash(journal[2])
        IN  /\ execution.status = "passed" =>
                 /\ BankTotal(banks) = CashTotal(ledgers) /\ posted = {}
                 /\ \A b \in DOMAIN banks \ MatchedBanks :
                      \/ Abs(banks[b].amount) <= mapping.materiality
                      \/ banks[b].pending /\ mapping.pendingPolicy = "exclude"
            /\ \A e \in posted :
                 /\ execution.proposals[e][1].amount + execution.proposals[e][2].amount = 0
                 /\ {execution.proposals[e][i].code : i \in 1..2} \subseteq mapping.permitted
            /\ (/\ execution.exceptions = posted
                /\ mapping.offset \notin CashCodes
                /\ \A m \in execution.matches : \A l \in m.ledgers : ledgers[l].code \in CashCodes
                /\ \A m \in execution.matches : banks[m.bank].fee = 0)
               => BankTotal(banks) = CashTotal(ledgers) + SumFunction([e \in posted |-> Posted(execution.proposals[e])])
=============================================================================
