--------------------------------- MODULE MCFacts ---------------------------------
(***************************************************************************)
(* Instances of the three parts that turn provider data into the facts of  *)
(* a close: the webhook keys, the synchronization with Plaid, and the      *)
(* execution that is derived from a snapshot.  They share no state, so one *)
(* behaviour belongs to one part, and the others rest in an initial state. *)
(***************************************************************************)
EXTENDS PlaidSync, WebhookKeys, CloseExecution

VARIABLE facts

Put(transaction, account)  == [transaction |-> transaction, account |-> account, removed |-> FALSE]
Gone(transaction, account) == [transaction |-> transaction, account |-> account, removed |-> TRUE]

\* A transaction is removed, or modified, or followed by one of another account.
Removal  == <<Put("r", "a"), Gone("r", "a")>>
Revision == <<Put("r", "a"), Put("r", "a")>>
Another  == <<Put("r", "a"), Put("s", "b")>>

MCFeeds == {Removal, Revision, Another}

\* Two requests are followed while no close waits for its sources; with a close,
\* only the last change is announced, and accounts come and go with two accounts.
SyncBound ==
    /\ snapshot.state # "none" => 1 \notin receipts'
    /\ healthy' # healthy => feed = Another

Bank(amount, fee, day, status) ==
    [account |-> "a", amount |-> amount, fee |-> fee, day |-> day, status |-> status]

MCBankFacts ==
    {Bank(1, 0, 1, "posted"), Bank(2, 0, 1, "posted"), Bank(3, 0, 2, "posted"), Bank(-1, 0, 2, "posted"),
     Bank(2, 1, 1, "posted"), Bank(1, 0, 1, "pending"), Bank(2, 0, 1, "removed"), Bank(2, 0, 4, "posted"),
     [Bank(1, 0, 1, "posted") EXCEPT !.account = "b"]}

Ledger(amount, direction, day) ==
    [code |-> "bank", amount |-> amount, direction |-> direction, voided |-> FALSE, day |-> day]

MCLedgerFacts ==
    {Ledger(1, "spend", 1), Ledger(2, "spend", 1), Ledger(3, "spend", 3), Ledger(1, "receive", 2),
     Ledger(2, "unknown", 1), [Ledger(1, "spend", 1) EXCEPT !.code = "other"],
     [Ledger(1, "spend", 1) EXCEPT !.voided = TRUE]}

MCMappings ==
    [bankCode : {"a" :> "bank"}, window : {1}, lastDay : {3}, maxAggregate : {3},
     tolerance : {1}, materiality : {0, 1}, pendingPolicy : {"exception", "exclude"},
     offset : {"offset"}, permitted : {{"bank", "offset"}}]

NoMapping == CHOOSE m \in MCMappings : TRUE

MCInit ==
    /\ facts \in {"keys", "sync", "execution"}
    /\ PlaidInit /\ KeysInit
    /\ IF facts = "execution"
       THEN ExecutionInit /\ (complete \/ bankFacts = <<>>)
       ELSE /\ bankFacts = <<>> /\ ledgerFacts = <<>> /\ mapping = NoMapping
            /\ complete = FALSE /\ execution = NotDerived
    /\ IF facts = "sync"
       THEN feed = Removal <=> snapshot.state = "none"
       ELSE feed = Removal /\ snapshot.state = "none"

MCNext ==
    /\ \/ facts = "keys" /\ KeysNext /\ UNCHANGED <<plaidVars, executionVars>>
       \/ facts = "sync" /\ PlaidNext /\ SyncBound /\ UNCHANGED <<keyVars, executionVars>>
       \/ facts = "execution" /\ Derive /\ UNCHANGED <<plaidVars, keyVars>>
    /\ UNCHANGED facts

MCSpec == MCInit /\ [][MCNext]_<<facts, plaidVars, keyVars, executionVars>> /\ PlaidFairness

FactsTypeOK == PlaidTypeOK /\ KeysTypeOK /\ ExecutionTypeOK
=============================================================================
