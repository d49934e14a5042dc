---------------------------- MODULE OnboardingProofs ----------------------------
(***************************************************************************)
(* Onboarding, for every set of authorizations, targets and requests: a    *)
(* code is redeemed at most once, and the credential of a connection that  *)
(* workers may use is deleted only under a callback that races with it.    *)
(*                                                                         *)
(* Both rest on what a callback owns: the authorization it redeemed is its *)
(* alone (Owned), because consuming the session and the answer to the      *)
(* caller are one statement.                                               *)
(***************************************************************************)
EXTENDS Onboarding, TLAPS

Active(r) == flow[r].pc # "idle"

FlowRow == [pc : FlowPC, auth : Authorizations \cup {None},
            todo : SUBSET Targets, registered : BOOLEAN]

\* The callback has stored a credential and goes on working with it.
HasStored(r) == flow[r].pc \in {"stored", "cached", "register"}

\* An authorization is redeemed before it is exchanged or registered, and by one
\* callback, which has not exchanged it as long as it stands at "redeemed".
Owned ==
    /\ \A a \in Authorizations : exchanges[a] # 0 => session[a] = "redeemed"
    /\ \A r \in Requests : Active(r) =>
           flow[r].auth \in Authorizations /\ session[flow[r].auth] = "redeemed"
    /\ \A r1, r2 \in Requests :
           Active(r1) /\ Active(r2) /\ flow[r1].auth = flow[r2].auth => r1 = r2
    /\ \A r \in Requests : flow[r].pc = "redeemed" => exchanges[flow[r].auth] = 0
    /\ \A r \in Requests : flow[r].pc = "cached" => cached \in Authorizations

\* Only Xero's callback has these steps, and it registers after them.
OnlyXero ==
    \A r \in Requests :
        /\ flow[r].pc \in {"stored", "cached"} => provider = "xero"
        /\ flow[r].pc \in {"redeemed", "stored", "cached"} => ~flow[r].registered

\* A connection that exists has a credential.
Registered == \A t \in Targets : connection[t].status # "none" => connection[t].ref \in Refs

OwnInv == OnboardingTypeOK /\ Owned /\ OnlyXero /\ Registered /\ RedeemedOnce

\* A credential in use is there or its deletion raced, also before the deletion
\* has happened; and nothing is registered yet with what a callback may discard.
Kept ==
    /\ \A t \in Targets : Healthy(t) /\ connection[t].ref \in deleting =>
           connection[t].ref \in raced
    /\ \A r \in Requests : HasStored(r) =>
           Ref(flow[r].auth) \in secrets \cup raced
    /\ \A r \in Requests : HasStored(r) /\ Ref(flow[r].auth) \in deleting =>
           Ref(flow[r].auth) \in raced
    /\ provider = "xero" => \A t \in Targets :
           /\ Healthy(t) => \E a \in Authorizations :
                  connection[t].ref = a /\ session[a] = "redeemed"
           /\ \A r \in Requests : Active(r) /\ ~flow[r].registered /\ Healthy(t) =>
                  connection[t].ref # flow[r].auth

KeptInv == Kept /\ HealthyHasCredential

-----------------------------------------------------------------------------
(* The types and what a callback owns *)

LEMMA InitOwns == OnboardingInit => OwnInv
BY OnboardingAssumption
   DEF OnboardingInit, OwnInv, OnboardingTypeOK, Owned, OnlyXero, Registered, RedeemedOnce, Active, Idle, FlowPC, Refs

\* What a step makes of the row of a callback is a row.
LEMMA FlowRows ==
    /\ Idle \in FlowRow
    /\ \A f \in FlowRow, l \in FlowPC : [f EXCEPT !.pc = l] \in FlowRow
    /\ \A f \in FlowRow, l \in FlowPC, s \in SUBSET Targets :
          [f EXCEPT !.pc = l, !.todo = s] \in FlowRow
    /\ \A f \in FlowRow, t \in Targets : [f EXCEPT !.todo = f.todo \ {t}] \in FlowRow
    /\ \A f \in FlowRow, t \in Targets :
          [f EXCEPT !.todo = f.todo \ {t}, !.registered = TRUE] \in FlowRow
<1>1. Idle \in FlowRow
  BY DEF Idle, FlowRow, FlowPC
<1>2. ASSUME NEW f \in FlowRow, NEW l \in FlowPC
      PROVE  [f EXCEPT !.pc = l] \in FlowRow
  BY ZenonT(60) DEF FlowRow
<1>3. ASSUME NEW f \in FlowRow, NEW l \in FlowPC, NEW s \in SUBSET Targets
      PROVE  [f EXCEPT !.pc = l, !.todo = s] \in FlowRow
  BY ZenonT(60) DEF FlowRow
<1>4. \A f \in FlowRow, t \in Targets : f.todo \ {t} \in SUBSET Targets
  BY DEF FlowRow
<1>5. ASSUME NEW f \in FlowRow, NEW s \in SUBSET Targets
      PROVE  [f EXCEPT !.todo = s] \in FlowRow
  BY ZenonT(60) DEF FlowRow
<1>6. ASSUME NEW f \in FlowRow, NEW s \in SUBSET Targets, NEW b \in BOOLEAN
      PROVE  [f EXCEPT !.todo = s, !.registered = b] \in FlowRow
  BY ZenonT(60) DEF FlowRow
<1>7. \A f \in FlowRow, t \in Targets : [f EXCEPT !.todo = f.todo \ {t}] \in FlowRow
  BY <1>4, <1>5, Zenon
<1>8. \A f \in FlowRow, t \in Targets :
          [f EXCEPT !.todo = f.todo \ {t}, !.registered = TRUE] \in FlowRow
  <2>1. TRUE \in BOOLEAN OBVIOUS
  <2> QED BY <2>1, <1>4, <1>6, Zenon
<1> QED
  BY <1>1, <1>2, <1>3, <1>7, <1>8

LEMMA UpdatedFlow ==
    ASSUME flow \in [Requests -> FlowRow], NEW r \in Requests, NEW row \in FlowRow,
           flow' = [flow EXCEPT ![r] = row]
    PROVE  flow' \in [Requests -> FlowRow]
OBVIOUS

LEMMA StepTypes ==
    ASSUME OwnInv, [OnboardingNext]_onboardingVars
    PROVE  OnboardingTypeOK'
<1> USE OnboardingAssumption
        DEF OwnInv, OnboardingTypeOK, Idle, FlowPC, Refs, Ref, Covered, Ends, Goes
<1>0. flow \in [Requests -> FlowRow]
  BY DEF FlowRow
<1>1. CASE \E a \in Authorizations : Authorize(a) \/ SessionExpires(a)
  BY <1>1 DEF Authorize, SessionExpires
<1>2. ASSUME NEW r \in Requests, Callback(r) PROVE OnboardingTypeOK'
  <2>0. Active(r) => flow[r].auth \in Authorizations
    BY DEF Owned
  <2>1. ASSUME NEW a \in Authorizations, Consume(r, a) PROVE OnboardingTypeOK'
    BY <2>1 DEF Consume
  <2>2. CASE Reject(r)                  BY <2>2 DEF Reject
  <2>3. CASE GrantFails(r)              BY <2>0, <2>3 DEF GrantFails, Active
  <2>4. CASE ExchangeAndStore(r)
    <3>1. Covered(flow[r].auth) \in SUBSET Targets
      BY <2>0, <2>4 DEF ExchangeAndStore, Active
    <3>2. \/ flow' = [flow EXCEPT ![r] = [flow[r] EXCEPT !.pc = "stored"]]
          \/ flow' = [flow EXCEPT ![r] = [flow[r] EXCEPT !.pc = "register",
                                                      !.todo = Covered(flow[r].auth)]]
      BY <2>4 DEF ExchangeAndStore
    <3>3. /\ [flow[r] EXCEPT !.pc = "stored"] \in FlowRow
          /\ [flow[r] EXCEPT !.pc = "register", !.todo = Covered(flow[r].auth)] \in FlowRow
      <4> HIDE DEF OwnInv, OnboardingTypeOK, Idle, Refs, Ref, Covered, Ends, Goes
      <4> QED BY <1>0, <3>1, FlowRows, Zenon DEF FlowPC
    <3>4. flow' \in [Requests -> FlowRow]
      <4> HIDE DEF OwnInv, OnboardingTypeOK, Idle, FlowPC, Refs, Ref, Covered, Ends, Goes
      <4> QED BY <1>0, <3>2, <3>3, UpdatedFlow
    <3> QED BY <2>0, <2>4, <3>4 DEF ExchangeAndStore, Active, FlowRow
  <2>5. CASE CacheToken(r)              BY <2>0, <2>5 DEF CacheToken, Active
  <2>6. CASE XeroUnusable(r)            BY <2>6 DEF XeroUnusable, Discard
  <2>7. CASE ListTenants(r)
    <3>1. Covered(cached) \in SUBSET Targets
      BY <2>7 DEF ListTenants, Owned
    <3>2. flow' = [flow EXCEPT ![r] = [flow[r] EXCEPT !.pc = "register", !.todo = Covered(cached)]]
      BY <2>7 DEF ListTenants
    <3>3. [flow[r] EXCEPT !.pc = "register", !.todo = Covered(cached)] \in FlowRow
      <4> HIDE DEF OwnInv, OnboardingTypeOK, Idle, Refs, Ref, Covered, Ends, Goes
      <4> QED BY <1>0, <3>1, FlowRows, Zenon DEF FlowPC
    <3>4. flow' \in [Requests -> FlowRow]
      <4> HIDE DEF OwnInv, OnboardingTypeOK, Idle, FlowPC, Refs, Ref, Covered, Ends, Goes
      <4> QED BY <1>0, <3>2, <3>3, UpdatedFlow
    <3> QED BY <2>7, <3>4 DEF ListTenants, FlowRow
  <2>8. ASSUME NEW t \in Targets, Register(r, t) PROVE OnboardingTypeOK'
    <3>1. flow' = [flow EXCEPT ![r] = [flow[r] EXCEPT !.todo = flow[r].todo \ {t}, !.registered = TRUE]]
      BY <2>8 DEF Register
    <3>2. connection' \in [Targets -> [status : {"none", "healthy", "disconnected"},
                                       ref : Refs \cup {None}]]
      BY <2>0, <2>8 DEF Register, Active
    <3>3. [flow[r] EXCEPT !.todo = flow[r].todo \ {t}, !.registered = TRUE] \in FlowRow
      BY <1>0, FlowRows, Zenon
    <3>4. flow' \in [Requests -> FlowRow]
      <4> HIDE DEF OwnInv, OnboardingTypeOK, Idle, FlowPC, Refs, Ref, Covered, Ends, Goes
      <4> QED BY <1>0, <3>1, <3>3, UpdatedFlow
    <3> QED BY <2>0, <2>8, <3>2, <3>4 DEF Register, Active, FlowRow
  <2>9. ASSUME NEW t \in Targets, RegisterFails(r, t) PROVE OnboardingTypeOK'
    <3>1. \/ flow' = [flow EXCEPT ![r] = [flow[r] EXCEPT !.todo = flow[r].todo \ {t}]]
          \/ flow' = [flow EXCEPT ![r] = Idle]
      BY <2>9 DEF RegisterFails
    <3>2. [flow[r] EXCEPT !.todo = flow[r].todo \ {t}] \in FlowRow /\ Idle \in FlowRow
      <4> HIDE DEF OwnInv, OnboardingTypeOK, Idle, FlowPC, Refs, Ref, Covered, Ends, Goes
      <4> QED BY <1>0, FlowRows, Zenon
    <3>3. flow' \in [Requests -> FlowRow]
      <4> HIDE DEF OwnInv, OnboardingTypeOK, Idle, FlowPC, Refs, Ref, Covered, Ends, Goes
      <4> QED BY <1>0, <3>1, <3>2, UpdatedFlow
    <3> QED BY <2>9, <3>3 DEF RegisterFails, FlowRow
  <2>10. CASE Answer(r)
    <3>1. Ends(r) /\ secrets' \subseteq secrets
          /\ UNCHANGED <<provider, session, exchanges, cached, connection, deleting, raced>>
      BY <2>10 DEF Answer, Discard
    <3> QED BY <3>1
  <2> QED BY <1>2, <2>1, <2>2, <2>3, <2>4, <2>5, <2>6, <2>7, <2>8, <2>9, <2>10 DEF Callback
<1>3. ASSUME NEW t \in Targets, Disconnect(t) PROVE OnboardingTypeOK'
  <2>1. connection[t].ref \in Refs
    BY <1>3 DEF Disconnect, Registered
  <2> QED BY <1>3, <2>1 DEF Disconnect
<1>4. CASE \E ref \in deleting : DeleteCredential(ref)
  BY <1>4 DEF DeleteCredential
<1>5. CASE ApiRestarts
  BY <1>5 DEF ApiRestarts
<1>6. CASE UNCHANGED onboardingVars
  BY <1>6 DEF onboardingVars
<1> QED BY <1>1, <1>2, <1>3, <1>4, <1>5, <1>6 DEF OnboardingNext

LEMMA StepRegisters ==
    ASSUME OwnInv, [OnboardingNext]_onboardingVars
    PROVE  Registered'
<1>1. CASE \E r \in Requests, t \in Targets : Register(r, t)
  BY <1>1 DEF Register, Registered, OwnInv, Owned, OnboardingTypeOK, Active, Ref, Refs
<1>2. CASE \E t \in Targets : Disconnect(t)
  BY <1>2 DEF Disconnect, Registered, OwnInv, OnboardingTypeOK
<1>3. CASE UNCHANGED connection
  BY <1>3 DEF Registered, OwnInv
<1> QED
  BY <1>1, <1>2, <1>3
     DEF OnboardingNext, Callback, Authorize, SessionExpires, Consume, Reject, GrantFails,
         ExchangeAndStore, CacheToken, XeroUnusable, ListTenants, RegisterFails, Answer,
         DeleteCredential, ApiRestarts, onboardingVars

LEMMA StepOnlyXero ==
    ASSUME OwnInv, [OnboardingNext]_onboardingVars
    PROVE  OnlyXero'
<1> USE DEF OwnInv, OnboardingTypeOK, OnlyXero, Idle, FlowPC, Ends, Goes
<1>1. ASSUME NEW r \in Requests, Callback(r) PROVE OnlyXero'
  <2>1. CASE \E a \in Authorizations : Consume(r, a)  BY <2>1 DEF Consume
  <2>2. CASE Reject(r)                  BY <2>2 DEF Reject
  <2>3. CASE GrantFails(r)              BY <2>3 DEF GrantFails
  <2>4. CASE ExchangeAndStore(r)
    <3>1. flow[r].pc = "redeemed" /\ ~flow[r].registered /\ UNCHANGED provider
      BY <2>4 DEF ExchangeAndStore
    <3>2. /\ flow'[r].pc \in {"stored", "register"}
          /\ flow'[r].pc = "stored" => provider = "xero"
          /\ flow'[r].registered = flow[r].registered
          /\ \A q \in Requests \ {r} : flow'[q] = flow[q]
      BY <2>4 DEF ExchangeAndStore
    <3>3. ASSUME NEW q \in Requests
          PROVE  /\ flow'[q].pc \in {"stored", "cached"} => provider' = "xero"
                 /\ flow'[q].pc \in {"redeemed", "stored", "cached"} => ~flow'[q].registered
      <4>1. CASE q = r  BY <3>1, <3>2, <4>1
      <4>2. CASE q # r  BY <3>1, <3>2, <4>2
      <4> QED BY <4>1, <4>2
    <3> HIDE DEF OwnInv, OnboardingTypeOK, Idle, FlowPC, Ends, Goes
    <3> QED BY <3>3
  <2>5. CASE CacheToken(r)              BY <2>5 DEF CacheToken
  <2>6. CASE XeroUnusable(r)            BY <2>6 DEF XeroUnusable, Discard
  <2>7. CASE ListTenants(r)             BY <2>7 DEF ListTenants
  <2>8. CASE \E t \in Targets : Register(r, t)       BY <2>8 DEF Register
  <2>9. CASE \E t \in Targets : RegisterFails(r, t)  BY <2>9 DEF RegisterFails
  <2>10. CASE Answer(r)
    <3>1. Ends(r) /\ UNCHANGED provider
      BY <2>10 DEF Answer, Discard
    <3> QED BY <3>1
  <2> QED BY <1>1, <2>1, <2>2, <2>3, <2>4, <2>5, <2>6, <2>7, <2>8, <2>9, <2>10 DEF Callback
<1>2. CASE ApiRestarts
  BY <1>2 DEF ApiRestarts
<1>3. CASE UNCHANGED <<flow, provider>>
  BY <1>3
<1> QED
  BY <1>1, <1>2, <1>3
     DEF OnboardingNext, Authorize, SessionExpires, Disconnect, DeleteCredential, onboardingVars

LEMMA StepOwns ==
    ASSUME OwnInv, [OnboardingNext]_onboardingVars
    PROVE  Owned' /\ RedeemedOnce'
<1> USE OnboardingAssumption
        DEF OwnInv, OnboardingTypeOK, Owned, RedeemedOnce, Active, Idle, FlowPC, Ends, Goes
<1>1. CASE \E a \in Authorizations : Authorize(a) \/ SessionExpires(a)
  BY <1>1 DEF Authorize, SessionExpires
<1>2. ASSUME NEW r \in Requests, Callback(r) PROVE Owned' /\ RedeemedOnce'
  <2>1. ASSUME NEW a \in Authorizations, Consume(r, a) PROVE Owned' /\ RedeemedOnce'
    BY <2>1 DEF Consume
  <2>2. CASE Reject(r)                  BY <2>2 DEF Reject
  <2>3. CASE GrantFails(r)              BY <2>3 DEF GrantFails
  <2>4. CASE ExchangeAndStore(r)
    <3>1. /\ flow'[r].pc \in {"stored", "register"} /\ flow'[r].auth = flow[r].auth
          /\ \A q \in Requests \ {r} : flow'[q] = flow[q]
      BY <2>4 DEF ExchangeAndStore
    <3>2. /\ exchanges'[flow[r].auth] = 1 /\ UNCHANGED <<session, cached>>
          /\ \A a \in Authorizations \ {flow[r].auth} : exchanges'[a] = exchanges[a]
      BY <2>4 DEF ExchangeAndStore
    <3>3. Active(r) /\ flow[r].pc = "redeemed" /\ session[flow[r].auth] = "redeemed"
      BY <2>4 DEF ExchangeAndStore
    <3> QED BY <3>1, <3>2, <3>3
  <2>5. CASE CacheToken(r)              BY <2>5 DEF CacheToken
  <2>6. CASE XeroUnusable(r)            BY <2>6 DEF XeroUnusable, Discard
  <2>7. CASE ListTenants(r)             BY <2>7 DEF ListTenants
  <2>8. CASE \E t \in Targets : Register(r, t)       BY <2>8 DEF Register
  <2>9. ASSUME NEW t \in Targets, RegisterFails(r, t) PROVE Owned' /\ RedeemedOnce'
    <3>1. CASE flow' = [flow EXCEPT ![r].todo = @ \ {t}]
      BY <2>9, <3>1 DEF RegisterFails
    <3>2. CASE Ends(r)
      BY <2>9, <3>2 DEF RegisterFails
    <3> QED BY <2>9, <3>1, <3>2 DEF RegisterFails
  <2>10. CASE Answer(r)
    <3>1. Ends(r) /\ UNCHANGED <<session, exchanges, cached>>
      BY <2>10 DEF Answer, Discard
    <3> QED BY <3>1
  <2> QED BY <1>2, <2>1, <2>2, <2>3, <2>4, <2>5, <2>6, <2>7, <2>8, <2>9, <2>10 DEF Callback
<1>3. CASE \E t \in Targets : Disconnect(t)
  BY <1>3 DEF Disconnect
<1>4. CASE \E ref \in deleting : DeleteCredential(ref)
  BY <1>4 DEF DeleteCredential
<1>5. CASE ApiRestarts
  BY <1>5 DEF ApiRestarts
<1>6. CASE UNCHANGED onboardingVars
  BY <1>6 DEF onboardingVars
<1> QED BY <1>1, <1>2, <1>3, <1>4, <1>5, <1>6 DEF OnboardingNext

LEMMA AlwaysOwned == OnboardingSpec => []OwnInv
<1>1. OnboardingInit => OwnInv  BY InitOwns
<1>2. OwnInv /\ [OnboardingNext]_onboardingVars => OwnInv'
  BY StepTypes, StepOwns, StepRegisters, StepOnlyXero DEF OwnInv
<1> QED BY <1>1, <1>2, PTL DEF OnboardingSpec

\* One consent buys one grant, however many callbacks and threads there are:
\* consume (supabase_db.py) deletes the session row it returns.
THEOREM CodesRedeemedOnce == OnboardingSpec => []RedeemedOnce
<1>1. OwnInv => RedeemedOnce  BY DEF OwnInv
<1> QED BY <1>1, AlwaysOwned, PTL

\* Whatever callbacks overlap, expire or fail: no code is exchanged twice, a
\* connection names a credential of an authorization that exists, and the rows of
\* callbacks, sessions and connections stay in shape (xero_oauth.py, main.py).
THEOREM OnboardingTypeCorrect == OnboardingSpec => []OnboardingTypeOK
<1>1. OwnInv => OnboardingTypeOK  BY DEF OwnInv
<1> QED BY <1>1, AlwaysOwned, PTL

-----------------------------------------------------------------------------
(* The credential of a healthy connection *)

LEMMA InitKeeps == OnboardingInit => KeptInv
BY DEF OnboardingInit, KeptInv, Kept, HealthyHasCredential, Healthy, HasStored, Active, Idle

\* A step of a callback that touches no connection: it keeps what it is about and
\* stores at most what it had stored, or ends.
LEMMA QuietCallback ==
    ASSUME OwnInv, KeptInv, NEW r \in Requests,
           UNCHANGED <<provider, session, secrets, connection, deleting, raced>>,
           \A q \in Requests \ {r} : flow'[q] = flow[q],
           Active(r)' => /\ Active(r) /\ flow'[r].auth = flow[r].auth
                         /\ flow'[r].registered = flow[r].registered
                         /\ HasStored(r)' => HasStored(r)
    PROVE  KeptInv'
BY DEF KeptInv, Kept, HealthyHasCredential, Healthy, HasStored, Active, Ref

\* A Xero callback that registered nothing may discard its credential.
LEMMA DiscardKeeps ==
    ASSUME OwnInv, KeptInv, NEW r \in Requests, provider = "xero",
           Active(r), ~flow[r].registered, Discard(r),
           UNCHANGED <<provider, session, exchanges, cached, connection, deleting, raced>>
    PROVE  KeptInv'
<1>1. /\ flow'[r].pc = "idle" /\ \A q \in Requests \ {r} : flow'[q] = flow[q]
      /\ \A ref \in secrets : ref # flow[r].auth => ref \in secrets'
  BY DEF Discard, Ends, Idle, OwnInv, OnboardingTypeOK, Ref
<1>2. \A t \in Targets : Healthy(t) => connection[t].ref # flow[r].auth
  BY DEF KeptInv, Kept
<1>3. \A q \in Requests \ {r} : Active(q) => flow[q].auth # flow[r].auth
  BY DEF OwnInv, Owned
<1>4. HealthyHasCredential'
  BY <1>1, <1>2 DEF KeptInv, HealthyHasCredential, Healthy
<1>5. Kept'
  BY <1>1, <1>3 DEF KeptInv, Kept, Healthy, HasStored, Active, Ref
<1> QED BY <1>4, <1>5 DEF KeptInv

LEMMA StepKeeps ==
    ASSUME OwnInv, KeptInv, [OnboardingNext]_onboardingVars
    PROVE  KeptInv'
<1> USE DEF Idle, Ends, Goes
<1>0. flow \in [Requests -> FlowRow]
  BY DEF OwnInv, OnboardingTypeOK, FlowRow
<1>1. CASE \E a \in Authorizations : Authorize(a) \/ SessionExpires(a)
  <2>1. \A a \in Authorizations : session[a] = "redeemed" => session'[a] = "redeemed"
    BY <1>1 DEF Authorize, SessionExpires, OwnInv, OnboardingTypeOK
  <2>2. UNCHANGED <<provider, flow, secrets, connection, deleting, raced>>
    BY <1>1 DEF Authorize, SessionExpires
  <2> QED BY <2>1, <2>2 DEF KeptInv, Kept, HealthyHasCredential, Healthy, HasStored, Active, Ref
<1>2. ASSUME NEW r \in Requests, Callback(r) PROVE KeptInv'
  <2>1. ASSUME NEW a \in Authorizations, Consume(r, a) PROVE KeptInv'
    <3>1. /\ flow'[r].pc = "redeemed" /\ flow'[r].auth = a
          /\ \A q \in Requests \ {r} : flow'[q] = flow[q]
      BY <2>1, <1>0 DEF Consume
    <3>2. /\ session[a] # "redeemed"
          /\ \A b \in Authorizations : session[b] = "redeemed" => session'[b] = "redeemed"
      BY <2>1 DEF Consume, OwnInv, OnboardingTypeOK
    <3>3. UNCHANGED <<provider, secrets, connection, deleting, raced>>
      BY <2>1 DEF Consume
    <3>4. provider = "xero" => \A t \in Targets : Healthy(t) => connection[t].ref # a
      BY <3>2 DEF KeptInv, Kept
    <3> QED BY <3>1, <3>2, <3>3, <3>4
            DEF KeptInv, Kept, HealthyHasCredential, Healthy, HasStored, Active, Ref
  <2>2. CASE Reject(r) \/ GrantFails(r)
    <3>1. flow'[r].pc = "idle" /\ \A q \in Requests \ {r} : flow'[q] = flow[q]
      BY <2>2, <1>0 DEF Reject, GrantFails
    <3> QED BY <2>2, <3>1, QuietCallback DEF Reject, GrantFails, Active
  <2>3. CASE ExchangeAndStore(r)
    <3>1. /\ Active(r) /\ Active(r)' /\ flow'[r].auth = flow[r].auth
          /\ flow'[r].registered = flow[r].registered
          /\ \A q \in Requests \ {r} : flow'[q] = flow[q]
      <4>1. CASE provider = "xero"
        BY <2>3, <4>1, <1>0 DEF ExchangeAndStore, Active, FlowRow
      <4>2. CASE provider # "xero"
        BY <2>3, <4>2, <1>0 DEF ExchangeAndStore, Active, FlowRow
      <4> QED BY <4>1, <4>2
    <3>2. /\ secrets' = secrets \cup {Ref(flow[r].auth)}
          /\ raced' = raced \cup ({Ref(flow[r].auth)} \cap deleting)
          /\ UNCHANGED <<provider, session, connection, deleting>>
      BY <2>3 DEF ExchangeAndStore
    <3>3. Ref(flow[r].auth)' = Ref(flow[r].auth)
          /\ \A q \in Requests \ {r} : Ref(flow[q].auth)' = Ref(flow[q].auth)
      BY <3>1, <3>2 DEF Ref
    <3>4. \A q \in Requests \ {r} : HasStored(q)' = HasStored(q) /\ Active(q)' = Active(q)
      BY <3>1 DEF HasStored, Active
    <3> QED BY <3>1, <3>2, <3>3, <3>4 DEF KeptInv, Kept, HealthyHasCredential, Healthy
  <2>4. CASE CacheToken(r)
    <3>1. /\ flow'[r].pc = "cached" /\ flow[r].pc = "stored" /\ flow'[r].auth = flow[r].auth
          /\ flow'[r].registered = flow[r].registered
          /\ \A q \in Requests \ {r} : flow'[q] = flow[q]
      BY <2>4, <1>0 DEF CacheToken
    <3> QED BY <2>4, <3>1, QuietCallback DEF CacheToken, Active, HasStored
  <2>5. CASE XeroUnusable(r)
    <3>1. provider = "xero" /\ ~flow[r].registered
      BY <2>5 DEF XeroUnusable, OwnInv, OnlyXero
    <3> QED BY <2>5, <3>1, DiscardKeeps DEF XeroUnusable, Active
  <2>6. CASE ListTenants(r)
    <3>1. /\ flow'[r].pc = "register" /\ flow[r].pc = "cached" /\ flow'[r].auth = flow[r].auth
          /\ flow'[r].registered = flow[r].registered
          /\ \A q \in Requests \ {r} : flow'[q] = flow[q]
      BY <2>6, <1>0 DEF ListTenants
    <3> QED BY <2>6, <3>1, QuietCallback DEF ListTenants, Active, HasStored
  <2>7. ASSUME NEW t \in Targets, Register(r, t) PROVE KeptInv'
    <3> DEFINE ref == Ref(flow[r].auth)
    <3>1. /\ HasStored(r) /\ Active(r)
          /\ flow'[r].auth = flow[r].auth /\ flow'[r].registered = TRUE
          /\ \A q \in Requests \ {r} : flow'[q] = flow[q]
      BY <2>7, <1>0 DEF Register, HasStored, Active, FlowRow
    <3>2. /\ connection'[t] = [status |-> "healthy", ref |-> ref]
          /\ \A u \in Targets \ {t} : connection'[u] = connection[u]
          /\ raced' = raced \cup ({ref} \cap deleting)
          /\ UNCHANGED <<provider, session, secrets, deleting>>
      BY <2>7 DEF Register, OwnInv, OnboardingTypeOK
    <3>3. ref \in secrets \cup raced
      BY <3>1 DEF KeptInv, Kept
    <3>4. /\ flow[r].auth \in Authorizations /\ session[flow[r].auth] = "redeemed"
          /\ \A q \in Requests \ {r} : Active(q) => flow[q].auth # flow[r].auth
      BY <3>1 DEF OwnInv, Owned
    <3>5. \A q \in Requests : Ref(flow[q].auth)' = Ref(flow[q].auth)
      BY <3>1, <3>2 DEF Ref
    <3>6. HealthyHasCredential'
      BY <3>2, <3>3 DEF KeptInv, HealthyHasCredential, Healthy
    <3>7. \A u \in Targets : Healthy(u)' /\ connection'[u].ref \in deleting' =>
              connection'[u].ref \in raced'
      BY <3>2 DEF KeptInv, Kept, Healthy
    <3>8. \A q \in Requests : HasStored(q)' =>
              /\ Ref(flow[q].auth)' \in secrets' \cup raced'
              /\ Ref(flow[q].auth)' \in deleting' => Ref(flow[q].auth)' \in raced'
      BY <3>1, <3>2, <3>5 DEF KeptInv, Kept, HasStored
    <3>9. ASSUME provider' = "xero", NEW u \in Targets, Healthy(u)'
          PROVE  /\ \E a \in Authorizations : connection'[u].ref = a /\ session'[a] = "redeemed"
                 /\ \A q \in Requests : Active(q)' /\ ~flow'[q].registered =>
                        connection'[u].ref # flow'[q].auth
      BY <3>1, <3>2, <3>4, <3>9 DEF KeptInv, Kept, Healthy, Active, Ref
    <3> QED BY <3>6, <3>7, <3>8, <3>9 DEF KeptInv, Kept
  <2>8. ASSUME NEW t \in Targets, RegisterFails(r, t) PROVE KeptInv'
    <3>1. CASE flow' = [flow EXCEPT ![r].todo = @ \ {t}]
      <4>1. /\ flow'[r].pc = flow[r].pc /\ flow'[r].auth = flow[r].auth
            /\ flow'[r].registered = flow[r].registered
            /\ \A q \in Requests \ {r} : flow'[q] = flow[q]
        BY <3>1, <1>0 DEF FlowRow
      <4> QED BY <2>8, <4>1, QuietCallback DEF RegisterFails, Active, HasStored
    <3>2. CASE Ends(r)
      <4>1. flow'[r].pc = "idle" /\ \A q \in Requests \ {r} : flow'[q] = flow[q]
        BY <3>2, <1>0
      <4> QED BY <2>8, <4>1, QuietCallback DEF RegisterFails, Active
    <3> QED BY <2>8, <3>1, <3>2 DEF RegisterFails
  <2>9. CASE Answer(r)
    <3>1. CASE provider = "xero" /\ ~flow[r].registered
      BY <2>9, <3>1, DiscardKeeps DEF Answer, Active
    <3>2. CASE ~(provider = "xero" /\ ~flow[r].registered)
      <4>1. Ends(r) /\ UNCHANGED secrets
        BY <2>9, <3>2 DEF Answer
      <4>2. flow'[r].pc = "idle" /\ \A q \in Requests \ {r} : flow'[q] = flow[q]
        BY <4>1, <1>0
      <4> QED BY <2>9, <4>1, <4>2, QuietCallback DEF Answer, Active
    <3> QED BY <3>1, <3>2
  <2> QED BY <1>2, <2>1, <2>2, <2>3, <2>4, <2>5, <2>6, <2>7, <2>8, <2>9 DEF Callback
<1>3. ASSUME NEW t \in Targets, Disconnect(t) PROVE KeptInv'
  <2> DEFINE ref == connection[t].ref
  <2>1. /\ connection'[t].status = "disconnected" /\ connection'[t].ref = ref
        /\ \A u \in Targets \ {t} : connection'[u] = connection[u]
        /\ UNCHANGED <<provider, session, flow, secrets>>
        /\ raced \subseteq raced' /\ deleting' \subseteq deleting \cup {ref}
    BY <1>3 DEF Disconnect, OwnInv, OnboardingTypeOK
  <2>2. ref \in deleting' \ deleting => \A u \in Targets : Healthy(u)' => connection'[u].ref # ref
    <3>1. ref \in deleting' \ deleting => ~StillUsed(connection', ref)
      BY <1>3 DEF Disconnect
    <3>2. connection' \in [Targets -> [status : {"none", "healthy", "disconnected"},
                                       ref : Refs \cup {None}]]
      BY StepTypes DEF OnboardingTypeOK
    <3> QED BY <3>1, <3>2 DEF StillUsed, Healthy
  <2>3. \A r \in Requests : HasStored(r) /\ Ref(flow[r].auth) = ref /\ ref \in deleting' => ref \in raced'
    BY <1>3 DEF Disconnect, InUse, HasStored
  <2>4. \A u \in Targets : Healthy(u)' => Healthy(u) /\ connection'[u].ref = connection[u].ref
    BY <2>1 DEF Healthy
  <2>5. HealthyHasCredential'
    BY <2>1, <2>4 DEF KeptInv, HealthyHasCredential
  <2>6. \A r \in Requests : Ref(flow[r].auth)' = Ref(flow[r].auth) /\ HasStored(r)' = HasStored(r)
                             /\ Active(r)' = Active(r)
    BY <2>1 DEF Ref, HasStored, Active
  <2> QED BY <2>1, <2>2, <2>3, <2>4, <2>5, <2>6 DEF KeptInv, Kept
<1>4. ASSUME NEW ref \in deleting, DeleteCredential(ref) PROVE KeptInv'
  <2>1. /\ deleting' = deleting \ {ref}
        /\ \A x \in secrets : x # ref => x \in secrets'
        /\ UNCHANGED <<provider, session, flow, connection, raced>>
    BY <1>4 DEF DeleteCredential
  <2>2. \A r \in Requests : Ref(flow[r].auth)' = Ref(flow[r].auth) /\ HasStored(r)' = HasStored(r)
                             /\ Active(r)' = Active(r)
    BY <2>1 DEF Ref, HasStored, Active
  <2> QED BY <2>1, <2>2 DEF KeptInv, Kept, HealthyHasCredential, Healthy
<1>5. CASE ApiRestarts
  <2>1. \A r \in Requests : flow'[r].pc = "idle"
    BY <1>5 DEF ApiRestarts
  <2> QED BY <1>5, <2>1 DEF ApiRestarts, KeptInv, Kept, HealthyHasCredential, Healthy, HasStored, Active
<1>6. CASE UNCHANGED onboardingVars
  BY <1>6 DEF onboardingVars, KeptInv, Kept, HealthyHasCredential, Healthy, HasStored, Active, Ref
<1> QED BY <1>1, <1>2, <1>3, <1>4, <1>5, <1>6 DEF OnboardingNext

\* Neither the cleanup of a failed callback nor a disconnect takes the credential
\* of a connection that workers may use, unless a callback races with the deletion.
THEOREM CredentialsKept == OnboardingSpec => []HealthyHasCredential
<1>1. OnboardingInit => KeptInv  BY InitKeeps
<1>2. OwnInv /\ KeptInv /\ [OnboardingNext]_onboardingVars => KeptInv'  BY StepKeeps
<1>3. KeptInv => HealthyHasCredential  BY DEF KeptInv
<1> QED BY <1>1, <1>2, <1>3, AlwaysOwned, PTL DEF OnboardingSpec
=============================================================================
