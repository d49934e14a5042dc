------------------------------- MODULE Onboarding -------------------------------
(***************************************************************************)
(* How provider connections come and go: OAuth sessions, the callbacks     *)
(* that redeem them, Plaid Link, the connection rows, and the disconnect   *)
(* endpoint.  The API process runs these requests on a thread pool, so     *)
(* they interleave between any two calls.  One organization; its provider  *)
(* is Xero, Google or Plaid, which differ in where the credential is kept  *)
(* and how the targets (Xero tenants, Google services, bank accounts) of   *)
(* an authorization are found.                                             *)
(*                                                                         *)
(* An authorization stands for one OAuth state value or Plaid public       *)
(* token, the code that belongs to it, and the grant it buys.              *)
(***************************************************************************)
EXTENDS Naturals, FiniteSets

CONSTANTS
    Authorizations,
    Targets,
    Reach,     \* the targets that the user's consent to an authorization covers
    Requests,  \* the threads that serve callbacks
    None       \* no authorization

ASSUME OnboardingAssumption ==
    /\ Reach \in [Authorizations -> SUBSET Targets]
    /\ None \notin Authorizations

VARIABLES
    provider,   \* never changes
    session,    \* oauth_sessions, by state
    exchanges,  \* how often the provider was asked to exchange its code
    flow,       \* where a callback request is
    cached,     \* _cached_token of the API's only Xero client
    secrets,    \* the references that have a secret
    connection, \* workflow.connections, by target
    deleting,   \* credentials that a disconnect request is about to delete
    raced       \* credentials with which a callback worked meanwhile

onboardingVars == <<provider, session, exchanges, flow, cached, secrets,
                    connection, deleting, raced>>

\* _connection_secret_ref: Xero binds the reference to the state, Plaid to the
\* item, and Google always uses the one of the workspace.
Ref(a) == IF provider = "google" THEN "workspace" ELSE a

\* Google's two services come with every grant.
Covered(a) == IF provider = "google" THEN Targets ELSE Reach[a]

FlowPC == {"idle", "redeemed", "stored", "cached", "register"}

Idle == [pc |-> "idle", auth |-> None, todo |-> {}, registered |-> FALSE]

OnboardingInit ==
    /\ provider \in {"xero", "google", "plaid"}
    /\ session = [a \in Authorizations |-> "none"]
    /\ exchanges = [a \in Authorizations |-> 0]
    /\ flow = [r \in Requests |-> Idle]
    /\ cached = None
    /\ secrets = {}
    /\ connection = [t \in Targets |-> [status |-> "none", ref |-> None]]
    /\ deleting = {}
    /\ raced = {}

Ends(r) == flow' = [flow EXCEPT ![r] = Idle]
Goes(r, l) == flow' = [flow EXCEPT ![r].pc = l]

-----------------------------------------------------------------------------
(* Sessions *)

\* GET authorize: put inserts a fresh state.
Authorize(a) ==
    /\ provider # "plaid" /\ session[a] = "none"
    /\ session' = [session EXCEPT ![a] = "live"]
    /\ UNCHANGED <<provider, exchanges, flow, cached, secrets, connection, deleting, raced>>

SessionExpires(a) ==
    /\ session[a] = "live"
    /\ session' = [session EXCEPT ![a] = "expired"]
    /\ UNCHANGED <<provider, exchanges, flow, cached, secrets, connection, deleting, raced>>

\* Mutant of Consume: the row is read, and not deleted by the same statement.
Peek(r, a) ==
    /\ flow[r].pc = "idle"
    /\ IF provider = "plaid" THEN session[a] = "none" ELSE session[a] = "live"
    /\ flow' = [flow EXCEPT ![r] = [Idle EXCEPT !.pc = "redeemed", !.auth = a]]
    /\ UNCHANGED <<provider, session, exchanges, cached, secrets, connection, deleting, raced>>

\* consume deletes the row and returns it; a request that finds none answers 400.
\* Plaid Link has no session: Plaid itself accepts a public token once.
Consume(r, a) ==
    /\ flow[r].pc = "idle"
    /\ IF provider = "plaid" THEN session[a] = "none" ELSE session[a] = "live"
    /\ session' = [session EXCEPT ![a] = "redeemed"]
    /\ flow' = [flow EXCEPT ![r] = [Idle EXCEPT !.pc = "redeemed", !.auth = a]]
    /\ UNCHANGED <<provider, exchanges, cached, secrets, connection, deleting, raced>>

\* The user refused, there is no code, or validate_oauth_callback objects: the
\* transaction expired since, or its redirect address is another provider's.
Reject(r) ==
    /\ flow[r].pc = "redeemed"
    /\ Ends(r)
    /\ UNCHANGED <<provider, session, exchanges, cached, secrets, connection, deleting, raced>>

-----------------------------------------------------------------------------
(* The exchange *)

\* The provider exchanges the code and the answer or the store fails.
GrantFails(r) ==
    /\ flow[r].pc = "redeemed"
    /\ exchanges' = [exchanges EXCEPT ![flow[r].auth] = @ + 1]
    /\ Ends(r)
    /\ UNCHANGED <<provider, session, cached, secrets, connection, deleting, raced>>

\* The new credential is stored; for Google and Plaid the targets are known.
ExchangeAndStore(r) ==
    LET a == flow[r].auth
    IN  /\ flow[r].pc = "redeemed"
        /\ exchanges' = [exchanges EXCEPT ![a] = @ + 1]
        /\ secrets' = secrets \cup {Ref(a)}
        /\ raced' = raced \cup ({Ref(a)} \cap deleting)
        /\ IF provider = "xero" THEN Goes(r, "stored")
           ELSE flow' = [flow EXCEPT ![r].pc = "register", ![r].todo = Covered(a)]
        /\ UNCHANGED <<provider, session, cached, connection, deleting>>

CacheToken(r) ==
    /\ flow[r].pc = "stored"
    /\ cached' = flow[r].auth
    /\ Goes(r, "cached")
    /\ UNCHANGED <<provider, session, exchanges, secrets, connection, deleting, raced>>

\* _discard_xero_refresh_token, which may fail.
Discard(r) ==
    /\ secrets' \in {secrets, secrets \ {Ref(flow[r].auth)}}
    /\ Ends(r)

\* Scopes differ, or the tenants cannot be listed.
XeroUnusable(r) ==
    /\ flow[r].pc = "cached"
    /\ Discard(r)
    /\ UNCHANGED <<provider, session, exchanges, cached, connection, deleting, raced>>

\* list_tenants asks with access_token(): the token that is cached now.
ListTenants(r) ==
    /\ flow[r].pc = "cached"
    /\ flow' = [flow EXCEPT ![r].pc = "register", ![r].todo = Covered(cached)]
    /\ UNCHANGED <<provider, session, exchanges, cached, secrets, connection, deleting, raced>>

-----------------------------------------------------------------------------
(* The connection rows *)

\* upsert_connection of one target.
Register(r, t) ==
    LET ref == Ref(flow[r].auth)
    IN  /\ flow[r].pc = "register" /\ t \in flow[r].todo
        /\ connection' = [connection EXCEPT ![t] = [status |-> "healthy", ref |-> ref]]
        /\ raced' = raced \cup ({ref} \cap deleting)
        /\ flow' = [flow EXCEPT ![r].todo = @ \ {t}, ![r].registered = TRUE]
        /\ UNCHANGED <<provider, session, exchanges, cached, secrets, deleting>>

\* The Xero callback skips a tenant whose registration raises PolicyError.  After
\* any other error, and in the other two requests, what is registered stays.
RegisterFails(r, t) ==
    /\ flow[r].pc = "register" /\ t \in flow[r].todo
    /\ \/ provider = "xero" /\ flow' = [flow EXCEPT ![r].todo = @ \ {t}]
       \/ Ends(r)
    /\ UNCHANGED <<provider, session, exchanges, cached, secrets, connection, deleting, raced>>

\* A Xero callback that registered no tenant deletes its credential again.
Answer(r) ==
    /\ flow[r].pc = "register" /\ flow[r].todo = {}
    /\ IF provider = "xero" /\ ~flow[r].registered
       THEN Discard(r) ELSE Ends(r) /\ UNCHANGED secrets
    /\ UNCHANGED <<provider, session, exchanges, cached, connection, deleting, raced>>

Healthy(t) == connection[t].status = "healthy"

\* Mutant of StillUsed: other connections with the credential are not counted.
NeverStillUsed(conn, ref) == FALSE

StillUsed(conn, ref) == \E t \in Targets : conn[t] = [status |-> "healthy", ref |-> ref]

InUse(r, ref) == flow[r].pc # "idle" /\ Ref(flow[r].auth) = ref

\* disconnect_connection; the request then deletes the credential it returns.
Disconnect(t) ==
    LET ref == connection[t].ref
    IN  /\ connection[t].status # "none"
        /\ connection' = [connection EXCEPT ![t].status = "disconnected"]
        /\ deleting' = IF StillUsed(connection', ref) THEN deleting ELSE deleting \cup {ref}
        /\ raced' = IF ref \in deleting' /\ \E r \in Requests : InUse(r, ref)
                    THEN raced \cup {ref} ELSE raced
        /\ UNCHANGED <<provider, session, exchanges, flow, cached, secrets>>

\* The deletion succeeds, or is left to the operators.
DeleteCredential(ref) ==
    /\ ref \in deleting
    /\ deleting' = deleting \ {ref}
    /\ secrets' \in {secrets, secrets \ {ref}}
    /\ UNCHANGED <<provider, session, exchanges, flow, cached, connection, raced>>

\* The API process dies: its requests end where they are.
ApiRestarts ==
    /\ flow' = [r \in Requests |-> Idle]
    /\ cached' = None
    /\ deleting' = {}
    /\ UNCHANGED <<provider, session, exchanges, secrets, connection, raced>>

-----------------------------------------------------------------------------
Callback(r) ==
    \/ \E a \in Authorizations : Consume(r, a)
    \/ Reject(r) \/ GrantFails(r) \/ ExchangeAndStore(r)
    \/ CacheToken(r) \/ XeroUnusable(r) \/ ListTenants(r)
    \/ \E t \in Targets : Register(r, t) \/ RegisterFails(r, t)
    \/ Answer(r)

OnboardingNext ==
    \/ \E a \in Authorizations : Authorize(a) \/ SessionExpires(a)
    \/ \E r \in Requests : Callback(r)
    \/ \E t \in Targets : Disconnect(t)
    \/ \E ref \in deleting : DeleteCredential(ref)
    \/ ApiRestarts

OnboardingSpec == OnboardingInit /\ [][OnboardingNext]_onboardingVars

-----------------------------------------------------------------------------
Refs == Authorizations \cup {"workspace"}

OnboardingTypeOK ==
    /\ provider \in {"xero", "google", "plaid"}
    /\ session \in [Authorizations -> {"none", "live", "expired", "redeemed"}]
    /\ exchanges \in [Authorizations -> Nat]
    /\ flow \in [Requests -> [pc : FlowPC, auth : Authorizations \cup {None},
                              todo : SUBSET Targets, registered : BOOLEAN]]
    /\ cached \in Authorizations \cup {None}
    /\ secrets \subseteq Refs
    /\ connection \in [Targets -> [status : {"none", "healthy", "disconnected"},
                                   ref : Refs \cup {None}]]
    /\ deleting \subseteq Refs /\ raced \subseteq Refs

\* One consent buys one grant: of all callbacks that arrive for a state, early,
\* late, twice or at once, at most one reaches the provider's token endpoint.
RedeemedOnce == \A a \in Authorizations : exchanges[a] <= 1

\* A connection that workers may use has its credential in Vault: neither the
\* cleanup of a failed callback nor a disconnect of another connection deletes
\* it.  What the code does not exclude is a callback that works with the same
\* credential between a disconnect's transaction and its deletion, or across it.
HealthyHasCredential ==
    \A t \in Targets : Healthy(t) => connection[t].ref \in secrets \cup raced

\* The credential of a healthy connection comes from an authorization that
\* covers its target.  Kept as long as Xero callbacks do not overlap.
CredentialReachesTarget ==
    \A t \in Targets : Healthy(t) =>
        \E a \in Authorizations : Ref(a) = connection[t].ref /\ t \in Covered(a)
=============================================================================
