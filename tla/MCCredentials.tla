----------------------------- MODULE MCCredentials -----------------------------
(***************************************************************************)
(* An instance of the token refresh and one of onboarding.  The two share  *)
(* the Vault, and nothing else: what onboarding does to a token that is    *)
(* being refreshed is DeleteSecret.  So one behaviour belongs to one of    *)
(* them, and the other one rests in an initial state.                      *)
(***************************************************************************)
EXTENDS TokenProperties, Onboarding, TLC

CONSTANTS t1, t2, p1, p2, a1, a2, x, y

VARIABLE part

\* One process with fewer connections than two refreshes need, with just enough
\* for one, and with enough for one beside a waiting thread; and two processes.
MCDeployments ==
    [size : 1..3, home : {[t \in {t1, t2} |-> p1]}]
    \cup {[size |-> 2, home |-> (t1 :> p1) @@ (t2 :> p2)]}

\* The second consent covers the target of the first one and another.
MCReach == (a1 :> {x}) @@ (a2 :> {x, y})

MCInit ==
    /\ part \in {"refresh", "onboarding"}
    /\ TokenInit /\ OnboardingInit
    /\ part = "refresh" => provider = "xero"
    /\ part = "onboarding" => size = MaxSize

MCNext ==
    /\ \/ part = "refresh" /\ TokenNext /\ UNCHANGED onboardingVars
       \/ part = "onboarding" /\ OnboardingNext /\ UNCHANGED tokenVars
    /\ UNCHANGED part

MCSpec == MCInit /\ [][MCNext]_<<part, tokenVars, onboardingVars>> /\ TokenFairness

CredentialsTypeOK == TokenTypeOK /\ OnboardingTypeOK
=============================================================================
