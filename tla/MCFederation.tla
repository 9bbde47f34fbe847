----------------------------- MODULE MCFederation -----------------------------
(* What stands around the service for TLC: federated logins, the cache of a      *)
(* provider's keys, the service's own keys and the rate limiter.  None reads the *)
(* state of another (the cache answers a login with a key or without, and        *)
(* Federation allows both), so they are explored one after the other: part says  *)
(* which.                                                                        *)
EXTENDS Federation, KeyCache, SigningKeys, RateLimit, TLC

VARIABLE part

mcVars == <<fedVars, keyVars, signVars, rateVars, part>>

MCInit ==
    /\ FedInit /\ KeyInit /\ SigningInit /\ RateInit
    /\ part \in {"login", "keys", "signing", "limiter"}
    /\ part # "keys" => published = {}
    /\ part # "signing" => vaultKey = CHOOSE k \in KeyPair : TRUE

MCNext ==
    \/ part = "login" /\ FedNext /\ UNCHANGED <<keyVars, signVars, rateVars, part>>
    \/ part = "keys" /\ KeyNext /\ UNCHANGED <<fedVars, signVars, rateVars, part>>
    \/ part = "signing" /\ SigningNext /\ UNCHANGED <<fedVars, keyVars, rateVars, part>>
    \/ part = "limiter" /\ RateNext /\ UNCHANGED <<fedVars, keyVars, signVars, part>>

MCSpec == MCInit /\ [][MCNext]_mcVars

\* Every part keeps the types of its state: what each step of a callback needs is
\* there, ages stay within their clamps and tokens within their bucket.
TypesOK == FedTypeOK /\ KeyTypeOK /\ SigningTypeOK /\ RateTypeOK

\* Browsers, accounts, logins and requests are interchangeable, and so are keys of
\* a type the code knows.
Interchangeable ==
    Permutations(Browser) \cup Permutations(Account)
    \cup Permutations(Login) \cup Permutations(Request)
    \cup Permutations(Usable)
=============================================================================
