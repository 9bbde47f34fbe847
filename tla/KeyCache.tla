------------------------------- MODULE KeyCache -------------------------------
(***************************************************************************)
(* RemoteKeySet: the cache of one identity provider's signing keys.        *)
(*                                                                         *)
(* A lookup holds the mutex throughout, the fetch included, so it is one   *)
(* step.  Time is counted from the last successful fetch.                  *)
(***************************************************************************)
EXTENDS Naturals

CONSTANTS
    Kid,          \* keys a provider may publish
    Usable,       \* those of a type the code can parse
    minRefresh, minJWKSTTL, defaultJWKSTTL, maxJWKSTTL,
    MaxAge,       \* what Cache-Control may say; 0: nothing usable
    LongAgo       \* bound: time since the last fetch is not told apart beyond this

ASSUME TTLAssumption ==
    /\ {minRefresh, minJWKSTTL, defaultJWKSTTL, maxJWKSTTL, LongAgo} \subseteq Nat
    /\ minRefresh <= minJWKSTTL /\ minJWKSTTL <= defaultJWKSTTL
    /\ defaultJWKSTTL <= maxJWKSTTL /\ maxJWKSTTL <= LongAgo
ASSUME MaxAgeAssumption == MaxAge \subseteq Nat
ASSUME KidAssumption == Usable \subseteq Kid

VARIABLES
    published,   \* keys on the provider's endpoint
    keys,        \* keys of the cached document, none before the first fetch
    sinceFetch,  \* now - lastFetch
    ttl,         \* expiry - lastFetch
    last         \* history: the last lookup, if any, and what came of it

keyVars == <<published, keys, sinceFetch, ttl, last>>

\* Where the answer of a lookup comes from.
Origin == {"cache", "provider", "down"}

Lookup == [kid : Kid, found : BOOLEAN, from : Origin, since : Nat, current : BOOLEAN]

KeyTypeOK ==
    /\ published \subseteq Kid
    /\ keys \subseteq Kid
    /\ sinceFetch \in 0..LongAgo
    /\ ttl \in 0..maxJWKSTTL
    /\ last \subseteq Lookup

KeyInit ==
    /\ published \in SUBSET Kid
    /\ keys = {}
    /\ sinceFetch = LongAgo
    /\ ttl = 0
    /\ last = {}

-----------------------------------------------------------------------------
\* max-age, clamped to [minJWKSTTL, maxJWKSTTL]; without one the default.
cacheTTL(age) ==
    CASE age = 0 -> defaultJWKSTTL
      [] age \in 1..minJWKSTTL -> minJWKSTTL
      [] age > maxJWKSTTL -> maxJWKSTTL
      [] OTHER -> age

parseJWK(k) == k \in Usable

\* One key of a type the code does not know spoils the whole document.
ParseJWKS(doc) == \A k \in doc : parseJWK(k)

\* r.keys != nil && now.Before(r.expiry)
Fresh == sinceFetch < ttl

Answer(k, found, origin) ==
    last' = {[kid |-> k, found |-> found, from |-> origin,
              since |-> sinceFetch, current |-> k \in published]}

FromCache(k) ==
    /\ Fresh
    /\ k \in keys
    /\ Answer(k, TRUE, "cache")
    /\ UNCHANGED <<published, keys, sinceFetch, ttl>>

\* Mutant: a fresh cache is never fetched again.
MustFetchExpired(k) == ~Fresh

MustFetch(k) == ~Fresh \/ (k \notin keys /\ sinceFetch >= minRefresh)

\* A fresh cache without the key, fetched a short while ago: no fetch.
HeldBack(k) ==
    /\ ~MustFetch(k)
    /\ k \notin keys
    /\ Answer(k, FALSE, "cache")
    /\ UNCHANGED <<published, keys, sinceFetch, ttl>>

Refetch(k, age) ==
    /\ MustFetch(k)
    /\ ParseJWKS(published)
    /\ keys' = published
    /\ sinceFetch' = 0
    /\ ttl' = cacheTTL(age)
    /\ Answer(k, k \in published, "provider")
    /\ UNCHANGED published

\* The endpoint cannot be reached or its document not be parsed: the last good
\* keys serve, and lastFetch stays as it was.
RefetchFails(k) ==
    /\ MustFetch(k)
    /\ Answer(k, k \in keys, "down")
    /\ UNCHANGED <<published, keys, sinceFetch, ttl>>

-----------------------------------------------------------------------------
Tick ==
    /\ sinceFetch < LongAgo
    /\ sinceFetch' = sinceFetch + 1
    /\ UNCHANGED <<published, keys, ttl, last>>

\* The provider rotates its keys.
Rotate ==
    /\ published' \in SUBSET Kid
    /\ UNCHANGED <<keys, sinceFetch, ttl, last>>

VerificationKey(k) ==
    \/ FromCache(k) \/ HeldBack(k) \/ RefetchFails(k)
    \/ \E age \in MaxAge : Refetch(k, age)

KeyNext == Tick \/ Rotate \/ \E k \in Kid : VerificationKey(k)

KeySpec == KeyInit /\ [][KeyNext]_keyVars

-----------------------------------------------------------------------------
(* Properties                                                              *)

\* Whatever Cache-Control says and whatever keys are asked for, successful fetches
\* are minRefresh apart (refresh: the lower clamp of cacheTTL is needed for it).
FetchesApart == \A a \in last : a.from = "provider" => a.since >= minRefresh

\* A key the provider has withdrawn is accepted only from a cache younger than
\* maxJWKSTTL, or while the provider's document cannot be had (cacheTTL, refresh).
RetiredKeyFades ==
    \A a \in last : a.found /\ ~a.current =>
        a.from = "down" \/ (a.from = "cache" /\ a.since < maxJWKSTTL)

\* A key the provider publishes is refused only within minRefresh of a fetch that
\* did not have it, or while the document cannot be had (VerificationKey).
RotationHeals ==
    \A a \in last : ~a.found /\ a.current =>
        a.from = "down" \/ (a.from = "cache" /\ a.since < minRefresh)

\* What the cache gets wrong is bounded by its clamps: fetches keep their distance, a
\* withdrawn key fades and a new one is found (VerificationKey, refresh, cacheTTL).
CacheBounds == FetchesApart /\ RetiredKeyFades /\ RotationHeals
=============================================================================
