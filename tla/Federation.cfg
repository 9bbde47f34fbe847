\* Two browsers, two logins, an OpenID Connect and a PKCE provider, a provider that
\* is not registered, and two callbacks at a time; three signing keys of a provider,
\* one of a type the code does not know; two key ids and key pairs of the service; and
\* two clients at a limiter that refills a request in three ticks, too slow for a bucket to
\* be full again when it is swept.
SPECIFICATION MCSpec
CONSTANTS
    Browser = {b1, b2}
    Provider = {google, zalo, other}
    PKCE = {zalo}
    Registered = {google, zalo}
    Account = {a1, a2}
    Login = {l1, l2}
    Request = {r1, r2}
    MaxCode = 2
    NULL = NULL
    Kid = {k1, k2, k3}
    Usable = {k1, k2}
    minRefresh = 2
    minJWKSTTL = 3
    defaultJWKSTTL = 4
    maxJWKSTTL = 5
    MaxAge = {0, 1, 4, 6}
    LongAgo = 6
    KeyId = {i1, i2}
    KeyPair = {p1, p2}
    NoKey = NoKey
    MaxListed = 1
    ClientKey = {c1, c2}
    Caller = {q1, q2}
    Cost = 3
    Rate = 1
    Burst = 2
    idleTTL = 4
    sweepEvery = 0
    MaxWait = 1
    MaxTime = 6
    MaxCalls = 5
    NoCall = NoCall
SYMMETRY Interchangeable
INVARIANTS
    TypesOK
    CallbackBinds
    CacheBounds
    SignaturesVerify
    WindowBound
PROPERTIES
    OneShot
    NoStarvation
\* The limiter's clock and calls are bounded, and a login may come to its end.
CHECK_DEADLOCK FALSE
