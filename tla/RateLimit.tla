------------------------------ MODULE RateLimit ------------------------------
(***************************************************************************)
(* The token-bucket limiter in front of the API and of recording starts.   *)
(*                                                                         *)
(* A request reads the clock before it takes the lock, so the buckets see  *)
(* times out of order.  Tokens are counted in units: a request costs Cost  *)
(* units and Rate units arrive per tick, so that Rate / Cost stands for    *)
(* the fractional rate of the code; its floating point is taken as exact.  *)
(***************************************************************************)
EXTENDS Integers, FiniteSets, FiniteSetsExt

CONSTANTS
    ClientKey,   \* client addresses, or hosts that start recordings
    Caller,      \* requests at the limiter at once
    Cost, Rate, Burst,
    idleTTL, sweepEvery,
    MaxWait,     \* bound: ticks between reading the clock and having the lock
    MaxTime,     \* bound on the clock
    MaxCalls,    \* bound on the requests ever made
    NoCall

ASSUME RateAssumption ==
    /\ {Cost, Rate, Burst, idleTTL} \subseteq Nat \ {0}
    /\ {sweepEvery, MaxWait, MaxTime, MaxCalls} \subseteq Nat
\* Buckets are kept for longer (10 minutes) than requests wait for the mutex.
ASSUME WaitsAreShort == 2 * MaxWait < idleTTL

VARIABLES
    buckets,     \* a function on the keys that have a bucket
    clock,
    arrived,     \* the key and the time a waiting request has read
    calls,       \* requests made so far
    admits,      \* history: requests let through, by key: the time read, and a number
    newest       \* history: the latest time read for a key

rateVars == <<buckets, clock, arrived, calls, admits, newest>>

Time == 0..MaxTime
\* The most a late arrival can be charged back.
Debt == Rate * MaxTime
Bucket == [tokens : (-Debt)..(Burst * Cost), last : Time]

RateTypeOK ==
    /\ DOMAIN buckets \subseteq ClientKey
    /\ \A k \in DOMAIN buckets : buckets[k] \in Bucket
    /\ clock \in Time
    /\ arrived \in [Caller -> [key : ClientKey, now : Time] \cup {NoCall}]
    /\ calls \in 0..MaxCalls
    /\ admits \in [ClientKey -> SUBSET (Time \X Nat)]
    /\ newest \in [ClientKey -> Time \cup {-1}]

\* NewRateLimiter; config.Load lets no rate or burst through that is not positive.
RateInit ==
    /\ buckets = [k \in {} |-> NoCall]
    /\ clock = 0
    /\ arrived = [r \in Caller |-> NoCall]
    /\ calls = 0
    /\ admits = [k \in ClientKey |-> {}]
    /\ newest = [k \in ClientKey |-> -1]

-----------------------------------------------------------------------------
Advance ==
    /\ clock < MaxTime
    /\ \A r \in Caller : arrived[r] # NoCall => clock < arrived[r].now + MaxWait
    /\ clock' = clock + 1
    /\ UNCHANGED <<buckets, arrived, calls, admits, newest>>

\* Limit: the request's key, and the time as Allow reads it.
Limit(r, k) ==
    /\ arrived[r] = NoCall
    /\ calls < MaxCalls
    /\ calls' = calls + 1
    /\ arrived' = [arrived EXCEPT ![r] = [key |-> k, now |-> clock]]
    /\ UNCHANGED <<buckets, clock, admits, newest>>

\* Mutant: the sweep drops every bucket.
SweepEverything(now) == [k \in {} |-> NoCall]

sweepLocked(now) ==
    [k \in {k \in DOMAIN buckets : now - buckets[k].last <= idleTTL} |-> buckets[k]]

\* The buckets a call finds.
Kept(now) ==
    IF Cardinality(DOMAIN buckets) > sweepEvery THEN sweepLocked(now) ELSE buckets

\* Mutant: the bucket is charged for an arrival, never refilled by it.
RefillLost(b, now) == Min({b.tokens, b.tokens + (now - b.last) * Rate})

\* Tokens after the time between the two arrivals, which may be negative.
Refill(b, now) == Min({Burst * Cost, b.tokens + (now - b.last) * Rate})

\* The tokens the key's bucket has for this request: new keys start full.
TokensFor(k, now) ==
    IF k \in DOMAIN Kept(now) THEN Refill(Kept(now)[k], now) ELSE Burst * Cost

\* The requests of a key that were let through with this time; their number tells the
\* next one apart from them.
AdmittedAt(k, now) == {x \in admits[k] : x[1] = now}

\* Allow, from the lock to the answer.
Allow(r) ==
    /\ arrived[r] # NoCall
    /\ LET k == arrived[r].key
           now == arrived[r].now
           tokens == TokensFor(k, now)
           fresh == k \notin DOMAIN Kept(now)
           admitted == fresh \/ tokens >= Cost
       IN  /\ buckets' = [j \in DOMAIN Kept(now) \cup {k} |->
                 IF j = k
                 THEN [tokens |-> IF admitted THEN tokens - Cost ELSE tokens, last |-> now]
                 ELSE Kept(now)[j]]
           /\ admits' =
                 IF admitted
                 THEN [admits EXCEPT ![k] = @ \cup {<<now, Cardinality(AdmittedAt(k, now))>>}]
                 ELSE admits
           /\ newest' = [newest EXCEPT ![k] = Max({@, now})]
    /\ arrived' = [arrived EXCEPT ![r] = NoCall]
    /\ UNCHANGED <<clock, calls>>

RateNext ==
    \/ Advance
    \/ \E r \in Caller : Allow(r) \/ \E k \in ClientKey : Limit(r, k)

RateSpec == RateInit /\ [][RateNext]_rateVars

-----------------------------------------------------------------------------
(* Properties                                                              *)

\* A key whose bucket is swept has been silent for this long, at least.
Silence == idleTTL - 2 * MaxWait

\* The fastest a key can come by tokens, in units per Silence: they are refilled, or,
\* where a bucket takes longer than that to fill, it is swept and made again full.
Supply == Max({Rate * Silence, Burst * Cost})

\* In no window of time does a key get more than a burst and what it can come by
\* meanwhile, however requests wait for the lock, and over buckets that are swept
\* and made again (Allow, sweepLocked).  Where a bucket fills within Silence that is
\* the burst and the rate; a slower limiter is no tighter than a burst per Silence.
WindowBound ==
    \A k \in ClientKey : \A x, y \in admits[k] :
        x[1] <= y[1] =>
            Silence * Cost * Cardinality({z \in admits[k] : z[1] \in x[1]..y[1]})
                <= Silence * Burst * Cost + Supply * (y[1] - x[1])

\* Late arrivals charge a bucket back in time, yet they cost a key no more than their
\* tokens: a request that comes a token's refill after every earlier one of its key
\* is let through (Allow).
NoStarvation ==
    [][\A r \in Caller :
          /\ arrived[r] # NoCall
          /\ arrived'[r] = NoCall
          /\ Rate * (arrived[r].now - newest[arrived[r].key]) >= Cost
          => admits' # admits]_rateVars

=============================================================================
