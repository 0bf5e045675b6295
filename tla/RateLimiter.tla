---------------------------- MODULE RateLimiter ----------------------------
(***************************************************************************)
(* The middleware in front of the routing surface                          *)
(* (internal/api/middleware.go): it checks the bearer token, then takes a  *)
(* token from the client's bucket.  Buckets are filled lazily when they    *)
(* are touched, created full, and swept away once idle.  allow holds l.mu  *)
(* throughout and reads the clock under it, so a request is one step.      *)
(*                                                                         *)
(* A token is Unit units, and Rate units flow in each second.              *)
(***************************************************************************)
EXTENDS Integers, Sequences

CONSTANTS
    IPs,            \* the client addresses
    ConfigBurst,    \* cfg.Burst, before the clamp
    Rate,
    Unit,
    SweepInterval,
    IdleTTL,
    MaxTime         \* the bound of the clock

\* The limiter exists only for cfg.RPS > 0.
ASSUME LimiterAssumption ==
    /\ ConfigBurst \in Int
    /\ Rate \in Nat \ {0}
    /\ Unit \in Nat \ {0}
    /\ SweepInterval \in Nat
    /\ IdleTTL \in Nat \ {0}
    /\ MaxTime \in Nat

VARIABLES
    authEnabled,    \* a token is configured
    now,        \* the clock, in seconds
    buckets,    \* key -> its bucket, for the keys that have one
    lastSweep,
    status,     \* the answer to the last request
    retry,      \* its Retry-After, in seconds
    admitted,   \* key -> the times at which a request went through
    promise     \* key -> when a refused client was told to come back

limiterVars == <<authEnabled, now, buckets, lastSweep, status, retry, admitted, promise>>

-----------------------------------------------------------------------------

\* A burst below one token would refuse everything.
burst == IF ConfigBurst < 1 THEN 1 ELSE ConfigBurst
Capacity == burst * Unit

\* All holders of the one static token share a bucket.
SharedKey == "token"
Keys == IPs \cup {SharedKey}
KeyOf(ip) == IF authEnabled THEN SharedKey ELSE ip

Bucket == [tokens : Nat, lastRefill : Nat, lastAccess : Nat]

\* Mutant: the inflow is credited again at the next touch.
refilledAgain(b) ==
    LET filled == b.tokens + (now - b.lastRefill) * Rate
    IN  [b EXCEPT !.tokens = IF filled > Capacity THEN Capacity ELSE filled]

\* Filled from the time since the last touch, up to the capacity.
refilled(b) ==
    LET filled == b.tokens + (now - b.lastRefill) * Rate
    IN  IF now > b.lastRefill
        THEN [b EXCEPT !.tokens = IF filled > Capacity THEN Capacity ELSE filled,
                       !.lastRefill = now]
        ELSE b

SweepDue == now - lastSweep >= SweepInterval

\* Mutant: swept a second early.
IdleEarly(k) == now - buckets[k].lastAccess >= IdleTTL - 1

IdleKey(k) == now - buckets[k].lastAccess >= IdleTTL

\* The buckets that survive the sweep of this request.
kept == {k \in DOMAIN buckets : ~(SweepDue /\ IdleKey(k))}

\* Mutant: a new bucket starts empty.
touchedEmpty(k) ==
    LET b == IF k \in kept THEN refilled(buckets[k])
             ELSE [tokens |-> 0, lastRefill |-> now, lastAccess |-> now]
    IN  [b EXCEPT !.lastAccess = now]

touched(k) ==
    LET b == IF k \in kept THEN refilled(buckets[k])
             ELSE [tokens |-> Capacity, lastRefill |-> now, lastAccess |-> now]
    IN  [b EXCEPT !.lastAccess = now]

\* Mutant: rounded down.
RetryAfterRoundedDown(tokens) ==
    LET secs == (Unit - tokens) \div Rate IN IF secs < 1 THEN 1 ELSE secs

\* The seconds until a token has flowed in, rounded up, at least one.
RetryAfter(tokens) ==
    LET secs == (Unit - tokens + Rate - 1) \div Rate
    IN  IF secs < 1 THEN 1 ELSE secs

NoPromise == -1

LimiterInit ==
    /\ authEnabled \in BOOLEAN
    /\ now = 0
    /\ buckets = [k \in {} |-> 0]
    /\ lastSweep = -SweepInterval
    /\ status = "none"
    /\ retry = 0
    /\ admitted = [k \in Keys |-> <<>>]
    /\ promise = [k \in Keys |-> NoPromise]

Elapse ==
    /\ \E t \in (now + 1)..MaxTime : now' = t
    /\ UNCHANGED <<authEnabled, buckets, lastSweep, status, retry, admitted, promise>>

\* A missing or wrong token never reaches the limiter.
Unauthorized ==
    /\ authEnabled
    /\ status' = "unauthorized" /\ retry' = 0
    /\ UNCHANGED <<authEnabled, now, buckets, lastSweep, admitted, promise>>

Touch(k, b) ==
    /\ buckets' = [x \in kept \cup {k} |-> IF x = k THEN b ELSE buckets[x]]
    /\ lastSweep' = IF SweepDue THEN now ELSE lastSweep
    /\ UNCHANGED <<authEnabled, now>>

Allow(k) ==
    LET b == touched(k) IN
    /\ b.tokens >= Unit
    /\ Touch(k, [b EXCEPT !.tokens = @ - Unit])
    /\ status' = "ok" /\ retry' = 0
    /\ admitted' = [admitted EXCEPT ![k] = Append(@, now)]
    /\ promise' = [promise EXCEPT ![k] = NoPromise]

Refuse(k) ==
    LET b == touched(k) IN
    /\ b.tokens < Unit
    /\ Touch(k, b)
    /\ status' = "limited" /\ retry' = RetryAfter(b.tokens)
    /\ promise' = [promise EXCEPT ![k] = now + retry']
    /\ UNCHANGED admitted

Request(ip) == Allow(KeyOf(ip)) \/ Refuse(KeyOf(ip))

LimiterNext == Elapse \/ Unauthorized \/ \E ip \in IPs : Request(ip)

LimiterSpec == LimiterInit /\ [][LimiterNext]_limiterVars

-----------------------------------------------------------------------------
(* Properties.                                                             *)

LimiterTypeOK ==
    /\ authEnabled \in BOOLEAN
    /\ now \in Nat /\ lastSweep \in Int
    /\ DOMAIN buckets \subseteq Keys
    /\ \A k \in DOMAIN buckets :
          /\ buckets[k] \in Bucket
          /\ buckets[k].tokens <= Capacity
          /\ buckets[k].lastRefill <= now
          /\ buckets[k].lastAccess = buckets[k].lastRefill
    /\ status \in {"none", "ok", "limited", "unauthorized"}
    /\ retry \in Nat
    /\ admitted \in [Keys -> Seq(Nat)]
    /\ promise \in [Keys -> Int]

\* What a client that stays away for IdleTTL can gain by it: its bucket is swept and
\* the next one is full, though the old one was still filling.  Nothing if a full
\* refill takes no longer than IdleTTL, as with the default rate and burst.
Shortfall == IF Capacity > IdleTTL * Rate THEN Capacity - IdleTTL * Rate ELSE 0

\* The most that becomes available in d seconds: the inflow, and a shortfall for each
\* time that a bucket can have been swept in them.
Allowance(d) == d * Rate + (d \div IdleTTL) * Shortfall

\* In no stretch of time does a client get more through than the burst and what
\* became available meanwhile: the requests admitted from the i-th to the j-th fit
\* into a full bucket and the allowance between them.  Lazy filling, the cap and the
\* sweep of idle buckets together must not create tokens beyond that.
WindowBound ==
    \A k \in Keys : \A i, j \in DOMAIN admitted[k] :
        i <= j => (j - i + 1) * Unit
                    <= Capacity + Allowance(admitted[k][j] - admitted[k][i])

\* The account behind it, for the requests from the i-th on: what they took and
\* what is left in the bucket came out of a full bucket and the allowance since the
\* i-th; a client without a bucket has been idle long enough to be even.
FlowBound ==
    \A k \in Keys : \A i \in DOMAIN admitted[k] :
        LET took == (Len(admitted[k]) - i + 1) * Unit IN
        /\ k \in DOMAIN buckets =>
              /\ admitted[k][i] <= buckets[k].lastRefill
              /\ took + buckets[k].tokens
                    <= Capacity + Allowance(buckets[k].lastRefill - admitted[k][i])
        /\ k \notin DOMAIN buckets =>
              /\ admitted[k][i] <= now
              /\ took <= Allowance(now - admitted[k][i])

\* A client that was refused, waited as Retry-After told it and was the only one
\* to use its bucket is not refused again.
RetryAfterSuffices ==
    [][\A k \in Keys :
          promise'[k] # promise[k] /\ status' = "limited"
            /\ promise[k] # NoPromise => now < promise[k]]_limiterVars

\* "Eviction is state-preserving (an idle bucket has refilled to full)": a bucket that
\* the sweep of a request would throw away would be full if it were touched instead.
SweptBucketIsFull ==
    \A k \in DOMAIN buckets \ kept : refilled(buckets[k]).tokens = Capacity

\* What a client can tell of its bucket, there or not, and when it last asked for it.
Level == [k \in Keys |-> IF k \in DOMAIN buckets THEN refilled(buckets[k]).tokens
                         ELSE Capacity]

NotAsked == -1
Asked == [k \in Keys |-> IF k \in DOMAIN buckets THEN buckets[k].lastAccess ELSE NotAsked]

Ideal == INSTANCE TokenBucket WITH Clients <- Keys, level <- Level, last <- Asked, Never <- NotAsked

\* Lazily filled buckets, swept by whoever asks next, behave as buckets that fill all
\* the time and are forgotten only when their client has been away for IdleTTL.
ImplementsIdeal == Ideal!Spec
=============================================================================
