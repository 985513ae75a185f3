------------------------------ MODULE RateLimiter ------------------------------
(* The token bucket of src/src/qasp/protocol/rate_limiter.py for one          *)
(* capability token, in its registry. The bucket is counted in parts, Period  *)
(* of which are one use, so that a tick of the clock refills Rate parts.      *)
EXTENDS Integers, Sequences, FiniteSets

CONSTANTS Rates,        \* the limits the token is used with: a decay schedule lowers them
          Period,       \* rate_period_seconds
          MaxBucketAge, \* max_age_seconds of cleanup_expired
          MaxUses, MaxTicks

\* A bucket outlives the period it is for, as the defaults have it: two hours
\* against one.
ASSUME RateAssumption ==
    /\ Rates \subseteq Nat /\ \E r \in Rates : \A s \in Rates : s <= r
    /\ Period \in Nat \ {0} /\ MaxBucketAge \in Nat /\ Period <= MaxBucketAge

NoBucket == [kind |-> "none"]

VARIABLES bucket,       \* the registry's entry for the token
          uses,         \* when the token was used, oldest first
          clock         \* time.monotonic()

lvars == <<bucket, uses, clock>>

LInit == bucket = NoBucket /\ uses = << >> /\ clock = 0

\* get_or_create returns the limiter it has, whatever limit is asked for now;
\* a new one starts full. A limit of 0 makes the constructor raise.
Full(rate) == [kind |-> "bucket", rate |-> rate, parts |-> rate * Period, refilled |-> clock, made |-> clock]
GetOrCreate(rate) == IF bucket = NoBucket THEN Full(rate) ELSE bucket

Capacity(b) == b.rate * Period
RefillUncapped(b) == [b EXCEPT !.parts = b.parts + b.rate * (clock - b.refilled), !.refilled = clock]
Refill(b) ==
    LET filled == b.parts + b.rate * (clock - b.refilled)
    IN  [b EXCEPT !.parts = IF filled > Capacity(b) THEN Capacity(b) ELSE filled, !.refilled = clock]

\* get_or_create, then consume (consume_or_raise): refused uses refill only.
Use(rate) ==
    /\ rate > 0
    /\ LET b == Refill(GetOrCreate(rate))
       IN  IF b.parts >= Period
           THEN /\ Len(uses) < MaxUses
                /\ bucket' = [b EXCEPT !.parts = @ - Period]
                /\ uses' = Append(uses, clock)
           ELSE /\ bucket' = b
                /\ UNCHANGED uses
    /\ UNCHANGED clock

\* cleanup_expired drops a bucket by its age, used or not.
Old(b) == clock - b.made > MaxBucketAge
CleanupExpired ==
    /\ bucket # NoBucket
    /\ Old(bucket)
    /\ bucket' = NoBucket
    /\ UNCHANGED <<uses, clock>>

LTick == clock < MaxTicks /\ clock' = clock + 1 /\ UNCHANGED <<bucket, uses>>

LNext == (\E r \in Rates : Use(r)) \/ CleanupExpired \/ LTick

LSpec == LInit /\ [][LNext]_lvars

TopRate == CHOOSE r \in Rates : \A s \in Rates : s <= r

\* In no window of one period are there more uses than a full bucket, what
\* refills meanwhile and, because a bucket is dropped by its age and the next
\* starts full, one more full bucket: three times the limit, once per cleanup.
InWindow(from) == {i \in DOMAIN uses : from <= uses[i] /\ uses[i] < from + Period}
WindowBounded == \A from \in 0 .. clock : Cardinality(InWindow(from)) <= 3 * TopRate
===============================================================================
