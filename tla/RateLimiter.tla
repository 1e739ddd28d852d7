---------------------------- MODULE RateLimiter ----------------------------
(***************************************************************************)
(* The token buckets of src/api/rate_limiter.cpp, one per user, and their  *)
(* use by handle_place_order (src/api/routes.cpp), which answers a refused *)
(* request with a Retry-After header.                                      *)
(*                                                                         *)
(* Each call holds mutex_ and is one step.  Tokens are counted in Unit     *)
(* parts to the token and time in ticks, so that a tick gains a whole      *)
(* number of parts: the doubles of the code are taken as exact.            *)
(***************************************************************************)
EXTENDS Integers, Sequences

CONSTANTS
  User,         \* the user_ids
  Unit,         \* the parts of one token
  Gain,         \* the parts gained per tick: rate_
  Burst,        \* the capacity of a bucket, in tokens: burst_
  Millisecond,  \* the ticks of one millisecond
  Second,       \* the milliseconds of one second
  NoBucket,     \* the user has no entry in buckets_
  NoPromise,    \* no Retry-After answer is outstanding
  MaxClock      \* bound: the last tick

ASSUME PositiveAssumption ==
  {Unit, Gain, Burst, Millisecond, Second} \subseteq Nat \ {0}

Capacity == Burst * Unit

Bucket == [tokens : Nat, last_refill : Nat]

ASSUME NoBucketAssumption == NoBucket \notin Bucket
ASSUME NoPromiseAssumption == NoPromise \notin Nat

VARIABLES
  buckets,  \* the bucket of each user
  clock,    \* std::chrono::steady_clock
  refused,  \* the users whose last allow() returned false, until they are told
  promise,  \* history: when each user was told to come back
  grants    \* history: when each user's requests were allowed, in order

limiterVars == <<buckets, clock, refused, promise, grants>>

LimiterInit ==
  /\ buckets = [u \in User |-> NoBucket]
  /\ clock = 0
  /\ refused = {}
  /\ promise = [u \in User |-> NoPromise]
  /\ grants = [u \in User |-> <<>>]

-----------------------------------------------------------------------------
AtMost(n, bound) == IF n <= bound THEN n ELSE bound

(* refill(bucket, now)                                                     *)
RefilledKeepingTime(b) ==
  [tokens      |-> AtMost(b.tokens + Gain * (clock - b.last_refill), Capacity),
   last_refill |-> b.last_refill]

Refilled(b) ==
  [tokens      |-> AtMost(b.tokens + Gain * (clock - b.last_refill), Capacity),
   last_refill |-> clock]

Tick ==
  /\ clock < MaxClock
  /\ clock' = clock + 1
  /\ UNCHANGED <<buckets, refused, promise, grants>>

(* allow() returned true: whatever the user was told before is spent.      *)
Allowed(u, b) ==
  /\ buckets' = [buckets EXCEPT ![u] = b]
  /\ grants' = [grants EXCEPT ![u] = Append(@, clock)]
  /\ promise' = [promise EXCEPT ![u] = NoPromise]
  /\ refused' = refused \ {u}
  /\ UNCHANGED clock

(* The first request of a user.                                            *)
AllowFirst(u) ==
  /\ buckets[u] = NoBucket
  /\ Allowed(u, [tokens |-> Capacity - Unit, last_refill |-> clock])

Allow(u) ==
  /\ buckets[u] # NoBucket
  /\ LET b == Refilled(buckets[u])
     IN  /\ b.tokens >= Unit
         /\ Allowed(u, [b EXCEPT !.tokens = @ - Unit])

Refuse(u) ==
  /\ buckets[u] # NoBucket
  /\ LET b == Refilled(buckets[u])
     IN  /\ b.tokens < Unit
         /\ buckets' = [buckets EXCEPT ![u] = b]
  /\ refused' = refused \cup {u}
  /\ UNCHANGED <<clock, promise, grants>>

(* retry_after_ms, from the tokens as of the last refill.                  *)
RetryAfter(u) ==
  IF buckets[u].tokens < Unit
  THEN (Unit - buckets[u].tokens) \div (Gain * Millisecond) + 1
  ELSE 1

(* The header: whole seconds, rounded up.                                  *)
HeaderTruncated(ms) == ms \div Second

Header(ms) == (ms + Second - 1) \div Second

(* The second half of handle_place_order's refusal; mutex_ was released in *)
(* between.                                                                *)
Tell(u) ==
  /\ u \in refused
  /\ refused' = refused \ {u}
  /\ promise' = [promise EXCEPT ![u] = clock + Header(RetryAfter(u)) * Second * Millisecond]
  /\ UNCHANGED <<buckets, clock, grants>>

LimiterNext ==
  \/ Tick
  \/ \E u \in User : AllowFirst(u) \/ Allow(u) \/ Refuse(u) \/ Tell(u)

LimiterSpec == LimiterInit /\ [][LimiterNext]_limiterVars

-----------------------------------------------------------------------------
(* Properties *)

(* The types: a bucket never holds less than nothing or more than its      *)
(* capacity, and was last refilled in the past.                            *)
LimiterTypeOK ==
  /\ clock \in Nat
  /\ buckets \in [User -> Bucket \cup {NoBucket}]
  /\ \A u \in User : buckets[u] # NoBucket =>
       buckets[u].tokens <= Capacity /\ buckets[u].last_refill <= clock
  /\ refused \in SUBSET {u \in User : buckets[u] # NoBucket}
  /\ promise \in [User -> Nat \cup {NoPromise}]
  /\ grants \in [User -> Seq(Nat)]

(* Whatever the pattern of its requests, refused ones included, a user is  *)
(* allowed no more than the burst plus what the rate yields in any stretch *)
(* of time: the requests i to j, all allowed, took long enough.            *)
RateIsBounded ==
  \A u \in User : \A j \in 1 .. Len(grants[u]) : \A i \in 1 .. j :
    (j - i + 1) * Unit <= Capacity + Gain * (grants[u][j] - grants[u][i])

(* A user that comes back when Retry-After said, and whose other requests  *)
(* were not allowed in the meantime, is allowed, although the answer was   *)
(* computed after the lock was released and counts whole seconds.          *)
RetryAfterIsEnough ==
  \A u \in User :
    promise[u] # NoPromise /\ promise[u] <= clock =>
      buckets[u] # NoBucket /\ Refilled(buckets[u]).tokens >= Unit
=============================================================================
