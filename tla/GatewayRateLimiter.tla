------------------------- MODULE GatewayRateLimiter -------------------------
(***************************************************************************)
(* The per-backend token bucket of one gateway process (rateLimiter.allow). *)
(* A request reads the clock and only then takes the limiter's lock, so     *)
(* requests may enter the critical section in another order than that of    *)
(* their clock readings.                                                    *)
(*                                                                         *)
(* The clock counts seconds and tokens are counted in sixtieths, so that    *)
(* one second at r requests per minute is worth r units and one request     *)
(* costs 60.  The code's float64 arithmetic is exact on these values but    *)
(* for rounding in the last place, which is not modelled.                   *)
(***************************************************************************)
EXTENDS Integers, Sequences, FiniteSetsExt

CONSTANTS
  Clients,     \* concurrent requests
  Policies,    \* rate limit policies the backend may be given
  MaxClock,    \* seconds
  MaxPolicies  \* policy changes

Token == 60

ASSUME LimiterAssumption ==
  /\ Policies \subseteq [rpm : Nat \ {0}, burst : Nat] /\ Policies # {}
  /\ MaxClock \in Nat /\ MaxPolicies \in Nat

VARIABLES
  clock,
  policy,    \* the rate limit of the published backend
  bucket,    \* the token bucket, NoBucket before the first request
  client,    \* per request: the policy and time it holds, or Idle
  admitted,  \* clock readings of the admitted requests, in lock order
  promise,   \* the time after which the last refusal said to retry, or -1
  verdict,   \* what the last request got: "none", "admitted" or "refused"
  reading,   \* ... and the clock it had read
  policies

limiterVars == <<clock, policy, bucket, client, admitted, promise, verdict, reading, policies>>

-----------------------------------------------------------------------------
Idle == [busy |-> FALSE, at |-> 0, rpm |-> 0, burst |-> 0]
NoBucket == [rpm |-> 0, capacity |-> 0, tokens |-> 0, last |-> 0]

(* Burst defaults to the requests per minute.                               *)
Burst(p) == IF p.burst > 0 THEN p.burst ELSE p.rpm

Capacity(p) == Token * Burst(p)

(* The bucket the request finds: a new and full one if the policy is not    *)
(* the one it was made for.                                                 *)
Found(c) ==
  IF bucket.rpm = c.rpm /\ bucket.capacity = Capacity(c)
    THEN bucket
    ELSE [rpm |-> c.rpm, capacity |-> Capacity(c), tokens |-> Capacity(c), last |-> c.at]

(* Faulty variant: tokens pile up while nobody asks.                        *)
RefilledUncapped(b, at) == [b EXCEPT !.tokens = @ + (at - b.last) * b.rpm, !.last = at]

(* Refill for the time since the last request; a reading older than that    *)
(* takes tokens back, and gives the time back to the next request.          *)
Refilled(b, at) ==
  [b EXCEPT !.tokens = Min({b.capacity, b.tokens + (at - b.last) * b.rpm}), !.last = at]

CeilDiv(a, b) == (a + b - 1) \div b

(* Faulty variant: Retry-After rounded down.                                *)
RetryAfterFloor(b) == Max({1, (Token - b.tokens) \div b.rpm})

RetryAfter(b) == Max({1, CeilDiv(Token - b.tokens, b.rpm)})

LimiterInit ==
  /\ clock = 0
  /\ policy \in Policies
  /\ bucket = NoBucket
  /\ client = [c \in Clients |-> Idle]
  /\ admitted = <<>> /\ promise = -1 /\ verdict = "none" /\ reading = 0
  /\ policies = 0

(* Select has copied the backend and its policy; allow reads the clock.     *)
ReadClock(c) ==
  /\ ~client[c].busy
  /\ client' = [client EXCEPT ![c] =
       [busy |-> TRUE, at |-> clock, rpm |-> policy.rpm, burst |-> policy.burst]]
  /\ UNCHANGED <<clock, policy, bucket, admitted, promise, verdict, reading, policies>>

(* The critical section of allow.  A bucket made anew starts a new history. *)
Allow(c) ==
  LET me == client[c]
      b == Refilled(Found(me), me.at)
      kept == Found(me) = bucket
  IN  /\ me.busy
      /\ client' = [client EXCEPT ![c] = Idle]
      /\ reading' = me.at
      /\ IF b.tokens >= Token
           THEN /\ bucket' = [b EXCEPT !.tokens = @ - Token]
                /\ admitted' = Append(IF kept THEN admitted ELSE <<>>, me.at)
                /\ promise' = -1
                /\ verdict' = "admitted"
           ELSE /\ bucket' = b
                /\ admitted' = IF kept THEN admitted ELSE <<>>
                /\ promise' = me.at + RetryAfter(b)
                /\ verdict' = "refused"
      /\ UNCHANGED <<clock, policy, policies>>

ClockTicks ==
  /\ clock < MaxClock
  /\ clock' = clock + 1
  /\ UNCHANGED <<policy, bucket, client, admitted, promise, verdict, reading, policies>>

(* Discovery publishes another policy for the backend.                      *)
PolicyChanges ==
  /\ policies < MaxPolicies
  /\ \E p \in Policies \ {policy} : policy' = p
  /\ policies' = policies + 1
  /\ UNCHANGED <<clock, bucket, client, admitted, promise, verdict, reading>>

LimiterNext == ClockTicks \/ PolicyChanges \/ \E c \in Clients : ReadClock(c) \/ Allow(c)

LimiterSpec == LimiterInit /\ [][LimiterNext]_limiterVars

-----------------------------------------------------------------------------
(* The limit: by the clock they read, the requests admitted by one bucket   *)
(* from the i-th to the j-th are at most the burst plus what the rate earns *)
(* between the two readings, whatever order the lock was taken in.          *)
WithinRate ==
  \A i, j \in DOMAIN admitted :
    i <= j => (j - i + 1) * Token <= bucket.capacity + (admitted[j] - admitted[i]) * bucket.rpm

(* Retry-After is the truth: after a refusal, the next request that reads   *)
(* the clock no earlier than the promised time is admitted.                 *)
RetryKept ==
  [][verdict' = "refused" /\ promise >= 0 /\ reading' # reading
       => reading' < promise]_<<bucket, verdict, reading, promise>>

=============================================================================
