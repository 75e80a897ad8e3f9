---------------------------- MODULE RateLimiter ----------------------------
(***************************************************************************)
(* One drop link's rate limiter over time: any number of uploads ask it at *)
(* any second.  checkRate is called under the link's upload lock, so its   *)
(* calls never overlap and one action per answer is enough.                *)
(***************************************************************************)
EXTENDS TokenBucket, Sequences, FiniteSets

CONSTANTS
  RatePerMin,  \* the link's cap, RatePerMin > 0
  MaxTime,     \* bound: the seconds TLC explores
  Pauses       \* bound: the pauses between two events, in seconds

ASSUME RateAssumption == RatePerMin \in Nat \ {0}
ASSUME LimiterBounds == MaxTime \in Nat /\ Pauses \subseteq Nat \ {0}

VARIABLES
  bucket,   \* the limiter
  now,      \* the clock, in seconds
  grants,   \* history: the times at which an upload was let through
  promise   \* history: the second the last refusal told the sender to wait
            \* for, 0 when an upload went through since

limiterVars == <<bucket, now, grants, promise>>

LimiterInit ==
  /\ bucket = FreshBucket
  /\ now = 0
  /\ grants = <<>>
  /\ promise = 0

Tick(d) ==
  /\ now + d <= MaxTime
  /\ now' = now + d
  /\ UNCHANGED <<bucket, grants, promise>>

Allow ==
  LET b == Refill(bucket, RatePerMin, now) IN
  /\ HasToken(b, RatePerMin)
  /\ bucket' = Take(b)
  /\ grants' = Append(grants, now)
  /\ promise' = 0
  /\ UNCHANGED now

Refuse ==
  LET b == Refill(bucket, RatePerMin, now) IN
  /\ ~HasToken(b, RatePerMin)
  /\ bucket' = b
  /\ promise' = now + RetryAfter(b, RatePerMin)
  /\ UNCHANGED <<now, grants>>

LimiterNext == (\E d \in Pauses : Tick(d)) \/ Allow \/ Refuse

LimiterSpec == LimiterInit /\ [][LimiterNext]_limiterVars

-----------------------------------------------------------------------------
LimiterTypeOK ==
  /\ bucket.debt \in 0..Capacity(RatePerMin)
  /\ bucket.last \in 0..now
  /\ now \in 0..MaxTime
  /\ grants \in Seq(0..MaxTime)
  /\ promise \in Nat

Between(from, to) == {i \in DOMAIN grants : from <= grants[i] /\ grants[i] <= to}

\* Over every stretch of time the limiter lets through at most one full bucket
\* plus what came back during the stretch, however the uploads are spaced.
GrantsBounded ==
  \A i, j \in DOMAIN grants :
    i <= j => Unit * (j - i + 1)
                <= Capacity(RatePerMin) + RatePerMin * (grants[j] - grants[i])

\* The Retry-After a refused sender is given is exact: an upload that comes back
\* then is let through, if none was in between, and one second earlier a refusal
\* would still be right (so nobody is sent away for longer than the cap needs).
RetryIsExact ==
  promise > 0 =>
    /\ now >= promise => HasToken(Refill(bucket, RatePerMin, now), RatePerMin)
    /\ promise > now + 1 => ~HasToken(Refill(bucket, RatePerMin, promise - 1), RatePerMin)

-----------------------------------------------------------------------------
\* What the source says and the code does not keep; no run checks it.

\* drops.go:46 "RatePerMin caps uploads per minute": no sixty seconds see more
\* than RatePerMin uploads.
CapPerMinute ==
  \A i \in DOMAIN grants :
    Cardinality(Between(grants[i], grants[i] + 59)) <= RatePerMin
=============================================================================
