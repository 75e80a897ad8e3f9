---------------------------- MODULE TokenBucket ----------------------------
(***************************************************************************)
(* The arithmetic of rateLimiter.allow (drops.go): a bucket of RatePerMin  *)
(* tokens that refills at RatePerMin / 60 tokens a second.                 *)
(*                                                                         *)
(* The code counts tokens in a float64.  Here a token is 60 units, so that *)
(* RatePerMin units come back every second and the arithmetic is exact;    *)
(* the bucket records its debt, the units missing from a full bucket, so   *)
(* that a limiter which does not exist yet is simply one without debt.     *)
(***************************************************************************)
EXTENDS Integers

Unit == 60

\* burst, rate: a full bucket holds RatePerMin tokens.
Capacity(rate) == Unit * rate

FreshBucket == [debt |-> 0, last |-> 0]

\* Mutant: nothing stops the bucket at its burst.
RefillUncapped(b, rate, now) ==
  [debt |-> b.debt - rate * (now - b.last), last |-> now]

\* Mutant: lastCheck is not moved, so the same seconds refill it again.
RefillTwice(b, rate, now) ==
  LET owed == b.debt - rate * (now - b.last)
  IN  [debt |-> IF owed > 0 THEN owed ELSE 0, last |-> b.last]

\* min(burst, tokens + elapsed * rate), read from the other end.
Refill(b, rate, now) ==
  LET owed == b.debt - rate * (now - b.last)
  IN  [debt |-> IF owed > 0 THEN owed ELSE 0, last |-> now]

\* tokens >= 1.0
HasToken(b, rate) == Capacity(rate) - b.debt >= Unit

Take(b) == [b EXCEPT !.debt = @ + Unit]

\* Mutant: the division truncates (no math.Ceil).
RetryAfterTruncated(b, rate) ==
  LET secs == (b.debt + Unit - Capacity(rate)) \div rate
  IN  IF secs < 1 THEN 1 ELSE secs

\* Mutant: waits for a full bucket instead of one token.
RetryWhenFull(b, rate) == (b.debt + rate - 1) \div rate

\* The Retry-After answer: whole seconds until one token is back, at least 1.
RetryAfter(b, rate) ==
  LET missing == b.debt + Unit - Capacity(rate)
      secs    == (missing + rate - 1) \div rate
  IN  IF secs < 1 THEN 1 ELSE secs
=============================================================================
