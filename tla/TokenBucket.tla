---------------------------- MODULE TokenBucket -----------------------------
(***************************************************************************)
(* A rate.Limiter of golang.org/x/time/rate, as reserveN uses it.          *)
(*                                                                         *)
(* Time passes in ticks, and Interval ticks make one token.  The level of  *)
(* a bucket is counted in ticks too, so that a part of a token is a whole  *)
(* number; it is negative while somebody waits for a reserved token.       *)
(***************************************************************************)
EXTENDS Integers

CONSTANT Interval   \* ticks per token, the inverse of rps

ASSUME IntervalAssumption == Interval \in Nat \ {0}

\* What n tokens are worth.
Worth(n) == n * Interval

Buckets == [level : Int, last : Nat]

\* NewLimiter: burst tokens, last touched at the beginning of time.
NewBucket(burst) == [level |-> Worth(burst), last |-> 0]

\* A mistake: what accrues is not capped.
AccruedUncapped(b, t, burst) == b.level + (IF t < b.last THEN 0 ELSE t - b.last)

\* advance: an instant before the last one adds nothing.
Accrued(b, t, burst) ==
    LET level == b.level + (IF t < b.last THEN 0 ELSE t - b.last)
    IN  IF level > Worth(burst) THEN Worth(burst) ELSE level

\* A mistake: the bucket remembers when it was made, not when it was used.
TakeStale(b, t, burst) == [level |-> Accrued(b, t, burst) - Interval, last |-> b.last]

\* A token is taken at the instant t, which becomes the last one even if it
\* is the earlier of the two.
Take(b, t, burst) == [level |-> Accrued(b, t, burst) - Interval, last |-> t]
=============================================================================
