------------------------ MODULE RateLimitProperties -------------------------
(***************************************************************************)
(* What the rate limiter promises, for all the orders in which the         *)
(* requests of a user may read the clock and reach the bucket.             *)
(***************************************************************************)
EXTENDS RateLimit

Admissions == [at : Nat, back : Nat]

\* The values of the variables; a bucket is never over its burst nor in debt,
\* and whoever is past limiterFor has one.
RateTypeOK ==
    /\ pc \in [Requests -> {"idle", "extract", "lookup", "clock", "allow",
                            "handler", "refused"}]
    /\ user \in [Requests -> Users \cup {NoUser}]
    /\ limiters \in [Users -> Buckets \cup {NoLimiter}]
    /\ \A u \in Users : limiters[u] # NoLimiter => limiters[u].level \in 0..Full
    /\ now \in Nat
    /\ seen \in [Requests -> Nat]
    /\ admitted \in [Users -> Seq(Admissions)]
    /\ \A r \in Requests :
          /\ pc[r] \in {"lookup", "clock", "allow"} => user[r] \in Users
          /\ pc[r] \in {"clock", "allow"} => limiters[user[r]] # NoLimiter

\* In no window of admissions does a user get more than the burst plus what
\* the window's length refills, counting twice the time that requests who
\* read the clock early and reached the bucket late make it go through twice
\* (Allow calls clock.Now outside the bucket's lock).
WindowBudget ==
    \A u \in Users : \A i, j \in DOMAIN admitted[u] :
        i <= j =>
            LET first == admitted[u][i]
                final == admitted[u][j]
            IN  Worth(j - i + 1)
                    <= Full + (final.at - first.at) + (final.back - first.back)

\* Nobody is refused without having had it: a user who is turned away has been
\* admitted, since some earlier instant, so often that one more would exceed
\* the burst plus the refill from then up to the latest instant the bucket
\* has seen.  A limiter without any burst refuses everybody.
RefusalDeserved ==
    [][\A r \in Requests :
          (pc[r] = "allow" /\ pc'[r] = "refused") =>
              LET past == admitted[user[r]]
                  Upto(t) == IF seen[r] < t THEN t ELSE seen[r]
              IN  \/ Burst = 0
                  \/ \E i \in DOMAIN past :
                        Worth(Len(past) - i + 2)
                            > Full + Upto(past[Len(past)].at) - past[i].at]_rateVars
=============================================================================
