------------------------- MODULE ScraperProperties --------------------------
(***************************************************************************)
(* What a load test may claim, and what it may ask of the service.         *)
(***************************************************************************)
EXTENDS Scraper

Counters == {"rpcs", "rpcsOK", "rpcsFailed", "apps", "appsOK", "appsFailed"}
Burst == IF cfg.burst <= 0 THEN 1 ELSE cfg.burst
InCall == pc \in {"rpc", "answered", "refused"}

\* The values of the variables; while a call is being prepared or made there
\* is something left to submit, in a configuration Run accepts.
ScraperTypeOK ==
    /\ pc \in {"start", "loop", "wait", "timer", "send", "rpc", "answered",
               "refused", "failed", "done"}
    /\ cfg \in Configs
    /\ remaining \in Nat
    /\ stats \in [Counters -> Nat]
    /\ bucket \in Buckets
    /\ slot \in Nat /\ now \in Nat
    /\ ctx \in {"live", "canceled", "deadline"} /\ asked \in BOOLEAN
    /\ result \in {"none", "nil", "canceled", "deadline", "invalid", "killed"}
    /\ sentAt \in Seq(Nat)
    /\ got \in Nat
    /\ server \in Server!Buckets
    /\ late \in Nat /\ overtaken \in BOOLEAN /\ accepted \in Nat /\ refused \in Nat
    /\ pc \notin {"start", "done"} => ~Invalid(cfg)
    /\ pc \notin {"start", "loop", "done"} => remaining > 0
    /\ pc = "answered" => got <= BatchSize

\* What is counted and what remains make the total, every call made is counted
\* once it is over, as a success or as a failure, and all batches but the last
\* are full (Run's batchSize).
Counted ==
    LET calls == Len(sentAt) - (IF InCall THEN 1 ELSE 0)
    IN  /\ stats.rpcs = stats.rpcsOK + stats.rpcsFailed
        /\ stats.apps = stats.appsOK + stats.appsFailed
        /\ stats.rpcs = calls \/ result = "killed"
        /\ pc # "start" /\ result \notin {"invalid", "killed"} =>
              /\ stats.apps + remaining = cfg.total
              /\ remaining > 0 => stats.apps = stats.rpcs * cfg.batchSize

\* Without a deadline, a run that returns no error has attempted all of it.
NilMeansAll == result = "nil" /\ cfg.deadline = Never => remaining = 0

\* The summary adds up at every moment, and a run without error is complete.
Accounting == Counted /\ NilMeansAll

\* The summary never claims a submission the service has not accepted,
\* whichever calls broke, came late or were rejected.
HonestStats ==
    stats.appsOK + (IF pc = "answered" THEN got ELSE 0) <= accepted

\* Run's limiter spaces the calls: from the start of one on, there are never
\* more calls than the burst and the time since then allow.
RateHonoured ==
    \A i, j \in DOMAIN sentAt :
        i < j => Worth(j - i)
                    <= Worth(Burst) + sentAt[j] - sentAt[i]

\* The service's limits have room for those of the scraper.
Affordable ==
    /\ ServerInterval <= Interval
    /\ Worth(Burst) + ServerInterval <= Server!Worth(ServerBurst)

\* The limiter of the runner spares it the limiter of the service: a scraper
\* that affords its rate is never refused for it, however long its calls are
\* under way, unless a call it had given up on arrives after all.
NeverRefused == Affordable /\ ~overtaken => refused = 0

\* Once the context is done, by a signal or by the deadline, the run ends,
\* whether or not the service answers.
StopsWhenAsked == ctx # "live" ~> pc = "done"
=============================================================================
