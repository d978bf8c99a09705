--------------------------- MODULE ScraperProofs ----------------------------
(***************************************************************************)
(* What a load test claims and what it asks of the service, for any flags, *)
(* rates and bursts, and however long calls and waits take.                *)
(***************************************************************************)
EXTENDS ScraperProperties, TLAPS

USE IntervalAssumption, ScraperAssumption

-----------------------------------------------------------------------------
(* Type correctness.                                                       *)

LEMMA ConfigTypes ==
    ASSUME NEW c \in Configs
    PROVE  /\ c.total \in Int /\ c.batchSize \in Int /\ c.burst \in Int
           /\ c.deadline \in Nat \cup {Never}
           /\ BurstOf(c) \in Nat \ {0}
BY DEF BurstOf

LEMMA WorthInt ==
    ASSUME NEW n \in Int
    PROVE  Worth(n) \in Int /\ Server!Worth(n) \in Int
BY DEF Worth, Server!Worth

\* The runner's bucket stays one.
LEMMA TakeOf ==
    ASSUME NEW b \in Buckets, NEW t \in Nat, NEW n \in Int
    PROVE  /\ Accrued(b, t, n) \in Int
           /\ Take(b, t, n) \in Buckets
           /\ Take(b, t, n).level = Accrued(b, t, n) - Interval
           /\ Take(b, t, n).last = t
<1>1. b.level \in Int /\ b.last \in Nat
  BY DEF Buckets
<1>2. Accrued(b, t, n) \in Int
  BY <1>1, WorthInt DEF Accrued
<1>3. QED
  BY <1>2 DEF Take, Buckets

\* So does the service's.
LEMMA ServerTakeOf ==
    ASSUME NEW b \in Server!Buckets, NEW t \in Nat, NEW n \in Int
    PROVE  /\ Server!Accrued(b, t, n) \in Int
           /\ Server!Take(b, t, n) \in Server!Buckets
           /\ Server!Take(b, t, n).level = Server!Accrued(b, t, n) - ServerInterval
           /\ Server!Take(b, t, n).last = t
<1>1. b.level \in Int /\ b.last \in Nat
  BY DEF Server!Buckets
<1>2. Server!Accrued(b, t, n) \in Int
  BY <1>1, WorthInt DEF Server!Accrued
<1>3. QED
  BY <1>2 DEF Server!Take, Server!Buckets

LEMMA ScraperTypeInit == ScraperInit => ScraperTypeOK
<1> SUFFICES ASSUME ScraperInit PROVE ScraperTypeOK
  OBVIOUS
<1>1. BurstOf(cfg) \in Int
  BY ConfigTypes DEF ScraperInit
<1>2. bucket \in Buckets /\ server \in Server!Buckets
  BY <1>1, WorthInt DEF ScraperInit, NewBucket, Buckets, Server!NewBucket, Server!Buckets
<1>3. stats \in [Counters -> Nat]
  BY DEF ScraperInit, NewStats, Counters
<1>4. /\ pc = "start" /\ cfg \in Configs /\ remaining = 0 /\ slot = 0
      /\ ctx = "live" /\ now = 0 /\ result = "none" /\ got = 0
      /\ late = 0 /\ accepted = 0 /\ refused = 0
  BY DEF ScraperInit
<1>5. sentAt \in Seq(Nat)
  BY DEF ScraperInit
<1>6. asked \in BOOLEAN /\ overtaken \in BOOLEAN
  BY Zenon DEF ScraperInit
<1>7. QED
  BY <1>2, <1>3, <1>4, <1>5, <1>6 DEF ScraperTypeOK

LEMMA BatchOf ==
    ASSUME ScraperTypeOK, pc \notin {"start", "loop", "done"}
    PROVE  /\ BatchSize \in Nat \ {0} /\ BatchSize <= remaining
           /\ remaining - BatchSize \in Nat
           /\ cfg.batchSize \in Nat
           /\ remaining - BatchSize > 0 => BatchSize = cfg.batchSize
BY ConfigTypes DEF ScraperTypeOK, BatchSize, Invalid

LEMMA StatsOf ==
    ASSUME NEW s \in [Counters -> Nat], NEW n \in Nat, NEW m \in Nat
    PROVE  /\ RecordRPCError(s, n) \in [Counters -> Nat]
           /\ RecordRPCSuccess(s, n, m) \in [Counters -> Nat]
<1>1. \A x \in Counters : s[x] \in Nat
  OBVIOUS
<1>2. RecordRPCError(s, n) \in [Counters -> Nat]
  BY <1>1 DEF RecordRPCError, Counters
<1>3. RecordRPCSuccess(s, n, m) \in [Counters -> Nat]
  BY <1>1 DEF RecordRPCSuccess, Counters
<1>4. QED
  BY <1>2, <1>3

LEMMA ScraperTypeStep == ScraperTypeOK /\ [ScraperNext]_scraperVars => ScraperTypeOK'
<1> SUFFICES ASSUME ScraperTypeOK, [ScraperNext]_scraperVars PROVE ScraperTypeOK'
  OBVIOUS
<1> USE DEF Goto, runVars, ctxVars, serverVars
<1>1. CASE Check
  BY <1>1, ConfigTypes DEF Check, ScraperTypeOK, Invalid
<1>2. CASE Loop
  BY <1>2 DEF Loop, ScraperTypeOK
<1>3. CASE Wait
  <2> DEFINE b == Take(bucket, now, BurstOf(cfg))
             delay == IF b.level < 0 THEN -b.level ELSE 0
  <2>1. b \in Buckets /\ delay \in Nat
    <3>1. b \in Buckets
      BY ConfigTypes, TakeOf DEF ScraperTypeOK
    <3> HIDE DEF b
    <3>2. QED
      BY <3>1 DEF Buckets
  <2>2. now + delay \in Nat
    <3> HIDE DEF delay
    <3>1. QED
      BY <2>1 DEF ScraperTypeOK
  <2>3. \/ pc' = "failed" /\ UNCHANGED <<bucket, slot>>
        \/ pc' \in {"send", "timer"} /\ bucket' = b /\ slot' = now + delay
    BY <1>3 DEF Wait
  <2>4. /\ pc = "wait"
        /\ UNCHANGED <<cfg, remaining, stats, result, sentAt, got, ctxVars, serverVars>>
    BY <1>3 DEF Wait
  <2> HIDE DEF b, delay
  <2>5. QED
    BY <2>1, <2>2, <2>3, <2>4 DEF ScraperTypeOK, BatchSize
<1>4. CASE Elapse
  BY <1>4 DEF Elapse, ScraperTypeOK
<1>5. CASE Return
  BY <1>5 DEF Return, ScraperTypeOK
<1>6. CASE Send
  BY <1>6 DEF Send, ScraperTypeOK, BatchSize
<1>7. CASE Succeed
  <2>1. pc = "answered" /\ BatchSize \in Nat /\ remaining - BatchSize \in Nat
        /\ got \in Nat /\ BatchSize - got \in Nat
    BY <1>7, BatchOf DEF Succeed, ScraperTypeOK
  <2>2. stats' \in [Counters -> Nat]
    BY <1>7, <2>1, StatsOf DEF Succeed, ScraperTypeOK
  <2>3. QED
    BY <1>7, <2>1, <2>2 DEF Succeed, ScraperTypeOK
<1>8. ASSUME NEW from \in {"refused", "answered", "rpc"}, CallFails(from), late' \in Nat
      PROVE  ScraperTypeOK'
  <2>1. BatchSize \in Nat /\ remaining - BatchSize \in Nat
    BY <1>8, BatchOf DEF CallFails
  <2>2. stats' \in [Counters -> Nat]
    BY <1>8, <2>1, StatsOf DEF CallFails, ScraperTypeOK
  <2>3. QED
    BY <1>8, <2>1, <2>2 DEF CallFails, ScraperTypeOK
<1>9. CASE Rejected
  BY <1>8, <1>9 DEF Rejected, ScraperTypeOK
<1>10. CASE Break
  BY <1>8, <1>10 DEF Break, ScraperTypeOK
<1>11. CASE Arrive
  <2>1. Server!Take(server, now, ServerBurst) \in Server!Buckets
    BY ServerTakeOf DEF ScraperTypeOK
  <2>2. CASE Handled /\ pc' = "answered"
    <3>1. PICK n \in 0..BatchSize : accepted' = accepted + n /\ got' = n
      BY <2>2 DEF Handled
    <3>2. BatchSize \in Nat
      BY <1>11, BatchOf DEF Arrive
    <3>3. n \in Nat /\ n <= BatchSize /\ BatchSize' = BatchSize
      BY <1>11, <3>1, <3>2 DEF Arrive, BatchSize
    <3> HIDE DEF BatchSize
    <3>4. QED
      BY <1>11, <2>1, <2>2, <3>1, <3>3 DEF Arrive, Handled, ScraperTypeOK
  <2>3. CASE pc' = "refused"
    BY <1>11, <2>3 DEF Arrive, ScraperTypeOK
  <2>4. QED
    BY <1>11, <2>2, <2>3 DEF Arrive
<1>12. CASE ArriveLate
  <2>1. Server!Take(server, now, ServerBurst) \in Server!Buckets
    BY ServerTakeOf DEF ScraperTypeOK
  <2>2. server' \in Server!Buckets /\ accepted' \in Nat
    <3>1. \A n \in 0..cfg.batchSize : accepted + n \in Nat
      BY ConfigTypes DEF ScraperTypeOK
    <3>2. QED
      BY <1>12, <2>1, <3>1 DEF ArriveLate, ScraperTypeOK
  <2>3. QED
    BY <1>12, <2>2 DEF ArriveLate, ScraperTypeOK, BatchSize
<1>13. CASE Tick
  BY <1>13 DEF Tick, ScraperTypeOK, BatchSize
<1>14. CASE Interrupt
  BY <1>14 DEF Interrupt, ScraperTypeOK, BatchSize
<1>15. CASE Kill
  BY <1>15 DEF Kill, ScraperTypeOK, BatchSize
<1>16. CASE Expire
  BY <1>16 DEF Expire, ScraperTypeOK, BatchSize
<1>17. CASE UNCHANGED scraperVars
  BY <1>17 DEF scraperVars, ScraperTypeOK, BatchSize
<1>18. QED
  BY <1>1, <1>2, <1>3, <1>4, <1>5, <1>6, <1>7, <1>9, <1>10, <1>11, <1>12, <1>13,
     <1>14, <1>15, <1>16, <1>17 DEF ScraperNext, Run, Abandon

-----------------------------------------------------------------------------
(* The summary.                                                            *)

\* Where Run is and what it has decided.
Progress ==
    /\ pc = "start" => stats = NewStats /\ sentAt = <<>>
    /\ pc # "done" => result = "none"
    /\ pc = "failed" /\ cfg.deadline = Never => ctx # "live"

Claims == Counted /\ HonestStats /\ NilMeansAll /\ Progress

LEMMA Counts ==
    ASSUME ScraperTypeOK
    PROVE  /\ stats.rpcs \in Nat /\ stats.rpcsOK \in Nat /\ stats.rpcsFailed \in Nat
           /\ stats.apps \in Nat /\ stats.appsOK \in Nat /\ stats.appsFailed \in Nat
           /\ Len(sentAt) \in Nat
BY DEF ScraperTypeOK, Counters

LEMMA ErrorCounts ==
    ASSUME NEW s, NEW n
    PROVE  LET e == RecordRPCError(s, n)
           IN  /\ e.rpcs = s.rpcs + 1 /\ e.rpcsOK = s.rpcsOK /\ e.rpcsFailed = s.rpcsFailed + 1
               /\ e.apps = s.apps + n /\ e.appsOK = s.appsOK /\ e.appsFailed = s.appsFailed + n
BY DEF RecordRPCError

LEMMA SuccessCounts ==
    ASSUME NEW s, NEW n, NEW m
    PROVE  LET e == RecordRPCSuccess(s, n, m)
           IN  /\ e.rpcs = s.rpcs + 1 /\ e.rpcsOK = s.rpcsOK + 1 /\ e.rpcsFailed = s.rpcsFailed
               /\ e.apps = s.apps + n + m /\ e.appsOK = s.appsOK + n
               /\ e.appsFailed = s.appsFailed + m
BY DEF RecordRPCSuccess

LEMMA OneBatchMore ==
    ASSUME NEW k \in Nat, NEW size \in Nat
    PROVE  (k + 1) * size = k * size + size
OBVIOUS

LEMMA ClaimsInit == ScraperInit => Claims
<1> SUFFICES ASSUME ScraperInit PROVE Claims
  OBVIOUS
<1>1. /\ stats.rpcs = 0 /\ stats.rpcsOK = 0 /\ stats.rpcsFailed = 0
      /\ stats.apps = 0 /\ stats.appsOK = 0 /\ stats.appsFailed = 0
  BY DEF ScraperInit, NewStats
<1>2. /\ pc = "start" /\ remaining = 0 /\ result = "none" /\ accepted = 0
      /\ sentAt = <<>> /\ stats = NewStats
  BY DEF ScraperInit
<1>3. Len(sentAt) = 0
  BY <1>2
<1>4. Counted
  BY <1>1, <1>2, <1>3 DEF Counted, InCall
<1>5. QED
  BY <1>1, <1>2, <1>4 DEF Claims, HonestStats, NilMeansAll, Progress

\* What a call leaves behind: one more call counted, and its batch.
LEMMA CountedCall ==
    ASSUME ScraperTypeOK, Claims, pc \in {"rpc", "answered", "refused"}, pc' = "loop",
           UNCHANGED <<cfg, result, sentAt>>, remaining' = remaining - BatchSize,
           stats'.rpcs = stats.rpcs + 1, stats'.apps = stats.apps + BatchSize,
           stats'.rpcs = stats'.rpcsOK + stats'.rpcsFailed,
           stats'.apps = stats'.appsOK + stats'.appsFailed
    PROVE  Counted'
<1>1. /\ BatchSize \in Nat /\ cfg.batchSize \in Nat
      /\ remaining - BatchSize > 0 => BatchSize = cfg.batchSize
      /\ remaining \in Nat /\ cfg.total \in Int
  BY BatchOf, ConfigTypes DEF ScraperTypeOK
<1>2. /\ stats.rpcs \in Nat /\ stats.apps \in Nat /\ Len(sentAt) \in Nat
  BY Counts
<1>3. /\ result = "none" /\ stats.rpcs = Len(sentAt) - 1
      /\ stats.apps + remaining = cfg.total
      /\ remaining > 0 => stats.apps = stats.rpcs * cfg.batchSize
  BY DEF Claims, Progress, Counted, InCall
<1>4. (stats.rpcs + 1) * cfg.batchSize = stats.rpcs * cfg.batchSize + cfg.batchSize
  BY <1>1, <1>2, OneBatchMore
<1>5. remaining > 0
  BY DEF ScraperTypeOK
<1> HIDE DEF BatchSize
<1>6. stats'.apps + remaining' = cfg'.total
  BY <1>1, <1>2, <1>3
<1>7. remaining' > 0 => stats'.apps = stats'.rpcs * cfg'.batchSize
  BY <1>1, <1>2, <1>3, <1>4, <1>5
<1>8. stats'.rpcs = Len(sentAt')
  BY <1>2, <1>3
<1>9. QED
  BY <1>2, <1>6, <1>7, <1>8 DEF Counted, InCall

LEMMA ClaimsStep ==
    ScraperTypeOK /\ Claims /\ [ScraperNext]_scraperVars => Claims'
<1> SUFFICES ASSUME ScraperTypeOK, Claims, [ScraperNext]_scraperVars PROVE Claims'
  OBVIOUS
<1> USE DEF Goto, runVars, ctxVars, serverVars
<1>1. CASE Check
  <2>1. /\ stats.rpcs = 0 /\ stats.rpcsOK = 0 /\ stats.rpcsFailed = 0
        /\ stats.apps = 0 /\ stats.appsOK = 0 /\ stats.appsFailed = 0
        /\ Len(sentAt) = 0
    BY <1>1 DEF Check, Claims, Progress, NewStats
  <2>2. QED
    BY <1>1, <2>1, ConfigTypes DEF Check, Claims, Counted, HonestStats, NilMeansAll,
       Progress, InCall, ScraperTypeOK
<1>2. CASE Loop
  BY <1>2 DEF Loop, Claims, Counted, HonestStats, NilMeansAll, Progress, InCall, ScraperTypeOK
<1>3. CASE Wait
  <2>1. /\ pc = "wait" /\ pc' \in {"failed", "send", "timer"}
        /\ UNCHANGED <<cfg, remaining, stats, result, sentAt, got, ctxVars, serverVars>>
        /\ pc' = "failed" => ctx # "live" \/ cfg.deadline # Never
    BY <1>3 DEF Wait, Exceeds
  <2>2. QED
    BY <2>1 DEF Claims, Counted, HonestStats, NilMeansAll, Progress, InCall
<1>4. CASE Elapse
  BY <1>4 DEF Elapse, Claims, Counted, HonestStats, NilMeansAll, Progress, InCall
<1>5. CASE Return
  BY <1>5 DEF Return, Claims, Counted, HonestStats, NilMeansAll, Progress, InCall,
              ScraperTypeOK
<1>6. CASE Send
  <2>1. Len(sentAt') = Len(sentAt) + 1 /\ Len(sentAt) \in Nat
    BY <1>6 DEF Send, ScraperTypeOK
  <2>2. QED
    BY <1>6, <2>1, Counts DEF Send, Claims, Counted, HonestStats, NilMeansAll, Progress, InCall
<1>7. CASE Succeed
  <2>1. /\ pc = "answered" /\ pc' = "loop"
        /\ UNCHANGED <<cfg, result, sentAt, got, ctxVars, serverVars>>
        /\ remaining' = remaining - BatchSize
        /\ stats' = RecordRPCSuccess(stats, got, BatchSize - got)
    BY <1>7 DEF Succeed
  <2>2. /\ stats'.rpcs = stats.rpcs + 1 /\ stats'.rpcsOK = stats.rpcsOK + 1
        /\ stats'.rpcsFailed = stats.rpcsFailed
        /\ stats'.apps = stats.apps + got + (BatchSize - got)
        /\ stats'.appsOK = stats.appsOK + got
        /\ stats'.appsFailed = stats.appsFailed + (BatchSize - got)
    BY <2>1, SuccessCounts
  <2>3. got \in Nat /\ BatchSize \in Nat
    BY <2>1, BatchOf DEF ScraperTypeOK
  <2>0. got <= BatchSize
    BY <2>1 DEF ScraperTypeOK
  <2> HIDE DEF BatchSize
  <2>4. /\ stats.rpcs = stats.rpcsOK + stats.rpcsFailed
        /\ stats.apps = stats.appsOK + stats.appsFailed
        /\ stats.appsOK + got <= accepted
    BY <2>1 DEF Claims, Counted, HonestStats
  <2>5. /\ stats'.apps = stats.apps + BatchSize
        /\ stats'.rpcs = stats'.rpcsOK + stats'.rpcsFailed
        /\ stats'.apps = stats'.appsOK + stats'.appsFailed
    <3>1. /\ stats.rpcs \in Nat /\ stats.rpcsOK \in Nat /\ stats.rpcsFailed \in Nat
          /\ stats.apps \in Nat /\ stats.appsOK \in Nat /\ stats.appsFailed \in Nat
      BY Counts
    <3>2. /\ stats.rpcs + 1 = (stats.rpcsOK + 1) + stats.rpcsFailed
          /\ stats.apps + got + (BatchSize - got) = stats.apps + BatchSize
          /\ stats.apps + BatchSize
                = (stats.appsOK + got) + (stats.appsFailed + (BatchSize - got))
      BY <2>3, <2>4, <2>0, <3>1
    <3>3. QED
      BY <2>2, <3>2
  <2>6. Counted'
    BY <2>1, <2>2, <2>5, CountedCall
  <2>7. HonestStats'
    <3>1. stats'.appsOK <= accepted' /\ stats'.appsOK + 0 = stats'.appsOK
      <4>1. stats.appsOK \in Nat
        BY Counts
      <4>2. QED
        BY <2>1, <2>2, <2>3, <2>4, <4>1
    <3>2. QED
      BY <2>1, <3>1 DEF HonestStats
  <2>8. QED
    BY <2>1, <2>6, <2>7 DEF Claims, NilMeansAll, Progress
<1>8. ASSUME NEW from \in {"refused", "answered", "rpc"}, CallFails(from)
      PROVE  Claims'
  <2>1. /\ pc = from /\ pc' = "loop"
        /\ UNCHANGED <<cfg, result, sentAt, got, ctxVars, accepted>>
        /\ remaining' = remaining - BatchSize
        /\ stats' = RecordRPCError(stats, BatchSize)
    BY <1>8 DEF CallFails
  <2>2. /\ stats'.rpcs = stats.rpcs + 1 /\ stats'.rpcsOK = stats.rpcsOK
        /\ stats'.rpcsFailed = stats.rpcsFailed + 1
        /\ stats'.apps = stats.apps + BatchSize
        /\ stats'.appsOK = stats.appsOK
        /\ stats'.appsFailed = stats.appsFailed + BatchSize
    BY <2>1, ErrorCounts
  <2>3. BatchSize \in Nat /\ got \in Nat /\ accepted \in Nat
    BY <2>1, BatchOf DEF ScraperTypeOK
  <2> HIDE DEF BatchSize
  <2>4. /\ stats.rpcs = stats.rpcsOK + stats.rpcsFailed
        /\ stats.apps = stats.appsOK + stats.appsFailed
        /\ stats.appsOK <= accepted
    BY <2>3, Counts DEF Claims, Counted, HonestStats
  <2>5. /\ stats'.rpcs = stats'.rpcsOK + stats'.rpcsFailed
        /\ stats'.apps = stats'.appsOK + stats'.appsFailed
    <3>1. /\ stats.rpcs \in Nat /\ stats.rpcsOK \in Nat /\ stats.rpcsFailed \in Nat
          /\ stats.apps \in Nat /\ stats.appsOK \in Nat /\ stats.appsFailed \in Nat
      BY Counts
    <3>2. /\ stats.rpcs + 1 = stats.rpcsOK + (stats.rpcsFailed + 1)
          /\ stats.apps + BatchSize = stats.appsOK + (stats.appsFailed + BatchSize)
      BY <2>3, <2>4, <3>1
    <3>3. QED
      BY <2>2, <3>2
  <2>6. Counted'
    BY <2>1, <2>2, <2>5, CountedCall
  <2>7. HonestStats'
    BY <2>1, <2>2, <2>3, <2>4, Counts DEF HonestStats
  <2>8. QED
    BY <2>1, <2>6, <2>7 DEF Claims, NilMeansAll, Progress
<1>9. CASE Rejected
  BY <1>8, <1>9 DEF Rejected
<1>10. CASE Break
  BY <1>8, <1>10 DEF Break
<1>11. CASE Arrive
  <2>1. pc = "rpc" /\ UNCHANGED <<cfg, remaining, stats, result, sentAt, ctxVars>>
    BY <1>11 DEF Arrive
  <2>2. CASE Handled /\ pc' = "answered"
    <3>1. PICK n \in 0..BatchSize : accepted' = accepted + n /\ got' = n
      BY <2>2 DEF Handled
    <3>2. n \in Nat /\ accepted \in Nat
      BY <2>1, BatchOf DEF ScraperTypeOK
    <3>3. stats.appsOK <= accepted
      BY <2>1, Counts DEF Claims, HonestStats
    <3>4. HonestStats'
      BY <2>1, <2>2, <3>1, <3>2, <3>3, Counts DEF HonestStats
    <3>5. QED
      BY <2>1, <2>2, <3>4 DEF Claims, Counted, NilMeansAll, Progress, InCall
  <2>3. CASE pc' = "refused" /\ accepted' = accepted
    BY <2>1, <2>3 DEF Claims, Counted, HonestStats, NilMeansAll, Progress, InCall
  <2>4. QED
    BY <1>11, <2>2, <2>3 DEF Arrive
<1>12. CASE ArriveLate
  <2>1. accepted' >= accepted /\ accepted' \in Nat
    BY <1>12, ConfigTypes DEF ArriveLate, ScraperTypeOK
  <2>2. UNCHANGED <<pc, runVars, ctxVars>>
    BY <1>12 DEF ArriveLate
  <2>3. HonestStats'
    <3>1. accepted \in Nat /\ stats.appsOK \in Nat /\ got \in Nat
      BY Counts DEF ScraperTypeOK
    <3>2. stats.appsOK + (IF pc = "answered" THEN got ELSE 0) <= accepted
      BY DEF Claims, HonestStats
    <3>3. QED
      BY <2>1, <2>2, <3>1, <3>2 DEF HonestStats
  <2>4. QED
    BY <2>2, <2>3 DEF Claims, Counted, NilMeansAll, Progress, InCall
<1>13. CASE Tick
  BY <1>13 DEF Tick, Claims, Counted, HonestStats, NilMeansAll, Progress, InCall
<1>14. CASE Interrupt
  BY <1>14 DEF Interrupt, Claims, Counted, HonestStats, NilMeansAll, Progress, InCall
<1>15. CASE Kill
  <2>1. stats.appsOK <= accepted
    BY Counts DEF Claims, HonestStats, ScraperTypeOK
  <2>2. QED
    BY <1>15, <2>1, Counts
       DEF Kill, Claims, Counted, HonestStats, NilMeansAll, Progress, InCall
<1>16. CASE Expire
  BY <1>16 DEF Expire, Claims, Counted, HonestStats, NilMeansAll, Progress, InCall
<1>17. CASE UNCHANGED scraperVars
  BY <1>17 DEF scraperVars, Claims, Counted, HonestStats, NilMeansAll, Progress, InCall
<1>18. QED
  BY <1>1, <1>2, <1>3, <1>4, <1>5, <1>6, <1>7, <1>9, <1>10, <1>11, <1>12, <1>13,
     <1>14, <1>15, <1>16, <1>17 DEF ScraperNext, Run, Abandon

-----------------------------------------------------------------------------
(* The pace of the calls.                                                  *)

Reserved == pc \in {"timer", "send"}

\* How many tokens have been taken from the runner's bucket.
Taken == Len(sentAt) + (IF Reserved THEN 1 ELSE 0)

\* Every token since a call has been taken from the burst and the refill since
\* that call, and none is used before its time.
Spaced ==
    /\ bucket.last <= now
    /\ \A i \in DOMAIN sentAt : sentAt[i] <= now
    /\ Reserved => slot >= bucket.last /\ slot >= bucket.last - bucket.level
    /\ pc = "send" => now >= slot
    /\ pc \notin {"failed", "done"} =>
          \A i \in DOMAIN sentAt :
              i < Taken => Worth(Taken - i) + bucket.level
                               <= Worth(Burst) + bucket.last - sentAt[i]

Pace == Spaced /\ RateHonoured

LEMMA BurstIs ==
    ASSUME ScraperTypeOK
    PROVE  /\ Burst = BurstOf(cfg) /\ Burst \in Nat \ {0}
           /\ Worth(Burst) \in Nat
<1>1. Burst = BurstOf(cfg) /\ Burst \in Nat \ {0}
  BY ConfigTypes DEF Burst, BurstOf, ScraperTypeOK
<1>2. QED
  BY <1>1 DEF Worth

LEMMA OneMore ==
    ASSUME NEW n \in Int
    PROVE  Worth(n) \in Int /\ Worth(n + 1) = Worth(n) + Interval
BY DEF Worth

LEMMA WorthOfOne == Worth(1) = Interval
BY DEF Worth

\* What has accrued at an instant the bucket has not passed yet.
LEMMA AccruedIs ==
    ASSUME NEW b \in Buckets, NEW t \in Nat, NEW n \in Int, b.last <= t
    PROVE  /\ Accrued(b, t, n) = IF b.level + (t - b.last) > Worth(n) THEN Worth(n)
                                 ELSE b.level + (t - b.last)
           /\ b.level \in Int /\ b.last \in Nat /\ Worth(n) \in Int
<1>1. b.level \in Int /\ b.last \in Nat /\ Worth(n) \in Int
  BY WorthInt DEF Buckets
<1>2. QED
  BY <1>1 DEF Accrued

LEMMA PaceInit == ScraperInit => Pace
<1> SUFFICES ASSUME ScraperInit PROVE Pace
  OBVIOUS
<1>1. sentAt = <<>> /\ now = 0 /\ pc = "start" /\ bucket.last = 0
  BY DEF ScraperInit, NewBucket
<1>2. DOMAIN sentAt = {}
  BY <1>1
<1>3. QED
  BY <1>1, <1>2 DEF Pace, Spaced, RateHonoured, Reserved

\* Nothing that the pace depends on has changed.
LEMMA PaceSame ==
    ASSUME ScraperTypeOK, Pace, UNCHANGED <<bucket, slot, sentAt, cfg>>,
           now' \in Nat, now' >= now,
           Reserved' <=> Reserved, pc' = "send" => pc = "send" \/ now >= slot,
           pc \in {"failed", "done"} => pc' \in {"failed", "done"}
    PROVE  Pace'
<1>1. Taken' = Taken /\ Burst' = Burst
  BY DEF Taken, Burst
<1>2. bucket.last \in Nat /\ slot \in Nat /\ now \in Nat /\ \A i \in DOMAIN sentAt : sentAt[i] \in Nat
  BY DEF ScraperTypeOK, Buckets
<1>3. RateHonoured'
  BY <1>1 DEF Pace, RateHonoured
<1>4. /\ bucket'.last <= now'
      /\ \A i \in DOMAIN sentAt' : sentAt'[i] <= now'
      /\ pc' = "send" => now' >= slot'
  BY <1>2 DEF Pace, Spaced
<1>5. Spaced'
  BY <1>1, <1>4 DEF Pace, Spaced
<1>6. QED
  BY <1>3, <1>5 DEF Pace

\* A run that is over makes no more calls.
LEMMA PaceOver ==
    ASSUME ScraperTypeOK, Pace, UNCHANGED <<bucket, sentAt, cfg, now>>,
           pc' \in {"failed", "done"}
    PROVE  Pace'
BY DEF Pace, Spaced, RateHonoured, Burst, Reserved

\* A token is taken.
LEMMA PaceTake ==
    ASSUME ScraperTypeOK, Pace, pc = "wait", pc' \in {"timer", "send"},
           UNCHANGED <<cfg, sentAt, now>>,
           bucket' = Take(bucket, now, Burst),
           slot' = now + (IF bucket'.level < 0 THEN -bucket'.level ELSE 0),
           pc' = "send" => bucket'.level >= 0
    PROVE  Pace'
<1> DEFINE a == Accrued(bucket, now, Burst)
           n == Len(sentAt)
<1>1. bucket \in Buckets /\ now \in Nat /\ n \in Nat /\ DOMAIN sentAt = 1..n
      /\ \A i \in 1..n : sentAt[i] \in Nat
  BY DEF ScraperTypeOK
<1>0. Burst \in Int
  BY BurstIs
<1>2. bucket'.level = a - Interval /\ bucket'.last = now /\ a \in Int
  BY <1>1, <1>0, TakeOf
<1>3. bucket.last <= now
  BY DEF Pace, Spaced
<1>4. /\ a <= Worth(Burst) /\ a <= bucket.level + (now - bucket.last)
      /\ bucket.level \in Int /\ bucket.last \in Nat /\ Worth(Burst) \in Int
  <2>1. /\ a = IF bucket.level + (now - bucket.last) > Worth(Burst) THEN Worth(Burst)
                ELSE bucket.level + (now - bucket.last)
        /\ bucket.level \in Int /\ bucket.last \in Nat /\ Worth(Burst) \in Int
    BY <1>1, <1>3, <1>0, AccruedIs
  <2> HIDE DEF a
  <2>2. QED
    BY <2>1, <1>1
<1> HIDE DEF a
<1>5. Taken = n /\ Taken' = n + 1 /\ Reserved' /\ Burst' = Burst
  BY DEF Taken, Reserved, Burst
<1>6. slot' >= now /\ slot' >= now - (a - Interval) /\ (pc' = "send" => now >= slot')
  <2>1. a - Interval \in Int
    BY <1>2
  <2>2. QED
    BY <1>1, <1>2, <2>1
<1>7. ASSUME NEW i \in 1..n
      PROVE  Worth((n + 1) - i) + (a - Interval) <= Worth(Burst) + now - sentAt[i]
  <2>1. sentAt[i] <= now /\ sentAt[i] \in Nat
    BY <1>1 DEF Pace, Spaced
  <2>2. CASE i = n
    <3>1. (n + 1) - i = 1
      BY <1>1, <2>2
    <3>2. Worth((n + 1) - i) = Interval
      BY <3>1, WorthOfOne
    <3>3. QED
      BY <1>1, <1>2, <1>4, <2>1, <3>2
  <2>3. CASE i # n
    <3>1. n - i \in Int /\ (n + 1) - i = (n - i) + 1 /\ i < n
      <4>1. n \in Nat /\ i \in 1..n
        BY <1>1
      <4> HIDE DEF n
      <4>2. QED
        BY <4>1, <2>3
    <3>2. Worth((n + 1) - i) = Worth(n - i) + Interval /\ Worth(n - i) \in Int
      BY <3>1, OneMore
    <3>3. Worth(n - i) + bucket.level <= Worth(Burst) + bucket.last - sentAt[i]
      BY <1>1, <1>5, <3>1 DEF Pace, Spaced
    <3> DEFINE w == Worth(n - i)
               x == sentAt[i]
    <3>4. w \in Int /\ x \in Nat /\ w + bucket.level <= Worth(Burst) + bucket.last - x
      BY <2>1, <3>2, <3>3
    <3>5. Worth((n + 1) - i) = w + Interval
      BY <3>2
    <3> HIDE DEF w, x, n
    <3>6. w + Interval + (a - Interval) <= Worth(Burst) + now - x
      <4>1. now \in Nat /\ Interval \in Nat
        BY <1>1
      <4>2. QED
        BY <4>1, <1>2, <1>4, <3>4
    <3>7. Worth((n + 1) - i) + (a - Interval) <= Worth(Burst) + now - x
      BY <3>5, <3>6
    <3>8. QED
      BY <3>7 DEF x
  <2>4. QED
    BY <2>2, <2>3
<1>8. \A i \in DOMAIN sentAt' :
         i < Taken' => Worth(Taken' - i) + bucket'.level
                          <= Worth(Burst') + bucket'.last - sentAt'[i]
  <2> SUFFICES ASSUME NEW i \in 1..n
               PROVE  Worth((n + 1) - i) + (a - Interval) <= Worth(Burst) + now - sentAt[i]
    BY <1>1, <1>2, <1>5
  <2>1. QED
    BY <1>7
<1>9. Spaced'
  <2>1. \A i \in DOMAIN sentAt' : sentAt'[i] <= now'
    BY DEF Pace, Spaced
  <2>2. bucket'.last <= now' /\ slot' >= bucket'.last /\ slot' >= bucket'.last - bucket'.level
    BY <1>1, <1>2, <1>6
  <2>3. QED
    BY <1>6, <1>8, <2>1, <2>2 DEF Spaced
<1>10. RateHonoured'
  BY <1>5 DEF Pace, RateHonoured
<1>11. QED
  BY <1>9, <1>10 DEF Pace

\* A call is made, at its time or later.
LEMMA PaceSend ==
    ASSUME ScraperTypeOK, Pace, pc = "send", pc' = "rpc",
           UNCHANGED <<cfg, bucket, slot, now>>, sentAt' = Append(sentAt, now)
    PROVE  Pace'
<1> DEFINE n == Len(sentAt)
<1>1. /\ bucket \in Buckets /\ now \in Nat /\ slot \in Nat
      /\ n \in Nat /\ DOMAIN sentAt = 1..n /\ \A i \in 1..n : sentAt[i] \in Nat
  BY DEF ScraperTypeOK
<1>2. bucket.level \in Int /\ bucket.last \in Nat /\ Worth(Burst) \in Int
  BY <1>1, BurstIs DEF Buckets
<1>3. /\ Len(sentAt') = n + 1 /\ DOMAIN sentAt' = 1..n + 1 /\ sentAt'[n + 1] = now
      /\ \A i \in 1..n : sentAt'[i] = sentAt[i]
  BY <1>1
<1>4. Taken = n + 1 /\ Taken' = n + 1 /\ ~Reserved' /\ Burst' = Burst
  BY <1>3 DEF Taken, Reserved, Burst
<1>5. slot >= bucket.last - bucket.level /\ now >= slot
  BY DEF Pace, Spaced, Reserved
<1>6. ASSUME NEW i \in 1..n
      PROVE  Worth((n + 1) - i) + bucket.level <= Worth(Burst) + bucket.last - sentAt[i]
  BY <1>1, <1>4 DEF Pace, Spaced
<1>7. ASSUME NEW i \in 1..n
      PROVE  Worth((n + 1) - i) <= Worth(Burst) + now - sentAt[i]
  <2> DEFINE w == Worth((n + 1) - i)
             x == sentAt[i]
  <2>1. (n + 1) - i \in Int
    BY <1>1
  <2>2. w \in Int /\ x \in Nat
    BY <1>1, <2>1, WorthInt
  <2> DEFINE lev == bucket.level
             was == bucket.last
             full == Worth(Burst)
  <2>3. lev \in Int /\ was \in Int /\ full \in Int /\ slot \in Int /\ now \in Int
    BY <1>1, <1>2
  <2>4. slot >= was - lev /\ now >= slot /\ w + lev <= full + was - x
    BY <1>5, <1>6
  <2> HIDE DEF w, x, n, lev, was, full
  <2>5. w <= full + now - x
    BY <2>2, <2>3, <2>4
  <2>6. QED
    BY <2>5 DEF w, x, full
<1>8. RateHonoured'
  <2> SUFFICES ASSUME NEW i \in 1..n + 1, NEW j \in 1..n + 1, i < j
               PROVE  Worth(j - i) <= Worth(Burst) + sentAt'[j] - sentAt'[i]
    BY <1>3, <1>4 DEF RateHonoured
  <2>1. i \in 1..n /\ (j \in 1..n \/ j = n + 1)
    BY <1>1
  <2>2. CASE j \in 1..n
    BY <1>1, <1>3, <2>1, <2>2 DEF Pace, RateHonoured
  <2>3. CASE j = n + 1
    BY <1>3, <1>7, <2>1, <2>3
  <2>4. QED
    BY <2>1, <2>2, <2>3
<1>9. \A i \in DOMAIN sentAt' : sentAt'[i] <= now'
  <2>1. \A i \in 1..n : sentAt[i] <= now
    BY <1>1 DEF Pace, Spaced
  <2>2. \A i \in 1..n + 1 : i \in 1..n \/ i = n + 1
    BY <1>1
  <2>3. QED
    BY <1>1, <1>3, <2>1, <2>2
<1>10. \A i \in DOMAIN sentAt' :
          i < Taken' => Worth(Taken' - i) + bucket'.level
                           <= Worth(Burst') + bucket'.last - sentAt'[i]
  <2> SUFFICES ASSUME NEW i \in 1..n + 1, i < n + 1
               PROVE  Worth((n + 1) - i) + bucket.level <= Worth(Burst) + bucket.last - sentAt'[i]
    BY <1>3, <1>4
  <2>1. i \in 1..n
    BY <1>1
  <2>2. QED
    BY <1>3, <1>6, <2>1
<1>11. Spaced'
  BY <1>4, <1>9, <1>10 DEF Pace, Spaced
<1>12. QED
  BY <1>8, <1>11 DEF Pace

LEMMA PaceStep == ScraperTypeOK /\ Pace /\ [ScraperNext]_scraperVars => Pace'
<1> SUFFICES ASSUME ScraperTypeOK, Pace, [ScraperNext]_scraperVars PROVE Pace'
  OBVIOUS
<1> USE DEF Goto, runVars, ctxVars, serverVars
<1>0. now \in Nat /\ now >= now
  BY DEF ScraperTypeOK
<1>1. CASE Check
  BY <1>0, <1>1, PaceSame, PaceOver DEF Check, Reserved
<1>2. CASE Loop
  BY <1>0, <1>2, PaceSame, PaceOver DEF Loop, Reserved
<1>3. CASE Wait
  <2> DEFINE b == Take(bucket, now, BurstOf(cfg))
             delay == IF b.level < 0 THEN -b.level ELSE 0
  <2>1. CASE pc' = "failed"
    BY <1>3, <2>1, PaceOver DEF Wait
  <2>2. CASE pc' # "failed"
    <3>1. /\ pc = "wait" /\ bucket' = b /\ slot' = now + delay
          /\ UNCHANGED <<cfg, sentAt, now>>
          /\ pc' = IF delay = 0 THEN "send" ELSE "timer"
      BY <1>3, <2>2 DEF Wait
    <3>2. b.level \in Int /\ Burst = BurstOf(cfg)
      <4>1. bucket \in Buckets /\ now \in Nat /\ Burst = BurstOf(cfg) /\ BurstOf(cfg) \in Int
        BY BurstIs DEF ScraperTypeOK
      <4>2. b \in Buckets
        BY <4>1, TakeOf
      <4> HIDE DEF b
      <4>3. QED
        BY <4>1, <4>2 DEF Buckets
    <3>3. delay = 0 => b.level >= 0
      <4> HIDE DEF b
      <4>1. QED
        BY <3>2
    <3> HIDE DEF delay
    <3>4. pc' \in {"timer", "send"} /\ (pc' = "send" => b.level >= 0)
      BY <3>1, <3>3
    <3>5. QED
      BY <3>1, <3>2, <3>4, PaceTake DEF delay
  <2>3. QED
    BY <2>1, <2>2
<1>4. CASE Elapse
  BY <1>0, <1>4, PaceSame, PaceOver DEF Elapse, Reserved
<1>5. CASE Return
  BY <1>5, PaceOver DEF Return
<1>6. CASE Send
  BY <1>6, PaceSend DEF Send
<1>7. CASE Succeed
  BY <1>0, <1>7, PaceSame DEF Succeed, Reserved
<1>8. CASE Rejected
  BY <1>0, <1>8, PaceSame DEF Rejected, CallFails, Reserved
<1>9. CASE Break
  BY <1>0, <1>9, PaceSame DEF Break, CallFails, Reserved
<1>10. CASE Arrive
  BY <1>0, <1>10, PaceSame DEF Arrive, Reserved
<1>11. CASE ArriveLate
  BY <1>0, <1>11, PaceSame DEF ArriveLate, Reserved
<1>12. CASE Tick
  <2>1. now' \in Nat /\ now' >= now
    BY <1>0, <1>12 DEF Tick
  <2>2. QED
    BY <1>12, <2>1, PaceSame DEF Tick, Reserved
<1>13. CASE Interrupt
  BY <1>0, <1>13, PaceSame DEF Interrupt, Reserved
<1>14. CASE Kill
  BY <1>14, PaceOver DEF Kill
<1>15. CASE Expire
  BY <1>0, <1>15, PaceSame DEF Expire, Reserved
<1>16. CASE UNCHANGED scraperVars
  BY <1>0, <1>16, PaceSame DEF scraperVars, Reserved
<1>17. QED
  BY <1>1, <1>2, <1>3, <1>4, <1>5, <1>6, <1>7, <1>8, <1>9, <1>10, <1>11, <1>12,
     <1>13, <1>14, <1>15, <1>16 DEF ScraperNext, Run, Abandon

-----------------------------------------------------------------------------
(* The two buckets, the runner's and the service's.                        *)

Mine == Accrued(bucket, now, Burst)
Theirs == Server!Accrued(server, now, ServerBurst)

\* The service's bucket holds what the runner's does at all times, and a token
\* more while a call with a reserved token has not arrived.
Room ==
    Affordable /\ ~overtaken =>
        /\ refused = 0
        /\ server.last <= now
        /\ pc \notin {"failed", "done"} => Theirs >= Mine
        /\ pc \in {"timer", "send", "rpc"} => Theirs >= Mine + ServerInterval
        /\ pc \in {"send", "rpc"} => Mine >= 0

LEMMA ServerAccruedIs ==
    ASSUME NEW b \in Server!Buckets, NEW t \in Nat, b.last <= t
    PROVE  /\ Server!Accrued(b, t, ServerBurst)
                  = IF b.level + (t - b.last) > Server!Worth(ServerBurst)
                    THEN Server!Worth(ServerBurst) ELSE b.level + (t - b.last)
           /\ b.level \in Int /\ b.last \in Nat /\ Server!Worth(ServerBurst) \in Int
<1>1. b.level \in Int /\ b.last \in Nat /\ Server!Worth(ServerBurst) \in Int
  BY WorthInt DEF Server!Buckets
<1>2. QED
  BY <1>1 DEF Server!Accrued

LEMMA Levels ==
    ASSUME ScraperTypeOK
    PROVE  /\ Mine \in Int /\ Theirs \in Int /\ Worth(Burst) \in Nat
           /\ Server!Worth(ServerBurst) \in Int
           /\ bucket \in Buckets /\ server \in Server!Buckets /\ now \in Nat
           /\ bucket.level \in Int /\ bucket.last \in Nat
           /\ server.level \in Int /\ server.last \in Nat
           /\ bucket.last <= now =>
                 Mine = IF bucket.level + (now - bucket.last) > Worth(Burst)
                        THEN Worth(Burst) ELSE bucket.level + (now - bucket.last)
           /\ server.last <= now =>
                 Theirs = IF server.level + (now - server.last) > Server!Worth(ServerBurst)
                          THEN Server!Worth(ServerBurst) ELSE server.level + (now - server.last)
<1>1. /\ bucket \in Buckets /\ server \in Server!Buckets /\ now \in Nat
      /\ Burst \in Int /\ Worth(Burst) \in Nat
  BY BurstIs DEF ScraperTypeOK
<1>2. bucket.level \in Int /\ bucket.last \in Nat /\ server.level \in Int /\ server.last \in Nat
  BY <1>1 DEF Buckets, Server!Buckets
<1>3. Mine \in Int /\ Theirs \in Int
  <2>1. Mine \in Int
    BY <1>1, TakeOf DEF Mine
  <2>2. Theirs \in Int
    BY <1>1, ServerTakeOf DEF Theirs
  <2>3. QED
    BY <2>1, <2>2
<1>4. Server!Worth(ServerBurst) \in Int
  BY WorthInt
<1>5. bucket.last <= now =>
         Mine = IF bucket.level + (now - bucket.last) > Worth(Burst)
                THEN Worth(Burst) ELSE bucket.level + (now - bucket.last)
  BY <1>1, AccruedIs DEF Mine
<1>6. server.last <= now =>
         Theirs = IF server.level + (now - server.last) > Server!Worth(ServerBurst)
                  THEN Server!Worth(ServerBurst) ELSE server.level + (now - server.last)
  BY <1>1, ServerAccruedIs DEF Theirs
<1>7. QED
  BY <1>1, <1>2, <1>3, <1>4, <1>5, <1>6

LEMMA RoomInit == ScraperInit => Room
<1> SUFFICES ASSUME ScraperInit, Affordable PROVE Room
  BY DEF Room
<1>1. /\ pc = "start" /\ refused = 0 /\ now = 0
      /\ bucket = NewBucket(BurstOf(cfg)) /\ server = Server!NewBucket(ServerBurst)
  BY DEF ScraperInit
<1>2. Burst = BurstOf(cfg) /\ Worth(Burst) \in Nat /\ ScraperTypeOK
  BY BurstIs, ScraperTypeInit
<1>3. /\ bucket.level = Worth(Burst) /\ bucket.last = 0
      /\ server.level = Server!Worth(ServerBurst) /\ server.last = 0
  BY <1>1, <1>2 DEF NewBucket, Server!NewBucket
<1>4. /\ Mine = IF bucket.level + (now - bucket.last) > Worth(Burst)
                THEN Worth(Burst) ELSE bucket.level + (now - bucket.last)
      /\ Theirs = IF server.level + (now - server.last) > Server!Worth(ServerBurst)
                  THEN Server!Worth(ServerBurst) ELSE server.level + (now - server.last)
      /\ Server!Worth(ServerBurst) \in Int
  BY <1>1, <1>2, <1>3, Levels
<1>5. Mine = Worth(Burst) /\ Theirs = Server!Worth(ServerBurst)
  BY <1>1, <1>2, <1>3, <1>4
<1>6. Theirs >= Mine
  BY <1>2, <1>4, <1>5 DEF Affordable
<1>7. QED
  BY <1>1, <1>3, <1>6 DEF Room

\* Nothing that the buckets depend on has changed, and no token is promised
\* that was not.
LEMMA RoomSame ==
    ASSUME ScraperTypeOK, Room, UNCHANGED <<bucket, server, now, cfg, refused, overtaken>>,
           pc \in {"failed", "done"} => pc' \in {"failed", "done"},
           pc' \in {"timer", "send", "rpc"} => pc \in {"timer", "send", "rpc"},
           pc' \in {"send", "rpc"} => pc \in {"send", "rpc"} \/ Mine >= 0
    PROVE  Room'
<1>1. Mine' = Mine /\ Theirs' = Theirs /\ (Affordable' <=> Affordable)
  BY DEF Mine, Theirs, Affordable, Burst
<1>2. QED
  BY <1>1 DEF Room

LEMMA RoomTick ==
    ASSUME ScraperTypeOK, ScraperTypeOK', Pace, Room, Tick
    PROVE  Room'
<1> SUFFICES ASSUME Affordable, ~overtaken PROVE Room'
  <2>1. (Affordable' <=> Affordable) /\ overtaken' = overtaken
    BY DEF Tick, Affordable, Burst, runVars, serverVars
  <2>2. QED
    BY <2>1 DEF Room
<1>1. /\ now' = now + 1 /\ UNCHANGED <<pc, bucket, server, cfg, refused, overtaken>>
  BY DEF Tick, runVars, serverVars
<1>2. bucket.last <= now /\ server.last <= now /\ Burst' = Burst
  BY <1>1 DEF Pace, Spaced, Room, Burst
<1> DEFINE C == Worth(Burst)
           S == Server!Worth(ServerBurst)
           x == bucket.level + (now - bucket.last)
           y == server.level + (now - server.last)
<1>3. /\ C \in Nat /\ S \in Int /\ now \in Nat /\ x \in Int /\ y \in Int
      /\ bucket.level \in Int /\ bucket.last \in Nat /\ server.level \in Int /\ server.last \in Nat
      /\ Mine = (IF x > C THEN C ELSE x) /\ Theirs = (IF y > S THEN S ELSE y)
  BY <1>2, Levels
<1>4. bucket'.last <= now' /\ server'.last <= now'
  BY <1>1, <1>2, <1>3
<1>5. /\ Mine' = (IF bucket.level + (now' - bucket.last) > C THEN C
                 ELSE bucket.level + (now' - bucket.last))
      /\ Theirs' = (IF server.level + (now' - server.last) > S THEN S
                   ELSE server.level + (now' - server.last))
  <2>1. /\ bucket \in Buckets /\ server \in Server!Buckets /\ now' \in Nat /\ Burst \in Int
        /\ bucket.last <= now' /\ server.last <= now'
    BY <1>1, <1>3, <1>4, Levels, BurstIs
  <2>2. /\ Mine' = Accrued(bucket, now', Burst)
        /\ Theirs' = Server!Accrued(server, now', ServerBurst)
    BY <1>1, <1>2 DEF Mine, Theirs
  <2>3. Mine' = (IF bucket.level + (now' - bucket.last) > C THEN C
                 ELSE bucket.level + (now' - bucket.last))
    BY <2>1, <2>2, AccruedIs
  <2>4. Theirs' = (IF server.level + (now' - server.last) > S THEN S
                   ELSE server.level + (now' - server.last))
    BY <2>1, <2>2, ServerAccruedIs
  <2>5. QED
    BY <2>3, <2>4
<1>6. /\ bucket.level + (now' - bucket.last) = x + 1
      /\ server.level + (now' - server.last) = y + 1
  BY <1>1, <1>3
<1>7. Mine' = (IF x + 1 > C THEN C ELSE x + 1) /\ Theirs' = (IF y + 1 > S THEN S ELSE y + 1)
  BY <1>5, <1>6
<1>8. C + ServerInterval <= S
  BY DEF Affordable
<1> HIDE DEF C, S, x, y
<1>9. /\ Theirs >= Mine => Theirs' >= Mine'
      /\ Theirs >= Mine + ServerInterval => Theirs' >= Mine' + ServerInterval
      /\ Mine >= 0 => Mine' >= 0
  BY <1>3, <1>7, <1>8
<1>10. QED
  BY <1>1, <1>4, <1>9 DEF Room

\* A token is taken from the runner's bucket.
LEMMA RoomTake ==
    ASSUME ScraperTypeOK, ScraperTypeOK', Pace, Pace', Room, pc = "wait",
           pc' \in {"timer", "send"}, UNCHANGED <<cfg, server, now, refused, overtaken>>,
           bucket' = Take(bucket, now, Burst), pc' = "send" => bucket'.level >= 0
    PROVE  Room'
<1> SUFFICES ASSUME Affordable, ~overtaken PROVE Room'
  <2>1. Affordable' <=> Affordable
    BY DEF Affordable, Burst
  <2>2. QED
    BY <2>1 DEF Room
<1>1. Theirs' = Theirs /\ Burst' = Burst /\ server'.last <= now'
  BY DEF Theirs, Burst, Room
<1>2. /\ Mine \in Int /\ Theirs \in Int /\ Worth(Burst) \in Nat /\ now \in Nat
      /\ bucket \in Buckets /\ Burst \in Int
  BY Levels, BurstIs
<1>3. bucket'.level = Mine - Interval /\ bucket'.last = now
  BY <1>2, TakeOf DEF Mine
<1>4. Mine <= Worth(Burst)
  <2>1. bucket.last <= now
    BY DEF Pace, Spaced
  <2>2. QED
    BY <2>1, Levels
<1>5. Mine' = Mine - Interval
  <2>1. bucket' \in Buckets /\ bucket'.last <= now
    BY <1>2, <1>3 DEF ScraperTypeOK
  <2>2. Mine' = Accrued(bucket', now, Burst)
    BY <1>1 DEF Mine
  <2>3. Mine' = IF bucket'.level + (now - bucket'.last) > Worth(Burst) THEN Worth(Burst)
                ELSE bucket'.level + (now - bucket'.last)
    BY <1>2, <2>1, <2>2, AccruedIs
  <2>4. bucket'.level + (now - bucket'.last) = Mine - Interval
    BY <1>2, <1>3
  <2>5. QED
    BY <1>2, <1>4, <2>3, <2>4
<1>6. Theirs >= Mine /\ ServerInterval <= Interval /\ refused = 0
  BY DEF Room, Affordable
<1>7. Theirs' >= Mine' + ServerInterval /\ Theirs' >= Mine'
  BY <1>1, <1>2, <1>5, <1>6
<1>8. pc' = "send" => Mine' >= 0
  BY <1>3, <1>5
<1>9. QED
  BY <1>1, <1>6, <1>7, <1>8 DEF Room

\* A call arrives: there is a token for it.
LEMMA RoomArrive ==
    ASSUME ScraperTypeOK, ScraperTypeOK', Pace, Room, Arrive
    PROVE  Room'
<1> SUFFICES ASSUME Affordable, ~overtaken PROVE Room'
  <2>1. (Affordable' <=> Affordable) /\ overtaken' = overtaken
    BY DEF Arrive, Affordable, Burst
  <2>2. QED
    BY <2>1 DEF Room
<1>1. /\ pc = "rpc" /\ UNCHANGED <<cfg, bucket, now, overtaken>>
      /\ Mine' = Mine
  BY DEF Arrive, Goto, Mine, Burst, ctxVars
<1>2. /\ Theirs >= Mine + ServerInterval /\ Mine >= 0 /\ refused = 0 /\ server.last <= now
  BY <1>1 DEF Room
<1>3. Mine \in Int /\ Theirs \in Int /\ now \in Nat /\ server \in Server!Buckets
  BY Levels
<1>4. HasToken
  <2>1. Theirs >= ServerInterval
    BY <1>2, <1>3
  <2>2. QED
    BY <2>1 DEF HasToken, Theirs
<1>5. CASE UNCHANGED <<server, refused>>
  <2>1. Theirs' = Theirs
    BY <1>1, <1>5 DEF Theirs
  <2>2. pc' \in {"answered", "refused"}
    BY DEF Arrive, Goto
  <2>3. QED
    BY <1>1, <1>2, <1>3, <1>5, <2>1, <2>2 DEF Room
<1>6. CASE Handled /\ pc' = "answered"
  <2>1. server' = Server!Take(server, now, ServerBurst) /\ refused' = refused
    BY <1>6 DEF Handled
  <2>2. server' \in Server!Buckets /\ server'.level = Theirs - ServerInterval /\ server'.last = now
    <3>1. ServerBurst \in Int
      OBVIOUS
    <3>2. QED
      BY <1>3, <2>1, <3>1, ServerTakeOf DEF Theirs
  <2>3. Theirs <= Server!Worth(ServerBurst) /\ Server!Worth(ServerBurst) \in Int
    BY <1>2, Levels
  <2>4. Theirs' = IF server'.level + (now - server'.last) > Server!Worth(ServerBurst)
                  THEN Server!Worth(ServerBurst) ELSE server'.level + (now - server'.last)
    <3>1. Theirs' = Server!Accrued(server', now, ServerBurst)
      BY <1>1 DEF Theirs
    <3>2. server'.last <= now
      BY <1>3, <2>2
    <3>3. QED
      BY <1>3, <2>2, <3>1, <3>2, ServerAccruedIs
  <2>5. server'.level + (now - server'.last) = Theirs - ServerInterval
    BY <1>3, <2>2
  <2>6. Theirs' = Theirs - ServerInterval
    BY <1>3, <2>3, <2>4, <2>5
  <2>7. Theirs' >= Mine'
    BY <1>1, <1>2, <1>3, <2>6
  <2>8. server'.last <= now' /\ refused' = 0
    BY <1>1, <1>2, <1>3, <2>1, <2>2
  <2>9. QED
    BY <1>6, <2>7, <2>8 DEF Room
<1>7. QED
  BY <1>4, <1>5, <1>6 DEF Arrive, Goto

LEMMA RoomStep ==
    ScraperTypeOK /\ ScraperTypeOK' /\ Pace /\ Pace' /\ Room /\ [ScraperNext]_scraperVars
        => Room'
<1> SUFFICES ASSUME ScraperTypeOK, ScraperTypeOK', Pace, Pace', Room,
                    [ScraperNext]_scraperVars
             PROVE  Room'
  OBVIOUS
<1> USE DEF Goto, runVars, ctxVars, serverVars
<1>1. CASE Check
  BY <1>1, RoomSame DEF Check
<1>2. CASE Loop
  BY <1>2, RoomSame DEF Loop
<1>3. CASE Wait
  <2> DEFINE b == Take(bucket, now, BurstOf(cfg))
             delay == IF b.level < 0 THEN -b.level ELSE 0
  <2>1. CASE pc' = "failed"
    BY <1>3, <2>1, RoomSame DEF Wait
  <2>2. CASE pc' # "failed"
    <3>1. /\ pc = "wait" /\ bucket' = b
          /\ UNCHANGED <<cfg, server, now, refused, overtaken>>
          /\ pc' = IF delay = 0 THEN "send" ELSE "timer"
      BY <1>3, <2>2 DEF Wait
    <3>2. Burst = BurstOf(cfg) /\ bucket'.level \in Int
      BY BurstIs DEF ScraperTypeOK, Buckets
    <3>3. delay = 0 => b.level >= 0
      <4>1. b.level \in Int
        BY <3>1, <3>2
      <4> HIDE DEF b
      <4>2. QED
        BY <4>1
    <3> HIDE DEF delay
    <3>4. QED
      BY <3>1, <3>2, <3>3, RoomTake
  <2>3. QED
    BY <2>1, <2>2
<1>4. CASE Elapse
  <2>1. pc' = "send" => Mine >= 0
    <3> SUFFICES ASSUME pc' = "send" PROVE Mine >= 0
      OBVIOUS
    <3>1. now >= slot /\ pc = "timer" /\ slot \in Nat
      BY <1>4 DEF Elapse, ScraperTypeOK
    <3>2. bucket.last <= now /\ slot >= bucket.last - bucket.level
      BY <3>1 DEF Pace, Spaced, Reserved
    <3>3. /\ Mine = IF bucket.level + (now - bucket.last) > Worth(Burst)
                    THEN Worth(Burst) ELSE bucket.level + (now - bucket.last)
          /\ Worth(Burst) \in Nat /\ now \in Nat
          /\ bucket.level \in Int /\ bucket.last \in Nat
      BY <3>2, Levels
    <3>4. bucket.level + (now - bucket.last) >= 0
      BY <3>1, <3>2, <3>3
    <3>5. QED
      BY <3>3, <3>4
  <2>2. QED
    BY <1>4, <2>1, RoomSame DEF Elapse
<1>5. CASE Return
  BY <1>5, RoomSame DEF Return
<1>6. CASE Send
  BY <1>6, RoomSame DEF Send
<1>7. CASE Succeed
  BY <1>7, RoomSame DEF Succeed
<1>8. CASE Rejected
  BY <1>8, RoomSame DEF Rejected, CallFails
<1>9. CASE Break
  BY <1>9, RoomSame DEF Break, CallFails
<1>10. CASE Arrive
  BY <1>10, RoomArrive
<1>11. CASE ArriveLate
  BY <1>11 DEF ArriveLate, Room
<1>12. CASE Tick
  BY <1>12, RoomTick
<1>13. CASE Interrupt
  BY <1>13, RoomSame DEF Interrupt
<1>14. CASE Kill
  BY <1>14, RoomSame DEF Kill
<1>15. CASE Expire
  BY <1>15, RoomSame DEF Expire
<1>16. CASE UNCHANGED scraperVars
  BY <1>16, RoomSame DEF scraperVars
<1>17. QED
  BY <1>1, <1>2, <1>3, <1>4, <1>5, <1>6, <1>7, <1>8, <1>9, <1>10, <1>11, <1>12,
     <1>13, <1>14, <1>15, <1>16 DEF ScraperNext, Run, Abandon

-----------------------------------------------------------------------------
ScraperInv == ScraperTypeOK /\ Claims /\ Pace /\ Room

LEMMA ScraperAlways == ScraperSpec => []ScraperInv
<1>1. ScraperInit => ScraperInv
  BY ScraperTypeInit, ClaimsInit, PaceInit, RoomInit DEF ScraperInv
<1>2. ScraperInv /\ [ScraperNext]_scraperVars => ScraperInv'
  BY ScraperTypeStep, ClaimsStep, PaceStep, RoomStep DEF ScraperInv
<1>3. QED
  BY <1>1, <1>2, PTL DEF ScraperSpec

\* The variables keep their types, and a batch is never empty.
THEOREM ScraperTypeCorrect == ScraperSpec => []ScraperTypeOK
<1>1. ScraperInv => ScraperTypeOK
  BY DEF ScraperInv
<1>2. QED
  BY <1>1, ScraperAlways, PTL

\* The summary adds up at every moment, and a run without error is complete.
THEOREM AccountingCorrect == ScraperSpec => []Accounting
<1>1. ScraperInv => Accounting
  BY DEF ScraperInv, Claims, Accounting
<1>2. QED
  BY <1>1, ScraperAlways, PTL

\* It claims nothing that the service has not accepted.
THEOREM HonestStatsCorrect == ScraperSpec => []HonestStats
<1>1. ScraperInv => HonestStats
  BY DEF ScraperInv, Claims
<1>2. QED
  BY <1>1, ScraperAlways, PTL

\* The calls keep to the rate.
THEOREM RateHonouredCorrect == ScraperSpec => []RateHonoured
<1>1. ScraperInv => RateHonoured
  BY DEF ScraperInv, Pace
<1>2. QED
  BY <1>1, ScraperAlways, PTL

\* A scraper that affords its rate is not refused for it, whatever the rates,
\* the bursts and the time a call takes.
THEOREM NeverRefusedCorrect == ScraperSpec => []NeverRefused
<1>1. ScraperInv => NeverRefused
  BY DEF ScraperInv, Room, NeverRefused
<1>2. QED
  BY <1>1, ScraperAlways, PTL
=============================================================================
