------------------------------ MODULE Scraper -------------------------------
(***************************************************************************)
(* A load test: runner.Run under cmd/scraper's main, its token bucket, and *)
(* the intake service's bucket for the scraper's user at the other end.    *)
(*                                                                         *)
(* Calls are made one after the other.  Between any two steps of the runner*)
(* time may pass, a signal may come, or the context's deadline expire.     *)
(***************************************************************************)
EXTENDS TokenBucket, Sequences

CONSTANTS
    Configs,        \* the flags: total, batchSize, rps, burst, user, deadline
    Never,          \* the deadline of a run without -timeout
    NoUser,
    Lifetime,       \* mintJWT: the bearer is valid before then
    ServerInterval, ServerBurst,
    MaxTime         \* bound: the clock stops here

Server == INSTANCE TokenBucket WITH Interval <- ServerInterval

ASSUME ScraperAssumption ==
    /\ \A c \in Configs : /\ c.total \in Int /\ c.batchSize \in Int
                          /\ c.rps \in Int /\ c.burst \in Int
                          /\ c.deadline \in Nat \cup {Never}
    /\ Lifetime \in Nat /\ ServerInterval \in Nat \ {0} /\ ServerBurst \in Nat

VARIABLES
    pc,
    cfg,
    remaining,
    stats,
    bucket,         \* the runner's limiter
    slot,           \* timeToAct of the reservation
    ctx,            \* "live", or the error of the context
    asked,          \* a signal has been received
    now,
    result,         \* what Run returns, or what ends the process instead
    sentAt,         \* history: when each call was made
    got,            \* how many results of the answer carry an id
    server,         \* the service's bucket for the user
    late,           \* calls that failed here and may still reach the service
    overtaken,      \* history: one of them has
    accepted,       \* how many submissions the service answered with an id
    refused         \* history: how many calls it refused for their rate

runVars == <<cfg, remaining, stats, bucket, slot, result, sentAt, got>>
ctxVars == <<ctx, asked, now>>
serverVars == <<server, late, overtaken, accepted, refused>>
scraperVars == <<pc, runVars, ctxVars, serverVars>>

NewStats == [rpcs |-> 0, rpcsOK |-> 0, rpcsFailed |-> 0,
             apps |-> 0, appsOK |-> 0, appsFailed |-> 0]

\* A mistake: what the documentation of the flag -burst says.
BurstOfRate(c) == IF c.burst <= 0 THEN c.rps ELSE c.burst

BurstOf(c) == IF c.burst <= 0 THEN 1 ELSE c.burst

ScraperInit ==
    /\ pc = "start"
    /\ cfg \in Configs
    /\ remaining = 0
    /\ stats = NewStats
    /\ bucket = NewBucket(BurstOf(cfg))
    /\ slot = 0
    /\ ctx = "live" /\ asked = FALSE /\ now = 0
    /\ result = "none"
    /\ sentAt = <<>>
    /\ got = 0
    /\ server = Server!NewBucket(ServerBurst)
    /\ late = 0 /\ overtaken = FALSE /\ accepted = 0 /\ refused = 0

-----------------------------------------------------------------------------
(* Run.                                                                    *)

Goto(from, to) == pc = from /\ pc' = to

\* A mistake: every batch is a full one.
FullBatch == cfg.batchSize

\* The size of the next batch; the last one may be smaller.
BatchSize == IF remaining < cfg.batchSize THEN remaining ELSE cfg.batchSize

Invalid(c) == c.batchSize <= 0 \/ c.total < 0 \/ c.rps <= 0 \/ c.user = NoUser

Check ==
    /\ \/ Invalid(cfg) /\ Goto("start", "done")
          /\ result' = "invalid" /\ remaining' = remaining
       \/ ~Invalid(cfg) /\ Goto("start", "loop")
          /\ remaining' = cfg.total /\ result' = result
    /\ UNCHANGED <<cfg, stats, bucket, slot, sentAt, got, ctxVars, serverVars>>

\* The loop's condition; buildBatch comes before the wait.
Loop ==
    /\ \/ remaining > 0 /\ Goto("loop", "wait") /\ result' = result
       \/ remaining <= 0 /\ Goto("loop", "done") /\ result' = "nil"
    /\ UNCHANGED <<cfg, remaining, stats, bucket, slot, sentAt, got, ctxVars, serverVars>>

Exceeds(t) == cfg.deadline # Never /\ t > cfg.deadline

\* limiter.Wait: a context that is done, or a deadline that a token would come
\* after, is an error; else the token is reserved.
Wait ==
    LET b == Take(bucket, now, BurstOf(cfg))
        delay == IF b.level < 0 THEN -b.level ELSE 0
    IN  \/ /\ ctx # "live" \/ Exceeds(now + delay)
           /\ Goto("wait", "failed")
           /\ UNCHANGED <<runVars, ctxVars, serverVars>>
        \/ /\ ctx = "live" /\ ~Exceeds(now + delay)
           /\ Goto("wait", IF delay = 0 THEN "send" ELSE "timer")
           /\ bucket' = b
           /\ slot' = now + delay
           /\ UNCHANGED <<cfg, remaining, stats, result, sentAt, got, ctxVars, serverVars>>

\* The timer or the end of the context, whichever select sees first.
Elapse ==
    /\ \/ now >= slot /\ Goto("timer", "send")
       \/ ctx # "live" /\ Goto("timer", "failed")
    /\ UNCHANGED <<runVars, ctxVars, serverVars>>

\* return st, ctx.Err(): what the context says, not what Wait said.
Return ==
    /\ Goto("failed", "done")
    /\ result' = IF ctx = "live" THEN "nil" ELSE ctx
    /\ UNCHANGED <<cfg, remaining, stats, bucket, slot, sentAt, got, ctxVars, serverVars>>

Send ==
    /\ Goto("send", "rpc")
    /\ sentAt' = Append(sentAt, now)
    /\ UNCHANGED <<cfg, remaining, stats, bucket, slot, result, got, ctxVars, serverVars>>

\* A mistake: a batch that failed is counted as a full one.
RecordFullBatch(s, n) ==
    [s EXCEPT !.rpcs = @ + 1, !.rpcsFailed = @ + 1,
              !.apps = @ + cfg.batchSize, !.appsFailed = @ + cfg.batchSize]

RecordRPCError(s, n) ==
    [rpcs |-> s.rpcs + 1, rpcsOK |-> s.rpcsOK, rpcsFailed |-> s.rpcsFailed + 1,
     apps |-> s.apps + n, appsOK |-> s.appsOK, appsFailed |-> s.appsFailed + n]

RecordRPCSuccess(s, ok, failed) ==
    [rpcs |-> s.rpcs + 1, rpcsOK |-> s.rpcsOK + 1, rpcsFailed |-> s.rpcsFailed,
     apps |-> s.apps + ok + failed, appsOK |-> s.appsOK + ok,
     appsFailed |-> s.appsFailed + failed]

\* A mistake: every result of an answer is counted as a success.
SucceedAll ==
    /\ Goto("answered", "loop")
    /\ stats' = RecordRPCSuccess(stats, BatchSize, 0)
    /\ remaining' = remaining - BatchSize
    /\ UNCHANGED <<cfg, bucket, slot, result, sentAt, got, ctxVars, serverVars>>

\* An answer: countResults tells the results with an id from the others.
Succeed ==
    /\ Goto("answered", "loop")
    /\ stats' = RecordRPCSuccess(stats, got, BatchSize - got)
    /\ remaining' = remaining - BatchSize
    /\ UNCHANGED <<cfg, bucket, slot, result, sentAt, got, ctxVars, serverVars>>

CallFails(from) ==
    /\ Goto(from, "loop")
    /\ stats' = RecordRPCError(stats, BatchSize)
    /\ remaining' = remaining - BatchSize
    /\ UNCHANGED <<cfg, bucket, slot, result, sentAt, got, ctxVars,
                   server, overtaken, accepted, refused>>

\* The error the service answers with.
Rejected == CallFails("refused") /\ late' = late

\* A call that breaks before its answer is here has been handled, will never
\* be, or will be some day.
Break ==
    \/ CallFails("answered") /\ late' = late
    \/ CallFails("rpc") /\ late' \in {late, late + 1}

\* A mistake: BatchSubmit makes the call with a context of its own.
Detached == FALSE /\ Break

\* A call returns when its context is done.
Abandon == ctx # "live" /\ Break

-----------------------------------------------------------------------------
(* The service: authentication, the bucket, then every submission.         *)

Authentic == now < Lifetime
HasToken == Server!Accrued(server, now, ServerBurst) >= ServerInterval

Handled ==
    /\ server' = Server!Take(server, now, ServerBurst)
    /\ \E n \in 0..BatchSize :
          accepted' = accepted + n /\ got' = n
    /\ refused' = refused

Arrive ==
    /\ \/ Authentic /\ HasToken /\ Goto("rpc", "answered") /\ Handled
       \/ Authentic /\ ~HasToken /\ Goto("rpc", "refused")
          /\ refused' = refused + 1 /\ UNCHANGED <<server, accepted, got>>
       \/ ~Authentic /\ Goto("rpc", "refused")
          /\ UNCHANGED <<server, accepted, got, refused>>
    /\ UNCHANGED <<cfg, remaining, stats, bucket, slot, result, sentAt, ctxVars,
                   late, overtaken>>

\* A call that failed at the scraper reaches the service after all.
ArriveLate ==
    /\ late > 0
    /\ late' = late - 1
    /\ overtaken' = TRUE
    /\ IF Authentic /\ HasToken
       THEN /\ server' = Server!Take(server, now, ServerBurst)
            /\ \E n \in 0..cfg.batchSize : accepted' = accepted + n
       ELSE UNCHANGED <<server, accepted>>
    /\ UNCHANGED <<pc, runVars, ctxVars, refused>>

-----------------------------------------------------------------------------
(* Around Run: time, withSignal, -timeout.                                 *)

Running == pc # "done"

Tick ==
    /\ Running
    /\ now < MaxTime
    /\ now' = now + 1
    /\ UNCHANGED <<pc, runVars, ctx, asked, serverVars>>

\* The first signal cancels; by then the handler is stopped, and a second one
\* kills the process.
Interrupt ==
    /\ Running /\ ~asked
    /\ asked' = TRUE
    /\ ctx' = IF ctx = "live" THEN "canceled" ELSE ctx
    /\ UNCHANGED <<pc, runVars, now, serverVars>>

Kill ==
    /\ Running /\ asked
    /\ pc' = "done"
    /\ result' = "killed"
    /\ UNCHANGED <<cfg, remaining, stats, bucket, slot, sentAt, got, ctxVars, serverVars>>

Expire ==
    /\ Running
    /\ ctx = "live" /\ cfg.deadline # Never /\ now >= cfg.deadline
    /\ ctx' = "deadline"
    /\ UNCHANGED <<pc, runVars, asked, now, serverVars>>

Run == Check \/ Loop \/ Wait \/ Elapse \/ Return \/ Send \/ Succeed \/ Rejected

ScraperNext ==
    \/ Run \/ Abandon \/ Break \/ Arrive \/ ArriveLate
    \/ Tick \/ Interrupt \/ Kill \/ Expire
    \/ pc = "done" /\ UNCHANGED scraperVars

ScraperSpec == ScraperInit /\ [][ScraperNext]_scraperVars

\* The goroutine is scheduled and a call ends with its context; the service
\* owes no answer, and time need not pass.
FairScraperSpec == ScraperSpec /\ WF_scraperVars(Run) /\ WF_scraperVars(Abandon)
=============================================================================
