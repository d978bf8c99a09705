----------------------------- MODULE RateLimit ------------------------------
(***************************************************************************)
(* The per-user rate limiter and its interceptor.                          *)
(*                                                                         *)
(* Allow is three steps that other requests may come between: limiterFor   *)
(* under the map's mutex, the clock, and AllowN under the bucket's mutex.  *)
(***************************************************************************)
EXTENDS TokenBucket, Sequences

CONSTANTS
    Requests,
    Users,
    NoUser,         \* the request carries no user id
    NoLimiter,      \* the user has no entry in the map
    Burst,
    MaxTime         \* bound: the clock stops here

ASSUME RateLimitAssumption ==
    /\ Burst \in Nat
    /\ MaxTime \in Nat
    /\ NoUser \notin Users
    /\ NoLimiter \notin Buckets

VARIABLES
    pc,
    user,           \* what UserExtractor finds in the request's context
    limiters,       \* the map, of each user the bucket it points to
    now,
    seen,           \* the instant a request has read from the clock
    admitted        \* history: of each user the admissions, in order

limitVars == <<user, limiters, now, seen, admitted>>
rateVars == <<pc, limitVars>>

Full == Worth(Burst)

LimitInit ==
    /\ user = [r \in Requests |-> NoUser]
    /\ limiters = [u \in Users |-> NoLimiter]
    /\ now = 0
    /\ seen = [r \in Requests |-> 0]
    /\ admitted = [u \in Users |-> <<>>]

RateInit == LimitInit /\ pc = [r \in Requests |-> "idle"]

-----------------------------------------------------------------------------
Goto(r, from, to) == pc[r] = from /\ pc' = [pc EXCEPT ![r] = to]

\* A request reaches the interceptor, with or without a user.
Arrive(r, u) ==
    /\ Goto(r, "idle", "extract")
    /\ user' = [user EXCEPT ![r] = u]
    /\ UNCHANGED <<limiters, now, seen, admitted>>

Extract(r) ==
    /\ Goto(r, "extract", IF user[r] = NoUser THEN "handler" ELSE "lookup")
    /\ UNCHANGED limitVars

\* A mistake: every request of a user gets a limiter of its own.
LookupNew(r) ==
    /\ Goto(r, "lookup", "clock")
    /\ limiters' = [limiters EXCEPT ![user[r]] = NewBucket(Burst)]
    /\ UNCHANGED <<user, now, seen, admitted>>

Lookup(r) ==
    /\ Goto(r, "lookup", "clock")
    /\ limiters' = IF limiters[user[r]] = NoLimiter
                   THEN [limiters EXCEPT ![user[r]] = NewBucket(Burst)]
                   ELSE limiters
    /\ UNCHANGED <<user, now, seen, admitted>>

ReadClock(r) ==
    /\ Goto(r, "clock", "allow")
    /\ seen' = [seen EXCEPT ![r] = now]
    /\ UNCHANGED <<user, limiters, now, admitted>>

\* How far the instants presented to the bucket of u have gone backwards.
Backwards(u) ==
    IF admitted[u] = <<>> THEN 0 ELSE admitted[u][Len(admitted[u])].back

\* AllowN finds a token.
Admit(r) ==
    LET u == user[r]
        b == limiters[u]
        step == IF seen[r] < b.last THEN b.last - seen[r] ELSE 0
    IN  /\ Goto(r, "allow", "handler")
        /\ Accrued(b, seen[r], Burst) >= Interval
        /\ limiters' = [limiters EXCEPT ![u] = Take(b, seen[r], Burst)]
        /\ admitted' = [admitted EXCEPT ![u] =
                          Append(@, [at |-> seen[r], back |-> Backwards(u) + step])]
        /\ UNCHANGED <<user, now, seen>>

\* A mistake: a request that comes with an earlier instant is refused.
RefuseLate(r) ==
    /\ Goto(r, "allow", "refused")
    /\ \/ Accrued(limiters[user[r]], seen[r], Burst) < Interval
       \/ seen[r] < limiters[user[r]].last
    /\ UNCHANGED limitVars

\* AllowN finds none, and leaves the bucket as it was.
Refuse(r) ==
    /\ Goto(r, "allow", "refused")
    /\ Accrued(limiters[user[r]], seen[r], Burst) < Interval
    /\ UNCHANGED limitVars

Allow(r) == Lookup(r) \/ ReadClock(r) \/ Admit(r) \/ Refuse(r)

\* Time passes.  The clock is monotonic within a process.
Tick ==
    /\ now < MaxTime
    /\ now' = now + 1
    /\ UNCHANGED <<pc, user, limiters, seen, admitted>>

RateNext ==
    \/ \E r \in Requests : \/ \E u \in Users \cup {NoUser} : Arrive(r, u)
                           \/ Extract(r) \/ Allow(r)
    \/ Tick
    \/ /\ \A r \in Requests : pc[r] \in {"handler", "refused"}
       /\ UNCHANGED rateVars

RateSpec == RateInit /\ [][RateNext]_rateVars
=============================================================================
