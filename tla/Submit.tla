------------------------------- MODULE Submit -------------------------------
(***************************************************************************)
(* IntakeServer.submitOne, run by many goroutines (of one or of several    *)
(* intake processes) against one Redis and one Postgres:                   *)
(*                                                                         *)
(*    transform -> validate -> dedup-check -> claim -> insert -> commit    *)
(*                                                                         *)
(* A step is one round trip to Redis or Postgres together with the Go code *)
(* that runs between it and the next one.  pc[r] names the round trip call *)
(* r is about to make:                                                     *)
(*                                                                         *)
(*    check      Deduper.Check           begin    pool.BeginTx             *)
(*    claim      Deduper.Claim           app      qtx.InsertApplication    *)
(*    recheck    the second Check        outbox   qtx.InsertOutbox         *)
(*                                       commit   tx.Commit                *)
(*    set        Deduper.Set, and        reset    its resend by go-redis   *)
(*    release    Deduper.Release, and    again    its resend by go-redis   *)
(***************************************************************************)
EXTENDS Dedup, Repo

VARIABLES
    pc,         \* where each call stands
    key,        \* the dedup key of its request
    reply,      \* what submitOne returned to it
    cancelled,  \* the calls whose context has ended
    faults      \* history: per key, the failures that may cost a duplicate

vars == <<cache, apps, outbox, tx, rec, pc, key, reply, cancelled, faults>>

Finished == {"done", "dead"}
Inserting == {"begin", "app", "outbox", "commit"}
Setting == {"set", "reset"}
Releasing == {"release", "again"}
Stages == {"idle", "check", "claim", "recheck"}
              \cup Inserting \cup Setting \cup Releasing \cup Finished

Replies == [code : Codes, id : Ids \cup {NoId}]

Init ==
    /\ DedupInit
    /\ RepoInit
    /\ pc = [r \in Calls |-> "idle"]
    /\ key = [r \in Calls |-> NoKey]
    /\ reply = [r \in Calls |-> NoReply]
    /\ cancelled = {}
    /\ faults = [k \in Keys |-> 0]

-----------------------------------------------------------------------------
(* Control flow, contexts and failures.                                    *)

Goto(r, from, to) ==
    /\ pc[r] = from
    /\ pc' = [pc EXCEPT ![r] = to]

Return(r, from, answer) ==
    /\ Goto(r, from, "done")
    /\ reply' = [reply EXCEPT ![r] = answer]

Charge(k) == faults' = [faults EXCEPT ![k] = @ + 1]

\* go-redis and pgx refuse to start a command on a context that has ended,
\* so for a cancelled call every round trip fails and changes nothing.
Alive(r) == r \notin cancelled
RedisFails(r) == ~Alive(r) \/ "redis" \in Faults
PostgresFails(r) == ~Alive(r) \/ "insert" \in Faults

\* The calls that may still commit a row for k, or free its slot.
Stake(k) == {r \in Calls : /\ key[r] = k
                           /\ pc[r] \in Inserting \cup Releasing
                           /\ Alive(r)}

-----------------------------------------------------------------------------
(* transform.For, the transformer and event.Validate touch nothing shared. *)

Arrive(r, k) ==
    /\ Goto(r, "idle", "check")
    /\ key' = [key EXCEPT ![r] = k]
    /\ UNCHANGED <<cache, repoVars, reply, cancelled, faults>>

Reject(r) ==
    /\ Return(r, "idle", Failure("InvalidArgument"))
    /\ UNCHANGED <<cache, repoVars, key, cancelled, faults>>

-----------------------------------------------------------------------------
(* Deduper.Check, the first time.  An error is a miss.                     *)

CheckHit(r) ==
    /\ Return(r, "check", Answer(cache[key[r]].value))
    /\ Alive(r)
    /\ Hit(key[r])
    /\ UNCHANGED <<cache, repoVars, key, cancelled, faults>>

CheckMiss(r) ==
    /\ Goto(r, "check", "claim")
    /\ ~Hit(key[r]) \/ RedisFails(r)
    /\ UNCHANGED <<cache, repoVars, key, reply, cancelled, faults>>

-----------------------------------------------------------------------------
(* Deduper.Claim.                                                          *)

ClaimWon(r) ==
    /\ Goto(r, "claim", "begin")
    /\ Alive(r)
    /\ Claimable(key[r])
    /\ Claim(key[r])
    /\ UNCHANGED <<repoVars, key, reply, cancelled, faults>>

\* A mistake: the call goes on to insert although the slot is taken.
ClaimLostIgnored(r) ==
    /\ Goto(r, "claim", "begin")
    /\ Alive(r)
    /\ ~Claimable(key[r])
    /\ UNCHANGED <<cache, repoVars, key, reply, cancelled, faults>>

ClaimLost(r) ==
    /\ Goto(r, "claim", "recheck")
    /\ Alive(r)
    /\ ~Claimable(key[r])
    /\ UNCHANGED <<cache, repoVars, key, reply, cancelled, faults>>

\* go-redis sends SET NX again after a network error; the first one had
\* taken the slot, so the call finds its own sentinel in the way.
ClaimRetried(r) ==
    /\ Goto(r, "claim", "recheck")
    /\ Alive(r)
    /\ "redis" \in Faults
    /\ Claimable(key[r])
    /\ Claim(key[r])
    /\ UNCHANGED <<repoVars, key, reply, cancelled, faults>>

\* An error is no reason to stop: the call inserts without a claim.
ClaimFailed(r) ==
    /\ Goto(r, "claim", "begin")
    /\ RedisFails(r)
    /\ \/ Alive(r) /\ Claimable(key[r]) /\ Claim(key[r])
       \/ UNCHANGED cache
    /\ IF Alive(r) THEN Charge(key[r]) ELSE UNCHANGED faults
    /\ UNCHANGED <<repoVars, key, reply, cancelled>>

-----------------------------------------------------------------------------
(* Check again after a lost claim.  An error is a miss here too.           *)

RecheckHit(r) ==
    /\ Return(r, "recheck", Answer(cache[key[r]].value))
    /\ Alive(r)
    /\ Hit(key[r])
    /\ UNCHANGED <<cache, repoVars, key, cancelled, faults>>

\* A mistake: the call frees a slot that is not its own on the way out.
RecheckMissFrees(r) ==
    /\ Return(r, "recheck", Failure("AlreadyExists"))
    /\ ~Hit(key[r])
    /\ Release(key[r])
    /\ UNCHANGED <<repoVars, key, cancelled, faults>>

RecheckMiss(r) ==
    /\ Return(r, "recheck", Failure("AlreadyExists"))
    /\ ~Hit(key[r]) \/ RedisFails(r)
    /\ UNCHANGED <<cache, repoVars, key, cancelled, faults>>

-----------------------------------------------------------------------------
(* PostgresRepo.InsertWithOutbox.                                          *)

Begin(r) ==
    /\ Goto(r, "begin", "app")
    /\ Alive(r)
    /\ BeginTx(r)
    /\ UNCHANGED <<cache, key, reply, cancelled, faults>>

InsertApp(r) ==
    /\ Goto(r, "app", "outbox")
    /\ Alive(r)
    /\ \E id \in Ids : InsertApplication(r, id, key[r])
    /\ UNCHANGED <<cache, key, reply, cancelled, faults>>

InsertEvent(r) ==
    /\ Goto(r, "outbox", "commit")
    /\ Alive(r)
    /\ InsertOutbox(r, key[r])
    /\ UNCHANGED <<cache, key, reply, cancelled, faults>>

\* Any of the four round trips, or build, fails; the deferred Rollback runs.
InsertFails(r) ==
    /\ \E stage \in Inserting : Goto(r, stage, "release")
    /\ PostgresFails(r)
    /\ Rollback(r)
    /\ UNCHANGED <<cache, key, reply, cancelled, faults>>

CommitTx(r) ==
    /\ Goto(r, "commit", "set")
    /\ Alive(r)
    /\ Commit(r)
    /\ UNCHANGED <<cache, key, reply, cancelled, faults>>

\* COMMIT takes effect but the handler sees an error: the answer is lost on
\* the way, or the context ends while pgx waits for it.
CommitLost(r) ==
    /\ Goto(r, "commit", "release")
    /\ Alive(r)
    /\ Commit(r)
    /\ \/ /\ "commit" \in Faults
          /\ Charge(key[r])
          /\ UNCHANGED cancelled
       \/ /\ "cancel" \in Faults
          /\ cancelled' = cancelled \cup {r}
          /\ UNCHANGED faults
    /\ UNCHANGED <<cache, key, reply>>

-----------------------------------------------------------------------------
(* After the insert.  The errors of Set and of Release are dropped.        *)

\* A mistake: the id is handed out but never stored.
SetIdForgotten(r) ==
    /\ \E stage \in Setting : Return(r, stage, Answer(rec[r]))
    /\ UNCHANGED <<cache, repoVars, key, cancelled, faults>>

SetId(r) ==
    /\ \E stage \in Setting : Return(r, stage, Answer(rec[r]))
    /\ \/ Alive(r) /\ Set(key[r], rec[r])
       \/ RedisFails(r) /\ UNCHANGED cache
    /\ UNCHANGED <<repoVars, key, cancelled, faults>>

\* go-redis loses the answer to a SET that took effect and sends it again.
SetRetried(r) ==
    /\ Goto(r, "set", "reset")
    /\ Alive(r)
    /\ "redis" \in Faults
    /\ Set(key[r], rec[r])
    /\ UNCHANGED <<repoVars, key, reply, cancelled, faults>>

\* A mistake: a failed insert leaves the claim in place.
ReleaseForgotten(r) ==
    /\ \E stage \in Releasing : Return(r, stage, Failure("Internal"))
    /\ UNCHANGED <<cache, repoVars, key, cancelled, faults>>

ReleaseClaim(r) ==
    /\ \E stage \in Releasing : Return(r, stage, Failure("Internal"))
    /\ \/ Alive(r) /\ Release(key[r])
       \/ RedisFails(r) /\ UNCHANGED cache
    /\ UNCHANGED <<repoVars, key, cancelled, faults>>

\* go-redis loses the answer to a DEL that took effect and sends it again.
ReleaseRetried(r) ==
    /\ Goto(r, "release", "again")
    /\ Alive(r)
    /\ "redis" \in Faults
    /\ Release(key[r])
    /\ Charge(key[r])
    /\ UNCHANGED <<repoVars, key, reply, cancelled>>

-----------------------------------------------------------------------------
(* The environment.                                                        *)

Running(r) == pc[r] \notin {"idle"} \cup Finished

\* The request's context ends between two round trips.
Cancel(r) ==
    /\ "cancel" \in Faults
    /\ Running(r)
    /\ Alive(r)
    /\ cancelled' = cancelled \cup {r}
    /\ UNCHANGED <<cache, repoVars, pc, key, reply, faults>>

\* The handler runs no further; its transaction, if any, is rolled back.
Crash(r) ==
    /\ "crash" \in Faults
    /\ Running(r)
    /\ pc' = [pc EXCEPT ![r] = "dead"]
    /\ Rollback(r)
    /\ UNCHANGED <<cache, key, reply, cancelled, faults>>

\* Losing an entry costs nothing while nobody has, or may still commit, a row.
Expire(k) ==
    /\ Expirable(k)
    /\ Release(k)
    /\ IF RowsOf(k) # {} \/ Stake(k) # {} THEN Charge(k) ELSE UNCHANGED faults
    /\ UNCHANGED <<repoVars, pc, key, reply, cancelled>>

ExpirePending(k) == "pendingTTL" \in Faults /\ ~Hit(k) /\ Expire(k)

ExpireCommitted(k) == "entryTTL" \in Faults /\ Hit(k) /\ Expire(k)

\* The client of a pending duplicate submits once more, on a new context.
Retry(r) ==
    /\ Goto(r, "done", "check")
    /\ ClientRetries
    /\ reply[r] = Failure("AlreadyExists")
    /\ reply' = [reply EXCEPT ![r] = NoReply]
    /\ cancelled' = cancelled \ {r}
    /\ UNCHANGED <<cache, repoVars, key, faults>>

\* Every call has ended: nothing is left to do.
Quiescent ==
    /\ \A r \in Calls : pc[r] \in Finished
    /\ UNCHANGED vars

-----------------------------------------------------------------------------
\* What the goroutine that runs submitOne does.
Step(r) ==
    \/ CheckHit(r) \/ CheckMiss(r)
    \/ ClaimWon(r) \/ ClaimLost(r) \/ ClaimRetried(r) \/ ClaimFailed(r)
    \/ RecheckHit(r) \/ RecheckMiss(r)
    \/ Begin(r) \/ InsertApp(r) \/ InsertEvent(r) \/ InsertFails(r)
    \/ CommitTx(r) \/ CommitLost(r)
    \/ SetId(r) \/ SetRetried(r) \/ ReleaseClaim(r) \/ ReleaseRetried(r)

Next ==
    \/ \E r \in Calls, k \in Keys : Arrive(r, k)
    \/ \E r \in Calls : \/ Reject(r) \/ Step(r)
                        \/ Cancel(r) \/ Crash(r) \/ Retry(r)
    \/ \E k \in Keys : ExpirePending(k) \/ ExpireCommitted(k)
    \/ Quiescent

Spec == Init /\ [][Next]_vars

\* Goroutines that have started are scheduled, Redis honours its TTLs, and
\* the client of a pending duplicate does not give up.
Fairness ==
    /\ \A r \in Calls : WF_vars(Step(r)) /\ WF_vars(Retry(r))
    /\ \A k \in Keys : WF_vars(ExpirePending(k))

FairSpec == Spec /\ Fairness
=============================================================================
