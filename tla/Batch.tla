-------------------------------- MODULE Batch -------------------------------
(***************************************************************************)
(* IntakeServer.BatchSubmitApplication beside single submissions.          *)
(*                                                                         *)
(* A batch runs submitOne over its items, one after the other, on one      *)
(* context.  Items[b] is the sequence of the calls it makes; calls that    *)
(* belong to no batch are single submissions.  What a call does is Submit; *)
(* this module adds who starts it, on which context, and what becomes of   *)
(* its result.                                                             *)
(***************************************************************************)
EXTENDS Submit, Sequences

CONSTANTS
    Batches,
    Items,          \* the calls of each batch, in order
    MaxBatchSize

Calling(b) == {Items[b][i] : i \in DOMAIN Items[b]}

ASSUME BatchAssumption ==
    /\ Items \in [Batches -> Seq(Calls)]
    /\ \A b \in Batches : \A i, j \in DOMAIN Items[b] :
          Items[b][i] = Items[b][j] => i = j
    /\ \A a, b \in Batches : a # b => Calling(a) \cap Calling(b) = {}
    /\ MaxBatchSize \in Nat

Singles == Calls \ UNION {Calling(b) : b \in Batches}

VARIABLES
    stage,      \* of each batch: not received, in the loop, or how it ended
    results,    \* the results written so far, parallel to the items
    ended       \* the batches whose context has ended

batchVars == <<stage, results, ended>>
allVars == <<vars, batchVars>>

\* The result of an item that found the context already over.
Skipped == Failure("ctx")

BatchInit ==
    /\ Init
    /\ stage = [b \in Batches |-> "idle"]
    /\ results = [b \in Batches |-> <<>>]
    /\ ended = {}

-----------------------------------------------------------------------------
Move(b, from, to) ==
    /\ stage[b] = from
    /\ stage' = [stage EXCEPT ![b] = to]

WriteResult(b, result) == results' = [results EXCEPT ![b] = Append(@, result)]

\* The loop of b has reached item c.
AtItem(b, c) ==
    /\ stage[b] = "loop"
    /\ Len(results[b]) < Len(Items[b])
    /\ c = Items[b][Len(results[b]) + 1]

Receive(b) ==
    /\ Len(Items[b]) \in 1..MaxBatchSize
    /\ Move(b, "idle", "loop")
    /\ UNCHANGED <<vars, results, ended>>

RefuseBatch(b) ==
    /\ Len(Items[b]) \notin 1..MaxBatchSize
    /\ Move(b, "idle", "refused")
    /\ UNCHANGED <<vars, results, ended>>

\* A mistake: only a single submission is checked against Redis first.
StartUnchecked(b, c) ==
    /\ AtItem(b, c)
    /\ b \notin ended
    /\ Goto(c, "idle", "claim")
    /\ \E k \in Keys : key' = [key EXCEPT ![c] = k]
    /\ UNCHANGED <<cache, repoVars, reply, cancelled, faults, batchVars>>

\* ctx.Err() is nil: transform and validate, then on to the first round trip.
StartItem(b, c) ==
    /\ AtItem(b, c)
    /\ b \notin ended
    /\ Reject(c) \/ \E k \in Keys : Arrive(c, k)
    /\ UNCHANGED batchVars

\* A mistake: the loop stops at the first item that finds the context over.
BreakAtItem(b, c) ==
    /\ AtItem(b, c)
    /\ b \in ended
    /\ pc[c] = "idle"
    /\ Move(b, "loop", "answered")
    /\ UNCHANGED <<vars, results, ended>>

SkipItem(b, c) ==
    /\ AtItem(b, c)
    /\ b \in ended
    /\ pc[c] = "idle"
    /\ WriteResult(b, Skipped)
    /\ UNCHANGED <<vars, stage, ended>>

\* COMMIT's context ending in flight ends the context of the whole batch.
ItemStep(b, c) ==
    /\ AtItem(b, c)
    /\ Step(c)
    /\ ended' = IF c \in cancelled' THEN ended \cup {b} ELSE ended
    /\ UNCHANGED <<stage, results>>

\* A mistake: the loop tries a pending duplicate again before it goes on.
CollectOrRetry(b, c) ==
    /\ AtItem(b, c)
    /\ pc[c] = "done"
    /\ IF reply[c] = Failure("AlreadyExists")
        THEN /\ pc' = [pc EXCEPT ![c] = "check"]
             /\ reply' = [reply EXCEPT ![c] = NoReply]
             /\ UNCHANGED <<cache, repoVars, key, cancelled, faults, results>>
        ELSE WriteResult(b, reply[c]) /\ UNCHANGED vars
    /\ UNCHANGED <<stage, ended>>

\* A mistake: the loop writes a result without moving on to the next item.
CollectAnyItem(b, c) ==
    /\ stage[b] = "loop"
    /\ pc[c] = "done"
    /\ WriteResult(b, reply[c])
    /\ UNCHANGED <<vars, stage, ended>>

CollectItem(b, c) ==
    /\ AtItem(b, c)
    /\ pc[c] = "done"
    /\ WriteResult(b, reply[c])
    /\ UNCHANGED <<vars, stage, ended>>

Respond(b) ==
    /\ Len(results[b]) = Len(Items[b])
    /\ Move(b, "loop", "answered")
    /\ UNCHANGED <<vars, results, ended>>

-----------------------------------------------------------------------------
(* The environment of a batch.                                             *)

\* The context ends, under the item that is running or between two items.
EndContext(b) ==
    /\ "cancel" \in Faults
    /\ stage[b] = "loop"
    /\ b \notin ended
    /\ ended' = ended \cup {b}
    /\ \/ \E c \in Calling(b) : AtItem(b, c) /\ Cancel(c)
       \/ /\ \A c \in Calling(b) : ~Running(c)
          /\ UNCHANGED vars
    /\ UNCHANGED <<stage, results>>

\* The process, or the goroutine of the request, stops.
Lose(b) ==
    /\ "crash" \in Faults
    /\ Move(b, "loop", "lost")
    /\ \/ \E c \in Calling(b) : AtItem(b, c) /\ Crash(c)
       \/ /\ \A c \in Calling(b) : ~Running(c)
          /\ UNCHANGED vars
    /\ UNCHANGED <<results, ended>>

\* Single submissions and Redis go on as in Submit.
Single(c) ==
    /\ \/ \E k \in Keys : Arrive(c, k)
       \/ Reject(c) \/ Step(c) \/ Cancel(c) \/ Crash(c) \/ Retry(c)
    /\ UNCHANGED batchVars

Expiry(k) ==
    /\ ExpirePending(k) \/ ExpireCommitted(k)
    /\ UNCHANGED batchVars

Over == {"refused", "answered", "lost"}

AllOver ==
    /\ \A b \in Batches : stage[b] \in Over
    /\ \A c \in Singles : pc[c] \in Finished
    /\ UNCHANGED allVars

Loop(b) ==
    \/ \E c \in Calling(b) : \/ StartItem(b, c) \/ SkipItem(b, c)
                             \/ ItemStep(b, c) \/ CollectItem(b, c)
    \/ Respond(b)

BatchNext ==
    \/ \E b \in Batches : \/ Receive(b) \/ RefuseBatch(b) \/ Loop(b)
                          \/ EndContext(b) \/ Lose(b)
    \/ \E c \in Singles : Single(c)
    \/ \E k \in Keys : Expiry(k)
    \/ AllOver

BatchSpec == BatchInit /\ [][BatchNext]_allVars

\* The goroutine of a batch that has been received is scheduled.  Nothing is
\* assumed of the other calls: the loop waits for none of them.
BatchFairness == \A b \in Batches : WF_allVars(Loop(b))

FairBatchSpec == BatchSpec /\ BatchFairness
=============================================================================
