---------------------------- MODULE BatchProofs -----------------------------
(***************************************************************************)
(* Batches add no behaviour to submissions, and answer every item at its   *)
(* index, for any batches over any calls and any set of failures.          *)
(***************************************************************************)
EXTENDS BatchProperties, RegisterProofs, SequenceTheorems

-----------------------------------------------------------------------------
(* The items of a batch.                                                   *)

LEMMA ItemsAreCalls ==
    ASSUME NEW b \in Batches
    PROVE  /\ Items[b] \in Seq(Calls)
           /\ Len(Items[b]) \in Nat
           /\ DOMAIN Items[b] = 1..Len(Items[b])
           /\ Calling(b) \subseteq Calls
<1>1. Items[b] \in Seq(Calls)
  BY BatchAssumption
<1>2. QED
  BY <1>1 DEF Calling

-----------------------------------------------------------------------------
(* A batch is its items.                                                   *)

\* Every step of the system with batches is a step of submissions, or none.
LEMMA BatchStep == [BatchNext]_allVars => [Next]_vars
<1> SUFFICES ASSUME [BatchNext]_allVars PROVE [Next]_vars
  OBVIOUS
<1>1. ASSUME NEW c \in Calls, Step(c) \/ Reject(c) \/ Cancel(c) \/ Crash(c) \/ Retry(c)
      PROVE  Next
  BY <1>1 DEF Next
<1>2. ASSUME NEW b \in Batches, Receive(b) \/ RefuseBatch(b) \/ Respond(b)
      PROVE  UNCHANGED vars
  BY <1>2 DEF Receive, RefuseBatch, Respond
<1>3. ASSUME NEW b \in Batches, NEW c \in Calling(b),
             StartItem(b, c) \/ SkipItem(b, c) \/ ItemStep(b, c) \/ CollectItem(b, c)
      PROVE  Next \/ UNCHANGED vars
  <2>1. c \in Calls
    BY ItemsAreCalls
  <2>2. QED
    BY <1>1, <1>3, <2>1 DEF StartItem, SkipItem, ItemStep, CollectItem, Next
<1>4. ASSUME NEW b \in Batches, EndContext(b) \/ Lose(b)
      PROVE  Next \/ UNCHANGED vars
  BY <1>1, <1>4, ItemsAreCalls DEF EndContext, Lose
<1>5. ASSUME NEW c \in Singles, Single(c)
      PROVE  Next
  <2>1. c \in Calls
    BY DEF Singles
  <2>2. QED
    BY <1>1, <1>5, <2>1 DEF Single, Next
<1>6. ASSUME NEW k \in Keys, Expiry(k)
      PROVE  Next
  BY <1>6 DEF Expiry, Next
<1>7. CASE AllOver \/ UNCHANGED allVars
  BY <1>7 DEF AllOver, allVars
<1>8. QED
  BY <1>2, <1>3, <1>4, <1>5, <1>6, <1>7 DEF BatchNext, Loop

\* A batch does to the stores what its items would do as independent
\* submissions on the contexts they happen to share (BatchSubmitApplication
\* touches neither store outside submitOne).
THEOREM BatchRefines == BatchSpec => AsSubmissions
<1>1. BatchInit => Init
  BY DEF BatchInit
<1>2. QED
  BY <1>1, BatchStep, PTL DEF BatchSpec, Spec, AsSubmissions

\* So what holds of submissions holds of the items of batches, and of items
\* and single submissions against each other.
THEOREM BatchesKeepPromises ==
    BatchSpec => [](/\ TypeOK /\ TxProgress /\ DualWrite /\ PublishedIdsAreRows
                    /\ Budget /\ SameAnswer /\ FailedLeavesNothing)
<1>1. BatchSpec => Spec
  BY BatchRefines DEF AsSubmissions
<1>2. QED
  BY <1>1, TypeHolds, DualWriteCorrect, PublishedCorrect, BudgetCorrect,
     SameAnswerCorrect, FailedLeavesNothingCorrect, PTL

\* Batches and single submissions together are the write-once register too.
THEOREM BatchesAreIdempotent ==
    BatchSpec /\ []Uncharged => IdempotentRegister /\ EntryRetained
<1>1. BatchSpec => Spec
  BY BatchRefines DEF AsSubmissions
<1>2. QED
  BY <1>1, RegisterRefined, EntryRetainedCorrect, PTL

-----------------------------------------------------------------------------
(* The results of a batch.                                                 *)

\* The other calls stay where they are, and keep their answers.
Moves(c) == \A x \in Calls \ {c} : pc'[x] = pc[x] /\ reply'[x] = reply[x]

\* No other call is moved by a step of submitOne, or by its environment.
LEMMA OwnMove ==
    ASSUME TypeOK, NEW c \in Calls,
           Step(c) \/ Reject(c) \/ Cancel(c) \/ Crash(c) \/ Retry(c)
             \/ \E k \in Keys : Arrive(c, k)
    PROVE  Moves(c)
<1> USE DEF TypeOK, Moves
<1>1. CASE Step(c)
  BY <1>1
     DEF Step, CheckHit, CheckMiss, ClaimWon, ClaimLost, ClaimRetried,
         ClaimFailed, RecheckHit, RecheckMiss, Begin, InsertApp,
         InsertEvent, InsertFails, CommitTx, CommitLost, SetId, SetRetried,
         ReleaseClaim, ReleaseRetried, Goto, Return
<1>2. CASE Reject(c) \/ Cancel(c) \/ Crash(c) \/ Retry(c) \/ \E k \in Keys : Arrive(c, k)
  BY <1>2 DEF Reject, Cancel, Crash, Retry, Arrive, Goto, Return
<1>3. QED
  BY <1>1, <1>2

\* submitOne takes no step before it has been called.
LEMMA StepStarted ==
    ASSUME NEW c \in Calls, Step(c)
    PROVE  pc[c] # "idle"
BY DEF Step, CheckHit, CheckMiss, ClaimWon, ClaimLost, ClaimRetried,
       ClaimFailed, RecheckHit, RecheckMiss, Begin, InsertApp, InsertEvent,
       InsertFails, CommitTx, CommitLost, SetId, SetRetried, ReleaseClaim,
       ReleaseRetried, Goto, Return, Inserting, Setting, Releasing

\* The first m results are those of items that are done, the others are the
\* context's error, for items that are still idle and will stay so.
SplitAt(b, m) ==
    LET n == Len(results[b])
    IN  /\ \A i \in 1..m : /\ pc[Items[b][i]] = "done"
                           /\ results[b][i] = reply[Items[b][i]]
        /\ \A i \in m+1..n : /\ pc[Items[b][i]] = "idle"
                             /\ results[b][i] = Skipped
        /\ m < n => /\ b \in ended
                    /\ n < Len(Items[b]) => pc[Items[b][n + 1]] = "idle"

\* Where a batch stands: items after the current one have not been started,
\* and the results so far are split at some index.
Parallel(b) ==
    LET n == Len(results[b])
    IN  /\ results[b] \in Seq(Replies \cup {Skipped})
        /\ n <= Len(Items[b])
        /\ stage[b] = "answered" => n = Len(Items[b])
        /\ \A i \in n+2..Len(Items[b]) : pc[Items[b][i]] = "idle"
        /\ \E m \in 0..n : SplitAt(b, m)

BatchInv ==
    /\ stage \in [Batches -> {"idle", "loop"} \cup Over]
    /\ ended \subseteq Batches
    /\ results \in [Batches -> Seq(Replies \cup {Skipped})]
    /\ \A b \in Batches : Parallel(b)

LEMMA BatchInvInit == BatchInit => BatchInv
<1> SUFFICES ASSUME BatchInit PROVE BatchInv
  OBVIOUS
<1>1. ASSUME NEW b \in Batches PROVE Parallel(b)
  <2>1. results[b] = <<>> /\ stage[b] = "idle"
    BY DEF BatchInit
  <2>2. \A i \in DOMAIN Items[b] : pc[Items[b][i]] = "idle"
    BY ItemsAreCalls DEF BatchInit, Init
  <2>3. SplitAt(b, 0)
    BY <2>1 DEF SplitAt
  <2>4. QED
    BY <2>1, <2>2, <2>3, ItemsAreCalls DEF Parallel
<1>2. QED
  BY <1>1 DEF BatchInit, BatchInv

\* A step that writes no result of b and moves no item of it but the current
\* one, which does not start once the context is over, keeps b in order.
LEMMA ParallelKept ==
    ASSUME NEW b \in Batches, Parallel(b),
           results'[b] = results[b],
           stage'[b] = "answered" =>
               stage[b] = "answered" \/ Len(results[b]) = Len(Items[b]),
           b \in ended => b \in ended',
           \A i \in 1..Len(Items[b]) : i # Len(results[b]) + 1 =>
               /\ pc'[Items[b][i]] = pc[Items[b][i]]
               /\ reply'[Items[b][i]] = reply[Items[b][i]],
           b \in ended /\ Len(results[b]) < Len(Items[b])
             /\ pc[Items[b][Len(results[b]) + 1]] = "idle"
               => pc'[Items[b][Len(results[b]) + 1]] = "idle"
    PROVE  Parallel(b)'
<1> DEFINE n == Len(results[b])
<1>1. n \in Nat /\ Len(Items[b]) \in Nat
  BY ItemsAreCalls DEF Parallel
<1>2. PICK m \in 0..n : SplitAt(b, m)
  BY DEF Parallel
<1>3. SplitAt(b, m)'
  <2>1. ASSUME NEW i \in 1..n
        PROVE  /\ pc'[Items[b][i]] = pc[Items[b][i]]
               /\ reply'[Items[b][i]] = reply[Items[b][i]]
    BY <1>1 DEF Parallel
  <2>2. ASSUME NEW i \in 1..m
        PROVE  pc'[Items[b][i]] = "done" /\ results'[b][i] = reply'[Items[b][i]]
    <3>1. i \in 1..n
      BY <1>1, <1>2
    <3>2. pc[Items[b][i]] = "done" /\ results[b][i] = reply[Items[b][i]]
      BY <1>2 DEF SplitAt
    <3>3. QED
      BY <2>1, <3>1, <3>2
  <2>3. ASSUME NEW i \in m+1..n
        PROVE  pc'[Items[b][i]] = "idle" /\ results'[b][i] = Skipped
    <3>1. i \in 1..n
      BY <1>1, <1>2
    <3>2. pc[Items[b][i]] = "idle" /\ results[b][i] = Skipped
      BY <1>2 DEF SplitAt
    <3>3. QED
      BY <2>1, <3>1, <3>2
  <2>4. m < n => /\ b \in ended'
                 /\ n < Len(Items[b]) => pc'[Items[b][n + 1]] = "idle"
    BY <1>2 DEF SplitAt
  <2>5. QED
    BY <2>2, <2>3, <2>4 DEF SplitAt
<1>4. ASSUME NEW i \in n+2..Len(Items[b])
      PROVE  pc'[Items[b][i]] = "idle"
  <2>1. i \in 1..Len(Items[b]) /\ i # n + 1
    BY <1>1
  <2>2. pc[Items[b][i]] = "idle"
    BY DEF Parallel
  <2>3. QED
    BY <2>1, <2>2
<1>5. QED
  BY <1>1, <1>3, <1>4 DEF Parallel

\* The item a loop has reached is no other item of any batch.
LEMMA ItemAlone ==
    ASSUME NEW b \in Batches, NEW c \in Calling(b), AtItem(b, c), Parallel(b)
    PROVE  /\ c \in Calls
           /\ Len(results[b]) \in Nat
           /\ Len(results[b]) + 1 \in 1..Len(Items[b])
           /\ c = Items[b][Len(results[b]) + 1]
           /\ \A i \in 1..Len(Items[b]) : i # Len(results[b]) + 1 => Items[b][i] # c
           /\ \A a \in Batches \ {b} : \A i \in 1..Len(Items[a]) : Items[a][i] # c
<1>1. /\ c \in Calls
      /\ Len(results[b]) \in Nat
      /\ Len(results[b]) + 1 \in 1..Len(Items[b])
      /\ c = Items[b][Len(results[b]) + 1]
  BY ItemsAreCalls DEF AtItem, Parallel
<1>2. \A i \in 1..Len(Items[b]) : i # Len(results[b]) + 1 => Items[b][i] # c
  BY <1>1, ItemsAreCalls, BatchAssumption
<1>3. ASSUME NEW a \in Batches \ {b}, NEW i \in 1..Len(Items[a])
      PROVE  Items[a][i] # c
  <2>1. Items[a][i] \in Calling(a)
    BY ItemsAreCalls DEF Calling
  <2>2. QED
    BY <2>1, BatchAssumption
<1>4. QED
  BY <1>1, <1>2, <1>3

\* The loop writes the result of the item it has reached.
LEMMA ParallelGrows ==
    ASSUME NEW b \in Batches, NEW c \in Calling(b), TypeOK, BatchInv,
           SkipItem(b, c) \/ CollectItem(b, c)
    PROVE  Parallel(b)'
<1> DEFINE n == Len(results[b])
           result == IF SkipItem(b, c) THEN Skipped ELSE reply[c]
<1>1. AtItem(b, c) /\ stage[b] = "loop" /\ Parallel(b)
  BY DEF SkipItem, CollectItem, AtItem, BatchInv
<1>2. /\ c \in Calls
      /\ n \in Nat
      /\ n + 1 \in 1..Len(Items[b])
      /\ c = Items[b][n + 1]
      /\ Len(Items[b]) \in Nat
  BY <1>1, ItemAlone, ItemsAreCalls
<1>3. results'[b] = Append(results[b], result)
  <2>1. CASE SkipItem(b, c)
    BY <2>1 DEF SkipItem, WriteResult, BatchInv
  <2>2. CASE CollectItem(b, c) /\ ~SkipItem(b, c)
    BY <2>2 DEF CollectItem, WriteResult, BatchInv
  <2>3. QED
    BY <2>1, <2>2
<1>4. UNCHANGED <<pc, reply, stage, ended>>
  BY DEF SkipItem, CollectItem, vars
<1>5. result \in Replies \cup {Skipped}
  BY <1>2 DEF TypeOK
<1>6. /\ results'[b] \in Seq(Replies \cup {Skipped})
      /\ Len(results'[b]) = n + 1
      /\ \A i \in 1..n : results'[b][i] = results[b][i]
      /\ results'[b][n + 1] = result
  BY <1>1, <1>3, <1>5 DEF Parallel
<1>7. PICK m \in 0..n : SplitAt(b, m)
  BY <1>1 DEF Parallel
<1>8. \E k \in 0..n + 1 : SplitAt(b, k)'
  <2>1. CASE SkipItem(b, c)
    <3>1. pc[c] = "idle" /\ b \in ended
      BY <2>1 DEF SkipItem
    <3>2. n + 1 < Len(Items[b]) => pc[Items[b][n + 2]] = "idle"
      BY <1>1, <1>2 DEF Parallel
    <3>3. \A i \in 1..m : /\ pc'[Items[b][i]] = "done"
                          /\ results'[b][i] = reply'[Items[b][i]]
      BY <1>2, <1>4, <1>6, <1>7 DEF SplitAt
    <3>4. ASSUME NEW i \in m+1..n + 1
          PROVE  pc'[Items[b][i]] = "idle" /\ results'[b][i] = Skipped
      <4>1. CASE i = n + 1
        BY <1>2, <1>4, <1>6, <2>1, <3>1, <4>1
      <4>2. CASE i # n + 1
        <5>1. i \in m+1..n /\ i \in 1..n
          BY <1>2, <4>2
        <5>2. QED
          BY <1>4, <1>6, <1>7, <5>1 DEF SplitAt
      <4>3. QED
        BY <4>1, <4>2
    <3>5. SplitAt(b, m)'
      <4>1. Len(results'[b]) < Len(Items[b])
              => pc'[Items[b][Len(results'[b]) + 1]] = "idle"
        BY <1>2, <1>4, <1>6, <3>2
      <4>2. \A i \in m+1..Len(results'[b]) : /\ pc'[Items[b][i]] = "idle"
                                             /\ results'[b][i] = Skipped
        BY <1>6, <3>4
      <4>3. QED
        BY <1>4, <3>1, <3>3, <4>1, <4>2 DEF SplitAt
    <3>6. QED
      BY <1>2, <3>5
  <2>2. CASE CollectItem(b, c) /\ ~SkipItem(b, c)
    <3>1. pc[c] = "done"
      BY <2>2 DEF CollectItem
    <3>2. m = n
      BY <1>2, <1>7, <3>1 DEF SplitAt
    <3>3. PICK p \in Nat : p = n + 1
      BY <1>2
    <3>4. \A i \in 1..p : /\ pc'[Items[b][i]] = "done"
                          /\ results'[b][i] = reply'[Items[b][i]]
      BY <1>2, <1>4, <1>6, <1>7, <2>2, <3>1, <3>2, <3>3 DEF SplitAt
    <3>5. SplitAt(b, p)'
      BY <1>2, <1>6, <3>3, <3>4 DEF SplitAt
    <3>6. QED
      BY <1>2, <3>3, <3>5
  <2>3. QED
    BY <2>1, <2>2
<1>9. QED
  BY <1>1, <1>2, <1>4, <1>6, <1>8 DEF Parallel

\* A step that writes no result, and moves only a call that is not an item of
\* b or is the one its loop has reached and started.
LEMMA ParallelOfMove ==
    ASSUME TypeOK, BatchInv, NEW b \in Batches, NEW c \in Calls, Moves(c),
           results'[b] = results[b],
           b \in ended => b \in ended',
           stage'[b] = "answered" => stage[b] = "answered",
           \/ c \notin Calling(b)
           \/ AtItem(b, c) /\ (pc[c] = "idle" => b \notin ended)
    PROVE  Parallel(b)'
<1> DEFINE n == Len(results[b])
<1>1. Parallel(b) /\ n \in Nat /\ Len(Items[b]) \in Nat
  BY ItemsAreCalls DEF BatchInv, Parallel
<1>2. \A i \in 1..Len(Items[b]) : Items[b][i] \in Calling(b) /\ Items[b][i] \in Calls
  BY ItemsAreCalls DEF Calling
<1>3. CASE c \notin Calling(b)
  <2>1. \A i \in 1..Len(Items[b]) : /\ pc'[Items[b][i]] = pc[Items[b][i]]
                                    /\ reply'[Items[b][i]] = reply[Items[b][i]]
    BY <1>2, <1>3 DEF Moves
  <2>2. n < Len(Items[b]) => n + 1 \in 1..Len(Items[b])
    BY <1>1
  <2>3. QED
    BY <1>1, <2>1, <2>2, ParallelKept
<1>4. CASE c \in Calling(b) /\ AtItem(b, c) /\ (pc[c] = "idle" => b \notin ended)
  <2>1. /\ c = Items[b][n + 1]
        /\ \A i \in 1..Len(Items[b]) : i # n + 1 => Items[b][i] # c
    BY <1>1, <1>4, ItemAlone
  <2>2. \A i \in 1..Len(Items[b]) : i # n + 1 =>
          /\ pc'[Items[b][i]] = pc[Items[b][i]]
          /\ reply'[Items[b][i]] = reply[Items[b][i]]
    BY <1>2, <2>1 DEF Moves
  <2>3. QED
    BY <1>1, <1>4, <2>1, <2>2, ParallelKept
<1>5. QED
  BY <1>3, <1>4

\* A step that moves no call and writes no result of b.
LEMMA ParallelOfRest ==
    ASSUME BatchInv, NEW b \in Batches,
           UNCHANGED <<pc, reply>>,
           results'[b] = results[b],
           b \in ended => b \in ended',
           stage'[b] = "answered" =>
               stage[b] = "answered" \/ Len(results[b]) = Len(Items[b])
    PROVE  Parallel(b)'
BY ParallelKept DEF BatchInv

\* What the loop of b does to the other batches.
LEMMA ParallelOfLoop ==
    ASSUME TypeOK, BatchInv, NEW b \in Batches, NEW c \in Calling(b),
           AtItem(b, c), Moves(c), pc[c] = "idle" => b \notin ended,
           results' = results, ended \subseteq ended',
           \A a \in Batches : stage'[a] = "answered" => stage[a] = "answered"
    PROVE  \A a \in Batches : Parallel(a)'
<1> SUFFICES ASSUME NEW a \in Batches PROVE Parallel(a)'
  OBVIOUS
<1>1. c \in Calls /\ (a # b => c \notin Calling(a))
  BY ItemsAreCalls, BatchAssumption
<1>2. QED
  BY <1>1, ParallelOfMove

LEMMA BatchInvStep ==
    ASSUME TypeOK, BatchInv, [BatchNext]_allVars
    PROVE  BatchInv'
<1> USE DEF BatchInv, Over
<1>1. ASSUME NEW b \in Batches, Receive(b) \/ RefuseBatch(b) \/ Respond(b)
      PROVE  BatchInv'
  <2>1. ASSUME NEW a \in Batches PROVE Parallel(a)'
    BY <1>1, ParallelOfRest DEF Receive, RefuseBatch, Respond, Move, vars
  <2>2. QED
    BY <1>1, <2>1 DEF Receive, RefuseBatch, Respond, Move
<1>2. ASSUME NEW b \in Batches, NEW c \in Calling(b),
             SkipItem(b, c) \/ CollectItem(b, c)
      PROVE  BatchInv'
  <2>1. Parallel(b)'
    BY <1>2, ParallelGrows
  <2>2. ASSUME NEW a \in Batches \ {b} PROVE Parallel(a)'
    BY <1>2, ParallelOfRest DEF SkipItem, CollectItem, WriteResult, vars
  <2>3. results'[b] \in Seq(Replies \cup {Skipped})
    BY <2>1 DEF Parallel
  <2>4. QED
    BY <1>2, <2>1, <2>2, <2>3 DEF SkipItem, CollectItem, WriteResult
<1>3. ASSUME NEW b \in Batches, NEW c \in Calling(b), StartItem(b, c)
      PROVE  BatchInv'
  <2>1. Moves(c)
    BY <1>3, OwnMove, ItemsAreCalls DEF StartItem
  <2>2. \A a \in Batches : Parallel(a)'
    BY <1>3, <2>1, ParallelOfLoop DEF StartItem, batchVars
  <2>3. QED
    BY <1>3, <2>2 DEF StartItem, batchVars
<1>4. ASSUME NEW b \in Batches, NEW c \in Calling(b), ItemStep(b, c)
      PROVE  BatchInv'
  <2>1. Moves(c) /\ pc[c] # "idle"
    BY <1>4, OwnMove, StepStarted, ItemsAreCalls DEF ItemStep
  <2>2. \A a \in Batches : Parallel(a)'
    BY <1>4, <2>1, ParallelOfLoop DEF ItemStep
  <2>3. QED
    BY <1>4, <2>2 DEF ItemStep
<1>5. ASSUME NEW b \in Batches, EndContext(b) \/ Lose(b)
      PROVE  BatchInv'
  <2>1. /\ results' = results
        /\ ended \subseteq ended' /\ ended' \subseteq Batches
        /\ stage' \in [Batches -> {"idle", "loop"} \cup Over]
        /\ \A a \in Batches : stage'[a] = "answered" => stage[a] = "answered"
    BY <1>5 DEF EndContext, Lose, Move
  <2>2. ASSUME NEW c \in Calling(b), AtItem(b, c), Cancel(c) \/ Crash(c)
        PROVE  \A a \in Batches : Parallel(a)'
    <3>1. Moves(c) /\ pc[c] # "idle"
      BY <2>2, OwnMove, ItemsAreCalls DEF Cancel, Crash, Running
    <3>2. QED
      BY <2>1, <2>2, <3>1, ParallelOfLoop
  <2>3. CASE UNCHANGED vars
    BY <2>1, <2>3, ParallelOfRest DEF vars
  <2>4. \A a \in Batches : Parallel(a)'
    BY <1>5, <2>2, <2>3 DEF EndContext, Lose
  <2>5. QED
    BY <2>1, <2>4
<1>6. ASSUME NEW c \in Singles, Single(c)
      PROVE  BatchInv'
  <2>1. c \in Calls /\ \A b \in Batches : c \notin Calling(b)
    BY DEF Singles
  <2>2. Moves(c)
    BY <1>6, <2>1, OwnMove DEF Single
  <2>3. ASSUME NEW b \in Batches PROVE Parallel(b)'
    BY <1>6, <2>1, <2>2, ParallelOfMove DEF Single, batchVars
  <2>4. QED
    BY <1>6, <2>3 DEF Single, batchVars
<1>7. ASSUME NEW k \in Keys, Expiry(k)
      PROVE  BatchInv'
  <2>1. ASSUME NEW b \in Batches PROVE Parallel(b)'
    BY <1>7, ParallelOfRest
       DEF Expiry, ExpirePending, ExpireCommitted, Expire, batchVars
  <2>2. QED
    BY <1>7, <2>1 DEF Expiry, batchVars
<1>8. CASE UNCHANGED allVars
  <2>1. ASSUME NEW b \in Batches PROVE Parallel(b)'
    BY <1>8, ParallelOfRest DEF allVars, batchVars, vars
  <2>2. QED
    BY <1>8, <2>1 DEF allVars, batchVars
<1>9. QED
  BY <1>1, <1>2, <1>3, <1>4, <1>5, <1>6, <1>7, <1>8
     DEF BatchNext, Loop, AllOver

LEMMA BatchInvHolds == BatchSpec => []BatchInv
<1>1. BatchSpec => []TypeOK
  BY BatchesKeepPromises, PTL
<1>2. QED
  BY <1>1, BatchInvInit, BatchInvStep, PTL DEF BatchSpec

\* The variables of a batch have their types, and its results never outrun
\* its items.
THEOREM BatchTypeCorrect == BatchSpec => []BatchTypeOK
<1>1. BatchInv => BatchTypeOK
  BY DEF BatchInv, BatchTypeOK, Parallel
<1>2. QED
  BY <1>1, BatchInvHolds, PTL

\* Whatever ends a batch's context, and wherever, its answer holds one result
\* per item: the item's own at its index, and the context's error from the
\* first item on that found it over, for items that were never begun.
THEOREM ResultsParallelCorrect == BatchSpec => []ResultsParallel
<1>1. BatchInv => ResultsParallel
  <2> SUFFICES ASSUME BatchInv, NEW b \in Batches, stage[b] = "answered"
               PROVE  \E n \in 0..Len(Items[b]) :
                          /\ Len(results[b]) = Len(Items[b])
                          /\ \A i \in 1..n : results[b][i] = reply[Items[b][i]]
                          /\ \A i \in n+1..Len(Items[b]) :
                                results[b][i] = Skipped /\ pc[Items[b][i]] = "idle"
    BY DEF ResultsParallel
  <2>1. Parallel(b)
    BY DEF BatchInv
  <2>2. QED
    BY <2>1 DEF Parallel, SplitAt
<1>2. QED
  BY <1>1, BatchInvHolds, PTL

-----------------------------------------------------------------------------
(* One item at a time, on one context.                                     *)

\* At most one item of a batch is being served, or has died: the one its loop
\* has reached.
LEMMA OneAtATime ==
    ASSUME BatchInv, NEW b \in Batches, NEW c \in Calling(b),
           pc[c] \notin {"idle", "done"}
    PROVE  /\ Len(results[b]) < Len(Items[b])
           /\ c = Items[b][Len(results[b]) + 1]
           /\ \A d \in Calling(b) \ {c} : pc[d] \in {"idle", "done"}
<1> DEFINE n == Len(results[b])
<1>1. Parallel(b) /\ n \in Nat /\ n <= Len(Items[b]) /\ Len(Items[b]) \in Nat
  BY ItemsAreCalls DEF BatchInv, Parallel
<1>2. PICK m \in 0..n : SplitAt(b, m)
  BY <1>1 DEF Parallel
<1>3. ASSUME NEW i \in 1..Len(Items[b]), i # n + 1
      PROVE  pc[Items[b][i]] \in {"idle", "done"}
  <2>1. CASE i \in 1..m
    BY <1>2, <2>1 DEF SplitAt
  <2>2. CASE i \in m+1..n
    BY <1>2, <2>2 DEF SplitAt
  <2>3. CASE i \in n+2..Len(Items[b])
    BY <1>1, <2>3 DEF Parallel
  <2>4. QED
    BY <1>1, <1>2, <1>3, <2>1, <2>2, <2>3
<1>4. ASSUME NEW d \in Calling(b)
      PROVE  \E i \in 1..Len(Items[b]) : d = Items[b][i]
  BY ItemsAreCalls DEF Calling
<1>5. PICK i \in 1..Len(Items[b]) : c = Items[b][i]
  BY <1>4
<1>6. i = n + 1
  BY <1>3, <1>5
<1>7. QED
  BY <1>1, <1>3, <1>4, <1>5, <1>6

\* What the items of a batch share: its context, and its end.
Context(b) ==
    \A c \in Calling(b) :
        /\ c \in cancelled => b \in ended
        /\ b \in ended /\ Running(c) => c \in cancelled
        /\ Running(c) => stage[b] = "loop"
        /\ pc[c] = "dead" => stage[b] = "lost"

ContextInv == \A b \in Batches : Context(b)

LEMMA ContextInit == BatchInit => ContextInv
BY ItemsAreCalls DEF BatchInit, Init, ContextInv, Context, Running

\* A call from elsewhere does nothing to the context of a batch.
LEMMA ContextOfOthers ==
    ASSUME TypeOK, NEW b \in Batches, Context(b),
           stage'[b] = stage[b], b \in ended' <=> b \in ended,
           UNCHANGED <<pc, cancelled>> \/ \E x \in Calls \ Calling(b) : Turn(x)
    PROVE  Context(b)'
<1>1. ASSUME NEW c \in Calling(b)
      PROVE  pc'[c] = pc[c] /\ (c \in cancelled' <=> c \in cancelled)
  BY OthersStay, ItemsAreCalls DEF Alive
<1>2. QED
  BY <1>1 DEF Context, Running

\* A turn of the one item that may be running.
LEMMA ContextOfItem ==
    ASSUME TypeOK, NEW b \in Batches, NEW c \in Calling(b), Context(b), Turn(c),
           \A d \in Calling(b) \ {c} : pc[d] \in {"idle", "done"},
           b \in ended => b \in ended',
           c \in cancelled' => b \in ended',
           b \in ended' /\ Running(c)' => c \in cancelled',
           Running(c)' => stage'[b] = "loop",
           pc'[c] = "dead" => stage'[b] = "lost"
    PROVE  Context(b)'
<1>1. ASSUME NEW d \in Calling(b) \ {c}
      PROVE  /\ pc'[d] \in {"idle", "done"}
             /\ d \in cancelled' <=> d \in cancelled
  BY OthersStay, ItemsAreCalls DEF Alive
<1>2. QED
  BY <1>1 DEF Context, Running, Finished

\* While no item runs or has died, the stage of the batch and the end of its
\* context may change.
LEMMA ContextOfRest ==
    ASSUME NEW b \in Batches, Context(b), UNCHANGED vars,
           \A c \in Calling(b) : pc[c] \in {"idle", "done"},
           b \in ended => b \in ended'
    PROVE  Context(b)'
BY DEF Context, Running, Finished, vars

LEMMA ContextStep ==
    ASSUME TypeOK, BatchInv, ContextInv, [BatchNext]_allVars
    PROVE  ContextInv'
<1> SUFFICES ASSUME NEW a \in Batches PROVE Context(a)'
  BY DEF ContextInv
<1> USE DEF BatchInv
<1>0. Context(a)
  BY DEF ContextInv
<1>1. ASSUME NEW b \in Batches, NEW c \in Calling(b), AtItem(b, c), Turn(c), a # b,
             stage'[a] = stage[a], a \in ended' <=> a \in ended
      PROVE  Context(a)'
  <2>1. c \in Calls \ Calling(a)
    BY <1>1, ItemsAreCalls, BatchAssumption
  <2>2. QED
    BY <1>0, <1>1, <2>1, ContextOfOthers
<1>2. ASSUME NEW b \in Batches, NEW c \in Calling(b), AtItem(b, c)
      PROVE  /\ c \in Calls
             /\ \A d \in Calling(b) \ {c} : pc[d] \in {"idle", "done"}
  <2>1. ASSUME NEW d \in Calling(b), pc[d] \notin {"idle", "done"}
        PROVE  d = c
    BY <1>2, <2>1, OneAtATime DEF AtItem
  <2>2. QED
    BY <2>1, ItemsAreCalls
<1>3. ASSUME NEW b \in Batches, Receive(b) \/ RefuseBatch(b) \/ Respond(b)
      PROVE  Context(a)'
  <2>1. CASE a # b
    BY <1>0, <1>3, <2>1, ContextOfOthers
       DEF Receive, RefuseBatch, Respond, Move, vars
  <2>2. CASE a = b
    <3>1. UNCHANGED <<vars, ended>>
      BY <1>3 DEF Receive, RefuseBatch, Respond
    <3>2. ASSUME NEW c \in Calling(a), pc[c] \notin {"idle", "done"}
          PROVE  FALSE
      <4>1. stage[a] \in {"loop", "lost"}
        BY <1>0, <3>2 DEF Context, Running, Finished
      <4>2. Len(results[a]) < Len(Items[a]) /\ Len(results[a]) \in Nat
        BY <3>2, OneAtATime DEF Parallel
      <4>3. QED
        BY <1>3, <2>2, <4>1, <4>2, ItemsAreCalls
           DEF Receive, RefuseBatch, Respond, Move
    <3>3. QED
      BY <1>0, <3>1, <3>2, ContextOfRest
  <2>3. QED
    BY <2>1, <2>2
<1>4. ASSUME NEW b \in Batches, NEW c \in Calling(b),
             SkipItem(b, c) \/ CollectItem(b, c)
      PROVE  Context(a)'
  BY <1>0, <1>4, ContextOfOthers DEF SkipItem, CollectItem, vars
<1>5. ASSUME NEW b \in Batches, NEW c \in Calling(b), StartItem(b, c)
      PROVE  Context(a)'
  <2>1. Turn(c) /\ AtItem(b, c) /\ b \notin ended /\ UNCHANGED batchVars
    BY <1>5 DEF StartItem, Turn
  <2>2. CASE a # b
    BY <1>1, <2>1, <2>2 DEF batchVars
  <2>3. CASE a = b
    <3>1. pc'[c] # "dead" /\ (c \in cancelled' <=> c \in cancelled)
      BY <1>2, <1>5, <2>1 DEF StartItem, Arrive, Reject, Return, Goto, TypeOK
    <3>2. c \in cancelled' => b \in ended
      BY <1>0, <2>3, <3>1 DEF Context
    <3>3. QED
      BY <1>0, <1>2, <2>1, <2>3, <3>1, <3>2, ContextOfItem DEF AtItem, batchVars
  <2>4. QED
    BY <2>2, <2>3
<1>6. ASSUME NEW b \in Batches, NEW c \in Calling(b), ItemStep(b, c)
      PROVE  Context(a)'
  <2>1. Turn(c) /\ AtItem(b, c) /\ Step(c) /\ UNCHANGED <<stage, results>>
    BY <1>6 DEF ItemStep, Turn
  <2>2. CASE a # b
    BY <1>1, <1>6, <2>1, <2>2 DEF ItemStep
  <2>3. CASE a = b
    <3>1. Running(c) /\ pc'[c] # "dead" /\ cancelled \subseteq cancelled'
      BY <1>2, <2>1
         DEF Step, CheckHit, CheckMiss, ClaimWon, ClaimLost, ClaimRetried,
             ClaimFailed, RecheckHit, RecheckMiss, Begin, InsertApp,
             InsertEvent, InsertFails, CommitTx, CommitLost, SetId, SetRetried,
             ReleaseClaim, ReleaseRetried, Goto, Return, Inserting, Setting,
             Releasing, Running, Finished, TypeOK
    <3>2. b \in ended' => c \in cancelled'
      BY <1>0, <1>6, <2>3, <3>1 DEF Context, ItemStep
    <3>3. c \in cancelled' => b \in ended'
      BY <1>6 DEF ItemStep
    <3>4. b \in ended => b \in ended'
      BY <1>6 DEF ItemStep
    <3>5. QED
      BY <1>0, <1>2, <2>1, <2>3, <3>1, <3>2, <3>3, <3>4, ContextOfItem DEF AtItem
  <2>4. QED
    BY <2>2, <2>3
<1>7. ASSUME NEW b \in Batches, EndContext(b)
      PROVE  Context(a)'
  <2>1. stage[b] = "loop" /\ stage' = stage /\ ended' = ended \cup {b}
    BY <1>7 DEF EndContext
  <2>2. ASSUME NEW c \in Calling(b), AtItem(b, c), Cancel(c)
        PROVE  Context(a)'
    <3>1. Turn(c)
      BY <2>2 DEF Turn
    <3>2. CASE a # b
      BY <1>1, <2>1, <2>2, <3>1, <3>2
    <3>3. CASE a = b
      <4>1. c \in cancelled' /\ pc' = pc
        BY <1>2, <2>2 DEF Cancel
      <4>2. pc[c] # "dead"
        BY <2>2 DEF Cancel, Running, Finished
      <4>3. QED
        BY <1>0, <1>2, <2>1, <2>2, <3>1, <3>3, <4>1, <4>2, ContextOfItem
    <3>4. QED
      BY <3>2, <3>3
  <2>3. ASSUME \A c \in Calling(b) : ~Running(c), UNCHANGED vars
        PROVE  Context(a)'
    BY <1>0, <2>1, <2>3 DEF Context, Running, vars
  <2>4. QED
    BY <1>7, <2>2, <2>3 DEF EndContext
<1>8. ASSUME NEW b \in Batches, Lose(b)
      PROVE  Context(a)'
  <2>1. stage[b] = "loop" /\ stage' = [stage EXCEPT ![b] = "lost"] /\ ended' = ended
    BY <1>8 DEF Lose, Move
  <2>2. ASSUME NEW c \in Calling(b), AtItem(b, c), Crash(c)
        PROVE  Context(a)'
    <3>1. Turn(c)
      BY <2>2 DEF Turn
    <3>2. CASE a # b
      BY <1>1, <2>1, <2>2, <3>1, <3>2
    <3>3. CASE a = b
      <4>1. cancelled' = cancelled /\ pc'[c] = "dead"
        BY <1>2, <2>2 DEF Crash, TypeOK
      <4>2. ~Running(c)' /\ stage'[b] = "lost"
        BY <2>1, <4>1 DEF Running, Finished
      <4>3. c \in cancelled' => b \in ended'
        BY <1>0, <2>1, <3>3, <4>1 DEF Context
      <4>4. QED
        BY <1>0, <1>2, <2>1, <2>2, <3>1, <3>3, <4>1, <4>2, <4>3, ContextOfItem
    <3>4. QED
      BY <3>2, <3>3
  <2>3. ASSUME \A c \in Calling(b) : ~Running(c), UNCHANGED vars
        PROVE  Context(a)'
    BY <1>0, <2>1, <2>3 DEF Context, Running, vars
  <2>4. QED
    BY <1>8, <2>2, <2>3 DEF Lose
<1>9. ASSUME NEW c \in Singles, Single(c)
      PROVE  Context(a)'
  BY <1>0, <1>9, ContextOfOthers DEF Single, Turn, Singles, batchVars
<1>10. ASSUME NEW k \in Keys, Expiry(k)
       PROVE  Context(a)'
  BY <1>0, <1>10, ContextOfOthers
     DEF Expiry, ExpirePending, ExpireCommitted, Expire, batchVars
<1>11. CASE UNCHANGED allVars
  BY <1>0, <1>11, ContextOfOthers DEF allVars, vars, batchVars
<1>12. QED
  BY <1>3, <1>4, <1>5, <1>6, <1>7, <1>8, <1>9, <1>10, <1>11
     DEF BatchNext, Loop, AllOver

LEMMA ContextHolds == BatchSpec => []ContextInv
<1>1. BatchSpec => []TypeOK
  BY BatchesKeepPromises, PTL
<1>2. QED
  BY <1>1, BatchInvHolds, ContextInit, ContextStep, PTL DEF BatchSpec

-----------------------------------------------------------------------------
(* Items of one batch and their keys.                                      *)

\* No call from outside batch b submits what its item c submits.
Alone(b, c) == \A other \in Calls \ Calling(b) : key[other] # key[c]

\* What the pipeline proofs provide at every step of a batch.
ItemsInv == TypeOK /\ TxProgress /\ RecordInv /\ SlotInv /\ BatchInv /\ ContextInv

LEMMA ItemsInvHolds ==
    ASSUME "redis" \notin Faults
    PROVE  BatchSpec => []ItemsInv
<1>1. BatchSpec => Spec
  BY BatchRefines DEF AsSubmissions
<1>2. ItemsInv <=> TypeOK /\ TxProgress /\ RecordInv /\ SlotInv /\ BatchInv /\ ContextInv
  BY DEF ItemsInv
<1>3. Spec => []SlotInv
  BY SlotHolds
<1>4. QED
  BY <1>1, <1>2, <1>3, TypeHolds, RecordHolds, BatchInvHolds, ContextHolds, PTL

\* A call keeps its key.
LEMMA KeyStays ==
    ASSUME TypeOK, [Next]_vars, NEW r \in Calls, key[r] # NoKey
    PROVE  key'[r] = key[r]
<1>1. CASE Turn(r)
  BY <1>1
     DEF Turn, Arrive, Reject, Cancel, Crash, Retry, Goto, TypeOK, Step, CheckHit,
         CheckMiss, ClaimWon, ClaimLost, ClaimRetried, ClaimFailed, RecheckHit,
         RecheckMiss, Begin, InsertApp, InsertEvent, InsertFails, CommitTx,
         CommitLost, SetId, SetRetried, ReleaseClaim, ReleaseRetried
<1>2. QED
  BY <1>1, Turns, OthersStay DEF ExpirePending, ExpireCommitted, Expire, vars

\* While an item of b runs on a good context, no other item of b has left a
\* sentinel: who failed was alive to free its claim.
LEMMA NoSentinelOfOurs ==
    ASSUME ItemsInv, NEW b \in Batches, NEW c \in Calling(b), Alone(b, c),
           Alive(c), pc[c] \in {"check", "claim"}
    PROVE  ~Pending(key[c])
<1> USE DEF ItemsInv
<1>1. c \in Calls /\ key[c] \in Keys
  BY ItemsAreCalls, KeyKnown
<1>2. Running(c) /\ b \notin ended /\ stage[b] = "loop"
  BY <1>1 DEF Running, Finished, Alive, ContextInv, Context
<1>3. ASSUME NEW r \in Calls, Claimant(r, key[c])
      PROVE  FALSE
  <2>1. r \in Calling(b)
    BY <1>3 DEF Alone, Claimant
  <2>2. r \notin cancelled /\ pc[r] # "dead"
    BY <1>2, <2>1 DEF ContextInv, Context
  <2>3. r # c
    BY <1>3, <2>2 DEF Claimant, Inserting, Setting, Releasing
  <2>4. pc[r] \in {"idle", "done"}
    BY <2>1, <2>3, OneAtATime
  <2>5. QED
    BY <1>3, <2>2, <2>4 DEF Claimant, Inserting, Setting, Releasing
<1>4. QED
  BY <1>1, <1>3 DEF SlotInv, PendingOwned

\* An item whose key nobody else submits never finds the slot taken.
Unblocked(b, c) ==
    Alone(b, c) => /\ pc[c] = "claim" /\ Alive(c) => ~Hit(key[c])
                   /\ pc[c] # "recheck"
                   /\ reply[c].code # "AlreadyExists"

LEMMA UnblockedStep ==
    ASSUME "redis" \notin Faults, ItemsInv, [Next]_vars,
           NEW b \in Batches, NEW c \in Calling(b), Unblocked(b, c)
    PROVE  Unblocked(b, c)'
<1> SUFFICES ASSUME Alone(b, c)'
             PROVE  /\ pc'[c] = "claim" /\ Alive(c)' => ~Hit(key[c])'
                    /\ pc'[c] # "recheck"
                    /\ reply'[c].code # "AlreadyExists"
  BY DEF Unblocked
<1> USE DEF ItemsInv
<1>0. c \in Calls
  BY ItemsAreCalls
<1>1. CASE key[c] = NoKey
  <2>1. /\ pc[c] \in {"idle", "done"}
        /\ reply[c] \in {NoReply, Failure("InvalidArgument")}
    BY <1>0, <1>1 DEF TypeOK, RecordInv, AnsweredWhenDone
  <2>2. /\ pc'[c] \notin {"claim", "recheck"}
        /\ reply'[c] \in {NoReply, Failure("InvalidArgument")}
    <3>1. CASE Turn(c)
      BY <1>0, <2>1, <3>1
         DEF Turn, Arrive, Reject, Cancel, Crash, Retry, Running, Finished,
             Goto, Return, TypeOK, Step, CheckHit, CheckMiss, ClaimWon, ClaimLost,
             ClaimRetried, ClaimFailed, RecheckHit, RecheckMiss, Begin, InsertApp,
             InsertEvent, InsertFails, CommitTx, CommitLost, SetId, SetRetried,
             ReleaseClaim, ReleaseRetried, Inserting, Setting, Releasing
    <3>2. QED
      BY <1>0, <2>1, <3>1, Turns, OthersStay
         DEF ExpirePending, ExpireCommitted, Expire, vars
  <2>3. QED
    BY <2>2 DEF NoReply, Failure
<1>2. CASE key[c] # NoKey
  <2>1. key[c] \in Keys /\ key'[c] = key[c]
    BY <1>0, <1>2, KeyStays DEF TypeOK
  <2>2. Alone(b, c)
    <3>1. ASSUME NEW other \in Calls \ Calling(b), key[other] = key[c]
          PROVE  FALSE
      BY <1>2, <2>1, <3>1, KeyStays DEF Alone
    <3>2. QED
      BY <3>1 DEF Alone
  <2>3. /\ pc[c] = "claim" /\ Alive(c) => ~Hit(key[c])
        /\ pc[c] # "recheck"
        /\ reply[c].code # "AlreadyExists"
    BY <2>2 DEF Unblocked
  <2>4. CASE CheckMiss(c)
    BY <1>0, <2>1, <2>3, <2>4
       DEF CheckMiss, RedisFails, Goto, Alive, Hit, TypeOK
  <2>5. ~ClaimLost(c) /\ ~ClaimRetried(c)
    <3>1. ASSUME ClaimLost(c)
          PROVE  FALSE
      <4>1. pc[c] = "claim" /\ Alive(c) /\ cache[key[c]] # Empty
        BY <3>1 DEF ClaimLost, Goto, Claimable
      <4>2. ~Pending(key[c]) /\ ~Hit(key[c])
        BY <2>2, <2>3, <4>1, NoSentinelOfOurs
      <4>3. QED
        BY <2>1, <4>1, <4>2
           DEF TypeOK, DedupTypeOK, Entries, Pending, PendingEntry, Hit,
               CommittedEntry
    <3>2. QED
      BY <3>1 DEF ClaimRetried
  <2>6. CASE Step(c) /\ ~CheckMiss(c)
    BY <1>0, <2>3, <2>5, <2>6
       DEF Step, CheckHit, ClaimWon, ClaimFailed, RecheckHit, RecheckMiss, Begin,
           InsertApp, InsertEvent, InsertFails, CommitTx, CommitLost, SetId,
           SetRetried, ReleaseClaim, ReleaseRetried, Return, Goto, Answer, Failure,
           Inserting, Setting, Releasing, TypeOK
  <2>7. CASE \/ \E k \in Keys : Arrive(c, k)
             \/ Reject(c) \/ Cancel(c) \/ Crash(c) \/ Retry(c)
    BY <1>0, <2>3, <2>7
       DEF Arrive, Reject, Cancel, Crash, Retry, Return, Goto, Failure, NoReply,
           Alive, TypeOK
  <2>8. CASE /\ pc'[c] = pc[c] /\ reply'[c] = reply[c]
             /\ Alive(c)' <=> Alive(c)
             /\ ~Step(c)
    <3>1. ASSUME pc[c] = "claim", ~Hit(key[c])
          PROVE  ~Hit(key[c])'
      <4>1. ASSUME NEW r \in Calls, SetId(r), key[r] = key[c]
            PROVE  FALSE
        <5>1. r \in Calling(b)
          BY <2>2, <4>1 DEF Alone
        <5>2. pc[r] \in {"idle", "done"}
          BY <2>8, <3>1, <4>1, <5>1, OneAtATime DEF Step
        <5>3. QED
          BY <4>1, <5>2 DEF SetId, Return, Goto, Setting
      <4>2. ASSUME NEW r \in Calls, ClaimWon(r), key[r] = key[c]
            PROVE  cache'[key[c]] = PendingEntry
        BY <2>1, <4>2 DEF ClaimWon, Claim, Write, TypeOK, DedupTypeOK
      <4>3. cache'[key[c]] \in {cache[key[c]], Empty, PendingEntry}
        BY <2>1, <4>1, <4>2, SlotOfStep
      <4>4. QED
        BY <2>1, <3>1, <4>3, IntakeAssumption DEF Hit, Empty, PendingEntry
    <3>2. QED
      BY <2>3, <2>8, <3>1
  <2>9. QED
    BY <1>0, <2>4, <2>6, <2>7, <2>8, Turns, OthersStay
       DEF Turn, Alive, ExpirePending, ExpireCommitted, Expire, vars
<1>3. QED
  BY <1>1, <1>2

\* Items of a batch do not block each other: who is refused as a pending
\* duplicate shares its key with a call from outside the batch.
THEOREM NoSelfBlockCorrect ==
    ASSUME "redis" \notin Faults
    PROVE  BatchSpec => []NoSelfBlock
<1> DEFINE Inv == \A b \in Batches : \A c \in Calling(b) : Unblocked(b, c)
<1>1. BatchInit => Inv
  BY ItemsAreCalls DEF BatchInit, Init, Unblocked, NoReply
<1>2. ItemsInv /\ Inv /\ [BatchNext]_allVars => Inv'
  BY BatchStep, UnblockedStep
<1>3. Inv => NoSelfBlock
  BY DEF NoSelfBlock, Unblocked, Alone
<1>4. QED
  BY <1>1, <1>2, <1>3, ItemsInvHolds, PTL DEF BatchSpec

\* An item that repeats an earlier one of its batch, which was told an id, is
\* on the way to the same answer, as far as it goes at all.
Follows(first, again) ==
    (/\ reply[first].code = "OK"
     /\ key[again] = key[first]
     /\ faults[key[again]] = 0
     /\ Alive(again))
        => pc[again] \in {"check", "dead"} \/ reply[again].code = "OK"

LEMMA FollowsStep ==
    ASSUME "redis" \notin Faults, ItemsInv, Answerable, [Next]_vars,
           TypeOK', PublishedIdsAreRows',
           NEW b \in Batches, NEW i \in DOMAIN Items[b], NEW j \in DOMAIN Items[b],
           i < j, Follows(Items[b][i], Items[b][j])
    PROVE  Follows(Items[b][i], Items[b][j])'
<1> DEFINE first == Items[b][i]
           again == Items[b][j]
<1> SUFFICES ASSUME reply'[first].code = "OK",
                    key'[again] = key'[first],
                    faults'[key'[again]] = 0,
                    Alive(again)'
             PROVE  pc'[again] \in {"check", "dead"} \/ reply'[again].code = "OK"
  BY DEF Follows, Alive
<1> USE DEF ItemsInv
<1>0. /\ first \in Calling(b) /\ again \in Calling(b)
      /\ first \in Calls /\ again \in Calls
      /\ first # again
  <2>1. i \in 1..Len(Items[b]) /\ j \in 1..Len(Items[b]) /\ i # j
    BY ItemsAreCalls
  <2>2. QED
    BY <2>1, ItemsAreCalls, BatchAssumption DEF Calling
<1>1. key'[first] \in Keys
  <2>1. Row(reply'[first].id, key'[first]) \in Rows
    BY <1>0 DEF PublishedIdsAreRows, TypeOK, RepoTypeOK
  <2>2. QED
    BY <2>1 DEF Rows, Row
<1>2. CASE key[again] = NoKey
  <2>1. Arrive(again, key'[again])
    <3>1. key'[again] # key[again]
      BY <1>1, <1>2, IntakeAssumption
    <3>2. ~Step(again)
      BY <1>0, <1>2, CacheOfStep, IntakeAssumption
    <3>3. \E k \in Keys : Arrive(again, k) /\ k = key'[again]
      BY <1>0, <3>1, <3>2, Turns, OthersStay
         DEF Turn, Arrive, Reject, Cancel, Crash, Retry, ExpirePending,
             ExpireCommitted, Expire, vars, TypeOK
    <3>4. QED
      BY <3>3
  <2>2. QED
    BY <1>0, <2>1 DEF Arrive, Goto, TypeOK
<1>3. CASE key[again] # NoKey
  <2>1. key[again] = key'[again] /\ key[again] \in Keys
    BY <1>0, <1>1, <1>3, KeyStays
  <2>2. faults[key[again]] = 0
    BY <2>1, ChargesStay
  <2>3. reply[first].code = "OK" /\ key[first] = key[again]
    <3>1. ASSUME pc[first] \notin {"idle", "done"}
          PROVE  FALSE
      <4>1. first = Items[b][Len(results[b]) + 1] /\ Len(results[b]) \in Nat
            /\ Len(results[b]) < Len(Items[b])
        BY <1>0, <3>1, OneAtATime DEF BatchInv, Parallel
      <4>2. i = Len(results[b]) + 1
        <5>1. Len(results[b]) + 1 \in DOMAIN Items[b]
          BY <4>1, ItemsAreCalls
        <5>2. QED
          BY <4>1, <5>1, BatchAssumption
      <4>3. j \in Len(results[b]) + 2..Len(Items[b])
        BY <4>1, <4>2, ItemsAreCalls
      <4>4. pc[again] = "idle"
        BY <4>3 DEF BatchInv, Parallel
      <4>5. QED
        BY <1>0, <1>3, <4>4 DEF TypeOK
    <3>2. ASSUME reply[first].code # "OK"
          PROVE  FALSE
      <4>1. pc[first] \in {"idle", "done"} /\ reply'[first] # reply[first]
        BY <3>1, <3>2
      <4>2. ~Step(first)
        BY <4>1
           DEF Step, CheckHit, CheckMiss, ClaimWon, ClaimLost, ClaimRetried,
               ClaimFailed, RecheckHit, RecheckMiss, Begin, InsertApp, InsertEvent,
               InsertFails, CommitTx, CommitLost, SetId, SetRetried, ReleaseClaim,
               ReleaseRetried, Return, Goto, Inserting, Setting, Releasing
      <4>3. ~(Reject(first) \/ Retry(first))
        BY <1>0 DEF Reject, Retry, Return, Failure, NoReply, TypeOK
      <4>4. QED
        BY <1>0, <4>1, <4>2, <4>3, Turns, OthersStay
           DEF Turn, Arrive, Cancel, Crash, ExpirePending, ExpireCommitted, Expire,
               vars
    <3>3. QED
      BY <1>0, <2>1, <3>2, ToldStays
  <2>4. CASE Retry(again)
    BY <1>0, <2>4 DEF Retry, Goto, TypeOK
  <2>5. CASE ~Retry(again)
    <3>1. Alive(again)
      <4>1. Step(again) => cancelled \subseteq cancelled'
        BY DEF Step, CheckHit, CheckMiss, ClaimWon, ClaimLost, ClaimRetried,
               ClaimFailed, RecheckHit, RecheckMiss, Begin, InsertApp,
               InsertEvent, InsertFails, CommitTx, CommitLost, SetId, SetRetried,
               ReleaseClaim, ReleaseRetried
      <4>2. QED
        BY <1>0, <2>5, <4>1, Turns, OthersStay
           DEF Turn, Alive, Arrive, Reject, Cancel, Crash, ExpirePending,
               ExpireCommitted, Expire, vars
    <3>2. CASE reply[again].code = "OK"
      BY <1>0, <3>2, ToldStays
    <3>3. CASE pc[again] = "dead"
      <4>1. ~Turn(again)
        BY <2>5, <3>3
           DEF Turn, Arrive, Reject, Cancel, Crash, Running, Finished, Step,
               CheckHit, CheckMiss, ClaimWon, ClaimLost, ClaimRetried,
               ClaimFailed, RecheckHit, RecheckMiss, Begin, InsertApp,
               InsertEvent, InsertFails, CommitTx, CommitLost, SetId, SetRetried,
               ReleaseClaim, ReleaseRetried, Return, Goto, Inserting, Setting,
               Releasing
      <4>2. pc'[again] = pc[again]
        BY <1>0, <4>1, Turns, OthersStay
           DEF ExpirePending, ExpireCommitted, Expire, vars
      <4>3. QED
        BY <3>3, <4>2
    <3>4. CASE pc[again] = "check"
      <4>1. first \notin cancelled
        BY <1>0, <3>1, <3>4 DEF ContextInv, Context, Running, Finished, Alive
      <4>2. Hit(key[again])
        BY <1>0, <2>2, <2>3, <4>1 DEF Answerable, Alive
      <4>3. CASE Step(again)
        <5>1. CheckHit(again)
          BY <3>1, <3>4, <4>2, <4>3
             DEF Step, CheckMiss, RedisFails, ClaimWon, ClaimLost, ClaimRetried,
                 ClaimFailed, RecheckHit, RecheckMiss, Begin, InsertApp,
                 InsertEvent, InsertFails, CommitTx, CommitLost, SetId,
                 SetRetried, ReleaseClaim, ReleaseRetried, Return, Goto,
                 Inserting, Setting, Releasing
        <5>2. QED
          BY <1>0, <5>1 DEF CheckHit, Return, Answer, TypeOK
      <4>4. CASE Cancel(again) \/ Crash(again)
        BY <1>0, <3>4, <4>4 DEF Cancel, Crash, TypeOK
      <4>5. ~(Reject(again) \/ \E k \in Keys : Arrive(again, k))
        BY <3>4 DEF Reject, Arrive, Return, Goto
      <4>6. CASE pc'[again] = pc[again]
        BY <3>4, <4>6
      <4>7. QED
        BY <1>0, <2>5, <4>3, <4>4, <4>5, <4>6, Turns, OthersStay
           DEF Turn, ExpirePending, ExpireCommitted, Expire, vars
    <3>5. QED
      BY <2>2, <2>3, <3>1, <3>2, <3>3, <3>4 DEF Follows
  <2>6. QED
    BY <2>4, <2>5
<1>4. QED
  BY <1>2, <1>3

\* A submission repeated inside a batch gets the id its first occurrence was
\* given: whatever other calls do meanwhile, the item before has stored it by
\* the time the next one asks Redis.
THEOREM RepeatsAnsweredCorrect ==
    ASSUME "redis" \notin Faults
    PROVE  BatchSpec => []RepeatsAnswered
<1> DEFINE Inv == \A b \in Batches : \A i, j \in DOMAIN Items[b] :
                      i < j => Follows(Items[b][i], Items[b][j])
<1>1. BatchInit => Inv
  <2> SUFFICES ASSUME BatchInit, NEW b \in Batches, NEW i \in DOMAIN Items[b]
               PROVE  reply[Items[b][i]].code # "OK"
    BY DEF Follows
  <2>1. Items[b][i] \in Calls
    BY ItemsAreCalls
  <2>2. QED
    BY <2>1 DEF BatchInit, Init, NoReply
<1>2. ItemsInv /\ Answerable /\ Inv /\ [BatchNext]_allVars
         /\ TypeOK' /\ PublishedIdsAreRows' => Inv'
  <2> SUFFICES ASSUME ItemsInv, Answerable, Inv, [BatchNext]_allVars,
                      TypeOK', PublishedIdsAreRows', NEW b \in Batches,
                      NEW i \in DOMAIN Items[b], NEW j \in DOMAIN Items[b], i < j
               PROVE  Follows(Items[b][i], Items[b][j])'
    OBVIOUS
  <2>1. Follows(Items[b][i], Items[b][j])
    OBVIOUS
  <2>2. QED
    BY <2>1, BatchStep, FollowsStep
<1>3. ASSUME TypeOK, BatchInv, PublishedIdsAreRows, SameAnswer, Inv,
             NEW b \in Batches, NEW i \in DOMAIN results[b], NEW j \in DOMAIN results[b],
             i < j,
             reply[Items[b][i]].code = "OK",
             key[Items[b][j]] = key[Items[b][i]],
             faults[key[Items[b][j]]] = 0,
             Alive(Items[b][j])
      PROVE  results[b][j] = results[b][i]
  <2> DEFINE n == Len(results[b])
             first == Items[b][i]
             again == Items[b][j]
  <2>1. /\ Parallel(b) /\ n \in Nat /\ n <= Len(Items[b])
        /\ i \in 1..n /\ j \in 1..n
        /\ i \in DOMAIN Items[b] /\ j \in DOMAIN Items[b]
    BY <1>3, ItemsAreCalls DEF BatchInv, Parallel
  <2>2. first \in Calls /\ again \in Calls
    BY <2>1, ItemsAreCalls
  <2>3. key[again] \in Keys
    <3>1. Row(reply[first].id, key[first]) \in Rows
      BY <1>3, <2>2 DEF PublishedIdsAreRows, TypeOK, RepoTypeOK
    <3>2. QED
      BY <1>3, <3>1 DEF Rows, Row
  <2>4. pc[again] # "idle"
    BY <1>3, <2>2, <2>3, IntakeAssumption DEF TypeOK
  <2>5. PICK m \in 0..n : SplitAt(b, m)
    BY <2>1 DEF Parallel
  <2>6. j \in 1..m /\ i \in 1..m
    <3>1. j \notin m+1..n
      BY <2>4, <2>5 DEF SplitAt
    <3>2. QED
      BY <1>3, <2>1, <2>5, <3>1
  <2>7. /\ results[b][i] = reply[first] /\ results[b][j] = reply[again]
        /\ pc[again] = "done"
    BY <2>5, <2>6 DEF SplitAt
  <2>8. reply[again].code = "OK"
    BY <1>3, <2>1, <2>7 DEF Follows
  <2>9. reply[again].id = reply[first].id
    BY <1>3, <2>2, <2>8 DEF SameAnswer
  <2>10. reply[again] = reply[first]
    <3>1. reply[again] \in Replies /\ reply[first] \in Replies
      BY <1>3, <2>2 DEF TypeOK
    <3>2. QED
      BY <1>3, <2>8, <2>9, <3>1 DEF Replies
  <2>11. QED
    BY <2>7, <2>10
<1>4. TypeOK /\ BatchInv /\ PublishedIdsAreRows /\ SameAnswer /\ Inv
         => RepeatsAnswered
  BY <1>3 DEF RepeatsAnswered
<1>5. BatchSpec => Spec
  BY BatchRefines DEF AsSubmissions
<1>6. Spec => []Answerable
  BY AnswerableHolds
<1>7. ItemsInv => TypeOK /\ BatchInv
  BY DEF ItemsInv
<1>8. QED
  BY <1>1, <1>2, <1>4, <1>5, <1>6, <1>7, ItemsInvHolds, PublishedCorrect,
     SameAnswerCorrect, PTL DEF BatchSpec
=============================================================================
