-------------------------- MODULE BatchProperties -------------------------
(***************************************************************************)
(* What must be true of batches, beside what is true of their items.       *)
(***************************************************************************)
EXTENDS Batch, SubmitProperties

\* The values of the variables of a batch; its results never outrun its
\* items, and they are complete in the answer.
BatchTypeOK ==
    /\ stage \in [Batches -> {"idle", "loop"} \cup Over]
    /\ ended \subseteq Batches
    /\ results \in [Batches -> Seq(Replies \cup {Skipped})]
    /\ \A b \in Batches : Len(results[b]) <= Len(Items[b])

\* "Each result is parallel to its input index" (server.go): the answer holds
\* the results of a prefix of the items, each at its index and none missing,
\* and after it nothing but the context's error, for items of which neither
\* store has ever heard.
ResultsParallel ==
    \A b \in Batches : stage[b] = "answered" =>
        \E n \in 0..Len(Items[b]) :
            /\ Len(results[b]) = Len(Items[b])
            /\ \A i \in 1..n : results[b][i] = reply[Items[b][i]]
            /\ \A i \in n+1..Len(Items[b]) :
                  results[b][i] = Skipped /\ pc[Items[b][i]] = "idle"

\* A submission repeated inside one batch is answered with the id its first
\* occurrence was given, never with a pending duplicate: the item before has
\* stored its id by the time the next one starts, whatever other calls do, and
\* no entry expires that the key depends on.
RepeatsAnswered ==
    \A b \in Batches : \A i, j \in DOMAIN results[b] :
        LET first == Items[b][i]  again == Items[b][j]
        IN  (/\ i < j
             /\ reply[first].code = "OK"
             /\ key[again] = key[first]
             /\ faults[key[again]] = 0
             /\ Alive(again)) => results[b][j] = results[b][i]

\* Items of one batch do not block each other: who is told of a pending
\* duplicate shares its key with a call from outside the batch, because an
\* item that failed has freed its claim before the next one starts.
NoSelfBlock ==
    \A b \in Batches : \A c \in Calling(b) :
        reply[c].code = "AlreadyExists" =>
            \E other \in Calls \ Calling(b) : key[other] = key[c]

\* A batch that was received is answered, unless its process dies: it does
\* not wait for claims of others, however long those stay.
BatchAnswered ==
    \A b \in Batches : (stage[b] = "loop") ~> (stage[b] \in {"answered", "lost"})

\* A batch does to the stores only what its items would do as submissions of
\* their own, so every safety property of submissions holds with batches too.
AsSubmissions == Spec
=============================================================================
