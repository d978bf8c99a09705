-------------------------- MODULE SubmitProperties --------------------------
(***************************************************************************)
(* What must be true of the submission pipeline of module Submit.          *)
(***************************************************************************)
EXTENDS Submit

\* The values of the variables.  A call has the key of its request from the
\* moment it arrives; only a rejected one never gets any.
TypeOK ==
    /\ DedupTypeOK
    /\ RepoTypeOK
    /\ pc \in [Calls -> Stages]
    /\ key \in [Calls -> Keys \cup {NoKey}]
    /\ \A r \in Calls :
          key[r] = NoKey <=>
              \/ pc[r] = "idle"
              \/ pc[r] = "done" /\ reply[r] = Failure("InvalidArgument")
    /\ reply \in [Calls -> Replies]
    /\ cancelled \subseteq Calls
    /\ faults \in [Keys -> Nat]

(***************************************************************************)
(* Duplicates.                                                             *)
(***************************************************************************)

\* The dedup slot of a key is a ticket.  Committed rows, live calls that can
\* still commit one or free the slot, and the free slot itself never exceed
\* one ticket plus the failures charged to the key: a Redis command of
\* unknown outcome around a claim, a COMMIT of unknown outcome, and an entry
\* that expires while somebody depends on it.
Budget ==
    \A k \in Keys :
        Cardinality(RowsOf(k)) + Cardinality(Stake(k))
            + (IF cache[k] = Empty THEN 1 ELSE 0) <= 1 + faults[k]

\* One application per (user, company, title), and at most one more for each
\* charged failure, whatever the calls interleave to.
RowBudget == \A k \in Keys : Cardinality(RowsOf(k)) <= 1 + faults[k]

\* submitOne never gives out, nor lets Redis give out, an id without a
\* committed application of the very key that was submitted.
PublishedIdsAreRows ==
    /\ \A k \in Keys : Hit(k) => Row(cache[k].value, k) \in apps
    /\ \A r \in Calls :
          reply[r].code = "OK" => Row(reply[r].id, key[r]) \in apps

\* Two callers who are both told an id for the same submission are told the
\* same one, as long as no failure has been charged to the key.
SameAnswer ==
    \A r, s \in Calls :
        (/\ reply[r].code = "OK"
         /\ reply[s].code = "OK"
         /\ key[r] = key[s]
         /\ faults[key[r]] = 0) => reply[r].id = reply[s].id

(***************************************************************************)
(* The dual write.                                                         *)
(***************************************************************************)

\* A call has a transaction open exactly while InsertWithOutbox runs, and at
\* each statement it holds what the statements before it wrote: nothing is
\* left open on any way out, and nobody tells an id whose row is not there.
TxProgress ==
    \A r \in Calls :
        LET row == Row(rec[r], key[r])
        IN  /\ pc[r] \notin {"app", "outbox", "commit"} => tx[r] = NoTx
            /\ pc[r] = "app" => tx[r] = Tx({}, {})
            /\ pc[r] = "outbox" => rec[r] \in Ids /\ tx[r] = Tx({row}, {})
            /\ pc[r] = "commit" => rec[r] \in Ids /\ tx[r] = Tx({row}, {Event(row)})
            /\ pc[r] \in Setting => rec[r] \in Ids /\ row \in apps

\* Readers of the database see an application if and only if they see its
\* outbox event, at every moment, whichever statement fails and wherever the
\* handler dies (InsertWithOutbox's doc comment).
DualWrite == outbox = {Event(row) : row \in apps}

\* A call that is alive to be told "Internal" has left no row behind, so
\* submitting again cannot duplicate it: true unless COMMIT's answer is lost.
FailedLeavesNothing ==
    \A r \in Calls :
        (/\ reply[r].code = "Internal"
         /\ Alive(r)
         /\ "commit" \notin Faults) => \A row \in apps : row.id # rec[r]

(***************************************************************************)
(* The dedup entry.                                                        *)
(***************************************************************************)

\* Once Redis holds a committed id it keeps it until the entry's TTL
\* ("how long a dedup entry is retained", dedup.go).
EntryRetained ==
    [][\A k \in Keys :
          Hit(k) => cache'[k] = cache[k] \/ ExpireCommitted(k)]_vars

\* When the submissions of a key are over, and none of them died or lost its
\* context on the way, Redis answers the next one with the id that was given
\* out, and lets it in if none was: whoever failed has freed its claim, whoever
\* succeeded has stored its id, and nobody has undone the work of another.
AtRest ==
    \A k \in Keys :
        LET asking == {r \in Calls : key[r] = k}
            told == {reply[r].id : r \in {s \in asking : reply[s].code = "OK"}}
        IN  (\A r \in asking : pc[r] = "done" /\ r \notin cancelled) =>
                IF told = {} THEN cache[k] = Empty ELSE told = {cache[k].value}

\* "Commit the real application ID so future Check calls return it"
\* (server.go): once no submission of its key is in flight any more, an id
\* that was given out is what Redis answers the next submission with.
Remembered ==
    \A r \in Calls :
        (/\ reply[r].code = "OK"
         /\ \A s \in Calls : key[s] = key[r] => ~Running(s))
            => cache[key[r]].value = reply[r].id

\* A call that waits for the answer of a pending duplicate gets through: a
\* client that retries errPendingDuplicate is told an id or a real failure,
\* whatever happened to the handler that held the claim.
GetsThrough ==
    \A r \in Calls :
        (pc[r] = "check") ~> (pc[r] = "dead" \/ reply[r].code \in {"OK", "Internal"})

-----------------------------------------------------------------------------
\* The committed applications of every key, by id.
Stored == [k \in Keys |-> {row.id : row \in RowsOf(k)}]

\* The register the pipeline implements while no failure is charged.
Promise == INSTANCE Register WITH
    store <- Stored,
    asked <- key,
    answer <- reply

\* submitOne implements the write-once register.
IdempotentRegister == Promise!Spec
=============================================================================
