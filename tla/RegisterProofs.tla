--------------------------- MODULE RegisterProofs ---------------------------
(***************************************************************************)
(* The pipeline is the write-once register of module Register for as long  *)
(* as no failure has been charged: no key gets a second application, no    *)
(* caller a second id, and what Redis has of a committed id stays there.   *)
(***************************************************************************)
EXTENDS SubmitProofs

-----------------------------------------------------------------------------
(* Whose turn it is.                                                       *)

\* A step of the goroutine that serves call r, or of its environment.
Turn(r) ==
    \/ \E k \in Keys : Arrive(r, k)
    \/ Reject(r) \/ Step(r) \/ Cancel(r) \/ Crash(r) \/ Retry(r)

LEMMA Turns ==
    ASSUME [Next]_vars
    PROVE  \/ \E r \in Calls : Turn(r)
           \/ \E k \in Keys : ExpirePending(k) \/ ExpireCommitted(k)
           \/ UNCHANGED vars
BY DEF Next, Turn, Quiescent

\* Nothing a call does shows at another call.
LEMMA OthersStay ==
    ASSUME TypeOK, NEW r \in Calls, Turn(r), NEW s \in Calls \ {r}
    PROVE  /\ pc'[s] = pc[s]
           /\ key'[s] = key[s]
           /\ reply'[s] = reply[s]
           /\ rec'[s] = rec[s]
           /\ Alive(s)' <=> Alive(s)
<1> USE DEF TypeOK, RepoTypeOK, Alive
<1>1. CASE Step(r)
  <2>1. pc'[s] = pc[s] /\ key'[s] = key[s] /\ rec'[s] = rec[s]
    BY <1>1, OthersUntouched
  <2>2. reply'[s] = reply[s]
    BY <1>1
       DEF Step, CheckHit, CheckMiss, ClaimWon, ClaimLost, ClaimRetried,
           ClaimFailed, RecheckHit, RecheckMiss, Begin, InsertApp, InsertEvent,
           InsertFails, CommitTx, CommitLost, SetId, SetRetried, ReleaseClaim,
           ReleaseRetried, Return
  <2>3. cancelled' \in {cancelled, cancelled \cup {r}}
    BY <1>1
       DEF Step, CheckHit, CheckMiss, ClaimWon, ClaimLost, ClaimRetried,
           ClaimFailed, RecheckHit, RecheckMiss, Begin, InsertApp, InsertEvent,
           InsertFails, CommitTx, CommitLost, SetId, SetRetried, ReleaseClaim,
           ReleaseRetried
  <2>4. QED
    BY <2>1, <2>2, <2>3
<1>2. CASE \/ \E k \in Keys : Arrive(r, k)
           \/ Reject(r) \/ Cancel(r) \/ Retry(r)
  BY <1>2 DEF Arrive, Reject, Cancel, Retry, Return, Goto, repoVars
<1>3. CASE Crash(r)
  BY <1>3, OthersUntouched DEF Crash
<1>4. QED
  BY <1>1, <1>2, <1>3 DEF Turn

-----------------------------------------------------------------------------
(* Records and rows.                                                       *)

\* Before INSERT INTO applications has returned an id.
Early == {"idle", "check", "claim", "recheck", "begin", "app"}

\* A call that has inserted nothing, and a refused one, which never did.
Unwritten(r) ==
    pc[r] \in Early \/ reply[r].code \in {"AlreadyExists", "InvalidArgument"}

\* gen_random_uuid() gave no id to two calls.
OneOwner == \A c, d \in Calls : rec[c] = rec[d] => c = d \/ rec[c] = NoId

NoRecordYet == \A r \in Calls : Unwritten(r) => rec[r] = NoId

\* A call that has committed its row and will write no other.
Committed(c, row) ==
    /\ rec[c] = row.id
    /\ key[c] = row.key
    /\ pc[c] \in Setting \cup Releasing \cup Finished

RowsOwned == \A row \in apps : \E c \in Calls : Committed(c, row)

AnsweredWhenDone == \A r \in Calls : pc[r] = "done" <=> reply[r] # NoReply

\* FailedLeavesNothing, from the moment the insert has failed.
NothingLeft ==
    \A r \in Calls :
        (/\ pc[r] \in Releasing \/ reply[r].code = "Internal"
         /\ Alive(r)
         /\ "commit" \notin Faults) => \A row \in apps : row.id # rec[r]

RecordInv ==
    /\ OneOwner
    /\ NoRecordYet
    /\ RowsOwned
    /\ AnsweredWhenDone
    /\ NothingLeft

LEMMA RecordInit == Init => RecordInv
BY IntakeAssumption
   DEF Init, RepoInit, RecordInv, OneOwner, NoRecordYet, RowsOwned,
       AnsweredWhenDone, NothingLeft, Releasing, NoReply

\* A call gets its record from one INSERT, with an id no call has yet.
LEMMA RecordOfStep ==
    ASSUME TypeOK, TxProgress, [Next]_vars
    PROVE  \/ rec' = rec
           \/ \E r \in Calls, id \in Ids :
                 /\ pc[r] = "app" /\ pc'[r] = "outbox"
                 /\ UNCHANGED <<apps, reply, key>>
                 /\ \A c \in Calls : rec[c] # id
                 /\ rec' = [rec EXCEPT ![r] = id]
<1>1. ASSUME NEW r \in Calls, InsertApp(r)
      PROVE  \E id \in Ids :
                 /\ pc[r] = "app" /\ pc'[r] = "outbox"
                 /\ UNCHANGED <<apps, reply, key>>
                 /\ \A c \in Calls : rec[c] # id
                 /\ rec' = [rec EXCEPT ![r] = id]
  BY <1>1 DEF InsertApp, Goto, InsertApplication, Fresh, TypeOK
<1>2. ASSUME NEW r \in Calls, Step(r), ~InsertApp(r)
      PROVE  rec' = rec
  BY <1>2
     DEF Step, CheckHit, CheckMiss, ClaimWon, ClaimLost, ClaimRetried,
         ClaimFailed, RecheckHit, RecheckMiss, Begin, BeginTx, InsertEvent,
         InsertOutbox, InsertFails, Rollback, CommitTx, CommitLost, Commit,
         SetId, SetRetried, ReleaseClaim, ReleaseRetried, repoVars
<1>3. ASSUME NEW r \in Calls, Turn(r), ~Step(r)
      PROVE  rec' = rec
  BY <1>3 DEF Turn, Arrive, Reject, Cancel, Crash, Rollback, Retry, repoVars
<1>4. QED
  BY <1>1, <1>2, <1>3, Turns
     DEF ExpirePending, ExpireCommitted, Expire, vars, repoVars

LEMMA OneOwnerStep ==
    ASSUME TypeOK, TxProgress, OneOwner, [Next]_vars
    PROVE  OneOwner'
BY RecordOfStep DEF OneOwner, TypeOK, RepoTypeOK

\* A call that had written does not become one that has not.
LEMMA UnwrittenBefore ==
    ASSUME TypeOK, AnsweredWhenDone, [Next]_vars, NEW s \in Calls, Unwritten(s)'
    PROVE  Unwritten(s)
<1>1. CASE Step(s)
  BY <1>1
     DEF Step, CheckHit, CheckMiss, ClaimWon, ClaimLost, ClaimRetried,
         ClaimFailed, RecheckHit, RecheckMiss, Begin, InsertApp, InsertEvent,
         InsertFails, CommitTx, CommitLost, SetId, SetRetried, ReleaseClaim,
         ReleaseRetried, Return, Goto, Answer, Failure, Unwritten, Early, TypeOK
<1>2. CASE \/ \E k \in Keys : Arrive(s, k)
           \/ Reject(s) \/ Cancel(s) \/ Crash(s) \/ Retry(s)
  BY <1>2
     DEF Arrive, Reject, Cancel, Crash, Retry, Return, Goto, Failure, Unwritten,
         Early, TypeOK
<1>3. CASE pc'[s] = pc[s] /\ reply'[s] = reply[s]
  BY <1>3 DEF Unwritten
<1>4. QED
  BY <1>1, <1>2, <1>3, Turns, OthersStay
     DEF Turn, ExpirePending, ExpireCommitted, Expire, vars

LEMMA NoRecordYetStep ==
    ASSUME TypeOK, TxProgress, NoRecordYet, AnsweredWhenDone, [Next]_vars
    PROVE  NoRecordYet'
<1> SUFFICES ASSUME NEW s \in Calls, Unwritten(s)' PROVE rec'[s] = NoId
  BY DEF NoRecordYet
<1>1. Unwritten(s) /\ rec[s] = NoId
  BY UnwrittenBefore DEF NoRecordYet
<1>2. CASE rec'[s] = rec[s]
  BY <1>1, <1>2
<1>3. CASE pc[s] = "app" /\ pc'[s] = "outbox" /\ reply' = reply
  BY <1>3 DEF AnsweredWhenDone, Unwritten, Early, NoReply
<1>4. QED
  BY <1>2, <1>3, RecordOfStep DEF TypeOK, RepoTypeOK

LEMMA AnsweredStep ==
    ASSUME TypeOK, TxProgress, AnsweredWhenDone, [Next]_vars
    PROVE  AnsweredWhenDone'
<1> SUFFICES ASSUME NEW s \in Calls PROVE (pc[s] = "done" <=> reply[s] # NoReply)'
  BY DEF AnsweredWhenDone
<1>0. pc[s] = "done" <=> reply[s] # NoReply
  BY DEF AnsweredWhenDone
<1>1. CASE Step(s)
  BY <1>0, <1>1
     DEF Step, CheckHit, CheckMiss, ClaimWon, ClaimLost, ClaimRetried,
         ClaimFailed, RecheckHit, RecheckMiss, Begin, InsertApp, InsertEvent,
         InsertFails, CommitTx, CommitLost, SetId, SetRetried, ReleaseClaim,
         ReleaseRetried, Return, Goto, Answer, Failure, NoReply, Inserting, TypeOK
<1>2. CASE \/ \E k \in Keys : Arrive(s, k)
           \/ Reject(s) \/ Cancel(s) \/ Crash(s) \/ Retry(s)
  BY <1>0, <1>2
     DEF Arrive, Reject, Cancel, Crash, Retry, Return, Goto, Failure, NoReply,
         Running, Finished, TypeOK
<1>3. CASE pc'[s] = pc[s] /\ reply'[s] = reply[s]
  BY <1>0, <1>3
<1>4. QED
  BY <1>1, <1>2, <1>3, Turns, OthersStay
     DEF Turn, ExpirePending, ExpireCommitted, Expire, vars

\* Who has committed a row takes no part in another submission.
LEMMA CommittedStays ==
    ASSUME TypeOK, TxProgress, RecordInv, [Next]_vars,
           NEW row \in apps, NEW c \in Calls, Committed(c, row)
    PROVE  Committed(c, row)'
<1> USE DEF Committed, Setting, Releasing, Finished, TypeOK
<1>1. row.id \in Ids /\ rec[c] # NoId
  BY IntakeAssumption DEF RepoTypeOK, Rows
<1>2. rec'[c] = rec[c]
  BY RecordOfStep DEF RepoTypeOK
<1>3. CASE Step(c)
  BY <1>2, <1>3
     DEF Step, CheckHit, CheckMiss, ClaimWon, ClaimLost, ClaimRetried,
         ClaimFailed, RecheckHit, RecheckMiss, Begin, InsertApp, InsertEvent,
         InsertFails, Inserting, CommitTx, CommitLost, SetId, SetRetried,
         ReleaseClaim, ReleaseRetried, Return, Goto
<1>4. CASE Retry(c)
  <2>1. reply[c].code = "AlreadyExists"
    BY <1>4 DEF Retry, Failure
  <2>2. QED
    BY <1>1, <2>1 DEF RecordInv, NoRecordYet, Unwritten
<1>5. CASE \/ \E k \in Keys : Arrive(c, k)
           \/ Reject(c) \/ Cancel(c) \/ Crash(c)
  BY <1>2, <1>5 DEF Arrive, Reject, Cancel, Crash, Return, Goto, Running
<1>6. CASE pc'[c] = pc[c] /\ key'[c] = key[c]
  BY <1>2, <1>6
<1>7. QED
  BY <1>3, <1>4, <1>5, <1>6, Turns, OthersStay
     DEF Turn, ExpirePending, ExpireCommitted, Expire, vars

LEMMA RowsOwnedStep ==
    ASSUME TypeOK, TxProgress, RecordInv, [Next]_vars
    PROVE  RowsOwned'
<1> SUFFICES ASSUME NEW row \in apps' PROVE \E c \in Calls : Committed(c, row)'
  BY DEF RowsOwned
<1>1. CASE row \in apps
  BY <1>1, CommittedStays DEF RecordInv, RowsOwned
<1>2. CASE row \notin apps
  <2>1. PICK r \in Calls : /\ CommitTx(r) \/ CommitLost(r)
                           /\ row = Row(rec[r], key[r])
    BY <1>2, TablesOfStep
  <2>2. rec' = rec /\ key' = key /\ pc'[r] \in {"set", "release"}
    BY <2>1 DEF CommitTx, CommitLost, Commit, Goto, TypeOK
  <2>3. QED
    BY <2>1, <2>2 DEF Committed, Row, Setting, Releasing
<1>3. QED
  BY <1>1, <1>2

\* What INSERT gave a call is nobody's row but its own.
LEMMA OwnRow ==
    ASSUME TypeOK, RecordInv, NEW row \in apps, NEW c \in Calls, rec[c] = row.id
    PROVE  Committed(c, row)
<1>1. row.id \in Ids /\ row.id # NoId
  BY IntakeAssumption DEF TypeOK, RepoTypeOK, Rows
<1>2. PICK d \in Calls : Committed(d, row)
  BY DEF RecordInv, RowsOwned
<1>3. QED
  BY <1>1, <1>2 DEF RecordInv, OneOwner, Committed

\* A call whose insert has failed.
Failing(r) == pc[r] \in Releasing \/ reply[r].code = "Internal"

LEMMA NothingLeftStep ==
    ASSUME TypeOK, TxProgress, RecordInv, [Next]_vars
    PROVE  NothingLeft'
<1> SUFFICES ASSUME NEW s \in Calls, Failing(s)', Alive(s)', "commit" \notin Faults,
                    NEW row \in apps', row.id = rec'[s]
             PROVE  FALSE
  BY DEF NothingLeft, Failing, Releasing, Alive
<1>1. rec'[s] = rec[s]
  <2>1. CASE pc'[s] = "outbox" /\ reply' = reply /\ pc[s] = "app"
    BY <2>1 DEF Failing, Releasing, RecordInv, AnsweredWhenDone, NoReply
  <2>2. QED
    BY <2>1, RecordOfStep DEF TypeOK, RepoTypeOK
<1>2. \A r \in Calls : CommitTx(r) \/ CommitLost(r) => r # s
  <2>1. CASE CommitTx(s)
    BY <2>1 DEF CommitTx, Goto, Failing, Releasing, RecordInv, AnsweredWhenDone,
                NoReply, TypeOK
  <2>2. CASE CommitLost(s)
    BY <2>2 DEF CommitLost, Alive
  <2>3. QED
    BY <2>1, <2>2
<1>3. row \in apps
  <2>1. ASSUME NEW r \in Calls, CommitTx(r) \/ CommitLost(r), rec[r] \in Ids,
               row = Row(rec[r], key[r])
        PROVE  FALSE
    BY <1>1, <1>2, <2>1, IntakeAssumption DEF Row, RecordInv, OneOwner
  <2>2. \A r \in Calls : Row(rec[r], key[r]) \in Rows => rec[r] \in Ids
    BY DEF Rows, Row
  <2>3. QED
    BY <2>1, <2>2, TablesOfStep
<1>4. pc[s] \in Setting \cup Releasing \cup Finished
  BY <1>1, <1>3, OwnRow DEF Committed
<1>5. ~(Failing(s) /\ Alive(s))
  BY <1>1, <1>3 DEF RecordInv, NothingLeft, Failing
<1>6. CASE Step(s)
  <2>1. CASE ReleaseClaim(s) \/ ReleaseRetried(s)
    BY <1>5, <2>1
       DEF ReleaseClaim, ReleaseRetried, Return, Goto, Failing, Releasing, Alive
  <2>2. CASE SetId(s) \/ SetRetried(s)
    BY <1>5, <2>2
       DEF SetId, SetRetried, Return, Goto, Failing, Releasing, Alive, Answer, TypeOK
  <2>3. QED
    BY <1>4, <1>6, <2>1, <2>2
       DEF Step, CheckHit, CheckMiss, ClaimWon, ClaimLost, ClaimRetried,
           ClaimFailed, RecheckHit, RecheckMiss, Begin, InsertApp, InsertEvent,
           InsertFails, Inserting, CommitTx, CommitLost, Return, Goto, Setting,
           Releasing, Finished
<1>7. CASE \/ \E k \in Keys : Arrive(s, k)
           \/ Reject(s) \/ Cancel(s) \/ Crash(s) \/ Retry(s)
  BY <1>5, <1>7
     DEF Arrive, Reject, Cancel, Crash, Retry, Return, Goto, Failure, NoReply,
         Failing, Releasing, Alive, TypeOK
<1>8. CASE pc'[s] = pc[s] /\ reply'[s] = reply[s] /\ (Alive(s)' <=> Alive(s))
  BY <1>5, <1>8 DEF Failing, Releasing
<1>9. QED
  BY <1>6, <1>7, <1>8, Turns, OthersStay
     DEF Turn, Alive, ExpirePending, ExpireCommitted, Expire, vars

LEMMA RecordHolds == Spec => []RecordInv
<1>1. TypeOK /\ TxProgress /\ RecordInv /\ [Next]_vars => RecordInv'
  BY OneOwnerStep, NoRecordYetStep, RowsOwnedStep, AnsweredStep, NothingLeftStep
     DEF RecordInv
<1>2. QED
  BY <1>1, RecordInit, TypeHolds, PTL DEF Spec

\* Whoever is alive to be told "Internal" has left no application behind:
\* every path to Release except a lost COMMIT has rolled its insert back.
THEOREM FailedLeavesNothingCorrect == Spec => []FailedLeavesNothing
<1>1. RecordInv => FailedLeavesNothing
  BY DEF RecordInv, NothingLeft, FailedLeavesNothing
<1>2. QED
  BY <1>1, RecordHolds, PTL

-----------------------------------------------------------------------------
(* The write-once register.                                                *)

\* No failure that may cost a duplicate has happened.
Uncharged == \A k \in Keys : faults[k] = 0

\* Whoever may still commit to an uncharged key, or free its slot, finds it
\* without a row.
LEMMA StakeMeansNoRow ==
    ASSUME TypeOK, BudgetInv, NEW k \in Keys, faults[k] = 0,
           Stake(k) # {} \/ cache[k] = Empty
    PROVE  RowsOf(k) = {}
<1>1. /\ IsFiniteSet(RowsOf(k)) /\ Cardinality(RowsOf(k)) \in Nat
      /\ IsFiniteSet(Stake(k)) /\ Cardinality(Stake(k)) \in Nat
  BY Countable DEF BudgetInv
<1>2. Cardinality(RowsOf(k)) + Cardinality(Stake(k)) + Vacancy(k) <= 1
  BY DEF BudgetInv, Ledger
<1>3. Cardinality(Stake(k)) >= 1 \/ Vacancy(k) = 1
  BY <1>1, FS_EmptySet DEF Vacancy
<1>4. Vacancy(k) \in {0, 1}
  BY DEF Vacancy
<1>5. Cardinality(RowsOf(k)) = 0
  BY <1>1, <1>2, <1>3, <1>4
<1>6. QED
  BY <1>1, <1>5, FS_EmptySet

\* The one row of an uncharged key is the one that was committed.
LEMMA CommitStores ==
    ASSUME TypeOK, TxProgress, RecordInv, BudgetInv, Uncharged,
           NEW r \in Calls, CommitTx(r) \/ CommitLost(r)
    PROVE  /\ key[r] \in Keys /\ rec[r] \in Ids
           /\ Stored[key[r]] = {}
           /\ \A k \in Keys : rec[r] \notin Stored[k]
           /\ Stored' = [Stored EXCEPT ![key[r]] = {rec[r]}]
           /\ reply[r] = NoReply
           /\ UNCHANGED <<key, reply>>
<1> DEFINE row == Row(rec[r], key[r])
<1>1. pc[r] = "commit" /\ Alive(r) /\ Commit(r) /\ UNCHANGED <<key, reply>>
  BY DEF CommitTx, CommitLost, Goto
<1>2. key[r] \in Keys /\ rec[r] \in Ids
  BY <1>1, KeyKnown DEF TxProgress
<1>3. apps' = apps \cup {row}
  <2>1. tx[r] = Tx({row}, {Event(row)})
    BY <1>1 DEF TxProgress
  <2>2. QED
    BY <1>1, <2>1 DEF Commit, Tx
<1>4. RowsOf(key[r]) = {}
  <2>1. r \in Stake(key[r])
    BY <1>1 DEF Stake, Inserting
  <2>2. QED
    BY <1>2, <2>1, StakeMeansNoRow DEF Uncharged
<1>5. \A other \in apps : other.id # rec[r]
  BY <1>1, OwnRow DEF Committed, Setting, Releasing, Finished
<1>6. ASSUME NEW k \in Keys
      PROVE  RowsOf(k)' = IF k = key[r] THEN {row} ELSE RowsOf(k)
  BY <1>3, <1>4 DEF RowsOf, Row
<1>7. ASSUME NEW k \in Keys
      PROVE  Stored'[k] = IF k = key[r] THEN {rec[r]} ELSE Stored[k]
  <2>1. CASE k = key[r]
    <3>1. RowsOf(k)' = {row} /\ row.id = rec[r]
      BY <1>6, <2>1 DEF Row
    <3>2. QED
      BY <2>1, <3>1 DEF Stored
  <2>2. CASE k # key[r]
    BY <1>6, <2>2 DEF Stored
  <2>3. QED
    BY <2>1, <2>2
<1>8. Stored' = [Stored EXCEPT ![key[r]] = {rec[r]}]
  <2>1. Stored' = [k \in Keys |-> Stored'[k]] /\ Stored = [k \in Keys |-> Stored[k]]
    BY DEF Stored
  <2>2. QED
    BY <1>7, <2>1
<1>9. Stored[key[r]] = {} /\ \A k \in Keys : rec[r] \notin Stored[k]
  BY <1>2, <1>4, <1>5 DEF Stored, RowsOf
<1>10. reply[r] = NoReply
  BY <1>1 DEF RecordInv, AnsweredWhenDone
<1>11. QED
  BY <1>1, <1>2, <1>8, <1>9, <1>10

\* An id that is given out is in the store of the key it was asked for.
LEMMA AnswerIsStored ==
    ASSUME TypeOK, TxProgress, RecordInv, PublishedIdsAreRows,
           NEW r \in Calls, CheckHit(r) \/ RecheckHit(r) \/ SetId(r)
    PROVE  /\ key[r] \in Keys /\ key[r] # NoKey /\ reply[r] = NoReply
           /\ \E id \in Stored[key[r]] : reply' = [reply EXCEPT ![r] = Answer(id)]
           /\ UNCHANGED <<apps, key>>
<1>1. pc[r] \in {"check", "recheck"} \cup Setting /\ UNCHANGED <<apps, key>>
  BY DEF CheckHit, RecheckHit, SetId, Return, Goto, repoVars
<1>2. key[r] \in Keys /\ key[r] # NoKey
  BY <1>1, KeyKnown, IntakeAssumption DEF Setting
<1>3. reply[r] = NoReply
  BY <1>1 DEF RecordInv, AnsweredWhenDone, Setting
<1>4. \A id : Row(id, key[r]) \in apps => id \in Stored[key[r]]
  BY <1>2 DEF Stored, RowsOf, Row
<1>5. CASE CheckHit(r) \/ RecheckHit(r)
  BY <1>1, <1>2, <1>3, <1>4, <1>5
     DEF CheckHit, RecheckHit, Return, PublishedIdsAreRows
<1>6. CASE SetId(r)
  BY <1>1, <1>2, <1>3, <1>4, <1>6 DEF SetId, Return, Goto, TxProgress
<1>7. QED
  BY <1>5, <1>6

LEMMA RegisterInit == Init => Promise!Init
<1> SUFFICES ASSUME Init PROVE Promise!Init
  OBVIOUS
<1>1. \A k \in Keys : RowsOf(k) = {}
  BY DEF Init, RepoInit, RowsOf
<1>2. Stored = [k \in Keys |-> {}]
  BY <1>1 DEF Stored
<1>3. QED
  BY <1>2 DEF Init, NoReply, Promise!Init, Promise!NoReply

\* What leaves the table of applications alone leaves the store alone.
LEMMA StoredKept == apps' = apps => Stored' = Stored
BY DEF Stored, RowsOf

\* Every step is one of the register's, or none.
LEMMA RegisterStep ==
    ASSUME TypeOK, TxProgress, RecordInv, PublishedIdsAreRows, BudgetInv,
           Uncharged, [Next]_vars
    PROVE  [Promise!Next]_(Promise!registerVars)
<1> USE DEF NoReply, Answer, Failure, Promise!NoReply, Promise!Answer,
            Promise!Failure
<1>1. ASSUME NEW r \in Calls, CommitTx(r) \/ CommitLost(r)
      PROVE  Promise!Next
  <2>1. PICK id \in Ids : id = rec[r]
    BY <1>1, CommitStores
  <2>2. Promise!Store(r, id)
    BY <1>1, <2>1, CommitStores, IntakeAssumption
       DEF Promise!Store, Promise!Waiting
  <2>3. QED
    BY <2>2 DEF Promise!Next
<1>2. ASSUME NEW r \in Calls, CheckHit(r) \/ RecheckHit(r) \/ SetId(r)
      PROVE  Promise!Next
  <2>1. Promise!Accept(r)
    BY <1>2, AnswerIsStored, StoredKept DEF Promise!Accept, Promise!Waiting
  <2>2. QED
    BY <2>1 DEF Promise!Next
<1>3. ASSUME NEW r \in Calls, RecheckMiss(r) \/ ReleaseClaim(r) \/ Reject(r)
      PROVE  Promise!Next
  <2>1. reply[r] = NoReply
    BY <1>3
       DEF RecheckMiss, ReleaseClaim, Reject, Return, Goto, Releasing, RecordInv,
           AnsweredWhenDone
  <2>2. UNCHANGED <<apps, key>>
    BY <1>3 DEF RecheckMiss, ReleaseClaim, Reject, repoVars
  <2>3. PICK code \in {"AlreadyExists", "Internal", "InvalidArgument"} :
               /\ reply' = [reply EXCEPT ![r] = Failure(code)]
               /\ code = "InvalidArgument" <=> key[r] = NoKey
    BY <1>3, KeyKnown, IntakeAssumption
       DEF RecheckMiss, ReleaseClaim, Reject, Return, Goto, Releasing, TypeOK
  <2>4. Promise!Refuse(r, code)
    BY <2>1, <2>2, <2>3, StoredKept DEF Promise!Refuse
  <2>5. QED
    BY <2>4 DEF Promise!Next, Promise!Codes
<1>4. ASSUME NEW r \in Calls, NEW k \in Keys, Arrive(r, k)
      PROVE  Promise!Next
  <2>1. Promise!Submit(r, k)
    BY <1>4, StoredKept
       DEF Arrive, Goto, TypeOK, RecordInv, AnsweredWhenDone, repoVars,
           Promise!Submit
  <2>2. QED
    BY <2>1 DEF Promise!Next
<1>5. ASSUME NEW r \in Calls, Retry(r)
      PROVE  Promise!Next
  <2>1. Promise!Resubmit(r)
    BY <1>5, StoredKept DEF Retry, repoVars, Promise!Resubmit
  <2>2. QED
    BY <2>1 DEF Promise!Next
<1>6. CASE UNCHANGED <<apps, key, reply>>
  BY <1>6, StoredKept DEF Promise!registerVars
<1>7. ASSUME NEW r \in Calls, Step(r),
             ~(\/ CommitTx(r) \/ CommitLost(r)
               \/ CheckHit(r) \/ RecheckHit(r) \/ SetId(r)
               \/ RecheckMiss(r) \/ ReleaseClaim(r))
      PROVE  UNCHANGED <<apps, key, reply>>
  BY <1>7
     DEF Step, CheckMiss, ClaimWon, ClaimLost, ClaimRetried, ClaimFailed, Begin,
         BeginTx, InsertApp, InsertApplication, InsertEvent, InsertOutbox,
         InsertFails, Rollback, SetRetried, ReleaseRetried, repoVars
<1>8. QED
  BY <1>1, <1>2, <1>3, <1>4, <1>5, <1>6, <1>7, Turns
     DEF Turn, Cancel, Crash, Rollback, ExpirePending, ExpireCommitted, Expire,
         vars, repoVars

\* What a step reads to be a step of the register.
LEMMA PipelineHolds ==
    Spec => [](TypeOK /\ TxProgress /\ RecordInv /\ PublishedIdsAreRows /\ BudgetInv)
BY TypeHolds, RecordHolds, PublishedCorrect, BudgetHolds, PTL

\* While no failure is charged, whichever of them a behaviour may contain,
\* submitOne implements the write-once register.
THEOREM RegisterRefined == Spec /\ []Uncharged => IdempotentRegister
<1>1. TypeOK /\ TxProgress /\ RecordInv /\ PublishedIdsAreRows /\ BudgetInv
         /\ Uncharged /\ [Next]_vars => [Promise!Next]_(Promise!registerVars)
  BY RegisterStep
<1>2. QED
  BY <1>1, RegisterInit, PipelineHolds, PTL
     DEF Spec, IdempotentRegister, Promise!Spec

\* Failed statements, ended contexts and dead handlers are never charged.
LEMMA NothingCharged ==
    ASSUME Faults \subseteq {"insert", "cancel", "crash"}
    PROVE  Spec => []Uncharged
<1>1. Init => Uncharged
  BY DEF Init, Uncharged
<1>2. TypeOK /\ Uncharged /\ [Next]_vars => Uncharged'
  <2> SUFFICES ASSUME TypeOK, Uncharged, [Next]_vars
               PROVE  faults' = faults
    BY DEF Uncharged
  <2>1. ASSUME NEW r \in Calls, Step(r)
        PROVE  faults' = faults
    BY <2>1
       DEF Step, CheckHit, CheckMiss, ClaimWon, ClaimLost, ClaimRetried,
           ClaimFailed, RedisFails, RecheckHit, RecheckMiss, Begin, InsertApp,
           InsertEvent, InsertFails, CommitTx, CommitLost, SetId, SetRetried,
           ReleaseClaim, ReleaseRetried
  <2>2. QED
    BY <2>1, Turns
       DEF Turn, Arrive, Reject, Cancel, Crash, Retry, ExpirePending,
           ExpireCommitted, vars
<1>3. QED
  BY <1>1, <1>2, TypeCorrect, PTL DEF Spec

-----------------------------------------------------------------------------
(* What Redis keeps.                                                       *)

\* An uncharged key has at most one row.
LEMMA OneRow ==
    ASSUME TypeOK, BudgetInv, NEW k \in Keys, faults[k] = 0,
           NEW a, NEW b, Row(a, k) \in apps, Row(b, k) \in apps
    PROVE  a = b
<1>1. IsFiniteSet(RowsOf(k)) /\ Cardinality(RowsOf(k)) \in Nat
  BY Countable DEF BudgetInv
<1>2. Cardinality(RowsOf(k)) <= 1
  BY BudgetBoundsRows DEF RowBudget
<1>3. Row(a, k) \in RowsOf(k) /\ Row(b, k) \in RowsOf(k)
  BY DEF RowsOf, Row
<1>4. Cardinality(RowsOf(k)) = 1
  BY <1>1, <1>2, <1>3, FS_EmptySet
<1>5. PICK x : RowsOf(k) = {x}
  BY <1>1, <1>4, FS_Singleton
<1>6. QED
  BY <1>3, <1>5 DEF Row

\* A call's step leaves a committed entry of an uncharged key as it is.
LEMMA HitKept ==
    ASSUME TypeOK, TxProgress, PublishedIdsAreRows, BudgetInv,
           NEW k \in Keys, faults[k] = 0, Hit(k), NEW r \in Calls, Step(r)
    PROVE  cache'[k] = cache[k]
<1>1. Row(cache[k].value, k) \in apps /\ cache[k].value \in Ids
  BY HitTyping DEF PublishedIdsAreRows
<1>2. RowsOf(k) # {}
  BY <1>1 DEF RowsOf, Row
<1>3. Stake(k) = {} /\ ~Claimable(k)
  BY <1>2, StakeMeansNoRow DEF Claimable
<1>4. CASE key[r] # k
  BY <1>4, OtherKeysUntouched
<1>5. CASE key[r] = k
  <2>1. ~ClaimWon(r) /\ ~ClaimRetried(r)
    BY <1>3, <1>5 DEF ClaimWon, ClaimRetried
  <2>2. CASE SetId(r) \/ SetRetried(r)
    <3>1. rec[r] \in Ids /\ Row(rec[r], k) \in apps
      BY <1>5, <2>2 DEF SetId, SetRetried, Return, Goto, Setting, TxProgress
    <3>2. rec[r] = cache[k].value
      BY <1>1, <3>1, OneRow
    <3>3. cache[k] = CommittedEntry(cache[k].value)
      BY <1>1, IntakeAssumption
         DEF TypeOK, DedupTypeOK, Entries, Empty, PendingEntry, CommittedEntry
    <3>4. QED
      BY <1>5, <2>2, <3>2, <3>3
         DEF SetId, SetRetried, Set, Write, TypeOK, DedupTypeOK
  <2>3. CASE ReleaseClaim(r) \/ ReleaseRetried(r)
    <3>1. pc[r] \in Releasing
      BY <2>3 DEF ReleaseClaim, ReleaseRetried, Return, Goto, Releasing
    <3>2. ~Alive(r)
      BY <1>3, <1>5, <3>1 DEF Stake
    <3>3. QED
      BY <2>3, <3>2 DEF ReleaseClaim, ReleaseRetried
  <2>4. CASE ClaimFailed(r)
    BY <1>3, <1>5, <2>4 DEF ClaimFailed
  <2>5. QED
    BY <2>1, <2>2, <2>3, <2>4
       DEF Step, CheckHit, CheckMiss, ClaimLost, RecheckHit, RecheckMiss, Begin,
           InsertApp, InsertEvent, InsertFails, CommitTx, CommitLost
<1>6. QED
  BY <1>4, <1>5

\* While no failure is charged, Redis loses a committed id to its TTL only:
\* no late Release, claim or Set of another call takes its place.
THEOREM EntryRetainedCorrect == Spec /\ []Uncharged => EntryRetained
<1>1. ASSUME TypeOK, TxProgress, PublishedIdsAreRows, BudgetInv, Uncharged,
             [Next]_vars, NEW k \in Keys, Hit(k)
      PROVE  cache'[k] = cache[k] \/ ExpireCommitted(k)
  <2>1. ASSUME NEW r \in Calls, Turn(r)
        PROVE  cache'[k] = cache[k]
    BY <1>1, <2>1, HitKept
       DEF Turn, Arrive, Reject, Cancel, Crash, Retry, Uncharged
  <2>2. ASSUME NEW j \in Keys, ExpirePending(j) \/ ExpireCommitted(j), j # k
        PROVE  cache'[k] = cache[k]
    BY <1>1, <2>2
       DEF ExpirePending, ExpireCommitted, Expire, Release, Write, TypeOK,
           DedupTypeOK
  <2>3. ~ExpirePending(k)
    BY <1>1 DEF ExpirePending
  <2>4. QED
    BY <1>1, <2>1, <2>2, <2>3, Turns DEF vars
<1>2. TypeOK /\ TxProgress /\ PublishedIdsAreRows /\ BudgetInv /\ Uncharged
         /\ [Next]_vars
         => [\A k \in Keys : Hit(k) => cache'[k] = cache[k] \/ ExpireCommitted(k)]_vars
  BY <1>1
<1>3. QED
  BY <1>2, PipelineHolds, PTL DEF Spec, EntryRetained

-----------------------------------------------------------------------------
(* What is left in Redis when the submissions of a key are over.           *)

\* A call that may have left the sentinel at k: it has claimed and has neither
\* stored an id nor freed the slot, or it was too dead to do so.
Claimant(r, k) ==
    /\ key[r] = k
    /\ \/ pc[r] \in Inserting \cup Setting \cup Releasing \cup {"dead"}
       \/ /\ pc[r] = "done"
          /\ r \in cancelled
          /\ reply[r].code \in {"OK", "Internal"}

PendingOwned == \A k \in Keys : Pending(k) => \E r \in Calls : Claimant(r, k)

HitTold ==
    \A k \in Keys : Hit(k) => \E r \in Calls : key[r] = k /\ reply[r].code = "OK"

SlotInv == PendingOwned /\ HitTold

LEMMA SlotInit == Init => SlotInv
BY IntakeAssumption
   DEF Init, DedupInit, Empty, SlotInv, PendingOwned, HitTold, Pending, Hit

\* A claim is the only way to a new sentinel, and a Set to a new id.
LEMMA SlotOfStep ==
    ASSUME "redis" \notin Faults, TypeOK, TxProgress, [Next]_vars, NEW k \in Keys
    PROVE  \/ cache'[k] = cache[k]
           \/ cache'[k] = Empty
           \/ \E r \in Calls : ClaimWon(r) /\ key[r] = k
           \/ \E r \in Calls : SetId(r) /\ Alive(r) /\ key[r] = k
<1> USE DEF TypeOK, DedupTypeOK
<1>1. ASSUME NEW r \in Calls, Step(r), key[r] = k
      PROVE  \/ cache'[k] = cache[k]
             \/ cache'[k] = Empty
             \/ ClaimWon(r)
             \/ SetId(r) /\ Alive(r)
  BY <1>1
     DEF Step, CheckHit, CheckMiss, ClaimWon, ClaimLost, ClaimRetried,
         ClaimFailed, RedisFails, RecheckHit, RecheckMiss, Begin, InsertApp,
         InsertEvent, InsertFails, CommitTx, CommitLost, SetId, SetRetried,
         ReleaseClaim, ReleaseRetried, Release, Write
<1>2. ASSUME NEW r \in Calls, Step(r), key[r] # k
      PROVE  cache'[k] = cache[k]
  BY <1>2, OtherKeysUntouched
<1>3. ASSUME NEW j \in Keys, ExpirePending(j) \/ ExpireCommitted(j)
      PROVE  cache'[k] = cache[k] \/ cache'[k] = Empty
  BY <1>3 DEF ExpirePending, ExpireCommitted, Expire, Release, Write
<1>4. QED
  BY <1>1, <1>2, <1>3, Turns
     DEF Turn, Arrive, Reject, Cancel, Crash, Retry, vars

\* Who has left the sentinel there still has, unless the slot has changed.
LEMMA ClaimantStays ==
    ASSUME "redis" \notin Faults, TypeOK, TxProgress, RecordInv, [Next]_vars,
           NEW k \in Keys, Pending(k), Pending(k)', NEW r \in Calls, Claimant(r, k)
    PROVE  Claimant(r, k)'
<1> USE DEF Claimant, Setting, Releasing, TypeOK
<1>1. CASE SetId(r)
  <2>1. ~Alive(r)
    <3>1. rec[r] \in Ids
      BY <1>1 DEF SetId, Return, Goto, TxProgress
    <3>2. ASSUME Set(k, rec[r]) PROVE FALSE
      <4>1. cache'[k].value = rec[r]
        BY <3>2 DEF Set, Write, CommittedEntry, DedupTypeOK
      <4>2. QED
        BY <3>1, <4>1, IntakeAssumption DEF Pending
    <3>3. QED
      BY <1>1, <3>2 DEF SetId, RedisFails
  <2>2. QED
    BY <1>1, <2>1 DEF SetId, Return, Goto, Answer, Alive
<1>2. CASE ReleaseClaim(r)
  <2>1. ~Alive(r)
    BY <1>2, IntakeAssumption
       DEF ReleaseClaim, Release, Write, Empty, Pending, DedupTypeOK, RedisFails
  <2>2. QED
    BY <1>2, <2>1 DEF ReleaseClaim, Return, Goto, Failure, Alive
<1>3. CASE Begin(r) \/ InsertApp(r) \/ InsertEvent(r) \/ InsertFails(r)
  BY <1>3 DEF Begin, InsertApp, InsertEvent, InsertFails, Goto, Inserting
<1>4. CASE CommitTx(r) \/ CommitLost(r)
  BY <1>4 DEF CommitTx, CommitLost, Goto
<1>5. ~(SetRetried(r) \/ ReleaseRetried(r))
  BY DEF SetRetried, ReleaseRetried
<1>6. ~(\/ CheckHit(r) \/ CheckMiss(r) \/ ClaimWon(r) \/ ClaimLost(r)
        \/ ClaimRetried(r) \/ ClaimFailed(r) \/ RecheckHit(r) \/ RecheckMiss(r)
        \/ Reject(r) \/ \E j \in Keys : Arrive(r, j))
  BY DEF CheckHit, CheckMiss, ClaimWon, ClaimLost, ClaimRetried, ClaimFailed,
         RecheckHit, RecheckMiss, Reject, Arrive, Return, Goto, Inserting
<1>7. ~Retry(r)
  BY DEF Retry, Goto, Failure, Inserting
<1>8. CASE Cancel(r) \/ Crash(r)
  BY <1>8 DEF Cancel, Crash, Running, Finished
<1>9. CASE /\ pc'[r] = pc[r] /\ key'[r] = key[r] /\ reply'[r] = reply[r]
           /\ Alive(r)' <=> Alive(r)
  BY <1>9 DEF Alive, Inserting
<1>10. QED
  BY <1>1, <1>2, <1>3, <1>4, <1>5, <1>6, <1>7, <1>8, <1>9, Turns, OthersStay
     DEF Turn, Step, Alive, ExpirePending, ExpireCommitted, Expire, vars

\* An id that has been given out is not taken back.
LEMMA ToldStays ==
    ASSUME TypeOK, RecordInv, [Next]_vars, NEW r \in Calls, reply[r].code = "OK"
    PROVE  reply'[r] = reply[r] /\ key'[r] = key[r]
<1>1. pc[r] = "done"
  BY DEF RecordInv, AnsweredWhenDone, NoReply
<1>2. ~Step(r)
  BY <1>1
     DEF Step, CheckHit, CheckMiss, ClaimWon, ClaimLost, ClaimRetried,
         ClaimFailed, RecheckHit, RecheckMiss, Begin, InsertApp, InsertEvent,
         InsertFails, CommitTx, CommitLost, SetId, SetRetried, ReleaseClaim,
         ReleaseRetried, Return, Goto, Inserting, Setting, Releasing
<1>3. ~Turn(r)
  BY <1>1, <1>2
     DEF Turn, Arrive, Reject, Cancel, Crash, Retry, Return, Goto, Failure,
         Running, Finished
<1>4. QED
  BY <1>3, Turns, OthersStay DEF ExpirePending, ExpireCommitted, Expire, vars

LEMMA SlotStep ==
    ASSUME "redis" \notin Faults, TypeOK, TxProgress, RecordInv, SlotInv, [Next]_vars
    PROVE  SlotInv'
<1>1. ASSUME NEW k \in Keys, Pending(k)'
      PROVE  \E r \in Calls : Claimant(r, k)'
  <2>1. CASE Pending(k)
    BY <1>1, <2>1, ClaimantStays DEF SlotInv, PendingOwned
  <2>2. CASE ~Pending(k)
    <3>1. cache'[k] # cache[k] /\ cache'[k] # Empty
      BY <1>1, <2>2, IntakeAssumption DEF Pending, Empty
    <3>2. ASSUME NEW r \in Calls, SetId(r), Alive(r), key[r] = k
          PROVE  FALSE
      <4>1. rec[r] \in Ids
        BY <3>2 DEF SetId, Return, Goto, TxProgress
      <4>2. QED
        BY <1>1, <3>1, <3>2, <4>1, IntakeAssumption
           DEF SetId, Set, Write, CommittedEntry, Pending, TypeOK, DedupTypeOK
    <3>3. PICK r \in Calls : ClaimWon(r) /\ key[r] = k
      BY <3>1, <3>2, SlotOfStep
    <3>4. Claimant(r, k)'
      BY <3>3 DEF ClaimWon, Goto, Claimant, Inserting, TypeOK
    <3>5. QED
      BY <3>4
  <2>3. QED
    BY <2>1, <2>2
<1>2. ASSUME NEW k \in Keys, Hit(k)'
      PROVE  \E r \in Calls : (key[r] = k /\ reply[r].code = "OK")'
  <2>1. CASE Hit(k)
    BY <2>1, ToldStays DEF SlotInv, HitTold
  <2>2. CASE ~Hit(k)
    <3>1. cache'[k] # cache[k] /\ cache'[k] # Empty
      BY <1>2, <2>2, IntakeAssumption DEF Hit, Empty
    <3>2. ASSUME NEW r \in Calls, ClaimWon(r), key[r] = k
          PROVE  FALSE
      BY <1>2, <3>2, IntakeAssumption
         DEF ClaimWon, Claim, Write, PendingEntry, Hit, TypeOK, DedupTypeOK
    <3>3. PICK r \in Calls : SetId(r) /\ key[r] = k
      BY <3>1, <3>2, SlotOfStep
    <3>4. reply'[r].code = "OK" /\ key'[r] = k
      BY <3>3 DEF SetId, Return, Answer, TypeOK
    <3>5. QED
      BY <3>4
  <2>3. QED
    BY <2>1, <2>2
<1>3. QED
  BY <1>1, <1>2 DEF SlotInv, PendingOwned, HitTold

LEMMA SlotHolds ==
    ASSUME "redis" \notin Faults
    PROVE  Spec => []SlotInv
<1>1. TypeOK /\ TxProgress /\ RecordInv /\ SlotInv /\ [Next]_vars => SlotInv'
  BY SlotStep
<1>2. QED
  BY <1>1, SlotInit, TypeHolds, RecordHolds, PTL DEF Spec

\* While Redis itself works and no failure is charged, the submissions of a
\* key that were neither killed nor abandoned leave in Redis the id they gave
\* out, or nothing if they gave none.
THEOREM AtRestCorrect ==
    ASSUME "redis" \notin Faults
    PROVE  Spec => [](Uncharged => AtRest)
<1>1. ASSUME TypeOK, BudgetInv, PublishedIdsAreRows, SlotInv, Uncharged,
             NEW k \in Keys,
             \A r \in Calls : key[r] = k => pc[r] = "done" /\ r \notin cancelled
      PROVE  LET asking == {r \in Calls : key[r] = k}
                 told == {reply[r].id : r \in {s \in asking : reply[s].code = "OK"}}
             IN  IF told = {} THEN cache[k] = Empty ELSE told = {cache[k].value}
  <2> DEFINE asking == {r \in Calls : key[r] = k}
             told == {reply[r].id : r \in {s \in asking : reply[s].code = "OK"}}
  <2>1. ~Pending(k)
    BY <1>1 DEF SlotInv, PendingOwned, Claimant, Inserting, Setting, Releasing
  <2>2. cache[k] = Empty \/ Hit(k)
    BY <1>1, <2>1
       DEF TypeOK, DedupTypeOK, Entries, Pending, PendingEntry, Hit, CommittedEntry
  <2>3. \A id \in told : Row(id, k) \in apps
    BY <1>1 DEF PublishedIdsAreRows
  <2>4. CASE Hit(k)
    <3>1. Row(cache[k].value, k) \in apps
      BY <1>1, <2>4 DEF PublishedIdsAreRows
    <3>2. \A id \in told : id = cache[k].value
      BY <1>1, <2>3, <3>1, OneRow DEF Uncharged
    <3>3. told # {}
      BY <1>1, <2>4 DEF SlotInv, HitTold
    <3>4. QED
      BY <3>2, <3>3
  <2>5. CASE cache[k] = Empty
    <3>1. RowsOf(k) = {}
      BY <1>1, <2>5, StakeMeansNoRow DEF Uncharged
    <3>2. \A id : Row(id, k) \notin apps
      BY <3>1 DEF RowsOf, Row
    <3>3. told = {}
      BY <2>3, <3>2
    <3>4. QED
      BY <2>5, <3>3
  <2>6. QED
    BY <2>2, <2>4, <2>5
<1>2. TypeOK /\ BudgetInv /\ PublishedIdsAreRows /\ SlotInv => (Uncharged => AtRest)
  BY <1>1 DEF AtRest
<1>3. QED
  BY <1>2, SlotHolds, PipelineHolds, PTL

\* Against interleavings, failed statements, ended contexts and crashes alone
\* no further condition is needed: the pipeline is a write-once register,
\* Redis keeps its ids, and is left in order.
THEOREM StrictCorrect ==
    ASSUME Faults \subseteq {"insert", "cancel", "crash"}
    PROVE  Spec => IdempotentRegister /\ EntryRetained /\ []AtRest
<1>1. "redis" \notin Faults
  OBVIOUS
<1>2. Spec => [](Uncharged => AtRest)
  BY <1>1, AtRestCorrect
<1>3. QED
  BY <1>2, NothingCharged, RegisterRefined, EntryRetainedCorrect, PTL

-----------------------------------------------------------------------------
(* What a caller was told is what Redis says.                              *)

\* Charges are never taken back.
LEMMA ChargesStay ==
    ASSUME TypeOK, TxProgress, [Next]_vars, NEW k \in Keys, faults'[k] = 0
    PROVE  faults[k] = 0
<1> USE DEF TypeOK
<1>1. ASSUME NEW j \in Keys, Charge(j)
      PROVE  faults[k] = 0
  BY <1>1 DEF Charge
<1>2. ASSUME NEW r \in Calls, Step(r)
      PROVE  faults' = faults \/ Charge(key[r])
  BY <1>2
     DEF Step, CheckHit, CheckMiss, ClaimWon, ClaimLost, ClaimRetried,
         ClaimFailed, RecheckHit, RecheckMiss, Begin, InsertApp, InsertEvent,
         InsertFails, CommitTx, CommitLost, SetId, SetRetried, ReleaseClaim,
         ReleaseRetried
<1>3. ASSUME NEW r \in Calls, Step(r)
      PROVE  faults[k] = 0
  BY <1>1, <1>2, <1>3, CacheOfStep
<1>4. QED
  BY <1>1, <1>3, Turns
     DEF Turn, Arrive, Reject, Cancel, Crash, Retry, ExpirePending,
         ExpireCommitted, Expire, vars

\* Who was told an id while its context was good finds its key answered.
Answerable ==
    \A r \in Calls :
        (/\ reply[r].code = "OK"
         /\ Alive(r)
         /\ faults[key[r]] = 0) => Hit(key[r])

LEMMA AnswerableStep ==
    ASSUME "redis" \notin Faults, TypeOK, TxProgress, RecordInv, BudgetInv,
           PublishedIdsAreRows, Answerable, [Next]_vars, TypeOK',
           PublishedIdsAreRows'
    PROVE  Answerable'
<1> SUFFICES ASSUME NEW r \in Calls, (reply[r].code = "OK")', Alive(r)',
                    faults'[key'[r]] = 0
             PROVE  Hit(key[r])'
  BY DEF Answerable
<1>1. key'[r] \in Keys
  <2>1. Row(reply'[r].id, key'[r]) \in Rows
    BY DEF PublishedIdsAreRows, TypeOK, RepoTypeOK
  <2>2. QED
    BY <2>1 DEF Rows, Row
<1>2. CASE reply[r].code = "OK"
  <2>1. reply'[r] = reply[r] /\ key'[r] = key[r]
    BY <1>2, ToldStays
  <2>2. Alive(r)
    <3>1. ~Retry(r)
      BY <1>2 DEF Retry, Failure
    <3>2. Step(r) => cancelled \subseteq cancelled'
      BY DEF Step, CheckHit, CheckMiss, ClaimWon, ClaimLost, ClaimRetried,
             ClaimFailed, RecheckHit, RecheckMiss, Begin, InsertApp, InsertEvent,
             InsertFails, CommitTx, CommitLost, SetId, SetRetried, ReleaseClaim,
             ReleaseRetried
    <3>3. QED
      BY <3>1, <3>2, Turns, OthersStay
         DEF Turn, Alive, Arrive, Reject, Cancel, Crash, ExpirePending,
             ExpireCommitted, Expire, vars
  <2>3. faults[key[r]] = 0
    BY <1>1, <2>1, ChargesStay
  <2>4. Hit(key[r])
    BY <1>2, <2>2, <2>3 DEF Answerable
  <2>5. RowsOf(key[r]) # {}
    <3>1. Row(cache[key[r]].value, key[r]) \in apps
      BY <1>1, <2>1, <2>4 DEF PublishedIdsAreRows
    <3>2. QED
      BY <3>1 DEF RowsOf, Row
  <2>6. ASSUME NEW q \in Calls, Turn(q)
        PROVE  cache'[key[r]] = cache[key[r]]
    BY <1>1, <2>1, <2>3, <2>4, <2>6, HitKept
       DEF Turn, Arrive, Reject, Cancel, Crash, Retry
  <2>7. ASSUME NEW j \in Keys, ExpirePending(j) \/ ExpireCommitted(j)
        PROVE  cache'[key[r]] = cache[key[r]]
    <3>1. Expire(j)
      BY <2>7 DEF ExpirePending, ExpireCommitted
    <3>2. j # key[r]
      BY <1>1, <2>1, <2>3, <2>5, <3>1 DEF Expire, Charge, TypeOK
    <3>3. QED
      BY <1>1, <2>1, <3>1, <3>2 DEF Expire, Release, Write, TypeOK, DedupTypeOK
  <2>8. cache'[key[r]] = cache[key[r]]
    BY <2>6, <2>7, Turns DEF vars
  <2>9. QED
    BY <2>1, <2>4, <2>8 DEF Hit
<1>3. CASE reply[r].code # "OK"
  <2>1. Step(r)
    <3>1. ~(reply'[r] = reply[r])
      BY <1>3
    <3>2. ~(\/ \E k \in Keys : Arrive(r, k)
            \/ Reject(r) \/ Cancel(r) \/ Crash(r) \/ Retry(r))
      BY <3>1
         DEF Arrive, Reject, Cancel, Crash, Retry, Return, Failure, NoReply, TypeOK
    <3>3. QED
      BY <3>1, <3>2, Turns, OthersStay
         DEF Turn, ExpirePending, ExpireCommitted, Expire, vars
  <2>2. CASE CheckHit(r) \/ RecheckHit(r)
    BY <2>2 DEF CheckHit, RecheckHit, Hit
  <2>3. CASE SetId(r)
    <3>1. rec[r] \in Ids /\ key' = key /\ Set(key[r], rec[r])
      BY <2>3 DEF SetId, RedisFails, Alive, Return, Goto, TxProgress
    <3>2. QED
      BY <1>1, <3>1 DEF Set, Write, CommittedEntry, Hit, TypeOK, DedupTypeOK
  <2>4. CASE RecheckMiss(r) \/ ReleaseClaim(r)
    BY <2>4 DEF RecheckMiss, ReleaseClaim, Return, Failure, TypeOK
  <2>5. QED
    BY <1>3, <2>1, <2>2, <2>3, <2>4
       DEF Step, CheckMiss, ClaimWon, ClaimLost, ClaimRetried, ClaimFailed, Begin,
           InsertApp, InsertEvent, InsertFails, CommitTx, CommitLost, SetRetried,
           ReleaseRetried
<1>4. QED
  BY <1>2, <1>3

LEMMA AnswerableHolds ==
    ASSUME "redis" \notin Faults
    PROVE  Spec => []Answerable
<1>1. Init => Answerable
  BY DEF Init, Answerable, NoReply
<1>2. TypeOK /\ TxProgress /\ RecordInv /\ BudgetInv /\ PublishedIdsAreRows
         /\ Answerable /\ [Next]_vars /\ TypeOK' /\ PublishedIdsAreRows'
         => Answerable'
  BY AnswerableStep
<1>3. QED
  BY <1>1, <1>2, PipelineHolds, PTL DEF Spec

\* Remembered, with what it leaves out: while Redis works, an id given to a
\* caller on a good context is what Redis answers with from then on, until a
\* failure is charged to the key.  (On a context that has ended, Set is not
\* sent: that is how Remembered fails.)
ToldIsRemembered ==
    \A r \in Calls :
        (/\ reply[r].code = "OK"
         /\ Alive(r)
         /\ faults[key[r]] = 0) => cache[key[r]].value = reply[r].id

THEOREM ToldIsRememberedCorrect ==
    ASSUME "redis" \notin Faults
    PROVE  Spec => []ToldIsRemembered
<1>1. ASSUME TypeOK, BudgetInv, PublishedIdsAreRows, Answerable,
             NEW r \in Calls, reply[r].code = "OK", Alive(r), faults[key[r]] = 0
      PROVE  cache[key[r]].value = reply[r].id
  <2>1. Hit(key[r])
    BY <1>1 DEF Answerable
  <2>2. Row(reply[r].id, key[r]) \in apps
    BY <1>1 DEF PublishedIdsAreRows
  <2>3. key[r] \in Keys
    BY <1>1, <2>2 DEF TypeOK, RepoTypeOK, Rows, Row
  <2>4. Row(cache[key[r]].value, key[r]) \in apps
    BY <1>1, <2>1, <2>3 DEF PublishedIdsAreRows
  <2>5. QED
    BY <1>1, <2>2, <2>3, <2>4, OneRow
<1>2. TypeOK /\ BudgetInv /\ PublishedIdsAreRows /\ Answerable => ToldIsRemembered
  BY <1>1 DEF ToldIsRemembered
<1>3. QED
  BY <1>2, AnswerableHolds, PipelineHolds, PTL
=============================================================================
