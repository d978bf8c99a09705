---------------------------- MODULE SubmitProofs ----------------------------
(***************************************************************************)
(* Safety of the submission pipeline, for any number of calls, keys and    *)
(* ids and any set of failures.                                            *)
(***************************************************************************)
EXTENDS SubmitProperties, FiniteSetTheorems, TLAPS

-----------------------------------------------------------------------------
(* The Redis commands and the statements keep the two stores well typed.   *)

\* Every Redis command leaves at its key an entry that belongs there.
LEMMA DedupTyping ==
    ASSUME DedupTypeOK, NEW k \in Keys,
           Claim(k) \/ Release(k) \/ \E id \in Ids : Set(k, id)
    PROVE  DedupTypeOK'
BY DEF DedupTypeOK, Claim, Set, Release, Write, Entries, CommittedEntry

\* Every statement of InsertWithOutbox keeps the tables, the transactions and
\* the returned record well typed, given that InsertOutbox has a record.
LEMMA RepoTyping ==
    ASSUME RepoTypeOK, NEW c \in Calls, NEW k \in Keys,
           \/ BeginTx(c)
           \/ \E id \in Ids : InsertApplication(c, id, k)
           \/ rec[c] \in Ids /\ InsertOutbox(c, k)
           \/ Commit(c)
           \/ Rollback(c)
    PROVE  RepoTypeOK'
<1> USE DEF RepoTypeOK, Txs, NoTx, Tx
<1>1. CASE BeginTx(c)
  BY <1>1 DEF BeginTx
<1>2. CASE \E id \in Ids : InsertApplication(c, id, k)
  BY <1>2 DEF InsertApplication, Rows, Row
<1>3. CASE rec[c] \in Ids /\ InsertOutbox(c, k)
  BY <1>3 DEF InsertOutbox, Events, Event, Rows, Row
<1>4. CASE Commit(c)
  BY <1>4 DEF Commit
<1>5. CASE Rollback(c)
  BY <1>5 DEF Rollback
<1>6. QED
  BY <1>1, <1>2, <1>3, <1>4, <1>5

-----------------------------------------------------------------------------
(* Typing.                                                                 *)

\* What Submit adds to the two stores.
ControlTypeOK ==
    /\ pc \in [Calls -> Stages]
    /\ key \in [Calls -> Keys \cup {NoKey}]
    /\ \A r \in Calls :
          key[r] = NoKey <=>
              \/ pc[r] = "idle"
              \/ pc[r] = "done" /\ reply[r] = Failure("InvalidArgument")
    /\ reply \in [Calls -> Replies]
    /\ cancelled \subseteq Calls
    /\ faults \in [Keys -> Nat]

LEMMA TypeParts == TypeOK <=> DedupTypeOK /\ RepoTypeOK /\ ControlTypeOK
BY DEF TypeOK, ControlTypeOK

\* A call that is being served has the key of its request.
LEMMA KeyKnown ==
    ASSUME TypeOK, NEW r \in Calls, pc[r] \notin {"idle", "done"}
    PROVE  key[r] \in Keys
BY DEF TypeOK

\* An entry that hits holds an id.
LEMMA HitTyping ==
    ASSUME TypeOK, NEW k \in Keys, Hit(k)
    PROVE  cache[k].value \in Ids
BY DEF Hit

LEMMA TypeInit == Init => TypeOK /\ TxProgress
<1> SUFFICES ASSUME Init PROVE TypeOK /\ TxProgress
  OBVIOUS
<1>1. DedupTypeOK
  BY DEF Init, DedupInit, DedupTypeOK, Entries
<1>2. RepoTypeOK
  BY DEF Init, RepoInit, RepoTypeOK, Txs, NoTx
<1>3. ControlTypeOK
  BY DEF Init, ControlTypeOK, Stages, Replies, NoReply, Codes
<1>4. TxProgress
  BY DEF Init, RepoInit, TxProgress, Setting
<1>5. QED
  BY <1>1, <1>2, <1>3, <1>4, TypeParts

\* A call of submitOne changes Redis by one command, at its own key.
LEMMA CacheOfStep ==
    ASSUME TypeOK, TxProgress, NEW r \in Calls, Step(r)
    PROVE  /\ key[r] \in Keys
           /\ \/ UNCHANGED cache
              \/ Claim(key[r])
              \/ Release(key[r])
              \/ rec[r] \in Ids /\ Set(key[r], rec[r])
<1>1. pc[r] \notin {"idle", "done", "dead"}
  BY DEF Step, CheckHit, CheckMiss, ClaimWon, ClaimLost, ClaimRetried,
         ClaimFailed, RecheckHit, RecheckMiss, Begin, InsertApp, InsertEvent,
         InsertFails, CommitTx, CommitLost, SetId, SetRetried, ReleaseClaim,
         ReleaseRetried, Goto, Return, Inserting, Setting, Releasing
<1>2. key[r] \in Keys
  BY <1>1, KeyKnown
<1>3. CASE SetId(r) \/ SetRetried(r)
  BY <1>2, <1>3 DEF SetId, SetRetried, Goto, Return, TxProgress, Setting
<1>4. CASE ~(SetId(r) \/ SetRetried(r))
  BY <1>2, <1>4
     DEF Step, CheckHit, CheckMiss, ClaimWon, ClaimLost, ClaimRetried,
         ClaimFailed, RecheckHit, RecheckMiss, Begin, InsertApp, InsertEvent,
         InsertFails, CommitTx, CommitLost, ReleaseClaim, ReleaseRetried
<1>5. QED
  BY <1>2, <1>3, <1>4

\* A call of submitOne changes Postgres by one statement of its own.
LEMMA RepoOfStep ==
    ASSUME TypeOK, TxProgress, NEW r \in Calls, Step(r)
    PROVE  \/ UNCHANGED repoVars
           \/ BeginTx(r)
           \/ \E id \in Ids : InsertApplication(r, id, key[r])
           \/ rec[r] \in Ids /\ InsertOutbox(r, key[r])
           \/ Commit(r)
           \/ Rollback(r)
<1>1. CASE InsertEvent(r)
  BY <1>1 DEF InsertEvent, Goto, TxProgress
<1>2. CASE ~InsertEvent(r)
  BY <1>2
     DEF Step, CheckHit, CheckMiss, ClaimWon, ClaimLost, ClaimRetried,
         ClaimFailed, RecheckHit, RecheckMiss, Begin, InsertApp, InsertFails,
         CommitTx, CommitLost, SetId, SetRetried, ReleaseClaim, ReleaseRetried
<1>3. QED
  BY <1>1, <1>2

LEMMA ControlTypeStep ==
    ASSUME TypeOK, TxProgress, [Next]_vars
    PROVE  ControlTypeOK'
<1> USE DEF TypeOK, ControlTypeOK
<1>1. ASSUME NEW r \in Calls, NEW k \in Keys, Arrive(r, k)
      PROVE  ControlTypeOK'
  BY <1>1, IntakeAssumption DEF Arrive, Goto, Stages
<1>2. ASSUME NEW r \in Calls, Reject(r)
      PROVE  ControlTypeOK'
  BY <1>2 DEF Reject, Return, Goto, Stages, Finished, Replies, Failure, Codes
<1>3. ASSUME NEW r \in Calls, Step(r)
      PROVE  ControlTypeOK'
  <2>1. key[r] \in Keys /\ key' = key
    BY <1>3, CacheOfStep
       DEF Step, CheckHit, CheckMiss, ClaimWon, ClaimLost, ClaimRetried,
           ClaimFailed, RecheckHit, RecheckMiss, Begin, InsertApp, InsertEvent,
           InsertFails, CommitTx, CommitLost, SetId, SetRetried, ReleaseClaim,
           ReleaseRetried
  <2>2. \E stage \in Stages : pc' = [pc EXCEPT ![r] = stage]
    BY <1>3
       DEF Step, CheckHit, CheckMiss, ClaimWon, ClaimLost, ClaimRetried,
           ClaimFailed, RecheckHit, RecheckMiss, Begin, InsertApp, InsertEvent,
           InsertFails, CommitTx, CommitLost, SetId, SetRetried, ReleaseClaim,
           ReleaseRetried, Goto, Return, Stages, Inserting, Setting, Releasing,
           Finished
  <2>3. reply' \in [Calls -> Replies]
    <3>1. CASE CheckHit(r) \/ RecheckHit(r)
      BY <2>1, <3>1
         DEF CheckHit, RecheckHit, Return, Answer, Replies, Codes, Hit
    <3>2. CASE SetId(r)
      <4>1. pc[r] \in Setting /\ reply' = [reply EXCEPT ![r] = Answer(rec[r])]
        BY <3>2 DEF SetId, Return, Goto
      <4>2. Answer(rec[r]) \in Replies
        BY <4>1 DEF TxProgress, Answer, Replies, Codes
      <4>3. QED
        BY <4>1, <4>2
    <3>3. CASE RecheckMiss(r) \/ ReleaseClaim(r)
      BY <3>3 DEF RecheckMiss, ReleaseClaim, Return, Failure, Replies, Codes
    <3>4. CASE UNCHANGED reply
      BY <3>4
    <3>5. QED
      BY <1>3, <3>1, <3>2, <3>3, <3>4
         DEF Step, CheckMiss, ClaimWon, ClaimLost, ClaimRetried, ClaimFailed,
             Begin, InsertApp, InsertEvent, InsertFails, CommitTx, CommitLost,
             SetRetried, ReleaseRetried
  <2>4. cancelled' \in {cancelled, cancelled \cup {r}}
    BY <1>3
       DEF Step, CheckHit, CheckMiss, ClaimWon, ClaimLost, ClaimRetried,
           ClaimFailed, RecheckHit, RecheckMiss, Begin, InsertApp, InsertEvent,
           InsertFails, CommitTx, CommitLost, SetId, SetRetried, ReleaseClaim,
           ReleaseRetried
  <2>5. faults' = faults \/ Charge(key[r])
    BY <1>3
       DEF Step, CheckHit, CheckMiss, ClaimWon, ClaimLost, ClaimRetried,
           ClaimFailed, RecheckHit, RecheckMiss, Begin, InsertApp, InsertEvent,
           InsertFails, CommitTx, CommitLost, SetId, SetRetried, ReleaseClaim,
           ReleaseRetried
  <2>6. faults' \in [Keys -> Nat]
    BY <2>1, <2>5 DEF Charge
  <2>7. \A s \in Calls \ {r} : pc'[s] = pc[s] /\ reply'[s] = reply[s]
    BY <1>3
       DEF Step, CheckHit, CheckMiss, ClaimWon, ClaimLost, ClaimRetried,
           ClaimFailed, RecheckHit, RecheckMiss, Begin, InsertApp, InsertEvent,
           InsertFails, CommitTx, CommitLost, SetId, SetRetried, ReleaseClaim,
           ReleaseRetried, Goto, Return
  <2>8. \/ pc'[r] \notin {"idle", "done"}
        \/ pc'[r] = "done" /\ reply'[r].code # "InvalidArgument"
    <3>1. CASE CheckHit(r) \/ RecheckHit(r) \/ SetId(r)
      BY <3>1 DEF CheckHit, RecheckHit, SetId, Return, Goto, Answer
    <3>2. CASE RecheckMiss(r) \/ ReleaseClaim(r)
      BY <3>2 DEF RecheckMiss, ReleaseClaim, Return, Goto, Failure
    <3>3. CASE ~(\/ CheckHit(r) \/ RecheckHit(r) \/ SetId(r)
                 \/ RecheckMiss(r) \/ ReleaseClaim(r))
      BY <1>3, <3>3
         DEF Step, CheckMiss, ClaimWon, ClaimLost, ClaimRetried, ClaimFailed,
             Begin, InsertApp, InsertEvent, InsertFails, CommitTx, CommitLost,
             SetRetried, ReleaseRetried, Goto
    <3>4. QED
      BY <3>1, <3>2, <3>3
  <2>9. key[r] # NoKey
    BY <2>1, IntakeAssumption
  <2>10. ASSUME NEW s \in Calls
         PROVE  key'[s] = NoKey <=>
                   \/ pc'[s] = "idle"
                   \/ pc'[s] = "done" /\ reply'[s] = Failure("InvalidArgument")
    <3>1. CASE s = r
      BY <2>1, <2>8, <2>9, <3>1 DEF Failure
    <3>2. CASE s # r
      BY <2>1, <2>7, <3>2
    <3>3. QED
      BY <3>1, <3>2
  <2>11. QED
    BY <2>1, <2>2, <2>3, <2>4, <2>6, <2>10
<1>4. ASSUME NEW r \in Calls, Cancel(r)
      PROVE  ControlTypeOK'
  BY <1>4 DEF Cancel
<1>5. ASSUME NEW r \in Calls, Crash(r)
      PROVE  ControlTypeOK'
  BY <1>5, KeyKnown, IntakeAssumption DEF Crash, Running, Finished, Stages
<1>6. ASSUME NEW r \in Calls, Retry(r)
      PROVE  ControlTypeOK'
  <2>1. key[r] # NoKey
    BY <1>6 DEF Retry, Goto, Failure
  <2>2. NoReply \in Replies /\ "check" \in Stages
    BY DEF NoReply, Replies, Codes, Stages
  <2>3. QED
    BY <1>6, <2>1, <2>2 DEF Retry, Goto
<1>7. ASSUME NEW k \in Keys, ExpirePending(k) \/ ExpireCommitted(k)
      PROVE  ControlTypeOK'
  BY <1>7 DEF ExpirePending, ExpireCommitted, Expire, Charge
<1>8. CASE UNCHANGED vars
  BY <1>8 DEF vars
<1>9. QED
  BY <1>1, <1>2, <1>3, <1>4, <1>5, <1>6, <1>7, <1>8 DEF Next, Quiescent

\* Every step keeps the Redis entries well formed.
LEMMA DedupTypeStep ==
    ASSUME TypeOK, TxProgress, [Next]_vars
    PROVE  DedupTypeOK'
<1>1. DedupTypeOK
  BY TypeParts
<1>2. ASSUME UNCHANGED cache
      PROVE  DedupTypeOK'
  BY <1>1, <1>2 DEF DedupTypeOK
<1>3. ASSUME NEW k \in Keys, Claim(k) \/ Release(k) \/ \E id \in Ids : Set(k, id)
      PROVE  DedupTypeOK'
  BY <1>1, <1>3, DedupTyping
<1>4. ASSUME NEW r \in Calls, Step(r)
      PROVE  DedupTypeOK'
  BY <1>2, <1>3, <1>4, CacheOfStep
<1>5. ASSUME NEW k \in Keys, ExpirePending(k) \/ ExpireCommitted(k)
      PROVE  DedupTypeOK'
  BY <1>3, <1>5 DEF ExpirePending, ExpireCommitted, Expire
<1>6. QED
  BY <1>2, <1>4, <1>5 DEF Next, Arrive, Reject, Cancel, Crash, Retry, Quiescent, vars

\* Every step keeps the tables and the transactions well typed.
LEMMA RepoTypeStep ==
    ASSUME TypeOK, TxProgress, [Next]_vars
    PROVE  RepoTypeOK'
<1>1. RepoTypeOK
  BY TypeParts
<1>2. ASSUME UNCHANGED repoVars
      PROVE  RepoTypeOK'
  BY <1>1, <1>2 DEF RepoTypeOK, repoVars
<1>3. ASSUME NEW r \in Calls, Step(r)
      PROVE  RepoTypeOK'
  <2>1. key[r] \in Keys
    BY <1>3, CacheOfStep
  <2>2. QED
    BY <1>1, <1>2, <1>3, <2>1, RepoOfStep, RepoTyping
<1>4. ASSUME NEW r \in Calls, Crash(r)
      PROVE  RepoTypeOK'
  BY <1>1, <1>4 DEF Crash, Rollback, RepoTypeOK, Txs, NoTx
<1>5. QED
  BY <1>2, <1>3, <1>4
     DEF Next, Arrive, Reject, Cancel, Retry, Quiescent, ExpirePending,
         ExpireCommitted, Expire, vars, repoVars

-----------------------------------------------------------------------------
(* The transaction of a call.                                              *)

\* A call's step leaves the transactions, records and keys of the others be.
LEMMA OthersUntouched ==
    ASSUME TypeOK, NEW r \in Calls, Step(r) \/ Crash(r),
           NEW s \in Calls \ {r}
    PROVE  /\ pc'[s] = pc[s]
           /\ key'[s] = key[s]
           /\ tx'[s] = tx[s]
           /\ rec'[s] = rec[s]
           /\ apps \subseteq apps'
<1> USE DEF TypeOK, RepoTypeOK, repoVars
<1>1. CASE Step(r)
  <2>1. /\ pc'[s] = pc[s]
        /\ key'[s] = key[s]
    BY <1>1
       DEF Step, CheckHit, CheckMiss, ClaimWon, ClaimLost, ClaimRetried,
           ClaimFailed, RecheckHit, RecheckMiss, Begin, InsertApp,
           InsertEvent, InsertFails, CommitTx, CommitLost, SetId, SetRetried,
           ReleaseClaim, ReleaseRetried, Goto, Return
  <2>2. CASE UNCHANGED repoVars
    BY <2>1, <2>2
  <2>3. CASE Begin(r)
    BY <2>1, <2>3 DEF Begin, BeginTx
  <2>4. CASE InsertApp(r)
    BY <2>1, <2>4 DEF InsertApp, InsertApplication
  <2>5. CASE InsertEvent(r)
    BY <2>1, <2>5 DEF InsertEvent, InsertOutbox
  <2>6. CASE InsertFails(r)
    BY <2>1, <2>6 DEF InsertFails, Rollback
  <2>7. CASE CommitTx(r) \/ CommitLost(r)
    BY <2>1, <2>7 DEF CommitTx, CommitLost, Commit
  <2>8. QED
    BY <1>1, <2>2, <2>3, <2>4, <2>5, <2>6, <2>7
       DEF Step, CheckHit, CheckMiss, ClaimWon, ClaimLost, ClaimRetried,
           ClaimFailed, RecheckHit, RecheckMiss, SetId, SetRetried,
           ReleaseClaim, ReleaseRetried
<1>2. CASE Crash(r)
  BY <1>2 DEF Crash, Rollback
<1>3. QED
  BY <1>1, <1>2

\* TxProgress for one call.
Progress(r) ==
    LET row == Row(rec[r], key[r])
    IN  /\ pc[r] \notin {"app", "outbox", "commit"} => tx[r] = NoTx
        /\ pc[r] = "app" => tx[r] = Tx({}, {})
        /\ pc[r] = "outbox" => rec[r] \in Ids /\ tx[r] = Tx({row}, {})
        /\ pc[r] = "commit" => rec[r] \in Ids /\ tx[r] = Tx({row}, {Event(row)})
        /\ pc[r] \in Setting => rec[r] \in Ids /\ row \in apps

LEMMA ProgressOfAll == TxProgress <=> \A r \in Calls : Progress(r)
BY DEF TxProgress, Progress

\* Each statement leaves the transaction as the next statement expects it.
LEMMA OwnProgress ==
    ASSUME TypeOK, NEW r \in Calls, Progress(r), Step(r) \/ Crash(r)
    PROVE  Progress(r)'
<1> DEFINE row == Row(rec[r], key[r])
<1> USE DEF TypeOK, RepoTypeOK, Progress, Setting, Goto, Return
<1>1. CASE Begin(r)
  BY <1>1 DEF Begin, BeginTx
<1>2. CASE InsertApp(r)
  <2>1. PICK id \in Ids : InsertApplication(r, id, key[r])
    BY <1>2 DEF InsertApp
  <2>2. pc'[r] = "outbox" /\ key' = key /\ rec'[r] = id
    BY <1>2, <2>1 DEF InsertApp, InsertApplication
  <2>3. tx[r] = Tx({}, {})
    BY <1>2 DEF InsertApp
  <2>4. tx'[r] = Tx(tx[r].apps \cup {Row(id, key[r])}, tx[r].outbox)
    BY <2>1 DEF InsertApplication
  <2>5. tx'[r] = Tx({Row(id, key[r])}, {})
    BY <2>3, <2>4 DEF Tx
  <2>6. QED
    BY <2>2, <2>5
<1>3. CASE InsertEvent(r)
  <2>1. tx[r] = Tx({row}, {}) /\ rec[r] \in Ids
    BY <1>3 DEF InsertEvent
  <2>2. pc'[r] = "commit" /\ key' = key /\ rec' = rec
    BY <1>3 DEF InsertEvent, InsertOutbox
  <2>3. tx'[r] = Tx(tx[r].apps, tx[r].outbox \cup {Event(row)})
    BY <1>3 DEF InsertEvent, InsertOutbox
  <2>4. tx'[r] = Tx({row}, {Event(row)})
    BY <2>1, <2>3 DEF Tx
  <2>5. QED
    BY <2>1, <2>2, <2>4
<1>4. CASE CommitTx(r) \/ CommitLost(r)
  <2>1. tx[r] = Tx({row}, {Event(row)}) /\ rec[r] \in Ids
    BY <1>4 DEF CommitTx, CommitLost
  <2>2. pc'[r] \in {"set", "release"} /\ key' = key /\ rec' = rec
    BY <1>4 DEF CommitTx, CommitLost, Commit
  <2>3. tx'[r] = NoTx /\ row \in apps'
    BY <1>4, <2>1 DEF CommitTx, CommitLost, Commit, Tx
  <2>4. QED
    BY <2>1, <2>2, <2>3
<1>5. CASE InsertFails(r) \/ Crash(r)
  <2>1. pc'[r] \in {"release", "dead"} /\ tx'[r] = NoTx
    BY <1>5 DEF InsertFails, Crash, Rollback
  <2>2. QED
    BY <2>1
<1>6. CASE /\ UNCHANGED <<apps, tx, rec, key>>
           /\ pc[r] \notin {"app", "outbox", "commit"}
           /\ pc'[r] \notin {"app", "outbox", "commit"}
           /\ pc'[r] \in Setting => pc[r] \in Setting
  BY <1>6
<1>7. QED
  BY <1>1, <1>2, <1>3, <1>4, <1>5, <1>6
     DEF Step, CheckHit, CheckMiss, ClaimWon, ClaimLost, ClaimRetried,
         ClaimFailed, RecheckHit, RecheckMiss, SetId, SetRetried,
         ReleaseClaim, ReleaseRetried, Releasing, repoVars

\* Every step keeps TxProgress.
LEMMA TxProgressStep ==
    ASSUME TypeOK, TxProgress, [Next]_vars
    PROVE  TxProgress'
<1> SUFFICES ASSUME NEW s \in Calls
             PROVE  Progress(s)'
  BY DEF TxProgress, Progress
<1>1. Progress(s)
  BY ProgressOfAll
<1>2. ASSUME NEW r \in Calls, Step(r) \/ Crash(r)
      PROVE  Progress(s)'
  <2>1. CASE r = s
    BY <1>1, <1>2, <2>1, OwnProgress
  <2>2. CASE r # s
    BY <1>1, <1>2, <2>2, OthersUntouched DEF Progress
  <2>3. QED
    BY <2>1, <2>2
<1>3. ASSUME NEW r \in Calls, NEW k \in Keys, Arrive(r, k)
      PROVE  Progress(s)'
  BY <1>1, <1>3 DEF Arrive, Goto, repoVars, Progress, TypeOK, Setting
<1>4. ASSUME NEW r \in Calls, Reject(r) \/ Retry(r)
      PROVE  Progress(s)'
  BY <1>1, <1>4 DEF Reject, Retry, Return, Goto, repoVars, Progress, TypeOK, Setting
<1>5. CASE UNCHANGED <<repoVars, pc, key>>
  BY <1>1, <1>5 DEF repoVars, Progress
<1>6. QED
  BY <1>2, <1>3, <1>4, <1>5
     DEF Next, Cancel, ExpirePending, ExpireCommitted, Expire, Quiescent, vars,
         repoVars

\* The type invariant needs what an open transaction holds, and the other way
\* round, so the two are proved together.
LEMMA TypeHolds == Spec => [](TypeOK /\ TxProgress)
<1>1. Init => TypeOK /\ TxProgress
  BY TypeInit
<1>2. TypeOK /\ TxProgress /\ [Next]_vars => (TypeOK /\ TxProgress)'
  <2>1. ASSUME TypeOK, TxProgress, [Next]_vars
        PROVE  TypeOK'
    <3>1. DedupTypeOK' /\ RepoTypeOK' /\ ControlTypeOK'
      BY <2>1, DedupTypeStep, RepoTypeStep, ControlTypeStep
    <3>2. QED
      BY <3>1 DEF TypeOK, ControlTypeOK
  <2>2. QED
    BY <2>1, TxProgressStep
<1>3. QED
  BY <1>1, <1>2, PTL DEF Spec

\* The variables have their types, for every interleaving and set of failures.
THEOREM TypeCorrect == Spec => []TypeOK
BY TypeHolds, PTL

\* An open transaction holds at each statement of InsertWithOutbox what the
\* statements before it wrote, and none is left open on any way out.
THEOREM TxProgressCorrect == Spec => []TxProgress
BY TypeHolds, PTL

-----------------------------------------------------------------------------
(* The dual write.                                                         *)

\* The tables change only when some call commits, and then by the row of that
\* call and its event.
LEMMA TablesOfStep ==
    ASSUME TypeOK, TxProgress, [Next]_vars
    PROVE  \/ UNCHANGED <<apps, outbox>>
           \/ \E r \in Calls :
                 LET row == Row(rec[r], key[r])
                 IN  /\ CommitTx(r) \/ CommitLost(r)
                     /\ row \in Rows
                     /\ apps' = apps \cup {row}
                     /\ outbox' = outbox \cup {Event(row)}
<1>1. ASSUME NEW r \in Calls, CommitTx(r) \/ CommitLost(r)
      PROVE  LET row == Row(rec[r], key[r])
             IN  /\ row \in Rows
                 /\ apps' = apps \cup {row}
                 /\ outbox' = outbox \cup {Event(row)}
  <2> DEFINE row == Row(rec[r], key[r])
  <2>1. pc[r] = "commit" /\ Commit(r)
    BY <1>1 DEF CommitTx, CommitLost, Goto
  <2>2. tx[r] = Tx({row}, {Event(row)}) /\ rec[r] \in Ids
    BY <2>1 DEF TxProgress
  <2>3. key[r] \in Keys
    BY <2>1, KeyKnown
  <2>4. QED
    BY <2>1, <2>2, <2>3 DEF Commit, Tx, Rows, Row
<1>2. ASSUME NEW r \in Calls, Step(r), ~(CommitTx(r) \/ CommitLost(r))
      PROVE  UNCHANGED <<apps, outbox>>
  BY <1>2
     DEF Step, CheckHit, CheckMiss, ClaimWon, ClaimLost, ClaimRetried,
         ClaimFailed, RecheckHit, RecheckMiss, Begin, BeginTx, InsertApp,
         InsertApplication, InsertEvent, InsertOutbox, InsertFails, Rollback,
         SetId, SetRetried, ReleaseClaim, ReleaseRetried, repoVars
<1>3. QED
  BY <1>1, <1>2
     DEF Next, Arrive, Reject, Cancel, Crash, Rollback, Retry, ExpirePending,
         ExpireCommitted, Expire, Quiescent, vars, repoVars

\* An application and its outbox event become visible together, under every
\* interleaving, statement failure, lost COMMIT and crash.
THEOREM DualWriteCorrect == Spec => []DualWrite
<1>1. Init => DualWrite
  BY DEF Init, RepoInit, DualWrite
<1>2. TypeOK /\ TxProgress /\ DualWrite /\ [Next]_vars => DualWrite'
  <2> SUFFICES ASSUME TypeOK, TxProgress, DualWrite, [Next]_vars
               PROVE  DualWrite'
    OBVIOUS
  <2>1. CASE UNCHANGED <<apps, outbox>>
    BY <2>1 DEF DualWrite
  <2>2. ASSUME NEW row, apps' = apps \cup {row}, outbox' = outbox \cup {Event(row)}
        PROVE  DualWrite'
    BY <2>2 DEF DualWrite
  <2>3. QED
    BY <2>1, <2>2, TablesOfStep
<1>3. QED
  BY <1>1, <1>2, TypeHolds, PTL DEF Spec

-----------------------------------------------------------------------------
(* Ids that have been given out.                                           *)

LEMMA PublishedStep ==
    ASSUME TypeOK, TxProgress, PublishedIdsAreRows, [Next]_vars
    PROVE  PublishedIdsAreRows'
<1>1. apps \subseteq apps'
  BY TablesOfStep
<1>2. ASSUME NEW k \in Keys, Hit(k)'
      PROVE  (Row(cache[k].value, k) \in apps)'
  <2>1. CASE cache'[k] = cache[k]
    BY <1>1, <1>2, <2>1 DEF PublishedIdsAreRows, Hit
  <2>2. CASE \E r \in Calls : key[r] = k /\ (SetId(r) \/ SetRetried(r)) /\ Set(k, rec[r])
    <3>1. PICK r \in Calls : key[r] = k /\ (SetId(r) \/ SetRetried(r)) /\ Set(k, rec[r])
      BY <2>2
    <3>2. Row(rec[r], k) \in apps
      BY <3>1 DEF SetId, SetRetried, Return, Goto, Setting, TxProgress
    <3>3. cache'[k].value = rec[r]
      BY <3>1 DEF Set, Write, CommittedEntry, TypeOK, DedupTypeOK
    <3>4. QED
      BY <1>1, <3>2, <3>3
  <2>3. CASE cache'[k] \in {Empty, PendingEntry}
    BY <1>2, <2>3, IntakeAssumption DEF Hit, Empty, PendingEntry
  <2>4. ASSUME NEW j \in Keys, Claim(j) \/ Release(j)
        PROVE  cache'[k] = cache[k] \/ cache'[k] \in {Empty, PendingEntry}
    BY <2>4 DEF Claim, Release, Write, TypeOK, DedupTypeOK
  <2>5. ASSUME NEW r \in Calls, SetId(r) \/ SetRetried(r)
        PROVE  \/ cache'[k] = cache[k]
               \/ key[r] = k /\ Set(k, rec[r])
    BY <2>5, KeyKnown
       DEF SetId, SetRetried, Set, Write, TypeOK, DedupTypeOK, Return, Goto, Setting
  <2>6. ASSUME NEW r \in Calls, Step(r)
        PROVE  \/ UNCHANGED cache
               \/ SetId(r) \/ SetRetried(r)
               \/ key[r] \in Keys /\ (Claim(key[r]) \/ Release(key[r]))
    BY <2>6, CacheOfStep
       DEF Step, CheckHit, CheckMiss, ClaimWon, ClaimLost, ClaimRetried,
           ClaimFailed, RecheckHit, RecheckMiss, Begin, InsertApp, InsertEvent,
           InsertFails, CommitTx, CommitLost, ReleaseClaim, ReleaseRetried
  <2>7. \/ UNCHANGED cache
        \/ \E r \in Calls : Step(r)
        \/ \E j \in Keys : Release(j)
    BY DEF Next, Arrive, Reject, Cancel, Crash, Retry, ExpirePending,
           ExpireCommitted, Expire, Quiescent, vars
  <2>8. QED
    BY <2>1, <2>2, <2>3, <2>4, <2>5, <2>6, <2>7
<1>3. ASSUME NEW r \in Calls, (reply[r].code = "OK")'
      PROVE  (Row(reply[r].id, key[r]) \in apps)'
  <2>1. CASE reply'[r] = reply[r] /\ key'[r] = key[r]
    BY <1>1, <1>3, <2>1 DEF PublishedIdsAreRows
  <2>2. CASE CheckHit(r) \/ RecheckHit(r)
    <3>1. Hit(key[r]) /\ key[r] \in Keys /\ key' = key
      BY <2>2, KeyKnown DEF CheckHit, RecheckHit, Return, Goto
    <3>2. reply'[r].id = cache[key[r]].value
      BY <2>2 DEF CheckHit, RecheckHit, Return, Answer, TypeOK
    <3>3. QED
      BY <1>1, <3>1, <3>2 DEF PublishedIdsAreRows
  <2>3. CASE SetId(r)
    <3>1. Row(rec[r], key[r]) \in apps /\ key' = key
      BY <2>3 DEF SetId, Return, Goto, TxProgress, Setting
    <3>2. reply'[r].id = rec[r]
      BY <2>3 DEF SetId, Return, Answer, TypeOK
    <3>3. QED
      BY <1>1, <3>1, <3>2
  <2>4. CASE \E code \in Codes \ {"OK"} : reply'[r] \in {Failure(code), NoReply}
    BY <1>3, <2>4 DEF Failure, NoReply
  <2>5. ASSUME NEW q \in Calls, NEW k \in Keys, Arrive(q, k)
        PROVE  reply'[r] = reply[r] /\ key'[r] = key[r]
    <3>1. CASE q # r
      BY <2>5, <3>1 DEF Arrive, TypeOK
    <3>2. CASE q = r
      <4>1. key[r] = NoKey /\ reply' = reply
        BY <2>5, <3>2 DEF Arrive, Goto, TypeOK
      <4>2. Row(reply[r].id, NoKey) \in Rows
        BY <1>3, <4>1 DEF PublishedIdsAreRows, TypeOK, RepoTypeOK
      <4>3. QED
        BY <4>2, IntakeAssumption DEF Rows, Row
    <3>3. QED
      BY <3>1, <3>2
  <2>6. ASSUME NEW q \in Calls, Step(q) \/ Reject(q) \/ Retry(q)
        PROVE  \/ reply'[r] = reply[r] /\ key'[r] = key[r]
               \/ CheckHit(r) \/ RecheckHit(r) \/ SetId(r)
               \/ \E code \in Codes \ {"OK"} : reply'[r] \in {Failure(code), NoReply}
    <3>1. CASE CheckHit(q) \/ RecheckHit(q) \/ SetId(q)
      BY <3>1 DEF CheckHit, RecheckHit, SetId, Return, TypeOK
    <3>2. CASE \/ Retry(q) \/ Reject(q)
               \/ RecheckMiss(q) \/ ReleaseClaim(q)
      BY <3>2 DEF Retry, Reject, RecheckMiss, ReleaseClaim, Return, TypeOK, Codes
    <3>3. CASE UNCHANGED <<reply, key>>
      BY <3>3
    <3>4. QED
      BY <2>6, <3>1, <3>2, <3>3
         DEF Step, CheckMiss, ClaimWon, ClaimLost, ClaimRetried, ClaimFailed,
             Begin, InsertApp, InsertEvent, InsertFails, CommitTx, CommitLost,
             SetRetried, ReleaseRetried
  <2>7. QED
    BY <2>1, <2>2, <2>3, <2>4, <2>5, <2>6
       DEF Next, Cancel, Crash, ExpirePending, ExpireCommitted, Expire,
           Quiescent, vars
<1>4. QED
  BY <1>2, <1>3 DEF PublishedIdsAreRows

\* An id that Redis or submitOne gives out belongs to a committed application
\* of the key it was asked for.
THEOREM PublishedCorrect == Spec => []PublishedIdsAreRows
<1>1. Init => PublishedIdsAreRows
  BY IntakeAssumption
     DEF Init, DedupInit, Empty, Hit, NoReply, PublishedIdsAreRows
<1>2. TypeOK /\ TxProgress /\ PublishedIdsAreRows /\ [Next]_vars
         => PublishedIdsAreRows'
  BY PublishedStep
<1>3. QED
  BY <1>1, <1>2, TypeHolds, PTL DEF Spec

-----------------------------------------------------------------------------
(* The budget: the dedup slot as a ticket.                                 *)

Vacancy(k) == IF cache[k] = Empty THEN 1 ELSE 0

\* Budget for one key.
Ledger(k) ==
    Cardinality(RowsOf(k)) + Cardinality(Stake(k)) + Vacancy(k) <= 1 + faults[k]

\* Budget with what its proof needs beside it.
BudgetInv == IsFiniteSet(apps) /\ \A k \in Keys : Ledger(k)

LEMMA BudgetParts == (\A k \in Keys : Ledger(k)) <=> Budget
BY DEF Budget, Ledger, Vacancy

\* What is counted can be counted.
LEMMA Countable ==
    ASSUME TypeOK, IsFiniteSet(apps), NEW k \in Keys
    PROVE  /\ IsFiniteSet(RowsOf(k)) /\ Cardinality(RowsOf(k)) \in Nat
           /\ IsFiniteSet(Stake(k)) /\ Cardinality(Stake(k)) \in Nat
           /\ faults[k] \in Nat
           /\ Vacancy(k) \in {0, 1}
<1>1. RowsOf(k) \subseteq apps /\ Stake(k) \subseteq Calls
  BY DEF RowsOf, Stake
<1>2. IsFiniteSet(RowsOf(k)) /\ IsFiniteSet(Stake(k))
  BY <1>1, FS_Subset, IntakeAssumption
<1>3. QED
  BY <1>2, FS_CardinalityType DEF Vacancy, TypeOK

\* A set that gains at most one element grows by at most one; one that loses
\* an element it had shrinks.
LEMMA Growth ==
    ASSUME NEW S, IsFiniteSet(S), NEW T, NEW x
    PROVE  /\ T \subseteq S =>
                 Cardinality(T) \in Nat /\ Cardinality(T) <= Cardinality(S)
           /\ T \subseteq S \cup {x} =>
                 Cardinality(T) \in Nat /\ Cardinality(T) <= Cardinality(S) + 1
           /\ T \subseteq S \ {x} /\ x \in S =>
                 Cardinality(T) \in Nat /\ Cardinality(T) <= Cardinality(S) - 1
<1>1. Cardinality(S) \in Nat
  BY FS_CardinalityType
<1>2. ASSUME T \subseteq S
      PROVE  Cardinality(T) \in Nat /\ Cardinality(T) <= Cardinality(S)
  BY <1>2, FS_Subset, FS_CardinalityType
<1>3. ASSUME T \subseteq S \cup {x}
      PROVE  Cardinality(T) \in Nat /\ Cardinality(T) <= Cardinality(S) + 1
  <2>1. /\ IsFiniteSet(S \cup {x})
        /\ Cardinality(S \cup {x}) <= Cardinality(S) + 1
        /\ Cardinality(S \cup {x}) \in Nat
    BY <1>1, FS_AddElement
  <2>2. Cardinality(T) \in Nat /\ Cardinality(T) <= Cardinality(S \cup {x})
    BY <1>3, <2>1, FS_Subset, FS_CardinalityType
  <2>3. QED
    BY <1>1, <2>1, <2>2
<1>4. ASSUME T \subseteq S \ {x}, x \in S
      PROVE  Cardinality(T) \in Nat /\ Cardinality(T) <= Cardinality(S) - 1
  <2>1. IsFiniteSet(S \ {x}) /\ Cardinality(S \ {x}) = Cardinality(S) - 1
    BY <1>4, FS_RemoveElement
  <2>2. Cardinality(T) \in Nat /\ Cardinality(T) <= Cardinality(S \ {x})
    BY <1>4, <2>1, FS_Subset, FS_CardinalityType
  <2>3. QED
    BY <2>1, <2>2
<1>5. QED
  BY <1>2, <1>3, <1>4

\* How the stake of a key moves when one of its calls, or another, steps.
LEMMA StakeOfStep ==
    ASSUME TypeOK, NEW r \in Calls, Step(r) \/ Crash(r), NEW k \in Keys
    PROVE  /\ Stake(k)' \subseteq Stake(k) \cup {r}
           /\ key[r] # k => Stake(k)' \subseteq Stake(k)
           /\ pc[r] \in Inserting \cup Releasing => Stake(k)' \subseteq Stake(k)
           /\ pc'[r] \notin Inserting \cup Releasing => Stake(k)' \subseteq Stake(k) \ {r}
<1>1. key' = key /\ cancelled \subseteq cancelled'
  BY DEF Step, CheckHit, CheckMiss, ClaimWon, ClaimLost, ClaimRetried,
         ClaimFailed, RecheckHit, RecheckMiss, Begin, InsertApp, InsertEvent,
         InsertFails, CommitTx, CommitLost, SetId, SetRetried, ReleaseClaim,
         ReleaseRetried, Crash
<1>2. \A s \in Calls \ {r} : pc'[s] = pc[s]
  BY OthersUntouched
<1>3. \A s \in Stake(k)' : s \in Calls /\ key'[s] = k
                           /\ pc'[s] \in Inserting \cup Releasing /\ s \notin cancelled'
  BY DEF Stake, Alive, Inserting, Releasing
<1>4. \A s \in Calls : (/\ key[s] = k
                        /\ pc[s] \in Inserting \cup Releasing
                        /\ s \notin cancelled) => s \in Stake(k)
  BY DEF Stake, Alive
<1>5. Stake(k)' \subseteq Stake(k) \cup {r}
  BY <1>1, <1>2, <1>3, <1>4
<1>6. ASSUME key[r] # k \/ pc[r] \in Inserting \cup Releasing
      PROVE  Stake(k)' \subseteq Stake(k)
  BY <1>1, <1>2, <1>3, <1>4, <1>6
<1>7. ASSUME pc'[r] \notin Inserting \cup Releasing
      PROVE  Stake(k)' \subseteq Stake(k) \ {r}
  BY <1>3, <1>5, <1>7
<1>8. QED
  BY <1>5, <1>6, <1>7

\* The rows of a key move only when one of its calls commits, by one row.
LEMMA RowsOfStep ==
    ASSUME TypeOK, TxProgress, IsFiniteSet(apps), [Next]_vars, NEW k \in Keys
    PROVE  /\ IsFiniteSet(apps')
           /\ \/ RowsOf(k)' = RowsOf(k)
              \/ \E r \in Calls :
                    /\ key[r] = k
                    /\ CommitTx(r) \/ CommitLost(r)
                    /\ \E row \in Rows : RowsOf(k)' = RowsOf(k) \cup {row}
<1>1. CASE UNCHANGED <<apps, outbox>>
  BY <1>1 DEF RowsOf
<1>2. ASSUME NEW r \in Calls, CommitTx(r) \/ CommitLost(r),
             Row(rec[r], key[r]) \in Rows, apps' = apps \cup {Row(rec[r], key[r])}
      PROVE  /\ IsFiniteSet(apps')
             /\ \/ RowsOf(k)' = RowsOf(k)
                \/ /\ key[r] = k
                   /\ RowsOf(k)' = RowsOf(k) \cup {Row(rec[r], key[r])}
  <2>1. IsFiniteSet(apps')
    BY <1>2, FS_AddElement
  <2>2. CASE key[r] = k
    BY <1>2, <2>1, <2>2 DEF RowsOf, Row
  <2>3. CASE key[r] # k
    BY <1>2, <2>1, <2>3 DEF RowsOf, Row
  <2>4. QED
    BY <2>2, <2>3
<1>3. QED
  BY <1>1, <1>2, TablesOfStep

\* A step that adds no row, no stake and no vacancy to a key keeps its ledger.
LEMMA QuietLedger ==
    ASSUME TypeOK, IsFiniteSet(apps), NEW k \in Keys, Ledger(k),
           TypeOK', RowsOf(k)' = RowsOf(k), Stake(k)' \subseteq Stake(k),
           cache'[k] = Empty => cache[k] = Empty,
           faults'[k] >= faults[k]
    PROVE  Ledger(k)'
<1>1. Cardinality(Stake(k))' \in Nat /\ Cardinality(Stake(k))' <= Cardinality(Stake(k))
  BY Countable, Growth
<1>2. Vacancy(k)' \in {0, 1} /\ Vacancy(k)' <= Vacancy(k)
  BY DEF Vacancy
<1>3. faults[k] \in Nat /\ faults'[k] \in Nat
  BY DEF TypeOK
<1>4. Cardinality(RowsOf(k))' = Cardinality(RowsOf(k))
  OBVIOUS
<1>5. QED
  BY <1>1, <1>2, <1>3, <1>4, Countable DEF Ledger

\* A call's step touches Redis and the charges at its own key only.
LEMMA OtherKeysUntouched ==
    ASSUME TypeOK, TxProgress, NEW r \in Calls, Step(r),
           NEW k \in Keys, key[r] # k
    PROVE  cache'[k] = cache[k] /\ faults'[k] = faults[k]
<1>1. cache'[k] = cache[k]
  BY CacheOfStep DEF Claim, Release, Set, Write, TypeOK, DedupTypeOK
<1>2. faults' = faults \/ Charge(key[r])
  BY DEF Step, CheckHit, CheckMiss, ClaimWon, ClaimLost, ClaimRetried,
         ClaimFailed, RecheckHit, RecheckMiss, Begin, InsertApp, InsertEvent,
         InsertFails, CommitTx, CommitLost, SetId, SetRetried, ReleaseClaim,
         ReleaseRetried
<1>3. faults'[k] = faults[k]
  BY <1>2 DEF Charge, TypeOK
<1>4. QED
  BY <1>1, <1>3

\* Each step of a call keeps the ledger of its own key.
LEMMA OwnLedger ==
    ASSUME TypeOK, TxProgress, IsFiniteSet(apps), NEW r \in Calls, Step(r),
           TypeOK', NEW k \in Keys, key[r] = k, Ledger(k)
    PROVE  Ledger(k)'
<1>0. /\ Cardinality(RowsOf(k)) \in Nat
      /\ Cardinality(Stake(k)) \in Nat
      /\ faults[k] \in Nat /\ faults'[k] \in Nat
      /\ Vacancy(k) \in {0, 1} /\ Vacancy(k)' \in {0, 1}
  BY Countable DEF Vacancy, TypeOK
<1>1. CASE ClaimWon(r)
  \* The slot's ticket passes to the call.
  <2>1. Vacancy(k) = 1 /\ Vacancy(k)' = 0
    BY <1>1, IntakeAssumption
       DEF ClaimWon, Claimable, Claim, Write, Vacancy, Empty, PendingEntry,
           TypeOK, DedupTypeOK
  <2>2. faults' = faults /\ RowsOf(k)' = RowsOf(k)
    BY <1>1 DEF ClaimWon, RowsOf, repoVars
  <2>3. /\ Cardinality(Stake(k))' \in Nat
        /\ Cardinality(Stake(k))' <= Cardinality(Stake(k)) + 1
    BY StakeOfStep, Countable, Growth
  <2>4. QED
    BY <1>0, <2>1, <2>2, <2>3 DEF Ledger
<1>2. CASE ClaimFailed(r) /\ Alive(r)
  \* The call stakes without a ticket: that is what is charged.
  <2>1. Vacancy(k)' <= Vacancy(k)
    BY <1>2, IntakeAssumption
       DEF ClaimFailed, Claim, Write, Vacancy, Empty, PendingEntry, TypeOK,
           DedupTypeOK
  <2>2. faults'[k] = faults[k] + 1 /\ RowsOf(k)' = RowsOf(k)
    BY <1>2 DEF ClaimFailed, Charge, RowsOf, repoVars, TypeOK
  <2>3. /\ Cardinality(Stake(k))' \in Nat
        /\ Cardinality(Stake(k))' <= Cardinality(Stake(k)) + 1
    BY StakeOfStep, Countable, Growth
  <2>4. QED
    BY <1>0, <2>1, <2>2, <2>3 DEF Ledger
<1>3. CASE CommitTx(r) \/ CommitLost(r)
  \* The stake becomes a row; if the call stays in the game it is charged.
  <2>1. cache' = cache /\ Vacancy(k)' = Vacancy(k)
    BY <1>3 DEF CommitTx, CommitLost, Vacancy
  <2>2. Alive(r) /\ r \in Stake(k)
    BY <1>3 DEF CommitTx, CommitLost, Goto, Stake, Inserting
  <2>3. /\ Cardinality(RowsOf(k))' \in Nat
        /\ Cardinality(RowsOf(k))' <= Cardinality(RowsOf(k)) + 1
    <3>1. \E row : RowsOf(k)' \subseteq RowsOf(k) \cup {row}
      BY RowsOfStep DEF Next
    <3>2. QED
      BY <3>1, Countable, Growth
  <2>4. CASE faults'[k] = faults[k] + 1
    <3>1. Stake(k)' \subseteq Stake(k)
      BY <1>3, StakeOfStep DEF CommitTx, CommitLost, Goto, Inserting
    <3>2. Cardinality(Stake(k))' \in Nat /\ Cardinality(Stake(k))' <= Cardinality(Stake(k))
      BY <3>1, Countable, Growth
    <3>3. QED
      BY <1>0, <2>1, <2>3, <2>4, <3>2 DEF Ledger
  <2>5. CASE faults' = faults /\ (pc'[r] = "set" \/ r \in cancelled')
    <3>1. r \notin Stake(k)'
      BY <2>5 DEF Stake, Alive, Inserting, Releasing
    <3>2. Stake(k)' \subseteq Stake(k) \ {r}
      BY <3>1, StakeOfStep
    <3>3. /\ Cardinality(Stake(k))' \in Nat
          /\ Cardinality(Stake(k))' <= Cardinality(Stake(k)) - 1
      BY <2>2, <3>2, Countable, Growth
    <3>4. QED
      BY <1>0, <2>1, <2>3, <2>5, <3>3 DEF Ledger
  <2>6. QED
    BY <1>3, <2>4, <2>5 DEF CommitTx, CommitLost, Charge, Goto, TypeOK
<1>4. CASE ReleaseClaim(r) /\ Alive(r)
  \* The stake goes back into the slot.
  <2>1. faults' = faults /\ RowsOf(k)' = RowsOf(k)
    BY <1>4 DEF ReleaseClaim, RowsOf, repoVars
  <2>2. r \in Stake(k)
    BY <1>4 DEF ReleaseClaim, Return, Goto, Stake
  <2>3. pc'[r] \notin Inserting \cup Releasing
    BY <1>4 DEF ReleaseClaim, Return, Goto, Inserting, Releasing, TypeOK
  <2>4. /\ Cardinality(Stake(k))' \in Nat
        /\ Cardinality(Stake(k))' <= Cardinality(Stake(k)) - 1
    BY <2>2, <2>3, StakeOfStep, Countable, Growth
  <2>5. QED
    BY <1>0, <2>1, <2>4 DEF Ledger
<1>5. CASE ReleaseRetried(r)
  \* The slot is freed while the call may free it once more: charged.
  <2>1. faults'[k] = faults[k] + 1 /\ RowsOf(k)' = RowsOf(k)
    BY <1>5 DEF ReleaseRetried, Charge, RowsOf, repoVars, TypeOK
  <2>2. Stake(k)' \subseteq Stake(k)
    BY <1>5, StakeOfStep DEF ReleaseRetried, Goto, Releasing
  <2>3. Cardinality(Stake(k))' \in Nat /\ Cardinality(Stake(k))' <= Cardinality(Stake(k))
    BY <2>2, Countable, Growth
  <2>4. QED
    BY <1>0, <2>1, <2>3 DEF Ledger
<1>6. CASE /\ UNCHANGED <<apps, faults>>
           /\ cache'[k] = Empty => cache[k] = Empty
           /\ \/ pc[r] \in Inserting \cup Releasing
              \/ pc'[r] \notin Inserting \cup Releasing
              \/ ~Alive(r) /\ UNCHANGED cancelled
  <2>1. Stake(k)' \subseteq Stake(k)
    BY <1>6, StakeOfStep DEF Stake, Alive
  <2>2. QED
    BY <1>0, <1>6, <2>1, QuietLedger DEF RowsOf
<1>7. QED
  <2>1. CASE CheckHit(r) \/ CheckMiss(r) \/ ClaimLost(r) \/ RecheckHit(r) \/ RecheckMiss(r)
    BY <1>6, <2>1
       DEF CheckHit, CheckMiss, ClaimLost, RecheckHit, RecheckMiss, Return,
           Goto, Inserting, Releasing, repoVars, TypeOK
  <2>2. CASE ClaimRetried(r)
    BY <1>6, <2>2
       DEF ClaimRetried, Claimable, Goto, Inserting, Releasing, repoVars, TypeOK
  <2>3. CASE ClaimFailed(r) /\ ~Alive(r)
    BY <1>6, <2>3 DEF ClaimFailed, repoVars
  <2>4. CASE Begin(r) \/ InsertApp(r) \/ InsertEvent(r) \/ InsertFails(r)
    BY <1>6, <2>4
       DEF Begin, BeginTx, InsertApp, InsertApplication, InsertEvent,
           InsertOutbox, InsertFails, Rollback, Goto, Inserting, TypeOK
  <2>5. CASE SetId(r) \/ SetRetried(r)
    <3>1. cache'[k] = Empty => cache[k] = Empty
      <4>1. rec[r] \in Ids
        BY <2>5 DEF SetId, SetRetried, Return, Goto, Setting, TxProgress
      <4>2. CommittedEntry(rec[r]) # Empty
        BY <4>1, IntakeAssumption DEF CommittedEntry, Empty
      <4>3. QED
        BY <2>5, <4>2 DEF SetId, SetRetried, Set, Write, TypeOK, DedupTypeOK
    <3>2. QED
      BY <1>6, <2>5, <3>1
         DEF SetId, SetRetried, Return, Goto, Inserting, Releasing, repoVars, TypeOK
  <2>6. CASE ReleaseClaim(r) /\ ~Alive(r)
    BY <1>6, <2>6 DEF ReleaseClaim, Return, Goto, repoVars
  <2>7. QED
    BY <1>1, <1>2, <1>3, <1>4, <1>5, <2>1, <2>2, <2>3, <2>4, <2>5, <2>6 DEF Step

\* Each loss of an entry keeps the ledger: it is charged when it matters.
LEMMA ExpireLedger ==
    ASSUME TypeOK, IsFiniteSet(apps), NEW j \in Keys,
           ExpirePending(j) \/ ExpireCommitted(j),
           TypeOK', NEW k \in Keys, Ledger(k)
    PROVE  Ledger(k)'
<1>1. Expire(j)
  BY DEF ExpirePending, ExpireCommitted
<1>2. RowsOf(k)' = RowsOf(k) /\ Stake(k)' = Stake(k)
  BY <1>1 DEF Expire, RowsOf, Stake, Alive, Inserting, Releasing, repoVars
<1>3. CASE j # k
  <2>1. cache'[k] = cache[k] /\ faults'[k] = faults[k]
    BY <1>1, <1>3 DEF Expire, Release, Write, Charge, TypeOK, DedupTypeOK
  <2>2. faults[k] \in Nat
    BY DEF TypeOK
  <2>3. QED
    BY <1>2, <2>1, <2>2, QuietLedger
<1>4. CASE j = k /\ faults'[k] = faults[k] + 1
  <2>1. Vacancy(k) \in {0, 1} /\ Vacancy(k)' <= 1 /\ Vacancy(k)' \in {0, 1}
    BY DEF Vacancy
  <2>2. Vacancy(k) = 0
    BY <1>1, <1>4 DEF Vacancy, Expire, Expirable, Empty
  <2>3. QED
    BY <1>2, <1>4, <2>1, <2>2, Countable DEF Ledger
<1>5. CASE j = k /\ RowsOf(k) = {} /\ Stake(k) = {} /\ faults' = faults
  <2>1. Cardinality(RowsOf(k)) = 0 /\ Cardinality(Stake(k)) = 0
    BY <1>5, FS_EmptySet
  <2>2. Vacancy(k)' <= 1 /\ Vacancy(k)' \in {0, 1}
    BY DEF Vacancy
  <2>3. QED
    BY <1>2, <1>5, <2>1, <2>2, Countable DEF Ledger
<1>6. QED
  BY <1>1, <1>3, <1>4, <1>5 DEF Expire, Charge, TypeOK

LEMMA BudgetInit == Init => BudgetInv
<1> SUFFICES ASSUME Init, NEW k \in Keys
             PROVE  IsFiniteSet(apps) /\ Ledger(k)
  BY FS_EmptySet DEF BudgetInv, Init, RepoInit
<1>1. RowsOf(k) = {} /\ Stake(k) = {}
  BY DEF Init, RepoInit, RowsOf, Stake, Inserting, Releasing
<1>2. Vacancy(k) <= 1 /\ Vacancy(k) \in {0, 1} /\ faults[k] = 0
  BY DEF Init, Vacancy
<1>3. QED
  BY <1>1, <1>2, FS_EmptySet DEF Init, RepoInit, Ledger

LEMMA BudgetStep ==
    ASSUME TypeOK, TxProgress, BudgetInv, [Next]_vars, TypeOK'
    PROVE  BudgetInv'
<1> SUFFICES ASSUME NEW k \in Keys
             PROVE  Ledger(k)'
  BY RowsOfStep, TablesOfStep, FS_AddElement DEF BudgetInv
<1> USE DEF BudgetInv
<1>0. faults[k] \in Nat
  BY DEF TypeOK
<1>1. ASSUME NEW r \in Calls, Step(r)
      PROVE  Ledger(k)'
  <2>1. CASE key[r] = k
    BY <1>1, <2>1, OwnLedger
  <2>2. CASE key[r] # k
    <3>1. cache'[k] = cache[k] /\ faults'[k] = faults[k]
      BY <1>1, <2>2, OtherKeysUntouched
    <3>2. Stake(k)' \subseteq Stake(k)
      BY <1>1, <2>2, StakeOfStep
    <3>3. RowsOf(k)' = RowsOf(k)
      <4>1. CASE CommitTx(r) \/ CommitLost(r)
        <5>1. apps' = apps \cup tx[r].apps /\ tx[r] = Tx({Row(rec[r], key[r])}, {Event(Row(rec[r], key[r]))})
          BY <4>1 DEF CommitTx, CommitLost, Commit, Goto, TxProgress
        <5>2. QED
          BY <2>2, <5>1 DEF Tx, RowsOf, Row
      <4>2. CASE UNCHANGED apps
        BY <4>2 DEF RowsOf
      <4>3. QED
        BY <1>1, <4>1, <4>2
           DEF Step, CheckHit, CheckMiss, ClaimWon, ClaimLost, ClaimRetried,
               ClaimFailed, RecheckHit, RecheckMiss, Begin, BeginTx, InsertApp,
               InsertApplication, InsertEvent, InsertOutbox, InsertFails,
               Rollback, SetId, SetRetried, ReleaseClaim, ReleaseRetried, repoVars
    <3>4. QED
      BY <1>0, <3>1, <3>2, <3>3, QuietLedger
  <2>3. QED
    BY <2>1, <2>2
<1>2. ASSUME NEW j \in Keys, ExpirePending(j) \/ ExpireCommitted(j)
      PROVE  Ledger(k)'
  BY <1>2, ExpireLedger
<1>3. ASSUME NEW r \in Calls, Crash(r)
      PROVE  Ledger(k)'
  <2>1. Stake(k)' \subseteq Stake(k)
    <3>1. pc'[r] = "dead"
      BY <1>3 DEF Crash, TypeOK
    <3>2. Stake(k)' \subseteq Stake(k) \ {r}
      BY <1>3, <3>1, StakeOfStep DEF Inserting, Releasing
    <3>3. QED
      BY <3>2
  <2>2. QED
    BY <1>0, <1>3, <2>1, QuietLedger DEF Crash, Rollback, RowsOf
<1>4. ASSUME NEW r \in Calls,
             \/ Reject(r) \/ Cancel(r) \/ Retry(r)
             \/ \E j \in Keys : Arrive(r, j)
      PROVE  Ledger(k)'
  <2>1. UNCHANGED <<cache, apps, faults>>
    BY <1>4 DEF Reject, Cancel, Retry, Arrive, repoVars
  <2>2. \A s \in Stake(k)' : s \in Stake(k)
    BY <1>4
       DEF Reject, Cancel, Retry, Arrive, Return, Goto, Stake, Alive, Inserting,
           Releasing, TypeOK
  <2>3. QED
    BY <1>0, <2>1, <2>2, QuietLedger DEF RowsOf
<1>5. CASE UNCHANGED vars
  BY <1>0, <1>5, QuietLedger DEF vars, RowsOf, Stake, Alive, Inserting, Releasing
<1>6. QED
  BY <1>1, <1>2, <1>3, <1>4, <1>5 DEF Next, Quiescent

LEMMA BudgetHolds == Spec => []BudgetInv
<1>1. TypeOK /\ TxProgress /\ BudgetInv /\ [Next]_vars /\ TypeOK' => BudgetInv'
  BY BudgetStep
<1>2. QED
  BY <1>1, BudgetInit, TypeHolds, PTL DEF Spec

\* The ticket argument itself: rows, live stakes and the free slot of a key
\* stay within one ticket plus the charged failures.
THEOREM BudgetCorrect == Spec => []Budget
<1>1. BudgetInv => Budget
  BY BudgetParts DEF BudgetInv
<1>2. QED
  BY <1>1, BudgetHolds, PTL

LEMMA BudgetBoundsRows ==
    ASSUME TypeOK, BudgetInv
    PROVE  RowBudget
BY Countable DEF BudgetInv, Ledger, RowBudget

\* However many callers submit one application at once, and whatever they
\* interleave to, it has at most one row more than there were charged failures.
THEOREM RowBudgetCorrect == Spec => []RowBudget
<1>1. TypeOK /\ BudgetInv => RowBudget
  BY BudgetBoundsRows
<1>2. QED
  BY <1>1, BudgetHolds, TypeHolds, PTL

\* Callers of one key are told one id unless a failure was charged to it.
THEOREM SameAnswerCorrect == Spec => []SameAnswer
<1>1. ASSUME TypeOK, BudgetInv, PublishedIdsAreRows
      PROVE  SameAnswer
  <2> SUFFICES ASSUME NEW r \in Calls, NEW s \in Calls,
                      reply[r].code = "OK", reply[s].code = "OK",
                      key[r] = key[s], faults[key[r]] = 0
               PROVE  reply[r].id = reply[s].id
    BY DEF SameAnswer
  <2> DEFINE k == key[r]
             a == Row(reply[r].id, k)
             b == Row(reply[s].id, k)
  <2>1. a \in RowsOf(k) /\ b \in RowsOf(k)
    BY <1>1 DEF PublishedIdsAreRows, RowsOf, Row
  <2>2. k \in Keys
    BY <1>1, <2>1 DEF TypeOK, RepoTypeOK, RowsOf, Rows, Row
  <2>3. IsFiniteSet(RowsOf(k)) /\ Cardinality(RowsOf(k)) \in Nat
    BY <1>1, <2>2, Countable DEF BudgetInv
  <2>4. Cardinality(RowsOf(k)) <= 1
    BY <1>1, <2>2, BudgetBoundsRows DEF RowBudget
  <2>5. Cardinality(RowsOf(k)) = 1
    BY <2>1, <2>3, <2>4, FS_EmptySet
  <2>6. PICK x : RowsOf(k) = {x}
    BY <2>3, <2>5, FS_Singleton
  <2>7. a = b
    BY <2>1, <2>6
  <2>8. QED
    BY <2>7 DEF Row
<1>2. QED
  BY <1>1, BudgetHolds, PublishedCorrect, TypeHolds, PTL
=============================================================================
