-------------------------------- MODULE Repo --------------------------------
(***************************************************************************)
(* The Postgres side: services/intake/internal/repo.                       *)
(*                                                                         *)
(* apps and outbox are the committed rows of the two tables.  tx[c] holds  *)
(* what call c has written in its open transaction, which nobody else can  *)
(* see; rec[c] is the id of the record RETURNING gave back to call c.      *)
(* Nothing else about a row matters to the service's logic, so a row is    *)
(* its id and the dedup key of its user, company and title.                *)
(***************************************************************************)
EXTENDS IntakeBase

VARIABLES apps, outbox, tx, rec

repoVars == <<apps, outbox, tx, rec>>

Rows == [id : Ids, key : Keys]
Row(id, k) == [id |-> id, key |-> k]

\* The outbox row for an application row: AggregateID is its id and the
\* payload is built from the same record.
Events == [aggregate : Ids, payload : Rows]
Event(row) == [aggregate |-> row.id, payload |-> row]

NoTx == [open |-> FALSE, apps |-> {}, outbox |-> {}]
Tx(rows, events) == [open |-> TRUE, apps |-> rows, outbox |-> events]
Txs == [open : BOOLEAN, apps : SUBSET Rows, outbox : SUBSET Events]

RepoTypeOK ==
    /\ apps \subseteq Rows
    /\ outbox \subseteq Events
    /\ tx \in [Calls -> Txs]
    /\ rec \in [Calls -> Ids \cup {NoId}]

RepoInit ==
    /\ apps = {}
    /\ outbox = {}
    /\ tx = [c \in Calls |-> NoTx]
    /\ rec = [c \in Calls |-> NoId]

RowsOf(k) == {row \in apps : row.key = k}

\* gen_random_uuid() never repeats itself.
Fresh(id) == \A c \in Calls : rec[c] # id

BeginTx(c) ==
    /\ tx' = [tx EXCEPT ![c] = Tx({}, {})]
    /\ UNCHANGED <<apps, outbox, rec>>

\* A mistake: the statement runs on the pool instead of in the transaction.
InsertApplicationNoTx(c, id, k) ==
    /\ Fresh(id)
    /\ rec' = [rec EXCEPT ![c] = id]
    /\ apps' = apps \cup {Row(id, k)}
    /\ UNCHANGED <<outbox, tx>>

InsertApplication(c, id, k) ==
    /\ Fresh(id)
    /\ rec' = [rec EXCEPT ![c] = id]
    /\ tx' = [tx EXCEPT ![c] = Tx(@.apps \cup {Row(id, k)}, @.outbox)]
    /\ UNCHANGED <<apps, outbox>>

InsertOutbox(c, k) ==
    /\ tx' = [tx EXCEPT ![c] = Tx(@.apps, @.outbox \cup {Event(Row(rec[c], k))})]
    /\ UNCHANGED <<apps, outbox, rec>>

Commit(c) ==
    /\ apps' = apps \cup tx[c].apps
    /\ outbox' = outbox \cup tx[c].outbox
    /\ tx' = [tx EXCEPT ![c] = NoTx]
    /\ UNCHANGED rec

\* A mistake: no deferred Rollback on the error paths.
RollbackForgotten(c) == UNCHANGED repoVars

\* The deferred tx.Rollback, and what the server does when the connection
\* of a dead client goes away.  A no-op when nothing is open.
Rollback(c) ==
    /\ tx' = [tx EXCEPT ![c] = NoTx]
    /\ UNCHANGED <<apps, outbox, rec>>
=============================================================================
