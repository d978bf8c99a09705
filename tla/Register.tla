------------------------------ MODULE Register ------------------------------
(***************************************************************************)
(* What idempotent submission promises its callers, without Redis,         *)
(* Postgres or transactions: a write-once register per dedup key.  The     *)
(* first accepted submission of a key stores an application id, every      *)
(* caller that is told an id is told that one, and a caller may be refused *)
(* at any time.                                                            *)
(***************************************************************************)
EXTENDS IntakeBase

VARIABLES
    store,      \* per key, the ids of the applications it has: none or one
    asked,      \* the key each call has submitted
    answer      \* what each call has been told

registerVars == <<store, asked, answer>>

Init ==
    /\ store = [k \in Keys |-> {}]
    /\ asked = [c \in Calls |-> NoKey]
    /\ answer = [c \in Calls |-> NoReply]

Waiting(c) == asked[c] # NoKey /\ answer[c] = NoReply

Submit(c, k) ==
    /\ asked[c] = NoKey
    /\ answer[c] = NoReply
    /\ asked' = [asked EXCEPT ![c] = k]
    /\ UNCHANGED <<store, answer>>

\* Only while a submission of the key is being served, and only once.
Store(c, id) ==
    /\ Waiting(c)
    /\ store[asked[c]] = {}
    /\ \A k \in Keys : id \notin store[k]
    /\ store' = [store EXCEPT ![asked[c]] = {id}]
    /\ UNCHANGED <<asked, answer>>

Accept(c) ==
    /\ Waiting(c)
    /\ \E id \in store[asked[c]] : answer' = [answer EXCEPT ![c] = Answer(id)]
    /\ UNCHANGED <<store, asked>>

Refuse(c, code) ==
    /\ answer[c] = NoReply
    /\ code = "InvalidArgument" <=> asked[c] = NoKey
    /\ answer' = [answer EXCEPT ![c] = Failure(code)]
    /\ UNCHANGED <<store, asked>>

Resubmit(c) ==
    /\ answer[c] = Failure("AlreadyExists")
    /\ answer' = [answer EXCEPT ![c] = NoReply]
    /\ UNCHANGED <<store, asked>>

Next ==
    \E c \in Calls :
        \/ \E k \in Keys : Submit(c, k)
        \/ \E id \in Ids : Store(c, id)
        \/ Accept(c)
        \/ \E code \in Codes \ {"none", "OK"} : Refuse(c, code)
        \/ Resubmit(c)

Spec == Init /\ [][Next]_registerVars
=============================================================================
