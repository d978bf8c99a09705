-------------------------- MODULE AccessProperties --------------------------
(***************************************************************************)
(* What clients and operators can rely on, whatever happens between the    *)
(* gateway and the handlers.                                               *)
(***************************************************************************)
EXTENDS Access, FiniteSets

\* The values of the variables, of those that RateTypeOK does not speak of.
\* No request is "dead": a panic never gets past the chain, so that every
\* request ends with an answer, and the process lives.
AccessTypeOK ==
    /\ pc \in [Requests -> {"idle", "gateway", "wire", "down", "extract", "lookup",
                            "clock", "allow", "handler", "refused", "up", "sent", "over"}]
    /\ call \in [Requests -> {"none", "http"} \cup Methods]
    /\ depth \in [Requests -> 0..Len(Chain) + 1]
    /\ out \in [Requests -> {"none", "panic"} \cup Codes]
    /\ ended \subseteq Requests
    /\ \A r \in Requests :
          /\ answer[r] \in {NoAnswer} \cup
                 IF call[r] = "http" THEN [code : {"none"}, status : 200..504]
                                     ELSE [code : Codes, status : {0}]
          /\ pc[r] = "idle" <=> call[r] = "none"
          /\ r \in ended => answer[r] # NoAnswer

\* A call that has left the chain has left exactly one "rpc" record, with the
\* very code that goes to the client; one whose handler panicked has left the
\* panic's record before it, at Error both (the order in which main.go chains
\* logging and recovery, and the doc comment of RecoveryUnaryInterceptor).
LoggedAsSent ==
    \A r \in Requests :
        (pc[r] \in {"sent", "over"} /\ out[r] # "none" /\ cause[r] # "undecodable") =>
            LET rpc == [msg |-> "rpc", code |-> out[r], level |-> levelForCode(out[r])]
            IN  IF cause[r] = "panic"
                THEN /\ Len(log[r]) = 2
                     /\ log[r][1].msg = "panic recovered"
                     /\ log[r][2] = rpc
                     /\ rpc.level = "Error"
                ELSE log[r] = <<rpc>>

\* No handler but the health check's runs for a request without a user, and
\* of each user at most as many have run as tokens were taken from his
\* bucket: whatever the interleaving, nobody runs on another one's token.
RunsArePaid ==
    LET ran == {r \in Requests : cause[r] \notin {"none", "undecodable"} /\ Method(r) # "Check"}
    IN  /\ \A r \in ran : user[r] \in Users
        /\ \A u \in Users :
              Cardinality({r \in ran : user[r] = u}) <= Len(admitted[u])

\* What a browser can conclude from its status.  200 from a submission: it is
\* stored.  4xx: the handler has stored nothing for it, though other 5xx leave
\* that open, since the call may have ended while the handler went on.
HonestStatus ==
    \A r \in Requests :
        (call[r] = "http" /\ answer[r] # NoAnswer) =>
            /\ (answer[r].status = 200 /\ out[r] # "none") => cause[r] = "ok"
            /\ answer[r].status \in 400..499 => cause[r] # "ok"

\* "context errors are mapped to their proper codes" (recovery.go:20-22).
ContextErrorsMapped ==
    \A r \in Requests :
        (cause[r] = "ctx" /\ pc[r] \in {"sent", "over"}) =>
            out[r] \in {"Canceled", "DeadlineExceeded"}
=============================================================================
