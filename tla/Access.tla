------------------------------- MODULE Access -------------------------------
(***************************************************************************)
(* How a request gets to a handler and its outcome back to the client:     *)
(* the HTTP gateway, the gRPC server's chain of interceptors, around the   *)
(* rate limiter of module RateLimit, and what the client is told.          *)
(*                                                                         *)
(* The chain is a sequence of layers.  A request goes down through them to *)
(* its handler and up again with an outcome: a gRPC code or a panic.       *)
(***************************************************************************)
EXTENDS RateLimit

VARIABLES
    call,       \* of each request: how it came in
    depth,      \* the layer it is at, counted from the outermost
    out,        \* what the layers below have returned
    cause,      \* why the handler, or the decoder, returned what it did
    ended,      \* the requests whose server-side context has ended
    log,        \* the records the interceptors have logged of a request
    answer      \* what its client has been told

accessVars == <<call, depth, out, cause, ended, log, answer>>
allVars == <<rateVars, accessVars>>

Methods == {"Submit", "Batch", "Get", "Check"}

\* Clients dial a method; a browser posts to the gateway, which submits.
Method(r) == IF call[r] = "http" THEN "Submit" ELSE call[r]

Codes == {"OK", "InvalidArgument", "Unauthenticated", "NotFound", "Canceled",
          "AlreadyExists", "ResourceExhausted", "Internal", "Unavailable",
          "DeadlineExceeded", "Unimplemented"}

\* Mistakes: recovery outside of logging; the limiter outside of auth; no
\* recovery at all.
ChainRecoveryFirst == <<"recovery", "logging", "auth", "ratelimit">>
ChainLimiterFirst == <<"logging", "recovery", "ratelimit", "auth">>
ChainUnrecovered == <<"logging", "auth", "ratelimit">>

Chain == <<"logging", "recovery", "auth", "ratelimit">>

\* A client is told a gRPC code, a browser an HTTP status.
NoAnswer == [code |-> "none", status |-> 0]

At(r, layer) == depth[r] \in DOMAIN Chain /\ Chain[depth[r]] = layer

AccessInit ==
    /\ RateInit
    /\ call = [r \in Requests |-> "none"]
    /\ depth = [r \in Requests |-> 0]
    /\ out = [r \in Requests |-> "none"]
    /\ cause = [r \in Requests |-> "none"]
    /\ ended = {}
    /\ log = [r \in Requests |-> <<>>]
    /\ answer = [r \in Requests |-> NoAnswer]

-----------------------------------------------------------------------------
(* The gateway.                                                            *)

\* The answers it gives without a call: to a preflight; for an unknown path and
\* a health probe; to another method than POST, without authorization, to a
\* body that cannot be read, and to malformed input.
withCORS == {204}
Handler == {404, 200}
handleSubmit == {405, 401, 413, 400}
GatewayAnswers == withCORS \cup Handler \cup handleSubmit

\* A mistake: a server that is gone is reported as the client's conflict.
ConflictWhenUnavailable(code) ==
    CASE code = "OK" -> 200
      [] code \in {"InvalidArgument", "FailedPrecondition", "OutOfRange"} -> 400
      [] code = "Unauthenticated" -> 401
      [] code = "NotFound" -> 404
      [] code \in {"AlreadyExists", "Aborted", "Unavailable"} -> 409
      [] code = "ResourceExhausted" -> 429
      [] OTHER -> 500

grpcCodeToHTTP(code) ==
    CASE code = "OK" -> 200
      [] code \in {"InvalidArgument", "FailedPrecondition", "OutOfRange"} -> 400
      [] code = "Unauthenticated" -> 401
      [] code = "PermissionDenied" -> 403
      [] code = "NotFound" -> 404
      [] code \in {"AlreadyExists", "Aborted"} -> 409
      [] code = "ResourceExhausted" -> 429
      [] code = "Unimplemented" -> 501
      [] code = "Unavailable" -> 503
      [] code = "DeadlineExceeded" -> 504
      [] OTHER -> 500

Tell(r, code) ==
    answer' = [answer EXCEPT ![r] =
                 IF call[r] = "http"
                 THEN [code |-> "none", status |-> grpcCodeToHTTP(code)]
                 ELSE [code |-> code, status |-> 0]]

\* A request is sent: to the gateway, or straight to the gRPC server.
Send(r, how) ==
    /\ Goto(r, "idle", IF how = "http" THEN "gateway" ELSE "wire")
    /\ call' = [call EXCEPT ![r] = how]
    /\ UNCHANGED <<limitVars, depth, out, cause, ended, log, answer>>

GatewayRefuse(r) ==
    /\ Goto(r, "gateway", "over")
    /\ \E status \in GatewayAnswers : answer' = [answer EXCEPT ![r].status = status]
    /\ UNCHANGED <<limitVars, call, depth, out, cause, ended, log>>

\* handleSubmit has found nothing wrong and calls SubmitApplication.
GatewayForward(r) ==
    /\ Goto(r, "gateway", "wire")
    /\ UNCHANGED <<limitVars, accessVars>>

-----------------------------------------------------------------------------
(* Down the chain.                                                         *)

\* The generated handler decodes the request before it enters the chain.
Dispatch(r) ==
    /\ Goto(r, "wire", "down")
    /\ depth' = [depth EXCEPT ![r] = 1]
    /\ UNCHANGED <<limitVars, call, out, cause, ended, log, answer>>

Undecodable(r) ==
    /\ Goto(r, "wire", "sent")
    /\ out' = [out EXCEPT ![r] = "Internal"]
    /\ cause' = [cause EXCEPT ![r] = "undecodable"]
    /\ UNCHANGED <<limitVars, call, depth, ended, log, answer>>

\* The layer calls the next one.
Inward(r, to) ==
    /\ pc' = [pc EXCEPT ![r] = to]
    /\ depth' = [depth EXCEPT ![r] = @ + 1]
    /\ UNCHANGED <<call, out, cause, ended, log, answer>>

\* The layer returns a code of its own.
TurnBack(r, code) ==
    /\ pc' = [pc EXCEPT ![r] = "up"]
    /\ depth' = [depth EXCEPT ![r] = @ - 1]
    /\ out' = [out EXCEPT ![r] = code]
    /\ UNCHANGED <<call, cause, ended, log, answer>>

\* Logging and recovery do their work on the way up.
Pass(r) ==
    /\ pc[r] = "down"
    /\ At(r, "logging") \/ At(r, "recovery")
    /\ Inward(r, "down")
    /\ UNCHANGED limitVars

\* The token: absent, not a Bearer, refused by Verify, without a user_id, or
\* that of a user.  Methods of the health service need none.
Auth(r) ==
    /\ pc[r] = "down"
    /\ At(r, "auth")
    /\ IF Method(r) = "Check"
       THEN Inward(r, "down") /\ UNCHANGED limitVars
       ELSE \/ TurnBack(r, "Unauthenticated") /\ UNCHANGED limitVars
            \/ \E u \in Users :
                 /\ user' = [user EXCEPT ![r] = u]
                 /\ Inward(r, "down")
                 /\ UNCHANGED <<limiters, now, seen, admitted>>

Limiter(r) ==
    /\ At(r, "ratelimit")
    /\ \/ Goto(r, "down", "extract") /\ UNCHANGED <<limitVars, accessVars>>
       \/ (Extract(r) \/ Allow(r)) /\ UNCHANGED accessVars
       \/ pc[r] = "handler" /\ Inward(r, "down") /\ UNCHANGED limitVars
       \/ /\ pc[r] = "refused"
          /\ TurnBack(r, "ResourceExhausted")
          /\ UNCHANGED limitVars

-----------------------------------------------------------------------------
(* The handlers.                                                           *)

\* What a handler may run into.  "ctx": a statement fails because the
\* context has ended; "store": for any other reason; "malformed": the id is
\* not a UUID.  A batch keeps its items' failures to itself.
Causes(r) ==
    LET stores == {"store"} \cup (IF r \in ended THEN {"ctx"} ELSE {})
    IN  {"ok", "panic"} \cup
        CASE Method(r) = "Submit" -> {"invalid", "pending"} \cup stores
          [] Method(r) = "Batch" -> {"invalid"}
          [] Method(r) = "Get" -> {"invalid", "malformed", "absent"} \cup stores
          [] Method(r) = "Check" -> {"absent"}

isValidationErr(why) == why = "invalid"

toGRPCError(why) ==
    CASE why = "pending" -> "AlreadyExists"
      [] isValidationErr(why) -> "InvalidArgument"
      [] OTHER -> "Internal"

GetApplicationStatus(why) ==
    CASE why = "invalid" -> "InvalidArgument"
      [] why = "absent" -> "NotFound"
      [] OTHER -> "Internal"

\* The health service and the batch's size check agree with these.
Outcome(r, why) ==
    CASE why = "ok" -> "OK"
      [] why = "panic" -> "panic"
      [] why \notin {"ok", "panic"} /\ Method(r) = "Submit" -> toGRPCError(why)
      [] OTHER -> GetApplicationStatus(why)

Handle(r) ==
    /\ Goto(r, "down", "up")
    /\ depth[r] = Len(Chain) + 1
    /\ \E why \in Causes(r) :
          /\ cause' = [cause EXCEPT ![r] = why]
          /\ out' = [out EXCEPT ![r] = Outcome(r, why)]
    /\ depth' = [depth EXCEPT ![r] = @ - 1]
    /\ UNCHANGED <<limitVars, call, ended, log, answer>>

-----------------------------------------------------------------------------
(* Up the chain.                                                           *)

ToGRPCStatus(err) ==
    CASE err \in Codes -> err
      [] err = "context canceled" -> "Canceled"
      [] err = "context deadline exceeded" -> "DeadlineExceeded"
      [] OTHER -> "Internal"

levelForCode(code) ==
    CASE code = "OK" -> "Info"
      [] code \in {"NotFound", "InvalidArgument", "AlreadyExists",
                   "PermissionDenied", "Unauthenticated", "Canceled",
                   "ResourceExhausted"} -> "Warn"
      [] OTHER -> "Error"

Record(r, entry) == log' = [log EXCEPT ![r] = Append(@, entry)]

Outward(r) ==
    /\ pc[r] = "up"
    /\ depth[r] > 0
    /\ depth' = [depth EXCEPT ![r] = @ - 1]
    /\ UNCHANGED <<pc, limitVars, call, cause, ended, answer>>

\* Auth and the limiter return what they got; a panic unwinds through them
\* and through logging.
Return(r) ==
    /\ Outward(r)
    /\ At(r, "auth") \/ At(r, "ratelimit") \/ (At(r, "logging") /\ out[r] = "panic")
    /\ UNCHANGED <<out, log>>

Recover(r) ==
    /\ Outward(r)
    /\ At(r, "recovery")
    /\ IF out[r] = "panic"
       THEN /\ out' = [out EXCEPT ![r] = "Internal"]
            /\ Record(r, [msg |-> "panic recovered", code |-> "none", level |-> "Error"])
       ELSE /\ out' = [out EXCEPT ![r] = ToGRPCStatus(@)]
            /\ UNCHANGED log

LogCall(r) ==
    /\ Outward(r)
    /\ At(r, "logging")
    /\ out[r] # "panic"
    /\ Record(r, [msg |-> "rpc", code |-> out[r], level |-> levelForCode(out[r])])
    /\ UNCHANGED out

\* The status goes to the client.  Nothing above the chain recovers from a
\* panic: the process would die.
Finish(r) ==
    /\ depth[r] = 0
    /\ Goto(r, "up", IF out[r] = "panic" THEN "dead" ELSE "sent")
    /\ UNCHANGED <<limitVars, accessVars>>

-----------------------------------------------------------------------------
(* The client's side of the call.                                          *)

Deliver(r) ==
    /\ Goto(r, "sent", "over")
    /\ answer[r] = NoAnswer
    /\ Tell(r, out[r])
    /\ UNCHANGED <<limitVars, call, depth, out, cause, ended, log>>

\* The call ends on the client's side: its deadline, its caller or browser
\* going away, or the connection.  The handler, if it has been reached, goes
\* on, on a context that has ended.  The gateway sets no deadline.
LocalEnd(r) ==
    /\ pc[r] \notin {"idle", "gateway", "over"}
    /\ answer[r] = NoAnswer
    /\ \E code \in {"Canceled", "Unavailable"}
                     \cup (IF call[r] = "http" THEN {} ELSE {"DeadlineExceeded"}) :
          Tell(r, code)
    /\ ended' = ended \cup {r}
    /\ UNCHANGED <<rateVars, call, depth, out, cause, log>>

Serve(r) ==
    \/ GatewayRefuse(r) \/ GatewayForward(r)
    \/ Dispatch(r) \/ Undecodable(r) \/ Pass(r) \/ Auth(r) \/ Limiter(r)
    \/ Handle(r) \/ Return(r) \/ Recover(r) \/ LogCall(r) \/ Finish(r)
    \/ Deliver(r)

Settled(r) == pc[r] \in {"over", "sent", "dead"} /\ answer[r] # NoAnswer

AccessNext ==
    \/ \E r \in Requests : \/ \E how \in {"http"} \cup Methods : Send(r, how)
                           \/ Serve(r) \/ LocalEnd(r)
    \/ Tick /\ UNCHANGED accessVars
    \/ (\A r \in Requests : Settled(r)) /\ UNCHANGED allVars

AccessSpec == AccessInit /\ [][AccessNext]_allVars
=============================================================================
