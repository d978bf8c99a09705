------------------------------ MODULE Process -------------------------------
(***************************************************************************)
(* The life of one intake process: main's start, the two servers it runs   *)
(* in goroutines, and its end after a signal, with requests in flight.     *)
(*                                                                         *)
(* A request comes through the gateway ("http"), straight to the gRPC      *)
(* server ("grpc"), or is a stream of the health service ("stream").       *)
(***************************************************************************)
EXTENDS Integers, FiniteSets

CONSTANTS
    Requests,
    Env,            \* what GRPC_PORT and HTTP_PORT may be set to
    Unset,          \* a variable that is not set
    Taken           \* the ports other processes listen on

ASSUME ProcessAssumption == Taken \subseteq Nat /\ Unset \notin Nat

VARIABLES
    main,       \* where main is
    ports,      \* the configuration
    open,       \* the clients that are open: "pg", "redis", "gwConn"
    grpc,       \* the gRPC server
    http,       \* the HTTP server
    signal,     \* the channel quit: empty, holding a signal, or received from
    timedOut,   \* history: Shutdown has returned with its context's error
    req         \* of each request, how far it is and how it came

processVars == <<main, ports, open, grpc, http, signal, timedOut, req>>

\* How far a request can be, and the states in which a server waits for it.
Idle == [via |-> "none", at |-> "idle"]
Is(r, at) == req[r].at = at
AtRpc(r) == Is(r, "handler") \/ Is(r, "stream")
AtHttp(r) == req[r].via = "http" /\ req[r].at \in {"body", "handler", "reply"}

Ended == {"fatal", "killed", "exited"}

ProcessInit ==
    /\ main = "config"
    /\ ports = [grpc |-> Unset, http |-> Unset]
    /\ open = {}
    /\ grpc = "none"
    /\ http = "none"
    /\ signal = "none"
    /\ timedOut = FALSE
    /\ req = [r \in Requests |-> Idle]

-----------------------------------------------------------------------------
(* Start.  log.Fatalf ends the process at once, deferred calls and all.    *)

Main(from, to) == main = from /\ main' = to

\* Unset variables, and values that are no integer, give the default.
envInt(value, default) == IF value \in Int THEN value ELSE default

Load ==
    /\ Main("config", "migrate")
    /\ \E g, h \in Env :
          ports' = [grpc |-> envInt(g, 50051), http |-> envInt(h, 8081)]
    /\ UNCHANGED <<open, grpc, http, signal, timedOut, req>>

RunMigrations ==
    /\ Main("migrate", "postgres") \/ Main("migrate", "fatal")
    /\ UNCHANGED <<ports, open, grpc, http, signal, timedOut, req>>

\* NewPostgres pings before it returns; the Redis client dials nobody yet.
Connect ==
    /\ \/ Main("postgres", "listen") /\ open' = {"pg", "redis"}
       \/ Main("postgres", "fatal") /\ open' = open
    /\ UNCHANGED <<ports, grpc, http, signal, timedOut, req>>

Listen ==
    /\ IF ports.grpc \in Taken
       THEN Main("listen", "fatal") /\ grpc' = grpc
       ELSE Main("listen", "notify") /\ grpc' = "listening"
    /\ UNCHANGED <<ports, open, http, signal, timedOut, req>>

\* signal.Notify; then the goroutine of Serve is started.
Notify ==
    /\ Main("notify", "dial")
    /\ grpc' = "spawned"
    /\ UNCHANGED <<ports, open, http, signal, timedOut, req>>

\* The gateway's connection is lazy; then ListenAndServe's goroutine starts.
DialGateway ==
    /\ \/ Main("dial", "waiting") /\ open' = open \cup {"gwConn"} /\ http' = "spawned"
       \/ Main("dial", "fatal") /\ UNCHANGED <<open, http>>
    /\ UNCHANGED <<ports, grpc, signal, timedOut, req>>

Start == Load \/ RunMigrations \/ Connect \/ Listen \/ Notify \/ DialGateway

\* SIGINT or SIGTERM: before Notify it kills the process; afterwards the
\* channel holds one, and further ones are dropped.
Signal ==
    /\ main \notin Ended
    /\ IF main \in {"config", "migrate", "postgres", "listen", "notify"}
       THEN main' = "killed" /\ signal' = signal
       ELSE signal = "none" /\ signal' = "pending" /\ main' = main
    /\ UNCHANGED <<ports, open, grpc, http, timedOut, req>>

-----------------------------------------------------------------------------
(* The goroutines of the servers.  Their errors are only logged.           *)

GrpcServes ==
    /\ main \notin Ended
    /\ grpc = "spawned"
    /\ grpc' = "serving"
    /\ UNCHANGED <<main, ports, open, http, signal, timedOut, req>>

\* Serve returns: nobody can connect any more, but connections that are there
\* go on carrying calls until the server is stopped.
GrpcFails ==
    /\ main \notin Ended
    /\ grpc = "serving"
    /\ grpc' = "failed"
    /\ UNCHANGED <<main, ports, open, http, signal, timedOut, req>>

HttpServes ==
    /\ main \notin Ended
    /\ http = "spawned"
    /\ http' = IF ports.http \in Taken \cup {ports.grpc} THEN "failed" ELSE "serving"
    /\ UNCHANGED <<main, ports, open, grpc, signal, timedOut, req>>

-----------------------------------------------------------------------------
(* Requests.                                                               *)

\* A server whose Serve has failed answers those who are connected.
Answering == grpc \in {"serving", "failed"}

Move(r, to) == req' = [req EXCEPT ![r] = [via |-> @.via, at |-> to]]
RequestStep(r) ==
    /\ main \notin Ended
    /\ UNCHANGED <<main, ports, open, grpc, http, signal, timedOut>>

Come(r) ==
    /\ RequestStep(r)
    /\ Is(r, "idle")
    /\ \/ http = "serving" /\ req' = [req EXCEPT ![r] = [via |-> "http", at |-> "body"]]
       \/ Answering /\ req' = [req EXCEPT ![r] = [via |-> "grpc", at |-> "handler"]]
       \/ Answering /\ req' = [req EXCEPT ![r] = [via |-> "stream", at |-> "stream"]]

\* The body has been read, the gateway calls.  Without a server to take the
\* call it is Unavailable; one that is about to serve keeps it waiting.
Call(r) ==
    /\ RequestStep(r)
    /\ Is(r, "body")
    /\ \/ Answering /\ Move(r, "handler")
       \/ grpc \in {"failed", "closed", "draining", "stopped"} /\ Move(r, "unavailable")

HandlerEnds(r) ==
    /\ RequestStep(r)
    /\ Is(r, "handler")
    /\ Move(r, IF req[r].via = "http" THEN "reply" ELSE "answered")

Reply(r) == RequestStep(r) /\ Is(r, "reply") /\ Move(r, "answered")

\* A client stops watching, or its connection goes.
StreamEnds(r) == RequestStep(r) /\ Is(r, "stream") /\ Move(r, "answered")

-----------------------------------------------------------------------------
(* The end.                                                                *)

\* A server that has failed is closed for those who are connected, too.
StopServing(state) == IF grpc \in {"failed", "closed"} THEN "closed" ELSE state

\* A mistake: the gRPC server is stopped before the gateway in front of it.
StopGrpcFirst ==
    /\ signal = "pending"
    /\ Main("waiting", "grpc")
    /\ signal' = "received"
    /\ http' = http
    /\ grpc' = StopServing("draining")
    /\ UNCHANGED <<ports, open, timedOut, req>>

\* A mistake: main also ends when the gRPC server stops, signal or not.
QuitOnFailure ==
    /\ signal = "pending" \/ grpc = "failed"
    /\ Main("waiting", "http")
    /\ http' = IF http = "failed" THEN http ELSE "closing"
    /\ UNCHANGED <<ports, open, grpc, signal, timedOut, req>>

\* <-quit, and httpSrv.Shutdown closes the listener; a ListenAndServe that has
\* not begun yet returns at once.
Quit ==
    /\ signal = "pending"
    /\ Main("waiting", "http")
    /\ signal' = "received"
    /\ http' = IF http = "failed" THEN http ELSE "closing"
    /\ UNCHANGED <<ports, open, grpc, timedOut, req>>

\* A mistake: Shutdown gets a context without a deadline.
ShutdownWaits ==
    /\ Main("http", "grpc")
    /\ \A r \in Requests : ~AtHttp(r)
    /\ grpc' = StopServing("draining")
    /\ UNCHANGED <<ports, open, http, signal, timedOut, req>>

\* Shutdown returns when no request is active, or after ten seconds; main goes
\* on either way, to GracefulStop, which admits no call from here on.
Shutdown ==
    /\ Main("http", "grpc")
    /\ timedOut' = \E r \in Requests : AtHttp(r)
    /\ grpc' = StopServing("draining")
    /\ UNCHANGED <<ports, open, http, signal, req>>

\* A mistake: Stop, which does not wait for handlers.
StopNow ==
    /\ Main("grpc", "close")
    /\ grpc' = StopServing("stopped")
    /\ UNCHANGED <<ports, open, http, signal, timedOut, req>>

\* GracefulStop returns when every call and every stream is over.
GracefulStop ==
    /\ Main("grpc", "close")
    /\ \A r \in Requests : ~AtRpc(r)
    /\ grpc' = StopServing("stopped")
    /\ UNCHANGED <<ports, open, http, signal, timedOut, req>>

\* The deferred calls, last in first out.
Close ==
    /\ main = "close"
    /\ open # {}
    /\ open' = open \ {IF "gwConn" \in open THEN "gwConn"
                       ELSE IF "redis" \in open THEN "redis" ELSE "pg"}
    /\ UNCHANGED <<main, ports, grpc, http, signal, timedOut, req>>

Exit ==
    /\ Main("close", "exited")
    /\ open = {}
    /\ UNCHANGED <<ports, open, grpc, http, signal, timedOut, req>>

End == Quit \/ Shutdown \/ GracefulStop \/ Close \/ Exit

Work(r) == Call(r) \/ HandlerEnds(r) \/ Reply(r)

ProcessNext ==
    \/ Start \/ Signal \/ GrpcServes \/ GrpcFails \/ HttpServes \/ End
    \/ \E r \in Requests : Come(r) \/ Work(r) \/ StreamEnds(r)
    \/ main \in Ended /\ UNCHANGED processVars

ProcessSpec == ProcessInit /\ [][ProcessNext]_processVars

\* Goroutines are scheduled, the ten seconds pass, and handlers return.  A
\* client need neither finish its body, for which the server sets no timeout,
\* nor stop watching.
ProcessFairness ==
    /\ WF_processVars(Start) /\ WF_processVars(End)
    /\ WF_processVars(GrpcServes) /\ WF_processVars(HttpServes)
    /\ \A r \in Requests : WF_processVars(HandlerEnds(r) \/ Reply(r))

FairProcessSpec == ProcessSpec /\ ProcessFairness
=============================================================================
