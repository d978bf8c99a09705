------------------------- MODULE ProcessProperties --------------------------
(***************************************************************************)
(* What main's order of starting and stopping is for.                      *)
(***************************************************************************)
EXTENDS Process

\* The values of the variables, and which of them a stage of main excludes.
ProcessTypeOK ==
    /\ main \in {"config", "migrate", "postgres", "listen", "notify", "dial",
                 "waiting", "http", "grpc", "close"} \cup Ended
    /\ open \subseteq {"pg", "redis", "gwConn"}
    /\ grpc \in {"none", "listening", "spawned", "serving", "failed", "closed",
                 "draining", "stopped"}
    /\ http \in {"none", "spawned", "serving", "failed", "closing"}
    /\ signal \in {"none", "pending", "received"}
    /\ timedOut \in BOOLEAN
    /\ req \in [Requests ->
          [via : {"none", "http", "grpc", "stream"},
           at : {"idle", "body", "handler", "stream", "reply", "answered", "unavailable"}]]
    /\ \A r \in Requests : Is(r, "idle") <=> req[r].via = "none"
    /\ main \in {"http", "grpc", "close", "exited"} <=> signal = "received"

\* While a handler runs, Postgres and Redis are open: main closes them by
\* deferred calls that only GracefulStop's return lets run.
StoresOutliveHandlers ==
    \A r \in Requests :
        Is(r, "handler") => {"pg", "redis"} \subseteq open

\* Whoever was accepted before the signal is served: unless the gRPC server
\* had failed, the gateway finds it serving for as long as it has requests,
\* except for those that are too slow for Shutdown's ten seconds.
AcceptedAreServed ==
    \A r \in Requests :
        Is(r, "unavailable") => timedOut \/ grpc \in {"failed", "closed"}

\* A regular exit leaves no call behind: none without an answer but those of
\* the gateway that outlasted the ten seconds.
NothingCutShort ==
    main = "exited" =>
        \A r \in Requests :
            /\ ~AtRpc(r)
            /\ AtHttp(r) => timedOut

\* A signal that reaches the process once Notify has been called ends it,
\* even if it comes before anybody serves, and whatever clients do with the
\* requests they have begun, provided that they end their streams.
SignalEnds ==
    (\A r \in Requests : Is(r, "stream") ~> ~Is(r, "stream"))
        => (signal = "pending" ~> main \in Ended)
=============================================================================
