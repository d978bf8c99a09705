--------------------------- MODULE ProcessProofs ----------------------------
(***************************************************************************)
(* What main's order of starting and stopping is for holds with any number *)
(* of requests and any ports.                                              *)
(***************************************************************************)
EXTENDS ProcessProperties, TLAPS

Early == {"config", "migrate", "postgres", "listen", "notify"}
Late == {"grpc", "close", "exited"}

\* What a stage of main says of the clients and the servers.
Stages ==
    /\ main \in {"listen", "notify", "dial", "waiting", "http", "grpc"}
          => {"pg", "redis"} \subseteq open
    /\ main \in Early => grpc \in {"none", "listening"}
    /\ main \in Early \cup {"dial"} => http = "none"
    /\ main \notin Ended /\ grpc \in {"spawned", "serving", "failed"}
          => main \in {"dial", "waiting", "http"}
    /\ grpc \in {"draining", "stopped", "closed"} => main \in Late
    /\ main \in {"http"} \cup Late => http \in {"failed", "closing"}
    /\ timedOut => main \in Late

\* What it says of the requests.
Inflight ==
    \A r \in Requests :
        /\ req[r].at \in {"body", "reply"} => req[r].via = "http"
        /\ AtRpc(r) => /\ {"pg", "redis"} \subseteq open
                       /\ main \notin {"close", "exited"}
        /\ AtHttp(r) /\ main \in Late => timedOut

ProcessInv == ProcessTypeOK /\ Stages /\ Inflight /\ AcceptedAreServed

LEMMA ProcessInvInit == ProcessInit => ProcessInv
<1> SUFFICES ASSUME ProcessInit PROVE ProcessInv
  OBVIOUS
<1>1. /\ Idle \in [via : {"none", "http", "grpc", "stream"},
                   at : {"idle", "body", "handler", "stream", "reply", "answered",
                         "unavailable"}]
      /\ Idle.via = "none" /\ Idle.at = "idle"
  BY DEF Idle
<1>2. req = [r \in Requests |-> Idle]
  BY DEF ProcessInit
<1>3. ProcessTypeOK
  BY <1>1, <1>2 DEF ProcessInit, ProcessTypeOK, Is, Ended
<1>4. Stages
  BY DEF ProcessInit, Stages, Early, Late, Ended
<1>5. Inflight /\ AcceptedAreServed
  BY <1>1, <1>2 DEF Inflight, AcceptedAreServed, Is, AtRpc, AtHttp
<1>6. QED
  BY <1>3, <1>4, <1>5 DEF ProcessInv

-----------------------------------------------------------------------------
(* The steps that leave the requests alone.                                *)

LEMMA StartStep == ProcessInv /\ Start => ProcessInv'
<1> SUFFICES ASSUME ProcessInv, Start PROVE ProcessInv'
  OBVIOUS
<1> USE DEF ProcessInv, ProcessTypeOK, Stages, Inflight, AcceptedAreServed, Is, AtRpc,
            AtHttp, Early, Late, Ended, Main
<1>1. CASE Load
  <2>1. main = "config" /\ main' = "migrate"
        /\ UNCHANGED <<open, grpc, http, signal, timedOut, req>>
    BY <1>1 DEF Load
  <2>2. QED
    BY <2>1
<1>2. CASE RunMigrations
  BY <1>2 DEF RunMigrations
<1>3. CASE Connect
  <2>1. CASE main' = "listen"
    <3>1. main = "postgres" /\ open' = {"pg", "redis"}
          /\ UNCHANGED <<grpc, http, signal, timedOut, req>>
      BY <1>3, <2>1 DEF Connect
    <3>2. open' \subseteq {"pg", "redis", "gwConn"} /\ {"pg", "redis"} \subseteq open'
      BY <3>1
    <3>3. QED
      BY <2>1, <3>1, <3>2
  <2>2. CASE main' = "fatal"
    <3>1. main = "postgres" /\ UNCHANGED <<open, grpc, http, signal, timedOut, req>>
      BY <1>3, <2>2 DEF Connect
    <3>2. QED
      BY <2>2, <3>1
  <2>3. QED
    BY <1>3, <2>1, <2>2 DEF Connect
<1>4. CASE Listen
  BY <1>4 DEF Listen
<1>5. CASE Notify
  BY <1>5 DEF Notify
<1>6. CASE DialGateway
  <2>1. CASE main' = "waiting"
    <3>1. main = "dial" /\ open' = open \cup {"gwConn"} /\ http' = "spawned"
          /\ UNCHANGED <<grpc, signal, timedOut, req>>
      BY <1>6, <2>1 DEF DialGateway
    <3>2. open' \subseteq {"pg", "redis", "gwConn"} /\ open \subseteq open'
      BY <3>1
    <3>3. QED
      BY <2>1, <3>1, <3>2
  <2>2. CASE main' = "fatal"
    <3>1. main = "dial" /\ UNCHANGED <<open, http, grpc, signal, timedOut, req>>
      BY <1>6, <2>2 DEF DialGateway
    <3>2. QED
      BY <2>2, <3>1
  <2>3. QED
    BY <1>6, <2>1, <2>2 DEF DialGateway
<1>7. QED
  BY <1>1, <1>2, <1>3, <1>4, <1>5, <1>6 DEF Start

LEMMA ServerStep ==
    ProcessInv /\ (Signal \/ GrpcServes \/ GrpcFails \/ HttpServes) => ProcessInv'
<1> SUFFICES ASSUME ProcessInv, Signal \/ GrpcServes \/ GrpcFails \/ HttpServes
             PROVE  ProcessInv'
  OBVIOUS
<1> USE DEF ProcessInv, ProcessTypeOK, Stages, Inflight, AcceptedAreServed, Is, AtRpc,
            AtHttp, Early, Late, Ended
<1>1. CASE Signal
  BY <1>1 DEF Signal
<1>2. CASE GrpcServes
  BY <1>2 DEF GrpcServes
<1>3. CASE GrpcFails
  BY <1>3 DEF GrpcFails
<1>4. CASE HttpServes
  BY <1>4 DEF HttpServes
<1>5. QED
  BY <1>1, <1>2, <1>3, <1>4

LEMMA EndStep == ProcessInv /\ End => ProcessInv'
<1> SUFFICES ASSUME ProcessInv, End PROVE ProcessInv'
  OBVIOUS
<1> USE DEF ProcessInv, ProcessTypeOK, Stages, Inflight, AcceptedAreServed, Is, AtRpc,
            AtHttp, Early, Late, Ended, Main, StopServing
<1>1. CASE Quit
  BY <1>1 DEF Quit
<1>2. CASE Shutdown
  BY <1>2 DEF Shutdown
<1>3. CASE GracefulStop
  BY <1>3 DEF GracefulStop
<1>4. CASE Close
  BY <1>4 DEF Close
<1>5. CASE Exit
  BY <1>5 DEF Exit
<1>6. QED
  BY <1>1, <1>2, <1>3, <1>4, <1>5 DEF End

-----------------------------------------------------------------------------
(* The steps of a request.                                                 *)

LEMMA RequestInv ==
    ASSUME ProcessInv, NEW r \in Requests,
           Come(r) \/ Work(r) \/ StreamEnds(r)
    PROVE  ProcessInv'
<1> USE DEF ProcessInv, ProcessTypeOK, Stages, Inflight, AcceptedAreServed, Is, AtRpc,
            AtHttp, Early, Late, Ended, RequestStep, Move, Answering
<1>1. CASE Come(r)
  BY <1>1 DEF Come
<1>2. CASE Call(r)
  BY <1>2 DEF Call
<1>3. CASE HandlerEnds(r)
  BY <1>3 DEF HandlerEnds
<1>4. CASE Reply(r)
  BY <1>4 DEF Reply
<1>5. CASE StreamEnds(r)
  BY <1>5 DEF StreamEnds
<1>6. QED
  BY <1>1, <1>2, <1>3, <1>4, <1>5 DEF Work

LEMMA ProcessInvStep == ProcessInv /\ [ProcessNext]_processVars => ProcessInv'
<1> SUFFICES ASSUME ProcessInv, [ProcessNext]_processVars PROVE ProcessInv'
  OBVIOUS
<1>1. CASE UNCHANGED processVars
  BY <1>1 DEF processVars, ProcessInv, ProcessTypeOK, Stages, Inflight,
              AcceptedAreServed, Is, AtRpc, AtHttp
<1>2. QED
  BY <1>1, StartStep, ServerStep, EndStep, RequestInv DEF ProcessNext

LEMMA ProcessAlways == ProcessSpec => []ProcessInv
BY ProcessInvInit, ProcessInvStep, PTL DEF ProcessSpec

-----------------------------------------------------------------------------
\* The variables keep their types, and main is past the signal exactly when
\* the channel has been received from.
THEOREM ProcessTypeCorrect == ProcessSpec => []ProcessTypeOK
<1>1. ProcessInv => ProcessTypeOK
  BY DEF ProcessInv
<1>2. QED
  BY <1>1, ProcessAlways, PTL

\* No handler ever runs on a store that main has closed.
THEOREM StoresOutliveHandlersCorrect == ProcessSpec => []StoresOutliveHandlers
<1>1. ProcessInv => StoresOutliveHandlers
  BY DEF ProcessInv, Inflight, StoresOutliveHandlers, AtRpc, Is
<1>2. QED
  BY <1>1, ProcessAlways, PTL

\* A call of the gateway finds no server only if that server had failed or
\* Shutdown gave up on a client.
THEOREM AcceptedAreServedCorrect == ProcessSpec => []AcceptedAreServed
<1>1. ProcessInv => AcceptedAreServed
  BY DEF ProcessInv
<1>2. QED
  BY <1>1, ProcessAlways, PTL

\* A regular exit cuts nothing short but what outlasted Shutdown.
THEOREM NothingCutShortCorrect == ProcessSpec => []NothingCutShort
<1>1. ProcessInv => NothingCutShort
  BY DEF ProcessInv, Inflight, NothingCutShort, Late
<1>2. QED
  BY <1>1, ProcessAlways, PTL
=============================================================================
