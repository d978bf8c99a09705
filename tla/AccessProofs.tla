---------------------------- MODULE AccessProofs ----------------------------
(***************************************************************************)
(* Every request that enters the chain comes out of it once, logged and    *)
(* answered as it ended, and the limiter inside the chain is the limiter   *)
(* of module RateLimit, for any requests, users, burst and rate.           *)
(***************************************************************************)
EXTENDS AccessProperties, RateLimitProperties, FiniteSetTheorems, TLAPS

Outside == {"idle", "gateway", "wire"}
Limiting == {"extract", "lookup", "clock", "allow", "handler", "refused"}

\* The handler of r has been reached.
Ran(r) == cause[r] \notin {"none", "undecodable"}
PastLimiter(r) == (pc[r] = "down" /\ depth[r] = 5) \/ Ran(r)

\* What the limiter knows of a request: where it is in the interceptor, or that
\* it has been let through or turned away; and whose it is, once it has arrived.
phase ==
    [r \in Requests |->
        CASE pc[r] \in Limiting -> pc[r]
          [] pc[r] \notin Limiting /\ PastLimiter(r) -> "handler"
          [] /\ pc[r] \notin Limiting
             /\ ~PastLimiter(r)
             /\ out[r] = "ResourceExhausted" -> "refused"
          [] OTHER -> "idle"]
asker == [r \in Requests |-> IF phase[r] = "idle" THEN NoUser ELSE user[r]]

InChain == INSTANCE RateLimitProofs WITH pc <- phase, user <- asker

-----------------------------------------------------------------------------
(* The inductive invariant.                                                *)

AllCauses == {"none", "undecodable", "ok", "panic", "invalid", "pending", "store",
              "ctx", "malformed", "absent"}
Records == [msg : {"rpc", "panic recovered"}, code : {"none"} \cup Codes,
            level : {"Info", "Warn", "Error"}]

ChainTypes ==
    /\ pc \in [Requests -> Outside \cup Limiting \cup {"down", "up", "sent", "over"}]
    /\ call \in [Requests -> {"none", "http"} \cup Methods]
    /\ depth \in [Requests -> 0..5]
    /\ out \in [Requests -> {"none", "panic"} \cup Codes]
    /\ cause \in [Requests -> AllCauses]
    /\ ended \subseteq Requests
    /\ log \in [Requests -> Seq(Records)]
    /\ answer \in [Requests -> [code : {"none"} \cup Codes, status : 0..504]]
    /\ user \in [Requests -> Users \cup {NoUser}]

PanicRecord == [msg |-> "panic recovered", code |-> "none", level |-> "Error"]
Reported(r) == IF cause[r] = "panic" THEN <<PanicRecord>> ELSE <<>>
Rpc(r) == [msg |-> "rpc", code |-> out[r], level |-> levelForCode(out[r])]

\* On the way to its handler a request has caused nothing yet, and is as deep
\* as the layers it has passed; behind auth it has a user, or is a health check.
Inbound(r) ==
    /\ pc[r] \in Outside \cup {"down"} \cup Limiting =>
          out[r] = "none" /\ cause[r] = "none" /\ log[r] = <<>>
    /\ pc[r] \in Outside => depth[r] = 0
    /\ pc[r] = "down" => depth[r] \in 1..5
    /\ pc[r] \in Limiting => depth[r] = 4
    /\ \/ pc[r] = "down" /\ depth[r] \in 4..5
       \/ pc[r] \in Limiting
       \/ Ran(r)
       => Method(r) = "Check" \/ user[r] \in Users

\* On the way up a panic gets no further than recovery, and the log says what
\* is returned.
Outbound(r) ==
    /\ pc[r] = "up" =>
          /\ cause[r] # "undecodable"
          /\ depth[r] \in 0..4
          /\ depth[r] \in 2..4 => /\ out[r] \in Codes \cup {"panic"}
                                  /\ out[r] = "panic" <=> cause[r] = "panic"
                                  /\ log[r] = <<>>
          /\ depth[r] \in 0..1 => out[r] \in Codes /\ (cause[r] = "panic" => out[r] = "Internal")
          /\ depth[r] = 1 => log[r] = Reported(r)
          /\ depth[r] = 0 => log[r] = Append(Reported(r), Rpc(r))
    /\ pc[r] \in {"up", "sent", "over"} => (out[r] = "OK" <=> cause[r] = "ok")

\* Behind the chain.
Away(r) ==
    /\ pc[r] = "sent" => out[r] \in Codes
    /\ pc[r] = "over" => out[r] \in Codes \/ (out[r] = "none" /\ cause[r] = "none")
    /\ pc[r] \in {"sent", "over"} /\ out[r] # "none" =>
          /\ cause[r] \in {"panic", "undecodable"} => out[r] = "Internal"
          /\ cause[r] # "undecodable" => log[r] = Append(Reported(r), Rpc(r))

\* The client.
Told(r) ==
    /\ pc[r] = "idle" <=> call[r] = "none"
    /\ pc[r] = "gateway" => call[r] = "http"
    /\ pc[r] \in {"idle", "gateway"} => answer[r] = NoAnswer
    /\ r \in ended => answer[r] # NoAnswer
    /\ answer[r] \in {NoAnswer} \cup
           IF call[r] = "http" THEN [code : {"none"}, status : 200..504]
                               ELSE [code : Codes, status : {0}]
    /\ call[r] = "http" /\ answer[r] # NoAnswer =>
          \/ answer[r].status \in {500, 503}
          \/ pc[r] = "over"
    /\ call[r] = "http" /\ pc[r] = "over" =>
          \/ out[r] = "none"
          \/ answer[r].status = grpcCodeToHTTP(out[r])

Kept(r) == Inbound(r) /\ Outbound(r) /\ Away(r) /\ Told(r)

ChainInv == ChainTypes /\ \A r \in Requests : Kept(r)

USE IntervalAssumption, RateLimitAssumption

-----------------------------------------------------------------------------
(* The operators.                                                          *)

LEMMA Layers ==
    /\ Len(Chain) = 4
    /\ DOMAIN Chain = 1..4
    /\ Chain[1] = "logging" /\ Chain[2] = "recovery"
    /\ Chain[3] = "auth" /\ Chain[4] = "ratelimit"
BY DEF Chain

\* Each layer has its depth.
LEMMA AtLayer ==
    ASSUME NEW r \in Requests, depth[r] \in 0..5
    PROVE  /\ At(r, "logging") <=> depth[r] = 1
           /\ At(r, "recovery") <=> depth[r] = 2
           /\ At(r, "auth") <=> depth[r] = 3
           /\ At(r, "ratelimit") <=> depth[r] = 4
<1>1. depth[r] \in 1..4 => depth[r] \in {1, 2, 3, 4}
  OBVIOUS
<1>2. QED
  BY <1>1, Layers DEF At

\* What the gateway makes of a code: 200 of OK only, and 500 and 503 of the two
\* codes that a call can end with on the client's side.
LEMMA StatusOf ==
    ASSUME NEW code \in Codes
    PROVE  /\ grpcCodeToHTTP(code) \in 200..504
           /\ grpcCodeToHTTP(code) = 200 <=> code = "OK"
           /\ code = "Canceled" => grpcCodeToHTTP(code) = 500
           /\ code = "Unavailable" => grpcCodeToHTTP(code) = 503
<1>1. code = "OK" => grpcCodeToHTTP(code) = 200
  BY DEF grpcCodeToHTTP
<1>2. code \in {"Canceled", "Internal"} => grpcCodeToHTTP(code) = 500
  BY DEF grpcCodeToHTTP
<1>3. code = "Unavailable" => grpcCodeToHTTP(code) = 503
  BY DEF grpcCodeToHTTP
<1>4. code = "DeadlineExceeded" => grpcCodeToHTTP(code) = 504
  BY DEF grpcCodeToHTTP
<1>5. code = "Unimplemented" => grpcCodeToHTTP(code) = 501
  BY DEF grpcCodeToHTTP
<1>6. code \in {"InvalidArgument", "Unauthenticated", "NotFound", "AlreadyExists",
                "ResourceExhausted"} => grpcCodeToHTTP(code) \in {400, 401, 404, 409, 429}
  BY DEF grpcCodeToHTTP
<1>7. QED
  BY <1>1, <1>2, <1>3, <1>4, <1>5, <1>6 DEF Codes

LEMMA LevelOf ==
    ASSUME NEW code \in Codes
    PROVE  /\ levelForCode(code) \in {"Info", "Warn", "Error"}
           /\ code = "Internal" => levelForCode(code) = "Error"
BY DEF Codes, levelForCode

\* A handler's outcome: OK and a panic for just these causes.
LEMMA OutcomeOf ==
    ASSUME NEW r \in Requests, Method(r) \in Methods, NEW why \in Causes(r)
    PROVE  /\ why \in AllCauses \ {"none", "undecodable"}
           /\ Outcome(r, why) \in (Codes \cup {"panic"}) \ {"ResourceExhausted"}
           /\ Outcome(r, why) = "OK" <=> why = "ok"
           /\ Outcome(r, why) = "panic" <=> why = "panic"
<1>1. why \in AllCauses \ {"none", "undecodable"}
  BY DEF Causes, AllCauses, Methods
<1>2. why = "ok" => Outcome(r, why) = "OK"
  BY DEF Outcome
<1>3. why = "panic" => Outcome(r, why) = "panic"
  BY DEF Outcome
<1>4. why \notin {"ok", "panic"} =>
          Outcome(r, why) \in {"AlreadyExists", "InvalidArgument", "NotFound", "Internal"}
  BY DEF Outcome, toGRPCError, isValidationErr, GetApplicationStatus
<1>5. QED
  BY <1>1, <1>2, <1>3, <1>4 DEF Codes

-----------------------------------------------------------------------------
(* One request at a time.                                                  *)

\* Nothing but r moves.
OthersRest(r) ==
    /\ \A q \in Requests \ {r} :
          /\ pc'[q] = pc[q] /\ call'[q] = call[q] /\ depth'[q] = depth[q]
          /\ out'[q] = out[q] /\ cause'[q] = cause[q] /\ log'[q] = log[q]
          /\ answer'[q] = answer[q] /\ user'[q] = user[q]
    /\ ended' \ {r} = ended \ {r}

LEMMA ChainInvBy ==
    ASSUME ChainInv, NEW r \in Requests, ChainTypes', OthersRest(r), Kept(r)'
    PROVE  ChainInv'
<1>1. ASSUME NEW q \in Requests, q # r
      PROVE  Kept(q)'
  <2>1. /\ pc'[q] = pc[q] /\ call'[q] = call[q] /\ depth'[q] = depth[q]
        /\ out'[q] = out[q] /\ cause'[q] = cause[q] /\ log'[q] = log[q]
        /\ answer'[q] = answer[q] /\ user'[q] = user[q]
        /\ q \in ended' <=> q \in ended
    BY <1>1 DEF OthersRest
  <2>2. Kept(q)
    BY DEF ChainInv
  <2>3. Inbound(q)'
    BY <2>1, <2>2 DEF Kept, Inbound, Ran, Method
  <2>4. Outbound(q)'
    BY <2>1, <2>2 DEF Kept, Outbound, Reported, Rpc
  <2>5. Away(q)'
    BY <2>1, <2>2 DEF Kept, Away, Reported, Rpc
  <2>6. Told(q)'
    BY <2>1, <2>2 DEF Kept, Told
  <2>7. QED
    BY <2>3, <2>4, <2>5, <2>6 DEF Kept
<1>2. QED
  BY <1>1 DEF ChainInv

LEMMA ChainInvInit == AccessInit => ChainInv
<1> SUFFICES ASSUME AccessInit PROVE ChainInv
  OBVIOUS
<1>1. ChainTypes
  BY DEF AccessInit, RateInit, LimitInit, ChainTypes, Outside, Codes, AllCauses, NoAnswer
<1>2. ASSUME NEW r \in Requests
      PROVE  Kept(r)
  BY DEF AccessInit, RateInit, LimitInit, Kept, Inbound, Outbound, Away, Told, Ran,
         Outside, Limiting, Codes, NoAnswer
<1>3. QED
  BY <1>1, <1>2 DEF ChainInv

-----------------------------------------------------------------------------
(* The gateway and the way in.                                             *)

LEMMA SendKeeps ==
    ASSUME ChainInv, NEW r \in Requests, NEW how \in {"http"} \cup Methods, Send(r, how)
    PROVE  ChainInv'
<1>1. ChainTypes /\ Kept(r)
  BY DEF ChainInv
<1>2. ChainTypes' /\ OthersRest(r)
  BY <1>1 DEF Send, Goto, limitVars, ChainTypes, OthersRest, Outside
<1>3. /\ pc[r] = "idle" /\ pc'[r] \in {"gateway", "wire"}
      /\ pc'[r] = "gateway" => call'[r] = "http"
      /\ call'[r] # "none"
      /\ UNCHANGED <<depth, out, cause, ended, log, answer, user>>
  BY <1>1 DEF Send, Goto, limitVars, ChainTypes, Methods
<1>4. Kept(r)'
  <2>1. Inbound(r)' /\ Outbound(r)' /\ Away(r)'
    BY <1>1, <1>3 DEF Kept, Inbound, Outbound, Away, Ran, Outside, Limiting
  <2>2. Told(r)'
    BY <1>1, <1>3 DEF Kept, Told, NoAnswer
  <2>3. QED
    BY <2>1, <2>2 DEF Kept
<1>5. QED
  BY <1>2, <1>4, ChainInvBy

LEMMA GatewayRefuseKeeps ==
    ASSUME ChainInv, NEW r \in Requests, GatewayRefuse(r)
    PROVE  ChainInv'
<1>1. ChainTypes /\ Kept(r)
  BY DEF ChainInv
<1>2. PICK status \in GatewayAnswers : answer' = [answer EXCEPT ![r].status = status]
  BY DEF GatewayRefuse
<1>3. status \in 200..504
  BY DEF GatewayAnswers, withCORS, Handler, handleSubmit
<1>4. pc[r] = "gateway" /\ answer[r] = NoAnswer /\ call[r] = "http"
  BY <1>1 DEF GatewayRefuse, Goto, Kept, Told
<1>5. answer' = [answer EXCEPT ![r] = [code |-> "none", status |-> status]]
  <2>1. [NoAnswer EXCEPT !.status = status] = [code |-> "none", status |-> status]
    BY DEF NoAnswer
  <2>2. answer' = [answer EXCEPT ![r] = [answer[r] EXCEPT !.status = status]]
    BY <1>2
  <2>3. QED
    BY <1>4, <2>1, <2>2
<1>6. ChainTypes' /\ OthersRest(r)
  <2> DEFINE told == [code |-> "none", status |-> status]
  <2>1. told \in [code : {"none"} \cup Codes, status : 0..504]
    BY <1>3
  <2>2. answer' = [answer EXCEPT ![r] = told]
    BY <1>5
  <2> HIDE DEF told
  <2>3. /\ answer' \in [Requests -> [code : {"none"} \cup Codes, status : 0..504]]
        /\ \A q \in Requests \ {r} : answer'[q] = answer[q]
    BY <1>1, <2>1, <2>2 DEF ChainTypes
  <2>4. /\ pc' = [pc EXCEPT ![r] = "over"]
        /\ UNCHANGED <<call, depth, out, cause, ended, log, user>>
    BY DEF GatewayRefuse, Goto, limitVars
  <2>5. ChainTypes'
    BY <1>1, <2>3, <2>4 DEF ChainTypes
  <2>6. OthersRest(r)
    BY <1>1, <2>3, <2>4 DEF ChainTypes, OthersRest
  <2>7. QED
    BY <2>5, <2>6
<1>7. /\ pc'[r] = "over" /\ answer'[r] = [code |-> "none", status |-> status]
      /\ UNCHANGED <<depth, call, out, cause, ended, log, user>>
  <2> DEFINE told == [code |-> "none", status |-> status]
  <2>1. answer' = [answer EXCEPT ![r] = told]
    BY <1>5
  <2>2. /\ pc' = [pc EXCEPT ![r] = "over"]
        /\ UNCHANGED <<depth, call, out, cause, ended, log, user>>
    BY DEF GatewayRefuse, Goto, limitVars
  <2> HIDE DEF told
  <2>3. answer'[r] = told /\ pc'[r] = "over"
    BY <1>1, <2>1, <2>2 DEF ChainTypes
  <2>4. QED
    BY <2>2, <2>3 DEF told
<1>8. out[r] = "none" /\ cause[r] = "none" /\ r \notin ended
  BY <1>1, <1>4 DEF Kept, Inbound, Told, Outside
<1>9. Kept(r)'
  <2>1. Inbound(r)' /\ Outbound(r)' /\ Away(r)'
    BY <1>7, <1>8 DEF Inbound, Outbound, Away, Ran, Outside, Limiting
  <2>2. Told(r)'
    BY <1>3, <1>4, <1>7, <1>8 DEF Told
  <2>3. QED
    BY <2>1, <2>2 DEF Kept
<1>10. QED
  BY <1>6, <1>9, ChainInvBy

\* The steps that only bring a request nearer to its handler.
LEMMA InwardKeeps ==
    ASSUME ChainInv, NEW r \in Requests,
           pc[r] \in {"gateway", "wire", "down"} \cup Limiting,
           NEW p \in {"wire", "down"} \cup Limiting, pc' = [pc EXCEPT ![r] = p],
           NEW d \in 0..5, depth' = [depth EXCEPT ![r] = d],
           NEW v \in Users \cup {NoUser}, user' = [user EXCEPT ![r] = v],
           p = "wire" => d = 0,
           p = "down" => d # 0,
           p \in Limiting => d = 4,
           p \in Limiting \/ (p = "down" /\ d \in 4..5) => Method(r) = "Check" \/ v \in Users,
           UNCHANGED <<call, out, cause, ended, log, answer>>
    PROVE  ChainInv'
<1>1. ChainTypes /\ Kept(r)
  BY DEF ChainInv
<1>2. ChainTypes' /\ OthersRest(r)
  <2>1. pc' \in [Requests -> Outside \cup Limiting \cup {"down", "up", "sent", "over"}]
    BY <1>1 DEF ChainTypes, Outside
  <2>2. depth' \in [Requests -> 0..5] /\ user' \in [Requests -> Users \cup {NoUser}]
    BY <1>1 DEF ChainTypes
  <2>3. ChainTypes'
    BY <1>1, <2>1, <2>2 DEF ChainTypes
  <2>4. OthersRest(r)
    BY <1>1 DEF OthersRest, ChainTypes
  <2>5. QED
    BY <2>3, <2>4
<1>3. out[r] = "none" /\ cause[r] = "none" /\ log[r] = <<>>
  BY <1>1 DEF Kept, Inbound, Outside
<1>4. pc'[r] = p /\ depth'[r] = d /\ user'[r] = v
  BY <1>1 DEF ChainTypes
<1>5. Kept(r)'
  <2>1. Inbound(r)'
    BY <1>3, <1>4 DEF Inbound, Ran, Outside, Limiting, Method
  <2>2. Outbound(r)' /\ Away(r)'
    BY <1>4 DEF Outbound, Away, Limiting
  <2>3. Told(r)'
    BY <1>1, <1>4 DEF Kept, Told, Limiting
  <2>4. QED
    BY <2>1, <2>2, <2>3 DEF Kept
<1>6. QED
  BY <1>2, <1>5, ChainInvBy

LEMMA ForwardKeeps ==
    ASSUME ChainInv, NEW r \in Requests, GatewayForward(r) \/ Dispatch(r)
    PROVE  ChainInv'
<1>1. ChainTypes /\ Kept(r)
  BY DEF ChainInv
<1>2. CASE GatewayForward(r)
  <2>1. /\ pc[r] = "gateway" /\ pc' = [pc EXCEPT ![r] = "wire"]
        /\ UNCHANGED <<user, call, depth, out, cause, ended, log, answer>>
    BY <1>2 DEF GatewayForward, Goto, limitVars, accessVars
  <2>2. depth[r] = 0
    BY <1>1, <2>1 DEF Kept, Inbound, Outside
  <2>3. /\ depth' = [depth EXCEPT ![r] = 0] /\ user' = [user EXCEPT ![r] = user[r]]
        /\ user[r] \in Users \cup {NoUser}
    BY <1>1, <2>1, <2>2 DEF ChainTypes
  <2>4. /\ pc[r] \in {"gateway", "wire", "down"} \cup Limiting /\ 0 \in 0..5
        /\ "wire" \in {"wire", "down"} \cup Limiting /\ "wire" \notin Limiting /\ "wire" # "down"
    BY <2>1 DEF Limiting
  <2>5. UNCHANGED <<call, out, cause, ended, log, answer>>
    BY <2>1
  <2>6. QED
    BY <2>1, <2>3, <2>4, <2>5, InwardKeeps
<1>3. CASE Dispatch(r)
  <2>1. /\ pc[r] = "wire" /\ pc' = [pc EXCEPT ![r] = "down"]
        /\ depth' = [depth EXCEPT ![r] = 1]
        /\ UNCHANGED <<user, call, out, cause, ended, log, answer>>
    BY <1>3 DEF Dispatch, Goto, limitVars
  <2>2. /\ user' = [user EXCEPT ![r] = user[r]]
        /\ user[r] \in Users \cup {NoUser} /\ "down" \notin Limiting
    BY <1>1, <2>1 DEF ChainTypes, Limiting
  <2>3. 1 \in 0..5 /\ 1 # 0 /\ 1 \notin 4..5 /\ "down" # "wire"
    OBVIOUS
  <2>4. pc[r] \in {"gateway", "wire", "down"} \cup Limiting /\ "down" \in {"wire", "down"} \cup Limiting
    BY <2>1
  <2>5. QED
    BY <2>1, <2>2, <2>3, <2>4, InwardKeeps
<1>4. QED
  BY <1>2, <1>3

\* The steps that leave the client, its call and its user as they were.
LEMMA ChainStepKeeps ==
    ASSUME ChainInv, NEW r \in Requests,
           NEW p \in {"down", "up", "sent"}, pc' = [pc EXCEPT ![r] = p],
           NEW d \in 0..5, depth' = [depth EXCEPT ![r] = d],
           NEW o \in Codes \cup {"panic"}, out' = [out EXCEPT ![r] = o],
           NEW w \in AllCauses, cause' = [cause EXCEPT ![r] = w],
           NEW l \in Seq(Records), log' = [log EXCEPT ![r] = l],
           UNCHANGED <<user, call, ended, answer>>,
           pc[r] \notin {"idle", "gateway", "over"},
           Inbound(r)', Outbound(r)', Away(r)'
    PROVE  ChainInv'
<1>1. ChainTypes /\ Kept(r)
  BY DEF ChainInv
<1>2. ChainTypes'
  BY <1>1 DEF ChainTypes
<1>3. OthersRest(r)
  BY <1>1 DEF ChainTypes, OthersRest
<1>4. Told(r)'
  BY <1>1 DEF Kept, Told, ChainTypes
<1>5. QED
  BY <1>2, <1>3, <1>4, ChainInvBy DEF Kept

LEMMA UndecodableKeeps ==
    ASSUME ChainInv, NEW r \in Requests, Undecodable(r)
    PROVE  ChainInv'
<1>1. ChainTypes /\ Kept(r)
  BY DEF ChainInv
<1>2. /\ pc[r] = "wire" /\ pc' = [pc EXCEPT ![r] = "sent"]
      /\ out' = [out EXCEPT ![r] = "Internal"]
      /\ cause' = [cause EXCEPT ![r] = "undecodable"]
      /\ UNCHANGED <<user, call, depth, ended, log, answer>>
  BY DEF Undecodable, Goto, limitVars
<1>3. /\ pc'[r] = "sent" /\ out'[r] = "Internal" /\ cause'[r] = "undecodable"
      /\ depth' = [depth EXCEPT ![r] = depth[r]] /\ log' = [log EXCEPT ![r] = log[r]]
      /\ depth[r] \in 0..5 /\ log[r] \in Seq(Records)
      /\ "undecodable" \in AllCauses /\ "Internal" \in Codes
  BY <1>1, <1>2 DEF ChainTypes, AllCauses, Codes
<1>4. Inbound(r)' /\ Outbound(r)' /\ Away(r)'
  BY <1>3 DEF Inbound, Outbound, Away, Ran, Outside, Limiting, Codes
<1>5. QED
  BY <1>2, <1>3, <1>4, ChainStepKeeps

-----------------------------------------------------------------------------
(* Down the chain.                                                         *)

LEMMA PassKeeps ==
    ASSUME ChainInv, NEW r \in Requests, Pass(r)
    PROVE  ChainInv'
<1>1. ChainTypes /\ Kept(r)
  BY DEF ChainInv
<1>2. depth[r] \in {1, 2}
  BY <1>1, AtLayer DEF Pass, ChainTypes
<1>3. /\ pc[r] = "down" /\ pc' = [pc EXCEPT ![r] = "down"]
      /\ depth' = [depth EXCEPT ![r] = depth[r] + 1]
      /\ UNCHANGED <<user, call, out, cause, ended, log, answer>>
  BY DEF Pass, Inward, limitVars
<1>4. /\ user' = [user EXCEPT ![r] = user[r]]
      /\ user[r] \in Users \cup {NoUser} /\ "down" \notin Limiting
  BY <1>1, <1>3 DEF ChainTypes, Limiting
<1>5. depth[r] + 1 \in 0..5 /\ depth[r] + 1 # 0 /\ depth[r] + 1 \notin 4..5
  BY <1>2
<1>6. /\ pc[r] \in {"gateway", "wire", "down"} \cup Limiting
      /\ "down" \in {"wire", "down"} \cup Limiting /\ "down" # "wire"
  BY <1>3
<1>7. QED
  BY <1>3, <1>4, <1>5, <1>6, InwardKeeps

\* A layer answers in place of those below it.
LEMMA TurnBackKeeps ==
    ASSUME ChainInv, NEW r \in Requests, NEW code \in Codes \ {"OK"}, TurnBack(r, code),
           user' = user, depth[r] \in 3..4, pc[r] \in {"down"} \cup Limiting
    PROVE  ChainInv'
<1>1. ChainTypes /\ Kept(r)
  BY DEF ChainInv
<1>2. /\ pc' = [pc EXCEPT ![r] = "up"]
      /\ depth' = [depth EXCEPT ![r] = depth[r] - 1]
      /\ out' = [out EXCEPT ![r] = code]
      /\ UNCHANGED <<call, cause, ended, log, answer>>
  BY DEF TurnBack
<1>3. cause[r] = "none" /\ log[r] = <<>>
  BY <1>1 DEF Kept, Inbound
<1>4. /\ pc'[r] = "up" /\ out'[r] = code /\ depth'[r] = depth[r] - 1
      /\ depth[r] - 1 \in 0..5 /\ depth[r] - 1 \in 2..4
      /\ cause' = [cause EXCEPT ![r] = cause[r]] /\ log' = [log EXCEPT ![r] = log[r]]
      /\ cause[r] \in AllCauses /\ log[r] \in Seq(Records)
  BY <1>1, <1>2 DEF ChainTypes
<1>5. code # "panic"
  BY DEF Codes
<1>6. Inbound(r)' /\ Outbound(r)' /\ Away(r)'
  BY <1>2, <1>3, <1>4, <1>5 DEF Inbound, Outbound, Away, Ran, Outside, Limiting
<1>7. pc[r] \notin {"idle", "gateway", "over"}
  BY DEF Limiting
<1>8. QED
  BY <1>2, <1>4, <1>6, <1>7, ChainStepKeeps

LEMMA AuthKeeps ==
    ASSUME ChainInv, NEW r \in Requests, Auth(r)
    PROVE  ChainInv'
<1>1. ChainTypes /\ Kept(r)
  BY DEF ChainInv
<1>2. depth[r] = 3 /\ pc[r] = "down"
  BY <1>1, AtLayer DEF Auth, ChainTypes
<1>3. ASSUME Inward(r, "down"),
             NEW v \in Users \cup {NoUser}, user' = [user EXCEPT ![r] = v],
             Method(r) = "Check" \/ v \in Users
      PROVE  ChainInv'
  <2>1. /\ pc' = [pc EXCEPT ![r] = "down"]
        /\ depth' = [depth EXCEPT ![r] = 4]
        /\ UNCHANGED <<call, out, cause, ended, log, answer>>
    BY <1>2, <1>3 DEF Inward
  <2>2. 4 \in 0..5 /\ 4 # 0 /\ "down" \notin Limiting
    BY DEF Limiting
  <2>3. QED
    BY <1>2, <1>3, <2>1, <2>2, InwardKeeps
<1>4. CASE Method(r) = "Check"
  <2>1. Inward(r, "down") /\ user' = user
    BY <1>4 DEF Auth, limitVars
  <2>2. user' = [user EXCEPT ![r] = user[r]] /\ user[r] \in Users \cup {NoUser}
    BY <1>1, <2>1 DEF ChainTypes
  <2>3. QED
    BY <1>3, <1>4, <2>1, <2>2
<1>5. CASE Method(r) # "Check" /\ TurnBack(r, "Unauthenticated") /\ UNCHANGED limitVars
  <2>1. user' = user /\ "Unauthenticated" \in Codes \ {"OK"} /\ depth[r] \in 3..4
    BY <1>2, <1>5 DEF limitVars, Codes
  <2>2. QED
    BY <1>2, <1>5, <2>1, TurnBackKeeps
<1>6. ASSUME NEW u \in Users, user' = [user EXCEPT ![r] = u], Inward(r, "down")
      PROVE  ChainInv'
  BY <1>3, <1>6
<1>7. QED
  BY <1>4, <1>5, <1>6 DEF Auth

LEMMA LimiterKeeps ==
    ASSUME ChainInv, NEW r \in Requests, Limiter(r)
    PROVE  ChainInv'
<1>1. ChainTypes /\ Kept(r)
  BY DEF ChainInv
<1>2. depth[r] = 4
  BY <1>1, AtLayer DEF Limiter, ChainTypes
<1>3. /\ depth = [depth EXCEPT ![r] = 4]
      /\ user = [user EXCEPT ![r] = user[r]] /\ user[r] \in Users \cup {NoUser}
      /\ pc[r] \in {"down"} \cup Limiting => Method(r) = "Check" \/ user[r] \in Users
  BY <1>1, <1>2 DEF ChainTypes, Kept, Inbound
<1>4. ASSUME pc[r] \in {"down"} \cup Limiting,
             NEW p \in Limiting, pc' = [pc EXCEPT ![r] = p], UNCHANGED <<user, accessVars>>
      PROVE  ChainInv'
  <2>1. /\ depth' = [depth EXCEPT ![r] = 4] /\ user' = [user EXCEPT ![r] = user[r]]
        /\ UNCHANGED <<call, out, cause, ended, log, answer>>
    BY <1>3, <1>4 DEF accessVars
  <2>2. p # "wire" /\ p # "down" /\ 4 \in 0..5
    BY <1>4 DEF Limiting
  <2>3. QED
    BY <1>3, <1>4, <2>1, <2>2, InwardKeeps
<1>5. CASE (Goto(r, "down", "extract") \/ Extract(r) \/ Allow(r)) /\ user' = user
           /\ UNCHANGED accessVars
  <2>1. pc[r] \in {"down"} \cup Limiting /\ \E p \in Limiting : pc' = [pc EXCEPT ![r] = p]
    BY <1>5 DEF Extract, Allow, Lookup, ReadClock, Admit, Refuse, Goto, Limiting
  <2>2. QED
    BY <1>4, <1>5, <2>1
<1>6. CASE pc[r] = "handler" /\ Inward(r, "down") /\ UNCHANGED limitVars
  <2>1. /\ pc' = [pc EXCEPT ![r] = "down"] /\ depth' = [depth EXCEPT ![r] = 5]
        /\ user' = [user EXCEPT ![r] = user[r]]
        /\ UNCHANGED <<call, out, cause, ended, log, answer>>
    BY <1>2, <1>3, <1>6 DEF Inward, limitVars
  <2>2. "down" \notin Limiting /\ pc[r] \in Limiting /\ 5 \in 0..5 /\ 5 # 0
    BY <1>6 DEF Limiting
  <2>3. Method(r) = "Check" \/ user[r] \in Users
    BY <1>3, <2>2
  <2>4. /\ pc[r] \in {"gateway", "wire", "down"} \cup Limiting
        /\ "down" \in {"wire", "down"} \cup Limiting /\ "down" # "wire"
    BY <2>2
  <2>5. QED
    BY <1>3, <2>1, <2>2, <2>3, <2>4, InwardKeeps
<1>7. CASE pc[r] = "refused" /\ TurnBack(r, "ResourceExhausted") /\ UNCHANGED limitVars
  BY <1>2, <1>7, TurnBackKeeps DEF limitVars, Codes, Limiting
<1>8. Extract(r) \/ Allow(r) \/ UNCHANGED limitVars => user' = user
  BY DEF Extract, Allow, Lookup, ReadClock, Admit, Refuse, limitVars
<1>9. QED
  BY <1>5, <1>6, <1>7, <1>8 DEF Limiter, accessVars

LEMMA HandleKeeps ==
    ASSUME ChainInv, NEW r \in Requests, Handle(r)
    PROVE  ChainInv'
<1>1. ChainTypes /\ Kept(r)
  BY DEF ChainInv
<1>2. pc[r] = "down" /\ depth[r] = 5 /\ pc' = [pc EXCEPT ![r] = "up"]
  BY Layers DEF Handle, Goto
<1>3. Method(r) \in Methods
  BY <1>1, <1>2 DEF Kept, Told, ChainTypes, Method, Methods
<1>4. PICK why \in Causes(r) : /\ cause' = [cause EXCEPT ![r] = why]
                               /\ out' = [out EXCEPT ![r] = Outcome(r, why)]
  BY DEF Handle
<1>5. /\ why \in AllCauses \ {"none", "undecodable"}
      /\ Outcome(r, why) \in Codes \cup {"panic"}
      /\ Outcome(r, why) = "OK" <=> why = "ok"
      /\ Outcome(r, why) = "panic" <=> why = "panic"
  BY <1>3, OutcomeOf
<1> DEFINE o == Outcome(r, why)
<1>6. /\ depth' = [depth EXCEPT ![r] = 4]
      /\ UNCHANGED <<user, call, ended, log, answer>>
  <2>1. depth' = [depth EXCEPT ![r] = depth[r] - 1]
    BY DEF Handle
  <2>2. depth[r] - 1 = 4
    BY <1>2
  <2>3. UNCHANGED <<user, call, ended, log, answer>>
    BY DEF Handle, limitVars
  <2>4. QED
    BY <2>1, <2>2, <2>3
<1>7. log[r] = <<>> /\ (Method(r) = "Check" \/ user[r] \in Users)
  BY <1>1, <1>2 DEF Kept, Inbound
<1>8. /\ pc'[r] = "up" /\ depth'[r] = 4 /\ cause'[r] = why /\ out'[r] = o
      /\ log' = [log EXCEPT ![r] = log[r]] /\ log[r] \in Seq(Records)
  BY <1>1, <1>2, <1>4, <1>6 DEF ChainTypes
<1> HIDE DEF o
<1>9. Inbound(r)'
  BY <1>6, <1>7, <1>8 DEF Inbound, Outside, Limiting, Method
<1>10. Outbound(r)' /\ Away(r)'
  <2>1. o \in Codes \cup {"panic"} /\ (o = "OK" <=> why = "ok") /\ (o = "panic" <=> why = "panic")
    BY <1>5 DEF o
  <2>2. QED
    BY <1>5, <1>6, <1>7, <1>8, <2>1 DEF Outbound, Away
<1>11. o \in Codes \cup {"panic"} /\ out' = [out EXCEPT ![r] = o]
  BY <1>4, <1>5 DEF o
<1>12. 4 \in 0..5 /\ why \in AllCauses
  BY <1>5
<1>13. QED
  BY <1>2, <1>4, <1>6, <1>8, <1>9, <1>10, <1>11, <1>12, ChainStepKeeps

-----------------------------------------------------------------------------
(* Up the chain.                                                           *)

\* What Outward leaves to the layer: the outcome and the log.
LEMMA OutwardMoves ==
    ASSUME ChainInv, NEW r \in Requests, Outward(r)
    PROVE  /\ pc[r] = "up" /\ depth[r] \in 1..4 /\ depth[r] - 1 \in 0..5
           /\ pc' = [pc EXCEPT ![r] = "up"]
           /\ depth' = [depth EXCEPT ![r] = depth[r] - 1]
           /\ cause' = [cause EXCEPT ![r] = cause[r]] /\ cause[r] \in AllCauses
           /\ UNCHANGED <<user, call, ended, answer>>
           /\ pc'[r] = "up" /\ depth'[r] = depth[r] - 1 /\ cause'[r] = cause[r]
           /\ ChainTypes /\ Kept(r)
<1>1. ChainTypes /\ Kept(r)
  BY DEF ChainInv
<1>2. /\ pc[r] = "up" /\ depth[r] > 0 /\ pc' = pc /\ cause' = cause
      /\ depth' = [depth EXCEPT ![r] = depth[r] - 1]
      /\ UNCHANGED <<user, call, ended, answer>>
  BY DEF Outward, limitVars
<1>3. depth[r] \in 0..4
  BY <1>1, <1>2 DEF Kept, Outbound
<1>4. depth[r] \in 1..4 /\ depth[r] - 1 \in 0..5
  BY <1>2, <1>3
<1>5. QED
  BY <1>1, <1>2, <1>4 DEF ChainTypes

LEMMA ReturnKeeps ==
    ASSUME ChainInv, NEW r \in Requests, Return(r)
    PROVE  ChainInv'
<1>1. Outward(r) /\ out' = out /\ log' = log
  BY DEF Return
<1>2. /\ pc[r] = "up" /\ depth[r] \in 1..4 /\ depth[r] - 1 \in 0..5
      /\ pc' = [pc EXCEPT ![r] = "up"]
      /\ depth' = [depth EXCEPT ![r] = depth[r] - 1]
      /\ cause' = [cause EXCEPT ![r] = cause[r]] /\ cause[r] \in AllCauses
      /\ UNCHANGED <<user, call, ended, answer>>
      /\ pc'[r] = "up" /\ depth'[r] = depth[r] - 1 /\ cause'[r] = cause[r]
      /\ ChainTypes /\ Kept(r)
  BY <1>1, OutwardMoves
<1>3. depth[r] \in 3..4
  <2>1. depth[r] = 1 => out[r] \in Codes
    BY <1>2 DEF Kept, Outbound
  <2>2. out[r] \in Codes => out[r] # "panic"
    BY DEF Codes
  <2>3. depth[r] \in {1, 3, 4}
    BY <1>2, AtLayer DEF Return, ChainTypes
  <2>4. ~(depth[r] = 1)
    BY <1>2, <2>1, <2>2, <2>3, AtLayer DEF Return, ChainTypes
  <2>5. QED
    BY <2>3, <2>4
<1>4. depth[r] - 1 \in 2..4 /\ depth[r] - 1 \notin 0..1
  BY <1>3
<1>5. /\ out[r] \in Codes \cup {"panic"} /\ log[r] = <<>>
      /\ out[r] = "panic" <=> cause[r] = "panic"
      /\ out[r] = "OK" <=> cause[r] = "ok"
      /\ cause[r] # "undecodable"
      /\ Ran(r) => Method(r) = "Check" \/ user[r] \in Users
  <2>1. depth[r] \in 2..4
    BY <1>3
  <2>2. QED
    BY <1>2, <2>1 DEF Kept, Outbound, Inbound
<1>6. /\ out' = [out EXCEPT ![r] = out[r]] /\ log' = [log EXCEPT ![r] = log[r]]
      /\ log[r] \in Seq(Records) /\ out'[r] = out[r] /\ log'[r] = log[r]
  BY <1>1, <1>2 DEF ChainTypes
<1>7. Inbound(r)'
  BY <1>2, <1>5 DEF Inbound, Ran, Method, Outside, Limiting
<1>8. Outbound(r)' /\ Away(r)'
  BY <1>2, <1>4, <1>5, <1>6 DEF Outbound, Away
<1>9. QED
  BY <1>2, <1>5, <1>6, <1>7, <1>8, ChainStepKeeps

LEMMA RecoverKeeps ==
    ASSUME ChainInv, NEW r \in Requests, Recover(r)
    PROVE  ChainInv'
<1>1. Outward(r)
  BY DEF Recover
<1>2. /\ pc[r] = "up" /\ depth[r] \in 1..4 /\ depth[r] - 1 \in 0..5
      /\ pc' = [pc EXCEPT ![r] = "up"]
      /\ depth' = [depth EXCEPT ![r] = depth[r] - 1]
      /\ cause' = [cause EXCEPT ![r] = cause[r]] /\ cause[r] \in AllCauses
      /\ UNCHANGED <<user, call, ended, answer>>
      /\ pc'[r] = "up" /\ depth'[r] = depth[r] - 1 /\ cause'[r] = cause[r]
      /\ ChainTypes /\ Kept(r)
  BY <1>1, OutwardMoves
<1>3. depth[r] = 2
  <2>1. At(r, "recovery")
    BY DEF Recover
  <2>2. depth[r] \in 0..5
    BY <1>2
  <2>3. QED
    BY <2>1, <2>2, AtLayer
<1>4. /\ out[r] \in Codes \cup {"panic"} /\ log[r] = <<>>
      /\ out[r] = "panic" <=> cause[r] = "panic"
      /\ out[r] = "OK" <=> cause[r] = "ok"
      /\ cause[r] # "undecodable"
      /\ Ran(r) => Method(r) = "Check" \/ user[r] \in Users
  <2>1. depth[r] \in 2..4
    BY <1>3
  <2>2. QED
    BY <1>2, <2>1 DEF Kept, Outbound, Inbound
<1>5. Inbound(r)'
  BY <1>2, <1>4 DEF Inbound, Ran, Method, Outside, Limiting
<1>6. depth'[r] = 1 /\ 1 \in 0..4 /\ 1 \in 0..1 /\ 1 \notin 2..4 /\ 1 # 0
  BY <1>2, <1>3
<1>7. CASE out[r] = "panic"
  <2>1. /\ out' = [out EXCEPT ![r] = "Internal"]
        /\ log' = [log EXCEPT ![r] = Append(log[r], PanicRecord)]
    BY <1>7 DEF Recover, Record, PanicRecord
  <2>2. PanicRecord \in Records
    BY DEF PanicRecord, Records
  <2>3. Append(log[r], PanicRecord) = <<PanicRecord>> /\ <<PanicRecord>> \in Seq(Records)
    BY <1>4, <2>2
  <2>4. "Internal" \in Codes /\ "Internal" # "OK"
    BY DEF Codes
  <2>5. out'[r] = "Internal" /\ log'[r] = <<PanicRecord>> /\ cause[r] = "panic"
    BY <1>2, <1>4, <1>7, <2>1, <2>3 DEF ChainTypes
  <2>6. Outbound(r)' /\ Away(r)'
    BY <1>2, <1>6, <2>4, <2>5 DEF Outbound, Away, Reported
  <2>7. QED
    BY <1>2, <1>5, <2>1, <2>3, <2>4, <2>6, ChainStepKeeps
<1>8. CASE out[r] # "panic"
  <2>1. out[r] \in Codes
    BY <1>4, <1>8
  <2>2. ToGRPCStatus(out[r]) = out[r]
    BY <2>1 DEF ToGRPCStatus, Codes
  <2>3. /\ out' = [out EXCEPT ![r] = out[r]] /\ log' = log
    BY <1>8, <2>2 DEF Recover
  <2>4. out'[r] = out[r] /\ log'[r] = <<>> /\ log' = [log EXCEPT ![r] = log[r]]
        /\ log[r] \in Seq(Records)
    BY <1>2, <1>4, <2>3 DEF ChainTypes
  <2>5. Outbound(r)' /\ Away(r)'
    BY <1>2, <1>4, <1>6, <1>8, <2>1, <2>4 DEF Outbound, Away, Reported
  <2>6. QED
    BY <1>2, <1>5, <2>1, <2>3, <2>4, <2>5, ChainStepKeeps
<1>9. QED
  BY <1>7, <1>8

LEMMA LogCallKeeps ==
    ASSUME ChainInv, NEW r \in Requests, LogCall(r)
    PROVE  ChainInv'
<1>1. Outward(r) /\ out' = out
  BY DEF LogCall
<1>2. /\ pc[r] = "up" /\ depth[r] \in 1..4 /\ depth[r] - 1 \in 0..5
      /\ pc' = [pc EXCEPT ![r] = "up"]
      /\ depth' = [depth EXCEPT ![r] = depth[r] - 1]
      /\ cause' = [cause EXCEPT ![r] = cause[r]] /\ cause[r] \in AllCauses
      /\ UNCHANGED <<user, call, ended, answer>>
      /\ pc'[r] = "up" /\ depth'[r] = depth[r] - 1 /\ cause'[r] = cause[r]
      /\ ChainTypes /\ Kept(r)
  BY <1>1, OutwardMoves
<1>3. depth[r] = 1
  BY <1>2, AtLayer DEF LogCall, ChainTypes
<1>4. /\ out[r] \in Codes /\ log[r] = Reported(r)
      /\ cause[r] = "panic" => out[r] = "Internal"
      /\ out[r] = "OK" <=> cause[r] = "ok"
      /\ cause[r] # "undecodable"
      /\ Ran(r) => Method(r) = "Check" \/ user[r] \in Users
  <2>1. depth[r] \in 0..1
    BY <1>3
  <2>2. QED
    BY <1>2, <1>3, <2>1 DEF Kept, Outbound, Inbound
<1>5. log' = [log EXCEPT ![r] = Append(log[r], Rpc(r))]
  BY DEF LogCall, Record, Rpc
<1>6. Rpc(r) \in Records
  <2>1. levelForCode(out[r]) \in {"Info", "Warn", "Error"}
    BY <1>4, LevelOf
  <2>2. QED
    BY <1>4, <2>1 DEF Rpc, Records
<1> DEFINE l == Append(log[r], Rpc(r))
<1>7. l \in Seq(Records)
  BY <1>2, <1>6 DEF ChainTypes
<1>8. /\ out' = [out EXCEPT ![r] = out[r]] /\ out'[r] = out[r]
      /\ log'[r] = Append(Reported(r), Rpc(r))
  BY <1>1, <1>2, <1>4, <1>5 DEF ChainTypes
<1>9. Reported(r)' = Reported(r) /\ Rpc(r)' = Rpc(r)
  BY <1>2, <1>8 DEF Reported, Rpc
<1>10. depth'[r] = 0 /\ 0 \in 0..4 /\ 0 \in 0..1 /\ 0 \notin 2..4 /\ 0 # 1
  BY <1>2, <1>3
<1>11. Inbound(r)'
  BY <1>2, <1>4 DEF Inbound, Ran, Method, Outside, Limiting
<1>12. Outbound(r)' /\ Away(r)'
  BY <1>2, <1>4, <1>8, <1>9, <1>10 DEF Outbound, Away
<1>13. log' = [log EXCEPT ![r] = l]
  BY <1>5
<1> HIDE DEF l
<1>14. QED
  BY <1>2, <1>4, <1>7, <1>8, <1>11, <1>12, <1>13, ChainStepKeeps

LEMMA FinishKeeps ==
    ASSUME ChainInv, NEW r \in Requests, Finish(r)
    PROVE  ChainInv'
<1>1. ChainTypes /\ Kept(r)
  BY DEF ChainInv
<1>2. /\ pc[r] = "up" /\ depth[r] = 0
      /\ pc' = [pc EXCEPT ![r] = IF out[r] = "panic" THEN "dead" ELSE "sent"]
      /\ UNCHANGED <<user, call, depth, out, cause, ended, log, answer>>
  BY DEF Finish, Goto, limitVars, accessVars
<1>3. /\ out[r] \in Codes /\ log[r] = Append(Reported(r), Rpc(r))
      /\ cause[r] = "panic" => out[r] = "Internal"
      /\ out[r] = "OK" <=> cause[r] = "ok"
      /\ cause[r] # "undecodable"
      /\ Ran(r) => Method(r) = "Check" \/ user[r] \in Users
  <2>1. 0 \in 0..1
    OBVIOUS
  <2>2. QED
    BY <1>1, <1>2, <2>1 DEF Kept, Outbound, Inbound
<1>4. out[r] # "panic"
  BY <1>3 DEF Codes
<1>5. /\ pc' = [pc EXCEPT ![r] = "sent"] /\ pc'[r] = "sent"
      /\ depth' = [depth EXCEPT ![r] = depth[r]] /\ depth[r] \in 0..5
      /\ out' = [out EXCEPT ![r] = out[r]]
      /\ cause' = [cause EXCEPT ![r] = cause[r]] /\ cause[r] \in AllCauses
      /\ log' = [log EXCEPT ![r] = log[r]] /\ log[r] \in Seq(Records)
  BY <1>1, <1>2, <1>4 DEF ChainTypes
<1>6. Reported(r)' = Reported(r) /\ Rpc(r)' = Rpc(r)
  BY <1>2 DEF Reported, Rpc
<1>7. Inbound(r)'
  BY <1>2, <1>3, <1>5 DEF Inbound, Ran, Method, Outside, Limiting
<1>8. Outbound(r)' /\ Away(r)'
  BY <1>2, <1>3, <1>5, <1>6 DEF Outbound, Away
<1>9. QED
  BY <1>2, <1>3, <1>5, <1>7, <1>8, ChainStepKeeps

-----------------------------------------------------------------------------
(* The client.                                                             *)

\* What a client is told of a code.
LEMMA TellIs ==
    ASSUME ChainTypes, NEW r \in Requests, NEW code \in Codes, Tell(r, code)
    PROVE  \E told \in [code : {"none"} \cup Codes, status : 0..504] :
              /\ answer' = [answer EXCEPT ![r] = told]
              /\ answer'[r] = told
              /\ told # NoAnswer
              /\ told \in IF call[r] = "http" THEN [code : {"none"}, status : 200..504]
                                              ELSE [code : Codes, status : {0}]
              /\ call[r] = "http" => told.status = grpcCodeToHTTP(code)
<1>1. grpcCodeToHTTP(code) \in 200..504
  BY StatusOf
<1>2. CASE call[r] = "http"
  <2> DEFINE told == [code |-> "none", status |-> grpcCodeToHTTP(code)]
  <2>1. answer' = [answer EXCEPT ![r] = told]
    BY <1>2 DEF Tell
  <2>2. /\ told \in [code : {"none"} \cup Codes, status : 0..504]
        /\ told \in [code : {"none"}, status : 200..504]
        /\ told.status = grpcCodeToHTTP(code)
        /\ told # NoAnswer
    BY <1>1 DEF NoAnswer
  <2> HIDE DEF told
  <2>3. answer'[r] = told
    BY <2>1 DEF ChainTypes
  <2>4. QED
    BY <1>2, <2>1, <2>2, <2>3
<1>3. CASE call[r] # "http"
  <2> DEFINE told == [code |-> code, status |-> 0]
  <2>1. answer' = [answer EXCEPT ![r] = told]
    BY <1>3 DEF Tell
  <2>2. /\ told \in [code : {"none"} \cup Codes, status : 0..504]
        /\ told \in [code : Codes, status : {0}]
        /\ told # NoAnswer
    BY DEF NoAnswer, Codes
  <2> HIDE DEF told
  <2>3. answer'[r] = told
    BY <2>1 DEF ChainTypes
  <2>4. QED
    BY <1>3, <2>1, <2>2, <2>3
<1>4. QED
  BY <1>2, <1>3

LEMMA DeliverKeeps ==
    ASSUME ChainInv, NEW r \in Requests, Deliver(r)
    PROVE  ChainInv'
<1>1. ChainTypes /\ Kept(r)
  BY DEF ChainInv
<1>2. /\ pc[r] = "sent" /\ pc' = [pc EXCEPT ![r] = "over"]
      /\ Tell(r, out[r])
      /\ UNCHANGED <<user, call, depth, out, cause, ended, log>>
  BY DEF Deliver, Goto, limitVars
<1>3. out[r] \in Codes /\ out[r] # "none"
  BY <1>1, <1>2 DEF Kept, Away, Codes
<1>4. PICK told \in [code : {"none"} \cup Codes, status : 0..504] :
              /\ answer' = [answer EXCEPT ![r] = told]
              /\ answer'[r] = told
              /\ told # NoAnswer
              /\ told \in IF call[r] = "http" THEN [code : {"none"}, status : 200..504]
                                              ELSE [code : Codes, status : {0}]
              /\ call[r] = "http" => told.status = grpcCodeToHTTP(out[r])
  BY <1>1, <1>2, <1>3, TellIs
<1>5. pc'[r] = "over"
  BY <1>1, <1>2 DEF ChainTypes
<1>6. ChainTypes'
  BY <1>1, <1>2, <1>4 DEF ChainTypes
<1>7. OthersRest(r)
  BY <1>1, <1>2, <1>4 DEF ChainTypes, OthersRest
<1>8. Reported(r)' = Reported(r) /\ Rpc(r)' = Rpc(r)
  BY <1>2 DEF Reported, Rpc
<1>9. Inbound(r)'
  BY <1>1, <1>2, <1>5 DEF Kept, Inbound, Ran, Method, Outside, Limiting
<1>10. Outbound(r)' /\ Away(r)'
  BY <1>1, <1>2, <1>3, <1>5, <1>8 DEF Kept, Outbound, Away
<1>11. Told(r)'
  <2>1. call[r] # "none"
    BY <1>1, <1>2 DEF Kept, Told
  <2>2. QED
    BY <1>2, <1>4, <1>5, <2>1 DEF Told
<1>12. QED
  BY <1>6, <1>7, <1>9, <1>10, <1>11, ChainInvBy DEF Kept

LEMMA LocalEndKeeps ==
    ASSUME ChainInv, NEW r \in Requests, LocalEnd(r)
    PROVE  ChainInv'
<1>1. ChainTypes /\ Kept(r)
  BY DEF ChainInv
<1>2. /\ pc[r] \notin {"idle", "gateway", "over"} /\ ended' = ended \cup {r}
      /\ UNCHANGED <<pc, user, call, depth, out, cause, log>>
  BY DEF LocalEnd, rateVars, limitVars
<1>3. PICK code \in {"Canceled", "Unavailable", "DeadlineExceeded"} :
          /\ call[r] = "http" => code # "DeadlineExceeded"
          /\ Tell(r, code)
  BY DEF LocalEnd
<1>4. code \in Codes /\ (call[r] = "http" => grpcCodeToHTTP(code) \in {500, 503})
  BY <1>3, StatusOf DEF Codes
<1>5. PICK told \in [code : {"none"} \cup Codes, status : 0..504] :
              /\ answer' = [answer EXCEPT ![r] = told]
              /\ answer'[r] = told
              /\ told # NoAnswer
              /\ told \in IF call[r] = "http" THEN [code : {"none"}, status : 200..504]
                                              ELSE [code : Codes, status : {0}]
              /\ call[r] = "http" => told.status = grpcCodeToHTTP(code)
  BY <1>1, <1>3, <1>4, TellIs
<1>6. ChainTypes'
  BY <1>1, <1>2, <1>5 DEF ChainTypes
<1>7. OthersRest(r)
  BY <1>1, <1>2, <1>5 DEF ChainTypes, OthersRest
<1>8. Reported(r)' = Reported(r) /\ Rpc(r)' = Rpc(r)
  BY <1>2 DEF Reported, Rpc
<1>9. Inbound(r)'
  BY <1>1, <1>2 DEF Kept, Inbound, Ran, Method
<1>10. Outbound(r)' /\ Away(r)'
  BY <1>1, <1>2, <1>8 DEF Kept, Outbound, Away
<1>11. Told(r)'
  BY <1>1, <1>2, <1>4, <1>5 DEF Kept, Told
<1>12. QED
  BY <1>6, <1>7, <1>9, <1>10, <1>11, ChainInvBy DEF Kept

LEMMA ChainInvStep == ChainInv /\ [AccessNext]_allVars => ChainInv'
<1> SUFFICES ASSUME ChainInv, [AccessNext]_allVars PROVE ChainInv'
  OBVIOUS
<1>1. ASSUME UNCHANGED <<pc, user, accessVars>>
      PROVE  ChainInv'
  BY <1>1 DEF ChainInv, ChainTypes, Kept, Inbound, Outbound, Away, Told, Reported, Rpc, Ran,
              Method, accessVars
<1>2. CASE Tick /\ UNCHANGED accessVars
  BY <1>1, <1>2 DEF Tick
<1>3. CASE UNCHANGED allVars
  BY <1>1, <1>3 DEF allVars, rateVars, limitVars
<1>4. ASSUME NEW r \in Requests, Serve(r)
      PROVE  ChainInv'
  BY <1>4, GatewayRefuseKeeps, ForwardKeeps, UndecodableKeeps, PassKeeps, AuthKeeps,
     LimiterKeeps, HandleKeeps, ReturnKeeps, RecoverKeeps, LogCallKeeps, FinishKeeps,
     DeliverKeeps DEF Serve
<1>5. QED
  BY <1>2, <1>3, <1>4, SendKeeps, LocalEndKeeps DEF AccessNext

-----------------------------------------------------------------------------
(* The limiter in the chain.                                               *)

LEMMA SameBucket ==
    /\ \A b, t : InChain!Accrued(b, t, Burst) = Accrued(b, t, Burst)
    /\ \A b, t : InChain!Take(b, t, Burst) = Take(b, t, Burst)
    /\ InChain!NewBucket(Burst) = NewBucket(Burst)
    /\ InChain!Buckets = Buckets
BY DEF InChain!Accrued, Accrued, InChain!Take, Take, InChain!NewBucket, NewBucket,
       InChain!Buckets, Buckets, InChain!Worth, Worth

LEMMA LimiterAssumption ==
    /\ Interval \in Nat \ {0}
    /\ Burst \in Nat /\ MaxTime \in Nat /\ NoUser \notin Users
    /\ NoLimiter \notin InChain!Buckets
BY SameBucket

\* A step of r moves nothing of another request.
LEMMA OnlyOne ==
    ASSUME ChainTypes, NEW r \in Requests,
           Serve(r) \/ LocalEnd(r) \/ \E how \in {"http"} \cup Methods : Send(r, how)
    PROVE  OthersRest(r)
<1> USE DEF OthersRest, ChainTypes, Goto, limitVars, accessVars, rateVars
<1>1. CASE GatewayRefuse(r)
  BY <1>1 DEF GatewayRefuse
<1>2. CASE GatewayForward(r) \/ Dispatch(r) \/ Undecodable(r)
  BY <1>2 DEF GatewayForward, Dispatch, Undecodable
<1>3. CASE Pass(r)
  BY <1>3 DEF Pass, Inward
<1>4. CASE Auth(r)
  BY <1>4 DEF Auth, Inward, TurnBack
<1>5. CASE Limiter(r)
  <2>1. \A q \in Requests \ {r} : pc'[q] = pc[q]
    BY <1>5 DEF Limiter, Inward, TurnBack, Extract, Allow, Lookup, ReadClock, Admit, Refuse
  <2>2. user' = user /\ UNCHANGED <<call, cause, ended, log, answer>>
    BY <1>5 DEF Limiter, Inward, TurnBack, Extract, Allow, Lookup, ReadClock, Admit, Refuse
  <2>3. \A q \in Requests \ {r} : depth'[q] = depth[q] /\ out'[q] = out[q]
    BY <1>5 DEF Limiter, Inward, TurnBack
  <2>4. QED
    BY <2>1, <2>2, <2>3
<1>6. CASE Handle(r)
  BY <1>6 DEF Handle
<1>7. CASE Return(r) \/ LogCall(r)
  BY <1>7 DEF Return, LogCall, Outward, Record
<1>8. CASE Recover(r)
  <2>1. /\ \A q \in Requests \ {r} : depth'[q] = depth[q]
        /\ UNCHANGED <<pc, user, call, cause, ended, answer>>
    BY <1>8 DEF Recover, Outward
  <2>2. \E o : out' = [out EXCEPT ![r] = o]
    BY <1>8 DEF Recover
  <2>3. log' = log \/ \E l : log' = [log EXCEPT ![r] = l]
    BY <1>8 DEF Recover, Record
  <2>4. \A q \in Requests \ {r} : out'[q] = out[q] /\ log'[q] = log[q]
    BY <2>2, <2>3
  <2>5. QED
    BY <2>1, <2>4
<1>9. CASE Finish(r)
  BY <1>9 DEF Finish
<1>10. CASE Deliver(r)
  BY <1>10 DEF Deliver, Tell
<1>11. CASE LocalEnd(r)
  BY <1>11 DEF LocalEnd, Tell
<1>12. CASE \E how \in {"http"} \cup Methods : Send(r, how)
  BY <1>12 DEF Send
<1>13. QED
  BY <1>1, <1>2, <1>3, <1>4, <1>5, <1>6, <1>7, <1>8, <1>9, <1>10, <1>11, <1>12 DEF Serve

\* Where the limiter sees a request, of those states that steps lead to or from.
LEMMA PhaseOf ==
    ASSUME NEW r \in Requests
    PROVE  /\ pc[r] \in Limiting => phase[r] = pc[r]
           /\ pc[r] = "down" /\ depth[r] = 5 => phase[r] = "handler"
           /\ pc[r] \notin Limiting /\ Ran(r) => phase[r] = "handler"
           /\ /\ pc[r] \notin Limiting
              /\ ~(pc[r] = "down" /\ depth[r] = 5)
              /\ ~Ran(r)
              => phase[r] = IF out[r] = "ResourceExhausted" THEN "refused" ELSE "idle"
BY DEF phase, PastLimiter, Limiting

LEMMA PhaseOfNext ==
    ASSUME NEW r \in Requests
    PROVE  /\ pc'[r] \in Limiting => phase'[r] = pc'[r]
           /\ pc'[r] = "down" /\ depth'[r] = 5 => phase'[r] = "handler"
           /\ pc'[r] \notin Limiting /\ Ran(r)' => phase'[r] = "handler"
           /\ /\ pc'[r] \notin Limiting
              /\ ~(pc'[r] = "down" /\ depth'[r] = 5)
              /\ ~Ran(r)'
              => phase'[r] = IF out'[r] = "ResourceExhausted" THEN "refused" ELSE "idle"
BY DEF phase, PastLimiter, Limiting

\* A step of r changes what the limiter sees at r only.
LEMMA PhaseMoves ==
    ASSUME NEW r \in Requests, OthersRest(r)
    PROVE  /\ phase' = [phase EXCEPT ![r] = phase'[r]]
           /\ asker' = [asker EXCEPT ![r] = IF phase'[r] = "idle" THEN NoUser ELSE user'[r]]
<1>1. ASSUME NEW q \in Requests, q # r
      PROVE  phase'[q] = phase[q] /\ asker'[q] = asker[q]
  <2>1. /\ pc'[q] = pc[q] /\ depth'[q] = depth[q] /\ out'[q] = out[q]
        /\ cause'[q] = cause[q] /\ user'[q] = user[q]
    BY <1>1 DEF OthersRest
  <2>2. phase'[q] = phase[q]
    BY <2>1 DEF phase, PastLimiter, Ran
  <2>3. QED
    BY <2>1, <2>2 DEF asker
<1>2. /\ phase = [q \in Requests |-> phase[q]] /\ phase' = [q \in Requests |-> phase'[q]]
      /\ asker = [q \in Requests |-> asker[q]] /\ asker' = [q \in Requests |-> asker'[q]]
  BY DEF phase, asker
<1>3. asker'[r] = IF phase'[r] = "idle" THEN NoUser ELSE user'[r]
  BY DEF asker
<1>4. QED
  BY <1>1, <1>2, <1>3

\* The steps the limiter does not see.
LEMMA Unseen ==
    ASSUME NEW r \in Requests, OthersRest(r), UNCHANGED <<limiters, now, seen, admitted>>,
           phase'[r] = phase[r], user'[r] = user[r] \/ phase[r] = "idle"
    PROVE  UNCHANGED InChain!rateVars
<1>1. /\ phase = [q \in Requests |-> phase[q]]
      /\ asker = [q \in Requests |-> asker[q]]
  BY DEF phase, asker
<1>2. phase' = [phase EXCEPT ![r] = phase[r]]
  BY PhaseMoves
<1>3. asker' = [asker EXCEPT ![r] = asker[r]]
  BY PhaseMoves DEF asker
<1>4. phase' = phase /\ asker' = asker
  BY <1>1, <1>2, <1>3
<1>5. QED
  BY <1>4 DEF InChain!rateVars, InChain!limitVars

LEMMA UnseenInward ==
    ASSUME ChainInv, NEW r \in Requests,
           \/ \E how \in {"http"} \cup Methods : Send(r, how)
           \/ GatewayRefuse(r) \/ GatewayForward(r) \/ Dispatch(r) \/ Undecodable(r)
           \/ Pass(r) \/ Auth(r)
    PROVE  UNCHANGED InChain!rateVars
<1>1. ChainTypes /\ Kept(r)
  BY DEF ChainInv
<1>2. OthersRest(r)
  BY <1>1, OnlyOne DEF Serve
<1>3. UNCHANGED <<limiters, now, seen, admitted>>
  BY DEF Send, GatewayRefuse, GatewayForward, Dispatch, Undecodable, Pass, Auth, limitVars
<1>4. ASSUME pc[r] \in Outside \/ (pc[r] = "down" /\ depth[r] # 5),
             pc'[r] \notin Limiting, ~(pc'[r] = "down" /\ depth'[r] = 5), ~Ran(r)',
             out'[r] # "ResourceExhausted"
      PROVE  UNCHANGED InChain!rateVars
  <2>1. out[r] = "none" /\ cause[r] = "none" /\ pc[r] \notin Limiting /\ ~(pc[r] = "down" /\ depth[r] = 5)
    BY <1>1, <1>4 DEF Kept, Inbound, Outside, Limiting
  <2>2. phase[r] = "idle"
    BY <2>1, PhaseOf DEF Ran
  <2>3. phase'[r] = "idle"
    BY <1>4, PhaseOfNext
  <2>4. QED
    BY <1>2, <1>3, <2>2, <2>3, Unseen
<1>5. CASE \E how \in {"http"} \cup Methods : Send(r, how)
  <2>1. /\ pc[r] = "idle" /\ pc'[r] \in {"gateway", "wire"} /\ UNCHANGED <<out, cause>>
    BY <1>1, <1>5 DEF Send, Goto, ChainTypes
  <2>2. out[r] = "none" /\ cause[r] = "none"
    BY <1>1, <2>1 DEF Kept, Inbound, Outside
  <2>3. QED
    BY <1>4, <2>1, <2>2 DEF Ran, Outside, Limiting
<1>6. CASE GatewayRefuse(r) \/ GatewayForward(r) \/ Dispatch(r)
  <2>1. /\ pc[r] \in {"gateway", "wire"} /\ UNCHANGED <<out, cause>>
        /\ pc'[r] \in {"over", "wire"} \/ (pc'[r] = "down" /\ depth'[r] = 1)
    BY <1>1, <1>6 DEF GatewayRefuse, GatewayForward, Dispatch, Goto, ChainTypes, accessVars
  <2>2. out[r] = "none" /\ cause[r] = "none"
    BY <1>1, <2>1 DEF Kept, Inbound, Outside
  <2>3. QED
    BY <1>4, <2>1, <2>2 DEF Ran, Outside, Limiting
<1>7. CASE Undecodable(r)
  <2>1. pc[r] = "wire" /\ pc'[r] = "sent" /\ out'[r] = "Internal" /\ cause'[r] = "undecodable"
    BY <1>1, <1>7 DEF Undecodable, Goto, ChainTypes
  <2>2. QED
    BY <1>4, <2>1 DEF Ran, Outside, Limiting
<1>8. CASE Pass(r) \/ Auth(r)
  <2>1. depth[r] \in {1, 2, 3} /\ pc[r] = "down"
    <3>1. depth[r] \in 0..5
      BY <1>1 DEF ChainTypes
    <3>2. pc[r] = "down" /\ (At(r, "logging") \/ At(r, "recovery") \/ At(r, "auth"))
      BY <1>8 DEF Pass, Auth
    <3>3. QED
      BY <3>1, <3>2, AtLayer
  <2>2. out[r] = "none" /\ cause[r] = "none"
    BY <1>1, <2>1 DEF Kept, Inbound
  <2>3. \/ Inward(r, "down")
        \/ TurnBack(r, "Unauthenticated")
    BY <1>8 DEF Pass, Auth
  <2>4. cause'[r] = "none" /\ out'[r] \in {"none", "Unauthenticated"}
    BY <1>1, <2>2, <2>3 DEF Inward, TurnBack, ChainTypes
  <2>5. \/ pc'[r] = "down" /\ depth'[r] \in {2, 3, 4}
        \/ pc'[r] = "up"
    BY <1>1, <2>1, <2>3 DEF Inward, TurnBack, ChainTypes
  <2>6. QED
    BY <1>4, <2>1, <2>4, <2>5 DEF Ran, Limiting
<1>9. QED
  BY <1>5, <1>6, <1>7, <1>8

LEMMA UnseenOutward ==
    ASSUME ChainInv, NEW r \in Requests,
           \/ Handle(r) \/ Return(r) \/ Recover(r) \/ LogCall(r) \/ Finish(r)
           \/ Deliver(r) \/ LocalEnd(r)
    PROVE  UNCHANGED InChain!rateVars
<1>1. ChainTypes /\ Kept(r)
  BY DEF ChainInv
<1>2. OthersRest(r)
  BY <1>1, OnlyOne DEF Serve
<1>3. UNCHANGED <<limiters, now, seen, admitted, user>>
  BY DEF Handle, Return, Recover, LogCall, Outward, Finish, Deliver, LocalEnd, limitVars, rateVars
<1>4. ASSUME phase'[r] = phase[r]
      PROVE  UNCHANGED InChain!rateVars
  BY <1>2, <1>3, <1>4, Unseen
<1>5. CASE Handle(r)
  <2>1. pc[r] = "down" /\ depth[r] = 5 /\ pc'[r] = "up"
    BY <1>1, <1>5, Layers DEF Handle, Goto, ChainTypes
  <2>2. out[r] = "none" /\ Method(r) \in Methods
    BY <1>1, <2>1 DEF Kept, Inbound, Told, Method, Methods, ChainTypes
  <2>3. PICK why \in Causes(r) : cause'[r] = why /\ out'[r] = Outcome(r, why)
    BY <1>1, <1>5 DEF Handle, ChainTypes
  <2>4. Ran(r)'
    BY <2>2, <2>3, OutcomeOf DEF Ran
  <2>5. phase[r] = "handler"
    BY <2>1, PhaseOf
  <2>6. phase'[r] = "handler"
    BY <2>1, <2>4, PhaseOfNext DEF Limiting
  <2>7. QED
    BY <1>4, <2>5, <2>6
<1>6. CASE Return(r) \/ LogCall(r) \/ Finish(r) \/ Deliver(r) \/ LocalEnd(r)
  <2>1. UNCHANGED <<out, cause>>
    BY <1>6 DEF Return, LogCall, Outward, Finish, Deliver, LocalEnd, accessVars
  <2>2. CASE LocalEnd(r)
    <3>1. UNCHANGED <<pc, depth>>
      BY <2>2 DEF LocalEnd, rateVars
    <3>2. phase'[r] = phase[r]
      BY <2>1, <3>1 DEF phase, PastLimiter, Ran
    <3>3. QED
      BY <1>4, <3>2
  <2>3. CASE ~LocalEnd(r)
    <3>1. pc[r] \in {"up", "sent"} /\ pc'[r] \in {"up", "sent", "dead", "over"}
      BY <1>1, <1>6, <2>3 DEF Return, LogCall, Outward, Finish, Deliver, Goto, ChainTypes
    <3>2. phase'[r] = phase[r]
      BY <2>1, <3>1 DEF phase, PastLimiter, Ran, Limiting
    <3>3. QED
      BY <1>4, <3>2
  <2>4. QED
    BY <2>2, <2>3
<1>7. CASE Recover(r)
  <2>1. Outward(r) /\ At(r, "recovery")
    BY <1>7 DEF Recover
  <2>2. pc[r] = "up" /\ pc'[r] = "up" /\ depth[r] \in 1..4 /\ cause'[r] = cause[r]
    BY <2>1, OutwardMoves
  <2>3. depth[r] = 2
    <3>1. depth[r] \in 0..5
      BY <2>2
    <3>2. QED
      BY <2>1, <3>1, AtLayer
  <2>4. out[r] \in Codes \cup {"panic"}
    BY <1>1, <2>2, <2>3 DEF Kept, Outbound
  <2>5. CASE out[r] = "panic"
    <3>1. out'[r] = "Internal"
      BY <1>1, <1>7, <2>5 DEF Recover, ChainTypes
    <3>2. QED
      BY <1>4, <2>2, <2>5, <3>1 DEF phase, PastLimiter, Ran, Limiting
  <2>6. CASE out[r] # "panic"
    <3>1. ToGRPCStatus(out[r]) = out[r]
      BY <2>4, <2>6 DEF ToGRPCStatus, Codes
    <3>2. out'[r] = out[r]
      BY <1>1, <1>7, <2>6, <3>1 DEF Recover, ChainTypes
    <3>3. QED
      BY <1>4, <2>2, <3>2 DEF phase, PastLimiter, Ran, Limiting
  <2>7. QED
    BY <2>5, <2>6
<1>8. QED
  BY <1>5, <1>6, <1>7

\* The limiter's own steps are those of RateNext.
LEMMA LimiterSeen ==
    ASSUME ChainInv, NEW r \in Requests, Limiter(r)
    PROVE  [InChain!RateNext]_InChain!rateVars
<1>1. ChainTypes /\ Kept(r)
  BY DEF ChainInv
<1>2. OthersRest(r)
  BY <1>1, <1>1, OnlyOne DEF Serve
<1>3. depth[r] = 4
  <2>1. At(r, "ratelimit") /\ depth[r] \in 0..5
    BY <1>1 DEF Limiter, ChainTypes
  <2>2. QED
    BY <2>1, AtLayer
<1>4. pc[r] \in {"down"} \cup Limiting => out[r] = "none" /\ cause[r] = "none"
  BY <1>1 DEF Kept, Inbound
<1>5. /\ phase' = [phase EXCEPT ![r] = phase'[r]]
      /\ asker' = [asker EXCEPT ![r] = IF phase'[r] = "idle" THEN NoUser ELSE user'[r]]
  BY <1>2, PhaseMoves
<1>6. CASE Goto(r, "down", "extract") /\ UNCHANGED <<limitVars, accessVars>>
  <2>1. /\ pc[r] = "down" /\ pc'[r] = "extract"
        /\ UNCHANGED <<user, limiters, now, seen, admitted>>
    BY <1>1, <1>6 DEF Goto, limitVars, ChainTypes
  <2>2. phase[r] = "idle"
    BY <1>3, <1>4, <2>1, PhaseOf DEF Ran, Limiting
  <2>3. phase'[r] = "extract"
    BY <2>1, PhaseOfNext DEF Limiting
  <2>4. user[r] \in Users \cup {NoUser}
    BY <1>1 DEF ChainTypes
  <2>5. InChain!Arrive(r, user[r])
    BY <1>5, <2>1, <2>2, <2>3 DEF InChain!Arrive, InChain!Goto
  <2>6. QED
    BY <2>4, <2>5 DEF InChain!RateNext
<1>7. CASE (Extract(r) \/ Allow(r)) /\ UNCHANGED accessVars
  <2>1. pc[r] \in Limiting /\ pc'[r] \in Limiting \ {"extract"} /\ user' = user
    BY <1>1, <1>7 DEF Extract, Allow, Lookup, ReadClock, Admit, Refuse, Goto, Limiting, limitVars, ChainTypes
  <2>2. phase[r] = pc[r] /\ phase'[r] = pc'[r] /\ pc[r] # "idle" /\ pc'[r] # "idle"
    BY <2>1, PhaseOf, PhaseOfNext DEF Limiting
  <2>3. asker[r] = user[r]
    BY <2>2 DEF asker
  <2>4. asker' = asker
    <3>1. asker' = [asker EXCEPT ![r] = asker[r]] /\ asker = [q \in Requests |-> asker[q]]
      BY <1>5, <2>1, <2>2, <2>3 DEF asker
    <3>2. QED
      BY <3>1
  <2>5. ASSUME NEW from, NEW to, Goto(r, from, to)
        PROVE  InChain!Goto(r, from, to)
    BY <1>1, <1>5, <2>2, <2>5 DEF Goto, InChain!Goto, ChainTypes
  <2>6. CASE Extract(r)
    BY <2>3, <2>4, <2>5, <2>6 DEF Extract, InChain!Extract, limitVars, InChain!limitVars, InChain!RateNext
  <2>7. CASE Lookup(r)
    <3>1. InChain!Lookup(r)
      BY <2>3, <2>4, <2>5, <2>7, SameBucket DEF Lookup, InChain!Lookup
    <3>2. QED
      BY <3>1 DEF InChain!RateNext, InChain!Allow
  <2>8. CASE ReadClock(r)
    BY <2>4, <2>5, <2>8 DEF ReadClock, InChain!ReadClock, InChain!RateNext, InChain!Allow
  <2>9. CASE Admit(r)
    <3>1. InChain!Backwards(user[r]) = Backwards(user[r])
      BY DEF InChain!Backwards, Backwards
    <3>2. InChain!Admit(r)
      BY <2>3, <2>4, <2>5, <2>9, <3>1, SameBucket DEF Admit, InChain!Admit
    <3>3. QED
      BY <3>2 DEF InChain!RateNext, InChain!Allow
  <2>10. CASE Refuse(r)
    <3>1. InChain!Refuse(r)
      BY <2>3, <2>4, <2>5, <2>10, SameBucket DEF Refuse, InChain!Refuse, limitVars, InChain!limitVars
    <3>2. QED
      BY <3>1 DEF InChain!RateNext, InChain!Allow
  <2>11. QED
    BY <1>7, <2>6, <2>7, <2>8, <2>9, <2>10 DEF Allow
<1>8. CASE pc[r] = "handler" /\ Inward(r, "down") /\ UNCHANGED limitVars
  <2>1. pc'[r] = "down" /\ depth'[r] = 5 /\ out'[r] = out[r]
        /\ UNCHANGED <<user, limiters, now, seen, admitted>>
    BY <1>1, <1>3, <1>8 DEF Inward, limitVars, ChainTypes
  <2>2. pc[r] \in Limiting
    BY <1>8 DEF Limiting
  <2>3. phase[r] = "handler" /\ phase'[r] = "handler"
    BY <1>4, <1>8, <2>1, <2>2, PhaseOf, PhaseOfNext
  <2>4. QED
    BY <1>2, <2>1, <2>3, Unseen
<1>9. CASE pc[r] = "refused" /\ TurnBack(r, "ResourceExhausted") /\ UNCHANGED limitVars
  <2>1. pc'[r] = "up" /\ out'[r] = "ResourceExhausted"
        /\ UNCHANGED <<user, limiters, now, seen, admitted>>
    BY <1>1, <1>9 DEF TurnBack, limitVars, ChainTypes
  <2>2. pc[r] \in Limiting /\ cause'[r] = "none"
    BY <1>1, <1>4, <1>9 DEF TurnBack, Limiting, ChainTypes
  <2>3. phase[r] = "refused" /\ phase'[r] = "refused"
    BY <1>9, <2>1, <2>2, PhaseOf, PhaseOfNext DEF Limiting, Ran
  <2>4. QED
    BY <1>2, <2>1, <2>3, Unseen
<1>10. QED
  BY <1>6, <1>7, <1>8, <1>9 DEF Limiter

LEMMA ChainStepSeen ==
    ASSUME ChainInv, [AccessNext]_allVars
    PROVE  [InChain!RateNext]_InChain!rateVars
<1>1. CASE Tick /\ UNCHANGED accessVars
  <2>1. UNCHANGED <<pc, user, accessVars>>
    BY <1>1 DEF Tick
  <2>2. phase' = phase
    BY <2>1 DEF phase, PastLimiter, Ran, accessVars
  <2>3. asker' = asker
    BY <2>1, <2>2 DEF asker
  <2>4. QED
    BY <1>1, <2>2, <2>3 DEF Tick, InChain!Tick, InChain!RateNext
<1>2. CASE UNCHANGED allVars
  <2>1. UNCHANGED <<pc, limitVars, accessVars>>
    BY <1>2 DEF allVars, rateVars
  <2>2. phase' = phase
    BY <2>1 DEF phase, PastLimiter, Ran, accessVars
  <2>3. asker' = asker
    BY <2>1, <2>2 DEF asker, limitVars
  <2>4. QED
    BY <2>1, <2>2, <2>3 DEF limitVars, InChain!rateVars, InChain!limitVars
<1>3. ASSUME NEW r \in Requests,
             (\E how \in {"http"} \cup Methods : Send(r, how)) \/ Serve(r) \/ LocalEnd(r)
      PROVE  [InChain!RateNext]_InChain!rateVars
  BY <1>3, UnseenInward, UnseenOutward, LimiterSeen DEF Serve
<1>4. QED
  BY <1>1, <1>2, <1>3 DEF AccessNext

-----------------------------------------------------------------------------
(* What follows from the invariant.                                        *)

LEMMA ChainInvType == ChainInv => AccessTypeOK
<1> SUFFICES ASSUME ChainInv PROVE AccessTypeOK
  OBVIOUS
<1>1. ChainTypes /\ \A r \in Requests : Told(r)
  BY DEF ChainInv, Kept
<1>2. 0..Len(Chain) + 1 = 0..5
  BY Layers
<1>3. QED
  BY <1>1, <1>2 DEF ChainTypes, Told, AccessTypeOK, Outside, Limiting

LEMMA AppendToOne ==
    ASSUME NEW a, NEW e
    PROVE  LET s == Append(<<a>>, e) IN Len(s) = 2 /\ s[1] = a /\ s[2] = e
OBVIOUS

LEMMA ChainInvLogged == ChainInv => LoggedAsSent
<1> SUFFICES ASSUME ChainInv, NEW r \in Requests,
                    pc[r] \in {"sent", "over"}, out[r] # "none", cause[r] # "undecodable"
             PROVE  IF cause[r] = "panic"
                    THEN /\ Len(log[r]) = 2
                         /\ log[r][1].msg = "panic recovered"
                         /\ log[r][2] = Rpc(r)
                         /\ Rpc(r).level = "Error"
                    ELSE log[r] = <<Rpc(r)>>
  BY DEF LoggedAsSent, Rpc
<1>1. ChainTypes /\ Away(r)
  BY DEF ChainInv, Kept
<1>2. log[r] = Append(Reported(r), Rpc(r))
  BY <1>1 DEF Away
<1>3. CASE cause[r] = "panic"
  <2>1. Len(log[r]) = 2 /\ log[r][1] = PanicRecord /\ log[r][2] = Rpc(r)
    <3>1. log[r] = Append(<<PanicRecord>>, Rpc(r))
      BY <1>2, <1>3 DEF Reported
    <3>2. QED
      BY <3>1, AppendToOne
  <2>2. out[r] = "Internal" /\ out[r] \in Codes
    BY <1>1, <1>3 DEF Away, Codes
  <2>3. Rpc(r).level = "Error"
    BY <2>2, LevelOf DEF Rpc
  <2>4. PanicRecord.msg = "panic recovered"
    BY DEF PanicRecord
  <2>5. QED
    BY <1>3, <2>1, <2>3, <2>4
<1>4. CASE cause[r] # "panic"
  BY <1>2, <1>4 DEF Reported
<1>5. QED
  BY <1>3, <1>4

LEMMA ChainInvHonest == ChainInv => HonestStatus
<1> SUFFICES ASSUME ChainInv, NEW r \in Requests, call[r] = "http", answer[r] # NoAnswer
             PROVE  /\ (answer[r].status = 200 /\ out[r] # "none") => cause[r] = "ok"
                    /\ answer[r].status \in 400..499 => cause[r] # "ok"
  BY DEF HonestStatus
<1>1. Outbound(r) /\ Away(r) /\ Told(r)
  BY DEF ChainInv, Kept
<1>2. CASE answer[r].status \in {500, 503}
  BY <1>2
<1>3. CASE pc[r] = "over"
  <2>1. out[r] = "OK" <=> cause[r] = "ok"
    BY <1>1, <1>3 DEF Outbound
  <2>2. CASE out[r] = "none"
    BY <2>1, <2>2
  <2>3. CASE out[r] # "none"
    <3>1. out[r] \in Codes /\ answer[r].status = grpcCodeToHTTP(out[r])
      BY <1>1, <1>3, <2>3 DEF Away, Told
    <3>2. answer[r].status = 200 <=> out[r] = "OK"
      BY <3>1, StatusOf
    <3>3. QED
      BY <2>1, <3>2
  <2>4. QED
    BY <2>2, <2>3
<1>4. QED
  BY <1>1, <1>2, <1>3 DEF Told

\* Who has run has been passed on by the limiter; nobody has gone on another
\* one's token there.
LEMMA ChainInvPaid == ChainInv /\ InChain!OneTokenEach => RunsArePaid
<1> SUFFICES ASSUME ChainInv, InChain!OneTokenEach PROVE RunsArePaid
  OBVIOUS
<1> DEFINE ran == {r \in Requests : cause[r] \notin {"none", "undecodable"} /\ Method(r) # "Check"}
<1>1. ASSUME NEW r \in ran
      PROVE  user[r] \in Users /\ phase[r] = "handler"
  <2>1. r \in Requests /\ Ran(r) /\ Method(r) # "Check"
    BY <1>1 DEF Ran
  <2>2. Inbound(r)
    BY <2>1 DEF ChainInv, Kept
  <2>3. pc[r] \notin Limiting
    BY <2>1, <2>2 DEF Inbound, Ran
  <2>4. phase[r] = "handler"
    BY <2>1, <2>3, PhaseOf
  <2>5. user[r] \in Users
    BY <2>1, <2>2 DEF Inbound
  <2>6. QED
    BY <2>4, <2>5
<1>2. ASSUME NEW u \in Users
      PROVE  Cardinality({r \in ran : user[r] = u}) <= Len(admitted[u])
  <2>1. {r \in ran : user[r] = u} \subseteq InChain!PassedOn(u)
    BY <1>1 DEF InChain!PassedOn, asker
  <2>2. /\ IsFiniteSet(InChain!PassedOn(u))
        /\ Cardinality(InChain!PassedOn(u)) <= Len(admitted[u])
    BY DEF InChain!OneTokenEach, InChain!IsFiniteSet, IsFiniteSet, InChain!Cardinality, Cardinality
  <2>3. /\ IsFiniteSet({r \in ran : user[r] = u})
        /\ Cardinality({r \in ran : user[r] = u}) <= Cardinality(InChain!PassedOn(u))
    BY <2>1, <2>2, FS_Subset
  <2>4. QED
    BY <2>2, <2>3, FS_CardinalityType
<1>3. QED
  BY <1>1, <1>2 DEF RunsArePaid

-----------------------------------------------------------------------------
LEMMA ChainHolds == AccessSpec => []ChainInv
BY ChainInvInit, ChainInvStep, PTL DEF AccessSpec

\* The variables keep their types; no panic gets past the chain, so that the
\* process lives, whatever the handlers do.
THEOREM AccessTypeCorrect == AccessSpec => []AccessTypeOK
BY ChainHolds, ChainInvType, PTL

\* A call that has left the chain has left one rpc record, with the code that
\* is sent, after the panic's record if its handler panicked.
THEOREM LoggedAsSentCorrect == AccessSpec => []LoggedAsSent
BY ChainHolds, ChainInvLogged, PTL

\* A browser that is told 200 has been stored, and one that is told 4xx has not
\* been.
THEOREM HonestStatusCorrect == AccessSpec => []HonestStatus
BY ChainHolds, ChainInvHonest, PTL

\* The chain runs the rate limiter as it is specified on its own: requests
\* arrive there when the ratelimit layer is reached, with the user that auth
\* has put into their context, and all that happens to them elsewhere is
\* stuttering to it.
THEOREM LimiterInChain == AccessSpec => InChain!RateSpec
<1>1. AccessInit => InChain!RateInit
  <2> SUFFICES ASSUME AccessInit PROVE InChain!RateInit
    OBVIOUS
  <2>1. ASSUME NEW r \in Requests
        PROVE  phase[r] = "idle"
    BY PhaseOf DEF AccessInit, RateInit, Ran, Limiting
  <2>2. phase = [r \in Requests |-> "idle"]
    BY <2>1 DEF phase
  <2>3. asker = [r \in Requests |-> NoUser]
    BY <2>1 DEF asker
  <2>4. QED
    BY <2>2, <2>3 DEF AccessInit, RateInit, LimitInit, InChain!RateInit, InChain!LimitInit
<1>2. ChainInv /\ [AccessNext]_allVars => [InChain!RateNext]_InChain!rateVars
  BY ChainStepSeen
<1>3. QED
  BY <1>1, <1>2, ChainHolds, PTL DEF AccessSpec, InChain!RateSpec

\* No handler but the health check's runs without a user, nor on a token that
\* was taken from another one's bucket or for another request.
THEOREM RunsArePaidCorrect == AccessSpec => []RunsArePaid
<1>1. InChain!RateSpec => []InChain!OneTokenEach
  BY LimiterAssumption, InChain!OneTokenEachCorrect
<1>2. QED
  BY <1>1, LimiterInChain, ChainHolds, ChainInvPaid, PTL

\* So does what the limiter promises on its own hold of it in the chain, where
\* requests are also refused, cancelled or panic before and behind it.
THEOREM BudgetInChain == AccessSpec => []WindowBudget /\ InChain!RefusalDeserved
<1>1. InChain!RateSpec => []InChain!WindowBudget
  BY LimiterAssumption, InChain!WindowBudgetCorrect
<1>2. InChain!RateSpec => InChain!RefusalDeserved
  BY LimiterAssumption, InChain!RefusalDeservedCorrect
<1>3. InChain!WindowBudget => WindowBudget
  BY DEF InChain!WindowBudget, WindowBudget, InChain!Worth, Worth, InChain!Full, Full
<1>4. QED
  BY <1>1, <1>2, <1>3, LimiterInChain, PTL
=============================================================================
