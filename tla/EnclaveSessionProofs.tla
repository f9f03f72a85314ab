-------------------------- MODULE EnclaveSessionProofs -------------------------
(***************************************************************************)
(* What a client's session can count on: it fails only for a cause, and    *)
(* calls it repeats leave nothing behind in the server.                    *)
(***************************************************************************)
EXTENDS EnclaveClientProofs, FiniteSetTheorems

Undisturbed == signals = 0 /\ faults = 0

(* An undisturbed server goes from start to service and stays there.        *)
Healthy ==
  /\ pc \notin Leaving \cup Ended \cup {"dangling"}
  /\ pc \notin Fresh => life = "alive"
  /\ pc \in Serving \cup {"check", "set_running"} => socket_fd_ = "listening"
  /\ pc \in Serving => running_

(* Neither side has let go of a connection that is not answered.            *)
NobodyLeaves ==
  \A c \in Conns :
    conn[c].state = "done" \/ conn[c].shut => conn[c].inbox # <<>>

(* The server waits for the client's whole request.                         *)
Awaited ==
  \A c \in MyConns :
    conn[c].sent # "all" =>
      /\ conn[c].inbox = <<>>
      /\ cur = c => pc \in {"recv_header", "recv_payload"}

HealthInv == Undisturbed => Healthy /\ NobodyLeaves /\ Awaited

(* A connection carries one call.                                           *)
CallInv ==
  /\ cpc \in {"send", "recv"} => fd \notin succeeded
  /\ cpc = "run" /\ fd \in succeeded =>
       ~(step - 1 \in DOMAIN Program /\ Program[step - 1] = Connection)

CauseInv == HealthInv /\ CallInv /\ FailsForCause

-----------------------------------------------------------------------------
(* An undisturbed server.                                                   *)

(* Disturbances are counted and not forgotten.                              *)
LEMMA DisturbedStays ==
  ASSUME ProcessType, Step
  PROVE  signals' >= signals /\ faults' >= faults
<1>1. signals \in Nat /\ faults \in Nat
  BY NatFacts DEF ProcessType
<1>2. CASE UNCHANGED <<signals, faults>>
  BY <1>1, <1>2
<1>3. CASE World \/ UNCHANGED vars \/ Restart
  BY <1>2, <1>3 DEF World, Connect, Touch, vars, envVars, Restart
<1>4. CASE Fault \/ NewSignal
  BY <1>1, <1>4 DEF Fault, NewSignal
<1>5. CASE Signal
  BY <1>4, <1>5 DEF Signal, SignalDefault, SignalIgnored, SignalShutdown,
     SignalDestroyed
<1>6. CASE UNCHANGED envVars
  BY <1>2, <1>6 DEF envVars
<1>7. CASE Starts
  BY <1>4, <1>6, <1>7 DEF Starts, Boot, Publish, CreateEnclave, CreateSocket,
     Unlink, Bind, Listen, BindOrListenFail, CheckInitialized, SetRunning, Move
<1>8. CASE Serves \/ Drain
  BY <1>4, <1>6, <1>8 DEF Serves, Drain, Loop, Accept, AcceptFail,
     FailedAcceptTo, RecvHeader, RecvPayload, Dispatch, Stage, CallEnclave,
     CallNull, InEnclave, LeaveEnclave, UseAfterFree, Send, SendBlocks,
     SendPipe, SendShort, Sent, CloseClient, Move
<1>9. CASE Leaves
  BY <1>6, <1>9 DEF Leaves, Clear, InitFailed, Destruct, ProcessExit, Move
<1> QED
  BY <1>3, <1>5, <1>7, <1>8, <1>9 DEF Step, Process, MainStep

LEMMA UndisturbedBefore ==
  ASSUME ProcessType, Step, Undisturbed'
  PROVE  Undisturbed /\ ~Fault /\ ~NewSignal
<1>1. signals \in Nat /\ faults \in Nat
  BY NatFacts DEF ProcessType
<1> QED
  BY <1>1, DisturbedStays DEF Undisturbed, Fault, NewSignal

(* Whoever is being served has not closed.                                  *)
LEMMA NotShut ==
  ASSUME ConnInv, NobodyLeaves, pc \in Handling \ {"close"}
  PROVE  cur \in Conns /\ conn[cur].inbox = <<>> /\ ~conn[cur].shut
BY DEF ConnInv, NobodyLeaves

Startup ==
  \/ Boot \/ Publish
  \/ CreateEnclave /\ life' = "alive" /\ pc' = "socket"
  \/ CreateSocket /\ socket_fd_' = "open" /\ pc' = "unlink"
  \/ Unlink \/ Bind \/ Listen \/ CheckInitialized \/ SetRunning

Service ==
  \/ Loop \/ RecvHeader \/ RecvPayload \/ Dispatch \/ CallEnclave
  \/ InEnclave \/ LeaveEnclave \/ SendBlocks

(* What is left for a healthy server to do when nothing disturbs it.        *)
LEMMA HealthyCases ==
  ASSUME Inductive, Healthy, NobodyLeaves, Process, Undisturbed'
  PROVE  Startup \/ Service \/ Accept \/ SendStep \/ CloseClient
<1>a. ProcessType /\ ConnInv /\ StartInv
  BY DEF Inductive
<1>b. Undisturbed /\ ~Fault /\ ~NewSignal
  BY <1>a, UndisturbedBefore DEF Step
<1>1. ~Signal
  BY <1>b DEF Signal, SignalDefault, SignalIgnored, SignalShutdown,
     SignalDestroyed
<1>2. ~Restart /\ ~Leaves /\ ~UseAfterFree
  BY DEF Healthy, Restart, Leaves, Clear, InitFailed, Destruct, ProcessExit,
     UseAfterFree, Move, Leaving, Ended
<1>3. ~CallNull
  BY DEF Healthy, CallNull, Fresh
<1>4. ~AcceptFail
  BY <1>b DEF Healthy, AcceptFail, FailedAcceptTo, Serving
<1>5. ~SendPipe
  BY <1>a, NotShut DEF SendPipe, Handling
<1>6. ~BindOrListenFail
  BY <1>a, <1>b DEF BindOrListenFail, StartInv, CanBind, Undisturbed
<1>7. Starts => Startup
  <2>1. CreateEnclave => life' = "alive" /\ pc' = "socket"
    BY <1>b DEF CreateEnclave, Goto
  <2>2. CreateSocket => socket_fd_' = "open" /\ pc' = "unlink"
    BY <1>b DEF CreateSocket, Goto
  <2> QED
    BY <1>6, <2>1, <2>2 DEF Starts, Startup
<1>8. Serves \/ Drain => Service \/ Accept \/ SendStep \/ CloseClient
  BY <1>2, <1>3, <1>4, <1>5 DEF Serves, Service, SendStep
<1> QED
  BY <1>1, <1>2, <1>7, <1>8 DEF Process, MainStep

LEMMA HealthyStart ==
  ASSUME Healthy, Startup PROVE Healthy'
<1> USE DEF Healthy, Fresh, Serving, Leaving, Ended, Goto
<1>1. CASE Boot \/ CheckInitialized
  BY <1>1 DEF Boot, CheckInitialized, NotInitialized, Move, flagVars,
     outsideVars, enclaveVars
<1>2. CASE Publish \/ SetRunning
  BY <1>2 DEF Publish, SetRunning, outsideVars, enclaveVars
<1>3. CASE CreateEnclave /\ life' = "alive" /\ pc' = "socket"
  BY <1>3
<1>4. CASE CreateSocket /\ socket_fd_' = "open" /\ pc' = "unlink"
  BY <1>4 DEF CreateSocket, outsideVars, enclaveVars
<1>5. CASE Unlink \/ Bind \/ Listen
  BY <1>5 DEF Unlink, Bind, Listen, outsideVars, enclaveVars
<1> QED
  BY <1>1, <1>2, <1>3, <1>4, <1>5 DEF Startup

(* A stage of HandleClient, and where it leads.                             *)
LEMMA StageMoves ==
  ASSUME RecvHeader \/ RecvPayload \/ Dispatch
  PROVE  /\ pc \in {"recv_header", "recv_payload", "dispatch"}
         /\ pc' \in {"recv_payload", "dispatch", "call", "send"}
         /\ UNCHANGED <<running_, socket_fd_, g_server, cur, life, kv, mods,
                        phase, call, ret, path, queue, conn,
                        signals, faults, restarts>>
<1>1. ASSUME NEW reply, NEW next, Stage(reply, next)
      PROVE  /\ pc' = IF reply = NoReply THEN next ELSE "send"
             /\ UNCHANGED <<running_, socket_fd_, g_server, cur, life, kv,
                            mods, phase, call, ret, path, queue, conn,
                            signals, faults, restarts>>
  BY <1>1 DEF Stage, Goto, flagVars, outsideVars, enclaveVars, kernelVars,
     envVars
<1>2. ShortHeader # NoReply
  BY DEF ShortHeader, Failure, NoReply
<1> QED
  BY <1>1, <1>2 DEF RecvHeader, RecvPayload, Dispatch

LEMMA HealthyService ==
  ASSUME Inductive, Healthy,
         Service \/ Accept \/ SendStep \/ CloseClient,
         \A c \in Conns : conn[c].req.cmd # "shutdown"
  PROVE  Healthy'
<1>a. ConnInv /\ ResponseInv
  BY DEF Inductive
<1> USE DEF Healthy, Fresh, Serving, Leaving, Ended
<1>1. CASE Loop \/ SendBlocks
  BY <1>1 DEF Loop, SendBlocks, Move, Goto, flagVars, outsideVars, enclaveVars
<1>2. CASE RecvHeader \/ RecvPayload \/ Dispatch
  BY <1>2, StageMoves
<1>3. CASE CallEnclave \/ InEnclave \/ LeaveEnclave
  <2>1. life' = life
    BY <1>3 DEF CallEnclave, InEnclave, LeaveEnclave, Enc!Begin, Enc!End,
       Enc!Do, Enc!DoRefuse, Enc!DoCryptoFail, Enc!DoStore, Enc!DoRetrieve,
       Enc!DoLoad, Enc!DoInvoke, Enc!DoAttest, Enc!Finish
  <2>2. pc \in {"call", "in_enclave"} /\ pc' \in {"in_enclave", "send"}
        /\ UNCHANGED <<running_, socket_fd_>>
    BY <1>3 DEF CallEnclave, InEnclave, LeaveEnclave, Goto, flagVars
  <2> QED
    BY <2>1, <2>2
<1>4. CASE Accept \/ CloseClient
  BY <1>4 DEF Accept, CloseClient, Goto, flagVars, enclaveVars
<1>5. CASE SendStep
  <2>1. /\ pc \in {"send", "sending"} /\ pc' = "close"
        /\ UNCHANGED <<socket_fd_, life>> /\ AfterSend
    BY <1>a, <1>5, SendFact
  <2>2. cur \in Conns
    BY <1>a, <2>1 DEF ConnInv, Handling
  <2>3. running_'
    BY <2>1, <2>2 DEF AfterSend, Request
  <2> QED
    BY <2>1, <2>3
<1> QED
  BY <1>1, <1>2, <1>3, <1>4, <1>5 DEF Service

(* The connections of a healthy server.                                     *)
LEMMA NobodyLeavesProcess ==
  ASSUME Inductive, NobodyLeaves,
         Startup \/ Service \/ Accept \/ SendStep \/ CloseClient
  PROVE  NobodyLeaves'
<1>a. ConnInv /\ QueueInv /\ ResponseInv /\ ProcessType
  BY DEF Inductive
<1>1. CASE Startup \/ Service
  <2>1. QuietStep
    BY <1>1 DEF Startup, Service, QuietStep, Starts
  <2> QED
    BY <2>1, QuietSteps DEF Quiet, NobodyLeaves
<1>2. CASE Accept \/ SendStep \/ CloseClient
  <2>1. Process
    BY <1>2 DEF Process, MainStep, Serves, SendStep
  <2>2. \A c \in Conns : Handled(c)
    BY <1>a, <2>1, ProcessEffect
  <2>3. \A c \in Conns : conn'[c].state = "done" =>
          conn[c].state = "done" \/ conn[c].inbox # <<>>
    <3>1. conn \in [Conns -> ConnRecord]
      BY <1>a DEF ConnInv
    <3>2. CASE Accept
      <4>1. Head(queue) \in Conns
        BY <1>a, <3>2 DEF Accept, QueueInv
      <4> QED
        BY <3>1, <3>2, <4>1 DEF Accept, ConnRecord
    <3>3. CASE SendStep
      <4>1. PICK r \in Message : conn' = Deliver(conn, r)
        BY <1>a, <3>3, SendFact
      <4>2. cur \in Conns /\ conn[cur].inbox = <<>>
        BY <1>a, <3>3, SendFact DEF ConnInv, Handling
      <4> QED
        BY <1>a, <4>1, <4>2, DeliverFact
    <3>4. CASE CloseClient
      <4>1. cur \in Conns /\ conn[cur].inbox # <<>>
        BY <1>a, <3>4 DEF CloseClient, ConnInv, Handling
      <4> QED
        BY <3>1, <3>4, <4>1 DEF CloseClient, ConnRecord
    <3> QED
      BY <1>2, <3>2, <3>3, <3>4
  <2>4. \A r \in Message : <<r>> # <<>>
    BY InboxFacts
  <2> QED
    BY <2>2, <2>3, <2>4 DEF NobodyLeaves, Handled
<1> QED
  BY <1>1, <1>2

LEMMA AwaitedProcess ==
  ASSUME ClientInductive, NobodyLeaves, Awaited,
         Startup \/ Service \/ Accept \/ SendStep \/ CloseClient
  PROVE  Awaited'
<1> SUFFICES ASSUME NEW c \in MyConns, conn'[c].sent # "all"
             PROVE  /\ conn'[c].inbox = <<>>
                    /\ cur' = c => pc' \in {"recv_header", "recv_payload"}
  BY DEF Awaited
<1>a. ConnInv /\ QueueInv /\ ResponseInv /\ ProcessType /\ ControlInv
  BY DEF ClientInductive, Inductive
<1>b. c \in Conns
  BY MyConnsFact
<1>1. Process
  BY DEF Process, MainStep, Starts, Serves, SendStep, Startup, Service
<1>2. Handled(c)
  BY <1>a, <1>b, <1>1, ProcessEffect
<1>3. /\ conn[c].sent # "all" /\ conn[c].inbox = <<>>
      /\ cur = c => pc \in {"recv_header", "recv_payload"}
  BY <1>2 DEF Handled, Awaited
<1>4. conn'[c].inbox = <<>>
  BY <1>2, <1>3 DEF Handled
<1>5. ASSUME cur' = c PROVE pc' \in {"recv_header", "recv_payload"}
  <2>1. CASE Accept
    BY <2>1 DEF Accept, Goto
  <2>2. CASE RecvHeader /\ cur = c
    <3>1. ~conn[cur].shut
      BY <1>a, <2>2, NotShut DEF RecvHeader, Handling
    <3>2. conn[c].sent \in {"header", "nothing"}
          /\ (conn[c].sent = "header" => HasPayload(conn[c].req))
          /\ conn[c].req \in MyRequests \cup {NoRequest}
      BY <1>a, <1>3 DEF ControlInv
    <3>3. Request = conn[c].req /\ ArrivedFrom(cur) = conn[c].sent
      BY <2>2 DEF Request, ArrivedFrom
    <3>4. Stage(HeaderReply(Request),
                IF HasPayload(Request) THEN "recv_payload" ELSE "dispatch")
          /\ HasPayload(Request)
      BY <2>2, <3>1, <3>2, <3>3 DEF RecvHeader
    <3>5. HeaderReply(Request) = NoReply
      <4>1. Request.fault = "none"
        BY <3>2, <3>3 DEF MyRequests, NoRequest
      <4> QED
        BY <4>1 DEF HeaderReply
    <3> QED
      BY <3>4, <3>5 DEF Stage, Goto
  <2>3. CASE RecvPayload /\ cur = c
    <3>1. ~conn[cur].shut
      BY <1>a, <2>3, NotShut DEF RecvPayload, Handling
    <3> QED
      BY <1>3, <2>3, <3>1 DEF RecvPayload, ArrivedFrom
  <2>4. CASE cur = c /\ ~RecvHeader /\ ~RecvPayload /\ ~Accept
    <3>1. pc \in {"recv_header", "recv_payload"}
      BY <1>3, <2>4
    <3>2. ~SendStep
      BY <1>a, <3>1, SendFact
    <3> QED
      BY <2>4, <3>1, <3>2 DEF Startup, Service, Boot, Publish, CreateEnclave,
         CreateSocket, Unlink, Bind, Listen, CheckInitialized, SetRunning,
         Loop, Dispatch, CallEnclave, InEnclave, LeaveEnclave, SendBlocks,
         CloseClient, Move
  <2>5. CASE cur # c /\ ~Accept
    <3>1. CASE SendStep
      BY <1>a, <1>5, <2>5, <3>1, SendFact
    <3>2. CASE CloseClient
      BY <1>b, <1>5, <3>2, ServerAssumption DEF CloseClient
    <3>3. CASE Startup \/ Service
      <4>1. QuietStep
        BY <3>3 DEF Startup, Service, QuietStep, Starts
      <4> QED
        BY <1>5, <2>5, <4>1, QuietSteps DEF Quiet
    <3> QED
      BY <2>5, <3>1, <3>2, <3>3
  <2> QED
    BY <2>1, <2>2, <2>3, <2>4, <2>5
<1> QED
  BY <1>4, <1>5

(* Nobody asks the server to stop.                                          *)
LEMMA NoShutdown ==
  ASSUME KindOthers, ClientInductive
  PROVE  \A c \in Conns : conn[c].req.cmd # "shutdown"
<1>1. \A c \in MyConns : conn[c].req \in MyRequests \cup {NoRequest}
  BY DEF ClientInductive, ControlInv
<1>2. \A c \in Conns \ MyConns : conn[c].req \in Requests \cup {NoRequest}
  BY DEF ClientInductive, OwnRequests
<1>3. NoRequest.cmd = "none" /\ \A r \in MyRequests : r.cmd = "call"
  BY DEF NoRequest, MyRequests
<1> QED
  BY <1>1, <1>2, <1>3 DEF KindOthers

LEMMA OtherHealth ==
  ASSUME KindOthers, ClientInductive, HealthInv, OtherStep
  PROVE  HealthInv'
<1> SUFFICES ASSUME Undisturbed' PROVE Healthy' /\ NobodyLeaves' /\ Awaited'
  BY DEF HealthInv
<1>a. ConnInv /\ ProcessType /\ Inductive
  BY DEF ClientInductive, Inductive
<1>b. Step /\ Undisturbed /\ Healthy /\ NobodyLeaves /\ Awaited
  BY <1>a, OtherStepFact, UndisturbedBefore DEF HealthInv
<1>1. CASE Process
  <2>1. Startup \/ Service \/ Accept \/ SendStep \/ CloseClient
    BY <1>1, <1>a, <1>b, HealthyCases
  <2>2. Healthy'
    BY <2>1, <1>a, <1>b, HealthyStart, HealthyService, NoShutdown
  <2> QED
    BY <2>1, <2>2, <1>a, <1>b, NobodyLeavesProcess, AwaitedProcess
<1>2. ASSUME UNCHANGED processVars,
             \A c \in MyConns : conn'[c] = conn[c],
             NobodyLeaves'
      PROVE  Healthy' /\ NobodyLeaves' /\ Awaited'
  BY <1>2, <1>b DEF Healthy, Awaited, processVars, flagVars, clientVars,
     enclaveVars
<1>3. ASSUME NEW c \in Conns \ MyConns, NEW r \in Requests, Connect(c, r)
      PROVE  Healthy' /\ NobodyLeaves' /\ Awaited'
  <2>1. r \in AnyRequest
    BY ServerAssumption DEF AnyRequest
  <2>2. /\ \A d \in Conns \ {c} : conn'[d] = conn[d]
        /\ conn'[c].state = "queued" /\ conn'[c].inbox = conn[c].inbox
        /\ UNCHANGED processVars
    BY <1>3, <1>a, <2>1, ConnectFact
  <2>3. conn'[c].shut <=> conn[c].shut
    <3>1. conn \in [Conns -> ConnRecord]
      BY <1>a DEF ConnInv
    <3> QED
      BY <1>3, <3>1 DEF Connect, ConnRecord
  <2> QED
    BY <1>2, <1>b, <2>2, <2>3, MyConnsFact DEF NobodyLeaves
<1>4. ASSUME NEW c \in Conns \ MyConns, SendMore(c)
      PROVE  Healthy' /\ NobodyLeaves' /\ Awaited'
  <2>1. PICK x : conn' = [conn EXCEPT ![c].sent = x]
    BY <1>4 DEF SendMore
  <2>2. conn \in [Conns -> ConnRecord]
    BY <1>a DEF ConnInv
  <2>3. /\ \A d \in Conns \ {c} : conn'[d] = conn[d]
        /\ conn'[c].state = conn[c].state /\ conn'[c].inbox = conn[c].inbox
        /\ conn'[c].shut <=> conn[c].shut
    BY <2>1, <2>2 DEF ConnRecord
  <2> QED
    BY <1>2, <1>4, <1>b, <2>3, MyConnsFact DEF NobodyLeaves, SendMore
<1>5. ASSUME NEW c \in Conns, HangUp(c) PROVE FALSE
  BY <1>5 DEF HangUp, KindOthers
<1>6. CASE UNCHANGED clientSpecVars
  BY <1>2, <1>6, <1>b DEF clientSpecVars, vars, NobodyLeaves
<1> QED
  BY <1>1, <1>3, <1>4, <1>5, <1>6 DEF OtherStep, ServerStep, OthersStep,
     ClientDrain, Process

-----------------------------------------------------------------------------
(* The client of an undisturbed server.                                     *)

LEMMA MyStepProcess ==
  ASSUME MyStep PROVE UNCHANGED <<processVars, envVars>>
BY DEF MyStep, ClientConnect, Connect, ConnectFail, Disconnect, StartCall,
   ClientSend, ClientPipe, ClientSendShort, ReturnTrue, ResponseBad,
   ClientExit, ReturnFalse, OnlyConn, vars

Closes == ConnectFail \/ ResponseBad \/ Disconnect \/ ClientExit

(* With one call to a connection, the client closes it after the call.      *)
LEMMA ClosesAnswered ==
  ASSUME OneCallEach, ClientInductive, CallInv, NobodyLeaves, Closes,
         fd # NoConn
  PROVE  conn[fd].inbox # <<>>
<1>a. ClientTypeOK /\ ControlInv /\ fd \in Conns
  BY MyConnsFact DEF ClientInductive, ClientTypeOK
<1>1. CASE fd \in succeeded
  BY <1>1, SucceededFact
<1>2. CASE fd \notin succeeded /\ ResponseBad
  BY <1>2, <1>a DEF ResponseBad, HasResponse, Reused, EndOfStream,
     NobodyLeaves
<1>3. CASE fd \notin succeeded /\ ~ResponseBad
  <2>1. step - 1 \in DOMAIN Program /\ Program[step - 1] = Connection
    BY <1>3, <1>a DEF ControlInv
  <2>2. step \in Nat /\ step - 1 + 1 = step
    BY <1>a, ProgramFact DEF ClientTypeOK
  <2>3. step \in DOMAIN Program /\ Program[step] \in Calls
    BY <2>1, <2>2 DEF OneCallEach
  <2>4. ~ClientExit
    BY <2>3, ProgramFact DEF ClientExit
  <2>5. Program[step].op \in {"connect", "disconnect"}
    BY <1>3, <2>4 DEF Closes, ConnectFail, Disconnect, At
  <2> QED
    BY <2>3, <2>5, OpFacts DEF CallOps
<1> QED
  BY <1>1, <1>2, <1>3

LEMMA MyHealth ==
  ASSUME OneCallEach, ClientInductive, HealthInv, CallInv, MyStep
  PROVE  HealthInv'
<1> SUFFICES ASSUME Undisturbed' PROVE Healthy' /\ NobodyLeaves' /\ Awaited'
  BY DEF HealthInv
<1>a. ConnInv /\ ClientTypeOK /\ ControlInv
  BY DEF ClientInductive, Inductive
<1>b. UNCHANGED <<pc, running_, socket_fd_, life, cur, signals, faults>>
  BY MyStepProcess DEF processVars, flagVars, clientVars, enclaveVars, envVars
<1>c. Healthy /\ NobodyLeaves /\ Awaited
  BY <1>b DEF HealthInv, Undisturbed
<1>1. Healthy'
  BY <1>b, <1>c DEF Healthy
<1>2. CASE conn' = conn
  BY <1>1, <1>2, <1>b, <1>c DEF NobodyLeaves, Awaited
<1>3. CASE Closes
  <2>1. conn' = Closed /\ OnlyConn
    BY <1>3, FailedAt DEF Closes, ReturnFalse, Disconnect, ClientExit
  <2>2. /\ \A c \in Conns : SameButShut(c)
        /\ \A c \in Conns \ {fd} : conn'[c] = conn[c]
    BY <1>a, <2>1, CloseFact
  <2>3. Awaited'
    BY <1>b, <1>c, <2>2, MyConnsFact DEF Awaited, SameButShut
  <2>4. ASSUME NEW c \in Conns, conn'[c].state = "done" \/ conn'[c].shut
        PROVE  conn'[c].inbox # <<>>
    <3>1. CASE c # fd
      BY <1>c, <2>2, <2>4, <3>1 DEF NobodyLeaves
    <3>2. CASE c = fd
      <4>1. fd # NoConn
        BY <3>2, ServerAssumption
      <4> QED
        BY <1>3, <1>c, <2>2, <3>2, <4>1, ClosesAnswered DEF SameButShut
    <3> QED
      BY <3>1, <3>2
  <2> QED
    BY <1>1, <2>3, <2>4 DEF NobodyLeaves
<1>4. CASE ClientConnect
  <2>1. /\ \A c \in Conns \ {fd'} : conn'[c] = conn[c]
        /\ fd' \in Conns /\ conn[fd'].state = "off" /\ conn[fd'].inbox = <<>>
        /\ conn'[fd'].state = "queued" /\ conn'[fd'].inbox = <<>>
    BY <1>4, ClientConnectFact
  <2>2. conn'[fd'].shut <=> conn[fd'].shut
    <3>1. conn \in [Conns -> ConnRecord]
      BY <1>a DEF ConnInv
    <3>2. Connect(fd', NoRequest)
      BY <1>4 DEF ClientConnect
    <3> QED
      BY <2>1, <3>1, <3>2 DEF Connect, ConnRecord
  <2>3. cur # fd'
    BY <1>a, <2>1, ServerAssumption DEF ConnInv
  <2>4. NobodyLeaves'
    BY <1>c, <2>1, <2>2 DEF NobodyLeaves
  <2>5. Awaited'
    BY <1>b, <1>c, <2>1, <2>3, MyConnsFact DEF Awaited
  <2> QED
    BY <1>1, <2>4, <2>5
<1>5. CASE (StartCall \/ ClientSend) /\ ~Reused
  <2>1. /\ \A c \in Conns \ {fd} : conn'[c] = conn[c]
        /\ fd \in Conns
        /\ conn'[fd].state = conn[fd].state
        /\ conn'[fd].inbox = conn[fd].inbox
        /\ conn[fd].sent # "all"
        /\ conn'[fd].shut <=> conn[fd].shut
    BY <1>5, StartCallFact, ClientSendFact
  <2>2. NobodyLeaves'
    BY <1>c, <2>1 DEF NobodyLeaves
  <2>3. Awaited'
    BY <1>b, <1>c, <2>1, MyConnsFact DEF Awaited
  <2> QED
    BY <1>1, <2>2, <2>3
<1>6. CASE (StartCall \/ ClientSend) /\ Reused
  BY <1>2, <1>6, StartCallFact, ClientSendFact
<1>7. CASE ClientPipe \/ ClientSendShort \/ ReturnTrue
  BY <1>2, <1>7 DEF ClientPipe, ClientSendShort, ReturnTrue, vars
<1> QED
  BY <1>3, <1>4, <1>5, <1>6, <1>7 DEF MyStep, Closes

(* One call after the other, each on a connection of its own.               *)
LEMMA CallInvStep ==
  ASSUME OneCallEach, ClientInductive, CallInv, [ClientNext]_clientSpecVars
  PROVE  CallInv'
<1>a. ClientTypeOK /\ ControlInv
  BY DEF ClientInductive
<1>b. NoConn \notin succeeded
  BY <1>a, MyConnsFact DEF ClientTypeOK
<1>1. CASE OtherStep
  BY <1>1, OtherStepFact DEF CallInv, myVars
<1>2. CASE Closes
  BY <1>2, <1>b DEF Closes, ConnectFail, ResponseBad, ReturnFalse, Disconnect,
     ClientExit, CallInv
<1>3. CASE ClientConnect
  <2>1. fd' \notin succeeded' /\ cpc' = "run"
    BY <1>3, ClientConnectFact DEF ClientConnect, At
  <2> QED
    BY <2>1 DEF CallInv
<1>4. CASE StartCall
  <2>1. InCalls(step) /\ cpc = "run" /\ cpc' = "send"
        /\ UNCHANGED <<fd, succeeded>>
    BY <1>4, StartCallFact
  <2>2. step - 1 \in DOMAIN Program /\ Program[step - 1] = Connection
    BY <2>1 DEF InCalls, OneCallEach
  <2> QED
    BY <2>1, <2>2 DEF CallInv
<1>5. CASE ClientSend
  BY <1>5, ClientSendFact DEF CallInv
<1>6. CASE ClientPipe \/ ClientSendShort
  BY <1>6, <1>b DEF ClientPipe, ClientSendShort, CallInv
<1>7. CASE ReturnTrue
  <2>1. InCalls(step) /\ cpc' = "run" /\ step' = step + 1
    BY <1>7, ReturnTrueFact
  <2>2. step' - 1 = step
    BY <1>a, <2>1, ProgramFact DEF ClientTypeOK
  <2> QED
    BY <2>1, <2>2, OpFacts DEF CallInv, InCalls
<1> QED
  BY <1>1, <1>2, <1>3, <1>4, <1>5, <1>6, <1>7, ClientNextCases
     DEF MyStep, Closes

(* The client fails.                                                        *)
LEMMA CauseAtFailure ==
  ASSUME ClientInductive, HealthInv, CallInv, MyStep,
         cpc' \in {"exit1", "killed"}
  PROVE  FailsForCause'
<1>a. ConnInv /\ ClientTypeOK /\ ControlInv /\ ProcessType
  BY DEF ClientInductive, Inductive
<1>b. UNCHANGED <<signals, faults>> /\ signals \in Nat /\ faults \in Nat
  BY <1>a, MyStepProcess, NatFacts DEF envVars, ProcessType
<1>1. CASE ~Undisturbed
  BY <1>1, <1>b DEF Undisturbed, FailsForCause
<1>2. CASE Undisturbed /\ ConnectFail
  <2>1. Program[step] = Connection /\ step' = step
    BY <1>2, <1>a, AtFact, OpFacts DEF ConnectFail, ReturnFalse
  <2> QED
    BY <2>1 DEF FailsForCause
<1>3. CASE Undisturbed /\ ResponseBad
  <2>1. fd \in MyConns /\ fd \in Conns /\ fd \notin succeeded
    BY <1>3, <1>a, MyConnsFact DEF ResponseBad, ControlInv, ClientTypeOK,
       CallInv
  <2>2. HasResponse /\ conn[fd].inbox # <<>>
        /\ conn[fd].inbox[1].status # "SUCCESS"
    BY <1>3, <2>1 DEF ResponseBad, HasResponse, Reused, EndOfStream, Response,
       HealthInv, NobodyLeaves
  <2>3. conn'[fd].inbox = conn[fd].inbox
    BY <2>1, MyStepKeeps
  <2> QED
    BY <2>1, <2>2, <2>3 DEF FailsForCause
<1>4. CASE Undisturbed /\ ClientPipe
  <2>1. fd \in MyConns /\ fd \in Conns /\ fd \notin succeeded
    BY <1>4, <1>a, MyConnsFact DEF ClientPipe, ControlInv, ClientTypeOK,
       CallInv
  <2>2. conn[fd].sent # "all" /\ conn[fd].state = "done"
    BY <1>4, <1>a, <2>1, MyConnsFact DEF ClientPipe, ControlInv
  <2> QED
    BY <1>4, <2>1, <2>2 DEF HealthInv, NobodyLeaves, Awaited
<1>5. ConnectFail \/ ResponseBad \/ ClientPipe
  <2>1. ~StartCall /\ ~ClientSend /\ ~ReturnTrue /\ ~ClientConnect
    BY StartCallFact, ClientSendFact, ReturnTrueFact DEF ClientConnect, At
  <2>2. ~Disconnect /\ ~ClientExit /\ ~ClientSendShort
    BY DEF Disconnect, At, ClientExit, ClientSendShort
  <2> QED
    BY <2>1, <2>2 DEF MyStep
<1> QED
  BY <1>1, <1>2, <1>3, <1>4, <1>5

LEMMA CauseStep ==
  ASSUME ClientInductive, HealthInv, CallInv, FailsForCause,
         [ClientNext]_clientSpecVars
  PROVE  FailsForCause'
<1>1. CASE OtherStep
  <2> SUFFICES ASSUME cpc' \in {"exit1", "killed"} PROVE FailsForCause'
    BY DEF FailsForCause
  <2>1. /\ Step /\ UNCHANGED <<cpc, step>>
        /\ \A c \in MyConns : Handled(c)
    BY <1>1, OtherStepFact DEF myVars
  <2>2. CASE signals > 0 \/ faults > 0
    <3>1. signals \in Nat /\ faults \in Nat
      BY NatFacts DEF ClientInductive, Inductive, ProcessType
    <3>2. ~Undisturbed'
      BY <2>1, <2>2, <3>1, UndisturbedBefore
         DEF ClientInductive, Inductive, Undisturbed
    <3>3. signals' \in Nat /\ faults' \in Nat
      <4>1. Inductive'
        BY <2>1, InductiveStep DEF ClientInductive
      <4> QED
        BY <4>1, NatFacts DEF Inductive, ProcessType
    <3> QED
      BY <3>2, <3>3 DEF Undisturbed, FailsForCause
  <2>3. CASE Program[step] = Connection
    BY <2>1, <2>3 DEF FailsForCause
  <2>4. ASSUME NEW c \in MyConns, conn[c].inbox # <<>>,
               conn[c].inbox[1].status # "SUCCESS"
        PROVE  FailsForCause'
    <3>1. conn'[c].inbox = conn[c].inbox
      BY <2>1, <2>4 DEF Handled
    <3> QED
      BY <2>4, <3>1 DEF FailsForCause
  <2> QED
    BY <2>1, <2>2, <2>3, <2>4 DEF FailsForCause
<1>2. CASE MyStep
  BY <1>2, CauseAtFailure DEF FailsForCause
<1> QED
  BY <1>1, <1>2, ClientNextCases

LEMMA CauseInit == ClientInit => CauseInv
<1> SUFFICES ASSUME ClientInit PROVE CauseInv
  OBVIOUS
<1>1. /\ pc = "boot" /\ cur = NoConn /\ cpc = "run" /\ succeeded = {}
      /\ \A c \in Conns : /\ conn[c].state = "off" /\ conn[c].inbox = <<>>
                          /\ ~conn[c].shut
  BY DEF ClientInit, Init
<1>2. Healthy /\ NobodyLeaves /\ Awaited
  BY <1>1, MyConnsFact DEF Healthy, NobodyLeaves, Awaited, Fresh, Serving,
     Leaving, Ended
<1> QED
  BY <1>1, <1>2 DEF CauseInv, HealthInv, CallInv, FailsForCause

(* A program that makes one call on each connection, next to clients that   *)
(* wait for their answers and do not stop the server, fails or is killed    *)
(* only if the server was not there, was disturbed by a signal or a failed  *)
(* system call, or answered with an error: in all the interleavings of the  *)
(* two processes nothing else can go wrong.                                 *)
THEOREM FailsForCauseHolds ==
  ASSUME OneCallEach, KindOthers PROVE ClientSpec => []FailsForCause
<1>1. ClientInductive /\ CauseInv /\ [ClientNext]_clientSpecVars => CauseInv'
  <2> SUFFICES ASSUME ClientInductive, CauseInv, [ClientNext]_clientSpecVars
               PROVE  CauseInv'
    OBVIOUS
  <2>1. HealthInv'
    BY OtherHealth, MyHealth, ClientNextCases DEF CauseInv
  <2> QED
    BY <2>1, CallInvStep, CauseStep DEF CauseInv
<1>2. CauseInv => FailsForCause
  BY DEF CauseInv
<1> QED
  BY <1>1, <1>2, CauseInit, ClientInvariant, PTL DEF ClientSpec

-----------------------------------------------------------------------------
(* The modules the server holds.                                            *)

(* A connection the client has let go of has been answered or is gone.      *)
LetGoInv ==
  \A c \in MyConns :
    /\ conn[c].state = "off" \/ c = fd => ~conn[c].shut
    /\ c # fd /\ conn[c].state \in {"queued", "open"} => conn[c].inbox # <<>>

(* The call the client waits for has succeeded in the enclave.              *)
Taken ==
  /\ fd \in MyConns \ succeeded
  /\ conn[fd].sent = "all"
  /\ \/ conn[fd].inbox # <<>> /\ conn[fd].inbox[1].status = "SUCCESS"
     \/ /\ cur = fd
        /\ \/ pc \in {"send", "sending"} /\ resp.status = "SUCCESS"
           \/ pc = "in_enclave" /\ phase[Main] = "done"
              /\ ret[Main].status = "OK"

(* The loads the client is past.                                            *)
Done(d) == {i \in LoadSteps(d) : i < step \/ (i = step /\ Taken)}

(* Each copy of the client's module is there for a step of its own.         *)
CountInv ==
  /\ life # "alive" => mods = EmptyMap
  /\ \A i \in DOMAIN Program :
       Program[i].op = "load" =>
         ExistsInjection(Copies(Program[i].data), Done(Program[i].data))

LEMMA InjectionGrows ==
  ASSUME NEW S, NEW T, NEW U, T \subseteq U, ExistsInjection(S, T)
  PROVE  ExistsInjection(S, U)
<1>1. PICK f : f \in [S -> T] /\ IsInjective(f)
  BY DEF ExistsInjection, Injection
<1>2. f \in [S -> U]
  BY <1>1
<1> QED
  BY <1>1, <1>2 DEF ExistsInjection, Injection

LEMMA InjectionEmpty ==
  ASSUME NEW U PROVE ExistsInjection({}, U)
<1> DEFINE f == [x \in {} |-> x]
<1>1. f \in [{} -> U] /\ IsInjective(f)
  BY DEF IsInjective
<1> HIDE DEF f
<1> QED
  BY <1>1 DEF ExistsInjection, Injection

LEMMA InjectionAdds ==
  ASSUME NEW S, NEW T, NEW x, NEW y, y \notin T, ExistsInjection(S, T)
  PROVE  ExistsInjection(S \cup {x}, T \cup {y})
<1>1. PICK f : f \in [S -> T] /\ IsInjective(f)
  BY DEF ExistsInjection, Injection
<1> DEFINE g == [z \in S \cup {x} |-> IF z \in S THEN f[z] ELSE y]
<1>2. g \in [S \cup {x} -> T \cup {y}]
  BY <1>1
<1>3. ASSUME NEW a \in S \cup {x}, NEW b \in S \cup {x}, g[a] = g[b]
      PROVE  a = b
  <2>1. /\ a \in S => g[a] = f[a] /\ f[a] \in T
        /\ b \in S => g[b] = f[b] /\ f[b] \in T
        /\ a \notin S => g[a] = y /\ a = x
        /\ b \notin S => g[b] = y /\ b = x
    BY <1>1
  <2>2. a \in S /\ b \in S /\ f[a] = f[b] => a = b
    BY <1>1 DEF IsInjective
  <2> HIDE DEF g
  <2> QED
    BY <1>3, <2>1, <2>2
<1>4. DOMAIN g = S \cup {x}
  OBVIOUS
<1> HIDE DEF g
<1>5. IsInjective(g)
  BY <1>3, <1>4 DEF IsInjective
<1> QED
  BY <1>2, <1>5 DEF ExistsInjection, Injection

LEMMA CopiesGone ==
  ASSUME mods = EmptyMap, NEW d PROVE Copies(d) = {}
BY EmptyMapFact DEF Copies

(* What one call does to the modules.                                       *)
LEMMA DoModules ==
  ASSUME MapsType, ThreadType, call[Main] \in Calls, Enc!Do(Main)
  PROVE  /\ life' = life
         /\ \/ mods' = mods
            \/ /\ call[Main].op = "load" /\ ret'[Main].status = "OK"
               /\ \E h \in Handles \ DOMAIN mods :
                    mods' = Put(mods, h, call[Main].data)
<1>1. CASE Enc!DoLoad(Main)
  <2>1. PICK h \in Handles \ DOMAIN mods :
          /\ Enc!Finish(Main, OkHandle(h))
          /\ mods' = Put(mods, h, call[Main].data)
    BY <1>1, SameApi DEF Enc!DoLoad
  <2>2. life' = life /\ ret' = [ret EXCEPT ![Main] = OkHandle(h)]
    BY <2>1 DEF Enc!Finish
  <2>3. ret'[Main] = OkHandle(h)
    BY <2>2 DEF ThreadType
  <2> QED
    BY <1>1, <2>1, <2>2, <2>3 DEF Enc!DoLoad, OkHandle
<1>2. CASE Enc!DoRefuse(Main) \/ Enc!DoCryptoFail(Main)
  BY <1>2 DEF Enc!DoRefuse, Enc!DoCryptoFail, Enc!Finish
<1>3. CASE Enc!DoStore(Main) \/ Enc!DoAttest(Main)
  BY <1>3 DEF Enc!DoStore, Enc!DoAttest, Enc!Finish
<1>4. CASE Enc!DoRetrieve(Main)
  BY <1>4 DEF Enc!DoRetrieve, Enc!Finish
<1>5. CASE Enc!DoInvoke(Main)
  <2>1. \E r : Enc!Finish(Main, r) /\ mods' = mods
    BY <1>5 DEF Enc!DoInvoke
  <2> QED
    BY <2>1 DEF Enc!Finish
<1> QED
  BY <1>1, <1>2, <1>3, <1>4, <1>5 DEF Enc!Do

(* Between two calls the connection the client has is one it is done with.  *)
LEMMA IdleAnswered ==
  ASSUME OneCallEach, ClientInductive, fd # NoConn,
         ClientConnect \/ ConnectFail \/ Disconnect \/ ClientExit
  PROVE  conn[fd].inbox # <<>>
<1>a. ClientTypeOK /\ ControlInv
  BY DEF ClientInductive
<1>1. CASE fd \in succeeded
  BY <1>1, SucceededFact
<1>2. CASE fd \notin succeeded
  <2>1. step - 1 \in DOMAIN Program /\ Program[step - 1] = Connection
    BY <1>2, <1>a DEF ControlInv
  <2>2. step \in Nat /\ step - 1 + 1 = step
    BY <1>a, ProgramFact DEF ClientTypeOK
  <2>3. step \in DOMAIN Program /\ Program[step] \in Calls
    BY <2>1, <2>2 DEF OneCallEach
  <2>4. ~ClientExit
    BY <2>3, ProgramFact DEF ClientExit
  <2>5. Program[step].op \in {"connect", "disconnect"}
    BY <2>4 DEF ClientConnect, ConnectFail, Disconnect, At
  <2> QED
    BY <2>3, <2>5, OpFacts DEF CallOps
<1> QED
  BY <1>1, <1>2

LEMMA LetGoStep ==
  ASSUME OneCallEach, ClientInductive, CallInv, LetGoInv,
         [ClientNext]_clientSpecVars
  PROVE  LetGoInv'
<1>a. ConnInv /\ ClientTypeOK /\ ControlInv
  BY DEF ClientInductive, Inductive
<1>b. \A c \in MyConns : c \in Conns /\ c # NoConn
  BY MyConnsFact
<1>1. CASE OtherStep
  <2>1. fd' = fd /\ \A c \in MyConns : Handled(c)
    BY <1>1, OtherStepFact DEF myVars
  <2> QED
    BY <2>1 DEF LetGoInv, Handled
<1>2. CASE conn' = conn /\ fd' = fd
  BY <1>2 DEF LetGoInv
<1>3. CASE Closes
  <2>1. conn' = Closed /\ OnlyConn /\ fd' = NoConn
    BY <1>3, FailedAt DEF Closes, ReturnFalse, Disconnect, ClientExit
  <2>2. /\ \A c \in Conns : SameButShut(c)
        /\ \A c \in Conns \ {fd} : conn'[c] = conn[c]
    BY <1>a, <2>1, CloseFact
  <2>3. fd # NoConn => conn[fd].inbox # <<>> \/ conn[fd].state = "done"
    <3>1. CASE ResponseBad
      BY <3>1, <1>a DEF ResponseBad, HasResponse, EndOfStream
    <3>2. CASE ~ResponseBad
      BY <1>3, <3>2, IdleAnswered DEF Closes
    <3> QED
      BY <3>1, <3>2
  <2> QED
    BY <1>a, <1>b, <2>1, <2>2, <2>3
       DEF LetGoInv, SameButShut, ControlInv
<1>4. CASE ClientConnect
  <2>1. /\ \A c \in Conns \ {fd'} : conn'[c] = conn[c]
        /\ fd' \in Conns /\ conn[fd'].state = "off"
        /\ conn'[fd'].state = "queued"
    BY <1>4, ClientConnectFact
  <2>2. conn'[fd'].shut <=> conn[fd'].shut
    <3>1. conn \in [Conns -> ConnRecord]
      BY <1>a DEF ConnInv
    <3>2. Connect(fd', NoRequest)
      BY <1>4 DEF ClientConnect
    <3> QED
      BY <2>1, <3>1, <3>2 DEF Connect, ConnRecord
  <2>3. fd # NoConn => conn[fd].inbox # <<>>
    BY <1>4, IdleAnswered
  <2> QED
    BY <1>b, <2>1, <2>2, <2>3 DEF LetGoInv
<1>5. CASE (StartCall \/ ClientSend) /\ ~Reused
  <2>1. /\ \A c \in Conns \ {fd} : conn'[c] = conn[c]
        /\ fd \in Conns /\ fd' = fd
        /\ conn'[fd].state = conn[fd].state
        /\ conn'[fd].inbox = conn[fd].inbox
        /\ conn'[fd].shut <=> conn[fd].shut
    BY <1>5, StartCallFact, ClientSendFact
  <2> QED
    BY <1>b, <2>1 DEF LetGoInv
<1>6. CASE (StartCall \/ ClientSend) /\ Reused
  BY <1>2, <1>6, StartCallFact, ClientSendFact
<1>7. CASE ClientSendShort \/ ReturnTrue
  BY <1>2, <1>7 DEF ClientSendShort, ReturnTrue, vars
<1>8. CASE ClientPipe
  <2>1. conn' = conn /\ fd' = NoConn /\ conn[fd].state = "done"
    BY <1>8 DEF ClientPipe, vars
  <2> QED
    BY <1>b, <2>1 DEF LetGoInv
<1> QED
  BY <1>1, <1>3, <1>4, <1>5, <1>6, <1>7, <1>8, ClientNextCases
     DEF MyStep, Closes

(* A call of this client that is in the server's hands is the one the       *)
(* client is waiting for.                                                   *)
LEMMA ServedIsMine ==
  ASSUME ClientInductive, LetGoInv, pc \in Handling \ {"close"},
         cur \in MyConns, conn[cur].sent = "all"
  PROVE  /\ cur = fd /\ fd \notin succeeded /\ cpc = "recv"
         /\ conn[fd].inbox = <<>> /\ ~conn[fd].shut
         /\ step \in DOMAIN Program /\ conn[fd].req.call = Asked
         /\ Asked.op = Program[step].op
<1>a. ConnInv /\ ClientTypeOK /\ ControlInv
  BY DEF ClientInductive, Inductive
<1>1. cur \in Conns /\ conn[cur].state = "open" /\ conn[cur].inbox = <<>>
  BY <1>a DEF ConnInv
<1>2. cur = fd /\ ~conn[fd].shut /\ fd # NoConn
  BY <1>1, MyConnsFact DEF LetGoInv
<1>3. fd \notin succeeded
  BY <1>1, <1>2, SucceededFact
<1>4. cpc = "recv"
  BY <1>2, <1>3, <1>a DEF ControlInv, ClientTypeOK
<1>5. InCalls(step) /\ conn[fd].req = MyRequest
  BY <1>2, <1>3, <1>4, <1>a DEF ControlInv, MyRequest
<1>6. Asked.op = Program[step].op /\ conn[fd].req.call = Asked
  BY <1>5, <1>a, AskedFact, MyRequestFact DEF ClientTypeOK
<1> QED
  BY <1>1, <1>2, <1>3, <1>4, <1>5, <1>6 DEF InCalls

(* Who has got as far as Taken waits in recv.                               *)
LEMMA TakenWaits ==
  ASSUME ClientInductive, Taken
  PROVE  cpc = "recv" /\ fd # NoConn /\ fd \in Conns
<1>1. ClientTypeOK /\ ControlInv
  BY DEF ClientInductive
<1> QED
  BY <1>1, MyConnsFact DEF Taken, ControlInv, ClientTypeOK

(* No step of the client's own takes a load back.                           *)
LEMMA DoneByMe ==
  ASSUME OneCallEach, ClientInductive, CallInv, MyStep, NEW d
  PROVE  Done(d) \subseteq Done(d)'
<1>a. ConnInv /\ ClientTypeOK /\ ControlInv
  BY DEF ClientInductive, Inductive
<1>b. step \in Nat /\ DOMAIN Program \subseteq Nat
  BY <1>a, ProgramFact DEF ClientTypeOK
<1>c. LoadSteps(d)' = LoadSteps(d)
  BY DEF LoadSteps
<1> SUFFICES ASSUME NEW i \in Done(d) PROVE i \in Done(d)'
  OBVIOUS
<1>d. /\ i \in LoadSteps(d) /\ i \in Nat /\ i \in DOMAIN Program
      /\ Program[i].op = "load"
      /\ i < step \/ (i = step /\ Taken)
  BY <1>b DEF Done, LoadSteps
<1>e. CASE i < step'
  BY <1>c, <1>d, <1>e DEF Done
<1>1. CASE ReturnTrue \/ ClientConnect \/ Disconnect
  <2>1. step' = step + 1
    BY <1>1 DEF ReturnTrue, ClientConnect, Disconnect
  <2> QED
    BY <1>b, <1>d, <1>e, <2>1
<1>2. CASE StartCall \/ ClientSend \/ ClientPipe \/ ClientExit
  <2>1. step' = step /\ cpc # "recv"
    BY <1>2, StartCallFact, ClientSendFact DEF ClientPipe, ClientExit
  <2> QED
    BY <1>d, <1>e, <2>1, TakenWaits
<1>3. CASE ClientSendShort
  <2>1. step' = step /\ cpc # "recv"
    BY <1>3 DEF ClientSendShort
  <2> QED
    BY <1>d, <1>e, <2>1, TakenWaits
<1>4. CASE ConnectFail
  <2>1. ReturnFalse /\ step \in DOMAIN Program
    BY <1>4, FailedAt
  <2>2. cpc = "run" /\ Program[step] = Connection
    BY <1>4, <1>a, AtFact, OpFacts DEF ConnectFail, At
  <2>3. i < step
    BY <1>d, <2>2, TakenWaits
  <2>4. step' = step \/ step' = LastConnect
    BY <2>1 DEF ReturnFalse
  <2>5. LastConnect = step
    BY <1>b, <2>1, <2>2, LastConnectFact
  <2> QED
    BY <1>e, <2>3, <2>4, <2>5
<1>5. CASE ResponseBad
  <2>1. ReturnFalse /\ step \in DOMAIN Program /\ cpc = "recv"
    BY <1>5, FailedAt DEF ResponseBad
  <2>2. /\ fd \notin succeeded /\ fd # NoConn /\ fd \in Conns
        /\ step - 1 \in DOMAIN Program /\ Program[step - 1] = Connection
    BY <1>a, <2>1, MyConnsFact DEF CallInv, ControlInv, ClientTypeOK
  <2>3. ~Taken
    <3>1. CASE conn[fd].inbox # <<>>
      <4>1. conn[fd].inbox[1].status # "SUCCESS"
        BY <1>5, <2>2, <3>1 DEF ResponseBad, HasResponse, Reused, Response
      <4>2. ~(cur = fd /\ pc \in {"send", "sending", "in_enclave"})
        BY <1>a, <2>2, <3>1 DEF ConnInv
      <4> QED
        BY <4>1, <4>2 DEF Taken
    <3>2. CASE conn[fd].inbox = <<>>
      <4>1. conn[fd].state = "done"
        BY <1>5, <3>2 DEF ResponseBad, HasResponse, EndOfStream
      <4>2. ~(cur = fd /\ pc \in {"send", "sending", "in_enclave"})
        BY <1>a, <4>1 DEF ConnInv, Handling
      <4> QED
        BY <3>2, <4>2 DEF Taken
    <3> QED
      BY <3>1, <3>2
  <2>4. i < step /\ i # step - 1
    BY <1>d, <2>2, <2>3 DEF Connection
  <2>5. LastConnect >= step - 1 /\ LastConnect \in Nat
    BY <1>b, <2>1, <2>2, LastConnectFact
  <2>6. step' = step \/ step' = LastConnect
    BY <2>1 DEF ReturnFalse
  <2> QED
    BY <1>b, <1>d, <1>e, <2>4, <2>5, <2>6
<1> QED
  BY <1>1, <1>2, <1>3, <1>4, <1>5 DEF MyStep

(* Nor does the server, as long as its enclave lives.                       *)
LEMMA TakenStays ==
  ASSUME ClientInductive, LetGoInv, OtherStep, Taken,
         \/ QuietStep \/ FreedReturn \/ Accept \/ SendStep \/ CloseClient
         \/ UNCHANGED <<cur, pc, resp, phase, ret>>
  PROVE  Taken'
<1>a. /\ ConnInv /\ ResponseInv /\ EnclaveInv /\ ThreadType
  BY EncTypeFact DEF ClientInductive, Inductive, EnclaveInv
<1>b. UNCHANGED <<fd, succeeded>> /\ Handled(fd) /\ fd \in Conns
  BY OtherStepFact, MyConnsFact DEF Taken, myVars
<1>c. fd' \in MyConns \ succeeded' /\ conn'[fd'].sent = "all"
  BY <1>b DEF Taken, Handled
<1>1. CASE conn[fd].inbox # <<>>
  <2>1. ~(cur = fd /\ pc \in {"send", "sending", "in_enclave"})
    BY <1>1, <1>a, <1>b DEF ConnInv, Handling
  <2>2. conn[fd].inbox[1].status = "SUCCESS"
    BY <2>1 DEF Taken
  <2> QED
    BY <1>1, <1>b, <1>c, <2>2 DEF Taken, Handled
<1>2. CASE cur = fd /\ pc \in {"send", "sending"} /\ resp.status = "SUCCESS"
  <2>a. ~conn[cur].shut /\ conn[cur].inbox = <<>>
    BY <1>2, ServedIsMine DEF Taken, Handling
  <2>1. CASE SendStep
    <3>1. conn' = Deliver(conn, resp) /\ resp \in Message
      BY <1>2, <1>a, <2>1, <2>a DEF SendStep, Send, Drain, SendShort, Sent,
         ResponseInv, Responses, Message
    <3>2. conn'[fd].inbox = <<resp>>
      BY <1>2, <1>a, <1>b, <2>a, <3>1, DeliverFact
    <3> QED
      BY <1>2, <1>b, <1>c, <3>1, <3>2, InboxFacts DEF Taken
  <2>2. CASE QuietStep
    <3>1. cur' = cur
      BY <2>2, QuietSteps DEF Quiet
    <3>2. pc' \in {"send", "sending"} /\ resp' = resp
      <4>1. ~RecvHeader /\ ~RecvPayload /\ ~Dispatch
        BY <1>2, StageMoves
      <4>2. ~CallEnclave /\ ~InEnclave /\ ~LeaveEnclave /\ ~AcceptFail
        BY <1>2 DEF CallEnclave, InEnclave, LeaveEnclave, AcceptFail,
           FailedAcceptTo
      <4>3. ~Starts
        BY <1>2 DEF Starts, Boot, Publish, CreateEnclave, CreateSocket,
           Unlink, Bind, Listen, BindOrListenFail, CheckInitialized,
           SetRunning, Move
      <4>4. ~Loop /\ ~Clear /\ ~InitFailed /\ ~ProcessExit
        BY <1>2 DEF Loop, Clear, InitFailed, ProcessExit, Move
      <4> QED
        BY <1>2, <2>2, <4>1, <4>2, <4>3, <4>4 DEF QuietStep, SendBlocks, Move,
           Goto, SignalIgnored, processVars, clientVars, vars
    <3> QED
      BY <1>2, <1>b, <1>c, <3>1, <3>2 DEF Taken
  <2>3. ~Accept /\ ~CloseClient /\ ~FreedReturn
    BY <1>2, FreedFact DEF Accept, CloseClient
  <2>4. CASE UNCHANGED <<cur, pc, resp, phase, ret>>
    BY <1>2, <1>b, <1>c, <2>4 DEF Taken
  <2> QED
    BY <2>1, <2>2, <2>3, <2>4
<1>3. CASE /\ cur = fd /\ pc = "in_enclave" /\ phase[Main] = "done"
           /\ ret[Main].status = "OK"
  <2>1. ~Accept /\ ~CloseClient /\ ~FreedReturn /\ ~SendStep
    BY <1>3, <1>a, FreedFact, SendFact DEF Accept, CloseClient
  <2>2. cur' = cur
    BY <2>1, QuietSteps DEF Quiet
  <2>3. ~InEnclave
    BY <1>3 DEF InEnclave, Enc!Do, Enc!DoRefuse, Enc!DoCryptoFail, Enc!DoStore,
       Enc!DoRetrieve, Enc!DoLoad, Enc!DoInvoke, Enc!DoAttest
  <2>4. CASE LeaveEnclave
    <3>1. pc' = "send" /\ resp' = Reply(call[Main], ret[Main])
      BY <2>4 DEF LeaveEnclave, Goto
    <3>2. resp'.status = "SUCCESS"
      BY <1>3, <3>1 DEF Reply, Success
    <3> QED
      BY <1>3, <1>b, <1>c, <2>2, <3>1, <3>2 DEF Taken
  <2>5. CASE SignalIgnored \/ UNCHANGED vars
             \/ UNCHANGED <<cur, pc, resp, phase, ret>>
    <3>1. pc' = pc /\ phase' = phase /\ ret' = ret
      BY <2>5 DEF SignalIgnored, vars, processVars, enclaveVars
    <3> QED
      BY <1>3, <1>b, <1>c, <2>2, <3>1 DEF Taken
  <2>6. ~RecvHeader /\ ~RecvPayload /\ ~Dispatch /\ ~CallEnclave
        /\ ~AcceptFail
    BY <1>3, StageMoves DEF CallEnclave, AcceptFail, FailedAcceptTo
  <2>7. ~Starts
    BY <1>3 DEF Starts, Boot, Publish, CreateEnclave, CreateSocket,
       Unlink, Bind, Listen, BindOrListenFail, CheckInitialized,
       SetRunning, Move
  <2>8. ~Loop /\ ~Clear /\ ~InitFailed /\ ~ProcessExit /\ ~SendBlocks
    BY <1>3 DEF Loop, Clear, InitFailed, ProcessExit, SendBlocks, Move
  <2> QED
    BY <2>1, <2>3, <2>4, <2>5, <2>6, <2>7, <2>8 DEF QuietStep
<1> QED
  BY <1>1, <1>2, <1>3 DEF Taken

LEMMA DoneByServer ==
  ASSUME ClientInductive, LetGoInv, OtherStep, NEW d,
         \/ QuietStep \/ FreedReturn \/ Accept \/ SendStep \/ CloseClient
         \/ UNCHANGED <<cur, pc, resp, phase, ret>>
  PROVE  Done(d) \subseteq Done(d)'
<1>1. step' = step
  BY OtherStepFact DEF myVars
<1>2. Taken => Taken'
  BY TakenStays
<1> QED
  BY <1>1, <1>2 DEF Done, LoadSteps

(* The request whose call is in the enclave, if it loads this client's      *)
(* module, is the load this client is at.                                   *)
LEMMA LoaderIsMine ==
  ASSUME OwnModule, ClientInductive, LetGoInv, pc = "in_enclave",
         call[Main].op = "load", NEW i \in DOMAIN Program,
         Program[i].op = "load", Program[i].data = call[Main].data
  PROVE  /\ cur = fd /\ fd \in MyConns \ succeeded
         /\ conn[fd].sent = "all" /\ conn[fd].inbox = <<>>
         /\ step \in LoadSteps(call[Main].data)
<1>a. ConnInv /\ RequestInv /\ EnclaveInv /\ OwnRequests(Conns \ MyConns)
  BY DEF ClientInductive, Inductive
<1>1. cur \in Conns /\ conn[cur].req.call = call[Main]
  BY <1>a DEF ConnInv, Handling, EnclaveInv, Request
<1>2. conn[cur].sent = "all"
  BY <1>a, <1>1 DEF RequestInv, Request, HasPayload
<1>3. cur \in MyConns
  <2>1. CASE cur \notin MyConns
    <3>1. conn[cur].req \in Requests
      BY <1>a, <1>1, <2>1, NoRequestFact DEF OwnRequests
    <3> QED
      BY <1>1, <3>1 DEF OwnModule
  <2> QED
    BY <2>1
<1>4. /\ cur = fd /\ fd \notin succeeded /\ conn[fd].inbox = <<>>
      /\ step \in DOMAIN Program /\ conn[fd].req.call = Asked
      /\ Asked.op = Program[step].op
  BY <1>2, <1>3, ServedIsMine DEF Handling
<1>5. Asked = Program[step]
  BY <1>1, <1>4 DEF Asked
<1> QED
  BY <1>1, <1>2, <1>3, <1>4, <1>5 DEF LoadSteps

LEMMA CountInEnclave ==
  ASSUME OwnModule, ClientInductive, LetGoInv, CountInv, OtherStep, InEnclave
  PROVE  CountInv'
<1>a. /\ ConnInv /\ EnclaveInv /\ MapsType /\ ThreadType
      /\ call[Main] \in Calls
  BY EncTypeFact DEF ClientInductive, Inductive, EnclaveInv, InEnclave
<1>b. /\ pc = "in_enclave" /\ Enc!Do(Main)
      /\ UNCHANGED <<pc, cur, conn>> /\ UNCHANGED <<step, fd, succeeded>>
  BY OtherStepFact DEF InEnclave, clientVars, myVars
<1>c. phase[Main] = "pending" /\ phase'[Main] = "done" /\ life = "alive"
  BY <1>a, <1>b, DoFact DEF EnclaveInv
<1>d. life' = "alive"
  BY <1>a, <1>b, <1>c, DoModules
<1>1. ASSUME NEW i \in DOMAIN Program, Program[i].op = "load"
      PROVE  ExistsInjection(Copies(Program[i].data)', Done(Program[i].data)')
  <2> DEFINE d == Program[i].data
  <2>1. ExistsInjection(Copies(d), Done(d)) /\ Done(d) \subseteq Done(d)'
    BY <1>1, DoneByServer DEF CountInv, QuietStep
  <2>2. CASE Copies(d)' = Copies(d)
    BY <2>1, <2>2, InjectionGrows
  <2>3. CASE mods' = mods
    BY <2>2, <2>3 DEF Copies
  <2>4. ASSUME call[Main].op = "load", ret'[Main].status = "OK",
               NEW h \in Handles \ DOMAIN mods,
               mods' = Put(mods, h, call[Main].data)
        PROVE  ExistsInjection(Copies(d)', Done(d)')
    <3>1. /\ DOMAIN mods' = DOMAIN mods \cup {h}
          /\ mods'[h] = call[Main].data
          /\ \A g \in DOMAIN mods : mods'[g] = mods[g]
      BY <2>4 DEF Put
    <3>2. CASE call[Main].data # d
      <4>1. Copies(d)' = Copies(d)
        BY <3>1, <3>2 DEF Copies
      <4> QED
        BY <2>2, <4>1
    <3>3. CASE call[Main].data = d
      <4>1. Copies(d)' = Copies(d) \cup {h}
        BY <3>1, <3>3 DEF Copies
      <4>2. /\ cur = fd /\ fd \in MyConns \ succeeded
            /\ conn[fd].sent = "all" /\ conn[fd].inbox = <<>>
            /\ step \in LoadSteps(d)
        BY <1>1, <1>b, <2>4, <3>3, LoaderIsMine
      <4>3. ~Taken /\ Taken'
        BY <1>b, <1>c, <2>4, <4>2 DEF Taken
      <4>4. step \notin Done(d)
        <5>1. step \in Nat
          BY <4>2, ProgramFact DEF LoadSteps
        <5> QED
          BY <4>3, <5>1 DEF Done
      <4>5. step \in Done(d)'
        BY <1>b, <4>2, <4>3 DEF Done, LoadSteps
      <4>6. ExistsInjection(Copies(d) \cup {h}, Done(d) \cup {step})
        BY <2>1, <4>4, InjectionAdds
      <4>7. Done(d) \cup {step} \subseteq Done(d)'
        BY <2>1, <4>5
      <4> QED
        BY <4>1, <4>6, <4>7, InjectionGrows
    <3> QED
      BY <3>2, <3>3
  <2> QED
    BY <1>a, <1>b, <2>3, <2>4, DoModules
<1> QED
  BY <1>1, <1>d DEF CountInv

(* The steps after which there is no module.                                *)
LEMMA ModulesGone ==
  ASSUME CountInv, Inductive,
         CreateEnclave \/ Dies \/ Destruct \/ SignalShutdown \/ Restart
  PROVE  mods' = EmptyMap
<1>1. CASE CreateEnclave
  BY <1>1, SameApi DEF CreateEnclave, Enc!Create
<1>2. CASE Dies \/ Destruct \/ SignalShutdown
  <2>1. Enc!Reset
    BY <1>2 DEF Dies, Die, Destruct, SignalShutdown, ShutdownEffect
  <2> QED
    BY <2>1, ResetFact
<1>3. CASE Restart
  BY <1>3 DEF Restart, outsideVars, enclaveVars, Inductive, EnclaveInv,
     CountInv, Gone
<1> QED
  BY <1>1, <1>2, <1>3

LEMMA CountStep ==
  ASSUME OneCallEach, OwnModule, ClientInductive, CallInv, LetGoInv, CountInv,
         [ClientNext]_clientSpecVars
  PROVE  CountInv'
<1>a. Inductive /\ ConnInv /\ ResponseInv
  BY DEF ClientInductive, Inductive
<1>1. CASE mods' = EmptyMap
  <2>1. \A d : Copies(d)' = {}
    BY <1>1, EmptyMapFact DEF Copies
  <2> QED
    BY <1>1, <2>1, InjectionEmpty DEF CountInv
<1>2. ASSUME mods' = mods, life' = life, \A d : Done(d) \subseteq Done(d)'
      PROVE  CountInv'
  <2>1. \A d : Copies(d)' = Copies(d)
    BY <1>2 DEF Copies
  <2> QED
    BY <1>2, <2>1, InjectionGrows DEF CountInv
<1>3. CASE MyStep
  <2>1. mods' = mods /\ life' = life
    BY <1>3, MyStepProcess DEF processVars, enclaveVars
  <2> QED
    BY <1>2, <1>3, <2>1, DoneByMe
<1>4. ASSUME OtherStep, World \/ UNCHANGED vars PROVE CountInv'
  <2>1. UNCHANGED <<cur, pc, resp, phase, ret, mods, life>>
    BY <1>4 DEF World, Connect, Touch, vars, processVars, clientVars,
       enclaveVars
  <2> QED
    BY <1>2, <1>4, <2>1, DoneByServer
<1>5. CASE CreateEnclave \/ Dies \/ Destruct \/ SignalShutdown \/ Restart
  BY <1>1, <1>5, <1>a, ModulesGone
<1>6. CASE OtherStep /\ InEnclave
  BY <1>6, CountInEnclave
<1>7. CASE /\ OtherStep /\ ~CreateEnclave /\ ~InEnclave
           /\ QuietStep \/ FreedReturn \/ Accept \/ SendStep \/ CloseClient
  <2>1. mods' = mods /\ life' = life
    <3>1. CASE FreedReturn
      BY <3>1, FreedFact
    <3>2. CASE CallEnclave \/ LeaveEnclave
      BY <3>2 DEF CallEnclave, LeaveEnclave, Enc!Begin, Enc!End
    <3>3. CASE \/ QuietStep /\ ~CreateEnclave /\ ~CallEnclave /\ ~InEnclave
                    /\ ~LeaveEnclave
               \/ Accept \/ SendStep \/ CloseClient
      BY <1>a, <3>3, UntouchedSteps DEF EnclaveUntouched
    <3> QED
      BY <1>7, <3>1, <3>2, <3>3
  <2> QED
    BY <1>2, <1>7, <2>1, DoneByServer
<1>8. OtherStep => Step
  BY OtherStepFact
<1> QED
  BY <1>3, <1>4, <1>5, <1>6, <1>7, <1>8, ClientNextCases, StepCases

LEMMA CountInit == ClientInit => LetGoInv /\ CallInv /\ CountInv
<1> SUFFICES ASSUME ClientInit PROVE LetGoInv /\ CallInv /\ CountInv
  OBVIOUS
<1>1. /\ mods = EmptyMap /\ cpc = "run" /\ fd = NoConn /\ succeeded = {}
      /\ \A c \in Conns : conn[c].state = "off" /\ ~conn[c].shut
  BY SameApi DEF ClientInit, Init, Enc!Init
<1>2. LetGoInv
  BY <1>1, MyConnsFact DEF LetGoInv
<1>3. CallInv
  BY <1>1 DEF CallInv
<1> QED
  BY <1>1, <1>2, <1>3, CopiesGone, InjectionEmpty DEF CountInv

LEMMA CountFact == CountInv => LoadedOnce
<1> SUFFICES ASSUME CountInv, NEW i \in DOMAIN Program, Program[i].op = "load"
             PROVE  LET d == Program[i].data
                    IN  Cardinality(Copies(d)) <= Cardinality(LoadSteps(d))
  BY DEF LoadedOnce
<1> DEFINE d == Program[i].data
<1>1. ExistsInjection(Copies(d), LoadSteps(d))
  BY InjectionGrows DEF CountInv, Done
<1>2. IsFiniteSet(LoadSteps(d))
  <2>1. DOMAIN Program = 1..Len(Program) /\ Len(Program) \in Nat
    BY ProgramFact
  <2>2. IsFiniteSet(1..Len(Program))
    BY <2>1, FS_Interval
  <2> QED
    BY <2>1, <2>2, FS_Subset DEF LoadSteps
<1>3. PICK f : f \in Injection(Copies(d), LoadSteps(d))
  BY <1>1 DEF ExistsInjection
<1> QED
  BY <1>2, <1>3, FS_Injection

(* A client that makes one call on each connection, and whose module nobody *)
(* else loads, finds no more copies of it in a living server than its       *)
(* program loads, however often it has repeated calls that failed: a load   *)
(* that returned false has left nothing behind.                             *)
THEOREM LoadedOnceHolds ==
  ASSUME OneCallEach, OwnModule PROVE ClientSpec => []LoadedOnce
<1>1. ClientInductive /\ (LetGoInv /\ CallInv /\ CountInv)
        /\ [ClientNext]_clientSpecVars => (LetGoInv /\ CallInv /\ CountInv)'
  BY LetGoStep, CallInvStep, CountStep
<1>2. LetGoInv /\ CallInv /\ CountInv => LoadedOnce
  BY CountFact
<1> QED
  BY <1>1, <1>2, CountInit, ClientInvariant, PTL DEF ClientSpec
=============================================================================
