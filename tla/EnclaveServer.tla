---------------------------- MODULE EnclaveServer -----------------------------
(***************************************************************************)
(* The server process (server.cpp): main, EnclaveServer::Initialize, Run,  *)
(* HandleClient and Shutdown, step by step, with the clients that connect  *)
(* to it, the kernel objects it uses and the signals it may get between    *)
(* any two steps.  The enclave is the atomic one of EnclaveStore, called   *)
(* by the one thread the process has.                                      *)
(***************************************************************************)
EXTENDS EnclaveApi, Sequences

CONSTANTS
  Conns,          \* the connections clients make, one request each
  NoConn,
  Main,           \* the server's thread
  Requests,       \* the requests clients send
  BACKLOG,        \* the second argument of listen
  MAX_WIRE_NAME,  \* ReadString's limit, 1024 * 1024
  MAX_WIRE_DATA,  \* ReadBytes' limit, 10 * 1024 * 1024
  SNDBUF,         \* bytes the kernel buffers for a client that is not reading
  EarlyClose,     \* may clients disconnect before they are answered
  MaxSignals,     \* bound: SIGINT and SIGTERM deliveries
  MaxFaults,      \* bound: system calls that fail for want of a resource
  MaxRestarts     \* bound: times the process is started again

(* A request as HandleClient tells requests apart: what is wrong with it,   *)
(* the command in its header and the call its payload stands for.           *)
RequestFaults == {"none", "magic", "size", "crc", "body"}
AllRequests ==
  [fault : RequestFaults, cmd : {"call"}, call : Calls]
  \cup [fault : RequestFaults, cmd : {"shutdown", "unknown"}, call : {NoCall}]

NoRequest == [fault |-> "none", cmd |-> "none", call |-> NoCall]

ASSUME ServerAssumption ==
  /\ NoConn \notin Conns
  /\ Requests \subseteq AllRequests
  /\ EarlyClose \in BOOLEAN
  /\ {BACKLOG, MAX_WIRE_NAME, MAX_WIRE_DATA, SNDBUF,
      MaxSignals, MaxFaults, MaxRestarts} \subseteq Nat

VARIABLES
  pc,         \* where the server's thread is
  running_,
  socket_fd_, \* "closed" (-1), "open", "bound" or "listening"
  g_server,   \* is the global pointer set
  cur,        \* client_fd: the connection being handled
  resp,       \* the response about to be sent on it
  life, kv, mods, phase, call, ret,   \* enclave_, as in EnclaveStore
  path,       \* SOCKET_PATH: "absent", "live", or "stale" (nobody bound to it)
  queue,      \* connections waiting for accept
  conn,       \* conn[c]: a connection as its client and the kernel see it
  signals, faults, restarts

flagVars == <<running_, socket_fd_, g_server>>
clientVars == <<cur, resp>>
enclaveVars == <<life, kv, mods, phase, call, ret>>
kernelVars == <<path, queue>>
envVars == <<signals, faults, restarts>>
processVars == <<pc, flagVars, clientVars, enclaveVars>>
outsideVars == <<enclaveVars, kernelVars, conn>>
vars == <<processVars, kernelVars, conn, envVars>>

Enc == INSTANCE EnclaveStore WITH Threads <- {Main}

-----------------------------------------------------------------------------
Success(r)   == [status |-> "SUCCESS", value |-> r]
Failure(s)   == [status |-> s, value |-> NoResult]
NoReply      == Failure("none")
Truncated(r) == [status |-> "truncated", value |-> r.value]

ResponseStatus == {"SUCCESS", "ERROR_INVALID_COMMAND", "ERROR_INVALID_PARAMS",
                   "ERROR_EXECUTION_FAILED", "ERROR_NOT_FOUND",
                   "ERROR_INTERNAL"}
Responses == [status : ResponseStatus, value : Results]

Starting == {"boot", "publish", "create", "socket", "unlink", "bind",
             "listen", "check", "set_running"}
Serving  == {"loop", "accept", "recv_header", "recv_payload", "dispatch",
             "call", "in_enclave", "dangling", "send", "sending", "close"}
Leaving  == {"clear", "init_failed", "dtor", "returned"}
Ended    == {"exited", "killed", "segv"}

(* How much of a request has reached the server's socket.                   *)
Arrivals == <<"nothing", "part_header", "header", "all">>
Arrived == {Arrivals[i] : i \in DOMAIN Arrivals}

TypeOK ==
  /\ pc \in Starting \cup Serving \cup Leaving \cup Ended
  /\ running_ \in BOOLEAN
  /\ socket_fd_ \in {"closed", "open", "bound", "listening"}
  /\ g_server \in BOOLEAN
  /\ cur \in Conns \cup {NoConn}
  /\ resp \in Responses \cup {NoReply}
  /\ Enc!TypeOK
  /\ path \in {"absent", "live", "stale"}
  /\ queue \in Seq(Conns) /\ Len(queue) <= BACKLOG + 1
  /\ \A c \in Conns :
       /\ conn[c].state \in {"off", "queued", "open", "done"}
       /\ conn[c].req \in Requests \cup {NoRequest}
       /\ conn[c].sent \in Arrived
       /\ conn[c].shut \in BOOLEAN
       /\ \A i \in DOMAIN conn[c].inbox :
            conn[c].inbox[i].status \in ResponseStatus \cup {"truncated"}
       /\ conn[c].by \in 0..MaxRestarts
  /\ signals \in 0..MaxSignals
  /\ faults \in 0..MaxFaults
  /\ restarts \in 0..MaxRestarts

Init ==
  /\ pc = "boot"
  /\ running_ = FALSE
  /\ socket_fd_ = "closed"
  /\ g_server = FALSE
  /\ cur = NoConn
  /\ resp = NoReply
  /\ Enc!Init
  /\ path \in {"absent", "stale"}
  /\ queue = <<>>
  /\ conn = [c \in Conns |->
               [state |-> "off", req |-> NoRequest, sent |-> "nothing",
                shut |-> FALSE, inbox |-> <<>>, by |-> 0]]
  /\ signals = 0 /\ faults = 0 /\ restarts = 0

-----------------------------------------------------------------------------
Goto(label) == pc' = label

(* A step that does nothing but move on.                                    *)
Move(from, to) ==
  /\ pc = from
  /\ Goto(to)
  /\ UNCHANGED <<flagVars, clientVars, outsideVars, envVars>>

(* A system call or an allocation that fails for want of a resource.        *)
Fault ==
  /\ faults < MaxFaults
  /\ faults' = faults + 1
  /\ UNCHANGED <<signals, restarts>>

(* The connections in one of these states end unanswered.                   *)
Dropped(cn, states) ==
  [c \in Conns |-> IF cn[c].state \in states
                   THEN [cn[c] EXCEPT !.state = "done"] ELSE cn[c]]

(* A socket file nobody is bound to any more.                               *)
PathKept == IF path = "live" THEN "stale" ELSE path

(* EnclaveServer::Shutdown.  Closing the listening socket resets the        *)
(* connections that wait on it; unlink removes whatever is at the path.     *)
ShutdownEffect(cn) ==
  /\ running_' = FALSE
  /\ socket_fd_' = "closed"
  /\ queue' = <<>>
  /\ conn' = Dropped(cn, {"queued"})
  /\ path' = "absent"
  /\ Enc!Reset

(* The process ends without running a destructor: the kernel closes its     *)
(* descriptors and leaves the socket file behind.                           *)
Die(how) ==
  /\ Goto(how)
  /\ running_' = FALSE /\ socket_fd_' = "closed" /\ g_server' = FALSE
  /\ cur' = NoConn /\ resp' = NoReply
  /\ queue' = <<>>
  /\ conn' = Dropped(conn, {"queued", "open"})
  /\ path' = PathKept
  /\ Enc!Reset
  /\ phase' = [t \in {Main} |-> "idle"]
  /\ call' = [t \in {Main} |-> NoCall]
  /\ ret' = [t \in {Main} |-> NoResult]

-----------------------------------------------------------------------------
(* main, up to Run: signal() and the constructor, then g_server.            *)
Boot == Move("boot", "publish")

Publish ==
  /\ pc = "publish"
  /\ g_server' = TRUE
  /\ Goto("create")
  /\ UNCHANGED <<running_, socket_fd_, clientVars, outsideVars, envVars>>

(* Initialize.                                                              *)
CreateEnclave ==
  /\ pc = "create"
  /\ Enc!Create
  /\ \/ life' = "alive" /\ Goto("socket") /\ UNCHANGED envVars
     \/ life' = "failed" /\ Goto("init_failed") /\ Fault
  /\ UNCHANGED <<flagVars, clientVars, kernelVars, conn>>

CreateSocket ==
  /\ pc = "socket"
  /\ \/ socket_fd_' = "open" /\ Goto("unlink") /\ UNCHANGED envVars
     \/ socket_fd_' = "closed" /\ Goto("init_failed") /\ Fault
  /\ UNCHANGED <<running_, g_server, clientVars, outsideVars>>

(* Mutant of Unlink: a stale socket file is left where it is.               *)
SkipUnlink == Move("unlink", "bind")

Unlink ==
  /\ pc = "unlink"
  /\ path' = "absent"
  /\ Goto("bind")
  /\ UNCHANGED <<flagVars, clientVars, enclaveVars, queue, conn, envVars>>

(* bind fails on a closed descriptor and on a path that exists.             *)
CanBind == socket_fd_ = "open" /\ path = "absent"

Bind ==
  /\ pc = "bind" /\ CanBind
  /\ socket_fd_' = "bound"
  /\ path' = "live"
  /\ Goto("listen")
  /\ UNCHANGED <<running_, g_server, clientVars, enclaveVars, queue, conn,
                 envVars>>

Listen ==
  /\ pc = "listen" /\ socket_fd_ = "bound"
  /\ socket_fd_' = "listening"
  /\ Goto("check")
  /\ UNCHANGED <<running_, g_server, clientVars, outsideVars, envVars>>

BindOrListenFail ==
  /\ \/ pc = "bind" /\ ~CanBind /\ UNCHANGED envVars
     \/ pc = "listen" /\ socket_fd_ # "bound" /\ UNCHANGED envVars
     \/ pc \in {"bind", "listen"} /\ Fault
  /\ socket_fd_' = "closed"
  /\ Goto("init_failed")
  /\ UNCHANGED <<running_, g_server, clientVars, outsideVars>>

(* Mutant of NotInitialized: Run does not ask for enclave_.                 *)
NoSocket == socket_fd_ = "closed"

NotInitialized == socket_fd_ = "closed" \/ life # "alive"

(* Run: the check, the flag, the loop.                                      *)
CheckInitialized ==
  Move("check", IF NotInitialized THEN "clear" ELSE "set_running")

SetRunning ==
  /\ pc = "set_running"
  /\ running_' = TRUE
  /\ Goto("loop")
  /\ UNCHANGED <<socket_fd_, g_server, clientVars, outsideVars, envVars>>

Loop == Move("loop", IF running_ THEN "accept" ELSE "clear")

Accept ==
  /\ pc = "accept"
  /\ socket_fd_ = "listening" /\ queue # <<>>
  /\ cur' = Head(queue)
  /\ queue' = Tail(queue)
  /\ conn' = [conn EXCEPT ![Head(queue)].state = "open",
                          ![Head(queue)].by = restarts]
  /\ Goto("recv_header")
  /\ UNCHANGED <<flagVars, resp, enclaveVars, path, envVars>>

(* accept fails at once on a descriptor a handler has closed.               *)
FailedAcceptTo(label) ==
  /\ pc = "accept"
  /\ \/ socket_fd_ # "listening" /\ UNCHANGED envVars
     \/ Fault
  /\ Goto(label)
  /\ UNCHANGED <<flagVars, clientVars, outsideVars>>

(* Mutant of AcceptFail: accept is retried without a look at running_.      *)
AcceptRetry == FailedAcceptTo("accept")

AcceptFail == FailedAcceptTo("loop")

-----------------------------------------------------------------------------
(* HandleClient: one request, from the header to the response.              *)
Request == conn[cur].req
ArrivedFrom(c) == conn[c].sent

(* A stage of HandleClient either answers or goes on to the next.           *)
Stage(reply, next) ==
  /\ resp' = reply
  /\ Goto(IF reply = NoReply THEN next ELSE "send")
  /\ UNCHANGED <<flagVars, cur, outsideVars, envVars>>

(* payload_size > 0.  Clients send GET_ATTESTATION, SHUTDOWN and unknown    *)
(* commands without a payload.                                              *)
HasPayload(r) == r.call.op \notin {"attest", "none"}

(* Mutant of ShortHeader: the connection is closed without an answer.       *)
ShortHeaderSilent == NoReply

ShortHeader == Failure("ERROR_INVALID_COMMAND")

HeaderReply(r) ==
  CASE r.fault = "magic" -> Failure("ERROR_INVALID_COMMAND")
    [] r.fault = "size"  -> Failure("ERROR_INVALID_PARAMS")
    [] OTHER -> NoReply

(* recv without MSG_WAITALL: it waits for the first bytes and returns what  *)
(* is there, or 0 when the client has closed.                               *)
RecvHeader ==
  /\ pc = "recv_header"
  /\ \/ /\ \/ ArrivedFrom(cur) = "part_header"
           \/ ArrivedFrom(cur) = "nothing" /\ conn[cur].shut
        /\ Stage(ShortHeader, "close")
     \/ /\ ArrivedFrom(cur) \in {"header", "all"}
        /\ Stage(HeaderReply(Request),
                 IF HasPayload(Request) THEN "recv_payload" ELSE "dispatch")

(* recv with MSG_WAITALL: short only if the client closes, or if a signal   *)
(* interrupts it (see SignalShutdown).                                      *)
RecvPayload ==
  /\ pc = "recv_payload"
  /\ \/ /\ ArrivedFrom(cur) = "all"
        /\ Stage(NoReply, "dispatch")
     \/ /\ ArrivedFrom(cur) # "all" /\ conn[cur].shut
        /\ Stage(Failure("ERROR_INVALID_PARAMS"), "dispatch")

(* The bounds ReadString and ReadBytes put on lengths.                      *)
TooLong(cl) ==
  \/ /\ cl.op \in {"store", "retrieve", "invoke"}
     /\ NameSize[cl.name] > MAX_WIRE_NAME
  \/ /\ cl.op \in {"store", "load", "invoke"}
     /\ DataSize[cl.data] > MAX_WIRE_DATA

(* The Deserialize of the four requests that have a payload.                *)
Malformed(r) == HasPayload(r) /\ (r.fault = "body" \/ TooLong(r.call))

(* Mutant of Invalid: the checksum is not verified.                         *)
NeverInvalid(r) == FALSE

(* ValidateMessage: what the header checks have left is the checksum.       *)
Invalid(r) == r.fault = "crc"

(* ValidateMessage, DispatchCommand and the parsing part of the handlers;   *)
(* NoReply when the enclave is to be called.                                *)
DispatchReply(r) ==
  CASE Invalid(r) \/ Malformed(r) -> Failure("ERROR_INVALID_PARAMS")
    [] ~Invalid(r) /\ r.cmd = "unknown"  -> Failure("ERROR_INVALID_COMMAND")
    [] ~Invalid(r) /\ r.cmd = "shutdown" -> Success(OkVoid)
    [] OTHER -> NoReply

Dispatch == pc = "dispatch" /\ Stage(DispatchReply(Request), "call")

(* The handlers call through enclave_, which a signal may have reset.       *)
CallEnclave ==
  /\ pc = "call"
  /\ Enc!Begin(Main, Request.call)
  /\ Goto("in_enclave")
  /\ UNCHANGED <<flagVars, clientVars, kernelVars, conn, envVars>>

CallNull ==
  /\ pc = "call" /\ life # "alive"
  /\ Die("segv")
  /\ UNCHANGED envVars

InEnclave ==
  /\ pc = "in_enclave"
  /\ Enc!Do(Main)
  /\ UNCHANGED <<pc, flagVars, clientVars, kernelVars, conn, envVars>>

(* Mutant of Reply: HandleStoreData does not look at the result.            *)
ReplyStored(c, r) ==
  IF r.status = "OK" THEN Success(r)
  ELSE IF c.op = "store" THEN Success(OkVoid)
  ELSE Failure("ERROR_EXECUTION_FAILED")

(* Mutant of Reply: HandleLoadModule answers a success with an error.       *)
ReplyNotLoaded(c, r) ==
  IF r.status = "OK" /\ c.op # "load" THEN Success(r)
  ELSE Failure("ERROR_EXECUTION_FAILED")

(* What each handler makes of the enclave's result.                         *)
Reply(c, r) ==
  IF r.status = "OK" THEN Success(r)
  ELSE Failure(CASE c.op = "retrieve" -> "ERROR_NOT_FOUND"
                 [] c.op = "attest"   -> "ERROR_INTERNAL"
                 [] OTHER             -> "ERROR_EXECUTION_FAILED")

LeaveEnclave ==
  /\ pc = "in_enclave"
  /\ Enc!End(Main)
  /\ resp' = Reply(call[Main], ret[Main])
  /\ Goto("send")
  /\ UNCHANGED <<flagVars, cur, kernelVars, conn, envVars>>

(* A call whose enclave was freed under it: it crashes, or returns some     *)
(* result of its type.                                                      *)
FreedResults(c) ==
  {Error("ERROR_CRYPTO_FAILURE")} \cup
  CASE c.op = "store"    -> {OkVoid}
    [] c.op = "attest"   -> {OkAttested}
    [] c.op = "retrieve" -> {OkData(d) : d \in Data}
    [] c.op = "load"     -> {OkHandle(h) : h \in Handles}
    [] c.op = "invoke"   -> {OkInvoked(c.data)}

UseAfterFree ==
  /\ pc = "dangling"
  /\ \/ Die("segv")
     \/ /\ \E r \in FreedResults(call[Main]) : resp' = Reply(call[Main], r)
        /\ Goto("send")
        /\ phase' = [phase EXCEPT ![Main] = "idle"]
        /\ call' = [call EXCEPT ![Main] = NoCall]
        /\ UNCHANGED <<flagVars, cur, life, kv, mods, ret, kernelVars, conn>>
  /\ UNCHANGED envVars

-----------------------------------------------------------------------------
(* SendSuccessResponse and SendErrorResponse.                               *)
ResponseSize(r) ==
  CASE "data" \in DOMAIN r.value   -> DataSize[r.value.data]
    [] "params" \in DOMAIN r.value -> DataSize[r.value.params] + 1
    [] OTHER -> 0

Deliver(cn, r) == [cn EXCEPT ![cur].inbox = Append(@, r)]

(* HandleShutdown stops the loop once it has answered.                      *)
AfterSend ==
  running_' = (running_ /\ ~(Request.cmd = "shutdown"
                             /\ resp.status = "SUCCESS"))

Sent(r) ==
  /\ conn' = Deliver(conn, r)
  /\ AfterSend
  /\ Goto("close")
  /\ UNCHANGED <<socket_fd_, g_server, clientVars, enclaveVars, kernelVars,
                 envVars>>

Send ==
  /\ pc = "send" /\ ~conn[cur].shut
  /\ ResponseSize(resp) <= SNDBUF
  /\ Sent(resp)

(* A response larger than the socket's buffer waits for the client to read. *)
(* If the client closes instead, send returns what it had sent.             *)
SendBlocks ==
  /\ pc = "send" /\ ~conn[cur].shut
  /\ ResponseSize(resp) > SNDBUF
  /\ Move("send", "sending")

Drain == pc = "sending" /\ ~conn[cur].shut /\ Sent(resp)

SendShort == pc = "sending" /\ conn[cur].shut /\ Sent(Truncated(resp))

(* Nothing ignores SIGPIPE.                                                 *)
SendPipe ==
  /\ pc = "send" /\ conn[cur].shut
  /\ Die("killed")
  /\ UNCHANGED envVars

CloseClient ==
  /\ pc = "close"
  /\ conn' = [conn EXCEPT ![cur].state = "done"]
  /\ cur' = NoConn /\ resp' = NoReply
  /\ Goto("loop")
  /\ UNCHANGED <<flagVars, enclaveVars, kernelVars, envVars>>

-----------------------------------------------------------------------------
(* The end of main.  A failed Initialize leaves g_server set.               *)
Clear ==
  /\ pc = "clear"
  /\ g_server' = FALSE
  /\ Goto("dtor")
  /\ UNCHANGED <<running_, socket_fd_, clientVars, outsideVars, envVars>>

InitFailed == Move("init_failed", "dtor")

(* main returns: ~EnclaveServer runs Shutdown.                              *)
Destruct ==
  /\ pc = "dtor"
  /\ ShutdownEffect(conn)
  /\ Goto("returned")
  /\ UNCHANGED <<g_server, clientVars, phase, call, ret, envVars>>

(* The process ends, its static objects having been destroyed.              *)
ProcessExit ==
  /\ pc = "returned"
  /\ g_server' = FALSE
  /\ Goto("exited")
  /\ UNCHANGED <<running_, socket_fd_, clientVars, outsideVars, envVars>>

-----------------------------------------------------------------------------
(* Signals.  signal() installs the handler with SA_RESTART, so a system     *)
(* call that has transferred nothing is resumed; one that has moved some    *)
(* bytes returns short.                                                     *)
NewSignal ==
  /\ signals < MaxSignals
  /\ signals' = signals + 1
  /\ UNCHANGED <<faults, restarts>>

(* Before main has installed the handlers a signal ends the process.        *)
SignalDefault == pc = "boot" /\ NewSignal /\ Die("killed")

(* signal_handler with g_server null does nothing.                          *)
SignalIgnored ==
  /\ pc \notin Ended \cup {"boot"} /\ ~g_server
  /\ NewSignal
  /\ UNCHANGED <<processVars, kernelVars, conn>>

(* signal_handler runs Shutdown in the middle of whatever main was doing.   *)
InCall == pc = "in_enclave" /\ phase[Main] = "pending"

SignalShutdown ==
  /\ g_server
  /\ NewSignal
  /\ \/ /\ pc = "recv_payload" /\ ArrivedFrom(cur) = "header"
        /\ Goto("send") /\ resp' = Failure("ERROR_INVALID_PARAMS")
        /\ ShutdownEffect(conn)
     \/ /\ pc = "sending"
        /\ Goto("close") /\ UNCHANGED resp
        /\ ShutdownEffect(Deliver(conn, Truncated(resp)))
     \/ /\ InCall
        /\ Goto("dangling") /\ UNCHANGED resp
        /\ ShutdownEffect(conn)
     \/ /\ pc # "sending" /\ ~InCall
        /\ UNCHANGED <<pc, resp>>
        /\ ShutdownEffect(conn)
  /\ UNCHANGED <<g_server, cur, phase, call, ret>>

(* g_server still points to the server that main has destroyed: Shutdown    *)
(* finds what was left on the stack (SignalShutdown), or the process dies.  *)
SignalDestroyed == pc = "returned" /\ g_server /\ NewSignal /\ Die("segv")

-----------------------------------------------------------------------------
(* The rest of the world.                                                   *)
Restart ==
  /\ pc \in Ended
  /\ restarts < MaxRestarts
  /\ restarts' = restarts + 1
  /\ Goto("boot")
  /\ UNCHANGED <<flagVars, clientVars, outsideVars, signals, faults>>

(* Mutant of HasRoom: listen sets no limit.                                 *)
NoLimit == TRUE

HasRoom == Len(queue) <= BACKLOG

(* connect succeeds while the backlog has room, before accept is called.    *)
Connect(c, r) ==
  /\ conn[c].state = "off"
  /\ path = "live" /\ socket_fd_ = "listening"
  /\ HasRoom
  /\ queue' = Append(queue, c)
  /\ conn' = [conn EXCEPT ![c].state = "queued", ![c].req = r]
  /\ UNCHANGED <<processVars, path, envVars>>

(* More of the request arrives, in pieces of any size.                      *)
SendMore(c) ==
  /\ conn[c].state \in {"queued", "open"} /\ ~conn[c].shut
  /\ \E i, j \in DOMAIN Arrivals :
       /\ Arrivals[i] = conn[c].sent
       /\ i < j
       /\ conn' = [conn EXCEPT ![c].sent = Arrivals[j]]
  /\ UNCHANGED <<processVars, kernelVars, envVars>>

(* A client gives up before it has been answered.                           *)
HangUp(c) ==
  /\ EarlyClose
  /\ conn[c].state \in {"queued", "open"} /\ ~conn[c].shut
  /\ conn[c].inbox = <<>>
  /\ conn' = [conn EXCEPT ![c].shut = TRUE]
  /\ UNCHANGED <<processVars, kernelVars, envVars>>

-----------------------------------------------------------------------------
Starts == Boot \/ Publish \/ CreateEnclave \/ CreateSocket \/ Unlink \/ Bind
          \/ Listen \/ BindOrListenFail \/ CheckInitialized \/ SetRunning
Serves == Loop \/ Accept \/ AcceptFail \/ RecvHeader \/ RecvPayload
          \/ Dispatch \/ CallEnclave \/ CallNull \/ InEnclave \/ LeaveEnclave
          \/ UseAfterFree \/ Send \/ SendBlocks \/ SendPipe \/ SendShort
          \/ CloseClient
Leaves == Clear \/ InitFailed \/ Destruct \/ ProcessExit
MainStep == Starts \/ Serves \/ Leaves

Signal == SignalDefault \/ SignalIgnored \/ SignalShutdown \/ SignalDestroyed

Next ==
  \/ MainStep
  \/ Drain
  \/ Signal
  \/ Restart
  \/ \E c \in Conns : \/ \E r \in Requests : Connect(c, r)
                      \/ SendMore(c)
                      \/ HangUp(c)

Spec == Init /\ [][Next]_vars

(* The kernel schedules the process whenever it is not blocked.             *)
FairSpec == Spec /\ WF_vars(MainStep)

(* Clients that keep their side of the protocol: they send their whole      *)
(* request and read the response.                                           *)
GoodClients == WF_vars(Drain) /\ \A c \in Conns : WF_vars(SendMore(c))
FairClientsSpec == FairSpec /\ GoodClients

-----------------------------------------------------------------------------
(* Properties.                                                              *)

(* Whatever path HandleClient takes, error returns, a client gone silent    *)
(* halfway and a signal in any blocked call included, it sends exactly one  *)
(* response before the connection is closed, and no connection ever gets a  *)
(* second one.                                                              *)
OneResponse ==
  /\ pc = "close" => Len(conn[cur].inbox) = 1
  /\ \A c \in Conns :
       /\ Len(conn[c].inbox) <= 1
       /\ conn[c].inbox # <<>> /\ conn[c].state = "open" => pc = "close"

(* The contents of a live enclave change only on behalf of a request that   *)
(* arrived completely, whose header, checksum and body HandleClient and     *)
(* ValidateMessage accepted; no other request leaves a trace in it.         *)
OnlyValidRequestsCount ==
  [][life = "alive" /\ life' = "alive" /\ <<kv, mods>>' # <<kv, mods>> =>
       /\ cur \in Conns
       /\ conn[cur].sent = "all"
       /\ conn[cur].req.fault = "none"
       /\ conn[cur].req.call = call[Main]]_vars

(* A client that was told SUCCESS can rely on it for as long as the enclave *)
(* it talked to lives: the key it stored is there, and the handle LoadModule *)
(* gave it names the module it sent.                                        *)
Acknowledged(c) == Len(conn[c].inbox) = 1 /\ conn[c].inbox[1].status = "SUCCESS"

AcknowledgedIsKept ==
  \A c \in Conns :
    LET q == conn[c].req.call
    IN  Acknowledged(c) /\ conn[c].by = restarts /\ life = "alive" =>
          /\ q.op = "store" => q.name \in DOMAIN kv
          /\ q.op = "load" =>
               LET h == conn[c].inbox[1].value.handle
               IN  h \in DOMAIN mods /\ mods[h] = q.data

(* Initialize fails only when a system call lacks a resource or a signal    *)
(* interferes: a socket file left by a killed server is no obstacle.        *)
InitFailsForCause == pc = "init_failed" => faults > 0 \/ signals > 0

(* A connection is taken up only by a server that is running and has its    *)
(* enclave.  A signal in the middle of Initialize can leave a listening     *)
(* socket behind the enclave it has reset; Run must then not serve.         *)
AcceptsWithEnclave ==
  [][cur = NoConn /\ cur' # NoConn => running_ /\ life = "alive"]_vars

(* With clients that send what they announce and read their answer, every   *)
(* connection the kernel queued is answered in its turn, unless the server  *)
(* is shut down first.                                                      *)
Answered ==
  \A c \in Conns :
    conn[c].state = "queued" ~>
      \/ conn[c].inbox # <<>>
      \/ conn[c].state = "done" /\ socket_fd_ = "closed"

(* "Server running. Press Ctrl+C to stop.": once Shutdown, from the signal  *)
(* handler or from a SHUTDOWN command, has cleared running_ under the       *)
(* serving loop, the process comes to an end.                               *)
StopsWhenTold == (pc \in Serving /\ ~running_) ~> pc \in Ended

(* The enclave is not freed while a handler's call is inside it.            *)
EnclaveOutlivesCalls == phase[Main] = "pending" => life = "alive"

(* No client can end the server except by a SHUTDOWN command: without a     *)
(* signal the process is never killed.                                      *)
ClientsCannotKill == signals = 0 => pc \notin {"killed", "segv"}
=============================================================================
