---------------------------- MODULE EnclaveClient -----------------------------
(***************************************************************************)
(* The example client (client_example.cpp) against the server: a process   *)
(* that connects, makes its calls and reads their responses, while the     *)
(* server is signalled, fails, dies and is restarted, and other clients    *)
(* come and go.                                                            *)
(***************************************************************************)
EXTENDS EnclaveServer, FiniteSets

CONSTANTS
  MyConns,    \* the connections this client makes, one per Connect
  Program,    \* what it does, in order
  MaxRetries  \* bound: times its user starts a failed request over

VARIABLES
  cpc,           \* "run", "send", "recv", "exit0", "exit1" or "killed"
  step,          \* where in Program it is
  fd,            \* its socket_fd_
  module_handle, \* the handle LoadModule gave it
  succeeded,     \* the connections on which a call returned true
  retries

myVars == <<cpc, step, fd, module_handle, succeeded, retries>>
clientSpecVars == <<vars, myVars>>

-----------------------------------------------------------------------------
(* The methods of EnclaveClient: the request each one builds.  The handle   *)
(* of an invoke is filled in when the call is made.                         *)
LoadModule(d)        == [op |-> "load", data |-> d]
InvokeFunction(n, p) == [op |-> "invoke", handle |-> 0, name |-> n, data |-> p]
StoreData(k, d)      == [op |-> "store", name |-> k, data |-> d]
RetrieveData(k)      == [op |-> "retrieve", name |-> k]
GetAttestation       == [op |-> "attest"]
Connection           == [op |-> "connect"]
Disconnection        == [op |-> "disconnect"]

(* main: everything on one connection.                                      *)
ExampleMain(code, params, key, secret) ==
  <<Connection, LoadModule(code), InvokeFunction(TestFunction, params),
    StoreData(key, secret), RetrieveData(key), GetAttestation>>

(* A user of the class who makes a connection for every call.               *)
OneEach(calls) ==
  [i \in 1..3 * Len(calls) |->
     CASE i % 3 = 1 -> Connection
       [] i % 3 = 2 -> calls[(i + 1) \div 3]
       [] OTHER     -> Disconnection]

(* A program connects before it calls: SendRequest does not come to its     *)
(* return for want of a socket.                                             *)
ASSUME ClientAssumption ==
  /\ MyConns \subseteq Conns
  /\ MaxRetries \in Nat
  /\ Program \in Seq(Calls \cup {Connection, Disconnection})
  /\ Program # <<>> /\ Program[1] = Connection
  /\ \A i \in 1..Len(Program) - 1 :
       Program[i] = Disconnection => Program[i + 1] \notin Calls

(* Programs, and company, that more can be said of.  A program that loads   *)
(* one module, before it invokes anything.                                  *)
OneModule ==
  \A i, j \in DOMAIN Program :
    Program[i].op = "load" =>
      /\ Program[j].op = "load" => Program[j].data = Program[i].data
      /\ Program[j].op = "invoke" => i < j

(* One call on each connection, which is what the server answers.           *)
OneCallEach ==
  \A i \in DOMAIN Program :
    /\ Program[i] = Connection =>
         i + 1 \in DOMAIN Program /\ Program[i + 1] \in Calls
    /\ Program[i] \in Calls =>
         i - 1 \in DOMAIN Program /\ Program[i - 1] = Connection

(* Other clients that wait for their answer and do not stop the server.     *)
KindOthers == ~EarlyClose /\ \A r \in Requests : r.cmd # "shutdown"

(* Nobody else loads the module this client loads.                          *)
OwnModule ==
  \A r \in Requests, i \in DOMAIN Program :
    r.call.op = "load" /\ Program[i].op = "load" =>
      r.call.data # Program[i].data

-----------------------------------------------------------------------------
ClientTypeOK ==
  /\ cpc \in {"run", "send", "recv", "exit0", "exit1", "killed"}
  /\ step \in 1..Len(Program) + 1
  /\ fd \in MyConns \cup {NoConn}
  /\ module_handle \in Handles \cup {0}
  /\ succeeded \subseteq MyConns
  /\ retries \in 0..MaxRetries
  /\ cpc \in {"send", "recv"} => fd # NoConn /\ conn[fd].req # NoRequest

(* main leaves module_handle uninitialized.                                 *)
ClientInit ==
  /\ Init
  /\ cpc = "run" /\ step = 1 /\ fd = NoConn
  /\ module_handle \in Handles \cup {0}
  /\ succeeded = {} /\ retries = 0

At(ops) == cpc = "run" /\ step <= Len(Program) /\ Program[step].op \in ops

(* The kernel closes what Disconnect or the end of the process closes.      *)
Closed == IF fd = NoConn THEN conn ELSE [conn EXCEPT ![fd].shut = TRUE]

OnlyConn == UNCHANGED <<processVars, kernelVars, envVars>>

(* A call that returns false: main returns 1.  A user who tries again does  *)
(* so from the last Connect on.                                             *)
LastConnect ==
  CHOOSE i \in 1..step :
    /\ Program[i] = Connection
    /\ \A j \in i + 1..step : Program[j] # Connection

ReturnFalse ==
  /\ \/ retries = MaxRetries /\ cpc' = "exit1" /\ UNCHANGED <<step, retries>>
     \/ /\ retries < MaxRetries
        /\ retries' = retries + 1
        /\ cpc' = "run" /\ step' = LastConnect
  /\ fd' = NoConn
  /\ conn' = Closed
  /\ OnlyConn
  /\ UNCHANGED <<module_handle, succeeded>>

(* Connections not made yet; which one a Connect makes does not matter.     *)
Unused == {c \in MyConns : conn[c].state = "off"}

(* EnclaveClient::Connect.  connect waits while the backlog is full.        *)
ClientConnect ==
  /\ At({"connect"})
  /\ Unused # {}
  /\ LET c == CHOOSE u \in Unused : TRUE
     IN  Connect(c, NoRequest) /\ fd' = c
  /\ step' = step + 1
  /\ UNCHANGED <<cpc, module_handle, succeeded, retries>>

(* Nobody listens, or socket() itself fails for want of a descriptor.       *)
ConnectFail ==
  /\ At({"connect"})
  /\ path # "live" \/ socket_fd_ # "listening" \/ faults < MaxFaults
  /\ ReturnFalse

Disconnect ==
  /\ At({"disconnect"})
  /\ conn' = Closed
  /\ fd' = NoConn
  /\ step' = step + 1
  /\ OnlyConn
  /\ UNCHANGED <<cpc, module_handle, succeeded, retries>>

-----------------------------------------------------------------------------
(* SendRequest.  The server reads one request per connection; a second one  *)
(* stays in the socket's buffer.                                            *)
Reused == fd \in succeeded

Asked ==
  IF Program[step].op = "invoke"
  THEN [Program[step] EXCEPT !.handle = module_handle] ELSE Program[step]

(* Mutant of Built: the request is left empty.                              *)
NotBuilt == conn

Built ==
  IF Reused THEN conn
  ELSE [conn EXCEPT ![fd].req = [fault |-> "none", cmd |-> "call",
                                 call |-> Asked]]

StartCall ==
  /\ At({"load", "invoke", "store", "retrieve", "attest"})
  /\ cpc' = "send"
  /\ conn' = Built
  /\ OnlyConn
  /\ UNCHANGED <<step, fd, module_handle, succeeded, retries>>

(* One send of the whole message: the kernel may pass one that has a        *)
(* payload on in pieces, the first of which has the header.                 *)
ClientSend ==
  /\ cpc = "send" /\ conn[fd].state # "done"
  /\ \/ Reused /\ cpc' = "recv" /\ UNCHANGED conn
     \/ /\ ~Reused
        /\ \E piece \in {"header", "all"} \ {conn[fd].sent} :
             /\ piece = "header" => HasPayload(conn[fd].req)
             /\ conn' = [conn EXCEPT ![fd].sent = piece]
             /\ cpc' = IF piece = "all" THEN "recv" ELSE "send"
  /\ OnlyConn
  /\ UNCHANGED <<step, fd, module_handle, succeeded, retries>>

(* Nothing ignores SIGPIPE here either: it comes when nothing of this       *)
(* message has gone out yet.                                                *)
ClientPipe ==
  /\ cpc = "send" /\ conn[fd].state = "done"
  /\ Reused \/ conn[fd].sent = "nothing"
  /\ cpc' = "killed"
  /\ fd' = NoConn
  /\ UNCHANGED <<vars, step, module_handle, succeeded, retries>>

(* Otherwise send returns how much has, and SendRequest goes on.            *)
ClientSendShort ==
  /\ cpc = "send" /\ conn[fd].state = "done"
  /\ ~Reused /\ conn[fd].sent # "nothing"
  /\ cpc' = "recv"
  /\ UNCHANGED <<vars, step, fd, module_handle, succeeded, retries>>

(* recv reads on while the server is still sending.                         *)
ClientDrain == cpc = "recv" /\ cur = fd /\ Drain /\ UNCHANGED myVars

HasResponse == ~Reused /\ conn[fd].inbox # <<>>
Response == conn[fd].inbox[1]

(* Mutant of NewHandle: the response's payload is not looked at.            *)
OldHandle == module_handle

NewHandle == IF Program[step].op = "load"
             THEN Response.value.handle ELSE module_handle

ReturnTrue ==
  /\ cpc = "recv" /\ HasResponse /\ Response.status = "SUCCESS"
  /\ module_handle' = NewHandle
  /\ succeeded' = succeeded \cup {fd}
  /\ cpc' = "run" /\ step' = step + 1
  /\ UNCHANGED <<vars, fd, retries>>

(* Mutants of EndOfStream: a recv that returns 0 is made again; recv does   *)
(* not wait for the response.                                               *)
NeverEnds == FALSE
EndsAtOnce == TRUE

(* recv returns short once the connection is closed.                        *)
EndOfStream == conn[fd].state = "done"

(* An error status, or a response that is missing or incomplete.            *)
ResponseBad ==
  /\ cpc = "recv"
  /\ \/ HasResponse /\ Response.status \notin {"SUCCESS", "truncated"}
     \/ HasResponse /\ Response.status = "truncated" /\ EndOfStream
     \/ ~HasResponse /\ EndOfStream
  /\ ReturnFalse

(* The end of main runs the destructor.                                     *)
ClientExit ==
  /\ cpc = "run" /\ step > Len(Program)
  /\ cpc' = "exit0"
  /\ conn' = Closed
  /\ fd' = NoConn
  /\ OnlyConn
  /\ UNCHANGED <<step, module_handle, succeeded, retries>>

-----------------------------------------------------------------------------
ClientStep ==
  \/ ClientConnect \/ ConnectFail \/ Disconnect \/ StartCall \/ ClientSend
  \/ ClientPipe \/ ClientSendShort \/ ClientDrain \/ ReturnTrue
  \/ ResponseBad \/ ClientExit

(* The other clients behave as they do in EnclaveServer.                    *)
OthersStep ==
  /\ \/ cur \notin MyConns /\ Drain
     \/ \E c \in Conns \ MyConns :
          (\E r \in Requests : Connect(c, r)) \/ SendMore(c) \/ HangUp(c)
  /\ UNCHANGED myVars

ServerStep == (MainStep \/ Signal \/ Restart) /\ UNCHANGED myVars

ClientNext == ServerStep \/ ClientStep \/ OthersStep

ClientSpec == ClientInit /\ [][ClientNext]_clientSpecVars

(* Both processes are scheduled, and the others finish what they began.     *)
ClientFairSpec ==
  /\ ClientSpec
  /\ WF_clientSpecVars(MainStep /\ UNCHANGED myVars)
  /\ WF_clientSpecVars(ClientStep)
  /\ WF_clientSpecVars(cur \notin MyConns /\ Drain /\ UNCHANGED myVars)
  /\ \A c \in Conns \ MyConns : WF_clientSpecVars(SendMore(c)
                                                  /\ UNCHANGED myVars)

-----------------------------------------------------------------------------
(* main prints "All tests passed!" unless something went wrong on the other *)
(* side: it fails, or dies, only if the server was not there, was disturbed *)
(* or answered one of its requests with an error.                           *)
FailsForCause ==
  cpc \in {"exit1", "killed"} =>
    \/ signals > 0 \/ faults > 0
    \/ Program[step] = Connection
    \/ \E c \in MyConns : conn[c].inbox # <<>>
                          /\ conn[c].inbox[1].status # "SUCCESS"

(* A call that returned false has left nothing in the server process that   *)
(* goes on living: however often the client repeats failed calls, the       *)
(* enclave holds no module more often than the client set out to load it.   *)
LoadSteps(d) == {i \in DOMAIN Program : /\ Program[i].op = "load"
                                       /\ Program[i].data = d}

Copies(d) == {h \in DOMAIN mods : mods[h] = d}

LoadedOnce ==
  \A i \in DOMAIN Program : Program[i].op = "load" =>
    LET d == Program[i].data
    IN  Cardinality(Copies(d)) <= Cardinality(LoadSteps(d))

(* A call that succeeded ran in the module this client had loaded, not in   *)
(* one of another client's, if both requests met the same server process.   *)
InvokedOwnModule ==
  \A c, l \in succeeded :
    LET q == conn[c].req.call
    IN  /\ q.op = "invoke" /\ conn[l].req.call.op = "load"
        /\ conn[c].by = conn[l].by
        /\ conn[c].by = restarts /\ life = "alive"
        => q.handle \in DOMAIN mods /\ mods[q.handle] = conn[l].req.call.data

(* The client comes to an end whatever becomes of the server: no recv waits *)
(* for a response that cannot come any more.                                *)
SessionEnds == <>(cpc \in {"exit0", "exit1", "killed"})
=============================================================================
