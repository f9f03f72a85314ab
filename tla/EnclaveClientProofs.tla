-------------------------- MODULE EnclaveClientProofs --------------------------
(***************************************************************************)
(* The safety of the client next to the server, proved for any program it  *)
(* runs, any other clients, and any signals, faults, restarts and retries. *)
(* The server's part of the invariant is the one of EnclaveServerProofs,   *)
(* whose steps allow for clients of every kind; what is added here relates *)
(* where the client is in its program to what it has on its connections,   *)
(* and that to what the server has done.                                   *)
(***************************************************************************)
EXTENDS EnclaveClient, EnclaveServerProofs, WellFoundedInduction

MyRequests == [fault : {"none"}, cmd : {"call"}, call : Calls]

InCalls(i) == i \in DOMAIN Program /\ Program[i] \in Calls

(* Where the client is, and what it has on its connections.                 *)
ControlInv ==
  /\ cpc \in {"send", "recv"} => InCalls(step) /\ fd # NoConn
  /\ cpc = "run" /\ fd = NoConn => ~InCalls(step)
  /\ cpc \in {"exit0", "exit1", "killed"} => fd = NoConn
  /\ fd # NoConn => conn[fd].state # "off"
  /\ fd # NoConn /\ fd \notin succeeded =>
       /\ step - 1 \in DOMAIN Program /\ Program[step - 1] = Connection
       /\ cpc = "run" => conn[fd].sent = "nothing"
       /\ cpc = "send" => conn[fd].sent # "all"
       /\ cpc \in {"send", "recv"} =>
            conn[fd].req = [fault |-> "none", cmd |-> "call", call |-> Asked]
  /\ \A c \in succeeded : Acknowledged(c)
  /\ \A c \in MyConns :
       /\ conn[c].req \in MyRequests \cup {NoRequest}
       /\ conn[c].sent \in {"header", "nothing", "all"}
       /\ conn[c].sent = "header" => HasPayload(conn[c].req)

ClientInductive ==
  /\ Inductive
  /\ OwnRequests(Conns \ MyConns)
  /\ ClientTypeOK
  /\ ControlInv

-----------------------------------------------------------------------------
Loaded(c) == conn[c].req.call.op = "load"

(* No retry comes back to step j.                                           *)
Passed(j) == \E i \in DOMAIN Program : j < i /\ i <= step
                                       /\ Program[i] = Connection

LoadInv ==
  \A c \in MyConns :
    Loaded(c) => \E i \in DOMAIN Program : Program[i] = conn[c].req.call

(* The handle an invoke went out with is the one the client still has.      *)
InvokeInv ==
  \A c \in MyConns :
    conn[c].req.call.op = "invoke" =>
      /\ conn[c].req.call.handle = module_handle
      /\ \A j \in DOMAIN Program : Program[j].op = "load" => Passed(j)

(* Calls are taken up in the order they are made.                           *)
OrderInv ==
  fd # NoConn /\ fd \notin succeeded
    /\ (conn[fd].state = "open" \/ conn[fd].inbox # <<>>)
    => \A l \in succeeded : conn[l].by <= conn[fd].by

(* The handle is from the last process that has loaded the module.          *)
HandleInv ==
  \A m \in succeeded :
    Loaded(m) =>
      \E l \in succeeded : /\ Loaded(l) /\ conn[m].by <= conn[l].by
                           /\ conn[l].inbox[1].value.handle = module_handle

ModuleInv == LoadInv /\ InvokeInv /\ OrderInv /\ HandleInv

-----------------------------------------------------------------------------
(* The program.                                                             *)

LEMMA LargestFact ==
  ASSUME NEW n \in Nat, NEW T \in SUBSET (1..n), T # {}
  PROVE  \E i \in T : \A j \in T : j <= i
<1> DEFINE U == {n - i : i \in T}
<1>1. U \subseteq Nat /\ U # {}
  <2>1. \A i \in T : i \in 1..n
    OBVIOUS
  <2>2. U \subseteq Nat
    BY <2>1
  <2>3. PICK i \in T : TRUE
    OBVIOUS
  <2>4. n - i \in U
    OBVIOUS
  <2> HIDE DEF U
  <2> QED
    BY <2>2, <2>4
<1>2. PICK x \in U : \A y \in U : ~(<<y, x>> \in OpToRel(<, Nat))
  BY <1>1, WFMin, NatLessThanWellFounded
<1>3. \A y \in U : ~(y < x)
  BY <1>1, <1>2 DEF OpToRel
<1>4. PICK i \in T : x = n - i
  OBVIOUS
<1>5. ASSUME NEW j \in T PROVE j <= i
  <2>1. n - j \in U
    OBVIOUS
  <2>2. ~(n - j < n - i)
    BY <1>3, <1>4, <2>1
  <2> QED
    BY <2>2
<1> QED
  BY <1>4, <1>5
LEMMA ProgramFact ==
  /\ Len(Program) \in Nat /\ Len(Program) >= 1
  /\ DOMAIN Program = 1..Len(Program)
  /\ \A i \in DOMAIN Program :
       Program[i] \in Calls \cup {Connection, Disconnection}
  /\ 1 \in DOMAIN Program /\ Program[1] = Connection
<1>1. Program \in Seq(Calls \cup {Connection, Disconnection})
      /\ Program # <<>> /\ Program[1] = Connection
  BY ClientAssumption
<1> QED
  BY <1>1

CallOps == {"load", "invoke", "store", "retrieve", "attest"}

(* The operation tells what a step of the program is.                       *)
LEMMA OpFacts ==
  /\ Connection \notin Calls /\ Disconnection \notin Calls
  /\ Connection # Disconnection
  /\ \A i \in DOMAIN Program :
       /\ Program[i].op = "connect" <=> Program[i] = Connection
       /\ Program[i].op = "disconnect" <=> Program[i] = Disconnection
       /\ Program[i].op \in CallOps <=> Program[i] \in Calls
<1>1. Connection.op = "connect" /\ Disconnection.op = "disconnect"
  BY DEF Connection, Disconnection
<1>2. \A q \in Calls : q.op \in CallOps
  BY CallFacts DEF CallOps
<1>3. "connect" \notin CallOps /\ "disconnect" \notin CallOps
  BY DEF CallOps
<1> QED
  BY <1>1, <1>2, <1>3, ProgramFact

(* A retry goes back to a Connect that is not after the step that failed.   *)
LEMMA LastConnectFact ==
  ASSUME step \in DOMAIN Program
  PROVE  /\ LastConnect \in 1..step /\ LastConnect \in DOMAIN Program
         /\ Program[LastConnect] = Connection
         /\ \A j \in 1..step : Program[j] = Connection => j <= LastConnect
<1> DEFINE T == {i \in 1..step : Program[i] = Connection}
<1>1. step \in Nat /\ 1 \in T
  BY ProgramFact
<1>2. PICK i \in T : \A j \in T : j <= i
  BY <1>1, LargestFact
<1>3. \A j \in i + 1..step : Program[j] # Connection
  BY <1>1, <1>2
<1>4. \E k \in 1..step : /\ Program[k] = Connection
                         /\ \A j \in k + 1..step : Program[j] # Connection
  BY <1>2, <1>3
<1>5. /\ LastConnect \in 1..step /\ Program[LastConnect] = Connection
      /\ \A j \in LastConnect + 1..step : Program[j] # Connection
  BY <1>4 DEF LastConnect
<1>6. ASSUME NEW j \in 1..step, Program[j] = Connection
      PROVE  j <= LastConnect
  BY <1>1, <1>5, <1>6
<1>7. LastConnect \in DOMAIN Program
  BY <1>1, <1>5, ProgramFact
<1> QED
  BY <1>5, <1>6, <1>7

(* The call the client makes is the one in its program, with its handle.    *)
LEMMA AskedFact ==
  ASSUME module_handle \in Handles \cup {0}, InCalls(step)
  PROVE  /\ Asked \in Calls /\ Asked.op = Program[step].op
         /\ Asked.op = "load" => Asked = Program[step]
         /\ Asked.op = "invoke" => Asked.handle = module_handle
<1>1. CASE Program[step].op = "invoke"
  <2>1. Program[step] \in InvokeCalls
    BY <1>1 DEF InCalls, Calls, LoadCalls, StoreCalls, RetrieveCalls,
       InvokeCalls, AttestCalls
  <2>2. ASSUME NEW q \in InvokeCalls
        PROVE  LET a == [q EXCEPT !.handle = module_handle]
               IN  a \in InvokeCalls /\ a.op = q.op
                   /\ a.handle = module_handle
    BY DEF InvokeCalls
  <2>3. Asked = [Program[step] EXCEPT !.handle = module_handle]
    BY <1>1 DEF Asked
  <2>4. Asked \in InvokeCalls /\ Asked.op = Program[step].op
        /\ Asked.handle = module_handle
    BY <2>1, <2>2, <2>3
  <2> QED
    BY <1>1, <2>4 DEF Calls
<1>2. CASE Program[step].op # "invoke"
  BY <1>2 DEF InCalls, Asked
<1> QED
  BY <1>1, <1>2

MyRequest == [fault |-> "none", cmd |-> "call", call |-> Asked]

LEMMA MyRequestFact ==
  /\ MyRequests \subseteq AllRequests
  /\ NoRequest \notin MyRequests
  /\ Asked \in Calls => MyRequest \in MyRequests /\ MyRequest.call = Asked
BY DEF MyRequests, MyRequest, AllRequests, RequestFaults, NoRequest

-----------------------------------------------------------------------------
(* The steps of the server and of the other clients.                        *)

OtherStep ==
  \/ ServerStep \/ OthersStep \/ ClientDrain \/ UNCHANGED clientSpecVars

LEMMA MyConnsFact ==
  /\ MyConns \subseteq Conns /\ NoConn \notin MyConns
  /\ Conns \ MyConns \in SUBSET Conns
BY ClientAssumption, ServerAssumption

LEMMA OtherStepFact ==
  ASSUME ClientInductive, OtherStep
  PROVE  /\ Step /\ OwnRequests(Conns \ MyConns)'
         /\ UNCHANGED myVars
         /\ \A c \in MyConns : Handled(c)
<1>a. ConnInv
  BY DEF ClientInductive, Inductive
<1>1. CASE Process /\ UNCHANGED myVars
  <2>1. \A c \in Conns : Handled(c)
    BY <1>1, ProcessEffect DEF ClientInductive, Inductive
  <2> QED
    BY <1>1, <2>1, ProcessRequests, MyConnsFact DEF Step, ClientInductive
<1>2. CASE \E c \in Conns \ MyConns :
             /\ \/ \E r \in Requests : Connect(c, r)
                \/ SendMore(c) \/ HangUp(c)
             /\ UNCHANGED myVars
  <2>1. PICK c \in Conns \ MyConns :
             /\ \/ \E r \in Requests : Connect(c, r)
                \/ SendMore(c) \/ HangUp(c)
             /\ UNCHANGED myVars
    BY <1>2
  <2>2. World /\ OwnRequests(Conns \ MyConns)'
    BY <1>a, <2>1, OthersFact, MyConnsFact DEF ClientInductive
  <2>3. conn \in [Conns -> ConnRecord]
    BY <1>a DEF ConnInv
  <2>4. \A d \in MyConns : conn'[d] = conn[d]
    BY <2>1, <2>3, MyConnsFact DEF Connect, SendMore, HangUp
  <2> QED
    BY <2>1, <2>2, <2>4 DEF Step, Handled
<1>3. CASE UNCHANGED clientSpecVars
  BY <1>3 DEF clientSpecVars, Step, OwnRequests, vars, Handled, ClientInductive
<1> QED
  BY <1>1, <1>2, <1>3 DEF OtherStep, ServerStep, OthersStep, ClientDrain,
     Process

(* What the client knows of its connections, nobody changes for it.         *)
LEMMA KeptControl ==
  ASSUME ClientTypeOK, ControlInv, UNCHANGED myVars,
         \A c \in MyConns : Handled(c)
  PROVE  ClientTypeOK' /\ ControlInv'
<1>1. UNCHANGED <<cpc, step, fd, module_handle, succeeded, retries>>
  BY DEF myVars
<1>2. fd # NoConn => fd \in MyConns /\ Handled(fd)
  BY DEF ClientTypeOK
<1>3. ClientTypeOK'
  BY <1>1, <1>2 DEF ClientTypeOK, Handled
<1>4. \A c \in succeeded : Acknowledged(c)'
  <2>1. \A c \in succeeded : c \in MyConns /\ Acknowledged(c)
    BY DEF ClientTypeOK, ControlInv
  <2>2. \A c \in MyConns : Acknowledged(c) => conn[c].inbox # <<>>
    BY DEF Acknowledged
  <2> QED
    BY <2>1, <2>2 DEF Handled, Acknowledged
<1>5. \A c \in MyConns :
        /\ conn'[c].req \in MyRequests \cup {NoRequest}
        /\ conn'[c].sent \in {"header", "nothing", "all"}
        /\ conn'[c].sent = "header" => HasPayload(conn'[c].req)
  BY DEF ControlInv, Handled
<1>6. Asked' = Asked /\ \A i : InCalls(i)' <=> InCalls(i)
  BY <1>1 DEF Asked, InCalls
<1> QED
  BY <1>1, <1>2, <1>3, <1>4, <1>5, <1>6 DEF ControlInv, Handled

-----------------------------------------------------------------------------
(* The client's own steps.                                                  *)

(* What nobody but the server changes on a connection, and the request.     *)
SameButShut(c) ==
  /\ conn'[c].state = conn[c].state /\ conn'[c].inbox = conn[c].inbox
  /\ conn'[c].by = conn[c].by
  /\ conn'[c].req = conn[c].req /\ conn'[c].sent = conn[c].sent

(* A step of the client that keeps its hands off the other connections.     *)
OwnStep == Step /\ \A c \in Conns \ MyConns : conn'[c] = conn[c]

LEMMA OwnStepFact ==
  ASSUME ClientInductive, OwnStep
  PROVE  Inductive' /\ OwnRequests(Conns \ MyConns)'
BY InductiveStep DEF ClientInductive, OwnStep, OwnRequests

(* Closing a connection says nothing new on it.                             *)
LEMMA CloseFact ==
  ASSUME ConnInv, ClientTypeOK, conn' = Closed, OnlyConn
  PROVE  /\ OwnStep
         /\ \A c \in Conns : SameButShut(c)
         /\ \A c \in Conns \ {fd} : conn'[c] = conn[c]
<1>1. conn \in [Conns -> ConnRecord]
  BY DEF ConnInv
<1>2. CASE fd = NoConn
  BY <1>2 DEF Closed, OnlyConn, OwnStep, Step, vars, SameButShut
<1>3. CASE fd # NoConn
  <2>1. fd \in MyConns /\ fd \in Conns /\ conn[fd] \in ConnRecord
    BY <1>1, <1>3, MyConnsFact DEF ClientTypeOK
  <2>2. ASSUME NEW k \in ConnRecord, NEW d, d = [k EXCEPT !.shut = TRUE]
        PROVE  /\ d \in ConnRecord /\ d.state = k.state /\ d.req = k.req
               /\ d.inbox = k.inbox /\ d.by = k.by /\ d.sent = k.sent
    BY <2>2 DEF ConnRecord
  <2>3. conn' = [conn EXCEPT ![fd] = [conn[fd] EXCEPT !.shut = TRUE]]
    BY <1>3 DEF Closed
  <2> DEFINE k == [conn[fd] EXCEPT !.shut = TRUE]
  <2>4. /\ k \in ConnRecord
        /\ k.state = conn[fd].state /\ k.req = conn[fd].req
        /\ k.inbox = conn[fd].inbox /\ k.by = conn[fd].by
        /\ k.sent = conn[fd].sent
    BY <2>1, <2>2
  <2>5. conn' = [conn EXCEPT ![fd] = k]
    BY <2>3
  <2> HIDE DEF k
  <2>6. conn'[fd] = k /\ \A c \in Conns \ {fd} : conn'[c] = conn[c]
    BY <1>1, <2>1, <2>5
  <2>7. conn[fd].sent # "nothing" =>
          conn[fd].state # "off" /\ conn[fd].req \in AllRequests
    BY <2>1 DEF ConnInv
  <2>8. Touch(fd)
    BY <2>4, <2>5, <2>7 DEF Touch, OnlyConn
  <2>9. OwnStep
    BY <2>1, <2>6, <2>8 DEF OwnStep, Step, World
  <2> QED
    BY <2>4, <2>6, <2>9 DEF SameButShut
<1> QED
  BY <1>2, <1>3

(* The client on a connection that it has closed or is not using.           *)
LEMMA SameControl ==
  ASSUME ConnInv, ControlInv, ClientTypeOK, \A c \in Conns : SameButShut(c),
         succeeded' = succeeded
  PROVE  /\ \A c \in succeeded' : Acknowledged(c)'
         /\ \A c \in MyConns :
              /\ conn'[c].req \in MyRequests \cup {NoRequest}
              /\ conn'[c].sent \in {"header", "nothing", "all"}
              /\ conn'[c].sent = "header" => HasPayload(conn'[c].req)
<1>1. \A c \in MyConns : SameButShut(c)
  BY MyConnsFact
<1>2. \A c \in succeeded : c \in MyConns /\ Acknowledged(c)
  BY DEF ClientTypeOK, ControlInv
<1> QED
  BY <1>1, <1>2 DEF SameButShut, ControlInv, Acknowledged

LEMMA CloseControl ==
  ASSUME ClientInductive, conn' = Closed, OnlyConn, fd' = NoConn,
         UNCHANGED <<module_handle, succeeded>>,
         step' \in 1..Len(Program) + 1, retries' \in 0..MaxRetries,
         \/ cpc' \in {"exit0", "exit1"}
         \/ cpc' = "run" /\ ~InCalls(step')
  PROVE  OwnStep /\ ClientTypeOK' /\ ControlInv'
<1>1. ConnInv /\ ClientTypeOK /\ ControlInv
  BY DEF ClientInductive, Inductive
<1>2. OwnStep /\ \A c \in Conns : SameButShut(c)
  BY <1>1, CloseFact
<1>3. ClientTypeOK'
  BY <1>1 DEF ClientTypeOK
<1>4. /\ \A c \in succeeded' : Acknowledged(c)'
      /\ \A c \in MyConns :
           /\ conn'[c].req \in MyRequests \cup {NoRequest}
           /\ conn'[c].sent \in {"header", "nothing", "all"}
           /\ conn'[c].sent = "header" => HasPayload(conn'[c].req)
  BY <1>1, <1>2, SameControl
<1>5. cpc' = "run" => ~InCalls(step)'
  BY DEF InCalls
<1>6. ControlInv'
  BY <1>4, <1>5 DEF ControlInv
<1> QED
  BY <1>2, <1>3, <1>6

LEMMA ReturnFalseControl ==
  ASSUME ClientInductive, ReturnFalse, step \in DOMAIN Program
  PROVE  OwnStep /\ ClientTypeOK' /\ ControlInv'
<1>1. /\ step \in 1..Len(Program) + 1 /\ retries \in 0..MaxRetries
      /\ MaxRetries \in Nat
  BY ClientAssumption DEF ClientInductive, ClientTypeOK
<1>2. /\ LastConnect \in 1..Len(Program) + 1 /\ ~InCalls(LastConnect)
  BY LastConnectFact, OpFacts, ProgramFact DEF InCalls
<1>3. /\ step' \in 1..Len(Program) + 1 /\ retries' \in 0..MaxRetries
      /\ \/ cpc' \in {"exit0", "exit1"}
         \/ cpc' = "run" /\ ~InCalls(step')
  BY <1>1, <1>2 DEF ReturnFalse
<1> QED
  BY <1>3, CloseControl DEF ReturnFalse

LEMMA AtFact ==
  ASSUME ClientTypeOK, NEW ops, At(ops)
  PROVE  /\ cpc = "run" /\ step \in DOMAIN Program
         /\ Program[step].op \in ops
         /\ step + 1 \in 1..Len(Program) + 1 /\ step + 1 - 1 = step
BY ProgramFact DEF At, ClientTypeOK

LEMMA DisconnectControl ==
  ASSUME ClientInductive, Disconnect
  PROVE  OwnStep /\ ClientTypeOK' /\ ControlInv'
<1>1. /\ ClientTypeOK /\ step \in DOMAIN Program
      /\ Program[step].op = "disconnect"
      /\ step + 1 \in 1..Len(Program) + 1 /\ cpc = "run"
  BY AtFact DEF ClientInductive, Disconnect
<1>2. Program[step] = Disconnection
  BY <1>1, OpFacts
<1>3. ~InCalls(step + 1)
  <2>1. step \in Nat
    BY <1>1, ProgramFact
  <2> QED
    BY <1>1, <1>2, <2>1, ClientAssumption, ProgramFact DEF InCalls
<1>4. retries' \in 0..MaxRetries
  BY <1>1 DEF Disconnect, ClientTypeOK
<1> QED
  BY <1>1, <1>3, <1>4, CloseControl DEF Disconnect

LEMMA ExitControl ==
  ASSUME ClientInductive, ClientExit
  PROVE  OwnStep /\ ClientTypeOK' /\ ControlInv'
<1>1. step' \in 1..Len(Program) + 1 /\ retries' \in 0..MaxRetries
  BY DEF ClientExit, ClientInductive, ClientTypeOK
<1> QED
  BY <1>1, CloseControl DEF ClientExit

(* A new connection, with nothing on it yet.                                *)
LEMMA ClientConnectFact ==
  ASSUME ClientInductive, ClientConnect
  PROVE  /\ OwnStep
         /\ fd' \in MyConns /\ fd' \in Conns
         /\ conn[fd'].state = "off" /\ conn[fd'].sent = "nothing"
         /\ conn[fd'].inbox = <<>>
         /\ conn'[fd'].state = "queued" /\ conn'[fd'].sent = "nothing"
         /\ conn'[fd'].req = NoRequest /\ conn'[fd'].inbox = <<>>
         /\ conn'[fd'].by = conn[fd'].by
         /\ fd' \notin succeeded
         /\ \A c \in Conns \ {fd'} : conn'[c] = conn[c]
         /\ Program[step] = Connection /\ step \in DOMAIN Program
         /\ UNCHANGED <<processVars, path, envVars>>
<1>1. ConnInv /\ ClientTypeOK /\ ControlInv
  BY DEF ClientInductive, Inductive
<1>2. /\ fd' = CHOOSE u \in Unused : TRUE
      /\ Connect(fd', NoRequest) /\ Unused # {}
  BY DEF ClientConnect
<1>3. fd' \in MyConns /\ fd' \in Conns /\ conn[fd'].state = "off"
  BY <1>2, MyConnsFact DEF Unused
<1>4. conn[fd'].sent = "nothing" /\ conn[fd'].inbox = <<>>
  BY <1>1, <1>3 DEF ConnInv
<1>5. NoRequest \in AnyRequest
  BY DEF AnyRequest
<1>6. World
  BY <1>2, <1>3, <1>5 DEF World
<1>7. /\ conn'[fd'].state = "queued" /\ conn'[fd'].req = NoRequest
      /\ conn'[fd'].sent = conn[fd'].sent /\ conn'[fd'].by = conn[fd'].by
      /\ conn'[fd'].inbox = conn[fd'].inbox
      /\ \A c \in Conns \ {fd'} : conn'[c] = conn[c]
      /\ UNCHANGED <<processVars, path, envVars>>
  BY <1>1, <1>2, <1>3, <1>5, ConnectFact
<1>8. OwnStep
  BY <1>3, <1>6, <1>7 DEF OwnStep, Step
<1>9. fd' \notin succeeded
  <2>1. conn[fd'].inbox = <<>> => ~Acknowledged(fd')
    BY DEF Acknowledged
  <2> QED
    BY <1>1, <1>4, <2>1 DEF ControlInv
<1>10. Program[step] = Connection /\ step \in DOMAIN Program
  BY <1>1, AtFact, OpFacts DEF ClientConnect
<1> QED
  BY <1>3, <1>4, <1>7, <1>8, <1>9, <1>10

LEMMA ConnectControl ==
  ASSUME ClientInductive, ClientConnect
  PROVE  OwnStep /\ ClientTypeOK' /\ ControlInv'
<1>1. /\ ClientTypeOK /\ ControlInv /\ cpc' = "run" /\ cpc = "run"
      /\ step' = step + 1
      /\ UNCHANGED <<module_handle, succeeded, retries>>
      /\ step + 1 \in 1..Len(Program) + 1 /\ step + 1 - 1 = step
  BY AtFact DEF ClientInductive, ClientConnect
<1>2. ClientTypeOK'
  BY <1>1, ClientConnectFact DEF ClientTypeOK
<1>3. \A c \in succeeded' : Acknowledged(c)'
  <2>1. \A c \in succeeded : c \in Conns \ {fd'} /\ Acknowledged(c)
    BY <1>1, ClientConnectFact, MyConnsFact DEF ClientTypeOK, ControlInv
  <2> QED
    BY <1>1, <2>1, ClientConnectFact DEF Acknowledged
<1>4. \A c \in MyConns :
        /\ conn'[c].req \in MyRequests \cup {NoRequest}
        /\ conn'[c].sent \in {"header", "nothing", "all"}
        /\ conn'[c].sent = "header" => HasPayload(conn'[c].req)
  BY <1>1, ClientConnectFact, MyConnsFact DEF ControlInv
<1>5. /\ fd' # NoConn /\ fd' \notin succeeded'
      /\ conn'[fd'].state # "off" /\ conn'[fd'].sent = "nothing"
      /\ step' - 1 \in DOMAIN Program /\ Program[step' - 1] = Connection
  BY <1>1, ClientConnectFact, MyConnsFact
<1>6. ControlInv'
  BY <1>1, <1>3, <1>4, <1>5 DEF ControlInv
<1> QED
  BY <1>2, <1>6, ClientConnectFact

(* A step that puts something on the connection the client uses.            *)
LEMMA PutFact ==
  ASSUME ClientInductive, fd \in MyConns, OnlyConn, NEW k \in ConnRecord,
         conn' = [conn EXCEPT ![fd] = k],
         k.state = conn[fd].state, k.inbox = conn[fd].inbox,
         k.by = conn[fd].by,
         conn[fd].sent # "nothing" => k.req = conn[fd].req
                                      /\ k.sent # "nothing",
         conn[fd].sent # "all", k.req \in AllRequests
  PROVE  /\ OwnStep
         /\ conn'[fd] = k /\ \A c \in Conns \ {fd} : conn'[c] = conn[c]
<1>1. conn \in [Conns -> ConnRecord] /\ ControlInv /\ fd \in Conns
  BY MyConnsFact DEF ClientInductive, Inductive, ConnInv
<1>2. conn'[fd] = k /\ \A c \in Conns \ {fd} : conn'[c] = conn[c]
  BY <1>1
<1>3. k.state # "off"
  BY <1>1, MyConnsFact DEF ControlInv
<1>4. Touch(fd)
  BY <1>3 DEF Touch, OnlyConn
<1> QED
  BY <1>1, <1>2, <1>4 DEF OwnStep, Step, World

LEMMA PutControl ==
  ASSUME ClientInductive, fd \in MyConns, fd \notin succeeded,
         \A c \in Conns \ {fd} : conn'[c] = conn[c],
         conn'[fd].state = conn[fd].state,
         conn'[fd].req = MyRequest, Asked \in Calls,
         conn'[fd].sent \in {"header", "nothing", "all"},
         conn'[fd].sent = "header" => HasPayload(MyRequest),
         InCalls(step), cpc' \in {"send", "recv"},
         cpc' = "send" => conn'[fd].sent # "all",
         UNCHANGED <<step, fd, module_handle, succeeded, retries>>
  PROVE  ClientTypeOK' /\ ControlInv'
<1>1. ClientTypeOK /\ ControlInv
  BY DEF ClientInductive
<1>2. MyRequest \in MyRequests /\ MyRequest # NoRequest
  BY MyRequestFact
<1>3. ClientTypeOK'
  BY <1>1, <1>2, MyConnsFact DEF ClientTypeOK
<1>4. \A c \in succeeded' : Acknowledged(c)'
  <2>1. \A c \in succeeded : c \in Conns \ {fd} /\ Acknowledged(c)
    BY <1>1, MyConnsFact DEF ClientTypeOK, ControlInv
  <2> QED
    BY <2>1 DEF Acknowledged
<1>5. \A c \in MyConns :
        /\ conn'[c].req \in MyRequests \cup {NoRequest}
        /\ conn'[c].sent \in {"header", "nothing", "all"}
        /\ conn'[c].sent = "header" => HasPayload(conn'[c].req)
  BY <1>1, <1>2, MyConnsFact DEF ControlInv
<1>6. Asked' = Asked /\ InCalls(step)'
  BY DEF Asked, InCalls
<1>7. /\ step' - 1 \in DOMAIN Program /\ Program[step' - 1] = Connection
      /\ conn'[fd].state # "off" /\ fd # NoConn
  BY <1>1, MyConnsFact DEF ControlInv
<1>8. ControlInv'
  BY <1>4, <1>5, <1>6, <1>7 DEF ControlInv, MyRequest
<1> QED
  BY <1>3, <1>8

(* A call begins: the request is built, unless the connection has had one.  *)
LEMMA StartCallFact ==
  ASSUME ClientInductive, StartCall
  PROVE  /\ fd \in MyConns /\ fd \in Conns /\ InCalls(step) /\ Asked \in Calls
         /\ cpc = "run" /\ cpc' = "send" /\ OnlyConn
         /\ UNCHANGED <<step, fd, module_handle, succeeded, retries>>
         /\ Reused => conn' = conn
         /\ ~Reused =>
              /\ conn[fd].sent = "nothing" /\ OwnStep
              /\ \A c \in Conns \ {fd} : conn'[c] = conn[c]
              /\ conn'[fd].state = conn[fd].state
              /\ conn'[fd].inbox = conn[fd].inbox
              /\ conn'[fd].by = conn[fd].by
              /\ conn'[fd].req = MyRequest /\ conn'[fd].sent = "nothing"
              /\ conn'[fd].shut <=> conn[fd].shut
<1>1. ConnInv /\ ClientTypeOK /\ ControlInv
  BY DEF ClientInductive, Inductive
<1>2. InCalls(step) /\ cpc = "run"
  <2>1. /\ step \in DOMAIN Program /\ cpc = "run"
        /\ Program[step].op \in CallOps
    BY <1>1, AtFact DEF StartCall, CallOps
  <2> QED
    BY <2>1, OpFacts DEF InCalls
<1>3. fd \in MyConns /\ fd \in Conns
  BY <1>1, <1>2, MyConnsFact DEF ClientTypeOK, ControlInv
<1>4. Asked \in Calls
  BY <1>1, <1>2, AskedFact DEF ClientTypeOK
<1>5. Reused => conn' = conn
  BY DEF StartCall, Built
<1>6. ASSUME ~Reused
      PROVE  /\ conn[fd].sent = "nothing" /\ OwnStep
             /\ \A c \in Conns \ {fd} : conn'[c] = conn[c]
             /\ conn'[fd].state = conn[fd].state
             /\ conn'[fd].inbox = conn[fd].inbox
             /\ conn'[fd].by = conn[fd].by
             /\ conn'[fd].req = MyRequest /\ conn'[fd].sent = "nothing"
             /\ conn'[fd].shut <=> conn[fd].shut
  <2>1. conn[fd].sent = "nothing" /\ conn[fd] \in ConnRecord
    BY <1>1, <1>2, <1>3, <1>6, MyConnsFact DEF ControlInv, Reused, ConnInv
  <2>2. MyRequest \in AllRequests /\ MyRequest \in AnyRequest
    BY <1>4, MyRequestFact DEF AnyRequest
  <2>3. conn' = [conn EXCEPT ![fd] = [conn[fd] EXCEPT !.req = MyRequest]]
    BY <1>6 DEF StartCall, Built, MyRequest
  <2>4. ASSUME NEW k \in ConnRecord, NEW d, d = [k EXCEPT !.req = MyRequest]
        PROVE  /\ d \in ConnRecord /\ d.state = k.state /\ d.sent = k.sent
               /\ d.inbox = k.inbox /\ d.by = k.by /\ d.req = MyRequest
               /\ d.shut <=> k.shut
    BY <2>2, <2>4 DEF ConnRecord
  <2> DEFINE k == [conn[fd] EXCEPT !.req = MyRequest]
  <2>5. /\ k \in ConnRecord
        /\ k.state = conn[fd].state /\ k.sent = conn[fd].sent
        /\ k.inbox = conn[fd].inbox /\ k.by = conn[fd].by
        /\ k.req = MyRequest
        /\ k.shut <=> conn[fd].shut
    BY <2>1, <2>4
  <2>6. conn' = [conn EXCEPT ![fd] = k]
    BY <2>3
  <2> HIDE DEF k
  <2>7. OwnStep /\ conn'[fd] = k /\ \A c \in Conns \ {fd} : conn'[c] = conn[c]
    BY <1>3, <2>1, <2>2, <2>5, <2>6, PutFact DEF StartCall
  <2> QED
    BY <2>1, <2>5, <2>7
<1> QED
  BY <1>2, <1>3, <1>4, <1>5, <1>6 DEF StartCall

(* An answered connection has had a request.                                *)
LEMMA SucceededFact ==
  ASSUME ClientInductive, NEW c \in succeeded
  PROVE  /\ c \in MyConns /\ c \in Conns /\ Acknowledged(c)
         /\ conn[c].inbox # <<>> /\ conn[c].sent # "nothing"
         /\ conn[c].req \in MyRequests
<1>1. ConnInv /\ ClientTypeOK /\ ControlInv /\ AnsweredInv
  BY DEF ClientInductive, Inductive, ResponseInv
<1>2. c \in MyConns /\ c \in Conns /\ Acknowledged(c)
  BY <1>1, MyConnsFact DEF ClientTypeOK, ControlInv
<1>3. conn[c].inbox # <<>>
  BY <1>2 DEF Acknowledged
<1>4. conn[c].sent # "nothing" /\ conn[c].req \in AllRequests
  BY <1>1, <1>2 DEF AnsweredInv, ConnInv
<1>5. NoRequest \notin AllRequests
  BY DEF NoRequest, AllRequests
<1> QED
  BY <1>1, <1>2, <1>3, <1>4, <1>5 DEF ControlInv

(* The client goes on with a second call on an answered connection.         *)
LEMMA ReusedControl ==
  ASSUME ClientInductive, fd \in succeeded, InCalls(step), conn' = conn,
         cpc' \in {"send", "recv"}, OnlyConn,
         UNCHANGED <<step, fd, module_handle, succeeded, retries>>
  PROVE  OwnStep /\ ClientTypeOK' /\ ControlInv'
<1>1. ClientTypeOK /\ ControlInv
  BY DEF ClientInductive
<1>2. OwnStep
  BY DEF OnlyConn, OwnStep, Step, vars
<1>3. fd # NoConn /\ conn[fd].req # NoRequest
  BY SucceededFact, MyConnsFact, MyRequestFact
<1>4. ClientTypeOK'
  BY <1>1, <1>3 DEF ClientTypeOK
<1>5. \A c \in succeeded' : Acknowledged(c)'
  BY <1>1 DEF ControlInv, Acknowledged
<1>6. InCalls(step)'
  BY DEF InCalls
<1>7. ControlInv'
  BY <1>1, <1>3, <1>5, <1>6 DEF ControlInv
<1> QED
  BY <1>2, <1>4, <1>7

LEMMA StartControl ==
  ASSUME ClientInductive, StartCall
  PROVE  OwnStep /\ ClientTypeOK' /\ ControlInv'
<1>1. CASE Reused
  BY <1>1, StartCallFact, ReusedControl DEF Reused
<1>2. CASE ~Reused
  <2>1. ClientTypeOK' /\ ControlInv'
    BY <1>2, StartCallFact, PutControl DEF Reused
  <2> QED
    BY <1>2, <2>1, StartCallFact
<1> QED
  BY <1>1, <1>2

(* Of a request the header arrives first, or all at once.                   *)
LEMMA ClientSendFact ==
  ASSUME ClientInductive, ClientSend
  PROVE  /\ fd \in MyConns /\ fd \in Conns /\ InCalls(step) /\ Asked \in Calls
         /\ cpc = "send" /\ cpc' \in {"send", "recv"} /\ OnlyConn
         /\ conn[fd].state # "done"
         /\ UNCHANGED <<step, fd, module_handle, succeeded, retries>>
         /\ Reused => conn' = conn
         /\ ~Reused =>
              /\ OwnStep
              /\ \A c \in Conns \ {fd} : conn'[c] = conn[c]
              /\ conn'[fd].state = conn[fd].state
              /\ conn'[fd].inbox = conn[fd].inbox
              /\ conn'[fd].by = conn[fd].by
              /\ conn'[fd].req = conn[fd].req /\ conn[fd].req = MyRequest
              /\ conn'[fd].shut <=> conn[fd].shut
              /\ conn[fd].sent # "all"
              /\ conn'[fd].sent \in {"header", "all"}
              /\ conn'[fd].sent = "header" => HasPayload(MyRequest)
              /\ cpc' = "send" => conn'[fd].sent # "all"
<1>1. ConnInv /\ ClientTypeOK /\ ControlInv
  BY DEF ClientInductive, Inductive
<1>2. InCalls(step) /\ fd \in MyConns /\ fd \in Conns
  BY <1>1, MyConnsFact DEF ClientSend, ControlInv, ClientTypeOK
<1>3. Asked \in Calls
  BY <1>1, <1>2, AskedFact DEF ClientTypeOK
<1>4. ASSUME Reused PROVE conn' = conn /\ cpc' = "recv"
  BY <1>4 DEF ClientSend
<1>5. ASSUME ~Reused
      PROVE  /\ OwnStep
             /\ \A c \in Conns \ {fd} : conn'[c] = conn[c]
             /\ conn'[fd].state = conn[fd].state
             /\ conn'[fd].inbox = conn[fd].inbox
             /\ conn'[fd].by = conn[fd].by
             /\ conn'[fd].req = conn[fd].req /\ conn[fd].req = MyRequest
             /\ conn'[fd].shut <=> conn[fd].shut
             /\ conn[fd].sent # "all"
             /\ conn'[fd].sent \in {"header", "all"}
             /\ conn'[fd].sent = "header" => HasPayload(MyRequest)
             /\ cpc' = "send" => conn'[fd].sent # "all"
             /\ cpc' \in {"send", "recv"}
  <2>1. /\ conn[fd].sent # "all" /\ conn[fd] \in ConnRecord
        /\ conn[fd].req = MyRequest
    BY <1>1, <1>2, <1>5, MyConnsFact
       DEF ControlInv, Reused, ConnInv, ClientSend, MyRequest
  <2>2. MyRequest \in AllRequests
    BY <1>3, MyRequestFact
  <2>3. PICK x \in {"header", "all"} :
          /\ conn' = [conn EXCEPT ![fd].sent = x]
          /\ x = "header" => HasPayload(conn[fd].req)
          /\ cpc' = IF x = "all" THEN "recv" ELSE "send"
    BY <1>5 DEF ClientSend
  <2>4. x \in Arrived
    BY DEF Arrived, Arrivals
  <2>5. ASSUME NEW k \in ConnRecord, NEW d, d = [k EXCEPT !.sent = x]
        PROVE  /\ d \in ConnRecord /\ d.state = k.state /\ d.sent = x
               /\ d.inbox = k.inbox /\ d.by = k.by /\ d.req = k.req
               /\ d.shut <=> k.shut
    BY <2>4, <2>5 DEF ConnRecord
  <2> DEFINE k == [conn[fd] EXCEPT !.sent = x]
  <2>6. /\ k \in ConnRecord
        /\ k.state = conn[fd].state /\ k.sent = x
        /\ k.inbox = conn[fd].inbox /\ k.by = conn[fd].by
        /\ k.req = conn[fd].req
        /\ k.shut <=> conn[fd].shut
    BY <2>1, <2>5
  <2>7. conn' = [conn EXCEPT ![fd] = k]
    BY <2>3
  <2> HIDE DEF k
  <2>8. OwnStep /\ conn'[fd] = k /\ \A c \in Conns \ {fd} : conn'[c] = conn[c]
    BY <1>2, <2>1, <2>2, <2>6, <2>7, PutFact DEF ClientSend
  <2> QED
    BY <2>1, <2>3, <2>6, <2>8
<1> QED
  BY <1>2, <1>3, <1>4, <1>5 DEF ClientSend

LEMMA SendControl ==
  ASSUME ClientInductive, ClientSend
  PROVE  OwnStep /\ ClientTypeOK' /\ ControlInv'
<1>1. CASE Reused
  BY <1>1, ClientSendFact, ReusedControl DEF Reused
<1>2. CASE ~Reused
  <2>1. ClientTypeOK' /\ ControlInv'
    BY <1>2, ClientSendFact, PutControl DEF Reused
  <2> QED
    BY <1>2, <2>1, ClientSendFact
<1> QED
  BY <1>1, <1>2

LEMMA PipeControl ==
  ASSUME ClientInductive, ClientPipe
  PROVE  OwnStep /\ ClientTypeOK' /\ ControlInv'
<1>1. /\ cpc' = "killed" /\ fd' = NoConn
      /\ UNCHANGED <<vars, step, module_handle, succeeded, retries>>
  BY DEF ClientPipe
<1>2. conn' = conn /\ OwnStep
  BY <1>1 DEF OwnStep, Step, vars
<1>3. ClientTypeOK'
  BY <1>1 DEF ClientInductive, ClientTypeOK
<1>4. \A c \in succeeded' : Acknowledged(c)'
  BY <1>1, <1>2 DEF ClientInductive, ControlInv, Acknowledged
<1>5. ControlInv'
  BY <1>1, <1>2, <1>4 DEF ClientInductive, ControlInv
<1> QED
  BY <1>2, <1>3, <1>5

LEMMA ShortControl ==
  ASSUME ClientInductive, ClientSendShort
  PROVE  OwnStep /\ ClientTypeOK' /\ ControlInv'
<1>1. /\ cpc = "send" /\ cpc' = "recv"
      /\ UNCHANGED <<vars, step, fd, module_handle, succeeded, retries>>
  BY DEF ClientSendShort
<1>2. conn' = conn /\ OwnStep
  BY <1>1 DEF OwnStep, Step, vars
<1>3. ClientTypeOK'
  BY <1>1, <1>2 DEF ClientInductive, ClientTypeOK
<1>4. \A c \in succeeded' : Acknowledged(c)'
  BY <1>1, <1>2 DEF ClientInductive, ControlInv, Acknowledged
<1>5. Asked' = Asked
  BY <1>1 DEF Asked
<1>6. ControlInv'
  BY <1>1, <1>2, <1>4, <1>5 DEF ClientInductive, ControlInv, InCalls
<1> QED
  BY <1>2, <1>3, <1>6

(* A call that returns true: the response is the server's to this call.     *)
LEMMA ReturnTrueFact ==
  ASSUME ClientInductive, ReturnTrue
  PROVE  /\ fd \in MyConns /\ fd \in Conns /\ InCalls(step)
         /\ fd \notin succeeded /\ Acknowledged(fd)
         /\ conn[fd].req.call = Asked /\ Asked.op = Program[step].op
         /\ module_handle' \in Handles \cup {0}
         /\ Asked.op = "load" =>
              module_handle' = conn[fd].inbox[1].value.handle
         /\ Asked.op # "load" => module_handle' = module_handle
         /\ succeeded' = succeeded \cup {fd}
         /\ UNCHANGED vars /\ fd' = fd /\ retries' = retries
         /\ cpc' = "run" /\ step' = step + 1
<1>1. ConnInv /\ ClientTypeOK /\ ControlInv /\ AnsweredInv
  BY DEF ClientInductive, Inductive, ResponseInv
<1>2. /\ InCalls(step) /\ fd \in MyConns /\ fd \in Conns
      /\ fd \notin succeeded /\ conn[fd].inbox # <<>>
      /\ conn[fd].inbox[1].status = "SUCCESS"
  BY <1>1, MyConnsFact DEF ReturnTrue, ControlInv, ClientTypeOK, HasResponse,
     Response, Reused
<1>3. Acknowledged(fd)
  <2>1. conn[fd].inbox \in Inboxes
    BY <1>1, <1>2 DEF ConnInv, ConnRecord
  <2> QED
    BY <1>2, <2>1, InboxFacts DEF Acknowledged
<1>4. conn[fd].req = MyRequest
  BY <1>1, <1>2, MyConnsFact DEF ControlInv, MyRequest, ReturnTrue
<1>5. /\ Asked \in Calls /\ Asked.op = Program[step].op
      /\ conn[fd].req.call = Asked
  BY <1>1, <1>2, <1>4, AskedFact, MyRequestFact DEF ClientTypeOK
<1>6. ASSUME Asked.op = "load"
      PROVE  /\ module_handle' = conn[fd].inbox[1].value.handle
             /\ module_handle' \in Handles
  <2>1. module_handle' = conn[fd].inbox[1].value.handle
    BY <1>5, <1>6 DEF ReturnTrue, NewHandle, Response
  <2>2. conn[fd].inbox[1].value.handle \in Handles
    BY <1>1, <1>2, <1>3, <1>5, <1>6 DEF AnsweredInv, Fits
  <2> QED
    BY <2>1, <2>2
<1>7. Asked.op # "load" => module_handle' = module_handle
  BY <1>5 DEF ReturnTrue, NewHandle
<1> QED
  BY <1>1, <1>2, <1>3, <1>5, <1>6, <1>7 DEF ReturnTrue, ClientTypeOK

LEMMA ReturnTrueControl ==
  ASSUME ClientInductive, ReturnTrue
  PROVE  OwnStep /\ ClientTypeOK' /\ ControlInv'
<1>1. ClientTypeOK /\ ControlInv
  BY DEF ClientInductive
<1>2. conn' = conn /\ OwnStep
  BY ReturnTrueFact DEF OwnStep, Step, vars
<1>3. step' \in 1..Len(Program) + 1
  BY ReturnTrueFact, ProgramFact DEF InCalls
<1>4. ClientTypeOK'
  BY <1>1, <1>3, ReturnTrueFact DEF ClientTypeOK
<1>5. \A c \in succeeded' : Acknowledged(c)'
  BY <1>1, <1>2, ReturnTrueFact DEF ControlInv, Acknowledged
<1>6. fd # NoConn /\ fd \in succeeded'
  BY ReturnTrueFact, MyConnsFact
<1>7. ControlInv'
  BY <1>1, <1>2, <1>5, <1>6, ReturnTrueFact DEF ControlInv
<1> QED
  BY <1>2, <1>4, <1>7

MyStep ==
  \/ ClientConnect \/ ConnectFail \/ Disconnect \/ StartCall \/ ClientSend
  \/ ClientPipe \/ ClientSendShort \/ ReturnTrue \/ ResponseBad
  \/ ClientExit

(* A call that fails is at a step of the program.                           *)
LEMMA FailedAt ==
  ASSUME ClientInductive, ConnectFail \/ ResponseBad
  PROVE  ReturnFalse /\ step \in DOMAIN Program
<1>1. ClientTypeOK /\ ControlInv
  BY DEF ClientInductive
<1>2. CASE ConnectFail
  BY <1>1, <1>2, AtFact DEF ConnectFail
<1>3. CASE ResponseBad
  BY <1>1, <1>3 DEF ResponseBad, ControlInv, InCalls
<1> QED
  BY <1>2, <1>3

LEMMA MyStepFact ==
  ASSUME ClientInductive, MyStep
  PROVE  OwnStep /\ ClientTypeOK' /\ ControlInv'
BY ConnectControl, FailedAt, ReturnFalseControl, DisconnectControl,
   StartControl, SendControl, PipeControl, ShortControl, ReturnTrueControl,
   ExitControl DEF MyStep

LEMMA ClientNextCases ==
  ASSUME [ClientNext]_clientSpecVars
  PROVE  MyStep \/ OtherStep
BY DEF ClientNext, ClientStep, MyStep, OtherStep

LEMMA ClientInductiveStep ==
  ASSUME ClientInductive, [ClientNext]_clientSpecVars
  PROVE  ClientInductive'
<1>1. CASE MyStep
  <2>1. OwnStep /\ ClientTypeOK' /\ ControlInv'
    BY <1>1, MyStepFact
  <2>2. Inductive' /\ OwnRequests(Conns \ MyConns)'
    BY <2>1, OwnStepFact
  <2> QED
    BY <2>1, <2>2 DEF ClientInductive
<1>2. CASE OtherStep
  <2>1. /\ Step /\ OwnRequests(Conns \ MyConns)' /\ UNCHANGED myVars
        /\ \A c \in MyConns : Handled(c)
    BY <1>2, OtherStepFact
  <2>2. ClientTypeOK' /\ ControlInv'
    BY <2>1, KeptControl DEF ClientInductive
  <2>3. Inductive'
    BY <2>1, InductiveStep DEF ClientInductive
  <2> QED
    BY <2>1, <2>2, <2>3 DEF ClientInductive
<1> QED
  BY <1>1, <1>2, ClientNextCases

LEMMA ClientInitInductive == ClientInit => ClientInductive
<1> SUFFICES ASSUME ClientInit PROVE ClientInductive
  OBVIOUS
<1>1. /\ cpc = "run" /\ step = 1 /\ fd = NoConn /\ succeeded = {}
      /\ retries = 0 /\ module_handle \in Handles \cup {0} /\ Init
  BY DEF ClientInit
<1>2. \A c \in Conns : /\ conn[c].state = "off" /\ conn[c].req = NoRequest
                       /\ conn[c].sent = "nothing"
  BY <1>1 DEF Init
<1>3. ClientTypeOK
  BY <1>1, ProgramFact, ClientAssumption DEF ClientTypeOK
<1>4. ~InCalls(1)
  BY ProgramFact, OpFacts DEF InCalls
<1>5. ControlInv
  BY <1>1, <1>2, <1>4, MyConnsFact DEF ControlInv
<1>6. OwnRequests(Conns \ MyConns)
  BY <1>2 DEF OwnRequests
<1> QED
  BY <1>1, <1>3, <1>5, <1>6, InitInductive DEF ClientInductive

(* Next to the server, whatever becomes of it, the client and its           *)
(* connections agree at every step of the program: what it waits for is the *)
(* answer to the call it is making.                                         *)
THEOREM ClientInvariant == ClientSpec => []ClientInductive
BY ClientInitInductive, ClientInductiveStep, PTL DEF ClientSpec

(* The client keeps its types: module_handle, which main leaves             *)
(* uninitialized, is only ever set to a handle the server has given.        *)
THEOREM ClientTypeOKHolds == ClientSpec => []ClientTypeOK
<1>1. ClientInductive => ClientTypeOK
  BY DEF ClientInductive
<1> QED
  BY <1>1, ClientInvariant, PTL

(* What EnclaveServer promises to the clients it describes it keeps next to *)
(* this one, which makes its own requests, sends again and is killed: one   *)
(* response each, what was acknowledged, an Initialize that fails for a     *)
(* cause only, no connection taken up without an enclave, and nothing but   *)
(* valid requests in it.                                                    *)
THEOREM ServerKeepsPromises ==
  ClientSpec =>
    /\ [](OneResponse /\ AcknowledgedIsKept)
    /\ []InitFailsForCause
    /\ AcceptsWithEnclave
    /\ OnlyValidRequestsCount
<1>1. ClientInductive => OneResponse /\ AcknowledgedIsKept
  BY OneResponseFact DEF ClientInductive, Inductive, ResponseInv
<1>2. ClientInductive => InitFailsForCause
  BY DEF ClientInductive, Inductive, StartInv
<1>3. ASSUME ClientInductive, [ClientNext]_clientSpecVars
      PROVE  Inductive /\ Step
  BY <1>3, ClientNextCases, MyStepFact, OtherStepFact
     DEF OwnStep, ClientInductive
<1>4. ClientInductive /\ [ClientNext]_clientSpecVars =>
        [cur = NoConn /\ cur' # NoConn => running_ /\ life = "alive"]_vars
  BY <1>3, AcceptFact
<1>5. ClientInductive /\ [ClientNext]_clientSpecVars =>
        [life = "alive" /\ life' = "alive" /\ <<kv, mods>>' # <<kv, mods>> =>
           /\ cur \in Conns
           /\ conn[cur].sent = "all"
           /\ conn[cur].req.fault = "none"
           /\ conn[cur].req.call = call[Main]]_vars
  BY <1>3, ValidChangeFact
<1> QED
  BY <1>1, <1>2, <1>4, <1>5, ClientInvariant, PTL
     DEF ClientSpec, AcceptsWithEnclave, OnlyValidRequestsCount

-----------------------------------------------------------------------------
(* What a step changes of what the client has on its connections.           *)

LEMMA MyStepCases ==
  ASSUME ClientInductive, MyStep
  PROVE  \/ ClientConnect
         \/ (StartCall \/ ClientSend) /\ ~Reused
         \/ \A c \in Conns : SameButShut(c)
<1>1. ConnInv /\ ClientTypeOK
  BY DEF ClientInductive, Inductive
<1>2. CASE ConnectFail \/ ResponseBad \/ Disconnect \/ ClientExit
  <2>1. conn' = Closed /\ OnlyConn
    BY <1>2, FailedAt DEF ReturnFalse, Disconnect, ClientExit
  <2> QED
    BY <1>1, <2>1, CloseFact
<1>3. CASE conn' = conn
  BY <1>3 DEF SameButShut
<1>4. CASE ClientPipe \/ ClientSendShort \/ ReturnTrue
  BY <1>3, <1>4 DEF ClientPipe, ClientSendShort, ReturnTrue, vars
<1>5. CASE (StartCall \/ ClientSend) /\ Reused
  BY <1>3, <1>5, StartCallFact, ClientSendFact
<1> QED
  BY <1>2, <1>4, <1>5 DEF MyStep

(* Nobody but the server answers a connection or takes one up.              *)
LEMMA MyStepKeeps ==
  ASSUME ClientInductive, MyStep, NEW c \in Conns
  PROVE  /\ conn'[c].inbox = conn[c].inbox /\ conn'[c].by = conn[c].by
         /\ conn'[c].state = conn[c].state \/ conn'[c].state = "queued"
<1>1. CASE ClientConnect
  BY <1>1, ClientConnectFact
<1>2. CASE (StartCall \/ ClientSend) /\ ~Reused
  BY <1>2, StartCallFact, ClientSendFact
<1>3. CASE \A d \in Conns : SameButShut(d)
  BY <1>3 DEF SameButShut
<1> QED
  BY <1>1, <1>2, <1>3, MyStepCases

(* A connection's request is the call the client was at.                    *)
LEMMA RequestMoves ==
  ASSUME ClientInductive, [ClientNext]_clientSpecVars, NEW c \in MyConns
  PROVE  \/ conn'[c].req = conn[c].req
         \/ conn'[c].req = NoRequest /\ c = fd' /\ c \notin succeeded
         \/ /\ StartCall /\ c = fd /\ fd \notin succeeded
            /\ conn'[c].req = MyRequest
<1>1. c \in Conns
  BY MyConnsFact
<1>2. CASE OtherStep
  BY <1>2, OtherStepFact DEF Handled
<1>3. CASE ClientConnect
  BY <1>1, <1>3, ClientConnectFact
<1>4. CASE (StartCall \/ ClientSend) /\ ~Reused
  BY <1>1, <1>4, StartCallFact, ClientSendFact DEF Reused
<1>5. CASE \A d \in Conns : SameButShut(d)
  BY <1>1, <1>5 DEF SameButShut
<1> QED
  BY <1>2, <1>3, <1>4, <1>5, ClientNextCases, MyStepCases

(* What has been answered stays as it is.                                   *)
LEMMA AnsweredStays ==
  ASSUME ClientInductive, [ClientNext]_clientSpecVars, NEW c \in MyConns,
         conn[c].inbox # <<>>
  PROVE  /\ conn'[c].inbox = conn[c].inbox /\ conn'[c].by = conn[c].by
<1>1. c \in Conns
  BY MyConnsFact
<1>2. conn[c].state # "queued"
  BY <1>1 DEF ClientInductive, Inductive, ConnInv
<1>3. CASE OtherStep
  BY <1>2, <1>3, OtherStepFact DEF Handled
<1>4. CASE MyStep
  BY <1>1, <1>4, MyStepKeeps
<1> QED
  BY <1>3, <1>4, ClientNextCases

LEMMA SucceededStays ==
  ASSUME ClientInductive, [ClientNext]_clientSpecVars, NEW c \in succeeded
  PROVE  /\ conn'[c].inbox = conn[c].inbox /\ conn'[c].by = conn[c].by
         /\ conn'[c].req = conn[c].req
<1>1. c \in MyConns /\ conn[c].inbox # <<>>
  BY SucceededFact
<1> QED
  BY <1>1, AnsweredStays, RequestMoves

(* Only a call that returns true changes what the client has learnt.        *)
LEMMA LearntMoves ==
  ASSUME [ClientNext]_clientSpecVars
  PROVE  \/ ReturnTrue
         \/ module_handle' = module_handle /\ succeeded' = succeeded
BY DEF ClientNext, ServerStep, OthersStep, ClientStep, ClientConnect,
   ConnectFail, ReturnFalse, Disconnect, StartCall, ClientSend, ClientPipe,
   ClientSendShort, ClientDrain, ResponseBad, ClientExit, clientSpecVars,
   myVars

(* The client goes through its program step by step, or back to its last    *)
(* Connect, which is not before a step it has passed.                       *)
LEMMA StepMoves ==
  ASSUME ClientInductive, [ClientNext]_clientSpecVars
  PROVE  \/ step' = step \/ step' = step + 1
         \/ step \in DOMAIN Program /\ step' = LastConnect
<1>1. CASE ConnectFail \/ ResponseBad
  BY <1>1, FailedAt DEF ReturnFalse
<1> QED
  BY <1>1 DEF ClientNext, ServerStep, OthersStep, ClientStep, ClientConnect,
     Disconnect, StartCall, ClientSend, ClientPipe, ClientSendShort,
     ClientDrain, ReturnTrue, ClientExit, clientSpecVars, myVars

LEMMA PassedStays ==
  ASSUME ClientInductive, [ClientNext]_clientSpecVars, NEW j, Passed(j)
  PROVE  Passed(j)'
<1>1. PICK i \in DOMAIN Program : j < i /\ i <= step /\ Program[i] = Connection
  BY DEF Passed
<1>2. step \in Nat /\ i \in Nat /\ i \in 1..step
  BY <1>1, ProgramFact DEF ClientInductive, ClientTypeOK
<1>3. i <= step'
  BY <1>1, <1>2, StepMoves, LastConnectFact
<1> QED
  BY <1>1, <1>3 DEF Passed

-----------------------------------------------------------------------------
(* The module a client invokes.                                             *)

LEMMA NoRequestFact == NoRequest.call.op = "none"
BY NoCallFact DEF NoRequest

LEMMA LoadInvStep ==
  ASSUME ClientInductive, LoadInv, [ClientNext]_clientSpecVars
  PROVE  LoadInv'
<1> SUFFICES ASSUME NEW c \in MyConns, Loaded(c)'
             PROVE  \E i \in DOMAIN Program : Program[i] = conn'[c].req.call
  BY DEF LoadInv
<1>1. CASE conn'[c].req = conn[c].req
  BY <1>1 DEF LoadInv, Loaded
<1>2. CASE conn'[c].req = NoRequest
  BY <1>2, NoRequestFact DEF Loaded
<1>3. CASE StartCall /\ c = fd /\ conn'[c].req = MyRequest
  <2>1. InCalls(step) /\ Asked \in Calls
    BY <1>3, StartCallFact
  <2>2. conn'[c].req.call = Asked
    BY <1>3, <2>1, MyRequestFact
  <2>3. Asked = Program[step]
    BY <2>1, <2>2, AskedFact DEF Loaded, ClientInductive, ClientTypeOK
  <2> QED
    BY <2>1, <2>2, <2>3 DEF InCalls
<1> QED
  BY <1>1, <1>2, <1>3, RequestMoves

LEMMA InvokeInvStep ==
  ASSUME OneModule, ClientInductive, InvokeInv, [ClientNext]_clientSpecVars
  PROVE  InvokeInv'
<1> SUFFICES ASSUME NEW c \in MyConns, conn'[c].req.call.op = "invoke"
             PROVE  /\ conn'[c].req.call.handle = module_handle'
                    /\ \A j \in DOMAIN Program :
                         Program[j].op = "load" => Passed(j)'
  BY DEF InvokeInv
<1>a. ClientTypeOK /\ ControlInv
  BY DEF ClientInductive
<1>1. CASE conn'[c].req = conn[c].req
  <2>1. /\ conn[c].req.call.handle = module_handle
        /\ \A j \in DOMAIN Program : Program[j].op = "load" => Passed(j)
    BY <1>1 DEF InvokeInv
  <2>2. module_handle' = module_handle
    <3>1. CASE ReturnTrue /\ Asked.op = "load"
      <4>1. step \in DOMAIN Program /\ Program[step].op = "load"
        BY <3>1, ReturnTrueFact DEF InCalls
      <4>2. PICK i \in DOMAIN Program : step < i /\ i <= step
        BY <2>1, <4>1 DEF Passed
      <4> QED
        BY <4>1, <4>2, ProgramFact
    <3> QED
      BY <3>1, LearntMoves, ReturnTrueFact
  <2> QED
    BY <1>1, <2>1, <2>2, PassedStays
<1>2. CASE conn'[c].req = NoRequest
  BY <1>2, NoRequestFact
<1>3. CASE /\ StartCall /\ c = fd /\ fd \notin succeeded
           /\ conn'[c].req = MyRequest
  <2>1. InCalls(step) /\ Asked \in Calls /\ step' = step
        /\ module_handle' = module_handle
    BY <1>3, StartCallFact
  <2>2. conn'[c].req.call = Asked
    BY <1>3, <2>1, MyRequestFact
  <2>3. /\ Program[step].op = "invoke" /\ Asked.handle = module_handle
        /\ step \in DOMAIN Program
    BY <1>a, <2>1, <2>2, AskedFact DEF ClientTypeOK, InCalls
  <2>4. step - 1 \in DOMAIN Program /\ Program[step - 1] = Connection
    BY <1>3, <1>a, MyConnsFact DEF ControlInv
  <2>5. ASSUME NEW j \in DOMAIN Program, Program[j].op = "load"
        PROVE  Passed(j)
    <3>1. j < step
      BY <2>3, <2>5 DEF OneModule
    <3>2. j # step - 1
      BY <2>4, <2>5, OpFacts
    <3>3. j < step - 1 /\ step - 1 <= step
      BY <2>3, <3>1, <3>2, ProgramFact
    <3> QED
      BY <2>4, <3>3 DEF Passed
  <2> QED
    BY <2>1, <2>2, <2>3, <2>5, PassedStays
<1> QED
  BY <1>1, <1>2, <1>3, RequestMoves

LEMMA OrderInvStep ==
  ASSUME ClientInductive, OrderInv, [ClientNext]_clientSpecVars
  PROVE  OrderInv'
<1> SUFFICES ASSUME fd' # NoConn, fd' \notin succeeded',
                    conn'[fd'].state = "open" \/ conn'[fd'].inbox # <<>>,
                    NEW l \in succeeded'
             PROVE  conn'[l].by <= conn'[fd'].by
  BY DEF OrderInv
<1>1. /\ ClientInductive' /\ ConnInv' /\ ClientTypeOK'
      /\ fd' \in Conns /\ l \in Conns
  <2>1. ClientInductive'
    BY ClientInductiveStep
  <2> QED
    BY <2>1, MyConnsFact DEF ClientInductive, Inductive, ClientTypeOK
<1>2. CASE conn'[fd'].state = "open"
  <2>1. conn'[fd'].by = restarts' /\ conn'[l].by <= restarts'
    BY <1>1, <1>2, ServerAssumption DEF ConnInv
  <2> QED
    BY <2>1
<1>3. CASE conn'[fd'].state # "open" /\ conn'[fd'].inbox # <<>>
  <2>1. ~ClientConnect
    BY <1>3, ClientConnectFact
  <2>2. fd' = fd
    BY <2>1 DEF ClientNext, ServerStep, OthersStep, ClientStep, ConnectFail,
       ReturnFalse, Disconnect, StartCall, ClientSend, ClientPipe,
       ClientSendShort, ClientDrain, ReturnTrue, ResponseBad, ClientExit,
       clientSpecVars, myVars
  <2>3. fd \in MyConns /\ fd \in Conns
    BY <2>2, MyConnsFact DEF ClientInductive, ClientTypeOK
  <2>4. conn[fd].inbox # <<>>
    <3>1. CASE OtherStep
      BY <1>3, <2>2, <2>3, <3>1, OtherStepFact DEF Handled
    <3>2. CASE MyStep
      BY <1>3, <2>2, <2>3, <3>2, MyStepKeeps
    <3> QED
      BY <3>1, <3>2, ClientNextCases
  <2>5. succeeded' = succeeded
    BY <2>2, LearntMoves, ReturnTrueFact
  <2>6. conn[l].by <= conn[fd].by
    BY <2>2, <2>4, <2>5 DEF OrderInv
  <2> QED
    BY <2>2, <2>3, <2>4, <2>5, <2>6, AnsweredStays, SucceededStays
<1> QED
  BY <1>2, <1>3

LEMMA HandleInvStep ==
  ASSUME ClientInductive, OrderInv, HandleInv, [ClientNext]_clientSpecVars
  PROVE  HandleInv'
<1>1. \A c \in succeeded : (Loaded(c)' <=> Loaded(c))
  BY SucceededStays DEF Loaded
<1>2. CASE module_handle' = module_handle /\ succeeded' = succeeded
  <2> SUFFICES ASSUME NEW m \in succeeded, Loaded(m)'
               PROVE  \E l \in succeeded :
                        /\ Loaded(l)' /\ conn'[m].by <= conn'[l].by
                        /\ conn'[l].inbox[1].value.handle = module_handle'
    BY <1>2 DEF HandleInv
  <2>1. PICK l \in succeeded :
          /\ Loaded(l) /\ conn[m].by <= conn[l].by
          /\ conn[l].inbox[1].value.handle = module_handle
    BY <1>1 DEF HandleInv
  <2> QED
    BY <1>1, <1>2, <2>1, SucceededStays
<1>3. CASE ReturnTrue
  <2>1. conn' = conn /\ \A c : (Loaded(c)' <=> Loaded(c))
    BY <1>3, ReturnTrueFact DEF vars, Loaded
  <2>2. CASE Asked.op = "load"
    <3>1. /\ Loaded(fd) /\ fd \in succeeded'
          /\ conn[fd].inbox[1].value.handle = module_handle'
      BY <1>3, <2>2, ReturnTrueFact DEF Loaded
    <3>2. \A m \in succeeded : conn[m].by <= conn[fd].by
      <4>1. fd # NoConn /\ fd \notin succeeded /\ conn[fd].inbox # <<>>
        BY <1>3, ReturnTrueFact, MyConnsFact DEF Acknowledged
      <4> QED
        BY <4>1 DEF OrderInv
    <3>3. conn[fd].by <= conn[fd].by
      <4>1. conn[fd].by \in 0..MaxRestarts
        BY <1>3, ReturnTrueFact DEF ClientInductive, Inductive, ConnInv,
           ConnRecord
      <4> QED
        BY <4>1, ServerAssumption
    <3> QED
      BY <1>3, <2>1, <3>1, <3>2, <3>3, ReturnTrueFact DEF HandleInv
  <2>3. CASE Asked.op # "load"
    <3>1. ~Loaded(fd) /\ module_handle' = module_handle
          /\ succeeded' = succeeded \cup {fd}
      BY <1>3, <2>3, ReturnTrueFact DEF Loaded
    <3> QED
      BY <2>1, <3>1 DEF HandleInv
  <2> QED
    BY <2>2, <2>3
<1> QED
  BY <1>2, <1>3, LearntMoves

LEMMA ModuleInit == ClientInit => ModuleInv
<1> SUFFICES ASSUME ClientInit PROVE ModuleInv
  OBVIOUS
<1>1. \A c \in MyConns : conn[c].req = NoRequest
  BY MyConnsFact DEF ClientInit, Init
<1>2. fd = NoConn /\ succeeded = {}
  BY DEF ClientInit
<1> QED
  BY <1>1, <1>2, NoRequestFact DEF ModuleInv, LoadInv, InvokeInv, OrderInv,
     HandleInv, Loaded

LEMMA InvokedFact ==
  ASSUME OneModule, ClientInductive, ModuleInv
  PROVE  InvokedOwnModule
<1> SUFFICES ASSUME NEW c \in succeeded, NEW l \in succeeded,
                    conn[c].req.call.op = "invoke", Loaded(l),
                    conn[c].by = conn[l].by, conn[c].by = restarts,
                    life = "alive"
             PROVE  /\ conn[c].req.call.handle \in DOMAIN mods
                    /\ mods[conn[c].req.call.handle] = conn[l].req.call.data
  BY DEF InvokedOwnModule, Loaded
<1>1. conn[c].req.call.handle = module_handle
  BY SucceededFact DEF ModuleInv, InvokeInv
<1>2. PICK k \in succeeded :
        /\ Loaded(k) /\ conn[l].by <= conn[k].by
        /\ conn[k].inbox[1].value.handle = module_handle
  BY DEF ModuleInv, HandleInv
<1>3. conn[k].by = restarts
  <2>1. /\ conn[k].by <= restarts /\ conn[k].by \in 0..MaxRestarts
        /\ restarts \in 0..MaxRestarts
    BY SucceededFact DEF ClientInductive, Inductive, ConnInv, ConnRecord,
       ProcessType
  <2> QED
    BY <1>2, <2>1, ServerAssumption
<1>4. module_handle \in DOMAIN mods /\ mods[module_handle] = conn[k].req.call.data
  BY <1>2, <1>3, SucceededFact DEF ClientInductive, Inductive, ResponseInv,
     AcknowledgedIsKept, Loaded
<1>5. conn[k].req.call.data = conn[l].req.call.data
  <2>1. PICK i \in DOMAIN Program : Program[i] = conn[k].req.call
    BY <1>2, SucceededFact DEF ModuleInv, LoadInv
  <2>2. PICK j \in DOMAIN Program : Program[j] = conn[l].req.call
    BY SucceededFact DEF ModuleInv, LoadInv
  <2> QED
    BY <1>2, <2>1, <2>2 DEF OneModule, Loaded
<1> QED
  BY <1>1, <1>4, <1>5

(* A program that loads one module, before it invokes anything in it, has   *)
(* its calls run in the module it loaded, whichever processes its requests  *)
(* have met: the handle it sends was given out by the process that takes    *)
(* the call, if that process has loaded the module for it at all.           *)
THEOREM InvokedOwnModuleHolds ==
  ASSUME OneModule PROVE ClientSpec => []InvokedOwnModule
<1>1. ClientInductive /\ ModuleInv /\ [ClientNext]_clientSpecVars => ModuleInv'
  BY LoadInvStep, InvokeInvStep, OrderInvStep, HandleInvStep DEF ModuleInv
<1>2. ClientInductive /\ ModuleInv => InvokedOwnModule
  BY InvokedFact
<1> QED
  BY <1>1, <1>2, ModuleInit, ClientInvariant, PTL DEF ClientSpec
=============================================================================
