-------------------------- MODULE EnclaveServerProofs --------------------------
(***************************************************************************)
(* The safety of the server process, proved for any connections, requests, *)
(* sizes and numbers of signals, faults and restarts.  The invariant says  *)
(* what main's thread can rely on at each line, although a signal may have *)
(* run Shutdown between any two of them: which connection it holds, what   *)
(* it has checked of the request, whether its call is inside a living      *)
(* enclave, and what a response it is about to send still has behind it.   *)
(***************************************************************************)
EXTENDS EnclaveServer, TLAPS

Handling == {"recv_header", "recv_payload", "dispatch", "call", "in_enclave",
             "dangling", "send", "sending", "close"}
Fresh == {"boot", "publish", "create"}

Message == [status : ResponseStatus \cup {"truncated"}, value : Results]
Inboxes == {<<>>} \cup {<<m>> : m \in Message}
AnyRequest == AllRequests \cup {NoRequest}
ConnRecord ==
  [state : {"off", "queued", "open", "done"},
   req : AnyRequest, sent : Arrived, shut : BOOLEAN,
   inbox : Inboxes, by : 0..MaxRestarts]

ProcessType ==
  /\ pc \in Starting \cup Serving \cup Leaving \cup Ended
  /\ running_ \in BOOLEAN
  /\ socket_fd_ \in {"closed", "open", "bound", "listening"}
  /\ g_server \in BOOLEAN
  /\ path \in {"absent", "live", "stale"}
  /\ signals \in 0..MaxSignals
  /\ faults \in 0..MaxFaults
  /\ restarts \in 0..MaxRestarts

(* A connection is open exactly while HandleClient has it; it is answered   *)
(* once, just before it is closed.                                          *)
ConnInv ==
  /\ conn \in [Conns -> ConnRecord]
  /\ pc \in Handling => /\ cur \in Conns
                        /\ conn[cur].state = "open"
                        /\ conn[cur].by = restarts
  /\ pc \notin Handling => cur = NoConn
  /\ pc = "close" => conn[cur].inbox # <<>>
  /\ \A c \in Conns :
       /\ conn[c].state = "open" => c = cur
       /\ conn[c].inbox # <<>> =>
            \/ conn[c].state = "done"
            \/ conn[c].state = "open" /\ pc = "close"
       /\ conn[c].sent # "nothing" => /\ conn[c].req \in AllRequests
                                      /\ conn[c].state # "off"
       /\ conn[c].by <= restarts
       /\ pc \in Fresh /\ conn[c].inbox # <<>> => conn[c].by # restarts

(* The kernel's queue holds waiting connections, each once.                 *)
QueueInv ==
  /\ queue \in Seq(Conns) /\ Len(queue) <= BACKLOG + 1
  /\ \A i \in 1..Len(queue) : conn[queue[i]].state = "queued"
  /\ \A i, j \in 1..Len(queue) : queue[i] = queue[j] => i = j

(* What HandleClient has established about the request it goes on with.     *)
RequestInv ==
  /\ pc \in {"recv_payload", "dispatch", "call", "in_enclave", "dangling"} =>
       conn[cur].sent # "nothing"
  /\ pc \in {"recv_payload", "dispatch", "call", "in_enclave"} =>
       Request.fault \notin {"magic", "size"}
  /\ pc \in {"dispatch", "call", "in_enclave"} /\ HasPayload(Request) =>
       conn[cur].sent = "all"
  /\ pc \in {"call", "in_enclave"} =>
       ~Invalid(Request) /\ ~Malformed(Request) /\ Request.call \in Calls

(* The server object has been destroyed.                                    *)
Gone == Ended \cup {"returned"}

(* The calling thread and the enclave, which a handler may have freed.      *)
EnclaveInv ==
  /\ Enc!TypeOK
  /\ pc \notin {"in_enclave", "dangling"} => phase[Main] = "idle"
  /\ pc = "dangling" => phase[Main] = "pending" /\ life # "alive"
  /\ pc = "in_enclave" /\ phase[Main] = "pending" => life = "alive"
  /\ pc \in {"in_enclave", "dangling"} =>
       call[Main] = Request.call /\ call[Main] \in Calls
  /\ pc \in Fresh \cup Gone => life # "alive"

(* A result that is in the enclave for as long as the enclave lives.        *)
Behind(q, r) ==
  /\ q.op = "store" => q.name \in DOMAIN kv
  /\ q.op = "load" => r.handle \in DOMAIN mods /\ mods[r.handle] = q.data

(* A result of the type the call returns.                                   *)
Fits(q, r) == q.op = "load" => r.handle \in Handles

(* A SUCCESS answers a request that has arrived.                            *)
AnsweredInv ==
  \A c \in Conns :
    Acknowledged(c) => /\ conn[c].sent # "nothing"
                       /\ Fits(conn[c].req.call, conn[c].inbox[1].value)

ResponseInv ==
  /\ resp \in Responses \cup {NoReply}
  /\ pc \in {"send", "sending"} => resp \in Responses
  /\ pc = "in_enclave" /\ phase[Main] = "done" /\ ret[Main].status = "OK"
       => /\ Fits(call[Main], ret[Main])
          /\ life = "alive" => Behind(call[Main], ret[Main])
  /\ pc \in {"send", "sending"} /\ resp.status = "SUCCESS"
       => /\ conn[cur].sent # "nothing"
          /\ Fits(Request.call, resp.value)
          /\ life = "alive" => Behind(Request.call, resp.value)
  /\ AnsweredInv
  /\ AcknowledgedIsKept

(* Initialize proceeds as planned unless a signal has interfered.           *)
StartInv ==
  /\ signals = 0 =>
       /\ pc \in {"unlink", "bind"} => socket_fd_ = "open"
       /\ pc = "bind" => path = "absent"
       /\ pc = "listen" => socket_fd_ = "bound"
  /\ InitFailsForCause

(* Who listens after Run's check has an enclave, and who is at accept has   *)
(* found running_ set: a signal takes all three away together.              *)
AcceptInv ==
  socket_fd_ = "listening" =>
    /\ pc \in Serving \cup {"set_running"} => life = "alive"
    /\ pc = "accept" => running_

Inductive ==
  /\ ProcessType
  /\ ConnInv
  /\ QueueInv
  /\ RequestInv
  /\ EnclaveInv
  /\ ResponseInv
  /\ StartInv
  /\ AcceptInv

(* What clients of any kind may do to a connection: make it, or send on it  *)
(* and close it at their end.  A request is what it is once some of it has  *)
(* arrived.  The clients of EnclaveServer and the one of EnclaveClient do   *)
(* no more than this, so what is shown for Step holds next to both.         *)
Touch(c) ==
  /\ UNCHANGED <<processVars, kernelVars, envVars>>
  /\ \E k \in ConnRecord :
       /\ conn' = [conn EXCEPT ![c] = k]
       /\ k.state = conn[c].state /\ k.inbox = conn[c].inbox
       /\ k.by = conn[c].by
       /\ conn[c].sent # "nothing" =>
            k.req = conn[c].req /\ k.sent # "nothing"
       /\ conn[c].sent = "all" => k.sent = "all"
       /\ k.sent # "nothing" => k.state # "off" /\ k.req \in AllRequests

World == \E c \in Conns : \/ \E r \in AnyRequest : Connect(c, r)
                          \/ Touch(c)

Process == MainStep \/ Drain \/ Signal \/ Restart

Step == Process \/ World \/ UNCHANGED vars

-----------------------------------------------------------------------------
(* The vocabulary of the interface.                                         *)

(* EnclaveStore is written in the words the server uses.                    *)
LEMMA SameApi ==
  /\ Enc!Calls = Calls /\ Enc!NoCall = NoCall /\ Enc!Results = Results
  /\ \A s : Enc!Error(s) = Error(s)
  /\ \A h : Enc!OkHandle(h) = OkHandle(h)
  /\ \A d : Enc!OkData(d) = OkData(d) /\ Enc!OkInvoked(d) = OkInvoked(d)
  /\ Enc!OkVoid = OkVoid /\ Enc!OkAttested = OkAttested
  /\ Enc!NoResult = NoResult /\ Enc!EmptyMap = EmptyMap
  /\ \A m, k, v : Enc!Put(m, k, v) = Put(m, k, v)
BY DEF Enc!Calls, Calls, Enc!NoCall, NoCall, Enc!Results, Results,
   Enc!ErrorStatus, ErrorStatus, Enc!Error, Error, Enc!OkHandle, OkHandle,
   Enc!OkData, OkData, Enc!OkInvoked, OkInvoked, Enc!OkVoid, OkVoid,
   Enc!OkAttested, OkAttested, Enc!NoResult, NoResult, Enc!EmptyMap, EmptyMap,
   Enc!Put, Put, Enc!LoadCalls, LoadCalls, Enc!StoreCalls, StoreCalls,
   Enc!RetrieveCalls, RetrieveCalls, Enc!InvokeCalls, InvokeCalls,
   Enc!AttestCalls, AttestCalls

LEMMA ResultFacts ==
  /\ NoResult \in Results /\ OkVoid \in Results /\ OkAttested \in Results
  /\ \A s \in ErrorStatus : Error(s) \in Results
  /\ \A h \in Handles : OkHandle(h) \in Results
  /\ \A d \in Data : OkData(d) \in Results
  /\ \A d \in Data : OkInvoked(d) \in Results
BY DEF Results

LEMMA StatusFacts ==
  /\ \A s : Error(s).status = s
  /\ \A h : OkHandle(h).handle = h
  /\ NoResult.status = "none"
BY DEF Error, OkHandle, NoResult

(* The fields a call has depend on its operation.                           *)
LEMMA CallFacts ==
  ASSUME NEW q \in Calls
  PROVE  /\ q.op \in {"load", "store", "retrieve", "invoke", "attest"}
         /\ q.op \in {"store", "retrieve", "invoke"} => q.name \in Names
         /\ q.op \in {"load", "store", "invoke"} => q.data \in Data
BY DEF Calls, LoadCalls, StoreCalls, RetrieveCalls, InvokeCalls, AttestCalls

LEMMA NoCallFact == NoCall.op = "none" /\ NoCall \notin Calls
<1>1. NoCall.op = "none"
  BY DEF NoCall
<1> QED
  BY <1>1, CallFacts

LEMMA EmptyMapFact == DOMAIN EmptyMap = {}
BY DEF EmptyMap

-----------------------------------------------------------------------------
(* The enclave's operations, as the server uses them.                       *)

MapsType ==
  /\ DOMAIN kv \subseteq Names /\ \A k \in DOMAIN kv : kv[k] \in Data
  /\ DOMAIN mods \subseteq Handles /\ \A h \in DOMAIN mods : mods[h] \in Data

ThreadType ==
  /\ phase \in [{Main} -> {"idle", "pending", "done"}]
  /\ call \in [{Main} -> Calls \cup {NoCall}]
  /\ ret \in [{Main} -> Results]

LEMMA EncTypeFact ==
  Enc!TypeOK <=> life \in {"none", "failed", "alive"} /\ MapsType /\ ThreadType
BY SameApi DEF Enc!TypeOK, MapsType, ThreadType

(* While an enclave lives its contents only grow, and no handle is reused.  *)
Grows ==
  /\ DOMAIN kv \subseteq DOMAIN kv'
  /\ \A h \in DOMAIN mods : h \in DOMAIN mods' /\ mods'[h] = mods[h]

(* What one call does: it ends with a result, and if that is OK, what the   *)
(* caller asked to be kept is there.  Only stores and loads change          *)
(* anything.                                                                *)
LEMMA DoFact ==
  ASSUME MapsType, ThreadType, call[Main] \in Calls, Enc!Do(Main)
  PROVE  /\ MapsType' /\ ThreadType' /\ Grows
         /\ life' = life /\ call' = call
         /\ phase[Main] = "pending" /\ phase'[Main] = "done"
         /\ ret'[Main].status = "OK" =>
              Behind(call[Main], ret[Main])' /\ Fits(call[Main], ret[Main])'
         /\ call[Main].op \notin {"store", "load"} =>
              kv' = kv /\ mods' = mods
<1> DEFINE q == call[Main]
           Finished(r) ==
             /\ phase' = [phase EXCEPT ![Main] = "done"]
             /\ ret' = [ret EXCEPT ![Main] = r]
             /\ life' = life /\ call' = call
<1>a. ASSUME NEW r \in Results, Finished(r)
      PROVE  /\ ThreadType' /\ life' = life /\ call' = call
             /\ phase'[Main] = "done" /\ ret'[Main] = r
  BY <1>a DEF ThreadType
<1>b. phase[Main] = "pending"
  BY DEF Enc!Do, Enc!DoRefuse, Enc!DoCryptoFail, Enc!DoStore, Enc!DoRetrieve,
     Enc!DoLoad, Enc!DoInvoke, Enc!DoAttest
<1>c. {"ERROR_INVALID_PARAMETER", "ERROR_CRYPTO_FAILURE",
       "ERROR_MODULE_LOAD_FAILED", "ERROR_FUNCTION_NOT_FOUND"}
        \subseteq ErrorStatus
  BY DEF ErrorStatus
<1>1. CASE kv' = kv /\ mods' = mods
           /\ \E r \in Results :
                /\ Finished(r)
                /\ r.status = "OK" => q.op \notin {"store", "load"}
  <2>1. PICK r \in Results :
               /\ Finished(r)
               /\ r.status = "OK" => q.op \notin {"store", "load"}
    BY <1>1
  <2>2. MapsType' /\ Grows
    BY <1>1 DEF MapsType, Grows
  <2>3. ret'[Main].status = "OK" =>
          Behind(call[Main], ret[Main])' /\ Fits(call[Main], ret[Main])'
    BY <2>1, <1>a DEF Behind, Fits
  <2> HIDE DEF Finished
  <2> QED
    BY <1>1, <1>a, <1>b, <2>1, <2>2, <2>3
<1>2. CASE Enc!DoRefuse(Main) \/ Enc!DoCryptoFail(Main)
  <2>1. PICK s \in ErrorStatus : Finished(Error(s)) /\ s # "OK"
    BY <1>2, <1>c, SameApi DEF Enc!DoRefuse, Enc!DoCryptoFail, Enc!Finish
  <2>2. kv' = kv /\ mods' = mods
    BY <1>2 DEF Enc!DoRefuse, Enc!DoCryptoFail
  <2> QED
    BY <1>1, <2>1, <2>2, ResultFacts, StatusFacts
<1>3. CASE Enc!DoStore(Main)
  <2>1. /\ Finished(OkVoid) /\ q.op = "store"
        /\ kv' = Put(kv, q.name, q.data) /\ mods' = mods
    BY <1>3, SameApi DEF Enc!DoStore, Enc!Finish
  <2>2. q.name \in Names /\ q.data \in Data
    BY <2>1, CallFacts
  <2>3. MapsType' /\ Grows /\ q.name \in DOMAIN kv'
    BY <2>1, <2>2 DEF MapsType, Grows, Put
  <2>4. Behind(call[Main], ret[Main])' /\ Fits(call[Main], ret[Main])'
    BY <2>1, <2>3 DEF Behind, Fits
  <2> HIDE DEF Finished
  <2> QED
    BY <1>a, <1>b, <2>1, <2>3, <2>4, ResultFacts
<1>4. CASE Enc!DoRetrieve(Main)
  <2>1. /\ q.op = "retrieve" /\ kv' = kv /\ mods' = mods
        /\ \/ q.name \in DOMAIN kv /\ Finished(OkData(kv[q.name]))
           \/ Finished(Error("ERROR_FUNCTION_NOT_FOUND"))
    BY <1>4, SameApi DEF Enc!DoRetrieve, Enc!Finish
  <2>2. q.name \in DOMAIN kv => OkData(kv[q.name]) \in Results
    BY ResultFacts DEF MapsType
  <2> HIDE DEF Finished
  <2> QED
    BY <1>1, <1>c, <2>1, <2>2, ResultFacts
<1>5. CASE Enc!DoLoad(Main)
  <2>1. PICK h \in Handles \ DOMAIN mods :
          /\ Finished(OkHandle(h)) /\ q.op = "load"
          /\ mods' = Put(mods, h, q.data) /\ kv' = kv
    BY <1>5, SameApi DEF Enc!DoLoad, Enc!Finish
  <2>2. q.data \in Data
    BY <2>1, CallFacts
  <2>3. MapsType' /\ Grows /\ h \in DOMAIN mods' /\ mods'[h] = q.data
    BY <2>1, <2>2 DEF MapsType, Grows, Put
  <2>4. ret'[Main] = OkHandle(h) /\ call'[Main] = q
    BY <2>1, <1>a, ResultFacts
  <2>5. Behind(call[Main], ret[Main])' /\ Fits(call[Main], ret[Main])'
    BY <2>1, <2>3, <2>4, StatusFacts DEF Behind, Fits
  <2> HIDE DEF Finished
  <2> QED
    BY <1>a, <1>b, <2>1, <2>3, <2>5, ResultFacts
<1>6. CASE Enc!DoInvoke(Main)
  <2>1. /\ q.op = "invoke" /\ kv' = kv /\ mods' = mods
        /\ \/ Finished(Error("ERROR_MODULE_LOAD_FAILED"))
           \/ Finished(Error("ERROR_FUNCTION_NOT_FOUND"))
           \/ Finished(OkInvoked(q.data))
    BY <1>6, SameApi DEF Enc!DoInvoke, Enc!Finish
  <2>2. OkInvoked(q.data) \in Results
    BY <2>1, CallFacts, ResultFacts
  <2> HIDE DEF Finished
  <2> QED
    BY <1>1, <1>c, <2>1, <2>2, ResultFacts
<1>7. CASE Enc!DoAttest(Main)
  <2>1. /\ q.op = "attest" /\ kv' = kv /\ mods' = mods
        /\ Finished(OkAttested)
    BY <1>7, SameApi DEF Enc!DoAttest, Enc!Finish
  <2> HIDE DEF Finished
  <2> QED
    BY <1>1, <2>1, ResultFacts
<1> QED
  BY <1>2, <1>3, <1>4, <1>5, <1>6, <1>7 DEF Enc!Do

-----------------------------------------------------------------------------
(* Connections.                                                             *)

LEMMA InboxFacts ==
  /\ <<>> \in Inboxes
  /\ \A m \in Message : /\ <<m>> \in Inboxes /\ <<m>> # <<>>
                        /\ Append(<<>>, m) = <<m>>
                        /\ Len(<<m>>) = 1 /\ <<m>>[1] = m
  /\ \A x \in Inboxes : x = <<>> \/ \E m \in Message : x = <<m>>
BY DEF Inboxes

(* Dropping connections changes nothing but their state.                    *)
LEMMA DroppedFact ==
  ASSUME NEW cn \in [Conns -> ConnRecord], NEW S
  PROVE  /\ Dropped(cn, S) \in [Conns -> ConnRecord]
         /\ \A c \in Conns :
              LET d == Dropped(cn, S)[c]
              IN  /\ d.state = IF cn[c].state \in S THEN "done"
                               ELSE cn[c].state
                  /\ d.req = cn[c].req /\ d.sent = cn[c].sent
                  /\ d.inbox = cn[c].inbox /\ d.by = cn[c].by
                  /\ d.shut <=> cn[c].shut
<1>1. \A c \in Conns : cn[c] \in ConnRecord
  OBVIOUS
<1>2. ASSUME NEW k \in ConnRecord
      PROVE  LET d == [k EXCEPT !.state = "done"]
             IN  /\ d \in ConnRecord /\ d.state = "done"
                 /\ d.req = k.req /\ d.sent = k.sent
                 /\ d.inbox = k.inbox /\ d.by = k.by
                 /\ d.shut <=> k.shut
  BY DEF ConnRecord
<1> QED
  BY <1>1, <1>2 DEF Dropped

(* A response reaches the connection being handled and no other.            *)
LEMMA DeliverFact ==
  ASSUME ConnInv, cur \in Conns, conn[cur].inbox = <<>>, NEW r \in Message
  PROVE  /\ Deliver(conn, r) \in [Conns -> ConnRecord]
         /\ Deliver(conn, r)[cur].inbox = <<r>>
         /\ \A c \in Conns :
              LET d == Deliver(conn, r)[c]
              IN  /\ d.state = conn[c].state /\ d.by = conn[c].by
                  /\ d.req = conn[c].req /\ d.sent = conn[c].sent
                  /\ d.shut <=> conn[c].shut
                  /\ c # cur => d.inbox = conn[c].inbox
<1>1. conn \in [Conns -> ConnRecord] /\ conn[cur] \in ConnRecord
  BY DEF ConnInv
<1>2. ASSUME NEW k \in ConnRecord, k.inbox = <<>>
      PROVE  LET d == [k EXCEPT !.inbox = Append(@, r)]
             IN  /\ d \in ConnRecord /\ d.inbox = <<r>>
                 /\ d.state = k.state /\ d.by = k.by
                 /\ d.req = k.req /\ d.sent = k.sent
                 /\ d.shut <=> k.shut
  <2>1. Append(k.inbox, r) = <<r>> /\ <<r>> \in Inboxes
    BY <1>2, InboxFacts
  <2> QED
    BY <2>1 DEF ConnRecord
<1>3. Deliver(conn, r) = [conn EXCEPT ![cur] =
                            [conn[cur] EXCEPT !.inbox = Append(@, r)]]
  BY DEF Deliver
<1>4. /\ Deliver(conn, r)[cur] = [conn[cur] EXCEPT !.inbox = Append(@, r)]
      /\ \A c \in Conns \ {cur} : Deliver(conn, r)[c] = conn[c]
  BY <1>1, <1>3
<1>5. Deliver(conn, r) \in [Conns -> ConnRecord]
  BY <1>1, <1>2, <1>3
<1>6. ASSUME NEW c \in Conns, c # cur
      PROVE  LET d == Deliver(conn, r)[c]
             IN  /\ d.state = conn[c].state /\ d.by = conn[c].by
                 /\ d.req = conn[c].req /\ d.sent = conn[c].sent
                 /\ d.shut <=> conn[c].shut
                 /\ d.inbox = conn[c].inbox
  BY <1>4, <1>6
<1>7. LET d == Deliver(conn, r)[cur]
      IN  /\ d.inbox = <<r>>
          /\ d.state = conn[cur].state /\ d.by = conn[cur].by
          /\ d.req = conn[cur].req /\ d.sent = conn[cur].sent
          /\ d.shut <=> conn[cur].shut
  BY <1>1, <1>2, <1>4
<1> QED
  BY <1>5, <1>6, <1>7

(* Steps that leave the connections alone and neither take one up nor let   *)
(* one go.                                                                  *)
Stays ==
  \/ pc' = pc
  \/ pc \in Handling \ {"close"} /\ pc' \in Handling \ {"close"}
  \/ /\ pc \notin Handling /\ pc' \notin Handling
     /\ pc' \in Fresh => pc \in Fresh

Quiet == UNCHANGED <<cur, conn, queue, restarts>> /\ Stays

LEMMA QuietConn == ConnInv /\ QueueInv /\ Quiet => ConnInv' /\ QueueInv'
<1> SUFFICES ASSUME ConnInv, QueueInv, Quiet PROVE ConnInv' /\ QueueInv'
  OBVIOUS
<1>1. ConnInv'
  BY DEF Quiet, Stays, ConnInv, Fresh, Handling
<1>2. QueueInv'
  BY DEF Quiet, QueueInv
<1> QED
  BY <1>1, <1>2

QuietStep ==
  \/ Starts \/ Loop \/ AcceptFail \/ RecvHeader \/ RecvPayload \/ Dispatch
  \/ CallEnclave \/ InEnclave \/ LeaveEnclave \/ SendBlocks
  \/ Clear \/ InitFailed \/ ProcessExit \/ SignalIgnored \/ UNCHANGED vars

LEMMA QuietSteps ==
  ASSUME QuietStep PROVE Quiet
<1> USE DEF Quiet, Stays, Goto, Handling, Fresh, outsideVars, kernelVars, envVars,
        clientVars, enclaveVars, Fault
<1>1. CASE Boot \/ Publish \/ CheckInitialized \/ SetRunning \/ Loop \/ Clear
           \/ InitFailed \/ ProcessExit \/ SendBlocks
  BY <1>1 DEF Boot, Publish, CheckInitialized, SetRunning, Loop, Clear,
     InitFailed, ProcessExit, SendBlocks, Move
<1>2. CASE CreateEnclave \/ CreateSocket \/ Unlink \/ Bind
  BY <1>2 DEF CreateEnclave, CreateSocket, Unlink, Bind
<1>3. CASE Listen \/ BindOrListenFail \/ AcceptFail
  BY <1>3 DEF Listen, BindOrListenFail, AcceptFail, FailedAcceptTo
<1>4. CASE RecvHeader \/ RecvPayload \/ Dispatch
  <2>1. ASSUME NEW reply, NEW next, Stage(reply, next)
        PROVE  UNCHANGED <<cur, conn, queue, restarts>>
               /\ pc' = IF reply = NoReply THEN next ELSE "send"
    BY <2>1 DEF Stage
  <2>2. ShortHeader # NoReply
    BY DEF ShortHeader, Failure, NoReply
  <2>3. UNCHANGED <<cur, conn, queue, restarts>>
        /\ pc \in {"recv_header", "recv_payload", "dispatch"}
        /\ pc' \in {"recv_payload", "dispatch", "call", "send"}
    BY <1>4, <2>1, <2>2 DEF RecvHeader, RecvPayload, Dispatch
  <2> QED
    BY <2>3
<1>5. CASE CallEnclave \/ InEnclave \/ LeaveEnclave
  BY <1>5 DEF CallEnclave, InEnclave, LeaveEnclave
<1>6. CASE SignalIgnored \/ UNCHANGED vars
  BY <1>6 DEF SignalIgnored, NewSignal, processVars, vars
<1> QED
  BY <1>1, <1>2, <1>3, <1>4, <1>5, <1>6 DEF QuietStep, Starts

(* accept takes the first connection that waits.                            *)
LEMMA AcceptConn == ConnInv /\ QueueInv /\ ProcessType /\ Accept
                    => ConnInv' /\ QueueInv'
<1> SUFFICES ASSUME ConnInv, QueueInv, ProcessType, Accept
             PROVE  ConnInv' /\ QueueInv'
  OBVIOUS
<1> DEFINE c == Head(queue)
<1>1. /\ c \in Conns /\ conn[c].state = "queued" /\ queue # <<>>
      /\ Len(queue) \in Nat \ {0} /\ queue[1] = c
  BY DEF Accept, QueueInv
<1>2. ASSUME NEW k \in ConnRecord
      PROVE  LET d == [k EXCEPT !.state = "open", !.by = restarts]
             IN  /\ d \in ConnRecord /\ d.state = "open" /\ d.by = restarts
                 /\ d.req = k.req /\ d.inbox = k.inbox /\ d.sent = k.sent
  BY DEF ConnRecord, ProcessType
<1>3. conn[c] \in ConnRecord /\ conn \in [Conns -> ConnRecord]
  BY <1>1 DEF ConnInv
<1>4. conn' = [conn EXCEPT ![c] = [conn[c] EXCEPT !.state = "open",
                                                  !.by = restarts]]
  BY <1>3 DEF Accept, ConnRecord
<1>5. /\ conn' \in [Conns -> ConnRecord]
      /\ conn'[c].state = "open" /\ conn'[c].by = restarts
      /\ conn'[c].req = conn[c].req /\ conn'[c].inbox = conn[c].inbox
      /\ conn'[c].sent = conn[c].sent
      /\ \A d \in Conns \ {c} : conn'[d] = conn[d]
  BY <1>1, <1>2, <1>3, <1>4
<1>6. /\ cur' = c /\ pc = "accept" /\ pc' = "recv_header"
      /\ restarts' = restarts /\ queue' = Tail(queue) /\ cur = NoConn
  BY DEF Accept, Goto, envVars, ConnInv, Handling
<1>7. restarts \in Nat
  BY ServerAssumption DEF ProcessType
<1>8. ConnInv'
  <2>1. \A d \in Conns : conn[d].state # "open"
    BY <1>6, ServerAssumption DEF ConnInv
  <2>2. conn[c].inbox = <<>>
    BY <1>1 DEF ConnInv
  <2> HIDE DEF c
  <2> QED
    BY <1>1, <1>5, <1>6, <1>7, <2>1, <2>2 DEF ConnInv, Handling, Fresh
<1>9. QueueInv'
  <2>1. /\ queue' \in Seq(Conns) /\ Len(queue') = Len(queue) - 1
        /\ \A i \in 1..Len(queue') : queue'[i] = queue[i + 1]
    BY <1>1, <1>6 DEF QueueInv
  <2>2. \A i \in 1..Len(queue') : /\ i + 1 \in 1..Len(queue) /\ i + 1 # 1
                                  /\ queue[i + 1] \in Conns
    BY <1>1, <2>1 DEF QueueInv
  <2>3. \A i \in 1..Len(queue') : queue'[i] # c /\ queue'[i] \in Conns
    BY <1>1, <2>1, <2>2 DEF QueueInv
  <2>4. \A i \in 1..Len(queue') : conn'[queue'[i]].state = "queued"
    BY <1>5, <2>1, <2>2, <2>3 DEF QueueInv
  <2>5. \A i, j \in 1..Len(queue') : queue'[i] = queue'[j] => i = j
    BY <2>1, <2>2 DEF QueueInv
  <2>6. BACKLOG \in Nat
    BY ServerAssumption
  <2> QED
    BY <1>1, <2>1, <2>4, <2>5, <2>6 DEF QueueInv
<1> QED
  BY <1>8, <1>9

(* What the three ways to send have in common.                              *)
SendStep == Send \/ Drain \/ SendShort

LEMMA SendFact ==
  ASSUME ConnInv, ResponseInv, SendStep
  PROVE  /\ \E r \in Message : /\ conn' = Deliver(conn, r)
                               /\ r.value = resp.value
                               /\ r = resp \/ r.status = "truncated"
         /\ pc \in {"send", "sending"} /\ pc' = "close"
         /\ UNCHANGED <<socket_fd_, g_server, cur, resp, life, kv, mods, phase,
                        call, ret, path, queue, signals, faults, restarts>>
         /\ AfterSend
<1>1. pc \in {"send", "sending"} /\ (Sent(resp) \/ Sent(Truncated(resp)))
  BY DEF SendStep, Send, Drain, SendShort
<1>2. resp \in Responses
  BY <1>1 DEF ResponseInv
<1>3. /\ resp \in Message
      /\ Truncated(resp) \in Message /\ Truncated(resp).value = resp.value
      /\ Truncated(resp).status = "truncated"
  BY <1>2 DEF Responses, Message, Truncated
<1>4. \E r \in Message : /\ Sent(r) /\ r.value = resp.value
                         /\ r = resp \/ r.status = "truncated"
  BY <1>1, <1>3
<1> QED
  BY <1>1, <1>4 DEF Sent, Goto, clientVars, enclaveVars, kernelVars, envVars

LEMMA SentConn ==
  ConnInv /\ QueueInv /\ ResponseInv /\ SendStep => ConnInv' /\ QueueInv'
<1> SUFFICES ASSUME ConnInv, QueueInv, ResponseInv, SendStep
             PROVE  ConnInv' /\ QueueInv'
  OBVIOUS
<1>1. PICK r \in Message : conn' = Deliver(conn, r)
  BY SendFact
<1>2. /\ pc \in {"send", "sending"} /\ pc' = "close"
      /\ UNCHANGED <<cur, queue, restarts>>
  BY SendFact
<1>3. cur \in Conns /\ conn[cur].state = "open" /\ conn[cur].inbox = <<>>
  BY <1>2 DEF ConnInv, Handling
<1>4. /\ conn' \in [Conns -> ConnRecord] /\ conn'[cur].inbox = <<r>>
      /\ \A c \in Conns : /\ conn'[c].state = conn[c].state
                          /\ conn'[c].by = conn[c].by
                          /\ conn'[c].req = conn[c].req
                          /\ conn'[c].sent = conn[c].sent
                          /\ c # cur => conn'[c].inbox = conn[c].inbox
  BY <1>1, <1>3, DeliverFact
<1>5. <<r>> # <<>>
  BY InboxFacts
<1>6. ConnInv'
  BY <1>2, <1>3, <1>4, <1>5 DEF ConnInv, Handling, Fresh
<1>7. QueueInv'
  <2>1. \A i \in 1..Len(queue) : queue[i] \in Conns
    BY DEF QueueInv
  <2> QED
    BY <1>2, <1>4, <2>1 DEF QueueInv
<1> QED
  BY <1>6, <1>7

LEMMA CloseConn == ConnInv /\ QueueInv /\ CloseClient => ConnInv' /\ QueueInv'
<1> SUFFICES ASSUME ConnInv, QueueInv, CloseClient PROVE ConnInv' /\ QueueInv'
  OBVIOUS
<1>1. /\ cur \in Conns /\ conn[cur].state = "open"
      /\ conn \in [Conns -> ConnRecord] /\ conn[cur] \in ConnRecord
  BY DEF ConnInv, CloseClient, Handling
<1>2. ASSUME NEW k \in ConnRecord
      PROVE  LET d == [k EXCEPT !.state = "done"]
             IN  /\ d \in ConnRecord /\ d.state = "done" /\ d.req = k.req
                 /\ d.inbox = k.inbox /\ d.by = k.by /\ d.sent = k.sent
  BY DEF ConnRecord
<1>3. conn' = [conn EXCEPT ![cur] = [conn[cur] EXCEPT !.state = "done"]]
  BY DEF CloseClient
<1>4. /\ conn' \in [Conns -> ConnRecord] /\ conn'[cur].state = "done"
      /\ conn'[cur].req = conn[cur].req /\ conn'[cur].inbox = conn[cur].inbox
      /\ conn'[cur].by = conn[cur].by /\ conn'[cur].sent = conn[cur].sent
      /\ \A c \in Conns \ {cur} : conn'[c] = conn[c]
  BY <1>1, <1>2, <1>3
<1>5. pc' = "loop" /\ cur' = NoConn /\ UNCHANGED <<queue, restarts>>
  BY DEF CloseClient, Goto, kernelVars, envVars
<1>6. ConnInv'
  BY <1>1, <1>4, <1>5 DEF ConnInv, Handling, Fresh
<1>7. QueueInv'
  BY <1>1, <1>4, <1>5 DEF QueueInv
<1> QED
  BY <1>6, <1>7

LEMMA EmptyQueue == queue' = <<>> => QueueInv'
<1>1. BACKLOG \in Nat /\ <<>> \in Seq(Conns) /\ Len(<<>>) = 0
  BY ServerAssumption
<1> QED
  BY <1>1 DEF QueueInv

(* A process that dies lets go of every connection.                         *)
LEMMA DieConn ==
  ASSUME ConnInv, NEW how \in Ended, Die(how), restarts' = restarts
  PROVE  ConnInv' /\ QueueInv'
<1>1. conn' = Dropped(conn, {"queued", "open"})
      /\ cur' = NoConn /\ queue' = <<>> /\ pc' = how
  BY DEF Die, Goto
<1>2. conn \in [Conns -> ConnRecord]
  BY DEF ConnInv
<1>3. /\ conn' \in [Conns -> ConnRecord]
      /\ \A c \in Conns :
           /\ conn'[c].state = IF conn[c].state \in {"queued", "open"}
                               THEN "done" ELSE conn[c].state
           /\ conn'[c].req = conn[c].req /\ conn'[c].by = conn[c].by
           /\ conn'[c].inbox = conn[c].inbox
           /\ conn'[c].sent = conn[c].sent
  BY <1>1, <1>2, DroppedFact
<1>4. ConnInv'
  BY <1>1, <1>3 DEF ConnInv, Handling, Fresh, Ended
<1> QED
  BY <1>1, <1>4, EmptyQueue

(* Shutdown, in the destructor or in the handler, drops what waits and      *)
(* leaves the connection being handled; in a blocked send it has got part   *)
(* of its response.                                                         *)
LEMMA ShutdownConn ==
  ConnInv /\ QueueInv /\ ResponseInv /\ (Destruct \/ SignalShutdown)
    => /\ ConnInv' /\ QueueInv'
       /\ \A c \in Conns : /\ conn'[c].req = conn[c].req
                           /\ conn'[c].sent = conn[c].sent
<1> SUFFICES ASSUME ConnInv, QueueInv, ResponseInv, Destruct \/ SignalShutdown
             PROVE  /\ ConnInv' /\ QueueInv'
                    /\ \A c \in Conns : /\ conn'[c].req = conn[c].req
                                        /\ conn'[c].sent = conn[c].sent
  OBVIOUS
<1>1. cur' = cur /\ restarts' = restarts /\ queue' = <<>>
  BY DEF Destruct, SignalShutdown, ShutdownEffect, NewSignal, clientVars,
     envVars
<1>2. conn \in [Conns -> ConnRecord]
  BY DEF ConnInv
<1>3. CASE ShutdownEffect(conn) /\ Stays
  <2>1. /\ conn' \in [Conns -> ConnRecord]
        /\ \A c \in Conns :
             /\ conn'[c].state = IF conn[c].state \in {"queued"}
                                 THEN "done" ELSE conn[c].state
             /\ conn'[c].req = conn[c].req /\ conn'[c].by = conn[c].by
             /\ conn'[c].inbox = conn[c].inbox
             /\ conn'[c].sent = conn[c].sent
    BY <1>2, <1>3, DroppedFact DEF ShutdownEffect
  <2>2. ConnInv'
    BY <1>1, <1>3, <2>1 DEF ConnInv, Stays, Handling, Fresh
  <2> QED
    BY <1>1, <2>1, <2>2, EmptyQueue
<1>4. CASE pc = "sending" /\ pc' = "close"
           /\ ShutdownEffect(Deliver(conn, Truncated(resp)))
  <2>1. cur \in Conns /\ conn[cur].state = "open" /\ conn[cur].inbox = <<>>
    BY <1>4 DEF ConnInv, Handling
  <2>2. Truncated(resp) \in Message
    BY <1>4 DEF ResponseInv, Responses, Message, Truncated
  <2> DEFINE cn == Deliver(conn, Truncated(resp))
  <2>3. /\ cn \in [Conns -> ConnRecord]
        /\ cn[cur].inbox = <<Truncated(resp)>>
        /\ \A c \in Conns :
             /\ cn[c].state = conn[c].state /\ cn[c].by = conn[c].by
             /\ cn[c].req = conn[c].req /\ cn[c].sent = conn[c].sent
             /\ c # cur => cn[c].inbox = conn[c].inbox
    BY <2>1, <2>2, DeliverFact
  <2>4. conn' = Dropped(cn, {"queued"})
    BY <1>4 DEF ShutdownEffect
  <2> HIDE DEF cn
  <2>5. /\ conn' \in [Conns -> ConnRecord]
        /\ \A c \in Conns :
             /\ conn'[c].state = IF cn[c].state \in {"queued"}
                                 THEN "done" ELSE cn[c].state
             /\ conn'[c].req = cn[c].req /\ conn'[c].by = cn[c].by
             /\ conn'[c].inbox = cn[c].inbox /\ conn'[c].sent = cn[c].sent
    BY <2>3, <2>4, DroppedFact
  <2>6. <<Truncated(resp)>> # <<>>
    BY <2>2, InboxFacts
  <2>7. /\ conn'[cur].inbox # <<>>
        /\ \A c \in Conns :
             /\ conn'[c].state = IF conn[c].state = "queued" THEN "done"
                                 ELSE conn[c].state
             /\ conn'[c].req = conn[c].req /\ conn'[c].by = conn[c].by
             /\ conn'[c].sent = conn[c].sent
             /\ c # cur => conn'[c].inbox = conn[c].inbox
    BY <2>1, <2>3, <2>5, <2>6
  <2>8. ConnInv'
    BY <1>1, <1>4, <2>1, <2>5, <2>7 DEF ConnInv, Handling, Fresh
  <2> QED
    BY <1>1, <2>7, <2>8, EmptyQueue
<1>5. CASE Destruct
  BY <1>3, <1>5 DEF Destruct, Goto, Handling, Fresh, Stays
<1>6. CASE SignalShutdown
  BY <1>3, <1>4, <1>6 DEF SignalShutdown, Goto, InCall, Handling, Stays
<1> QED
  BY <1>5, <1>6

(* A connection of an earlier process does not belong to the new one.       *)
LEMMA RestartConn ==
  ConnInv /\ QueueInv /\ ProcessType /\ Restart => ConnInv' /\ QueueInv'
<1> SUFFICES ASSUME ConnInv, QueueInv, ProcessType, Restart
             PROVE  ConnInv' /\ QueueInv'
  OBVIOUS
<1>1. /\ pc \in Ended /\ pc' = "boot" /\ restarts' = restarts + 1
      /\ UNCHANGED <<cur, conn, queue>>
  BY DEF Restart, Goto, clientVars, outsideVars, kernelVars
<1>2. restarts \in Nat /\ \A c \in Conns : conn[c].by \in Nat
  BY ServerAssumption DEF ProcessType, ConnInv, ConnRecord
<1>3. ConnInv'
  BY <1>1, <1>2 DEF ConnInv, Handling, Ended
<1>4. QueueInv'
  BY <1>1 DEF QueueInv
<1> QED
  BY <1>3, <1>4

(* More of a request, or the end of it: a request that has arrived stays.   *)
LEMMA ArrivalFacts ==
  /\ \A j \in DOMAIN Arrivals : Arrivals[j] \in Arrived
  /\ \A i, j \in DOMAIN Arrivals :
       i < j => Arrivals[i] # "all" /\ Arrivals[j] # "nothing"
<1>1. /\ DOMAIN Arrivals = 1..4
      /\ Arrivals[1] = "nothing" /\ Arrivals[2] = "part_header"
      /\ Arrivals[3] = "header" /\ Arrivals[4] = "all"
  BY DEF Arrivals
<1>2. \A j \in DOMAIN Arrivals : Arrivals[j] \in Arrived
  BY DEF Arrived
<1> QED
  BY <1>1, <1>2

LEMMA TouchFact ==
  ASSUME ConnInv, NEW c \in Conns, Touch(c)
  PROVE  /\ conn' \in [Conns -> ConnRecord]
         /\ \A d \in Conns :
              /\ conn'[d].state = conn[d].state
              /\ conn'[d].inbox = conn[d].inbox /\ conn'[d].by = conn[d].by
              /\ conn[d].sent # "nothing" =>
                   conn'[d].req = conn[d].req /\ conn'[d].sent # "nothing"
              /\ conn[d].sent = "all" => conn'[d].sent = "all"
              /\ conn'[d].sent # "nothing" =>
                   conn[d].state # "off" /\ conn'[d].req \in AllRequests
         /\ \A d \in Conns \ {c} : conn'[d] = conn[d]
         /\ UNCHANGED <<processVars, kernelVars, envVars>>
<1>1. conn \in [Conns -> ConnRecord]
  BY DEF ConnInv
<1>2. PICK k \in ConnRecord :
        /\ conn' = [conn EXCEPT ![c] = k]
        /\ k.state = conn[c].state /\ k.inbox = conn[c].inbox
        /\ k.by = conn[c].by
        /\ conn[c].sent # "nothing" =>
             k.req = conn[c].req /\ k.sent # "nothing"
        /\ conn[c].sent = "all" => k.sent = "all"
        /\ k.sent # "nothing" => k.state # "off" /\ k.req \in AllRequests
  BY DEF Touch
<1>3. /\ conn' \in [Conns -> ConnRecord] /\ conn'[c] = k
      /\ \A d \in Conns \ {c} : conn'[d] = conn[d]
  BY <1>1, <1>2
<1>4. UNCHANGED <<processVars, kernelVars, envVars>>
  BY DEF Touch
<1> QED
  BY <1>2, <1>3, <1>4 DEF ConnInv

LEMMA TouchConn ==
  ASSUME ConnInv, QueueInv, NEW c \in Conns, Touch(c)
  PROVE  ConnInv' /\ QueueInv'
<1>1. UNCHANGED <<pc, cur, queue, restarts>>
  BY TouchFact DEF processVars, clientVars, kernelVars, envVars
<1>2. ConnInv'
  <2>1. /\ conn' \in [Conns -> ConnRecord]
        /\ \A d \in Conns :
             /\ conn'[d].state = conn[d].state
             /\ conn'[d].inbox = conn[d].inbox /\ conn'[d].by = conn[d].by
             /\ conn'[d].sent # "nothing" =>
                  conn[d].state # "off" /\ conn'[d].req \in AllRequests
    BY TouchFact
  <2>2. pc = "close" => pc \in Handling
    BY DEF Handling
  <2> QED
    BY <1>1, <2>1, <2>2 DEF ConnInv
<1>3. QueueInv'
  <2>1. \A i \in 1..Len(queue) : queue[i] \in Conns
    BY DEF QueueInv
  <2> QED
    BY <1>1, <2>1, TouchFact DEF QueueInv
<1> QED
  BY <1>2, <1>3

LEMMA ConnectFact ==
  ASSUME ConnInv, NEW c \in Conns, NEW r \in AnyRequest, Connect(c, r)
  PROVE  /\ conn' \in [Conns -> ConnRecord]
         /\ conn[c].state = "off"
         /\ conn'[c].state = "queued" /\ conn'[c].req = r
         /\ conn'[c].inbox = conn[c].inbox /\ conn'[c].by = conn[c].by
         /\ conn'[c].sent = conn[c].sent
         /\ \A d \in Conns \ {c} : conn'[d] = conn[d]
         /\ queue' = Append(queue, c) /\ Len(queue) <= BACKLOG
         /\ UNCHANGED <<processVars, path, envVars>>
<1>1. conn \in [Conns -> ConnRecord] /\ conn[c] \in ConnRecord
  BY DEF ConnInv
<1>2. ASSUME NEW k \in ConnRecord
      PROVE  LET d == [k EXCEPT !.state = "queued", !.req = r]
             IN  /\ d \in ConnRecord /\ d.state = "queued" /\ d.req = r
                 /\ d.inbox = k.inbox /\ d.by = k.by /\ d.sent = k.sent
  BY DEF ConnRecord
<1>3. conn' = [conn EXCEPT ![c] = [conn[c] EXCEPT !.state = "queued",
                                                  !.req = r]]
  BY <1>1 DEF Connect, ConnRecord
<1> QED
  BY <1>1, <1>2, <1>3 DEF Connect, HasRoom

LEMMA ConnectConn ==
  ASSUME ConnInv, QueueInv, NEW c \in Conns, NEW r \in AnyRequest, Connect(c, r)
  PROVE  ConnInv' /\ QueueInv'
<1>1. UNCHANGED <<pc, cur, restarts>>
  BY ConnectFact DEF processVars, clientVars, envVars
<1>2. /\ conn[c].inbox = <<>> /\ conn[c].state = "off"
      /\ conn[c].sent = "nothing"
  BY ConnectFact DEF ConnInv
<1>3. ConnInv'
  <2>1. pc \in Handling => cur # c
    BY <1>2 DEF ConnInv
  <2>2. pc = "close" => pc \in Handling
    BY DEF Handling
  <2> QED
    BY <1>1, <1>2, <2>1, <2>2, ConnectFact DEF ConnInv
<1>4. QueueInv'
  <2>1. /\ queue \in Seq(Conns) /\ Len(queue) \in Nat
        /\ \A i \in 1..Len(queue) :
             queue[i] \in Conns /\ conn[queue[i]].state = "queued"
    BY DEF QueueInv
  <2>2. \A i \in 1..Len(queue) : queue[i] # c
    BY <1>2, <2>1
  <2>3. /\ queue' \in Seq(Conns) /\ Len(queue') = Len(queue) + 1
        /\ \A i \in 1..Len(queue) : queue'[i] = queue[i]
        /\ queue'[Len(queue) + 1] = c
    BY <2>1, ConnectFact
  <2>4. \A i \in 1..Len(queue') : i \in 1..Len(queue) \/ i = Len(queue) + 1
    BY <2>1, <2>3
  <2>5. \A i \in 1..Len(queue') : conn'[queue'[i]].state = "queued"
    BY <2>1, <2>2, <2>3, <2>4, ConnectFact
  <2>6. \A i, j \in 1..Len(queue') : queue'[i] = queue'[j] => i = j
    BY <2>2, <2>3, <2>4 DEF QueueInv
  <2>7. Len(queue') <= BACKLOG + 1
    BY <2>1, <2>3, ConnectFact, ServerAssumption
  <2> QED
    BY <2>3, <2>5, <2>6, <2>7 DEF QueueInv
<1> QED
  BY <1>3, <1>4

(* The steps in which the process dies.                                     *)
Dies == \E how \in Ended : Die(how) /\ UNCHANGED restarts

LEMMA DieSteps ==
  ASSUME CallNull \/ SendPipe \/ SignalDefault \/ SignalDestroyed PROVE Dies
BY DEF CallNull, SendPipe, SignalDefault, SignalDestroyed, NewSignal, envVars,
   Dies, Ended

(* The use of a freed enclave, when the process survives it.                *)
FreedReturn == UseAfterFree /\ ~Dies

LEMMA FreedFact ==
  ASSUME FreedReturn
  PROVE  /\ pc = "dangling" /\ pc' = "send"
         /\ \E r \in FreedResults(call[Main]) : resp' = Reply(call[Main], r)
         /\ phase' = [phase EXCEPT ![Main] = "idle"]
         /\ call' = [call EXCEPT ![Main] = NoCall]
         /\ UNCHANGED <<running_, socket_fd_, g_server, cur, life, kv, mods,
                        ret, path, queue, conn, signals, faults, restarts>>
<1>1. ~Die("segv")
  BY DEF FreedReturn, UseAfterFree, Dies, Ended, envVars
<1> QED
  BY <1>1 DEF FreedReturn, UseAfterFree, Goto, flagVars, kernelVars, envVars

(* The next-state relation by what it does to the connections.              *)
LEMMA StepCases ==
  ASSUME Step
  PROVE  \/ QuietStep \/ FreedReturn \/ Accept \/ SendStep \/ CloseClient
         \/ Dies /\ (CallNull \/ SendPipe \/ SignalDefault \/ SignalDestroyed
                     \/ UseAfterFree)
         \/ Destruct \/ SignalShutdown \/ Restart
         \/ World
BY DieSteps DEF Step, Process, MainStep, Serves, Leaves, Signal, QuietStep, FreedReturn,
   SendStep

(* What the process does to a connection.                                   *)
Handled(c) ==
  /\ conn'[c].req = conn[c].req /\ conn'[c].sent = conn[c].sent
  /\ conn'[c].shut <=> conn[c].shut
  /\ conn'[c].state = "off" <=> conn[c].state = "off"
  /\ conn'[c].state # conn[c].state =>
       \/ conn[c].state = "queued"
       \/ conn[c].state = "open" /\ conn'[c].state = "done"
  /\ conn'[c].by # conn[c].by =>
       conn[c].state = "queued" /\ conn'[c].state = "open"
  /\ conn'[c].inbox # conn[c].inbox =>
       /\ conn[c].state = "open" /\ conn'[c].state = "open"
       /\ conn[c].inbox = <<>>
       /\ c = cur /\ pc \in {"send", "sending"}
       /\ \E r \in Message : /\ conn'[c].inbox = <<r>>
                             /\ r.value = resp.value
                             /\ r = resp \/ r.status = "truncated"

LEMMA ProcessEffect ==
  ASSUME ConnInv, QueueInv, ProcessType, ResponseInv, Process
  PROVE  \A c \in Conns : Handled(c)
<1> SUFFICES ASSUME NEW c \in Conns PROVE Handled(c)
  OBVIOUS
<1>a. conn \in [Conns -> ConnRecord] /\ conn[c] \in ConnRecord
  BY DEF ConnInv
<1>1. CASE conn' = conn
  BY <1>1 DEF Handled
<1>2. CASE Accept
  <2> DEFINE h == Head(queue)
  <2>1. h \in Conns /\ conn[h].state = "queued"
    BY <1>2 DEF Accept, QueueInv
  <2>2. ASSUME NEW k \in ConnRecord, NEW d,
               d = [k EXCEPT !.state = "open", !.by = restarts]
        PROVE  /\ d.req = k.req /\ d.sent = k.sent /\ d.inbox = k.inbox
               /\ d.state = "open"
               /\ d.shut <=> k.shut
    BY <2>2 DEF ConnRecord
  <2>3. conn' = [conn EXCEPT ![h] = [conn[h] EXCEPT !.state = "open",
                                                    !.by = restarts]]
    BY <1>2, <1>a, <2>1 DEF Accept, ConnRecord
  <2>4. /\ conn'[h] = [conn[h] EXCEPT !.state = "open", !.by = restarts]
        /\ conn[h] \in ConnRecord
        /\ c # h => conn'[c] = conn[c]
    BY <1>a, <2>1, <2>3
  <2> HIDE DEF h
  <2>5. CASE c = h
    <3>1. /\ conn'[c].req = conn[c].req /\ conn'[c].sent = conn[c].sent
          /\ conn'[c].inbox = conn[c].inbox /\ conn'[c].state = "open"
          /\ conn'[c].shut <=> conn[c].shut
      BY <2>2, <2>4, <2>5
    <3> QED
      BY <2>1, <2>5, <3>1 DEF Handled
  <2>6. CASE c # h
    BY <2>4, <2>6 DEF Handled
  <2> QED
    BY <2>5, <2>6
<1>3. CASE SendStep
  <2>1. PICK r \in Message : /\ conn' = Deliver(conn, r)
                             /\ r.value = resp.value
                             /\ r = resp \/ r.status = "truncated"
    BY <1>3, SendFact
  <2>2. pc \in {"send", "sending"}
    BY <1>3, SendFact
  <2>3. cur \in Conns /\ conn[cur].state = "open" /\ conn[cur].inbox = <<>>
    BY <2>2 DEF ConnInv, Handling
  <2>4. /\ conn'[cur].inbox = <<r>>
        /\ conn'[c].state = conn[c].state /\ conn'[c].by = conn[c].by
        /\ conn'[c].req = conn[c].req /\ conn'[c].sent = conn[c].sent
        /\ conn'[c].shut <=> conn[c].shut
        /\ c # cur => conn'[c].inbox = conn[c].inbox
    BY <2>1, <2>3, DeliverFact
  <2> QED
    BY <2>1, <2>2, <2>3, <2>4 DEF Handled
<1>4. CASE CloseClient
  <2>1. cur \in Conns /\ conn[cur].state = "open"
    BY <1>4 DEF CloseClient, ConnInv, Handling
  <2>2. ASSUME NEW k \in ConnRecord, NEW d, d = [k EXCEPT !.state = "done"]
        PROVE  /\ d.req = k.req /\ d.sent = k.sent /\ d.inbox = k.inbox
               /\ d.state = "done" /\ d.by = k.by
               /\ d.shut <=> k.shut
    BY <2>2 DEF ConnRecord
  <2>3. conn' = [conn EXCEPT ![cur] = [conn[cur] EXCEPT !.state = "done"]]
    BY <1>4 DEF CloseClient
  <2>4. /\ conn'[cur] = [conn[cur] EXCEPT !.state = "done"]
        /\ conn[cur] \in ConnRecord
        /\ c # cur => conn'[c] = conn[c]
    BY <1>a, <2>1, <2>3
  <2>5. CASE c = cur
    <3>1. /\ conn'[c].req = conn[c].req /\ conn'[c].sent = conn[c].sent
          /\ conn'[c].inbox = conn[c].inbox /\ conn'[c].state = "done"
          /\ conn'[c].by = conn[c].by
          /\ conn'[c].shut <=> conn[c].shut
      BY <2>2, <2>4, <2>5
    <3> QED
      BY <2>1, <2>5, <3>1 DEF Handled
  <2>6. CASE c # cur
    BY <2>4, <2>6 DEF Handled
  <2> QED
    BY <2>5, <2>6
<1>5. ASSUME NEW S \in SUBSET {"queued", "open"}, conn' = Dropped(conn, S)
      PROVE  Handled(c)
  <2>1. /\ conn'[c].state = IF conn[c].state \in S THEN "done"
                            ELSE conn[c].state
        /\ conn'[c].req = conn[c].req /\ conn'[c].sent = conn[c].sent
        /\ conn'[c].inbox = conn[c].inbox /\ conn'[c].by = conn[c].by
        /\ conn'[c].shut <=> conn[c].shut
    BY <1>5, <1>a, DroppedFact
  <2> QED
    BY <2>1 DEF Handled
<1>6. CASE pc = "sending"
           /\ conn' = Dropped(Deliver(conn, Truncated(resp)), {"queued"})
  <2>1. cur \in Conns /\ conn[cur].state = "open" /\ conn[cur].inbox = <<>>
    BY <1>6 DEF ConnInv, Handling
  <2>2. /\ Truncated(resp) \in Message /\ Truncated(resp).value = resp.value
        /\ Truncated(resp).status = "truncated"
    BY <1>6 DEF ResponseInv, Responses, Message, Truncated
  <2> DEFINE cn == Deliver(conn, Truncated(resp))
  <2>3. /\ cn \in [Conns -> ConnRecord]
        /\ cn[cur].inbox = <<Truncated(resp)>>
        /\ cn[c].state = conn[c].state /\ cn[c].by = conn[c].by
        /\ cn[c].req = conn[c].req /\ cn[c].sent = conn[c].sent
        /\ cn[c].shut <=> conn[c].shut
        /\ c # cur => cn[c].inbox = conn[c].inbox
    BY <2>1, <2>2, DeliverFact
  <2>4. conn' = Dropped(cn, {"queued"})
    BY <1>6
  <2> HIDE DEF cn
  <2>5. /\ conn'[c].state = IF cn[c].state \in {"queued"} THEN "done"
                            ELSE cn[c].state
        /\ conn'[c].req = cn[c].req /\ conn'[c].by = cn[c].by
        /\ conn'[c].inbox = cn[c].inbox /\ conn'[c].sent = cn[c].sent
        /\ conn'[c].shut <=> cn[c].shut
    BY <2>3, <2>4, DroppedFact
  <2> QED
    BY <1>6, <2>1, <2>2, <2>3, <2>5 DEF Handled
<1>7. CASE Dies \/ Destruct \/ SignalShutdown
  BY <1>5, <1>6, <1>7 DEF Dies, Die, Destruct, SignalShutdown, ShutdownEffect
<1>8. CASE QuietStep \/ FreedReturn \/ Restart
  BY <1>1, <1>8, QuietSteps, FreedFact DEF Quiet, Restart, outsideVars
<1> QED
  BY <1>2, <1>3, <1>4, <1>7, <1>8, DieSteps DEF Process, MainStep, Serves,
     Leaves, Signal, QuietStep, FreedReturn, SendStep

LEMMA ConnStep == Inductive /\ Step => ConnInv' /\ QueueInv'
<1> SUFFICES ASSUME Inductive, Step PROVE ConnInv' /\ QueueInv'
  OBVIOUS
<1>a. ProcessType /\ ConnInv /\ QueueInv /\ ResponseInv
  BY DEF Inductive
<1>1. CASE QuietStep
  BY <1>1, <1>a, QuietSteps, QuietConn
<1>2. CASE FreedReturn
  <2>1. Quiet
    BY <1>2, FreedFact DEF Quiet, Stays, Handling
  <2> QED
    BY <1>a, <2>1, QuietConn
<1>3. CASE Accept \/ SendStep \/ CloseClient \/ Restart
  BY <1>3, <1>a, AcceptConn, SentConn, CloseConn, RestartConn
<1>4. CASE Dies
  BY <1>4, <1>a, DieConn DEF Dies
<1>5. CASE Destruct \/ SignalShutdown
  BY <1>5, <1>a, ShutdownConn
<1>6. ASSUME NEW c \in Conns, NEW r \in AnyRequest, Connect(c, r)
      PROVE  ConnInv' /\ QueueInv'
  BY <1>6, <1>a, ConnectConn
<1>7. ASSUME NEW c \in Conns, Touch(c)
      PROVE  ConnInv' /\ QueueInv'
  BY <1>7, <1>a, TouchConn
<1> QED
  BY <1>1, <1>2, <1>3, <1>4, <1>5, <1>6, <1>7, StepCases DEF World

-----------------------------------------------------------------------------
(* The process: its flags, its socket and its counters.                     *)

LEMMA NatFacts ==
  /\ MaxSignals \in Nat /\ MaxFaults \in Nat /\ MaxRestarts \in Nat
  /\ BACKLOG \in Nat
BY ServerAssumption

ProcessInv == ProcessType /\ StartInv

(* Initialize, call by call.                                                *)
LEMMA StartsProcess == ProcessInv /\ Starts => ProcessInv'
<1> SUFFICES ASSUME ProcessInv, Starts PROVE ProcessInv'
  OBVIOUS
<1> USE NatFacts DEF ProcessInv, ProcessType, StartInv, InitFailsForCause, Goto, Starting, Serving, Leaving, Ended,
        outsideVars, enclaveVars, kernelVars, flagVars, envVars
<1>1. CASE Boot \/ CheckInitialized
  BY <1>1 DEF Boot, CheckInitialized, Move
<1>2. CASE Publish \/ SetRunning
  BY <1>2 DEF Publish, SetRunning
<1>3. CASE CreateEnclave
  BY <1>3 DEF CreateEnclave, Fault
<1>4. CASE CreateSocket
  BY <1>4 DEF CreateSocket, Fault
<1>5. CASE Unlink \/ Bind \/ Listen
  BY <1>5 DEF Unlink, Bind, CanBind, Listen
<1>6. CASE BindOrListenFail
  BY <1>6 DEF BindOrListenFail, CanBind, Fault
<1> QED
  BY <1>1, <1>2, <1>3, <1>4, <1>5, <1>6 DEF Starts

(* Serving and leaving change no file; only the flag and the counters.      *)
LEMMA ServesProcess ==
  ASSUME ProcessInv, ConnInv, ResponseInv,
         QuietStep \/ Accept \/ SendStep \/ CloseClient \/ FreedReturn
  PROVE  ProcessInv'
<1> USE NatFacts DEF ProcessInv, ProcessType, StartInv, InitFailsForCause, Starting, Serving, Leaving, Ended
<1>1. CASE Starts
  BY <1>1, StartsProcess
<1>2. CASE SendStep
  <2>1. running_' \in BOOLEAN
    BY <1>2, SendFact, Zenon DEF AfterSend
  <2> QED
    BY <1>2, <2>1, SendFact
<1>3. CASE FreedReturn
  BY <1>3, FreedFact
<1>4. CASE RecvHeader \/ RecvPayload \/ Dispatch
  <2>1. /\ pc' \in {"recv_payload", "dispatch", "call", "send", "close"}
        /\ UNCHANGED <<running_, socket_fd_, g_server, path, signals, faults,
                       restarts, life, kv>>
    BY <1>4 DEF RecvHeader, RecvPayload, Dispatch, Stage, Goto, flagVars,
       outsideVars, enclaveVars, kernelVars, envVars
  <2> QED
    BY <2>1
<1> USE DEF Goto, flagVars, outsideVars, enclaveVars, kernelVars, envVars
<1>5. CASE Loop \/ SendBlocks \/ InitFailed \/ Clear \/ ProcessExit
  BY <1>5 DEF Loop, SendBlocks, InitFailed, Clear, ProcessExit, Move
<1>6. CASE AcceptFail
  BY <1>6 DEF AcceptFail, FailedAcceptTo, Fault
<1>7. CASE Accept \/ CloseClient
  BY <1>7 DEF Accept, CloseClient
<1>8. CASE CallEnclave \/ InEnclave \/ LeaveEnclave
  BY <1>8 DEF CallEnclave, InEnclave, LeaveEnclave
<1>9. CASE SignalIgnored
  BY <1>9 DEF SignalIgnored, NewSignal, processVars
<1>10. CASE UNCHANGED vars
  BY <1>10 DEF vars, processVars
<1> QED
  BY <1>1, <1>2, <1>3, <1>4, <1>5, <1>6, <1>7, <1>8, <1>9, <1>10
     DEF QuietStep

(* A signal, or the death of the process.                                   *)
LEMMA EndsProcess ==
  ASSUME ProcessInv,
         \/ Dies /\ (CallNull \/ SendPipe \/ SignalDefault \/ SignalDestroyed
                     \/ UseAfterFree)
         \/ Destruct \/ SignalShutdown \/ Restart
  PROVE  ProcessInv'
<1> USE NatFacts DEF ProcessInv, ProcessType, StartInv, InitFailsForCause, Starting, Serving, Leaving, Ended
<1>1. CASE Dies /\ (CallNull \/ SendPipe \/ SignalDefault \/ SignalDestroyed
                     \/ UseAfterFree)
  <2>1. PICK how \in {"killed", "segv"} : Die(how)
    BY <1>1 DEF CallNull, SendPipe, SignalDefault, SignalDestroyed,
       UseAfterFree, Dies, Die,
       Goto
  <2>2. UNCHANGED envVars \/ NewSignal
    BY <1>1 DEF CallNull, SendPipe, SignalDefault, SignalDestroyed,
       UseAfterFree
  <2>3. /\ signals' \in 0..MaxSignals /\ faults' \in 0..MaxFaults
        /\ restarts' \in 0..MaxRestarts
    BY <2>2 DEF envVars, NewSignal
  <2> QED
    BY <2>1, <2>3 DEF Die, Goto, PathKept
<1>2. CASE Destruct
  BY <1>2 DEF Destruct, ShutdownEffect, Goto, envVars
<1>3. CASE SignalShutdown
  <2>1. \E cn : ShutdownEffect(cn)
    BY <1>3 DEF SignalShutdown
  <2>2. /\ kv' = EmptyMap /\ life' = "none" /\ path' = "absent"
        /\ running_' = FALSE /\ socket_fd_' = "closed"
    BY <2>1, SameApi DEF ShutdownEffect, Enc!Reset
  <2>3. /\ pc' \in {"send", "close", "dangling", pc}
        /\ g_server' = g_server
        /\ signals' = signals + 1 /\ signals < MaxSignals
        /\ UNCHANGED <<faults, restarts>>
    BY <1>3 DEF SignalShutdown, NewSignal, Goto
  <2>4. g_server' \in BOOLEAN /\ running_' \in BOOLEAN
    BY <2>2, <2>3, Zenon
  <2>5. signals' \in 0..MaxSignals /\ signals' > 0
    BY <2>3
  <2>6. /\ pc' \in Starting \cup Serving \cup Leaving \cup Ended
        /\ socket_fd_' \in {"closed", "open", "bound", "listening"}
        /\ path' \in {"absent", "live", "stale"}
        /\ faults' \in 0..MaxFaults /\ restarts' \in 0..MaxRestarts
    BY <2>2, <2>3
  <2> QED
    BY <2>2, <2>4, <2>5, <2>6
<1>4. CASE Restart
  BY <1>4 DEF Restart, Goto, flagVars, outsideVars, kernelVars
<1> QED
  BY <1>1, <1>2, <1>3, <1>4

LEMMA ProcessStep == Inductive /\ Step => ProcessInv'
<1> SUFFICES ASSUME Inductive, Step PROVE ProcessInv'
  OBVIOUS
<1>a. ProcessInv /\ ConnInv /\ ResponseInv
  BY DEF Inductive, ProcessInv
<1>1. CASE World
  <2>1. UNCHANGED <<processVars, path, envVars>>
    BY <1>1 DEF World, Connect, Touch, kernelVars
  <2> QED
    BY <1>a, <2>1 DEF ProcessInv, ProcessType, StartInv, InitFailsForCause, processVars, flagVars, enclaveVars, envVars
<1> QED
  BY <1>a, <1>1, ServesProcess, EndsProcess, StepCases

-----------------------------------------------------------------------------
(* Replies.                                                                 *)

LEMMA FailureFacts ==
  ASSUME NEW st \in ResponseStatus \ {"SUCCESS"}
  PROVE  /\ Failure(st) \in Responses /\ Failure(st) # NoReply
         /\ Failure(st).status # "SUCCESS"
<1>1. st # "none"
  BY DEF ResponseStatus
<1> QED
  BY <1>1, ResultFacts DEF Failure, NoReply, Responses

LEMMA SuccessFacts ==
  ASSUME NEW r \in Results
  PROVE  /\ Success(r) \in Responses /\ Success(r) # NoReply
         /\ Success(r).value = r
<1>1. "SUCCESS" \in ResponseStatus
  BY DEF ResponseStatus
<1> QED
  BY <1>1 DEF Success, Failure, NoReply, Responses

(* A request that HandleClient accepts is one of the two families.          *)
LEMMA RequestFacts ==
  ASSUME NEW r \in AllRequests
  PROVE  \/ r.cmd = "call" /\ r.call \in Calls
         \/ r.cmd \in {"shutdown", "unknown"} /\ r.call = NoCall
BY DEF AllRequests

LEMMA HeaderFact ==
  ASSUME NEW r
  PROVE  \/ HeaderReply(r) = NoReply /\ r.fault \notin {"magic", "size"}
         \/ /\ HeaderReply(r) \in Responses /\ HeaderReply(r) # NoReply
            /\ HeaderReply(r).status # "SUCCESS"
<1>1. CASE r.fault = "magic"
  <2>1. HeaderReply(r) = Failure("ERROR_INVALID_COMMAND")
    BY <1>1 DEF HeaderReply
  <2> QED
    BY <2>1, FailureFacts DEF ResponseStatus
<1>2. CASE r.fault = "size"
  <2>1. HeaderReply(r) = Failure("ERROR_INVALID_PARAMS")
    BY <1>2 DEF HeaderReply
  <2> QED
    BY <2>1, FailureFacts DEF ResponseStatus
<1>3. CASE r.fault \notin {"magic", "size"}
  <2>1. HeaderReply(r) = NoReply
    BY <1>3 DEF HeaderReply
  <2> QED
    BY <1>3, <2>1
<1> QED
  BY <1>1, <1>2, <1>3

(* Dispatch answers by itself what is invalid, unknown or a SHUTDOWN.       *)
LEMMA DispatchFact ==
  ASSUME NEW r \in AllRequests
  PROVE  \/ /\ DispatchReply(r) = NoReply
            /\ ~Invalid(r) /\ ~Malformed(r) /\ r.call \in Calls
         \/ /\ DispatchReply(r) \in Responses /\ DispatchReply(r) # NoReply
            /\ DispatchReply(r).status = "SUCCESS" => r.call = NoCall
<1>1. CASE Invalid(r) \/ Malformed(r)
  <2>1. ~(~Invalid(r) /\ r.cmd = "unknown") /\ ~(~Invalid(r) /\ r.cmd = "shutdown")
    BY <1>1, RequestFacts, NoCallFact DEF Malformed, HasPayload
  <2>2. DispatchReply(r) = Failure("ERROR_INVALID_PARAMS")
    BY <1>1, <2>1 DEF DispatchReply
  <2> QED
    BY <2>2, FailureFacts DEF ResponseStatus
<1>2. CASE ~Invalid(r) /\ ~Malformed(r) /\ r.cmd = "unknown"
  <2>1. DispatchReply(r) = Failure("ERROR_INVALID_COMMAND")
    BY <1>2 DEF DispatchReply
  <2> QED
    BY <2>1, FailureFacts DEF ResponseStatus
<1>3. CASE ~Invalid(r) /\ ~Malformed(r) /\ r.cmd = "shutdown"
  <2>1. DispatchReply(r) = Success(OkVoid)
    BY <1>3 DEF DispatchReply
  <2>2. r.call = NoCall
    BY <1>3, RequestFacts
  <2> QED
    BY <2>1, <2>2, SuccessFacts, ResultFacts
<1>4. CASE ~Invalid(r) /\ ~Malformed(r) /\ r.cmd \notin {"unknown", "shutdown"}
  <2>1. DispatchReply(r) = NoReply
    BY <1>4 DEF DispatchReply
  <2>2. r.call \in Calls
    BY <1>4, RequestFacts
  <2> QED
    BY <1>4, <2>1, <2>2
<1> QED
  BY <1>1, <1>2, <1>3, <1>4

(* A handler reports success only for a result that is OK.                  *)
LEMMA ReplyFact ==
  ASSUME NEW q, NEW r \in Results
  PROVE  /\ Reply(q, r) \in Responses
         /\ Reply(q, r).status = "SUCCESS" =>
              r.status = "OK" /\ Reply(q, r).value = r
<1>1. CASE r.status = "OK"
  BY <1>1, SuccessFacts DEF Reply
<1>2. CASE r.status # "OK"
  <2>1. PICK st \in ResponseStatus \ {"SUCCESS"} : Reply(q, r) = Failure(st)
    <3>1. CASE q.op = "retrieve"
      <4>1. Reply(q, r) = Failure("ERROR_NOT_FOUND")
        BY <1>2, <3>1 DEF Reply
      <4> QED
        BY <4>1 DEF ResponseStatus
    <3>2. CASE q.op = "attest"
      <4>1. Reply(q, r) = Failure("ERROR_INTERNAL")
        BY <1>2, <3>2 DEF Reply
      <4> QED
        BY <4>1 DEF ResponseStatus
    <3>3. CASE q.op \notin {"retrieve", "attest"}
      <4>1. Reply(q, r) = Failure("ERROR_EXECUTION_FAILED")
        BY <1>2, <3>3 DEF Reply
      <4> QED
        BY <4>1 DEF ResponseStatus
    <3> QED
      BY <3>1, <3>2, <3>3
  <2> QED
    BY <2>1, FailureFacts
<1> QED
  BY <1>1, <1>2

LEMMA FreedResultFact ==
  \A q \in Calls :
    /\ FreedResults(q) \subseteq Results
    /\ \A r \in FreedResults(q) : r.status = "OK" => Fits(q, r)
<1> SUFFICES ASSUME NEW q \in Calls
             PROVE  /\ FreedResults(q) \subseteq Results
                    /\ \A r \in FreedResults(q) :
                         r.status = "OK" => Fits(q, r)
  OBVIOUS
<1>a. /\ Error("ERROR_CRYPTO_FAILURE") \in Results
      /\ Error("ERROR_CRYPTO_FAILURE").status # "OK"
  BY ResultFacts, StatusFacts DEF ErrorStatus
<1>b. q.op # "load" => \A r : Fits(q, r)
  BY DEF Fits
<1>c. \A h \in Handles : Fits(q, OkHandle(h))
  BY StatusFacts DEF Fits
<1>1. CASE q.op = "store"
  <2>1. FreedResults(q) = {Error("ERROR_CRYPTO_FAILURE")} \cup {OkVoid}
    BY <1>1 DEF FreedResults
  <2> QED
    BY <1>1, <1>b, <1>a, <2>1, ResultFacts
<1>2. CASE q.op = "attest"
  <2>1. FreedResults(q) = {Error("ERROR_CRYPTO_FAILURE")} \cup {OkAttested}
    BY <1>2 DEF FreedResults
  <2> QED
    BY <1>2, <1>b, <1>a, <2>1, ResultFacts
<1>3. CASE q.op = "retrieve"
  <2>1. FreedResults(q) = {Error("ERROR_CRYPTO_FAILURE")}
                            \cup {OkData(d) : d \in Data}
    BY <1>3 DEF FreedResults
  <2> QED
    BY <1>3, <1>b, <1>a, <2>1, ResultFacts
<1>4. CASE q.op = "load"
  <2>1. FreedResults(q) = {Error("ERROR_CRYPTO_FAILURE")}
                            \cup {OkHandle(h) : h \in Handles}
    BY <1>4 DEF FreedResults
  <2> QED
    BY <1>c, <1>a, <2>1, ResultFacts
<1>5. CASE q.op = "invoke"
  <2>1. FreedResults(q) = {Error("ERROR_CRYPTO_FAILURE")}
                            \cup {OkInvoked(q.data)}
    BY <1>5 DEF FreedResults
  <2> QED
    BY <1>5, <1>b, <1>a, <2>1, ResultFacts, CallFacts
<1> QED
  BY <1>1, <1>2, <1>3, <1>4, <1>5, CallFacts

-----------------------------------------------------------------------------
(* The request being handled, and the call it makes.                        *)

LEMMA RequestFact ==
  ConnInv /\ RequestInv
    /\ pc \in {"recv_payload", "dispatch", "call", "in_enclave"}
    => cur \in Conns /\ Request \in AllRequests
BY DEF ConnInv, RequestInv, Request, Handling

(* The steps that leave main's thread where it is, with its request.        *)
SameRequest ==
  /\ UNCHANGED <<pc, cur>>
  /\ \A c \in Conns :
       conn[c].state = "open" =>
         /\ conn[c].sent # "nothing" =>
              conn'[c].req = conn[c].req /\ conn'[c].sent # "nothing"
         /\ conn[c].sent = "all" => conn'[c].sent = "all"

LEMMA SameRequestSteps ==
  ASSUME ConnInv, QueueInv, ResponseInv,
         \/ SignalIgnored \/ InEnclave \/ UNCHANGED vars
         \/ SignalShutdown /\ pc' = pc
         \/ World
  PROVE  SameRequest
<1>1. CASE SignalIgnored \/ InEnclave \/ UNCHANGED vars
  BY <1>1 DEF SignalIgnored, InEnclave, vars, processVars, clientVars,
     SameRequest
<1>2. CASE SignalShutdown /\ pc' = pc
  <2>1. cur' = cur
    BY <1>2 DEF SignalShutdown
  <2> QED
    BY <1>2, <2>1, ShutdownConn DEF SameRequest
<1>3. ASSUME NEW c \in Conns, NEW r \in AnyRequest, Connect(c, r)
      PROVE  SameRequest
  BY <1>3, ConnectFact DEF SameRequest, processVars, clientVars
<1>4. ASSUME NEW c \in Conns, Touch(c) PROVE SameRequest
  BY <1>4, TouchFact DEF SameRequest, processVars, clientVars
<1> QED
  BY <1>1, <1>2, <1>3, <1>4 DEF World

(* Every other step leaves for a label at which nothing is known of the     *)
(* request, or is a stage of HandleClient.                                  *)
LEMMA RequestStep == Inductive /\ Step => RequestInv'
<1> SUFFICES ASSUME Inductive, Step PROVE RequestInv'
  OBVIOUS
<1>a. ConnInv /\ QueueInv /\ ResponseInv /\ RequestInv
  BY DEF Inductive
<1> DEFINE Reading == {"recv_payload", "dispatch", "call", "in_enclave",
                       "dangling"}
<1>1. CASE SameRequest
  <2>1. pc \in {"recv_payload", "dispatch", "call", "in_enclave",
                 "dangling"} =>
          /\ cur \in Conns /\ conn[cur].state = "open"
          /\ Request' = Request /\ conn'[cur].sent # "nothing"
          /\ conn[cur].sent = "all" => conn'[cur].sent = "all"
    BY <1>1, <1>a DEF ConnInv, RequestInv, Handling, SameRequest, Request
  <2> QED
    BY <1>1, <2>1, <1>a DEF SameRequest, RequestInv
<1>2. CASE pc' \notin Reading
  BY <1>2 DEF RequestInv, Reading
<1>3. CASE RecvHeader
  <2>1. UNCHANGED <<cur, conn>>
    BY <1>3 DEF RecvHeader, Stage, outsideVars
  <2>2. Request' = Request
    BY <2>1 DEF Request
  <2>3. CASE Stage(ShortHeader, "close")
    <3>1. ShortHeader # NoReply
      BY FailureFacts DEF ShortHeader, ResponseStatus
    <3> QED
      BY <2>3, <3>1, <1>2 DEF Stage, Goto
  <2>4. CASE Stage(HeaderReply(Request),
                   IF HasPayload(Request) THEN "recv_payload" ELSE "dispatch")
    <3>1. CASE HeaderReply(Request) # NoReply
      BY <2>4, <3>1, <1>2 DEF Stage, Goto
    <3>2. CASE HeaderReply(Request) = NoReply
      <4>1. Request.fault \notin {"magic", "size"}
        BY <3>2, HeaderFact
      <4>2. pc' = IF HasPayload(Request) THEN "recv_payload" ELSE "dispatch"
        BY <2>4, <3>2 DEF Stage, Goto
      <4>3. HasPayload(Request)' <=> HasPayload(Request)
        BY <2>2 DEF HasPayload
      <4>4. conn'[cur'].sent # "nothing"
        BY <1>3, <2>1, <2>4, <3>2, FailureFacts DEF RecvHeader, ArrivedFrom,
           Stage, Goto, ShortHeader, ResponseStatus
      <4> QED
        BY <2>2, <4>1, <4>2, <4>3, <4>4 DEF RequestInv
    <3> QED
      BY <3>1, <3>2
  <2> QED
    BY <1>3, <2>3, <2>4 DEF RecvHeader
<1>4. CASE RecvPayload
  <2>1. UNCHANGED <<cur, conn>>
    BY <1>4 DEF RecvPayload, Stage, outsideVars
  <2>2. Request' = Request
    BY <2>1 DEF Request
  <2>3. CASE Stage(Failure("ERROR_INVALID_PARAMS"), "dispatch")
    <3>1. Failure("ERROR_INVALID_PARAMS") # NoReply
      BY FailureFacts DEF ResponseStatus
    <3> QED
      BY <2>3, <3>1, <1>2 DEF Stage, Goto
  <2>4. CASE ArrivedFrom(cur) = "all" /\ Stage(NoReply, "dispatch")
    BY <1>4, <2>1, <2>2, <2>4, <1>a DEF RecvPayload, Stage, Goto, ArrivedFrom,
       RequestInv
  <2> QED
    BY <1>4, <2>3, <2>4 DEF RecvPayload
<1>5. CASE Dispatch
  <2>1. UNCHANGED <<cur, conn>> /\ pc = "dispatch"
        /\ pc' = IF DispatchReply(Request) = NoReply THEN "call" ELSE "send"
    BY <1>5 DEF Dispatch, Stage, Goto, outsideVars
  <2>2. Request' = Request /\ Request \in AllRequests
    BY <1>a, <2>1, RequestFact DEF Request
  <2>3. CASE DispatchReply(Request) = NoReply
    <3>1. ~Invalid(Request) /\ ~Malformed(Request) /\ Request.call \in Calls
      BY <2>2, <2>3, DispatchFact
    <3>2. /\ Invalid(Request)' <=> Invalid(Request)
          /\ Malformed(Request)' <=> Malformed(Request)
          /\ HasPayload(Request)' <=> HasPayload(Request)
      BY <2>2 DEF Invalid, Malformed, HasPayload, TooLong
    <3> QED
      BY <1>a, <2>1, <2>2, <2>3, <3>1, <3>2 DEF RequestInv
  <2> QED
    BY <1>2, <2>1, <2>3
<1>6. CASE CallEnclave
  <2>1. UNCHANGED <<cur, conn>> /\ pc = "call" /\ pc' = "in_enclave"
    BY <1>6 DEF CallEnclave, Goto, clientVars
  <2>2. Request' = Request
    BY <2>1 DEF Request
  <2> QED
    BY <1>a, <2>1, <2>2 DEF RequestInv, Invalid, Malformed, HasPayload, TooLong
<1>7. CASE SignalShutdown /\ pc' = "dangling" /\ pc = "in_enclave"
  <2>1. conn'[cur'].sent = conn[cur].sent
    BY <1>7, <1>a, ShutdownConn DEF SignalShutdown, ConnInv, Handling
  <2> QED
    BY <1>7, <1>a, <2>1 DEF RequestInv
<1>8. \/ SameRequest
      \/ pc' \notin Reading
      \/ RecvHeader \/ RecvPayload \/ Dispatch \/ CallEnclave
      \/ SignalShutdown /\ pc' = "dangling" /\ pc = "in_enclave"
  <2>1. CASE QuietStep
    BY <2>1, <1>a, SameRequestSteps DEF QuietStep, Starts, Boot, Publish,
       CreateEnclave, CreateSocket, Unlink, Bind, Listen, BindOrListenFail,
       CheckInitialized, SetRunning, Loop, AcceptFail, FailedAcceptTo,
       LeaveEnclave, SendBlocks, Clear, InitFailed, ProcessExit, Move, Goto
  <2>2. CASE FreedReturn \/ Accept \/ SendStep \/ CloseClient \/ Destruct
             \/ Restart
    BY <2>2, <1>a, FreedFact, SendFact DEF Accept, CloseClient, Destruct,
       Restart, Goto
  <2>3. CASE Dies
    BY <2>3 DEF Dies, Die, Ended, Goto
  <2>4. CASE SignalShutdown
    <3>1. \/ pc' \in {"send", "close"} \/ pc' = pc
          \/ pc' = "dangling" /\ pc = "in_enclave"
      BY <2>4 DEF SignalShutdown, Goto, InCall
    <3> QED
      BY <2>4, <3>1, <1>a, SameRequestSteps
  <2>5. CASE World
    BY <2>5, <1>a, SameRequestSteps
  <2> QED
    BY <2>1, <2>2, <2>3, <2>4, <2>5, StepCases
<1> QED
  BY <1>1, <1>2, <1>3, <1>4, <1>5, <1>6, <1>7, <1>8

(* What a step does to the enclave, seen from outside it: it is left alone, *)
(* created by Initialize, entered, worked in, left, or gone.                *)
EnclaveUntouched == UNCHANGED <<life, kv, mods, phase, call, ret>>

LEMMA UntouchedSteps ==
  ASSUME ConnInv, ResponseInv,
         \/ QuietStep /\ ~CreateEnclave /\ ~CallEnclave /\ ~InEnclave
              /\ ~LeaveEnclave
         \/ Accept \/ SendStep \/ CloseClient \/ Restart
         \/ World
  PROVE  /\ EnclaveUntouched
         /\ \/ SameRequest
            \/ pc \notin {"in_enclave", "dangling"}
               /\ pc' \notin {"in_enclave", "dangling"}
<1> USE DEF EnclaveUntouched, outsideVars, enclaveVars
<1>1. CASE QuietStep /\ ~CreateEnclave /\ ~CallEnclave /\ ~InEnclave
             /\ ~LeaveEnclave
  <2>1. CASE SignalIgnored \/ UNCHANGED vars
    BY <2>1 DEF SignalIgnored, vars, processVars, clientVars, SameRequest
  <2>2. CASE RecvHeader \/ RecvPayload \/ Dispatch
    BY <2>2 DEF RecvHeader, RecvPayload, Dispatch, Stage, Goto
  <2>3. CASE Starts
    BY <1>1, <2>3 DEF Starts, Boot, Publish, CreateSocket, Unlink, Bind,
       Listen, BindOrListenFail, CheckInitialized, SetRunning, Move, Goto
  <2>4. CASE Loop \/ AcceptFail \/ SendBlocks \/ Clear \/ InitFailed
             \/ ProcessExit
    BY <2>4 DEF Loop, AcceptFail, FailedAcceptTo, SendBlocks, Clear,
       InitFailed, ProcessExit, Move, Goto
  <2> QED
    BY <1>1, <2>1, <2>2, <2>3, <2>4 DEF QuietStep
<1>2. CASE Accept \/ CloseClient \/ Restart
  BY <1>2 DEF Accept, CloseClient, Restart, Goto, Ended
<1>3. CASE SendStep
  BY <1>3, SendFact
<1>4. ASSUME NEW c \in Conns, NEW r \in AnyRequest, Connect(c, r)
      PROVE  EnclaveUntouched /\ SameRequest
  BY <1>4, ConnectFact DEF SameRequest, processVars, clientVars
<1>5. ASSUME NEW c \in Conns, Touch(c)
      PROVE  EnclaveUntouched /\ SameRequest
  BY <1>5, TouchFact DEF SameRequest, processVars, clientVars
<1> QED
  BY <1>1, <1>2, <1>3, <1>4, <1>5 DEF World

(* Outside a process that is ready to be created or has ended.              *)
LEMMA FreshSteps ==
  ASSUME ConnInv, ResponseInv, Step, ~CreateEnclave
  PROVE  pc' \in Fresh \cup Gone =>
           pc \in Fresh \cup Gone \/ Dies \/ Destruct
<1> USE DEF Fresh, Gone, Ended
<1>1. CASE QuietStep
  BY <1>1 DEF QuietStep, Starts, Boot, Publish, CreateEnclave, CreateSocket,
     Unlink, Bind, Listen, BindOrListenFail, CheckInitialized, SetRunning,
     Loop, AcceptFail, FailedAcceptTo, RecvHeader, RecvPayload, Dispatch,
     Stage, CallEnclave, InEnclave, LeaveEnclave, SendBlocks, Clear,
     InitFailed, ProcessExit, Move, Goto, SignalIgnored, vars, processVars
<1>2. CASE Accept \/ CloseClient \/ Restart \/ FreedReturn \/ SendStep
  BY <1>2, FreedFact, SendFact DEF Accept, CloseClient, Restart, Goto
<1>3. CASE SignalShutdown
  BY <1>3 DEF SignalShutdown, Goto
<1>4. CASE World
  BY <1>4 DEF World, Connect, Touch, processVars
<1> QED
  BY <1>1, <1>2, <1>3, <1>4, StepCases

LEMMA ResetFact ==
  ASSUME Enc!Reset
  PROVE  life' = "none" /\ kv' = EmptyMap /\ mods' = EmptyMap /\ MapsType'
BY SameApi, EmptyMapFact DEF Enc!Reset, MapsType

LEMMA EnclaveStep == Inductive /\ Step => EnclaveInv'
<1> SUFFICES ASSUME Inductive, Step PROVE EnclaveInv'
  OBVIOUS
<1>a. /\ ConnInv /\ QueueInv /\ ResponseInv /\ RequestInv /\ EnclaveInv
      /\ MapsType /\ ThreadType
      /\ life \in {"none", "failed", "alive"}
  BY EncTypeFact DEF Inductive, EnclaveInv
<1>b. ASSUME MapsType', ThreadType', life' \in {"none", "failed", "alive"}
      PROVE  Enc!TypeOK'
  BY <1>b, SameApi DEF Enc!TypeOK, MapsType, ThreadType
<1>1. CASE EnclaveUntouched /\ ~Dies /\ ~Destruct /\ ~CreateEnclave
           /\ \/ SameRequest
              \/ pc \notin {"in_enclave", "dangling"}
                 /\ pc' \notin {"in_enclave", "dangling"}
  <2>1. Enc!TypeOK'
    BY <1>1, <1>a DEF EnclaveUntouched, EnclaveInv, Enc!TypeOK
  <2>2. pc' \in Fresh \cup Gone => life' # "alive"
    BY <1>1, <1>a, FreshSteps DEF EnclaveInv, EnclaveUntouched
  <2>3. CASE pc \notin {"in_enclave", "dangling"}
             /\ pc' \notin {"in_enclave", "dangling"}
    BY <1>1, <1>a, <2>1, <2>2, <2>3 DEF EnclaveUntouched, EnclaveInv
  <2>4. CASE SameRequest
    <3>1. pc \in {"in_enclave", "dangling"} => Request' = Request
      BY <1>a, <2>4 DEF ConnInv, RequestInv, Handling, SameRequest, Request
    <3> QED
      BY <1>1, <1>a, <2>1, <2>2, <2>4, <3>1
         DEF EnclaveUntouched, EnclaveInv, SameRequest
  <2> QED
    BY <1>1, <2>3, <2>4
<1>2. CASE CreateEnclave
  <2>1. /\ pc = "create" /\ pc' \in {"socket", "init_failed"}
        /\ life' \in {"alive", "failed"}
        /\ kv' = EmptyMap /\ mods' = EmptyMap
        /\ UNCHANGED <<phase, call, ret>>
    BY <1>2, SameApi DEF CreateEnclave, Enc!Create, Goto
  <2>2. MapsType' /\ ThreadType'
    BY <1>a, <2>1, EmptyMapFact DEF MapsType, ThreadType
  <2> QED
    BY <1>a, <1>b, <2>1, <2>2 DEF EnclaveInv, Fresh, Ended, Gone
<1>3. CASE CallEnclave
  <2>1. /\ pc = "call" /\ pc' = "in_enclave" /\ UNCHANGED <<cur, conn>>
        /\ life = "alive" /\ phase' = [phase EXCEPT ![Main] = "pending"]
        /\ call' = [call EXCEPT ![Main] = Request.call]
        /\ UNCHANGED <<life, kv, mods, ret>>
    BY <1>3 DEF CallEnclave, Enc!Begin, Goto, clientVars
  <2>2. Request.call \in Calls /\ Request' = Request
    BY <1>a, <2>1 DEF RequestInv, Request
  <2>3. MapsType' /\ ThreadType' /\ call'[Main] = Request.call
    BY <1>a, <2>1, <2>2 DEF MapsType, ThreadType
  <2> QED
    BY <1>a, <1>b, <2>1, <2>2, <2>3 DEF EnclaveInv, Fresh, Ended, Gone
<1>4. CASE InEnclave
  <2>1. pc = "in_enclave" /\ UNCHANGED <<pc, cur, conn>> /\ Enc!Do(Main)
    BY <1>4 DEF InEnclave, clientVars
  <2>2. call[Main] = Request.call /\ call[Main] \in Calls
    BY <1>a, <2>1 DEF EnclaveInv
  <2>3. /\ MapsType' /\ ThreadType' /\ life' = life /\ call' = call
        /\ phase'[Main] = "done"
    BY <1>a, <2>1, <2>2, DoFact
  <2>4. Request' = Request
    BY <2>1 DEF Request
  <2> QED
    BY <1>a, <1>b, <2>1, <2>2, <2>3, <2>4 DEF EnclaveInv, Fresh, Ended
<1>5. CASE LeaveEnclave
  <2>1. /\ pc' = "send" /\ UNCHANGED <<life, kv, mods>>
        /\ phase' = [phase EXCEPT ![Main] = "idle"]
        /\ call' = [call EXCEPT ![Main] = NoCall]
        /\ ret' = [ret EXCEPT ![Main] = NoResult]
    BY <1>5, SameApi DEF LeaveEnclave, Enc!End, Goto
  <2>2. MapsType' /\ ThreadType' /\ phase'[Main] = "idle"
    BY <1>a, <2>1, ResultFacts DEF MapsType, ThreadType
  <2> QED
    BY <1>a, <1>b, <2>1, <2>2 DEF EnclaveInv, Fresh, Ended, Gone
<1>6. CASE FreedReturn
  <2>1. MapsType' /\ ThreadType' /\ phase'[Main] = "idle"
    BY <1>6, <1>a, FreedFact DEF MapsType, ThreadType
  <2> QED
    BY <1>6, <1>a, <1>b, <2>1, FreedFact DEF EnclaveInv, Fresh, Ended
<1>7. CASE Dies
  <2>1. PICK how \in Ended : Die(how)
    BY <1>7 DEF Dies
  <2>2. /\ phase' = [t \in {Main} |-> "idle"]
        /\ call' = [t \in {Main} |-> NoCall]
        /\ ret' = [t \in {Main} |-> NoResult]
        /\ pc' \in Ended /\ Enc!Reset
    BY <2>1 DEF Die, Goto
  <2>3. ThreadType' /\ phase'[Main] = "idle"
    BY <2>2, ResultFacts DEF ThreadType
  <2> QED
    BY <1>b, <2>2, <2>3, ResetFact DEF EnclaveInv, Ended
<1>8. CASE Destruct
  <2>1. /\ Enc!Reset /\ UNCHANGED <<phase, call, ret>> /\ pc = "dtor"
        /\ pc' = "returned"
    BY <1>8 DEF Destruct, ShutdownEffect, Goto
  <2>2. ThreadType' /\ phase'[Main] = "idle"
    BY <1>a, <2>1 DEF ThreadType, EnclaveInv
  <2> QED
    BY <1>b, <2>1, <2>2, ResetFact DEF EnclaveInv
<1>9. CASE SignalShutdown
  <2>1. /\ Enc!Reset /\ UNCHANGED <<phase, call, ret, cur>>
        /\ \/ pc' = "dangling" /\ pc = "in_enclave" /\ phase[Main] = "pending"
           \/ /\ pc' = pc
              /\ ~(pc = "in_enclave" /\ phase[Main] = "pending")
           \/ pc' \in {"send", "close"} /\ pc \in {"recv_payload", "sending"}
    BY <1>9 DEF SignalShutdown, ShutdownEffect, InCall, Goto
  <2>2. ThreadType' /\ Enc!TypeOK' /\ life' = "none"
    BY <1>a, <1>b, <2>1, ResetFact DEF ThreadType
  <2>3. pc \in {"in_enclave", "dangling"} => Request' = Request
    BY <1>9, <1>a, <2>1, ShutdownConn DEF ConnInv, Handling, Request
  <2> QED
    BY <1>a, <2>1, <2>2, <2>3 DEF EnclaveInv, Fresh, Ended
<1> QED
  BY <1>a, <1>1, <1>2, <1>3, <1>4, <1>5, <1>6, <1>7, <1>8, <1>9,
     UntouchedSteps, StepCases

-----------------------------------------------------------------------------
(* The response, and what it promises.                                      *)

(* A stage of HandleClient answers with an error, except for a SHUTDOWN     *)
(* command, which asks nothing of the enclave.                              *)
LEMMA StageFact ==
  ASSUME ConnInv, RequestInv, RecvHeader \/ RecvPayload \/ Dispatch
  PROVE  /\ \/ resp' = NoReply /\ pc' \notin {"send", "sending", "in_enclave"}
            \/ /\ resp' \in Responses /\ pc' = "send"
               /\ resp'.status = "SUCCESS" =>
                    Request'.call = NoCall /\ conn'[cur'].sent # "nothing"
<1>1. Request' = Request /\ UNCHANGED <<cur, conn>>
  BY DEF RecvHeader, RecvPayload, Dispatch, Stage, outsideVars, Request
<1>2. ASSUME NEW reply \in Responses, NEW next, Stage(reply, next)
      PROVE  resp' = reply /\ (reply # NoReply => pc' = "send")
  BY <1>2 DEF Stage, Goto
<1>3. ASSUME NEW next, Stage(NoReply, next)
      PROVE  resp' = NoReply /\ pc' = next
  BY <1>3 DEF Stage, Goto
<1>4. ASSUME NEW st \in ResponseStatus \ {"SUCCESS"}, NEW next,
             Stage(Failure(st), next)
      PROVE  resp' \in Responses /\ pc' = "send" /\ resp'.status # "SUCCESS"
  BY <1>2, <1>4, FailureFacts
<1>5. CASE RecvHeader
  <2>1. CASE Stage(ShortHeader, "close")
    BY <2>1, <1>4 DEF ShortHeader, ResponseStatus
  <2>2. CASE Stage(HeaderReply(Request),
                   IF HasPayload(Request) THEN "recv_payload" ELSE "dispatch")
    <3>1. CASE HeaderReply(Request) = NoReply
      BY <2>2, <3>1, <1>3
    <3>2. CASE HeaderReply(Request) \in Responses
               /\ HeaderReply(Request) # NoReply
               /\ HeaderReply(Request).status # "SUCCESS"
      BY <2>2, <3>2, <1>2
    <3> QED
      BY <3>1, <3>2, HeaderFact
  <2> QED
    BY <1>5, <2>1, <2>2 DEF RecvHeader
<1>6. CASE RecvPayload
  <2>1. CASE Stage(NoReply, "dispatch")
    BY <2>1, <1>3
  <2>2. CASE Stage(Failure("ERROR_INVALID_PARAMS"), "dispatch")
    BY <2>2, <1>4 DEF ResponseStatus
  <2> QED
    BY <1>6, <2>1, <2>2 DEF RecvPayload
<1>7. CASE Dispatch
  <2>1. Stage(DispatchReply(Request), "call")
    BY <1>7 DEF Dispatch
  <2>a. Request \in AllRequests /\ conn[cur].sent # "nothing"
    BY <1>7, RequestFact DEF Dispatch, RequestInv
  <2>2. CASE DispatchReply(Request) = NoReply
    BY <2>1, <2>2, <1>3
  <2>3. CASE /\ DispatchReply(Request) \in Responses
             /\ DispatchReply(Request) # NoReply
             /\ DispatchReply(Request).status = "SUCCESS" =>
                  Request.call = NoCall
    BY <2>1, <2>3, <2>a, <1>1, <1>2
  <2> QED
    BY <2>a, <2>2, <2>3, DispatchFact
<1> QED
  BY <1>5, <1>6, <1>7

(* The steps that leave the response as it is, and with it the enclave, or  *)
(* go where none is at hand.                                                *)
SameResponse ==
  /\ resp' = resp
  /\ \/ pc' \notin {"send", "sending", "in_enclave"}
     \/ EnclaveUntouched /\ SameRequest
     \/ EnclaveUntouched /\ pc = "send" /\ pc' = "sending"
        /\ UNCHANGED <<cur, conn>>

LEMMA SameResponseSteps ==
  ASSUME ConnInv, ResponseInv,
         \/ QuietStep /\ ~RecvHeader /\ ~RecvPayload /\ ~Dispatch
              /\ ~CallEnclave /\ ~InEnclave /\ ~LeaveEnclave
         \/ Accept \/ SendStep \/ Restart \/ Destruct
         \/ World
  PROVE  SameResponse
<1> USE DEF SameResponse, clientVars, Goto
<1>1. CASE Starts
  BY <1>1 DEF Starts, Boot, Publish, CreateEnclave, CreateSocket, Unlink, Bind,
     Listen, BindOrListenFail, CheckInitialized, SetRunning, Move
<1>2. CASE Loop \/ AcceptFail \/ Clear \/ InitFailed \/ ProcessExit
  BY <1>2 DEF Loop, AcceptFail, FailedAcceptTo, Clear, InitFailed,
     ProcessExit, Move
<1>3. CASE SendBlocks
  BY <1>3 DEF SendBlocks, Move, outsideVars, enclaveVars, EnclaveUntouched
<1>4. CASE SignalIgnored \/ UNCHANGED vars
  BY <1>4 DEF SignalIgnored, vars, processVars, enclaveVars, EnclaveUntouched,
     SameRequest
<1>5. CASE Accept \/ Restart \/ Destruct
  BY <1>5 DEF Accept, Restart, Destruct
<1>6. CASE SendStep
  BY <1>6, SendFact
<1>7. ASSUME NEW c \in Conns, NEW r \in AnyRequest, Connect(c, r)
      PROVE  SameResponse
  BY <1>7, ConnectFact DEF EnclaveUntouched, SameRequest, processVars,
     enclaveVars
<1>8. ASSUME NEW c \in Conns, Touch(c)
      PROVE  SameResponse
  BY <1>8, TouchFact DEF EnclaveUntouched, SameRequest, processVars,
     enclaveVars
<1> QED
  BY <1>1, <1>2, <1>3, <1>4, <1>5, <1>6, <1>7, <1>8 DEF QuietStep, World

(* The parts of ResponseInv about a response that is not sent yet.          *)
PendingInv ==
  /\ resp \in Responses \cup {NoReply}
  /\ pc \in {"send", "sending"} => resp \in Responses
  /\ pc = "in_enclave" /\ phase[Main] = "done" /\ ret[Main].status = "OK"
       => /\ Fits(call[Main], ret[Main])
          /\ life = "alive" => Behind(call[Main], ret[Main])
  /\ pc \in {"send", "sending"} /\ resp.status = "SUCCESS"
       => /\ conn[cur].sent # "nothing"
          /\ Fits(Request.call, resp.value)
          /\ life = "alive" => Behind(Request.call, resp.value)

LEMMA PendingStep == Inductive /\ Step => PendingInv'
<1> SUFFICES ASSUME Inductive, Step PROVE PendingInv'
  OBVIOUS
<1>a. /\ ConnInv /\ QueueInv /\ ResponseInv /\ RequestInv /\ EnclaveInv
      /\ PendingInv /\ MapsType /\ ThreadType
  BY EncTypeFact DEF Inductive, EnclaveInv, PendingInv, ResponseInv
<1>1. CASE SameResponse
  <2>1. CASE pc' \notin {"send", "sending", "in_enclave"}
    BY <1>1, <1>a, <2>1 DEF SameResponse, PendingInv
  <2>2. CASE EnclaveUntouched /\ SameRequest
    <3>1. pc \in Handling /\ conn[cur].sent # "nothing" =>
            Request' = Request /\ conn'[cur'].sent # "nothing"
      BY <1>a, <2>2 DEF ConnInv, SameRequest, Request
    <3>2. pc' = pc /\ UNCHANGED <<resp, life, kv, mods, phase, call, ret>>
      BY <1>1, <2>2 DEF SameResponse, SameRequest, EnclaveUntouched
    <3> QED
      BY <1>a, <3>1, <3>2 DEF PendingInv, Behind, Fits, Handling
  <2>3. CASE EnclaveUntouched /\ pc = "send" /\ pc' = "sending"
             /\ UNCHANGED <<cur, conn>>
    <3>1. Request' = Request /\ resp' = resp
      BY <1>1, <2>3 DEF Request, SameResponse
    <3> QED
      BY <1>a, <2>3, <3>1 DEF EnclaveUntouched, PendingInv, Behind, Fits
  <2> QED
    BY <1>1, <2>1, <2>2, <2>3 DEF SameResponse
<1>2. CASE RecvHeader \/ RecvPayload \/ Dispatch
  <2>1. CASE resp' = NoReply /\ pc' \notin {"send", "sending", "in_enclave"}
    BY <2>1 DEF PendingInv
  <2>2. CASE /\ resp' \in Responses /\ pc' = "send"
             /\ resp'.status = "SUCCESS" =>
                  Request'.call = NoCall /\ conn'[cur'].sent # "nothing"
    BY <2>2, NoCallFact DEF PendingInv, Behind, Fits
  <2> QED
    BY <1>2, <1>a, <2>1, <2>2, StageFact
<1>3. CASE CallEnclave
  <2>1. pc' = "in_enclave" /\ phase'[Main] = "pending" /\ resp' = resp
    BY <1>3, <1>a DEF CallEnclave, Enc!Begin, Goto, clientVars, ThreadType
  <2> QED
    BY <1>a, <2>1 DEF PendingInv
<1>4. CASE InEnclave
  <2>1. pc = "in_enclave" /\ pc' = pc /\ resp' = resp /\ Enc!Do(Main)
    BY <1>4 DEF InEnclave, clientVars
  <2>2. ret'[Main].status = "OK" =>
          Behind(call[Main], ret[Main])' /\ Fits(call[Main], ret[Main])'
    BY <1>a, <2>1, DoFact DEF EnclaveInv
  <2> QED
    BY <1>a, <2>1, <2>2 DEF PendingInv
<1>5. CASE LeaveEnclave
  <2>1. /\ pc = "in_enclave" /\ phase[Main] = "done" /\ pc' = "send"
        /\ resp' = Reply(call[Main], ret[Main])
        /\ UNCHANGED <<life, kv, mods, cur, conn>>
    BY <1>5 DEF LeaveEnclave, Enc!End, Goto
  <2>2. ret[Main] \in Results /\ call[Main] = Request.call
        /\ Request' = Request
    BY <1>a, <2>1 DEF ThreadType, EnclaveInv, Request
  <2>3. /\ resp' \in Responses
        /\ resp'.status = "SUCCESS" =>
             ret[Main].status = "OK" /\ resp'.value = ret[Main]
    BY <2>1, <2>2, ReplyFact
  <2>4. resp'.status = "SUCCESS" =>
          /\ conn'[cur'].sent # "nothing"
          /\ Fits(Request.call, resp.value)'
          /\ life' = "alive" => Behind(Request.call, resp.value)'
    BY <1>a, <2>1, <2>2, <2>3 DEF PendingInv, RequestInv, Behind, Fits
  <2> QED
    BY <2>1, <2>3, <2>4 DEF PendingInv
<1>6. CASE FreedReturn
  <2>1. PICK r \in FreedResults(call[Main]) : resp' = Reply(call[Main], r)
    BY <1>6, FreedFact
  <2>2. pc = "dangling" /\ pc' = "send" /\ life' # "alive"
        /\ call[Main] \in Calls /\ call[Main] = Request.call
        /\ UNCHANGED <<cur, conn>> /\ conn[cur].sent # "nothing"
    BY <1>6, <1>a, FreedFact DEF EnclaveInv, RequestInv
  <2>3. r \in Results /\ (r.status = "OK" => Fits(call[Main], r))
    BY <2>2, FreedResultFact
  <2>4. /\ resp' \in Responses
        /\ resp'.status = "SUCCESS" => r.status = "OK" /\ resp'.value = r
    BY <2>1, <2>3, ReplyFact
  <2>5. Request' = Request
    BY <2>2 DEF Request
  <2>6. resp'.status = "SUCCESS" => Fits(Request.call, resp.value)'
    BY <2>2, <2>3, <2>4, <2>5 DEF Fits
  <2> QED
    BY <2>2, <2>4, <2>6 DEF PendingInv
<1>7. CASE Dies \/ CloseClient
  <2>1. resp' = NoReply /\ pc' \notin {"send", "sending", "in_enclave"}
    BY <1>7 DEF Dies, Die, Ended, CloseClient, Goto
  <2> QED
    BY <2>1 DEF PendingInv
<1>8. CASE SignalShutdown
  <2>1. life' = "none"
    BY <1>8, ResetFact DEF SignalShutdown, ShutdownEffect
  <2>2. /\ \/ pc' = "send" /\ resp' = Failure("ERROR_INVALID_PARAMS")
           \/ pc' \in {"close", "dangling"} /\ resp' = resp
           \/ pc' = pc /\ resp' = resp
        /\ UNCHANGED <<cur, phase, call, ret>>
    BY <1>8 DEF SignalShutdown, Goto
  <2>3. /\ Failure("ERROR_INVALID_PARAMS") \in Responses
        /\ Failure("ERROR_INVALID_PARAMS").status # "SUCCESS"
    BY FailureFacts DEF ResponseStatus
  <2>4. pc \in Handling => Request' = Request
                           /\ conn'[cur'].sent = conn[cur].sent
    BY <1>8, <1>a, <2>2, ShutdownConn DEF ConnInv, Request
  <2> QED
    BY <1>a, <2>1, <2>2, <2>3, <2>4 DEF PendingInv, Fits, Handling
<1> QED
  BY <1>a, <1>1, <1>2, <1>3, <1>4, <1>5, <1>6, <1>7, <1>8, SameResponseSteps,
     StepCases

(* An acknowledgement is kept by every step that lets the answers be and    *)
(* does not take from a living enclave.                                     *)
SameAnswers ==
  /\ restarts' = restarts
  /\ \A c \in Conns :
       conn'[c].inbox # <<>> =>
         /\ conn'[c].inbox = conn[c].inbox /\ conn'[c].by = conn[c].by
         /\ conn[c].sent # "nothing" =>
              conn'[c].req = conn[c].req /\ conn'[c].sent # "nothing"

KeepsEnclave == life' = "alive" => life = "alive" /\ Grows

(* What AcknowledgedIsKept says of one answer.                              *)
LEMMA KeptFact ==
  AcknowledgedIsKept <=>
    \A c \in Conns :
      Acknowledged(c) /\ conn[c].by = restarts /\ life = "alive" =>
        Behind(conn[c].req.call, conn[c].inbox[1].value)
BY DEF AcknowledgedIsKept, Behind

LEMMA KeptStep ==
  ASSUME AcknowledgedIsKept, AnsweredInv, SameAnswers, KeepsEnclave
  PROVE  AcknowledgedIsKept'
<1> SUFFICES ASSUME NEW c \in Conns, Acknowledged(c)',
                    conn'[c].by = restarts', life' = "alive"
             PROVE  Behind(conn[c].req.call, conn[c].inbox[1].value)'
  BY DEF AcknowledgedIsKept, Behind
<1>1. conn'[c].inbox # <<>> /\ conn'[c].inbox[1].status = "SUCCESS"
      /\ Len(conn'[c].inbox) = 1
  BY DEF Acknowledged
<1>2. /\ conn'[c].inbox = conn[c].inbox /\ conn'[c].req = conn[c].req
      /\ conn[c].by = restarts /\ life = "alive" /\ Grows
  BY <1>1 DEF SameAnswers, KeepsEnclave, AnsweredInv, Acknowledged
<1>3. Behind(conn[c].req.call, conn[c].inbox[1].value)
  BY <1>1, <1>2, KeptFact DEF Acknowledged
<1> QED
  BY <1>2, <1>3 DEF Behind, Grows

LEMMA SameAnswersSteps ==
  ASSUME ConnInv, QueueInv, ProcessType, ResponseInv,
         \/ QuietStep \/ FreedReturn \/ Accept \/ CloseClient
         \/ World
  PROVE  SameAnswers
<1>1. CASE QuietStep \/ FreedReturn
  BY <1>1, QuietSteps, FreedFact DEF Quiet, SameAnswers
<1>2. CASE Accept \/ CloseClient
  <2>1. /\ pc \notin {"send", "sending"} /\ restarts' = restarts
        /\ Process
    BY <1>2 DEF Accept, CloseClient, envVars, Process, MainStep, Serves
  <2>2. \A c \in Conns : Handled(c) /\ conn'[c].inbox = conn[c].inbox
    BY <2>1, ProcessEffect DEF Handled
  <2>3. \A c \in Conns : conn[c].inbox # <<>> => conn[c].state # "queued"
    BY DEF ConnInv
  <2> QED
    BY <2>1, <2>2, <2>3 DEF SameAnswers, Handled
<1>3. ASSUME NEW c \in Conns, NEW r \in AnyRequest, Connect(c, r)
      PROVE  SameAnswers
  <2>1. conn[c].inbox = <<>>
    BY <1>3, ConnectFact DEF ConnInv
  <2> QED
    BY <1>3, <2>1, ConnectFact DEF SameAnswers, envVars
<1>4. ASSUME NEW c \in Conns, Touch(c)
      PROVE  SameAnswers
  BY <1>4, TouchFact DEF SameAnswers, envVars
<1> QED
  BY <1>1, <1>2, <1>3, <1>4 DEF World

(* A SUCCESS is sent for a request that has arrived, with the result of the *)
(* call it asked for.                                                       *)
LEMMA AnsweredStep == Inductive /\ Step => AnsweredInv'
<1> SUFFICES ASSUME Inductive, Step, NEW c \in Conns, Acknowledged(c)'
             PROVE  /\ conn'[c].sent # "nothing"
                    /\ Fits(conn[c].req.call, conn[c].inbox[1].value)'
  BY DEF AnsweredInv
<1>a. /\ ConnInv /\ QueueInv /\ ResponseInv /\ ProcessType /\ AnsweredInv
  BY DEF Inductive, ResponseInv
<1>b. conn'[c].inbox # <<>> /\ conn'[c].inbox[1].status = "SUCCESS"
  BY DEF Acknowledged
<1>1. CASE /\ conn'[c].inbox = conn[c].inbox
           /\ conn[c].sent # "nothing" =>
                conn'[c].req = conn[c].req /\ conn'[c].sent # "nothing"
  BY <1>1, <1>a DEF AnsweredInv, Acknowledged, Fits
<1>2. CASE Process
  <2>1. Handled(c)
    BY <1>2, <1>a, ProcessEffect
  <2>2. CASE conn'[c].inbox # conn[c].inbox
    <3>1. PICK r \in Message : /\ conn'[c].inbox = <<r>>
                               /\ r = resp \/ r.status = "truncated"
      BY <2>1, <2>2 DEF Handled
    <3>2. <<r>>[1] = r
      OBVIOUS
    <3>3. r = resp /\ resp.status = "SUCCESS"
      BY <1>b, <3>1, <3>2
    <3>4. conn[cur].sent # "nothing" /\ Fits(Request.call, resp.value)
          /\ c = cur
      BY <1>a, <2>1, <2>2, <3>3 DEF Handled, ResponseInv
    <3> QED
      BY <2>1, <3>1, <3>2, <3>3, <3>4 DEF Handled, Request, Fits
  <2> QED
    BY <1>1, <2>1, <2>2 DEF Handled
<1>3. CASE World
  BY <1>1, <1>3, <1>a, <1>b, SameAnswersSteps DEF SameAnswers
<1>4. CASE UNCHANGED vars
  BY <1>1, <1>4 DEF vars
<1> QED
  BY <1>2, <1>3, <1>4 DEF Step

(* A response that is sent had the enclave's contents behind it; Restart    *)
(* and the creation of an enclave begin a life nobody relies on yet; every  *)
(* other step keeps what was promised or ends the enclave.                  *)
LEMMA AcknowledgedStep == Inductive /\ Step => AcknowledgedIsKept'
<1> SUFFICES ASSUME Inductive, Step PROVE AcknowledgedIsKept'
  OBVIOUS
<1>a. /\ ConnInv /\ QueueInv /\ ResponseInv /\ EnclaveInv /\ ProcessType
      /\ AcknowledgedIsKept /\ AnsweredInv /\ MapsType /\ ThreadType
  BY EncTypeFact DEF Inductive, EnclaveInv, ResponseInv
<1>b. EnclaveUntouched => KeepsEnclave
  BY DEF EnclaveUntouched, KeepsEnclave, Grows
<1>1. CASE life' # "alive"
  BY <1>1 DEF AcknowledgedIsKept
<1>2. CASE QuietStep /\ ~CreateEnclave
  <2>1. KeepsEnclave
    <3>1. CASE CallEnclave \/ LeaveEnclave
      BY <3>1 DEF CallEnclave, LeaveEnclave, Enc!Begin, Enc!End, KeepsEnclave,
         Grows
    <3>2. CASE InEnclave
      <4>1. Enc!Do(Main) /\ call[Main] \in Calls
        BY <1>a, <3>2 DEF InEnclave, EnclaveInv
      <4> QED
        BY <1>a, <4>1, DoFact DEF KeepsEnclave
    <3> QED
      BY <1>2, <1>a, <1>b, <3>1, <3>2, UntouchedSteps
  <2> QED
    BY <1>2, <1>a, <2>1, KeptStep, SameAnswersSteps
<1>3. CASE CreateEnclave
  <2>1. pc \in Fresh /\ UNCHANGED <<conn, restarts>>
    BY <1>3, QuietSteps DEF CreateEnclave, Fresh, QuietStep, Quiet, Starts
  <2>2. \A c \in Conns : conn[c].inbox # <<>> => conn[c].by # restarts
    BY <1>a, <2>1 DEF ConnInv
  <2>3. \A c \in Conns : Acknowledged(c) => conn[c].inbox # <<>>
    BY DEF Acknowledged
  <2> QED
    BY <2>1, <2>2, <2>3 DEF AcknowledgedIsKept, Acknowledged
<1>4. CASE FreedReturn
  BY <1>4, <1>1, <1>a, FreedFact DEF EnclaveInv
<1>5. CASE \/ Accept \/ CloseClient
           \/ World
  <2>1. EnclaveUntouched
    BY <1>5, <1>a, UntouchedSteps
  <2> QED
    BY <1>5, <1>a, <1>b, <2>1, KeptStep, SameAnswersSteps
<1>6. CASE SendStep
  <2>1. PICK r \in Message : /\ conn' = Deliver(conn, r)
                             /\ r.value = resp.value
                             /\ r = resp \/ r.status = "truncated"
    BY <1>6, <1>a, SendFact
  <2>2. /\ pc \in {"send", "sending"}
        /\ UNCHANGED <<life, kv, mods, restarts, cur>>
    BY <1>6, <1>a, SendFact
  <2>3. cur \in Conns /\ conn[cur].state = "open" /\ conn[cur].inbox = <<>>
    BY <1>a, <2>2 DEF ConnInv, Handling
  <2>4. /\ conn'[cur].inbox = <<r>> /\ <<r>>[1] = r
        /\ \A c \in Conns : /\ conn'[c].by = conn[c].by
                            /\ conn'[c].req = conn[c].req
                            /\ c # cur => conn'[c].inbox = conn[c].inbox
    BY <1>a, <2>1, <2>3, DeliverFact, InboxFacts
  <2>5. ASSUME NEW c \in Conns, Acknowledged(c)', conn'[c].by = restarts',
               life' = "alive"
        PROVE  Behind(conn[c].req.call, conn[c].inbox[1].value)'
    <3>1. CASE c = cur
      <4>1. r = resp /\ resp.status = "SUCCESS"
        BY <2>1, <2>4, <2>5, <3>1 DEF Acknowledged
      <4>2. Behind(Request.call, resp.value)
        BY <1>a, <2>2, <2>5, <4>1 DEF ResponseInv
      <4> QED
        BY <2>2, <2>4, <3>1, <4>1, <4>2 DEF Behind, Request
    <3>2. CASE c # cur
      <4>1. Behind(conn[c].req.call, conn[c].inbox[1].value)
        BY <1>a, <2>2, <2>4, <2>5, <3>2, KeptFact DEF Acknowledged
      <4> QED
        BY <2>2, <2>4, <3>2, <4>1 DEF Behind
    <3> QED
      BY <3>1, <3>2
  <2> QED
    BY <2>5 DEF AcknowledgedIsKept, Behind
<1>7. CASE Dies \/ Destruct \/ SignalShutdown
  <2>1. Enc!Reset
    BY <1>7 DEF Dies, Die, Destruct, SignalShutdown, ShutdownEffect
  <2> QED
    BY <1>1, <2>1, ResetFact
<1>8. CASE Restart
  <2>1. pc \in Ended /\ life' = life
    BY <1>8 DEF Restart, outsideVars, enclaveVars
  <2> QED
    BY <1>1, <1>a, <2>1 DEF EnclaveInv, Gone
<1> QED
  BY <1>2, <1>3, <1>4, <1>5, <1>6, <1>7, <1>8, StepCases

LEMMA ResponseStep == Inductive /\ Step => ResponseInv'
BY PendingStep, AnsweredStep, AcknowledgedStep DEF ResponseInv, PendingInv

-----------------------------------------------------------------------------
(* What a server at accept can rely on.                                     *)
LEMMA AcceptStep == Inductive /\ Step => AcceptInv'
<1> SUFFICES ASSUME Inductive, Step, socket_fd_' = "listening"
             PROVE  /\ pc' \in Serving \cup {"set_running"} => life' = "alive"
                    /\ pc' = "accept" => running_'
  BY DEF AcceptInv
<1>a. /\ ConnInv /\ ResponseInv /\ EnclaveInv /\ AcceptInv
      /\ MapsType /\ ThreadType
  BY EncTypeFact DEF Inductive, EnclaveInv
<1> USE DEF AcceptInv, Serving, Goto
<1>1. CASE Starts
  BY <1>1, <1>a DEF Starts, Boot, Publish, CreateEnclave, CreateSocket,
     Unlink, Bind, Listen, BindOrListenFail, CheckInitialized,
     NotInitialized, SetRunning, Move, flagVars, outsideVars, enclaveVars
<1>2. CASE Loop \/ SendBlocks \/ Clear \/ InitFailed \/ ProcessExit
  BY <1>2, <1>a DEF Loop, SendBlocks, Clear, InitFailed, ProcessExit, Move,
     flagVars, outsideVars, enclaveVars
<1>3. CASE Accept \/ AcceptFail \/ CloseClient
  BY <1>3, <1>a DEF Accept, AcceptFail, FailedAcceptTo, CloseClient,
     flagVars, outsideVars, enclaveVars
<1>4. CASE RecvHeader \/ RecvPayload \/ Dispatch
  <2>1. /\ pc' \in {"recv_payload", "dispatch", "call", "send", "close"}
        /\ pc \in {"recv_header", "recv_payload", "dispatch"}
        /\ UNCHANGED <<socket_fd_, life>>
    BY <1>4 DEF RecvHeader, RecvPayload, Dispatch, Stage, flagVars,
       outsideVars, enclaveVars
  <2> QED
    BY <1>a, <2>1
<1>5. CASE CallEnclave \/ LeaveEnclave
  BY <1>5, <1>a DEF CallEnclave, LeaveEnclave, Enc!Begin, Enc!End, flagVars
<1>6. CASE InEnclave
  <2>1. life' = life
    BY <1>6, <1>a, DoFact DEF InEnclave, EnclaveInv
  <2> QED
    BY <1>6, <1>a, <2>1 DEF InEnclave, flagVars
<1>7. CASE SendStep \/ FreedReturn
  BY <1>7, <1>a, SendFact, FreedFact
<1>8. CASE SignalIgnored \/ UNCHANGED vars \/ World
  BY <1>8, <1>a DEF SignalIgnored, vars, World, Connect, Touch, processVars,
     flagVars, enclaveVars
<1>9. CASE Restart
  BY <1>9 DEF Restart
<1>10. ~Dies /\ ~Destruct /\ ~SignalShutdown
  BY DEF Dies, Die, Destruct, SignalShutdown, ShutdownEffect
<1> QED
  BY <1>1, <1>2, <1>3, <1>4, <1>5, <1>6, <1>7, <1>8, <1>9, <1>10, StepCases
     DEF QuietStep


(* Every step the process takes on its own, and every step a client takes   *)
(* of those World allows, keeps the invariant.                              *)
LEMMA InductiveStep == Inductive /\ Step => Inductive'
BY ProcessStep, ConnStep, RequestStep, EnclaveStep, ResponseStep, AcceptStep
   DEF Inductive, ProcessInv

-----------------------------------------------------------------------------
(* The clients of EnclaveServer, each with one of the requests, are among   *)
(* those that World allows.                                                 *)
OwnRequests(C) ==
  \A c \in C : /\ conn[c].req \in Requests \cup {NoRequest}
               /\ conn[c].state # "off" => conn[c].req \in Requests

LEMMA SendHangUpFact ==
  ASSUME ConnInv, NEW c \in Conns, conn[c].req \in AllRequests,
         SendMore(c) \/ HangUp(c)
  PROVE  /\ Touch(c) /\ conn[c].state # "off"
         /\ conn'[c].req = conn[c].req
<1>1. /\ conn \in [Conns -> ConnRecord] /\ conn[c] \in ConnRecord
      /\ conn[c].state # "off"
      /\ UNCHANGED <<processVars, kernelVars, envVars>>
  BY DEF ConnInv, SendMore, HangUp
<1>2. CASE HangUp(c)
  <2>1. ASSUME NEW k \in ConnRecord
        PROVE  LET d == [k EXCEPT !.shut = TRUE]
               IN  /\ d \in ConnRecord /\ d.state = k.state /\ d.req = k.req
                   /\ d.inbox = k.inbox /\ d.by = k.by /\ d.sent = k.sent
    BY DEF ConnRecord
  <2>2. conn' = [conn EXCEPT ![c] = [conn[c] EXCEPT !.shut = TRUE]]
    BY <1>2 DEF HangUp
  <2>3. conn'[c].req = conn[c].req
    BY <1>1, <2>1, <2>2
  <2> QED
    BY <1>1, <2>1, <2>2, <2>3 DEF Touch
<1>3. CASE SendMore(c)
  <2>1. ASSUME NEW k \in ConnRecord, NEW x \in Arrived
        PROVE  LET d == [k EXCEPT !.sent = x]
               IN  /\ d \in ConnRecord /\ d.state = k.state /\ d.req = k.req
                   /\ d.inbox = k.inbox /\ d.by = k.by /\ d.sent = x
    BY DEF ConnRecord
  <2>2. PICK i \in DOMAIN Arrivals, j \in DOMAIN Arrivals :
          /\ Arrivals[i] = conn[c].sent
          /\ i < j
          /\ conn' = [conn EXCEPT ![c].sent = Arrivals[j]]
    BY <1>3 DEF SendMore
  <2>3. /\ Arrivals[j] \in Arrived /\ conn[c].sent # "all"
        /\ Arrivals[j] # "nothing"
    BY <2>2, ArrivalFacts
  <2>4. conn' = [conn EXCEPT ![c] = [conn[c] EXCEPT !.sent = Arrivals[j]]]
    BY <2>2
  <2>5. conn'[c].req = conn[c].req
    BY <1>1, <2>1, <2>3, <2>4
  <2>6. PICK k \in ConnRecord :
          /\ conn' = [conn EXCEPT ![c] = k]
          /\ k.state = conn[c].state /\ k.inbox = conn[c].inbox
          /\ k.by = conn[c].by /\ k.req = conn[c].req
          /\ k.sent = Arrivals[j]
    BY <1>1, <2>1, <2>3, <2>4
  <2> QED
    BY <1>1, <2>3, <2>5, <2>6 DEF Touch
<1> QED
  BY <1>1, <1>2, <1>3

LEMMA OthersFact ==
  ASSUME ConnInv, NEW C \in SUBSET Conns, OwnRequests(C), NEW c \in C,
         \/ \E r \in Requests : Connect(c, r)
         \/ SendMore(c) \/ HangUp(c)
  PROVE  World /\ OwnRequests(C)'
<1>1. CASE \E r \in Requests : Connect(c, r)
  <2>1. PICK r \in Requests : Connect(c, r)
    BY <1>1
  <2>2. r \in AnyRequest
    BY ServerAssumption DEF AnyRequest
  <2>3. conn'[c].req = r /\ \A d \in Conns \ {c} : conn'[d] = conn[d]
    BY <2>1, <2>2, ConnectFact
  <2> QED
    BY <2>1, <2>2, <2>3 DEF World, OwnRequests
<1>2. CASE SendMore(c) \/ HangUp(c)
  <2>1. conn[c].req \in Requests /\ conn[c].req \in AllRequests
    BY <1>2, ServerAssumption DEF OwnRequests, SendMore, HangUp
  <2>2. Touch(c) /\ conn'[c].req = conn[c].req
    BY <1>2, <2>1, SendHangUpFact
  <2>3. \A d \in Conns \ {c} : conn'[d] = conn[d]
    BY <2>2, TouchFact
  <2> QED
    BY <2>1, <2>2, <2>3 DEF World, OwnRequests
<1> QED
  BY <1>1, <1>2

LEMMA ProcessRequests ==
  ASSUME Inductive, NEW C \in SUBSET Conns, OwnRequests(C), Process
  PROVE  OwnRequests(C)'
<1>1. \A c \in Conns : Handled(c)
  BY ProcessEffect DEF Inductive
<1> QED
  BY <1>1 DEF OwnRequests, Handled

LEMMA NextStep ==
  ASSUME Inductive, OwnRequests(Conns), [Next]_vars
  PROVE  Step /\ OwnRequests(Conns)'
<1>1. CASE MainStep \/ Drain \/ Signal \/ Restart
  BY <1>1, ProcessRequests DEF Step, Process
<1>2. CASE UNCHANGED vars
  BY <1>2 DEF Step, OwnRequests, vars
<1>3. ASSUME NEW c \in Conns,
             \/ \E r \in Requests : Connect(c, r)
             \/ SendMore(c) \/ HangUp(c)
      PROVE  Step /\ OwnRequests(Conns)'
  BY <1>3, OthersFact DEF Step, Inductive
<1> QED
  BY <1>1, <1>2, <1>3 DEF Next

-----------------------------------------------------------------------------
(* The theorems.                                                            *)

LEMMA InitInductive == Init => Inductive
<1> SUFFICES ASSUME Init PROVE Inductive
  OBVIOUS
<1>1. /\ pc = "boot" /\ ~running_ /\ ~g_server /\ socket_fd_ = "closed"
      /\ cur = NoConn /\ resp = NoReply /\ path \in {"absent", "stale"}
      /\ queue = <<>> /\ signals = 0 /\ faults = 0 /\ restarts = 0
      /\ running_ \in BOOLEAN /\ g_server \in BOOLEAN
  BY DEF Init
<1>2. /\ life = "none" /\ kv = EmptyMap /\ mods = EmptyMap
      /\ phase = [t \in {Main} |-> "idle"]
      /\ call = [t \in {Main} |-> NoCall]
      /\ ret = [t \in {Main} |-> NoResult]
  BY SameApi DEF Init, Enc!Init
<1>3. ProcessType
  <2>1. 0 \in 0..MaxSignals /\ 0 \in 0..MaxFaults /\ 0 \in 0..MaxRestarts
    BY ServerAssumption
  <2> QED
    BY <1>1, <2>1 DEF ProcessType, Starting
<1>4. conn \in [Conns -> ConnRecord]
      /\ \A c \in Conns : conn[c].state = "off" /\ conn[c].inbox = <<>>
                          /\ conn[c].by = 0 /\ conn[c].sent = "nothing"
  <2> DEFINE k == [state |-> "off", req |-> NoRequest, sent |-> "nothing",
                   shut |-> FALSE, inbox |-> <<>>, by |-> 0]
  <2>1. "nothing" \in Arrived
    BY DEF Arrived, Arrivals
  <2>2. 0 \in 0..MaxRestarts
    BY ServerAssumption
  <2>3. k \in ConnRecord
    BY <2>1, <2>2, InboxFacts DEF ConnRecord, AnyRequest
  <2>4. conn = [c \in Conns |-> k]
    BY DEF Init
  <2> QED
    BY <2>3, <2>4
<1>5. ConnInv
  BY <1>1, <1>4 DEF ConnInv, Handling
<1>6. QueueInv
  <2>1. BACKLOG \in Nat /\ <<>> \in Seq(Conns) /\ Len(<<>>) = 0
    BY ServerAssumption
  <2> QED
    BY <1>1, <2>1 DEF QueueInv
<1>7. RequestInv
  BY <1>1 DEF RequestInv
<1>8. EnclaveInv
  <2>1. MapsType /\ ThreadType /\ phase[Main] = "idle"
    BY <1>2, EmptyMapFact, ResultFacts DEF MapsType, ThreadType
  <2> QED
    BY <1>1, <1>2, <2>1, EncTypeFact DEF EnclaveInv
<1>9. ResponseInv
  BY <1>1, <1>2, <1>4 DEF ResponseInv, AcknowledgedIsKept, AnsweredInv,
     Acknowledged
<1>10. StartInv /\ AcceptInv
  BY <1>1 DEF StartInv, AcceptInv, InitFailsForCause
<1> QED
  BY <1>3, <1>5, <1>6, <1>7, <1>8, <1>9, <1>10 DEF Inductive

(* In every state the process can be in, at every line a signal may hit,    *)
(* main's thread, its connection and the enclave agree.                     *)
THEOREM InductiveInvariant == Spec => [](Inductive /\ OwnRequests(Conns))
<1>1. Inductive /\ OwnRequests(Conns) /\ [Next]_vars =>
        Inductive' /\ OwnRequests(Conns)'
  BY InductiveStep, NextStep
<1>2. Init => OwnRequests(Conns)
  BY DEF Init, OwnRequests
<1> QED
  BY <1>1, <1>2, InitInductive, PTL DEF Spec

(* Every variable of the server, its connections and the kernel's queue,    *)
(* whose length listen bounds, keeps its type.                              *)
THEOREM TypeCorrect == Spec => []TypeOK
<1>1. Inductive /\ OwnRequests(Conns) => TypeOK
  <2> SUFFICES ASSUME Inductive, OwnRequests(Conns) PROVE TypeOK
    OBVIOUS
  <2>1. cur \in Conns \cup {NoConn}
    BY DEF Inductive, ConnInv
  <2>2. ASSUME NEW c \in Conns
        PROVE  /\ conn[c].state \in {"off", "queued", "open", "done"}
               /\ conn[c].req \in Requests \cup {NoRequest}
               /\ conn[c].sent \in Arrived
               /\ conn[c].by \in 0..MaxRestarts
               /\ conn[c].inbox \in Inboxes
    BY DEF Inductive, ConnInv, ConnRecord, OwnRequests
  <2>3. \A c \in Conns : conn[c].shut \in BOOLEAN
    BY Zenon DEF Inductive, ConnInv, ConnRecord
  <2>4. ASSUME NEW c \in Conns, NEW i \in DOMAIN conn[c].inbox
        PROVE  conn[c].inbox[i].status \in ResponseStatus \cup {"truncated"}
    <3>1. PICK m \in Message : conn[c].inbox = <<m>>
      BY <2>2, <2>4 DEF Inboxes
    <3>2. i = 1 /\ conn[c].inbox[1] = m
      BY <3>1
    <3> QED
      BY <3>2 DEF Message
  <2>5. /\ pc \in Starting \cup Serving \cup Leaving \cup Ended
        /\ running_ \in BOOLEAN /\ g_server \in BOOLEAN
        /\ socket_fd_ \in {"closed", "open", "bound", "listening"}
        /\ path \in {"absent", "live", "stale"}
        /\ signals \in 0..MaxSignals /\ faults \in 0..MaxFaults
        /\ restarts \in 0..MaxRestarts
    BY DEF Inductive, ProcessType
  <2>6. /\ resp \in Responses \cup {NoReply} /\ Enc!TypeOK
        /\ queue \in Seq(Conns) /\ Len(queue) <= BACKLOG + 1
    BY DEF Inductive, ResponseInv, EnclaveInv, QueueInv
  <2> QED
    BY <2>1, <2>2, <2>3, <2>4, <2>5, <2>6 DEF TypeOK
<1> QED
  BY <1>1, InductiveInvariant, PTL

LEMMA OneResponseFact == Inductive => OneResponse
<1> SUFFICES ASSUME Inductive PROVE OneResponse
  OBVIOUS
<1>1. \A c \in Conns : conn[c].inbox \in Inboxes
  BY DEF Inductive, ConnInv, ConnRecord
<1>2. ASSUME NEW x \in Inboxes
      PROVE  Len(x) <= 1 /\ (x = <<>> \/ Len(x) = 1)
  <2>1. CASE x = <<>>
    BY <2>1
  <2>2. ASSUME NEW m \in Message, x = <<m>>
        PROVE  Len(x) <= 1 /\ Len(x) = 1
    BY <2>2
  <2>3. x = <<>> \/ \E m \in Message : x = <<m>>
    BY InboxFacts
  <2> QED
    BY <2>1, <2>2, <2>3, Zenon
<1>3. pc = "close" => cur \in Conns /\ conn[cur].inbox # <<>>
  BY DEF Inductive, ConnInv, Handling
<1>4. \A c \in Conns :
        conn[c].inbox # <<>> /\ conn[c].state = "open" => pc = "close"
  BY DEF Inductive, ConnInv
<1>5. pc = "close" => Len(conn[cur].inbox) = 1
  BY <1>1, <1>2, <1>3
<1>6. \A c \in Conns : Len(conn[c].inbox) <= 1
  BY <1>1, <1>2
<1> QED
  BY <1>4, <1>5, <1>6 DEF OneResponse

(* Whichever way HandleClient goes, and whatever interrupts it, it sends    *)
(* one response before it closes the connection, and nobody gets two.       *)
THEOREM OneResponseHolds == Spec => []OneResponse
BY OneResponseFact, InductiveInvariant, PTL

(* What a SUCCESS told a client is true for as long as the enclave behind   *)
(* it lives: its key is stored, its handle names the module it sent.   *)
THEOREM AcknowledgedIsKeptHolds == Spec => []AcknowledgedIsKept
BY InductiveInvariant, PTL DEF Inductive, ResponseInv

(* Initialize fails only when a resource lacks or a signal interferes.      *)
THEOREM InitFailsForCauseHolds == Spec => []InitFailsForCause
BY InductiveInvariant, PTL DEF Inductive, StartInv

LEMMA AcceptFact ==
  ASSUME Inductive, Step, cur = NoConn, cur' # NoConn
  PROVE  running_ /\ life = "alive"
<1>1. Accept
  <2>1. ~QuietStep /\ ~FreedReturn
    BY QuietSteps, FreedFact DEF Quiet, Stays
  <2>2. ~Dies /\ ~Destruct /\ ~SignalShutdown /\ ~CloseClient /\ ~Restart
    BY DEF Dies, Die, Destruct, SignalShutdown, CloseClient, Restart,
       clientVars
  <2>3. ~SendStep
    BY SendFact DEF Inductive
  <2>4. ~World
    BY DEF World, Connect, Touch, processVars, clientVars
  <2> QED
    BY <2>1, <2>2, <2>3, <2>4, StepCases
<1> QED
  BY <1>1 DEF Accept, Inductive, AcceptInv, Serving

(* Whatever a signal does to Initialize, no connection is taken up without  *)
(* an enclave, or after running_ was cleared.                               *)
THEOREM AcceptsWithEnclaveHolds == Spec => AcceptsWithEnclave
<1>1. Inductive /\ OwnRequests(Conns) /\ [Next]_vars =>
        [cur = NoConn /\ cur' # NoConn => running_ /\ life = "alive"]_vars
  BY AcceptFact, NextStep
<1> QED
  BY <1>1, InductiveInvariant, PTL DEF Spec, AcceptsWithEnclave

LEMMA ValidChangeFact ==
  ASSUME Inductive, Step, life = "alive", life' = "alive",
         <<kv, mods>>' # <<kv, mods>>
  PROVE  /\ cur \in Conns
         /\ conn[cur].sent = "all"
         /\ conn[cur].req.fault = "none"
         /\ conn[cur].req.call = call[Main]
<1>a. /\ ConnInv /\ QueueInv /\ ResponseInv /\ RequestInv /\ EnclaveInv
      /\ MapsType /\ ThreadType
  BY EncTypeFact DEF Inductive, EnclaveInv
<1>1. InEnclave
  <2>1. ~EnclaveUntouched
    BY DEF EnclaveUntouched
  <2>2. ~CallEnclave /\ ~LeaveEnclave /\ ~FreedReturn
    BY FreedFact DEF CallEnclave, LeaveEnclave, Enc!Begin, Enc!End
  <2>3. ~CreateEnclave
    BY DEF CreateEnclave, Enc!Create
  <2>4. ~Dies /\ ~Destruct /\ ~SignalShutdown
    BY ResetFact DEF Dies, Die, Destruct, SignalShutdown,
       ShutdownEffect
  <2> QED
    BY <1>a, <2>1, <2>2, <2>3, <2>4, UntouchedSteps, StepCases
<1>2. /\ pc = "in_enclave" /\ Enc!Do(Main)
      /\ call[Main] = Request.call /\ call[Main] \in Calls
  BY <1>1, <1>a DEF InEnclave, EnclaveInv
<1>3. call[Main].op \in {"store", "load"}
  BY <1>a, <1>2, DoFact
<1>4. cur \in Conns /\ Request \in AllRequests
  BY <1>a, <1>2, RequestFact
<1>5. HasPayload(Request)
  BY <1>2, <1>3 DEF HasPayload
<1>6. /\ Request.fault \notin {"magic", "size"}
      /\ ~Invalid(Request) /\ ~Malformed(Request)
      /\ conn[cur].sent = "all"
  BY <1>a, <1>2, <1>5 DEF RequestInv
<1>7. Request.fault \in RequestFaults
  BY <1>4 DEF AllRequests
<1>8. Request.fault = "none"
  BY <1>5, <1>6, <1>7 DEF RequestFaults, Invalid, Malformed
<1> QED
  BY <1>2, <1>4, <1>6, <1>8 DEF Request

(* The contents of a living enclave change only inside the call of a        *)
(* request that arrived completely and passed every check.                  *)
THEOREM OnlyValidRequestsCountHolds == Spec => OnlyValidRequestsCount
<1>1. Inductive /\ OwnRequests(Conns) /\ [Next]_vars =>
        [life = "alive" /\ life' = "alive" /\ <<kv, mods>>' # <<kv, mods>> =>
           /\ cur \in Conns
           /\ conn[cur].sent = "all"
           /\ conn[cur].req.fault = "none"
           /\ conn[cur].req.call = call[Main]]_vars
  BY ValidChangeFact, NextStep
<1> QED
  BY <1>1, InductiveInvariant, PTL DEF Spec, OnlyValidRequestsCount
=============================================================================
