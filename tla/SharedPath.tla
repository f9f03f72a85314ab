------------------------------ MODULE SharedPath ------------------------------
(***************************************************************************)
(* Several server processes and the one SOCKET_PATH they all use: what the *)
(* unlink, bind, listen and close calls of server.cpp do to each other     *)
(* when servers are started, signalled, stopped, killed and started again. *)
(***************************************************************************)
EXTENDS Naturals

CONSTANTS
  Servers,    \* server processes, in no order
  Nobody,
  MaxFaults,  \* bound: system calls that fail for want of a resource
  MaxSignals  \* bound: SIGINTs and SIGTERMs that reach signal_handler

ASSUME SharedPathAssumption ==
  /\ Nobody \notin Servers
  /\ MaxFaults \in Nat /\ MaxSignals \in Nat

VARIABLES
  pc,         \* pc[s]: what main does next in process s
  handler,    \* handler[s]: what signal_handler does next in s, or "none"
  socket_fd_, \* socket_fd_[s]: "closed", "open", "bound" or "listening"
  enclave_,   \* the processes whose enclave_ is set,
  running_,   \* ... whose running_ is true,
  g_server,   \* ... whose g_server is set
  path,       \* whose socket SOCKET_PATH names
  shared,     \* the servers that have run at the same time as another
  late,       \* the ones signalled after Run's check, before it set running_
  faults,
  signals

objectVars == <<enclave_, running_, g_server>>
countVars == <<shared, late, faults, signals>>
vars == <<pc, handler, socket_fd_, objectVars, path, countVars>>

Ended == {"exited", "killed"}
Labels == {"off", "create", "socket", "unlink", "bind", "listen", "check",
           "set_running", "loop", "in_use", "clear", "close", "remove",
           "returned"} \cup Ended

TypeOK ==
  /\ pc \in [Servers -> Labels]
  /\ handler \in [Servers -> {"none", "close", "unlink"}]
  /\ socket_fd_ \in [Servers -> {"closed", "open", "bound", "listening"}]
  /\ enclave_ \subseteq Servers /\ running_ \subseteq Servers
  /\ g_server \subseteq Servers
  /\ path \in Servers \cup {Nobody}
  /\ shared \subseteq Servers /\ late \subseteq Servers
  /\ faults \in 0..MaxFaults /\ signals \in 0..MaxSignals
  /\ \A s \in Servers : pc[s] \in Ended => socket_fd_[s] = "closed"

Init ==
  /\ pc = [s \in Servers |-> "off"]
  /\ handler = [s \in Servers |-> "none"]
  /\ socket_fd_ = [s \in Servers |-> "closed"]
  /\ enclave_ = {} /\ running_ = {} /\ g_server = {}
  /\ path = Nobody
  /\ shared = {} /\ late = {}
  /\ faults = 0 /\ signals = 0

-----------------------------------------------------------------------------
(* main goes on when the handler has returned.                              *)
At(s, label) == pc[s] = label /\ handler[s] = "none"
Goto(s, label) == pc' = [pc EXCEPT ![s] = label] /\ UNCHANGED handler
SetSocket(s, state) == socket_fd_' = [socket_fd_ EXCEPT ![s] = state]

(* main, as far as g_server.                                                *)
Start(s) ==
  /\ pc[s] = "off"
  /\ LET others == {t \in Servers : pc[t] \notin Ended \cup {"off"}}
     IN  shared' = IF others = {} THEN shared ELSE shared \cup others \cup {s}
  /\ g_server' = g_server \cup {s}
  /\ Goto(s, "create")
  /\ UNCHANGED <<socket_fd_, enclave_, running_, path, late, faults, signals>>

(* Initialize.                                                              *)
CreateEnclave(s) ==
  /\ At(s, "create")
  /\ enclave_' = enclave_ \cup {s}
  /\ Goto(s, "socket")
  /\ UNCHANGED <<socket_fd_, running_, g_server, path, countVars>>

CreateSocket(s) ==
  /\ At(s, "socket")
  /\ SetSocket(s, "open")
  /\ Goto(s, "unlink")
  /\ UNCHANGED <<objectVars, path, countVars>>

(* Mutant of Unlink: the file that is there is left.                        *)
KeepFile(s) ==
  /\ At(s, "unlink")
  /\ Goto(s, "bind")
  /\ UNCHANGED <<socket_fd_, objectVars, path, countVars>>

Unlink(s) ==
  /\ At(s, "unlink")
  /\ path' = Nobody
  /\ Goto(s, "bind")
  /\ UNCHANGED <<socket_fd_, objectVars, countVars>>

Bind(s) ==
  /\ At(s, "bind") /\ socket_fd_[s] = "open" /\ path = Nobody
  /\ path' = s
  /\ SetSocket(s, "bound")
  /\ Goto(s, "listen")
  /\ UNCHANGED <<objectVars, countVars>>

Listen(s) ==
  /\ At(s, "listen") /\ socket_fd_[s] = "bound"
  /\ SetSocket(s, "listening")
  /\ Goto(s, "check")
  /\ UNCHANGED <<objectVars, path, countVars>>

(* Mutant of InUse: a path in use is waited for.                            *)
WaitForPath(s) == FALSE

InUse(s) == At(s, "bind") /\ socket_fd_[s] = "open" /\ path # Nobody

(* bind refuses a path that exists.                                         *)
BindRefused(s) ==
  /\ InUse(s)
  /\ SetSocket(s, "closed")
  /\ Goto(s, "in_use")
  /\ UNCHANGED <<objectVars, path, countVars>>

Fault == faults < MaxFaults /\ faults' = faults + 1

(* A call fails for want of a resource, or because the handler has closed   *)
(* the socket.                                                              *)
CallFails(s) ==
  \/ /\ At(s, "bind") \/ At(s, "listen")
     /\ socket_fd_[s] = "closed" /\ UNCHANGED faults
  \/ /\ At(s, "create") \/ At(s, "socket") \/ At(s, "bind") \/ At(s, "listen")
     /\ Fault

(* Initialize returns false and main runs the destructor, with g_server     *)
(* still set.                                                               *)
InitFail(s) ==
  /\ \/ CallFails(s)
     \/ At(s, "in_use") /\ UNCHANGED faults
  /\ SetSocket(s, "closed")
  /\ Goto(s, "close")
  /\ UNCHANGED <<objectVars, path, shared, late, signals>>

-----------------------------------------------------------------------------
(* Mutant of NotInitialized: Run does not ask.                              *)
NotAsked(s) == FALSE

NotInitialized(s) == socket_fd_[s] = "closed" \/ s \notin enclave_

(* Run.                                                                     *)
Check(s) ==
  /\ At(s, "check")
  /\ Goto(s, IF NotInitialized(s) THEN "clear" ELSE "set_running")
  /\ UNCHANGED <<socket_fd_, objectVars, path, countVars>>

SetRunning(s) ==
  /\ At(s, "set_running")
  /\ running_' = running_ \cup {s}
  /\ Goto(s, "loop")
  /\ UNCHANGED <<socket_fd_, enclave_, g_server, path, countVars>>

(* A client's SHUTDOWN command.                                             *)
ShutdownCommand(s) ==
  /\ At(s, "loop") /\ s \in running_ /\ socket_fd_[s] = "listening"
  /\ running_' = running_ \ {s}
  /\ UNCHANGED <<pc, handler, socket_fd_, enclave_, g_server, path, countVars>>

LeaveLoop(s) ==
  /\ At(s, "loop") /\ s \notin running_
  /\ Goto(s, "clear")
  /\ UNCHANGED <<socket_fd_, objectVars, path, countVars>>

Clear(s) ==
  /\ At(s, "clear")
  /\ g_server' = g_server \ {s}
  /\ Goto(s, "close")
  /\ UNCHANGED <<socket_fd_, enclave_, running_, path, countVars>>

-----------------------------------------------------------------------------
(* signal_handler interrupts main wherever it is; the same signal does not  *)
(* interrupt the handler.  Shutdown clears running_, ...                    *)
Signal(s) ==
  /\ s \in g_server /\ handler[s] = "none"
  /\ signals < MaxSignals /\ signals' = signals + 1
  /\ running_' = running_ \ {s}
  /\ handler' = [handler EXCEPT ![s] = "close"]
  /\ late' = IF pc[s] = "set_running" THEN late \cup {s} ELSE late
  /\ UNCHANGED <<pc, socket_fd_, enclave_, g_server, path, shared, faults>>

(* Mutant of Close: the descriptor is forgotten, not closed.                *)
Forget(s) == socket_fd_

Close(s) == [socket_fd_ EXCEPT ![s] = "closed"]

(* ... closes the socket ...                                                *)
CloseSocket(s) ==
  /\ \/ /\ handler[s] = "close"
        /\ handler' = [handler EXCEPT ![s] = "unlink"] /\ UNCHANGED pc
     \/ At(s, "close") /\ Goto(s, "remove")
  /\ running_' = running_ \ {s}
  /\ socket_fd_' = Close(s)
  /\ UNCHANGED <<enclave_, g_server, path, countVars>>

(* ... and removes whatever has the path's name, and the enclave.  The      *)
(* handler returns to main, or main has run the destructor.                 *)
ShutdownUnlink(s) ==
  /\ \/ /\ handler[s] = "unlink"
        /\ handler' = [handler EXCEPT ![s] = "none"] /\ UNCHANGED pc
     \/ At(s, "remove") /\ Goto(s, "returned")
  /\ path' = Nobody
  /\ enclave_' = enclave_ \ {s}
  /\ UNCHANGED <<socket_fd_, running_, g_server, countVars>>

(* The kernel closes the socket of a process that ends; its file stays.     *)
End(s, how) ==
  /\ pc' = [pc EXCEPT ![s] = how]
  /\ handler' = [handler EXCEPT ![s] = "none"]
  /\ enclave_' = enclave_ \ {s} /\ running_' = running_ \ {s}
  /\ g_server' = g_server \ {s}
  /\ UNCHANGED <<path, countVars>>

Exit(s) == At(s, "returned") /\ End(s, "exited") /\ UNCHANGED socket_fd_

Kill(s) ==
  /\ pc[s] \notin Ended \cup {"off"}
  /\ End(s, "killed")
  /\ SetSocket(s, "closed")

-----------------------------------------------------------------------------
ServerStep(s) ==
  \/ CreateEnclave(s) \/ CreateSocket(s) \/ Unlink(s) \/ Bind(s)
  \/ BindRefused(s) \/ Listen(s) \/ InitFail(s) \/ Check(s) \/ SetRunning(s)
  \/ LeaveLoop(s) \/ Clear(s) \/ CloseSocket(s) \/ ShutdownUnlink(s)
  \/ Exit(s)

Next ==
  \E s \in Servers :
    \/ Start(s) \/ ServerStep(s)
    \/ ShutdownCommand(s) \/ Signal(s) \/ Kill(s)

Spec == Init /\ [][Next]_vars

(* The kernel schedules every process.                                      *)
FairSpec == Spec /\ \A s \in Servers : WF_vars(ServerStep(s))

-----------------------------------------------------------------------------
(* Properties.                                                              *)

(* "The server listens on /tmp/openenclave.sock": a client that connects to *)
(* the path reaches the server whose loop runs, whatever the ones before it *)
(* have left behind and wherever signals have hit it, unless two ran at the *)
(* same time, or the signal came between Run's check (server.cpp:72) and    *)
(* its `running_ = true' (77): that one is lost, and the loop goes on with  *)
(* neither socket nor file.                                                 *)
RunningIsReachable ==
  \A s \in Servers :
    pc[s] = "loop" /\ s \in running_ /\ s \notin shared \cup late =>
      path = s /\ socket_fd_[s] = "listening"

(* Initialize's bind finds the path in use only if another server has run   *)
(* next to this one: what a killed server has left is no hindrance.         *)
RefusedOnlyByRival == \A s \in Servers : pc[s] = "in_use" => s \in shared

(* A server that is started comes to its loop, or its process ends: no      *)
(* start hangs on what others do with the path.                             *)
ComesUp == \A s \in Servers : pc[s] = "create" ~> pc[s] \in {"loop"} \cup Ended
=============================================================================
