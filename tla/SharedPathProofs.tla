--------------------------- MODULE SharedPathProofs ---------------------------
(***************************************************************************)
(* What SharedPath promises, proved for any set of server processes and    *)
(* any number of signals.  The argument is about overlap: `shared'         *)
(* remembers every server that ran at the same time as another, so a       *)
(* server outside it was alone from its unlink on, and nobody but its own  *)
(* handler, which closes the socket first, could touch the path.           *)
(***************************************************************************)
EXTENDS SharedPath, TLAPS

Runs(s) == pc[s] \notin Ended \cup {"off"}

(* Where main is, and what the handler may have done to it.                 *)
ObjectInv ==
  \A s \in Servers :
    /\ s \in g_server \/ handler[s] # "none" => Runs(s)
    /\ handler[s] = "unlink" => socket_fd_[s] = "closed"
    /\ pc[s] \in {"remove", "returned"} => socket_fd_[s] = "closed"
    /\ pc[s] = "check" => socket_fd_[s] \in {"closed", "listening"}
    /\ pc[s] = "set_running" /\ s \notin late =>
         socket_fd_[s] = "listening" /\ handler[s] = "none"
    /\ s \in running_ => pc[s] = "loop" /\ handler[s] = "none"
    /\ s \in running_ /\ s \notin late => socket_fd_[s] = "listening"

(* Two servers that run now are both known to have shared the path.         *)
OverlapInv ==
  \A s, t \in Servers : s # t /\ Runs(s) /\ Runs(t) => s \in shared

(* A server that is alone finds the path free and keeps it while it has a   *)
(* socket.                                                                  *)
PathInv ==
  \A s \in Servers \ shared :
    /\ pc[s] = "bind" => path = Nobody
    /\ /\ pc[s] \in {"listen", "check", "set_running", "loop"}
       /\ socket_fd_[s] # "closed"
       => path = s

Inductive ==
  /\ TypeOK
  /\ ObjectInv
  /\ OverlapInv
  /\ PathInv
  /\ RefusedOnlyByRival

LEMMA InitInductive == Init => Inductive
BY SharedPathAssumption
   DEF Init, Inductive, TypeOK, Labels, Ended, ObjectInv, OverlapInv, Runs,
       PathInv, RefusedOnlyByRival

-----------------------------------------------------------------------------
(* What one server does.                                                    *)
ProcessStep(s) ==
  ServerStep(s) \/ ShutdownCommand(s) \/ Signal(s) \/ Kill(s)

(* The others keep what is theirs.                                          *)
Apart(s) ==
  \A t \in Servers \ {s} :
    /\ pc'[t] = pc[t] /\ handler'[t] = handler[t]
    /\ socket_fd_'[t] = socket_fd_[t]
    /\ t \in running_' <=> t \in running_
    /\ t \in g_server' <=> t \in g_server
    /\ t \in late' <=> t \in late

LEMMA ApartFact ==
  ASSUME TypeOK, NEW s \in Servers, Start(s) \/ ProcessStep(s)
  PROVE  Apart(s)
<1> USE DEF Apart, TypeOK, At, Goto, SetSocket, countVars, objectVars
<1>1. CASE Start(s) \/ CreateEnclave(s) \/ CreateSocket(s) \/ Unlink(s)
  BY <1>1 DEF Start, CreateEnclave, CreateSocket, Unlink
<1>2. CASE Bind(s) \/ BindRefused(s) \/ Listen(s) \/ InitFail(s)
  BY <1>2 DEF Bind, BindRefused, Listen, InitFail
<1>3. CASE Check(s) \/ SetRunning(s) \/ LeaveLoop(s) \/ Clear(s)
  BY <1>3 DEF Check, SetRunning, LeaveLoop, Clear
<1>4. CASE CloseSocket(s) \/ ShutdownUnlink(s)
  BY <1>4 DEF CloseSocket, ShutdownUnlink, Close
<1>5. CASE Exit(s) \/ Kill(s)
  BY <1>5 DEF Exit, Kill, End
<1>6. CASE ShutdownCommand(s) \/ Signal(s)
  BY <1>6 DEF ShutdownCommand, Signal
<1> QED
  BY <1>1, <1>2, <1>3, <1>4, <1>5, <1>6 DEF ProcessStep, ServerStep

LEMMA RunsFact ==
  ASSUME TypeOK, ObjectInv, NEW s \in Servers, ProcessStep(s)
  PROVE  Runs(s) /\ shared' = shared
<1> USE DEF Runs, Ended, At, countVars
<1>1. CASE Kill(s) \/ ShutdownCommand(s) \/ Signal(s)
  BY <1>1 DEF Kill, End, ShutdownCommand, Signal, ObjectInv
<1>2. CASE ServerStep(s)
  BY <1>2 DEF ServerStep, CreateEnclave, CreateSocket, Unlink, Bind,
     BindRefused, InUse, Listen, InitFail, CallFails, Check, SetRunning,
     LeaveLoop, Clear, CloseSocket, ShutdownUnlink, Exit, End, ObjectInv
<1> QED
  BY <1>1, <1>2 DEF ProcessStep

(* Every step of a server keeps the types.                                  *)
LEMMA TypeStep ==
  ASSUME Inductive, NEW s \in Servers, Start(s) \/ ProcessStep(s)
  PROVE  TypeOK'
<1> USE SharedPathAssumption
    DEF Inductive, TypeOK, Labels, Ended, At, Goto, SetSocket, countVars,
        objectVars
<1>1. CASE Start(s) \/ CreateEnclave(s) \/ CreateSocket(s) \/ Unlink(s)
  BY <1>1 DEF Start, CreateEnclave, CreateSocket, Unlink
<1>2. CASE Bind(s) \/ BindRefused(s) \/ Listen(s)
  BY <1>2 DEF Bind, BindRefused, Listen, InUse
<1>3. CASE InitFail(s)
  BY <1>3 DEF InitFail, CallFails, Fault
<1>4. CASE Check(s) \/ SetRunning(s) \/ LeaveLoop(s) \/ Clear(s)
  BY <1>4 DEF Check, SetRunning, LeaveLoop, Clear
<1>5. CASE CloseSocket(s) \/ ShutdownUnlink(s)
  BY <1>5 DEF CloseSocket, ShutdownUnlink, Close
<1>6. CASE Exit(s) \/ Kill(s)
  BY <1>6 DEF Exit, Kill, End, ObjectInv
<1>7. CASE ShutdownCommand(s) \/ Signal(s)
  BY <1>7 DEF ShutdownCommand, Signal
<1> QED
  BY <1>1, <1>2, <1>3, <1>4, <1>5, <1>6, <1>7 DEF ProcessStep, ServerStep

(* A signal that is not late is not lost.                                   *)
LEMMA ObjectStep ==
  ASSUME Inductive, NEW s \in Servers, Start(s) \/ ProcessStep(s)
  PROVE  ObjectInv'
<1>a. Apart(s)
  BY ApartFact DEF Inductive
<1> DEFINE Mine ==
      /\ s \in g_server \/ handler[s] # "none" => Runs(s)
      /\ handler[s] = "unlink" => socket_fd_[s] = "closed"
      /\ pc[s] \in {"remove", "returned"} => socket_fd_[s] = "closed"
      /\ pc[s] = "check" => socket_fd_[s] \in {"closed", "listening"}
      /\ pc[s] = "set_running" /\ s \notin late =>
           socket_fd_[s] = "listening" /\ handler[s] = "none"
      /\ s \in running_ => pc[s] = "loop" /\ handler[s] = "none"
      /\ s \in running_ /\ s \notin late => socket_fd_[s] = "listening"
<1>b. Mine
  BY DEF Inductive, ObjectInv
<1>1. Mine'
  <2> USE <1>b DEF Inductive, TypeOK, Runs, Ended, At, Goto, SetSocket,
          countVars, objectVars
  <2>1. CASE Start(s) \/ CreateEnclave(s) \/ CreateSocket(s) \/ Unlink(s)
    BY <2>1 DEF Start, CreateEnclave, CreateSocket, Unlink
  <2>2. CASE Bind(s) \/ BindRefused(s) \/ Listen(s)
    BY <2>2 DEF Bind, BindRefused, Listen, InUse
  <2>3. CASE InitFail(s)
    BY <2>3 DEF InitFail, CallFails
  <2>4. CASE Check(s) \/ SetRunning(s)
    BY <2>4 DEF Check, SetRunning, NotInitialized
  <2>5. CASE LeaveLoop(s) \/ Clear(s)
    BY <2>5 DEF LeaveLoop, Clear
  <2>6. CASE CloseSocket(s) \/ ShutdownUnlink(s)
    BY <2>6 DEF CloseSocket, ShutdownUnlink, Close
  <2>7. CASE Exit(s) \/ Kill(s)
    BY <2>7 DEF Exit, Kill, End
  <2>8. CASE ShutdownCommand(s) \/ Signal(s)
    BY <2>8 DEF ShutdownCommand, Signal
  <2> QED
    BY <2>1, <2>2, <2>3, <2>4, <2>5, <2>6, <2>7, <2>8
       DEF ProcessStep, ServerStep
<1> QED
  BY <1>a, <1>1 DEF Inductive, ObjectInv, Apart, Runs

(* No step but Start makes a server run that did not, and Start records     *)
(* the overlap it creates.                                                  *)
LEMMA OverlapStep ==
  ASSUME Inductive, NEW s \in Servers, Start(s) \/ ProcessStep(s)
  PROVE  OverlapInv'
<1>a. \A t \in Servers \ {s} : Runs(t)' <=> Runs(t)
  BY ApartFact DEF Inductive, Apart, Runs
<1>1. CASE Start(s)
  <2>1. \A t \in Servers : Runs(t) => t \in shared' /\ s \in shared'
    BY <1>1 DEF Start, Runs
  <2> QED
    BY <1>a, <2>1 DEF OverlapInv
<1>2. CASE ProcessStep(s)
  BY <1>a, <1>2, RunsFact DEF Inductive, OverlapInv
<1> QED
  BY <1>1, <1>2

(* Whoever changes the path runs, so a server that still owns it is the one *)
(* that does, or has shared it.                                             *)
LEMMA PathStep ==
  ASSUME Inductive, NEW s \in Servers, Start(s) \/ ProcessStep(s)
  PROVE  PathInv' /\ RefusedOnlyByRival'
<1>a. Apart(s) /\ TypeOK /\ ObjectInv /\ PathInv /\ RefusedOnlyByRival
  BY ApartFact DEF Inductive
<1>b. shared \subseteq shared'
  BY <1>a, RunsFact DEF Start
<1> DEFINE Fine(t) ==
      /\ t \notin shared /\ pc[t] = "bind" => path = Nobody
      /\ /\ t \notin shared
         /\ pc[t] \in {"listen", "check", "set_running", "loop"}
         /\ socket_fd_[t] # "closed"
         => path = t
      /\ pc[t] = "in_use" => t \in shared
<1>1. \A t \in Servers : Fine(t)
  BY <1>a DEF PathInv, RefusedOnlyByRival
<1>2. ASSUME NEW t \in Servers \ {s} PROVE Fine(t)'
  <2>1. pc'[t] = pc[t] /\ socket_fd_'[t] = socket_fd_[t]
    BY <1>2, <1>a DEF Apart
  <2>2. CASE Start(s)
    BY <1>1, <1>2, <1>b, <2>1, <2>2 DEF Start
  <2>3. CASE ProcessStep(s) /\ Runs(t)
    <3>1. t \in shared /\ t \in shared'
      BY <1>2, <1>a, <1>b, <2>3, RunsFact DEF Inductive, OverlapInv
    <3> QED
      BY <3>1
  <2>4. CASE ~Runs(t)
    BY <2>1, <2>4 DEF Runs, Ended
  <2> QED
    BY <2>2, <2>3, <2>4
<1>3. Fine(s)'
  <2>1. Fine(s)
    BY <1>1
  <2> USE <1>a, <2>1 DEF TypeOK, At, Goto, SetSocket, countVars, objectVars
  <2>2. CASE Start(s) \/ CreateEnclave(s) \/ CreateSocket(s) \/ Unlink(s)
    BY <2>2 DEF Start, CreateEnclave, CreateSocket, Unlink
  <2>3. CASE Bind(s) \/ BindRefused(s) \/ Listen(s)
    BY <2>3 DEF Bind, BindRefused, Listen, InUse
  <2>4. CASE InitFail(s) \/ LeaveLoop(s) \/ Clear(s)
    BY <2>4 DEF InitFail, LeaveLoop, Clear
  <2>5. CASE Check(s) \/ SetRunning(s)
    BY <2>5 DEF Check, SetRunning
  <2>6. CASE CloseSocket(s) \/ ShutdownUnlink(s)
    BY <2>6 DEF CloseSocket, ShutdownUnlink, Close, ObjectInv
  <2>7. CASE Exit(s) \/ Kill(s)
    BY <2>7 DEF Exit, Kill, End
  <2>8. CASE ShutdownCommand(s) \/ Signal(s)
    BY <2>8 DEF ShutdownCommand, Signal
  <2> QED
    BY <2>2, <2>3, <2>4, <2>5, <2>6, <2>7, <2>8 DEF ProcessStep, ServerStep
<1>4. \A t \in Servers : Fine(t)'
  BY <1>2, <1>3
<1> QED
  BY <1>4 DEF PathInv, RefusedOnlyByRival

LEMMA InductiveStep == Inductive /\ [Next]_vars => Inductive'
<1> SUFFICES ASSUME Inductive, [Next]_vars PROVE Inductive'
  OBVIOUS
<1>1. CASE UNCHANGED vars
  BY <1>1 DEF vars, objectVars, countVars, Inductive, TypeOK, ObjectInv,
     OverlapInv, PathInv, RefusedOnlyByRival, Runs
<1>2. ASSUME NEW s \in Servers, Start(s) \/ ProcessStep(s) PROVE Inductive'
  BY <1>2, TypeStep, ObjectStep, OverlapStep, PathStep DEF Inductive
<1> QED
  BY <1>1, <1>2 DEF Next, ProcessStep

-----------------------------------------------------------------------------
(* The overlap, the owner of the path and what a handler has closed are     *)
(* tracked by every call of every server, for any set of servers and any    *)
(* number of faults and of signals, at any point of Initialize and Run.     *)
THEOREM InductiveInvariant == Spec => []Inductive
BY InitInductive, InductiveStep, PTL DEF Spec

(* The types hold throughout; a process that has ended holds no descriptor. *)
THEOREM TypeCorrect == Spec => []TypeOK
BY InductiveInvariant, PTL DEF Inductive

(* A server whose loop runs, that has run alone since it was started and    *)
(* was not signalled between Run's check and `running_ = true', is the one  *)
(* SOCKET_PATH leads to, whatever files killed predecessors left.           *)
THEOREM RunningIsReachableHolds == Spec => []RunningIsReachable
<1>1. Inductive => RunningIsReachable
  BY DEF Inductive, ObjectInv, PathInv, RunningIsReachable
<1> QED
  BY <1>1, InductiveInvariant, PTL

(* bind finds the path in use only for a server that has run next to        *)
(* another: what a killed server left is always out of the way.             *)
THEOREM RefusedOnlyByRivalHolds == Spec => []RefusedOnlyByRival
BY InductiveInvariant, PTL DEF Inductive
=============================================================================
