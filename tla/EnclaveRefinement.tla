--------------------------- MODULE EnclaveRefinement ---------------------------
(***************************************************************************)
(* EnclaveImpl implements EnclaveStore: the proof of ImplementsStore for   *)
(* any threads, names, data and sizes.  A thread's call takes effect where *)
(* it leaves the lock (or, without one, where it is refused or attested).  *)
(***************************************************************************)
EXTENDS EnclaveProofs

kvBar == [k \in DOMAIN secure_storage_ |-> Plaintext(secure_storage_[k])]
modsBar == [h \in DOMAIN modules_ |-> Plaintext(modules_[h].encrypted_code)]
phaseBar == [t \in Threads |-> Phase(pc[t])]

(* The vocabulary EnclaveStore is written in is the one Enclave uses.       *)
LEMMA SameApi ==
  /\ Store!Calls = Calls /\ Store!NoCall = NoCall
  /\ \A c : Store!Rejected(c) <=> Rejected(c)
  /\ \A s : Store!Error(s) = Error(s)
  /\ \A h : Store!OkHandle(h) = OkHandle(h)
  /\ \A d : Store!OkData(d) = OkData(d) /\ Store!OkInvoked(d) = OkInvoked(d)
  /\ Store!OkVoid = OkVoid /\ Store!OkAttested = OkAttested
  /\ Store!NoResult = NoResult /\ Store!EmptyMap = EmptyMap
  /\ \A m, k, v : Store!Put(m, k, v) = Put(m, k, v)
BY DEF Store!Calls, Calls, Store!NoCall, NoCall, Store!Rejected, Rejected,
   Store!BadData, BadData, Store!BadName, BadName, Store!Error, Error,
   Store!OkHandle, OkHandle, Store!OkData, OkData, Store!OkInvoked, OkInvoked,
   Store!OkVoid, OkVoid, Store!OkAttested, OkAttested, Store!NoResult,
   NoResult, Store!EmptyMap, EmptyMap, Store!Put, Put,
   Store!LoadCalls, LoadCalls, Store!StoreCalls, StoreCalls,
   Store!RetrieveCalls, RetrieveCalls, Store!InvokeCalls, InvokeCalls,
   Store!AttestCalls, AttestCalls

(* A new enclave is empty, in both views.                                   *)
LEMMA EmptyBar ==
  /\ secure_storage_ = EmptyMap => kvBar = EmptyMap
  /\ modules_ = EmptyMap => modsBar = EmptyMap
BY DEF kvBar, modsBar, EmptyMap

LEMMA InitRefines == Init => Store!Init
<1> SUFFICES ASSUME Init PROVE Store!Init
  OBVIOUS
<1>1. kvBar = EmptyMap /\ modsBar = EmptyMap
  BY EmptyBar DEF Init
<1>2. phaseBar = [t \in Threads |-> "idle"]
  BY DEF Init, phaseBar, Phase
<1> QED
  BY <1>1, <1>2, SameApi DEF Init, Store!Init, kvBar, modsBar, phaseBar

-----------------------------------------------------------------------------
(* Where a thread goes determines the phase of its call.                    *)
LEMMA PhaseStep ==
  ASSUME TypeOK, NEW t \in Threads, NEW l \in PcValues, Goto(t, l)
  PROVE  phaseBar' = [phaseBar EXCEPT ![t] = Phase(l)]
BY DEF TypeOK, Goto, phaseBar

LEMMA PhaseFacts ==
  /\ Phase("idle") = "idle" /\ Phase("done") = "done"
  /\ \A l \in PcValues \ {"idle", "done"} : Phase(l) = "pending"
BY DEF Phase, PcValues

(* Steps inside a call that the caller cannot see.                          *)
LEMMA HiddenStep ==
  ASSUME TypeOK, NEW t \in Threads,
         CheckPass(t) \/ Lock(t) \/ Seal(t) \/ FindHit(t)
  PROVE  UNCHANGED Store!storeVars
<1>1. /\ UNCHANGED <<life, mapVars, call, ret>>
      /\ pc[t] \in PcValues \ {"idle", "done"}
      /\ \E l \in PcValues \ {"idle", "done"} : Goto(t, l)
  BY DEF CheckPass, Lock, MutexFree, Seal, NewIv, FindHit, objectVars, PcValues
<1>2. phaseBar' = phaseBar
  BY <1>1 DEF TypeOK, Goto, phaseBar, Phase, PcValues
<1>3. kvBar' = kvBar /\ modsBar' = modsBar
  BY <1>1 DEF kvBar, modsBar, mapVars
<1> QED
  BY <1>1, <1>2, <1>3 DEF Store!storeVars, kvBar, modsBar, phaseBar

(* The end of a call: its result is set, its phase becomes "done".          *)
LEMMA FinishStep ==
  ASSUME TypeOK, NEW t \in Threads, NEW r,
         Goto(t, "done"), ret' = [ret EXCEPT ![t] = r], UNCHANGED <<life, call>>
  PROVE  Store!Finish(t, r)
<1>1. phaseBar' = [phaseBar EXCEPT ![t] = "done"]
  BY PhaseStep, PhaseFacts DEF PcValues
<1> QED
  BY <1>1 DEF Store!Finish, phaseBar

LEMMA PendingPhase ==
  ASSUME TypeOK, NEW t \in Threads, pc[t] \notin {"idle", "done"}
  PROVE  phaseBar[t] = "pending"
BY PhaseFacts DEF TypeOK, phaseBar

LEMMA SameMaps ==
  ASSUME UNCHANGED mapVars PROVE UNCHANGED <<kvBar, modsBar>>
BY DEF mapVars, kvBar, modsBar

(* A call that ends in an error changes nothing the caller can see.         *)
LEMMA CryptoFailStep ==
  ASSUME Inductive, NEW t \in Threads, SealFail(t) \/ OpenFail(t)
  PROVE  Store!DoCryptoFail(t)
<1>1. /\ Goto(t, "done") /\ UNCHANGED <<life, call, mapVars>>
      /\ ret' = [ret EXCEPT ![t] = Error("ERROR_CRYPTO_FAILURE")]
      /\ InMaps(t)
  BY DEF SealFail, OpenFail, UnlockAndReturn, objectVars, InMaps
<1>2. Store!Finish(t, Error("ERROR_CRYPTO_FAILURE"))
  BY <1>1, FinishStep DEF Inductive
<1>3. phaseBar[t] = "pending"
  BY <1>1, PendingPhase DEF InMaps, Inductive
<1>4. call[t].op # "attest" /\ ~Store!Rejected(call[t])
  BY <1>1, SameApi DEF Inductive, Consistent, CallInv, CallOk
<1>5. UNCHANGED <<kvBar, modsBar>>
  BY <1>1, SameMaps
<1> QED
  BY <1>2, <1>3, <1>4, <1>5, SameApi
     DEF Store!DoCryptoFail, phaseBar, kvBar, modsBar

LEMMA CheckRefuseStep ==
  ASSUME Inductive, NEW t \in Threads, CheckRefuse(t)
  PROVE  Store!DoRefuse(t)
<1>1. initialized_
  BY DEF CheckRefuse, Inductive, Consistent, LifeInv
<1>2. /\ Rejected(call[t])
      /\ CheckStatus(call[t]) = "ERROR_INVALID_PARAMETER"
  BY <1>1 DEF CheckRefuse, CheckStatus
<1>3. Store!Finish(t, Error("ERROR_INVALID_PARAMETER"))
  BY <1>2, FinishStep DEF CheckRefuse, objectVars, Inductive
<1>4. phaseBar[t] = "pending"
  BY PendingPhase DEF CheckRefuse, Inductive
<1>5. UNCHANGED <<kvBar, modsBar>>
  BY SameMaps DEF CheckRefuse
<1> QED
  BY <1>2, <1>3, <1>4, <1>5, SameApi
     DEF Store!DoRefuse, phaseBar, kvBar, modsBar

LEMMA AttestStep ==
  ASSUME Inductive, NEW t \in Threads, GetAttestation(t)
  PROVE  Store!DoAttest(t)
<1>1. Store!Finish(t, OkAttested)
  BY FinishStep DEF GetAttestation, objectVars, Inductive
<1>2. phaseBar[t] = "pending"
  BY PendingPhase DEF GetAttestation, Inductive
<1>3. UNCHANGED <<kvBar, modsBar>>
  BY SameMaps DEF GetAttestation
<1> QED
  BY <1>1, <1>2, <1>3, SameApi
     DEF GetAttestation, Store!DoAttest, phaseBar, kvBar, modsBar

(* A commit puts exactly the caller's data into the abstract map.           *)
LEMMA StoreStep ==
  ASSUME Inductive, NEW t \in Threads, StoreCommit(t)
  PROVE  Store!DoStore(t)
<1>1. /\ InMaps(t) /\ pc[t] = "commit" /\ UNCHANGED <<life, call>>
      /\ ret' = [ret EXCEPT ![t] = OkVoid] /\ Goto(t, "done")
      /\ UNCHANGED modules_
  BY DEF StoreCommit, CommitStorage, UnlockAndReturn, objectVars, InMaps
<1>2. Store!Finish(t, OkVoid)
  BY <1>1, FinishStep DEF Inductive
<1>3. phaseBar[t] = "pending" /\ ~Store!Rejected(call[t])
  BY <1>1, PendingPhase, SameApi DEF Inductive, Consistent, CallInv, CallOk
<1>4. Plaintext(sealed[t]) = call[t].data
  BY <1>1, VectorFacts DEF Inductive, Consistent, VectorInv
<1>5. kvBar' = Put(kvBar, call[t].name, call[t].data)
  BY <1>4 DEF StoreCommit, CommitStorage, kvBar, Put
<1>6. modsBar' = modsBar
  BY <1>1 DEF modsBar
<1> QED
  BY <1>2, <1>3, <1>5, <1>6, SameApi
     DEF StoreCommit, CommitStorage, Store!DoStore, phaseBar, kvBar, modsBar

LEMMA LoadStep ==
  ASSUME Inductive, NEW t \in Threads, LoadCommit(t)
  PROVE  Store!DoLoad(t)
<1>1. /\ InMaps(t) /\ pc[t] = "commit" /\ UNCHANGED <<life, call>>
      /\ ret' = [ret EXCEPT ![t] = OkHandle(next_module_id_)]
      /\ Goto(t, "done") /\ UNCHANGED secure_storage_
  BY DEF LoadCommit, UnlockAndReturn, objectVars, InMaps
<1>2. Store!Finish(t, OkHandle(next_module_id_))
  BY <1>1, FinishStep DEF Inductive
<1>3. phaseBar[t] = "pending" /\ ~Store!Rejected(call[t])
  BY <1>1, PendingPhase, SameApi DEF Inductive, Consistent, CallInv, CallOk
<1>4. Plaintext(sealed[t]) = call[t].data
  BY <1>1, VectorFacts DEF Inductive, Consistent, VectorInv
<1>5. modsBar' = Put(modsBar, next_module_id_, call[t].data)
  BY <1>4 DEF LoadCommit, modsBar, Put
<1>6. next_module_id_ \in Handles \ DOMAIN modsBar
  <2>1. call[t].op = "load" /\ next_module_id_ <= MaxHandle
    BY <1>1 DEF LoadCommit, Inductive, Consistent, CallInv, CallOk
  <2>2. next_module_id_ \notin DOMAIN modules_
    BY EnclaveAssumption DEF Inductive, Consistent, VectorInv, TypeOK
  <2> QED
    BY <2>1, <2>2, EnclaveAssumption DEF modsBar, Inductive, TypeOK
<1>7. kvBar' = kvBar
  BY <1>1 DEF kvBar
<1> QED
  BY <1>2, <1>3, <1>5, <1>6, <1>7, SameApi
     DEF LoadCommit, Store!DoLoad, phaseBar, kvBar, modsBar

(* A lookup that misses, misses in the abstract maps too.                   *)
LEMMA MissStep ==
  ASSUME Inductive, NEW t \in Threads, FindMiss(t)
  PROVE  Store!DoRetrieve(t) \/ Store!DoInvoke(t)
<1>1. /\ InMaps(t) /\ Goto(t, "done") /\ UNCHANGED <<life, call, mapVars>>
      /\ ret' = [ret EXCEPT ![t] = Error(FindStatus(call[t]))]
  BY DEF FindMiss, UnlockAndReturn, objectVars, InMaps
<1>2. Store!Finish(t, Error(FindStatus(call[t])))
  BY <1>1, FinishStep DEF Inductive
<1>3. phaseBar[t] = "pending" /\ ~Store!Rejected(call[t])
  BY <1>1, PendingPhase, SameApi
     DEF InMaps, Inductive, Consistent, CallInv, CallOk
<1>4. /\ UNCHANGED <<kvBar, modsBar>>
      /\ DOMAIN kvBar = DOMAIN secure_storage_
      /\ DOMAIN modsBar = DOMAIN modules_
  BY <1>1, SameMaps DEF kvBar, modsBar
<1>5. CASE call[t].op = "retrieve"
  <2>1. /\ call[t].name \notin DOMAIN kvBar
        /\ FindStatus(call[t]) = "ERROR_FUNCTION_NOT_FOUND"
    BY <1>4, <1>5 DEF FindMiss, FindStatus
  <2> QED
    BY <1>2, <1>3, <1>4, <1>5, <2>1, SameApi
       DEF Store!DoRetrieve, phaseBar, kvBar, modsBar
<1>6. CASE call[t].op = "invoke"
  <2>1. \/ /\ call[t].handle \notin DOMAIN modsBar
           /\ FindStatus(call[t]) = "ERROR_MODULE_LOAD_FAILED"
        \/ /\ call[t].handle \in DOMAIN modsBar
           /\ call[t].name # TestFunction
           /\ FindStatus(call[t]) = "ERROR_FUNCTION_NOT_FOUND"
    BY <1>4, <1>6 DEF FindMiss, FindStatus, Inductive, TypeOK, Modules
  <2> QED
    BY <1>2, <1>3, <1>4, <1>6, <2>1, SameApi
       DEF Store!DoInvoke, phaseBar, kvBar, modsBar
<1> QED
  BY <1>5, <1>6 DEF FindMiss

(* A vector that opens yields what the abstract map holds.                  *)
LEMMA OpenStep ==
  ASSUME Inductive, NEW t \in Threads, Open(t)
  PROVE  Store!DoRetrieve(t) \/ Store!DoInvoke(t)
<1>1. InMaps(t) /\ Goto(t, "done") /\ UNCHANGED <<life, call, mapVars>>
  BY DEF Open, UnlockAndReturn, objectVars, InMaps
<1>2. phaseBar[t] = "pending" /\ ~Store!Rejected(call[t])
  BY <1>1, PendingPhase, SameApi
     DEF InMaps, Inductive, Consistent, CallInv, CallOk
<1>3. UNCHANGED <<kvBar, modsBar>>
  BY <1>1, SameMaps
<1>4. /\ call[t].op \in {"retrieve", "invoke"}
      /\ FindStatus(call[t]) = "OK"
  BY DEF Open, Inductive, Consistent, CallInv, CallOk
<1>5. CASE call[t].op = "retrieve"
  <2>1. call[t].name \in DOMAIN secure_storage_
    BY <1>4, <1>5, FindStatusFact
  <2>2. kvBar[call[t].name] = Plaintext(Found(call[t]))
        /\ call[t].name \in DOMAIN kvBar
    BY <1>5, <2>1 DEF kvBar, Found
  <2>3. Store!Finish(t, OkData(Plaintext(Found(call[t]))))
    BY <1>1, <1>5, FinishStep DEF Open, UnlockAndReturn, Inductive
  <2> QED
    BY <1>2, <1>3, <1>5, <2>2, <2>3, SameApi
       DEF Store!DoRetrieve, phaseBar, kvBar, modsBar
<1>6. CASE call[t].op = "invoke"
  <2>1. call[t].handle \in DOMAIN modsBar /\ call[t].name = TestFunction
    BY <1>4, <1>6 DEF FindStatus, modsBar, Inductive, TypeOK, Modules
  <2>2. Store!Finish(t, OkInvoked(call[t].data))
    BY <1>1, <1>6, FinishStep DEF Open, UnlockAndReturn, Inductive
  <2> QED
    BY <1>2, <1>3, <1>6, <2>1, <2>2, SameApi
       DEF Store!DoInvoke, phaseBar, kvBar, modsBar
<1> QED
  BY <1>4, <1>5, <1>6

LEMMA CallRefines ==
  ASSUME Inductive, NEW t \in Threads, NEW c \in Calls, Call(t, c)
  PROVE  Store!Begin(t, c)
<1>1. phaseBar' = [phaseBar EXCEPT ![t] = "pending"]
  BY PhaseStep, PhaseFacts DEF Call, PcValues, Inductive
<1>2. phaseBar[t] = "idle"
  BY PhaseFacts DEF Call, phaseBar
<1>3. UNCHANGED <<kvBar, modsBar>>
  BY SameMaps DEF Call
<1> QED
  BY <1>1, <1>2, <1>3 DEF Call, Store!Begin, objectVars, phaseBar, kvBar,
     modsBar

LEMMA ReturnRefines ==
  ASSUME Inductive, NEW t \in Threads, Return(t)
  PROVE  Store!End(t)
<1>1. phaseBar' = [phaseBar EXCEPT ![t] = "idle"]
  BY PhaseStep, PhaseFacts DEF Return, PcValues, Inductive
<1>2. phaseBar[t] = "done"
  BY PhaseFacts DEF Return, phaseBar
<1>3. UNCHANGED <<kvBar, modsBar>>
  BY SameMaps DEF Return
<1> QED
  BY <1>1, <1>2, <1>3, SameApi
     DEF Return, Store!End, objectVars, phaseBar, kvBar, modsBar

LEMMA LifeRefines ==
  ASSUME Inductive, CreateOk \/ CreateFail \/ Destroy
  PROVE  Store!Create \/ Store!Destroy
<1>1. phaseBar' = phaseBar /\ UNCHANGED <<call, ret>>
  BY DEF CreateOk, CreateFail, Destroy, phaseBar
<1>2. kvBar' = EmptyMap /\ modsBar' = EmptyMap
  <2>1. secure_storage_' = EmptyMap /\ modules_' = EmptyMap
    BY DEF CreateOk, CreateFail, Destroy, mapVars, Inductive, Consistent,
           LifeInv
  <2> QED
    BY <2>1 DEF kvBar, modsBar, EmptyMap
<1>3. CASE CreateOk \/ CreateFail
  BY <1>1, <1>2, <1>3, SameApi
     DEF CreateOk, CreateFail, Store!Create, phaseBar, kvBar, modsBar
<1>4. CASE Destroy
  <2>1. \A t \in Threads : phaseBar[t] = "idle"
    BY <1>4, PhaseFacts DEF Destroy, phaseBar
  <2> QED
    BY <1>1, <1>2, <1>4, <2>1, SameApi
       DEF Destroy, Store!Destroy, Store!Reset, phaseBar, kvBar, modsBar
<1> QED
  BY <1>3, <1>4

-----------------------------------------------------------------------------
(* Every behaviour of EnclaveImpl, with any number of threads, is one of    *)
(* the atomic store: calls look instantaneous, failed ones have no effect,  *)
(* a retrieve returns what was stored last, handles are never reused.       *)
THEOREM Refinement == Spec => ImplementsStore
<1>1. ASSUME Inductive, Next PROVE [Store!Next]_(Store!storeVars)
  <2>1. CASE CreateOk \/ CreateFail \/ Destroy
    BY <1>1, <2>1, LifeRefines DEF Store!Next
  <2>2. ASSUME NEW t \in Threads, NEW c \in Calls, Call(t, c)
        PROVE  Store!Next
    BY <1>1, <2>2, CallRefines, SameApi DEF Store!Next
  <2>3. ASSUME NEW t \in Threads, Step(t)
        PROVE  [Store!Next]_(Store!storeVars)
    <3>1. CASE CheckPass(t) \/ Lock(t) \/ Seal(t) \/ FindHit(t)
      BY <1>1, <3>1, HiddenStep DEF Inductive
    <3>2. CASE Return(t)
      BY <1>1, <3>2, ReturnRefines DEF Store!Next
    <3>3. ASSUME ~(CheckPass(t) \/ Lock(t) \/ Seal(t) \/ FindHit(t)), ~Return(t)
          PROVE  Store!Do(t)
      BY <1>1, <2>3, <3>3, CryptoFailStep, CheckRefuseStep, AttestStep,
         StoreStep, LoadStep, MissStep, OpenStep DEF Step, Store!Do
    <3> QED
      BY <3>1, <3>2, <3>3 DEF Store!Next
  <2> QED
    BY <1>1, <2>1, <2>2, <2>3 DEF Next
<1>2. UNCHANGED vars => UNCHANGED Store!storeVars
  BY DEF vars, Store!storeVars
<1>3. Inductive /\ [Next]_vars => [Store!Next]_(Store!storeVars)
  BY <1>1, <1>2
<1> QED
  BY <1>3, InitRefines, InductiveInvariant, PTL
     DEF Spec, ImplementsStore, Store!Spec
=============================================================================
