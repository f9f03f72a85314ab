------------------------------- MODULE Enclave --------------------------------
(***************************************************************************)
(* EnclaveImpl (enclave.cpp): the enclave as threads see it.  Parameters   *)
(* are checked outside the lock; the maps are read and written under       *)
(* mutex_, with the encryption of a value and the update of the map it     *)
(* goes to as separate steps of the lock's holder.  Every OpenSSL call may *)
(* fail.                                                                   *)
(***************************************************************************)
EXTENDS EnclaveApi, Crypto

CONSTANTS
  Threads,
  NoThread,
  MaxHandle,  \* bound: module ids handed out by one enclave
  MaxDraws    \* bound: keys and IVs drawn from RAND_bytes altogether

ASSUME EnclaveAssumption ==
  /\ NoThread \notin Threads
  /\ MaxHandle \in Nat
  /\ MaxDraws \in Nat
  /\ Handles = 1..MaxHandle
  /\ HEADER_SIZE + AES_IV_SIZE + AES_TAG_SIZE + MAX_DATA < WORD_MOD

VARIABLES
  life,             \* the caller's unique_ptr<Enclave>: see EnclaveStore
  initialized_,
  master_key_,
  next_module_id_,
  modules_,         \* id -> [encrypted_code, function_table]
  secure_storage_,  \* key -> serialized EncryptedData
  mutex_,           \* the thread that holds it, or NoThread
  pc,               \* pc[t]: where thread t is in its call
  call,             \* call[t]: the call's arguments
  ret,              \* ret[t]: its result
  sealed,           \* sealed[t]: the vector t has encrypted and not yet stored
  draws             \* values drawn from RAND_bytes so far, each one new

vars == <<life, initialized_, master_key_, next_module_id_, modules_,
          secure_storage_, mutex_, pc, call, ret, sealed, draws>>

objectVars == <<life, initialized_, master_key_>>
mapVars == <<next_module_id_, modules_, secure_storage_>>

NoVector == [size |-> 0]

Vector(d, key, iv) ==
  Serialize(Encrypt(key, iv, d, DataSize[d], NoAad))

Vectors == {Vector(d, key, iv) : d \in Data, key \in 1..MaxDraws,
                                 iv \in 1..MaxDraws}

PcValues == {"idle", "check", "lock", "locked", "commit", "open", "done"}

Modules == [encrypted_code : Vectors, function_table : {{TestFunction}}]

TypeOK ==
  /\ life \in {"none", "failed", "alive"}
  /\ initialized_ \in BOOLEAN
  /\ master_key_ \in 0..MaxDraws
  /\ next_module_id_ \in 1..MaxHandle + 1
  /\ DOMAIN modules_ \subseteq Handles
  /\ \A h \in DOMAIN modules_ : modules_[h] \in Modules
  /\ DOMAIN secure_storage_ \subseteq Names
  /\ \A k \in DOMAIN secure_storage_ : secure_storage_[k] \in Vectors
  /\ mutex_ \in Threads \cup {NoThread}
  /\ pc \in [Threads -> PcValues]
  /\ call \in [Threads -> Calls \cup {NoCall}]
  /\ ret \in [Threads -> Results]
  /\ sealed \in [Threads -> Vectors \cup {NoVector}]
  /\ draws \in 0..MaxDraws

Init ==
  /\ life = "none"
  /\ initialized_ = FALSE
  /\ master_key_ = NoKey
  /\ next_module_id_ = 1
  /\ modules_ = EmptyMap
  /\ secure_storage_ = EmptyMap
  /\ mutex_ = NoThread
  /\ pc = [t \in Threads |-> "idle"]
  /\ call = [t \in Threads |-> NoCall]
  /\ ret = [t \in Threads |-> NoResult]
  /\ sealed = [t \in Threads |-> NoVector]
  /\ draws = 0

-----------------------------------------------------------------------------
(* Lifetime.  Create constructs an EnclaveImpl and initializes it; when     *)
(* SecureKey::Generate gets no randomness the new object is dropped.        *)
CreateOk ==
  /\ life # "alive"
  /\ draws < MaxDraws
  /\ draws' = draws + 1
  /\ master_key_' = draws + 1
  /\ initialized_' = TRUE
  /\ next_module_id_' = 1
  /\ modules_' = EmptyMap
  /\ secure_storage_' = EmptyMap
  /\ life' = "alive"
  /\ UNCHANGED <<mutex_, pc, call, ret, sealed>>

CreateFail ==
  /\ life # "alive"
  /\ life' = "failed"
  /\ UNCHANGED <<initialized_, master_key_, mapVars, mutex_, pc, call, ret,
                 sealed, draws>>

(* ~EnclaveImpl, run by the owner when no call is in progress.              *)
Destroy ==
  /\ life = "alive"
  /\ \A t \in Threads : pc[t] = "idle"
  /\ life' = "none"
  /\ initialized_' = FALSE
  /\ master_key_' = NoKey
  /\ next_module_id_' = 1
  /\ modules_' = EmptyMap
  /\ secure_storage_' = EmptyMap
  /\ UNCHANGED <<mutex_, pc, call, ret, sealed, draws>>

-----------------------------------------------------------------------------
(* A call starts, is checked without the lock, and returns.                 *)
Goto(t, label) == pc' = [pc EXCEPT ![t] = label]

Call(t, c) ==
  /\ life = "alive"
  /\ pc[t] = "idle"
  /\ call' = [call EXCEPT ![t] = c]
  /\ Goto(t, "check")
  /\ UNCHANGED <<objectVars, mapVars, mutex_, ret, sealed, draws>>

(* Mutant of CheckStatus: the parameters are not looked at.                 *)
CheckInitOnly(c) ==
  IF initialized_ THEN "OK" ELSE "ERROR_CONTEXT_NOT_INITIALIZED"

(* The early returns in front of the lock; "OK" when none is taken.         *)
CheckStatus(c) ==
  CASE ~initialized_ -> "ERROR_CONTEXT_NOT_INITIALIZED"
    [] initialized_ /\ Rejected(c) -> "ERROR_INVALID_PARAMETER"
    [] OTHER -> "OK"

CheckRefuse(t) ==
  /\ pc[t] = "check"
  /\ CheckStatus(call[t]) # "OK"
  /\ ret' = [ret EXCEPT ![t] = Error(CheckStatus(call[t]))]
  /\ Goto(t, "done")
  /\ UNCHANGED <<objectVars, mapVars, mutex_, call, sealed, draws>>

CheckPass(t) ==
  /\ pc[t] = "check"
  /\ CheckStatus(call[t]) = "OK"
  /\ call[t].op # "attest"
  /\ Goto(t, "lock")
  /\ UNCHANGED <<objectVars, mapVars, mutex_, call, ret, sealed, draws>>

(* GetAttestation takes no lock: it reads nothing that changes.             *)
GetAttestation(t) ==
  /\ pc[t] = "check"
  /\ CheckStatus(call[t]) = "OK"
  /\ call[t].op = "attest"
  /\ ret' = [ret EXCEPT ![t] = OkAttested]
  /\ Goto(t, "done")
  /\ UNCHANGED <<objectVars, mapVars, mutex_, call, sealed, draws>>

Return(t) ==
  /\ pc[t] = "done"
  /\ call' = [call EXCEPT ![t] = NoCall]
  /\ ret' = [ret EXCEPT ![t] = NoResult]
  /\ Goto(t, "idle")
  /\ UNCHANGED <<objectVars, mapVars, mutex_, sealed, draws>>

-----------------------------------------------------------------------------
(* Under the lock.  The two conditions on Lock are the bounds of the model: *)
(* a call that would exceed one waits outside.                              *)
WithinBounds(t) ==
  call[t].op \in {"load", "store"} =>
    /\ draws < MaxDraws
    /\ call[t].op = "load" => next_module_id_ <= MaxHandle

(* Mutant of MutexFree: the lock_guard is missing.                          *)
NoGuard == TRUE

MutexFree == mutex_ = NoThread

Lock(t) ==
  /\ pc[t] = "lock"
  /\ MutexFree
  /\ WithinBounds(t)
  /\ mutex_' = t
  /\ Goto(t, "locked")
  /\ UNCHANGED <<objectVars, mapVars, call, ret, sealed, draws>>

(* Returning destroys the lock_guard.                                       *)
UnlockAndReturn(t, r) ==
  /\ mutex_' = NoThread
  /\ ret' = [ret EXCEPT ![t] = r]
  /\ Goto(t, "done")
  /\ UNCHANGED <<objectVars, call, draws>>

(* RAND_bytes for an IV: assumed to be a value not drawn before.            *)
NewIv == draws + 1

(* StoreData and LoadModule encrypt with a newly drawn IV ...               *)
Seal(t) ==
  /\ pc[t] = "locked"
  /\ call[t].op \in {"load", "store"}
  /\ draws' = NewIv
  /\ sealed' = [sealed EXCEPT ![t] =
                  Vector(call[t].data, master_key_, NewIv)]
  /\ Goto(t, "commit")
  /\ UNCHANGED <<objectVars, mapVars, mutex_, call, ret>>

SealFail(t) ==
  /\ pc[t] = "locked"
  /\ call[t].op \in {"load", "store"}
  /\ UnlockAndReturn(t, Error("ERROR_CRYPTO_FAILURE"))
  /\ UNCHANGED <<mapVars, sealed>>

(* ... and then put the vector into the map.                                *)
CommitStorage(t, m) ==
  /\ pc[t] = "commit"
  /\ call[t].op = "store"
  /\ secure_storage_' = m
  /\ sealed' = [sealed EXCEPT ![t] = NoVector]
  /\ UnlockAndReturn(t, OkVoid)
  /\ UNCHANGED <<next_module_id_, modules_>>

(* Mutants of StoreCommit: a moved-from vector is stored; insert, which     *)
(* keeps an entry that exists; the other entries are lost.                  *)
StoreMoved(t) ==
  CommitStorage(t, Put(secure_storage_, call[t].name, NoVector))
StoreInsert(t) ==
  CommitStorage(t, IF call[t].name \in DOMAIN secure_storage_
                   THEN secure_storage_
                   ELSE Put(secure_storage_, call[t].name, sealed[t]))
StoreAlone(t) ==
  CommitStorage(t, Put(EmptyMap, call[t].name, sealed[t]))

StoreCommit(t) ==
  CommitStorage(t, Put(secure_storage_, call[t].name, sealed[t]))

LoadCommit(t) ==
  /\ pc[t] = "commit"
  /\ call[t].op = "load"
  /\ next_module_id_' = next_module_id_ + 1
  /\ modules_' = Put(modules_, next_module_id_,
                     [encrypted_code |-> sealed[t],
                      function_table |-> {TestFunction}])
  /\ sealed' = [sealed EXCEPT ![t] = NoVector]
  /\ UnlockAndReturn(t, OkHandle(next_module_id_))
  /\ UNCHANGED secure_storage_

(* RetrieveData and InvokeFunction look their vector up ...                 *)
FindStatus(c) ==
  CASE c.op = "retrieve" /\ c.name \notin DOMAIN secure_storage_ ->
         "ERROR_FUNCTION_NOT_FOUND"
    [] c.op = "invoke" /\ c.handle \notin DOMAIN modules_ ->
         "ERROR_MODULE_LOAD_FAILED"
    [] /\ c.op = "invoke"
       /\ c.handle \in DOMAIN modules_
       /\ c.name \notin modules_[c.handle].function_table ->
         "ERROR_FUNCTION_NOT_FOUND"
    [] OTHER -> "OK"

FindMiss(t) ==
  /\ pc[t] = "locked"
  /\ call[t].op \in {"retrieve", "invoke"}
  /\ FindStatus(call[t]) # "OK"
  /\ UnlockAndReturn(t, Error(FindStatus(call[t])))
  /\ UNCHANGED <<mapVars, sealed>>

FindHit(t) ==
  /\ pc[t] = "locked"
  /\ call[t].op \in {"retrieve", "invoke"}
  /\ FindStatus(call[t]) = "OK"
  /\ Goto(t, "open")
  /\ UNCHANGED <<objectVars, mapVars, mutex_, call, ret, sealed, draws>>

(* ... and decrypt it through the iterator they still hold.                 *)
Found(c) ==
  IF c.op = "retrieve" THEN secure_storage_[c.name]
                       ELSE modules_[c.handle].encrypted_code

Open(t) ==
  /\ pc[t] = "open"
  /\ Opens(master_key_, Found(call[t]))
  /\ UnlockAndReturn(t, IF call[t].op = "retrieve"
                        THEN OkData(Plaintext(Found(call[t])))
                        ELSE OkInvoked(call[t].data))
  /\ UNCHANGED <<mapVars, sealed>>

(* Mutant of OpenFail: an error return that forgets the lock.               *)
OpenFailLocked(t) ==
  /\ pc[t] = "open"
  /\ ret' = [ret EXCEPT ![t] = Error("ERROR_CRYPTO_FAILURE")]
  /\ Goto(t, "done")
  /\ UNCHANGED <<objectVars, mapVars, mutex_, call, sealed, draws>>

(* A vector that does not parse or authenticate, or an OpenSSL failure.     *)
OpenFail(t) ==
  /\ pc[t] = "open"
  /\ UnlockAndReturn(t, Error("ERROR_CRYPTO_FAILURE"))
  /\ UNCHANGED <<mapVars, sealed>>

-----------------------------------------------------------------------------
Step(t) ==
  \/ CheckRefuse(t) \/ CheckPass(t) \/ GetAttestation(t) \/ Lock(t)
  \/ Seal(t) \/ SealFail(t) \/ StoreCommit(t) \/ LoadCommit(t)
  \/ FindMiss(t) \/ FindHit(t) \/ Open(t) \/ OpenFail(t) \/ Return(t)

Next ==
  \/ CreateOk \/ CreateFail \/ Destroy
  \/ \E t \in Threads : (\E c \in Calls : Call(t, c)) \/ Step(t)

Spec == Init /\ [][Next]_vars

(* The scheduler runs every thread that can run.  Nothing is assumed of the *)
(* order in which std::mutex admits waiting threads.                        *)
FairSpec == Spec /\ \A t \in Threads : WF_vars(Step(t))

-----------------------------------------------------------------------------
InMaps(t) == pc[t] \in {"locked", "commit", "open"}

(* No two threads are inside the std::maps at once: whoever is between      *)
(* taking and releasing the lock_guard of StoreData, LoadModule,            *)
(* RetrieveData or InvokeFunction is the holder of mutex_.                  *)
MutualExclusion == \A t \in Threads : InMaps(t) => mutex_ = t

(* The places a ciphertext can be in.                                       *)
Slots ==
  {<<"module", h>> : h \in DOMAIN modules_}
  \cup {<<"storage", k>> : k \in DOMAIN secure_storage_}
  \cup {<<"sealed", t>> : t \in {u \in Threads : pc[u] = "commit"}}

VectorAt(s) ==
  CASE s[1] = "module"  -> modules_[s[2]].encrypted_code
    [] s[1] = "storage" -> secure_storage_[s[2]]
    [] s[1] = "sealed"  -> sealed[s[2]]

(* Nothing an enclave accepted is lost: every vector it keeps, or is about  *)
(* to keep, parses and authenticates under the master key it has now, so    *)
(* RetrieveData and InvokeFunction fail on it only if OpenSSL itself fails. *)
DataRecoverable == \A s \in Slots : Opens(master_key_, VectorAt(s))

(* While an enclave lives, a handle keeps naming the module it was handed   *)
(* out for and a stored key stays stored, whatever the other threads do and *)
(* whichever of their calls fail.                                           *)
NothingVanishes ==
  [][life = "alive" /\ life' = "alive" =>
       /\ \A h \in DOMAIN modules_ :
            h \in DOMAIN modules_' /\ modules_'[h] = modules_[h]
       /\ DOMAIN secure_storage_ \subseteq DOMAIN secure_storage_']_vars

(* The parts of the inductive invariant behind these.  A vector is intact   *)
(* if it was made from admitted data with this key and one of the first n   *)
(* values drawn.                                                            *)
Intact(v, key, n) ==
  \E d \in Data, iv \in 1..n : ~BadData(d) /\ v = Vector(d, key, iv)

LifeInv ==
  /\ life = "alive" <=> initialized_
  /\ initialized_ => master_key_ # NoKey
  /\ life # "alive" => /\ modules_ = EmptyMap
                       /\ secure_storage_ = EmptyMap
                       /\ \A t \in Threads : pc[t] = "idle"

CallOk(t) ==
  /\ pc[t] # "idle" => call[t] \in Calls
  /\ pc[t] = "lock" \/ InMaps(t) =>
       call[t].op # "attest" /\ ~Rejected(call[t])
  /\ pc[t] = "locked" => WithinBounds(t)
  /\ pc[t] = "commit" => /\ call[t].op \in {"load", "store"}
                         /\ call[t].op = "load" => next_module_id_ <= MaxHandle
  /\ pc[t] = "open" => /\ call[t].op \in {"retrieve", "invoke"}
                       /\ FindStatus(call[t]) = "OK"

CallInv == \A t \in Threads : CallOk(t)

VectorInv ==
  /\ DOMAIN modules_ = 1..next_module_id_ - 1
  /\ \A h \in DOMAIN modules_ :
       Intact(modules_[h].encrypted_code, master_key_, draws)
  /\ \A k \in DOMAIN secure_storage_ :
       Intact(secure_storage_[k], master_key_, draws)
  /\ \A t \in Threads :
       pc[t] = "commit" =>
         \E iv \in 1..draws : sealed[t] = Vector(call[t].data, master_key_, iv)

(* EnclaveImpl's inductive invariant: the lock's holder is alone in the     *)
(* maps, what it has checked or looked up outside and inside the lock still *)
(* holds, and every vector was made of admitted data by this enclave's key. *)
Consistent == MutualExclusion /\ LifeInv /\ CallInv /\ VectorInv

(* Every path of a locked operation, the error returns included, gives the  *)
(* lock back.                                                               *)
LockReleased == \A t \in Threads : (mutex_ = t) ~> (mutex_ # t)

(* EnclaveImpl keeps the promise of EnclaveStore: its operations look       *)
(* atomic, a failed one changes nothing, a retrieve returns the last stored *)
(* data, and a handle is never handed out twice.                            *)
Phase(label) ==
  CASE label = "idle" -> "idle" [] label = "done" -> "done"
    [] OTHER -> "pending"

Store == INSTANCE EnclaveStore WITH
  kv <- [k \in DOMAIN secure_storage_ |-> Plaintext(secure_storage_[k])],
  mods <- [h \in DOMAIN modules_ |-> Plaintext(modules_[h].encrypted_code)],
  phase <- [t \in Threads |-> Phase(pc[t])]

ImplementsStore == Store!Spec
=============================================================================
