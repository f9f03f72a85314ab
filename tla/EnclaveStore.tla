----------------------------- MODULE EnclaveStore -----------------------------
(***************************************************************************)
(* What an enclave promises its callers, with no key, no ciphertext and no *)
(* lock: each call takes effect at one instant between its start and its   *)
(* return, completely and with status OK, or not at all and with an error. *)
(***************************************************************************)
EXTENDS EnclaveApi

CONSTANT Threads

VARIABLES
  life,   \* "none", "failed" (Create returned an error) or "alive"
  kv,     \* storage key -> data last stored under it
  mods,   \* module handle -> code loaded under it
  phase,  \* phase[t]: is thread t outside, inside, or about to leave a call
  call,   \* call[t]: the call thread t is making
  ret     \* ret[t]: its result, once it has one

storeVars == <<life, kv, mods, phase, call, ret>>

TypeOK ==
  /\ life \in {"none", "failed", "alive"}
  /\ DOMAIN kv \subseteq Names /\ \A k \in DOMAIN kv : kv[k] \in Data
  /\ DOMAIN mods \subseteq Handles /\ \A h \in DOMAIN mods : mods[h] \in Data
  /\ phase \in [Threads -> {"idle", "pending", "done"}]
  /\ call \in [Threads -> Calls \cup {NoCall}]
  /\ ret \in [Threads -> Results]

Init ==
  /\ life = "none"
  /\ kv = EmptyMap
  /\ mods = EmptyMap
  /\ phase = [t \in Threads |-> "idle"]
  /\ call = [t \in Threads |-> NoCall]
  /\ ret = [t \in Threads |-> NoResult]

-----------------------------------------------------------------------------
(* Enclave::Create: an empty enclave or an error.                           *)
Create ==
  /\ life # "alive"
  /\ life' \in {"alive", "failed"}
  /\ kv' = EmptyMap
  /\ mods' = EmptyMap
  /\ UNCHANGED <<phase, call, ret>>

(* What the destructor does to the contents.                                *)
Reset ==
  /\ life' = "none"
  /\ kv' = EmptyMap
  /\ mods' = EmptyMap

(* The owner destroys the enclave only when no call is in progress.         *)
Destroy ==
  /\ life = "alive"
  /\ \A t \in Threads : phase[t] = "idle"
  /\ Reset
  /\ UNCHANGED <<phase, call, ret>>

Begin(t, c) ==
  /\ life = "alive"
  /\ phase[t] = "idle"
  /\ phase' = [phase EXCEPT ![t] = "pending"]
  /\ call' = [call EXCEPT ![t] = c]
  /\ UNCHANGED <<life, kv, mods, ret>>

Finish(t, r) ==
  /\ phase' = [phase EXCEPT ![t] = "done"]
  /\ ret' = [ret EXCEPT ![t] = r]
  /\ UNCHANGED <<life, call>>

End(t) ==
  /\ phase[t] = "done"
  /\ phase' = [phase EXCEPT ![t] = "idle"]
  /\ call' = [call EXCEPT ![t] = NoCall]
  /\ ret' = [ret EXCEPT ![t] = NoResult]
  /\ UNCHANGED <<life, kv, mods>>

(* A call with an empty or oversized parameter has no effect.               *)
DoRefuse(t) ==
  /\ phase[t] = "pending"
  /\ Rejected(call[t])
  /\ Finish(t, Error("ERROR_INVALID_PARAMETER"))
  /\ UNCHANGED <<kv, mods>>

(* An admitted call whose cryptography fails has no effect either: what was *)
(* stored before is still stored.                                           *)
DoCryptoFail(t) ==
  /\ phase[t] = "pending"
  /\ call[t].op # "attest"
  /\ ~Rejected(call[t])
  /\ Finish(t, Error("ERROR_CRYPTO_FAILURE"))
  /\ UNCHANGED <<kv, mods>>

DoStore(t) ==
  /\ phase[t] = "pending"
  /\ call[t].op = "store"
  /\ ~Rejected(call[t])
  /\ Finish(t, OkVoid)
  /\ kv' = Put(kv, call[t].name, call[t].data)
  /\ UNCHANGED mods

DoRetrieve(t) ==
  /\ phase[t] = "pending"
  /\ call[t].op = "retrieve"
  /\ ~Rejected(call[t])
  /\ IF call[t].name \in DOMAIN kv
     THEN Finish(t, OkData(kv[call[t].name]))
     ELSE Finish(t, Error("ERROR_FUNCTION_NOT_FOUND"))
  /\ UNCHANGED <<kv, mods>>

(* A load returns a handle no loaded module has.                            *)
DoLoad(t) ==
  /\ phase[t] = "pending"
  /\ call[t].op = "load"
  /\ ~Rejected(call[t])
  /\ \E h \in Handles \ DOMAIN mods :
       /\ Finish(t, OkHandle(h))
       /\ mods' = Put(mods, h, call[t].data)
  /\ UNCHANGED kv

DoInvoke(t) ==
  /\ phase[t] = "pending"
  /\ call[t].op = "invoke"
  /\ ~Rejected(call[t])
  /\ Finish(t, CASE call[t].handle \notin DOMAIN mods ->
                      Error("ERROR_MODULE_LOAD_FAILED")
                 [] /\ call[t].handle \in DOMAIN mods
                    /\ call[t].name # TestFunction ->
                      Error("ERROR_FUNCTION_NOT_FOUND")
                 [] OTHER -> OkInvoked(call[t].data))
  /\ UNCHANGED <<kv, mods>>

DoAttest(t) ==
  /\ phase[t] = "pending"
  /\ call[t].op = "attest"
  /\ Finish(t, OkAttested)
  /\ UNCHANGED <<kv, mods>>

Do(t) ==
  \/ DoRefuse(t) \/ DoCryptoFail(t) \/ DoStore(t) \/ DoRetrieve(t)
  \/ DoLoad(t) \/ DoInvoke(t) \/ DoAttest(t)

Next ==
  \/ Create
  \/ Destroy
  \/ \E t \in Threads : \/ \E c \in Calls : Begin(t, c)
                        \/ Do(t)
                        \/ End(t)

Spec == Init /\ [][Next]_storeVars
=============================================================================
