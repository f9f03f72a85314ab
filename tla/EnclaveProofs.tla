---------------------------- MODULE EnclaveProofs -----------------------------
(***************************************************************************)
(* What holds of EnclaveImpl for any threads, names, data, sizes and       *)
(* bounds: the invariants of module Enclave, each from one inductive       *)
(* invariant.                                                              *)
(***************************************************************************)
EXTENDS Enclave, TLAPS

-----------------------------------------------------------------------------
(* Lemmas about the operators.                                              *)

(* A uint32_t that does not overflow is the number it stands for.           *)
LEMMA ModSmall ==
  ASSUME NEW a \in Nat, NEW w \in Nat \ {0}, a < w
  PROVE  a % w = a
BY SMT

LEMMA EmptyMapFact == DOMAIN EmptyMap = {}
BY DEF EmptyMap

(* The parts of a serialized vector are the ones it was made of.            *)
LEMMA VectorFacts ==
  ASSUME NEW d, NEW key, NEW iv
  PROVE  /\ Vector(d, key, iv).content.iv = iv
         /\ Plaintext(Vector(d, key, iv)) = d
         /\ Authentic(key, Vector(d, key, iv).content, NoAad)
BY DEF Vector, Serialize, Encrypt, Plaintext, Authentic, Tag, Ciphertext

(* Deserialize accepts what Serialize produced and Decrypt opens it, for    *)
(* every vector of a size the enclave admits.                               *)
LEMMA VectorOpens ==
  ASSUME NEW d \in Data, ~BadData(d), NEW key, NEW iv
  PROVE  Opens(key, Vector(d, key, iv))
<1>1. Authentic(key, Vector(d, key, iv).content, NoAad)
  BY VectorFacts
<1> DEFINE v == Vector(d, key, iv)
<1>2. /\ v.iv_size = AES_IV_SIZE % WORD_MOD
      /\ v.tag_size = AES_TAG_SIZE % WORD_MOD
      /\ v.ct_size = DataSize[d] % WORD_MOD
      /\ v.size = HEADER_SIZE + AES_IV_SIZE + AES_TAG_SIZE + DataSize[d]
  BY DEF Vector, Serialize, Encrypt, Ciphertext
<1>3. /\ DataSize[d] \in Nat /\ DataSize[d] <= MAX_DATA
      /\ AES_IV_SIZE \in Nat /\ AES_TAG_SIZE \in Nat /\ MAX_DATA \in Nat
      /\ WORD_MOD \in Nat \ {0} /\ HEADER_SIZE = 12
      /\ HEADER_SIZE + AES_IV_SIZE + AES_TAG_SIZE + MAX_DATA < WORD_MOD
  BY ApiAssumption, CryptoAssumption, EnclaveAssumption DEF BadData,
     HEADER_SIZE
<1> HIDE DEF v
<1>4. /\ AES_IV_SIZE < WORD_MOD /\ AES_TAG_SIZE < WORD_MOD
      /\ DataSize[d] < WORD_MOD
      /\ HEADER_SIZE + AES_IV_SIZE + AES_TAG_SIZE + DataSize[d] < WORD_MOD
      /\ HEADER_SIZE + AES_IV_SIZE + AES_TAG_SIZE + DataSize[d] \in Nat
  BY <1>3
<1>5. /\ AES_IV_SIZE % WORD_MOD = AES_IV_SIZE
      /\ AES_TAG_SIZE % WORD_MOD = AES_TAG_SIZE
      /\ DataSize[d] % WORD_MOD = DataSize[d]
      /\ (HEADER_SIZE + AES_IV_SIZE + AES_TAG_SIZE + DataSize[d]) % WORD_MOD
           = HEADER_SIZE + AES_IV_SIZE + AES_TAG_SIZE + DataSize[d]
  BY <1>3, <1>4, ModSmall
<1>6. Deserializes(v)
  BY <1>2, <1>3, <1>5 DEF Deserializes
<1> QED
  BY <1>1, <1>6 DEF Opens, v

-----------------------------------------------------------------------------
(* The fields a call has, by its operation.                                 *)
LEMMA CallFacts ==
  ASSUME NEW c \in Calls
  PROVE  /\ c.op \in {"load", "store", "retrieve", "invoke", "attest"}
         /\ c.op \in {"load", "store", "invoke"} => c.data \in Data
         /\ c.op \in {"store", "retrieve", "invoke"} => c.name \in Names
         /\ c.op \in {"load", "store"} /\ ~Rejected(c) => ~BadData(c.data)
BY DEF Calls, LoadCalls, StoreCalls, RetrieveCalls, InvokeCalls, AttestCalls,
       Rejected

LEMMA ResultFacts ==
  /\ {NoResult, OkVoid, OkAttested} \subseteq Results
  /\ \A s \in ErrorStatus : Error(s) \in Results
  /\ \A h \in Handles : OkHandle(h) \in Results
  /\ \A d \in Data : OkData(d) \in Results
  /\ \A d \in Data : OkInvoked(d) \in Results
BY DEF Results

LEMMA VectorsFact ==
  ASSUME NEW d \in Data, NEW key \in 1..MaxDraws, NEW iv \in 1..MaxDraws
  PROVE  Vector(d, key, iv) \in Vectors
BY DEF Vectors

LEMMA PlaintextFact ==
  ASSUME NEW v \in Vectors PROVE Plaintext(v) \in Data
BY VectorFacts DEF Vectors

LEMMA CheckStatusFact ==
  ASSUME NEW c
  PROVE  /\ CheckStatus(c) \in ErrorStatus \cup {"OK"}
         /\ CheckStatus(c) = "OK" => initialized_ /\ ~Rejected(c)
BY DEF CheckStatus, ErrorStatus

LEMMA FindStatusFact ==
  ASSUME NEW c
  PROVE  /\ FindStatus(c) \in ErrorStatus \cup {"OK"}
         /\ FindStatus(c) = "OK" =>
              /\ c.op = "retrieve" => c.name \in DOMAIN secure_storage_
              /\ c.op = "invoke" => c.handle \in DOMAIN modules_
BY DEF FindStatus, ErrorStatus

-----------------------------------------------------------------------------
(* Types are preserved.  The bounds on ids and draws come from WithinBounds, *)
(* which the lock keeps true from Lock to Seal and LoadCommit.              *)
Inductive == TypeOK /\ Consistent

(* A thread about to commit has a well-formed vector in its hands.          *)
LEMMA SealedFact ==
  ASSUME Inductive, NEW t \in Threads, pc[t] = "commit"
  PROVE  sealed[t] \in Vectors
<1>1. call[t].data \in Data
  BY CallFacts DEF Inductive, Consistent, CallInv, CallOk
<1>2. master_key_ \in 1..MaxDraws
  BY EnclaveAssumption DEF Inductive, Consistent, LifeInv, TypeOK, NoKey
<1>3. PICK iv \in 1..draws : sealed[t] = Vector(call[t].data, master_key_, iv)
  BY DEF Inductive, Consistent, VectorInv
<1>4. iv \in 1..MaxDraws
  BY <1>3, EnclaveAssumption DEF Inductive, TypeOK
<1> QED
  BY <1>1, <1>2, <1>3, <1>4, VectorsFact

LEMMA TypeStep == Inductive /\ [Next]_vars => TypeOK'
<1> SUFFICES ASSUME TypeOK, Consistent, [Next]_vars PROVE TypeOK'
  BY DEF Inductive
<1> USE DEF TypeOK, PcValues, Goto
<1>1. ASSUME CreateOk PROVE TypeOK'
  BY <1>1, EmptyMapFact, EnclaveAssumption DEF CreateOk
<1>2. ASSUME CreateFail PROVE TypeOK'
  BY <1>2 DEF CreateFail, mapVars
<1>3. ASSUME Destroy PROVE TypeOK'
  <2>1. master_key_' \in 0..MaxDraws /\ next_module_id_' \in 1..MaxHandle + 1
    BY <1>3, EnclaveAssumption DEF Destroy, NoKey
  <2>2. DOMAIN modules_' = {} /\ DOMAIN secure_storage_' = {}
    BY <1>3, EmptyMapFact DEF Destroy
  <2> QED
    BY <1>3, <2>1, <2>2 DEF Destroy
<1>4. ASSUME NEW t \in Threads, NEW c \in Calls, Call(t, c) PROVE TypeOK'
  BY <1>4 DEF Call, objectVars, mapVars
<1>5. ASSUME NEW t \in Threads, CheckRefuse(t) PROVE TypeOK'
  BY <1>5, ResultFacts, CheckStatusFact DEF CheckRefuse, objectVars, mapVars
<1>6. ASSUME NEW t \in Threads, CheckPass(t) PROVE TypeOK'
  BY <1>6 DEF CheckPass, objectVars, mapVars
<1>7. ASSUME NEW t \in Threads, GetAttestation(t) PROVE TypeOK'
  BY <1>7, ResultFacts DEF GetAttestation, objectVars, mapVars
<1>8. ASSUME NEW t \in Threads, Lock(t) PROVE TypeOK'
  BY <1>8 DEF Lock, MutexFree, objectVars, mapVars
<1>9. ASSUME NEW t \in Threads, Seal(t) PROVE TypeOK'
  <2>1. call[t] \in Calls /\ call[t].data \in Data
    BY <1>9, CallFacts DEF Seal, NewIv, Consistent, CallInv, CallOk
  <2>2. draws < MaxDraws
    BY <1>9 DEF Seal, NewIv, Consistent, CallInv, CallOk, WithinBounds
  <2>3. master_key_ \in 1..MaxDraws
    BY <1>9, EnclaveAssumption DEF Seal, NewIv, Consistent, LifeInv, NoKey
  <2>4. Vector(call[t].data, master_key_, draws + 1) \in Vectors
    BY <2>1, <2>2, <2>3, VectorsFact, EnclaveAssumption
  <2> QED
    BY <1>9, <2>2, <2>4, EnclaveAssumption DEF Seal, NewIv, objectVars, mapVars
<1>10. ASSUME NEW t \in Threads, SealFail(t) PROVE TypeOK'
  BY <1>10, ResultFacts
     DEF SealFail, UnlockAndReturn, ErrorStatus, objectVars, mapVars
<1>11. ASSUME NEW t \in Threads, StoreCommit(t) PROVE TypeOK'
  <2>1. call[t].name \in Names
    BY <1>11, CallFacts DEF StoreCommit, CommitStorage, Consistent, CallInv,
       CallOk
  <2>2. sealed[t] \in Vectors
    BY <1>11, SealedFact DEF StoreCommit, CommitStorage, Inductive
  <2>3. /\ DOMAIN secure_storage_' \subseteq Names
        /\ \A k \in DOMAIN secure_storage_' : secure_storage_'[k] \in Vectors
    BY <1>11, <2>1, <2>2 DEF StoreCommit, CommitStorage, Put
  <2> QED
    BY <1>11, <2>3, ResultFacts DEF StoreCommit, CommitStorage,
       UnlockAndReturn, objectVars
<1>12. ASSUME NEW t \in Threads, LoadCommit(t) PROVE TypeOK'
  <2>1. next_module_id_ \in Handles /\ next_module_id_' \in 1..MaxHandle + 1
    BY <1>12, EnclaveAssumption DEF LoadCommit, Consistent, CallInv, CallOk
  <2>2. [encrypted_code |-> sealed[t], function_table |-> {TestFunction}]
          \in Modules
    BY <1>12, SealedFact DEF LoadCommit, Inductive, Modules
  <2>3. /\ DOMAIN modules_' \subseteq Handles
        /\ \A h \in DOMAIN modules_' : modules_'[h] \in Modules
    BY <1>12, <2>1, <2>2 DEF LoadCommit, Put
  <2>4. OkHandle(next_module_id_) \in Results
    BY <2>1, ResultFacts
  <2> QED
    BY <1>12, <2>1, <2>3, <2>4 DEF LoadCommit, UnlockAndReturn, objectVars
<1>13. ASSUME NEW t \in Threads, FindMiss(t) PROVE TypeOK'
  BY <1>13, ResultFacts, FindStatusFact
     DEF FindMiss, UnlockAndReturn, objectVars, mapVars
<1>14. ASSUME NEW t \in Threads, FindHit(t) PROVE TypeOK'
  BY <1>14 DEF FindHit, objectVars, mapVars
<1>15. ASSUME NEW t \in Threads, Open(t) PROVE TypeOK'
  <2>1. /\ call[t] \in Calls /\ call[t].op \in {"retrieve", "invoke"}
        /\ call[t].op = "retrieve" => call[t].name \in DOMAIN secure_storage_
    BY <1>15, FindStatusFact DEF Open, Consistent, CallInv, CallOk
  <2>2. call[t].op = "retrieve" => OkData(Plaintext(Found(call[t]))) \in Results
    BY <2>1, PlaintextFact, ResultFacts DEF Found
  <2>3. call[t].op = "invoke" => OkInvoked(call[t].data) \in Results
    BY <2>1, CallFacts, ResultFacts
  <2> QED
    BY <1>15, <2>1, <2>2, <2>3 DEF Open, UnlockAndReturn, objectVars, mapVars
<1>16. ASSUME NEW t \in Threads, OpenFail(t) PROVE TypeOK'
  BY <1>16, ResultFacts
     DEF OpenFail, UnlockAndReturn, ErrorStatus, objectVars, mapVars
<1>17. ASSUME NEW t \in Threads, Return(t) PROVE TypeOK'
  BY <1>17, ResultFacts DEF Return, objectVars, mapVars
<1>18. CASE UNCHANGED vars
  BY <1>18 DEF vars
<1> QED
  BY <1>1, <1>2, <1>3, <1>4, <1>5, <1>6, <1>7, <1>8, <1>9, <1>10, <1>11,
     <1>12, <1>13, <1>14, <1>15, <1>16, <1>17, <1>18 DEF Next, Step

-----------------------------------------------------------------------------
(* The lock: whoever enters the maps finds it free, whoever returns from    *)
(* them was its holder.                                                     *)
LEMMA MutexStep == Inductive /\ [Next]_vars => MutualExclusion'
<1> SUFFICES ASSUME TypeOK, Consistent, [Next]_vars PROVE MutualExclusion'
  BY DEF Inductive
<1>a. pc \in [Threads -> PcValues] /\ MutualExclusion
  BY DEF TypeOK, Consistent
<1> USE <1>a DEF MutualExclusion, InMaps, Goto
<1>1. CASE CreateOk \/ CreateFail \/ Destroy
  BY <1>1 DEF CreateOk, CreateFail, Destroy
<1>2. ASSUME NEW t \in Threads,
             \/ \E c \in Calls : Call(t, c)
             \/ CheckRefuse(t) \/ CheckPass(t) \/ GetAttestation(t) \/ Return(t)
      PROVE  MutualExclusion'
  BY <1>2 DEF Call, CheckRefuse, CheckPass, GetAttestation, Return
<1>3. ASSUME NEW t \in Threads, Lock(t) PROVE MutualExclusion'
  BY <1>3, EnclaveAssumption DEF Lock, MutexFree
<1>4. ASSUME NEW t \in Threads, Seal(t) \/ FindHit(t) PROVE MutualExclusion'
  BY <1>4 DEF Seal, NewIv, FindHit
<1>5. ASSUME NEW t \in Threads,
             \/ SealFail(t) \/ StoreCommit(t) \/ LoadCommit(t)
             \/ FindMiss(t) \/ Open(t) \/ OpenFail(t)
      PROVE  MutualExclusion'
  <2>1. /\ InMaps(t) /\ mutex_' = NoThread /\ pc' = [pc EXCEPT ![t] = "done"]
    BY <1>5 DEF SealFail, StoreCommit, CommitStorage, LoadCommit, FindMiss,
       Open, OpenFail, UnlockAndReturn
  <2> QED
    BY <2>1
<1>6. CASE UNCHANGED vars
  BY <1>6 DEF vars
<1> QED
  BY <1>1, <1>2, <1>3, <1>4, <1>5, <1>6 DEF Next, Step

(* Calls are in progress only on an enclave that was initialized.           *)
LEMMA LifeStep == Inductive /\ [Next]_vars => LifeInv'
<1> SUFFICES ASSUME TypeOK, Consistent, [Next]_vars PROVE LifeInv'
  BY DEF Inductive
<1>a. pc \in [Threads -> PcValues] /\ LifeInv /\ draws \in Nat
  BY EnclaveAssumption DEF TypeOK, Consistent
<1> USE <1>a DEF LifeInv
<1>1. CASE CreateOk
  BY <1>1 DEF CreateOk, NoKey
<1>2. CASE CreateFail
  BY <1>2 DEF CreateFail, mapVars
<1>3. CASE Destroy
  BY <1>3 DEF Destroy
<1>4. ASSUME NEW t \in Threads, (\E c \in Calls : Call(t, c)) \/ Step(t)
      PROVE  LifeInv'
  <2>1. life = "alive"
    BY <1>4 DEF Call, Step, CheckRefuse, CheckPass, GetAttestation, Lock, Seal,
       SealFail, StoreCommit, CommitStorage, LoadCommit, FindMiss, FindHit,
       Open, OpenFail, Return
  <2>2. UNCHANGED objectVars
    BY <1>4 DEF Call, Step, CheckRefuse, CheckPass, GetAttestation, Lock, Seal,
       SealFail, StoreCommit, CommitStorage, LoadCommit, FindMiss, FindHit,
       Open, OpenFail, Return, UnlockAndReturn
  <2> QED
    BY <2>1, <2>2 DEF objectVars
<1>5. CASE UNCHANGED vars
  BY <1>5 DEF vars
<1> QED
  BY <1>1, <1>2, <1>3, <1>4, <1>5 DEF Next

(* What a thread knows about its call outlives the steps of the others: the *)
(* ones that change the maps or draw an IV hold the lock, so this thread    *)
(* does not.                                                                *)
LEMMA OthersKeepCallOk ==
  ASSUME Inductive, NEW t \in Threads, NEW u \in Threads, u # t,
         pc'[u] = pc[u], call'[u] = call[u],
         InMaps(t) \/ UNCHANGED <<mapVars, draws>>
  PROVE  CallOk(u)'
<1>1. CallOk(u) /\ MutualExclusion
  BY DEF Inductive, Consistent, CallInv
<1>2. CASE InMaps(t)
  <2>1. ~InMaps(u)
    BY <1>1, <1>2 DEF MutualExclusion
  <2> QED
    BY <1>1, <2>1 DEF CallOk, InMaps
<1>3. CASE UNCHANGED <<mapVars, draws>>
  BY <1>1, <1>3 DEF CallOk, InMaps, WithinBounds, FindStatus, mapVars
<1> QED
  BY <1>2, <1>3

LEMMA CallStep == Inductive /\ [Next]_vars => CallInv'
<1> SUFFICES ASSUME Inductive, [Next]_vars PROVE CallInv'
  OBVIOUS
<1>a. /\ pc \in [Threads -> PcValues]
      /\ call \in [Threads -> Calls \cup {NoCall}]
      /\ \A t \in Threads : CallOk(t)
  BY DEF Inductive, TypeOK, Consistent, CallInv
<1>1. CASE CreateOk \/ CreateFail \/ Destroy
  <2>1. \A t \in Threads : pc'[t] = "idle"
    BY <1>1 DEF CreateOk, CreateFail, Destroy, Inductive, Consistent, LifeInv
  <2> QED
    BY <2>1 DEF CallInv, CallOk, InMaps
<1>2. ASSUME NEW t \in Threads, (\E c \in Calls : Call(t, c)) \/ Step(t)
      PROVE  CallInv'
  <2>1. /\ \A u \in Threads : u # t => pc'[u] = pc[u] /\ call'[u] = call[u]
        /\ InMaps(t) \/ UNCHANGED <<mapVars, draws>>
    BY <1>2, <1>a DEF Call, Step, CheckRefuse, CheckPass, GetAttestation, Lock,
       Seal, SealFail, StoreCommit, CommitStorage, LoadCommit, FindMiss,
       FindHit, Open, OpenFail, Return, UnlockAndReturn, Goto, InMaps
  <2>2. \A u \in Threads : u # t => CallOk(u)'
    BY <2>1, OthersKeepCallOk
  <2>3. CallOk(t)'
    <3> USE <1>a DEF CallOk, InMaps, Goto
    <3>1. ASSUME NEW c \in Calls, Call(t, c) PROVE CallOk(t)'
      BY <3>1 DEF Call
    <3>2. CASE CheckRefuse(t) \/ GetAttestation(t)
      BY <3>2 DEF CheckRefuse, GetAttestation
    <3>3. CASE CheckPass(t)
      BY <3>3, CheckStatusFact DEF CheckPass
    <3>4. CASE Lock(t)
      BY <3>4 DEF Lock, MutexFree, WithinBounds, mapVars
    <3>5. CASE Seal(t)
      BY <3>5 DEF Seal, NewIv, WithinBounds, mapVars
    <3>6. CASE SealFail(t) \/ StoreCommit(t) \/ LoadCommit(t) \/ FindMiss(t)
               \/ Open(t) \/ OpenFail(t)
      BY <3>6 DEF SealFail, StoreCommit, CommitStorage, LoadCommit, FindMiss,
         Open, OpenFail, UnlockAndReturn
    <3>7. CASE FindHit(t)
      BY <3>7 DEF FindHit, FindStatus, mapVars
    <3>8. CASE Return(t)
      BY <3>8 DEF Return
    <3> QED
      BY <1>2, <3>1, <3>2, <3>3, <3>4, <3>5, <3>6, <3>7, <3>8 DEF Step
  <2> QED
    BY <2>2, <2>3 DEF CallInv
<1>3. CASE UNCHANGED vars
  BY <1>3, <1>a
     DEF vars, CallInv, CallOk, InMaps, WithinBounds, FindStatus
<1> QED
  BY <1>1, <1>2, <1>3 DEF Next

-----------------------------------------------------------------------------
(* The vectors.  A sealed vector is intact because its data passed the size *)
(* check before the lock was taken.                                         *)
LEMMA SealedIntact ==
  ASSUME Inductive, NEW t \in Threads, pc[t] = "commit"
  PROVE  Intact(sealed[t], master_key_, draws)
<1>1. call[t].data \in Data /\ ~BadData(call[t].data)
  BY CallFacts DEF Inductive, Consistent, CallInv, CallOk, InMaps
<1>2. \E iv \in 1..draws : sealed[t] = Vector(call[t].data, master_key_, iv)
  BY DEF Inductive, Consistent, VectorInv
<1> QED
  BY <1>1, <1>2 DEF Intact

(* The steps that leave every vector where it is.                           *)
Quiet(t) ==
  \/ \E c \in Calls : Call(t, c)
  \/ CheckRefuse(t) \/ CheckPass(t) \/ GetAttestation(t) \/ Lock(t)
  \/ SealFail(t) \/ FindMiss(t) \/ FindHit(t) \/ Open(t) \/ OpenFail(t)
  \/ Return(t)

LEMMA QuietFact ==
  ASSUME TypeOK, NEW t \in Threads, Quiet(t)
  PROVE  /\ UNCHANGED <<master_key_, mapVars, sealed, draws>>
         /\ \A u \in Threads : pc'[u] = "commit" =>
              pc[u] = "commit" /\ call'[u] = call[u]
BY DEF Quiet, Call, CheckRefuse, CheckPass, GetAttestation, Lock, SealFail,
   FindMiss, FindHit, Open, OpenFail, Return, UnlockAndReturn, Goto,
   objectVars, TypeOK

LEMMA VectorStep == Inductive /\ [Next]_vars => VectorInv'
<1> SUFFICES ASSUME Inductive, [Next]_vars PROVE VectorInv'
  OBVIOUS
<1>a. /\ VectorInv
      /\ pc \in [Threads -> PcValues]
      /\ sealed \in [Threads -> Vectors \cup {NoVector}]
      /\ next_module_id_ \in Nat \ {0} /\ draws \in Nat
  BY EnclaveAssumption DEF Inductive, Consistent, TypeOK
<1>1. CASE CreateOk \/ Destroy
  <2>1. \A t \in Threads : pc'[t] = "idle"
    BY <1>1 DEF CreateOk, Destroy, Inductive, Consistent, LifeInv
  <2>2. next_module_id_' = 1 /\ DOMAIN modules_' = {}
        /\ DOMAIN secure_storage_' = {}
    BY <1>1, EmptyMapFact DEF CreateOk, Destroy
  <2> QED
    BY <2>1, <2>2 DEF VectorInv
<1>2. CASE CreateFail \/ UNCHANGED vars
  <2>1. UNCHANGED <<master_key_, mapVars, pc, call, sealed, draws>>
    BY <1>2 DEF CreateFail, vars, mapVars
  <2> QED
    BY <2>1, <1>a DEF VectorInv, mapVars
<1>3. ASSUME NEW t \in Threads, Quiet(t) PROVE VectorInv'
  BY <1>3, <1>a, QuietFact DEF Inductive, VectorInv, mapVars
<1>4. ASSUME NEW t \in Threads, Seal(t) PROVE VectorInv'
  <2>1. \A v : Intact(v, master_key_, draws)
               => Intact(v, master_key_', draws')
    BY <1>4, <1>a DEF Seal, NewIv, Intact, objectVars
  <2>2. \A u \in Threads : pc'[u] = "commit" => u = t
    BY <1>4, <1>a DEF Seal, Goto, Inductive, Consistent, MutualExclusion,
       InMaps
  <2>3. sealed'[t] = Vector(call'[t].data, master_key_', draws')
        /\ draws' \in 1..draws'
    BY <1>4, <1>a DEF Seal, NewIv, objectVars
  <2> QED
    BY <1>4, <1>a, <2>1, <2>2, <2>3 DEF Seal, NewIv, VectorInv, mapVars
<1>5. ASSUME NEW t \in Threads, StoreCommit(t) \/ LoadCommit(t)
      PROVE  VectorInv'
  <2>1. pc[t] = "commit" /\ UNCHANGED <<master_key_, draws, call>>
        /\ pc' = [pc EXCEPT ![t] = "done"]
    BY <1>5 DEF StoreCommit, CommitStorage, LoadCommit, UnlockAndReturn, Goto,
       objectVars
  <2>2. \A u \in Threads : pc'[u] # "commit"
    BY <2>1, <1>a DEF Inductive, Consistent, MutualExclusion, InMaps
  <2>3. Intact(sealed[t], master_key_', draws')
    BY <2>1, SealedIntact
  <2>4. CASE StoreCommit(t)
    <3>1. \A k \in DOMAIN secure_storage_' :
             Intact(secure_storage_'[k], master_key_', draws')
      BY <2>1, <2>3, <2>4, <1>a DEF StoreCommit, CommitStorage, Put, VectorInv
    <3> QED
      BY <3>1, <2>1, <2>2, <2>4, <1>a DEF StoreCommit, CommitStorage, VectorInv
  <2>5. CASE LoadCommit(t)
    <3>1. DOMAIN modules_' = 1..next_module_id_' - 1
      BY <2>5, <1>a DEF LoadCommit, Put, VectorInv
    <3>2. \A h \in DOMAIN modules_' :
             Intact(modules_'[h].encrypted_code, master_key_', draws')
      BY <2>1, <2>3, <2>5, <1>a DEF LoadCommit, Put, VectorInv
    <3> QED
      BY <3>1, <3>2, <2>1, <2>2, <2>5, <1>a DEF LoadCommit, VectorInv
  <2> QED
    BY <1>5, <2>4, <2>5
<1> QED
  BY <1>1, <1>2, <1>3, <1>4, <1>5 DEF Next, Step, Quiet

-----------------------------------------------------------------------------
(* The theorems.                                                            *)

LEMMA InitInductive == Init => Inductive
<1> SUFFICES ASSUME Init PROVE Inductive
  OBVIOUS
<1> USE EnclaveAssumption, EmptyMapFact DEF Init
<1>1. TypeOK
  <2>1. /\ master_key_ \in 0..MaxDraws /\ draws \in 0..MaxDraws
        /\ next_module_id_ \in 1..MaxHandle + 1
    BY DEF NoKey
  <2>2. ret \in [Threads -> Results]
    BY ResultFacts
  <2> QED
    BY <2>1, <2>2 DEF TypeOK, PcValues
<1>2. MutualExclusion /\ LifeInv /\ CallInv
  BY DEF MutualExclusion, LifeInv, CallInv, CallOk, InMaps
<1>3. VectorInv
  BY DEF VectorInv
<1> QED
  BY <1>1, <1>2, <1>3 DEF Inductive, Consistent

(* Every variable of EnclaveImpl keeps its type, and Consistent is an       *)
(* invariant, for any number of threads and any bounds.                     *)
THEOREM InductiveInvariant == Spec => []Inductive
<1>1. Inductive /\ [Next]_vars => Inductive'
  BY TypeStep, MutexStep, LifeStep, CallStep, VectorStep
     DEF Inductive, Consistent
<1> QED
  BY <1>1, InitInductive, PTL DEF Spec

(* TypeOK holds in every state of every behaviour of EnclaveImpl.           *)
THEOREM TypeCorrect == Spec => []TypeOK
BY InductiveInvariant, PTL DEF Inductive

(* The state of a living enclave hangs together at every instant: locks,    *)
(* calls in progress and vectors are related as Consistent says.            *)
THEOREM ConsistentHolds == Spec => []Consistent
BY InductiveInvariant, PTL DEF Inductive

(* mutex_ really excludes: at most its holder is inside modules_ or         *)
(* secure_storage_.                                                         *)
THEOREM MutualExclusionHolds == Spec => []MutualExclusion
<1>1. Inductive => MutualExclusion
  BY DEF Inductive, Consistent
<1> QED
  BY <1>1, InductiveInvariant, PTL

(* Whatever LoadModule and StoreData accepted, of any admitted size, can be *)
(* deserialized and authenticated under the enclave's key ever after.       *)
THEOREM DataRecoverableHolds == Spec => []DataRecoverable
<1>1. ASSUME Inductive PROVE DataRecoverable
  <2>1. ASSUME NEW v, Intact(v, master_key_, draws)
        PROVE  Opens(master_key_, v)
    BY <2>1, VectorOpens DEF Intact
  <2>2. /\ \A h \in DOMAIN modules_ :
             Opens(master_key_, modules_[h].encrypted_code)
        /\ \A k \in DOMAIN secure_storage_ :
             Opens(master_key_, secure_storage_[k])
    BY <1>1, <2>1 DEF Inductive, Consistent, VectorInv
  <2>3. \A t \in Threads : pc[t] = "commit" => Opens(master_key_, sealed[t])
    BY <1>1, <2>1, SealedIntact
  <2> QED
    BY <2>2, <2>3 DEF DataRecoverable, Slots, VectorAt
<1> QED
  BY <1>1, InductiveInvariant, PTL

(* No step of any thread takes a module or a stored key away from a living  *)
(* enclave.                                                                 *)
THEOREM NothingVanishesHolds == Spec => NothingVanishes
<1> DEFINE Kept ==
      life = "alive" /\ life' = "alive" =>
        /\ \A h \in DOMAIN modules_ :
             h \in DOMAIN modules_' /\ modules_'[h] = modules_[h]
        /\ DOMAIN secure_storage_ \subseteq DOMAIN secure_storage_'
<1>1. ASSUME Inductive, Next PROVE Kept
  <2>1. CASE CreateOk \/ CreateFail \/ Destroy
    BY <2>1 DEF CreateOk, CreateFail, Destroy
  <2>2. ASSUME NEW t \in Threads, Quiet(t) \/ Seal(t) PROVE Kept
    BY <1>1, <2>2, QuietFact DEF Inductive, Seal, NewIv, mapVars
  <2>3. ASSUME NEW t \in Threads, StoreCommit(t) PROVE Kept
    BY <2>3 DEF StoreCommit, CommitStorage, Put
  <2>4. ASSUME NEW t \in Threads, LoadCommit(t) PROVE Kept
    <3>1. next_module_id_ \notin DOMAIN modules_
      BY <1>1, EnclaveAssumption DEF Inductive, Consistent, VectorInv, TypeOK
    <3> QED
      BY <2>4, <3>1 DEF LoadCommit, Put
  <2> QED
    BY <1>1, <2>1, <2>2, <2>3, <2>4 DEF Next, Step, Quiet
<1>2. Inductive /\ [Next]_vars => [Kept]_vars
  BY <1>1
<1> QED
  BY <1>2, InductiveInvariant, PTL DEF Spec, NothingVanishes
=============================================================================
