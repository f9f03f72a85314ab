---------------------------- MODULE CipherProofs ------------------------------
(***************************************************************************)
(* CryptoModule::Encrypt and Decrypt, and the keys they use, proved for    *)
(* any keys, IVs, plaintexts, additional data and number of objects.  The  *)
(* invariant says, for each OpenSSL call about to be made, how many        *)
(* contexts are allocated and what the calls before it have left in the    *)
(* context, in *encrypted and in the plaintext vector.                     *)
(***************************************************************************)
EXTENDS Cipher, SecureMemoryProofs

(* The calls that are made with a context.                                  *)
Keyed == {"aad", "update", "final", "get_tag", "set_tag", "verify"}
Allocated == {"init"} \cup Keyed

EncryptCalls ==
  [op : {"encrypt"}, key : drawn \cup {NoKey}, aad : Aads \cup {NoAad},
   plain : Plaintexts]

DecryptCalls ==
  [op : {"decrypt"}, key : drawn \cup {NoKey}, aad : Aads \cup {NoAad},
   e : [iv : {e.iv : e \in Known}, tag : {e.tag : e \in Known},
        ciphertext : {e.ciphertext : e \in Known}]]

(* One context from EVP_CIPHER_CTX_new to EVP_CIPHER_CTX_free.              *)
LiveInv == live = IF pc \in Allocated THEN 1 ELSE 0

(* The arguments: keys are generated keys, or null for a moved-from object. *)
ArgInv ==
  /\ pc # "idle" => arg \in EncryptCalls \cup DecryptCalls
  /\ pc \in {"rand", "final", "get_tag"} => arg.op = "encrypt"
  /\ pc \in {"set_tag", "verify"} => arg.op = "decrypt"
  /\ pc \in {"final", "get_tag", "set_tag", "verify"} => arg.key # NoKey

(* The context has been given this call's key and IV, then its additional   *)
(* data.                                                                    *)
CtxInv ==
  /\ pc \in Keyed =>
       /\ ctx.key = arg.key
       /\ ctx.iv = IF arg.op = "encrypt" THEN enc.iv ELSE arg.e.iv
       /\ ctx.aad = IF pc = "aad" THEN NoAad ELSE arg.aad
       /\ DOMAIN ctx = {"key", "iv", "aad", "text"}
  /\ pc = "get_tag" => ctx.text = enc.ciphertext
  /\ pc \in {"set_tag", "verify"} => ctx.text = arg.e.ciphertext

(* What Encrypt has written so far.                                         *)
EncInv ==
  pc # "idle" /\ arg.op = "encrypt" =>
    /\ enc = [iv |-> enc.iv, tag |-> None, ciphertext |-> enc.ciphertext]
    /\ pc # "rand" => enc.iv \in IVs
    /\ pc = "final" => enc.ciphertext =
         Ciphertext(arg.key, enc.iv, arg.plain, Size[arg.plain] + BLOCK)
    /\ pc = "get_tag" => enc.ciphertext =
         Ciphertext(arg.key, enc.iv, arg.plain, Size[arg.plain])

(* What Decrypt has written before the tag is verified.                     *)
BufInv ==
  pc \in {"set_tag", "verify"} =>
    LET ct == arg.e.ciphertext
    IN  buf = [holds |-> IF ct.key = arg.key /\ ct.iv = arg.e.iv
                         THEN ct.plain ELSE Garbage,
               size |-> ct.size + BLOCK]

(* Nothing has been written before EVP_DecryptUpdate has.                   *)
EmptyInv == pc \in {"rand", "new", "init", "aad", "update"} => buf = Clear

(* Everything Encrypt has returned is what Crypto says it is.               *)
MadeInv ==
  \A m \in made :
    /\ m.arg.key \in drawn /\ m.arg.plain \in Plaintexts
    /\ m.e.iv \in IVs
    /\ m.e = Encrypt(m.arg.key, m.e.iv, m.arg.plain, Size[m.arg.plain],
                     m.arg.aad)

Inductive ==
  /\ MemInv
  /\ TypeOK
  /\ LiveInv
  /\ ArgInv
  /\ CtxInv
  /\ EncInv
  /\ BufInv
  /\ EmptyInv
  /\ MadeInv
  /\ ComputesCrypto
  /\ OpensOnlySealed

-----------------------------------------------------------------------------
LEMMA InitInductive == Init => Inductive
<1> SUFFICES ASSUME Init PROVE Inductive
  OBVIOUS
<1> USE CipherAssumption DEF Init
<1>1. MemInv /\ MemTypeOK
  BY MemInitInv DEF MemInv
<1>2. TypeOK /\ LiveInv /\ MadeInv
  BY <1>1 DEF TypeOK, LiveInv, Allocated, Keyed, MadeInv, Clear, None
<1>3. ArgInv /\ CtxInv /\ EncInv /\ BufInv /\ EmptyInv
  BY DEF ArgInv, CtxInv, EncInv, BufInv, EmptyInv, Keyed
<1>4. ComputesCrypto /\ OpensOnlySealed
  BY DEF ComputesCrypto, OpensOnlySealed, None
<1> QED
  BY <1>1, <1>2, <1>3, <1>4 DEF Inductive

(* Between calls keys and buffers come and go; results stay what they were. *)
LEMMA MemStepInductive ==
  Inductive /\ MemStep /\ UNCHANGED cipherVars => Inductive'
<1> SUFFICES ASSUME Inductive, MemStep, UNCHANGED cipherVars PROVE Inductive'
  OBVIOUS
<1> USE DEF Inductive, MemStep, cipherVars
<1>1. MemInv' /\ MemTypeOK'
  BY MemStepInv DEF MemInv
<1>2. drawn \subseteq drawn'
  BY DrawnGrows
<1>3. TypeOK' /\ LiveInv' /\ MadeInv'
  BY <1>1, <1>2 DEF TypeOK, LiveInv, MadeInv
<1>4. ArgInv' /\ CtxInv' /\ EncInv' /\ BufInv' /\ EmptyInv'
  BY DEF ArgInv, CtxInv, EncInv, BufInv, EmptyInv, Keyed
<1>5. ComputesCrypto' /\ OpensOnlySealed'
  BY DEF ComputesCrypto, OpensOnlySealed
<1> QED
  BY <1>1, <1>3, <1>4, <1>5

-----------------------------------------------------------------------------
(* The OpenSSL calls, with the keys staying where they are.                 *)

(* A call is given a generated key or none.                                 *)
LEMMA GivenFact == MemInv => GivenKeys \subseteq drawn \cup {NoKey}
BY DEF MemInv, KeyInOnePlace, GivenKeys, GetKeyData

LEMMA LiveStep == Inductive /\ CipherStep => LiveInv'
<1> SUFFICES ASSUME Inductive, CipherStep PROVE LiveInv'
  OBVIOUS
<1>a. LiveInv
  BY DEF Inductive
<1> USE DEF LiveInv, Allocated, Keyed
<1>1. CASE BeginEncrypt \/ BeginDecrypt \/ RandomIv \/ NewContext
  BY <1>a, <1>1 DEF BeginEncrypt, BeginDecrypt, RandomIv, NewContext
<1>2. CASE InitContext \/ AddAad \/ EncryptUpdate \/ EncryptFinal
  BY <1>a, <1>2 DEF InitContext, AfterInit, AddAad, EncryptUpdate,
     EncryptFinal
<1>3. CASE DecryptUpdate \/ SetTag
  BY <1>a, <1>3 DEF DecryptUpdate, SetTag
<1>4. CASE EncryptFails \/ DecryptFails \/ GetTag \/ DecryptFinal
  <2>1. ArgInv /\ (pc # "idle" => pc \in Calls)
    BY DEF Inductive, TypeOK
  <2> QED
    BY <1>a, <1>4, <2>1 DEF EncryptFails, DecryptFails, EncryptCleanups,
       DecryptCleanups, GetTag, DecryptFinal, Cleanup, ArgInv, Calls
<1> QED
  BY <1>1, <1>2, <1>3, <1>4 DEF CipherStep

LEMMA ArgStep == Inductive /\ CipherStep /\ UNCHANGED memVars => ArgInv'
<1> SUFFICES ASSUME Inductive, CipherStep, UNCHANGED memVars PROVE ArgInv'
  OBVIOUS
<1>a. ArgInv /\ CtxInv /\ GivenKeys \subseteq drawn \cup {NoKey} /\ drawn' = drawn
  BY GivenFact DEF Inductive, memVars
<1>1. CASE BeginEncrypt
  <2>1. arg' \in EncryptCalls'
    BY <1>1, <1>a DEF BeginEncrypt, Encrypting, EncryptCalls
  <2>2. arg'.op = "encrypt" /\ pc' = "rand"
    BY <1>1 DEF BeginEncrypt, Encrypting
  <2> QED
    BY <2>1, <2>2 DEF ArgInv
<1>2. CASE BeginDecrypt
  <2>1. Known' = Known
    BY <1>2 DEF BeginDecrypt, Known
  <2>2. arg' \in DecryptCalls'
    BY <1>2, <1>a, <2>1 DEF BeginDecrypt, Decrypting, DecryptCalls
  <2>3. pc' = "new"
    BY <1>2 DEF BeginDecrypt
  <2> QED
    BY <2>2, <2>3 DEF ArgInv
<1>3. CASE EncryptFails \/ DecryptFails \/ GetTag \/ DecryptFinal
  BY <1>3 DEF EncryptFails, DecryptFails, GetTag, DecryptFinal, ArgInv
<1>4. CASE RandomIv \/ NewContext \/ InitContext \/ AddAad \/ EncryptUpdate
           \/ EncryptFinal \/ DecryptUpdate \/ SetTag
  <2>1. Known' = Known /\ arg' = arg /\ pc # "idle"
    BY <1>4 DEF RandomIv, NewContext, InitContext, AddAad, EncryptUpdate,
       EncryptFinal, DecryptUpdate, SetTag, Known
  <2>2. arg' \in EncryptCalls' \cup DecryptCalls'
    BY <2>1, <1>a DEF ArgInv, EncryptCalls, DecryptCalls
  <2>3. CASE RandomIv \/ NewContext \/ InitContext \/ AddAad
    BY <2>1, <2>2, <2>3 DEF RandomIv, NewContext, InitContext, AfterInit,
       AddAad, ArgInv
  <2>4. CASE EncryptUpdate \/ EncryptFinal
    BY <2>1, <2>2, <2>4, <1>a DEF EncryptUpdate, EncryptFinal, ArgInv,
       CtxInv, Keyed
  <2>5. CASE DecryptUpdate \/ SetTag
    BY <2>1, <2>2, <2>5, <1>a DEF DecryptUpdate, SetTag, ArgInv, CtxInv,
       Keyed
  <2> QED
    BY <1>4, <2>3, <2>4, <2>5
<1> QED
  BY <1>1, <1>2, <1>3, <1>4 DEF CipherStep

LEMMA CtxStep == Inductive /\ CipherStep => CtxInv'
<1> SUFFICES ASSUME Inductive, CipherStep PROVE CtxInv'
  OBVIOUS
<1>a. ArgInv /\ CtxInv /\ EncInv
  BY DEF Inductive
<1> USE DEF CtxInv, Keyed
<1>1. CASE BeginEncrypt \/ BeginDecrypt \/ EncryptFails \/ DecryptFails
           \/ RandomIv \/ NewContext \/ GetTag \/ DecryptFinal
  BY <1>1 DEF BeginEncrypt, BeginDecrypt, EncryptFails, DecryptFails,
     RandomIv, NewContext, GetTag, DecryptFinal
<1>2. CASE InitContext
  <2>1. /\ ctx' = [key |-> arg.key,
                   iv |-> IF arg.op = "encrypt" THEN enc.iv ELSE arg.e.iv,
                   aad |-> NoAad, text |-> None]
        /\ arg' = arg /\ enc' = enc
        /\ pc' = IF arg.aad = NoAad THEN "update" ELSE "aad"
    BY <1>2 DEF InitContext, EmptyCtx, AfterInit
  <2> QED
    BY <2>1
<1>3. CASE AddAad
  BY <1>3, <1>a DEF AddAad
<1>4. CASE EncryptUpdate
  <2>1. enc'.iv = enc.iv
    BY <1>4, <1>a DEF EncryptUpdate, EncInv
  <2> QED
    BY <1>4, <1>a, <2>1 DEF EncryptUpdate
<1>5. CASE EncryptFinal
  <2>1. arg.op = "encrypt" /\ arg' = arg /\ pc' = "get_tag"
    BY <1>5, <1>a DEF EncryptFinal, ArgInv
  <2>2. enc'.iv = enc.iv
    BY <1>5, <1>a, <2>1 DEF EncryptFinal, EncInv
  <2>3. ctx' = [ctx EXCEPT !.text = enc'.ciphertext]
    BY <1>5 DEF EncryptFinal
  <2> QED
    BY <1>5, <1>a, <2>1, <2>2, <2>3 DEF EncryptFinal
<1>6. CASE DecryptUpdate
  BY <1>6, <1>a DEF DecryptUpdate
<1>7. CASE SetTag
  BY <1>7, <1>a DEF SetTag
<1> QED
  BY <1>1, <1>2, <1>3, <1>4, <1>5, <1>6, <1>7 DEF CipherStep

LEMMA EncStep == Inductive /\ CipherStep => EncInv'
<1> SUFFICES ASSUME Inductive, CipherStep PROVE EncInv'
  OBVIOUS
<1>a. ArgInv /\ CtxInv /\ EncInv
  BY DEF Inductive
<1>1. CASE BeginEncrypt
  BY <1>1 DEF BeginEncrypt, Blank, EncInv
<1>2. CASE BeginDecrypt
  <2>1. arg'.op = "decrypt"
    BY <1>2 DEF BeginDecrypt, Decrypting
  <2> QED
    BY <2>1 DEF EncInv
<1>3. CASE EncryptFails \/ DecryptFails \/ GetTag \/ DecryptFinal
  BY <1>3 DEF EncryptFails, DecryptFails, GetTag, DecryptFinal, EncInv
<1>4. CASE RandomIv
  <2>1. PICK iv \in IVs : enc' = [enc EXCEPT !.iv = iv]
    BY <1>4 DEF RandomIv
  <2>2. enc' = [iv |-> iv, tag |-> None, ciphertext |-> enc.ciphertext]
    BY <1>4, <1>a, <2>1 DEF RandomIv, EncInv, ArgInv
  <2> QED
    BY <1>4, <2>2 DEF RandomIv, EncInv
<1>5. CASE NewContext \/ InitContext \/ AddAad \/ DecryptUpdate \/ SetTag
  BY <1>5, <1>a DEF NewContext, InitContext, AfterInit, AddAad,
     DecryptUpdate, SetTag, EncInv
<1>6. CASE EncryptUpdate
  <2>1. /\ enc' = [iv |-> enc.iv, tag |-> None,
                   ciphertext |-> Ciphertext(arg.key, enc.iv, arg.plain,
                                             Size[arg.plain] + BLOCK)]
        /\ enc.iv \in IVs
    <3>1. /\ enc = [iv |-> enc.iv, tag |-> None, ciphertext |-> enc.ciphertext]
          /\ enc.iv \in IVs /\ ctx.key = arg.key /\ ctx.iv = enc.iv
      BY <1>6, <1>a DEF EncryptUpdate, EncInv, CtxInv, Keyed
    <3> QED
      BY <1>6, <3>1 DEF EncryptUpdate
  <2>2. /\ enc'.iv = enc.iv
        /\ enc'.ciphertext = Ciphertext(arg.key, enc.iv, arg.plain,
                                        Size[arg.plain] + BLOCK)
        /\ enc' = [iv |-> enc'.iv, tag |-> None, ciphertext |-> enc'.ciphertext]
    BY <2>1
  <2> QED
    BY <1>6, <2>1, <2>2 DEF EncryptUpdate, EncInv
<1>7. CASE EncryptFinal
  <2>1. /\ enc = [iv |-> enc.iv, tag |-> None, ciphertext |->
                    Ciphertext(arg.key, enc.iv, arg.plain,
                               Size[arg.plain] + BLOCK)]
        /\ enc.iv \in IVs
    BY <1>7, <1>a DEF EncryptFinal, EncInv, ArgInv
  <2>2. enc' = [iv |-> enc.iv, tag |-> None, ciphertext |->
                  Ciphertext(arg.key, enc.iv, arg.plain, Size[arg.plain])]
    BY <1>7, <2>1 DEF EncryptFinal, Ciphertext
  <2> QED
    BY <1>7, <2>1, <2>2 DEF EncryptFinal, EncInv
<1> QED
  BY <1>1, <1>2, <1>3, <1>4, <1>5, <1>6, <1>7 DEF CipherStep

LEMMA EmptyStep == Inductive /\ CipherStep => EmptyInv'
<1> SUFFICES ASSUME Inductive, CipherStep PROVE EmptyInv'
  OBVIOUS
<1> USE DEF EmptyInv
<1>1. ArgInv /\ EmptyInv
  BY DEF Inductive
<1> QED
  BY <1>1 DEF CipherStep, BeginEncrypt, BeginDecrypt, EncryptFails,
     DecryptFails, RandomIv, NewContext, InitContext, AfterInit, AddAad,
     EncryptUpdate, EncryptFinal, GetTag, DecryptUpdate, SetTag, DecryptFinal

LEMMA BufStep == Inductive /\ CipherStep => BufInv'
<1> SUFFICES ASSUME Inductive, CipherStep PROVE BufInv'
  OBVIOUS
<1>a. BufInv /\ CtxInv
  BY DEF Inductive
<1>1. CASE DecryptUpdate
  BY <1>1, <1>a DEF DecryptUpdate, BufInv, CtxInv, Keyed
<1>2. CASE SetTag
  BY <1>2, <1>a DEF SetTag, BufInv
<1>3. CASE ~DecryptUpdate /\ ~SetTag
  <2>1. pc' \notin {"set_tag", "verify"}
    BY <1>3 DEF CipherStep, BeginEncrypt, BeginDecrypt, EncryptFails,
       DecryptFails, RandomIv, NewContext, InitContext, AfterInit, AddAad,
       EncryptUpdate, EncryptFinal, GetTag, DecryptFinal
  <2> QED
    BY <2>1 DEF BufInv
<1> QED
  BY <1>1, <1>2, <1>3

(* GetTag returns what Crypto's Encrypt computes.                           *)
LEMMA GetTagFact ==
  ASSUME Inductive, GetTag
  PROVE  /\ enc' = Encrypt(arg.key, enc.iv, arg.plain, Size[arg.plain],
                           arg.aad)
         /\ arg \in EncryptCalls /\ arg.key \in drawn
         /\ arg.plain \in Plaintexts /\ enc.iv \in IVs
<1>a. ArgInv /\ CtxInv /\ EncInv
  BY DEF Inductive
<1>1. arg.op = "encrypt" /\ arg.key # NoKey
      /\ arg \in EncryptCalls \cup DecryptCalls
  BY <1>a DEF GetTag, ArgInv
<1>2. arg \in EncryptCalls
  BY <1>1 DEF DecryptCalls
<1>3. arg.key \in drawn /\ arg.plain \in Plaintexts
  BY <1>1, <1>2 DEF EncryptCalls
<1>4. /\ enc = [iv |-> enc.iv, tag |-> None, ciphertext |-> enc.ciphertext]
      /\ enc.iv \in IVs
      /\ enc.ciphertext =
           Ciphertext(arg.key, enc.iv, arg.plain, Size[arg.plain])
  BY <1>1, <1>a DEF GetTag, EncInv
<1>5. ComputedTag = Tag(arg.key, enc.iv, arg.aad, enc.ciphertext)
  BY <1>1, <1>a DEF GetTag, CtxInv, Keyed, ComputedTag
<1>6. enc' = [iv |-> enc.iv, tag |-> ComputedTag,
              ciphertext |-> enc.ciphertext]
  BY <1>4 DEF GetTag
<1> QED
  BY <1>2, <1>3, <1>4, <1>5, <1>6 DEF Encrypt

LEMMA MadeStep == Inductive /\ CipherStep /\ UNCHANGED memVars => MadeInv'
<1> SUFFICES ASSUME Inductive, CipherStep, UNCHANGED memVars PROVE MadeInv'
  OBVIOUS
<1>a. MadeInv /\ drawn' = drawn
  BY DEF Inductive, memVars
<1>1. CASE GetTag
  <2>1. made' = made \cup {[arg |-> arg, e |-> enc']}
    BY <1>1 DEF GetTag
  <2>2. enc'.iv = enc.iv
    BY <1>1, GetTagFact DEF Encrypt
  <2> QED
    BY <1>a, <1>1, <2>1, <2>2, GetTagFact DEF MadeInv
<1>2. CASE ~GetTag
  <2>1. made' = made
    BY <1>2 DEF CipherStep, BeginEncrypt, BeginDecrypt, EncryptFails,
       DecryptFails, RandomIv, NewContext, InitContext, AddAad,
       EncryptUpdate, EncryptFinal, DecryptUpdate, SetTag, DecryptFinal
  <2> QED
    BY <1>a, <2>1 DEF MadeInv
<1> QED
  BY <1>1, <1>2

(* The parts of what Decrypt is given come from results of Encrypt.         *)
LEMMA PartsFact ==
  ASSUME Inductive, pc # "idle", arg.op = "decrypt"
  PROVE  /\ arg.e = [iv |-> arg.e.iv, tag |-> arg.e.tag,
                     ciphertext |-> arg.e.ciphertext]
         /\ \E m \in made : arg.e.tag = m.e.tag
         /\ \E m \in made : arg.e.ciphertext = m.e.ciphertext
<1>1. arg \in DecryptCalls
  BY DEF Inductive, ArgInv, EncryptCalls
<1> QED
  BY <1>1 DEF DecryptCalls, Known

(* The vector Decrypt writes into is measured in bytes.                     *)
LEMMA CiphertextSize ==
  ASSUME Inductive, pc # "idle", arg.op = "decrypt"
  PROVE  /\ arg.e.ciphertext.size \in Nat
         /\ arg.e.ciphertext.plain \in Plaintexts
<1>1. PICK m \in made : arg.e.ciphertext = m.e.ciphertext
  BY PartsFact
<1>2. /\ m.e = Encrypt(m.arg.key, m.e.iv, m.arg.plain, Size[m.arg.plain],
                       m.arg.aad)
      /\ m.arg.plain \in Plaintexts
  BY DEF Inductive, MadeInv
<1>3. m.e.ciphertext = Ciphertext(m.arg.key, m.e.iv, m.arg.plain,
                                  Size[m.arg.plain])
  BY <1>2 DEF Encrypt
<1>4. Size[m.arg.plain] \in Nat
  BY <1>2, CipherAssumption
<1> QED
  BY <1>1, <1>2, <1>3, <1>4 DEF Ciphertext

LEMMA TypeStep == Inductive /\ CipherStep /\ UNCHANGED memVars => TypeOK'
<1> SUFFICES ASSUME Inductive, CipherStep, UNCHANGED memVars PROVE TypeOK'
  OBVIOUS
<1>1. MemTypeOK'
  BY MemStepInv DEF Inductive, MemInv
<1>2. live' \in 0..1
  BY LiveStep DEF LiveInv
<1>3. \A m \in made' : m.arg.key \in drawn' /\ m.e.iv \in IVs
  BY MadeStep DEF MadeInv
<1>4. pc' \in Calls \cup {"idle"} /\ ret' \in Calls \cup {None, "ok", "tag"}
  BY DEF Inductive, TypeOK, Calls, CipherStep, BeginEncrypt, BeginDecrypt,
     EncryptFails, DecryptFails, RandomIv, NewContext, InitContext, AfterInit,
     AddAad, EncryptUpdate, EncryptFinal, GetTag, DecryptUpdate, SetTag,
     DecryptFinal
<1>5. buf'.holds \in Plaintexts \cup {None, Garbage} /\ buf'.size \in Nat
  <2>a. buf.holds \in Plaintexts \cup {None, Garbage} /\ buf.size \in Nat
    BY DEF Inductive, TypeOK
  <2>b. /\ Clear.holds \in Plaintexts \cup {None, Garbage}
        /\ Clear.size \in Nat
    BY DEF Clear
  <2>1. CASE buf' \in {buf, Clear}
    BY <2>1, <2>a, <2>b
  <2>2. CASE DecryptFails
    BY <2>2, <2>a, CiphertextSize, CipherAssumption DEF DecryptFails
  <2>3. CASE DecryptUpdate
    BY <2>3, CiphertextSize, CipherAssumption DEF DecryptUpdate
  <2>4. CASE DecryptFinal
    <3>1. pc = "verify" /\ arg.op = "decrypt"
      BY <2>4 DEF DecryptFinal, Inductive, ArgInv
    <3>2. buf = [holds |-> buf.holds, size |-> buf.size]
      BY <3>1 DEF Inductive, BufInv
    <3> QED
      BY <2>4, <2>a, <2>b, <3>1, <3>2, CiphertextSize
         DEF DecryptFinal, Wiped
  <2> QED
    BY <2>1, <2>2, <2>3, <2>4 DEF CipherStep, BeginEncrypt, BeginDecrypt,
       EncryptFails, RandomIv, NewContext, InitContext, AddAad,
       EncryptUpdate, EncryptFinal, GetTag, SetTag
<1> QED
  BY <1>1, <1>2, <1>3, <1>4, <1>5 DEF TypeOK

(* A verified tag is the tag of something Encrypt returned, and a tag       *)
(* covers the key, the IV, the additional data and the ciphertext.          *)
LEMMA VerifiedFact ==
  ASSUME Inductive, DecryptFinal
  PROVE  /\ Verified <=> Authentic(arg.key, arg.e, arg.aad)
         /\ ret' = "ok" => Verified /\ \E m \in made :
              /\ m.e = arg.e
              /\ m.arg.key = arg.key /\ m.arg.aad = arg.aad
              /\ buf' = [holds |-> m.arg.plain, size |-> Size[m.arg.plain]]
<1>a. pc = "verify" /\ arg.op = "decrypt" /\ CtxInv /\ BufInv /\ MadeInv
  BY DEF DecryptFinal, Inductive, ArgInv
<1>1. ComputedTag = Tag(arg.key, arg.e.iv, arg.aad, arg.e.ciphertext)
  BY <1>a DEF ComputedTag, CtxInv, Keyed
<1>2. Verified <=> Authentic(arg.key, arg.e, arg.aad)
  BY <1>1 DEF Verified, Authentic
<1>3. ASSUME ret' = "ok"
      PROVE  \E m \in made :
               /\ m.e = arg.e
               /\ m.arg.key = arg.key /\ m.arg.aad = arg.aad
               /\ buf' = [holds |-> m.arg.plain, size |-> Size[m.arg.plain]]
  <2>0. Verified /\ buf' = [buf EXCEPT !.size = arg.e.ciphertext.size]
    BY <1>3 DEF DecryptFinal
  <2>1. PICK m \in made : arg.e.tag = m.e.tag
    BY <1>a, PartsFact
  <2>2. m.e = [iv |-> m.e.iv,
               tag |-> Tag(m.arg.key, m.e.iv, m.arg.aad, m.e.ciphertext),
               ciphertext |-> Ciphertext(m.arg.key, m.e.iv, m.arg.plain,
                                         Size[m.arg.plain])]
    <3>1. m.e = Encrypt(m.arg.key, m.e.iv, m.arg.plain, Size[m.arg.plain],
                        m.arg.aad)
      BY <1>a DEF MadeInv
    <3>2. m.e.ciphertext = Ciphertext(m.arg.key, m.e.iv, m.arg.plain,
                                      Size[m.arg.plain])
      BY <3>1 DEF Encrypt
    <3> QED
      BY <3>1, <3>2 DEF Encrypt
  <2>3. Tag(arg.key, arg.e.iv, arg.aad, arg.e.ciphertext)
          = Tag(m.arg.key, m.e.iv, m.arg.aad, m.e.ciphertext)
    BY <1>1, <2>0, <2>1, <2>2 DEF Verified
  <2>4. /\ arg.key = m.arg.key /\ arg.e.iv = m.e.iv
        /\ arg.aad = m.arg.aad /\ arg.e.ciphertext = m.e.ciphertext
    BY <2>3 DEF Tag
  <2>5. m.e = arg.e
    BY <2>1, <2>2, <2>4, <1>a, PartsFact
  <2>6. /\ m.e.ciphertext.key = arg.key /\ m.e.ciphertext.iv = arg.e.iv
        /\ m.e.ciphertext.plain = m.arg.plain
        /\ m.e.ciphertext.size = Size[m.arg.plain]
    BY <2>2, <2>4 DEF Ciphertext
  <2>7. buf = [holds |-> m.arg.plain, size |-> Size[m.arg.plain] + BLOCK]
    BY <1>a, <2>4, <2>6 DEF BufInv
  <2>8. buf' = [holds |-> m.arg.plain, size |-> Size[m.arg.plain]]
    BY <2>0, <2>4, <2>6, <2>7
  <2> QED
    BY <2>4, <2>5, <2>8
<1>4. ret' = "ok" => Verified
  BY DEF DecryptFinal
<1> QED
  BY <1>2, <1>3, <1>4

LEMMA ResultStep ==
  Inductive /\ CipherStep /\ UNCHANGED memVars
    => ComputesCrypto' /\ OpensOnlySealed'
<1> SUFFICES ASSUME Inductive, CipherStep, UNCHANGED memVars
             PROVE  ComputesCrypto' /\ OpensOnlySealed'
  OBVIOUS
<1>1. \A m \in made' :
        m.e = Encrypt(m.arg.key, m.e.iv, m.arg.plain, Size[m.arg.plain],
                      m.arg.aad)
  BY MadeStep DEF MadeInv
<1>2. CASE DecryptFinal
  <2>1. /\ arg' = arg /\ made' = made
        /\ \/ Verified /\ ret' = "ok"
           \/ Verified /\ ret' = "verify" /\ buf' = Clear
           \/ ~Verified /\ ret' = "tag" /\ buf' = Clear
    BY <1>2 DEF DecryptFinal, Wiped
  <2>2. Authentic(arg.key, arg.e, arg.aad)' <=> Authentic(arg.key, arg.e, arg.aad)
    BY <2>1 DEF Authentic
  <2>3. ret' \in {"ok", "tag"} =>
          (ret' = "ok" <=> Authentic(arg.key, arg.e, arg.aad)')
    BY <1>2, <2>1, <2>2, VerifiedFact
  <2>4. ComputesCrypto'
    BY <1>1, <2>3 DEF ComputesCrypto
  <2>5. OpensOnlySealed'
    BY <1>2, <2>1, VerifiedFact DEF OpensOnlySealed
  <2> QED
    BY <2>4, <2>5
<1>3. CASE GetTag
  <2>1. arg'.op = "encrypt"
    BY <1>3 DEF GetTag, Inductive, ArgInv
  <2> QED
    BY <1>1, <2>1 DEF ComputesCrypto, OpensOnlySealed
<1>4. CASE EncryptFails
  <2>1. arg'.op = "encrypt"
    BY <1>4 DEF EncryptFails
  <2> QED
    BY <1>1, <2>1 DEF ComputesCrypto, OpensOnlySealed
<1>5. CASE DecryptFails
  <2>1. pc' = "idle" /\ ret' = pc /\ pc \in Calls /\ arg.op = "decrypt"
    BY <1>5 DEF DecryptFails, Inductive, TypeOK
  <2>2. pc \notin {"update", "set_tag"} => buf = Clear
    BY <1>5, <2>1 DEF DecryptFails, Inductive, EmptyInv, ArgInv, Calls
  <2>3. pc \notin {"update", "set_tag"} => buf' = Clear
    BY <1>5, <2>2 DEF DecryptFails
  <2>4. ret' \notin {"ok", "tag"}
    BY <2>1 DEF Calls
  <2> QED
    BY <1>1, <2>1, <2>3, <2>4
       DEF ComputesCrypto, OpensOnlySealed, NotWipedReturns
<1>6. CASE ~DecryptFinal /\ ~GetTag /\ ~EncryptFails /\ ~DecryptFails
  <2>1. pc' # "idle"
    BY <1>6 DEF CipherStep, BeginEncrypt, BeginDecrypt, RandomIv,
       NewContext, InitContext, AfterInit, AddAad, EncryptUpdate,
       EncryptFinal, DecryptUpdate, SetTag
  <2> QED
    BY <1>1, <2>1 DEF ComputesCrypto, OpensOnlySealed
<1> QED
  BY <1>2, <1>3, <1>4, <1>5, <1>6

-----------------------------------------------------------------------------
(* The theorems.                                                            *)

(* Step by step, through every failure, the calls keep the invariant.       *)
THEOREM InductiveInvariant == Spec => []Inductive
<1>1. ASSUME Inductive, [Next]_vars PROVE Inductive'
  <2>1. CASE CipherStep /\ UNCHANGED memVars
    BY <1>1, <2>1, MemStepInv, TypeStep, LiveStep, ArgStep, CtxStep, EncStep,
       BufStep, EmptyStep, MadeStep, ResultStep DEF Inductive
  <2>2. CASE MemStep /\ UNCHANGED cipherVars
    BY <1>1, <2>2, MemStepInductive
  <2>3. CASE UNCHANGED vars
    <3>1. UNCHANGED <<cipherVars, memVars>>
      BY <2>3 DEF vars
    <3>2. MemInv' /\ MemTypeOK'
      BY <1>1, <3>1, MemStepInv DEF Inductive, MemInv
    <3> QED
      BY <1>1, <3>1, <3>2 DEF Inductive, TypeOK, LiveInv, ArgInv,
         EncryptCalls, DecryptCalls, Known, CtxInv, EncInv, BufInv, EmptyInv, MadeInv,
         ComputesCrypto, OpensOnlySealed, cipherVars, memVars
  <2> QED
    BY <1>1, <2>1, <2>2, <2>3 DEF Next
<1> QED
  BY <1>1, InitInductive, PTL DEF Spec

(* Every variable of Encrypt, Decrypt and the key and buffer objects keeps  *)
(* its type.                                                                *)
THEOREM TypeCorrect == Spec => []TypeOK
BY InductiveInvariant, PTL DEF Inductive

(* No return of Encrypt or Decrypt, whichever OpenSSL call failed, leaks    *)
(* the EVP context or frees it twice.                                       *)
THEOREM ContextFreedHolds == Spec => []ContextFreed
<1>1. Inductive => ContextFreed
  BY DEF Inductive, LiveInv, Allocated, Keyed, ContextFreed
<1> QED
  BY <1>1, InductiveInvariant, PTL

(* Encrypt and Decrypt, call by call, compute what Crypto states.           *)
THEOREM ComputesCryptoHolds == Spec => []ComputesCrypto
BY InductiveInvariant, PTL DEF Inductive

(* Decrypt gives out only what was encrypted under the same key, IV and     *)
(* additional data; every failed return but the two that do not wipe leaves *)
(* the caller's vector empty.                                               *)
THEOREM OpensOnlySealedHolds == Spec => []OpensOnlySealed
BY InductiveInvariant, PTL DEF Inductive

(* A key is in one living SecureKey at most, through every sequence of      *)
(* moves, failed generations and destructions.                              *)
THEOREM KeyInOnePlaceHolds == Spec => []KeyInOnePlace
BY InductiveInvariant, PTL DEF Inductive, MemInv

(* Every block of a SecureBuffer has one owner, or nothing of its secret is *)
(* left.                                                                    *)
THEOREM OwnedOrWipedHolds == Spec => []OwnedOrWiped
BY InductiveInvariant, PTL DEF Inductive, MemInv

(* No move, to another object or to itself, loses a key.                    *)
THEOREM KeyNotLostHolds == Spec => KeyNotLost
<1>1. ASSUME Inductive, [Next]_vars PROVE [KeptOrGivenAway]_memVars
  <2>1. CASE MemStep
    BY <1>1, <2>1, MemStepKeeps DEF MemStep, Inductive
  <2>2. CASE UNCHANGED memVars
    BY <2>2
  <2> QED
    BY <1>1, <2>1, <2>2 DEF Next, vars
<1> QED
  BY <1>1, InductiveInvariant, PTL DEF Spec, KeyNotLost, KeptOrGivenAway
=============================================================================
