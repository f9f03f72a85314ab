-------------------------------- MODULE Cipher --------------------------------
(***************************************************************************)
(* CryptoModule::Encrypt and Decrypt call by call: the EVP context each    *)
(* one allocates, what the calls put into it, the vectors written on the   *)
(* way and the return after each call that may fail, with keys out of the  *)
(* SecureKey objects of SecureMemory.  Crypto states what the calls come   *)
(* to when none fails.                                                     *)
(***************************************************************************)
EXTENDS Crypto, SecureMemory

CONSTANTS
  Plaintexts,
  Size,       \* Size[p]: the bytes of plaintext p
  Aads,       \* additional data, besides NoAad
  IVs,
  BLOCK       \* EVP_CIPHER_block_size of a stream mode, 1

None == "none"
Garbage == "garbage"

ASSUME CipherAssumption ==
  /\ NoKey \notin Keys
  /\ NoAad \notin Aads
  /\ {None, Garbage} \cap Plaintexts = {}
  /\ Size \in [Plaintexts -> Nat]
  /\ BLOCK \in Nat

VARIABLES
  pc,      \* the OpenSSL call that comes next, or "idle"
  arg,     \* the arguments of the call being made
  live,    \* EVP contexts allocated and not freed
  ctx,     \* what the context holds
  enc,     \* *encrypted of Encrypt
  buf,     \* plaintext of Decrypt
  ret,     \* "ok", "tag" (it does not match), the call that failed, or None
  made     \* what Encrypt has returned, with what it was given

cipherVars == <<pc, arg, live, ctx, enc, buf, ret, made>>
vars == <<cipherVars, memVars>>

EmptyCtx == [key |-> NoKey, iv |-> None, aad |-> NoAad, text |-> None]
Blank == [iv |-> None, tag |-> None, ciphertext |-> None]
Clear == [holds |-> None, size |-> 0]

(* The key a call gets: GetKeyData is null for an object moved from.        *)
GetKeyData(p) == IF key[p].valid THEN key[p].data ELSE NoKey
GivenKeys == {GetKeyData(p) : p \in {q \in Places : key[q].alive}}

Encrypting == [op : {"encrypt"}, key : GivenKeys,
               aad : Aads \cup {NoAad}, plain : Plaintexts]

(* What Decrypt may be given: parts of different results put together.      *)
Known == {m.e : m \in made}
Decrypting == [op : {"decrypt"}, key : GivenKeys,
               aad : Aads \cup {NoAad},
               e : [iv : {e.iv : e \in Known}, tag : {e.tag : e \in Known},
                    ciphertext : {e.ciphertext : e \in Known}]]

Calls == {"rand", "new", "init", "aad", "update", "final", "get_tag",
          "set_tag", "verify"}

TypeOK ==
  /\ MemTypeOK
  /\ pc \in Calls \cup {"idle"}
  /\ live \in 0..1
  /\ buf.holds \in Plaintexts \cup {None, Garbage} /\ buf.size \in Nat
  /\ ret \in Calls \cup {None, "ok", "tag"}
  /\ \A m \in made : m.arg.key \in drawn /\ m.e.iv \in IVs

Init ==
  /\ MemInit
  /\ pc = "idle" /\ arg = None /\ ret = None
  /\ live = 0 /\ ctx = EmptyCtx
  /\ enc = Blank /\ buf = Clear /\ made = {}

-----------------------------------------------------------------------------
BeginEncrypt ==
  /\ pc = "idle"
  /\ arg' \in Encrypting
  /\ pc' = "rand" /\ ret' = None
  /\ enc' = Blank /\ buf' = Clear
  /\ UNCHANGED <<live, ctx, made>>

(* The enclave passes an empty vector.                                      *)
BeginDecrypt ==
  /\ pc = "idle"
  /\ arg' \in Decrypting
  /\ pc' = "new" /\ ret' = None
  /\ enc' = Blank /\ buf' = Clear
  /\ UNCHANGED <<live, ctx, made>>

(* Mutant of Cleanup: the context is freed twice.                           *)
FreeTwice == live' = live - 2

(* The lambda that frees the context.                                       *)
Cleanup == live' = live - 1

(* The failed calls after which Encrypt calls cleanup() and returns.  The   *)
(* lambda does not exist yet at the two calls before them.                  *)
EncryptCleanups == {"init", "aad", "update", "final", "get_tag"}

(* A call of Encrypt does not return 1, or no context can be allocated.     *)
EncryptFails ==
  /\ pc # "idle" /\ arg.op = "encrypt"
  /\ IF pc \in EncryptCleanups THEN Cleanup ELSE UNCHANGED live
  /\ pc' = "idle" /\ ret' = pc
  /\ ctx' = EmptyCtx /\ enc' = Blank
  /\ UNCHANGED <<arg, buf, made>>

(* Mutant of DecryptCleanups: one of the returns forgets to call cleanup(). *)
SetTagForgotten == {"init", "aad", "update"}

(* The failed calls after which Decrypt calls cleanup() and returns.        *)
DecryptCleanups == {"init", "aad", "update", "set_tag"}

(* A call of Decrypt before the final one fails; the plaintext vector, if   *)
(* it has been resized, keeps what is in it.                                *)
DecryptFails ==
  /\ pc \notin {"idle", "verify"} /\ arg.op = "decrypt"
  /\ IF pc \in DecryptCleanups THEN Cleanup ELSE UNCHANGED live
  /\ buf' = IF pc = "update"
            THEN [holds |-> Garbage, size |-> arg.e.ciphertext.size + BLOCK]
            ELSE buf
  /\ pc' = "idle" /\ ret' = pc
  /\ ctx' = EmptyCtx
  /\ UNCHANGED <<arg, enc, made>>

RandomIv ==
  /\ pc = "rand"
  /\ \E iv \in IVs \ {e.iv : e \in Known} : enc' = [enc EXCEPT !.iv = iv]
  /\ pc' = "new"
  /\ UNCHANGED <<arg, live, ctx, buf, ret, made>>

NewContext ==
  /\ pc = "new"
  /\ live' = live + 1
  /\ pc' = "init"
  /\ UNCHANGED <<arg, ctx, enc, buf, ret, made>>

(* Mutant of AfterInit: additional data is not fed to the cipher.           *)
SkipAad == "update"

AfterInit == IF arg.aad = NoAad THEN "update" ELSE "aad"

(* A null key is accepted here and refused by the calls that need it.       *)
InitContext ==
  /\ pc = "init"
  /\ ctx' = [EmptyCtx EXCEPT !.key = arg.key,
               !.iv = IF arg.op = "encrypt" THEN enc.iv ELSE arg.e.iv]
  /\ pc' = AfterInit
  /\ UNCHANGED <<arg, live, enc, buf, ret, made>>

AddAad ==
  /\ pc = "aad" /\ ctx.key # NoKey
  /\ ctx' = [ctx EXCEPT !.aad = arg.aad]
  /\ pc' = "update"
  /\ UNCHANGED <<arg, live, enc, buf, ret, made>>

(* EVP_EncryptUpdate writes into a vector that has room for a block more.   *)
EncryptUpdate ==
  /\ pc = "update" /\ arg.op = "encrypt" /\ ctx.key # NoKey
  /\ LET ct == Ciphertext(ctx.key, ctx.iv, arg.plain, Size[arg.plain] + BLOCK)
     IN  enc' = [enc EXCEPT !.ciphertext = ct]
  /\ pc' = "final"
  /\ UNCHANGED <<arg, live, ctx, buf, ret, made>>

(* EVP_EncryptFinal_ex adds nothing; the vector is cut to what was written. *)
EncryptFinal ==
  /\ pc = "final"
  /\ enc' = [enc EXCEPT !.ciphertext.size = Size[arg.plain]]
  /\ ctx' = [ctx EXCEPT !.text = enc'.ciphertext]
  /\ pc' = "get_tag"
  /\ UNCHANGED <<arg, live, buf, ret, made>>

ComputedTag == Tag(ctx.key, ctx.iv, ctx.aad, ctx.text)

GetTag ==
  /\ pc = "get_tag"
  /\ enc' = [enc EXCEPT !.tag = ComputedTag]
  /\ Cleanup
  /\ pc' = "idle" /\ ret' = "ok"
  /\ ctx' = EmptyCtx
  /\ made' = made \cup {[arg |-> arg, e |-> enc']}
  /\ UNCHANGED <<arg, buf>>

(* The plaintext comes out before its tag has been looked at.               *)
DecryptUpdate ==
  /\ pc = "update" /\ arg.op = "decrypt" /\ ctx.key # NoKey
  /\ LET ct == arg.e.ciphertext
     IN  /\ buf' = [holds |-> IF ct.key = ctx.key /\ ct.iv = ctx.iv
                              THEN ct.plain ELSE Garbage,
                    size |-> ct.size + BLOCK]
         /\ ctx' = [ctx EXCEPT !.text = ct]
  /\ pc' = "set_tag"
  /\ UNCHANGED <<arg, live, enc, ret, made>>

SetTag ==
  /\ pc = "set_tag"
  /\ pc' = "verify"
  /\ UNCHANGED <<arg, live, ctx, enc, buf, ret, made>>

Verified == ComputedTag = arg.e.tag

(* Mutant of Wiped: the plaintext is left to the caller.                 *)
LeftOver == buf

Wiped == Clear

(* EVP_DecryptFinal_ex fails when the tag does not match or for a reason of *)
(* its own.  The context is freed before its result is looked at.           *)
DecryptFinal ==
  /\ pc = "verify"
  /\ Cleanup
  /\ pc' = "idle" /\ ctx' = EmptyCtx
  /\ \/ /\ Verified /\ ret' = "ok"
        /\ buf' = [buf EXCEPT !.size = arg.e.ciphertext.size]
     \/ /\ ret' = IF Verified THEN "verify" ELSE "tag"
        /\ buf' = Wiped
  /\ UNCHANGED <<arg, enc, made>>

-----------------------------------------------------------------------------
CipherStep ==
  \/ BeginEncrypt \/ BeginDecrypt \/ EncryptFails \/ DecryptFails
  \/ RandomIv \/ NewContext \/ InitContext \/ AddAad
  \/ EncryptUpdate \/ EncryptFinal \/ GetTag
  \/ DecryptUpdate \/ SetTag \/ DecryptFinal

(* A call holds on to its key until it returns.                             *)
MemStep == pc = "idle" /\ MemNext

Next == \/ CipherStep /\ UNCHANGED memVars
        \/ MemStep /\ UNCHANGED cipherVars

Spec == Init /\ [][Next]_vars

-----------------------------------------------------------------------------
(* Properties.                                                              *)

(* Every return of Encrypt and Decrypt, after whichever call failed, has    *)
(* freed the context if one was allocated: none of the cleanup() calls that *)
(* each return makes for itself is missing.                                 *)
ContextFreed == pc = "idle" => live = 0

(* Encrypt returns what Crypto says, and when no OpenSSL call fails Decrypt *)
(* succeeds exactly on what Crypto calls authentic: the step by step        *)
(* functions are the ones the enclave's specification uses.                 *)
ComputesCrypto ==
  /\ \A m \in made :
       m.e = Encrypt(m.arg.key, m.e.iv, m.arg.plain, Size[m.arg.plain],
                     m.arg.aad)
  /\ pc = "idle" /\ ret \in {"ok", "tag"} /\ arg.op = "decrypt" =>
       (ret = "ok" <=> Authentic(arg.key, arg.e, arg.aad))

(* The failed returns of Decrypt after its vector has been resized that do  *)
(* not wipe it: EVP_DecryptUpdate's and that of setting the tag.            *)
NotWipedReturns == {"update", "set_tag"}

(* Whatever Decrypt returns: on success its vector holds what Encrypt was   *)
(* given, under the same key, IV and additional data, and nothing more; on  *)
(* failure it is empty ("Authentication failed - wipe plaintext"), whether  *)
(* the tag did not match or a call failed.  The two returns of              *)
(* NotWipedReturns are left out: there the code does leave plaintext that   *)
(* was never authenticated to the caller, next to its result of false.      *)
OpensOnlySealed ==
  pc = "idle" /\ ret \notin NotWipedReturns \cup {None}
              /\ arg.op = "decrypt" =>
    \/ ret # "ok" /\ buf = Clear
    \/ \E m \in made : /\ ret = "ok"
                       /\ m.e = arg.e
                       /\ m.arg.key = arg.key /\ m.arg.aad = arg.aad
                       /\ buf = [holds |-> m.arg.plain,
                                 size |-> Size[m.arg.plain]]
=============================================================================
