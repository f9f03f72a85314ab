-------------------------------- MODULE Crypto --------------------------------
(***************************************************************************)
(* AES-256-GCM as CryptoModule uses it, symbolically: a ciphertext is the  *)
(* term of its key, IV and plaintext, a tag the term of everything it      *)
(* authenticates.  EncryptedData's byte layout is kept as the three        *)
(* uint32_t size fields, the total length and the contents, which are what *)
(* Deserialize checks.                                                     *)
(***************************************************************************)
EXTENDS Naturals

CONSTANTS
  AES_IV_SIZE,   \* 12
  AES_TAG_SIZE,  \* 16
  WORD_MOD       \* the modulus of uint32_t

ASSUME CryptoAssumption ==
  /\ AES_IV_SIZE \in Nat
  /\ AES_TAG_SIZE \in Nat
  /\ WORD_MOD \in Nat \ {0}

NoAad == "no_aad"
NoKey == 0

(* GCM is a stream mode: the ciphertext is as long as the plaintext.        *)
Ciphertext(key, iv, plain, size) ==
  [key |-> key, iv |-> iv, plain |-> plain, size |-> size]

Tag(key, iv, aad, ct) == [key |-> key, iv |-> iv, aad |-> aad, ct |-> ct]

(* CryptoModule::Encrypt, when no OpenSSL call fails.                       *)
Encrypt(key, iv, plain, size, aad) ==
  LET ct == Ciphertext(key, iv, plain, size)
  IN  [iv |-> iv, tag |-> Tag(key, iv, aad, ct), ciphertext |-> ct]

(* CryptoModule::Decrypt succeeds when the recomputed tag is the stored one. *)
Authentic(key, e, aad) == e.tag = Tag(key, e.iv, aad, e.ciphertext)

-----------------------------------------------------------------------------
(* EncryptedData::Serialize and Deserialize.                                *)
HEADER_SIZE == 12

Serialize(e) ==
  [iv_size |-> AES_IV_SIZE % WORD_MOD,
   tag_size |-> AES_TAG_SIZE % WORD_MOD,
   ct_size |-> e.ciphertext.size % WORD_MOD,
   size |-> HEADER_SIZE + AES_IV_SIZE + AES_TAG_SIZE + e.ciphertext.size,
   content |-> e]

(* Mutant of Deserializes: the header is forgotten in the total.            *)
DeserializesNoHeader(v) ==
  /\ v.size >= HEADER_SIZE
  /\ v.iv_size = AES_IV_SIZE
  /\ v.tag_size = AES_TAG_SIZE
  /\ v.size = (v.iv_size + v.tag_size + v.ct_size) % WORD_MOD

(* The checks of Deserialize.  The four sizes are added as uint32_t.        *)
Deserializes(v) ==
  /\ v.size >= HEADER_SIZE
  /\ v.iv_size = AES_IV_SIZE
  /\ v.tag_size = AES_TAG_SIZE
  /\ v.size = (HEADER_SIZE + v.iv_size + v.tag_size + v.ct_size) % WORD_MOD

(* What RetrieveData and InvokeFunction need of a stored vector.            *)
Opens(key, v) ==
  /\ Deserializes(v)
  /\ Authentic(key, v.content, NoAad)

Plaintext(v) == v.content.ciphertext.plain
=============================================================================
