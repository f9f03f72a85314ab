-------------------------------- MODULE MCWire --------------------------------
(* Instances of Wire: bytes of four values and a uint32_t of two bytes, so  *)
(* that sums of sizes wrap at 16; contents from empty to one byte too long. *)
EXTENDS Wire, TLC

MCWidth == [u8 |-> 1, u16 |-> 1, u32 |-> 2, u64 |-> 2]

Filled(n) == [i \in 1..n |-> 2]
Strings == {Filled(n) : n \in 0..MAX_STRING + 1}
Vectors == {Filled(n) : n \in 0..MAX_BYTES + 1}
Numbers == {0, 15}

(* MAGIC, VERSION, a command, no flags, the payload's size, its checksum.   *)
Header(payload) == <<6, 1, 3, 0, Len(payload), 9>>

(* What EncryptedData::Serialize writes; the enclave keeps it in its maps.  *)
MCEncrypted == [
  encrypted |-> {<<AES_IV_SIZE, AES_TAG_SIZE, Len(c), Filled(AES_IV_SIZE),
                   Filled(AES_TAG_SIZE), c>> : c \in Vectors}]

MCMessages == MCEncrypted @@ [
  load          |-> {<<d>> : d \in Vectors},
  load_response |-> {<<h>> : h \in Numbers},
  invoke        |-> {<<h, n, d>> : h \in Numbers, n \in Strings, d \in Vectors},
  store         |-> {<<n, d>> : n \in Strings, d \in Vectors},
  retrieve      |-> {<<n>> : n \in Strings},
  request       |-> {Header(p) \o <<p>> : p \in Vectors},
  response      |-> {Header(p) \o <<s, p>> : s \in {0, 3}, p \in Vectors}]
=============================================================================
