--------------------------------- MODULE Wire ---------------------------------
(***************************************************************************)
(* The byte layouts of protocol.cpp and of EncryptedData: a value is       *)
(* serialized, its bytes may be damaged on their way, and the receiver     *)
(* reads them back field by field.  Bytes take BASE values and the integer *)
(* types Width[t] bytes, so that the wrap of a uint32_t comes into reach.  *)
(***************************************************************************)
EXTENDS Naturals, SequencesExt, FiniteSetsExt

CONSTANTS
  BASE,          \* the values of a byte, 256
  Width,         \* bytes of "u8", "u16", "u32" and "u64"
  MAX_STRING,    \* ReadString's limit, 1024 * 1024
  MAX_BYTES,     \* ReadBytes' limit, 10 * 1024 * 1024
  AES_IV_SIZE,   \* 12
  AES_TAG_SIZE,  \* 16
  Messages,      \* Messages[k]: the values of kind k that are sent
  MaxDamage      \* bound: damages done to one message

VARIABLES
  kind,    \* which structure is sent
  sent,    \* its fields, in the order of its layout
  wire,    \* its bytes, as they arrive
  damage,  \* how often they were damaged
  verdict, \* "in_transit", "reading", "accepted", "refused" or "undefined"
  offset,  \* as in the Deserialize functions
  got      \* the fields read so far

vars == <<kind, sent, wire, damage, verdict, offset, got>>

(* The fields of each structure in the order its Serialize writes and its   *)
(* Deserialize reads them.  A string or bytes field has its length in       *)
(* front; the rest is whatever follows.                                     *)
MessageHeader         == <<"u32", "u16", "u8", "u8", "u32", "u32">>
Request               == MessageHeader \o <<"rest">>
Response              == MessageHeader \o <<"u8", "rest">>
LoadModuleRequest     == <<"bytes">>
LoadModuleResponse    == <<"u64">>
InvokeFunctionRequest == <<"u64", "string", "bytes">>
StoreDataRequest      == <<"string", "bytes">>
RetrieveDataRequest   == <<"string">>
EncryptedData         == <<"u32", "u32", "u32", "iv", "tag", "rest">>

Layout == [
  request       |-> Request,
  response      |-> Response,
  load          |-> LoadModuleRequest,
  load_response |-> LoadModuleResponse,
  invoke        |-> InvokeFunctionRequest,
  store         |-> StoreDataRequest,
  retrieve      |-> RetrieveDataRequest,
  encrypted     |-> EncryptedData]

Framed == {"request", "response", "encrypted"}

WORD == BASE ^ Width["u32"]
Bytes == 0..BASE - 1
IsInt(t) == t \in DOMAIN Width

ASSUME WireAssumption ==
  /\ BASE \in Nat \ {0, 1}
  /\ Width \in [{"u8", "u16", "u32", "u64"} -> Nat \ {0}]
  /\ {MAX_STRING, MAX_BYTES, AES_IV_SIZE, AES_TAG_SIZE, MaxDamage} \subseteq Nat
  /\ DOMAIN Messages \subseteq DOMAIN Layout
  /\ \A k \in DOMAIN Messages : \A s \in Messages[k] :
       DOMAIN s = DOMAIN Layout[k]

-----------------------------------------------------------------------------
(* Writing: integers in little-endian order, lengths cast to uint32_t.      *)
LE(v, w) == [i \in 1..w |-> (v \div BASE ^ (i - 1)) % BASE]

WriteField(t, v) ==
  CASE IsInt(t)                 -> LE(v, Width[t])
    [] t \in {"string", "bytes"} -> LE(Len(v), Width["u32"]) \o v
    [] OTHER                    -> v

Serialize(k, fields) ==
  FlattenSeq([i \in DOMAIN fields |-> WriteField(Layout[k][i], fields[i])])

-----------------------------------------------------------------------------
(* Mutant of Value: the bytes after the first are shifted too far.          *)
ValueShifted(bytes) ==
  MapThenSumSet(LAMBDA i : bytes[i] * BASE ^ (IF i = 1 THEN 0 ELSE i),
                DOMAIN bytes)

Value(bytes) ==
  MapThenSumSet(LAMBDA i : bytes[i] * BASE ^ (i - 1), DOMAIN bytes)

FieldOK(t, v) ==
  IF IsInt(t) THEN v \in 0..BASE ^ Width[t] - 1 ELSE v \in Seq(Bytes)

TypeOK ==
  /\ sent \in Messages[kind]
  /\ wire \in Seq(Bytes)
  /\ damage \in 0..MaxDamage
  /\ verdict \in {"in_transit", "reading", "accepted", "refused", "undefined"}
  /\ offset \in Nat
  /\ Len(got) <= Len(Layout[kind])
  /\ \A i \in DOMAIN got : FieldOK(Layout[kind][i], got[i])

Init ==
  /\ kind \in DOMAIN Messages
  /\ sent \in Messages[kind]
  /\ wire = Serialize(kind, sent)
  /\ damage = 0
  /\ verdict = "in_transit"
  /\ offset = 0
  /\ got = <<>>

(* Whatever happens to bytes on their way: some are lost at the end, one is *)
(* added, one is changed.                                                   *)
Damage ==
  /\ verdict = "in_transit" /\ damage < MaxDamage
  /\ \/ \E n \in 0..Len(wire) - 1 : wire' = SubSeq(wire, 1, n)
     \/ \E b \in Bytes : wire' = Append(wire, b)
     \/ \E i \in DOMAIN wire, b \in Bytes : wire' = [wire EXCEPT ![i] = b]
  /\ damage' = damage + 1
  /\ UNCHANGED <<kind, sent, verdict, offset, got>>

-----------------------------------------------------------------------------
(* Reading.  The Deserialize functions that copy integers out unchecked     *)
(* compare the size first.                                                  *)
Sum(ts) == MapThenSumSet(LAMBDA i : Width[ts[i]], DOMAIN ts)

MinSize(k) ==
  CASE k = "request"   -> Sum(MessageHeader)
    [] k = "response"  -> Sum(MessageHeader) + 1
    [] k = "encrypted" -> 3 * Width["u32"]
    [] k \in {"invoke", "load_response"} -> Width["u64"]
    [] OTHER -> 0

Deserialize ==
  /\ verdict = "in_transit"
  /\ verdict' = IF Len(wire) < MinSize(kind) THEN "refused" ELSE "reading"
  /\ UNCHANGED <<kind, sent, wire, damage, offset, got>>

Field == Layout[kind][Len(got) + 1]

(* Mutant of Fits: a comparison that is one too lenient.                    *)
FitsOneMore(n) == offset + n <= Len(wire) + 1

Fits(n) == offset + n <= Len(wire)

Refuse == verdict' = "refused" /\ UNCHANGED <<offset, got>>

(* A read past the end finds what happens to lie there.                     *)
Slice(from, n) ==
  [i \in 1..n |-> IF from + i <= Len(wire) THEN wire[from + i] ELSE 0]

(* The next n bytes have become a field.                                    *)
Take(n, field) ==
  /\ offset' = offset + n
  /\ got' = Append(got, field)
  /\ verdict' = CASE offset' > Len(wire) -> "undefined"
                  [] offset' <= Len(wire) /\ Len(got') = Len(Layout[kind]) ->
                       "accepted"
                  [] OTHER -> "reading"

(* ReadUInt8, ReadUInt16, ReadUInt32; a uint64_t is copied without a check. *)
ReadInt ==
  /\ IsInt(Field)
  /\ IF Field = "u64" \/ Fits(Width[Field])
     THEN Take(Width[Field], Value(Slice(offset, Width[Field]))) ELSE Refuse

(* Mutant of WithinLimit: the longest string is refused.                    *)
BelowLimit(t, n) == n < (IF t = "string" THEN MAX_STRING ELSE MAX_BYTES)

WithinLimit(t, n) == n <= (IF t = "string" THEN MAX_STRING ELSE MAX_BYTES)

(* ReadString and ReadBytes.                                                *)
ReadPrefixed ==
  /\ Field \in {"string", "bytes"}
  /\ LET w == Width["u32"]
         len == Value(Slice(offset, w))
     IN  IF Fits(w) /\ WithinLimit(Field, len) /\ Fits(w + len)
         THEN Take(w + len, Slice(offset + w, len)) ELSE Refuse

(* The sum of the sizes, which the code adds as uint32_t.                   *)
Total ==
  MinSize(kind) + IF kind = "encrypted" THEN got[1] + got[2] + got[3]
                  ELSE got[5]

Announced == Total % WORD

(* Mutant of SizeMatches: more bytes than announced are taken as well.      *)
SizeAtLeast == Len(wire) >= Announced

SizeMatches == Len(wire) = Announced

TakeBytes(n) == Take(n, Slice(offset, n))

(* EncryptedData compares the sizes before it copies the IV, the others     *)
(* before they take the payload.                                            *)
ReadBlock ==
  /\ Field \in {"iv", "tag", "rest"}
  /\ CASE Field = "iv"  -> IF /\ got[1] = AES_IV_SIZE /\ got[2] = AES_TAG_SIZE
                              /\ SizeMatches
                           THEN TakeBytes(AES_IV_SIZE) ELSE Refuse
       [] Field = "tag" -> TakeBytes(AES_TAG_SIZE)
       [] OTHER -> IF kind = "encrypted" \/ SizeMatches
                   THEN TakeBytes(Len(wire) - offset) ELSE Refuse

Read ==
  /\ verdict = "reading"
  /\ ReadInt \/ ReadPrefixed \/ ReadBlock
  /\ UNCHANGED <<kind, sent, wire, damage>>

Next == Damage \/ Deserialize \/ Read

Spec == Init /\ [][Next]_vars

-----------------------------------------------------------------------------
(* Properties.                                                              *)

(* "Bounds checked during deserialization": whatever the length fields in   *)
(* it say, no Deserialize of the protocol reads past the end of its vector. *)
(* EncryptedData::Deserialize does in one case, that of a ciphertext size   *)
(* with which the sum of the sizes wraps in uint32_t and so compares equal  *)
(* to a vector that is too short for the IV and the tag.                    *)
ReadsInBounds ==
  offset > Len(wire) =>
    /\ kind = "encrypted" /\ Total >= WORD
    /\ Len(wire) < MinSize(kind) + AES_IV_SIZE + AES_TAG_SIZE

(* What Serialize wrote is read back field for field; it is refused exactly *)
(* when a string or a vector is longer than the reader's limit.             *)
TooLong == \E i \in DOMAIN sent :
             /\ Layout[kind][i] \in {"string", "bytes"}
             /\ Len(sent[i]) > IF Layout[kind][i] = "string"
                               THEN MAX_STRING ELSE MAX_BYTES

RoundTrip ==
  damage = 0 => /\ verdict = "accepted" => got = sent /\ ~TooLong
                /\ verdict = "refused" => TooLong

(* What is accepted is what the bytes say: serialized again it gives the    *)
(* bytes up to where the reader stopped, all of them for a framed message,  *)
(* and the size in the header is the size of the payload although it was    *)
(* compared in uint32_t.                                                    *)
NothingInvented ==
  verdict = "accepted" =>
    /\ Serialize(kind, got) = SubSeq(wire, 1, offset)
    /\ kind \in Framed => offset = Len(wire)
    /\ kind \in {"request", "response"} => got[5] = Len(Last(got))
    /\ kind = "encrypted" => got[3] = Len(Last(got))
=============================================================================
