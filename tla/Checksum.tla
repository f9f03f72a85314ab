------------------------------- MODULE Checksum -------------------------------
(***************************************************************************)
(* CalculateCRC32 and ValidateMessage (protocol.cpp), on bits: a byte or a *)
(* word is the set of its one bits.  A message is made the way the client  *)
(* and the server make theirs, damaged on its way, and validated.          *)
(***************************************************************************)
EXTENDS Naturals, SequencesExt, FiniteSetsExt

CONSTANTS
  Payloads,    \* the payloads that are sent, sequences of bytes
  HeaderBits,  \* the bits of magic, version and payload_size that may flip
  MaxFlips     \* bound: bits that flip in one message

Byte == 0..7
Word == 0..31

ASSUME ChecksumAssumption ==
  /\ Payloads \subseteq Seq(SUBSET Byte)
  /\ HeaderBits \subseteq Word
  /\ MaxFlips \in Nat

VARIABLES
  payload,  \* what was sent
  msg,      \* the header's fields and the payload, as they arrive
  flips,    \* bits flipped so far
  verdict   \* "in_transit", "valid" or "invalid"

vars == <<payload, msg, flips, verdict>>

-----------------------------------------------------------------------------
(* A number of up to 32 bits as the set of its one bits.                    *)
BitsOf(n) == {b \in 0..30 : (n \div 2 ^ b) % 2 = 1}

MAGIC == {30, 27, 26, 25, 24, 22, 18, 16, 14, 12, 9, 8, 6, 3, 1, 0}
VERSION == {0}

(* The generator of CRC-32 as a polynomial.                                 *)
GENERATOR == {32, 26, 23, 22, 16, 12, 11, 10, 8, 7, 5, 4, 2, 1, 0}

(* Mutant of POLYNOMIAL: the generator's bits are not reversed.             *)
NORMAL_POLYNOMIAL == GENERATOR \ {32}

(* 0xEDB88320                                                               *)
POLYNOMIAL == {31, 30, 29, 27, 26, 24, 23, 21, 20, 19, 15, 9, 8, 5}

(* Mutant of ShiftRight: the register is shifted the other way.             *)
ShiftLeft(crc) == {b + 1 : b \in crc}

ShiftRight(crc) == {b - 1 : b \in crc \ {0}}

Divide(crc, j) ==
  SymDiff(ShiftRight(crc), IF 0 \in crc THEN POLYNOMIAL ELSE {})

NextByte(crc, byte) ==
  FoldLeft(Divide, SymDiff(crc, byte), <<0, 1, 2, 3, 4, 5, 6, 7>>)

Register(data) == FoldLeft(NextByte, Word, data)

CalculateCRC32(data) == Word \ Register(data)

-----------------------------------------------------------------------------
TypeOK ==
  /\ payload \in Payloads
  /\ {msg.magic, msg.version, msg.payload_size, msg.checksum}
       \subseteq SUBSET Word
  /\ msg.payload \in Seq(SUBSET Byte)
  /\ Register(msg.payload) \subseteq Word
  /\ flips \in 0..MaxFlips
  /\ verdict \in {"in_transit", "valid", "invalid"}

(* A message without a payload is sent with checksum 0.                     *)
Init ==
  /\ payload \in Payloads
  /\ msg = [magic |-> MAGIC, version |-> VERSION,
            payload_size |-> BitsOf(Len(payload)),
            checksum |-> IF payload = <<>> THEN {} ELSE CalculateCRC32(payload),
            payload |-> payload]
  /\ flips = 0
  /\ verdict = "in_transit"

Flipped(word, b) == SymDiff(word, {b})

Flip ==
  /\ verdict = "in_transit" /\ flips < MaxFlips
  /\ Len(msg.payload) = Len(payload)
  /\ \/ \E i \in DOMAIN msg.payload, b \in Byte :
          msg' = [msg EXCEPT !.payload[i] = Flipped(@, b)]
     \/ \E b \in Word : msg' = [msg EXCEPT !.checksum = Flipped(@, b)]
     \/ \E f \in {"magic", "version", "payload_size"}, b \in HeaderBits :
          msg' = [msg EXCEPT ![f] = Flipped(@, b)]
  /\ flips' = flips + 1
  /\ UNCHANGED <<payload, verdict>>

(* Or the stream ends early.                                                *)
Truncate ==
  /\ verdict = "in_transit" /\ flips = 0 /\ msg.payload # <<>>
  /\ msg' = [msg EXCEPT !.payload = Front(@)]
  /\ UNCHANGED <<payload, flips, verdict>>

(* Mutants of ValidateMessage: the checksum is not compared; the receiver   *)
(* leaves out the final complement.                                         *)
NoChecksum(m) ==
  /\ m.magic = MAGIC /\ m.version = VERSION
  /\ BitsOf(Len(m.payload)) = m.payload_size

NotComplemented(m) == NoChecksum(m) /\ Register(m.payload) = m.checksum

(* The same for a Request and for a Response.                               *)
ValidateMessage(m) ==
  /\ m.magic = MAGIC /\ m.version = VERSION
  /\ BitsOf(Len(m.payload)) = m.payload_size
  /\ CalculateCRC32(m.payload) = m.checksum

Receive ==
  /\ verdict = "in_transit"
  /\ verdict' = IF ValidateMessage(msg) THEN "valid" ELSE "invalid"
  /\ UNCHANGED <<payload, msg, flips>>

Next == Flip \/ Truncate \/ Receive

Spec == Init /\ [][Next]_vars

-----------------------------------------------------------------------------
(* Properties.                                                              *)

(* What arrives as it was sent is valid, the checksum 0 that GetAttestation *)
(* and SendErrorResponse put on an empty payload included.                  *)
UndamagedIsValid ==
  flips = 0 /\ msg.payload = payload => verdict # "invalid"

(* ValidateMessage accepts nothing but the payload that was sent: a payload *)
(* cut short, or up to MaxFlips bits flipped in payload, checksum and the   *)
(* rest of the header, is noticed.                                          *)
DamageDetected == verdict = "valid" => msg.payload = payload

(* The reference: the remainder of the polynomial division by GENERATOR of  *)
(* the message, its first 32 bits complemented, times x^32; the remainder   *)
(* is complemented as well.  The first bit of a byte is its lowest.         *)
Reduce(poly, d) ==
  IF d \in poly THEN SymDiff(poly, {g + (d - 32) : g \in GENERATOR}) ELSE poly

Remainder(data) ==
  LET n == 8 * Len(data)
      message == UNION {{n + 31 - (8 * (i - 1) + b) : b \in data[i]} :
                          i \in DOMAIN data}
      degrees == [k \in 1..n |-> n + 32 - k]
  IN  FoldLeft(Reduce, SymDiff(message, n..n + 31), degrees)

(* CalculateCRC32 computes the standard checksum, also of damaged data.     *)
IsCRC32 ==
  verdict # "in_transit" =>
    CalculateCRC32(msg.payload)
      = Word \ {31 - d : d \in Remainder(msg.payload)}
=============================================================================
