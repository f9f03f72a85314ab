------------------------------ MODULE MCChecksum ------------------------------
(* An instance of Checksum: payloads of up to three bytes, among them the   *)
(* empty one, zeros and ones.                                               *)
EXTENDS Checksum

MCPayloads == {<<>>, <<{}>>, <<Byte, {}>>, <<{0, 1}, {4}, {7, 2}>>}
=============================================================================
