------------------------------- MODULE MCCipher -------------------------------
(* An instance of Cipher: two keys that move between two places, one        *)
(* plaintext, with and without additional data, two vectors to put together *)
(* wrongly, and a heap block that two buffers contend for.                  *)
EXTENDS Cipher, TLC

MCSize == "secret" :> 5

Alike == Permutations(Places) \cup Permutations(Buffers) \cup Permutations(IVs)
=============================================================================
