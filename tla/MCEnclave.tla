------------------------------ MODULE MCEnclave -------------------------------
(* An instance of Enclave for TLC.  The sizes sit on the code's boundaries: *)
(* the longest name admitted and one a byte too long, the smallest and the  *)
(* largest vector.                                                          *)
EXTENDS Enclave, TLC

MCNames == {"test_function", "longest", "oversized"}
MCNameSize == ("test_function" :> 13) @@ ("longest" :> 256)
              @@ ("oversized" :> 257)

MCData == {"one", "full"}
MCDataSize == ("one" :> 1) @@ ("full" :> 10485760)

MCHandles == 1..MaxHandle
=============================================================================
