---------------------------- MODULE MCEnclaveClient ----------------------------
(* Instances of EnclaveClient for TLC: the example's own session, and a     *)
(* user who makes a connection for each call and repeats one that failed,   *)
(* next to another client that loads a module of its own.                   *)
EXTENDS EnclaveClient, TLC

MCNames == {"test_function"}
MCNameSize == "test_function" :> 13

MCData == {"code", "other", "large"}
MCDataSize == ("code" :> 5) @@ ("other" :> 3) @@ ("large" :> 10485760)

Example == ExampleMain("code", "other", "test_function", "other")

LoadAndInvoke == OneEach(<<LoadModule("code"),
                           InvokeFunction("test_function", "large")>>)

StoreAndRetrieve == OneEach(<<StoreData("test_function", "large"),
                              RetrieveData("test_function")>>)

OtherLoads == {[fault |-> "none", cmd |-> "call",
                call |-> LoadModule("other")]}

(* What the theorems about the client suppose holds here; only the example  *)
(* makes several calls on one connection.                                   *)
ASSUME MCAssumption ==
  /\ OneModule /\ KindOthers /\ OwnModule
  /\ Program # Example => OneCallEach
=============================================================================
