---------------------------- MODULE MCEnclaveServer ----------------------------
(* Instances of EnclaveServer for TLC: one key and two values for it, a     *)
(* value that fits in the socket's buffer and one that does not, and one    *)
(* request of every kind HandleClient tells apart.                          *)
EXTENDS EnclaveServer, TLC

MCNames == {"test_function", "long"}
MCNameSize == ("test_function" :> 13) @@ ("long" :> 257)

MCData == {"small", "large", "oversized"}
MCDataSize == ("small" :> 1) @@ ("large" :> 10485760)
              @@ ("oversized" :> 10485761)

StoreCall(d)  == [op |-> "store", name |-> "test_function", data |-> d]
Retrieve(n)   == [op |-> "retrieve", name |-> n]
LoadCall      == [op |-> "load", data |-> "small"]
Invoke(h)     == [op |-> "invoke", handle |-> h, name |-> "test_function",
                  data |-> "small"]
Attest        == [op |-> "attest"]

Asks(f, cl)   == [fault |-> f, cmd |-> "call", call |-> cl]
Bare(f, cmd)  == [fault |-> f, cmd |-> cmd, call |-> NoCall]

StoreRequests == {Asks("none", StoreCall("large")),
                  Asks("none", Retrieve("test_function"))}

LoadRequests == {Asks("none", LoadCall), Asks("none", Invoke(1))}

BadRequests == {Asks("magic", StoreCall("small")),
                Asks("size", StoreCall("small")),
                Asks("crc", StoreCall("small")),
                Asks("body", LoadCall),
                Asks("none", StoreCall("oversized")),
                Asks("none", Retrieve("long")),
                Bare("none", "unknown")}

AllKinds == StoreRequests \cup LoadRequests \cup BadRequests
            \cup {Asks("none", Attest), Bare("none", "shutdown")}

FewKinds == StoreRequests \cup {Asks("crc", StoreCall("small")),
                                Bare("none", "shutdown")}

(* For the run with liveness: one request for each way to be answered.      *)
LiveKinds == FewKinds \cup {Asks("body", LoadCall), Asks("none", LoadCall),
                            Bare("none", "unknown")}

ConnSymmetry == Permutations(Conns)
=============================================================================
