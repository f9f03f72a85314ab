------------------------------ MODULE EnclaveApi ------------------------------
(***************************************************************************)
(* The vocabulary of the enclave's public interface (enclave.hpp): the     *)
(* calls a user can make, their parameter limits and the results they      *)
(* return.  Strings and byte vectors are opaque values that carry a size,  *)
(* which is all the code looks at.                                         *)
(***************************************************************************)
EXTENDS Naturals

CONSTANTS
  Names,         \* strings used as storage keys and as function names
  NameSize,      \* NameSize[n]: the length of string n
  Data,          \* byte vectors used as module code, stored data and params
  DataSize,      \* DataSize[d]: the length of vector d
  Handles,       \* the module identifiers that can be handed out
  TestFunction,  \* the one entry of every module's function table
  MAX_NAME,      \* 256
  MAX_DATA       \* 10 * 1024 * 1024

ASSUME ApiAssumption ==
  /\ NameSize \in [Names -> Nat]
  /\ DataSize \in [Data -> Nat]
  /\ Handles \subseteq Nat \ {0}
  /\ TestFunction \in Names
  /\ NameSize[TestFunction] \in 1..MAX_NAME
  /\ MAX_NAME \in Nat
  /\ MAX_DATA \in Nat

-----------------------------------------------------------------------------
(* The calls.  A ModuleHandle wraps any integer, so a caller may present    *)
(* one that was never handed out: 0 stands for those.                       *)
LoadCalls     == [op : {"load"}, data : Data]
StoreCalls    == [op : {"store"}, name : Names, data : Data]
RetrieveCalls == [op : {"retrieve"}, name : Names]
InvokeCalls   == [op : {"invoke"}, handle : Handles \cup {0},
                  name : Names, data : Data]
AttestCalls   == [op : {"attest"}]
Calls == LoadCalls \cup StoreCalls \cup RetrieveCalls
         \cup InvokeCalls \cup AttestCalls

NoCall == [op |-> "none"]

(* The parameter checks that precede every operation.                       *)
BadName(n) == NameSize[n] = 0 \/ NameSize[n] > MAX_NAME
BadData(d) == DataSize[d] = 0 \/ DataSize[d] > MAX_DATA

Rejected(c) ==
  \/ c.op \in {"load", "store"} /\ BadData(c.data)
  \/ c.op \in {"store", "retrieve", "invoke"} /\ BadName(c.name)

-----------------------------------------------------------------------------
(* Result<T>: a status and, when it is OK, a value.                         *)
ErrorStatus == {"ERROR_INVALID_PARAMETER", "ERROR_CONTEXT_NOT_INITIALIZED",
                "ERROR_CRYPTO_FAILURE", "ERROR_MODULE_LOAD_FAILED",
                "ERROR_FUNCTION_NOT_FOUND"}

Error(s)     == [status |-> s]
OkVoid       == [status |-> "OK"]
OkHandle(h)  == [status |-> "OK", handle |-> h]
OkData(d)    == [status |-> "OK", data |-> d]
OkInvoked(p) == [status |-> "OK", params |-> p, marker |-> 66]
OkAttested   == [status |-> "OK", version |-> 1]
NoResult     == [status |-> "none"]

Results ==
  {NoResult, OkVoid, OkAttested}
  \cup {Error(s) : s \in ErrorStatus}
  \cup {OkHandle(h) : h \in Handles}
  \cup {OkData(d) : d \in Data}
  \cup {OkInvoked(d) : d \in Data}

(* std::map as a function on a growing domain; m[k] = v is Put.             *)
EmptyMap == [k \in {} |-> k]

Put(m, k, v) == [x \in DOMAIN m \cup {k} |-> IF x = k THEN v ELSE m[x]]
=============================================================================
