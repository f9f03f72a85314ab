# A TLA+ model of OpenEnclave

OpenEnclave is a simulated secure enclave in C++17: a library that keeps modules and
data encrypted under a key of its own, and a server that offers it to local clients
over a Unix domain socket. This directory models it in TLA+, checks the model with TLC
and proves its safety with TLAPS. Paths below are relative to the repository.

## 1. The system

| Part | State | Operations | Talks to |
| --- | --- | --- | --- |
| **Enclave core**, `src/core/enclave.cpp`, `include/openenclave/enclave.hpp` | `initialized_`, `master_key_`, `next_module_id_`, `modules_`, `secure_storage_`, `mutex_` | `Create`, destructor, `LoadModule`, `InvokeFunction`, `StoreData`, `RetrieveData`, `GetAttestation` | crypto (calls) |
| **Crypto**, `src/crypto/crypto.cpp`, `include/openenclave/crypto.hpp` | `SecureKey` (bytes, `is_valid_`), `SecureBuffer` (pointer, size), the EVP context of a call | `Encrypt`, `Decrypt`, `EncryptedData::Serialize/Deserialize`, key generation, moves and wipes, hash | OpenSSL |
| **Wire protocol**, `src/core/protocol.cpp` | none | serialisers and parsers, `CalculateCRC32`, `ValidateMessage` | |
| **Server**, `src/server/server.cpp` | `enclave_`, `socket_fd_`, `running_`, `g_server`; in the kernel the socket file and the backlog | `Initialize`, `Run`, `HandleClient`, `DispatchCommand`, six handlers, `Shutdown`, `signal_handler` | enclave and protocol (calls), clients (messages), signals |
| **Example client**, `examples/client_example.cpp` | one connection | five requests in a row | server (messages) |
| Tests, fuzzers, build files | | | |

What is hard in it:

- *Threads.* The five operations of `EnclaveImpl` test `initialized_` and their
  parameters before they take `mutex_`, and use the maps after. `enclave.hpp:119` says
  "Not thread-safe. Caller must synchronize access", yet the code has a mutex. The
  model asks what that mutex achieves when callers do not synchronise.
- *Cryptography that fails.* Any OpenSSL call may fail between two updates.
- *Signals.* `signal_handler` runs all of `Shutdown`, including the destruction of the
  enclave, between any two steps of `main`.
- *Clients.* They connect, stall, send in pieces, disconnect and never read; the server
  serves one at a time with blocking calls.
- *Death and restart.* A killed server leaves its socket file; the next one must start.
- *Sizes.* Length fields from outside are added in `uint32_t` and compared with limits.
- *Error returns.* `Encrypt` and `Decrypt` have thirteen of them, each with its clean-up.
- *Moves.* Keys are moved between objects and wiped behind them.

The hazards, each at its line with the properties that would catch it, are listed in
`PROJECT.json` under `hazards`.

What makes each part correct: the enclave's operations look atomic, a failed one changes
nothing, everything accepted can be decrypted again, no lock is kept. The server answers
each connection exactly once, accepts none without an enclave, executes nothing but
complete valid requests, keeps what it acknowledged, starts over a stale socket file, is
reached through its path, and stops when told. A client fails only for a cause, may repeat
what failed, and always ends. What is serialized is read back, no message is read past its
end, damage is noticed. Every context is freed once, plaintext that fails its verification
is taken back, and a key is in one place at most and lost by no move. Where the code keeps
one of these only with an exception, the property names the exception, and section 3
describes it.

## 2. The modules

| Module | Models |
| --- | --- |
| `EnclaveApi` | the calls, parameter limits, statuses and results of `enclave.hpp` |
| `EnclaveStore` | what an enclave promises: atomic calls on two maps; no key, ciphertext or lock |
| `Crypto` | AES-256-GCM symbolically, `EncryptedData` by its size fields |
| `Enclave` | `EnclaveImpl`: threads, lock, key, maps of ciphertexts |
| `EnclaveProofs` | the inductive invariant of `Enclave` and the theorems that follow |
| `EnclaveRefinement` | the proof that `Enclave` implements `EnclaveStore` |
| `EnclaveServer` | the server process with its clients, signals, kernel objects and an atomic enclave (`INSTANCE EnclaveStore`) |
| `EnclaveServerProofs` | the inductive invariant of `EnclaveServer` and the theorems that follow |
| `EnclaveClient` | the example client's process, composed with all of `EnclaveServer` |
| `EnclaveClientProofs` | the inductive invariant of the composition, and in which module a client's calls run |
| `EnclaveSessionProofs` | why a session fails, and how often its module is loaded |
| `SharedPath` | several server processes on one socket path, call by call |
| `SharedPathProofs` | the same for `SharedPath` |
| `Wire` | every `Serialize` and `Deserialize`, field by field over bytes |
| `Checksum` | `CalculateCRC32` and `ValidateMessage`, on bits |
| `SecureMemory` | `SecureKey` and `SecureBuffer`: moves, wipes, ownership |
| `Cipher` | `Encrypt` and `Decrypt` call by call, composed with `SecureMemory` and compared with `Crypto` |
| `SecureMemoryProofs` | what each operation of a key or a buffer preserves |
| `CipherProofs` | the inductive invariant of `Cipher` with its keys, and the theorems that follow |
| `MC*` | the constants of the TLC runs |

`EnclaveServer` composes the server with `EnclaveStore` and not with `Enclave`: the
process has one thread, and the refinement (model-checked and proved) says that the
abstract enclave is what its callers can see of the detailed one.

### Enclave

A thread's call is a sequence of steps. `Call` enters it; `CheckRefuse`, `CheckPass` and
`GetAttestation` are the early returns and the one operation that takes no lock; `Lock`
is the `lock_guard`; `Seal` and `SealFail` are `Encrypt`; `StoreCommit` and `LoadCommit`
update the map; `FindMiss` and `FindHit` look up; `Open` and `OpenFail` deserialise and
decrypt; `Return` leaves. Every return from a locked region goes through
`UnlockAndReturn`, as it goes through the destructor of the guard. `CreateOk`,
`CreateFail` and `Destroy` are the object's lifetime.

Strings and byte vectors are opaque values with a size, since the code looks only at
sizes. That `RAND_bytes` yields a value not drawn before is an assumption of the model:
`draws` counts them, for keys and IVs alike, and nothing is claimed of the IVs. A
ciphertext is the term of its key, IV and plaintext, a tag the term of all it
authenticates. `Serialize` and `Deserialize` keep the three `uint32_t` size fields and
their arithmetic, modulo `WORD_MOD`.

Calls are made only on a living enclave and it is destroyed only when no call is in
progress: this is what its owner must guarantee in C++. `std::bad_alloc` is not
modelled: the code handles no exception, so one ends the process.

### EnclaveServer

`pc` says where `main` is. The groups are `Starts` (`main` up to `Run`), `Serves` (the
loop and `HandleClient`) and `Leaves`. A connection records how much of its request has
arrived, whether its client is gone, and what it was sent. A request is what
`HandleClient` tells apart: its first fault (magic or version, size, checksum, body), its
command and the call its payload stands for.

- A plain `recv` returns what has arrived: a header in two segments is a short read and
  answered with an error. `recv` with `MSG_WAITALL` is short only when the client closes
  or a signal arrives after some bytes.
- `signal()` of glibc installs handlers with `SA_RESTART`: a blocked call that has
  transferred nothing is resumed, on the descriptor it had. So `accept` fails on a socket
  the handler has closed, and `recv` on a client goes on waiting.
- `SignalShutdown` is the whole of `signal_handler`. It is one step: a second signal in
  the middle of `Shutdown` runs the same idempotent code, save for what `delete` makes
  of being interrupted by itself, which is left out.
- When `Initialize` fails `main` returns with `g_server` still set. `Destruct` is
  `~EnclaveServer`, `ProcessExit` the end of the process; a signal in between runs
  `Shutdown` on what is left of the object (`SignalShutdown`) or crashes
  (`SignalDestroyed`). No property is about this window: the process is ending either way.
- A call into an enclave that was freed under it (`dangling`) crashes or returns any
  result of its type; a call through the null `enclave_` crashes.
- A response no larger than the socket buffer is sent at once, a larger one waits for
  the client to read. Sending to a client that has closed raises `SIGPIPE`, which nothing
  ignores.
- Whatever fails for want of a resource (`Create`, `socket`, `bind`, `listen`, `accept`) is
  a `Fault`.

`Connect`, `SendMore`, `HangUp`, `Restart` and the effects of process termination are not
code of the repository; they are modelled from how the server uses them and marked
`external` in the map. Clients send `GET_ATTESTATION`, `SHUTDOWN` and unknown commands
without a payload.

### EnclaveClient

The client runs a `Program`, a sequence of connects, calls and disconnects:
`ExampleMain` is `main` of the example, `OneEach` a user of the class who makes a
connection for every call. `StartCall`, `ClientSend` and `ReturnTrue` or `ResponseBad`
are `SendRequest`; the request becomes that of the connection in `EnclaveServer`, whose
steps carry it on. The server reads one request per connection, so a call on a
connection already used (`Reused`) sends into a socket nobody reads from. `main` leaves
`module_handle` uninitialized; it starts with any value. `ReturnFalse` ends the program,
or, at most `MaxRetries` times, starts over from the last connect, which is what a user
who repeats a failed call does. `SIGPIPE` ends the client as it ends the server if
nothing of the request has gone out; after a first piece `send` returns its count
(`ClientSendShort`) and `SendRequest` goes on to `recv`. Other clients and the server
behave as in `EnclaveServer`. A program connects before it calls, so the return of
`SendRequest` for want of a socket is not reached. A request without a payload
(`GET_ATTESTATION`) is all sent with its header.

### SharedPath

`EnclaveServer` has one process at a time. Here there are several, each going through
`Initialize`, `Run`, the end of `main` and `Shutdown` call by call; the serving loop is one
state. `pc[s]` is where `main` is in process `s`, and `handler[s]` where `signal_handler`
is that has interrupted it: a signal may arrive at any label at which `g_server` is set,
inside `Initialize`, between Run's check and `running_ = true`, and while the destructor
runs, and other processes run between the steps of the handler. `Start` and `Kill` may
happen at any time. `shared` records who has run at the same time as another, `late` who
was signalled between the check and the assignment. A failed `Initialize` runs `Shutdown`
too, through the destructor.

### Wire

A layout is a sequence of field types; `Serialize` and the reader interpret it. A value
is serialized, its bytes may be damaged, and a reader takes field after field with the
checks of `ReadUInt32`, `ReadString`, `ReadBytes` and of each `Deserialize`, in their
order. A byte has `BASE` values and an integer `Width[t]` bytes, with `uint32_t`
arithmetic modulo `BASE ^ Width["u32"]`: the instance takes 4 values and 2 bytes, so
that the sums of `protocol.cpp:153`, `protocol.cpp:181` and `crypto.cpp:114` wrap at 16,
within reach of the damage. A read past the end is recorded by `offset`.

### Checksum

Bytes and words are sets of bits. The loop of `CalculateCRC32` is a fold over bytes and
bits; the reference is the remainder of a polynomial division. A message is damaged by
flipping bits of the payload, the checksum and the header fields `ValidateMessage` looks
at, or cut short.

### Cipher and SecureMemory

`pc` is the OpenSSL call that comes next. `EncryptFails` and `DecryptFails` are the error
returns after it. The code calls the lambda `cleanup` by hand at each return:
`EncryptCleanups` and `DecryptCleanups` list the failed calls that are followed by one, and
the returns before there is a context, which have none, are the rest. `EVP_DecryptFinal_ex`
fails because of the tag or for a reason of its own. Symbolic
ciphertexts and tags are those of `Crypto`. `Decrypt` may be given any combination of
IV, tag and ciphertext from results of `Encrypt`. Its caller's vector is cleared when a
call begins, as the enclave passes an empty one.

Keys come from `SecureKey` objects (`GetKeyData`, null after a move), which between two
calls are generated, moved and destroyed. Memory keeps its contents after its object has
gone. `SecureBuffer`s own heap blocks, which `new` does not initialize.

## 3. The runs

| Run | Specification | Properties | Shows |
| --- | --- | --- | --- |
| `enclave` | `Enclave!FairSpec` | `TypeOK`, `MutualExclusion`, `DataRecoverable`, `Consistent`, `NothingVanishes`, `ImplementsStore`, `LockReleased` | two unsynchronised threads, every operation, every failure, across two lifetimes; every path out of a locked region releases the lock |
| `server` | `EnclaveServer!Spec` | `TypeOK`, `OneResponse`, `AcknowledgedIsKept`, `InitFailsForCause`, `AcceptsWithEnclave`, `OnlyValidRequestsCount` | two clients, hang-ups, a signal and a fault anywhere, a restart |
| `server_live` | `FairClientsSpec` | `Answered`, `StopsWhenTold` | every queued connection is answered unless the server closes its socket; a signal or a `SHUTDOWN` that reaches the loop ends the process |
| `client` | `ClientFairSpec` | `ClientTypeOK`, `FailsForCause`, `LoadedOnce`, `InvokedOwnModule`, `SessionEnds` | a load and an invoke with a retry, next to another client's load, a signal, a fault and a restart |
| `wire` | `Wire!Spec` | `TypeOK`, `ReadsInBounds`, `RoundTrip`, `NothingInvented` | all structures, `EncryptedData` included, all lengths up to one over the limits, two damages |
| `checksum` | `Checksum!Spec` | `TypeOK`, `UndamagedIsValid`, `DamageDetected`, `IsCRC32` | up to three flipped bits, or a payload cut short |
| `cipher` | `Cipher!Spec` | `TypeOK`, `ContextFreed`, `OpensOnlySealed`, `ComputesCrypto`, `KeyInOnePlace`, `OwnedOrWiped`, `KeyNotLost` | every failing call, keys moved and destroyed in between, results mixed up |
| `path` | `SharedPath!FairSpec` | `TypeOK`, `RunningIsReachable`, `RefusedOnlyByRival`, `ComesUp` | three servers in any overlap, a signal at any label, a fault, kills |

Four runs show where the code departs from what it or its documents say; each is a finding
in `PROJECT.json`:

| Run | Violated | How |
| --- | --- | --- |
| `server_idle_client` | `StopsWhenTold` | under `FairSpec`, which promises nothing of clients, a silent client keeps the server in `recv` after Ctrl+C |
| `server_freed` | `EnclaveOutlivesCalls` | the handler frees the enclave under a running call |
| `server_pipe` | `ClientsCannotKill` | answering a client that has left ends the server |
| `client_example` | `FailsForCause` | the example makes five calls on one connection; with an undisturbed server the second fails, or kills the client |

`StopsWhenTold` counts a crash as an end: the runs above show that the process need not
end well. `AcknowledgedIsKept` and `InvokedOwnModule` speak of one process (`by`), and
`LoadedOnce` of the enclave there is, because nothing is persisted: a handle kept over a
restart may name another client's module, and nothing in the protocol would tell.
`LoadedOnce` says that repeating a failed load is safe: as long as the enclave lives, a
load that took effect is answered with its handle, and one that was cut off by a signal
took the enclave, with its modules, along.

### What else the models show

Not worth a run of their own, but met on the way:

- A signal between the check in `Run` and `running_ = true` (`server.cpp:72-77`) is lost:
  the process goes on in its loop, spinning on a closed socket, with no file at the path.
  It is the one exception `RunningIsReachable` makes for a server that is alone (`late`);
  without it TLC reports the property violated. At every other label a signal leads out
  of the loop or keeps `main` from entering it.
- `HandleRetrieveData` (`server.cpp:259`) answers a failed decryption with
  `ERROR_NOT_FOUND`, although the key is stored.
- The four sizes in `EncryptedData::Deserialize` (`crypto.cpp:114`) are added in
  `uint32_t`. For bytes `Serialize` did not write the sum can wrap: 12 bytes that
  announce an IV of 12, a tag of 16 and a ciphertext of 2^32 - 28 bytes pass the check,
  and `copy_n` reads past their end. `README.md:362` of the repository says "Bounds
  checked during deserialization", and `tests/fuzz/fuzz_crypto.cpp:41` feeds the
  function arbitrary bytes. `ReadsInBounds` is stated with exactly this exception: every
  other read past the end, in this function or in the protocol's, would violate it. The
  enclave deserializes only vectors it has serialized, for which `DataRecoverable` shows
  that nothing wraps.
- A second server started while one runs unlinks its socket file (`server.cpp:44`), and a
  server that stops unlinks whatever is at the path (`server.cpp:105`). Therefore
  `RunningIsReachable` excepts servers that have run at the same time as another; the
  server started after them is reached again.
- The returns of `Decrypt` for a failing `EVP_DecryptUpdate` or `SET_TAG` leave the
  unverified output in the caller's vector (`crypto.cpp:264-278`); `OpensOnlySealed` names
  these two (`NotWipedReturns`) and demands an empty vector of all other failures. The
  enclave's callers drop the vector in every case.
- `ValidateMessage` covers the payload with the checksum and not the command, the flags
  or the status. `DamageDetected` is about payloads, and about requests as they are
  handled: the example client calls `ValidateMessage` on no response.
- The parsers of payloads ignore bytes after the last field. `NothingInvented` demands
  that all bytes are used of framed messages only.

### Bounds

- *Enclave:* two threads suffice for any conflict over the lock; two handles and three
  draws allow a key and two values, an overwrite, a module next to a stored value, and a
  second enclave with a new key. Sizes sit on the limits: 256 and 257 for names, 1 and
  10 MiB for data. `WORD_MOD` is 2^30, because TLC's integers are 32-bit and signed; the
  limits fit it as they fit 2^32, and the proofs hold for both. `MaxHandle` and
  `MaxDraws` bind in `WithinBounds`: a call that would exceed them waits outside the lock.
- *Server:* two connections, one request each, as the server allows, so that one waits
  while the other is served. `BACKLOG` is 0 there, which admits one waiting connection,
  so that the limit is met. `Handles` has as many elements as there can be loads. One
  signal, one fault and, in the safety run, one restart, at any step, in any combination;
  requests of every kind there, and one for each kind of answer in the liveness run.
- *Client:* three connections, so that a failed call can be repeated, and one of another
  client; the parameters of the invoke do not fit in the socket's buffer, so that the
  client waits while it sends. One retry, signal, fault and restart. Which unused
  connection a connect takes makes no difference and is fixed by `CHOOSE`.
- *Wire:* strings of up to 1 and vectors of up to 2 bytes are admitted, and one more is
  tried; two damages can falsify a length and cut or extend the bytes to match.
- *Checksum:* payloads of zero to three bytes and all combinations of up to three flips
  in payload, checksum and the lowest bits of the header's fields.
- *Cipher:* two keys, two places, two IVs, with and without additional data: enough for
  a key in the wrong place and for every wrong combination of two results. One block and
  two buffers, since a second owner is what could go wrong. Places, buffers and IVs are
  symmetric.
- *Path:* three servers, so that two can disturb a third that came later; one fault and
  one signal, at any label of any of them.
- `CHECK_DEADLOCK FALSE`: an enclave whose bounds are used up, a server or client that
  has exited and a message that has been read really stop.

### Fairness

`Enclave!FairSpec` has weak fairness for the steps of each thread: the operating system
runs every thread that can run. Nothing is assumed of the order in which `std::mutex`
admits waiters, so it is not claimed that every call returns.
`EnclaveServer!FairSpec` has weak fairness for `MainStep`, the process itself; steps that
need a client are not part of it. `GoodClients` adds that clients send the rest of their
request and read their response, which no code ensures; it is used for `Answered` and
`StopsWhenTold`, and `server_idle_client` shows that the latter needs it.
`ClientFairSpec` has the same for the server's process, the client's and the other
clients' sending and reading; signals, faults and restarts happen or not.
`SharedPath!FairSpec` has weak fairness for each process's own steps, those of `main` and of
its handler; nobody is obliged to start, signal, stop or kill a server.

### Mutants

Each property of a passing run has a mutated definition under which TLC reports it
violated: a missing lock, a forgotten `cleanup()`, a missing `unlink`, a handler that ignores the
result, and so on. They stand in the modules in front of the definition they replace.

## 4. The proofs

Every theorem holds for all values of the constants the modules' assumptions admit: any
sets of threads, connections, servers, keys and data, all sizes, and any number of
signals, faults and restarts. TLC evaluates all assumptions on the runs' instances. Each
inductive invariant was first checked there with TLC as an invariant.

| Module | Theorems |
| --- | --- |
| `EnclaveProofs` | `InductiveInvariant`, `TypeCorrect`, `MutualExclusionHolds`, `DataRecoverableHolds`, `ConsistentHolds`, `NothingVanishesHolds` |
| `EnclaveRefinement` | `Refinement == Spec => ImplementsStore` |
| `EnclaveServerProofs` | `InductiveInvariant`, `TypeCorrect`, `OneResponseHolds`, `AcknowledgedIsKeptHolds`, `OnlyValidRequestsCountHolds`, `InitFailsForCauseHolds`, `AcceptsWithEnclaveHolds` |
| `EnclaveClientProofs` | `ClientInvariant`, `ClientTypeOKHolds`, `ServerKeepsPromises`, `InvokedOwnModuleHolds` |
| `EnclaveSessionProofs` | `FailsForCauseHolds`, `LoadedOnceHolds` |
| `SharedPathProofs` | `InductiveInvariant`, `TypeCorrect`, `RunningIsReachableHolds`, `RefusedOnlyByRivalHolds` |
| `CipherProofs` | `InductiveInvariant`, `TypeCorrect`, `ContextFreedHolds`, `ComputesCryptoHolds`, `OpensOnlySealedHolds`, `KeyInOnePlaceHolds`, `OwnedOrWipedHolds`, `KeyNotLostHolds` |

`XHolds` states `Spec => []X` for the invariant `X` of section 3, or `Spec => X` for the
action properties `NothingVanishes`, `AcceptsWithEnclave`, `OnlyValidRequestsCount` and
`KeyNotLost`.
`InductiveInvariant` is `Spec => []Inductive`, from which the others follow. The
client's theorems are about `ClientSpec`, the composition, in place of `Spec`.

### Enclave

*Assumptions.* Sizes are naturals, the test function's name is admitted, handles are
`1..MaxHandle`, `NoThread` is no thread, and
`HEADER_SIZE + AES_IV_SIZE + AES_TAG_SIZE + MAX_DATA < WORD_MOD`, which 12 + 12 + 16 +
10 MiB < 2^32 satisfies. Random values are distinct and tags cannot be forged by
construction of the symbolic model.

*The invariant.* `Inductive` is `TypeOK /\ Consistent`. None of the properties is
inductive by itself:

- `MutualExclusion`, that whoever is in the maps is the holder of `mutex_`, is what makes
  the others stable: no other thread changes the maps between a lookup and its use.
- `LifeInv` ties the object's fields to its lifetime: without an enclave there are no
  vectors and no calls.
- `CallInv` carries what a thread has tested to where it relies on it: past the checks its
  parameters are admitted, past the lookup its entry is still there.
- `VectorInv` says where vectors come from: admitted data, the present key, one of the
  values drawn so far. `DataRecoverable` follows, because admitted sizes do not wrap.

Each part is shown to be preserved in a lemma of its own (`TypeStep`, `MutexStep`,
`LifeStep`, `CallStep`, `VectorStep`), with one step per action it depends on.

*The refinement.* The mapping decrypts: `kv` and `mods` are the plaintexts of the maps,
and a thread's phase is `idle`, `pending` or `done`. The commit steps, the misses, the
openings and the failures are the atomic operations; `CheckPass`, `Lock`, `Seal` and
`FindHit` are stutters. That `Open` returns the abstract value needs `CallInv` (the
entry is there), that `LoadCommit` returns a fresh handle needs
`DOMAIN modules_ = 1..next_module_id_ - 1`.

### Server

*Assumptions.* `ServerAssumption`: the requests are of the kinds `AllRequests` lists, the
bounds and sizes are naturals, `NoConn` is no connection. The requests may be any subset,
clients may hang up or not.

*The invariant* says what `main` can rely on at each line, although a signal may have run
`Shutdown` since the line before.

- `ConnInv`: a connection is open exactly while `HandleClient` has it; it has been
  answered only if it is closed or about to be; what an earlier process answered carries
  an earlier number than the process that starts now.
- `QueueInv`: the kernel's queue holds waiting connections, each once, so `accept` never
  hands out the connection being handled or one that was answered.
- `RequestInv`: which checks lie behind each stage, and that a request with a payload has
  arrived completely before it is dispatched. It survives a signal because the handler
  does not touch the request.
- `EnclaveInv`: the enclave lives whenever a call is inside it, except in the state
  `dangling`, and the call is the request's.
- `ResponseInv`: a result that is OK, and a response that says SUCCESS, have their key or
  handle behind them in the enclave if it still lives; `AcknowledgedIsKept` follows when
  the response is sent. A SHUTDOWN, which is answered with SUCCESS as well, asks nothing
  of the enclave, and what a freed enclave returned is promised by no living one.
- `StartInv`: without a signal, `Initialize` finds what its own calls left;
  `InitFailsForCause` is part of it.
- `AcceptInv`: behind a listening socket that Run has checked there is an enclave, and at
  `accept` `running_` is set. A signal takes all three away together; one in the middle of
  `Initialize` may leave a socket without an enclave, which Run's check (`server.cpp:72`)
  turns away. `AcceptsWithEnclave` follows.

`StepCases` divides the steps by what they do to the connections. The lemmas `QuietConn`,
`UntouchedSteps`, `SameRequestSteps`, `SameResponseSteps` and `SameAnswersSteps` dispose
of the many steps that leave a part of the state alone; `ConnStep`, `ProcessStep`,
`RequestStep`, `EnclaveStep`, `PendingStep` and `AcknowledgedStep` treat the rest one
action at a time. `DoFact` is the one place where the operations of `EnclaveStore` are
opened: the contents of a living enclave only grow, and an OK result is in them.
`OnlyValidRequestsCountHolds` adds that `InEnclave` is the only step that changes a
living enclave, and that the checks `RequestInv` records leave only the fault `"none"`.

The invariant is preserved by every `Step`, which is a step of the process, or of the
`World`: somebody makes a connection, or sends on one and closes it at their end, in any
order and with any request. The clients of `EnclaveServer` and the one of `EnclaveClient`
are both instances of `World`, so one proof serves both specifications. `OwnRequests`
says in addition what connections of the former carry.

### Client

*Assumptions.* `ClientAssumption`: a program is a non-empty sequence of connects, calls
and disconnects that begins with a connect and has no call directly after a disconnect;
nothing is assumed of its length, of the number of its connections or of its retries.

*The invariant.* `ClientInductive` is the server's `Inductive` with `ControlInv`, which
relates where the client is to what it has on its connections: it waits only for the
answer to the call it is making, a connection on which no call has succeeded yet carries
that call's request, and what it counts as succeeded was acknowledged. `MyStepFact` shows
that each of the client's steps is a `World` step or leaves the server and the
connections alone, `OtherStepFact` that nobody else touches its requests.
`ServerKeepsPromises` draws the conclusion for the server: `OneResponse`,
`AcknowledgedIsKept`, `InitFailsForCause`, `AcceptsWithEnclave` and
`OnlyValidRequestsCount` hold next to this client, for all programs.

The other three properties depend on the program or on the company it runs in. What they
need is a hypothesis of the theorem, defined in `EnclaveClient`; TLC evaluates all of
them on the instances of the client's runs (`MCAssumption`).

- *`InvokedOwnModule`*, for a program that loads one module and invokes only after that
  (`OneModule`). `ModuleInv` says that an invoke went out with the handle the client still
  has, that requests are taken up in the order they are made, also by successive
  processes (`by` does not decrease), and that the handle is from the last process that
  loaded the module. So whenever load and invoke were taken by the same process, the
  handle is one that process gave out, and `AcknowledgedIsKept` says what is behind it.
- *`FailsForCause`*, for a program with one call on each connection (`OneCallEach`) next to
  clients that do not hang up or send SHUTDOWN (`KindOthers`). `HealthInv`: without a
  signal or a fault the server gets to its loop and stays there, closes nothing it has
  not answered, and waits for the whole of each request. `client_example` shows that
  `OneCallEach` cannot be dropped: its program makes five calls on one connection.
- *`LoadedOnce`*, for a program with one call on each connection (`OneCallEach`) whose module
  nobody else loads (`OwnModule`). `CountInv` keeps an injection from the copies in the
  enclave to the load steps of the program that are `Done`: the client is past them, or
  waits for one whose success is on its way (`Taken`: in the enclave's result, in the
  response or in the inbox). Only the step inside the enclave adds a copy, and it makes
  its step `Taken`. What has to be shown is that no retry takes a step back from `Done`:
  `CallInv` and `LetGoInv` say that the client gives a connection up only when it has been
  answered or is gone, and a success that does not get through has lost its enclave, and
  with it all copies, to the signal that cut it off.

### Path

*Assumptions.* `Nobody` is no server and the bounds are naturals; the set of servers is any.

`ObjectInv` follows `main` and the handler through their labels: a closed socket is
found by Run's check, so past it `socket_fd_` listens unless the server is `late`, and
`running_` is set only in the loop and while no handler runs. `OverlapInv` says that two
servers that run now are both in `shared`. A server outside `shared` is therefore alone
from its start on: its `unlink` frees the path until its `bind` (`PathInv`, from which
`RefusedOnlyByRival` follows), and then the path names it for as long as it has its
socket. `RunningIsReachable` follows from the two together. Neither property is
inductive alone: that a lone server in its loop is at the path needs both what the
handler may have done at each label before it and that nobody else could act.

### Cipher and memory

*Assumptions.* Those of `Cipher` and `SecureMemory`: the markers (`Zero`, `Junk`, `Null`)
are not keys or blocks, sizes are naturals. AES-GCM is symbolic.

`MemInv` is inductive for the key and buffer operations, which `SecureMemoryProofs`
shows one operation at a time; keys and buffers do not depend on each other. The
invariant of `Encrypt` and `Decrypt` follows `pc`: `LiveInv` counts the one context
between `EVP_CIPHER_CTX_new` and the clean-up at the return taken, `ArgInv` and `CtxInv`
say that the context has been given this call's key, IV, additional data and text in
that order, `EncInv` and `BufInv` what has been written so far (with the block of slack
before the final resize), and `MadeInv` that everything returned is what
`Crypto!Encrypt` says. `OpensOnlySealed` needs `MadeInv` because the tag `Decrypt`
compares is one that `Encrypt` made, and `BufInv` because an empty vector at the early
returns is one that was never resized. `KeyNotLost` is shown one operation at a time:
each move leaves its key with the object moved to.

### Only model-checked

- The liveness properties (`LockReleased`, `Answered`, `StopsWhenTold`, `SessionEnds`,
  `ComesUp`), which are out of the prover's reach.
- The invariants of `Checksum` and `Wire`. Both fold over sequences of bytes, and a fact
  about a fold for every input needs induction over data, which the prover cannot
  instantiate. That holds for what they compute (`RoundTrip`, `NothingInvented`,
  `UndamagedIsValid`, `DamageDetected`, `IsCRC32`) and even for `TypeOK` and
  `ReadsInBounds`: that `Serialize` yields a sequence of bytes and that four bytes
  are a natural number are facts about folds too.
- The findings: each is a counterexample, which TLC produces and a theorem would not.

## 5. Not modelled

- AES-GCM and SHA-256 themselves, which are OpenSSL's; `ConstantTimeCompare`, a pure
  function that nothing calls. `SecureWipe` is modelled as reaching memory: whether
  a compiler keeps its `volatile` stores is outside TLA+, and its `#ifdef OPENSSL_cleanse`
  branch is not compiled, because that name is a function and no macro.
- `std::bad_alloc`: the code catches nothing, so one ends the process, as `Die` does.
- A second signal inside `Shutdown` (see above), and races on `std::cout` in the handler.
- Tests, fuzzers and build files, which are not part of the running system.
- The wording of log output.

## 6. State of the work

Every component that runs is modelled, and every invariant and action property of the
enclave, the server, the path, the cipher, the keys and the client is proved. What could
be added:

1. An induction for `Wire` and `Checksum`, with a prover that instantiates the
   induction theorems of the library.
2. The liveness properties, with a prover that treats `ENABLED`.
3. A program of several clients of the kind of `EnclaveClient`. The server's side of it is
   proved already, since `World` allows for any number of them.
