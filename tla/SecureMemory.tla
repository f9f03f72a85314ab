----------------------------- MODULE SecureMemory -----------------------------
(***************************************************************************)
(* The memory of keys and buffers (crypto.hpp): SecureKey, a movable array *)
(* with a validity flag, and SecureBuffer, a movable owner of a heap       *)
(* block.  Memory keeps its contents when its object is gone, unless they  *)
(* were wiped.                                                             *)
(***************************************************************************)
EXTENDS Naturals

CONSTANTS
  Places,  \* where SecureKey objects live, one at a time
  Keys,    \* the keys RAND_bytes comes up with
  Zero,    \* wiped memory
  Junk,    \* bytes that are no key
  Buffers, \* SecureBuffer objects
  Blocks,  \* heap blocks
  Null,    \* no block
  Secret,  \* what users write into a buffer
  Sizes    \* the sizes buffers are made with

ASSUME MemoryAssumption ==
  /\ Zero \notin Keys /\ Junk \notin Keys /\ Zero # Junk
  /\ Secret \notin {Zero, Junk}
  /\ Null \notin Blocks
  /\ Sizes \subseteq Nat \ {0}

VARIABLES
  key,      \* key[p]: the SecureKey at p, or the memory it has left
  drawn,    \* the keys generated so far
  buffer,   \* buffer[b]: the object's pointer and size
  block     \* block[a]: a heap block

memVars == <<key, drawn, buffer, block>>
keyVars == <<key, drawn>>
bufferVars == <<buffer, block>>

KeyObject == [alive : BOOLEAN, data : Keys \cup {Zero, Junk}, valid : BOOLEAN]
BufferObject == [alive : BOOLEAN, ptr : Blocks \cup {Null},
                 size : Sizes \cup {0}]
Block == [owned : BOOLEAN, size : Sizes \cup {0},
          holds : {Zero, Junk, Secret}]

(* The types; Size() claims nothing where Get() has nothing.                *)
MemTypeOK ==
  /\ key \in [Places -> KeyObject]
  /\ drawn \subseteq Keys
  /\ buffer \in [Buffers -> BufferObject]
  /\ \A b \in Buffers : buffer[b].ptr = Null => buffer[b].size = 0
  /\ block \in [Blocks -> Block]

NoKeyObject == [alive |-> FALSE, data |-> Zero, valid |-> FALSE]
NoBuffer == [alive |-> FALSE, ptr |-> Null, size |-> 0]

MemInit ==
  /\ key \in [Places -> {NoKeyObject, [NoKeyObject EXCEPT !.data = Junk]}]
  /\ drawn = {}
  /\ buffer = [b \in Buffers |-> NoBuffer]
  /\ block = [a \in Blocks |-> [owned |-> FALSE, size |-> 0, holds |-> Junk]]

-----------------------------------------------------------------------------
(* Mutant of SecureWipe: the last byte is left.                             *)
WipeAllButOne(contents, n, m) == IF n > m THEN Zero ELSE contents

(* SecureWipe over n bytes of a memory area of m.                           *)
SecureWipe(contents, n, m) == IF n >= m THEN Zero ELSE contents

(* Generate: the constructor wipes, RAND_bytes fills.                       *)
Generate(p) ==
  /\ ~key[p].alive
  /\ \E k \in Keys \ drawn :
       /\ drawn' = drawn \cup {k}
       /\ key' = [key EXCEPT ![p] = [alive |-> TRUE, data |-> k,
                                     valid |-> TRUE]]
  /\ UNCHANGED bufferVars

(* RAND_bytes fails, perhaps halfway: the unique_ptr destroys the object.   *)
GenerateFail(p) ==
  /\ ~key[p].alive
  /\ key' = [key EXCEPT ![p] = NoKeyObject]
  /\ UNCHANGED <<drawn, bufferVars>>

(* Mutant of MovedFrom: the source is marked and not wiped.                 *)
NotWiped(k) == [k EXCEPT !.valid = FALSE]

(* What a move leaves behind.                                               *)
MovedFrom(k) == [k EXCEPT !.valid = FALSE, !.data = Zero]

MoveConstruct(p, q) ==
  /\ key[p].alive /\ ~key[q].alive
  /\ key' = [key EXCEPT ![q] = [key[p] EXCEPT !.alive = TRUE],
                        ![p] = MovedFrom(@)]
  /\ UNCHANGED <<drawn, bufferVars>>

(* Mutant of MoveAssign: the source is wiped before it is copied.           *)
WipesFirst(p, q) ==
  /\ key[p].alive /\ key[q].alive
  /\ key' = IF p = q THEN key
            ELSE [key EXCEPT ![q] = MovedFrom(key[p]), ![p] = MovedFrom(@)]
  /\ UNCHANGED <<drawn, bufferVars>>

(* operator= copies, then invalidates and wipes the source, and does        *)
(* nothing when an object is assigned to itself.                            *)
MoveAssign(p, q) ==
  /\ key[p].alive /\ key[q].alive
  /\ key' = IF p = q THEN key
            ELSE [key EXCEPT ![q] = key[p], ![p] = MovedFrom(@)]
  /\ UNCHANGED <<drawn, bufferVars>>

DestroyKey(p) ==
  /\ key[p].alive
  /\ key' = [key EXCEPT ![p] = NoKeyObject]
  /\ UNCHANGED <<drawn, bufferVars>>

-----------------------------------------------------------------------------
(* new T[size] leaves the block as it finds it.                             *)
NewBuffer(b) ==
  /\ ~buffer[b].alive
  /\ \E a \in Blocks, n \in Sizes :
       /\ ~block[a].owned
       /\ block' = [block EXCEPT ![a] = [owned |-> TRUE, size |-> n,
                                         holds |-> @.holds]]
       /\ buffer' = [buffer EXCEPT ![b] = [alive |-> TRUE, ptr |-> a,
                                           size |-> n]]
  /\ UNCHANGED keyVars

(* The user writes through Get().                                           *)
WriteBuffer(b) ==
  /\ buffer[b].alive /\ buffer[b].ptr # Null
  /\ block' = [block EXCEPT ![buffer[b].ptr].holds = Secret]
  /\ UNCHANGED <<keyVars, buffer>>

NewOwner(b) == [alive |-> TRUE, ptr |-> buffer[b].ptr, size |-> buffer[b].size]

OldOwner(b) == [buffer[b] EXCEPT !.ptr = Null, !.size = 0]

MoveBuffer(b, c) ==
  /\ buffer[b].alive /\ ~buffer[c].alive
  /\ buffer' = [buffer EXCEPT ![c] = NewOwner(b), ![b] = OldOwner(b)]
  /\ UNCHANGED <<keyVars, block>>

(* The destructor wipes what it owns before it is freed.                    *)
DestroyBuffer(b) ==
  /\ buffer[b].alive
  /\ block' = IF buffer[b].ptr = Null THEN block
              ELSE [block EXCEPT ![buffer[b].ptr] =
                     [owned |-> FALSE, size |-> 0,
                      holds |-> SecureWipe(@.holds, buffer[b].size, @.size)]]
  /\ buffer' = [buffer EXCEPT ![b] = NoBuffer]
  /\ UNCHANGED keyVars

-----------------------------------------------------------------------------
KeyStep ==
  \E p \in Places : \/ Generate(p) \/ GenerateFail(p) \/ DestroyKey(p)
                    \/ \E q \in Places : MoveConstruct(p, q) \/ MoveAssign(p, q)

BufferStep ==
  \E b \in Buffers : \/ NewBuffer(b) \/ WriteBuffer(b) \/ DestroyBuffer(b)
                     \/ \E c \in Buffers : MoveBuffer(b, c)

MemNext == KeyStep \/ BufferStep

-----------------------------------------------------------------------------
(* Properties.                                                              *)

(* Through any sequence of moves, failed generations and destructions a key *)
(* is in one place at most, in a living object that says it is valid: no    *)
(* moved-from object and no memory given back has a trace of it, and no     *)
(* object hands out anything else as a key.                                 *)
KeyInOnePlace ==
  /\ \A p \in Places : key[p].valid <=> key[p].data \in Keys
  /\ \A p \in Places : key[p].valid => key[p].alive /\ key[p].data \in drawn
  /\ \A p, q \in Places : p # q /\ key[p].valid => key[q].data # key[p].data

(* No move loses a key: one step later a key is in some object that says it *)
(* is valid, unless its object has been destroyed or another object's       *)
(* contents have been moved over it.                                        *)
KeyNotLost ==
  [][\A p \in Places : key[p].valid =>
       \/ \E q \in Places : key'[q].valid /\ key'[q].data = key[p].data
       \/ ~key'[p].alive
       \/ \E q \in Places \ {p} : key[q].alive /\ key'[p] = key[q]]_memVars

(* Every allocated block has one owner that knows its size, so that none is *)
(* freed twice or never.                                                    *)
OneOwner ==
  /\ \A b \in Buffers : buffer[b].ptr # Null =>
       /\ buffer[b].alive
       /\ block[buffer[b].ptr].owned
       /\ block[buffer[b].ptr].size = buffer[b].size
       /\ \A c \in Buffers \ {b} : buffer[c].ptr # buffer[b].ptr
  /\ \A a \in Blocks : block[a].owned => \E b \in Buffers : buffer[b].ptr = a

(* Whatever was written into a buffer, wherever that buffer has been moved, *)
(* its block has one owner or nothing of it is left in the heap.            *)
OwnedOrWiped ==
  /\ OneOwner
  /\ \A a \in Blocks : ~block[a].owned => block[a].holds # Secret
=============================================================================
