-------------------------- MODULE SecureMemoryProofs --------------------------
(***************************************************************************)
(* The operations of SecureKey and SecureBuffer, one step at a time: what  *)
(* crypto.hpp's constructors, moves and destructors preserve for any       *)
(* number of objects, keys, blocks and sizes.  CipherProofs puts the steps *)
(* together with the calls that use the keys.                              *)
(***************************************************************************)
EXTENDS SecureMemory, TLAPS

(* Keys and buffers do not depend on each other.                            *)
KeyType == key \in [Places -> KeyObject] /\ drawn \subseteq Keys

BufferType ==
  /\ buffer \in [Buffers -> BufferObject]
  /\ \A b \in Buffers : buffer[b].ptr = Null => buffer[b].size = 0
  /\ block \in [Blocks -> Block]

MemInv == MemTypeOK /\ KeyInOnePlace /\ OwnedOrWiped

LEMMA MemInitInv == MemInit => MemInv
<1> SUFFICES ASSUME MemInit PROVE MemInv
  OBVIOUS
<1> USE MemoryAssumption DEF MemInit
<1>1. MemTypeOK
  <2>1. /\ NoKeyObject \in KeyObject
        /\ [NoKeyObject EXCEPT !.data = Junk] \in KeyObject
    BY DEF KeyObject, NoKeyObject
  <2>2. NoBuffer \in BufferObject /\ NoBuffer.size = 0
    BY DEF BufferObject, NoBuffer
  <2>3. block \in [Blocks -> Block]
    BY DEF Block
  <2> QED
    BY <2>1, <2>2, <2>3 DEF MemTypeOK
<1>2. KeyInOnePlace
  BY DEF KeyInOnePlace, NoKeyObject
<1>3. OwnedOrWiped
  BY DEF OwnedOrWiped, OneOwner, NoBuffer
<1> QED
  BY <1>1, <1>2, <1>3 DEF MemInv

-----------------------------------------------------------------------------
(* Keys.                                                                    *)

(* A move leaves an object that is not valid and holds no key.              *)
LEMMA MovedFromFact ==
  ASSUME NEW k \in KeyObject
  PROVE  /\ MovedFrom(k) \in KeyObject
         /\ ~MovedFrom(k).valid
         /\ MovedFrom(k).data = Zero
BY DEF MovedFrom, KeyObject

(* What both moves do: q gets the key, p is left without one.               *)
LEMMA MoveKeepsOne ==
  ASSUME KeyType, KeyInOnePlace, NEW p \in Places, NEW q \in Places, p # q,
         key[p].alive, key' \in [Places -> KeyObject], drawn' = drawn,
         key'[q] = key[p], key'[p] = MovedFrom(key[p]),
         \A r \in Places \ {p, q} : key'[r] = key[r]
  PROVE  KeyInOnePlace'
<1>1. ~key'[p].valid /\ key'[p].data = Zero
  <2>1. key[p] \in KeyObject
    BY DEF KeyType
  <2> QED
    BY <2>1, MovedFromFact
<1>2. Zero \notin Keys
  BY MemoryAssumption
<1>3. \A r \in Places : key'[r].valid <=> key'[r].data \in Keys
  BY <1>1, <1>2 DEF KeyInOnePlace
<1>4. \A r \in Places :
        key'[r].valid => key'[r].alive /\ key'[r].data \in drawn'
  BY <1>1 DEF KeyInOnePlace
<1>5. ASSUME NEW r \in Places, NEW s \in Places, r # s, key'[r].valid
      PROVE  key'[s].data # key'[r].data
  <2>1. key'[r].data \in Keys /\ r # p
    BY <1>1, <1>3, <1>5
  <2>2. CASE s = p
    BY <2>1, <2>2, <1>1, <1>2
  <2>3. CASE s # p
    BY <2>1, <2>3, <1>5 DEF KeyInOnePlace
  <2> QED
    BY <2>2, <2>3
<1> QED
  BY <1>3, <1>4, <1>5 DEF KeyInOnePlace

(* Generation, failed or not, moves and destruction keep every key in one   *)
(* living object.                                                           *)
LEMMA KeyStepInv ==
  KeyType /\ KeyInOnePlace /\ KeyStep => KeyType' /\ KeyInOnePlace'
<1> SUFFICES ASSUME KeyType, KeyInOnePlace, KeyStep
             PROVE  KeyType' /\ KeyInOnePlace'
  OBVIOUS
<1> USE MemoryAssumption DEF KeyType, KeyInOnePlace
<1>1. ASSUME NEW p \in Places, Generate(p)
      PROVE  KeyType' /\ KeyInOnePlace'
  <2>1. PICK k \in Keys \ drawn :
          /\ drawn' = drawn \cup {k}
          /\ key' = [key EXCEPT ![p] = [alive |-> TRUE, data |-> k,
                                        valid |-> TRUE]]
    BY <1>1 DEF Generate
  <2>2. \A q \in Places : key[q].data # k
    BY <2>1
  <2> QED
    BY <2>1, <2>2 DEF KeyObject
<1>2. ASSUME NEW p \in Places, GenerateFail(p) \/ DestroyKey(p)
      PROVE  KeyType' /\ KeyInOnePlace'
  <2>1. /\ drawn' = drawn
        /\ key' = [key EXCEPT ![p] = NoKeyObject]
    BY <1>2 DEF GenerateFail, DestroyKey
  <2>2. /\ NoKeyObject \in KeyObject /\ ~NoKeyObject.valid
        /\ NoKeyObject.data = Zero
    BY DEF NoKeyObject, KeyObject
  <2> QED
    BY <2>1, <2>2
<1>3. ASSUME NEW p \in Places, NEW q \in Places, MoveConstruct(p, q)
      PROVE  KeyType' /\ KeyInOnePlace'
  <2>1. p # q /\ drawn' = drawn
    BY <1>3 DEF MoveConstruct
  <2>2. [key[p] EXCEPT !.alive = TRUE] = key[p]
    BY <1>3 DEF MoveConstruct, KeyObject
  <2>3. key' = [key EXCEPT ![q] = key[p], ![p] = MovedFrom(@)]
    BY <1>3, <2>2 DEF MoveConstruct
  <2>4. MovedFrom(key[p]) \in KeyObject
    BY MovedFromFact
  <2>5. /\ key' \in [Places -> KeyObject]
        /\ key'[q] = key[p]
        /\ key'[p] = MovedFrom(key[p])
        /\ \A r \in Places \ {p, q} : key'[r] = key[r]
    BY <2>1, <2>3, <2>4
  <2> QED
    BY <2>1, <2>5, <1>3, MoveKeepsOne DEF MoveConstruct
<1>4. ASSUME NEW p \in Places, NEW q \in Places, MoveAssign(p, q)
      PROVE  KeyType' /\ KeyInOnePlace'
  <2>1. CASE p = q
    BY <1>4, <2>1 DEF MoveAssign
  <2>2. CASE p # q
    <3>1. /\ key' \in [Places -> KeyObject]
          /\ key'[q] = key[p]
          /\ key'[p] = MovedFrom(key[p])
          /\ \A r \in Places \ {p, q} : key'[r] = key[r]
      BY <1>4, <2>2, MovedFromFact DEF MoveAssign
    <3> QED
      BY <3>1, <2>2, MoveKeepsOne, <1>4 DEF MoveAssign
  <2> QED
    BY <2>1, <2>2
<1> QED
  BY <1>1, <1>2, <1>3, <1>4 DEF KeyStep

(* What KeyNotLost says of one step.                                        *)
KeptOrGivenAway ==
  \A p \in Places : key[p].valid =>
    \/ \E q \in Places : key'[q].valid /\ key'[q].data = key[p].data
    \/ ~key'[p].alive
    \/ \E q \in Places \ {p} : key[q].alive /\ key'[p] = key[q]

(* The key of a living object stays, moves to another object, or goes with  *)
(* its object's destruction or when another is moved over it.               *)
LEMMA KeyStepKeeps == KeyType /\ KeyInOnePlace /\ KeyStep => KeptOrGivenAway
<1> SUFFICES ASSUME KeyType, KeyInOnePlace, KeyStep, NEW p \in Places,
                    key[p].valid
             PROVE  \/ \E q \in Places : key'[q].valid
                                        /\ key'[q].data = key[p].data
                    \/ ~key'[p].alive
                    \/ \E q \in Places \ {p} : key[q].alive
                                              /\ key'[p] = key[q]
  BY DEF KeptOrGivenAway
<1> USE DEF KeyType
<1>1. key[p].alive
  BY DEF KeyInOnePlace
<1>2. ASSUME NEW r \in Places, Generate(r) \/ GenerateFail(r)
      PROVE  key'[p] = key[p]
  BY <1>1, <1>2 DEF Generate, GenerateFail
<1>3. ASSUME NEW r \in Places, DestroyKey(r)
      PROVE  key'[p] = key[p] \/ ~key'[p].alive
  BY <1>3 DEF DestroyKey, NoKeyObject
<1>4. ASSUME NEW r \in Places, NEW q \in Places, MoveConstruct(r, q)
      PROVE  IF r = p
             THEN key'[q].valid /\ key'[q].data = key[p].data
             ELSE key'[p] = key[p]
  <2>1. r # q /\ q # p
    BY <1>1, <1>4 DEF MoveConstruct
  <2>2. /\ key'[q] = [key[r] EXCEPT !.alive = TRUE]
        /\ \A s \in Places \ {r, q} : key'[s] = key[s]
    BY <1>4, <2>1 DEF MoveConstruct
  <2>3. key[r] \in KeyObject
    OBVIOUS
  <2> QED
    BY <2>1, <2>2, <2>3 DEF KeyObject
<1>5. ASSUME NEW r \in Places, NEW q \in Places, MoveAssign(r, q)
      PROVE  \/ key'[p] = key[p]
             \/ r = p /\ key'[q] = key[p]
             \/ q = p /\ r # p /\ key[r].alive /\ key'[p] = key[r]
  BY <1>5 DEF MoveAssign
<1> QED
  BY <1>2, <1>3, <1>4, <1>5 DEF KeyStep

-----------------------------------------------------------------------------
(* Buffers.                                                                 *)

(* The moved-from buffer keeps nothing of what it owned.                    *)
LEMMA ReleasedFact ==
  ASSUME NEW o \in BufferObject
  PROVE  LET r == [o EXCEPT !.ptr = Null, !.size = 0]
         IN  r \in BufferObject /\ r.ptr = Null /\ r.size = 0
BY DEF BufferObject

LEMMA BlockSizeFact == \A k \in Block : k.size \in Nat
<1>1. \A k \in Block : k.size \in Sizes \cup {0}
  BY DEF Block
<1>2. Sizes \cup {0} \subseteq Nat
  BY MemoryAssumption
<1> QED
  BY <1>1, <1>2

(* A block passes from owner to owner, and is wiped by the last.            *)
LEMMA BufferStepInv ==
  BufferType /\ OwnedOrWiped /\ BufferStep => BufferType' /\ OwnedOrWiped'
<1> SUFFICES ASSUME BufferType, OwnedOrWiped, BufferStep
             PROVE  BufferType' /\ OwnedOrWiped'
  OBVIOUS
<1> USE MemoryAssumption DEF BufferType, OwnedOrWiped, OneOwner
<1>a. \A b \in Buffers : ~buffer[b].alive => buffer[b].ptr = Null
  OBVIOUS
<1>1. ASSUME NEW b \in Buffers, NewBuffer(b)
      PROVE  BufferType' /\ OwnedOrWiped'
  <2>1. PICK a \in Blocks, n \in Sizes :
          /\ ~block[a].owned
          /\ block' = [block EXCEPT ![a] = [owned |-> TRUE, size |-> n,
                                            holds |-> @.holds]]
          /\ buffer' = [buffer EXCEPT ![b] = [alive |-> TRUE, ptr |-> a,
                                              size |-> n]]
    BY <1>1 DEF NewBuffer
  <2>2. /\ \A c \in Buffers : buffer[c].ptr # a
        /\ buffer[b].ptr = Null
    BY <2>1, <1>a, <1>1 DEF NewBuffer
  <2>3. BufferType'
    BY <2>1 DEF BufferObject, Block
  <2>4. OneOwner'
    BY <2>1, <2>2 DEF BufferObject
  <2>5. \A c \in Blocks : ~block'[c].owned => block'[c].holds # Secret
    BY <2>1
  <2> QED
    BY <2>3, <2>4, <2>5
<1>2. ASSUME NEW b \in Buffers, WriteBuffer(b)
      PROVE  BufferType' /\ OwnedOrWiped'
  <2>1. /\ buffer[b].ptr \in Blocks /\ block[buffer[b].ptr].owned
        /\ block' = [block EXCEPT ![buffer[b].ptr].holds = Secret]
        /\ buffer' = buffer
    BY <1>2 DEF WriteBuffer, BufferObject
  <2>2. BufferType'
    BY <2>1 DEF Block
  <2>3. \A a \in Blocks : /\ block'[a].owned = block[a].owned
                          /\ block'[a].size = block[a].size
                          /\ a # buffer[b].ptr => block'[a] = block[a]
    BY <2>1 DEF Block
  <2>4. OneOwner'
    BY <2>1, <2>3 DEF BufferObject
  <2> QED
    BY <2>1, <2>2, <2>3, <2>4
<1>3. ASSUME NEW b \in Buffers, NEW c \in Buffers, MoveBuffer(b, c)
      PROVE  BufferType' /\ OwnedOrWiped'
  <2>1. b # c /\ buffer[c].ptr = Null /\ block' = block
    BY <1>3, <1>a DEF MoveBuffer
  <2>a. /\ NewOwner(b) \in BufferObject /\ NewOwner(b).alive
        /\ NewOwner(b).ptr = buffer[b].ptr
        /\ NewOwner(b).size = buffer[b].size
    BY DEF NewOwner, BufferObject
  <2>b. /\ OldOwner(b) \in BufferObject
        /\ OldOwner(b).ptr = Null /\ OldOwner(b).size = 0
    <3>1. buffer[b] \in BufferObject
      OBVIOUS
    <3> QED
      BY <3>1, ReleasedFact DEF OldOwner
  <2>2. /\ buffer' \in [Buffers -> BufferObject]
        /\ buffer'[c] = NewOwner(b)
        /\ buffer'[b] = OldOwner(b)
        /\ \A d \in Buffers \ {b, c} : buffer'[d] = buffer[d]
    BY <1>3, <2>1, <2>a, <2>b DEF MoveBuffer
  <2>3. BufferType'
    BY <2>1, <2>2, <2>a, <2>b
  <2>4. OneOwner'
    BY <2>1, <2>2, <2>a, <2>b
  <2> QED
    BY <2>1, <2>3, <2>4
<1>4. ASSUME NEW b \in Buffers, DestroyBuffer(b)
      PROVE  BufferType' /\ OwnedOrWiped'
  <2>a. /\ NoBuffer \in BufferObject
        /\ NoBuffer.ptr = Null /\ NoBuffer.size = 0
    BY DEF NoBuffer, BufferObject
  <2>1. /\ buffer' \in [Buffers -> BufferObject]
        /\ buffer'[b] = NoBuffer
        /\ \A d \in Buffers \ {b} : buffer'[d] = buffer[d]
    BY <1>4, <2>a DEF DestroyBuffer
  <2>2. CASE buffer[b].ptr = Null
    BY <1>4, <2>1, <2>2, <2>a DEF DestroyBuffer
  <2>3. CASE buffer[b].ptr # Null
    <3> DEFINE a == buffer[b].ptr
    <3>1. /\ a \in Blocks /\ block[a].size = buffer[b].size
          /\ block[a].size \in Nat
      <4>1. a \in Blocks
        BY <2>3 DEF BufferObject
      <4>2. block[a].size = buffer[b].size
        BY <2>3
      <4>3. block[a].size \in Nat
        <5>1. block[a] \in Block
          BY <4>1
        <5> QED
          BY <5>1, BlockSizeFact
      <4> QED
        BY <4>1, <4>2, <4>3
    <3>2. SecureWipe(block[a].holds, buffer[b].size, block[a].size) = Zero
      BY <3>1 DEF SecureWipe
    <3>3. /\ block' \in [Blocks -> Block]
          /\ ~block'[a].owned /\ block'[a].holds = Zero
          /\ \A d \in Blocks \ {a} : block'[d] = block[d]
      BY <1>4, <2>3, <3>1, <3>2 DEF DestroyBuffer, Block
    <3>4. BufferType'
      BY <2>1, <2>a, <3>3
    <3>5. OneOwner'
      <4>1. ASSUME NEW c \in Buffers, buffer'[c].ptr # Null
            PROVE  c # b /\ buffer'[c] = buffer[c] /\ buffer[c].ptr # a
        BY <2>1, <2>3, <2>a, <4>1
      <4>2. ASSUME NEW c \in Buffers, buffer'[c].ptr # Null
            PROVE  buffer[c].ptr \in Blocks \ {a}
        <5>1. buffer[c] \in BufferObject
          OBVIOUS
        <5> QED
          BY <4>1, <4>2, <5>1 DEF BufferObject
      <4>3. ASSUME NEW d \in Blocks, block'[d].owned
            PROVE  \E c \in Buffers : buffer'[c].ptr = d
        BY <2>1, <2>3, <3>3, <4>3
      <4> QED
        BY <3>3, <4>1, <4>2, <4>3
    <3> QED
      BY <3>3, <3>4, <3>5
  <2> QED
    BY <2>2, <2>3
<1> QED
  BY <1>1, <1>2, <1>3, <1>4 DEF BufferStep

-----------------------------------------------------------------------------
(* Every step of the memory.                                                *)
LEMMA MemStepInv == MemInv /\ (MemNext \/ UNCHANGED memVars) => MemInv'
<1> SUFFICES ASSUME MemInv, MemNext \/ UNCHANGED memVars PROVE MemInv'
  OBVIOUS
<1>1. KeyType /\ BufferType
  BY DEF MemInv, MemTypeOK, KeyType, BufferType
<1>2. CASE UNCHANGED memVars
  BY <1>2 DEF memVars, MemInv, MemTypeOK, KeyInOnePlace, OwnedOrWiped,
     OneOwner
<1>3. CASE KeyStep
  <2>1. UNCHANGED bufferVars
    BY <1>3 DEF KeyStep, Generate, GenerateFail, DestroyKey, MoveConstruct,
       MoveAssign
  <2>2. BufferType' /\ OwnedOrWiped'
    BY <1>1, <2>1 DEF bufferVars, BufferType, MemInv, OwnedOrWiped, OneOwner
  <2> QED
    BY <1>1, <1>3, <2>2, KeyStepInv
       DEF MemInv, MemTypeOK, KeyType, BufferType
<1>4. CASE BufferStep
  <2>1. UNCHANGED keyVars
    BY <1>4 DEF BufferStep, NewBuffer, WriteBuffer, DestroyBuffer, MoveBuffer
  <2>2. KeyType' /\ KeyInOnePlace'
    BY <1>1, <2>1 DEF keyVars, KeyType, MemInv, KeyInOnePlace
  <2> QED
    BY <1>1, <1>4, <2>2, BufferStepInv
       DEF MemInv, MemTypeOK, KeyType, BufferType
<1> QED
  BY <1>2, <1>3, <1>4 DEF MemNext

(* The keys generated so far are never forgotten.                           *)
LEMMA DrawnGrows == MemNext => drawn \subseteq drawn'
BY DEF MemNext, KeyStep, BufferStep, Generate, GenerateFail, DestroyKey,
   MoveConstruct, MoveAssign, NewBuffer, WriteBuffer, DestroyBuffer,
   MoveBuffer, keyVars

(* No step of the memory loses a key.                                       *)
LEMMA MemStepKeeps == MemInv /\ MemNext => KeptOrGivenAway
<1> SUFFICES ASSUME MemInv, MemNext PROVE KeptOrGivenAway
  OBVIOUS
<1>1. CASE KeyStep
  BY <1>1, KeyStepKeeps DEF MemInv, MemTypeOK, KeyType
<1>2. CASE BufferStep
  BY <1>2 DEF BufferStep, NewBuffer, WriteBuffer, DestroyBuffer, MoveBuffer,
     keyVars, KeptOrGivenAway
<1> QED
  BY <1>1, <1>2 DEF MemNext
=============================================================================
