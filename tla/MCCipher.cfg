SPECIFICATION Spec
CONSTANTS
  p1 = p1
  p2 = p2
  b1 = b1
  b2 = b2
  iv1 = iv1
  iv2 = iv2
  Places = {p1, p2}
  Keys = {1, 2}
  Zero = Zero
  Junk = Junk
  Buffers = {b1, b2}
  Blocks = {"a1"}
  Null = Null
  Secret = Secret
  Sizes = {1}
  Plaintexts = {"secret"}
  Size <- MCSize
  Aads = {"aad"}
  IVs = {iv1, iv2}
  BLOCK = 1
  AES_IV_SIZE = 12
  AES_TAG_SIZE = 16
  WORD_MOD = 65536
SYMMETRY Alike
INVARIANTS
  TypeOK
  ContextFreed
  OpensOnlySealed
  ComputesCrypto
  KeyInOnePlace
  OwnedOrWiped
PROPERTY KeyNotLost
CHECK_DEADLOCK FALSE
