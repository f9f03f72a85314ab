SPECIFICATION Spec
CONSTANTS
  BASE = 4
  Width <- MCWidth
  MAX_STRING = 1
  MAX_BYTES = 2
  AES_IV_SIZE = 1
  AES_TAG_SIZE = 2
  Messages <- MCMessages
  MaxDamage = 2
INVARIANTS
  TypeOK
  ReadsInBounds
  RoundTrip
  NothingInvented
CHECK_DEADLOCK FALSE
