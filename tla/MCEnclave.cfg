SPECIFICATION FairSpec
CONSTANTS
  t1 = t1
  t2 = t2
  Threads = {t1, t2}
  NoThread = NoThread
  Names <- MCNames
  NameSize <- MCNameSize
  Data <- MCData
  DataSize <- MCDataSize
  Handles <- MCHandles
  TestFunction = "test_function"
  MAX_NAME = 256
  MAX_DATA = 10485760
  AES_IV_SIZE = 12
  AES_TAG_SIZE = 16
  WORD_MOD = 1073741824
  MaxHandle = 2
  MaxDraws = 3
INVARIANTS
  TypeOK
  MutualExclusion
  DataRecoverable
  Consistent
PROPERTIES
  NothingVanishes
  ImplementsStore
  LockReleased
CHECK_DEADLOCK FALSE
