SPECIFICATION Spec
CONSTANTS
  Payloads <- MCPayloads
  HeaderBits = {0}
  MaxFlips = 3
INVARIANTS
  TypeOK
  UndamagedIsValid
  DamageDetected
  IsCRC32
CHECK_DEADLOCK FALSE
