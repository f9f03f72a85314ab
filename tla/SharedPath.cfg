SPECIFICATION FairSpec
CONSTANTS
  Servers = {"s1", "s2", "s3"}
  Nobody = "nobody"
  MaxFaults = 1
  MaxSignals = 1
INVARIANTS
  TypeOK
  RunningIsReachable
  RefusedOnlyByRival
PROPERTY ComesUp
CHECK_DEADLOCK FALSE
