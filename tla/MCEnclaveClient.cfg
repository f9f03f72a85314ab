SPECIFICATION ClientFairSpec
CONSTANTS
  c1 = c1
  c2 = c2
  c3 = c3
  o1 = o1
  Conns = {c1, c2, c3, o1}
  MyConns = {c1, c2, c3}
  NoConn = NoConn
  Main = "main"
  Requests <- OtherLoads
  Program <- LoadAndInvoke
  Names <- MCNames
  NameSize <- MCNameSize
  Data <- MCData
  DataSize <- MCDataSize
  Handles = {1, 2, 3, 4}
  TestFunction = "test_function"
  MAX_NAME = 256
  MAX_DATA = 10485760
  MAX_WIRE_NAME = 1048576
  MAX_WIRE_DATA = 10485760
  SNDBUF = 212992
  BACKLOG = 0
  EarlyClose = FALSE
  MaxRetries = 1
  MaxSignals = 1
  MaxFaults = 1
  MaxRestarts = 1
INVARIANTS
  ClientTypeOK
  FailsForCause
  LoadedOnce
  InvokedOwnModule
PROPERTY SessionEnds
CHECK_DEADLOCK FALSE
