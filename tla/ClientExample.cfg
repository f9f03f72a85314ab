SPECIFICATION ClientSpec
CONSTANTS
  c1 = c1
  Conns = {c1}
  MyConns = {c1}
  NoConn = NoConn
  Main = "main"
  Requests <- OtherLoads
  Program <- Example
  Names <- MCNames
  NameSize <- MCNameSize
  Data <- MCData
  DataSize <- MCDataSize
  Handles = {1, 2, 3, 4}
  TestFunction = "test_function"
  MAX_NAME = 256
  MAX_DATA = 10485760
  MAX_WIRE_NAME = 1048576
  MAX_WIRE_DATA = 10485760
  SNDBUF = 212992
  BACKLOG = 0
  EarlyClose = FALSE
  MaxRetries = 0
  MaxSignals = 0
  MaxFaults = 0
  MaxRestarts = 0
INVARIANT FailsForCause
CHECK_DEADLOCK FALSE
