SPECIFICATION FairClientsSpec
CONSTANTS
  c1 = c1
  c2 = c2
  Conns = {c1, c2}
  NoConn = NoConn
  Main = "main"
  Requests <- LiveKinds
  Names <- MCNames
  NameSize <- MCNameSize
  Data <- MCData
  DataSize <- MCDataSize
  Handles = {1, 2}
  TestFunction = "test_function"
  MAX_NAME = 256
  MAX_DATA = 10485760
  MAX_WIRE_NAME = 1048576
  MAX_WIRE_DATA = 10485760
  SNDBUF = 212992
  BACKLOG = 0
  EarlyClose = TRUE
  MaxSignals = 1
  MaxFaults = 1
  MaxRestarts = 0
PROPERTIES
  Answered
  StopsWhenTold
CHECK_DEADLOCK FALSE
