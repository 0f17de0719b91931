SPECIFICATION FairSpec
CONSTANTS
  a = a
  b = b
  None = None
  Sockets = {a, b}
  Plans <- MCPlans
  Cuts <- MCCuts
  OutSize = 1
  Partial = {2, 3}
  MaxOps = 2
  DEFAULT_BLOCK_SIZE = 4
  PACKET_HEADER_SIZE = 3
  WordMod = 64
INVARIANTS
  TypeOK
  WalkIsSafe
  NothingLostAtEnd
PROPERTIES
  ImplementsChannel
  PacketsArrive
  WritesGoOut
CHECK_DEADLOCK FALSE
