SPECIFICATION FairSpec
CONSTANTS
  Loops = {a, b}
  Outsiders = {}
  None = none
  MaxSends = 2
  MaxPosts = 1
  MaxEvents = 1
  MaxClears = 1
  MaxStops = 1
INVARIANTS
  TypeOK
  NoLostWakeup
  ReadyMeansServed
  SendsAreFlagged
PROPERTY EverySendReturns
CHECK_DEADLOCK FALSE
