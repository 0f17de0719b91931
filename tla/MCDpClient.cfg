SPECIFICATION FairSpec
CONSTANTS
  t1 = t1
  t2 = t2
  t3 = t3
  u1 = u1
  d1 = d1
  d2 = d2
  d3 = d3
  dpclients_ <- MCTriple
  Threads = {t1, t2, t3, u1}
  ClientOf <- MCClientOf
  LoopOf <- MCLoopOf
  MaxCalls = 2
  MaxMessages = 2
  MaxChanges = 2
INVARIANTS
  TypeOK
  OneClientHears
  OneReplyOneSuccess
PROPERTY EveryRequestReturns
CHECK_DEADLOCK FALSE
