SPECIFICATION Spec
CONSTANTS
  t1 = t1
  t2 = t2
  t3 = t3
  u1 = u1
  d1 = d1
  d2 = d2
  d3 = d3
  dpclients_ <- MCPair
  Threads = {t1, t2}
  ClientOf <- MCClientOf2
  LoopOf <- MCLoopOf2
  MaxCalls = 2
  MaxMessages = 0
  MaxChanges = 0
INVARIANT TrueMeansResult
CHECK_DEADLOCK FALSE
