SPECIFICATION Spec
CONSTANTS
  p1 = p1
  p2 = p2
  v = v
  w = w
  Paths = {p1, p2}
  NoPath = nopath
  Data = {v, w}
  Nothing = nothing
  Cut = cut
  Absent = absent
  Readers = {r1}
  CacheSize = 2
  MaxCalls = 4
  MaxQueue = 2
  MaxFaults = 0
INVARIANT EvictionSparesReaders
CHECK_DEADLOCK FALSE
