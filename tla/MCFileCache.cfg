SPECIFICATION Spec
CONSTANTS
  p1 = p1
  p2 = p2
  v = v
  w = w
  Paths = {p1, p2}
  NoPath = nopath
  Data = {v, w}
  Nothing = nothing
  Cut = cut
  Absent = absent
  Readers = {r1}
  CacheSize = 2
  MaxCalls = 5
  MaxQueue = 3
  MaxFaults = 2
SYMMETRY Symmetry
INVARIANTS
  TypeOK
  OneStanzaPerPath
  SavedOnce
  CacheMatchesFlash
PROPERTY ViewChangesOnlyByRequests
CHECK_DEADLOCK FALSE
