SPECIFICATION Spec
CONSTANTS
  a = a
  b = b
  Keys = {k1, k2}
  Buffers <- MCBuffers
  Values <- MCValues
  NodeSize <- MCNodeSize
  Absent = absent
  MaxTime = 1
  MaxFaults = 1
INVARIANTS
  TypeOK
  OneNodePerKey
  CacheMatchesFile
PROPERTIES
  ViewChangesOnlyByWriting
  AcknowledgedIsStored
