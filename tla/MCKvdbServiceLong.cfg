SPECIFICATION Spec
CONSTANTS
  a = a
  b = b
  Keys = {k1}
  Buffers <- MCBuffers
  Values <- MCLongValues
  NodeSize <- MCNodeSize
  Absent = absent
  MaxTime = 0
  MaxFaults = 0
PROPERTY AcknowledgedIsStored
