SPECIFICATION Spec
CONSTANTS
  Loops = {a}
  Outsiders = {c}
  None = none
  MaxSends = 1
  MaxPosts = 0
  MaxEvents = 0
  MaxClears = 0
  MaxStops = 0
INVARIANT SenderOutlivesAnswer
CHECK_DEADLOCK FALSE
