SPECIFICATION Spec
CONSTANTS
  TimeMod = 16
  Posters = {p1}
  Reader = reader
  Handlers = {h1}
  Delays = {1}
  Waits = {1}
  Forever = forever
  None = none
  ClockStart = 0
  MaxNow = 2
  MaxPosts = 1
  MaxStops = 1
PROPERTY StopDeliversReadyPosts
CHECK_DEADLOCK FALSE
