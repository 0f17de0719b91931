SPECIFICATION FairSpec
CONSTANTS
  TimeMod = 16
  Posters = {p1}
  Reader = reader
  Handlers = {h1, h2}
  Delays = {0, 1}
  Waits = {1}
  Forever = forever
  None = none
  ClockStart = 0
  MaxNow = 2
  MaxPosts = 2
  MaxStops = 1
INVARIANTS
  TypeOK
  NoLostWakeup
PROPERTIES
  TimersFireInOrder
  ImplementsMailbox
  EveryMessageTaken
CHECK_DEADLOCK FALSE
