SPECIFICATION FairSpec
CONSTANTS
  t1 = t1
  t2 = t2
  t3 = t3
  c1 = c1
  c2 = c2
  Clients = {c1, c2}
  Callers = {t1, t2, t3}
  ClientOf <- MCClientOf
  None = none
  MaxCalls = 3
INVARIANTS
  TypeOK
  SuccessMeansExecuted
  NoStragglers
  AnswerWakesCaller
PROPERTY EveryCallReturns
CHECK_DEADLOCK FALSE
