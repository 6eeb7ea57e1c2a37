SPECIFICATION FairSpec
CONSTANTS
  q1 = q1
  q2 = q2
  Queues = {q1, q2}
  Steerings <- MCFollow
  SnMod = 18
  BufSize = 3
  DropsDelba = 2
  FirstId = 17
  LastId = 20
  Amsdu = {18}
  Gp2s = {1}
  MaxJumps = 1
  MaxStep = 3
  MaxRetry = 1
  MaxOlds = 0
  MaxFaults = 0
  MaxSessions = 1
  MaxStops = 0
INVARIANTS Accounting InOrder FreshKept
PROPERTIES HeadForward StoredLeaves
CHECK_DEADLOCK FALSE
