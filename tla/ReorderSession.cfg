SPECIFICATION FairSpec
CONSTANTS
  q1 = q1
  q2 = q2
  Queues = {q1, q2}
  Steerings <- MCApart
  SnMod = 16
  BufSize = 2
  DropsDelba = 2
  FirstId = 15
  LastId = 16
  Amsdu = {}
  Gp2s = {0}
  MaxJumps = 0
  MaxStep = 2
  MaxRetry = 0
  MaxOlds = 1
  MaxFaults = 1
  MaxSessions = 2
  MaxStops = 2
INVARIANTS DeleteSynchronised CounterExact
PROPERTIES DeleteEnds
CHECK_DEADLOCK FALSE
