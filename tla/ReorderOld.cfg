SPECIFICATION Spec
CONSTANTS
  q1 = q1
  q2 = q2
  Queues = {q1, q2}
  Steerings <- MCSteerings
  SnMod = 16
  BufSize = 2
  DropsDelba = 2
  FirstId = 15
  LastId = 17
  Amsdu = {}
  Gp2s = {0}
  MaxJumps = 0
  MaxStep = 2
  MaxRetry = 0
  MaxOlds = 1
  MaxFaults = 0
  MaxSessions = 1
  MaxStops = 0
INVARIANT OrderKept
CHECK_DEADLOCK FALSE
