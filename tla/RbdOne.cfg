\* One queue of a larger ring: emergencies, failed allocations, a restart.
CONSTANTS
  q1 = q1
  q2 = q2
  Queues = {q1}
  DefaultQueue = q1
  Claim = 3
  Post = 1
  QueueSize = 12
  Batch = 2
  Grain = 2
  MaxFaults = 1
  MaxRestarts = 1
SPECIFICATION Spec
INVARIANTS Conserved UntrackedOnlyAfterFailure NeverStalls
CHECK_DEADLOCK FALSE
