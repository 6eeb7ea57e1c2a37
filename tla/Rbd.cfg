\* Two queues that post and claim at once; a short ring, so that one queue is
\* owed more than a request and both meet the emergency mode.
CONSTANTS
  q1 = q1
  q2 = q2
  Queues = {q1, q2}
  DefaultQueue = q1
  Claim = 3
  Post = 1
  QueueSize = 5
  Batch = 2
  Grain = 1
  MaxFaults = 0
  MaxRestarts = 0
SPECIFICATION FairSpec
INVARIANTS AllocatorNeverEmpty ClaimFinds NoLostRequest
PROPERTY ImplementsService
CHECK_DEADLOCK FALSE
