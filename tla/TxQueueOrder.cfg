\* One skb that is split into eight MPDUs.
SPECIFICATION Spec
CONSTANTS
  QueueSize = 8
  StartPtr = 5
  Threads = {t1}
  Rx = rx
  Bursts = {8}
  MaxFrames = 8
  MaxEvents = 1
INVARIANT SeqIsPosition
CHECK_DEADLOCK FALSE
