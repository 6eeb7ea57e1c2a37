\* A ring of eight that wraps; one thread with single frames and a burst.
SPECIFICATION FairSpec
CONSTANTS
  QueueSize = 8
  StartPtr = 5
  Threads = {t1}
  Rx = rx
  Bursts = {1, 7}
  MaxFrames = 8
  MaxEvents = 1
INVARIANTS
  OneTransmitter
  FramesConserved
  NoLostStop
  WatchdogArmed
  FlushComplete
PROPERTY NoTxHanging
CHECK_DEADLOCK FALSE
