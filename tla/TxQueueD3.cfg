\* mac80211.c:922: may a frame be left in the queue by a suspend of the system?
SPECIFICATION FairSpec
CONSTANTS
  QueueSize = 8
  StartPtr = 5
  Threads = {t1}
  Rx = rx
  Bursts = {1, 7}
  MaxFrames = 8
  MaxEvents = 1
PROPERTY NoTxLeftByD3
CHECK_DEADLOCK FALSE
