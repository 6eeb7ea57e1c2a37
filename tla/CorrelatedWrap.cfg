\* Two calls after the register wrapped.
CONSTANTS
  Wrap = 8
  NS_PER_COUNT = 4
  Slack = 5
  NUM_TRY_AGAIN = 3
  Delays = {0, 3, 8}
  Pauses = {1, 13}
  U64 = 1024
  MaxTime = 34
  MaxRefused = 0
SPECIFICATION FairSpec
PROPERTY DeviceTimeMonotonic
CHECK_DEADLOCK FALSE
