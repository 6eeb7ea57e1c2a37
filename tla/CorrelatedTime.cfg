\* A register that wraps at 4 counts of 4 ns; three tries; one call is
\* refused while another one reads.
CONSTANTS
  Wrap = 4
  NS_PER_COUNT = 4
  Slack = 5
  NUM_TRY_AGAIN = 3
  Delays = {0, 3, 8}
  Pauses = {1, 9}
  U64 = 1024
  MaxTime = 14
  MaxRefused = 1
SPECIFICATION Spec
INVARIANTS
  PairFromOneReading
  BestOfTries
  FrameTimesOrdered
CHECK_DEADLOCK FALSE
