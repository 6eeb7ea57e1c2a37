\* A reader and the starting thread, three calls in all; a wait sleeps once
\* before it gives up.
CONSTANTS
  Readers = {t1}
  Starter = starter
  MAX_FW_WAIT_COUNT = 1
  MaxCalls = 3
SPECIFICATION Spec
INVARIANTS
  PendingIsOwned
  SuccessIsFresh
CHECK_DEADLOCK FALSE
