\* A cross timestamp races another reader.
CONSTANTS
  Readers = {t1, t2}
  Starter = starter
  MAX_FW_WAIT_COUNT = 1
  MaxCalls = 2
SPECIFICATION Spec
INVARIANT ReadSynchronously
CHECK_DEADLOCK FALSE
