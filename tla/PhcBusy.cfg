\* One reader; the firmware answers after the reader gave up.
CONSTANTS
  Readers = {t1}
  Starter = starter
  MAX_FW_WAIT_COUNT = 1
  MaxCalls = 2
SPECIFICATION Spec
INVARIANT BusyIsReal
CHECK_DEADLOCK FALSE
