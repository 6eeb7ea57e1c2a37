\* A reader of the PTP clock beside a call under the mutex.
SPECIFICATION Spec
CONSTANTS
  QueueSize = 4
  Window = 2
  ApmgWakeUpWa = FALSE
  Kinds = {{"NO_MUTEX"}, {}}
  MaxCalls = 2
  MaxErrors = 0
  MaxRfkills = 0
  MaxSkips = 0
  MaxStops = 0
  MaxDeaths = 0
INVARIANT NeverAlreadyActive
CHECK_DEADLOCK FALSE
