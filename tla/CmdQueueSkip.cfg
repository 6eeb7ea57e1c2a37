\* A firmware that goes past a command without answering it.
SPECIFICATION Spec
CONSTANTS
  QueueSize = 8
  Window = 4
  ApmgWakeUpWa = FALSE
  Kinds = {{"ASYNC"}}
  MaxCalls = 5
  MaxErrors = 0
  MaxRfkills = 0
  MaxSkips = 2
  MaxStops = 0
  MaxDeaths = 0
PROPERTY ReclaimsUpTo
CHECK_DEADLOCK FALSE
