SPECIFICATION Spec
CONSTANTS
  QueueSize = 4
  Window = 2
  ApmgWakeUpWa = FALSE
  Kinds = {{"ASYNC"}, {}}
  MaxCalls = 2
  MaxErrors = 0
  MaxRfkills = 0
  MaxSkips = 0
  MaxStops = 0
  MaxDeaths = 0
INVARIANT FullIsNotEmpty
CHECK_DEADLOCK FALSE
