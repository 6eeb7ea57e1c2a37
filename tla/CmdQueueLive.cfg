\* Calls under the mutex only, with errors: every success was answered, and
\* every call returns.  The window holds all three commands at once.
SPECIFICATION FairSpec
CONSTANTS
  QueueSize = 8
  Window = 4
  ApmgWakeUpWa = TRUE
  Kinds = {{"ASYNC"}, {}}
  MaxCalls = 3
  MaxErrors = 1
  MaxRfkills = 0
  MaxSkips = 1
  MaxStops = 1
  MaxDeaths = 1
INVARIANTS
  SuccessIsAnswered
  PendingKeepsAwake
PROPERTY CallReturns
CHECK_DEADLOCK FALSE
