\* Three commands around a ring of four positions over two entries: of the PTP
\* clock, under the mutex, asynchronous, or wanting its answer even in rfkill.
SPECIFICATION Spec
CONSTANTS
  QueueSize = 4
  Window = 2
  ApmgWakeUpWa = TRUE
  Kinds = {{"NO_MUTEX"}, {}, {"ASYNC"}, {"WANT_SKB", "SEND_IN_RFKILL"}}
  MaxCalls = 3
  MaxErrors = 0
  MaxRfkills = 1
  MaxSkips = 0
  MaxStops = 1
  MaxDeaths = 0
INVARIANTS
  EntryIntact
  AnswerIsOwn
  SuccessIsAnswered
PROPERTY RefusedForAnother
CHECK_DEADLOCK FALSE
