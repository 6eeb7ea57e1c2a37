\* One thread that waits twice and two RX contexts: the answer to the first wait
\* may come late, beside an unsolicited packet and the error path.
CONSTANTS
  Waiters = {w1}
  RxContexts = {r1, r2}
  Opcodes = {o1}
  CmdSets <- MCCmdSets
  MaxWaits = 2
  MaxUnsolicited = 1
SPECIFICATION FairSpec
INVARIANTS
  EntryLifetime
  CallbackOnce
  SuccessIsGenuine
  NoAnswerLost
  NoLostWakeup
PROPERTY FinishedWaitReturns
CHECK_DEADLOCK FALSE
