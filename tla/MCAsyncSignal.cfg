SPECIFICATION FairSpec
CONSTANTS
  NumSignals = 2
  MaxHandlers = 2
  MaxSignals = 2
CHECK_DEADLOCK FALSE
INVARIANTS
  TypeOK
  CallbackIsLive
  SleeperPollsAll
PROPERTIES
  OnlyOvertakenHooksFail
  SignalHandled
  ShutdownReturns
