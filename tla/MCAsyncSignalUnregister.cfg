SPECIFICATION Spec
CONSTANTS
  NumSignals = 1
  MaxHandlers = 1
  MaxSignals = 2
CHECK_DEADLOCK FALSE
INVARIANT HookFindsHandler
