SPECIFICATION Spec
CONSTANT
  Environments <- OnlyAbortHost
INVARIANTS
  NoFatalError
CHECK_DEADLOCK FALSE
