CONSTANTS
  init = init
  OnceKeys = {init}
  NULL = NULL
  Elements <- MCElements
  Programs <- MCPrograms
  MaxRoots = 2
  MaxTurns = 2
  MaxSpurious = 1
SPECIFICATION Spec
CHECK_DEADLOCK FALSE
INVARIANT OneContinuation
PROPERTY FluxesTerminate
