SPECIFICATION Spec
CONSTANTS
  MaxSpeeches = 3
  MaxTurns = 3
  MaxPauses = 0
  ForcedInterrupts = FALSE
INVARIANT ShutsDownAfterFarewell
CHECK_DEADLOCK FALSE
