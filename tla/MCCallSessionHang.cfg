SPECIFICATION Spec
CONSTANTS
  MaxSpeeches = 3
  MaxTurns = 3
  MaxPauses = 2
  ForcedInterrupts = TRUE
PROPERTY EndedCallCloses
CHECK_DEADLOCK FALSE
