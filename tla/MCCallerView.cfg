SPECIFICATION CallerSpec
CONSTANTS
  MaxSpeeches = 3
  MaxTurns = 2
  MaxPauses = 1
  ForcedInterrupts = FALSE
INVARIANTS
  CallerTypeOK
  EachUtteranceIsShownOnce
  PageIsComplete
  EndedCallIsAttended
PROPERTIES
  KeepsItsWord
  EndedCallExits
CHECK_DEADLOCK FALSE
