SPECIFICATION MCSpec
CONSTANTS
  Texts <- MCTexts
  QualifyingTexts <- MCTexts
  ShortTexts <- MCNone
  CopiedTexts <- MCTexts
  PreservedTexts <- MCNone
  MaxDecisions = 24
  SoftPause = TRUE
  ImmediateMute = FALSE
  FailingControls <- MCNone
  MaxTurnSegments = 1
  MaxCandidates = 1
PROPERTIES
  EchoOfPausedIsSuppressed
