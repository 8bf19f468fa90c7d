SPECIFICATION Spec
CONSTANTS
  Texts <- MCTexts
  QualifyingTexts <- MCQualifying
  MaxDecisions = 24
  SoftPause = TRUE
  ImmediateMute = FALSE
  FailingControls <- MCReliable
  MaxTurnSegments = 2
  MaxCandidates = 2
PROPERTIES
  RejectedNeverAdvances
