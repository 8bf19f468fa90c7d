SPECIFICATION TelemetrySpec
CONSTANTS
  Texts <- MCTexts
  QualifyingTexts <- MCQualifying
  ShortTexts <- MCShort
  CopiedTexts <- MCCopied
  PreservedTexts <- MCPreserved
  OneWordStops <- MCStops
  MaxDecisions = 1
  SoftPause = TRUE
  ImmediateMute = TRUE
  FailingControls <- MCFailing
  MaxTurnSegments = 1
  MaxCandidates = 2
  MaxAgentTurns = 2
  MinBargeInTurns = 1
INVARIANTS
  TelemetryTypeOK
  PauseIsOwned
  RatesAreProportions
  ReportsAreCurrent
  PassIsEarned
PROPERTIES
  KeepsTheFloor
  LoneTurnObeysVerdict
  EchoIsSuppressed
  OnlyPlaybackSuppresses
  PauseEnds
