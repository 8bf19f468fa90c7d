SPECIFICATION MCSpec
CONSTANTS
  Fields <- MCFields
  ReportableFields <- MCFields
  Resolutions <- MCResolutions
  Offered <- MCOffered
  ObjectionTypes <- MCObjections
  MaxRefusals = 2
  MaxRepeats = 2
  None = None
  Utterances <- MCUtterances
  MaxWaiting = 1
  StallLimit = 2
  SpokenRefusalLimit = 2
INVARIANTS
  ControllerTypeOK
  VerifiedWordsWereSpoken
  OutcomeNeedsAgreement
  RoutesAreClean
  LoopsAreEscalations
PROPERTIES
  NothingAfterTheEnd
  FailureDecidesNothing
  TurnsAreServed
