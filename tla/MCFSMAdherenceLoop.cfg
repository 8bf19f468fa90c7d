SPECIFICATION AdherenceSpec
CONSTANTS
  Fields <- MCFields
  ReportableFields <- MCFields
  Resolutions <- MCResolutions
  Offered <- MCOffered
  ObjectionTypes <- MCObjections
  MaxRefusals = 2
  MaxRepeats = 3
  None = None
  Utterances <- MCUtterances
  MaxWaiting = 1
  StallLimit = 3
  SpokenRefusalLimit = 2
INVARIANT NoStalledLoop
