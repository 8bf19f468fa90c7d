SPECIFICATION ControllerSafety
CONSTANTS
  Fields <- MCFields
  ReportableFields <- MCFields
  Resolutions <- MCResolutions
  Offered <- MCOffered
  ObjectionTypes <- MCObjections
  MaxRefusals = 2
  MaxRepeats = 2
  None = None
  Utterances <- MCUtterances
  MaxWaiting = 1
INVARIANT RecordedReviewWasConfirmed
