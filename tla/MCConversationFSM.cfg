SPECIFICATION Spec
CONSTANTS
  Fields <- MCFields
  ReportableFields <- MCReportable
  Resolutions <- MCResolutions
  Offered <- MCOffered
  ObjectionTypes <- MCObjections
  MaxRefusals = 2
  MaxRepeats = 3
  None = None
INVARIANTS
  TypeOK
  DataGateHolds
  OutcomeIsOffered
  LimitsEndTheCall
  RoutesAreDeclared
PROPERTIES
  EndedIsFinal
  ImplementsContract
