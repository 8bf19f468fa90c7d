SPECIFICATION DashSpec
CONSTANTS
  MaxTurns = 3
  MaxTrail = 2
  Notes = {"pass", "warn"}
  Grades = {"mismatch", "terse"}
INVARIANTS
  DashTypeOK
  ResponsesAnswerTheirTurn
  FarewellIsRecorded
  TrailTellsTheCall
  EvidenceIsComplete
  VerdictsAgree
  NoFalseAlarm
PROPERTIES
  KeepsTheLedger
  VerdictStands
