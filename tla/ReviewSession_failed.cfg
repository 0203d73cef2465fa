SPECIFICATION Spec
CONSTANTS
  Message = {"material", "a", "ok", "done"}
  Scans <- SmallScans
  TopN = 1
  MaxFailCount = 2
  Patient = TRUE
  MaxSessions = 1
  MaxRounds = 2
  InboxCap = 1
  Trouble = {"terminal"}
  MaxTrouble = 1
  MaxCrashes = 0
PROPERTY FailedIsFinal
CHECK_DEADLOCK FALSE
