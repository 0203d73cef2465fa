SPECIFICATION Spec
CONSTANTS
  Message = {"material", "a", "ok", "done"}
  Scans <- SmallScans
  TopN = 1
  MaxFailCount = 2
  Patient = TRUE
  MaxSessions = 1
  MaxRounds = 2
  InboxCap = 1
  Trouble = {}
  MaxTrouble = 0
  MaxCrashes = 1
PROPERTY ReplyAppliesToPrompt
CHECK_DEADLOCK FALSE
