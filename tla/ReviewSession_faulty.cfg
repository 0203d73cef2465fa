SPECIFICATION FairSpec
CONSTANTS
  Message = {"material", "a", "ok", "more", "done", "force"}
  Scans <- SmallScans
  TopN = 1
  MaxFailCount = 2
  Patient = FALSE
  Trouble = {"terminal", "raise", "partial"}
  MaxTrouble = 1
  MaxCrashes = 2
  MaxSessions = 1
  MaxRounds = 2
  InboxCap = 1
INVARIANTS GateGivesUp ReopenedHasFinding ReadsWhatExists
PROPERTIES EndIsFinal ClosedUnderVerdict ResumedMovesOn
CHECK_DEADLOCK FALSE
