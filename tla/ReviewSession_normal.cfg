SPECIFICATION FairSpec
CONSTANTS
  Message = {"material", "file", "text", "sticker", "a", "b", "c", "ok", "pass", "more", "done", "force", "question", "cancel"}
  Scans <- WideScans
  TopN = 1
  MaxFailCount = 2
  Patient = TRUE
  Trouble = {}
  MaxTrouble = 0
  MaxCrashes = 0
  MaxSessions = 1
  MaxRounds = 2
  InboxCap = 1
INVARIANTS PromptMatchesStage RestsOnlyOnRequester NoneStranded SilenceIsKnown
PROPERTIES ReplyAppliesToPrompt ForceCloseDelivers ImplementsLifecycle
CHECK_DEADLOCK FALSE
