SPECIFICATION Spec
CONSTANTS
  TargetLists <- TargetFiles
  Registries <- WithAndWithoutSlack
  Long = {2}
  MaxTexts = 2
  MaxRuns = 3
  MaxFaults = 1
  MaxRefused = 1
  MaxCrashes = 1
INVARIANTS ClosedMeansReached LoggedMeansArrived SameMessageOnce LinkGiven
CHECK_DEADLOCK FALSE
