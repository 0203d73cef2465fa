SPECIFICATION FairSpec
CONSTANTS
  Requester = {r1, r2}
  MaxTasks = 4
  MaxCrashes = 2
  MaxFaults = 1
INVARIANTS QueuesMirrorTable NoLostWakeup RunsOncePerLife
PROPERTIES StartsInOrder ImplementsInbox EveryTaskFinishes ImplementsScan
CHECK_DEADLOCK FALSE
