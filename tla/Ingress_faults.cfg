SPECIFICATION Spec
CONSTANTS
  LarkMessages = {m1, m2}
  LarkOthers = {o1}
  SlackToBot = {s1}
  SlackOthers = {b1}
  None = None
  MaxForgets = 1
  MaxErrors = 1
  MaxCrashes = 1
INVARIANTS LarkOnce OneLostPerFault SlackOnceWhileRemembered AnswerIsTrue
PROPERTY EveryMessageSettled
CHECK_DEADLOCK FALSE
