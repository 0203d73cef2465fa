SPECIFICATION Spec
CONSTANTS
  People = {u1}
  MaxAttempts = 2
  Tries = 2
  Margin = 2
  ExchangeTime = 1
  RequestTime = 1
  Lifetimes = {3, 4}
  UserTTL = 2
  MaxNow = 5
INVARIANTS TokenAlive EffectsExplained ResultIsTrue UserFresh
PROPERTY CallEnds
