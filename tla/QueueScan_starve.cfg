SPECIFICATION FairSpec
CONSTANTS
  Requester = {r1, r2}
  Capacity = 2
PROPERTY NoStarvation
