SPECIFICATION FairSpec
CONSTANTS
  w1 = w1
  w2 = w2
  r1 = r1
  r2 = r2
  r3 = r3
  Workers = {w1, w2}
  Requests = {r1, r2, r3}
  slow = slow
  fast = fast
  Keys = {slow, fast}
  NLimits = 2
  Fm <- ChangedTable
  Burst <- BurstOne
  NoDelay <- DelayFirst
  Slots = 1
  ExpireAge = 1000
  StartTime = 10000
  MaxNow = 10500
  Steps = {500}
  NULL = NULL
INVARIANTS
  NoDanglingNode
  PinsCounted
  ChargedOnce
PROPERTY EventuallyDecided
CHECK_DEADLOCK FALSE
