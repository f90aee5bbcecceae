SPECIFICATION Spec
CONSTANTS
  w1 = w1
  w2 = w2
  r1 = r1
  r2 = r2
  r3 = r3
  r4 = r4
  Workers = {w1, w2}
  Requests = {r1, r2, r3, r4}
  slow = slow
  fast = fast
  Keys = {slow, fast}
  NLimits = 2
  Fm <- SameTable
  Burst <- BurstOne
  NoDelay <- DelayFirst
  Slots = 1
  ExpireAge = 1000
  StartTime = 10000
  MaxNow = 11000
  Steps = {500}
  NULL = NULL
SYMMETRY Symmetry
INVARIANTS
  TypeOK
  NoDanglingNode
  PinsExact
  ChargedOnce
  ExcessBounded
PROPERTY ErrorOnlyWhenPinned
CHECK_DEADLOCK FALSE
