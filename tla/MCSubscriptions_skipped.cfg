SPECIFICATION Spec
CONSTANTS
  u1 = u1
  e1 = e1
  e2 = e2
  k1 = k1
  r1 = r1
  r2 = r2
  i1 = i1
  i2 = i2
  a1 = a1
  Users = {u1}
  Emails = {e1}
  Words = {k1}
  Identity <- OwnIdentity
  Reqs = {r1}
  Ids = {i1, i2}
  Articles = {a1}
  Matches <- AllMatch
  FirstSize = 2
  DailySize = 1
  Faults = {}
  MaxFaults = 0
  IndexLag = FALSE
  MaxNow = 2
  MaxDeletes = 2
  NONE = NONE
INVARIANT NothingSkipped
