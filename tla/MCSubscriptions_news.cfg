SPECIFICATION Spec
CONSTANTS
  u1 = u1
  e1 = e1
  k1 = k1
  k2 = k2
  r1 = r1
  r2 = r2
  i1 = i1
  i2 = i2
  a1 = a1
  Users = {u1}
  Emails = {e1}
  Words = {k1, k2}
  Identity <- OwnIdentity
  Reqs = {r1, r2}
  Ids = {i1, i2}
  Articles = {a1}
  Matches <- OneMatch
  FirstSize = 2
  DailySize = 1
  Faults = {}
  MaxFaults = 0
  IndexLag = FALSE
  MaxNow = 2
  MaxDeletes = 0
  NONE = NONE
SYMMETRY SymmetryIds
INVARIANTS
  KeptUnlessDeleted
  OnlyStraddlersSkipped
