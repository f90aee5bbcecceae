SPECIFICATION Spec
CONSTANTS
  u1 = u1
  e1 = e1
  k1 = k1
  r1 = r1
  i1 = i1
  a1 = a1
  a2 = a2
  Users = {u1}
  Emails = {e1}
  Words = {k1}
  Identity <- OwnIdentity
  Reqs = {r1}
  Ids = {i1}
  Articles = {a1, a2}
  Matches <- AllMatch
  FirstSize = 2
  DailySize = 1
  Faults = {"send", "query", "mongo", "crash"}
  MaxFaults = 1
  IndexLag = TRUE
  MaxNow = 2
  MaxDeletes = 1
  NONE = NONE
SYMMETRY SymmetryIds
INVARIANTS
  OnlyStraddlersSkipped
