SPECIFICATION Spec
CONSTANTS
  f1 = f1
  f2 = f2
  e1 = e1
  e2 = e2
  e3 = e3
  Feeds = {f1, f2}
  Entries = {e1, e2, e3}
  Complete = {e1, e2}
  Described = {e1, e3}
  Uuid <- OwnUuid
  Carries <- Overlap
  Ttls = {0}
  Undated = FALSE
  Minute = 2
  MinRate = 1
  DefaultRate = 2
  UpdateRate <- NoRate
  IntBits = 4
  Faults = {"find", "crash"}
  MaxNow = 2
  MaxFaults = 2
  MaxIssues = 2
  NONE = NONE
INVARIANTS
  UnchangedIsStored
  CopiesPerFeed
CHECK_DEADLOCK FALSE
