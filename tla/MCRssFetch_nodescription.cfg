SPECIFICATION FairSpec
CONSTANTS
  f1 = f1
  f2 = f2
  e1 = e1
  e2 = e2
  e3 = e3
  Feeds = {f1}
  Entries = {e1, e2}
  Complete = {e1, e2}
  Described = {e1}
  Uuid <- OwnUuid
  Carries <- Overlap
  Ttls = {0}
  Undated = FALSE
  Minute = 2
  MinRate = 1
  DefaultRate = 2
  UpdateRate <- NoRate
  IntBits = 4
  Faults = {}
  MaxNow = 3
  MaxFaults = 0
  MaxIssues = 2
  NONE = NONE
PROPERTY FeedIsRead
CHECK_DEADLOCK FALSE
