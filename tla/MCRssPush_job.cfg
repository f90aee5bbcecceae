SPECIFICATION FairSpec
CONSTANTS
  u1 = u1
  a1 = a1
  a2 = a2
  Users = {u1}
  Articles = {a1, a2}
  Wants <- AllWanted
  Size = 1
  PushRate = 2
  Minute = 2
  IndexLag = TRUE
  Faults = {"query", "send", "update", "crash"}
  Settled = 3
  MaxNow = 5
  MaxFaults = 1
  NONE = NONE
INVARIANTS
  TypeOK
  NothingElseLost
  MailedAtMostTwice
PROPERTY NewsIsMailed
CHECK_DEADLOCK FALSE
