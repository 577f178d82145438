SPECIFICATION FairSpec
CONSTANTS
  u1 = u1
  u2 = u2
  d1 = d1
  User = {u1, u2}
  Dest = {d1}
  Admin = u1
  OpenMode = TRUE
  MaxKeys = 3
  MaxBook = 2
  MaxCalls = 4
  MaxActs = 3
  MaxMishaps = 1
INVARIANTS TypeOK SessionIsWhole ListsAreOwn EditsAddUp
PROPERTIES GateOpens
CHECK_DEADLOCK FALSE
