SPECIFICATION FairSpec
CONSTANTS
  a = a
  b = b
  q1 = q1
  Inbox = {a, b}
  MaxMail = 2
  InboxOf <- TwoInOne
  Query = {q1}
  Matches <- FirstOnly
  MaxCalls = 3
  MaxActs = 2
  MaxMishaps = 1
INVARIANTS TypeOK FlagsHaveOwners ListIsOwn RawIsOwn
PROPERTIES ReaderKeepsOpen ListSettles
CHECK_DEADLOCK FALSE
