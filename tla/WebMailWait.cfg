SPECIFICATION Spec
CONSTANTS
  a = a
  b = b
  q1 = q1
  Inbox = {a}
  MaxMail = 1
  InboxOf <- OneMail
  Query = {}
  Matches <- NoMatches
  MaxCalls = 2
  MaxActs = 2
  MaxMishaps = 0
INVARIANT WaitOpens
CHECK_DEADLOCK FALSE
