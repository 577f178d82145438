SPECIFICATION Spec
CONSTANTS
  m1 = m1
  m2 = m2
  A = A
  a = a
  b = b
  x = x
  sp = sp
  Mail = {m1}
  Addr = {A, a, b, x, sp}
  Inbox = {"a", "b", "x"}
  Blank = ""
  Norm <- Normalized
  HandledInboxes = {"a", "b"}
  RcptsOf <- TwoRcpts
  WithAttachment = {}
  Conn = {c1}
  Post = {h1}
  Dest = {d1, d2}
  MaxAttempts = 1
  MaxFaults = 1
  MaxChanges = 1
INVARIANT JobsAreRight
CHECK_DEADLOCK FALSE
