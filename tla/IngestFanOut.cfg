SPECIFICATION Spec
CONSTANTS
  m1 = m1
  m2 = m2
  A = A
  a = a
  b = b
  x = x
  sp = sp
  Mail = {m1}
  Addr = {A, a, b, x, sp}
  Inbox = {"a", "b", "x"}
  Blank = ""
  Norm <- Normalized
  HandledInboxes = {"a", "b"}
  RcptsOf <- TwoRcpts
  WithAttachment = {m1}
  Conn = {c1}
  Post = {}
  Dest = {}
  MaxAttempts = 2
  MaxFaults = 0
  MaxChanges = 0
INVARIANT CopiesAreIndependent
CHECK_DEADLOCK FALSE
