SPECIFICATION FairSpec
CONSTANTS
  m1 = m1
  m2 = m2
  A = A
  a = a
  b = b
  x = x
  sp = sp
  Mail = {m1, m2}
  Addr = {A, a, b, x, sp}
  Inbox = {"a", "b", "x"}
  Blank = ""
  Norm <- Normalized
  HandledInboxes = {"a", "b"}
  RcptsOf <- Mixed
  WithAttachment = {}
  Conn = {c1}
  Post = {h1}
  Dest = {}
  MaxAttempts = 3
  MaxFaults = 2
  MaxChanges = 0
INVARIANTS TypeOK AckedIsStored EnvelopesAreKept
PROPERTY EveryMailIsSettled
CHECK_DEADLOCK FALSE
