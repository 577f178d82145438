SPECIFICATION Spec
CONSTANTS
  m = m
  Job = {j1}
  Msg = {m}
  MessageOf <- OneMessage
  Worker = {w1}
  Batch = 1
  MaxTries = 2
  Relays = {FALSE}
  Lateness = 0
  MaxCrashes = 1
  MaxStoreErrors = 0
  MaxLostAcks = 0
INVARIANT NilSenderIsNoOp
CHECK_DEADLOCK FALSE
