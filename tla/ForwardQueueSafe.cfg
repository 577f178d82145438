SPECIFICATION AnsweringSpec
CONSTANTS
  m = m
  Job = {j1, j2}
  Msg = {m}
  MessageOf <- OneMessage
  Worker = {w1}
  Batch = 1
  MaxTries = 2
  Relays = {TRUE, FALSE}
  Lateness = 0
  MaxCrashes = 1
  MaxStoreErrors = 1
  MaxLostAcks = 1
INVARIANTS TypeOK DuplicatesAreFaults AttemptsAreTries EmptyCopiesAreExcused VerdictsAreEarned MemoryIsCurrent
PROPERTIES AttemptsAreSpaced KeepsOutbox EveryJobSettles
CHECK_DEADLOCK FALSE
