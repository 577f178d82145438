SPECIFICATION Spec
CONSTANTS
  p1 = p1
  p2 = p2
  s = s
  t1 = t1
  Inbox = {a, b}
  Mail = {p1, p2}
  Raw = {s}
  RawOf <- OneSource
  Att = {t1}
  AttsOf <- Atts
  Id = {n1, n2}
  Deleter = {d1, d2}
  Reader = {r1}
  MaxErrors = 1
  MaxCrashes = 1
INVARIANTS TypeOK StoredIsWhole LeftoversAreExplained SearchMissesOnlyRaced ReadsLoseOnlyToDeletes
SYMMETRY Symmetry
CHECK_DEADLOCK FALSE
