CONSTANTS
  m1 = m1
  m2 = m2
  Members = {m1, m2}
  Subscribers = {m2}
  Admin = m1
  Boards = {b1}
  Topics = {t1, t2}
  Requests = {r1, r2}
  Stores = {"memory", "surreal"}
  Readers <- MCReaders
  PageSize = 1
  MaxNotes = 2
  MaxActs = 3
  Faults = {"refused", "lost", "unreadable"}
SYMMETRY MCSymmetry
SPECIFICATION SubscriptionsSpec
INVARIANTS AnswersHold IgnoredAreSilent
CHECK_DEADLOCK FALSE
