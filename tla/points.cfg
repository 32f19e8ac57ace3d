SPECIFICATION FairSpec
CONSTANTS
  r1 = r1  r2 = r2
  k1 = k1
  m1 = m1
  NoKey = NoKey
  Requests = {r1, r2}
  Members = {m1}
  Keys = {k1}
  Deltas <- SomeDeltas
  MaxTime = 1
  ComparesIds = TRUE
  Faults = {"unauthorized", "lost", "aborted", "unreadable", "disconnect"}
CHECK_DEADLOCK FALSE
INVARIANTS
  TypeOK
  KeyCountedOnce
  BalanceIsLedger
  CreatedIsInLedger
PROPERTY EveryRequestEnds
