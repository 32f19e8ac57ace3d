CONSTANTS
  m1 = m1
  m2 = m2
  o1 = o1
  o2 = o2
  MaxCalls <- MCMaxCalls
  Window = 2
  MaxClock = 2
  Names = {n1}
  Batches <- MCBatches
  DirSizeBytes = 3
  PostFiles = 2
  Requests = {r1, r2}
  Stores = {"memory", "surreal", "api"}
  MaxFiles = 3
  MaxActs = 3
  Faults = {"refused", "lost", "unnoticed", "unreadable", "same_tick"}
  Members = {m1, m2}
  Options = {o1, o2}
  Ballots <- MCBallots
  Bodies <- MCBodies
  TopicIds = {1, 2}
  MessageIds = {1}
SYMMETRY MCSymmetry
SPECIFICATION Spec
INVARIANTS FilesKept RateKept SavedIsKept
CHECK_DEADLOCK FALSE
