CONSTANTS
  Requests = {r1, r2}
  Refresher = task
  Candidates <- MCCandidates
  Home = "home"
  Sharings = {"shared", "cloned"}
  Faults = {"down", "lost", "forgotten"}
  MaxActs = 3
  MaxFaults = 1
SYMMETRY MCSymmetry
SPECIFICATION Spec
INVARIANTS WritesOnceAtHome FailuresAreEarned
CHECK_DEADLOCK FALSE
