CONSTANTS
  m1 = m1
  m2 = m2
  Members = {m1, m2}
  Admin = m1
  Spaces = {m2}
  Tokens <- MCTokens
  Requests = {r1, r2}
  Stores = {"memory", "surreal"}
  MaxGroup = 5
  MaxActs = 3
  Targets = {1, 5}
  Faults = {"refused", "lost", "unnoticed"}
SYMMETRY MCSymmetry
SPECIFICATION MembershipSpec
INVARIANTS OfficesAgree
PROPERTIES MembersAreKept
CHECK_DEADLOCK FALSE
