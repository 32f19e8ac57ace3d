SPECIFICATION RoleSpec
CONSTANTS
  r1 = r1  r2 = r2
  alice = alice  bob = bob
  Callers = {r1, r2}
  Names = {alice, bob}
  MaxTries = 2
  Claims = {"none", "member"}
  RoleFaults = {"unauthorized", "lost", "unnoticed", "unreadable", "disconnect"}
INVARIANTS
  TypeOK
  AdminsAreEntitled
  AtMostOneAdmin
PROPERTIES
  AdminRemains
  TransferHandsOver
SYMMETRY Symmetry
