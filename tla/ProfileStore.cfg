SPECIFICATION Spec
CONSTANTS
  None = None
  Procs = {p1, p2}
  Ids = {i1, i2}
  Names = {n1, n2}
  MaxRevision = 4
  MaxOperations = 3
  MaxCrashes = 1
SYMMETRY Symmetry
INVARIANTS
  InUseKept
  HotpOnce
  LoginAgrees
  NoCircularWait
PROPERTIES
  NothingOverwritten
  RemovalErases
CHECK_DEADLOCK FALSE
