CONSTANTS
  Width = 3
  MaxIncludes = 1
  MaxExcludes = 1
  MaxAddresses = 2
  MaxEntries = 2
  Peers = {5}
SPECIFICATION Spec
INVARIANTS
  PlanFaithful
CHECK_DEADLOCK FALSE
