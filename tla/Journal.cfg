CONSTANTS
  t1 = t1
  t2 = t2
  dhcp = dhcp
  address = address
  route = route
  N = 2
  Bound = {1}
  Carried = {2}
  Needs <- LinuxNeeds
  Implied = {2}
  Listed = {2}
  Txns = {t1, t2}
  Configs <- LinuxConfigs
  Foreign = {dhcp}
  Absent = Absent
  Mixed = Mixed
  NoJournal = NoJournal
  MaxChanges = 1
  MaxBoots = 1
  MaxIfaces = 2
SPECIFICATION FairSpec
INVARIANTS
  Restorable
PROPERTIES
  HelperEnds
  ForeignPreserved
