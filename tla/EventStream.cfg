CONSTANTS
  Me = Me
  Other = Other
  NoOne = NoOne
  MaxSeq = 8
  MaxInst = 2
  RingLimit = 3
  WireLimit = 2
SPECIFICATION FairSpec
INVARIANTS
  LogFaithful
PROPERTIES
  NeverBackwards
  CatchesUp
