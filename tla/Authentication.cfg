SPECIFICATION FairSpec
CONSTANTS
  None = None
  Profiles <- MCProfiles
  Forms <- MCForms
  QueueLimit = 2
  PeerLimit = 1
  EmptyLimit = 1
  MaxCalls = 2
INVARIANTS
  PeersApproved
  PinCommitted
  HandoffClean
  AnswersFit
PROPERTIES
  CancelEnds
CHECK_DEADLOCK FALSE
