CONSTANTS
  NoOne = NoOne
  FeedLimit = 3
SPECIFICATION FairSpec
INVARIANTS
  ResultTrue
PROPERTIES
  WindsDown
