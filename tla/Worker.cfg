CONSTANTS
  MaxCycles = 1
  EventLimit = 1
  ReportLimit = 1
SPECIFICATION FairSpec
PROPERTIES
  HonestStatus
  CancelEnds
