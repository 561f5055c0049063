CONSTANTS
  Errors = {"RecoveryRequired", "AuthenticationRequired", "Other"}
  None = None
  PipeLimit = 2
  ReaderLimit = 1
  QueueLimit = 2
SPECIFICATION FairSpec
PROPERTIES
  KeepsContract
  CancelReports
