\* A root and an ordinary user with a connection each, and two attempts: enough
\* for a second attempt to meet what the first left behind.
CONSTANTS
  root = root
  user = user
  c1 = c1
  c2 = c2
  a1 = a1
  a2 = a2
  Peers = {root, user}
  Roots = {root}
  Conns = {c1, c2}
  Attempts = {a1, a2}
  Prior = Prior
  LeaseLimit = 1
  QueueLimit = 1
  None = None
SPECIFICATION FairSpec
CONSTRAINTS
  FirstAttempt
  OnePeerEach
INVARIANTS
  OneSupervisor
  RecoverySafe
PROPERTIES
  DownOnRequest
  KeepsPromise
  UsesContract
  SlotReturns
