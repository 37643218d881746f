SPECIFICATION PropertySpec
CONSTANTS
  t1 = t1
  t2 = t2
  t3 = t3
  p1 = p1
  p2 = p2
  first = first
  by1 = by1
  by2 = by2
  i1 = i1
  None = None
  Threads <- TwoThreads
  Processes = {p1, p2}
  Locks <- MCLocks
  First <- first
  LockBy <- MCLockBy
  NumChunks = 2
  MaxRetries = 1
  MaxCuts = 2
  Settings <- MCSettings
  Askers = {t1, t2, t3}
  Instances = {i1}
  NoThread = NoThread
  NoInstance = NoInstance
INVARIANTS
  ComputedAlone
PROPERTIES
  AskersAreAnswered
\* Nobody has to ask for the property.
CHECK_DEADLOCK FALSE
