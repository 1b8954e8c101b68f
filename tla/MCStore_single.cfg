SPECIFICATION Spec
CONSTANTS
  Threads = {t1}
  Capabilities <- MCCapabilities
  Edits <- MCEdits
  Bad = Bad
  Absent = Absent
  Empty = Empty
  Torn = Torn
  Unknown = Unknown
  MaxOps = 3
  MaxFaults = 2
INVARIANTS TypeOK FileFollowsMemory
PROPERTIES PersistentRegistry
CHECK_DEADLOCK FALSE
