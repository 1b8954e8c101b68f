SPECIFICATION Spec
CONSTANTS
  Threads = {t1, t2}
  Capabilities <- FewCapabilities
  Edits <- NoEdits
  Bad = Bad
  Absent = Absent
  Empty = Empty
  Torn = Torn
  Unknown = Unknown
  MaxOps = 2
  MaxFaults = 0
INVARIANTS WritesAreFlushed
CHECK_DEADLOCK FALSE
