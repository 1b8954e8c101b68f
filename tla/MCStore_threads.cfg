SPECIFICATION Spec
CONSTANTS
  Threads = {t1, t2}
  Capabilities <- MCCapabilities
  Edits <- NoEdits
  Bad = Bad
  Absent = Absent
  Empty = Empty
  Torn = Torn
  Unknown = Unknown
  MaxOps = 4
  MaxFaults = 1
INVARIANTS FileFollowsMemory
SYMMETRY ThreadSymmetry
CHECK_DEADLOCK FALSE
