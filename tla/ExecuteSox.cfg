\* An agent's read of the audit log overlaps its write.
SPECIFICATION Spec
CONSTANTS
  Call = {c1, c2}
  Did = {d1}
  Window = 1
  MaxTime = 0
  MaxFaults = 0
  MaxCrashes = 0
  None = none
INVARIANTS
  NoReadAfterWrite
CHECK_DEADLOCK FALSE
