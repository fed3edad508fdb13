\* Three requests of two agents that overlap, a fault, a crash, and time.
SPECIFICATION Spec
CONSTANTS
  Call = {c1, c2, c3}
  Did = {d1, d2}
  Window = 1
  MaxTime = 1
  MaxFaults = 1
  MaxCrashes = 1
  None = none
SYMMETRY Symmetry
INVARIANTS
  ReadIsolated
  DenialExplained
  AnswerLogged
CHECK_DEADLOCK FALSE
