\* Three requests of one agent whose policy changes, two faults, and time.
SPECIFICATION Spec
CONSTANTS
  Call = {c1, c2, c3}
  Did = {d1}
  Second = 2
  Policy <- MCPolicy
  MaxTime = 3
  MaxFaults = 2
  None = none
SYMMETRY Symmetry
INVARIANTS
  RateLimited
  ForwardedAllowed
  LogTruthful
  UnloggedBounded
CHECK_DEADLOCK FALSE
