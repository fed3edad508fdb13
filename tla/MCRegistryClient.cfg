\* Two tasks with any number of calls over two keys; time goes beyond the life of an attestation.
SPECIFICATION Spec
CONSTANTS
  Call = {c1, c2}
  Key = {k1, k2}
  Ttl = 3
  JitterMin = 1
  JitterMax = 3
  MaxTime = 4
  None = none
SYMMETRY Symmetry
PROPERTIES
  AcceptedRecent
  DeniedExplained
  LoadedCurrent
CHECK_DEADLOCK FALSE
