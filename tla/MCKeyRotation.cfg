\* Two requests, of the agent or of another one, two more keys, and three faults.
SPECIFICATION RotationSpec
CONSTANTS
  Call = {c0, c1, c2}
  Did = {d1, d2}
  None = none
  Agent = d1
  Boot = c0
  Key = {k0, k1, k2}
  First = k0
  MaxFaults = 3
SYMMETRY Symmetry
INVARIANTS
  RotationTypeOK
  RestoredIsRecent
  RefusesOnlyWhenTorn
  NotLockedOut
  ReplacedKeyPowerless
  NothingFromNothing
CHECK_DEADLOCK FALSE
