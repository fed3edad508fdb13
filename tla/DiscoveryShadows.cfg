\* A registered agent reports its presence.
SPECIFICATION Spec
CONSTANTS
  Did = {d1}
  Watcher = {}
  Capacity = 2
  MaxEvents = 2
  MaxFaults = 0
  MaxRestarts = 0
  None = none
INVARIANTS
  ShadowsAreUnregistered
