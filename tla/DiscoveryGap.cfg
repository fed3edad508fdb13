\* An alert is raised between the replay and the subscription of a watcher.
SPECIFICATION Spec
CONSTANTS
  Did = {d1, d2}
  Watcher = {w1}
  Capacity = 2
  MaxEvents = 4
  MaxFaults = 0
  MaxRestarts = 0
  None = none
INVARIANTS
  NoGap
