\* Two agents, a watcher, a lagging bridge, a failed append and a restart.
SPECIFICATION FairSpec
CONSTANTS
  Did = {d1, d2}
  Watcher = {w1}
  Capacity = 2
  MaxEvents = 3
  MaxFaults = 1
  MaxRestarts = 1
  None = none
INVARIANTS
  AlertsInOrder
  AlertsPerAgent
  UnregisteredListed
  RegisteredForGood
PROPERTIES
  AlertLogged
