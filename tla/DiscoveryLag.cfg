\* More events at once than the channel holds.
SPECIFICATION FairSpec
CONSTANTS
  Did = {d1, d2}
  Watcher = {}
  Capacity = 2
  MaxEvents = 4
  MaxFaults = 0
  MaxRestarts = 0
  None = none
PROPERTIES
  NoAlertLost
