\* The daemon is killed between the flush of a record and its checkpoint.
SPECIFICATION Spec
CONSTANTS
  MaxRecords = 2
  MaxCrashes = 1
  MaxFaults = 0
INVARIANTS
  IntactAfterRestart
