\* The daemon is killed while a record is being written.
SPECIFICATION Spec
CONSTANTS
  MaxRecords = 2
  MaxCrashes = 1
  MaxFaults = 0
INVARIANTS
  ReadableAfterRestart
