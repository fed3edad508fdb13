\* Crashes and I/O errors at every step of append, and restarts.
SPECIFICATION Spec
CONSTANTS
  MaxRecords = 4
  MaxCrashes = 2
  MaxFaults = 2
INVARIANTS
  ViolationsExplained
  ViolationsBounded
  AckedDurable
PROPERTIES
  RefinesAuditChain
