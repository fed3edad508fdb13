\* One export fails; the registry and the SIEM always answer.
SPECIFICATION FairSpec
CONSTANTS
  Id = {r1}
  Approver = {a1}
  Key = {k1}
  Ring = {0, 2}
  Request <- MCRequest
  Call = {c1}
  Payload = {"approval_payload"}
  MaxFailures = 1
  MaxEntries = 1
  None = none
PROPERTIES
  EveryDecisionExported
