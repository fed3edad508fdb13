\* Approvals signed by `agt escalate approve`.
SPECIFICATION Spec
CONSTANTS
  Id = {r1}
  Approver = {a1}
  Key = {k1}
  Ring = {0, 2}
  Request <- MCRequest
  Call = {c1}
  Payload = {"cli"}
  MaxFailures = 0
  MaxEntries = 1
  None = none
INVARIANTS
  HonestApprovalAccepted
