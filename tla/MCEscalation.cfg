\* Two calls, two requests, re-registrations, and a fault or a crash.
SPECIFICATION Spec
CONSTANTS
  Id = {r1, r2}
  Approver = {a1}
  Key = {k1, k2}
  Ring = {0, 2}
  Request <- MCRequest
  Call = {c1, c2}
  Payload = {"approval_payload"}
  MaxFailures = 1
  MaxEntries = 2
  None = none
SYMMETRY Symmetry
INVARIANTS
  OneDecision
  ApprovalAuthorised
  AuditInOrder
PROPERTIES
  RefinesLedger
