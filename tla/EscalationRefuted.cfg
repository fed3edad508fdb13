\* The approver is registered anew between get_ring and get_attestation; one write to
\* the audit log fails (run with -continue, which reports both).
SPECIFICATION Spec
CONSTANTS
  Id = {r1}
  Approver = {a1}
  Key = {k1, k2}
  Ring = {0, 2}
  Request <- MCRequest
  Call = {c1}
  Payload = {"approval_payload"}
  MaxFailures = 1
  MaxEntries = 2
  None = none
INVARIANTS
  SystemKeyApproves
  AnsweredIsAudited
