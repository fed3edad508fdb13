\* A request is accepted by an attestation that was in the cache before it arrived.
SPECIFICATION Spec
CONSTANTS
  Call = {c1}
  Key = {k1}
  Ttl = 3
  JitterMin = 1
  JitterMax = 3
  MaxTime = 4
  None = none
PROPERTIES
  AcceptedByNewAttestation
CHECK_DEADLOCK FALSE
