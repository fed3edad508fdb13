\* Each of the services that keep to themselves, on an instance of its own.
SPECIFICATION ServicesSpec
CONSTANTS
  Callers = {c1, c2, c3}
  Threshold = 3
  Timeout = 3
  MaxTime = 3
  None = None
  StateKey = {s1, s2}
  Value = {v1, v2}
  Exec = {e1}
  Ttl = {0, 2, 4}
  MaxInstant = 6
  Cred = {q1, q2}
  Holder = {h1, h2}
  Lifetime = 2
  Scored = {a1}
  SignalKind <- MCSignalKind
  Day = 2
  MaxSignals = 4
  Name = {n1, n2}
  Member = {m1, m2}
  NoName = NoName
  PolicyCall = {p1, p2, p3}
  NoPolicy = NoPolicy
INVARIANTS
  AdmissionExact
  RevocationTakesHold
  ScoreNeverFlatters
  CommunicationSound
  StateMatchesStream
  RemoteLoadRecent
PROPERTIES
  Recovers
  RefinesTtlMap
