\* Four calls of any kind, with I/O errors and kills at any step.
SPECIFICATION FileSpec
CONSTANTS
  Call = {c1, c2, c3, c4}
  Item = {v, w}
  Long = {w}
  Nil = nil
SYMMETRY Symmetry
INVARIANTS
  TornExplained
  LoadRecent
  ErrorsExplained
CHECK_DEADLOCK FALSE
