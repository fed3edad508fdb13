\* Two saves at once.
SPECIFICATION FileSpec
CONSTANTS
  Call = {c1, c2, c3}
  Item = {v, w}
  Long = {w}
  Nil = nil
INVARIANTS
  NeverCorrupted
CHECK_DEADLOCK FALSE
