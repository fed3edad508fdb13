\* Three statements that hold of no registry whose registrations overlap or are cut
\* short (run with -continue, which reports each of them).
SPECIFICATION Spec
CONSTANTS
  Call = {c1, c2}
  Did = {d1, d2}
  None = none
INVARIANTS
  AppendsAreAtomic
  RestartKeepsRegistry
  SurvivesCrash
