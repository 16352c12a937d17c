SPECIFICATION Spec

CONSTANTS
  Requests = {q1, q2}
  Names = {n1}
  NoCommand = NoCommand
  MaxBuilds = 1
  MaxFaults = 0

INVARIANTS
  IndexIsFresh

\* The requests run out: the knowledge base may rest.
CHECK_DEADLOCK FALSE
