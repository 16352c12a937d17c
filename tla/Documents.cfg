SPECIFICATION FairSpec

CONSTANTS
  Requests = {q1, q2}
  Names = {n1}
  NoCommand = NoCommand
  MaxBuilds = 1
  MaxFaults = 2

INVARIANTS
  TypeOK
  ReadyIsComplete
  ConfirmedIsGone

PROPERTIES
  UploadsSettle

\* The requests run out: the knowledge base may rest.
CHECK_DEADLOCK FALSE
