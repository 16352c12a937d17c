SPECIFICATION Spec

CONSTANTS
  MaxAttempts = 2
  Threads = {w1}
  MaxModelCalls = 2
  MaxToolCalls = 1
  MaxMessages = 4
  InterruptAfter = {"tools"}
  MaxShutdowns = 1

SYMMETRY Symmetry

INVARIANTS
  TypeOK
  SupersededIsSilent
  StatusMatchesLog

PROPERTIES
  ImplementsEventStream

\* Posts run out and nobody is obliged to cancel: the runtime may rest.
CHECK_DEADLOCK FALSE
