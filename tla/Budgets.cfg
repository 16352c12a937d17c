SPECIFICATION FairSpec

CONSTANTS
  MaxAttempts = 1
  Threads = {w1, w2}
  MaxModelCalls = 2
  MaxToolCalls = 1
  MaxMessages = 4
  InterruptAfter = {}
  MaxShutdowns = 0

INVARIANTS
  WithinBudget

PROPERTIES
  NoAnswerAfterStop
  StreamsEnd

\* Posts run out and nobody is obliged to cancel: the runtime may rest.
CHECK_DEADLOCK FALSE
