SPECIFICATION Spec

CONSTANTS
  Memories = {}
  Contents = {c1}
  NoContent = NoContent
  MaxRevision = 1
  Quota = 1
  Tasks = {t1}
  Runs = {r1, r2}
  Keys = {k1, k2}
  NoTask = NoTask
  NoEntry = NoEntry
  NoSnapshot = NoSnapshot
  MaxAttempts = 2
  MaxEvents = 1
  ContextLimit = 2
  Requests = {h1, h2}
  NoRun = NoRun
  MaxRestarts = 0

SYMMETRY Symmetry

INVARIANTS
  OneActiveRun
  AnswerBelowQuestion
  GroundedAnswer
  KeysNameTheirRun
  RetryFindsRun

PROPERTIES
  ImplementsConversations

\* The ids run out and nobody is obliged to call: the system may rest.
CHECK_DEADLOCK FALSE
