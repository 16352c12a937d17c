SPECIFICATION FairSpec

CONSTANTS
  Memories = {}
  Contents = {c1}
  NoContent = NoContent
  MaxRevision = 1
  Quota = 1
  Tasks = {t1}
  Runs = {r1}
  Keys = {k1}
  NoTask = NoTask
  NoEntry = NoEntry
  NoSnapshot = NoSnapshot
  MaxAttempts = 3
  MaxEvents = 2
  ContextLimit = 2
  Requests = {h1, h2}
  NoRun = NoRun
  MaxRestarts = 1

INVARIANTS
  TypeOK
  EventsContiguous
  AttemptEndsOnce
  ShownIsCommitted

PROPERTIES
  StreamedRunSettles
  TerminalIsFinal

\* The ids run out and nobody is obliged to call: the system may rest.
CHECK_DEADLOCK FALSE
