SPECIFICATION Spec

CONSTANTS
  MaxStreams = 2
  MaxBuffered = 1
  MaxViews = 2
  MaxUploads = 2
  MaxClicks = 3
  EarlierRuns = {"interrupted"}

INVARIANTS
  TypeOK
  OneStream
  AnswerIsShown

PROPERTIES
  FilesAreLeftBehind

\* The bounds are reached and nobody is obliged to click: the page may rest.
CHECK_DEADLOCK FALSE
