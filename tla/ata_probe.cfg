SPECIFICATION Spec
CONSTANTS
  Pins <- SomePins
INVARIANTS TypeOK  ProbeFindsDrives
PROPERTIES ProbeEnds
CHECK_DEADLOCK FALSE
