SPECIFICATION Spec
CONSTANTS
  Pins <- SomePins
INVARIANTS DeviceAddressed
CHECK_DEADLOCK FALSE
