SPECIFICATION Spec
CONSTANTS
  MaxSignals = 3
  MaxStarts = 1
INVARIANTS CleanExit InFlightFinishes
PROPERTIES FallTogether
CHECK_DEADLOCK FALSE
