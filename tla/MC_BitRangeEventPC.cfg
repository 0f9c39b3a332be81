CONSTANTS
  Size = 2
  Base = 4
  EventWidth = 5
  SizeWidth = 3
  ForeignEvents <- MCForeignEvents
  MaxSets = 3
  MaxForeign = 2
  MaxBus = 3
SPECIFICATION Spec
\* Set calls and foreign messages are bounded: a behaviour ends once they are spent and the bus is drained.
CHECK_DEADLOCK FALSE
INVARIANTS SettledHoldsPublished
