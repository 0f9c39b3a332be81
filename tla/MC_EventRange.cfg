CONSTANTS
  EventWidth = 6
  SizeWidth = 5
  MaxSize = 8
SPECIFICATION Spec
INVARIANTS
  EncodeRangeCovers
