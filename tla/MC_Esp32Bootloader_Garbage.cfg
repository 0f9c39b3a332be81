CONSTANTS
  NumBlocks = 2
  MaxWrites = 4
  MaxResets = 3
SPECIFICATION Spec
CHECK_DEADLOCK FALSE
PROPERTIES
  NoSpuriousBootloader
