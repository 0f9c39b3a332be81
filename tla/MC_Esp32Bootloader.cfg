CONSTANTS
  NumBlocks = 2
  MaxWrites = 4
  MaxResets = 3
SPECIFICATION Spec
CHECK_DEADLOCK FALSE
INVARIANTS
  CompletionSelectsImage
  PartitionsStartWithOwnHeader
  BootImageValid
PROPERTIES
  BootloaderOnlyOnRequest
  ImplementsAbUpdate
