CONSTANTS
  s1 = s1
  s2 = s2
  NoPacket = NoPacket
  Slots <- MCSlots
  NumChannels = 2
  Depth = 1
  MaxBytes = 1
  MaxCutouts = 2
SPECIFICATION Spec
PROPERTIES
  PhaseCompletes
  RecordsConsumed
  ImplementsLifecycle
