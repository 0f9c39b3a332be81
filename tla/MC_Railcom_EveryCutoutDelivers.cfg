CONSTANTS
  s1 = s1
  s2 = s2
  NoPacket = NoPacket
  Slots <- MCSlots
  NumChannels = 2
  Depth = 1
  MaxBytes = 2
  MaxCutouts = 2
SYMMETRY MCSymmetry
SPECIFICATION Spec
PROPERTY
  EveryCutoutDelivers
