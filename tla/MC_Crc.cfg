CONSTANTS
  Bytes <- MCBytes
  MaxLen = 3
SPECIFICATION Spec
INVARIANTS
  Crc16IbmIsArc
  Crc3Split
