CONSTANTS
  K = 4
  Origin = 5
  Absent = Absent
SPECIFICATION Spec
\* layout_segment returns: a behaviour ends when the walk is done.
CHECK_DEADLOCK FALSE
INVARIANTS
  LayoutMatchesReference
  AddressesMatchReference
