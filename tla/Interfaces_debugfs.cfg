CONSTANTS
  p1 = p1
  p2 = p2
  Procs <- MCProcs
  NoOwner = none
  Values <- MCValues
  MaxInserts = 1
  Intfs = {"debugfs"}
SPECIFICATION Spec
INVARIANT NoBug
CHECK_DEADLOCK FALSE
