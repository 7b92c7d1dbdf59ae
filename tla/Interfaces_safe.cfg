CONSTANTS
  p1 = p1
  p2 = p2
  Procs <- MCProcs
  NoOwner = none
  Values <- MCValues
  MaxInserts = 2
  Intfs = {"procfs", "sysfs", "debugfs", "mymiscdev", "myplatdev"}
SPECIFICATION Spec
INVARIANTS
  TypeOK
  LevelsSane
  NothingLeft
  NoStaleCtx
  ReadersApart
PROPERTY RemoveReturns
CHECK_DEADLOCK FALSE
