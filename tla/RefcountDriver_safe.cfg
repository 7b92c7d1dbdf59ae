CONSTANTS
  p1 = p1
  p2 = p2
  boot = boot
  x = x
  y = y
  Procs <- MCProcs
  NoOwner = none
  Machines = {2}
  Saturated <- MCSaturated
  Buggy = TRUE
  Texts <- MCTexts
  InitMsg = boot
  InitLen = 2
  MAXBYTES = 4
  Bufs <- MCBufs
  ReadCounts <- MCReadCounts
  IntMod = 2
SPECIFICATION FairSpec
INVARIANT RefInv
PROPERTIES
  RefbSticks
  CallsReturn
CHECK_DEADLOCK FALSE
