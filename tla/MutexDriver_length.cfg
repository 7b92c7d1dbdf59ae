CONSTANTS
  p1 = p1
  p2 = p2
  boot = boot
  x = x
  y = y
  Procs <- MCProcs
  NoOwner = none
  Texts <- MCTexts
  InitMsg = boot
  InitLen = 2
  MAXBYTES = 4
  Bufs <- MCBufs
  ReadCounts <- MCReadCounts
  IntMod = 4
  MaxLoads = 1
  QuietInit = TRUE
SPECIFICATION Spec
INVARIANT ReadLengthMatches
CHECK_DEADLOCK FALSE
