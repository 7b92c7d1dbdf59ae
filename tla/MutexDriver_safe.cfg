CONSTANTS
  p1 = p1
  p2 = p2
  boot = boot
  x = x
  y = y
  Procs <- MCProcs
  NoOwner = none
  Texts <- MCTexts
  InitMsg = boot
  InitLen = 2
  MAXBYTES = 4
  Bufs <- MCBufsEdge
  ReadCounts <- MCReadCounts
  IntMod = 3
  MaxLoads = 1
  QuietInit = TRUE
SPECIFICATION FairSpec
INVARIANTS
  TypeOK
  CtxExclusive
  CountersSettled
  StatsExact
PROPERTIES
  StoreSpec
  RemovalSparesOpen
  CallsReturn
  ExitReturns
CHECK_DEADLOCK FALSE
