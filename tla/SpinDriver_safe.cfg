CONSTANTS
  p1 = p1
  p2 = p2
  boot = boot
  x = x
  y = y
  Procs <- MCProcs
  NoOwner = none
  Machines = {1, 2}
  Buggy = FALSE
  Texts <- MCTexts
  InitMsg = boot
  InitLen = 2
  MAXBYTES = 4
  Bufs <- MCBufs
  ReadCounts <- MCReadCounts
  IntMod = 3
SPECIFICATION FairSpec
INVARIANTS
  TypeOK
  StatsExact
  SecretWhole
  CountersSettled
PROPERTY CallsReturn
CHECK_DEADLOCK FALSE
