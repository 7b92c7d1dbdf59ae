CONSTANTS
  p1 = p1
  p2 = p2
  a = a
  b = b
  NUL = nul
  Procs <- MCProcs
  Chars <- MCChars
  MAXBYTES = 3
  InitMsg <- MCInitMsg
  Buffers <- MCBuffers
  ReadCounts <- MCReadCounts
  MaxCalls = 4
SPECIFICATION Spec
INVARIANTS
  TypeOK
  SerialReads
  StatsUndercount
CHECK_DEADLOCK FALSE
