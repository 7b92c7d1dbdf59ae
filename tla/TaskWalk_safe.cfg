CONSTANTS
  t1 = t1
  t2 = t2
  t3 = t3
  Tasks <- MCTasks
  FirstProc <- MCFirstProc
  Renamers <- MCRenamers
  Idle = idle
  NoOwner = none
  Walks = {"rcu", "fixed", "buggy", "prcs"}
SPECIFICATION Spec
INVARIANTS
  TypeOK
  NoFreedTask
  NameWhole
  TotalBounds
PROPERTY WalkEnds
CHECK_DEADLOCK FALSE
