CONSTANTS
  Demos = {"percpu", "abba"}
  MaxInserts = 2
  ITERS = 3
  NoOwner = none
  OooValues <- MCOooValues
SPECIFICATION Spec
INVARIANT TaskTaken
CHECK_DEADLOCK FALSE
