CONSTANTS
  Kinds = {"threads", "ioctl", "netlink", "alloc", "probe", "bits", "client"}
  Demos = {"percpu", "abba"}
  MaxInserts = 2
  ITERS = 3
  NoOwner = none
  OooValues <- MCOooValues
  Clients = {c1, c2, c3}
  Admins = {c1, c2}
  Senders = {s1, s2}
  Chains = {"lowlevel", "slab1", "vmalloc", "custom", "myprac"}
  Orders <- MCOrders
  KvNums <- MCKvNums
  MAX_ORDER = 11
  U64 = 65536
  StepSizes <- MCStepSizes
  KMALLOC_MAX = 64
  SizeMod = 256
  BITS_PER_LONG = 16
  Users = {u1, u2}
  MAXBYTES = 4
  TextMax = 6
SPECIFICATION SoloSpec
INVARIANTS
  SoloTypeOK
  GoneAlone
  PerCpuExact
  SerialToggles
  NothingHeld
  TouchesHeld
PROPERTIES
  RemoveEnds
  SendersReturn
  ProbeReturns
  SameEitherWay
CHECK_DEADLOCK FALSE
