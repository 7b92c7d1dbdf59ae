----------------------------- MODULE SoloProofs -----------------------------
(***************************************************************************)
(* Theorems about the programs of SoloModules, for every number of         *)
(* clients, senders and users and every value of the parameters.           *)
(***************************************************************************)
EXTENDS SoloModules, SequenceTheorems, WellFoundedInduction, TLAPS

-----------------------------------------------------------------------------
(* The ioctl driver and its clients *)

\* A client that has asked since the last change knows the state, and nobody is
\* in the driver while it is out.
PowerInv ==
  /\ PowerTypeOK
  /\ SerialToggles
  /\ ~chrdev => \A p \in Clients : at_ioctl[p] \in {"none", "stale"}
  /\ \A p \in Clients : at_ioctl[p] = "toggle" /\ fresh[p] => seen[p] = power

\* A toggle by a client that knows the state flips it; any other makes a race.
LEMMA PowerSteps ==
  ASSUME PowerInv, [PowerNext]_powervars
  PROVE  PowerInv'
  <1> USE DEF PowerInv, PowerTypeOK, SerialToggles, NextIoctl
  <1>1. CASE Register
    <2>1. /\ power' = 1 /\ flips' = 0 /\ UNCHANGED <<at_ioctl, seen, fresh>>
          /\ (1 + 0) % 2 = 1
      BY <1>1 DEF Register
    <2>2. raced' = FALSE /\ chrdev' = TRUE
      BY <1>1 DEF Register
    <2>3. \A p \in Clients : at_ioctl[p] \in {"none", "stale"}
      BY <1>1 DEF Register
    <2>4. PowerTypeOK'
      BY <2>1, <2>2
    <2>5. SerialToggles'
      BY <2>1
    <2>6. QED
      BY <2>1, <2>2, <2>3, <2>4, <2>5
  <1>2. CASE Unregister
    BY <1>2 DEF Unregister
  <1>3. ASSUME NEW p \in Clients, OpenMinor(p) PROVE PowerInv'
    BY <1>3 DEF OpenMinor
  <1>4. ASSUME NEW p \in Clients, IocReset(p) PROVE PowerInv'
    BY <1>4 DEF IocReset
  <1>5. ASSUME NEW p \in Clients, IocQPower(p) PROVE PowerInv'
    BY <1>5 DEF IocQPower
  <1>6. ASSUME NEW p \in Clients, IocRefused(p) PROVE PowerInv'
    BY <1>6 DEF IocRefused
  <1>7. ASSUME NEW p \in Clients, IocSPower(p) PROVE PowerInv'
    BY <1>7 DEF IocSPower, Opposite
  <1>8. CASE UNCHANGED powervars
    BY <1>8 DEF powervars
  <1>9. QED
    BY <1>1, <1>2, <1>3, <1>4, <1>5, <1>6, <1>7, <1>8 DEF PowerNext

-----------------------------------------------------------------------------
(* The user program of the misc drivers *)

\* What one write leaves in the driver, whatever the length of the text, fits there.
LEMMA ClientSteps ==
  ASSUME ClientTypeOK, [ClientNext]_clientvars
  PROVE  ClientTypeOK'
  <1> USE SecretAssumption DEF ClientTypeOK, CallOf
  <1>1. ASSUME NEW p \in Users, Main(p) PROVE ClientTypeOK'
    BY <1>1 DEF Main
  <1>2. ASSUME NEW p \in Users, OpenDevice(p) \/ Malloc(p) \/ MainFails(p) \/ ReadSecret(p)
        PROVE  ClientTypeOK'
    BY <1>2 DEF OpenDevice, Malloc, MainFails, ReadSecret
  <1>3. ASSUME NEW p \in Users, WriteSecret(p) PROVE ClientTypeOK'
    <2>1. argv3[p] \in 0..TextMax
      OBVIOUS
    <2>2. NumBytes(p) = IF argv3[p] < MAXBYTES THEN argv3[p] + 1 ELSE MAXBYTES
      BY <2>1 DEF NumBytes, strnlen, Least
    <2>3. stored' = Least(argv3[p], MAXBYTES - 1)
      BY <1>3, <2>1, <2>2 DEF WriteSecret, Least
    <2>4. stored' \in 0..MAXBYTES-1
      BY <2>1, <2>3 DEF Least
    <2>5. QED
      BY <1>3, <2>4 DEF WriteSecret
  <1>4. CASE UNCHANGED clientvars
    BY <1>4 DEF clientvars
  <1>5. QED
    BY <1>1, <1>2, <1>3, <1>4 DEF ClientNext

-----------------------------------------------------------------------------
(* Bit operations, netlink and the slab probes *)

\* The word after the first steps is the bit that set_bit() has set.
BitInv ==
  /\ BitTypeOK
  /\ bits \in {0, 1} => mem = {}
  /\ bits = 2 => mem = {MSB}

\* Each operation stays inside the word.
LEMMA BitSteps ==
  ASSUME BitInv, [BitNext]_bitvars
  PROVE  BitInv' /\ (bits = 2 /\ BitStep => mem' = mem)
  <1> USE WordAssumption DEF BitInv, BitTypeOK, Word
  <1>0. Byte \subseteq Word /\ {0, 1, MSB, 7} \subseteq Word /\ 1 \in Word /\ MSB \in Word
    BY DEF Byte, MSB
  <1>1. CASE BitStep
    <2>1. bits \in 1..7 /\ Len(After) = 7 /\ bits' = bits + 1
      BY <1>1 DEF BitStep, After
    <2>2. /\ bits = 1 => mem' = mem \cup {MSB}
          /\ bits = 2 => mem' = (mem \cap Byte) \cup {7}
          /\ bits = 3 => mem' = mem \ {MSB}
          /\ bits = 4 => mem' = Change(MSB)
          /\ bits = 5 => mem' = mem \cup {0}
          /\ bits = 6 => mem' = mem \ {0}
          /\ bits = 7 => mem' = Change(1)
      BY <1>1, <2>1 DEF BitStep, After
    <2>3. Change(MSB) \subseteq Word /\ Change(1) \subseteq Word
      BY <1>0 DEF Change
    <2>4. mem' \subseteq Word
      <3>1. mem \subseteq Word
        OBVIOUS
      <3>2. CASE bits = 1
        BY <3>1, <3>2, <1>0, <2>2
      <3>3. CASE bits = 2
        BY <3>1, <3>3, <1>0, <2>2
      <3>4. CASE bits \in {3, 6}
        BY <3>1, <3>4, <1>0, <2>2
      <3>5. CASE bits = 5
        BY <3>1, <3>5, <1>0, <2>2
      <3>6. CASE bits \in {4, 7}
        BY <3>6, <2>2, <2>3
      <3>7. QED
        BY <2>1, <3>2, <3>3, <3>4, <3>5, <3>6
    <2>5. bits = 1 => mem' = {MSB}
      BY <2>2
    <2>6. bits = 2 => mem' = {MSB}
      BY <2>2 DEF MSB, Byte
    <2>7. bits' \in 0..Len(After)' + 1 /\ bits' \in 2..8
      BY <2>1 DEF After
    <2>8. BitInv'
      BY <2>1, <2>4, <2>5, <2>7
    <2>9. QED
      BY <2>6, <2>8
  <1>2. CASE BitInsert \/ BitRemove
    BY <1>2 DEF BitInsert, BitRemove, BitStep, After
  <1>3. CASE UNCHANGED bitvars
    BY <1>3 DEF bitvars, BitStep, After
  <1>4. QED
    BY <1>1, <1>2, <1>3 DEF BitNext

\* Nobody has a socket of a protocol that is not there.
LEMMA EchoSteps ==
  ASSUME EchoTypeOK, [EchoNext]_echovars
  PROVE  EchoTypeOK'
  <1> USE DEF EchoTypeOK, GoSock, Leave
  <1>1. CASE NlInsert \/ NlRemove
    BY <1>1 DEF NlInsert, NlRemove
  <1>2. ASSUME NEW p \in Senders, Socket(p) \/ Bind(p) \/ Sendmsg(p) \/ GiveUp(p)
        PROVE  EchoTypeOK'
    BY <1>2 DEF Socket, Bind, Sendmsg, GiveUp
  <1>3. ASSUME NEW p \in Senders, NewReply(p) \/ NoReply(p) \/ Unicast(p) PROVE EchoTypeOK'
    BY <1>3 DEF NewReply, NoReply, Unicast
  <1>4. ASSUME NEW p \in Senders, Recvmsg(p) \/ Killed(p) PROVE EchoTypeOK'
    BY <1>4 DEF Recvmsg, Killed
  <1>5. CASE UNCHANGED echovars
    BY <1>5 DEF echovars
  <1>6. QED
    BY <1>1, <1>2, <1>3, <1>4, <1>5 DEF EchoNext, SenderSteps

\* The size that is tried next is always that of a size_t.
LEMMA ProbeSteps ==
  ASSUME ProbeTypeOK, [ProbeNext]_probevars
  PROVE  ProbeTypeOK'
  <1> USE ProbeAssumption DEF ProbeTypeOK
  <1>1. CASE ProbeInsert
    BY <1>1 DEF ProbeInsert, START
  <1>2. CASE Report
    <2>1. size2alloc + stepsz \in Int
      OBVIOUS
    <2>2. size2alloc' \in 0..SizeMod-1
      BY <1>2, <2>1 DEF Report, START
    <2>3. QED
      BY <1>2, <2>2 DEF Report
  <1>3. CASE Kmalloc \/ KmallocFails \/ DivideByZero
    BY <1>3 DEF Kmalloc, KmallocFails, DivideByZero
  <1>4. CASE SetStepsz
    BY <1>4 DEF SetStepsz
  <1>5. CASE UNCHANGED probevars
    BY <1>5 DEF probevars
  <1>6. QED
    BY <1>1, <1>2, <1>3, <1>4, <1>5 DEF ProbeNext, Loop

-----------------------------------------------------------------------------
(* The two kernel threads: the frame *)

\* A thread that lives has a reference to its task_struct, one that has not been
\* created has none, module_exit goes on only past a dead thread, and a thread that
\* works is where it has pinned itself to.
PairInv ==
  /\ PairTypeOK
  /\ \A t \in Threads : thr[t] \in {"woken", "start", "working"} => refs[t] > 0
  /\ mod = "run0" => thr[0] = "none" /\ refs[0] = 0
  /\ mod \in {"run0", "get0", "run1"} => thr[1] = "none" /\ refs[1] = 0
  /\ (mod = "get0" => refs[0] <= 1) /\ (mod = "get1" => refs[1] <= 1)
  /\ mod \in {"stop1", "wait1"} => thr[0] = "dead"
  /\ GoneAlone
  /\ \A t \in Threads : thr[t] = "working" => cpu[t] = t

\* What a step of either demo does to the frame.
PairNext ==
  \/ \E d \in Demos : Insert(d)
  \/ Remove
  \/ \E t \in Threads : InitSteps(t) \/ StopSteps(t)
  \/ \E t \in Threads : Begin(t) \/ SetAffinity(t) \/ Migrate(t)
  \/ \E t \in Threads : thr[t] \in {"woken", "start", "working"} /\ Exit(t)
  \/ UNCHANGED <<modvars, thrvars>>

\* The work of the threads touches the frame only when a thread exits.
LEMMA FrameSteps ==
  ASSUME [Next]_vars
  PROVE  PairNext
  <1> USE DEF PairNext
  <1>1. CASE InsertDemo
    BY <1>1 DEF InsertDemo
  <1>2. CASE ModuleSteps
    BY <1>2 DEF ModuleSteps
  <1>3. CASE Remove \/ UNCHANGED vars
    BY <1>3 DEF vars
  <1>4. CASE SetParam
    BY <1>4 DEF SetParam
  <1>5. ASSUME NEW t \in Threads, Prologue(t) \/ Migrate(t) PROVE PairNext
    BY <1>5 DEF Prologue, NeverBegins, SetAffinityFails
  <1>6. ASSUME NEW t \in Threads, PcpWork(t) PROVE PairNext
    BY <1>6 DEF PcpWork, MovePcpa, MoveCtx, WorkDone, Working
  <1>7. ASSUME NEW t \in Threads, LockWork(t) PROVE PairNext
    <2>1. CASE Decide(t) \/ SpinLock(t)
      BY <2>1 DEF Decide, SpinLock
    <2>2. CASE TestAgain(t)
      BY <2>2 DEF TestAgain, Now, Locking
    <2>3. CASE SpinUnlock(t)
      BY <2>3 DEF SpinUnlock, Now, Locking
    <2>4. QED
      BY <1>7, <2>1, <2>2, <2>3 DEF LockWork
  <1>8. QED
    BY <1>1, <1>2, <1>3, <1>4, <1>5, <1>6, <1>7 DEF Next, ThreadSteps

\* module_init, module_exit and the threads keep the frame.
LEMMA PairSteps ==
  ASSUME PairInv, PairNext
  PROVE  PairInv'
  <1> USE PairAssumption DEF PairInv, PairTypeOK, GoneAlone, Threads, Cpus, modvars, thrvars
  <1>1. ASSUME NEW d \in Demos, Insert(d) PROVE PairInv'
    BY <1>1 DEF Insert
  <1>2. CASE Remove
    BY <1>2 DEF Remove
  <1>3. ASSUME NEW t \in Threads, InitSteps(t) PROVE PairInv'
    <2>1. CASE Create(t) /\ t = 0
      BY <2>1 DEF Create, At
    <2>2. CASE Create(t) /\ t = 1
      BY <2>2 DEF Create, At
    <2>3. CASE CreateFails(t)
      BY <2>3 DEF CreateFails
    <2>4. CASE GetTask(t) /\ t = 0
      BY <2>4 DEF GetTask, At
    <2>5. CASE GetTask(t) /\ t = 1
      BY <2>5 DEF GetTask, At
    <2>6. QED
      BY <1>3, <2>1, <2>2, <2>3, <2>4, <2>5 DEF InitSteps
  <1>4. ASSUME NEW t \in Threads, StopSteps(t) PROVE PairInv'
    <2>1. CASE AskStop(t)
      BY <2>1 DEF AskStop, At
    <2>2. CASE AwaitExit(t)
      BY <2>2 DEF AwaitExit, At
    <2>3. QED
      BY <1>4, <2>1, <2>2 DEF StopSteps
  <1>5. ASSUME NEW t \in Threads, Begin(t) \/ SetAffinity(t) PROVE PairInv'
    BY <1>5 DEF Begin, SetAffinity
  <1>6. ASSUME NEW t \in Threads, Migrate(t) PROVE PairInv'
    BY <1>6 DEF Migrate
  <1>7. ASSUME NEW t \in Threads, thr[t] \in {"woken", "start", "working"}, Exit(t)
        PROVE  PairInv'
    BY <1>7 DEF Exit
  <1>8. CASE UNCHANGED <<modvars, thrvars>>
    BY <1>8
  <1>9. QED
    BY <1>1, <1>2, <1>3, <1>4, <1>5, <1>6, <1>7, <1>8 DEF PairNext

-----------------------------------------------------------------------------
(* The two kernel threads: the per-cpu work *)

Counters ==
  /\ iter \in [Threads -> 0..ITERS]
  /\ half \in [Threads -> BOOLEAN]
  /\ \A t \in Threads : half[t] => iter[t] < ITERS

\* What thread t has done to pcpa.
Moved(t) == IF half[t] THEN iter[t] + 1 ELSE iter[t]

\* A thread's share of the work is on its own processor; before it works it has
\* done nothing, and only a thread that has finished it all or none of it is gone.
PcpInv ==
  /\ Counters
  /\ pcpa \in [Cpus -> Int] /\ tx \in [Cpus -> Int] /\ rx \in [Cpus -> Int]
  /\ pcpa[0] = Moved(0) /\ pcpa[1] = -Moved(1)
  /\ tx[0] = 100 * iter[0] /\ tx[1] = 0
  /\ rx[0] = 0 /\ rx[1] = 200 * iter[1]
  /\ \A t \in Threads :
       /\ thr[t] \in {"none", "woken", "start"} => iter[t] = 0 /\ ~half[t]
       /\ thr[t] = "dead" => iter[t] \in {0, ITERS} /\ ~half[t]
       /\ demo # "percpu" => iter[t] = 0 /\ ~half[t]

\* A module that has just been inserted has done no work.
LEMMA FreshInv ==
  ASSUME PcpFresh(pcpa, tx, rx, iter, half)
  PROVE  PcpInv
  <1> USE ItersAssumption DEF PcpFresh, Zero, Threads, Cpus
  <1>1. iter[0] = 0 /\ iter[1] = 0 /\ ~half[0] /\ ~half[1]
    OBVIOUS
  <1>2. Moved(0) = 0 /\ Moved(1) = 0
    BY <1>1, Zenon DEF Moved
  <1>3. Counters
    BY <1>1 DEF Counters
  <1>4. QED
    BY <1>1, <1>2, <1>3 DEF PcpInv

\* What the frame does to a thread that does no work in this step: a thread that
\* exits has done nothing or all.
LEMMA QuietWork ==
  ASSUME PairInv, PcpInv, UNCHANGED <<pcpvars, demo>>,
         \A t \in Threads :
           \/ thr'[t] = thr[t]
           \/ thr[t] \in {"none", "woken", "start"}
           \/ thr'[t] = "dead" /\ iter[t] \in {0, ITERS} /\ ~half[t]
  PROVE  PcpInv'
  BY DEF PcpInv, Counters, Moved, pcpvars

\* One half of an iteration moves pcpa, the other tx or rx, each on the processor
\* the thread is pinned to.
LEMMA WorkSteps ==
  ASSUME PairInv, PcpInv, NEW t \in Threads, MovePcpa(t) \/ MoveCtx(t)
  PROVE  PcpInv'
  <1> USE ItersAssumption DEF PcpInv, Counters, Threads, Cpus, Working
  <1>1. demo = "percpu" /\ thr[t] = "working" /\ cpu[t] = t /\ UNCHANGED <<thr, demo>>
    BY DEF PairInv, MovePcpa, MoveCtx, modvars, thrvars
  <1>2. CASE MovePcpa(t)
    <2>1. /\ UNCHANGED <<tx, rx, iter>>
          /\ iter[t] < ITERS /\ ~half[t]
          /\ half' = [half EXCEPT ![t] = TRUE]
          /\ pcpa' = [pcpa EXCEPT ![t] = pcpa[t] + At(t, 1, -1)]
      BY <1>1, <1>2 DEF MovePcpa
    <2>2. Counters'
      BY <2>1
    <2>3. Moved(t)' = Moved(t) + 1 /\ \A u \in Threads \ {t} : Moved(u)' = Moved(u)
      BY <2>1 DEF Moved
    <2>4. iter[0] \in Int /\ iter[1] \in Int /\ Moved(0) \in Int /\ Moved(1) \in Int
      BY DEF Moved
    <2>5. pcpa' \in [Cpus -> Int] /\ pcpa'[0] = Moved(0)' /\ pcpa'[1] = -(Moved(1)')
      <3>1. CASE t = 0
        BY <2>1, <2>3, <2>4, <3>1 DEF At
      <3>2. CASE t = 1
        BY <2>1, <2>3, <2>4, <3>2 DEF At
      <3>3. QED
        BY <3>1, <3>2
    <2>6. \A u \in Threads : u # t => half'[u] = half[u]
      BY <2>1
    <2>7. QED
      BY <1>1, <2>1, <2>2, <2>5, <2>6
  <1>3. CASE MoveCtx(t)
    <2>1. /\ UNCHANGED pcpa
          /\ half[t]
          /\ half' = [half EXCEPT ![t] = FALSE]
          /\ iter' = [iter EXCEPT ![t] = iter[t] + 1]
          /\ tx' = [tx EXCEPT ![t] = tx[t] + At(t, 100, 0)]
          /\ rx' = [rx EXCEPT ![t] = rx[t] + At(t, 0, 200)]
      BY <1>1, <1>3 DEF MoveCtx
    <2>2. Counters'
      BY <2>1
    <2>3. Moved(0)' = Moved(0) /\ Moved(1)' = Moved(1)
      BY <2>1 DEF Moved
    <2>4. /\ tx' \in [Cpus -> Int] /\ tx'[0] = 100 * iter'[0] /\ tx'[1] = 0
          /\ rx' \in [Cpus -> Int] /\ rx'[0] = 0 /\ rx'[1] = 200 * iter'[1]
      <3>1. CASE t = 0
        BY <2>1, <3>1 DEF At
      <3>2. CASE t = 1
        BY <2>1, <3>2 DEF At
      <3>3. QED
        BY <3>1, <3>2
    <2>5. \A u \in Threads : u # t => half'[u] = half[u] /\ iter'[u] = iter[u]
      BY <2>1
    <2>6. QED
      BY <1>1, <2>1, <2>2, <2>3, <2>4, <2>5
  <1>4. QED
    BY <1>2, <1>3

\* Every step of either demo.
LEMMA PcpSteps ==
  ASSUME PairInv, PcpInv, [Next]_vars
  PROVE  PcpInv'
  <1> USE QuietWork
  <1>2. CASE InsertDemo
    <2>1. PcpFresh(pcpa, tx, rx, iter, half)'
      BY <1>2 DEF InsertDemo
    <2>2. QED
      BY <2>1, FreshInv, PTL
  <1>3. CASE ModuleSteps
    BY <1>3 DEF ModuleSteps, workvars, InitSteps, StopSteps, Create, CreateFails, GetTask,
                AskStop, AwaitExit, thrvars, PairInv, PairTypeOK, Threads, At
  <1>4. CASE (Remove /\ UNCHANGED workvars) \/ UNCHANGED vars
    BY <1>4 DEF Remove, workvars, vars, modvars, thrvars
  <1>5. CASE SetParam /\ UNCHANGED pcpvars
    BY <1>5 DEF SetParam, modvars, thrvars
  <1>6. ASSUME NEW t \in Threads, (Prologue(t) \/ Migrate(t)) /\ UNCHANGED workvars
        PROVE  PcpInv'
    BY <1>6 DEF Prologue, Begin, NeverBegins, SetAffinity, SetAffinityFails, Exit, Migrate,
                workvars, modvars, PairInv, PairTypeOK
  <1>7. ASSUME NEW t \in Threads, PcpWork(t) PROVE PcpInv'
    <2>1. CASE WorkDone(t)
      BY <2>1 DEF WorkDone, Working, Exit, modvars, PairInv, PairTypeOK, PcpInv, Counters
    <2>2. QED
      BY <1>7, <2>1, WorkSteps DEF PcpWork
  <1>8. ASSUME NEW t \in Threads, LockWork(t) /\ UNCHANGED pcpvars PROVE PcpInv'
    <2>1. demo = "abba" /\ UNCHANGED demo /\ (UNCHANGED thr \/ thr' = [thr EXCEPT ![t] = "dead"])
      BY <1>8 DEF LockWork, Decide, TestAgain, SpinLock, SpinUnlock, Now, Locking, Exit,
                  modvars, thrvars
    <2>2. \A u \in Threads : iter[u] = 0 /\ ~half[u]
      BY <2>1 DEF PcpInv
    <2>3. QED
      BY <1>8, <2>1, <2>2 DEF PairInv, PairTypeOK
  <1>9. QED
    BY <1>2, <1>3, <1>4, <1>5, <1>6, <1>7, <1>8 DEF Next, ThreadSteps

\* What the invariant says of the counters when the module is gone.
LEMMA PcpImplies ==
  ASSUME PairInv, PcpInv
  PROVE  PcpTypeOK /\ PerCpuExact
  <1> USE ItersAssumption DEF PcpInv, Counters, Moved, Threads, Cpus
  <1>1. PcpTypeOK
    BY DEF PcpTypeOK
  <1>2. mod = "out" => \A t \in Threads : iter[t] \in {0, ITERS} /\ ~half[t]
    BY DEF PairInv, GoneAlone
  <1>3. /\ tx = [c \in Cpus |-> At(c, 100 * iter[0], 0)]
        /\ rx = [c \in Cpus |-> At(c, 0, 200 * iter[1])]
    BY DEF At
  <1>4. /\ pcpa[0] = iter[0] + (IF half[0] THEN 1 ELSE 0)
        /\ pcpa[1] = -(iter[1] + (IF half[1] THEN 1 ELSE 0))
    OBVIOUS
  <1>5. QED
    BY <1>1, <1>2, <1>3, <1>4 DEF PerCpuExact

-----------------------------------------------------------------------------
(* The two kernel threads: the locks *)

\* What thrd_work() may still have to do.
Plans == {p \in Seq(Ops) : Len(p) <= 4}

\* Two nested pairs of lock and unlock are four operations, a test is one, and
\* what is left after one of them are fewer.
LEMMA PlanTypes ==
  /\ \A a, b \in Locks : Nested(a, b) \in Plans
  /\ << <<"test", "lock_ooo">> >> \in Plans
  /\ << >> \in Plans
  /\ \A p \in Plans : p # << >> => Tail(p) \in Plans
  <1>1. ASSUME NEW a \in Locks, NEW b \in Locks PROVE Nested(a, b) \in Plans
    <2>1. /\ <<"lock", a>> \in Ops /\ <<"lock", b>> \in Ops
          /\ <<"unlock", a>> \in Ops /\ <<"unlock", b>> \in Ops
      BY DEF Ops
    <2>2. Nested(a, b) \in Seq(Ops) /\ Len(Nested(a, b)) <= 4
      BY <2>1 DEF Nested
    <2>3. QED
      BY <2>2, Zenon DEF Plans
  <1>2. <<"test", "lock_ooo">> \in Ops
    BY DEF Ops
  <1>3. << <<"test", "lock_ooo">> >> \in Plans
    BY <1>2 DEF Plans
  <1>4. << >> \in Plans
    BY DEF Plans
  <1>5. ASSUME NEW p \in Plans, p # << >> PROVE Tail(p) \in Plans
    BY <1>5 DEF Plans
  <1>6. QED
    BY <1>1, <1>3, <1>4, <1>5

\* Each step of a thread takes the next of the operations it plans.
LEMMA LockSteps ==
  ASSUME LockTypeOK, plan \in [Threads -> Plans], [Next]_vars
  PROVE  LockTypeOK' /\ plan' \in [Threads -> Plans]
  <1> DEFINE Type == /\ lock_ooo \in OooValues
                     /\ owner \in [Locks -> Threads \cup {NoOwner}]
                     /\ plan \in [Threads -> Plans]
  <1>0. Type /\ (Type' => LockTypeOK')
    BY DEF LockTypeOK, Plans
  <1> SUFFICES Type'
    BY <1>0
  <1>1. CASE UNCHANGED lockvars
    BY <1>0, <1>1 DEF lockvars
  <1>2. CASE InsertDemo
    BY <1>2, PlanTypes DEF InsertDemo, LockFresh, Undecided
  <1>3. CASE SetParam
    BY <1>0, <1>3 DEF SetParam
  <1>4. ASSUME NEW t \in Threads, LockWork(t) PROVE Type'
    <2>0. "lockA" \in Locks /\ "lockB" \in Locks
      BY DEF Locks
    <2>1. CASE Decide(t)
      <3>1. \/ plan' = [plan EXCEPT ![t] = Nested("lockA", "lockB")]
            \/ plan' = [plan EXCEPT ![t] = Nested("lockB", "lockA")]
            \/ plan' = [plan EXCEPT ![t] = << <<"test", "lock_ooo">> >>]
        <4>1. CASE t = 0
          <5>1. t # 1
            BY <4>1
          <5>2. QED
            BY <2>1, <4>1, <5>1, Zenon DEF Decide
        <4>2. CASE t # 0 /\ ~(t = 1 /\ lock_ooo = 1)
          BY <2>1, <4>2, Zenon DEF Decide
        <4>3. CASE t # 0 /\ t = 1 /\ lock_ooo = 1
          BY <2>1, <4>3, Zenon DEF Decide
        <4>4. QED
          BY <4>1, <4>2, <4>3
      <3>2. QED
        BY <1>0, <2>0, <2>1, <3>1, PlanTypes DEF Decide
    <2>2. CASE TestAgain(t)
      <3>1. \/ plan' = [plan EXCEPT ![t] = Nested("lockA", "lockB")]
            \/ plan' = plan
        BY <2>2 DEF TestAgain
      <3>2. QED
        BY <1>0, <2>0, <2>2, <3>1, PlanTypes DEF TestAgain
    <2>3. CASE SpinLock(t) \/ SpinUnlock(t)
      <3>1. /\ plan[t] # << >> /\ plan' = [plan EXCEPT ![t] = Tail(plan[t])]
            /\ \E o \in Threads \cup {NoOwner} : owner' = [owner EXCEPT ![Lock(t)] = o]
            /\ UNCHANGED lock_ooo
        BY <2>3 DEF SpinLock, SpinUnlock, Now, Undecided
      <3>2. Tail(plan[t]) \in Plans
        BY <1>0, <3>1, PlanTypes
      <3>3. plan' \in [Threads -> Plans]
        BY <1>0, <3>1, <3>2
      <3>4. owner' \in [Locks -> Threads \cup {NoOwner}]
        BY <1>0, <3>1
      <3>5. QED
        BY <1>0, <3>1, <3>3, <3>4
    <2>4. QED
      BY <1>4, <2>1, <2>2, <2>3 DEF LockWork
  <1>5. QED
    BY <1>1, <1>2, <1>3, <1>4
       DEF Next, ModuleSteps, ThreadSteps, workvars, vars

-----------------------------------------------------------------------------
(* The allocation chains *)

\* The least number principle, for sets of natural numbers.
LEMMA LeastNumber ==
  ASSUME NEW T \in SUBSET Nat, T # {}
  PROVE  \E m \in T : \A n \in T : m <= n
  <1> DEFINE R == OpToRel(<, Nat)
  <1>1. IsWellFoundedOn(R, Nat)
    BY NatLessThanWellFounded
  <1>2. \A x, y \in Nat : y < x => <<y, x>> \in R
    BY DEF OpToRel
  <1> HIDE DEF R
  <1>3. PICK x \in T : \A y \in T : ~ (<<y, x>> \in R)
    BY <1>1, WFMin
  <1>4. \A y \in T : ~ (y < x)
    BY <1>2, <1>3
  <1>5. QED
    BY <1>4

\* A multiplication stays within the width.
LEMMA OneProduct ==
  ASSUME NEW base \in Int, NEW x \in 0..U64-1
  PROVE  (x * base) % U64 \in 0..U64-1
  <1>1. x * base \in Int /\ U64 \in Nat \ {0}
    BY ChainAssumption
  <1> DEFINE y == x * base
  <1>2. y \in Int
    BY <1>1
  <1> HIDE DEF y
  <1>3. y % U64 \in 0..U64-1
    BY <1>1, <1>2
  <1>4. QED
    BY <1>3 DEF y

\* The first n values that a function gives when it is applied again and again.
Rounds(S, f, x, n) ==
  {r \in [0..n -> S] : r[0] = x /\ \A i \in 1..n : r[i] = f[r[i - 1]]}

\* A function can be applied any number of times ...
LEMMA RoundsExist ==
  ASSUME NEW S, NEW f \in [S -> S], NEW x \in S
  PROVE  \A n \in Nat : Rounds(S, f, x, n) # {}
  <1> DEFINE T == {n \in Nat : Rounds(S, f, x, n) = {}}
  <1>1. SUFFICES ASSUME T # {} PROVE FALSE
    OBVIOUS
  <1>2. PICK m \in T : \A n \in T : m <= n
    BY <1>1, LeastNumber
  <1>3. CASE m = 0
    <2>1. [i \in 0..0 |-> x] \in Rounds(S, f, x, 0)
      BY DEF Rounds
    <2>2. QED
      BY <1>3, <2>1
  <1>4. CASE m > 0
    <2>1. m - 1 \in Nat /\ m - 1 \notin T
      BY <1>2, <1>4
    <2>2. PICK r \in Rounds(S, f, x, m - 1) : TRUE
      BY <2>1
    <2> DEFINE g == [i \in 0..m |-> IF i = m THEN f[r[m - 1]] ELSE r[i]]
    <2>3. r[m - 1] \in S /\ f[r[m - 1]] \in S
      BY <2>1, <2>2 DEF Rounds
    <2>4. g \in [0..m -> S] /\ g[0] = x
      BY <1>4, <2>2, <2>3 DEF Rounds
    <2>5. ASSUME NEW i \in 1..m PROVE g[i] = f[g[i - 1]]
      <3>1. CASE i = m
        BY <3>1, <1>4
      <3>2. CASE i # m
        <4>1. i \in 1..m-1 /\ i - 1 \in 0..m-1 /\ g[i] = r[i] /\ g[i - 1] = r[i - 1]
          BY <3>2, <2>1
        <4>2. r[i] = f[r[i - 1]]
          BY <2>2, <4>1 DEF Rounds
        <4>3. QED
          BY <4>1, <4>2
      <3>3. QED
        BY <3>1, <3>2
    <2>6. g \in Rounds(S, f, x, m)
      BY <2>4, <2>5 DEF Rounds
    <2>7. QED
      BY <2>6
  <1>5. QED
    BY <1>3, <1>4

\* ... with the same values each time, as far as both go.
LEMMA RoundsAgree ==
  ASSUME NEW S, NEW f, NEW x, NEW n \in Nat, NEW m \in Nat,
         NEW r \in Rounds(S, f, x, n), NEW g \in Rounds(S, f, x, m),
         NEW k \in Nat, k <= n, k <= m
  PROVE  r[k] = g[k]
  <1> DEFINE T == {i \in 0..k : r[i] # g[i]}
  <1>1. SUFFICES ASSUME T # {} PROVE FALSE
    OBVIOUS
  <1>2. T \in SUBSET Nat
    OBVIOUS
  <1>3. PICK i \in T : \A j \in T : i <= j
    BY <1>1, <1>2, LeastNumber
  <1>4. CASE i = 0
    BY <1>3, <1>4 DEF Rounds
  <1>5. CASE i > 0
    <2>1. i \in 1..n /\ i \in 1..m /\ i - 1 \in 0..k /\ i - 1 \notin T
      BY <1>3, <1>5
    <2>2. r[i - 1] = g[i - 1]
      BY <2>1
    <2>3. r[i] = f[r[i - 1]] /\ g[i] = f[g[i - 1]]
      BY <2>1 DEF Rounds
    <2>4. QED
      BY <2>2, <2>3
  <1>6. QED
    BY <1>3, <1>4, <1>5

\* All its values together are a function on the natural numbers.
Iterated(S, f, x, g) ==
  g \in [Nat -> S] /\ g[0] = x /\ \A e \in Nat \ {0} : g[e] = f[g[e - 1]]

\* There is such a function.
LEMMA Iterates ==
  ASSUME NEW S, NEW f \in [S -> S], NEW x \in S
  PROVE  \E g : Iterated(S, f, x, g)
  <1> DEFINE Run(n) == CHOOSE r \in Rounds(S, f, x, n) : TRUE
             G == [e \in Nat |-> Run(e)[e]]
  <1>1. \A n \in Nat : Run(n) \in Rounds(S, f, x, n)
    BY RoundsExist
  <1> HIDE DEF Run
  <1>2. G[0] = x /\ G \in [Nat -> S]
    BY <1>1 DEF Rounds
  <1>3. ASSUME NEW e \in Nat \ {0} PROVE G[e] = f[G[e - 1]]
    <2>1. e - 1 \in Nat /\ e - 1 <= e /\ e - 1 <= e - 1 /\ e \in 1..e
      BY <1>3
    <2>2. Run(e)[e] = f[Run(e)[e - 1]]
      BY <1>1, <2>1 DEF Rounds
    <2>3. Run(e)[e - 1] = Run(e - 1)[e - 1]
      BY <1>1, <2>1, RoundsAgree
    <2>4. QED
      BY <2>1, <2>2, <2>3
  <1>4. QED
    BY <1>2, <1>3 DEF Iterated

\* The recursive function that models the loop of powerof() exists.
LEMMA ProductDefined ==
  ASSUME NEW base \in Int
  PROVE  Product(base) = [e \in Nat |-> IF e = 0 THEN 1
                                        ELSE (Product(base)[e - 1] * base) % U64]
  <1> DEFINE f == [y \in 0..U64-1 |-> (y * base) % U64]
             IsProduct(r) == r = [e \in Nat |-> IF e = 0 THEN 1 ELSE (r[e - 1] * base) % U64]
  <1>1. f \in [0..U64-1 -> 0..U64-1] /\ \A y \in 0..U64-1 : f[y] = (y * base) % U64
    BY OneProduct
  <1> HIDE DEF f
  <1>2. PICK g : Iterated(0..U64-1, f, 1, g)
    <2>1. f \in [0..U64-1 -> 0..U64-1]
      BY <1>1
    <2>2. 1 \in 0..U64-1
      BY ChainAssumption
    <2>3. QED
      BY <2>1, <2>2, Iterates
  <1>3. ASSUME NEW e \in Nat \ {0} PROVE g[e] = (g[e - 1] * base) % U64
    <2>1. e - 1 \in Nat /\ g[e - 1] \in 0..U64-1
      BY <1>2 DEF Iterated
    <2>2. QED
      BY <1>1, <1>2, <2>1 DEF Iterated
  <1>4. IsProduct(g)
    BY <1>2, <1>3 DEF Iterated
  <1>5. Product(base) = CHOOSE r : IsProduct(r)
    BY DEF Product
  <1>6. QED
    BY <1>4, <1>5

\* Each value of the loop is that of a u64.
LEMMA ProductType ==
  ASSUME NEW base \in Int
  PROVE  \A n \in Nat : Product(base)[n] \in 0..U64-1
  <1> DEFINE P == Product(base)
             T == {n \in Nat : P[n] \notin 0..U64-1}
  <1>1. P = [e \in Nat |-> IF e = 0 THEN 1 ELSE (P[e - 1] * base) % U64]
    BY ProductDefined
  <1> HIDE DEF P
  <1>2. SUFFICES ASSUME T # {} PROVE FALSE
    BY DEF P
  <1>3. PICK m \in T : \A n \in T : m <= n
    BY <1>2, LeastNumber
  <1>4. CASE m = 0
    BY <1>1, <1>3, <1>4, ChainAssumption
  <1>5. CASE m > 0
    <2>1. m - 1 \in Nat /\ m - 1 \notin T
      BY <1>3, <1>5
    <2>2. P[m - 1] \in 0..U64-1
      BY <2>1
    <2>3. P[m] = (P[m - 1] * base) % U64
      BY <1>1, <1>5
    <2>4. QED
      BY <1>3, <2>2, <2>3, OneProduct
  <1>6. QED
    BY <1>3, <1>4, <1>5

\* What powerof() returns to lowlevel_mem is a u64 whatever `order' is.
LEMMA PowerofType ==
  ASSUME NEW o \in Int
  PROVE  powerof(2, o) \in 0..U64-1
  <1>1. CASE o < 0
    BY <1>1, ChainAssumption DEF powerof
  <1>2. CASE o >= 0
    <2>1. Product(2)[o] \in 0..U64-1
      BY <1>2, ProductType
    <2>2. powerof(2, o) = Product(2)[o]
      BY <1>2 DEF powerof
    <2>3. QED
      BY <2>1, <2>2
  <1>3. QED
    BY <1>1, <1>2

\* A block of order 0 is a page, and one of the next order is twice as large.
LEMMA PagesDefined ==
  /\ Pages[0] = 1
  /\ \A o \in Nat : Pages[o + 1] = 2 * Pages[o]
  /\ \A o \in Nat : Pages[o] \in Nat
  <1> DEFINE f == [y \in Nat |-> 2 * y]
             IsPages(r) == r = [o \in Nat |-> IF o = 0 THEN 1 ELSE 2 * r[o - 1]]
  <1>1. f \in [Nat -> Nat] /\ \A y \in Nat : f[y] = 2 * y
    OBVIOUS
  <1> HIDE DEF f
  <1>2. PICK g : Iterated(Nat, f, 1, g)
    <2>1. f \in [Nat -> Nat]
      BY <1>1
    <2>2. 1 \in Nat
      OBVIOUS
    <2>3. QED
      BY <2>1, <2>2, Iterates
  <1>3. ASSUME NEW e \in Nat \ {0} PROVE g[e] = 2 * g[e - 1]
    <2>1. e - 1 \in Nat /\ g[e - 1] \in Nat
      BY <1>2 DEF Iterated
    <2>2. QED
      BY <1>1, <1>2, <2>1 DEF Iterated
  <1>4. IsPages(g)
    BY <1>2, <1>3 DEF Iterated
  <1>5. Pages = CHOOSE r : IsPages(r)
    BY DEF Pages
  <1>6. IsPages(Pages)
    BY <1>4, <1>5
  <1>7. Pages[0] = 1 /\ \A o \in Nat : Pages[o + 1] = 2 * Pages[o]
    <2>1. \A o \in Nat : o + 1 \in Nat /\ o + 1 # 0 /\ (o + 1) - 1 = o
      OBVIOUS
    <2>2. QED
      BY <1>6, <2>1
  <1> HIDE DEF IsPages
  <1>8. \A o \in Nat : Pages[o] \in Nat
    <2> DEFINE T == {o \in Nat : Pages[o] \notin Nat}
    <2>1. SUFFICES ASSUME T # {} PROVE FALSE
      OBVIOUS
    <2>2. PICK m \in T : \A n \in T : m <= n
      BY <2>1, LeastNumber
    <2>3. CASE m = 0
      BY <1>7, <2>2, <2>3
    <2>4. CASE m > 0
      <3>1. m - 1 \in Nat /\ m - 1 \notin T
        BY <2>2, <2>4
      <3>2. Pages[m - 1] \in Nat /\ Pages[(m - 1) + 1] = 2 * Pages[m - 1]
        BY <1>7, <3>1
      <3>3. (m - 1) + 1 = m
        BY <2>2
      <3>4. QED
        BY <2>2, <3>2, <3>3
    <2>5. QED
      BY <2>2, <2>3, <2>4
  <1>9. QED
    BY <1>7, <1>8

\* As long as 2^order fits a u64, powerof() computes it.
LEMMA PowerofPages ==
  ASSUME NEW o \in 0..MAX_ORDER-1
  PROVE  powerof(2, o) = Pages[o]
  <1> DEFINE P == Product(2)
             T == {i \in 0..o : P[i] # Pages[i]}
  <1>0. P = [e \in Nat |-> IF e = 0 THEN 1 ELSE (P[e - 1] * 2) % U64]
    BY ProductDefined
  <1>1. powerof(2, o) = P[o] /\ o \in Nat /\ MAX_ORDER \in Nat
    BY ChainAssumption DEF powerof
  <1> HIDE DEF P
  <1>2. SUFFICES ASSUME T # {} PROVE FALSE
    BY <1>1
  <1>3. PICK m \in T : \A n \in T : m <= n
    <2>1. T \in SUBSET Nat
      BY <1>1
    <2>2. QED
      BY <1>2, <2>1, LeastNumber
  <1>4. CASE m = 0
    BY <1>0, <1>3, <1>4, PagesDefined
  <1>5. CASE m > 0
    <2>1. m - 1 \in 0..o /\ m - 1 \in Nat /\ m - 1 \notin T /\ m \in Nat
      BY <1>1, <1>3, <1>5
    <2>2. P[m - 1] = Pages[m - 1]
      BY <2>1
    <2>3. P[m] = (P[m - 1] * 2) % U64
      BY <1>0, <1>5, <2>1
    <2>4. Pages[m] = 2 * Pages[m - 1] /\ Pages[m - 1] \in Nat
      <3>1. Pages[(m - 1) + 1] = 2 * Pages[m - 1] /\ Pages[m - 1] \in Nat
        BY <2>1, PagesDefined
      <3>2. (m - 1) + 1 = m
        BY <2>1
      <3>3. QED
        BY <3>1, <3>2
    <2>5. Pages[m] < U64 /\ U64 \in Nat \ {0}
      BY <1>1, <1>3, ChainAssumption
    <2>6. (Pages[m - 1] * 2) % U64 = Pages[m - 1] * 2
      <3> DEFINE y == Pages[m - 1] * 2
      <3>1. y \in Nat /\ y < U64
        BY <2>4, <2>5
      <3> HIDE DEF y
      <3>2. y % U64 = y
        BY <2>5, <3>1
      <3>3. QED
        BY <3>2 DEF y
    <2>7. QED
      BY <1>3, <2>2, <2>3, <2>4, <2>6
  <1>6. QED
    BY <1>1, <1>3, <1>4, <1>5

\* The sizes of the blocks whose order is not a parameter.
LEMMA Sizes ==
  /\ \A b \in Blocks \ {"gptr2", "gptr5"} : Size(b) = 1 /\ Freed(b) = 1
  /\ Size("gptr2") = Pages[order] /\ Freed("gptr2") = Pages[order]
  /\ Size("gptr5") = 32 /\ Freed("gptr5") = 8
  <1>1. /\ Pages[0] = 1 /\ Pages[0 + 1] = 2 * Pages[0] /\ Pages[1 + 1] = 2 * Pages[1]
        /\ Pages[2 + 1] = 2 * Pages[2] /\ Pages[3 + 1] = 2 * Pages[3] /\ Pages[4 + 1] = 2 * Pages[4]
    BY PagesDefined
  <1>2. Pages[3] = 8 /\ Pages[5] = 32
    BY <1>1
  <1>3. QED
    BY <1>2 DEF Size, Freed

\* A block has a size whenever it is got or given back.
LEMMA SizeType ==
  ASSUME order \in Int, NEW b, b = "gptr2" => OrderOK
  PROVE  Size(b) \in Int /\ Freed(b) \in Int
  <1>1. CASE b = "gptr2"
    <2>1. Pages[order] \in Int
      BY <1>1, PagesDefined DEF OrderOK
    <2>2. QED
      BY <1>1, <2>1, Sizes
  <1>2. CASE b # "gptr2"
    BY <1>2, Sizes DEF Size, Freed
  <1>3. QED
    BY <1>1, <1>2

\* What is got for a block or given back is counted as that block's.
LEMMA HeldType ==
  ASSUME NEW h \in [Blocks -> Int], NEW b, NEW n \in Int
  PROVE  /\ [h EXCEPT ![b] = @ + n] \in [Blocks -> Int]
         /\ [h EXCEPT ![b] = @ - n] \in [Blocks -> Int]
  <1>1. CASE b \in Blocks
    <2>1. h[b] + n \in Int /\ h[b] - n \in Int
      BY <1>1
    <2>2. QED
      BY <2>1
  <1>2. CASE b \notin Blocks
    BY <1>2
  <1>3. QED
    BY <1>1, <1>2

\* Each step of a chain, whatever list of steps it is in.
LEMMA ChainSteps ==
  ASSUME ChainTypeOK, [ChainNext]_chainvars
  PROVE  ChainTypeOK'
  <1> USE DEF ChainTypeOK, SameChain, SameDump, NextStep
  <1>0. order \in Int /\ 0 \in 0..U64-1 /\ AnyOrder \in Orders /\ AnyKvnum \in KvNums
    BY ChainAssumption DEF AnyOrder, AnyKvnum
  <1>1. CASE ChainInsert
    <2>1. order' \in Orders /\ kvnum' \in KvNums
      BY <1>0, <1>1 DEF ChainInsert
    <2>2. held' \in [Blocks -> Int] /\ phase' = "init"
      BY <1>1 DEF ChainInsert
    <2>3. /\ chain' \in Chains /\ pre58' \in BOOLEAN
          /\ numpg' = 0 /\ walked' = 0 /\ retval' = 0 /\ rewritten' = FALSE
          /\ kvsize' = 0 /\ dumped' = 0 /\ missed' = FALSE
      BY <1>1 DEF ChainInsert
    <2>4. QED
      BY <1>0, <2>1, <2>2, <2>3
  <1>2. CASE Got
    <2>1. Size(Block) \in Int
      BY <1>0, <1>2, SizeType DEF Got, MayGet
    <2>2. held' \in [Blocks -> Int]
      BY <1>2, <2>1, HeldType DEF Got
    <2>3. kvsize' \in KvNums \cup {0}
      BY <1>2 DEF Got
    <2>4. QED
      BY <1>2, <2>2, <2>3 DEF Got
  <1>3. CASE Failed \/ FailedUnseen
    BY <1>3 DEF Failed, FailedUnseen
  <1>4. CASE Faults
    BY <1>4 DEF Faults, Lost
  <1>5. CASE Used \/ ShowPhyPages
    BY <1>5 DEF Used, ShowPhyPages
  <1>6. CASE GiveBack
    <2>1. Freed(Block) \in Int
      BY <1>0, <1>6, SizeType DEF GiveBack
    <2>2. held' \in [Blocks -> Int]
      BY <1>6, <2>1, HeldType DEF GiveBack
    <2>3. QED
      BY <1>6, <2>2 DEF GiveBack
  <1>7. CASE CountPages
    BY <1>0, <1>7, PowerofType DEF CountPages
  <1>8. CASE CheckKvnum
    BY <1>8 DEF CheckKvnum
  <1>9. CASE Finished \/ ChainRemove
    BY <1>9 DEF Finished, ChainRemove
  <1>10. CASE SetOrder \/ SetKvnum
    BY <1>10 DEF SetOrder, SetKvnum
  <1>11. CASE UNCHANGED chainvars
    BY <1>11 DEF chainvars
  <1>12. QED
    BY <1>1, <1>2, <1>3, <1>4, <1>5, <1>6, <1>7, <1>8, <1>9, <1>10, <1>11
       DEF ChainNext, ChainStep

-----------------------------------------------------------------------------
(* What the chains hold *)

\* All the steps there are, whether a module has them or not.
ChainOps == {"get", "put", "use", "powerof", "show", "check", "dump", "write"} \X Blocks

\* What is left of a list of steps from the k-th on.
From(p, k) == SubSeq(p, k, Len(p))

\* The k-th step is then the next, and after it the list is left from k + 1 on.
LEMMA FromSteps ==
  ASSUME NEW p \in Seq(ChainOps)
  PROVE  /\ From(p, 1) = p
         /\ From(p, Len(p) + 1) = << >>
         /\ \A k \in 1..Len(p) : /\ From(p, k) # << >>
                                 /\ From(p, k)[1] = p[k]
                                 /\ Tail(From(p, k)) = From(p, k + 1)
  <1>1. From(p, 1) = p /\ From(p, Len(p) + 1) = << >>
    BY DEF From
  <1>2. ASSUME NEW k \in 1..Len(p)
        PROVE  /\ From(p, k) # << >>
               /\ From(p, k)[1] = p[k]
               /\ Tail(From(p, k)) = From(p, k + 1)
    <2>1. Len(p) \in k..Len(p)
      OBVIOUS
    <2>2. Tail(From(p, k)) = From(p, k + 1)
      BY <2>1, HeadTailOfSubSeq DEF From
    <2>3. From(p, k) # << >>
      <3>1. \A i \in k..Len(p) : p[i] \in ChainOps
        OBVIOUS
      <3>2. Len(From(p, k)) = Len(p) - k + 1
        BY <2>1, <3>1, SubSeqProperties DEF From
      <3>3. Len(From(p, k)) > 0
        BY <3>2
      <3>4. QED
        BY <3>3
    <2>4. Head(From(p, k)) = p[k] /\ Head(From(p, k)) = From(p, k)[1]
      BY <2>1, HeadTailOfSubSeq DEF From
    <2>5. QED
      BY <2>2, <2>3, <2>4
  <1>3. QED
    BY <1>1, <1>2

\* The next step is the k-th of the list p ...
StepIs(p, k, what, b) ==
  /\ p \in Seq(ChainOps) /\ k \in 1..Len(p) /\ b \in Blocks
  /\ p[k] = <<what, b>> /\ left = From(p, k)

\* ... and is done.
Advance(p, k) == left' = From(p, k + 1) /\ UNCHANGED <<phase, retval>>

\* What is held for a block grows by n.
Gains(b, n) == \A c \in Blocks : held'[c] = IF c = b THEN held[c] + n ELSE held[c]

\* What the actions find at that step.
LEMMA StepRead ==
  ASSUME NEW p, NEW k, NEW what, NEW b, StepIs(p, k, what, b)
  PROVE  /\ left # << >> /\ Block = b /\ \A w : Doing(w) <=> w = what
         /\ Tail(left) = From(p, k + 1)
  BY FromSteps DEF StepIs, Doing, Block

\* What an allocation leaves alone: all but kv's leave the dump's size.
LEMMA GetFrame ==
  ASSUME NEW p, NEW k, NEW b, StepIs(p, k, "get", b), ChainStep
  PROVE  /\ SameChain /\ UNCHANGED <<numpg, walked>> /\ dumped' = dumped
         /\ b # "kv" => SameDump
         /\ kvsize' = kvsize \/ kvsize' = kvnum
  <1>1. Block = b
    BY StepRead
  <1>2. /\ Doing("get") /\ ~Doing("use") /\ ~Doing("dump") /\ ~Doing("put") /\ ~Doing("powerof")
        /\ ~Doing("show") /\ ~Doing("check") /\ ~Doing("write") /\ left # << >>
    BY StepRead
  <1>3. QED
    BY <1>1, <1>2
       DEF ChainStep, Got, Failed, FailedUnseen, Faults, Lost, SameDump,
           Used, GiveBack, CountPages, ShowPhyPages, CheckKvnum, Finished

\* An allocation succeeds, or fails unseen, or sends module_init to a label, or
\* needs a cache that is not there.
LEMMA GetMoves ==
  ASSUME ChainTypeOK, NEW p, NEW k, NEW b, StepIs(p, k, "get", b), ChainStep
  PROVE  \/ /\ Advance(p, k) /\ Gains(b, Size(b)) /\ missed' = missed
            /\ MayGet(b) /\ (b = "obj" => held["cache"] = 1) /\ (b = "kv" => kvsize' = kvnum)
         \/ Advance(p, k) /\ b \in Unseen /\ held' = held /\ missed' = TRUE
         \/ /\ phase' = "unwind" /\ retval' = -1 /\ left' = Unwind(b) /\ held' = held
            /\ b \notin Unseen /\ (b = "obj" => held["cache"] = 1)
         \/ /\ phase' = "oops" /\ UNCHANGED <<left, held, missed>>
            /\ b = "obj" /\ held["cache"] = 0
  <1>1. left # << >> /\ Block = b /\ Tail(left) = From(p, k + 1)
    BY StepRead
  <1>2. /\ Doing("get") /\ ~Doing("use") /\ ~Doing("dump") /\ ~Doing("put") /\ ~Doing("powerof")
        /\ ~Doing("show") /\ ~Doing("check") /\ ~Doing("write")
    BY StepRead
  <1>3. CASE Got
    <2>1. Gains(b, Size(b))
      BY <1>1, <1>3 DEF Got, ChainTypeOK, Gains
    <2>2. QED
      BY <1>1, <1>3, <2>1 DEF Got, NextStep, Advance, SameDump
  <1>4. CASE Failed \/ FailedUnseen \/ Faults
    BY <1>1, <1>2, <1>4 DEF Failed, FailedUnseen, Faults, Lost, NextStep, Advance
  <1>5. QED
    BY <1>1, <1>2, <1>3, <1>4
       DEF ChainStep, Used, GiveBack, CountPages, ShowPhyPages, CheckKvnum, Finished

\* A block goes back, or the order it is to go back with is none, or it was NULL.
LEMMA PutMoves ==
  ASSUME ChainTypeOK, NEW p, NEW k, NEW b, StepIs(p, k, "put", b), ChainStep
  PROVE  /\ SameChain /\ UNCHANGED <<numpg, walked, missed>> /\ SameDump
         /\ \/ Advance(p, k) /\ Gains(b, -Freed(b)) /\ (b = "gptr2" => OrderOK)
            \/ /\ phase' = "oops" /\ UNCHANGED <<left, held>>
               /\ \/ b = "gptr2" /\ ~OrderOK
                  \/ b = "gptr5" /\ held[b] = 0
  <1>1. left # << >> /\ Block = b /\ Tail(left) = From(p, k + 1)
    BY StepRead
  <1>2. /\ Doing("put") /\ ~Doing("use") /\ ~Doing("dump") /\ ~Doing("get") /\ ~Doing("powerof")
        /\ ~Doing("show") /\ ~Doing("check") /\ ~Doing("write")
    BY StepRead
  <1>3. CASE GiveBack
    <2>1. Gains(b, -Freed(b))
      BY <1>1, <1>3 DEF GiveBack, ChainTypeOK, Gains
    <2>2. QED
      BY <1>1, <1>3, <2>1 DEF GiveBack, NextStep, Advance
  <1>4. CASE Faults
    BY <1>1, <1>2, <1>4 DEF Faults, Lost, NextStep, Advance
  <1>5. QED
    BY <1>1, <1>2, <1>3, <1>4
       DEF ChainStep, Got, Failed, FailedUnseen, Used, CountPages, ShowPhyPages, CheckKvnum, Finished

\* The other steps neither get nor give back.
LEMMA OtherMoves ==
  ASSUME NEW p, NEW k, NEW what \in {"use", "powerof", "show", "check", "dump", "write"}, NEW b,
         StepIs(p, k, what, b), ChainStep
  PROVE  /\ SameChain /\ held' = held /\ missed' = missed /\ kvsize' = kvsize
         /\ what # "dump" => SameDump
         /\ \/ /\ Advance(p, k) /\ what # "write"
               /\ numpg' = (IF what = "powerof" THEN powerof(2, order) ELSE numpg)
               /\ walked' = (IF what = "show" THEN numpg ELSE walked)
               /\ what = "use" => held[b] = 1
               /\ what = "check" => kvnum >= KVN_MIN_BYTES
               /\ dumped' = (IF what = "dump" THEN KVN_MIN_BYTES ELSE dumped)
            \/ /\ phase' = "unwind" /\ retval' = -1 /\ left' = << >>
               /\ what = "check" /\ UNCHANGED <<numpg, walked, dumped>>
            \/ /\ phase' = "oops" /\ UNCHANGED <<left, numpg, walked, dumped>>
               /\ \/ what = "use" /\ held[b] = 0
                  \/ what = "dump" /\ kvsize = 0
                  \/ what = "write"
  <1>1. left # << >> /\ Block = b /\ Tail(left) = From(p, k + 1)
    BY StepRead
  <1>2. ~Doing("get") /\ ~Doing("put") /\ \A w : Doing(w) <=> w = what
    BY StepRead
  <1>3. CASE Used \/ CountPages \/ ShowPhyPages
    BY <1>1, <1>2, <1>3 DEF Used, CountPages, ShowPhyPages, NextStep, Advance, SameDump
  <1>4. CASE CheckKvnum
    BY <1>1, <1>2, <1>4 DEF CheckKvnum, NextStep, Advance, SameDump
  <1>5. CASE Faults
    BY <1>1, <1>2, <1>5 DEF Faults, Lost, SameDump
  <1>6. QED
    BY <1>1, <1>2, <1>3, <1>4, <1>5
       DEF ChainStep, Got, Failed, FailedUnseen, GiveBack, Finished

\* 1 of a block that is held, 0 of one that is not.
One(c) == IF c THEN 1 ELSE 0

\* n of a block is held, unless it is one of those whose failure nobody sees.
Maybe(n) == IF missed THEN {0, n} ELSE {n}

\* Nothing is held but these.
Only(S) == \A b \in Blocks \ S : held[b] = 0

\* lowlevel_mem's block 2 is held, as large as the order says, or it is not.
Block2(c) == ~rewritten => IF c THEN OrderOK /\ held["gptr2"] = Pages[order]
                           ELSE held["gptr2"] = 0

\* What each module holds before the k-th step of its module_init ...
LowInit(k) ==
  /\ Only({"gptr1", "gptr2", "gptr3", "gptr4", "gptr5"})
  /\ held["gptr1"] = One(k > 1) /\ held["gptr3"] = One(k > 5) /\ held["gptr4"] = One(k > 6)
  /\ IF k > 7 THEN held["gptr5"] \in Maybe(32) ELSE held["gptr5"] = 0
  /\ Block2(k > 3) /\ (k <= 3 => held["gptr2"] = 0)
  /\ k > 2 /\ ~rewritten => numpg = powerof(2, order)
  /\ walked = IF k > 4 THEN numpg ELSE 0

SlabInit(k) ==
  /\ Only({"gptr", "ctx"})
  /\ held["gptr"] = One(k > 1) /\ held["ctx"] = One(k > 2)
  /\ walked = 0

VmInit(k) ==
  /\ Only({"rndm", "init", "kv", "kvarr", "vrx"})
  /\ held["rndm"] = One(k > 2) /\ held["init"] = One(k > 3) /\ held["kv"] = One(k > 4)
  /\ held["kvarr"] = One(k > 6) /\ held["vrx"] = One(k > 7) /\ k <= 8
  /\ k > 1 /\ ~rewritten => kvnum >= KVN_MIN_BYTES
  /\ k > 4 /\ ~rewritten => kvsize >= KVN_MIN_BYTES
  /\ k <= 5 => dumped = 0
  /\ walked = 0

CustomInit(k) ==
  /\ Only({"cache", "obj"})
  /\ CASE k = 1 -> held["cache"] = 0 [] k = 2 -> held["cache"] \in Maybe(1) [] k > 2 -> held["cache"] = 1
  /\ held["obj"] = One(k = 3)
  /\ walked = 0

\* A structure that is allocated by the g-th step.
OnceHeld(b, g, k) ==
  CASE k <= g \/ k > g + 2 -> held[b] = 0 [] k = g + 1 -> held[b] \in Maybe(1)
    [] k = g + 2 -> held[b] = 1

MyInit(k) ==
  /\ Only({"gptr", "s1", "s2", "s3"})
  /\ held["gptr"] = One(k > 1)
  /\ OnceHeld("s1", 2, k) /\ OnceHeld("s2", 5, k) /\ OnceHeld("s3", 8, k)
  /\ walked = 0

InitHeld(k) ==
  /\ chain = "lowlevel" => LowInit(k)
  /\ chain = "slab1" => SlabInit(k)
  /\ chain = "vmalloc" => VmInit(k)
  /\ chain = "custom" => CustomInit(k)
  /\ chain = "myprac" => MyInit(k)

\* ... before the k-th of what stands under its labels ...
UnwindHeld(k) ==
  /\ chain = "lowlevel" =>
       /\ Only({"gptr1", "gptr2", "gptr3", "gptr4"}) /\ Block2(k <= 3)
       /\ held["gptr4"] = One(k <= 1) /\ held["gptr3"] = One(k <= 2) /\ held["gptr1"] = One(k <= 4)
  /\ chain = "slab1" => Only({"gptr"}) /\ held["gptr"] = One(k <= 1)
  /\ chain = "vmalloc" =>
       /\ Only({"rndm", "init", "kv", "kvarr"})
       /\ held["kvarr"] = One(k <= 1) /\ held["kv"] = One(k <= 2)
       /\ held["init"] = One(k <= 3) /\ held["rndm"] = One(k <= 4)
  /\ chain = "custom" => Only({"cache"})
  /\ chain = "myprac" => Only({})

\* ... and before the k-th step of its module_exit.
ExitHeld(k) ==
  /\ chain = "lowlevel" =>
       /\ Only({"gptr1", "gptr2", "gptr3", "gptr4", "gptr5"}) /\ Block2(k <= 4)
       /\ held["gptr5"] \in (IF k <= 1 THEN Maybe(32) ELSE {24, -8})
       /\ held["gptr4"] = One(k <= 2) /\ held["gptr3"] = One(k <= 3) /\ held["gptr1"] = One(k <= 5)
  /\ chain = "slab1" =>
       /\ Only({"gptr", "ctx"})
       /\ held["ctx"] = One(k <= 1) /\ held["gptr"] = One(k <= 2)
  /\ chain = "vmalloc" =>
       /\ Only({"rndm", "init", "kv", "kvarr"})
       /\ held["rndm"] = One(k <= 1) /\ held["init"] = One(k <= 2)
       /\ held["kv"] = One(k <= 3) /\ held["kvarr"] = One(k <= 4)
  /\ chain = "custom" => Only({"cache"}) /\ held["cache"] = One(k <= 1)
  /\ chain = "myprac" => Only({"gptr"}) /\ held["gptr"] = One(k <= 1)

\* What module_init of the module that is in has to do.
Insmod == Steps(chain, pre58)

\* The dump of kv has stayed inside kv.
DumpInside == dumped > 0 /\ ~rewritten => dumped <= kvsize

\* Wherever a module is in one of its lists, it holds what it should there.
ChainInv ==
  /\ ChainTypeOK /\ NothingHeld /\ DumpInside
  /\ phase = "oops" => TouchesHeld
  /\ phase \in {"init", "live", "exit"} => retval = 0
  /\ phase = "unwind" => retval = -1
  /\ phase = "init" => \E k \in 1..Len(Insmod) + 1 : left = From(Insmod, k) /\ InitHeld(k)
  /\ phase = "live" => InitHeld(Len(Insmod) + 1)
  /\ phase \in {"out", "live"} => left = << >>
  /\ phase = "unwind" => \E k \in 1..Len(Labels[chain]) + 1 :
                           left = From(Labels[chain], k) /\ UnwindHeld(k)
  /\ phase = "exit" => \E k \in 1..Len(ExitSteps[chain]) + 1 :
                         left = From(ExitSteps[chain], k) /\ ExitHeld(k)

\* All that modules are inserted and removed by are lists of steps.
LEMMA Lists ==
  ASSUME NEW c \in ChainMods, NEW old \in BOOLEAN
  PROVE  Steps(c, old) \in Seq(ChainOps) /\ Labels[c] \in Seq(ChainOps) /\ ExitSteps[c] \in Seq(ChainOps)
  <1>1. /\ AllocSteps.lowlevel \in Seq(ChainOps)
        /\ AllocSteps.slab1 \in Seq(ChainOps)
        /\ AllocSteps.vmalloc \in Seq(ChainOps) /\ SubSeq(AllocSteps.vmalloc, 1, 6) \in Seq(ChainOps)
        /\ AllocSteps.custom \in Seq(ChainOps)
    BY DEF AllocSteps, Get, Put, ChainOps, Blocks
  <1>2. AllocSteps.myprac \in Seq(ChainOps)
    BY DEF AllocSteps, Get, Put, Once, ChainOps, Blocks
  <1>3. /\ Labels.lowlevel \in Seq(ChainOps) /\ Labels.slab1 \in Seq(ChainOps)
        /\ Labels.vmalloc \in Seq(ChainOps) /\ Labels.custom \in Seq(ChainOps)
        /\ Labels.myprac \in Seq(ChainOps)
    BY DEF Labels, Put, ChainOps, Blocks
  <1>4. /\ ExitSteps.lowlevel \in Seq(ChainOps) /\ ExitSteps.slab1 \in Seq(ChainOps)
        /\ ExitSteps.vmalloc \in Seq(ChainOps) /\ ExitSteps.custom \in Seq(ChainOps)
        /\ ExitSteps.myprac \in Seq(ChainOps)
    BY DEF ExitSteps, Labels, Put, ChainOps, Blocks
  <1>5. QED
    BY <1>1, <1>2, <1>3, <1>4 DEF ChainMods, Steps

\* Those of the module that is in are.
LEMMA ItsLists ==
  ASSUME ChainTypeOK
  PROVE  Insmod \in Seq(ChainOps) /\ Labels[chain] \in Seq(ChainOps) /\ ExitSteps[chain] \in Seq(ChainOps)
  BY ChainAssumption, Lists DEF ChainTypeOK, Insmod

\* One step further in a list, holding what is to be held there.
LEMMA Further ==
  ASSUME ChainInv, ChainTypeOK', SameChain, SameDump \/ DumpInside', NEW k \in Nat \ {0}
  PROVE  /\ (phase = "init" /\ k <= Len(Insmod) /\ Advance(Insmod, k) /\ InitHeld(k + 1)')
              => ChainInv'
         /\ (phase = "unwind" /\ k <= Len(Labels[chain]) /\ Advance(Labels[chain], k)
                              /\ UnwindHeld(k + 1)')
              => ChainInv'
         /\ (phase = "exit" /\ k <= Len(ExitSteps[chain]) /\ Advance(ExitSteps[chain], k)
                            /\ ExitHeld(k + 1)')
              => ChainInv'
         /\ (phase' = "unwind" /\ retval' = -1 /\ k <= Len(Labels[chain]) + 1
                               /\ left' = From(Labels[chain], k) /\ UnwindHeld(k)')
              => ChainInv'
  <1> USE DEF ChainInv, SameChain, SameDump, DumpInside, Advance, Insmod, NothingHeld
  <1>0. Len(Insmod) \in Nat /\ Len(Labels[chain]) \in Nat /\ Len(ExitSteps[chain]) \in Nat
    BY ItsLists DEF ChainInv
  <1>1. ASSUME phase = "init", k <= Len(Insmod), Advance(Insmod, k), InitHeld(k + 1)'
        PROVE  ChainInv'
    <2>1. Insmod' = Insmod /\ k + 1 \in 1..Len(Insmod) + 1
      BY <1>0, <1>1
    <2>2. QED
      BY <1>1, <2>1
  <1>2. ASSUME phase = "unwind", k <= Len(Labels[chain]), Advance(Labels[chain], k), UnwindHeld(k + 1)'
        PROVE  ChainInv'
    <2>1. k + 1 \in 1..Len(Labels[chain]) + 1
      BY <1>0, <1>2
    <2>2. QED
      BY <1>2, <2>1
  <1>3. ASSUME phase = "exit", k <= Len(ExitSteps[chain]), Advance(ExitSteps[chain], k), ExitHeld(k + 1)'
        PROVE  ChainInv'
    <2>1. k + 1 \in 1..Len(ExitSteps[chain]) + 1
      BY <1>0, <1>3
    <2>2. QED
      BY <1>3, <2>1
  <1>4. ASSUME phase' = "unwind", retval' = -1, k <= Len(Labels[chain]) + 1,
               left' = From(Labels[chain], k), UnwindHeld(k)'
        PROVE  ChainInv'
    <2>1. k \in 1..Len(Labels[chain]) + 1
      BY <1>0, <1>4
    <2>2. QED
      BY <1>4, <2>1
  <1> HIDE DEF ChainInv, Advance, Insmod
  <1>5. QED
    BY <1>1, <1>2, <1>3, <1>4

\* A step that faults where TouchesHeld allows it.
LEMMA Dies ==
  ASSUME ChainInv, ChainTypeOK', SameChain, SameDump, UNCHANGED <<left, held, missed>>,
         phase' = "oops", NEW p, NEW k, NEW what, NEW b, StepIs(p, k, what, b),
         rewritten \/ missed \/ what = "write"
  PROVE  ChainInv'
  <1>1. Doing("write") <=> what = "write"
    BY StepRead
  <1>2. (Doing("write"))' = Doing("write")
    BY DEF Doing
  <1>3. DumpInside'
    BY DEF ChainInv, DumpInside, SameChain, SameDump
  <1>4. TouchesHeld'
    BY <1>1, <1>2, <1>3 DEF TouchesHeld, DumpInside, SameChain
  <1>5. QED
    BY <1>3, <1>4 DEF ChainInv, NothingHeld

\* lowlevel_mem's module_init.
LEMMA LowInits ==
  ASSUME ChainInv, ChainTypeOK', ChainStep, chain = "lowlevel", phase = "init",
         NEW k \in 1..Len(Insmod), left = From(Insmod, k), LowInit(k)
  PROVE  ChainInv'
  <1>1. /\ Insmod \in Seq(ChainOps) /\ Len(Insmod) = 7
        /\ Insmod[1] = <<"get", "gptr1">> /\ Insmod[2] = <<"powerof", "gptr2">>
        /\ Insmod[3] = <<"get", "gptr2">> /\ Insmod[4] = <<"show", "gptr2">>
        /\ Insmod[5] = <<"get", "gptr3">> /\ Insmod[6] = <<"get", "gptr4">>
        /\ Insmod[7] = <<"get", "gptr5">>
    BY DEF Insmod, Steps, AllocSteps, Get, ChainOps, Blocks
  <1>2. k \in 1..7 /\ Len(Labels[chain]) = 4
    BY <1>1 DEF Labels
  <1>3. CASE k \in {2, 4}
    <2> DEFINE what == IF k = 2 THEN "powerof" ELSE "show"
    <2>1. StepIs(Insmod, k, what, "gptr2")
      BY <1>1, <1>2, <1>3 DEF StepIs, Blocks
    <2>2. /\ SameChain /\ held' = held /\ Advance(Insmod, k) /\ SameDump
          /\ numpg' = (IF k = 2 THEN powerof(2, order) ELSE numpg)
          /\ walked' = (IF k = 4 THEN numpg ELSE walked)
      BY <1>3, <2>1, OtherMoves
    <2>3. LowInit(k + 1)'
      BY <1>3, <2>2 DEF LowInit, Only, Block2, One, SameChain, OrderOK
    <2>4. QED
      BY <1>2, <2>2, <2>3, Further DEF InitHeld, SameChain
  <1>4. CASE k \in {1, 3, 5, 6, 7}
    <2>1. PICK b \in Blocks :
            /\ Insmod[k] = <<"get", b>>
            /\ \/ k = 1 /\ b = "gptr1"
               \/ k = 3 /\ b = "gptr2"
               \/ k = 5 /\ b = "gptr3"
               \/ k = 6 /\ b = "gptr4"
               \/ k = 7 /\ b = "gptr5"
      BY <1>1, <1>4 DEF Blocks
    <2>2. StepIs(Insmod, k, "get", b)
      BY <1>1, <1>2, <2>1 DEF StepIs
    <2>3. SameChain /\ UNCHANGED <<numpg, walked>> /\ SameDump
      BY <2>1, <2>2, GetFrame
    <2>4. \/ Advance(Insmod, k) /\ Gains(b, Size(b)) /\ MayGet(b) /\ missed' = missed
          \/ Advance(Insmod, k) /\ b = "gptr5" /\ held' = held /\ missed' = TRUE
          \/ phase' = "unwind" /\ retval' = -1 /\ left' = Unwind(b) /\ held' = held /\ b # "gptr5"
      BY <2>1, <2>2, GetMoves DEF ChainInv, Unseen
    <2>5. CASE Advance(Insmod, k)
      <3>1. LowInit(k + 1)'
        <4>1. CASE b = "gptr2"
          <5>1. k = 3 /\ Gains(b, Pages[order]) /\ OrderOK
            BY <2>1, <2>4, <2>5, <4>1, Sizes DEF MayGet, Advance
          <5>2. Pages[order] \in Nat
            BY <5>1, PagesDefined, ChainAssumption DEF OrderOK
          <5>3. held'["gptr2"] = Pages[order]
            BY <4>1, <5>1, <5>2 DEF LowInit, Gains, Blocks
          <5>4. \A c \in Blocks \ {"gptr2"} : held'[c] = held[c]
            BY <4>1, <5>1 DEF Gains
          <5>5. QED
            BY <2>3, <5>1, <5>3, <5>4 DEF LowInit, Block2, One, Only, Blocks, SameChain, OrderOK
        <4>2. CASE b = "gptr5"
          BY <2>1, <2>3, <2>4, <2>5, <4>2, Sizes
             DEF LowInit, Block2, One, Maybe, Only, Gains, Blocks, Advance, SameChain, OrderOK
        <4>3. CASE b \in {"gptr1", "gptr3", "gptr4"}
          <5>1. Gains(b, 1) /\ k # 7
            BY <2>1, <2>4, <2>5, <4>3, Sizes DEF Advance
          <5>2. QED
            BY <2>1, <2>3, <4>3, <5>1
               DEF LowInit, Block2, One, Only, Gains, Blocks, SameChain, OrderOK
        <4>4. QED
          BY <2>1, <4>1, <4>2, <4>3
      <3>2. QED
        BY <1>2, <2>3, <2>5, <3>1, Further DEF InitHeld, SameChain
    <2>6. CASE phase' = "unwind" /\ retval' = -1 /\ left' = Unwind(b) /\ held' = held /\ b # "gptr5"
      <3>1. Label[b] \in 1..5 /\ left' = From(Labels[chain], Label[b])
        BY <2>1, <2>6 DEF Label, Unwind, From
      <3>2. PICK n \in 1..5 : n = Label[b]
        BY <3>1
      <3>3. UnwindHeld(n)'
        BY <2>1, <2>3, <2>6, <3>2
           DEF LowInit, UnwindHeld, Label, Block2, One, Only, Blocks, SameChain, OrderOK
      <3>4. QED
        BY <1>2, <2>3, <2>6, <3>1, <3>2, <3>3, Further
    <2>7. QED
      BY <2>4, <2>5, <2>6
  <1>5. QED
    BY <1>2, <1>3, <1>4

\* slab1's module_init.
LEMMA SlabInits ==
  ASSUME ChainInv, ChainTypeOK', ChainStep, chain = "slab1", phase = "init",
         NEW k \in 1..Len(Insmod), left = From(Insmod, k), SlabInit(k)
  PROVE  ChainInv'
  <1>1. /\ Insmod \in Seq(ChainOps) /\ Len(Insmod) = 2
        /\ Insmod[1] = <<"get", "gptr">> /\ Insmod[2] = <<"get", "ctx">>
    BY DEF Insmod, Steps, AllocSteps, Get, ChainOps, Blocks
  <1>2. k \in 1..2 /\ Len(Labels[chain]) = 1
    BY <1>1 DEF Labels
  <1>3. PICK b \in Blocks :
          /\ Insmod[k] = <<"get", b>>
          /\ \/ k = 1 /\ b = "gptr"
             \/ k = 2 /\ b = "ctx"
    BY <1>1, <1>2 DEF Blocks
  <1>4. StepIs(Insmod, k, "get", b)
    BY <1>1, <1>2, <1>3 DEF StepIs
  <1>5. SameChain /\ UNCHANGED <<numpg, walked>> /\ SameDump
    BY <1>3, <1>4, GetFrame
  <1>6. \/ Advance(Insmod, k) /\ Gains(b, Size(b))
        \/ phase' = "unwind" /\ retval' = -1 /\ left' = Unwind(b) /\ held' = held
    BY <1>3, <1>4, GetMoves DEF ChainInv, Unseen
  <1>7. CASE Advance(Insmod, k) /\ Gains(b, Size(b))
    <2>1. SlabInit(k + 1)'
      BY <1>3, <1>5, <1>7, Sizes DEF SlabInit, One, Only, Gains, Blocks, Advance
    <2>2. QED
      BY <1>2, <1>5, <1>7, <2>1, Further DEF InitHeld, SameChain
  <1>8. CASE phase' = "unwind" /\ retval' = -1 /\ left' = Unwind(b) /\ held' = held
    <2>1. Label[b] \in 1..2 /\ left' = From(Labels[chain], Label[b])
      BY <1>3, <1>8 DEF Label, Unwind, From
    <2>2. PICK n \in 1..5 : n = Label[b]
      BY <2>1
    <2>3. UnwindHeld(n)'
      BY <1>3, <1>5, <1>8, <2>2 DEF SlabInit, UnwindHeld, Label, One, Only, Blocks, SameChain
    <2>4. QED
      BY <1>2, <1>5, <1>8, <2>1, <2>2, <2>3, Further
  <1>9. QED
    BY <1>6, <1>7, <1>8

\* vmalloc_try's module_init.
LEMMA VmInits ==
  ASSUME ChainInv, ChainTypeOK', ChainStep, chain = "vmalloc", phase = "init",
         NEW k \in 1..Len(Insmod), left = From(Insmod, k), VmInit(k)
  PROVE  ChainInv'
  <1> DEFINE p == AllocSteps.vmalloc
  <1>1. /\ p \in Seq(ChainOps) /\ Len(p) = 8
        /\ p[1] = <<"check", "kv">> /\ p[2] = <<"get", "rndm">> /\ p[3] = <<"get", "init">>
        /\ p[4] = <<"get", "kv">> /\ p[5] = <<"dump", "kv">> /\ p[6] = <<"get", "kvarr">>
        /\ p[7] = <<"get", "vrx">> /\ p[8] = <<"write", "vrx">>
    BY DEF AllocSteps, Get, ChainOps, Blocks
  <1> HIDE DEF p
  <1>2. /\ Insmod \in Seq(ChainOps) /\ Len(Insmod) \in {6, 8}
        /\ \A i \in 1..Len(Insmod) : Insmod[i] = p[i]
    BY <1>1 DEF Insmod, Steps, p
  <1>3. k \in 1..8 /\ Len(Labels[chain]) = 4 /\ Insmod[k] = p[k]
    BY <1>2 DEF Labels
  <1>4. CASE k \in {1, 5, 8}
    <2> DEFINE what == CASE k = 1 -> "check" [] k = 5 -> "dump" [] k = 8 -> "write"
    <2>1. \E b \in Blocks : StepIs(Insmod, k, what, b)
      BY <1>1, <1>2, <1>3, <1>4 DEF StepIs, Blocks
    <2>2. PICK b \in Blocks : StepIs(Insmod, k, what, b)
      BY <2>1
    <2>3. what \in {"use", "powerof", "show", "check", "dump", "write"}
          /\ (what = "check" <=> k = 1) /\ (what = "write" <=> k = 8)
          /\ (what = "dump" <=> k = 5)
          /\ what \notin {"use", "powerof", "show"}
      BY <1>4
    <2> HIDE DEF what
    <2>4. SameChain /\ held' = held /\ UNCHANGED <<walked, missed, kvsize>> /\ (k # 5 => SameDump)
      BY <2>2, <2>3, OtherMoves
    <2>5. \/ /\ Advance(Insmod, k) /\ k # 8 /\ (k = 1 => kvnum >= KVN_MIN_BYTES)
             /\ dumped' = (IF k = 5 THEN KVN_MIN_BYTES ELSE dumped)
          \/ phase' = "unwind" /\ retval' = -1 /\ left' = << >> /\ k = 1
          \/ phase' = "oops" /\ UNCHANGED <<left, dumped>> /\ ((kvsize = 0 /\ k = 5) \/ k = 8)
      BY <2>2, <2>3, OtherMoves
    <2>6. CASE /\ Advance(Insmod, k) /\ k # 8 /\ (k = 1 => kvnum >= KVN_MIN_BYTES)
               /\ dumped' = (IF k = 5 THEN KVN_MIN_BYTES ELSE dumped)
      <3>1. VmInit(k + 1)'
        BY <1>4, <2>4, <2>6 DEF VmInit, One, Only, SameChain
      <3>2. SameDump \/ DumpInside'
        BY <2>4, <2>6 DEF VmInit, DumpInside, SameChain, KVN_MIN_BYTES
      <3>3. QED
        BY <2>4, <2>6, <3>1, <3>2, Further DEF InitHeld, SameChain
    <2>7. CASE phase' = "unwind" /\ retval' = -1 /\ left' = << >> /\ k = 1
      <3>1. left' = From(Labels[chain], 5)
        <4>1. Labels[chain] \in Seq(ChainOps)
          BY ItsLists DEF ChainInv
        <4>2. From(Labels[chain], Len(Labels[chain]) + 1) = << >>
          BY <4>1, FromSteps
        <4>3. QED
          BY <1>3, <2>7, <4>2
      <3>2. UnwindHeld(5)'
        BY <2>4, <2>7 DEF VmInit, UnwindHeld, One, Only, Blocks, SameChain
      <3>3. QED
        BY <1>3, <2>4, <2>7, <3>1, <3>2, Further
    <2>8. CASE phase' = "oops" /\ UNCHANGED <<left, dumped>> /\ ((kvsize = 0 /\ k = 5) \/ k = 8)
      <3>1. rewritten \/ what = "write"
        <4>1. CASE k = 8
          BY <2>3, <4>1
        <4>2. CASE k = 5 /\ kvsize = 0
          BY <4>2 DEF VmInit, KVN_MIN_BYTES
        <4>3. QED
          BY <2>8, <4>1, <4>2
      <3>2. SameDump
        BY <2>4, <2>8 DEF SameDump
      <3>3. QED
        BY <2>2, <2>4, <2>8, <3>1, <3>2, Dies
    <2>9. QED
      BY <2>5, <2>6, <2>7, <2>8
  <1>5. CASE k \in {2, 3, 4, 6, 7}
    <2>1. PICK b \in Blocks :
            /\ Insmod[k] = <<"get", b>>
            /\ \/ k = 2 /\ b = "rndm"
               \/ k = 3 /\ b = "init"
               \/ k = 4 /\ b = "kv"
               \/ k = 6 /\ b = "kvarr"
               \/ k = 7 /\ b = "vrx"
      BY <1>1, <1>3, <1>5 DEF Blocks
    <2>2. StepIs(Insmod, k, "get", b)
      BY <1>2, <1>3, <2>1 DEF StepIs
    <2>3. SameChain /\ UNCHANGED <<numpg, walked, dumped>> /\ (k # 4 => SameDump)
      BY <2>1, <2>2, GetFrame
    <2>4. \/ Advance(Insmod, k) /\ Gains(b, Size(b)) /\ (k = 4 => kvsize' = kvnum)
          \/ phase' = "unwind" /\ retval' = -1 /\ left' = Unwind(b) /\ held' = held
      <3>1. ChainTypeOK /\ b \notin Unseen /\ b # "obj" /\ (k = 4 => b = "kv")
        BY <2>1 DEF ChainInv, Unseen
      <3>2. QED
        BY <2>2, <3>1, GetMoves
    <2>5. CASE Advance(Insmod, k) /\ Gains(b, Size(b)) /\ (k = 4 => kvsize' = kvnum)
      <3>1. VmInit(k + 1)'
        <4>1. Size(b) = 1
          BY <2>1, Sizes
        <4>2. \A c \in Blocks : held'[c] = IF c = b THEN held[c] + 1 ELSE held[c]
          BY <2>5, <4>1 DEF Gains
        <4>3. Only({"rndm", "init", "kv", "kvarr", "vrx"})'
          BY <2>1, <4>2 DEF VmInit, Only
        <4>4. /\ held'["rndm"] = One(k > 1) /\ held'["init"] = One(k > 2)
              /\ held'["kv"] = One(k > 3)
              /\ held'["kvarr"] = One(k > 5) /\ held'["vrx"] = One(k > 6)
          BY <2>1, <4>2 DEF VmInit, One, Blocks
        <4>5. k > 3 /\ ~rewritten => kvsize' >= KVN_MIN_BYTES
          BY <2>1, <2>3, <2>5 DEF VmInit, SameDump
        <4>6. k <= 4 => dumped' = 0
          BY <2>3 DEF VmInit
        <4>7. k + 1 <= 8 /\ k + 1 \in Nat /\ walked' = 0
          BY <2>1, <2>3 DEF VmInit
        <4>8. ~rewritten' => kvnum' >= KVN_MIN_BYTES
          BY <2>1, <2>3 DEF VmInit, SameChain
        <4>9. rewritten' = rewritten
          BY <2>3 DEF SameChain
        <4>10. /\ k + 1 > 2 <=> k > 1
               /\ k + 1 > 3 <=> k > 2
               /\ k + 1 > 4 <=> k > 3
               /\ k + 1 > 6 <=> k > 5
               /\ k + 1 > 7 <=> k > 6
               /\ k + 1 <= 5 <=> k <= 4
          BY <2>1
        <4>11. QED
          BY <4>3, <4>4, <4>5, <4>6, <4>7, <4>8, <4>9, <4>10 DEF VmInit, One
      <3>2. SameDump \/ DumpInside'
        BY <2>3, <2>5 DEF VmInit, DumpInside
      <3>3. QED
        BY <2>3, <2>5, <3>1, <3>2, Further DEF InitHeld, SameChain
    <2>6. CASE phase' = "unwind" /\ retval' = -1 /\ left' = Unwind(b) /\ held' = held
      <3>1. Label[b] \in 1..5 /\ left' = From(Labels[chain], Label[b])
        BY <2>1, <2>6 DEF Label, Unwind, From
      <3>2. PICK n \in 1..5 : n = Label[b]
        BY <3>1
      <3>3. UnwindHeld(n)'
        BY <2>1, <2>3, <2>6, <3>2 DEF VmInit, UnwindHeld, Label, One, Only, Blocks, SameChain
      <3>4. SameDump \/ DumpInside'
        BY <2>3 DEF VmInit, DumpInside
      <3>5. QED
        BY <1>3, <2>3, <2>6, <3>1, <3>2, <3>3, <3>4, Further
    <2>7. QED
      BY <2>4, <2>5, <2>6
  <1>6. QED
    BY <1>3, <1>4, <1>5

\* slab_custom's module_init.
LEMMA CustomInits ==
  ASSUME ChainInv, ChainTypeOK', ChainStep, chain = "custom", phase = "init",
         NEW k \in 1..Len(Insmod), left = From(Insmod, k), CustomInit(k)
  PROVE  ChainInv'
  <1>1. /\ Insmod \in Seq(ChainOps) /\ Len(Insmod) = 3
        /\ Insmod[1] = <<"get", "cache">> /\ Insmod[2] = <<"get", "obj">>
        /\ Insmod[3] = <<"put", "obj">>
    BY DEF Insmod, Steps, AllocSteps, Get, Put, ChainOps, Blocks
  <1>2. k \in 1..3 /\ Labels[chain] = << >>
    BY <1>1 DEF Labels
  <1>3. CASE k = 1
    <2>1. StepIs(Insmod, k, "get", "cache")
      BY <1>1, <1>2, <1>3 DEF StepIs, Blocks
    <2>2. SameChain /\ UNCHANGED <<numpg, walked>> /\ SameDump
      BY <2>1, GetFrame
    <2>3. /\ Advance(Insmod, k)
          /\ (Gains("cache", 1) /\ missed' = missed) \/ (held' = held /\ missed' = TRUE)
      <3>1. PICK b \in Blocks : b = "cache"
        BY DEF Blocks
      <3>2. ChainTypeOK /\ b \in Unseen /\ b # "obj" /\ Size(b) = 1
        BY <3>1, Sizes DEF ChainInv, Unseen
      <3>3. StepIs(Insmod, k, "get", b)
        BY <2>1, <3>1
      <3>4. \/ Advance(Insmod, k) /\ Gains(b, Size(b)) /\ missed' = missed
            \/ Advance(Insmod, k) /\ b \in Unseen /\ held' = held /\ missed' = TRUE
            \/ phase' = "unwind" /\ retval' = -1 /\ left' = Unwind(b) /\ held' = held /\ b \notin Unseen
        BY <3>2, <3>3, GetMoves DEF Unseen
      <3>5. QED
        BY <3>1, <3>2, <3>4
    <2>4. CustomInit(k + 1)'
      BY <1>3, <2>2, <2>3 DEF CustomInit, Maybe, Gains, Only, One, Blocks
    <2>5. QED
      BY <1>2, <2>2, <2>3, <2>4, Further DEF InitHeld, SameChain
  <1>4. CASE k = 2
    <2>1. StepIs(Insmod, k, "get", "obj")
      BY <1>1, <1>2, <1>4 DEF StepIs, Blocks
    <2>2. SameChain /\ UNCHANGED <<numpg, walked>> /\ SameDump
      BY <2>1, GetFrame
    <2>3. \/ Advance(Insmod, k) /\ Gains("obj", 1) /\ held["cache"] = 1
          \/ phase' = "unwind" /\ retval' = -1 /\ left' = Unwind("obj") /\ held' = held
          \/ phase' = "oops" /\ UNCHANGED <<left, held, missed>> /\ held["cache"] = 0
      BY <2>1, GetMoves, Sizes DEF ChainInv, Unseen, Blocks
    <2>4. CASE Advance(Insmod, k) /\ Gains("obj", 1) /\ held["cache"] = 1
      <3>1. CustomInit(k + 1)'
        BY <1>4, <2>2, <2>4 DEF CustomInit, Maybe, Gains, Only, One, Blocks
      <3>2. QED
        BY <1>2, <2>2, <2>4, <3>1, Further DEF InitHeld, SameChain
    <2>5. CASE phase' = "unwind" /\ retval' = -1 /\ left' = Unwind("obj") /\ held' = held
      <3>1. left' = From(Labels[chain], 1) /\ Len(Labels[chain]) = 0
        BY <1>2, <2>5 DEF Label, Unwind, From
      <3>2. UnwindHeld(1)'
        BY <1>4, <2>2, <2>5 DEF CustomInit, UnwindHeld, One, Only, Blocks, SameChain
      <3>3. QED
        BY <2>2, <2>5, <3>1, <3>2, Further
    <2>6. CASE phase' = "oops" /\ UNCHANGED <<left, held, missed>> /\ held["cache"] = 0
      <3>1. missed
        BY <1>4, <2>6 DEF CustomInit, Maybe
      <3>2. QED
        BY <2>1, <2>2, <2>6, <3>1, Dies
    <2>7. QED
      BY <2>3, <2>4, <2>5, <2>6
  <1>5. CASE k = 3
    <2>1. StepIs(Insmod, k, "put", "obj")
      BY <1>1, <1>2, <1>5 DEF StepIs, Blocks
    <2>2. SameChain /\ UNCHANGED <<numpg, walked>> /\ SameDump /\ Advance(Insmod, k) /\ Gains("obj", -1)
      BY <2>1, PutMoves, Sizes DEF ChainInv, Blocks
    <2>3. CustomInit(k + 1)'
      BY <1>5, <2>2 DEF CustomInit, Maybe, Gains, Only, One, Blocks
    <2>4. QED
      BY <1>2, <2>2, <2>3, Further DEF InitHeld, SameChain
  <1>6. QED
    BY <1>2, <1>3, <1>4, <1>5

\* ch8/myprac's module_init.
LEMMA MyInits ==
  ASSUME ChainInv, ChainTypeOK', ChainStep, chain = "myprac", phase = "init",
         NEW k \in 1..Len(Insmod), left = From(Insmod, k), MyInit(k)
  PROVE  ChainInv'
  <1>1. /\ Insmod \in Seq(ChainOps) /\ Len(Insmod) = 10
        /\ Insmod[1] = <<"get", "gptr">>
        /\ Insmod[2] = <<"get", "s1">> /\ Insmod[3] = <<"use", "s1">> /\ Insmod[4] = <<"put", "s1">>
        /\ Insmod[5] = <<"get", "s2">> /\ Insmod[6] = <<"use", "s2">> /\ Insmod[7] = <<"put", "s2">>
        /\ Insmod[8] = <<"get", "s3">> /\ Insmod[9] = <<"use", "s3">> /\ Insmod[10] = <<"put", "s3">>
    BY DEF Insmod, Steps, AllocSteps, Get, Put, Once, ChainOps, Blocks
  <1>2. k \in 1..10 /\ Labels[chain] = << >>
    BY <1>1 DEF Labels
  <1>3. CASE k = 1
    <2>1. StepIs(Insmod, k, "get", "gptr")
      BY <1>1, <1>2, <1>3 DEF StepIs, Blocks
    <2>2. SameChain /\ UNCHANGED <<numpg, walked>> /\ SameDump
      BY <2>1, GetFrame
    <2>3. \/ Advance(Insmod, k) /\ Gains("gptr", 1)
          \/ phase' = "unwind" /\ retval' = -1 /\ left' = Unwind("gptr") /\ held' = held
      <3>1. PICK b \in Blocks : b = "gptr"
        BY DEF Blocks
      <3>2. ChainTypeOK /\ b \notin Unseen /\ b # "obj" /\ Size(b) = 1
        BY <3>1, Sizes DEF ChainInv, Unseen
      <3>3. StepIs(Insmod, k, "get", b)
        BY <2>1, <3>1
      <3>4. \/ Advance(Insmod, k) /\ Gains(b, Size(b)) /\ missed' = missed
            \/ Advance(Insmod, k) /\ b \in Unseen /\ held' = held /\ missed' = TRUE
            \/ phase' = "unwind" /\ retval' = -1 /\ left' = Unwind(b) /\ held' = held /\ b \notin Unseen
        BY <3>2, <3>3, GetMoves DEF Unseen
      <3>5. QED
        BY <3>1, <3>2, <3>4
    <2>4. CASE Advance(Insmod, k) /\ Gains("gptr", 1)
      <3>1. MyInit(k + 1)'
        BY <1>3, <2>2, <2>4 DEF MyInit, OnceHeld, Gains, Only, One, Blocks
      <3>2. QED
        BY <1>1, <1>3, <2>2, <2>4, <3>1, Further DEF InitHeld, SameChain
    <2>5. CASE phase' = "unwind" /\ retval' = -1 /\ left' = Unwind("gptr") /\ held' = held
      <3>1. left' = From(Labels[chain], 1) /\ Len(Labels[chain]) = 0
        BY <1>2, <2>5 DEF Label, Unwind, From
      <3>2. UnwindHeld(1)'
        BY <1>3, <2>2, <2>5 DEF MyInit, OnceHeld, UnwindHeld, One, Only, Blocks, SameChain
      <3>3. QED
        BY <2>2, <2>5, <3>1, <3>2, Further
    <2>6. QED
      BY <2>3, <2>4, <2>5
  <1>4. CASE k \in {2, 5, 8}
    <2>1. PICK b \in {"s1", "s2", "s3"} :
            /\ Insmod[k] = <<"get", b>>
            /\ \/ k = 2 /\ b = "s1"
               \/ k = 5 /\ b = "s2"
               \/ k = 8 /\ b = "s3"
      BY <1>1, <1>4
    <2>2. StepIs(Insmod, k, "get", b)
      BY <1>1, <1>2, <2>1 DEF StepIs, Blocks
    <2>3. SameChain /\ UNCHANGED <<numpg, walked>> /\ SameDump
      BY <2>2, GetFrame
    <2>4. /\ Advance(Insmod, k)
          /\ (Gains(b, 1) /\ missed' = missed) \/ (held' = held /\ missed' = TRUE)
      BY <2>1, <2>2, GetMoves, Sizes DEF ChainInv, Unseen, Blocks
    <2>5. MyInit(k + 1)'
      <3>0. held'[b] \in Maybe(1)' /\ \A c \in Blocks \ {b} : held'[c] = held[c]
        <4>1. held[b] = 0
          <5>1. CASE k = 2
            BY <2>1, <5>1 DEF MyInit, OnceHeld
          <5>2. CASE k = 5
            BY <2>1, <5>2 DEF MyInit, OnceHeld
          <5>3. CASE k = 8
            BY <2>1, <5>3 DEF MyInit, OnceHeld
          <5>4. QED
            BY <1>4, <5>1, <5>2, <5>3
        <4>2. QED
          BY <2>1, <2>4, <4>1 DEF Gains, Blocks, Maybe
      <3>1. CASE k = 2
        BY <2>1, <2>3, <3>0, <3>1 DEF MyInit, OnceHeld, Only, One, Blocks
      <3>2. CASE k = 5
        BY <2>1, <2>3, <3>0, <3>2 DEF MyInit, OnceHeld, Only, One, Blocks
      <3>3. CASE k = 8
        BY <2>1, <2>3, <3>0, <3>3 DEF MyInit, OnceHeld, Only, One, Blocks
      <3>4. QED
        BY <1>4, <3>1, <3>2, <3>3
    <2>6. QED
      BY <1>1, <1>4, <2>3, <2>4, <2>5, Further DEF InitHeld, SameChain
  <1>5. CASE k \in {3, 6, 9}
    <2>1. PICK b \in {"s1", "s2", "s3"} :
            /\ Insmod[k] = <<"use", b>>
            /\ \/ k = 3 /\ b = "s1"
               \/ k = 6 /\ b = "s2"
               \/ k = 9 /\ b = "s3"
      BY <1>1, <1>5
    <2>2. StepIs(Insmod, k, "use", b)
      BY <1>1, <1>2, <2>1 DEF StepIs, Blocks
    <2>3. SameChain /\ SameDump /\ held' = held /\ missed' = missed
      BY <2>2, OtherMoves
    <2>4. \/ Advance(Insmod, k) /\ held[b] = 1 /\ UNCHANGED walked
          \/ phase' = "oops" /\ left' = left /\ held[b] = 0
      BY <2>2, OtherMoves
    <2>5. CASE Advance(Insmod, k) /\ held[b] = 1 /\ UNCHANGED walked
      <3>1. MyInit(k + 1)'
        <4>1. CASE k = 3
          BY <2>1, <2>3, <2>5, <4>1 DEF MyInit, OnceHeld, Only, One
        <4>2. CASE k = 6
          BY <2>1, <2>3, <2>5, <4>2 DEF MyInit, OnceHeld, Only, One
        <4>3. CASE k = 9
          BY <2>1, <2>3, <2>5, <4>3 DEF MyInit, OnceHeld, Only, One
        <4>4. QED
          BY <1>5, <4>1, <4>2, <4>3
      <3>2. QED
        BY <1>1, <1>5, <2>3, <2>5, <3>1, Further DEF InitHeld, SameChain
    <2>6. CASE phase' = "oops" /\ left' = left /\ held[b] = 0
      <3>1. missed
        <4>1. CASE k = 3
          BY <2>1, <2>6, <4>1 DEF MyInit, OnceHeld, Maybe
        <4>2. CASE k = 6
          BY <2>1, <2>6, <4>2 DEF MyInit, OnceHeld, Maybe
        <4>3. CASE k = 9
          BY <2>1, <2>6, <4>3 DEF MyInit, OnceHeld, Maybe
        <4>4. QED
          BY <1>5, <4>1, <4>2, <4>3
      <3>2. QED
        BY <2>2, <2>3, <2>6, <3>1, Dies
    <2>7. QED
      BY <2>4, <2>5, <2>6
  <1>6. CASE k \in {4, 7, 10}
    <2>1. PICK b \in {"s1", "s2", "s3"} :
            /\ Insmod[k] = <<"put", b>>
            /\ \/ k = 4 /\ b = "s1"
               \/ k = 7 /\ b = "s2"
               \/ k = 10 /\ b = "s3"
      BY <1>1, <1>6
    <2>2. StepIs(Insmod, k, "put", b)
      BY <1>1, <1>2, <2>1 DEF StepIs, Blocks
    <2>3. SameChain /\ UNCHANGED <<numpg, walked>> /\ SameDump /\ Advance(Insmod, k) /\ Gains(b, -1)
      BY <2>1, <2>2, PutMoves, Sizes DEF ChainInv, Blocks
    <2>4. MyInit(k + 1)'
      <3>0. held'[b] = held[b] - 1 /\ \A c \in Blocks \ {b} : held'[c] = held[c]
        BY <2>1, <2>3 DEF Gains, Blocks, ChainInv, ChainTypeOK
      <3>1. CASE k = 4
        BY <2>1, <2>3, <3>0, <3>1 DEF MyInit, OnceHeld, Only, One, Blocks
      <3>2. CASE k = 7
        BY <2>1, <2>3, <3>0, <3>2 DEF MyInit, OnceHeld, Only, One, Blocks
      <3>3. CASE k = 10
        BY <2>1, <2>3, <3>0, <3>3 DEF MyInit, OnceHeld, Only, One, Blocks
      <3>4. QED
        BY <1>6, <3>1, <3>2, <3>3
    <2>5. QED
      BY <1>1, <1>6, <2>3, <2>4, Further DEF InitHeld, SameChain
  <1>7. QED
    BY <1>2, <1>3, <1>4, <1>5, <1>6

\* Every module's module_init.
LEMMA Inits ==
  ASSUME ChainInv, ChainTypeOK', ChainStep, phase = "init",
         NEW k \in 1..Len(Insmod), left = From(Insmod, k), InitHeld(k)
  PROVE  ChainInv'
  <1>1. chain \in ChainMods
    BY ChainAssumption DEF ChainInv, ChainTypeOK
  <1>2. CASE chain = "lowlevel"
    BY <1>2, LowInits DEF InitHeld
  <1>3. CASE chain = "slab1"
    BY <1>3, SlabInits DEF InitHeld
  <1>4. CASE chain = "vmalloc"
    BY <1>4, VmInits DEF InitHeld
  <1>5. CASE chain = "custom"
    BY <1>5, CustomInits DEF InitHeld
  <1>6. CASE chain = "myprac"
    BY <1>6, MyInits DEF InitHeld
  <1>7. QED
    BY <1>1, <1>2, <1>3, <1>4, <1>5, <1>6 DEF ChainMods

\* What a module holds when block 2 goes back with the order it was got with.
LEMMA Block2Back ==
  ASSUME ChainTypeOK, Block2(TRUE), OrderOK, Gains("gptr2", -Freed("gptr2")), SameChain
  PROVE  Block2(FALSE)'
  <1>1. Pages[order] \in Nat
    BY PagesDefined, ChainAssumption DEF OrderOK
  <1>2. QED
    BY <1>1, Sizes DEF Block2, Gains, Blocks, SameChain

\* What stands under the labels, step by step.
LEMMA LabelSteps ==
  /\ Len(Labels.lowlevel) = 4
  /\ Labels.lowlevel[1] = <<"put", "gptr4">>
  /\ Labels.lowlevel[2] = <<"put", "gptr3">>
  /\ Labels.lowlevel[3] = <<"put", "gptr2">>
  /\ Labels.lowlevel[4] = <<"put", "gptr1">>
  /\ Len(Labels.slab1) = 1
  /\ Labels.slab1[1] = <<"put", "gptr">>
  /\ Len(Labels.vmalloc) = 4
  /\ Labels.vmalloc[1] = <<"put", "kvarr">> /\ Labels.vmalloc[2] = <<"put", "kv">>
  /\ Labels.vmalloc[3] = <<"put", "init">> /\ Labels.vmalloc[4] = <<"put", "rndm">>
  /\ Len(Labels.custom) = 0
  /\ Len(Labels.myprac) = 0
  BY DEF Labels, Put

\* The steps of each module_exit.
LEMMA ExitList ==
  /\ Len(ExitSteps.lowlevel) = 5
  /\ ExitSteps.lowlevel[1] = <<"put", "gptr5">>
  /\ ExitSteps.lowlevel[2] = <<"put", "gptr4">>
  /\ ExitSteps.lowlevel[3] = <<"put", "gptr3">>
  /\ ExitSteps.lowlevel[4] = <<"put", "gptr2">>
  /\ ExitSteps.lowlevel[5] = <<"put", "gptr1">>
  /\ Len(ExitSteps.slab1) = 2
  /\ ExitSteps.slab1[1] = <<"put", "ctx">> /\ ExitSteps.slab1[2] = <<"put", "gptr">>
  /\ Len(ExitSteps.vmalloc) = 4
  /\ ExitSteps.vmalloc[1] = <<"put", "rndm">>
  /\ ExitSteps.vmalloc[2] = <<"put", "init">>
  /\ ExitSteps.vmalloc[3] = <<"put", "kv">>
  /\ ExitSteps.vmalloc[4] = <<"put", "kvarr">>
  /\ Len(ExitSteps.custom) = 1
  /\ ExitSteps.custom[1] = <<"put", "cache">>
  /\ Len(ExitSteps.myprac) = 1
  /\ ExitSteps.myprac[1] = <<"put", "gptr">>
  BY DEF ExitSteps, Labels, Put

\* What stands under the labels gives back what was got, in any of them.
LEMMA Unwinds ==
  ASSUME ChainInv, ChainTypeOK', ChainStep, phase = "unwind",
         NEW k \in 1..Len(Labels[chain]), left = From(Labels[chain], k), UnwindHeld(k)
  PROVE  ChainInv'
  <1>1. chain \in ChainMods /\ Labels[chain] \in Seq(ChainOps)
    BY ChainAssumption, ItsLists DEF ChainInv, ChainTypeOK
  <1>2. PICK b \in Blocks :
          /\ Labels[chain][k] = <<"put", b>>
          /\ \/ chain = "lowlevel" /\ ((k = 1 /\ b = "gptr4") \/ (k = 2 /\ b = "gptr3")
                                       \/ (k = 3 /\ b = "gptr2") \/ (k = 4 /\ b = "gptr1"))
             \/ chain = "slab1" /\ k = 1 /\ b = "gptr"
             \/ chain = "vmalloc" /\ ((k = 1 /\ b = "kvarr") \/ (k = 2 /\ b = "kv")
                                      \/ (k = 3 /\ b = "init") \/ (k = 4 /\ b = "rndm"))
    <2>1. CASE chain = "lowlevel"
      <3>1. k \in 1..4
        BY <2>1, LabelSteps
      <3>2. QED
        BY <2>1, <3>1, LabelSteps DEF Blocks
    <2>2. CASE chain = "slab1"
      BY <1>1, <2>2, LabelSteps DEF Blocks
    <2>3. CASE chain = "vmalloc"
      <3>1. k \in 1..4
        BY <2>3, LabelSteps
      <3>2. QED
        BY <2>3, <3>1, LabelSteps DEF Blocks
    <2>4. CASE chain = "custom"
      BY <1>1, <2>4, LabelSteps DEF Blocks
    <2>5. CASE chain = "myprac"
      BY <1>1, <2>5, LabelSteps DEF Blocks
    <2>6. QED
      BY <1>1, <2>1, <2>2, <2>3, <2>4, <2>5 DEF ChainMods
  <1>3. StepIs(Labels[chain], k, "put", b)
    BY <1>1, <1>2 DEF StepIs
  <1>4. SameChain /\ SameDump /\ missed' = missed
    BY <1>3, PutMoves DEF ChainInv
  <1>5. \/ Advance(Labels[chain], k) /\ Gains(b, -Freed(b)) /\ (b = "gptr2" => OrderOK)
        \/ phase' = "oops" /\ UNCHANGED <<left, held>> /\ b = "gptr2" /\ ~OrderOK
    BY <1>2, <1>3, PutMoves DEF ChainInv
  <1>6. CASE Advance(Labels[chain], k) /\ Gains(b, -Freed(b)) /\ (b = "gptr2" => OrderOK)
    <2>1. UnwindHeld(k + 1)'
      <3>1. CASE b = "gptr2"
        <4>1. Block2(TRUE) /\ ChainTypeOK
          BY <1>2, <3>1 DEF UnwindHeld, Block2, ChainInv
        <4>2. Block2(FALSE)' /\ \A c \in Blocks \ {"gptr2"} : held'[c] = held[c]
          BY <1>4, <1>6, <3>1, <4>1, Block2Back DEF Gains
        <4>3. QED
          BY <1>2, <1>4, <3>1, <4>2 DEF UnwindHeld, Block2, Only, One, Blocks, SameChain
      <3>2. CASE b # "gptr2"
        <4>1. \A c \in Blocks : held'[c] = IF c = b THEN held[c] - 1 ELSE held[c]
          BY <1>2, <1>6, <3>2, Sizes DEF Gains, ChainInv, ChainTypeOK
        <4>2. CASE chain = "lowlevel"
          BY <1>2, <1>4, <3>2, <4>1, <4>2 DEF UnwindHeld, Block2, Only, One, Blocks, SameChain, OrderOK
        <4>3. CASE chain # "lowlevel"
          BY <1>2, <1>4, <4>1, <4>3 DEF UnwindHeld, Only, One, Blocks, SameChain
        <4>4. QED
          BY <4>2, <4>3
      <3>3. QED
        BY <3>1, <3>2
    <2>2. QED
      BY <1>4, <1>6, <2>1, Further
  <1>7. CASE phase' = "oops" /\ UNCHANGED <<left, held>> /\ b = "gptr2" /\ ~OrderOK
    <2>1. chain = "lowlevel" /\ rewritten
      BY <1>2, <1>7 DEF UnwindHeld, Block2
    <2>2. QED
      BY <1>3, <1>4, <1>7, <2>1, Dies
  <1>8. QED
    BY <1>5, <1>6, <1>7

\* So does module_exit, but for lowlevel_mem's block 5.
LEMMA Exits ==
  ASSUME ChainInv, ChainTypeOK', ChainStep, phase = "exit",
         NEW k \in 1..Len(ExitSteps[chain]), left = From(ExitSteps[chain], k), ExitHeld(k)
  PROVE  ChainInv'
  <1>1. chain \in ChainMods /\ ExitSteps[chain] \in Seq(ChainOps)
    BY ChainAssumption, ItsLists DEF ChainInv, ChainTypeOK
  <1>2. PICK b \in Blocks :
          /\ ExitSteps[chain][k] = <<"put", b>>
          /\ \/ chain = "lowlevel" /\ ((k = 1 /\ b = "gptr5") \/ (k = 2 /\ b = "gptr4")
                                       \/ (k = 3 /\ b = "gptr3") \/ (k = 4 /\ b = "gptr2")
                                       \/ (k = 5 /\ b = "gptr1"))
             \/ chain = "slab1" /\ ((k = 1 /\ b = "ctx") \/ (k = 2 /\ b = "gptr"))
             \/ chain = "vmalloc" /\ ((k = 1 /\ b = "rndm") \/ (k = 2 /\ b = "init")
                                      \/ (k = 3 /\ b = "kv") \/ (k = 4 /\ b = "kvarr"))
             \/ chain = "custom" /\ (k = 1 /\ b = "cache")
             \/ chain = "myprac" /\ (k = 1 /\ b = "gptr")
    <2>1. CASE chain = "lowlevel"
      <3>1. k \in 1..5
        BY <2>1, ExitList
      <3>2. QED
        BY <2>1, <3>1, ExitList DEF Blocks
    <2>2. CASE chain = "slab1"
      <3>1. k \in 1..2
        BY <2>2, ExitList
      <3>2. QED
        BY <2>2, <3>1, ExitList DEF Blocks
    <2>3. CASE chain = "vmalloc"
      <3>1. k \in 1..4
        BY <2>3, ExitList
      <3>2. QED
        BY <2>3, <3>1, ExitList DEF Blocks
    <2>4. CASE chain = "custom"
      BY <1>1, <2>4, ExitList DEF Blocks
    <2>5. CASE chain = "myprac"
      BY <1>1, <2>5, ExitList DEF Blocks
    <2>6. QED
      BY <1>1, <2>1, <2>2, <2>3, <2>4, <2>5 DEF ChainMods
  <1>3. StepIs(ExitSteps[chain], k, "put", b)
    BY <1>1, <1>2 DEF StepIs
  <1>4. SameChain /\ SameDump /\ missed' = missed
    BY <1>3, PutMoves DEF ChainInv
  <1>5. \/ Advance(ExitSteps[chain], k) /\ Gains(b, -Freed(b)) /\ (b = "gptr2" => OrderOK)
        \/ /\ phase' = "oops" /\ UNCHANGED <<left, held>>
           /\ \/ b = "gptr2" /\ ~OrderOK
              \/ b = "gptr5" /\ held[b] = 0
    BY <1>2, <1>3, PutMoves DEF ChainInv
  <1>6. CASE Advance(ExitSteps[chain], k) /\ Gains(b, -Freed(b)) /\ (b = "gptr2" => OrderOK)
    <2>1. ExitHeld(k + 1)'
      <3>1. CASE b = "gptr2"
        <4>1. Block2(TRUE) /\ ChainTypeOK
          BY <1>2, <3>1 DEF ExitHeld, Block2, ChainInv
        <4>2. Block2(FALSE)' /\ \A c \in Blocks \ {"gptr2"} : held'[c] = held[c]
          BY <1>4, <1>6, <3>1, <4>1, Block2Back DEF Gains
        <4>3. QED
          BY <1>2, <1>4, <3>1, <4>2 DEF ExitHeld, Block2, Only, One, Blocks, SameChain
      <3>2. CASE b = "gptr5"
        <4>1. \A c \in Blocks : held'[c] = IF c = b THEN held[c] - 8 ELSE held[c]
          BY <1>2, <1>6, <3>2, Sizes DEF Gains, ChainInv, ChainTypeOK
        <4>2. QED
          BY <1>2, <1>4, <3>2, <4>1 DEF ExitHeld, Block2, Only, One, Maybe, Blocks, SameChain, OrderOK
      <3>3. CASE b \notin {"gptr2", "gptr5"}
        <4>1. \A c \in Blocks : held'[c] = IF c = b THEN held[c] - 1 ELSE held[c]
          BY <1>2, <1>6, <3>3, Sizes DEF Gains, ChainInv, ChainTypeOK
        <4>2. CASE chain = "lowlevel"
          <5>1. CASE b = "gptr4"
            BY <1>2, <1>4, <4>1, <4>2, <5>1 DEF ExitHeld, Block2, Only, One, Blocks, SameChain, OrderOK
          <5>2. CASE b = "gptr3"
            BY <1>2, <1>4, <4>1, <4>2, <5>2 DEF ExitHeld, Block2, Only, One, Blocks, SameChain, OrderOK
          <5>3. CASE b = "gptr1"
            BY <1>2, <1>4, <4>1, <4>2, <5>3 DEF ExitHeld, Block2, Only, One, Blocks, SameChain, OrderOK
          <5>4. QED
            BY <1>2, <3>3, <4>2, <5>1, <5>2, <5>3
        <4>3. CASE chain # "lowlevel"
          BY <1>2, <1>4, <4>1, <4>3 DEF ExitHeld, Only, One, Blocks, SameChain
        <4>4. QED
          BY <4>2, <4>3
      <3>4. QED
        BY <3>1, <3>2, <3>3
    <2>2. QED
      BY <1>4, <1>6, <2>1, Further
  <1>7. CASE /\ phase' = "oops" /\ UNCHANGED <<left, held>>
             /\ \/ b = "gptr2" /\ ~OrderOK
                \/ b = "gptr5" /\ held[b] = 0
    <2>1. rewritten \/ missed
      BY <1>2, <1>7 DEF ExitHeld, Block2, Maybe
    <2>2. QED
      BY <1>3, <1>4, <1>7, <2>1, Dies
  <1>8. QED
    BY <1>5, <1>6, <1>7

\* The end of a list, or of the module's life in the kernel.
LEMMA Ends ==
  ASSUME ChainInv, ChainTypeOK', Finished
  PROVE  ChainInv'
  <1> USE DEF Finished, SameChain, SameDump, DumpInside
  <1>1. chain \in ChainMods /\ Insmod' = Insmod
    BY ChainAssumption DEF ChainInv, ChainTypeOK, Insmod
  <1>2. ASSUME NEW p \in Seq(ChainOps), NEW k \in 1..Len(p) + 1, left = From(p, k)
        PROVE  k = Len(p) + 1
    BY <1>2, FromSteps
  <1>3. CASE phase = "init"
    <2>1. InitHeld(Len(Insmod) + 1)
      BY <1>2, <1>3, ItsLists DEF ChainInv
    <2>2. PICK n : n = Len(Insmod) + 1
      OBVIOUS
    <2>3. InitHeld(n)'
      BY <2>1, <2>2 DEF InitHeld, LowInit, SlabInit, VmInit, CustomInit, MyInit, OnceHeld,
                        Maybe, Only, Block2, OrderOK
    <2>4. InitHeld(Len(Insmod) + 1)'
      BY <1>1, <2>2, <2>3
    <2>5. QED
      BY <1>3, <2>4 DEF ChainInv, NothingHeld
  <1>4. CASE phase = "unwind"
    <2>1. UnwindHeld(Len(Labels[chain]) + 1) /\ retval = -1
      BY <1>2, <1>4, ItsLists DEF ChainInv
    <2>2. \A b \in Blocks : held[b] = 0 \/ (b = "gptr2" /\ rewritten) \/ b = "cache"
      <3>1. CASE chain = "lowlevel"
        BY <2>1, <3>1, LabelSteps DEF UnwindHeld, Only, One, Block2
      <3>2. CASE chain = "slab1"
        BY <2>1, <3>2, LabelSteps DEF UnwindHeld, Only, One, Block2
      <3>3. CASE chain = "vmalloc"
        BY <2>1, <3>3, LabelSteps DEF UnwindHeld, Only, One, Block2
      <3>4. CASE chain = "custom"
        BY <2>1, <3>4, LabelSteps DEF UnwindHeld, Only, One, Block2
      <3>5. CASE chain = "myprac"
        BY <2>1, <3>5, LabelSteps DEF UnwindHeld, Only, One, Block2
      <3>6. QED
        BY <1>1, <3>1, <3>2, <3>3, <3>4, <3>5 DEF ChainMods
    <2>3. QED
      BY <1>4, <2>1, <2>2 DEF ChainInv, NothingHeld
  <1>5. CASE phase = "exit"
    <2>1. ExitHeld(Len(ExitSteps[chain]) + 1) /\ retval = 0
      BY <1>2, <1>5, ItsLists DEF ChainInv
    <2>2. \A b \in Blocks : \/ held[b] = 0 \/ (b = "gptr2" /\ rewritten)
                            \/ b = "gptr5" /\ held[b] \in {24, -8}
      <3>1. CASE chain = "lowlevel"
        BY <2>1, <3>1, ExitList DEF ExitHeld, Only, One, Block2
      <3>2. CASE chain = "slab1"
        BY <2>1, <3>2, ExitList DEF ExitHeld, Only, One, Block2
      <3>3. CASE chain = "vmalloc"
        BY <2>1, <3>3, ExitList DEF ExitHeld, Only, One, Block2
      <3>4. CASE chain = "custom"
        BY <2>1, <3>4, ExitList DEF ExitHeld, Only, One, Block2
      <3>5. CASE chain = "myprac"
        BY <2>1, <3>5, ExitList DEF ExitHeld, Only, One, Block2
      <3>6. QED
        BY <1>1, <3>1, <3>2, <3>3, <3>4, <3>5 DEF ChainMods
    <2>3. QED
      BY <1>5, <2>1, <2>2 DEF ChainInv, NothingHeld
  <1>6. QED
    BY <1>3, <1>4, <1>5

\* insmod of any of them, rmmod, and a parameter written meanwhile.
LEMMA OtherChainSteps ==
  ASSUME ChainInv, ChainTypeOK', ChainInsert \/ ChainRemove \/ SetOrder \/ SetKvnum
  PROVE  ChainInv'
  <1>1. chain \in ChainMods /\ Insmod \in Seq(ChainOps) /\ ExitSteps[chain] \in Seq(ChainOps)
    BY ChainAssumption, ItsLists DEF ChainInv, ChainTypeOK
  <1>2. CASE ChainInsert
    <2>1. /\ phase' = "init" /\ walked' = 0 /\ retval' = 0 /\ rewritten' = FALSE /\ dumped' = 0
          /\ held' = [b \in Blocks |-> 0] /\ left' = Insmod'
      BY <1>2 DEF ChainInsert, Insmod
    <2>2. Insmod' \in Seq(ChainOps)
      BY ChainAssumption, Lists DEF ChainTypeOK, Insmod
    <2>3. left' = From(Insmod', 1) /\ 1 \in 1..Len(Insmod') + 1
      BY <2>1, <2>2, FromSteps
    <2>4. \A b \in Blocks : held'[b] = 0
      BY <2>1
    <2>5. InitHeld(1)'
      BY <2>1, <2>4 DEF InitHeld, LowInit, SlabInit, VmInit, CustomInit, MyInit, OnceHeld,
                        Only, Block2, One, Blocks
    <2>6. QED
      BY <2>1, <2>3, <2>5 DEF ChainInv, NothingHeld, DumpInside
  <1>3. CASE ChainRemove
    <2>1. /\ InitHeld(Len(Insmod) + 1) /\ retval = 0 /\ SameChain /\ SameDump
          /\ held' = held /\ missed' = missed
          /\ phase' = "exit" /\ retval' = retval /\ left' = ExitSteps[chain] /\ chain' = chain
      BY <1>3 DEF ChainRemove, ChainInv, SameChain
    <2>2. left' = From(ExitSteps[chain'], 1) /\ 1 \in 1..Len(ExitSteps[chain']) + 1
      BY <1>1, <2>1, FromSteps
    <2>3. ExitHeld(1)
      <3>1. CASE chain = "lowlevel"
        <4>1. Len(Insmod) = 7
          BY <3>1 DEF Insmod, Steps, AllocSteps
        <4>2. LowInit(8)
          BY <2>1, <3>1, <4>1 DEF InitHeld
        <4>3. QED
          BY <3>1, <4>2 DEF LowInit, ExitHeld, Block2, Only, One
      <3>2. CASE chain = "slab1"
        <4>1. Len(Insmod) = 2
          BY <3>2 DEF Insmod, Steps, AllocSteps
        <4>2. SlabInit(3)
          BY <2>1, <3>2, <4>1 DEF InitHeld
        <4>3. QED
          BY <3>2, <4>2 DEF SlabInit, ExitHeld, Only, One
      <3>3. CASE chain = "vmalloc"
        <4>1. Len(Insmod) = 6 \/ Len(Insmod) = 8
          BY <3>3 DEF Insmod, Steps, AllocSteps
        <4>2. VmInit(7)
          <5> DEFINE n == Len(Insmod) + 1
          <5>1. n = 7 \/ n = 9
            <6>1. 6 + 1 = 7 /\ 8 + 1 = 9
              OBVIOUS
            <6>2. QED
              BY <4>1, <6>1, Zenon
          <5>2. VmInit(n)
            BY <2>1, <3>3 DEF InitHeld
          <5> HIDE DEF n
          <5>3. n # 9
            BY <5>2 DEF VmInit
          <5>4. n = 7
            BY <5>1, <5>3
          <5>5. QED
            BY <5>2, <5>4
        <4>3. QED
          BY <3>3, <4>2 DEF VmInit, ExitHeld, Only, One, Blocks
      <3>4. CASE chain = "custom"
        <4>1. Len(Insmod) = 3
          BY <3>4 DEF Insmod, Steps, AllocSteps
        <4>2. CustomInit(4)
          BY <2>1, <3>4, <4>1 DEF InitHeld
        <4>3. QED
          BY <3>4, <4>2 DEF CustomInit, ExitHeld, Only, One, Blocks
      <3>5. CASE chain = "myprac"
        <4>1. Len(Insmod) = 10
          BY <3>5 DEF Insmod, Steps, AllocSteps, Once
        <4>2. MyInit(11)
          BY <2>1, <3>5, <4>1 DEF InitHeld
        <4>3. held["gptr"] = 1 /\ held["s1"] = 0 /\ held["s2"] = 0 /\ held["s3"] = 0
          BY <4>2 DEF MyInit, OnceHeld, One
        <4>4. QED
          BY <3>5, <4>2, <4>3 DEF MyInit, ExitHeld, Only, One, Blocks
      <3>6. QED
        BY <1>1, <3>1, <3>2, <3>3, <3>4, <3>5 DEF ChainMods
    <2>4. ExitHeld(1)'
      BY <2>1, <2>3 DEF ExitHeld, Maybe, Only, Block2, OrderOK, SameChain
    <2>5. QED
      BY <2>1, <2>2, <2>4 DEF ChainInv, NothingHeld, DumpInside, SameChain, SameDump
  <1>4. CASE SetOrder \/ SetKvnum
    <2>1. /\ UNCHANGED <<chain, pre58, phase, left, held, numpg, walked, retval, missed>>
          /\ UNCHANGED <<kvsize, dumped>>
          /\ rewritten' = TRUE /\ phase \notin {"out", "oops"}
          /\ Insmod' = Insmod
      BY <1>4 DEF SetOrder, SetKvnum, Insmod, SameDump
    <2>2. ASSUME NEW k, InitHeld(k) PROVE InitHeld(k)'
      BY <2>1, <2>2 DEF InitHeld, LowInit, SlabInit, VmInit, CustomInit, MyInit, OnceHeld,
                        Maybe, Only, Block2
    <2>3. ASSUME NEW k, UnwindHeld(k) PROVE UnwindHeld(k)'
      BY <2>1, <2>3 DEF UnwindHeld, Only, Block2
    <2>4. ASSUME NEW k, ExitHeld(k) PROVE ExitHeld(k)'
      BY <2>1, <2>4 DEF ExitHeld, Maybe, Only, Block2
    <2>5. CASE phase = "live"
      <3>1. PICK n : n = Len(Insmod) + 1
        OBVIOUS
      <3>2. InitHeld(n)
        BY <2>5, <3>1 DEF ChainInv
      <3>3. InitHeld(Len(Insmod) + 1)'
        BY <2>1, <2>2, <3>1, <3>2
      <3>4. QED
        BY <2>1, <2>5, <3>3 DEF ChainInv, NothingHeld, DumpInside
    <2>6. CASE phase # "live"
      BY <2>1, <2>2, <2>3, <2>4, <2>6 DEF ChainInv, NothingHeld, DumpInside
    <2>7. QED
      BY <2>5, <2>6
  <1>5. QED
    BY <1>2, <1>3, <1>4

\* The invariant holds wherever a module is in its lists.
LEMMA ChainHolds ==
  ASSUME ChainInv, ChainTypeOK', [ChainNext]_chainvars
  PROVE  ChainInv'
  <1>1. CASE ChainStep
    <2>1. CASE Finished
      BY <2>1, Ends
    <2>2. CASE ~Finished
      <3>1. phase \in {"init", "unwind", "exit"} /\ left # << >>
        <4>1. left # << >>
          BY <1>1, <2>2 DEF ChainStep, Got, Failed, FailedUnseen, Faults, Used, GiveBack,
                            CountPages, ShowPhyPages, CheckKvnum, Doing
        <4>2. phase # "oops" /\ phase # "live"
          BY <1>1, <4>1 DEF ChainStep, ChainInv
        <4>3. phase # "out"
          BY <4>1 DEF ChainInv
        <4>4. QED
          BY <4>1, <4>2, <4>3 DEF ChainInv, ChainTypeOK
      <3>2. ASSUME NEW p \in Seq(ChainOps), NEW k \in 1..Len(p) + 1, left = From(p, k)
            PROVE  k \in 1..Len(p)
        BY <3>1, <3>2, FromSteps
      <3>3. Insmod \in Seq(ChainOps) /\ Labels[chain] \in Seq(ChainOps) /\ ExitSteps[chain] \in Seq(ChainOps)
        BY ItsLists DEF ChainInv
      <3>4. CASE phase = "init"
        <4>1. PICK k \in 1..Len(Insmod) + 1 : left = From(Insmod, k) /\ InitHeld(k)
          BY <3>4 DEF ChainInv
        <4>2. k \in 1..Len(Insmod)
          BY <3>2, <3>3, <4>1
        <4>3. QED
          BY <1>1, <3>4, <4>1, <4>2, Inits
      <3>5. CASE phase = "unwind"
        <4>1. PICK k \in 1..Len(Labels[chain]) + 1 : left = From(Labels[chain], k) /\ UnwindHeld(k)
          BY <3>5 DEF ChainInv
        <4>2. k \in 1..Len(Labels[chain])
          BY <3>2, <3>3, <4>1
        <4>3. QED
          BY <1>1, <3>5, <4>1, <4>2, Unwinds
      <3>6. CASE phase = "exit"
        <4>1. PICK k \in 1..Len(ExitSteps[chain]) + 1 : left = From(ExitSteps[chain], k) /\ ExitHeld(k)
          BY <3>6 DEF ChainInv
        <4>2. k \in 1..Len(ExitSteps[chain])
          BY <3>2, <3>3, <4>1
        <4>3. QED
          BY <1>1, <3>6, <4>1, <4>2, Exits
      <3>7. QED
        BY <3>1, <3>4, <3>5, <3>6
    <2>3. QED
      BY <2>1, <2>2
  <1>2. CASE UNCHANGED chainvars
    <2>1. /\ UNCHANGED <<chain, pre58, order, kvnum, phase, left, held, numpg, walked, retval, rewritten>>
          /\ UNCHANGED <<kvsize, dumped, missed>>
      BY <1>2 DEF chainvars
    <2>2. (\A k : InitHeld(k)' = InitHeld(k)) /\ Insmod' = Insmod
      BY <2>1 DEF InitHeld, LowInit, SlabInit, VmInit, CustomInit, MyInit, OnceHeld, Maybe, Only, Block2,
                  OrderOK, Insmod
    <2>3. \A k : UnwindHeld(k)' = UnwindHeld(k) /\ ExitHeld(k)' = ExitHeld(k)
      BY <2>1 DEF UnwindHeld, ExitHeld, Maybe, Only, Block2, OrderOK
    <2>4. NothingHeld' = NothingHeld /\ TouchesHeld' = TouchesHeld /\ DumpInside' = DumpInside
      BY <2>1 DEF NothingHeld, TouchesHeld, DumpInside, Doing
    <2>5. QED
      BY <2>1, <2>2, <2>3, <2>4 DEF ChainInv
  <1>3. QED
    BY <1>1, <1>2, OtherChainSteps DEF ChainNext

\* What the two properties say follows.
LEMMA ChainImplies ==
  ASSUME ChainInv
  PROVE  NothingHeld /\ TouchesHeld
  <1>1. CASE phase = "oops"
    BY <1>1 DEF ChainInv
  <1>2. CASE phase \in {"init", "live"} /\ walked > 0 /\ ~rewritten
    <2>1. PICK k \in Nat : InitHeld(k) /\ k \in 1..Len(Insmod) + 1
      BY <1>2, ItsLists DEF ChainInv
    <2>2. chain \in ChainMods /\ order \in Int
      BY ChainAssumption DEF ChainInv, ChainTypeOK
    <2>3. chain = "lowlevel"
      <3>1. walked # 0
        BY <1>2
      <3>2. chain # "slab1" /\ chain # "vmalloc"
        BY <2>1, <3>1 DEF InitHeld, SlabInit, VmInit
      <3>3. chain # "custom" /\ chain # "myprac"
        BY <2>1, <3>1 DEF InitHeld, CustomInit, MyInit
      <3>4. QED
        BY <2>2, <3>2, <3>3 DEF ChainMods
    <2>4. /\ k > 4 /\ walked = numpg /\ numpg = powerof(2, order)
          /\ OrderOK /\ held["gptr2"] = Pages[order]
      BY <1>2, <2>1, <2>3 DEF InitHeld, LowInit, Block2
    <2>5. QED
      BY <1>2, <2>4, PowerofPages DEF TouchesHeld, DumpInside, OrderOK, ChainInv
  <1>3. CASE phase # "oops" /\ ~(phase \in {"init", "live"} /\ walked > 0 /\ ~rewritten)
    BY <1>3 DEF ChainInv, TouchesHeld, DumpInside
  <1>4. QED
    BY <1>1, <1>2, <1>3

-----------------------------------------------------------------------------
(* All of them *)

SoloInv ==
  /\ kind \in Kinds
  /\ PairInv /\ PcpInv /\ LockTypeOK /\ plan \in [Threads -> Plans]
  /\ PowerInv /\ EchoTypeOK /\ ChainInv /\ ProbeTypeOK /\ BitInv /\ ClientTypeOK

\* Every program starts as it is before it is inserted.
LEMMA SoloStart ==
  ASSUME SoloInit
  PROVE  SoloInv
  <1> USE DEF SoloInit
  <1>1. PairInv
    BY PairAssumption DEF Init, PairInit, PairInv, PairTypeOK, GoneAlone, Threads, Cpus
  <1>2. PcpInv
    BY FreshInv DEF Init
  <1>3. LockTypeOK /\ plan \in [Threads -> Plans]
    BY PlanTypes DEF Init, LockFresh, Undecided, LockTypeOK, Plans
  <1>4. PowerInv
    BY DEF PowerInit, PowerInv, PowerTypeOK, SerialToggles
  <1>5. EchoTypeOK
    BY DEF EchoInit, Nobody, EchoTypeOK
  <1>6. ChainInv
    <2>1. chain \in Chains /\ order \in Orders /\ kvnum \in KvNums /\ 0 \in 0..U64-1
      BY ChainAssumption DEF ChainInit, AnyOrder, AnyKvnum
    <2>2. held \in [Blocks -> Int]
      BY DEF ChainInit
    <2>3. /\ pre58 = TRUE /\ phase = "out" /\ numpg = 0 /\ walked = 0 /\ retval = 0
          /\ rewritten = FALSE /\ kvsize = 0 /\ dumped = 0 /\ missed = FALSE
      BY DEF ChainInit
    <2>4. ChainTypeOK
      BY <2>1, <2>2, <2>3 DEF ChainTypeOK
    <2>5. NothingHeld /\ left = << >>
      BY DEF ChainInit, NothingHeld
    <2>6. QED
      BY <2>3, <2>4, <2>5 DEF ChainInv, DumpInside
  <1>7. ProbeTypeOK
    BY ProbeAssumption DEF ProbeInit, ProbeTypeOK, START
  <1>8. BitInv
    BY DEF BitInit, BitInv, BitTypeOK, After
  <1>9. ClientTypeOK
    BY SecretAssumption DEF ClientInit, ClientTypeOK
  <1>10. QED
    BY <1>1, <1>2, <1>3, <1>4, <1>5, <1>6, <1>7, <1>8, <1>9 DEF SoloInv

\* Each program's step is its own, and leaves the others alone.
LEMMA SoloSteps ==
  ASSUME SoloInv, [SoloNext]_solovars
  PROVE  SoloInv'
  <1>1. /\ kind' = kind
        /\ [Next]_vars /\ [PowerNext]_powervars /\ [EchoNext]_echovars
        /\ [ChainNext]_chainvars /\ [ProbeNext]_probevars /\ [BitNext]_bitvars
        /\ [ClientNext]_clientvars
    BY DEF SoloNext, solovars
  <1>2. PairInv' /\ PcpInv' /\ LockTypeOK' /\ (plan \in [Threads -> Plans])'
    BY <1>1, FrameSteps, PairSteps, PcpSteps, LockSteps DEF SoloInv
  <1>3. PowerInv' /\ EchoTypeOK' /\ ChainInv'
    <2>1. ChainInv /\ ChainTypeOK
      BY DEF SoloInv, ChainInv
    <2>2. ChainInv'
      BY <1>1, <2>1, ChainSteps, ChainHolds
    <2>3. QED
      BY <1>1, <2>2, PowerSteps, EchoSteps DEF SoloInv
  <1>4. ProbeTypeOK' /\ BitInv' /\ ClientTypeOK'
    BY <1>1, ProbeSteps, BitSteps, ClientSteps DEF SoloInv
  <1>5. QED
    BY <1>1, <1>2, <1>3, <1>4 DEF SoloInv

\* The invariant holds in every state of a program.
LEMMA SoloInvariant == SoloSpec => []SoloInv
  <1>1. SoloInit => SoloInv
    BY SoloStart
  <1>2. SoloInv /\ [SoloNext]_solovars => SoloInv'
    BY SoloSteps
  <1>3. QED
    BY <1>1, <1>2, PTL DEF SoloSpec

\* Every variable has its type; among them, what powerof() computes by its loop
\* is a u64 for every exponent.
THEOREM TypesCorrect == SoloSpec => []SoloTypeOK
  <1>1. SoloInv => SoloTypeOK
    BY PcpImplies DEF SoloInv, SoloTypeOK, TypeOK, PairInv, PowerInv, ChainInv, BitInv
  <1>2. QED
    BY <1>1, SoloInvariant, PTL

\* No toggle of the device is lost unless a client sets a state that another has
\* set since it asked, for any number of clients.
THEOREM TogglesCorrect == SoloSpec => []SerialToggles
  <1>1. SoloInv => SerialToggles
    BY DEF SoloInv, PowerInv
  <1>2. QED
    BY <1>1, SoloInvariant, PTL

\* When a thread demo is out, no thread is left to run its code.
THEOREM ThreadsGone == SoloSpec => []GoneAlone
  <1>1. SoloInv => GoneAlone
    BY DEF SoloInv, PairInv
  <1>2. QED
    BY <1>1, SoloInvariant, PTL

\* The per-cpu counters are exact without a lock, for any number of iterations.
THEOREM CountersExact == SoloSpec => []PerCpuExact
  <1>1. SoloInv => PerCpuExact
    BY PcpImplies DEF SoloInv
  <1>2. QED
    BY <1>1, SoloInvariant, PTL

\* When a module is out, whatever its parameters were and whichever allocation
\* failed, all it was given has gone back, but for the three blocks that do not.
THEOREM AllGivenBack == SoloSpec => []NothingHeld
  <1>1. SoloInv => NothingHeld
    BY ChainImplies DEF SoloInv
  <1>2. QED
    BY <1>1, SoloInvariant, PTL

\* The modules touch what they hold: while nobody writes a parameter,
\* show_phy_pages() walks as many pages as the block has, because powerof() computes
\* 2^order, and the dump of kv stays inside it, because kvnum was tested; and a module
\* in which no unseen allocation has failed either does not fault.
THEOREM HeldWhenTouched == SoloSpec => []TouchesHeld
  <1>1. SoloInv => TouchesHeld
    BY ChainImplies DEF SoloInv
  <1>2. QED
    BY <1>1, SoloInvariant, PTL

\* The read-modify-write through a byte leaves the word as set_bit() has left it,
\* for words of every width.
THEOREM EitherWay == SoloSpec => SameEitherWay
  <1>1. SoloInv /\ [SoloNext]_solovars => [bits = 2 /\ BitStep => mem' = mem]_bitvars
    <2>1. SUFFICES ASSUME SoloInv, [SoloNext]_solovars, bits = 2, BitStep PROVE mem' = mem
      OBVIOUS
    <2>2. QED
      BY <2>1, BitSteps DEF SoloInv, SoloNext, solovars
  <1>2. QED
    BY <1>1, SoloInvariant, PTL DEF SoloSpec, SameEitherWay
=============================================================================
