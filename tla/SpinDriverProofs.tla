-------------------------- MODULE SpinDriverProofs --------------------------
(***************************************************************************)
(* Theorems about SpinDriver, for every number of processes and of         *)
(* processors, every buffer size and every set of requests, and whether or *)
(* not the module was loaded with `buggy'.                                 *)
(***************************************************************************)
EXTENDS SpinDriver, TwoLockProofs

-----------------------------------------------------------------------------
(* Invariants *)

Lock1Section == {"o_ga", "o_gb", "c_ga", "c_gb"}

\* lock1 is held by the process inside its section, and by no other.
Lock1Held == \A p \in Procs : pc[p] \in Lock1Section <=> lock1 = p

\* Nobody is in a driver that is not there, or that was left half-inserted.
Life == mod # "live" => Unused

\* open() runs on a closed descriptor and close() on an open one.
FilesHeld ==
  \A p \in Procs : /\ pc[p] \in {"o_lock", "o_ga", "o_gb"} => ~file[p]
                   /\ pc[p] \in {"c_lock", "c_ga", "c_gb"} => file[p]

\* A process is counted in ga from its ga++ in open() to its ga-- in close().
InGa == {p \in Procs : \/ file[p] /\ pc[p] # "c_gb"
                       \/ pc[p] = "o_gb"}

\* Between ga and gb the sum is one off, by the holder's half-done change.
SumHeld ==
  /\ lock1 = NoOwner => ga + gb = 1
  /\ \A p \in Procs : /\ pc[p] \in {"o_ga", "c_ga"} => ga + gb = 1
                      /\ pc[p] = "o_gb" => ga + gb = 2
                      /\ pc[p] = "c_gb" => ga + gb = 0

CounterInv ==
  /\ Lock1Held
  /\ FilesHeld
  /\ mod = "live" => SumHeld /\ ga = Cardinality(InGa)

IInv == TypeOK /\ SecretInv /\ Life /\ CounterInv

-----------------------------------------------------------------------------
(* The steps *)

\* A step of read(), write(), and of the way into and out of a call leaves what
\* open() and close() count as it was.
LEMMA CounterNeutral ==
  ASSUME IInv, TypeOK', NEW p \in Procs, NEW from, NEW to, Go(p, from, to),
         UNCHANGED <<drvvars, file>>,
         from \notin Lock1Section, to \notin Lock1Section,
         to = "o_lock" => ~file[p],
         to = "c_lock" => file[p]
  PROVE  CounterInv'
  <1> USE DEF IInv, CounterInv, Lock1Section, drvvars
  <1>0. pc \in [Procs -> Places] /\ pc[p] = from /\ pc' = [pc EXCEPT ![p] = to]
    BY DEF TypeOK, SecretTypeOK, Go
  <1>1. InGa' = InGa
    BY <1>0 DEF InGa
  <1>2. Lock1Held' /\ FilesHeld'
    BY <1>0 DEF Lock1Held, FilesHeld
  <1>3. SumHeld => SumHeld'
    BY <1>0 DEF SumHeld
  <1>4. QED
    BY <1>1, <1>2, <1>3

\* insmod and rmmod: nobody is in the driver, so a fresh one has fresh locks.
LEMMA ModuleSteps ==
  ASSUME IInv, Insert \/ Remove
  PROVE  IInv'
  <1> USE TwoLockAssumption DEF IInv
  <1>0. Unused
    BY DEF Insert, Remove, Life
  <1>1. UNCHANGED <<cpus, lock1, pc, file, callvars>>
    BY DEF Insert, Remove
  <1>2. SecretInv'
    <2>1. CASE Insert
      BY <1>0, <1>1, <2>1, FreshKeeps DEF Insert, Unused, TypeOK
    <2>2. CASE Remove
      BY <1>1, <2>2
      DEF Remove, SecretInv, SecretTypeOK, LocksHeld, StatsExact, SecretWhole,
          WriterKnows, ReaderKnows, ctxvars, callvars
    <2>3. QED
      BY <2>1, <2>2
  <1>3. TypeOK'
    BY <1>2 DEF Insert, Remove, TypeOK, SecretInv
  <1>4. Life' /\ Lock1Held' /\ FilesHeld'
    BY <1>0, <1>1 DEF Life, Unused, CounterInv, Lock1Held, FilesHeld, Lock1Section
  <1>5. mod' = "live" => SumHeld' /\ ga' = Cardinality(InGa')
    <2>1. InGa' = {}
      BY <1>0, <1>1 DEF InGa, Unused
    <2>2. ASSUME mod' = "live" PROVE ga' = 0 /\ gb' = 1
      BY <2>2 DEF Insert, Remove
    <2>3. QED
      BY <1>0, <1>1, <2>1, <2>2, FS_EmptySet DEF SumHeld, Unused
  <1>6. QED
    BY <1>2, <1>3, <1>4, <1>5 DEF CounterInv

\* A step that stays outside both sections of the context.
LEMMA OutsideSecret ==
  ASSUME IInv, NEW p \in Procs, NEW from, NEW to \in Places, Go(p, from, to),
         from \notin SpinSection \cup MtxSection, to \notin SpinSection \cup MtxSection,
         file' \in [Procs -> BOOLEAN], out' \in [Procs -> Outcomes],
         UNCHANGED <<ctxvars, req, slen, got, reg>>
  PROVE  SecretInv'
  <1>1. SecretTypeOK'
    BY GoTypes DEF IInv, TypeOK
  <1>2. QED
    BY <1>1, SecretNeutral DEF IInv

\* The calls a process may begin.
LEMMA BeginSteps ==
  ASSUME IInv, NEW p \in Procs, Calls(p)
  PROVE  IInv'
  <1> USE DEF IInv
  <1>0. file \in [Procs -> BOOLEAN] /\ out \in [Procs -> Outcomes]
    BY DEF TypeOK, SecretTypeOK
  <1>1. PICK to \in {"o_lock", "c_lock", "r_len", "w_spin", "show", "done"} :
          Go(p, "idle", to) /\ (IF to = "o_lock" THEN ~file[p] ELSE file[p])
    BY DEF Calls, SecretCalls, Open, Close, Read, Write, WriteFails, Finish
  <1>2. UNCHANGED <<drvvars, file>> /\ mod = "live"
    <2>1. CASE Open(p)
      BY <2>1 DEF Open
    <2>2. CASE ~Open(p)
      BY <1>1, <2>2 DEF Calls, SecretCalls, Close, Read, Write, WriteFails, Life, Unused
    <2>3. QED
      BY <2>1, <2>2
  <1>3. SecretInv'
    <2>1. CASE Open(p) \/ Close(p)
      BY <1>0, <1>1, <1>2, <2>1, OutsideSecret
      DEF Open, Close, callvars, Places, Pinned, SpinSection, MtxSection
    <2>2. CASE SecretCalls(p)
      BY <2>2, CallTypes, CallKeeps DEF TypeOK
    <2>3. QED
      BY <2>1, <2>2 DEF Calls
  <1>4. TypeOK'
    BY <1>2, <1>3 DEF TypeOK, SecretInv, drvvars
  <1>5. CounterInv'
    BY <1>1, <1>2, <1>4, CounterNeutral DEF Lock1Section
  <1>6. QED
    BY <1>2, <1>3, <1>4, <1>5 DEF Life, drvvars

\* open() and close() under lock1: ga and the processes it counts move together.
LEMMA CounterSection ==
  ASSUME IInv, NEW p \in Procs, CounterSteps(p)
  PROVE  IInv'
  <1> USE TwoLockAssumption DEF IInv, CounterInv
  <1>0. /\ pc \in [Procs -> Places] /\ file \in [Procs -> BOOLEAN]
        /\ out \in [Procs -> Outcomes] /\ ga \in Int /\ gb \in Int
    BY DEF TypeOK, SecretTypeOK
  <1>1. PICK from \in {"o_lock", "c_lock"} \cup Lock1Section,
             to \in {"show"} \cup Lock1Section : Go(p, from, to)
    BY DEF CounterSteps, TakeLock1, MoveGa, MoveGb, Finish, Lock1Section
  <1>2. mod = "live" /\ mod' = mod
    BY <1>1 DEF CounterSteps, TakeLock1, MoveGa, MoveGb, Go, Life, Unused, Lock1Section
  <1>3. file' \in [Procs -> BOOLEAN] /\ out' \in [Procs -> Outcomes]
    <2>1. CASE TakeLock1(p) \/ MoveGa(p)
      BY <1>0, <2>1 DEF TakeLock1, MoveGa, callvars
    <2>2. CASE MoveGb(p)
      <3>1. Ret("opened", 0) \in Outcomes /\ Ret("closed", 0) \in Outcomes
        BY ConstantTypes
      <3>2. QED
        BY <1>0, <2>2, <3>1 DEF MoveGb, Finish
    <2>3. QED
      BY <2>1, <2>2 DEF CounterSteps
  <1>4. SecretInv'
    BY <1>1, <1>3, OutsideSecret
    DEF CounterSteps, TakeLock1, MoveGa, MoveGb, callvars, Places, Pinned,
        SpinSection, MtxSection, Lock1Section
  <1>5. TypeOK'
    BY <1>0, <1>2, <1>4 DEF TypeOK, SecretInv, CounterSteps, TakeLock1, MoveGa, MoveGb
  <1>6. IsFiniteSet(InGa)
    BY FS_Subset DEF InGa
  <1>7. CounterInv'
    <2>1. CASE TakeLock1(p)
      <3>1. /\ pc[p] \in {"o_lock", "c_lock"} /\ UNCHANGED <<ga, gb, file>>
            /\ pc' = [pc EXCEPT ![p] = IF pc[p] = "o_lock" THEN "o_ga" ELSE "c_ga"]
            /\ lock1 = NoOwner /\ lock1' = p
        BY <2>1 DEF TakeLock1, Go
      <3>2. Lock1Held' /\ FilesHeld'
        BY <1>0, <3>1 DEF Lock1Held, FilesHeld, Lock1Section
      <3>3. SumHeld'
        BY <1>0, <1>2, <3>1 DEF SumHeld, Lock1Held, Lock1Section
      <3>4. InGa' = InGa
        BY <1>0, <3>1 DEF InGa
      <3>5. QED
        BY <1>2, <3>1, <3>2, <3>3, <3>4
    <2>2. CASE MoveGa(p)
      <3>1. lock1 = p /\ lock1' = p /\ UNCHANGED <<gb, file>>
        BY <2>2 DEF MoveGa, Go, Lock1Held, Lock1Section
      <3>2. CASE Go(p, "o_ga", "o_gb") /\ ga' = ga + 1
        <4>1. pc[p] = "o_ga" /\ pc' = [pc EXCEPT ![p] = "o_gb"]
          BY <3>2 DEF Go
        <4>2. Lock1Held' /\ FilesHeld' /\ SumHeld'
          BY <1>0, <1>2, <3>1, <3>2, <4>1
          DEF Lock1Held, FilesHeld, SumHeld, Lock1Section
        <4>3. p \notin InGa /\ InGa' = InGa \cup {p}
          BY <1>0, <3>1, <4>1 DEF InGa, FilesHeld
        <4>4. QED
          BY <1>2, <1>6, <3>2, <4>2, <4>3, FS_AddElement
      <3>3. CASE Go(p, "c_ga", "c_gb") /\ ga' = ga - 1
        <4>1. pc[p] = "c_ga" /\ pc' = [pc EXCEPT ![p] = "c_gb"]
          BY <3>3 DEF Go
        <4>2. Lock1Held' /\ FilesHeld' /\ SumHeld'
          BY <1>0, <1>2, <3>1, <3>3, <4>1
          DEF Lock1Held, FilesHeld, SumHeld, Lock1Section
        <4>3. p \in InGa /\ InGa' = InGa \ {p}
          BY <1>0, <3>1, <4>1 DEF InGa, FilesHeld
        <4>4. QED
          BY <1>2, <1>6, <3>3, <4>2, <4>3, FS_RemoveElement
      <3>4. QED
        BY <2>2, <3>2, <3>3 DEF MoveGa
    <2>3. CASE MoveGb(p)
      <3>1. /\ pc[p] \in {"o_gb", "c_gb"} /\ pc' = [pc EXCEPT ![p] = "show"]
            /\ file' = [file EXCEPT ![p] = (pc[p] = "o_gb")]
            /\ gb' = IF pc[p] = "o_gb" THEN gb - 1 ELSE gb + 1
            /\ ga' = ga /\ lock1' = NoOwner
        BY <2>3 DEF MoveGb, Finish, Go
      <3>2. lock1 = p /\ \A q \in Procs \ {p} : pc[q] \notin Lock1Section
        BY <3>1 DEF Lock1Held, Lock1Section
      <3>3. Lock1Held' /\ FilesHeld'
        BY <1>0, <3>1, <3>2 DEF Lock1Held, FilesHeld, Lock1Section
      <3>4. SumHeld'
        BY <1>0, <1>2, <3>1, <3>2 DEF SumHeld, Lock1Section
      <3>5. InGa' = InGa
        BY <1>0, <3>1 DEF InGa
      <3>6. QED
        BY <1>2, <3>1, <3>3, <3>4, <3>5
    <2>4. QED
      BY <2>1, <2>2, <2>3 DEF CounterSteps
  <1>8. QED
    BY <1>2, <1>4, <1>5, <1>7 DEF Life

\* read(), write(), display_stats() and the return to the process.
LEMMA SecretSection ==
  ASSUME IInv, NEW p \in Procs, SecretSteps(p), UNCHANGED drvvars
  PROVE  IInv'
  <1> USE DEF IInv
  <1>1. SecretTypeOK'
    BY ReadTypes, WriteTypes, CallTypes DEF SecretSteps, TypeOK
  <1>2. SecretInv'
    BY <1>1, ReadKeeps, WriteKeeps, CallKeeps DEF SecretSteps
  <1>3. TypeOK' /\ file' = file
    BY <1>1 DEF TypeOK, drvvars, SecretSteps, ReadSteps, WriteSteps, ReadLen, ReadMutex,
         ReadCopyHead, ReadCopyTail, ReadFault, ReadStat, WriteSpin, WriteHead,
         WriteTail, WriteStat, WriteWake, DisplayStats, Return
  <1> DEFINE Own == {"idle", "show", "done", "r_len", "r_mutex", "w_spin"}
                    \cup SpinSection \cup MtxSection
  <1>4. PICK from \in Own \ {"idle"}, to \in Own : Go(p, from, to)
    BY DEF SecretSteps, ReadSteps, WriteSteps, ReadLen, ReadMutex, ReadCopyHead,
         ReadCopyTail, ReadFault, ReadStat, WriteSpin, WriteHead, WriteTail,
         WriteStat, WriteWake, DisplayStats, Return, Finish, SpinSection, MtxSection
  <1>5. CounterInv'
    BY <1>3, <1>4, CounterNeutral DEF Lock1Section, SpinSection, MtxSection
  <1>6. Life'
    BY <1>4 DEF Life, Unused, Go, drvvars, SpinSection, MtxSection
  <1>7. QED
    BY <1>2, <1>3, <1>5, <1>6

-----------------------------------------------------------------------------
(* Theorems *)

\* The strengthened invariant is one.
LEMMA Invariant == Spec => []IInv
  <1>1. Init => IInv
    BY SecretStart, TwoLockAssumption
    DEF Init, IInv, TypeOK, SecretInv, Life, Unused, CounterInv, Lock1Held, FilesHeld,
        Lock1Section, SecretInit
  <1>2. IInv /\ [Next]_vars => IInv'
    <2> SUFFICES ASSUME IInv, [Next]_vars PROVE IInv'
      OBVIOUS
    <2>1. CASE Insert \/ Remove
      BY <2>1, ModuleSteps
    <2>2. ASSUME NEW p \in Procs, Calls(p) PROVE IInv'
      BY <2>2, BeginSteps
    <2>3. ASSUME NEW p \in Procs, Handler(p) PROVE IInv'
      BY <2>3, CounterSection, SecretSection DEF Handler
    <2>4. CASE UNCHANGED vars
      BY <2>4 DEF vars, drvvars, ctxvars, callvars, IInv, TypeOK, SecretTypeOK, SecretInv,
         LocksHeld, StatsExact, SecretWhole, WriterKnows, ReaderKnows, Life, Unused,
         CounterInv, Lock1Held, FilesHeld, SumHeld, InGa
    <2>5. QED
      BY <2>1, <2>2, <2>3, <2>4 DEF Next
  <1>3. QED
    BY <1>1, <1>2, PTL DEF Spec

\* Every variable keeps its type, the stored secret always fits its buffer, and
\* each of lock1, ctx->spinlock and ctx->mutex is owned by exactly the process that
\* stands between taking and releasing it.
THEOREM OwnersCorrect == Spec => [](TypeOK /\ LocksHeld /\ Lock1Held)
  <1>1. IInv => TypeOK /\ LocksHeld /\ Lock1Held
    BY DEF IInv, SecretInv, CounterInv
  <1>2. QED
    BY <1>1, Invariant, PTL

\* Although tx and rx are kept under different locks, no update of either is lost.
THEOREM StatsCorrect == Spec => []StatsExact
  <1>1. IInv => StatsExact
    BY DEF IInv, SecretInv
  <1>2. QED
    BY <1>1, Invariant, PTL

\* Writers exclude each other, so that what is stored is one of their secrets.
THEOREM SecretCorrect == Spec => []SecretWhole
  <1>1. IInv => SecretWhole
    BY DEF IInv, SecretInv
  <1>2. QED
    BY <1>1, Invariant, PTL

\* Whenever lock1 is free ga is the number of open files, and ga + gb = 1.
THEOREM CountersCorrect == Spec => []CountersSettled
  <1>1. IInv => CountersSettled
    <2> SUFFICES ASSUME IInv, lock1 = NoOwner, mod = "live"
                 PROVE  ga = Cardinality({p \in Procs : file[p]}) /\ ga + gb = 1
      BY DEF CountersSettled
    <2>1. \A p \in Procs : pc[p] \notin Lock1Section
      BY TwoLockAssumption DEF IInv, CounterInv, Lock1Held
    <2>2. InGa = {p \in Procs : file[p]}
      BY <2>1 DEF InGa, Lock1Section
    <2>3. QED
      BY <2>2 DEF IInv, CounterInv, SumHeld
  <1>2. QED
    BY <1>1, Invariant, PTL
=============================================================================
