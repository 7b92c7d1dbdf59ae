------------------------ MODULE RefcountDriverProofs ------------------------
(***************************************************************************)
(* Theorems about RefcountDriver, for every number of processes and of     *)
(* processors: what the two refcount_t of open() and close() are worth.    *)
(***************************************************************************)
EXTENDS RefcountDriver, TwoLockProofs

-----------------------------------------------------------------------------
(* Invariants *)

CounterPlaces == {"o_inc", "o_dec", "c_dec", "c_inc"}

\* Nobody is in a driver that is not there, or that was left half-inserted.
Life == mod # "live" => Unused

\* open() runs on a closed descriptor and close() on an open one.
FilesHeld ==
  \A p \in Procs : /\ pc[p] \in {"o_inc", "o_dec"} => ~file[p]
                   /\ pc[p] \in {"c_dec", "c_inc"} => file[p]

\* grefb is either as module_init left it, and nobody has opened yet, or stuck.
RefbStuck ==
  /\ grefb \in {1, Saturated}
  /\ (\E p \in Procs : file[p]) => grefb = Saturated

IInv ==
  /\ TypeOK
  /\ SecretInv
  /\ Life
  /\ FilesHeld
  /\ RefaExact
  /\ RefbStuck

-----------------------------------------------------------------------------
(* The steps *)

\* A step of read(), write(), and of the way into and out of a call takes and
\* drops no reference.
LEMMA CounterNeutral ==
  ASSUME IInv, SecretInv', mod = "live", NEW p \in Procs, NEW from, NEW to, Go(p, from, to),
         UNCHANGED <<drvvars, file>>,
         from \notin CounterPlaces, to \notin {"o_dec", "c_inc"},
         to = "o_inc" => ~file[p],
         to = "c_dec" => file[p]
  PROVE  IInv'
  <1> USE DEF IInv, drvvars
  <1>0. pc \in [Procs -> Places] /\ pc[p] = from /\ pc' = [pc EXCEPT ![p] = to]
    BY DEF TypeOK, SecretTypeOK, Go
  <1>1. TypeOK'
    BY DEF TypeOK, SecretInv
  <1>2. Referring' = Referring
    BY <1>0 DEF Referring, CounterPlaces
  <1>3. FilesHeld'
    BY <1>0 DEF FilesHeld, CounterPlaces
  <1>4. RefaExact' /\ RefbStuck' /\ Life'
    BY <1>2 DEF RefaExact, RefbStuck, Life
  <1>5. QED
    BY <1>1, <1>3, <1>4

\* insmod and rmmod: nobody is in the driver, and a fresh one has fresh counts.
LEMMA ModuleSteps ==
  ASSUME IInv, Insert \/ Remove
  PROVE  IInv'
  <1> USE TwoLockAssumption DEF IInv
  <1>0. Unused /\ Referring = {}
    BY DEF Insert, Remove, Life, Unused, Referring
  <1>1. UNCHANGED <<cpus, pc, file, callvars>> /\ Referring' = Referring
    BY DEF Insert, Remove, Referring
  <1>2. SecretInv'
    <2>1. CASE Insert
      BY <1>0, <1>1, <2>1, FreshKeeps DEF Insert, Unused, TypeOK
    <2>2. CASE Remove
      BY <1>1, <2>2
      DEF Remove, SecretInv, SecretTypeOK, LocksHeld, StatsExact, SecretWhole,
          WriterKnows, ReaderKnows, ctxvars, callvars
    <2>3. QED
      BY <2>1, <2>2
  <1>3. Cardinality(Procs) \in Nat /\ Cardinality(Referring') = 0
    BY <1>0, <1>1, FS_CardinalityType, FS_EmptySet
  <1>4. TypeOK' /\ RefaExact'
    BY <1>2, <1>3 DEF Insert, Remove, TypeOK, SecretInv, RefaExact
  <1>5. Life' /\ FilesHeld' /\ RefbStuck'
    BY <1>0, <1>1 DEF Life, Unused, FilesHeld, RefbStuck, Insert, Remove
  <1>6. QED
    BY <1>2, <1>4, <1>5

\* A step that stays outside both sections of the context.
LEMMA OutsideSecret ==
  ASSUME IInv, NEW p \in Procs, NEW from, NEW to \in Places, Go(p, from, to),
         from \notin SpinSection \cup MtxSection, to \notin SpinSection \cup MtxSection,
         file' \in [Procs -> BOOLEAN], out' \in [Procs -> Outcomes],
         UNCHANGED <<ctxvars, req, slen, got, reg>>
  PROVE  SecretInv'
  <1>1. SecretTypeOK'
    BY GoTypes DEF IInv, TypeOK
  <1>2. QED
    BY <1>1, SecretNeutral DEF IInv

\* The calls a process may begin.
LEMMA BeginSteps ==
  ASSUME IInv, NEW p \in Procs, Open(p) \/ Close(p) \/ RefCalls(p)
  PROVE  IInv'
  <1> USE DEF IInv
  <1>0. file \in [Procs -> BOOLEAN] /\ out \in [Procs -> Outcomes]
    BY DEF TypeOK, SecretTypeOK
  <1>1. PICK to \in {"o_inc", "c_dec", "r_len", "w_spin", "show", "done"} :
          Go(p, "idle", to) /\ (IF to = "o_inc" THEN ~file[p] ELSE file[p])
    BY DEF RefCalls, SecretCalls, Open, Close, Read, Write, WriteFails, Finish
  <1>2. UNCHANGED <<drvvars, file>> /\ mod = "live"
    <2>1. CASE Open(p)
      BY <2>1 DEF Open
    <2>2. CASE ~Open(p)
      BY <1>1, <2>2 DEF RefCalls, SecretCalls, Close, Read, Write, WriteFails, Life, Unused
    <2>3. QED
      BY <2>1, <2>2
  <1>3. SecretInv'
    <2>1. CASE Open(p) \/ Close(p)
      BY <1>0, <1>1, <1>2, <2>1, OutsideSecret
      DEF Open, Close, callvars, Places, Pinned, SpinSection, MtxSection
    <2>2. CASE RefCalls(p)
      BY <2>2, CallTypes, CallKeeps DEF RefCalls, TypeOK
    <2>3. QED
      BY <2>1, <2>2
  <1>4. QED
    BY <1>1, <1>2, <1>3, CounterNeutral DEF CounterPlaces

\* read(), write(), display_stats() and the return to the process.
LEMMA SecretSection ==
  ASSUME IInv, NEW p \in Procs, RefReadSteps(p) \/ RefWriteSteps(p) \/ RefReturn(p)
  PROVE  IInv'
  <1> USE DEF IInv, RefReadSteps, RefWriteSteps, RefReturn
  <1>1. SecretTypeOK'
    BY ReadTypes, WriteTypes, CallTypes DEF TypeOK
  <1>2. SecretInv'
    BY <1>1, ReadKeeps, WriteKeeps, CallKeeps
  <1>3. UNCHANGED <<drvvars, file>>
    BY DEF ReadSteps, WriteSteps, ReadLen, ReadMutex, ReadCopyHead, ReadCopyTail,
         ReadFault, ReadStat, WriteSpin, WriteHead, WriteTail, WriteStat, WriteWake,
         DisplayStats, Return
  <1> DEFINE Own == {"idle", "show", "done", "r_len", "r_mutex", "w_spin"}
                    \cup SpinSection \cup MtxSection
  <1>4. PICK from \in Own \ {"idle"}, to \in Own : Go(p, from, to)
    BY DEF ReadSteps, WriteSteps, ReadLen, ReadMutex, ReadCopyHead, ReadCopyTail,
         ReadFault, ReadStat, WriteSpin, WriteHead, WriteTail, WriteStat, WriteWake,
         DisplayStats, Return, Finish, SpinSection, MtxSection
  <1>5. mod = "live"
    BY <1>4 DEF Life, Unused, Go, SpinSection, MtxSection
  <1>6. QED
    BY <1>2, <1>3, <1>4, <1>5, CounterNeutral DEF CounterPlaces, SpinSection, MtxSection

-----------------------------------------------------------------------------
(* The reference counts *)

\* While its holders are counted, open() and close() move grefa by exactly 1: the
\* count is never 0 when taken and never 1 when dropped.
LEMMA RefMoves ==
  ASSUME NEW n \in Nat
  PROVE  RefInc(n + 1) = n + 2 /\ (n > 0 => RefDec(n + 1) = n)
  <1>1. n + 1 > 0 /\ (n > 0 => n + 1 > 1) /\ (n + 1) + 1 = n + 2 /\ (n + 1) - 1 = n
    OBVIOUS
  <1>2. QED
    BY <1>1 DEF RefInc, RefDec

\* A stuck count stays stuck, and the first drop of a 1 makes it stick.
LEMMA RefSticks ==
  /\ RefInc(Saturated) = Saturated
  /\ RefDec(Saturated) = Saturated /\ RefDec(1) = Saturated
  BY SaturatedAssumption DEF RefInc, RefDec

\* The steps of open() and close() that take and drop the references.
LEMMA CounterSection ==
  ASSUME IInv, NEW p \in Procs, CounterSteps(p)
  PROVE  IInv'
  <1> USE TwoLockAssumption DEF IInv
  <1>0. /\ pc \in [Procs -> Places] /\ file \in [Procs -> BOOLEAN]
        /\ out \in [Procs -> Outcomes]
    BY DEF TypeOK, SecretTypeOK
  <1>1. PICK from \in CounterPlaces, to \in {"show", "o_dec", "c_inc"} : Go(p, from, to)
    BY DEF CounterSteps, OpenInc, OpenDec, CloseDec, CloseInc, Finish, CounterPlaces
  <1>2. mod = "live" /\ mod' = mod /\ pc[p] = from /\ pc' = [pc EXCEPT ![p] = to]
    BY <1>1 DEF CounterSteps, OpenInc, OpenDec, CloseDec, CloseInc, Go, Life, Unused,
                CounterPlaces
  <1>3. file' \in [Procs -> BOOLEAN] /\ out' \in [Procs -> Outcomes]
    <2>1. Ret("opened", 0) \in Outcomes /\ Ret("closed", 0) \in Outcomes
      BY ConstantTypes
    <2>2. QED
      BY <1>0, <2>1 DEF CounterSteps, OpenInc, OpenDec, CloseDec, CloseInc, Finish, callvars
  <1>4. SecretInv'
    BY <1>1, <1>3, OutsideSecret
    DEF CounterSteps, OpenInc, OpenDec, CloseDec, CloseInc, callvars, Places, Pinned,
        SpinSection, MtxSection, CounterPlaces
  <1>5. IsFiniteSet(Referring) /\ Cardinality(Referring) \in Nat
    BY FS_Subset, FS_CardinalityType DEF Referring
  <1>6. IsFiniteSet(Referring') /\ Cardinality(Referring') \in 0..Cardinality(Procs)
    <2>1. Referring' \subseteq Procs
      BY DEF Referring
    <2>2. QED
      BY <2>1, FS_Subset, FS_CardinalityType
  <1>7. FilesHeld' /\ RefaExact' /\ RefbStuck'
    <2>1. CASE OpenInc(p)
      <3>1. /\ pc[p] = "o_inc" /\ pc' = [pc EXCEPT ![p] = "o_dec"]
            /\ UNCHANGED <<file, grefb>> /\ grefa' = RefInc(grefa)
        BY <2>1 DEF OpenInc, Go
      <3>2. p \notin Referring /\ Referring' = Referring \cup {p}
        BY <1>0, <3>1 DEF Referring, FilesHeld
      <3>3. RefaExact'
        <4> DEFINE n == Cardinality(Referring)
        <4>1. Cardinality(Referring') = n + 1
          BY <1>5, <3>2, FS_AddElement
        <4>2. grefa = n + 1
          BY <1>2, <1>5 DEF RefaExact
        <4>3. grefa' = n + 2
          BY <1>5, <3>1, <4>2, RefMoves
        <4>4. QED
          BY <1>5, <4>1, <4>3 DEF RefaExact
      <3>4. QED
        BY <1>0, <3>1, <3>3 DEF FilesHeld, RefbStuck
    <2>2. CASE OpenDec(p)
      <3>1. /\ pc[p] = "o_dec" /\ pc' = [pc EXCEPT ![p] = "show"]
            /\ file' = [file EXCEPT ![p] = TRUE] /\ grefb' = RefDec(grefb)
            /\ grefa' = grefa
        BY <2>2 DEF OpenDec, Finish, Go
      <3>2. Referring' = Referring
        BY <1>0, <3>1 DEF Referring
      <3>3. QED
        <4>1. FilesHeld'
          BY <1>0, <3>1 DEF FilesHeld
        <4>2. RefaExact'
          BY <1>2, <3>1, <3>2 DEF RefaExact
        <4>3. grefb' = Saturated
          BY <3>1, RefSticks DEF RefbStuck
        <4>4. QED
          BY <4>1, <4>2, <4>3 DEF RefbStuck
    <2>3. CASE CloseDec(p)
      <3>1. /\ pc[p] = "c_dec" /\ pc' = [pc EXCEPT ![p] = "c_inc"]
            /\ UNCHANGED <<file, grefb>> /\ grefa' = RefDec(grefa)
        BY <2>3 DEF CloseDec, Go
      <3>2. p \in Referring /\ Referring' = Referring \ {p}
        BY <1>0, <3>1 DEF Referring, FilesHeld
      <3>3. Cardinality(Referring') = Cardinality(Referring) - 1
        BY <1>5, <3>2, FS_RemoveElement
      <3>4. RefaExact'
        <4> DEFINE n == Cardinality(Referring)
        <4>1. n > 0 /\ grefa = n + 1
          BY <1>2, <1>5, <1>6, <3>3 DEF RefaExact
        <4>2. grefa' = n
          BY <1>5, <3>1, <4>1, RefMoves
        <4>3. QED
          BY <1>5, <3>3, <4>2 DEF RefaExact
      <3>5. QED
        BY <1>0, <3>1, <3>4 DEF FilesHeld, RefbStuck
    <2>4. CASE CloseInc(p)
      <3>1. /\ pc[p] = "c_inc" /\ pc' = [pc EXCEPT ![p] = "show"] /\ file[p]
            /\ file' = [file EXCEPT ![p] = FALSE] /\ grefb' = RefInc(grefb)
            /\ grefa' = grefa
        BY <2>4 DEF CloseInc, Finish, Go, FilesHeld
      <3>2. Referring' = Referring
        BY <1>0, <3>1 DEF Referring
      <3>3. QED
        <4>1. FilesHeld'
          BY <1>0, <3>1 DEF FilesHeld
        <4>2. RefaExact'
          BY <1>2, <3>1, <3>2 DEF RefaExact
        <4>3. grefb' = Saturated
          BY <3>1, RefSticks DEF RefbStuck
        <4>4. QED
          BY <4>1, <4>2, <4>3 DEF RefbStuck
    <2>5. QED
      BY <2>1, <2>2, <2>3, <2>4 DEF CounterSteps
  <1>8. TypeOK'
    <2>1. mod' \in {"out", "live", "stale"} /\ SecretTypeOK'
      BY <1>2, <1>4 DEF SecretInv
    <2>2. grefa' \in 0..Cardinality(Procs)+1
      BY <1>2, <1>6, <1>7, FS_CardinalityType DEF RefaExact
    <2>3. QED
      BY <1>7, <2>1, <2>2 DEF TypeOK, RefbStuck
  <1>9. QED
    BY <1>2, <1>4, <1>7, <1>8 DEF Life

-----------------------------------------------------------------------------
(* Theorems *)

\* The strengthened invariant is one.
LEMMA Invariant == Spec => []IInv
  <1>1. Init => IInv
    <2> SUFFICES ASSUME Init PROVE IInv
      OBVIOUS
    <2>1. SecretInv
      BY SecretStart DEF Init
    <2>2. TypeOK /\ RefaExact
      BY <2>1, TwoLockAssumption, FS_CardinalityType DEF Init, TypeOK, SecretInv, RefaExact
    <2>3. QED
      BY <2>1, <2>2 DEF Init, IInv, Life, Unused, FilesHeld, RefbStuck, SecretInit
  <1>2. IInv /\ [Next]_vars => IInv'
    <2> SUFFICES ASSUME IInv, [Next]_vars PROVE IInv'
      OBVIOUS
    <2>1. CASE Insert \/ Remove
      BY <2>1, ModuleSteps
    <2>2. ASSUME NEW p \in Procs, Open(p) \/ Close(p) \/ RefCalls(p) PROVE IInv'
      BY <2>2, BeginSteps
    <2>3. ASSUME NEW p \in Procs, Handler(p) PROVE IInv'
      BY <2>3, CounterSection, SecretSection DEF Handler
    <2>4. CASE UNCHANGED vars
      BY <2>4 DEF vars, drvvars, ctxvars, callvars, IInv, TypeOK, SecretTypeOK, SecretInv,
         LocksHeld, StatsExact, SecretWhole, WriterKnows, ReaderKnows, Life, Unused,
         FilesHeld, RefaExact, Referring, RefbStuck
    <2>5. QED
      BY <2>1, <2>2, <2>3, <2>4 DEF Next
  <1>3. QED
    BY <1>1, <1>2, PTL DEF Spec

\* grefa is always 1 more than the opens that hold a reference, without a lock.
THEOREM ReferencesCorrect == Spec => []RefInv
  <1>1. IInv => RefInv
    BY DEF IInv, RefInv
  <1>2. QED
    BY <1>1, Invariant, PTL

\* The first open() saturates grefb for the rest of the module's life.
THEOREM RefbSticksForEver == Spec => RefbSticks
  <1>1. IInv /\ IInv' /\ [Next]_vars =>
          [mod = "live" /\ (grefb = Saturated \/ \E p \in Procs : file'[p])
             => grefb' = Saturated]_vars
    <2> SUFFICES ASSUME IInv, IInv', Next, mod = "live", grefb = Saturated PROVE grefb' = Saturated
      BY DEF IInv, RefbStuck
    <2>1. CASE Insert \/ Remove
      BY <2>1 DEF Insert, Remove
    <2>2. ASSUME NEW p \in Procs, Open(p) \/ Close(p) \/ RefCalls(p)
          PROVE  grefb' = Saturated
      BY <2>2 DEF Open, Close, RefCalls, drvvars
    <2>3. ASSUME NEW p \in Procs, Handler(p) PROVE grefb' = Saturated
      BY <2>3, RefSticks DEF Handler, CounterSteps, OpenInc, OpenDec, CloseDec, CloseInc,
           RefReadSteps, RefWriteSteps, RefReturn, drvvars
    <2>4. QED
      BY <2>1, <2>2, <2>3 DEF Next
  <1>2. QED
    BY <1>1, Invariant, PTL DEF Spec, RefbSticks

\* No update of tx or of rx is lost here either.
THEOREM StatsCorrect == Spec => []StatsExact
  <1>1. IInv => StatsExact
    BY DEF IInv, SecretInv
  <1>2. QED
    BY <1>1, Invariant, PTL
=============================================================================
