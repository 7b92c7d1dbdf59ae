--------------------------- MODULE TwoLockProofs ---------------------------
(***************************************************************************)
(* What the read and write methods of TwoLockSecret keep true, for every   *)
(* number of processes and processors, with and without `buggy'.  The      *)
(* drivers that have these methods cite it.                                *)
(***************************************************************************)
EXTENDS TwoLockSecret, FiniteSetTheorems, TLAPS

-----------------------------------------------------------------------------
(* Strings *)

\* What strscpy() stores of a non-empty request fits the buffer with its NUL.
LEMMA StrscpyFits ==
  ASSUME NEW b \in BufType, b.count # 0
  PROVE  Strscpy(b) \in String
  BY SizeAssumption DEF BufType, Strscpy, String, Smaller

\* The values a handler starts from and returns have their types.
LEMMA ConstantTypes ==
  /\ Whole(Init0) \in Memory
  /\ NoCopy \in Received
  /\ Whole([text |-> InitMsg, len |-> InitLen]) \in Memory
  /\ NoReq \in BufType
  /\ Nothing \in Outcomes
  /\ \A e \in {"EINVAL", "EFAULT", "ENOMEM"} : Err(e) \in Outcomes
  /\ \A k \in {"opened", "closed", "read", "written"}, n \in Nat :
        Ret(k, n) \in Outcomes
  BY SizeAssumption, RequestAssumption
  DEF Whole, Init0, Memory, String, NoReq, BufType, Nothing, Err, Ret, Outcomes,
      NoCopy, Received, Piece, Copied

-----------------------------------------------------------------------------
(* Types *)

\* A step that only sends a process on, and perhaps gives it its outcome.
LEMMA GoTypes ==
  ASSUME SecretTypeOK, NEW p \in Procs, NEW from, NEW to \in Places, Go(p, from, to),
         file' \in [Procs -> BOOLEAN], out' \in [Procs -> Outcomes],
         UNCHANGED <<ctxvars, req, slen, got, reg>>
  PROVE  SecretTypeOK'
  BY DEF Go, SecretTypeOK, ctxvars

\* The steps of read() keep every variable in its type.
LEMMA ReadTypes ==
  ASSUME SecretTypeOK, NEW p \in Procs, ReadSteps(p)
  PROVE  SecretTypeOK'
  <1> USE SizeAssumption, ConstantTypes
          DEF SecretTypeOK, Finish, Go, Places, Pinned, ctxvars, callvars
  <1>1. CASE ReadLen(p)
    <2>1. PICK n \in StrLen(secret) :
            \/ Finish(p, "r_len", "done", Err("EINVAL")) /\ UNCHANGED slen
            \/ /\ Go(p, "r_len", "r_mutex")
               /\ slen' = [slen EXCEPT ![p] = n]
               /\ UNCHANGED out
      BY <1>1 DEF ReadLen
    <2>2. n \in 0..MAXBYTES-1
      BY <2>1 DEF StrLen, Memory, String
    <2>3. QED
      BY <1>1, <2>1, <2>2 DEF ReadLen
  <1>2. CASE ReadMutex(p)
    BY <1>2 DEF ReadMutex
  <1>0. Copied(secret.head, slen[p]) \in Piece /\ Copied(secret.tail, slen[p]) \in Piece
    BY DEF Memory, String, Copied, Piece
  <1>3. CASE ReadCopyHead(p)
    BY <1>0, <1>3 DEF ReadCopyHead, Received
  <1>4. CASE ReadCopyTail(p)
    BY <1>0, <1>4 DEF ReadCopyTail, Received
  <1>5. CASE ReadFault(p)
    BY <1>5 DEF ReadFault
  <1>6. CASE ReadStat(p)
    <2>1. Ret("read", slen[p]) \in Outcomes
      OBVIOUS
    <2>2. QED
      BY <1>6, <2>1 DEF ReadStat
  <1>7. QED
    BY <1>1, <1>2, <1>3, <1>4, <1>5, <1>6 DEF ReadSteps

\* The steps of write() keep every variable in its type.
LEMMA WriteTypes ==
  ASSUME SecretTypeOK, NEW p \in Procs, WriteSteps(p)
  PROVE  SecretTypeOK'
  <1> USE SizeAssumption, TwoLockAssumption
          DEF SecretTypeOK, Finish, Go, Places, Pinned, ctxvars, callvars
  <1>0. req[p] \in BufType /\ (req[p].count # 0 => Strscpy(req[p]) \in String)
    BY StrscpyFits
  <1>1. CASE WriteSpin(p)
    BY <1>1 DEF WriteSpin
  <1>2. CASE WriteHead(p)
    BY <1>0, <1>2 DEF WriteHead, Memory
  <1>3. CASE WriteTail(p)
    <2>1. secret' \in Memory
      BY <1>0, <1>3 DEF WriteTail, Memory
    <2>2. taken' \in 0..IntMod-1
      BY <1>0, <1>3 DEF WriteTail, BufType
    <2>3. QED
      BY <1>3, <2>1, <2>2 DEF WriteTail
  <1>4. CASE WriteStat(p)
    <2>1. Ret("written", req[p].count) \in Outcomes
      BY <1>0, ConstantTypes DEF BufType
    <2>2. rx' \in 0..IntMod-1
      BY <1>0, <1>4 DEF WriteStat, BufType
    <2>3. out' \in [Procs -> Outcomes] /\ pc' \in [Procs -> Places]
      BY <1>4, <2>1 DEF WriteStat
    <2>4. QED
      BY <1>4, <2>2, <2>3 DEF WriteStat
  <1>5. CASE WriteWake(p)
    BY <1>5 DEF WriteWake
  <1>6. QED
    BY <1>1, <1>2, <1>3, <1>4, <1>5 DEF WriteSteps

\* Beginning a call and returning from it keep every variable in its type.
LEMMA CallTypes ==
  ASSUME SecretTypeOK, NEW p \in Procs, SecretCalls(p) \/ DisplayStats(p) \/ Return(p)
  PROVE  SecretTypeOK'
  <1> USE SizeAssumption, RequestAssumption, ConstantTypes
          DEF SecretTypeOK, Finish, Go, Places, Pinned, ctxvars, callvars
  <1>1. CASE Read(p)
    <2>1. PICK count \in ReadCounts : req' = [req EXCEPT ![p].count = count]
      BY <1>1 DEF Read
    <2>2. req' \in [Procs -> BufType]
      BY <2>1 DEF BufType
    <2>3. QED
      BY <1>1, <2>2 DEF Read
  <1>2. CASE Write(p)
    BY <1>2 DEF Write
  <1>3. CASE WriteFails(p)
    BY <1>3 DEF WriteFails
  <1>4. CASE DisplayStats(p)
    BY <1>4 DEF DisplayStats
  <1>5. CASE Return(p)
    BY <1>5 DEF Return
  <1>6. QED
    BY <1>1, <1>2, <1>3, <1>4, <1>5 DEF SecretCalls

-----------------------------------------------------------------------------
(* The two locks *)

SpinSection == {"w_front", "w_back", "w_stat", "w_sleep"}
MtxSection  == {"r_front", "r_back", "r_stat"}

\* Each lock is held by the process inside its section, and by no other.
LocksHeld ==
  \A p \in Procs : /\ pc[p] \in SpinSection <=> spin = p
                   /\ pc[p] \in MtxSection <=> mtx = p

\* What the holder of the spinlock knows of the secret and of rx, step by step.
WriterKnows(p) ==
  /\ pc[p] \in {"w_front", "w_back", "w_sleep"} => rx = taken
  /\ pc[p] \in {"w_front", "w_stat", "w_sleep"} => secret.head = secret.tail
  /\ pc[p] = "w_back" => secret.head = IF req[p].count = 0 THEN secret.tail
                                       ELSE Strscpy(req[p])
  /\ pc[p] = "w_stat" => taken = (reg[p] + req[p].count) % IntMod

\* What the holder of the mutex knows of tx; of the secret it knows nothing.
ReaderKnows(p) ==
  /\ pc[p] \in {"r_front", "r_back"} => tx = handed
  /\ pc[p] = "r_stat" => handed = (reg[p] + slen[p]) % IntMod

SecretInv ==
  /\ SecretTypeOK
  /\ LocksHeld
  /\ StatsExact
  /\ SecretWhole
  /\ \A p \in Procs : WriterKnows(p) /\ ReaderKnows(p)

\* A step outside both sections that leaves the context and the other processes
\* alone keeps the invariant.
LEMMA SecretNeutral ==
  ASSUME SecretInv, SecretTypeOK', NEW p \in Procs, NEW from, NEW to, Go(p, from, to),
         from \notin SpinSection \cup MtxSection, to \notin SpinSection \cup MtxSection,
         UNCHANGED ctxvars,
         \A q \in Procs \ {p} : /\ req'[q] = req[q] /\ reg'[q] = reg[q]
                                /\ slen'[q] = slen[q]
  PROVE  SecretInv'
  <1> USE DEF SecretInv, ctxvars
  <1>0. pc \in [Procs -> Places] /\ pc[p] = from /\ pc' = [pc EXCEPT ![p] = to]
    BY DEF SecretTypeOK, Go
  <1>1. LocksHeld'
    BY <1>0 DEF LocksHeld
  <1>2. StatsExact' /\ SecretWhole'
    BY DEF StatsExact, SecretWhole
  <1>3. ASSUME NEW q \in Procs PROVE WriterKnows(q)' /\ ReaderKnows(q)'
    <2>1. CASE q = p
      BY <1>0, <2>1 DEF WriterKnows, ReaderKnows, SpinSection, MtxSection
    <2>2. CASE q # p
      BY <1>0, <2>2 DEF WriterKnows, ReaderKnows
    <2>3. QED
      BY <2>1, <2>2
  <1>4. QED
    BY <1>1, <1>2, <1>3

\* While one process writes, the others know of the secret what they knew: they
\* are not in the section, and what readers know is not the writer's business.
LEMMA WriteKeeps ==
  ASSUME SecretInv, SecretTypeOK', NEW p \in Procs, WriteSteps(p)
  PROVE  SecretInv'
  <1> USE TwoLockAssumption DEF SecretInv
  <1>0. /\ pc \in [Procs -> Places] /\ reg \in [Procs -> 0..IntMod-1]
        /\ req \in [Procs -> BufType] /\ secret \in Memory
    BY DEF SecretTypeOK
  <1>1. PICK from \in {"w_spin"} \cup SpinSection, to \in {"done"} \cup SpinSection :
          /\ pc[p] = from /\ pc' = [pc EXCEPT ![p] = to]
          /\ spin = IF from = "w_spin" THEN NoOwner ELSE p
          /\ spin' = IF to = "done" THEN NoOwner ELSE p
    BY DEF WriteSteps, WriteSpin, WriteHead, WriteTail, WriteStat, WriteWake,
           Finish, Go, LocksHeld, SpinSection
  <1>2. /\ UNCHANGED <<mtx, tx, handed, req, slen>>
        /\ \A q \in Procs \ {p} : reg'[q] = reg[q]
    BY <1>0 DEF WriteSteps, WriteSpin, WriteHead, WriteTail, WriteStat, WriteWake,
                callvars
  <1>3. \A q \in Procs \ {p} : pc[q] \notin SpinSection /\ pc'[q] = pc[q]
    BY <1>0, <1>1 DEF LocksHeld, SpinSection
  <1>4. LocksHeld'
    BY <1>0, <1>1, <1>2, <1>3 DEF LocksHeld, SpinSection, MtxSection
  <1>5. \A q \in Procs : ReaderKnows(q)'
    BY <1>0, <1>1, <1>2, <1>3 DEF ReaderKnows, SpinSection
  <1>6. \A q \in Procs \ {p} : WriterKnows(q)'
    BY <1>3 DEF WriterKnows, SpinSection
  <1>7. WriterKnows(p)' /\ (pc'[p] = "done" => rx' = taken' /\ secret'.head = secret'.tail)
    <2>1. CASE WriteSpin(p)
      BY <1>0, <2>1 DEF WriteSpin, Go, WriterKnows, StatsExact, SecretWhole
    <2>2. CASE WriteHead(p)
      BY <1>0, <2>2 DEF WriteHead, Go, WriterKnows, Memory, callvars
    <2>3. CASE WriteTail(p)
      <3>1. pc[p] = "w_back" /\ pc'[p] = "w_stat"
        BY <1>0, <2>3 DEF WriteTail, Go
      <3>2. secret'.head = secret'.tail
        BY <1>0, <2>3, <3>1 DEF WriteTail, WriterKnows, Memory
      <3>3. taken' = (reg'[p] + req'[p].count) % IntMod
        BY <1>0, <2>3, <3>1 DEF WriteTail, WriterKnows
      <3>4. QED
        BY <3>1, <3>2, <3>3 DEF WriterKnows
    <2>4. CASE WriteStat(p)
      BY <1>0, <2>4 DEF WriteStat, Finish, Go, WriterKnows
    <2>5. CASE WriteWake(p)
      BY <1>0, <2>5 DEF WriteWake, Go, WriterKnows
    <2>6. QED
      BY <2>1, <2>2, <2>3, <2>4, <2>5 DEF WriteSteps
  <1>8. StatsExact' /\ SecretWhole'
    BY <1>0, <1>1, <1>2, <1>7 DEF StatsExact, SecretWhole
  <1>9. QED
    BY <1>4, <1>5, <1>6, <1>7, <1>8

\* While one process reads, nothing changes but tx and who holds the mutex.
LEMMA ReadKeeps ==
  ASSUME SecretInv, SecretTypeOK', NEW p \in Procs, ReadSteps(p)
  PROVE  SecretInv'
  <1> USE TwoLockAssumption DEF SecretInv
  <1>0. /\ pc \in [Procs -> Places] /\ reg \in [Procs -> 0..IntMod-1]
        /\ slen \in [Procs -> 0..MAXBYTES-1] /\ {tx, handed} \subseteq 0..IntMod-1
    BY DEF SecretTypeOK
  <1>1. CASE ReadLen(p)
    <2>1. PICK to \in {"done", "r_mutex"} : Go(p, "r_len", to)
      BY <1>1 DEF ReadLen, Finish
    <2>2. UNCHANGED <<ctxvars, req, reg>> /\ \A q \in Procs \ {p} : slen'[q] = slen[q]
      BY <1>0, <1>1 DEF ReadLen
    <2>3. QED
      BY <2>1, <2>2, SecretNeutral DEF SpinSection, MtxSection
  <1>2. CASE ~ReadLen(p)
    <2>1. PICK from \in {"r_mutex"} \cup MtxSection,
               to \in {"done", "show"} \cup MtxSection :
            /\ pc[p] = from /\ pc' = [pc EXCEPT ![p] = to]
            /\ mtx = IF from = "r_mutex" THEN NoOwner ELSE p
            /\ mtx' = IF to \in MtxSection THEN p ELSE NoOwner
      BY <1>2 DEF ReadSteps, ReadMutex, ReadCopyHead, ReadCopyTail, ReadFault, ReadStat,
                  Finish, Go, LocksHeld, MtxSection, ctxvars
    <2>2. /\ UNCHANGED <<spin, secret, rx, taken, req, slen>>
          /\ \A q \in Procs \ {p} : reg'[q] = reg[q]
      BY <1>0, <1>2 DEF ReadSteps, ReadMutex, ReadCopyHead, ReadCopyTail, ReadFault,
                        ReadStat, ctxvars, callvars
    <2>3. \A q \in Procs \ {p} : pc[q] \notin MtxSection /\ pc'[q] = pc[q]
      BY <1>0, <2>1 DEF LocksHeld, MtxSection
    <2>4. LocksHeld'
      BY <1>0, <2>1, <2>2, <2>3 DEF LocksHeld, SpinSection, MtxSection
    <2>5. \A q \in Procs : WriterKnows(q)'
      BY <1>0, <2>1, <2>2, <2>3 DEF WriterKnows, MtxSection
    <2>6. \A q \in Procs \ {p} : ReaderKnows(q)'
      BY <2>3 DEF ReaderKnows, MtxSection
    <2>7. ReaderKnows(p)' /\ (pc'[p] \notin MtxSection => tx' = handed')
      <3>1. CASE ReadMutex(p)
        BY <1>0, <3>1 DEF ReadMutex, Go, ReaderKnows, StatsExact, MtxSection
      <3>2. CASE ReadCopyHead(p)
        BY <1>0, <3>2 DEF ReadCopyHead, Go, ReaderKnows, ctxvars, MtxSection
      <3>3. CASE ReadCopyTail(p)
        BY <1>0, <3>3 DEF ReadCopyTail, Go, ReaderKnows, MtxSection
      <3>4. CASE ReadFault(p)
        BY <1>0, <3>4 DEF ReadFault, Finish, Go, ReaderKnows, MtxSection
      <3>5. CASE ReadStat(p)
        BY <1>0, <3>5 DEF ReadStat, Finish, Go, ReaderKnows, MtxSection
      <3>6. QED
        BY <1>2, <3>1, <3>2, <3>3, <3>4, <3>5 DEF ReadSteps
    <2>8. StatsExact' /\ SecretWhole'
      BY <1>0, <2>1, <2>2, <2>7 DEF StatsExact, SecretWhole
    <2>9. QED
      BY <2>4, <2>5, <2>6, <2>7, <2>8
  <1>3. QED
    BY <1>1, <1>2

\* Beginning a call, showing the statistics and returning change nothing of it.
LEMMA CallKeeps ==
  ASSUME SecretInv, SecretTypeOK', NEW p \in Procs,
         SecretCalls(p) \/ DisplayStats(p) \/ Return(p)
  PROVE  SecretInv'
  <1>1. PICK from \in {"idle", "show", "done"},
             to \in {"idle", "show", "done", "r_len", "w_spin"} : Go(p, from, to)
    BY DEF SecretCalls, Read, Write, WriteFails, DisplayStats, Return, Finish
  <1>2. req \in [Procs -> BufType]
    BY DEF SecretInv, SecretTypeOK
  <1>3. UNCHANGED ctxvars
    BY DEF SecretCalls, Read, Write, WriteFails, DisplayStats, Return
  <1>4. \A q \in Procs \ {p} : req'[q] = req[q] /\ reg'[q] = reg[q] /\ slen'[q] = slen[q]
    BY <1>2 DEF SecretCalls, Read, Write, WriteFails, DisplayStats, Return, callvars,
                SecretInv, SecretTypeOK
  <1>5. QED
    BY <1>1, <1>3, <1>4, SecretNeutral DEF SpinSection, MtxSection

\* A fresh context, in a module nobody uses yet.
LEMMA FreshKeeps ==
  ASSUME FreshCtx(spin', mtx', secret', tx', rx', handed', taken'),
         UNCHANGED <<cpus, pc, file, callvars>>, SecretTypeOK,
         \A p \in Procs : pc[p] = "idle"
  PROVE  SecretInv'
  <1> USE TwoLockAssumption, SizeAssumption
  <1>1. SecretTypeOK'
    BY ConstantTypes DEF FreshCtx, SecretTypeOK, callvars
  <1>2. LocksHeld' /\ \A p \in Procs : WriterKnows(p)' /\ ReaderKnows(p)'
    BY DEF FreshCtx, LocksHeld, WriterKnows, ReaderKnows, SpinSection, MtxSection
  <1>3. StatsExact' /\ SecretWhole'
    BY DEF FreshCtx, StatsExact, SecretWhole, Whole
  <1>4. QED
    BY <1>1, <1>2, <1>3 DEF SecretInv

\* The same, at the very beginning.
LEMMA SecretStart ==
  ASSUME SecretInit
  PROVE  SecretInv
  <1> USE TwoLockAssumption, SizeAssumption DEF SecretInit, FreshCtx
  <1>1. SecretTypeOK
    BY ConstantTypes DEF SecretTypeOK, Places
  <1>2. LocksHeld /\ \A p \in Procs : WriterKnows(p) /\ ReaderKnows(p)
    BY DEF LocksHeld, WriterKnows, ReaderKnows, SpinSection, MtxSection
  <1>3. StatsExact /\ SecretWhole
    BY DEF StatsExact, SecretWhole, Whole
  <1>4. QED
    BY <1>1, <1>2, <1>3 DEF SecretInv
=============================================================================
