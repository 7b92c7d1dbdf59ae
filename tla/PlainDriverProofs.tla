------------------------- MODULE PlainDriverProofs -------------------------
(***************************************************************************)
(* Theorems about PlainDriver: for every number of processes, every buffer *)
(* size and whatever is written, the races of a driver without locks never *)
(* lose the secret's last NUL, never invent statistics, and leave a read   *)
(* that nobody disturbs with what was last written.                        *)
(***************************************************************************)
EXTENDS PlainDriver, SequenceTheorems, WellFoundedInduction, TLAPS

-----------------------------------------------------------------------------
(* Strings *)

\* The least number principle, for sets of natural numbers.
LEMMA Least ==
  ASSUME NEW T \in SUBSET Nat, T # {}
  PROVE  \E m \in T : \A n \in T : m <= n
  <1> DEFINE R == OpToRel(<, Nat)
  <1>1. IsWellFoundedOn(R, Nat)
    BY NatLessThanWellFounded
  <1>2. \A x, y \in Nat : y < x => <<y, x>> \in R
    BY DEF OpToRel
  <1> HIDE DEF R
  <1>3. PICK x \in T : \A y \in T : ~ (<<y, x>> \in R)
    BY <1>1, WFMin
  <1>4. \A y \in T : ~ (y < x)
    BY <1>2, <1>3
  <1>5. QED
    BY <1>4

\* strlen() stops at the first NUL, or where the buffer ends.
LEMMA StrlenStops ==
  ASSUME NEW b \in Seq(Bytes)
  PROVE  /\ Strlen(b) \in 0..Len(b)
         /\ \A i \in 1..Strlen(b) : b[i] \in Chars
  <1> DEFINE T == {i \in DOMAIN b : b[i] = NUL}
             First(i) == b[i] = NUL /\ \A j \in 1..i-1 : b[j] # NUL
  <1>0. DOMAIN b = 1..Len(b) /\ Len(b) \in Nat /\ \A i \in 1..Len(b) : b[i] \in Bytes
    BY LenProperties, ElementOfSeq
  <1>1. CASE T = {}
    BY <1>0, <1>1 DEF Strlen, Bytes
  <1>2. CASE T # {}
    <2>1. T \in SUBSET Nat
      BY <1>0
    <2>2. PICK m \in T : \A n \in T : m <= n
      BY <1>2, <2>1, Least
    <2>3. First(m)
      BY <1>0, <2>1, <2>2
    <2>4. First(CHOOSE i \in DOMAIN b : First(i)) /\ (CHOOSE i \in DOMAIN b : First(i)) \in DOMAIN b
      BY <2>3
    <2>5. Strlen(b) = (CHOOSE i \in DOMAIN b : First(i)) - 1
      BY <1>2 DEF Strlen
    <2>6. QED
      BY <1>0, <2>4, <2>5 DEF Bytes
  <1>3. QED
    BY <1>1, <1>2

\* strlcpy() stores characters, and leaves room for the NUL after them.
LEMMA StrlcpyFits ==
  ASSUME NEW b \in Seq(Bytes), Len(b) > 0
  PROVE  /\ Strlcpy(b) \in 0..Len(b)-1
         /\ \A i \in 1..Strlcpy(b) : b[i] \in Chars
  <1>1. Len(b) \in Nat
    BY LenProperties
  <1>2. QED
    BY <1>1, StrlenStops DEF Strlcpy

-----------------------------------------------------------------------------
(* Types *)

Steps == {"w_byte", "idle", "done", "oops", "r_scan", "r_copy", "r_stat", "w_load",
          "w_stat"}

\* What a call may return.
Kinds == {"none", "read", "written", "refused", "EINVAL", "EFAULT", "ENOMEM"}
Results == Kinds \X Nat

\* TypeOK, with the functions it leaves open: of what the processes share ...
Shared ==
  /\ live \in BOOLEAN
  /\ secret \in [Index -> Bytes] /\ Terminated
  /\ tx \in Nat /\ rx \in Nat /\ handed \in Nat /\ taken \in Nat
  /\ calls \in 0..MaxCalls
  /\ last \in Seq(Chars)
  /\ serial \in BOOLEAN

\* ... and of what each has for itself.
Locals ==
  /\ pc \in [Procs -> Steps]
  /\ file \in [Procs -> BOOLEAN]
  /\ kbuf \in [Procs -> Seq(Bytes)]
  /\ got \in [Procs -> Seq(Bytes)]
  /\ pos \in [Procs -> 0..MAXBYTES]
  /\ slen \in [Procs -> 0..MAXBYTES]
  /\ reg \in [Procs -> Nat]
  /\ out \in [Procs -> Results]
  /\ calm \in [Procs -> BOOLEAN]

Types == Shared /\ Locals

\* The types the proofs work with imply those the run checks.
LEMMA TypesImply == Types => TypeOK
  BY DEF Types, Shared, Locals, Results, TypeOK, Steps, Storing

\* Every result is one.
LEMMA ResultTypes ==
  /\ None \in Results
  /\ \A k \in Kinds, n \in Nat : <<k, n>> \in Results
  BY DEF None, Results, Kinds

\* Nobody is in a driver that is not there.
Away == ~live => \A p \in Procs : pc[p] = "idle" /\ ~file[p]

\* What a process keeps true of its own values: it has none while it makes no
\* call, and copies stay inside what strnlen() measured and strlcpy() may store.
Sane(p) ==
  /\ pc[p] = "idle" => pos[p] = 0 /\ out[p] = None
  /\ pc[p] \in {"idle", "r_scan"} => got[p] = << >>
  /\ out[p][1] = "read" => pc[p] = "done"
  /\ pc[p] = "r_copy" => pos[p] <= slen[p]
  /\ pc[p] \in {"w_byte", "w_load", "w_stat"} => Len(kbuf[p]) \in 1..MAXBYTES
  /\ pc[p] = "w_byte" => pos[p] <= Strlcpy(kbuf[p])

Base == Types /\ Away /\ \A p \in Procs : Sane(p)

\* The two bounds are numbers.
LEMMA Bounds == MAXBYTES \in Nat \ {0} /\ MaxCalls \in Nat
  BY PlainAssumption

\* What Base says of the buffer of a process that stores it.
LEMMA StoreFits ==
  ASSUME Base, NEW p \in Procs, pc[p] = "w_byte"
  PROVE  /\ kbuf[p] \in Seq(Bytes) /\ Len(kbuf[p]) \in 1..MAXBYTES
         /\ Strlcpy(kbuf[p]) \in 0..Len(kbuf[p])-1
         /\ pos[p] \in 0..Strlcpy(kbuf[p])
         /\ \A i \in 1..Strlcpy(kbuf[p]) : kbuf[p][i] \in Chars
  <1>1. kbuf[p] \in Seq(Bytes) /\ Len(kbuf[p]) \in 1..MAXBYTES /\ pos[p] \in 0..MAXBYTES
        /\ pos[p] <= Strlcpy(kbuf[p])
    BY DEF Base, Types, Locals, Sane
  <1>2. QED
    BY <1>1, StrlcpyFits, PlainAssumption

-----------------------------------------------------------------------------
(* Base is inductive *)

\* A fresh context holds a string that fits it.
LEMMA StoredFits ==
  /\ Stored(InitMsg) \in [Index -> Bytes]
  /\ Stored(InitMsg)[MAXBYTES - 1] = NUL
  /\ \A i \in Index : Stored(InitMsg)[i] = IF i < Len(InitMsg) THEN InitMsg[i + 1] ELSE NUL
  <1>1. Len(InitMsg) \in Nat /\ \A i \in 1..Len(InitMsg) : InitMsg[i] \in Chars
    BY PlainAssumption, LenProperties, ElementOfSeq
  <1>2. MAXBYTES - 1 \in Index /\ Index \subseteq Nat
    BY PlainAssumption DEF Index
  <1>3. QED
    BY <1>1, <1>2, PlainAssumption DEF Stored, Bytes, Index

\* What a process leaves alone while another makes a step of a call.
Others(p) ==
  /\ live' = live /\ file' = file
  /\ \A q \in Procs \ {p} :
       /\ pc'[q] = pc[q] /\ pos'[q] = pos[q] /\ slen'[q] = slen[q]
       /\ kbuf'[q] = kbuf[q] /\ got'[q] = got[q] /\ out'[q] = out[q]
       /\ reg'[q] = reg[q]

\* A step of a call concerns the process that makes it only.
LEMMA LocalStep ==
  ASSUME Base, NEW p \in Procs, pc[p] # "idle" \/ file[p], Types', Others(p), Sane(p)'
  PROVE  Base'
  <1>1. Away'
    BY DEF Base, Away, Others
  <1>2. \A q \in Procs \ {p} : Sane(q)'
    BY DEF Base, Sane, Others
  <1>3. QED
    BY <1>1, <1>2 DEF Base

\* insmod, rmmod, open and close.
LEMMA LifeBase ==
  ASSUME Base, Insert \/ Remove \/ \E p \in Procs : OpenClose(p)
  PROVE  Base'
  <1>1. UNCHANGED <<pc, kbuf, pos, slen, got, reg, out, calm>>
    BY DEF Insert, Remove, OpenClose, locvars, hisvars
  <1>2. Types'
    <2>1. CASE Insert
      <3>1. secret' \in [Index -> Bytes] /\ Terminated'
        BY <2>1, StoredFits DEF Insert, Terminated
      <3>2. QED
        BY <1>1, <2>1, <3>1, PlainAssumption DEF Insert, Base, Types, Shared, Locals
    <2>2. CASE ~ Insert
      BY <1>1, <2>2 DEF Remove, OpenClose, memvars, hisvars, Terminated, Base, Types, Shared, Locals
    <2>3. QED
      BY <2>1, <2>2
  <1>3. Away'
    BY <1>1 DEF Insert, Remove, OpenClose, Base, Away
  <1>4. \A p \in Procs : Sane(p)'
    BY <1>1 DEF Base, Sane
  <1>5. QED
    BY <1>2, <1>3, <1>4 DEF Base

\* Beginning a call.
LEMMA CallBase ==
  ASSUME Base, NEW p \in Procs, Read(p) \/ Write(p) \/ WriteRefused(p) \/ WriteOverruns(p)
  PROVE  Base'
  <1>0. Types /\ Sane(p) /\ file[p] /\ pc[p] = "idle"
    BY DEF Base, Read, Write, WriteRefused, WriteOverruns, Go, Finish
  <1> USE Bounds DEF Go, Call, memvars, locvars, hisvars
  <1>1. CASE Read(p)
    <2>1. Types'
      <3>1. Shared'
        BY <1>0, <1>1 DEF Read, Types, Shared, Terminated
      <3>2. Locals'
        BY <1>0, <1>1, ResultTypes DEF Kinds, Read, Types, Locals, Steps
      <3>3. QED
        BY <3>1, <3>2 DEF Types
    <2>2. Sane(p)' /\ Others(p)
      BY <1>0, <1>1 DEF Read, Types, Locals, Sane, Others
    <2>3. QED
      BY <1>0, <2>1, <2>2, LocalStep
  <1>2. CASE Write(p)
    <2>1. PICK b \in Buffers : Len(b) \in 1..MAXBYTES /\ kbuf' = [kbuf EXCEPT ![p] = b]
      BY <1>2 DEF Write
    <2>2. b \in Seq(Bytes) /\ kbuf'[p] = b /\ Strlcpy(b) \in Nat
      BY <1>0, <2>1, StrlcpyFits, PlainAssumption DEF Types, Locals
    <2>3. Types'
      <3>1. Shared'
        BY <1>0, <1>2, <2>1, <2>2 DEF Write, Types, Shared, Terminated
      <3>2. Locals'
        BY <1>0, <1>2, <2>1, <2>2, ResultTypes DEF Kinds, Write, Types, Locals, Steps
      <3>3. QED
        BY <3>1, <3>2 DEF Types
    <2>4. Sane(p)' /\ Others(p)
      BY <1>0, <1>2, <2>1, <2>2 DEF Write, Types, Locals, Sane, Others
    <2>5. QED
      BY <1>0, <2>3, <2>4, LocalStep
  <1>3. CASE WriteRefused(p)
    <2>0. \A b \in Buffers : Len(b) \in Nat
      BY PlainAssumption, LenProperties
    <2>1. PICK o \in {"refused", "ENOMEM", "EFAULT"} \X Nat : Finish(p, "idle", o)
      BY <1>3, <2>0 DEF WriteRefused
    <2>2. Types'
      <3>1. Shared'
        BY <1>0, <1>3, <2>1 DEF WriteRefused, Finish, Types, Shared, Terminated
      <3>2. Locals'
        BY <1>0, <1>3, <2>1, ResultTypes DEF Kinds, WriteRefused, Finish, Types, Locals, Steps
      <3>3. QED
        BY <3>1, <3>2 DEF Types
    <2>3. Sane(p)' /\ Others(p)
      BY <1>0, <1>3, <2>1 DEF WriteRefused, Finish, Types, Locals, Sane, Others
    <2>4. QED
      BY <1>0, <2>2, <2>3, LocalStep
  <1>4. CASE WriteOverruns(p)
    <2>1. Types'
      <3>1. Shared'
        BY <1>0, <1>4 DEF WriteOverruns, Types, Shared, Terminated
      <3>2. Locals'
        BY <1>0, <1>4, ResultTypes DEF Kinds, WriteOverruns, Types, Locals, Steps
      <3>3. QED
        BY <3>1, <3>2 DEF Types
    <2>2. Sane(p)' /\ Others(p)
      BY <1>0, <1>4 DEF WriteOverruns, Types, Locals, Sane, Others
    <2>3. QED
      BY <1>0, <2>1, <2>2, LocalStep
  <1>5. QED
    BY <1>1, <1>2, <1>3, <1>4

\* read(), byte by byte, and the return to the process.
LEMMA ReadBase ==
  ASSUME Base, NEW p \in Procs, ReadSteps(p) \/ Return(p)
  PROVE  Base'
  <1> USE Bounds DEF Go, Finish, Same, memvars, hisvars
  <1>0. Types /\ Sane(p) /\ pc[p] # "idle"
    BY DEF Base, ReadSteps, Scan, ReadRefused, ReadLen, ReadByte, ReadFault, ReadLoad,
           ReadStat, Return
  <1>1. Others(p)
    BY <1>0 DEF Types, Locals, Others, ReadSteps, Scan, ReadRefused, ReadLen, ReadByte, ReadFault,
                ReadLoad, ReadStat, Return
  <1>2. CASE Scan(p)
    <2>1. Types'
      <3>1. Shared'
        BY <1>0, <1>2 DEF Scan, Types, Shared, Terminated
      <3>2. Locals'
        BY <1>0, <1>2, ResultTypes DEF Kinds, Scan, Types, Locals, Steps
      <3>3. QED
        BY <3>1, <3>2 DEF Types
    <2>2. Sane(p)'
      BY <1>0, <1>2 DEF Scan, Types, Locals, Sane
    <2>3. QED
      BY <1>0, <1>1, <2>1, <2>2, LocalStep
  <1>3. CASE ReadRefused(p)
    <2>1. Types'
      <3>1. Shared'
        BY <1>0, <1>3 DEF ReadRefused, Types, Shared, Terminated
      <3>2. Locals'
        BY <1>0, <1>3, ResultTypes DEF Kinds, ReadRefused, Types, Locals, Steps
      <3>3. QED
        BY <3>1, <3>2 DEF Types
    <2>2. Sane(p)'
      BY <1>0, <1>3 DEF ReadRefused, Types, Locals, Sane
    <2>3. QED
      BY <1>0, <1>1, <2>1, <2>2, LocalStep
  <1>4. CASE ReadLen(p)
    <2>1. Types'
      <3>1. Shared'
        BY <1>0, <1>4 DEF ReadLen, Types, Shared, Terminated
      <3>2. Locals'
        BY <1>0, <1>4, ResultTypes DEF Kinds, ReadLen, Types, Locals, Steps
      <3>3. QED
        BY <3>1, <3>2 DEF Types
    <2>2. Sane(p)'
      BY <1>0, <1>4 DEF ReadLen, Types, Locals, Sane
    <2>3. QED
      BY <1>0, <1>1, <2>1, <2>2, LocalStep
  <1>5. CASE ReadByte(p)
    <2>0. secret[pos[p]] \in Bytes
      BY <1>0, <1>5 DEF ReadByte, Types, Shared, Locals, Index
    <2>1. Append(got[p], secret[pos[p]]) \in Seq(Bytes)
      BY <1>0, <2>0, AppendProperties DEF Types, Locals
    <2>2. Types'
      <3>1. Shared'
        BY <1>0, <1>5, <2>1 DEF ReadByte, Types, Shared, Terminated
      <3>2. Locals'
        BY <1>0, <1>5, <2>1, ResultTypes DEF Kinds, ReadByte, Types, Locals, Steps
      <3>3. QED
        BY <3>1, <3>2 DEF Types
    <2>3. Sane(p)'
      BY <1>0, <1>5 DEF ReadByte, Types, Locals, Sane
    <2>4. QED
      BY <1>0, <1>1, <2>2, <2>3, LocalStep
  <1>6. CASE ReadFault(p)
    <2>1. Types'
      <3>1. Shared'
        BY <1>0, <1>6 DEF ReadFault, Types, Shared, Terminated
      <3>2. Locals'
        BY <1>0, <1>6, ResultTypes DEF Kinds, ReadFault, Types, Locals, Steps
      <3>3. QED
        BY <3>1, <3>2 DEF Types
    <2>2. Sane(p)'
      BY <1>0, <1>6 DEF ReadFault, Types, Locals, Sane
    <2>3. QED
      BY <1>0, <1>1, <2>1, <2>2, LocalStep
  <1>7. CASE ReadLoad(p)
    <2>1. Types'
      <3>1. Shared'
        <4>1. slen[p] \in Nat /\ handed + slen[p] \in Nat
          BY <1>0 DEF Types, Locals, Shared
        <4>2. QED
          BY <1>0, <1>7, <4>1 DEF ReadLoad, Types, Shared, Terminated
      <3>2. Locals'
        BY <1>0, <1>7, ResultTypes DEF Kinds, ReadLoad, Types, Shared, Locals, Steps
      <3>3. QED
        BY <3>1, <3>2 DEF Types
    <2>2. Sane(p)'
      BY <1>0, <1>7 DEF ReadLoad, Types, Locals, Sane
    <2>3. QED
      BY <1>0, <1>1, <2>1, <2>2, LocalStep
  <1>8. CASE ReadStat(p)
    <2>1. Types'
      <3>1. Shared'
        <4>1. reg[p] + slen[p] \in Nat
          BY <1>0 DEF Types, Locals
        <4>2. QED
          BY <1>0, <1>8, <4>1 DEF ReadStat, Types, Shared, Terminated
      <3>2. Locals'
        BY <1>0, <1>8, ResultTypes DEF Kinds, ReadStat, Types, Locals, Steps
      <3>3. QED
        BY <3>1, <3>2 DEF Types
    <2>2. Sane(p)'
      BY <1>0, <1>8 DEF ReadStat, Types, Locals, Sane
    <2>3. QED
      BY <1>0, <1>1, <2>1, <2>2, LocalStep
  <1>9. CASE Return(p)
    <2>1. Types'
      <3>1. Shared'
        BY <1>0, <1>9, EmptySeq DEF Return, Types, Shared, Terminated
      <3>2. Locals'
        BY <1>0, <1>9, EmptySeq, ResultTypes DEF Kinds, Return, Types, Locals, Steps
      <3>3. QED
        BY <3>1, <3>2 DEF Types
    <2>2. Sane(p)'
      BY <1>0, <1>9 DEF Return, Types, Locals, Sane, None
    <2>3. QED
      BY <1>0, <1>1, <2>1, <2>2, LocalStep
  <1>10. QED
    BY <1>2, <1>3, <1>4, <1>5, <1>6, <1>7, <1>8, <1>9 DEF ReadSteps

\* write(): whatever the others store at the same time, the bytes before the last
\* are all it touches, but for the NUL that may go there.
LEMMA WriteBase ==
  ASSUME Base, NEW p \in Procs, WriteSteps(p)
  PROVE  Base'
  <1> USE Bounds DEF Go, Finish, Same, hisvars
  <1>0. Types /\ Sane(p) /\ pc[p] # "idle"
    BY DEF Base, WriteSteps, WriteByte, WriteNul, WriteLoad, WriteStat
  <1>1. Others(p)
    BY <1>0 DEF Types, Locals, Others, WriteSteps, WriteByte, WriteNul, WriteLoad, WriteStat,
                locvars, memvars
  <1>2. Len(kbuf[p]) \in Nat
    BY <1>0, LenProperties DEF Types, Locals
  <1>3. pc[p] = "w_byte" =>
          /\ kbuf[p] \in Seq(Bytes) /\ Len(kbuf[p]) \in 1..MAXBYTES
          /\ Strlcpy(kbuf[p]) \in 0..Len(kbuf[p])-1
          /\ pos[p] \in 0..Strlcpy(kbuf[p])
          /\ \A i \in 1..Strlcpy(kbuf[p]) : kbuf[p][i] \in Chars
    BY StoreFits
  <1>4. CASE WriteByte(p)
    <2>0. pc[p] = "w_byte" /\ pos[p] < Strlcpy(kbuf[p])
      BY <1>4 DEF WriteByte
    <2>1. /\ pos[p] \in Index /\ pos[p] # MAXBYTES - 1 /\ MAXBYTES - 1 \in Index
          /\ pos[p] + 1 \in 1..Strlcpy(kbuf[p]) /\ pos[p] + 1 \in 0..MAXBYTES
      BY <1>3, <2>0 DEF Index
    <2>2. kbuf[p][pos[p] + 1] \in Bytes
      BY <1>3, <2>0, <2>1 DEF Bytes
    <2>3. secret' \in [Index -> Bytes] /\ Terminated'
      BY <1>0, <1>4, <2>1, <2>2 DEF WriteByte, Terminated, Types, Shared, Locals
    <2>4. Types'
      <3>1. Shared'
        BY <1>0, <1>4, <2>1, <2>3 DEF WriteByte, Types, Shared
      <3>2. Locals'
        BY <1>0, <1>4, <2>1, <2>3, ResultTypes DEF Kinds, WriteByte, Types, Locals, Steps
      <3>3. QED
        BY <3>1, <3>2 DEF Types
    <2>5. Sane(p)'
      BY <1>0, <1>3, <1>4, <2>1 DEF WriteByte, Types, Locals, Sane
    <2>6. QED
      BY <1>0, <1>1, <2>4, <2>5, LocalStep
  <1>5. CASE WriteNul(p)
    <2>0. pc[p] = "w_byte" /\ pos[p] = Strlcpy(kbuf[p])
      BY <1>5 DEF WriteNul
    <2>1. pos[p] \in Index /\ MAXBYTES - 1 \in Index
      BY <1>3, <2>0 DEF Index
    <2>2. secret' \in [Index -> Bytes] /\ Terminated'
      BY <1>0, <1>5, <2>1 DEF WriteNul, Terminated, Types, Shared, Locals, Bytes
    <2>3. SubSeq(kbuf[p], 1, pos[p]) \in Seq(Chars)
      BY <1>3, <2>0, SubSeqProperties
    <2>4. Types'
      <3>1. Shared'
        BY <1>0, <1>5, <2>2, <2>3 DEF WriteNul, Types, Shared, locvars
      <3>2. Locals'
        BY <1>0, <1>5, <2>2, <2>3, ResultTypes DEF Kinds, WriteNul, Types, Locals, Steps, locvars
      <3>3. QED
        BY <3>1, <3>2 DEF Types
    <2>5. Sane(p)'
      BY <1>0, <1>3, <1>5 DEF WriteNul, Types, Locals, Sane, locvars
    <2>6. QED
      BY <1>0, <1>1, <2>4, <2>5, LocalStep
  <1>6. CASE WriteLoad(p)
    <2>1. Types'
      <3>1. Shared'
        BY <1>0, <1>2, <1>6 DEF WriteLoad, Types, Shared, memvars, Terminated
      <3>2. Locals'
        BY <1>0, <1>2, <1>6, ResultTypes DEF Kinds, WriteLoad, Types, Shared, Locals, Steps, memvars
      <3>3. QED
        BY <3>1, <3>2 DEF Types
    <2>2. Sane(p)'
      BY <1>0, <1>6 DEF WriteLoad, Types, Locals, Sane
    <2>3. QED
      BY <1>0, <1>1, <2>1, <2>2, LocalStep
  <1>7. CASE WriteStat(p)
    <2>1. Types'
      <3>1. Shared'
        <4>1. reg[p] + Len(kbuf[p]) \in Nat
          BY <1>0, <1>2 DEF Types, Locals
        <4>2. QED
          BY <1>0, <1>7, <4>1 DEF WriteStat, Types, Shared, Terminated
      <3>2. Locals'
        BY <1>0, <1>2, <1>7, ResultTypes DEF Kinds, WriteStat, Types, Locals, Steps
      <3>3. QED
        BY <3>1, <3>2 DEF Types
    <2>2. Sane(p)'
      BY <1>0, <1>7 DEF WriteStat, Types, Locals, Sane
    <2>3. QED
      BY <1>0, <1>1, <2>1, <2>2, LocalStep
  <1>8. QED
    BY <1>4, <1>5, <1>6, <1>7 DEF WriteSteps

\* The start, and all steps together.
LEMMA BaseInductive ==
  /\ Init => Base
  /\ Base /\ [Next]_vars => Base'
  <1>1. ASSUME Init PROVE Base
    <2>1. Shared
      <3>1. secret \in [Index -> Bytes] /\ secret[MAXBYTES - 1] = NUL
        BY <1>1, StoredFits DEF Init
      <3>2. last \in Seq(Chars)
        BY <1>1, PlainAssumption DEF Init
      <3>3. /\ live = FALSE /\ serial = TRUE /\ calls = 0
            /\ tx = 0 /\ rx = 0 /\ handed = 0 /\ taken = 0
        BY <1>1 DEF Init
      <3>4. live \in BOOLEAN /\ serial \in BOOLEAN
        BY <3>3
      <3>5. calls \in 0..MaxCalls
        BY <3>3, Bounds
      <3>6. QED
        BY <3>1, <3>2, <3>3, <3>4, <3>5 DEF Shared, Terminated
    <2>2. Locals
      BY <1>1, Bounds, ResultTypes, EmptySeq DEF Init, Locals, Steps, Local
    <2>3. Types
      BY <2>1, <2>2 DEF Types
    <2>4. Away /\ \A p \in Procs : Sane(p)
      BY <1>1 DEF Init, Away, Sane, Local, None
    <2>5. QED
      BY <2>3, <2>4 DEF Base
  <1>2. ASSUME Base, [Next]_vars PROVE Base'
    <2>1. CASE UNCHANGED vars
      BY <1>2, <2>1 DEF vars, memvars, locvars, hisvars, Base, Types, Shared, Locals, Away, Sane, Terminated
    <2>2. CASE Next
      BY <1>2, <2>2, LifeBase, CallBase, ReadBase, WriteBase DEF Next, Calls
    <2>3. QED
      BY <1>2, <2>1, <2>2
  <1>3. QED
    BY <1>1, <1>2

-----------------------------------------------------------------------------
(* The statistics *)

\* Between its load and its store an update knows a sum that is not too large.
NotInvented ==
  \A p \in Procs : /\ pc[p] = "r_stat" => reg[p] + slen[p] <= handed
                   /\ pc[p] = "w_stat" => reg[p] + Len(kbuf[p]) <= taken

StatsInv == Base /\ StatsUndercount /\ NotInvented

\* No step stores more than has been copied, whatever it has loaded before.
LEMMA StatsInductive ==
  ASSUME StatsInv, Base', [Next]_vars
  PROVE  StatsInv'
  <1> DEFINE Num(p) == slen[p] \in Nat /\ reg[p] \in Nat /\ Len(kbuf[p]) \in Nat
  <1>0. /\ tx \in Nat /\ rx \in Nat /\ handed \in Nat /\ taken \in Nat
        /\ \A p \in Procs : Num(p)
    BY LenProperties DEF StatsInv, Base, Types, Shared, Locals
  <1> USE DEF StatsInv
  <1>1. CASE Insert
    <2>1. \A p \in Procs : pc'[p] = "idle"
      BY <1>1 DEF Insert, Base, Away
    <2>2. QED
      BY <1>1, <2>1 DEF Insert, StatsUndercount, NotInvented
  <1>2. ASSUME NEW p \in Procs, ReadLoad(p) PROVE StatsInv'
    <2>1. /\ reg'[p] = tx /\ handed' = handed + slen[p] /\ Others(p)
          /\ UNCHANGED <<tx, rx, taken, slen, kbuf>>
          /\ pc'[p] = "r_stat"
      BY <1>2 DEF ReadLoad, Go, Same, memvars, Others, Base, Types, Locals
    <2>2. QED
      BY <1>0, <2>1 DEF StatsUndercount, NotInvented, Others
  <1>3. ASSUME NEW p \in Procs, WriteLoad(p) PROVE StatsInv'
    <2>1. /\ reg'[p] = rx /\ taken' = taken + Len(kbuf[p]) /\ Others(p)
          /\ UNCHANGED <<tx, rx, handed, slen, kbuf>>
          /\ pc'[p] = "w_stat"
      BY <1>3 DEF WriteLoad, Go, Same, memvars, Others, Base, Types, Locals
    <2>2. QED
      BY <1>0, <2>1 DEF StatsUndercount, NotInvented, Others
  <1>4. ASSUME NEW p \in Procs, ReadStat(p) \/ WriteStat(p) PROVE StatsInv'
    <2>1. /\ Others(p) /\ pc'[p] = "done" /\ UNCHANGED <<handed, taken, slen, kbuf>>
          /\ \/ pc[p] = "r_stat" /\ tx' = reg[p] + slen[p] /\ rx' = rx
             \/ pc[p] = "w_stat" /\ rx' = reg[p] + Len(kbuf[p]) /\ tx' = tx
      BY <1>4 DEF ReadStat, WriteStat, Finish, Go, Same, hisvars, Others, Base, Types, Locals
    <2>2. QED
      BY <2>1 DEF StatsUndercount, NotInvented, Others
  <1>5. CASE /\ ~ Insert
             /\ \A p \in Procs : ~ ReadLoad(p) /\ ~ ReadStat(p)
                                 /\ ~ WriteLoad(p) /\ ~ WriteStat(p)
    <2>1. UNCHANGED <<tx, rx, handed, taken>>
      BY <1>5 DEF Next, vars, Remove, Calls, OpenClose, Read, Write, WriteRefused,
           WriteOverruns, ReadSteps, Scan, ReadRefused, ReadLen, ReadByte, ReadFault,
           WriteSteps, WriteByte, WriteNul, Return, memvars, hisvars
    <2>2. ASSUME NEW p \in Procs, pc'[p] \in {"r_stat", "w_stat"}
          PROVE  pc'[p] = pc[p] /\ reg'[p] = reg[p] /\ slen'[p] = slen[p] /\ kbuf'[p] = kbuf[p]
      <3>1. CASE Remove \/ UNCHANGED vars \/ \E q \in Procs : OpenClose(q)
        BY <3>1 DEF Remove, OpenClose, vars, locvars
      <3>2. ASSUME NEW q \in Procs, Read(q) \/ Write(q) \/ WriteRefused(q) \/ WriteOverruns(q)
            PROVE  Others(q) /\ pc'[q] \in {"r_scan", "w_byte", "done", "oops"}
        BY <3>2 DEF Read, Write, WriteRefused, WriteOverruns, locvars, Finish, Go, Others,
             Base, Types, Locals
      <3>3. ASSUME NEW q \in Procs, ReadSteps(q) \/ Return(q)
            PROVE  Others(q) /\ pc'[q] \in {"r_scan", "r_copy", "done", "idle"}
        <4>1. CASE Scan(q) \/ ReadRefused(q) \/ ReadLen(q)
          BY <4>1 DEF Scan, ReadRefused, ReadLen, Same, Finish, Go, Others, Base, Types, Locals
        <4>2. CASE ReadByte(q) \/ ReadFault(q)
          BY <4>2 DEF ReadByte, ReadFault, Same, Finish, Go, Others, Base, Types, Locals
        <4>3. CASE Return(q)
          BY <4>3 DEF Return, Same, Go, Others, Base, Types, Locals
        <4>4. QED
          BY <1>5, <3>3, <4>1, <4>2, <4>3 DEF ReadSteps
      <3>4. ASSUME NEW q \in Procs, WriteSteps(q)
            PROVE  Others(q) /\ pc'[q] \in {"w_byte", "w_load"}
        BY <1>5, <3>4 DEF WriteSteps, WriteByte, WriteNul, locvars, Same, Go, Others,
             Base, Types, Locals
      <3>5. QED
        BY <1>5, <2>2, <3>1, <3>2, <3>3, <3>4 DEF Next, Calls, Others
    <2>3. QED
      BY <2>1, <2>2 DEF StatsUndercount, NotInvented
  <1>6. QED
    BY <1>1, <1>2, <1>3, <1>4, <1>5

-----------------------------------------------------------------------------
(* Calls that do not overlap *)

\* The secret is the string stored last.
Holds ==
  /\ Len(last) \in Index /\ secret[Len(last)] = NUL
  /\ \A i \in Index : i < Len(last) => secret[i] = last[i + 1]

\* What a read that no store overlaps has seen so far is of that string.
Knows(p) ==
  /\ pc[p] = "r_scan" => pos[p] <= Len(last)
  /\ pc[p] = "r_copy" => /\ slen[p] = Len(last) /\ Len(got[p]) = pos[p]
                         /\ \A i \in 1..pos[p] : got[p][i] = last[i]
  /\ pc[p] = "r_stat" \/ out[p][1] = "read" => got[p] = last

\* A calm read and a store exclude each other, and so do serial stores; while
\* there is none the secret is whole, and during one its beginning is the writer's.
SerialInv ==
  /\ Base
  /\ \A p, q \in Procs : calm[p] => pc[q] # "w_byte"
  /\ serial =>
       /\ \A p, q \in Procs : pc[p] = "w_byte" /\ pc[q] = "w_byte" => p = q
       /\ (\A p \in Procs : pc[p] # "w_byte") => Holds
       /\ \A p \in Procs : pc[p] = "w_byte" =>
            \A i \in Index : i < pos[p] => secret[i] = kbuf[p][i + 1]
       /\ \A p \in Procs : calm[p] => Knows(p)

\* Types that the steps below need.
LEMMA SerialTypes ==
  ASSUME Base
  PROVE  /\ Len(last) \in Nat /\ Index \subseteq Nat
         /\ \A i \in 1..Len(last) : last[i] \in Chars
         /\ secret \in [Index -> Bytes]
         /\ \A p \in Procs : /\ pos[p] \in 0..MAXBYTES /\ slen[p] \in 0..MAXBYTES
                             /\ kbuf[p] \in Seq(Bytes) /\ got[p] \in Seq(Bytes)
         /\ NUL \notin Chars
  BY Bounds, LenProperties, ElementOfSeq, PlainAssumption
  DEF Base, Types, Shared, Locals, Index

\* A step that stores nothing and leaves the others alone.
LEMMA QuietStep ==
  ASSUME SerialInv, Base', NEW p \in Procs, Others(p),
         UNCHANGED <<secret, last, serial, calm>>,
         pc[p] # "w_byte", pc'[p] # "w_byte",
         serial /\ calm[p] /\ Holds /\ Knows(p) => Knows(p)'
  PROVE  SerialInv'
  <1>1. \A q \in Procs : pc'[q] = "w_byte" <=> pc[q] = "w_byte"
    BY DEF Others
  <1>2. Holds' <=> Holds
    BY DEF Holds
  <1>3. serial => \A q \in Procs : calm[q] => Knows(q)'
    <2> SUFFICES ASSUME serial, NEW q \in Procs, calm[q] PROVE Knows(q)'
      OBVIOUS
    <2>1. Knows(q) /\ Holds
      BY DEF SerialInv
    <2>2. CASE q = p
      BY <2>1, <2>2
    <2>3. CASE q # p
      BY <2>1, <2>3 DEF Knows, Others
    <2>4. QED
      BY <2>2, <2>3
  <1>4. serial => \A q \in Procs : pc[q] = "w_byte" =>
          \A i \in Index : i < pos'[q] => secret[i] = kbuf'[q][i + 1]
    BY DEF SerialInv, Others
  <1>5. QED
    BY <1>1, <1>2, <1>3, <1>4 DEF SerialInv

\* The steps of read(): each adds to what the reader knows.
LEMMA ReadSerial ==
  ASSUME SerialInv, Base', NEW p \in Procs, ReadSteps(p) \/ Return(p)
  PROVE  SerialInv'
  <1>0. Base /\ Sane(p) /\ Sane(p)'
    BY DEF SerialInv, Base
  <1> USE SerialTypes DEF Go, Finish
  <1>1. /\ Others(p) /\ UNCHANGED <<secret, last, serial, calm>>
        /\ pc[p] # "w_byte" /\ pc'[p] # "w_byte"
    <2>1. CASE Scan(p) \/ ReadRefused(p) \/ ReadLen(p)
      BY <1>0, <2>1 DEF Scan, ReadRefused, ReadLen, Same, memvars, hisvars, Others,
           Base, Types, Locals
    <2>2. CASE ReadByte(p) \/ ReadFault(p)
      BY <1>0, <2>2 DEF ReadByte, ReadFault, Same, memvars, hisvars, Others,
           Base, Types, Locals
    <2>3. CASE ReadLoad(p) \/ ReadStat(p)
      BY <1>0, <2>3 DEF ReadLoad, ReadStat, Same, memvars, hisvars, Others,
           Base, Types, Locals
    <2>4. CASE Return(p)
      BY <1>0, <2>4 DEF Return, Same, memvars, hisvars, Others, Base, Types, Locals
    <2>5. QED
      BY <2>1, <2>2, <2>3, <2>4 DEF ReadSteps
  <1>2. ASSUME serial, calm[p], Holds, Knows(p) PROVE Knows(p)'
    <2>1. CASE Scan(p)
      <3>1. /\ pos'[p] = pos[p] + 1 /\ pc'[p] = "r_scan" /\ out'[p] = out[p] /\ last' = last
            /\ pc[p] = "r_scan" /\ pos[p] < MAXBYTES /\ secret[pos[p]] # NUL
        BY <1>0, <1>1, <2>1 DEF Scan, Base, Types, Locals
      <3>2. pos[p] < Len(last)
        BY <1>0, <1>2, <3>1 DEF Knows, Holds
      <3>3. QED
        BY <1>0, <3>1, <3>2 DEF Knows, Sane
    <2>2. CASE ReadRefused(p) \/ ReadFault(p)
      BY <1>0, <2>2 DEF ReadRefused, ReadFault, Knows, Base, Types, Locals
    <2>3. CASE ReadLen(p)
      <3>1. /\ pos'[p] = 0 /\ slen'[p] = pos[p] /\ pc'[p] = "r_copy" /\ out'[p] = out[p]
            /\ last' = last /\ got'[p] = got[p] /\ pc[p] = "r_scan"
            /\ pos[p] = MAXBYTES \/ secret[pos[p]] = NUL
        BY <1>0, <1>1, <2>3 DEF ReadLen, Scanned, Base, Types, Locals
      <3>2. pos[p] = Len(last)
        BY <1>0, <1>2, <3>1, Bounds DEF Knows, Holds, Index
      <3>3. got[p] = << >>
        BY <1>0, <3>1 DEF Sane
      <3>4. QED
        BY <1>0, <3>1, <3>2, <3>3, EmptySeq DEF Knows, Sane
    <2>4. CASE ReadByte(p)
      <3>1. /\ pos'[p] = pos[p] + 1 /\ slen'[p] = slen[p] /\ pc'[p] = "r_copy"
            /\ out'[p] = out[p] /\ last' = last /\ got'[p] = Append(got[p], secret[pos[p]])
            /\ pc[p] = "r_copy" /\ pos[p] < slen[p]
        BY <1>0, <1>1, <2>4 DEF ReadByte, Base, Types, Locals
      <3>2. /\ pos[p] \in Index /\ secret[pos[p]] \in Bytes
            /\ secret[pos[p]] = last[pos[p] + 1]
        BY <1>0, <1>2, <3>1, Bounds DEF Knows, Holds, Index
      <3>3. /\ Len(got'[p]) = pos[p] + 1
            /\ \A i \in 1..pos[p] + 1 : got'[p][i] = last[i]
        BY <1>0, <1>2, <3>1, <3>2, AppendProperties DEF Knows
      <3>4. QED
        BY <1>0, <1>2, <3>1, <3>3 DEF Knows, Sane
    <2>5. CASE ReadLoad(p)
      <3>1. /\ pc'[p] = "r_stat" /\ last' = last /\ got'[p] = got[p]
            /\ pc[p] = "r_copy" /\ pos[p] = slen[p]
        BY <1>0, <1>1, <2>5 DEF ReadLoad, Base, Types, Locals
      <3>2. last \in Seq(Bytes)
        BY <1>0, SeqMonotonic DEF Base, Types, Shared, Bytes
      <3>3. got[p] = last
        BY <1>0, <1>2, <3>1, <3>2, SeqEqual DEF Knows
      <3>4. QED
        BY <3>1, <3>3 DEF Knows
    <2>6. CASE ReadStat(p)
      BY <1>0, <1>1, <1>2, <2>6 DEF ReadStat, Knows, Base, Types, Locals
    <2>7. CASE Return(p)
      BY <1>0, <2>7 DEF Return, Knows, None, Base, Types, Locals
    <2>8. QED
      BY <2>1, <2>2, <2>3, <2>4, <2>5, <2>6, <2>7 DEF ReadSteps
  <1>3. QED
    BY <1>1, <1>2, QuietStep

\* The steps of write(): the only writer stores, and nobody reads calmly.
LEMMA WriteSerial ==
  ASSUME SerialInv, Base', NEW p \in Procs, WriteSteps(p)
  PROVE  SerialInv'
  <1>0. Base /\ Sane(p) /\ Sane(p)'
    BY DEF SerialInv, Base
  <1> USE SerialTypes DEF Go, Finish
  <1>1. CASE WriteByte(p)
    <2>1. /\ pc[p] = "w_byte" /\ pc'[p] = "w_byte" /\ Others(p)
          /\ pos'[p] = pos[p] + 1 /\ kbuf' = kbuf /\ UNCHANGED <<serial, calm>>
          /\ secret' = [secret EXCEPT ![pos[p]] = kbuf[p][pos[p] + 1]]
      BY <1>0, <1>1 DEF WriteByte, Same, hisvars, Others, Base, Types, Locals
    <2>2. \A q \in Procs : ~ calm[q]
      BY <2>1 DEF SerialInv
    <2>3. serial => \A q \in Procs : pc[q] = "w_byte" => q = p
      BY <2>1 DEF SerialInv
    <2>4. serial => \A i \in Index : i < pos'[p] => secret'[i] = kbuf'[p][i + 1]
      BY <1>0, <2>1 DEF SerialInv, Base
    <2>5. QED
      BY <2>1, <2>2, <2>3, <2>4 DEF SerialInv, Others
  <1>2. CASE WriteNul(p)
    <2>1. /\ pc[p] = "w_byte" /\ pc'[p] = "w_load" /\ Others(p)
          /\ pos[p] = Strlcpy(kbuf[p]) /\ UNCHANGED <<serial, calm>>
          /\ secret' = [secret EXCEPT ![pos[p]] = NUL]
          /\ last' = SubSeq(kbuf[p], 1, pos[p])
      BY <1>0, <1>2 DEF WriteNul, Same, hisvars, locvars, Others, Base, Types, Locals
    <2>2. /\ pos[p] \in Index /\ pos[p] \in 0..MAXBYTES-1
          /\ \A i \in 1..pos[p] : kbuf[p][i] \in Chars
      BY <1>0, <2>1, StoreFits, Bounds DEF Index
    <2>3. /\ Len(last') = pos[p]
          /\ \A i \in 1..pos[p] : last'[i] = kbuf[p][i]
      BY <2>1, <2>2, SubSeqProperties
    <2>4. serial => Holds'
      <3> SUFFICES ASSUME serial PROVE Holds'
        OBVIOUS
      <3>1. \A i \in Index : i < pos[p] => secret[i] = kbuf[p][i + 1]
        BY <2>1 DEF SerialInv
      <3>2. \A i \in Index : i < pos[p] => secret'[i] = last'[i + 1]
        <4> SUFFICES ASSUME NEW i \in Index, i < pos[p] PROVE secret'[i] = last'[i + 1]
          OBVIOUS
        <4>1. i + 1 \in 1..pos[p] /\ i # pos[p]
          BY <1>0, <2>2
        <4>2. last'[i + 1] = kbuf[p][i + 1]
          BY <2>3, <4>1
        <4>3. QED
          BY <1>0, <2>1, <3>1, <4>1, <4>2
      <3>3. secret'[pos[p]] = NUL
        BY <1>0, <2>1, <2>2
      <3>4. QED
        BY <2>2, <2>3, <3>2, <3>3 DEF Holds
    <2>5. \A q \in Procs : ~ calm[q]
      BY <2>1 DEF SerialInv
    <2>6. serial => \A q \in Procs : pc'[q] # "w_byte"
      BY <2>1 DEF SerialInv, Others
    <2>7. QED
      BY <2>1, <2>4, <2>5, <2>6 DEF SerialInv
  <1>3. CASE WriteLoad(p) \/ WriteStat(p)
    <2>1. /\ Others(p) /\ UNCHANGED <<secret, last, serial, calm>>
          /\ pc[p] \in {"w_load", "w_stat"} /\ pc'[p] \in {"w_stat", "done"}
      BY <1>0, <1>3 DEF WriteLoad, WriteStat, Same, memvars, hisvars, Others, Base, Types,
           Locals
    <2>2. out'[p][1] # "read"
      BY <1>0, <1>3, <2>1 DEF WriteLoad, WriteStat, Sane, Base, Types, Locals
    <2>3. Knows(p)'
      BY <2>1, <2>2 DEF Knows
    <2>4. QED
      BY <2>1, <2>3, QuietStep
  <1>4. QED
    BY <1>1, <1>2, <1>3 DEF WriteSteps

\* The beginning of a call: a read is calm if nobody stores, a write ends all calm.
LEMMA CallSerial ==
  ASSUME SerialInv, Base', NEW p \in Procs,
         Read(p) \/ Write(p) \/ WriteRefused(p) \/ WriteOverruns(p)
  PROVE  SerialInv'
  <1>0. Base /\ Sane(p)
    BY DEF SerialInv, Base
  <1> USE SerialTypes DEF Go, Finish
  <1>1. CASE Read(p)
    <2>1. /\ pc[p] = "idle" /\ pc' = [pc EXCEPT ![p] = "r_scan"]
          /\ UNCHANGED <<secret, last, serial, pos, slen, kbuf, got, out>>
          /\ calm' = [calm EXCEPT ![p] = \A q \in Procs : pc[q] \notin Storing]
      BY <1>0, <1>1 DEF Read, memvars, locvars
    <2>2. \A q \in Procs : /\ pc'[q] = "w_byte" <=> pc[q] = "w_byte"
                           /\ q # p => pc'[q] = pc[q] /\ (calm'[q] <=> calm[q])
      BY <1>0, <2>1 DEF Base, Types, Locals
    <2>3. calm'[p] => \A q \in Procs : pc[q] # "w_byte"
      BY <1>0, <2>1 DEF Base, Types, Locals, Storing
    <2>4. Knows(p)'
      <3>1. pc'[p] = "r_scan" /\ pos'[p] = 0 /\ out'[p] = None /\ last' = last
        BY <1>0, <2>1 DEF Sane, Base, Types, Locals
      <3>2. QED
        BY <1>0, <3>1 DEF Knows, None
    <2>5. \A q \in Procs \ {p} : Knows(q) => Knows(q)'
      BY <2>1, <2>2 DEF Knows
    <2>6. Holds => Holds'
      BY <2>1 DEF Holds
    <2>7. serial => \A q \in Procs : calm'[q] => Knows(q)'
      BY <2>2, <2>4, <2>5 DEF SerialInv
    <2>8. \A q, r \in Procs : calm'[q] => pc'[r] # "w_byte"
      BY <2>2, <2>3 DEF SerialInv
    <2>9. serial' => /\ \A q, r \in Procs : pc'[q] = "w_byte" /\ pc'[r] = "w_byte" => q = r
                     /\ (\A q \in Procs : pc'[q] # "w_byte") => Holds'
                     /\ \A q \in Procs : pc'[q] = "w_byte" =>
                          \A i \in Index : i < pos'[q] => secret'[i] = kbuf'[q][i + 1]
      BY <2>1, <2>2, <2>6 DEF SerialInv
    <2>10. QED
      BY <2>1, <2>7, <2>8, <2>9 DEF SerialInv
  <1>2. CASE Write(p)
    <2>1. /\ pc' = [pc EXCEPT ![p] = "w_byte"] /\ pos'[p] = 0
          /\ serial' = (serial /\ \A q \in Procs : pc[q] \notin Storing)
          /\ calm' = [q \in Procs |-> FALSE]
      BY <1>0, <1>2 DEF Write, Sane
    <2>2. serial' => \A q \in Procs : pc'[q] = "w_byte" => q = p
      BY <1>0, <2>1 DEF Storing, Base, Types, Locals
    <2>3. pc'[p] = "w_byte" /\ \A q \in Procs : ~ calm'[q]
      BY <1>0, <2>1 DEF Base, Types, Locals
    <2>4. \A i \in Index : ~ (i < pos'[p])
      BY <1>0, <2>1
    <2>5. QED
      BY <2>2, <2>3, <2>4 DEF SerialInv
  <1>3. CASE WriteRefused(p) \/ WriteOverruns(p)
    <2>1. /\ Others(p) /\ UNCHANGED <<secret, last, serial, calm>>
          /\ pc[p] = "idle" /\ pc'[p] \in {"done", "oops"}
      BY <1>0, <1>3 DEF WriteRefused, WriteOverruns, memvars, hisvars, locvars, Others,
           Base, Types, Locals
    <2>2. out'[p][1] # "read"
      BY <1>0, <1>3 DEF WriteRefused, WriteOverruns, locvars, None, Sane, Base, Types, Locals
    <2>3. Knows(p)'
      BY <2>1, <2>2 DEF Knows
    <2>4. QED
      BY <2>1, <2>3, QuietStep
  <1>4. QED
    BY <1>1, <1>2, <1>3

\* A fresh context holds "initmsg".
LEMMA FreshHolds ==
  ASSUME secret = Stored(InitMsg), last = InitMsg
  PROVE  Holds
  <1>1. Len(InitMsg) \in Index /\ Index \subseteq Nat
    BY PlainAssumption, Bounds, LenProperties DEF Index
  <1>2. QED
    BY <1>1, StoredFits, PlainAssumption DEF Holds

\* insmod: a fresh context, which nobody uses.
LEMMA InsertSerial ==
  ASSUME SerialInv, Base', Insert
  PROVE  SerialInv'
  <1>1. \A p \in Procs : pc'[p] = "idle" /\ Sane(p)'
    BY DEF Insert, SerialInv, Base, Away
  <1>2. \A p \in Procs : Knows(p)'
    BY <1>1 DEF Knows, Sane, None
  <1>3. secret' = Stored(InitMsg) /\ last' = InitMsg
    BY DEF Insert
  <1>4. Len(InitMsg) \in Index /\ Index \subseteq Nat
    BY PlainAssumption, Bounds, LenProperties DEF Index
  <1>5. Holds'
    BY <1>3, <1>4, StoredFits, PlainAssumption DEF Holds
  <1>6. QED
    BY <1>1, <1>2, <1>5 DEF SerialInv

\* rmmod, open and close.
LEMMA LifeSerial ==
  ASSUME SerialInv, Base', Remove \/ UNCHANGED vars \/ \E p \in Procs : OpenClose(p)
  PROVE  SerialInv'
  <1>1. UNCHANGED <<secret, last, serial, calm, pc, pos, slen, got, out, kbuf>>
    BY DEF Remove, OpenClose, vars, memvars, locvars, hisvars
  <1>2. QED
    BY <1>1 DEF SerialInv, Holds, Knows

-----------------------------------------------------------------------------
(* Theorems *)

\* Statistics, history and calls stay as StatsInv and SerialInv say.
LEMMA Invariant == Spec => [](StatsInv /\ SerialInv)
  <1>1. Init => StatsInv /\ SerialInv
    <2> SUFFICES ASSUME Init PROVE StatsInv /\ SerialInv
      OBVIOUS
    <2>1. Base
      BY BaseInductive
    <2>2. Holds
      BY FreshHolds DEF Init
    <2>3. SerialInv
      BY <2>1, <2>2 DEF Init, Local, SerialInv
    <2>4. StatsUndercount /\ NotInvented
      BY DEF Init, StatsUndercount, NotInvented, Local
    <2>5. QED
      BY <2>1, <2>3, <2>4 DEF StatsInv
  <1>2. StatsInv /\ SerialInv /\ [Next]_vars => (StatsInv /\ SerialInv)'
    <2> SUFFICES ASSUME StatsInv, SerialInv, [Next]_vars PROVE (StatsInv /\ SerialInv)'
      OBVIOUS
    <2>1. Base'
      BY BaseInductive DEF StatsInv
    <2>2. StatsInv'
      BY <2>1, StatsInductive
    <2>3. SerialInv'
      BY <2>1, InsertSerial, LifeSerial, CallSerial, ReadSerial, WriteSerial DEF Next, Calls
    <2>4. QED
      BY <2>2, <2>3
  <1>3. QED
    BY <1>1, <1>2, PTL DEF Spec

\* Every variable keeps its type, and the last byte of the secret is NUL at every
\* moment of every race: no strnlen() runs out of the buffer.
THEOREM TypeCorrect == Spec => []TypeOK
  <1>1. StatsInv => TypeOK
    BY TypesImply DEF StatsInv, Base
  <1>2. QED
    BY <1>1, Invariant, PTL

\* Lost updates can only make the statistics too small.
THEOREM StatsCorrect == Spec => []StatsUndercount
  <1>1. StatsInv => StatsUndercount
    BY DEF StatsInv
  <1>2. QED
    BY <1>1, Invariant, PTL

\* A read that no store overlaps returns what was written last, as long as the
\* writes were serial.
THEOREM ReadsCorrect == Spec => []SerialReads
  <1>1. SerialInv => SerialReads
    BY DEF SerialInv, SerialReads, Knows
  <1>2. QED
    BY <1>1, Invariant, PTL
=============================================================================
