---------------------------- MODULE PlainDriver ----------------------------
(***************************************************************************)
(* The misc driver of ch14/miscdrv_rdwr, which has no lock at all.  The    *)
(* secret is modelled byte by byte, since concurrent calls interleave at   *)
(* bytes, and `+=' is a load and a store.  The counters ga and gb ("ignore *)
(* for now") are never read and are left out.                              *)
(***************************************************************************)
EXTENDS Integers, Sequences, FiniteSets

CONSTANTS
  Procs,      \* user processes, each with at most one descriptor
  Chars,      \* characters
  NUL,        \* the terminator
  MAXBYTES,   \* size of ctx->oursecret
  InitMsg,    \* "initmsg"
  Buffers,    \* what a process may write: sequences of characters and NULs
  ReadCounts, \* the `count' arguments of read(2)
  MaxCalls    \* bound: reads and writes made between insmod and rmmod

Bytes == Chars \cup {NUL}

ASSUME PlainAssumption ==
  /\ NUL \notin Chars
  /\ MAXBYTES \in Nat \ {0}
  /\ InitMsg \in Seq(Chars) /\ Len(InitMsg) < MAXBYTES
  /\ Buffers \subseteq Seq(Bytes)
  /\ ReadCounts \subseteq Nat /\ MaxCalls \in Nat

VARIABLES
  live,     \* the module is in
  secret,   \* secret[i]: byte i of ctx->oursecret
  tx, rx,   \* ctx->tx, ctx->rx
  pc, file, \* where each process is; whether it has a descriptor
  kbuf,     \* the kernel's copy of what a process writes
  pos,      \* where a running strnlen() or copy is
  slen,     \* read's local secret_len
  got,      \* what copy_to_user has put in the process's buffer
  reg,      \* the value loaded by a running `+='
  out,      \* what the last call returned
  calls,    \* reads and writes made so far
  last,     \* history: the string stored last
  serial,   \* history: no two calls have stored at the same time
  calm,     \* calm[p]: no store has overlapped p's read
  handed, taken  \* history: bytes copied to and from processes

memvars == <<secret, tx, rx>>
locvars == <<kbuf, pos, slen, got, reg, out>>
hisvars == <<last, serial, calm, handed, taken>>
vars == <<live, memvars, pc, file, locvars, calls, hisvars>>

Index  == 0..MAXBYTES-1
Storing == {"w_byte"}

\* However writers trample on each other, the last byte of the secret stays
\* NUL: strnlen() always ends inside the buffer.
Terminated == secret[MAXBYTES - 1] = NUL

TypeOK ==
  /\ live \in BOOLEAN
  /\ secret \in [Index -> Bytes] /\ Terminated
  /\ {tx, rx, handed, taken} \subseteq Nat
  /\ pc \in [Procs -> Storing \cup {"idle", "done", "oops", "r_scan", "r_copy",
                                    "r_stat", "w_load", "w_stat"}]
  /\ file \in [Procs -> BOOLEAN]
  /\ \A p \in Procs : kbuf[p] \in Seq(Bytes) /\ got[p] \in Seq(Bytes)
  /\ pos \in [Procs -> 0..MAXBYTES] /\ slen \in [Procs -> 0..MAXBYTES]
  /\ reg \in [Procs -> Nat]
  /\ \A p \in Procs : out[p][2] \in Nat
  /\ calls \in 0..MaxCalls
  /\ last \in Seq(Chars) /\ serial \in BOOLEAN
  /\ calm \in [Procs -> BOOLEAN]

None == <<"none", 0>>
Local(v) == [p \in Procs |-> v]

\* devm_kzalloc() and strlcpy(ctx->oursecret, "initmsg", 8).
Stored(s) == [i \in Index |-> IF i < Len(s) THEN s[i + 1] ELSE NUL]

Init ==
  /\ live = FALSE
  /\ secret = Stored(InitMsg) /\ last = InitMsg
  /\ tx = 0 /\ rx = 0 /\ handed = 0 /\ taken = 0
  /\ pc = Local("idle") /\ file = Local(FALSE)
  /\ kbuf = Local(<< >>) /\ got = Local(<< >>)
  /\ pos = Local(0) /\ slen = Local(0) /\ reg = Local(0)
  /\ out = Local(None)
  /\ calls = 0 /\ serial = TRUE /\ calm = Local(FALSE)

-----------------------------------------------------------------------------
(* insmod, rmmod, open and close, made while nobody else uses the device:    *)
(* misc_deregister() frees ctx, which belongs to the device.                 *)

Insert ==
  /\ ~live /\ live' = TRUE
  /\ secret' = Stored(InitMsg) /\ last' = InitMsg /\ serial' = TRUE
  /\ tx' = 0 /\ rx' = 0 /\ handed' = 0 /\ taken' = 0 /\ calls' = 0
  /\ UNCHANGED <<pc, file, locvars, calm>>

Remove ==
  /\ live /\ \A p \in Procs : pc[p] = "idle" /\ ~file[p]
  /\ live' = FALSE
  /\ UNCHANGED <<memvars, pc, file, locvars, calls, hisvars>>

\* kzalloc() of the path buffer may fail: the open fails, the close does not.
OpenClose(p) ==
  /\ live /\ pc[p] = "idle"
  /\ file' = [file EXCEPT ![p] = ~file[p]]
  /\ UNCHANGED <<live, memvars, pc, locvars, calls, hisvars>>

Go(p, from, to) == pc[p] = from /\ pc' = [pc EXCEPT ![p] = to]
Finish(p, from, o) == Go(p, from, "done") /\ out' = [out EXCEPT ![p] = o]
Same == UNCHANGED <<live, file, calls>>

Return(p) ==
  /\ Go(p, "done", "idle")
  /\ out' = [out EXCEPT ![p] = None] /\ got' = [got EXCEPT ![p] = << >>]
  /\ slen' = [slen EXCEPT ![p] = 0] /\ reg' = [reg EXCEPT ![p] = 0]
  /\ kbuf' = [kbuf EXCEPT ![p] = << >>] /\ pos' = [pos EXCEPT ![p] = 0]
  /\ UNCHANGED <<memvars, hisvars>> /\ Same

Call == calls < MaxCalls /\ calls' = calls + 1

-----------------------------------------------------------------------------
(* read(2) *)

Read(p) ==
  /\ file[p] /\ Call
  /\ Go(p, "idle", "r_scan")
  /\ calm' = [calm EXCEPT ![p] = \A q \in Procs : pc[q] \notin Storing]
  /\ UNCHANGED <<live, memvars, file, locvars, last, serial, handed, taken>>

\* strnlen(ctx->oursecret, MAXBYTES), a byte at a time.
Scan(p) ==
  /\ pos[p] < MAXBYTES /\ secret[pos[p]] # NUL
  /\ Go(p, "r_scan", "r_scan")
  /\ pos' = [pos EXCEPT ![p] = @ + 1]
  /\ UNCHANGED <<memvars, kbuf, slen, got, reg, out, hisvars>> /\ Same

Scanned(p) == pos[p] = MAXBYTES \/ secret[pos[p]] = NUL

\* Too small a buffer, or no secret: -EINVAL.
ReadRefused(p) ==
  /\ Scanned(p)
  /\ pos[p] = 0 \/ \E count \in ReadCounts : count < MAXBYTES
  /\ Finish(p, "r_scan", <<"EINVAL", 0>>)
  /\ UNCHANGED <<memvars, kbuf, pos, slen, got, reg, hisvars>> /\ Same

ReadLen(p) ==
  /\ Scanned(p) /\ pos[p] > 0
  /\ \E count \in ReadCounts : count >= MAXBYTES
  /\ Go(p, "r_scan", "r_copy")
  /\ slen' = [slen EXCEPT ![p] = pos[p]] /\ pos' = [pos EXCEPT ![p] = 0]
  /\ UNCHANGED <<memvars, kbuf, got, reg, out, hisvars>> /\ Same

\* copy_to_user() of secret_len bytes, one at a time.
ReadByte(p) ==
  /\ pos[p] < slen[p]
  /\ Go(p, "r_copy", "r_copy")
  /\ got' = [got EXCEPT ![p] = Append(@, secret[pos[p]])]
  /\ pos' = [pos EXCEPT ![p] = @ + 1]
  /\ UNCHANGED <<memvars, kbuf, slen, reg, out, hisvars>> /\ Same

ReadFault(p) ==
  /\ Finish(p, "r_copy", <<"EFAULT", 0>>)
  /\ UNCHANGED <<memvars, kbuf, pos, slen, got, reg, hisvars>> /\ Same

ReadLoad(p) ==
  /\ pos[p] = slen[p]
  /\ Go(p, "r_copy", "r_stat")
  /\ reg' = [reg EXCEPT ![p] = tx]
  /\ handed' = handed + slen[p]
  /\ UNCHANGED <<memvars, kbuf, pos, slen, got, out, last, serial, calm, taken>>
  /\ Same

ReadStat(p) ==
  /\ Finish(p, "r_stat", <<"read", slen[p]>>)
  /\ tx' = reg[p] + slen[p]
  /\ UNCHANGED <<secret, rx, kbuf, pos, slen, got, reg, hisvars>> /\ Same

-----------------------------------------------------------------------------
(* write(2) *)

\* The characters of a buffer before its first NUL.
Strlen(b) == IF \E i \in DOMAIN b : b[i] = NUL
             THEN (CHOOSE i \in DOMAIN b : b[i] = NUL /\ \A j \in 1..i-1 : b[j] # NUL) - 1
             ELSE Len(b)

\* Mutant: every byte of the buffer is stored, and the NUL comes after them.
Strlcpy_All(b) == Len(b)

\* How many of them strlcpy(oursecret, kbuf, count) stores before its NUL.
Strlcpy(b) == IF Strlen(b) >= Len(b) THEN Len(b) - 1 ELSE Strlen(b)

Write(p) ==
  /\ file[p] /\ Call
  /\ \E b \in Buffers :
       /\ Len(b) \in 1..MAXBYTES
       /\ kbuf' = [kbuf EXCEPT ![p] = b]
  /\ Go(p, "idle", "w_byte")
  /\ serial' = (serial /\ \A q \in Procs : pc[q] \notin Storing)
  /\ calm' = [q \in Procs |-> FALSE]
  /\ UNCHANGED <<live, memvars, file, pos, slen, got, reg, out, last, handed, taken>>

\* More than MAXBYTES bytes are refused, with `ret' still holding the count;
\* kvmalloc() and copy_from_user() may fail.
WriteRefused(p) ==
  /\ file[p] /\ Call
  /\ \/ \E b \in Buffers : Len(b) > MAXBYTES /\ Finish(p, "idle", <<"refused", Len(b)>>)
     \/ \E e \in {"ENOMEM", "EFAULT"} : Finish(p, "idle", <<e, 0>>)
  /\ UNCHANGED <<live, memvars, file, kbuf, pos, slen, got, reg, hisvars>>

\* strlcpy() looks for the NUL of what was written.  In a buffer without one the
\* search runs on and may fault; kvmalloc(0) returns no memory, and it does fault.
WriteOverruns(p) ==
  /\ file[p] /\ Call
  /\ \E b \in Buffers : Len(b) <= MAXBYTES /\ Strlen(b) = Len(b)
  /\ Go(p, "idle", "oops")
  /\ UNCHANGED <<live, memvars, file, locvars, hisvars>>

WriteByte(p) ==
  /\ pos[p] < Strlcpy(kbuf[p])
  /\ Go(p, "w_byte", "w_byte")
  /\ secret' = [secret EXCEPT ![pos[p]] = kbuf[p][pos[p] + 1]]
  /\ pos' = [pos EXCEPT ![p] = @ + 1]
  /\ UNCHANGED <<tx, rx, kbuf, slen, got, reg, out, hisvars>> /\ Same

\* Mutant: the string is stored without its NUL.
WriteNul_Forgotten(p) ==
  /\ pos[p] = Strlcpy(kbuf[p])
  /\ Go(p, "w_byte", "w_load")
  /\ last' = SubSeq(kbuf[p], 1, pos[p])
  /\ UNCHANGED <<secret, tx, rx, locvars, serial, calm, handed, taken>> /\ Same

WriteNul(p) ==
  /\ pos[p] = Strlcpy(kbuf[p])
  /\ Go(p, "w_byte", "w_load")
  /\ secret' = [secret EXCEPT ![pos[p]] = NUL]
  /\ last' = SubSeq(kbuf[p], 1, pos[p])
  /\ UNCHANGED <<tx, rx, locvars, serial, calm, handed, taken>> /\ Same

WriteLoad(p) ==
  /\ Go(p, "w_load", "w_stat")
  /\ reg' = [reg EXCEPT ![p] = rx]
  /\ taken' = taken + Len(kbuf[p])
  /\ UNCHANGED <<memvars, kbuf, pos, slen, got, out, last, serial, calm, handed>>
  /\ Same

\* Mutant: a write adds its count to what the last reader loaded as well.
WriteStat_Twice(p) ==
  /\ Finish(p, "w_stat", <<"written", Len(kbuf[p])>>)
  /\ rx' = rx + reg[p] + Len(kbuf[p])
  /\ UNCHANGED <<secret, tx, kbuf, pos, slen, got, reg, hisvars>> /\ Same

WriteStat(p) ==
  /\ Finish(p, "w_stat", <<"written", Len(kbuf[p])>>)
  /\ rx' = reg[p] + Len(kbuf[p])
  /\ UNCHANGED <<secret, tx, kbuf, pos, slen, got, reg, hisvars>> /\ Same

-----------------------------------------------------------------------------
ReadSteps(p)  == Scan(p) \/ ReadRefused(p) \/ ReadLen(p) \/ ReadByte(p)
                 \/ ReadFault(p) \/ ReadLoad(p) \/ ReadStat(p)
WriteSteps(p) == WriteByte(p) \/ WriteNul(p) \/ WriteLoad(p) \/ WriteStat(p)
Calls(p) == OpenClose(p) \/ Read(p) \/ Write(p) \/ WriteRefused(p) \/ WriteOverruns(p)

Next == Insert \/ Remove
        \/ \E p \in Procs : Calls(p) \/ ReadSteps(p) \/ WriteSteps(p) \/ Return(p)

Spec == Init /\ [][Next]_vars

-----------------------------------------------------------------------------
\* Used one call at a time the driver is a register: a read that no store
\* overlapped returns what the last write put there, if writes never overlapped.
SerialReads ==
  \A p \in Procs : out[p][1] = "read" /\ calm[p] /\ serial => got[p] = last

\* Racing updates of the statistics can be lost but never invented.
StatsUndercount == tx <= handed /\ rx <= taken
=============================================================================
