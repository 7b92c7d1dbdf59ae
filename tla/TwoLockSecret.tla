--------------------------- MODULE TwoLockSecret ---------------------------
(***************************************************************************)
(* The secret of the drivers ch12/2_miscdrv_rdwr_spinlock and              *)
(* ch13/miscdrv_rdwr_refcount, whose read and write methods are the same   *)
(* text: write stores under ctx->spinlock, read copies under ctx->mutex    *)
(* (copy_to_user may sleep), and each believes itself protected.           *)
(*                                                                         *)
(* A process that waits for or holds a spinlock has preemption off and so  *)
(* owns one of the `cpus' processors; every other step needs a free one.       *)
(***************************************************************************)
EXTENDS SecretMemory, FiniteSets

CONSTANTS
  Procs,     \* user processes, each with at most one descriptor
  NoOwner,   \* "nobody holds this lock"
  Machines,  \* how many processors the machine may have
  Buggy      \* the module parameter: sleep while holding the spinlock

ASSUME TwoLockAssumption ==
  /\ NoOwner \notin Procs
  /\ IsFiniteSet(Procs)
  /\ Machines \subseteq Nat \ {0}
  /\ Buggy \in BOOLEAN

VARIABLES
  cpus,     \* processors of this machine
  spin,     \* owner of ctx->spinlock
  mtx,      \* owner of ctx->mutex
  secret,   \* ctx->oursecret
  tx, rx,   \* ctx->tx, ctx->rx
  pc,       \* where each process is
  file,     \* file[p]: p holds an open descriptor
  req,      \* the request of the running call
  slen,     \* read's local secret_len
  got,      \* what copy_to_user has put in the process's buffer
  reg,      \* the value loaded by a running `+='
  out,      \* what the call returns, until the process looks at it
  handed,   \* history: bytes handed to processes by finished copies
  taken     \* history: bytes taken from processes by finished writes

ctxvars  == <<spin, mtx, secret, tx, rx, handed, taken>>
callvars == <<req, slen, got, reg, out>>

\* Places where preemption is off: the spinlock sections and the waits.
Pinned == {"o_lock", "o_ga", "o_gb", "c_lock", "c_ga", "c_gb", "show",
           "r_len", "w_spin", "w_front", "w_back", "w_stat"}
Places == Pinned \cup {"idle", "done", "o_inc", "o_dec", "c_dec", "c_inc",
                       "r_mutex", "r_front", "r_back", "r_stat", "w_sleep"}

SecretTypeOK ==
  /\ cpus \in Machines
  /\ {spin, mtx} \subseteq Procs \cup {NoOwner}
  /\ secret \in Memory
  /\ {tx, rx, handed, taken} \subseteq 0..IntMod-1
  /\ pc \in [Procs -> Places]
  /\ file \in [Procs -> BOOLEAN]
  /\ req \in [Procs -> BufType]
  /\ slen \in [Procs -> 0..MAXBYTES-1]
  /\ got \in [Procs -> Received]
  /\ reg \in [Procs -> 0..IntMod-1]
  /\ out \in [Procs -> Outcomes]

\* module_init leaves a zeroed context with free locks and "initmsg" in it.
FreshCtx(s, m, sec, t, r, h, k) ==
  /\ s = NoOwner /\ m = NoOwner
  /\ sec = Whole([text |-> InitMsg, len |-> InitLen])
  /\ t = 0 /\ r = 0 /\ h = 0 /\ k = 0

SecretInit ==
  /\ cpus \in Machines
  /\ FreshCtx(spin, mtx, secret, tx, rx, handed, taken)
  /\ pc = [p \in Procs |-> "idle"]
  /\ file = [p \in Procs |-> FALSE]
  /\ req = [p \in Procs |-> NoReq]
  /\ slen = [p \in Procs |-> 0]
  /\ got = [p \in Procs |-> NoCopy]
  /\ reg = [p \in Procs |-> 0]
  /\ out = [p \in Procs |-> Nothing]

-----------------------------------------------------------------------------
OnCpu == {p \in Procs : pc[p] \in Pinned}
Runs(p) == p \in OnCpu \/ Cardinality(OnCpu) < cpus

Go(p, from, to) ==
  pc[p] = from /\ Runs(p) /\ pc' = [pc EXCEPT ![p] = to] /\ UNCHANGED cpus

\* The handler is to return `o', through `to'.
Finish(p, from, to, o) == Go(p, from, to) /\ out' = [out EXCEPT ![p] = o]

\* display_stats(1): take the spinlock, print tx and rx, release it.
DisplayStats(p) ==
  /\ spin = NoOwner
  /\ Go(p, "show", "done")
  /\ UNCHANGED <<ctxvars, file, callvars>>

\* The process has its result and is back in user space; its locals are gone.
Return(p) ==
  /\ Finish(p, "done", "idle", Nothing)
  /\ got' = [got EXCEPT ![p] = NoCopy]
  /\ req' = [req EXCEPT ![p] = NoReq]
  /\ slen' = [slen EXCEPT ![p] = 0]
  /\ reg' = [reg EXCEPT ![p] = 0]
  /\ UNCHANGED <<ctxvars, file>>

-----------------------------------------------------------------------------
(* read(2) *)

Read(p) ==
  /\ file[p]
  /\ Go(p, "idle", "r_len")
  /\ \E count \in ReadCounts : req' = [req EXCEPT ![p].count = count]
  /\ UNCHANGED <<ctxvars, file, slen, got, reg, out>>

\* secret_len = strlen(ctx->oursecret) under the spinlock; the requests that
\* go no further return -EINVAL without display_stats().
ReadLen(p) ==
  \E n \in StrLen(secret) :
    /\ spin = NoOwner
    /\ \/ /\ req[p].count < MAXBYTES \/ n <= 0
          /\ Finish(p, "r_len", "done", Err("EINVAL"))
          /\ UNCHANGED slen
       \/ /\ req[p].count >= MAXBYTES /\ n > 0
          /\ Go(p, "r_len", "r_mutex")
          /\ slen' = [slen EXCEPT ![p] = n]
          /\ UNCHANGED out
    /\ UNCHANGED <<ctxvars, file, req, got, reg>>

\* Mutant: the second section does not wait for the mutex.
ReadMutex_NoWait(p) ==
  /\ Go(p, "r_mutex", "r_front")
  /\ mtx' = p
  /\ UNCHANGED <<spin, secret, tx, rx, handed, taken, file, callvars>>

ReadMutex(p) ==
  /\ mtx = NoOwner
  /\ Go(p, "r_mutex", "r_front")
  /\ mtx' = p
  /\ UNCHANGED <<spin, secret, tx, rx, handed, taken, file, callvars>>

ReadCopyHead(p) ==
  /\ Go(p, "r_front", "r_back")
  /\ got' = [got EXCEPT ![p].head = Copied(secret.head, slen[p])]
  /\ UNCHANGED <<ctxvars, file, req, slen, reg, out>>

ReadCopyTail(p) ==
  /\ Go(p, "r_back", "r_stat")
  /\ got' = [got EXCEPT ![p].tail = Copied(secret.tail, slen[p])]
  /\ handed' = (handed + slen[p]) % IntMod
  /\ reg' = [reg EXCEPT ![p] = tx]
  /\ UNCHANGED <<spin, mtx, secret, tx, rx, taken, file, req, slen, out>>

\* copy_to_user() fails: out_ctu, and display_stats(1) on the way out.
ReadFault(p) ==
  /\ \E at \in {"r_front", "r_back"} : Finish(p, at, "show", Err("EFAULT"))
  /\ mtx' = NoOwner
  /\ UNCHANGED <<spin, secret, tx, rx, handed, taken, file, req, slen, got, reg>>

ReadStat(p) ==
  /\ Finish(p, "r_stat", "done", Ret("read", slen[p]))
  /\ tx' = (reg[p] + slen[p]) % IntMod
  /\ mtx' = NoOwner
  /\ UNCHANGED <<spin, secret, rx, handed, taken, file, req, slen, got, reg>>

-----------------------------------------------------------------------------
(* write(2) *)

\* kvmalloc() and copy_from_user() succeed.
Write(p) ==
  /\ file[p]
  /\ Go(p, "idle", "w_spin")
  /\ \E b \in Bufs : req' = [req EXCEPT ![p] = b]
  /\ UNCHANGED <<ctxvars, file, slen, got, reg, out>>

\* out_nomem skips display_stats(), out_cfu does not.
WriteFails(p) ==
  /\ file[p]
  /\ \/ Finish(p, "idle", "done", Err("ENOMEM"))
     \/ Finish(p, "idle", "show", Err("EFAULT"))
  /\ UNCHANGED <<ctxvars, file, req, slen, got, reg>>

\* Mutant: the writer does not wait for the spinlock.
WriteSpin_NoWait(p) ==
  /\ Go(p, "w_spin", "w_front")
  /\ spin' = p
  /\ UNCHANGED <<mtx, secret, tx, rx, handed, taken, file, callvars>>

WriteSpin(p) ==
  /\ spin = NoOwner
  /\ Go(p, "w_spin", "w_front")
  /\ spin' = p
  /\ UNCHANGED <<mtx, secret, tx, rx, handed, taken, file, callvars>>

WriteHead(p) ==
  /\ Go(p, "w_front", "w_back")
  /\ secret' = IF req[p].count = 0 THEN secret   \* strscpy() of size 0
               ELSE [secret EXCEPT !.head = Strscpy(req[p])]
  /\ UNCHANGED <<spin, mtx, tx, rx, handed, taken, file, callvars>>

WriteTail(p) ==
  /\ Go(p, "w_back", "w_stat")
  /\ secret' = IF req[p].count = 0 THEN secret   \* strscpy() of size 0
               ELSE [secret EXCEPT !.tail = Strscpy(req[p])]
  /\ reg' = [reg EXCEPT ![p] = rx]
  /\ taken' = (taken + req[p].count) % IntMod
  /\ UNCHANGED <<spin, mtx, tx, rx, handed, file, req, slen, got, out>>

\* Mutant: the test of the parameter is lost and every writer sleeps.
WriteStat_AlwaysSleeps(p) ==
  /\ rx' = (reg[p] + req[p].count) % IntMod
  /\ Finish(p, "w_stat", "w_sleep", Ret("written", req[p].count))
  /\ UNCHANGED <<spin, mtx, secret, tx, handed, taken, file, req, slen, got, reg>>

\* With `buggy' the writer sleeps for a second before the spin_unlock().
WriteStat(p) ==
  /\ rx' = (reg[p] + req[p].count) % IntMod
  /\ Finish(p, "w_stat", IF Buggy THEN "w_sleep" ELSE "done",
            Ret("written", req[p].count))
  /\ spin' = IF Buggy THEN spin ELSE NoOwner
  /\ UNCHANGED <<mtx, secret, tx, handed, taken, file, req, slen, got, reg>>

\* Mutant: the buggy branch returns past spin_unlock().
WriteWake_KeepsLock(p) ==
  /\ Go(p, "w_sleep", "done")
  /\ UNCHANGED <<ctxvars, file, callvars>>

\* The timeout of schedule_timeout() expires.
WriteWake(p) ==
  /\ Go(p, "w_sleep", "done")
  /\ spin' = NoOwner
  /\ UNCHANGED <<mtx, secret, tx, rx, handed, taken, file, callvars>>

-----------------------------------------------------------------------------
ReadSteps(p)  == ReadLen(p) \/ ReadMutex(p) \/ ReadCopyHead(p) \/ ReadCopyTail(p)
                 \/ ReadFault(p) \/ ReadStat(p)
WriteSteps(p) == WriteSpin(p) \/ WriteHead(p) \/ WriteTail(p) \/ WriteStat(p)
                 \/ WriteWake(p)
SecretSteps(p) == ReadSteps(p) \/ WriteSteps(p) \/ DisplayStats(p) \/ Return(p)
SecretCalls(p) == Read(p) \/ Write(p) \/ WriteFails(p)

-----------------------------------------------------------------------------
(* Properties *)

\* No update of the statistics is lost: rx, kept under the spinlock, and tx,
\* kept under the mutex, are exact whenever their lock is free.
StatsExact == /\ spin = NoOwner => rx = taken
              /\ mtx = NoOwner => tx = handed

\* Whenever the spinlock is free the stored secret is one that was written,
\* whatever writers raced to store theirs.
SecretWhole == spin = NoOwner => secret.head = secret.tail

\* A successful read copies one secret, not pieces of two: what "this mutex
\* protects this data structure ... so does this spinlock" says of drv_ctx.
ReadWhole ==
  \A p \in Procs : out[p].kind = "read" => got[p].head = got[p].tail
=============================================================================
