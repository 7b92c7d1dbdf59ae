---------------------------- MODULE MutexDriver ----------------------------
(***************************************************************************)
(* The misc character driver of ch12/1_miscdrv_rdwr_mutexlock: one         *)
(* "secret" string that any process may read(2) and write(2), transfer     *)
(* statistics tx/rx kept beside it under ctx->lock, and two counters       *)
(* ga/gb, kept under lock1, that open(2) and close(2) move.                *)
(*                                                                         *)
(* Processes interleave between any two accesses to shared memory: the     *)
(* secret is copied in two pieces (SecretMemory), so that a copy           *)
(* overlapping a store shows; `+=' is a load and a store.                  *)
(***************************************************************************)
EXTENDS SecretMemory, FiniteSets

CONSTANTS
  Procs,     \* user processes, each with at most one descriptor
  NoOwner,   \* "nobody holds this mutex"
  MaxLoads,  \* bound: how many times the module is inserted
  QuietInit  \* TRUE: nobody uses the device during module_init, as the
             \* comment at lines 310-316 takes for granted

ASSUME OwnerAssumption == NoOwner \notin Procs
ASSUME FiniteProcs == IsFiniteSet(Procs)
ASSUME LoadAssumption == MaxLoads \in Nat /\ QuietInit \in BOOLEAN

VARIABLES
  mod,      \* the life of the module: see Stages
  heap,     \* drv_ctx objects allocated and not freed
  miscmtx,  \* misc_mtx of drivers/char/misc.c
  lock1,    \* owner of lock1
  ctxlock,  \* owner of ctx->lock
  ga, gb,   \* the two global counters
  tx, rx,   \* ctx->tx, ctx->rx
  secret,   \* ctx->oursecret: [head, tail], each a string
  pc,       \* where each process is
  file,     \* file[p]: p holds an open descriptor
  req,      \* the request of the running call: a write's buffer, a read's count
  slen,     \* read's local secret_len
  got,      \* what copy_to_user has put in the process's buffer
  reg,      \* the value loaded by a running `+='
  out,      \* what the last call returned, until the process looks at it
  handed,   \* history: bytes handed to processes by finished copies
  taken     \* history: bytes taken from processes by finished writes

modvars  == <<mod, heap>>
cntvars  == <<lock1, ga, gb>>
ctxvars  == <<ctxlock, secret, tx, rx, handed, taken>>
procvars == <<req, slen, got, reg, out>>
vars == <<modvars, miscmtx, cntvars, ctxvars, pc, file, procvars>>

-----------------------------------------------------------------------------
(* The stages of the module, and the places of a process. *)

Stages == {"out", "registered", "alloced", "lockinit", "live", "exiting",
           "stale"}
Lock1Section == {"o_ga", "o_gb", "c_ga", "c_gb"}
CtxSection == {"r_front", "r_back", "r_stat", "w_front", "w_back", "w_stat"}
Places == {"idle", "done", "oops", "o_ctx", "o_lock", "o_ret",
           "c_lock", "c_ret", "r_len", "r_lock", "w_lock"}
          \cup Lock1Section \cup CtxSection

TypeOK ==
  /\ mod \in Stages
  /\ heap \in 0..MaxLoads
  /\ miscmtx \in Procs \cup {NoOwner}
  /\ lock1 \in Procs \cup {NoOwner}
  /\ ctxlock \in Procs \cup {NoOwner}
  /\ ga \in Int
  /\ gb \in Int
  /\ tx \in 0..IntMod-1
  /\ rx \in 0..IntMod-1
  /\ secret \in Memory
  /\ pc \in [Procs -> Places]
  /\ file \in [Procs -> BOOLEAN]
  /\ req \in [Procs -> BufType]
  /\ slen \in [Procs -> 0..MAXBYTES-1]
  /\ got \in [Procs -> Received]
  /\ reg \in [Procs -> Int]
  /\ out \in [Procs -> Outcomes]
  /\ handed \in 0..IntMod-1
  /\ taken \in 0..IntMod-1

Init ==
  /\ mod = "out"
  /\ heap = 0
  /\ miscmtx = NoOwner
  /\ lock1 = NoOwner /\ ga = 0 /\ gb = 1
  /\ ctxlock = NoOwner /\ secret = Whole(Init0)
  /\ tx = 0 /\ rx = 0 /\ handed = 0 /\ taken = 0
  /\ pc = [p \in Procs |-> "idle"]
  /\ file = [p \in Procs |-> FALSE]
  /\ req = [p \in Procs |-> NoReq]
  /\ slen = [p \in Procs |-> 0]
  /\ got = [p \in Procs |-> NoCopy]
  /\ reg = [p \in Procs |-> 0]
  /\ out = [p \in Procs |-> Nothing]

Go(p, from, to) == pc[p] = from /\ pc' = [pc EXCEPT ![p] = to]

\* The handler returns `o' to the process.
Finish(p, from, o) == Go(p, from, "done") /\ out' = [out EXCEPT ![p] = o]

-----------------------------------------------------------------------------
(* insmod and rmmod. *)

\* The statics of a fresh copy of the module; misc_register may fail.  The
\* module is not inserted again where a removal has left descriptors behind.
MiscRegister ==
  /\ mod = "out" /\ heap < MaxLoads /\ miscmtx = NoOwner
  /\ \A p \in Procs : ~file[p]
  /\ mod' = "registered"
  /\ ga' = 0 /\ gb' = 1
  /\ UNCHANGED <<heap, miscmtx, lock1, ctxvars, pc, file, procvars>>

\* kzalloc() gives a zeroed context, whose zero lock is an unlocked one.
AllocCtx ==
  /\ mod = "registered" /\ heap < MaxLoads
  /\ mod' = "alloced" /\ heap' = heap + 1
  /\ ctxlock' = NoOwner /\ secret' = Whole(Init0)
  /\ tx' = 0 /\ rx' = 0 /\ handed' = 0 /\ taken' = 0
  /\ UNCHANGED <<miscmtx, cntvars, pc, file, procvars>>

\* kzalloc() fails: module_init returns without misc_deregister(), and the
\* registered fops stay behind in freed module memory.
AllocCtxFails ==
  /\ mod = "registered"
  /\ mod' = "stale"
  /\ UNCHANGED <<heap, miscmtx, cntvars, ctxvars, pc, file, procvars>>

\* mutex_init() makes the lock free, whoever holds it.
MutexInit ==
  /\ mod = "alloced"
  /\ mod' = "lockinit" /\ ctxlock' = NoOwner
  /\ UNCHANGED <<heap, miscmtx, cntvars, secret, tx, rx, handed, taken,
                 pc, file, procvars>>

StoreInitMsg ==
  /\ mod = "lockinit"
  /\ mod' = "live"
  /\ secret' = Whole([text |-> InitMsg, len |-> InitLen])
  /\ UNCHANGED <<heap, miscmtx, cntvars, ctxlock, tx, rx, handed, taken,
                 pc, file, procvars>>

\* rmmod: the fops have no .owner, so open files do not keep the module in.
\* Both mutexes are destroyed, whoever uses them, before the device is taken away.
DestroyLocks ==
  /\ mod = "live"
  /\ mod' = "exiting"
  /\ UNCHANGED <<heap, miscmtx, cntvars, ctxvars, pc, file, procvars>>

\* Mutant: module_exit does not call misc_deregister().
MiscDeregister_Forgotten ==
  /\ mod = "exiting"
  /\ mod' = "out"
  /\ pc' = [p \in Procs |-> IF pc[p] \in {"idle", "done"} /\ ~file[p]
                            THEN pc[p] ELSE "oops"]
  /\ lock1' = NoOwner
  /\ UNCHANGED <<heap, miscmtx, ga, gb, ctxvars, file, procvars>>

\* misc_deregister() waits for misc_mtx; then the module memory is freed, and
\* whoever is still to run its code is lost.  ctx is not freed.
MiscDeregister ==
  /\ mod = "exiting" /\ miscmtx = NoOwner
  /\ mod' = "out"
  /\ pc' = [p \in Procs |-> IF pc[p] \in {"idle", "done"} /\ ~file[p]
                            THEN pc[p] ELSE "oops"]
  /\ lock1' = NoOwner
  /\ UNCHANGED <<heap, miscmtx, ga, gb, ctxvars, file, procvars>>

-----------------------------------------------------------------------------
(* open(2): misc_open() finds the device and calls the driver under misc_mtx *)

Visible == mod # "out" /\ (QuietInit => mod \in {"live", "exiting", "stale"})

Open(p) ==
  /\ ~file[p] /\ Visible /\ miscmtx = NoOwner
  /\ Go(p, "idle", "o_ctx")
  /\ miscmtx' = p
  /\ UNCHANGED <<modvars, cntvars, ctxvars, file, procvars>>

\* `dev = ctx->dev': fatal while ctx is NULL or the fops are in freed memory,
\* and the process dies holding misc_mtx.
OpenCtx(p) ==
  /\ Go(p, "o_ctx", IF mod \in {"registered", "stale"} THEN "oops" ELSE "o_lock")
  /\ UNCHANGED <<modvars, miscmtx, cntvars, ctxvars, file, procvars>>

\* Mutant: open() trusts misc_mtx and does not wait for lock1.
OpenLock_NoWait(p) ==
  /\ Go(p, "o_lock", "o_ga")
  /\ lock1' = p
  /\ UNCHANGED <<modvars, miscmtx, ga, gb, ctxvars, file, procvars>>

OpenLock(p) ==
  /\ lock1 = NoOwner
  /\ Go(p, "o_lock", "o_ga")
  /\ lock1' = p
  /\ UNCHANGED <<modvars, miscmtx, ga, gb, ctxvars, file, procvars>>

OpenIncGa(p) ==
  /\ Go(p, "o_ga", "o_gb")
  /\ ga' = ga + 1
  /\ UNCHANGED <<modvars, miscmtx, lock1, gb, ctxvars, file, procvars>>

\* Mutant: open() returns without mutex_unlock(&lock1).
OpenDecGb_KeepsLock(p) ==
  /\ Go(p, "o_gb", "o_ret")
  /\ gb' = gb - 1
  /\ UNCHANGED <<modvars, miscmtx, lock1, ga, ctxvars, file, procvars>>

OpenDecGb(p) ==
  /\ Go(p, "o_gb", "o_ret")
  /\ gb' = gb - 1
  /\ lock1' = NoOwner
  /\ UNCHANGED <<modvars, miscmtx, ga, ctxvars, file, procvars>>

OpenReturn(p) ==
  /\ Finish(p, "o_ret", Ret("opened", 0))
  /\ file' = [file EXCEPT ![p] = TRUE]
  /\ miscmtx' = NoOwner
  /\ UNCHANGED <<modvars, cntvars, ctxvars, req, slen, got, reg>>

-----------------------------------------------------------------------------
(* close(2) *)

Close(p) ==
  /\ file[p]
  /\ Go(p, "idle", "c_lock")
  /\ UNCHANGED <<modvars, miscmtx, cntvars, ctxvars, file, procvars>>

\* Mutant: close() moves the counters without taking lock1.
CloseLock_NoWait(p) ==
  /\ Go(p, "c_lock", "c_ga")
  /\ lock1' = p
  /\ UNCHANGED <<modvars, miscmtx, ga, gb, ctxvars, file, procvars>>

CloseLock(p) ==
  /\ lock1 = NoOwner
  /\ Go(p, "c_lock", "c_ga")
  /\ lock1' = p
  /\ UNCHANGED <<modvars, miscmtx, ga, gb, ctxvars, file, procvars>>

CloseDecGa(p) ==
  /\ Go(p, "c_ga", "c_gb")
  /\ ga' = ga - 1
  /\ UNCHANGED <<modvars, miscmtx, lock1, gb, ctxvars, file, procvars>>

CloseIncGb(p) ==
  /\ Go(p, "c_gb", "c_ret")
  /\ gb' = gb + 1
  /\ lock1' = NoOwner
  /\ UNCHANGED <<modvars, miscmtx, ga, ctxvars, file, procvars>>

CloseReturn(p) ==
  /\ Finish(p, "c_ret", Ret("closed", 0))
  /\ file' = [file EXCEPT ![p] = FALSE]
  /\ UNCHANGED <<modvars, miscmtx, cntvars, ctxvars, req, slen, got, reg>>

-----------------------------------------------------------------------------
(* read(2) *)

Read(p) ==
  /\ file[p]
  /\ Go(p, "idle", "r_len")
  /\ \E count \in ReadCounts : req' = [req EXCEPT ![p].count = count]
  /\ UNCHANGED <<modvars, miscmtx, cntvars, ctxvars, file, slen, got, reg, out>>

\* The first critical section: secret_len = strlen(ctx->oursecret).
TakeLen(p, n) ==
  /\ ctxlock = NoOwner
  /\ n \in StrLen(secret)
  /\ UNCHANGED <<modvars, miscmtx, cntvars, ctxvars, file, req, got, reg>>

\* The buffer is too small or there is no secret: read() gives up.
ReadLenRefused(p) ==
  \E n \in StrLen(secret) :
    /\ req[p].count < MAXBYTES \/ n <= 0
    /\ TakeLen(p, n)
    /\ Finish(p, "r_len", Err("EINVAL"))
    /\ UNCHANGED slen

ReadLen(p) ==
  \E n \in StrLen(secret) :
    /\ req[p].count >= MAXBYTES /\ n > 0
    /\ TakeLen(p, n)
    /\ Go(p, "r_len", "r_lock")
    /\ slen' = [slen EXCEPT ![p] = n]
    /\ UNCHANGED out

\* Mutant: read() copies without waiting for a writer to be done.
ReadLock_NoWait(p) ==
  /\ Go(p, "r_lock", "r_front")
  /\ ctxlock' = p
  /\ UNCHANGED <<modvars, miscmtx, cntvars, secret, tx, rx, handed, taken,
                 file, procvars>>

\* The second critical section: copy secret_len bytes and count them.
ReadLock(p) ==
  /\ ctxlock = NoOwner
  /\ Go(p, "r_lock", "r_front")
  /\ ctxlock' = p
  /\ UNCHANGED <<modvars, miscmtx, cntvars, secret, tx, rx, handed, taken,
                 file, procvars>>

ReadCopyHead(p) ==
  /\ Go(p, "r_front", "r_back")
  /\ got' = [got EXCEPT ![p].head = Copied(secret.head, slen[p])]
  /\ UNCHANGED <<modvars, miscmtx, cntvars, ctxvars, file, req, slen, reg, out>>

ReadCopyTail(p) ==
  /\ Go(p, "r_back", "r_stat")
  /\ got' = [got EXCEPT ![p].tail = Copied(secret.tail, slen[p])]
  /\ handed' = (handed + slen[p]) % IntMod
  /\ reg' = [reg EXCEPT ![p] = tx]
  /\ UNCHANGED <<modvars, miscmtx, cntvars, ctxlock, secret, tx, rx, taken,
                 file, req, slen, out>>

\* Mutant: the error path jumps past mutex_unlock().
ReadFault_KeepsLock(p) ==
  /\ \E at \in {"r_front", "r_back"} : Finish(p, at, Err("EFAULT"))
  /\ UNCHANGED <<modvars, miscmtx, cntvars, ctxvars, file, req, slen, got, reg>>

\* Mutant: the statistics are updated before the copy is known to succeed.
ReadFault_Counts(p) ==
  /\ \E at \in {"r_front", "r_back"} : Finish(p, at, Err("EFAULT"))
  /\ ctxlock' = NoOwner
  /\ tx' = (tx + slen[p]) % IntMod
  /\ UNCHANGED <<modvars, miscmtx, cntvars, secret, rx, handed, taken,
                 file, req, slen, got, reg>>

\* copy_to_user() faults at either piece.
ReadFault(p) ==
  /\ \E at \in {"r_front", "r_back"} : Finish(p, at, Err("EFAULT"))
  /\ ctxlock' = NoOwner
  /\ UNCHANGED <<modvars, miscmtx, cntvars, secret, tx, rx, handed, taken,
                 file, req, slen, got, reg>>

ReadStat(p) ==
  /\ Finish(p, "r_stat", Ret("read", slen[p]))
  /\ tx' = (reg[p] + slen[p]) % IntMod
  /\ ctxlock' = NoOwner
  /\ UNCHANGED <<modvars, miscmtx, cntvars, secret, rx, handed, taken,
                 file, req, slen, got, reg>>

-----------------------------------------------------------------------------
(* write(2) *)

\* kvmalloc() and copy_from_user() touch nothing shared.
Write(p) ==
  /\ file[p]
  /\ Go(p, "idle", "w_lock")
  /\ \E b \in Bufs : req' = [req EXCEPT ![p] = b]
  /\ UNCHANGED <<modvars, miscmtx, cntvars, ctxvars, file, slen, got, reg, out>>

WriteFails(p) ==
  /\ file[p]
  /\ \E e \in {"ENOMEM", "EFAULT"} : Finish(p, "idle", Err(e))
  /\ UNCHANGED <<modvars, miscmtx, cntvars, ctxvars, file, req, slen, got, reg>>

\* Mutant: write() stores and counts without waiting for the lock.
WriteLock_NoWait(p) ==
  /\ Go(p, "w_lock", "w_front")
  /\ ctxlock' = p
  /\ UNCHANGED <<modvars, miscmtx, cntvars, secret, tx, rx, handed, taken,
                 file, procvars>>

WriteLock(p) ==
  /\ ctxlock = NoOwner
  /\ Go(p, "w_lock", "w_front")
  /\ ctxlock' = p
  /\ UNCHANGED <<modvars, miscmtx, cntvars, secret, tx, rx, handed, taken,
                 file, procvars>>

\* strscpy() with size 0 stores nothing.
WriteHead(p) ==
  /\ Go(p, "w_front", "w_back")
  /\ secret' = IF req[p].count = 0 THEN secret
               ELSE [secret EXCEPT !.head = Strscpy(req[p])]
  /\ UNCHANGED <<modvars, miscmtx, cntvars, ctxlock, tx, rx, handed, taken,
                 file, procvars>>

WriteTail(p) ==
  /\ Go(p, "w_back", "w_stat")
  /\ secret' = IF req[p].count = 0 THEN secret
               ELSE [secret EXCEPT !.tail = Strscpy(req[p])]
  /\ taken' = (taken + req[p].count) % IntMod
  /\ reg' = [reg EXCEPT ![p] = rx]
  /\ UNCHANGED <<modvars, miscmtx, cntvars, ctxlock, tx, rx, handed,
                 file, req, slen, got, out>>

WriteStat(p) ==
  /\ Finish(p, "w_stat", Ret("written", req[p].count))
  /\ rx' = (reg[p] + req[p].count) % IntMod
  /\ ctxlock' = NoOwner
  /\ UNCHANGED <<modvars, miscmtx, cntvars, secret, tx, handed, taken,
                 file, req, slen, got, reg>>

\* The process has looked at what its call returned; the locals are gone.
Return(p) ==
  /\ Go(p, "done", "idle")
  /\ req' = [req EXCEPT ![p] = NoReq]
  /\ slen' = [slen EXCEPT ![p] = 0]
  /\ got' = [got EXCEPT ![p] = NoCopy]
  /\ reg' = [reg EXCEPT ![p] = 0]
  /\ out' = [out EXCEPT ![p] = Nothing]
  /\ UNCHANGED <<modvars, miscmtx, cntvars, ctxvars, file>>

-----------------------------------------------------------------------------
ModuleInit == MiscRegister \/ AllocCtx \/ AllocCtxFails \/ MutexInit \/ StoreInitMsg
ModuleExit == DestroyLocks \/ MiscDeregister

OpenSteps(p)  == OpenCtx(p) \/ OpenLock(p) \/ OpenIncGa(p) \/ OpenDecGb(p)
                 \/ OpenReturn(p)
CloseSteps(p) == CloseLock(p) \/ CloseDecGa(p) \/ CloseIncGb(p)
                 \/ CloseReturn(p)
ReadSteps(p)  == ReadLenRefused(p) \/ ReadLen(p) \/ ReadLock(p) \/ ReadCopyHead(p)
                 \/ ReadCopyTail(p) \/ ReadFault(p) \/ ReadStat(p)
WriteSteps(p) == WriteLock(p) \/ WriteHead(p) \/ WriteTail(p) \/ WriteStat(p)

\* What a running call does next; beginning a call is the process's choice.
Handler(p) == OpenSteps(p) \/ CloseSteps(p) \/ ReadSteps(p) \/ WriteSteps(p)
              \/ Return(p)
Calls(p) == Open(p) \/ Close(p) \/ Read(p) \/ Write(p) \/ WriteFails(p)

Next == ModuleInit \/ ModuleExit \/ \E p \in Procs : Calls(p) \/ Handler(p)

Spec == Init /\ [][Next]_vars

\* A running call is scheduled, and a mutex waiter is served: the kernel's
\* mutexes hand the lock over to a waiter that has lost it too often.
Fairness == /\ WF_vars(AllocCtx \/ AllocCtxFails \/ MutexInit \/ StoreInitMsg)
            /\ SF_vars(MiscDeregister)
            /\ \A p \in Procs : SF_vars(Handler(p))

FairSpec == Spec /\ Fairness

-----------------------------------------------------------------------------
(* Properties *)

\* ctx->lock does its work: two processes are never both between taking and
\* releasing it, in read_miscdrv_rdwr or write_miscdrv_rdwr.
CtxExclusive ==
  \A p, q \in Procs : pc[p] \in CtxSection /\ pc[q] \in CtxSection => p = q

\* Processes that open_miscdrv_rdwr has counted and close_miscdrv_rdwr has not.
Counted == {p \in Procs : \/ file[p] /\ pc[p] # "c_ret"
                          \/ pc[p] = "o_ret"}

\* Whenever lock1 is free, ga is the number of processes counted in by open()
\* and not yet out by close(), and gb moves against it: ga + gb = 1.
CountersSettled ==
  lock1 = NoOwner /\ mod \in {"live", "exiting"} =>
    ga = Cardinality(Counted) /\ ga + gb = 1

\* Whenever ctx->lock is free, tx and rx are, in their width, the bytes that
\* finished reads copied out and finished writes brought in: no update is lost.
StatsExact == ctxlock = NoOwner => tx = handed /\ rx = taken

\* Every call a process makes on the driver returns, unless it crashed.
CallsReturn == \A p \in Procs : (pc[p] # "idle") ~> (pc[p] \in {"idle", "oops"})

\* The driver keeps what SecretStore promises: a read hands out bytes of the
\* secret of one moment, never a mixture of two texts, as many as an earlier
\* secret of the same read had, and returns their number.
Store == INSTANCE SecretStore WITH
  store  <- secret.tail,
  measured <- slen,
  result <- [p \in Procs |-> [copy |-> IF out[p].kind = "read" THEN got[p] ELSE NoCopy,
                             count |-> IF out[p].kind = "read" THEN out[p].n ELSE 0]],
  Empty  <- Init0,
  Strings <- String,
  Fresh  <- {Init0, [text |-> InitMsg, len |-> InitLen]}
StoreSpec == Store!Spec

\* A successful read returns as many bytes as the secret it copied has: none is
\* cut off, and nothing behind its NUL goes along.
ReadLengthMatches ==
  \A p \in Procs : out[p].kind = "read" =>
    out[p].n = got[p].head.len /\ out[p].n = got[p].tail.len

\* Although the fops have no .owner and the device may be in use during rmmod,
\* module_exit takes the code from under those only that hold a descriptor, never
\* from under an open() that is running.
RemovalSparesOpen ==
  [][mod = "exiting" /\ mod' = "out" =>
       \A p \in Procs : pc'[p] = "oops" => file[p]]_vars

\* rmmod ends however the device is used meanwhile, unless somebody was lost in
\* open() with misc_mtx in hand.
ExitReturns ==
  mod = "exiting" ~> (mod = "out" \/ \E p \in Procs : pc[p] = "oops" /\ miscmtx = p)

\* Nobody runs the driver's code on a context module_init has yet to allocate.
InitAlone == \A p \in Procs : pc[p] = "oops" => mod # "registered"
=============================================================================
