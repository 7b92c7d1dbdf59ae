----------------------------- MODULE SpinDriver -----------------------------
(***************************************************************************)
(* The misc driver of ch12/2_miscdrv_rdwr_spinlock: TwoLockSecret and the  *)
(* counters ga and gb, which open and close move under the spinlock lock1. *)
(* The module is inserted and removed while no process uses the device;    *)
(* MutexDriver has the races of module_init and module_exit.               *)
(***************************************************************************)
EXTENDS TwoLockSecret

VARIABLES
  mod,      \* "out", "live", or "stale" after a failed module_init
  lock1,    \* owner of lock1
  ga, gb    \* the two global counters

drvvars == <<mod, lock1, ga, gb>>
vars == <<cpus, drvvars, ctxvars, pc, file, callvars>>

TypeOK ==
  /\ SecretTypeOK
  /\ mod \in {"out", "live", "stale"}
  /\ lock1 \in Procs \cup {NoOwner}
  /\ ga \in Int /\ gb \in Int

Init == SecretInit /\ mod = "out" /\ lock1 = NoOwner /\ ga = 0 /\ gb = 1

Unused == \A p \in Procs : pc[p] = "idle" /\ ~file[p]

Insert ==
  /\ mod = "out"
  /\ \/ mod' = "live"
     \/ mod' = "stale"     \* kzalloc() fails; the device stays registered
  /\ ga' = 0 /\ gb' = 1
  /\ FreshCtx(spin', mtx', secret', tx', rx', handed', taken')
  /\ UNCHANGED <<cpus, lock1, pc, file, callvars>>

Remove ==
  /\ mod = "live" /\ Unused
  /\ mod' = "out"
  /\ UNCHANGED <<cpus, lock1, ga, gb, ctxvars, pc, file, callvars>>

-----------------------------------------------------------------------------
Open(p) ==
  /\ mod = "live" /\ ~file[p]
  /\ Go(p, "idle", "o_lock")
  /\ UNCHANGED <<drvvars, ctxvars, file, callvars>>

Close(p) ==
  /\ file[p]
  /\ Go(p, "idle", "c_lock")
  /\ UNCHANGED <<drvvars, ctxvars, file, callvars>>

\* Mutant: lock1 is taken without waiting for its owner.
TakeLock1_NoWait(p) ==
  /\ Go(p, "o_lock", "o_ga") \/ Go(p, "c_lock", "c_ga")
  /\ lock1' = p
  /\ UNCHANGED <<mod, ga, gb, ctxvars, file, callvars>>

TakeLock1(p) ==
  /\ lock1 = NoOwner
  /\ Go(p, "o_lock", "o_ga") \/ Go(p, "c_lock", "c_ga")
  /\ lock1' = p
  /\ UNCHANGED <<mod, ga, gb, ctxvars, file, callvars>>

MoveGa(p) ==
  /\ \/ Go(p, "o_ga", "o_gb") /\ ga' = ga + 1
     \/ Go(p, "c_ga", "c_gb") /\ ga' = ga - 1
  /\ UNCHANGED <<mod, lock1, gb, ctxvars, file, callvars>>

\* The counters are printed next, without lock1, and then display_stats(1).
MoveGb(p) ==
  /\ \/ /\ Finish(p, "o_gb", "show", Ret("opened", 0)) /\ gb' = gb - 1
        /\ file' = [file EXCEPT ![p] = TRUE]
     \/ /\ Finish(p, "c_gb", "show", Ret("closed", 0)) /\ gb' = gb + 1
        /\ file' = [file EXCEPT ![p] = FALSE]
  /\ lock1' = NoOwner
  /\ UNCHANGED <<mod, ga, ctxvars, req, slen, got, reg>>

-----------------------------------------------------------------------------
CounterSteps(p) == TakeLock1(p) \/ MoveGa(p) \/ MoveGb(p)
Handler(p) == CounterSteps(p) \/ (SecretSteps(p) /\ UNCHANGED drvvars)
Calls(p)   == Open(p) \/ Close(p) \/ (SecretCalls(p) /\ UNCHANGED drvvars)

Next == Insert \/ Remove \/ \E p \in Procs : Calls(p) \/ Handler(p)

Spec == Init /\ [][Next]_vars

\* The spinlocks and the mutex are queued, and the scheduler gives every
\* process that can run a processor that is not spinning.
FairSpec == Spec /\ \A p \in Procs : SF_vars(Handler(p))

-----------------------------------------------------------------------------
\* Whenever lock1 is free, ga is the number of open files and gb moves
\* against it, however open_miscdrv_rdwr and close_miscdrv_rdwr overlap.
CountersSettled ==
  lock1 = NoOwner /\ mod = "live" =>
    ga = Cardinality({p \in Procs : file[p]}) /\ ga + gb = 1

\* Every call returns: no process spins for ever for a lock whose holder
\* needs the processor it spins on.
CallsReturn == \A p \in Procs : (pc[p] # "idle") ~> (pc[p] = "idle")
=============================================================================
