--------------------------- MODULE RefcountDriver ---------------------------
(***************************************************************************)
(* The misc driver of ch13/miscdrv_rdwr_refcount: TwoLockSecret, and the   *)
(* two counters of the earlier drivers turned into refcount_t, which need  *)
(* no lock but saturate instead of passing through 0.                      *)
(***************************************************************************)
EXTENDS TwoLockSecret

CONSTANT Saturated   \* REFCOUNT_SATURATED, a value no count reaches

ASSUME SaturatedAssumption == Saturated \in Int /\ Saturated < 0

VARIABLES
  mod,          \* "out", "live", or "stale" after a failed module_init
  grefa, grefb  \* the two reference counts

drvvars == <<mod, grefa, grefb>>
vars == <<cpus, drvvars, ctxvars, pc, file, callvars>>

-----------------------------------------------------------------------------
(* The refcount_t of the kernel: each operation is one atomic step. *)

\* refcount_inc() of 0 would resurrect an object: it saturates.
RefInc(r) == IF r > 0 THEN r + 1 ELSE Saturated

\* refcount_dec() may not drop the last reference: it saturates.
RefDec(r) == IF r > 1 THEN r - 1 ELSE Saturated

-----------------------------------------------------------------------------
TypeOK ==
  /\ SecretTypeOK
  /\ mod \in {"out", "live", "stale"}
  /\ grefa \in 0..Cardinality(Procs)+1 /\ grefb \in Nat \cup {Saturated}

Init == SecretInit /\ mod = "out" /\ grefa = 1 /\ grefb = 1

Unused == \A p \in Procs : pc[p] = "idle" /\ ~file[p]

Insert ==
  /\ mod = "out"
  /\ \/ mod' = "live"
     \/ mod' = "stale"     \* kzalloc() fails; the device stays registered
  /\ grefa' = 1 /\ grefb' = 1
  /\ FreshCtx(spin', mtx', secret', tx', rx', handed', taken')
  /\ UNCHANGED <<cpus, pc, file, callvars>>

Remove ==
  /\ mod = "live" /\ Unused
  /\ mod' = "out"
  /\ UNCHANGED <<cpus, grefa, grefb, ctxvars, pc, file, callvars>>

-----------------------------------------------------------------------------
Open(p) ==
  /\ mod = "live" /\ ~file[p]
  /\ Go(p, "idle", "o_inc")
  /\ UNCHANGED <<drvvars, ctxvars, file, callvars>>

OpenInc(p) ==
  /\ Go(p, "o_inc", "o_dec")
  /\ grefa' = RefInc(grefa)
  /\ UNCHANGED <<mod, grefb, ctxvars, file, callvars>>

\* Mutant: the plain gb-- of the earlier drivers.
OpenDec_PlainInt(p) ==
  /\ Finish(p, "o_dec", "show", Ret("opened", 0))
  /\ grefb' = grefb - 1
  /\ file' = [file EXCEPT ![p] = TRUE]
  /\ UNCHANGED <<mod, grefa, ctxvars, req, slen, got, reg>>

OpenDec(p) ==
  /\ Finish(p, "o_dec", "show", Ret("opened", 0))
  /\ grefb' = RefDec(grefb)
  /\ file' = [file EXCEPT ![p] = TRUE]
  /\ UNCHANGED <<mod, grefa, ctxvars, req, slen, got, reg>>

Close(p) ==
  /\ file[p]
  /\ Go(p, "idle", "c_dec")
  /\ UNCHANGED <<drvvars, ctxvars, file, callvars>>

CloseDec(p) ==
  /\ Go(p, "c_dec", "c_inc")
  /\ grefa' = RefDec(grefa)
  /\ UNCHANGED <<mod, grefb, ctxvars, file, callvars>>

\* Mutant: close() gives back the reference open() took from the wrong count.
CloseInc_WrongCount(p) ==
  /\ Finish(p, "c_inc", "show", Ret("closed", 0))
  /\ grefa' = RefInc(grefa)
  /\ file' = [file EXCEPT ![p] = FALSE]
  /\ UNCHANGED <<mod, grefb, ctxvars, req, slen, got, reg>>

CloseInc(p) ==
  /\ Finish(p, "c_inc", "show", Ret("closed", 0))
  /\ grefb' = RefInc(grefb)
  /\ file' = [file EXCEPT ![p] = FALSE]
  /\ UNCHANGED <<mod, grefa, ctxvars, req, slen, got, reg>>

-----------------------------------------------------------------------------
CounterSteps(p) == OpenInc(p) \/ OpenDec(p) \/ CloseDec(p) \/ CloseInc(p)

\* read_miscdrv_rdwr, write_miscdrv_rdwr and the way out of every method.
RefReadSteps(p)  == ReadSteps(p) /\ UNCHANGED drvvars
RefWriteSteps(p) == WriteSteps(p) /\ UNCHANGED drvvars
RefReturn(p)     == (DisplayStats(p) \/ Return(p)) /\ UNCHANGED drvvars
RefCalls(p)      == SecretCalls(p) /\ UNCHANGED drvvars

Handler(p) == CounterSteps(p) \/ RefReadSteps(p) \/ RefWriteSteps(p) \/ RefReturn(p)

Next == Insert \/ Remove
        \/ \E p \in Procs : Open(p) \/ Close(p) \/ RefCalls(p) \/ Handler(p)

Spec == Init /\ [][Next]_vars

\* The locks are queued, the timeout of a sleeping writer expires, and the
\* scheduler gives every process that can run a processor nobody spins on.
FairSpec == Spec /\ \A p \in Procs : SF_vars(Handler(p))

-----------------------------------------------------------------------------
\* Processes whose reference open() has taken and close() has not dropped.
Referring == {p \in Procs : \/ file[p] /\ pc[p] # "c_inc"
                            \/ pc[p] = "o_dec"}

\* Without any lock, grefa is at every moment 1 more than the opens that have
\* taken their reference; it neither saturates nor reaches 0.
RefaExact == mod = "live" => grefa = 1 + Cardinality(Referring)

\* Every variable keeps its type, and grefa its meaning.
RefInv == TypeOK /\ RefaExact

\* grefb starts at 1, so the first open() saturates it, and no later close()
\* brings it back: from the first open on it counts nothing.
RefbSticks ==
  [][mod = "live" /\ (grefb = Saturated \/ \E p \in Procs : file'[p])
     => grefb' = Saturated]_vars

\* With a processor for each process every call returns, even when `buggy'
\* makes the writers sleep with the spinlock held and all the others spin.
CallsReturn ==
  \A p \in Procs : (pc[p] # "idle") ~> (pc[p] = "idle")
=============================================================================
