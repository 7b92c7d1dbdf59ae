----------------------------- MODULE ProcfsIntf -----------------------------
(***************************************************************************)
(* ch15/procfs_simple_intf.  A write to debug_level also sets config1 of   *)
(* the context and the other way round.                                    *)
(***************************************************************************)
EXTENDS PseudoFiles

VARIABLE config1   \* gdrvctx->config1

DEBUG_LEVEL_MIN == 0
DEBUG_LEVEL_MAX == 2
DEBUG_LEVEL_DEFAULT == DEBUG_LEVEL_MIN

InRange(n) == n \in DEBUG_LEVEL_MIN..DEBUG_LEVEL_MAX

ProcInit ==
  << <<"create", {"dir"}>>, <<"create", {"level"}>>, <<"create", {"pgoff"}>>,
     <<"alloc", {}>>, <<"create", {"drvctx"}>>, <<"create", {"config1"}>> >>

ProcFiles == {"dir", "level", "pgoff", "drvctx", "config1"}

\* Step k of ProcInit fails.
ProcUnwind(k) ==
  CASE k < 3      -> << >>                                            \* out_fail_1
    [] k \in 3..4 -> << <<"remove", ProcFiles>> >>                    \* out_fail_2
    [] OTHER      -> << <<"free", {}>>, <<"remove", ProcFiles>> >>    \* out_fail_3

\* Mutant: the context is freed while the files are still there.
ProcExit_FreesFirst == << <<"free", {}>>, <<"remove", ProcFiles>> >>

ProcExit == << <<"remove", ProcFiles>>, <<"free", {}>> >>

ProcEnter(p) ==
  \/ \E f \in ProcFiles \ {"dir"} : Enter(p, f, Read)
  \/ \E n \in Values : Enter(p, "level", Write(n))
  \/ \E n \in Values \cap Nat : Enter(p, "config1", Write(n))

\* PAGE_OFFSET is shown without a lock.
ProcPgoff(p) ==
  /\ at[p] = "pgoff" /\ LeaveFrom(p, "entered")
  /\ UNCHANGED <<modvars, debug_level, mtx, config1>>

ProcLock(p) ==
  /\ at[p] # "pgoff" /\ Lock(p)
  /\ UNCHANGED config1

ShowCtx(p) ==
  /\ Reading(p, "drvctx") \/ Reading(p, "config1")
  /\ IF ctx = "live" THEN Unlock(p, "in") ELSE Fault(p, "in")
  /\ UNCHANGED <<modvars, debug_level, config1>>

ShowLevel(p) ==
  /\ Reading(p, "level") /\ Unlock(p, "in")
  /\ UNCHANGED <<modvars, debug_level, config1>>

\* myproc_write_config1(): at most seven characters, so the number fits.
WriteConfig1(p) ==
  /\ Writing(p, "config1")
  /\ IF ctx = "live" THEN /\ config1' = arg[p][2] /\ debug_level' = arg[p][2]
                          /\ Unlock(p, "in")
     ELSE Fault(p, "in") /\ UNCHANGED <<config1, debug_level>>
  /\ UNCHANGED modvars

RejectLevel(p) ==
  /\ ~InRange(debug_level) /\ Unlock(p, "parsed")
  /\ debug_level' = DEBUG_LEVEL_DEFAULT
  /\ UNCHANGED <<modvars, config1>>

\* Mutant: config1 is left as it was.
AcceptLevel_ForgetsConfig(p) ==
  /\ InRange(debug_level)
  /\ Unlock(p, "parsed")
  /\ UNCHANGED <<modvars, debug_level, config1>>

AcceptLevel(p) ==
  /\ InRange(debug_level)
  /\ IF ctx = "live" THEN config1' = debug_level /\ Unlock(p, "parsed")
     ELSE Fault(p, "parsed") /\ UNCHANGED config1
  /\ UNCHANGED <<modvars, debug_level>>

\* myproc_write_debug_level()
WriteLevel(p) ==
  \/ Parse(p) /\ UNCHANGED config1
  \/ pc[p] = "parsed" /\ (RejectLevel(p) \/ AcceptLevel(p))

ProcHandlers(p) ==
  \/ ProcPgoff(p) \/ ProcLock(p) \/ ShowCtx(p) \/ ShowLevel(p)
  \/ WriteConfig1(p) \/ WriteLevel(p)
  \/ WriteRefused(p) /\ UNCHANGED config1

-----------------------------------------------------------------------------
\* Two files set the level and config1: with the mutex free they agree, unless
\* a value out of range has been refused and the level has gone to its default.
LevelsAgree ==
  intf = "procfs" /\ mtx = NoOwner /\ ctx = "live" =>
    debug_level \in {config1, DEBUG_LEVEL_DEFAULT}
=============================================================================
