----------------------------- MODULE DebugfsIntf -----------------------------
(***************************************************************************)
(* ch15/debugfs_simple_intf and ch15/mydebugfs, the same program twice.    *)
(* The debug_level file is the kernel's own debugfs_create_u32(): neither  *)
(* mutex nor range check.                                                  *)
(***************************************************************************)
EXTENDS PseudoFiles

VARIABLES
  cause_an_oops,  \* the module parameter, writable (0644)
  null_errors     \* debugfs_create_*() fail with NULL, as they did before 5.0,
                  \* and not with an ERR_PTR

dbgvars == <<cause_an_oops, null_errors>>

DbgInit ==
  << <<"create", {"dir"}>>, <<"alloc", {}>>, <<"create", {"drvctx"}>>,
     <<"create", {"level"}>> >>

DbgFiles == {"dir", "drvctx", "level"}

\* Step k of DbgInit fails: out_fail_1 to out_fail_3.
DbgUnwind(k) ==
  CASE k = 1  -> << >>
    [] k = 2  -> << <<"remove", DbgFiles>> >>
    [] OTHER  -> << <<"free", {}>>, <<"remove", DbgFiles>> >>

\* PTR_ERR(NULL) is 0: after undoing everything module_init returns success.
DbgFailLost == null_errors /\ Now("create")

\* An ERR_PTR is not NULL: module_init goes on without the file.
DbgCreateMissed ==
  /\ intf = "debugfs" /\ ~null_errors /\ Now("create")
  /\ todo' = Tail(todo)
  /\ UNCHANGED <<stage, files, ctx, dbgvars>> /\ Module

\* debugfs_simple_intf_cleanup()
DbgExit == << <<"free", {}>>, <<"unless_oops", DbgFiles>> >>

DbgMayRemove ==
  /\ Now("unless_oops")
  /\ todo' = IF cause_an_oops = 0 THEN << <<"remove", Named>> >> ELSE << >>
  /\ UNCHANGED <<stage, files, ctx, dbgvars>> /\ Module

SetCauseAnOops ==
  /\ stage # "out" /\ intf = "debugfs"
  /\ cause_an_oops' = 1 - cause_an_oops
  /\ UNCHANGED <<modvars, debug_level, mtx, procvars, null_errors>>

DbgEnter(p) ==
  \/ \E f \in {"level", "drvctx"} : Enter(p, f, Read)
  \/ \E n \in Values \cap Nat : Enter(p, "level", Write(n))

\* The u32 attribute of the kernel.
DbgLevel(p) ==
  /\ at[p] = "level" /\ LeaveFrom(p, "entered")
  /\ debug_level' = IF arg[p] = Read THEN debug_level ELSE arg[p][2]
  /\ UNCHANGED <<modvars, mtx>>

DbgLock(p) == at[p] = "drvctx" /\ Lock(p)

\* dbgfs_show_drvctx() stores jiffies into the context it has from the inode.
DbgShowCtx(p) ==
  /\ Reading(p, "drvctx")
  /\ IF ctx = "live" THEN Unlock(p, "in") ELSE Fault(p, "in")
  /\ UNCHANGED <<modvars, debug_level>>

DbgHandlers(p) ==
  (DbgLevel(p) \/ DbgLock(p) \/ DbgShowCtx(p)) /\ UNCHANGED dbgvars

-----------------------------------------------------------------------------
\* With cause_an_oops = 0, "no bug": no process that opens a file once the
\* module is in is lost in its handler.
NoBug ==
  intf = "debugfs" /\ cause_an_oops = 0 =>
    \A p \in Procs : pc[p] = "fault" => early[p]
=============================================================================
