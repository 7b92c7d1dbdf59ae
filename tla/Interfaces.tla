----------------------------- MODULE Interfaces -----------------------------
(***************************************************************************)
(* The pseudo-file interfaces of ch15.  A behaviour is one of a single     *)
(* module, which is inserted and removed at will.                          *)
(***************************************************************************)
EXTENDS ProcfsIntf, SysfsIntf, DebugfsIntf, MyDevices

CONSTANT Intfs   \* which of them may be inserted

ASSUME IntfAssumption == Intfs \subseteq Modules

vars == <<modvars, debug_level, mtx, procvars, config1, sysvars, dbgvars, descvars>>
ownvars == <<config1, sysvars, dbgvars, descvars>>

TypeOK ==
  /\ FilesTypeOK
  /\ config1 \in Levels
  /\ gpressure \in {0, PRESSURE} /\ prev_dbglevel \in [Procs -> Levels]
  /\ cause_an_oops \in {0, 1} /\ null_errors \in BOOLEAN
  /\ DescLockType

InitSteps == [procfs |-> ProcInit, sysfs |-> SysInit, debugfs |-> DbgInit,
              mymiscdev |-> MiscInit, myplatdev |-> PlatInit]
ExitSteps == [procfs |-> ProcExit, sysfs |-> SysExit, debugfs |-> DbgExit,
              mymiscdev |-> MiscExit, myplatdev |-> PlatExit]
Unwind(k) == CASE intf = "procfs"    -> ProcUnwind(k)
               [] intf = "sysfs"     -> SysUnwind(k)
               [] intf = "debugfs"   -> DbgUnwind(k)
               [] intf = "mymiscdev" -> MiscUnwind(k)
               [] intf = "myplatdev" -> PlatUnwind(k)

\* module_init returns 0 although a step has failed.
ErrorLost == \/ intf = "debugfs" /\ DbgFailLost
             \/ intf = "myplatdev" /\ PlatFailLost

\* What a failed allocation leaves in the pointer to the context.
NoCtx == IF intf \in {"procfs", "debugfs"} THEN "error" ELSE "none"

Init ==
  /\ FilesInit /\ intf \in Intfs
  /\ config1 = 0 /\ gpressure = 0 /\ prev_dbglevel = Everyone(0)
  /\ cause_an_oops = 0 /\ null_errors = FALSE
  /\ desclock = NoOwner /\ unguarded = FALSE

\* Not again while a file leads to code that is gone, or a process is in it.
InsertOne ==
  /\ files \subseteq {"dir"}
  /\ \A p \in Procs : pc[p] \in {"idle", "fault"}
  /\ Insert(InitSteps[intf])
  /\ null_errors' \in (IF intf = "debugfs" THEN BOOLEAN ELSE {FALSE})
  /\ config1' = 0 /\ gpressure' = 0 /\ prev_dbglevel' = Everyone(0)
  /\ cause_an_oops' = 0 /\ desclock' = NoOwner /\ unguarded' = FALSE

ModuleWork ==
  \/ (Work \/ SetDev \/ SetLevel \/ UnregisterAgain) /\ UNCHANGED ownvars
  \/ SetPressure /\ UNCHANGED <<config1, dbgvars, descvars>>
  \/ /\ stage = "init"
     /\ ~(intf = "debugfs" /\ Now("create") /\ ~null_errors)
     /\ Fail(Unwind(Len(InitSteps[intf]) - Len(todo) + 1), ErrorLost, NoCtx)
     /\ UNCHANGED ownvars
  \/ (DbgCreateMissed \/ DbgMayRemove) /\ UNCHANGED <<config1, sysvars, descvars>>

Remove == Exit(ExitSteps[intf]) /\ UNCHANGED ownvars

EnterOne(p) ==
  /\ CASE intf = "procfs"    -> ProcEnter(p)
       [] intf = "sysfs"     -> SysEnter(p)
       [] intf = "debugfs"   -> DbgEnter(p)
       [] OTHER              -> MyEnter(p)
  /\ UNCHANGED ownvars

Handlers(p) ==
  \/ intf = "procfs" /\ ProcHandlers(p) /\ UNCHANGED <<sysvars, dbgvars, descvars>>
  \/ intf = "sysfs" /\ SysHandlers(p) /\ UNCHANGED <<config1, dbgvars, descvars>>
  \/ intf = "debugfs" /\ DbgHandlers(p) /\ UNCHANGED <<config1, sysvars, descvars>>
  \/ intf \in MyModules /\ MyHandlers(p) /\ UNCHANGED <<config1, sysvars, dbgvars>>

\* The files whose handlers take no mutex, or not this one.
NoMutex == {<<"procfs", "pgoff">>, <<"debugfs", "level">>, <<"mymiscdev", "dev">>}

Signal(p) ==
  \/ <<intf, at[p]>> \notin NoMutex /\ Interrupted(p) /\ UNCHANGED ownvars
  \/ DevSignal(p) /\ UNCHANGED <<config1, sysvars, dbgvars>>

Next ==
  \/ InsertOne \/ ModuleWork \/ Remove
  \/ SetCauseAnOops /\ UNCHANGED <<config1, sysvars, descvars>>
  \/ \E p \in Procs : EnterOne(p) \/ Handlers(p) \/ Signal(p)

\* insmod and rmmod run on, and so does whoever is in a handler; a mutex that
\* is free again and again goes to whoever waits.  No signal ever need come.
Spec == /\ Init /\ [][Next]_vars
        /\ WF_vars(ModuleWork)
        /\ \A p \in Procs : SF_vars(Handlers(p))

-----------------------------------------------------------------------------
\* Two files of procfs set the level and config1, and sysfs parses the level
\* before it checks it: whoever may look finds levels that agree and are in range.
LevelsSane == LevelsAgree /\ ShownSane

\* The context, or its device, is released twice only where module_init has
\* undone everything and returned 0: debugfs with calls that fail with NULL, and
\* myplatdev.
FreedOnce ==
  ctx = "twice" => (intf = "debugfs" /\ null_errors) \/ intf = "myplatdev"

\* A handler entered after module_init had returned never finds the context
\* missing or freed, even if module_exit has begun meanwhile, in procfs and
\* sysfs.  Of those entered before, procfs loses only a write of the level, which
\* is possible before the context is allocated, and what uses the context that
\* out_fail_3 has freed; mymiscdev and myplatdev lose none of their debug_level
\* files, which are there only while the context is.  Nor is it released twice.
NoStaleCtx ==
  /\ \A p \in Procs : pc[p] = "fault" =>
       CASE intf = "procfs"   -> early[p] /\ (at[p] = "level" \/ stage = "unwind")
         [] intf = "sysfs"    -> early[p]
         [] intf \in MyModules -> at[p] = "dev"
         [] OTHER              -> TRUE
  /\ FreedOnce
=============================================================================
