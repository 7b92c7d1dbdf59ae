------------------------------ MODULE SysfsIntf ------------------------------
(***************************************************************************)
(* ch15/sysfs_simple_intf.  A level out of range is taken back.            *)
(***************************************************************************)
EXTENDS PseudoFiles

VARIABLES
  gpressure,       \* the 'pressure' value
  prev_dbglevel    \* per process: the store method's local

SYSFS_MIN == 0   \* DEBUG_LEVEL_MIN
SYSFS_MAX == 2   \* DEBUG_LEVEL_MAX
PRESSURE  == 25

sysvars == <<gpressure, prev_dbglevel>>

\* "dir" is the platform device's directory.
SysInit ==
  << <<"create", {"dir"}>>, <<"create", {"level"}>>, <<"create", {"pgoff"}>>,
     <<"pressure", {}>>, <<"create", {"pressure"}>> >>

SysFiles == <<"dir", "level", "pgoff", "pressure">>

\* The first n files go, the last of them first.
SysRemove(n) == [i \in 1..n |-> <<"remove", {SysFiles[n + 1 - i]}>>]

\* Mutant: every error path starts one label too late.
SysUnwind_OneLess(k) ==
  IF k = 5 THEN SysRemove(2) ELSE IF k = 1 THEN << >> ELSE SysRemove(k - 2)

\* Step k of SysInit fails: out1 to out4.
SysUnwind(k) == IF k = 5 THEN SysRemove(3) ELSE SysRemove(k - 1)

SysExit == SysRemove(4)

SetPressure ==
  /\ Now("pressure")
  /\ gpressure' = PRESSURE /\ todo' = Tail(todo)
  /\ UNCHANGED <<stage, files, ctx, prev_dbglevel>> /\ Module

SysEnter(p) ==
  \/ \E f \in {"level", "pgoff", "pressure"} : Enter(p, f, Read)
  \/ \E n \in Values : Enter(p, "level", Write(n))

\* llkdsysfs_debug_level_store() remembers the level as soon as it has the lock.
SysLock(p) ==
  Lock(p) /\ prev_dbglevel' = [prev_dbglevel EXCEPT ![p] = debug_level]

\* The three show methods.
SysShow(p) ==
  /\ arg[p] = Read /\ Unlock(p, "in")
  /\ UNCHANGED <<modvars, debug_level, prev_dbglevel>>

SysReject(p) ==
  /\ debug_level \notin SYSFS_MIN..SYSFS_MAX /\ Unlock(p, "parsed")
  /\ debug_level' = prev_dbglevel[p]
  /\ UNCHANGED <<modvars, prev_dbglevel>>

SysAccept(p) ==
  /\ debug_level \in SYSFS_MIN..SYSFS_MAX /\ Unlock(p, "parsed")
  /\ UNCHANGED <<modvars, debug_level, prev_dbglevel>>

SysHandlers(p) ==
  /\ \/ SysLock(p) \/ SysShow(p) \/ SysReject(p) \/ SysAccept(p)
     \/ (Parse(p) \/ WriteRefused(p)) /\ UNCHANGED prev_dbglevel
  /\ UNCHANGED gpressure

-----------------------------------------------------------------------------
\* Whoever may look at the level (nobody is between its parsing and its check)
\* finds it in range, and the pressure is set before its file can be read.
ShownSane ==
  intf = "sysfs" =>
    /\ (\A p \in Procs : pc[p] # "parsed") => debug_level \in SYSFS_MIN..SYSFS_MAX
    /\ "pressure" \in files => gpressure = PRESSURE

\* However far module_init came, no file and no context is left when the module
\* is out; sysfs, mymiscdev and myplatdev.
NothingLeft ==
  intf \in {"sysfs", "mymiscdev", "myplatdev"} /\ stage = "out" =>
    files = {} /\ ctx # "live"
=============================================================================
