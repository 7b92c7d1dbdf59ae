----------------------------- MODULE PseudoFiles -----------------------------
(***************************************************************************)
(* What the interface modules of ch15 have in common: module_init creates  *)
(* pseudo files one after the other and unwinds when a step fails,         *)
(* module_exit removes them, and meanwhile processes enter the handlers of *)
(* whatever files there are.  The kernel lets the removal of a file wait   *)
(* for the handlers that are in it.                                        *)
(***************************************************************************)
EXTENDS Integers, Sequences, FiniteSets

CONSTANTS
  Procs,       \* processes, each in at most one handler
  NoOwner,     \* "the mutex is free"
  Values,      \* numbers a process may write
  MaxInserts   \* bound: how often a module is inserted

ASSUME FilesAssumption ==
  /\ NoOwner \notin Procs
  /\ Values \subseteq Int
  /\ MaxInserts \in Nat

VARIABLES
  intf,        \* the module of this behaviour: one of Modules
  inserts,     \* how often it was inserted
  stage,       \* "out", "init", "unwind" (a step has failed), "live", "exit"
  todo,        \* steps module_init or module_exit has yet to make
  files,       \* the files there are
  ctx,         \* gdrvctx: "none", "error" (an ERR_PTR), "live", "freed",
               \* or "twice" when it, or its device, was released twice
  debug_level, \* the module's static
  mtx,         \* owner of the module's mutex
  pc,          \* where each process is
  at,          \* at[p]: the file whose handler p is in
  arg,         \* arg[p]: what p does there: it reads, or it writes a number
  early        \* history: p entered the handler before module_init was done

modvars == <<intf, inserts, stage, todo, files, ctx>>
procvars == <<pc, at, arg, early>>

Modules == {"procfs", "sysfs", "debugfs", "mymiscdev", "myplatdev"}
Levels == Values \cup {0, 1}
InHandler == {"entered", "in", "parsed", "fault"}
NoFile == "none"
Read     == <<"read", 0>>
Write(n) == <<"write", n>>
FileNames == {"dir", "level", "pgoff", "drvctx", "config1", "pressure", "dev"}

FilesTypeOK ==
  /\ intf \in Modules /\ inserts \in 0..MaxInserts
  /\ stage \in {"out", "init", "unwind", "live", "exit"}
  /\ files \subseteq FileNames
  /\ ctx \in {"none", "error", "live", "freed", "twice"}
  /\ debug_level \in Levels
  /\ mtx \in Procs \cup {NoOwner}
  /\ pc \in [Procs -> InHandler \cup {"idle"}]
  /\ at \in [Procs -> FileNames \cup {NoFile}]
  /\ arg \in [Procs -> {"read", "write"} \X Levels]
  /\ early \in [Procs -> BOOLEAN]
  /\ \A p \in Procs : /\ pc[p] \in {"in", "parsed"} /\ at[p] # "dev" => mtx = p
                      /\ mtx = p => pc[p] \in {"in", "parsed", "fault"}

Everyone(v) == [p \in Procs |-> v]

FilesInit ==
  /\ inserts = 0 /\ stage = "out" /\ todo = << >> /\ files = {}
  /\ ctx = "none" /\ debug_level = 0
  /\ mtx = NoOwner
  /\ pc = Everyone("idle") /\ at = Everyone(NoFile)
  /\ arg = Everyone(Read) /\ early = Everyone(FALSE)

-----------------------------------------------------------------------------
(* module_init and module_exit work off a list of steps <<what, files>>.     *)

Insert(steps) ==
  /\ stage = "out" /\ inserts < MaxInserts
  /\ inserts' = inserts + 1
  /\ stage' = "init" /\ todo' = steps
  /\ ctx' = "none" /\ debug_level' = 0
  /\ mtx' = NoOwner
  /\ UNCHANGED <<intf, files, procvars>>

Now(what) == todo # << >> /\ todo[1][1] = what
Named     == todo[1][2]
Module    == UNCHANGED <<intf, inserts, debug_level, mtx, procvars>>

Create ==
  /\ Now("create") /\ Named \cap files = {}
  /\ Named \subseteq {"dir", "dev"} \/ "dir" \in files
  /\ files' = files \cup Named
  /\ todo' = Tail(todo)
  /\ UNCHANGED <<stage, ctx>> /\ Module

Alloc ==
  /\ Now("alloc")
  /\ ctx' = "live" /\ todo' = Tail(todo)
  /\ UNCHANGED <<stage, files>> /\ Module

\* A step fails and what was done before is undone: the steps in `unwind'.
\* The module is out afterwards unless module_init loses the error.
Fail(unwind, lost, noctx) ==
  /\ Now("create") \/ Now("alloc")
  /\ stage' = IF lost THEN stage ELSE "unwind"
  /\ todo' = unwind
  /\ ctx' = IF Now("alloc") THEN noctx ELSE ctx
  /\ UNCHANGED files /\ Module

\* Nobody enters the handlers of these files any more ...
Hide ==
  /\ Now("remove") /\ Named \cap files # {}
  /\ files' = files \ Named
  /\ UNCHANGED <<stage, todo, ctx>> /\ Module

\* ... and those who are in them leave; misc_deregister() does not wait for it.
Drain ==
  /\ Now("remove") /\ Named \cap files = {}
  /\ \A p \in Procs : at[p] \notin Named \ {"dev"}
  /\ todo' = Tail(todo)
  /\ UNCHANGED <<stage, files, ctx>> /\ Module

\* kfree(gdrvctx)
FreeCtx ==
  /\ Now("free")
  /\ ctx' = IF ctx = "freed" THEN "twice" ELSE "freed"
  /\ todo' = Tail(todo)
  /\ UNCHANGED <<stage, files>> /\ Module

Done ==
  /\ todo = << >> /\ stage \in {"init", "unwind", "exit"}
  /\ stage' = IF stage = "init" THEN "live" ELSE "out"
  /\ UNCHANGED <<todo, files, ctx>> /\ Module

Exit(steps) ==
  /\ stage = "live"
  /\ stage' = "exit" /\ todo' = steps
  /\ UNCHANGED <<files, ctx>> /\ Module

Work == Create \/ Alloc \/ Hide \/ Drain \/ FreeCtx \/ Done

-----------------------------------------------------------------------------
(* Processes.  A file left behind by a module that is gone has no code.      *)

EnterAt(p, f, a, place) ==
  /\ pc[p] = "idle" /\ f \in files
  /\ pc' = [pc EXCEPT ![p] = place]
  /\ at' = [at EXCEPT ![p] = f]
  /\ arg' = [arg EXCEPT ![p] = a]
  /\ early' = [early EXCEPT ![p] = stage \in {"init", "unwind"}]
  /\ UNCHANGED <<modvars, debug_level, mtx>>

Enter(p, f, a) == EnterAt(p, f, a, IF stage = "out" THEN "fault" ELSE "entered")

\* p, in the handler at `from', returns.
LeaveFrom(p, from) ==
  /\ pc[p] = from
  /\ pc' = [pc EXCEPT ![p] = "idle"] /\ at' = [at EXCEPT ![p] = NoFile]
  /\ arg' = [arg EXCEPT ![p] = Read] /\ early' = [early EXCEPT ![p] = FALSE]

\* mutex_lock_interruptible() ...
Lock(p) ==
  /\ pc[p] = "entered" /\ mtx = NoOwner
  /\ mtx' = p
  /\ pc' = [pc EXCEPT ![p] = "in"]
  /\ UNCHANGED <<modvars, debug_level, at, arg, early>>

\* ... or a signal, and -ERESTARTSYS.
Interrupted(p) == LeaveFrom(p, "entered") /\ UNCHANGED <<modvars, debug_level, mtx>>

Unlock(p, from) == LeaveFrom(p, from) /\ mtx' = NoOwner

\* gdrvctx is used and is no context: the process is lost with the mutex held.
Fault(p, from) ==
  /\ pc[p] = from
  /\ pc' = [pc EXCEPT ![p] = "fault"]
  /\ UNCHANGED <<mtx, at, arg, early>>

Reading(p, f) == at[p] = f /\ arg[p][1] = "read"
Writing(p, f) == at[p] = f /\ arg[p][1] = "write"

\* Mutant: a refused write returns with the mutex held.
WriteRefused_KeepsLock(p) ==
  /\ arg[p][1] = "write"
  /\ LeaveFrom(p, "in")
  /\ UNCHANGED <<modvars, debug_level, mtx>>

\* -EINVAL, -EFAULT, or what is written is not a number.
WriteRefused(p) ==
  /\ arg[p][1] = "write"
  /\ Unlock(p, "in")
  /\ UNCHANGED <<modvars, debug_level>>

\* kstrtoint() stores into debug_level what was written, whatever it is.
Parse(p) ==
  /\ Writing(p, "level") /\ pc[p] = "in"
  /\ debug_level' = arg[p][2]
  /\ pc' = [pc EXCEPT ![p] = "parsed"]
  /\ UNCHANGED <<modvars, mtx, at, arg, early>>

-----------------------------------------------------------------------------
\* rmmod comes to an end whatever the handlers are doing, unless one of them
\* has used a context that is not there.
RemoveReturns ==
  stage = "exit" ~> (stage = "out" \/ \E p \in Procs : pc[p] = "fault")
=============================================================================
