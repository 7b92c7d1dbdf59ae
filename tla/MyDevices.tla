------------------------------ MODULE MyDevices ------------------------------
(***************************************************************************)
(* ch15/mymiscdev, a misc device with a debug_level file in procfs, and    *)
(* ch15/myplatdev_sysfs, a platform device with one in sysfs.  Both keep   *)
(* the level in the context, beside the misc device's description.         *)
(* debug_level stands for the level in the context, and mtx for the mutex  *)
(* of the level's file.                                                    *)
(***************************************************************************)
EXTENDS PseudoFiles

VARIABLES
  desclock,   \* owner of g_mymiscdev_ctx_lock
  unguarded   \* history: a method that does not own it has been in the device

descvars == <<desclock, unguarded>>

MyModules == {"mymiscdev", "myplatdev"}

\* Whoever owns it is in read_mymiscdev(); that not everybody there does, see
\* DevSignal, and not only the owner lets it go, see DevReturn.
DescLockType ==
  /\ desclock \in Procs \cup {NoOwner} /\ unguarded \in BOOLEAN
  /\ \A p \in Procs : desclock = p =>
       at[p] = "dev" /\ arg[p] = Read /\ pc[p] \in {"in", "fault"}

-----------------------------------------------------------------------------
(* module_init and module_exit *)

MiscInit ==
  << <<"create", {"dev"}>>, <<"set_dev", {}>>, <<"alloc", {}>>, <<"set_level", {}>>,
     <<"create", {"dir"}>>, <<"create", {"level"}>> >>

MiscExit == << <<"remove", {"dir", "level"}>>, <<"free", {}>>, <<"remove", {"dev"}>> >>

\* Step k of MiscInit fails: out, unregister_device, delete_ctx and
\* delete_procfs_root.
MiscUnwind(k) ==
  CASE k = 1 -> << >>
    [] k = 3 -> << <<"remove", {"dev"}>> >>
    [] k = 5 -> << <<"free", {}>>, <<"remove", {"dev"}>> >>
    [] k = 6 -> MiscExit

\* "dir" is the platform device's directory.
PlatInit ==
  << <<"create", {"dir"}>>, <<"alloc", {}>>, <<"set_level", {}>>,
     <<"create", {"level"}>> >>

\* Step k of PlatInit fails: out, unregister_device and delete_ctx.
PlatUnwind(k) ==
  CASE k = 1 -> << >>
    [] k = 2 -> << <<"remove", {"dir"}>> >>
    [] k = 4 -> << <<"free", {}>>, <<"remove", {"dir"}>> >>

\* `ret = -ENOMEM' comes after the goto: module_init returns 0.
PlatFailLost == Now("alloc")

PlatExit ==
  IF "dir" \in files
  THEN << <<"remove", {"level"}>>, <<"free", {}>>, <<"remove", {"dir"}>> >>
  ELSE << <<"again", {}>> >>

\* The file and the device of a platform device that is gone are removed.
UnregisterAgain ==
  /\ Now("again")
  /\ ctx' = "twice" /\ todo' = Tail(todo)
  /\ UNCHANGED <<stage, files>> /\ Module

\* gmiscdev = &mymiscdev: it is NULL before, when the device is there already.
SetDev ==
  /\ Now("set_dev")
  /\ todo' = Tail(todo)
  /\ UNCHANGED <<stage, files, ctx>> /\ Module

SetLevel ==
  /\ Now("set_level")
  /\ debug_level' = 1 /\ todo' = Tail(todo)
  /\ UNCHANGED <<intf, inserts, stage, files, ctx, mtx, procvars>>

-----------------------------------------------------------------------------
(* The debug_level file: both modules parse into a local first. *)

\* open_mymiscdev() looks into what gmiscdev points at, for its message.
OpenNull(p) == Now("set_dev") /\ EnterAt(p, "dev", Read, "fault")

\* The device is opened for a read or for a write.
OpenDev(p) == ~Now("set_dev") /\ \E a \in {Read, Write(0)} : Enter(p, "dev", a)

MyEnter(p) ==
  \/ Enter(p, "level", Read) \/ \E n \in Values : Enter(p, "level", Write(n))
  \/ OpenNull(p) \/ OpenDev(p)

MyShowLevel(p) ==
  /\ Reading(p, "level") /\ ctx = "live" /\ Unlock(p, "in")
  /\ UNCHANGED <<modvars, debug_level, descvars>>

\* The buffer of mymiscdev has one byte, devm_kzalloc() being called with size
\* and flags swapped, and what is copied to it has no NUL: the number is whatever
\* follows makes of it.  What the copy does to the memory behind is left out.
Parsed(p) == IF intf = "mymiscdev" THEN Values ELSE {arg[p][2]}

MyStoreLevel(p) ==
  /\ Writing(p, "level") /\ ctx = "live" /\ Unlock(p, "in")
  /\ debug_level' \in Parsed(p)
  /\ UNCHANGED <<modvars, descvars>>

LevelHandlers(p) ==
  /\ at[p] = "level"
  /\ \/ MyShowLevel(p) \/ MyStoreLevel(p)
     \/ (Lock(p) \/ WriteRefused(p)) /\ UNCHANGED descvars

-----------------------------------------------------------------------------
(* The misc device.  Its fops have no .owner: neither an open descriptor nor *)
(* a running method keeps the module in.  Whoever has "entered" has opened   *)
(* it and calls read or write.                                               *)

InDev(p, from) == at[p] = "dev" /\ pc[p] = from /\ stage # "out"

DevTo(p, place) ==
  /\ pc' = [pc EXCEPT ![p] = place]
  /\ UNCHANGED <<modvars, debug_level, mtx, at, arg, early>>

\* Mutant: the read does not wait for the mutex.
DevLock_NoWait(p) ==
  /\ InDev(p, "entered") /\ arg[p] = Read
  /\ desclock' = p
  /\ DevTo(p, "in") /\ UNCHANGED unguarded

\* read_mymiscdev() waits for the mutex ...
DevLock(p) ==
  /\ InDev(p, "entered") /\ arg[p] = Read /\ desclock = NoOwner
  /\ desclock' = p
  /\ DevTo(p, "in") /\ UNCHANGED unguarded

\* ... or is woken by a signal, and goes on all the same.
DevSignal(p) ==
  /\ InDev(p, "entered") /\ arg[p] = Read
  /\ unguarded' = TRUE
  /\ DevTo(p, "in") /\ UNCHANGED desclock

\* write_mymiscdev() takes no mutex.
DevWrite(p) ==
  /\ InDev(p, "entered") /\ arg[p] # Read
  /\ unguarded' = TRUE
  /\ DevTo(p, "in") /\ UNCHANGED desclock

\* Read and write end by unlocking the mutex, whoever owns it.
DevReturn(p) ==
  /\ InDev(p, "in") /\ ctx = "live"
  /\ LeaveFrom(p, "in") /\ desclock' = NoOwner
  /\ UNCHANGED <<modvars, debug_level, mtx, unguarded>>

\* The module has gone with p in it.
DevLost(p) ==
  /\ at[p] = "dev" /\ pc[p] # "fault" /\ stage = "out"
  /\ DevTo(p, "fault") /\ UNCHANGED descvars

\* A handler uses a context that is not there.
StaleCtx(p) ==
  /\ ctx # "live" /\ stage # "out" /\ Fault(p, "in")
  /\ UNCHANGED <<modvars, debug_level, descvars>>

MyHandlers(p) ==
  \/ LevelHandlers(p)
  \/ DevLock(p) \/ DevWrite(p) \/ DevReturn(p) \/ DevLost(p) \/ StaleCtx(p)

-----------------------------------------------------------------------------
\* Two processes are never both in read_mymiscdev() with the description, as long
\* as no reader has been woken by a signal while it waited and nobody has
\* written: each of those unlocks a mutex it does not own.
ReadersApart ==
  ~unguarded => \A p, q \in Procs :
    at[p] = "dev" /\ pc[p] = "in" /\ at[q] = "dev" /\ pc[q] = "in" => p = q
=============================================================================
