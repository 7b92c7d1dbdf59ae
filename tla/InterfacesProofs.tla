-------------------------- MODULE InterfacesProofs --------------------------
(***************************************************************************)
(* Theorems about the pseudo-file interfaces of ch15, for every number of  *)
(* processes, all numbers they may write and any number of insertions.     *)
(***************************************************************************)
EXTENDS Interfaces, TLAPS

-----------------------------------------------------------------------------
(* Where module_init and module_exit are *)

Mk(f) == <<"create", {f}>>
Rm(F) == <<"remove", F>>
Obtain == <<"alloc", {}>>
Level1 == <<"set_level", {}>>
Free   == <<"free", {}>>

\* Module code is in stage s, with the context c and the files F, and is to do t.
Point(s, c, F, t) == stage = s /\ ctx = c /\ files = F /\ todo = t

\* Likewise, whatever files there are.
Place(s, c, t) == stage = s /\ ctx = c /\ todo = t

\* Steps of the modules that no other module has.
Special == {"set_dev", "set_level", "again", "pressure", "unless_oops"}
NoSpecial(mine) == \A w \in Special \ mine : ~Now(w)

\* What module_init or module_exit does next.
ModNext ==
  \/ /\ UNCHANGED <<gpressure, null_errors>>
     /\ \/ Work \/ SetDev \/ SetLevel \/ UnregisterAgain \/ DbgCreateMissed \/ DbgMayRemove
        \/ /\ stage = "init" /\ ~(intf = "debugfs" /\ Now("create") /\ ~null_errors)
           /\ Fail(Unwind(Len(InitSteps[intf]) - Len(todo) + 1), ErrorLost, NoCtx)
        \/ Exit(ExitSteps[intf])
  \/ SetPressure /\ UNCHANGED null_errors
  \/ files \subseteq {"dir"} /\ Insert(InitSteps[intf])

\* The handlers leave that alone.
LEMMA ModSteps ==
  ASSUME [Next]_vars
  PROVE  ModNext \/ UNCHANGED <<modvars, gpressure, null_errors>>
  <1> USE DEF ModNext, ownvars, sysvars, dbgvars
  <1>1. CASE InsertOne
    BY <1>1 DEF InsertOne
  <1>2. CASE ModuleWork \/ Remove
    <2>1. DbgCreateMissed \/ DbgMayRemove => UNCHANGED null_errors
      BY DEF DbgCreateMissed, DbgMayRemove
    <2>2. QED
      BY <1>2, <2>1 DEF ModuleWork, Remove
  <1>3. CASE SetCauseAnOops /\ UNCHANGED sysvars
    BY <1>3 DEF SetCauseAnOops
  <1>4. ASSUME NEW p \in Procs, EnterOne(p) PROVE UNCHANGED <<modvars, gpressure, null_errors>>
    BY <1>4 DEF EnterOne, ProcEnter, SysEnter, DbgEnter, MyEnter, OpenNull, OpenDev, Enter, EnterAt
  <1>5. ASSUME NEW p \in Procs, Signal(p) PROVE UNCHANGED <<modvars, gpressure, null_errors>>
    BY <1>5 DEF Signal, Interrupted, DevSignal, DevTo
  <1>6. ASSUME NEW p \in Procs, Handlers(p) PROVE UNCHANGED <<modvars, gpressure, null_errors>>
    <2>1. CASE ProcHandlers(p) /\ UNCHANGED <<sysvars, dbgvars, descvars>>
      BY <2>1 DEF ProcHandlers, ProcPgoff, ProcLock, Lock, ShowCtx, ShowLevel, WriteConfig1,
                  WriteLevel, Parse, RejectLevel, AcceptLevel, WriteRefused
    <2>2. CASE SysHandlers(p) /\ UNCHANGED <<config1, dbgvars, descvars>>
      BY <2>2 DEF SysHandlers, SysLock, Lock, SysShow, SysReject, SysAccept, Parse, WriteRefused
    <2>3. CASE DbgHandlers(p) /\ UNCHANGED <<config1, sysvars, descvars>>
      BY <2>3 DEF DbgHandlers, DbgLevel, DbgLock, Lock, DbgShowCtx
    <2>4. CASE MyHandlers(p) /\ UNCHANGED <<config1, sysvars, dbgvars>>
      BY <2>4 DEF MyHandlers, LevelHandlers, MyShowLevel, MyStoreLevel, Lock, WriteRefused,
                  DevLock, DevWrite, DevReturn, DevLost, DevTo, StaleCtx
    <2>5. QED
      BY <1>6, <2>1, <2>2, <2>3, <2>4 DEF Handlers
  <1>7. CASE UNCHANGED vars
    BY <1>7 DEF vars, modvars
  <1>8. QED
    BY <1>1, <1>2, <1>3, <1>4, <1>5, <1>6, <1>7 DEF Next

-----------------------------------------------------------------------------
(* procfs *)

\* At which points the code of procfs may be.
ProcCtl ==
  \/ \E F \in SUBSET {"dir"} : Point("init", "none", F, ProcInit)
  \/ Point("init", "none", {"dir"},
           << Mk("level"), Mk("pgoff"), Obtain, Mk("drvctx"), Mk("config1") >>)
  \/ Point("init", "none", {"dir", "level"},
           << Mk("pgoff"), Obtain, Mk("drvctx"), Mk("config1") >>)
  \/ Point("init", "none", {"dir", "level", "pgoff"}, << Obtain, Mk("drvctx"), Mk("config1") >>)
  \/ Point("init", "live", {"dir", "level", "pgoff"}, << Mk("drvctx"), Mk("config1") >>)
  \/ Point("init", "live", {"dir", "level", "pgoff", "drvctx"}, << Mk("config1") >>)
  \/ \E s \in {"init", "live"} : Point(s, "live", ProcFiles, << >>)
  \/ \E c \in {"none", "error"}, F \in SUBSET ProcFiles : Point("unwind", c, F, << Rm(ProcFiles) >>)
  \/ \E F \in SUBSET ProcFiles : Point("unwind", "live", F, << Free, Rm(ProcFiles) >>)
  \/ \E F \in SUBSET ProcFiles : Point("unwind", "freed", F, << Rm(ProcFiles) >>)
  \/ \E F \in SUBSET ProcFiles : Point("exit", "live", F, << Rm(ProcFiles), Free >>)
  \/ Point("exit", "live", {}, << Free >>)
  \/ \E s \in {"unwind", "exit", "out"}, c \in {"none", "error", "freed"}, F \in SUBSET {"dir"} :
       Point(s, c, F, << >>)

ProcMod ==
  \/ Work \/ ~NoSpecial({})
  \/ stage = "init" /\ Fail(ProcUnwind(Len(ProcInit) - Len(todo) + 1), FALSE, "error")
  \/ Exit(ProcExit)
  \/ files \subseteq {"dir"} /\ Insert(ProcInit)

\* However procfs goes on from a point, it is at one of them again.
LEMMA ProcCtlSteps ==
  ASSUME ProcCtl, ProcMod
  PROVE  ProcCtl'
  <1> USE DEF ProcMod, Work, Create, Alloc, Hide, Drain, FreeCtx, Done, Fail, Exit, Insert,
              Now, Named, NoSpecial, Special, ProcUnwind, ProcInit, ProcExit, ProcFiles,
              Point, Mk, Rm, Obtain, Free
  <1>1. ASSUME NEW F \in SUBSET {"dir"}, Point("init", "none", F, ProcInit) PROVE ProcCtl'
    BY <1>1 DEF ProcCtl
  <1>2. CASE Point("init", "none", {"dir"},
                   << Mk("level"), Mk("pgoff"), Obtain, Mk("drvctx"), Mk("config1") >>)
    BY <1>2 DEF ProcCtl
  <1>3. CASE Point("init", "none", {"dir", "level"},
                   << Mk("pgoff"), Obtain, Mk("drvctx"), Mk("config1") >>)
    BY <1>3 DEF ProcCtl
  <1>4. CASE Point("init", "none", {"dir", "level", "pgoff"}, << Obtain, Mk("drvctx"), Mk("config1") >>)
    BY <1>4 DEF ProcCtl
  <1>5. CASE Point("init", "live", {"dir", "level", "pgoff"}, << Mk("drvctx"), Mk("config1") >>)
    BY <1>5 DEF ProcCtl
  <1>6. CASE Point("init", "live", {"dir", "level", "pgoff", "drvctx"}, << Mk("config1") >>)
    BY <1>6 DEF ProcCtl
  <1>7. ASSUME NEW s \in {"init", "live"}, Point(s, "live", ProcFiles, << >>) PROVE ProcCtl'
    BY <1>7 DEF ProcCtl
  <1>8. ASSUME NEW c \in {"none", "error"}, NEW F \in SUBSET ProcFiles,
               Point("unwind", c, F, << Rm(ProcFiles) >>)
        PROVE ProcCtl'
    BY <1>8 DEF ProcCtl
  <1>9. ASSUME NEW F \in SUBSET ProcFiles, Point("unwind", "live", F, << Free, Rm(ProcFiles) >>)
        PROVE ProcCtl'
    BY <1>9 DEF ProcCtl
  <1>10. ASSUME NEW F \in SUBSET ProcFiles, Point("unwind", "freed", F, << Rm(ProcFiles) >>)
        PROVE ProcCtl'
    BY <1>10 DEF ProcCtl
  <1>11. ASSUME NEW F \in SUBSET ProcFiles, Point("exit", "live", F, << Rm(ProcFiles), Free >>)
        PROVE ProcCtl'
    BY <1>11 DEF ProcCtl
  <1>12. CASE Point("exit", "live", {}, << Free >>)
    BY <1>12 DEF ProcCtl
  <1>13. ASSUME NEW s \in {"unwind", "exit", "out"}, NEW c \in {"none", "error", "freed"},
                NEW F \in SUBSET {"dir"}, Point(s, c, F, << >>)
         PROVE ProcCtl'
    BY <1>13 DEF ProcCtl
  <1>14. QED
    BY <1>1, <1>2, <1>3, <1>4, <1>5, <1>6, <1>7, <1>8, <1>9, <1>10, <1>11, <1>12, <1>13
       DEF ProcCtl

\* What those points have in common.
ProcFacts ==
  /\ files \subseteq ProcFiles /\ ctx \in {"none", "error", "live", "freed"}
  /\ Now("remove") => Named = ProcFiles /\ stage \in {"unwind", "exit"}
  /\ Now("alloc") => stage = "init" /\ ctx = "none" /\ files = {"dir", "level", "pgoff"}
  /\ Now("free") => stage = "unwind" \/ (stage = "exit" /\ files = {} /\ ~Now("remove"))
  /\ stage = "live" => ctx = "live"
  /\ stage = "exit" /\ files # {} => ctx = "live" \/ files = {"dir"}
  /\ files \cap {"drvctx", "config1"} # {} => ctx = "live" \/ stage = "unwind"
  /\ stage = "out" \/ (todo = << >> /\ stage \in {"unwind", "exit"}) => files \subseteq {"dir"} /\ ~Now("remove")
  /\ NoSpecial({})

\* They are so at every one of those points.
LEMMA ProcPoints ==
  ASSUME ProcCtl
  PROVE  ProcFacts
  <1> USE DEF ProcCtl, Point, Now, Named, ProcInit, Mk, Rm, Obtain, Free
  <1>1. files \subseteq ProcFiles /\ ctx \in {"none", "error", "live", "freed"}
    BY DEF ProcFiles
  <1>2. Now("remove") => Named = ProcFiles /\ stage \in {"unwind", "exit"}
    OBVIOUS
  <1>3. Now("alloc") => stage = "init" /\ ctx = "none" /\ files = {"dir", "level", "pgoff"}
    OBVIOUS
  <1>4. Now("free") => stage = "unwind" \/ (stage = "exit" /\ files = {} /\ ~Now("remove"))
    OBVIOUS
  <1>5. stage = "live" => ctx = "live"
    OBVIOUS
  <1>6. stage = "exit" /\ files # {} => ctx = "live" \/ files = {"dir"}
    OBVIOUS
  <1>7. files \cap {"drvctx", "config1"} # {} => ctx = "live" \/ stage = "unwind"
    OBVIOUS
  <1>8. stage = "out" \/ (todo = << >> /\ stage \in {"unwind", "exit"}) =>
          files \subseteq {"dir"} /\ ~Now("remove")
    <2>1. stage = "out" => todo = << >> /\ files \subseteq {"dir"}
      OBVIOUS
    <2>2. ASSUME todo = << >>, stage \in {"unwind", "exit"} PROVE files \subseteq {"dir"}
      <3>1. /\ todo # << Rm(ProcFiles) >> /\ todo # << Free, Rm(ProcFiles) >>
            /\ todo # << Rm(ProcFiles), Free >>
        BY <2>2
      <3>2. QED
        BY <2>2, <3>1
    <2>3. QED
      BY <2>1, <2>2
  <1>9. NoSpecial({})
    BY DEF NoSpecial, Special
  <1>10. QED
    BY <1>1, <1>2, <1>3, <1>4, <1>5, <1>6, <1>7, <1>8, <1>9 DEF ProcFacts

-----------------------------------------------------------------------------
(* sysfs *)

Sys2 == {"dir", "level"}
Sys3 == {"dir", "level", "pgoff"}
Sys4 == {"dir", "level", "pgoff", "pressure"}

\* At which points the code of sysfs may be, and what pressure is shown from there.
SysPoints ==
  \/ Point("init", "none", {}, SysInit)
  \/ Point("init", "none", {"dir"}, << Mk("level"), Mk("pgoff"), <<"pressure", {}>>, Mk("pressure") >>)
  \/ Point("init", "none", Sys2, << Mk("pgoff"), <<"pressure", {}>>, Mk("pressure") >>)
  \/ Point("init", "none", Sys3, << <<"pressure", {}>>, Mk("pressure") >>)
  \/ Point("init", "none", Sys3, << Mk("pressure") >>)
  \/ \E s \in {"init", "live"} : Point(s, "none", Sys4, << >>)
  \/ \E s \in {"unwind", "exit"} :
       \/ \E F \in {Sys4, Sys3} :
            Point(s, "none", F, << Rm({"pressure"}), Rm({"pgoff"}), Rm({"level"}), Rm({"dir"}) >>)
       \/ \E F \in {Sys3, Sys2} : Point(s, "none", F, << Rm({"pgoff"}), Rm({"level"}), Rm({"dir"}) >>)
       \/ \E F \in {Sys2, {"dir"}} : Point(s, "none", F, << Rm({"level"}), Rm({"dir"}) >>)
       \/ \E F \in {{"dir"}, {}} : Point(s, "none", F, << Rm({"dir"}) >>)
  \/ \E s \in {"unwind", "exit", "out"} : Point(s, "none", {}, << >>)

SysCtl ==
  /\ SysPoints
  /\ "pressure" \in files \/ todo = << Mk("pressure") >> => gpressure = PRESSURE

SysMod ==
  \/ /\ UNCHANGED gpressure
     /\ \/ Work \/ ~NoSpecial({"pressure"})
        \/ stage = "init" /\ Fail(SysUnwind(Len(SysInit) - Len(todo) + 1), FALSE, "none")
        \/ Exit(SysExit)
  \/ SetPressure
  \/ files \subseteq {"dir"} /\ Insert(SysInit)

\* Each error path removes what is there, the last of the files first.
LEMMA SysRemovals ==
  /\ SysRemove(0) = << >>
  /\ SysRemove(1) = << Rm({"dir"}) >>
  /\ SysRemove(2) = << Rm({"level"}), Rm({"dir"}) >>
  /\ SysRemove(3) = << Rm({"pgoff"}), Rm({"level"}), Rm({"dir"}) >>
  /\ SysRemove(4) = << Rm({"pressure"}), Rm({"pgoff"}), Rm({"level"}), Rm({"dir"}) >>
  BY DEF SysRemove, SysFiles, Rm

\* However sysfs goes on from a point, it is at one of them again.
LEMMA SysCtlSteps ==
  ASSUME SysCtl, SysMod
  PROVE  SysCtl'
  <1> USE SysRemovals DEF SysMod, Work, Create, Alloc, Hide, Drain, FreeCtx, Done, Fail, Exit,
              Insert, SetPressure, Now, Named, NoSpecial, Special, SysUnwind, SysInit, SysExit,
              Point, Mk, Rm, Sys2, Sys3, Sys4
  <1>0. SUFFICES SysPoints' /\ ("pressure" \in files' \/ todo' = << Mk("pressure") >> => gpressure' = PRESSURE)
    BY DEF SysCtl
  <1>1. CASE Point("init", "none", {}, SysInit)
    <2>1. Len(SysInit) - Len(todo) + 1 = 1 /\ SysUnwind(1) = << >>
      BY <1>1
    <2>2. CASE Create
      BY <1>1, <2>2 DEF SysPoints
    <2>3. CASE Fail(SysUnwind(Len(SysInit) - Len(todo) + 1), FALSE, "none")
      <3>1. stage' = "unwind" /\ todo' = << >> /\ UNCHANGED <<files, ctx>>
        BY <1>1, <2>1, <2>3
      <3>2. QED
        BY <1>1, <3>1 DEF SysPoints
    <2>4. Create \/ Fail(SysUnwind(Len(SysInit) - Len(todo) + 1), FALSE, "none")
      BY <1>1
    <2>5. QED
      BY <2>2, <2>3, <2>4
  <1>2. CASE Point("init", "none", {"dir"}, << Mk("level"), Mk("pgoff"), <<"pressure", {}>>, Mk("pressure") >>)
    BY <1>2 DEF SysPoints
  <1>3. CASE Point("init", "none", Sys2, << Mk("pgoff"), <<"pressure", {}>>, Mk("pressure") >>)
    BY <1>3 DEF SysPoints
  <1>4. CASE Point("init", "none", Sys3, << <<"pressure", {}>>, Mk("pressure") >>)
    BY <1>4 DEF SysPoints
  <1>5. CASE Point("init", "none", Sys3, << Mk("pressure") >>)
    BY <1>5 DEF SysPoints, SysCtl
  <1>6. ASSUME NEW s \in {"init", "live"}, Point(s, "none", Sys4, << >>) PROVE SysCtl'
    BY <1>6 DEF SysPoints, SysCtl
  <1>7. ASSUME NEW s \in {"unwind", "exit"}, NEW F \in {Sys4, Sys3},
               Point(s, "none", F, << Rm({"pressure"}), Rm({"pgoff"}), Rm({"level"}), Rm({"dir"}) >>)
        PROVE  SysCtl'
    BY <1>7 DEF SysPoints, SysCtl
  <1>8. ASSUME NEW s \in {"unwind", "exit"}, NEW F \in {Sys3, Sys2},
               Point(s, "none", F, << Rm({"pgoff"}), Rm({"level"}), Rm({"dir"}) >>)
        PROVE  SysCtl'
    BY <1>8 DEF SysPoints, SysCtl
  <1>9. ASSUME NEW s \in {"unwind", "exit"}, NEW F \in {Sys2, {"dir"}},
               Point(s, "none", F, << Rm({"level"}), Rm({"dir"}) >>)
        PROVE  SysCtl'
    BY <1>9 DEF SysPoints, SysCtl
  <1>10. ASSUME NEW s \in {"unwind", "exit"}, NEW F \in {{"dir"}, {}},
                Point(s, "none", F, << Rm({"dir"}) >>)
        PROVE  SysCtl'
    BY <1>10 DEF SysPoints, SysCtl
  <1>11. ASSUME NEW s \in {"unwind", "exit", "out"}, Point(s, "none", {}, << >>) PROVE SysCtl'
    BY <1>11 DEF SysPoints, SysCtl
  <1>12. QED
    BY <1>1, <1>2, <1>3, <1>4, <1>5, <1>6, <1>7, <1>8, <1>9, <1>10, <1>11 DEF SysCtl, SysPoints

-----------------------------------------------------------------------------
(* mymiscdev and myplatdev *)

\* At which points the code of mymiscdev may be.
MiscCtl ==
  \/ Point("init", "none", {}, MiscInit)
  \/ Point("init", "none", {"dev"},
           << <<"set_dev", {}>>, Obtain, Level1, Mk("dir"), Mk("level") >>)
  \/ Point("init", "none", {"dev"}, << Obtain, Level1, Mk("dir"), Mk("level") >>)
  \/ Point("init", "live", {"dev"}, << Level1, Mk("dir"), Mk("level") >>)
  \/ Point("init", "live", {"dev"}, << Mk("dir"), Mk("level") >>)
  \/ Point("init", "live", {"dev", "dir"}, << Mk("level") >>)
  \/ \E s \in {"init", "live"} : Point(s, "live", {"dev", "dir", "level"}, << >>)
  \/ \E s \in {"unwind", "exit"} :
       \/ \E F \in {{"dev", "dir", "level"}, {"dev", "dir"}, {"dev"}} : Point(s, "live", F, MiscExit)
       \/ Point(s, "live", {"dev"}, << Free, Rm({"dev"}) >>)
       \/ \E c \in {"none", "freed"}, F \in {{"dev"}, {}} : Point(s, c, F, << Rm({"dev"}) >>)
  \/ \E s \in {"unwind", "exit", "out"}, c \in {"none", "freed"} : Point(s, c, {}, << >>)

MiscMod ==
  \/ Work \/ SetDev \/ SetLevel \/ ~NoSpecial({"set_dev", "set_level"})
  \/ stage = "init" /\ Fail(MiscUnwind(Len(MiscInit) - Len(todo) + 1), FALSE, "none")
  \/ Exit(MiscExit)
  \/ files \subseteq {"dir"} /\ Insert(MiscInit)

\* However mymiscdev goes on from a point, it is at one of them again.
LEMMA MiscCtlSteps ==
  ASSUME MiscCtl, MiscMod
  PROVE  MiscCtl'
  <1> USE DEF MiscMod, Work, Create, Alloc, Hide, Drain, FreeCtx, Done, Fail, Exit, Insert,
              SetDev, SetLevel, Now, Named, NoSpecial, Special, MiscUnwind, MiscInit, MiscExit,
              Point, Mk, Rm, Obtain, Level1, Free
  <1>1. CASE Point("init", "none", {}, MiscInit)
    BY <1>1 DEF MiscCtl
  <1>2. CASE Point("init", "none", {"dev"}, << Obtain, Level1, Mk("dir"), Mk("level") >>)
    BY <1>2 DEF MiscCtl
  <1>3. CASE Point("init", "live", {"dev"}, << Level1, Mk("dir"), Mk("level") >>)
    BY <1>3 DEF MiscCtl
  <1>4. CASE Point("init", "live", {"dev"}, << Mk("dir"), Mk("level") >>)
    BY <1>4 DEF MiscCtl
  <1>5. CASE Point("init", "live", {"dev", "dir"}, << Mk("level") >>)
    BY <1>5 DEF MiscCtl
  <1>6. ASSUME NEW s \in {"init", "live"}, Point(s, "live", {"dev", "dir", "level"}, << >>)
        PROVE  MiscCtl'
    BY <1>6 DEF MiscCtl
  <1>7. ASSUME NEW s \in {"unwind", "exit"}, NEW F \in {{"dev", "dir", "level"}, {"dev", "dir"}, {"dev"}},
               Point(s, "live", F, MiscExit)
        PROVE  MiscCtl'
    BY <1>7 DEF MiscCtl
  <1>8. ASSUME NEW s \in {"unwind", "exit"}, Point(s, "live", {"dev"}, << Free, Rm({"dev"}) >>)
        PROVE  MiscCtl'
    BY <1>8 DEF MiscCtl
  <1>9. ASSUME NEW s \in {"unwind", "exit"}, NEW c \in {"none", "freed"}, NEW F \in {{"dev"}, {}},
               Point(s, c, F, << Rm({"dev"}) >>)
        PROVE  MiscCtl'
    BY <1>9 DEF MiscCtl
  <1>10. ASSUME NEW s \in {"unwind", "exit", "out"}, NEW c \in {"none", "freed"}, Point(s, c, {}, << >>)
        PROVE  MiscCtl'
    BY <1>10 DEF MiscCtl
  <1>11. CASE Point("init", "none", {"dev"},
                    << <<"set_dev", {}>>, Obtain, Level1, Mk("dir"), Mk("level") >>)
    BY <1>11 DEF MiscCtl
  <1>12. QED
    BY <1>1, <1>2, <1>3, <1>4, <1>5, <1>6, <1>7, <1>8, <1>9, <1>10, <1>11 DEF MiscCtl

\* At which points the code of myplatdev may be: after a failed allocation it has
\* undone everything and is in.
PlatCtl ==
  \/ Point("init", "none", {}, PlatInit)
  \/ Point("init", "none", {"dir"}, << Obtain, Level1, Mk("level") >>)
  \/ Point("init", "live", {"dir"}, << Level1, Mk("level") >>)
  \/ Point("init", "live", {"dir"}, << Mk("level") >>)
  \/ \E F \in {{"dir"}, {}} : Point("init", "none", F, << Rm({"dir"}) >>)
  \/ \E s \in {"init", "live"} :
       Point(s, "live", {"dir", "level"}, << >>) \/ Point(s, "none", {}, << >>)
  \/ \E F \in {{"dir", "level"}, {"dir"}} :
       Point("exit", "live", F, << Rm({"level"}), Free, Rm({"dir"}) >>)
  \/ \E s \in {"unwind", "exit"} :
       \/ Point(s, "live", {"dir"}, << Free, Rm({"dir"}) >>)
       \/ \E F \in {{"dir"}, {}} : Point(s, "freed", F, << Rm({"dir"}) >>)
  \/ Point("exit", "none", {}, << <<"again", {}>> >>)
  \/ \E s \in {"unwind", "exit", "out"}, c \in {"none", "freed", "twice"} : Point(s, c, {}, << >>)

PlatMod ==
  \/ Work \/ SetLevel \/ UnregisterAgain \/ ~NoSpecial({"set_level", "again"})
  \/ stage = "init" /\ Fail(PlatUnwind(Len(PlatInit) - Len(todo) + 1), PlatFailLost, "none")
  \/ Exit(PlatExit)
  \/ files \subseteq {"dir"} /\ Insert(PlatInit)

\* However myplatdev goes on from a point, it is at one of them again.
LEMMA PlatCtlSteps ==
  ASSUME PlatCtl, PlatMod
  PROVE  PlatCtl'
  <1> USE DEF PlatMod, Work, Create, Alloc, Hide, Drain, FreeCtx, Done, Fail, Exit, Insert,
              SetLevel, UnregisterAgain, Now, Named, NoSpecial, Special, PlatUnwind, PlatInit,
              PlatExit, PlatFailLost, Point, Mk, Rm, Obtain, Level1, Free
  <1>1. CASE Point("init", "none", {}, PlatInit)
    BY <1>1 DEF PlatCtl
  <1>2. CASE Point("init", "none", {"dir"}, << Obtain, Level1, Mk("level") >>)
    BY <1>2 DEF PlatCtl
  <1>3. CASE Point("init", "live", {"dir"}, << Level1, Mk("level") >>)
    BY <1>3 DEF PlatCtl
  <1>4. CASE Point("init", "live", {"dir"}, << Mk("level") >>)
    BY <1>4 DEF PlatCtl
  <1>5. ASSUME NEW F \in {{"dir"}, {}}, Point("init", "none", F, << Rm({"dir"}) >>) PROVE PlatCtl'
    BY <1>5 DEF PlatCtl
  <1>6. ASSUME NEW s \in {"init", "live"}, Point(s, "live", {"dir", "level"}, << >>) PROVE PlatCtl'
    BY <1>6 DEF PlatCtl
  <1>7. ASSUME NEW s \in {"init", "live"}, Point(s, "none", {}, << >>) PROVE PlatCtl'
    BY <1>7 DEF PlatCtl
  <1>8. ASSUME NEW F \in {{"dir", "level"}, {"dir"}},
               Point("exit", "live", F, << Rm({"level"}), Free, Rm({"dir"}) >>)
        PROVE  PlatCtl'
    BY <1>8 DEF PlatCtl
  <1>9. ASSUME NEW s \in {"unwind", "exit"}, Point(s, "live", {"dir"}, << Free, Rm({"dir"}) >>)
        PROVE  PlatCtl'
    BY <1>9 DEF PlatCtl
  <1>10. ASSUME NEW s \in {"unwind", "exit"}, NEW F \in {{"dir"}, {}},
                Point(s, "freed", F, << Rm({"dir"}) >>)
        PROVE  PlatCtl'
    BY <1>10 DEF PlatCtl
  <1>11. CASE Point("exit", "none", {}, << <<"again", {}>> >>)
    BY <1>11 DEF PlatCtl
  <1>12. ASSUME NEW s \in {"unwind", "exit", "out"}, NEW c \in {"none", "freed", "twice"},
                Point(s, c, {}, << >>)
        PROVE  PlatCtl'
    BY <1>12 DEF PlatCtl
  <1>13. QED
    BY <1>1, <1>2, <1>3, <1>4, <1>5, <1>6, <1>7, <1>8, <1>9, <1>10, <1>11, <1>12 DEF PlatCtl

-----------------------------------------------------------------------------
(* debugfs *)

\* At which points the code of debugfs may be; the last of them only where an
\* error that is NULL lets module_init return 0 after it has undone everything.
DbgCtl ==
  /\ files \subseteq DbgFiles
  /\ \/ Place("init", "none", DbgInit)
     \/ Place("init", "none", << Obtain, Mk("drvctx"), Mk("level") >>)
     \/ Place("init", "live", << Mk("drvctx"), Mk("level") >>)
     \/ Place("init", "live", << Mk("level") >>)
     \/ \E s \in {"init", "live"} : Place(s, "live", << >>)
     \/ Place("unwind", "error", << Rm(DbgFiles) >>)
     \/ Place("exit", "live", << Free, <<"unless_oops", DbgFiles>> >>)
     \/ Place("exit", "freed", << <<"unless_oops", DbgFiles>> >>)
     \/ Place("exit", "freed", << Rm(DbgFiles) >>)
     \/ \E s \in {"unwind", "exit", "out"}, c \in {"none", "error", "freed"} : Place(s, c, << >>)
     \/ /\ null_errors
        /\ \/ Place("init", "live", << Free, Rm(DbgFiles) >>)
           \/ Place("init", "freed", << Rm(DbgFiles) >>)
           \/ \E s \in {"init", "live"}, c \in {"none", "freed"} : Place(s, c, << >>)
           \/ \E c \in {"none", "freed"} :
                Place("exit", c, << Free, <<"unless_oops", DbgFiles>> >>)
           \/ \E t \in {<< <<"unless_oops", DbgFiles>> >>, << Rm(DbgFiles) >>} :
                Place("exit", "twice", t)
           \/ \E s \in {"exit", "out"} : Place(s, "twice", << >>)

DbgMod ==
  \/ /\ UNCHANGED null_errors
     /\ \/ Work \/ DbgCreateMissed \/ DbgMayRemove \/ ~NoSpecial({"unless_oops"})
        \/ /\ stage = "init" /\ (Now("create") => null_errors)
           /\ Fail(DbgUnwind(Len(DbgInit) - Len(todo) + 1), DbgFailLost, "error")
        \/ Exit(DbgExit)
  \/ files \subseteq {"dir"} /\ Insert(DbgInit)

\* However debugfs goes on from a point, it is at one of them again.
LEMMA DbgCtlSteps ==
  ASSUME DbgCtl, DbgMod
  PROVE  DbgCtl'
  <1> USE DEF DbgMod, Work, Create, Alloc, Hide, Drain, FreeCtx, Done, Fail, Exit, Insert,
              DbgCreateMissed, DbgMayRemove, Now, Named, NoSpecial, Special, DbgUnwind, DbgInit,
              DbgExit, DbgFailLost, DbgFiles, Place, Mk, Rm, Obtain, Free
  <1>1. CASE Place("init", "none", DbgInit)
    BY <1>1 DEF DbgCtl
  <1>2. CASE Place("init", "none", << Obtain, Mk("drvctx"), Mk("level") >>)
    BY <1>2 DEF DbgCtl
  <1>3. CASE Place("init", "live", << Mk("drvctx"), Mk("level") >>)
    BY <1>3 DEF DbgCtl
  <1>4. CASE Place("init", "live", << Mk("level") >>)
    BY <1>4 DEF DbgCtl
  <1>5. ASSUME NEW s \in {"init", "live"}, Place(s, "live", << >>) PROVE DbgCtl'
    BY <1>5 DEF DbgCtl
  <1>6. CASE Place("unwind", "error", << Rm(DbgFiles) >>)
    BY <1>6 DEF DbgCtl
  <1>7. CASE Place("exit", "live", << Free, <<"unless_oops", DbgFiles>> >>)
    BY <1>7 DEF DbgCtl
  <1>8. CASE Place("exit", "freed", << <<"unless_oops", DbgFiles>> >>)
    BY <1>8 DEF DbgCtl
  <1>9. CASE Place("exit", "freed", << Rm(DbgFiles) >>)
    BY <1>9 DEF DbgCtl
  <1>10. ASSUME NEW s \in {"unwind", "exit", "out"}, NEW c \in {"none", "error", "freed"},
                Place(s, c, << >>)
         PROVE  DbgCtl'
    BY <1>10 DEF DbgCtl
  <1>11. CASE null_errors /\ Place("init", "live", << Free, Rm(DbgFiles) >>)
    BY <1>11 DEF DbgCtl
  <1>12. CASE null_errors /\ Place("init", "freed", << Rm(DbgFiles) >>)
    BY <1>12 DEF DbgCtl
  <1>13. ASSUME null_errors, NEW s \in {"init", "live"}, NEW c \in {"none", "freed"},
                Place(s, c, << >>)
         PROVE  DbgCtl'
    BY <1>13 DEF DbgCtl
  <1>14. ASSUME null_errors, NEW c \in {"none", "freed"},
                Place("exit", c, << Free, <<"unless_oops", DbgFiles>> >>)
         PROVE  DbgCtl'
    BY <1>14 DEF DbgCtl
  <1>15. CASE null_errors /\ Place("exit", "twice", << <<"unless_oops", DbgFiles>> >>)
    BY <1>15 DEF DbgCtl
  <1>16. CASE null_errors /\ Place("exit", "twice", << Rm(DbgFiles) >>)
    BY <1>16 DEF DbgCtl
  <1>17. ASSUME null_errors, NEW s \in {"exit", "out"}, Place(s, "twice", << >>) PROVE DbgCtl'
    BY <1>17 DEF DbgCtl
  <1>18. QED
    BY <1>1, <1>2, <1>3, <1>4, <1>5, <1>6, <1>7, <1>8, <1>9, <1>10, <1>11, <1>12, <1>13,
       <1>14, <1>15, <1>16, <1>17 DEF DbgCtl

-----------------------------------------------------------------------------
(* Whichever module it is *)

Ctl ==
  /\ intf \in Intfs
  /\ intf = "procfs" => ProcCtl
  /\ intf = "sysfs" => SysCtl
  /\ intf = "debugfs" => DbgCtl
  /\ intf = "mymiscdev" => MiscCtl
  /\ intf = "myplatdev" => PlatCtl

\* A behaviour is one of a single module.
LEMMA SameIntf ==
  ASSUME ModNext \/ UNCHANGED <<modvars, gpressure, null_errors>>
  PROVE  intf' = intf
  BY DEF ModNext, modvars, Work, Create, Alloc, Hide, Drain, FreeCtx, Done, Fail, Exit, Insert,
         SetDev, SetLevel, UnregisterAgain, SetPressure, DbgCreateMissed, DbgMayRemove, Module

\* The points of each module are those of its code.
LEMMA CtlSteps ==
  ASSUME Ctl, [Next]_vars
  PROVE  Ctl'
  <1>1. ModNext \/ UNCHANGED <<modvars, gpressure, null_errors>>
    BY ModSteps
  <1>2. intf' = intf /\ intf \in Modules
    BY <1>1, SameIntf, IntfAssumption DEF Ctl
  <1>3. CASE UNCHANGED <<modvars, gpressure, null_errors>>
    <2> USE <1>3 DEF modvars, Point, Place
    <2>1. ProcCtl => ProcCtl'
      BY DEF ProcCtl
    <2>2. SysCtl => SysCtl'
      BY DEF SysCtl, SysPoints
    <2>3. DbgCtl => DbgCtl'
      BY DEF DbgCtl
    <2>4. MiscCtl => MiscCtl'
      BY DEF MiscCtl
    <2>5. PlatCtl => PlatCtl'
      BY DEF PlatCtl
    <2>6. QED
      BY <1>2, <2>1, <2>2, <2>3, <2>4, <2>5 DEF Ctl
  <1>4. ASSUME ModNext PROVE Ctl'
    <2> USE <1>4 DEF ModNext, NoSpecial, Special, SetDev, SetLevel, UnregisterAgain, SetPressure,
                     DbgCreateMissed, DbgMayRemove, Unwind, ErrorLost, NoCtx, InitSteps, ExitSteps
    <2>1. CASE intf = "procfs"
      <3>1. ProcMod
        BY <2>1 DEF ProcMod
      <3>2. QED
        BY <1>2, <2>1, <3>1, ProcCtlSteps DEF Ctl
    <2>2. CASE intf = "sysfs"
      <3>1. SysMod
        BY <2>2 DEF SysMod
      <3>2. QED
        BY <1>2, <2>2, <3>1, SysCtlSteps DEF Ctl
    <2>3. CASE intf = "debugfs"
      <3>1. ErrorLost <=> DbgFailLost
        BY <2>3
      <3>2. ASSUME Fail(Unwind(Len(InitSteps[intf]) - Len(todo) + 1), ErrorLost, NoCtx)
            PROVE  Fail(DbgUnwind(Len(DbgInit) - Len(todo) + 1), DbgFailLost, "error")
        BY <2>3, <3>1, <3>2 DEF Fail
      <3>3. DbgMod
        BY <2>3, <3>2 DEF DbgMod
      <3>4. QED
        BY <1>2, <2>3, <3>3, DbgCtlSteps DEF Ctl
    <2>4. CASE intf = "mymiscdev"
      <3>1. MiscMod
        BY <2>4 DEF MiscMod
      <3>2. QED
        BY <1>2, <2>4, <3>1, MiscCtlSteps DEF Ctl
    <2>5. CASE intf = "myplatdev"
      <3>1. ErrorLost <=> PlatFailLost
        BY <2>5
      <3>2. ASSUME Fail(Unwind(Len(InitSteps[intf]) - Len(todo) + 1), ErrorLost, NoCtx)
            PROVE  Fail(PlatUnwind(Len(PlatInit) - Len(todo) + 1), PlatFailLost, "none")
        BY <2>5, <3>1, <3>2 DEF Fail
      <3>3. PlatMod
        BY <2>5, <3>2 DEF PlatMod
      <3>4. QED
        BY <1>2, <2>5, <3>3, PlatCtlSteps DEF Ctl
    <2>6. QED
      BY <1>2, <2>1, <2>2, <2>3, <2>4, <2>5 DEF Modules
  <1>5. QED
    BY <1>1, <1>3, <1>4

\* The files a process can be in the handler of.
Shown ==
  CASE intf = "procfs"    -> {"level", "pgoff", "drvctx", "config1"}
    [] intf = "sysfs"     -> {"level", "pgoff", "pressure"}
    [] intf = "debugfs"   -> {"level", "drvctx"}
    [] intf = "mymiscdev" -> {"level", "dev"}
    [] intf = "myplatdev" -> {"level"}

\* The points of the modules as far as files and context are concerned.
LEMMA CtlFacts ==
  ASSUME Ctl
  PROVE  /\ files \subseteq Shown \cup {"dir"}
         /\ stage \in {"out", "init", "unwind", "live", "exit"}
         /\ ctx \in {"none", "error", "live", "freed", "twice"}
         /\ NothingLeft /\ FreedOnce
         /\ intf = "sysfs" /\ "pressure" \in files => gpressure = PRESSURE
  <1> USE DEF Point, Place, NothingLeft, FreedOnce
  <1>0. intf \in Modules
    BY IntfAssumption DEF Ctl
  <1>1. CASE intf = "procfs"
    BY <1>1 DEF Ctl, ProcCtl, ProcFiles, Shown
  <1>2. CASE intf = "sysfs"
    BY <1>2 DEF Ctl, SysCtl, SysPoints, Sys2, Sys3, Sys4, Shown
  <1>3. CASE intf = "debugfs"
    BY <1>3 DEF Ctl, DbgCtl, DbgFiles, Shown
  <1>4. CASE intf = "mymiscdev"
    BY <1>4 DEF Ctl, MiscCtl, Shown
  <1>5. CASE intf = "myplatdev"
    BY <1>5 DEF Ctl, PlatCtl, Shown
  <1>6. QED
    BY <1>0, <1>1, <1>2, <1>3, <1>4, <1>5 DEF Modules

-----------------------------------------------------------------------------
(* Processes and mutexes *)

MovesTo(p, place) ==
  pc' = [pc EXCEPT ![p] = place] /\ UNCHANGED <<at, arg, early>>

\* What a step of p does to where it is and to the two mutexes.
Moves(p) ==
  \/ /\ \E f \in files \cap Shown, a \in {"read", "write"} \X Levels : Enter(p, f, a)
     /\ UNCHANGED descvars
  \/ "dev" \in Shown /\ EnterAt(p, "dev", Read, "fault") /\ UNCHANGED descvars
  \/ LeaveFrom(p, "entered") /\ UNCHANGED <<mtx, descvars>>
  \/ /\ Lock(p) /\ at[p] # "dev" /\ (intf = "procfs" => at[p] # "pgoff")
     /\ UNCHANGED descvars
  \/ /\ at[p] # "dev" /\ mtx' = NoOwner
     /\ LeaveFrom(p, "in") \/ LeaveFrom(p, "parsed")
     /\ UNCHANGED descvars
  \/ /\ ctx # "live" /\ (intf \in MyModules => stage # "out") /\ intf # "sysfs"
     /\ Fault(p, "in") \/ Fault(p, "parsed")
     /\ UNCHANGED descvars
  \/ /\ at[p] = "level" /\ pc[p] = "in" /\ MovesTo(p, "parsed") /\ intf \notin MyModules
     /\ UNCHANGED <<mtx, descvars>>
  \/ /\ at[p] = "dev" /\ pc[p] = "entered" /\ UNCHANGED mtx
     /\ \/ /\ arg[p] = Read /\ desclock = NoOwner /\ desclock' = p
           /\ UNCHANGED unguarded
        \/ unguarded' = TRUE /\ UNCHANGED desclock
     /\ MovesTo(p, "in")
  \/ /\ at[p] = "dev" /\ LeaveFrom(p, "in") /\ desclock' = NoOwner
     /\ UNCHANGED <<mtx, unguarded>>
  \/ /\ at[p] = "dev" /\ MovesTo(p, "fault") /\ UNCHANGED <<mtx, descvars>>

\* A process is somewhere or not; whoever is past a mutex owns it, apart from those
\* in the misc device, whose mutex may be let go by others.
PeopleInv ==
  /\ mtx \in Procs \cup {NoOwner}
  /\ pc \in [Procs -> InHandler \cup {"idle"}]
  /\ at \in [Procs -> FileNames \cup {NoFile}]
  /\ arg \in [Procs -> {"read", "write"} \X Levels]
  /\ early \in [Procs -> BOOLEAN]
  /\ DescLockType
  /\ \A p \in Procs :
       /\ pc[p] = "idle" <=> at[p] = NoFile
       /\ at[p] \in Shown \cup {NoFile}
       /\ pc[p] \in {"in", "parsed"} /\ at[p] # "dev" => mtx = p
       /\ mtx = p => pc[p] \in {"in", "parsed", "fault"} /\ at[p] # "dev"
       /\ pc[p] = "parsed" => at[p] = "level" /\ intf \notin MyModules
       /\ intf = "procfs" /\ at[p] = "pgoff" => pc[p] # "in"
       /\ ~unguarded /\ at[p] = "dev" /\ pc[p] = "in" => desclock = p

\* Each handler is made of such moves.
LEMMA HandlerMoves ==
  ASSUME Ctl, PeopleInv, NEW p \in Procs, EnterOne(p) \/ Handlers(p) \/ Signal(p)
  PROVE  Moves(p) /\ UNCHANGED modvars
  <1> USE DEF PeopleInv
  <1>0. /\ intf # "mymiscdev" => at[p] # "dev"
        /\ intf \in Modules
    BY IntfAssumption DEF Ctl, Modules, Shown, NoFile
  <1>1. CASE EnterOne(p)
    <2>0. /\ \A n \in Values : Write(n) \in {"read", "write"} \X Levels
          /\ Read \in {"read", "write"} \X Levels /\ Write(0) \in {"read", "write"} \X Levels
      BY DEF Write, Read, Levels
    <2>1. CASE intf = "procfs"
      BY <1>1, <2>0, <2>1 DEF EnterOne, ProcEnter, ProcFiles, Moves, Shown, Enter, EnterAt, ownvars
    <2>2. CASE intf = "sysfs"
      BY <1>1, <2>0, <2>2 DEF EnterOne, SysEnter, Moves, Shown, Enter, EnterAt, ownvars
    <2>3. CASE intf = "debugfs"
      BY <1>1, <2>0, <2>3 DEF EnterOne, DbgEnter, Moves, Shown, Enter, EnterAt, ownvars
    <2>4. CASE intf \in MyModules
      <3>1. files \subseteq Shown \cup {"dir"}
        BY CtlFacts
      <3>2. MyEnter(p) /\ UNCHANGED descvars
        BY <1>1, <2>4 DEF EnterOne, MyModules, ownvars
      <3>3. CASE OpenNull(p)
        BY <3>1, <3>2, <3>3 DEF OpenNull, EnterAt, Moves
      <3>4. CASE ~OpenNull(p)
        <4>1. PICK f \in files, a \in {"read", "write"} \X Levels : f # "dir" /\ Enter(p, f, a)
          BY <2>0, <3>2, <3>4 DEF MyEnter, OpenDev, Enter, EnterAt
        <4>2. f \in files \cap Shown
          BY <3>1, <4>1
        <4>3. QED
          BY <3>2, <4>1, <4>2 DEF Moves, Enter, EnterAt
      <3>5. QED
        BY <3>3, <3>4
    <2>5. QED
      BY <1>0, <2>1, <2>2, <2>3, <2>4 DEF Modules, MyModules
  <1>2. CASE Signal(p)
    BY <1>2 DEF Signal, Interrupted, DevSignal, DevTo, InDev, LeaveFrom, Moves, MovesTo, descvars, ownvars
  <1>3. ASSUME intf = "procfs", ProcHandlers(p), UNCHANGED descvars PROVE Moves(p) /\ UNCHANGED modvars
    BY <1>0, <1>3 DEF ProcHandlers, ProcPgoff, ProcLock, Lock, ShowCtx, ShowLevel, WriteConfig1, Reading, Writing,
       WriteLevel, Parse, RejectLevel, AcceptLevel, WriteRefused, Unlock, Moves, MovesTo, MyModules, Fault
  <1>4. ASSUME intf = "sysfs", SysHandlers(p), UNCHANGED descvars PROVE Moves(p) /\ UNCHANGED modvars
    BY <1>0, <1>4 DEF SysHandlers, SysLock, SysShow, SysReject, SysAccept, Lock, Parse, Writing,
       WriteRefused, Unlock, Moves, MovesTo, MyModules
  <1>5. ASSUME intf = "debugfs", DbgHandlers(p), UNCHANGED descvars PROVE Moves(p) /\ UNCHANGED modvars
    BY <1>0, <1>5 DEF DbgHandlers, DbgLevel, DbgLock, DbgShowCtx, Lock, Reading, Unlock, Moves,
       MovesTo, MyModules, Fault
  <1>6. ASSUME intf \in MyModules, MyHandlers(p) PROVE Moves(p) /\ UNCHANGED modvars
    <2>1. CASE LevelHandlers(p)
      BY <1>6, <2>1 DEF LevelHandlers, MyShowLevel, MyStoreLevel, Lock, WriteRefused, Unlock, Moves,
         MyModules
    <2>2. CASE DevLock(p) \/ DevWrite(p)
      BY <2>2 DEF DevLock, DevWrite, InDev, DevTo, Moves, MovesTo
    <2>3. CASE DevReturn(p)
      BY <2>3 DEF DevReturn, InDev, Moves
    <2>4. CASE DevLost(p)
      BY <2>4 DEF DevLost, DevTo, Moves, MovesTo
    <2>5. CASE StaleCtx(p)
      BY <1>6, <2>5 DEF StaleCtx, Fault, Moves, MyModules
    <2>6. QED
      BY <1>6, <2>1, <2>2, <2>3, <2>4, <2>5 DEF MyHandlers
  <1>7. QED
    BY <1>1, <1>2, <1>3, <1>4, <1>5, <1>6 DEF Handlers, MyModules

\* Wherever a process goes, the mutexes stay with those who are past them.
LEMMA MovesKeepPeople ==
  ASSUME PeopleInv, intf \in Modules, intf' = intf, NEW p \in Procs, Moves(p)
  PROVE  PeopleInv'
  <1> USE FilesAssumption DEF PeopleInv, DescLockType, InHandler, FileNames, NoFile
  <1>0. Shown' = Shown /\ Shown \subseteq FileNames \ {"dir"}
    BY DEF Shown, Modules
  <1>1. ASSUME NEW f \in Shown, NEW a \in {"read", "write"} \X Levels,
               NEW place \in {"entered", "fault"}, EnterAt(p, f, a, place), UNCHANGED descvars
        PROVE  PeopleInv'
    <2> USE <1>0, <1>1 DEF EnterAt, descvars
    <2>1. /\ pc' \in [Procs -> InHandler \cup {"idle"}]
          /\ at' \in [Procs -> FileNames \cup {NoFile}]
          /\ arg' \in [Procs -> {"read", "write"} \X Levels]
      OBVIOUS
    <2>2. early' \in [Procs -> BOOLEAN]
      <3>1. (stage \in {"init", "unwind"}) \in BOOLEAN
        OBVIOUS
      <3>2. QED
        BY <3>1
    <2>3. ASSUME NEW q \in Procs, q # p PROVE pc'[q] = pc[q] /\ at'[q] = at[q] /\ arg'[q] = arg[q]
      BY <2>3
    <2>4. pc'[p] \in {"entered", "fault"} /\ at'[p] = f /\ f # "none"
      OBVIOUS
    <2>5. desclock # p /\ mtx # p
      OBVIOUS
    <2>6. DescLockType'
      BY <2>3, <2>5
    <2>7. QED
      BY <2>1, <2>2, <2>3, <2>4, <2>5, <2>6
  <1>2. ASSUME NEW place \in {"in", "parsed", "fault"}, MovesTo(p, place)
        PROVE  /\ pc' \in [Procs -> InHandler \cup {"idle"}] /\ pc'[p] = place
               /\ \A q \in Procs : q # p => pc'[q] = pc[q]
               /\ at' = at /\ arg' = arg /\ early' = early
    BY <1>2 DEF MovesTo
  <1>3. ASSUME NEW from \in {"entered", "in", "parsed"}, LeaveFrom(p, from)
        PROVE  /\ pc' \in [Procs -> InHandler \cup {"idle"}]
               /\ at' \in [Procs -> FileNames \cup {NoFile}]
               /\ arg' \in [Procs -> {"read", "write"} \X Levels]
               /\ early' \in [Procs -> BOOLEAN]
               /\ pc[p] = from /\ pc'[p] = "idle" /\ at'[p] = NoFile
               /\ \A q \in Procs : q # p => pc'[q] = pc[q] /\ at'[q] = at[q] /\ arg'[q] = arg[q]
    <2>1. Read \in {"read", "write"} \X Levels
      BY DEF Read, Levels
    <2>2. QED
      BY <1>3, <2>1 DEF LeaveFrom
  <1>4. CASE LeaveFrom(p, "entered") /\ UNCHANGED <<mtx, descvars>>
    BY <1>0, <1>3, <1>4 DEF descvars
  <1>5. CASE /\ Lock(p) /\ at[p] # "dev" /\ (intf = "procfs" => at[p] # "pgoff")
             /\ UNCHANGED descvars
    <2>1. MovesTo(p, "in") /\ mtx = NoOwner /\ mtx' = p
      BY <1>5 DEF Lock, MovesTo
    <2>2. QED
      BY <1>0, <1>2, <1>5, <2>1 DEF Lock, descvars
  <1>6. ASSUME at[p] # "dev", mtx' = NoOwner, NEW from \in {"in", "parsed"}, LeaveFrom(p, from),
               UNCHANGED descvars
        PROVE  PeopleInv'
    <2>1. mtx = p
      BY <1>6 DEF LeaveFrom
    <2>2. QED
      BY <1>0, <1>3, <1>6, <2>1 DEF descvars
  <1>7. ASSUME NEW from \in {"in", "parsed"}, Fault(p, from), UNCHANGED descvars PROVE PeopleInv'
    <2>1. MovesTo(p, "fault") /\ pc[p] = from /\ mtx' = mtx
      BY <1>7 DEF Fault, MovesTo
    <2>2. QED
      BY <1>0, <1>2, <1>7, <2>1 DEF descvars
  <1>8. CASE /\ at[p] = "level" /\ pc[p] = "in" /\ MovesTo(p, "parsed") /\ intf \notin MyModules
             /\ UNCHANGED <<mtx, descvars>>
    BY <1>0, <1>2, <1>8 DEF descvars
  <1>9. CASE /\ at[p] = "dev" /\ pc[p] = "entered" /\ UNCHANGED mtx
             /\ \/ /\ arg[p] = Read /\ desclock = NoOwner /\ desclock' = p
                   /\ UNCHANGED unguarded
                \/ unguarded' = TRUE /\ UNCHANGED desclock
             /\ MovesTo(p, "in")
    <2>1. desclock # p /\ mtx # p /\ (unguarded' = TRUE \/ unguarded' = unguarded)
      BY <1>9
    <2>2. pc'[p] = "in" /\ \A q \in Procs : q # p => pc'[q] = pc[q]
      BY <1>2, <1>9
    <2>3. CASE arg[p] = Read /\ desclock = NoOwner /\ desclock' = p /\ UNCHANGED unguarded
      <3>1. DescLockType'
        BY <1>2, <1>9, <2>1, <2>2, <2>3
      <3>2. QED
        BY <1>0, <1>2, <1>9, <2>1, <2>2, <2>3, <3>1
    <2>4. CASE unguarded' = TRUE /\ UNCHANGED desclock
      BY <1>0, <1>2, <1>9, <2>1, <2>2, <2>4
    <2>5. QED
      BY <1>9, <2>3, <2>4
  <1>10. CASE /\ at[p] = "dev" /\ LeaveFrom(p, "in") /\ desclock' = NoOwner
              /\ UNCHANGED <<mtx, unguarded>>
    BY <1>0, <1>3, <1>10
  <1>11. CASE at[p] = "dev" /\ MovesTo(p, "fault") /\ UNCHANGED <<mtx, descvars>>
    BY <1>0, <1>2, <1>11 DEF descvars
  <1>12. CASE /\ \E f \in files \cap Shown, a \in {"read", "write"} \X Levels : Enter(p, f, a)
              /\ UNCHANGED descvars
    BY <1>1, <1>12 DEF Enter
  <1>13. CASE "dev" \in Shown /\ EnterAt(p, "dev", Read, "fault") /\ UNCHANGED descvars
    <2>1. Read \in {"read", "write"} \X Levels
      BY DEF Read, Levels
    <2>2. QED
      BY <1>1, <1>13, <2>1
  <1>14. QED
    BY <1>4, <1>5, <1>6, <1>7, <1>8, <1>9, <1>10, <1>11, <1>12, <1>13 DEF Moves

\* What module code, the module parameter and the environment leave alone.
Aside ==
  /\ UNCHANGED <<intf, inserts, mtx, procvars, descvars, config1, prev_dbglevel>>
  /\ debug_level' = debug_level \/ (Now("set_level") /\ debug_level' = 1)
  /\ gpressure' \in {gpressure, PRESSURE} /\ null_errors' = null_errors
  /\ cause_an_oops' \in {cause_an_oops, 1 - cause_an_oops}

\* A step is of a process, inserts the module or leaves the processes alone.
LEMMA Steps ==
  ASSUME [Next]_vars
  PROVE  \/ Aside
         \/ InsertOne
         \/ \E p \in Procs : EnterOne(p) \/ Handlers(p) \/ Signal(p)
  <1> USE DEF Aside, ownvars, sysvars, dbgvars, Module
  <1>1. CASE ModuleWork
    <2>1. CASE (Work \/ SetDev \/ SetLevel \/ UnregisterAgain) /\ UNCHANGED ownvars
      BY <2>1 DEF Work, Create, Alloc, Hide, Drain, FreeCtx, Done, SetDev, SetLevel, UnregisterAgain
    <2>2. CASE SetPressure /\ UNCHANGED <<config1, dbgvars, descvars>>
      BY <2>2 DEF SetPressure
    <2>3. ASSUME Fail(Unwind(Len(InitSteps[intf]) - Len(todo) + 1), ErrorLost, NoCtx), UNCHANGED ownvars
          PROVE  Aside
      BY <2>3 DEF Fail
    <2>4. CASE (DbgCreateMissed \/ DbgMayRemove) /\ UNCHANGED <<config1, sysvars, descvars>>
      BY <2>4 DEF DbgCreateMissed, DbgMayRemove
    <2>5. QED
      BY <1>1, <2>1, <2>2, <2>3, <2>4 DEF ModuleWork
  <1>2. CASE Remove
    BY <1>2 DEF Remove, Exit
  <1>3. CASE SetCauseAnOops /\ UNCHANGED <<config1, sysvars, descvars>>
    BY <1>3 DEF SetCauseAnOops, modvars
  <1>4. CASE UNCHANGED vars
    BY <1>4 DEF vars, modvars
  <1>5. QED
    BY <1>1, <1>2, <1>3, <1>4 DEF Next

\* The mutexes stay with those who are past them.
LEMMA PeopleSteps ==
  ASSUME Ctl, PeopleInv, [Next]_vars
  PROVE  PeopleInv'
  <1>0. intf \in Modules /\ intf' = intf
    BY ModSteps, SameIntf, IntfAssumption DEF Ctl
  <1>1. CASE Aside
    BY <1>0, <1>1 DEF Aside, PeopleInv, DescLockType, Shown, procvars, descvars
  <1>2. CASE InsertOne
    BY <1>0, <1>2, FilesAssumption DEF InsertOne, Insert, PeopleInv, DescLockType, Shown, procvars, InHandler
  <1>3. ASSUME NEW p \in Procs, EnterOne(p) \/ Handlers(p) \/ Signal(p) PROVE PeopleInv'
    BY <1>0, <1>3, HandlerMoves, MovesKeepPeople
  <1>4. QED
    BY <1>1, <1>2, <1>3, Steps

-----------------------------------------------------------------------------
(* The levels and the other values *)

\* Every number is one that somebody has written or the modules set.
ValuesInv ==
  /\ inserts \in 0..MaxInserts
  /\ debug_level \in Levels /\ config1 \in Levels /\ prev_dbglevel \in [Procs -> Levels]
  /\ gpressure \in {0, PRESSURE} /\ cause_an_oops \in {0, 1} /\ null_errors \in BOOLEAN

\* What a handler can set the levels to.
LEMMA HandlerLevels ==
  ASSUME NEW p \in Procs, EnterOne(p) \/ Handlers(p) \/ Signal(p)
  PROVE  /\ debug_level' \in {debug_level, DEBUG_LEVEL_DEFAULT, arg[p][2], prev_dbglevel[p]} \cup Values
         /\ config1' \in {config1, arg[p][2], debug_level}
         /\ prev_dbglevel' \in {prev_dbglevel, [prev_dbglevel EXCEPT ![p] = debug_level]}
         /\ UNCHANGED <<modvars, gpressure, cause_an_oops, null_errors>>
  <1> USE DEF ownvars, sysvars, dbgvars
  <1>1. CASE EnterOne(p)
    BY <1>1 DEF EnterOne, ProcEnter, SysEnter, DbgEnter, MyEnter, OpenNull, OpenDev, Enter, EnterAt
  <1>2. CASE Signal(p)
    BY <1>2 DEF Signal, Interrupted, DevSignal, DevTo
  <1>3. CASE ProcHandlers(p) /\ UNCHANGED <<sysvars, dbgvars, descvars>>
    BY <1>3 DEF ProcHandlers, ProcPgoff, ProcLock, Lock, ShowCtx, ShowLevel, WriteConfig1,
                WriteLevel, Parse, RejectLevel, AcceptLevel, WriteRefused
  <1>4. CASE SysHandlers(p) /\ UNCHANGED <<config1, dbgvars, descvars>>
    BY <1>4 DEF SysHandlers, SysLock, Lock, SysShow, SysReject, SysAccept, Parse, WriteRefused
  <1>5. CASE DbgHandlers(p) /\ UNCHANGED <<config1, sysvars, descvars>>
    BY <1>5 DEF DbgHandlers, DbgLevel, DbgLock, Lock, DbgShowCtx
  <1>6. CASE MyHandlers(p) /\ UNCHANGED <<config1, sysvars, dbgvars>>
    BY <1>6 DEF MyHandlers, LevelHandlers, MyShowLevel, MyStoreLevel, Parsed, Lock, WriteRefused,
                DevLock, DevWrite, DevReturn, DevLost, DevTo, StaleCtx
  <1>7. QED
    BY <1>1, <1>2, <1>3, <1>4, <1>5, <1>6 DEF Handlers

\* The values stay in their types.
LEMMA ValuesSteps ==
  ASSUME Ctl, PeopleInv, ValuesInv, [Next]_vars
  PROVE  ValuesInv'
  <1> USE FilesAssumption DEF ValuesInv
  <1>0. 0 \in Levels /\ 1 \in Levels
    BY DEF Levels
  <1>1. CASE Aside
    BY <1>0, <1>1 DEF Aside
  <1>2. CASE InsertOne
    <2>1. null_errors' \in BOOLEAN
      BY <1>2 DEF InsertOne
    <2>2. inserts' \in 0..MaxInserts
      BY <1>2 DEF InsertOne, Insert
    <2>3. QED
      BY <1>0, <1>2, <2>1, <2>2 DEF InsertOne, Insert, Everyone
  <1>3. ASSUME NEW p \in Procs, EnterOne(p) \/ Handlers(p) \/ Signal(p) PROVE ValuesInv'
    <2>1. arg[p][2] \in Levels /\ prev_dbglevel[p] \in Levels
      BY DEF PeopleInv
    <2>2. /\ debug_level' \in {debug_level, DEBUG_LEVEL_DEFAULT, arg[p][2], prev_dbglevel[p]} \cup Values
          /\ config1' \in {config1, arg[p][2], debug_level}
          /\ prev_dbglevel' \in {prev_dbglevel, [prev_dbglevel EXCEPT ![p] = debug_level]}
          /\ UNCHANGED <<modvars, gpressure, cause_an_oops, null_errors>>
      BY <1>3, HandlerLevels
    <2>3. debug_level' \in Levels /\ config1' \in Levels /\ prev_dbglevel' \in [Procs -> Levels]
      BY <1>0, <2>1, <2>2 DEF DEBUG_LEVEL_DEFAULT, DEBUG_LEVEL_MIN, Levels
    <2>4. QED
      BY <2>2, <2>3 DEF modvars
  <1>4. QED
    BY <1>1, <1>2, <1>3, Steps

-----------------------------------------------------------------------------
(* Who can meet which context *)

\* procfs: whoever is in a handler is in that of a file that is there or being
\* removed; whoever entered after module_init had returned has the context until
\* it leaves; lost are only those who entered before, in a write of the level or
\* with the context that out_fail_3 has freed.
ProcPeople ==
  intf = "procfs" => \A p \in Procs :
    /\ at[p] # NoFile => at[p] \in files \/ Now("remove")
    /\ at[p] # NoFile /\ ~early[p] => stage \in {"live", "exit"} /\ ctx = "live"
    /\ at[p] \in {"drvctx", "config1"} /\ ctx # "live" => stage = "unwind"
    /\ pc[p] = "fault" =>
         early[p] /\ (at[p] = "level" \/ (at[p] \in {"drvctx", "config1"} /\ ctx # "live"))

\* What ProcPeople says is so after any step of module code.
LEMMA ProcPeopleModule ==
  ASSUME intf = "procfs", Ctl, PeopleInv, ProcPeople, ModNext, UNCHANGED procvars
  PROVE  ProcPeople'
  <1> USE DEF ProcPeople, procvars
  <1>0. /\ ProcFacts /\ intf' = "procfs"
        /\ \A p \in Procs : at[p] = NoFile \/ at[p] \in ProcFiles \ {"dir"}
        /\ \A p \in Procs : pc[p] = "idle" <=> at[p] = NoFile
    BY ProcPoints, SameIntf DEF Ctl, PeopleInv, Shown, ProcFiles
  <1> USE <1>0 DEF ProcFacts
  <1>1. ASSUME stage = "out" \/ (todo = << >> /\ stage \in {"unwind", "exit"})
        PROVE  \A p \in Procs : at[p] = NoFile
    BY <1>1
  <1>11. ASSUME \A p \in Procs : at[p] = NoFile PROVE ProcPeople'
    BY <1>11 DEF NoFile
  <1>2. CASE Create \/ Alloc
    BY <1>2 DEF Create, Alloc, Now
  <1>3. CASE Hide
    BY <1>3 DEF Hide, Now
  <1>4. CASE Drain
    <2>1. \A p \in Procs : at[p] = NoFile
      BY <1>4 DEF Drain, ProcFiles
    <2>2. QED
      BY <1>11, <2>1
  <1>5. CASE FreeCtx
    <2>1. CASE stage = "unwind"
      BY <1>5, <2>1 DEF FreeCtx, Now
    <2>2. CASE files = {} /\ ~Now("remove")
      BY <1>11, <2>2
    <2>3. QED
      BY <1>5, <2>1, <2>2 DEF FreeCtx
  <1>6. CASE Done
    <2>1. CASE stage = "init"
      BY <1>6, <2>1 DEF Done, Now
    <2>2. CASE stage \in {"unwind", "exit"}
      BY <1>1, <1>6, <1>11, <2>2 DEF Done
    <2>3. QED
      BY <1>6, <2>1, <2>2 DEF Done
  <1>7. CASE files \subseteq {"dir"} /\ Insert(InitSteps[intf])
    BY <1>1, <1>7, <1>11 DEF Insert
  <1>8. CASE Exit(ExitSteps[intf])
    BY <1>8 DEF Exit
  <1>9. CASE stage = "init" /\ Fail(Unwind(Len(InitSteps[intf]) - Len(todo) + 1), ErrorLost, NoCtx)
    BY <1>9 DEF Fail, Now
  <1>10. SetDev \/ SetLevel \/ UnregisterAgain \/ SetPressure \/ DbgCreateMissed \/ DbgMayRemove => FALSE
    BY DEF SetDev, SetLevel, UnregisterAgain, SetPressure, DbgCreateMissed, DbgMayRemove, NoSpecial, Special
  <1>12. QED
    BY <1>2, <1>3, <1>4, <1>5, <1>6, <1>7, <1>8, <1>9, <1>10 DEF ModNext, Work

\* And after any step of a process.
LEMMA ProcPeopleMoves ==
  ASSUME intf = "procfs", Ctl, PeopleInv, ProcPeople, NEW p \in Procs, Moves(p), UNCHANGED modvars
  PROVE  ProcPeople'
  <1> USE DEF ProcPeople, NoFile
  <1>0. /\ ProcFacts /\ Shown = {"level", "pgoff", "drvctx", "config1"}
        /\ intf' = intf /\ files' = files /\ stage' = stage /\ ctx' = ctx /\ Now("remove")' = Now("remove")
        /\ at[p] # "dev"
    BY ProcPoints DEF Ctl, PeopleInv, Shown, modvars, Now
  <1>1. ASSUME NEW f \in files \cap Shown, NEW a \in {"read", "write"} \X Levels, Enter(p, f, a)
        PROVE  ProcPeople'
    <2>1. stage # "out"
      BY <1>0, <1>1 DEF ProcFacts
    <2>2. /\ at'[p] = f /\ pc'[p] = "entered" /\ (early'[p] <=> stage \in {"init", "unwind"})
          /\ \A q \in Procs : q # p => at'[q] = at[q] /\ pc'[q] = pc[q] /\ early'[q] = early[q]
      BY <1>1, <2>1 DEF PeopleInv, Enter, EnterAt
    <2>3. ctx = "live" \/ stage \in {"init", "unwind"}
      BY <1>0, <2>1, CtlFacts DEF ProcFacts
    <2>4. f \in {"drvctx", "config1"} /\ ctx # "live" => stage = "unwind"
      BY <1>0 DEF ProcFacts
    <2>5. f # "none" /\ (early'[p] \/ (stage \in {"live", "exit"} /\ ctx = "live"))
      BY <1>0, <2>1, <2>2, <2>3, CtlFacts
    <2>6. QED
      BY <1>0, <2>2, <2>4, <2>5
  <1>2. ASSUME NEW place \in {"in", "parsed"}, MovesTo(p, place) PROVE ProcPeople'
    BY <1>0, <1>2 DEF PeopleInv, MovesTo
  <1>3. ASSUME NEW from \in {"entered", "in", "parsed"}, LeaveFrom(p, from) PROVE ProcPeople'
    BY <1>0, <1>3 DEF PeopleInv, LeaveFrom
  <1>4. ASSUME ctx # "live", NEW from \in {"in", "parsed"}, Fault(p, from) PROVE ProcPeople'
    <2>1. early[p] /\ at[p] \in {"level", "drvctx", "config1"}
      BY <1>0, <1>4 DEF PeopleInv, Fault
    <2>2. QED
      BY <1>0, <1>4, <2>1 DEF PeopleInv, Fault
  <1>5. Lock(p) => MovesTo(p, "in")
    BY DEF Lock, MovesTo
  <1>6. QED
    BY <1>0, <1>1, <1>2, <1>3, <1>4, <1>5 DEF Moves, MyModules

\* So it is after every step.
LEMMA ProcPeopleSteps ==
  ASSUME Ctl, PeopleInv, ProcPeople, [Next]_vars
  PROVE  ProcPeople'
  <1>0. SUFFICES ASSUME intf = "procfs" PROVE ProcPeople'
    BY ModSteps, SameIntf DEF ProcPeople
  <1>1. CASE Aside \/ InsertOne
    <2>1. UNCHANGED procvars
      BY <1>1 DEF Aside, InsertOne, Insert
    <2>2. CASE ModNext
      BY <1>0, <2>1, <2>2, ProcPeopleModule
    <2>3. CASE UNCHANGED modvars
      BY <2>1, <2>3 DEF ProcPeople, procvars, modvars, Now
    <2>4. QED
      BY <2>2, <2>3, ModSteps
  <1>2. ASSUME NEW p \in Procs, EnterOne(p) \/ Handlers(p) \/ Signal(p)
        PROVE  ProcPeople'
    BY <1>0, <1>2, HandlerMoves, ProcPeopleMoves
  <1>3. QED
    BY <1>1, <1>2, Steps

\* procfs: as long as nobody is between the parsing of a level and its check, or
\* lost there, the level is that of the context or the default.
ProcLevels ==
  intf = "procfs" /\ ctx \in {"none", "live"} /\ (\A p \in Procs : mtx = p => pc[p] = "in") =>
    debug_level \in {config1, DEBUG_LEVEL_DEFAULT}

\* The context appears and goes, but never comes back within an insertion.
LEMMA ProcCtxSteps ==
  ASSUME intf = "procfs", Ctl, ValuesInv, Aside, [Next]_vars, ctx' \in {"none", "live"}
  PROVE  ctx \in {"none", "live"} /\ debug_level' = debug_level
  <1>1. ProcFacts /\ (ModNext \/ UNCHANGED <<modvars, gpressure, null_errors>>)
    BY ProcPoints, ModSteps DEF Ctl
  <1>2. debug_level' = debug_level
    BY <1>1 DEF Aside, ProcFacts, NoSpecial, Special
  <1>3. ctx \in {"none", "live"}
    <2>1. ~Insert(InitSteps[intf])
      BY FilesAssumption DEF Insert, Aside, ValuesInv
    <2>2. CASE ModNext
      BY <1>1, <2>1, <2>2 DEF ModNext, Work, Create, Alloc, Hide, Drain, FreeCtx, Done, Fail, Exit,
         SetDev, SetLevel, UnregisterAgain, SetPressure, DbgCreateMissed, DbgMayRemove, ProcFacts
    <2>3. QED
      BY <1>1, <2>2 DEF modvars
  <1>4. QED
    BY <1>2, <1>3

\* The two write methods of procfs keep level and context in step.
LEMMA ProcLevelsSteps ==
  ASSUME Ctl, PeopleInv, ValuesInv, ProcLevels, [Next]_vars
  PROVE  ProcLevels'
  <1>0. SUFFICES ASSUME intf = "procfs", ctx' \in {"none", "live"},
                        \A p \in Procs : mtx' = p => pc'[p] = "in"
                 PROVE  debug_level' \in {config1', DEBUG_LEVEL_DEFAULT}
    BY ModSteps, SameIntf DEF ProcLevels
  <1>1. CASE Aside
    <2>1. ctx \in {"none", "live"} /\ debug_level' = debug_level
      BY <1>0, <1>1, ProcCtxSteps
    <2>2. \A p \in Procs : mtx = p => pc[p] = "in"
      BY <1>0, <1>1 DEF Aside, procvars
    <2>3. QED
      BY <1>0, <1>1, <2>1, <2>2 DEF Aside, ProcLevels
  <1>2. CASE InsertOne
    BY <1>2 DEF InsertOne, Insert
  <1>3. ASSUME NEW p \in Procs, EnterOne(p) \/ Handlers(p) \/ Signal(p)
        PROVE  debug_level' \in {config1', DEBUG_LEVEL_DEFAULT}
    <2>0. ctx' = ctx
      BY <1>3, HandlerMoves DEF modvars
    <2> USE <1>0, <2>0, FilesAssumption DEF PeopleInv, ProcLevels
    <2>1. CASE ProcHandlers(p)
      <3>1. CASE ProcPgoff(p) \/ ProcLock(p)
        BY <2>1, <3>1 DEF ProcPgoff, ProcLock, Lock, LeaveFrom
      <3>2. CASE (ShowCtx(p) \/ ShowLevel(p) \/ (WriteRefused(p) /\ UNCHANGED config1)) /\ pc[p] = "in"
        <4>1. mtx = p
          BY <3>2 DEF Shown, NoFile
        <4>2. debug_level \in {config1, DEBUG_LEVEL_DEFAULT}
          BY <3>2, <4>1
        <4>3. UNCHANGED <<debug_level, config1>>
          BY <3>2 DEF ShowCtx, ShowLevel, WriteRefused
        <4>4. QED
          BY <4>2, <4>3
      <3>3. CASE WriteConfig1(p)
        BY <2>1, <3>3 DEF WriteConfig1, Unlock, LeaveFrom, Fault, Writing
      <3>4. CASE WriteLevel(p)
        BY <2>1, <3>4 DEF WriteLevel, Parse, RejectLevel, AcceptLevel, Unlock, LeaveFrom, Fault, Writing
      <3>5. QED
        BY <2>1, <3>1, <3>2, <3>3, <3>4 DEF ProcHandlers, ShowCtx, ShowLevel, WriteRefused, Unlock,
           LeaveFrom, Fault
    <2>2. CASE EnterOne(p)
      BY <2>2 DEF EnterOne, ProcEnter, Enter, EnterAt, ownvars
    <2>3. CASE Signal(p)
      BY <2>3 DEF Signal, Interrupted, LeaveFrom, DevSignal, InDev, Shown, ownvars
    <2>4. QED
      BY <1>3, <2>1, <2>2, <2>3 DEF Handlers, MyModules
  <1>4. QED
    BY <1>1, <1>2, <1>3, Steps

\* sysfs: what is restored after a refused level was in range, and between the
\* parsing of a level and its check nobody else looks; no handler is lost.
SysLevels ==
  intf = "sysfs" =>
    /\ \A p \in Procs :
         /\ pc[p] \in {"in", "parsed"} => prev_dbglevel[p] \in SYSFS_MIN..SYSFS_MAX
         /\ pc[p] # "fault"
    /\ (\A p \in Procs : pc[p] # "parsed") => debug_level \in SYSFS_MIN..SYSFS_MAX

\* Each store leaves the level in range before it lets the mutex go.
LEMMA SysLevelsSteps ==
  ASSUME Ctl, PeopleInv, ValuesInv, SysLevels, [Next]_vars
  PROVE  SysLevels'
  <1>0. SUFFICES ASSUME intf = "sysfs" PROVE SysLevels'
    BY ModSteps, SameIntf DEF SysLevels
  <1> USE <1>0, FilesAssumption DEF PeopleInv, SysLevels
  <1>1. CASE Aside
    <2>1. SysCtl /\ (SysCtl => ~Now("set_level"))
      BY DEF Ctl, SysCtl, SysPoints, Point, Now, SysInit, Mk, Rm
    <2>2. QED
      BY <1>1, <2>1 DEF Aside, procvars
  <1>2. CASE InsertOne
    BY <1>2 DEF InsertOne, Insert, procvars, SYSFS_MIN, SYSFS_MAX
  <1>3. ASSUME NEW p \in Procs, EnterOne(p) \/ Handlers(p) \/ Signal(p)
        PROVE  SysLevels'
    <2>0. /\ at[p] # "dev"
          /\ \A q \in Procs : pc[q] \in {"in", "parsed"} => mtx = q
      BY DEF Shown, NoFile
    <2>1. CASE EnterOne(p)
      <3>1. PICK f \in files, a \in {Read} \cup {Write(n) : n \in Values} : Enter(p, f, a)
        BY <2>1 DEF EnterOne, SysEnter, Enter, EnterAt
      <3>2. stage # "out"
        BY <3>1, CtlFacts DEF NothingLeft
      <3>3. pc' = [pc EXCEPT ![p] = "entered"] /\ UNCHANGED <<prev_dbglevel, debug_level>>
        BY <2>1, <3>1, <3>2 DEF Enter, EnterAt, EnterOne, ownvars, sysvars
      <3>4. QED
        BY <3>1, <3>3 DEF Enter, EnterAt
    <2>2. CASE Signal(p)
      BY <2>0, <2>2 DEF Signal, Interrupted, LeaveFrom, DevSignal, InDev, ownvars, sysvars
    <2>3. CASE SysHandlers(p)
      <3>1. CASE SysLock(p)
        BY <2>0, <3>1 DEF SysLock, Lock, ValuesInv
      <3>2. CASE SysShow(p) \/ (WriteRefused(p) /\ UNCHANGED prev_dbglevel)
        BY <2>0, <3>2 DEF SysShow, WriteRefused, Unlock, LeaveFrom
      <3>3. CASE Parse(p) /\ UNCHANGED prev_dbglevel
        BY <2>0, <3>3 DEF Parse
      <3>4. CASE SysReject(p) \/ SysAccept(p)
        BY <2>0, <3>4 DEF SysReject, SysAccept, Unlock, LeaveFrom
      <3>5. QED
        BY <2>3, <3>1, <3>2, <3>3, <3>4 DEF SysHandlers
    <2>4. QED
      BY <1>3, <2>1, <2>2, <2>3 DEF Handlers, MyModules
  <1>4. QED
    BY <1>1, <1>2, <1>3, Steps DEF modvars

\* mymiscdev and myplatdev: whoever is in the level's file is there before the
\* file has gone, and so is the context; lost are only users of the device.
MyPeople ==
  intf \in MyModules => \A p \in Procs :
    /\ at[p] = "level" => "level" \in files \/ (Now("remove") /\ "level" \in Named)
    /\ pc[p] = "fault" => at[p] = "dev"

\* What the points of the two modules say of the level's file.
MyFacts ==
  /\ "level" \in files => ctx = "live" /\ ~Now("free")
  /\ Now("remove") /\ "level" \in Named => ctx = "live"
  /\ Now("remove") => stage \in {"unwind", "exit", "init"}
  /\ stage = "out" => files = {} /\ todo = << >>
  /\ (stage = "init" /\ (Now("create") \/ Now("alloc"))) \/ stage = "live" => ~Now("remove")
  /\ ~Now("pressure") /\ ~Now("unless_oops")

\* They are so at every point of either module.
LEMMA MyPoints ==
  ASSUME intf \in MyModules, Ctl
  PROVE  MyFacts
  <1> USE DEF MyFacts, Point, Now, Named, Mk, Rm, Obtain, Level1, Free
  <1>1. CASE intf = "mymiscdev"
    BY <1>1 DEF Ctl, MiscCtl, MiscInit, MiscExit
  <1>2. CASE intf = "myplatdev"
    BY <1>2 DEF Ctl, PlatCtl, PlatInit
  <1>3. QED
    BY <1>1, <1>2 DEF MyModules

\* The level's file is left by everybody before the context is freed.
LEMMA MyPeopleSteps ==
  ASSUME Ctl, PeopleInv, MyPeople, [Next]_vars
  PROVE  MyPeople'
  <1>0. SUFFICES ASSUME intf \in MyModules PROVE MyPeople'
    BY ModSteps, SameIntf DEF MyPeople
  <1>1. MyFacts /\ (ModNext \/ UNCHANGED <<modvars, gpressure, null_errors>>)
    BY <1>0, MyPoints, ModSteps
  <1> USE <1>0 DEF PeopleInv, MyPeople
  <1>2. ASSUME ModNext, UNCHANGED procvars PROVE MyPeople'
    <2> USE <1>1, <1>2 DEF MyFacts, procvars
    <2>1. CASE Create \/ Alloc \/ FreeCtx \/ UnregisterAgain \/ SetDev \/ SetLevel
      BY <2>1 DEF Create, Alloc, FreeCtx, UnregisterAgain, SetDev, SetLevel, Now
    <2>2. CASE Hide
      BY <2>2 DEF Hide, Now, Named
    <2>3. CASE Drain
      BY <2>3 DEF Drain, Now, Named
    <2>4. CASE Done
      BY <2>4 DEF Done, Now, Named
    <2>5. CASE files \subseteq {"dir"} /\ Insert(InitSteps[intf])
      BY <2>5 DEF Insert, Now, Named
    <2>6. CASE Exit(ExitSteps[intf])
      BY <2>6 DEF Exit
    <2>7. CASE stage = "init" /\ Fail(Unwind(Len(InitSteps[intf]) - Len(todo) + 1), ErrorLost, NoCtx)
      BY <2>7 DEF Fail, Now
    <2>8. ~SetPressure /\ ~DbgMayRemove /\ ~DbgCreateMissed
      BY DEF MyModules, SetPressure, DbgMayRemove, DbgCreateMissed
    <2>9. QED
      BY <2>1, <2>2, <2>3, <2>4, <2>5, <2>6, <2>7, <2>8 DEF ModNext, Work
  <1>3. CASE Aside \/ InsertOne
    BY <1>1, <1>2, <1>3 DEF Aside, InsertOne, Insert, procvars, modvars, Now, Named
  <1>4. ASSUME NEW p \in Procs, EnterOne(p) \/ Handlers(p) \/ Signal(p)
        PROVE  MyPeople'
    <2>0. Moves(p) /\ UNCHANGED modvars
      BY <1>4, HandlerMoves
    <2> USE <1>1, <2>0 DEF modvars, Now, Named
    <2>1. ASSUME NEW f \in files \cap Shown, NEW a \in {"read", "write"} \X Levels, Enter(p, f, a)
          PROVE  MyPeople'
      BY <2>1 DEF Enter, EnterAt, MyFacts
    <2>2. ASSUME NEW place \in {"in", "parsed"}, MovesTo(p, place) PROVE MyPeople'
      BY <2>2 DEF MovesTo
    <2>3. ASSUME NEW from \in {"entered", "in", "parsed"}, LeaveFrom(p, from) PROVE MyPeople'
      BY <2>3 DEF LeaveFrom, NoFile
    <2>4. ASSUME ctx # "live", NEW from \in {"in", "parsed"}, Fault(p, from) PROVE MyPeople'
      BY <2>4 DEF Fault, MyFacts, Shown, MyModules
    <2>5. CASE at[p] = "dev" /\ MovesTo(p, "fault")
      BY <2>5 DEF MovesTo
    <2>6. Lock(p) => MovesTo(p, "in")
      BY DEF Lock, MovesTo
    <2>7. CASE EnterAt(p, "dev", Read, "fault")
      BY <2>7 DEF EnterAt, MyFacts
    <2>8. QED
      BY <2>1, <2>2, <2>3, <2>4, <2>5, <2>6, <2>7 DEF Moves
  <1>5. QED
    BY <1>3, <1>4, Steps

-----------------------------------------------------------------------------
(* The theorems *)

IntfInv ==
  Ctl /\ PeopleInv /\ ValuesInv /\ ProcPeople /\ ProcLevels /\ SysLevels /\ MyPeople

\* In the initial state nothing is inserted and nobody is anywhere.
LEMMA InvInit ==
  ASSUME Init
  PROVE  IntfInv
  <1> USE FilesAssumption DEF Init, FilesInit, Everyone
  <1>1. Ctl
    BY DEF Ctl, ProcCtl, SysCtl, SysPoints, DbgCtl, MiscCtl, PlatCtl, Point, Place, Mk
  <1>2. PeopleInv
    <2>1. Read \in {"read", "write"} \X Levels
      BY DEF Read, Levels
    <2>2. QED
      BY <2>1 DEF PeopleInv, DescLockType, InHandler, NoFile, FileNames
  <1>3. ValuesInv
    <2>1. 0 \in Levels /\ 0 \in 0..MaxInserts
      BY DEF Levels
    <2>2. QED
      BY <2>1 DEF ValuesInv
  <1>4. ProcPeople /\ MyPeople
    BY DEF ProcPeople, MyPeople, NoFile
  <1>5. ProcLevels /\ SysLevels
    BY DEF ProcLevels, SysLevels, SYSFS_MIN, SYSFS_MAX
  <1>6. QED
    BY <1>1, <1>2, <1>3, <1>4, <1>5 DEF IntfInv

\* IntfInv is an invariant.
LEMMA Invariant == Spec => []IntfInv
  <1>1. IntfInv /\ [Next]_vars => IntfInv'
    BY CtlSteps, PeopleSteps, ValuesSteps, ProcPeopleSteps, ProcLevelsSteps, SysLevelsSteps,
       MyPeopleSteps DEF IntfInv
  <1>2. QED
    BY <1>1, InvInit, PTL DEF Spec

\* Every variable keeps its type, and a mutex belongs to a process that is past it.
THEOREM TypeCorrect == Spec => []TypeOK
  <1>1. ASSUME IntfInv PROVE TypeOK
    <2> USE <1>1, IntfAssumption DEF IntfInv, PeopleInv, ValuesInv, TypeOK
    <2>1. files \subseteq FileNames /\ intf \in Modules
      <3>1. intf \in Modules
        BY DEF Ctl
      <3>2. Shown \cup {"dir"} \subseteq FileNames
        BY <3>1 DEF Shown, FileNames, Modules
      <3>3. QED
        BY <3>1, <3>2, CtlFacts
    <2>2. FilesTypeOK
      BY <2>1, CtlFacts DEF FilesTypeOK
    <2>3. QED
      BY <2>2
  <1>2. QED
    BY <1>1, Invariant, PTL

\* procfs: with the mutex free, the level is that of the context or the default;
\* sysfs: whoever may look finds the level in range, and a pressure that is set.
THEOREM LevelsCorrect == Spec => []LevelsSane
  <1>1. IntfInv => LevelsAgree
    BY FilesAssumption DEF IntfInv, ProcLevels, LevelsAgree
  <1>2. IntfInv => ShownSane
    BY CtlFacts DEF IntfInv, SysLevels, ShownSane
  <1>3. QED
    BY <1>1, <1>2, Invariant, PTL DEF LevelsSane

\* However far module_init came, sysfs, mymiscdev and myplatdev leave no file and
\* no context behind.
THEOREM AllRemoved == Spec => []NothingLeft
  BY Invariant, CtlFacts, PTL DEF IntfInv

\* No handler that could have been kept out meets a context that is not there,
\* and no module but debugfs and myplatdev, when module_init has undone
\* everything and returned 0, frees it twice.
THEOREM ContextAlive == Spec => []NoStaleCtx
  <1>1. ASSUME IntfInv, NEW p \in Procs, pc[p] = "fault"
        PROVE  CASE intf = "procfs"   -> early[p] /\ (at[p] = "level" \/ stage = "unwind")
                 [] intf = "sysfs"    -> early[p]
                 [] intf \in MyModules -> at[p] = "dev"
                 [] OTHER              -> TRUE
    <2>1. CASE intf = "procfs"
      <3>1. early[p] /\ (at[p] = "level" \/ stage = "unwind")
        BY <1>1, <2>1 DEF IntfInv, ProcPeople
      <3>2. QED
        BY <2>1, <3>1 DEF MyModules
    <2>2. CASE intf = "sysfs"
      BY <1>1, <2>2 DEF IntfInv, SysLevels
    <2>3. CASE intf \in MyModules
      BY <1>1, <2>3 DEF IntfInv, MyPeople, MyModules
    <2>4. CASE intf \notin {"procfs", "sysfs"} \cup MyModules
      BY <2>4
    <2>5. QED
      BY <2>1, <2>2, <2>3, <2>4
  <1>2. IntfInv => NoStaleCtx
    BY <1>1, CtlFacts DEF IntfInv, NoStaleCtx
  <1>3. QED
    BY <1>2, Invariant, PTL

\* Two readers of the misc device are never both past its mutex, as long as nobody
\* has unlocked it who does not own it.
THEOREM ReadersExclude == Spec => []ReadersApart
  <1>1. IntfInv => ReadersApart
    BY DEF IntfInv, PeopleInv, ReadersApart, DescLockType
  <1>2. QED
    BY <1>1, Invariant, PTL
=============================================================================
