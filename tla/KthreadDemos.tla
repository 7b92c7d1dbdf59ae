---------------------------- MODULE KthreadDemos ----------------------------
(***************************************************************************)
(* The two thread demos of ch13 on one machine, whichever is inserted.     *)
(***************************************************************************)
EXTENDS PerCpuThreads, LockOrder

vars == <<modvars, thrvars, pcpvars, lockvars>>
workvars == <<pcpvars, lockvars>>

TypeOK == PairTypeOK /\ PcpTypeOK /\ LockTypeOK

Init ==
  /\ PairInit
  /\ PcpFresh(pcpa, tx, rx, iter, half)
  /\ LockFresh(owner, plan)
  /\ lock_ooo \in OooValues

InsertDemo ==
  /\ \E d \in Demos : Insert(d)
  /\ PcpFresh(pcpa', tx', rx', iter', half')
  /\ LockFresh(owner', plan')
  /\ lock_ooo' \in OooValues

ModuleSteps == \E t \in Threads : (InitSteps(t) \/ StopSteps(t)) /\ UNCHANGED workvars

ThreadSteps(t) ==
  \/ Prologue(t) /\ UNCHANGED workvars
  \/ PcpWork(t) /\ UNCHANGED lockvars
  \/ LockWork(t) /\ UNCHANGED pcpvars

Next ==
  \/ InsertDemo
  \/ ModuleSteps
  \/ Remove /\ UNCHANGED workvars
  \/ SetParam /\ UNCHANGED pcpvars
  \/ \E t \in Threads : ThreadSteps(t) \/ (Migrate(t) /\ UNCHANGED workvars)

\* insmod and rmmod run on; each thread has a processor, and the spinlocks
\* are queued.
Spec == /\ Init /\ [][Next]_vars
        /\ WF_vars(ModuleSteps)
        /\ \A t \in Threads : SF_vars(ThreadSteps(t))

-----------------------------------------------------------------------------
\* As long as lock_ooo is not 1, so that both threads follow the rule
\* lockA --> lockB, an rmmod that has begun ends: no thread spins for ever.
RemoveEnds == [](lock_ooo # 1) => (mod = "stop0" ~> mod = "out")
=============================================================================
