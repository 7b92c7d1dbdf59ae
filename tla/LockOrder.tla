----------------------------- MODULE LockOrder -----------------------------
(***************************************************************************)
(* The work of ch13/3_lockdep/deadlock_eg_AB-BA: both threads take lockA   *)
(* and lockB; with lock_ooo = 1 thread 1 breaks the rule lockA --> lockB.  *)
(***************************************************************************)
EXTENDS KthreadPair, Sequences

CONSTANTS
  NoOwner,     \* "this lock is free"
  OooValues    \* what lock_ooo may be set to: 0, 1 or another number

ASSUME LockAssumption == NoOwner \notin Threads /\ OooValues \subseteq Int

VARIABLES
  lock_ooo,  \* the module parameter, writable while the module runs (0644)
  owner,     \* owner[l] of the spinlock l
  plan       \* plan[t]: the lock operations thread t has yet to do

lockvars == <<lock_ooo, owner, plan>>

Locks == {"lockA", "lockB"}
Ops   == ({"lock", "unlock"} \X Locks) \cup {<<"test", "lock_ooo">>}

Nested(a, b) == << <<"lock", a>>, <<"lock", b>>, <<"unlock", b>>, <<"unlock", a>> >>

\* thrd_work() is yet to look at lock_ooo.
Undecided == << >>

LockTypeOK ==
  /\ lock_ooo \in OooValues
  /\ owner \in [Locks -> Threads \cup {NoOwner}]
  /\ \A t \in Threads : plan[t] \in Seq(Ops) /\ Len(plan[t]) <= 4

LockFresh(o, p) ==
  /\ o = [l \in Locks |-> NoOwner]
  /\ p = [t \in Threads |-> Undecided]

SetParam ==
  /\ mod # "out" /\ demo = "abba"
  /\ lock_ooo' \in OooValues \ {lock_ooo}
  /\ UNCHANGED <<owner, plan, modvars, thrvars>>

Locking(t) == demo = "abba" /\ thr[t] = "working"

\* Mutant: thread 1 takes the locks against the rule whatever the parameter.
Decide_BreaksRule(t) ==
  /\ Locking(t) /\ plan[t] = Undecided
  /\ plan' = [plan EXCEPT ![t] = At(t, Nested("lockA", "lockB"),
                                       Nested("lockB", "lockA"))]
  /\ UNCHANGED <<lock_ooo, owner, modvars, thrvars>>

\* Thread 0 follows the rule; thread 1 tests lock_ooo == 1, and if not ...
Decide(t) ==
  /\ Locking(t) /\ plan[t] = Undecided
  /\ plan' = [plan EXCEPT ![t] =
                CASE t = 0 -> Nested("lockA", "lockB")
                  [] t = 1 /\ lock_ooo = 1 -> Nested("lockB", "lockA")
                  [] OTHER -> << <<"test", "lock_ooo">> >>]
  /\ UNCHANGED <<lock_ooo, owner, modvars, thrvars>>

Now(t, what) == Locking(t) /\ plan[t] # Undecided /\ Head(plan[t])[1] = what
Lock(t)      == Head(plan[t])[2]

\* ... it reads the parameter again, and without a 0 takes no lock at all.
TestAgain(t) ==
  /\ Now(t, "test")
  /\ \/ /\ lock_ooo = 0
        /\ plan' = [plan EXCEPT ![t] = Nested("lockA", "lockB")]
        /\ UNCHANGED <<modvars, thrvars>>
     \/ lock_ooo # 0 /\ Exit(t) /\ UNCHANGED plan
  /\ UNCHANGED <<lock_ooo, owner>>

SpinLock(t) ==
  /\ Now(t, "lock") /\ owner[Lock(t)] = NoOwner
  /\ owner' = [owner EXCEPT ![Lock(t)] = t]
  /\ plan' = [plan EXCEPT ![t] = Tail(@)]
  /\ UNCHANGED <<lock_ooo, modvars, thrvars>>

SpinUnlock(t) ==
  /\ Now(t, "unlock")
  /\ owner' = [owner EXCEPT ![Lock(t)] = NoOwner]
  /\ plan' = [plan EXCEPT ![t] = Tail(@)]
  /\ IF Len(plan[t]) = 1 THEN Exit(t) ELSE UNCHANGED <<modvars, thrvars>>
  /\ UNCHANGED lock_ooo

LockWork(t) == Decide(t) \/ TestAgain(t) \/ SpinLock(t) \/ SpinUnlock(t)
=============================================================================
