------------------------------ MODULE TaskWalk ------------------------------
(***************************************************************************)
(* The modules that walk the kernel's tasks from module_init:              *)
(*   "rcu"    ch6/foreach/thrd_showall, under rcu_read_lock()              *)
(*   "buggy"  ch13/3_lockdep/buggy_thrdshow_eg, get_task_comm() inside the *)
(*            task lock                                                    *)
(*   "fixed"  ch13/3_lockdep/fixed_thrdshow_eg, which drops the task lock  *)
(*            around it                                                    *)
(*   "prcs"   ch6/foreach/prcs_showall, processes only, with               *)
(*            cond_resched() in the section                                *)
(* Meanwhile tasks are forked, rename themselves, exec, exit and are freed.*)
(***************************************************************************)
EXTENDS Integers, FiniteSets, Sequences

CONSTANTS
  Tasks,      \* the tasks there are or will be, each created at most once
  Renamers,   \* those that change their name
  FirstProc,  \* the process there is at first: its threads, leader first
  Idle,       \* init_task, the head of the list of processes
  NoOwner,    \* "this task lock is free"
  Walks       \* which of the four modules may be inserted

ASSUME WalkAssumption ==
  /\ IsFiniteSet(Tasks) /\ Renamers \subseteq Tasks
  /\ FirstProc \in Seq(Tasks) /\ FirstProc # << >>
  /\ \A i, j \in DOMAIN FirstProc : FirstProc[i] = FirstProc[j] => i = j
  /\ Idle \notin Tasks
  /\ NoOwner \notin Tasks \cup {Idle}
  /\ Walks \subseteq {"rcu", "buggy", "fixed", "prcs"}

VARIABLES
  life,        \* life[t]: "unborn", "listed", "unlinked" or "freed"
  leader,      \* leader[t]: the leader of t's thread group
  next_task,   \* the ring of the leaders; an unlinked task keeps its pointers
  next_thread, \* the ring of each thread group
  alloc_lock,  \* alloc_lock[t]: Idle when the walker holds task_lock(t)
  comm,        \* comm[t]: the two halves of t's name
  renames,     \* renames[t]: how far t is with renaming itself
  walk,        \* the module that walks
  pc,          \* where the walk is
  g, t,        \* its process and thread pointers
  name,        \* the copy of the name it prints
  total,       \* its count
  rcu,         \* it is in an RCU read-side section
  held,        \* tasks unlinked since that section began
  stayed,      \* history: tasks listed ever since the walk began
  seen,        \* history: tasks that were listed at any time of the walk
  execed       \* history: a thread that is not the leader has called exec

listvars == <<leader, next_task, next_thread>>
taskvars == <<life, listvars, comm, renames>>
hisvars  == <<stayed, seen, execed>>
vars == <<taskvars, alloc_lock, walk, pc, g, t, name, total, rcu, held, hisvars>>

Nodes == Tasks \cup {Idle}
Halves == {0, 1}

\* Bound: what is counted beyond it is not told apart.
MaxTotal == Cardinality(Tasks) + 2

TypeOK ==
  /\ life \in [Nodes -> {"unborn", "listed", "unlinked", "freed"}]
  /\ {leader, next_task, next_thread} \subseteq [Nodes -> Nodes]
  /\ alloc_lock \in [Tasks -> Nodes \cup {NoOwner}]
  /\ comm \in [Nodes -> Halves \X Halves]
  /\ renames \in [Tasks -> {"no", "locked", "half"}]
  /\ walk \in Walks
  /\ pc \in {"out", "process", "thread", "lock", "name", "name2", "relock",
             "count", "done", "oops"}
  /\ {g, t} \subseteq Nodes
  /\ pc \in {"thread", "lock", "name", "name2", "relock", "count"} => t \in Tasks
  /\ name \in Halves \X Halves
  /\ total \in 0..MaxTotal
  /\ rcu \in BOOLEAN /\ execed \in BOOLEAN
  /\ held \subseteq Tasks /\ stayed \subseteq Tasks /\ seen \subseteq Tasks

Listed == {s \in Nodes : life[s] = "listed"}
Group(s) == {u \in Listed : leader[u] = leader[s]}
PrevTask(s)   == CHOOSE u \in Listed : leader[u] = u /\ next_task[u] = s
PrevThread(s) == CHOOSE u \in Group(s) : next_thread[u] = s

Born   == {FirstProc[i] : i \in DOMAIN FirstProc}
First  == FirstProc[1]
After(s) == LET i == CHOOSE i \in DOMAIN FirstProc : FirstProc[i] = s
            IN  FirstProc[(i % Len(FirstProc)) + 1]

Init ==
  /\ life = [s \in Nodes |-> IF s \in Born \cup {Idle} THEN "listed" ELSE "unborn"]
  /\ leader = [s \in Nodes |-> IF s \in Born THEN First ELSE s]
  /\ next_task = [s \in Nodes |-> IF s = Idle THEN First ELSE Idle]
  /\ next_thread = [s \in Nodes |-> IF s \in Born THEN After(s) ELSE s]
  /\ alloc_lock = [s \in Tasks |-> NoOwner]
  /\ comm = [s \in Nodes |-> <<0, 0>>]
  /\ renames = [s \in Tasks |-> "no"]
  /\ walk \in Walks
  /\ pc = "out" /\ g = Idle /\ t = Idle /\ name = <<0, 0>> /\ total = 0
  /\ rcu = FALSE /\ held = {}
  /\ stayed = {} /\ seen = {} /\ execed = FALSE

-----------------------------------------------------------------------------
(* The other tasks.  Lists change under tasklist_lock: in one step. *)

Others == UNCHANGED <<walk, pc, g, t, name, total, rcu>>

\* A new process goes to the end of the list ...
Fork(s) ==
  /\ life[s] = "unborn"
  /\ life' = [life EXCEPT ![s] = "listed"]
  /\ next_task' = [next_task EXCEPT ![PrevTask(Idle)] = s, ![s] = Idle]
  /\ seen' = seen \cup {s}
  /\ Others
  /\ UNCHANGED <<leader, next_thread, alloc_lock, comm, renames, held, stayed, execed>>

\* ... and a new thread to the end of its group.
Clone(s) ==
  /\ life[s] = "unborn"
  /\ \E l \in Listed \ {Idle} :
       /\ leader[l] = l
       /\ leader' = [leader EXCEPT ![s] = l]
       /\ next_thread' = [next_thread EXCEPT ![PrevThread(l)] = s, ![s] = l]
  /\ life' = [life EXCEPT ![s] = "listed"]
  /\ seen' = seen \cup {s}
  /\ Others
  /\ UNCHANGED <<next_task, alloc_lock, comm, renames, held, stayed, execed>>

Leave(s) ==
  /\ life[s] = "listed" /\ renames[s] = "no"
  /\ life' = [life EXCEPT ![s] = "unlinked"]
  /\ stayed' = stayed \ {s}
  /\ held' = IF rcu THEN held \cup {s} ELSE held
  /\ Others
  /\ UNCHANGED <<alloc_lock, comm, renames, seen>>

\* list_del_rcu() of a task that exits; a leader stays until it is alone.
Unlink(s) ==
  /\ Leave(s)
  /\ \/ /\ leader[s] # s
        /\ next_thread' = [next_thread EXCEPT ![PrevThread(s)] = next_thread[s]]
        /\ UNCHANGED next_task
     \/ /\ leader[s] = s /\ Group(s) = {s}
        /\ next_task' = [next_task EXCEPT ![PrevTask(s)] = next_task[s]]
        /\ UNCHANGED next_thread
  /\ UNCHANGED <<leader, execed>>

\* de_thread(): the only other thread s calls exec and takes the place of its
\* leader, which goes.
Exec(s) ==
  LET l == leader[s] IN
  /\ l # s /\ Group(s) = {l, s}
  /\ Leave(l)
  /\ leader' = [leader EXCEPT ![s] = s]
  /\ next_task' = [next_task EXCEPT ![PrevTask(l)] = s, ![s] = next_task[l]]
  /\ next_thread' = [next_thread EXCEPT ![s] = s]
  /\ execed' = TRUE

\* Its memory goes a grace period later: not before a section that could have
\* found it in the list has ended.
Free(s) ==
  /\ life[s] = "unlinked" /\ s \notin held
  /\ life' = [life EXCEPT ![s] = "freed"]
  /\ Others
  /\ UNCHANGED <<listvars, comm, renames, alloc_lock, held, hisvars>>

\* __set_task_comm(): under the task lock, in two halves.
Rename(s) ==
  /\ life[s] = "listed"
  /\ \/ /\ renames[s] = "no" /\ alloc_lock[s] = NoOwner /\ comm[s] = <<0, 0>>
        /\ alloc_lock' = [alloc_lock EXCEPT ![s] = s]
        /\ renames' = [renames EXCEPT ![s] = "locked"]
        /\ UNCHANGED comm
     \/ /\ renames[s] = "locked"
        /\ renames' = [renames EXCEPT ![s] = "half"]
        /\ comm' = [comm EXCEPT ![s][1] = 1]
        /\ UNCHANGED alloc_lock
     \/ /\ renames[s] = "half"
        /\ alloc_lock' = [alloc_lock EXCEPT ![s] = NoOwner]
        /\ renames' = [renames EXCEPT ![s] = "no"]
        /\ comm' = [comm EXCEPT ![s][2] = 1]
  /\ Others
  /\ UNCHANGED <<life, listvars, held, hisvars>>

-----------------------------------------------------------------------------
(* The walk *)

Start(section, first) ==
  /\ pc = "out"
  /\ pc' = "process"
  /\ total' = first
  /\ rcu' = section
  /\ stayed' = Listed \ {Idle} /\ seen' = Listed \ {Idle}
  /\ execed' = FALSE
  /\ UNCHANGED <<taskvars, alloc_lock, walk, g, t, name, held>>

\* Mutant: the section is never entered, as when the lock is not available.
Begin_NoRcu == Start(FALSE, IF walk = "rcu" THEN 1 ELSE 0)

\* Mutant: the count starts as it does in the other modules.
Begin_StartsAtZero == Start(walk \in {"rcu", "prcs"}, 0)

\* module_init calls the walk; thrd_showall counts the idle thread first.
Begin == Start(walk \in {"rcu", "prcs"}, IF walk = "rcu" THEN 1 ELSE 0)

Alive == life[g] # "freed" /\ life[t] # "freed"

\* Any access to a task that has been freed loses the walk.
Oops ==
  /\ pc \notin {"out", "done", "oops"} /\ ~Alive
  /\ pc' = "oops"
  /\ UNCHANGED <<taskvars, alloc_lock, walk, g, t, name, total, rcu, held, hisvars>>

Step(from, to) ==
  /\ pc = from /\ Alive /\ pc' = to
  /\ UNCHANGED <<taskvars, walk, hisvars>>

\* Mutant: the loop does not stop at the head of the list.
NextProcess_PastHead ==
  /\ Step("process", IF walk = "prcs" THEN "name" ELSE "lock")
  /\ g' = next_task[g] /\ t' = next_task[g]
  /\ UNCHANGED <<alloc_lock, name, total, rcu, held>>

\* do_each_thread() and for_each_process(): the next process, from its leader.
NextProcess ==
  /\ next_task[g] # Idle
  /\ Step("process", IF walk = "prcs" THEN "name" ELSE "lock")
  /\ g' = next_task[g] /\ t' = next_task[g]
  /\ UNCHANGED <<alloc_lock, name, total, rcu, held>>

\* Back at the head: rcu_read_unlock(), and the total is reported.
End ==
  /\ next_task[g] = Idle
  /\ Step("process", "done")
  /\ g' = Idle /\ t' = Idle
  /\ rcu' = FALSE /\ held' = {}
  /\ UNCHANGED <<alloc_lock, name, total>>

\* while_each_thread(): the next thread, until it is the leader again.
NextThread ==
  /\ Step("thread", IF next_thread[t] = g THEN "process" ELSE "lock")
  /\ t' = next_thread[t]
  /\ UNCHANGED <<alloc_lock, g, name, total, rcu, held>>

\* Mutant: the fixed module does not unlock before get_task_comm().
TaskLock_Held ==
  /\ Step("lock", "name")
  /\ alloc_lock[t] = NoOwner
  /\ alloc_lock' = [alloc_lock EXCEPT ![t] = Idle]
  /\ UNCHANGED <<g, t, name, total, rcu, held>>

\* Mutant: thrd_showall reads t->comm where prcs_showall does, with no lock.
TaskLock_Forgotten ==
  /\ Step("lock", "name")
  /\ UNCHANGED <<alloc_lock, g, t, name, total, rcu, held>>

\* task_lock(t); what "fixed" does before it drops the lock again only prints.
TaskLock ==
  /\ Step("lock", "name")
  /\ alloc_lock[t] = NoOwner
  /\ alloc_lock' = IF walk = "fixed" THEN alloc_lock
                   ELSE [alloc_lock EXCEPT ![t] = Idle]
  /\ UNCHANGED <<g, t, name, total, rcu, held>>

\* The first half of the name: t->comm as it is, or get_task_comm(), which
\* takes the task lock -- and in "buggy" waits for the walk itself.
ReadName ==
  /\ Step("name", "name2")
  /\ IF walk \in {"rcu", "prcs"} THEN UNCHANGED alloc_lock
     ELSE /\ alloc_lock[t] = NoOwner
          /\ alloc_lock' = [alloc_lock EXCEPT ![t] = Idle]
  /\ name' = [name EXCEPT ![1] = comm[t][1]]
  /\ UNCHANGED <<g, t, total, rcu, held>>

\* The second half; get_task_comm() drops the lock, and "fixed" retakes it.
ReadName2 ==
  /\ Step("name2", IF walk = "fixed" THEN "relock" ELSE "count")
  /\ name' = [name EXCEPT ![2] = comm[t][2]]
  /\ alloc_lock' = IF walk = "fixed" THEN [alloc_lock EXCEPT ![t] = NoOwner]
                   ELSE alloc_lock
  /\ UNCHANGED <<g, t, total, rcu, held>>

Relock ==
  /\ Step("relock", "count")
  /\ alloc_lock[t] = NoOwner
  /\ alloc_lock' = [alloc_lock EXCEPT ![t] = Idle]
  /\ UNCHANGED <<g, t, name, total, rcu, held>>

\* total++ and task_unlock(t); prcs_showall's cond_resched() is a quiescent
\* state when the kernel is not preemptible, and ends every grace period.
Count ==
  /\ Step("count", IF walk = "prcs" THEN "process" ELSE "thread")
  /\ total' = (IF total < MaxTotal THEN total + 1 ELSE total)
  /\ alloc_lock' = IF walk = "prcs" THEN alloc_lock
                   ELSE [alloc_lock EXCEPT ![t] = NoOwner]
  /\ held' \in (IF walk = "prcs" THEN {held, {}} ELSE {held})
  /\ UNCHANGED <<g, t, name, rcu>>

Walker == Begin \/ Oops \/ NextProcess \/ NextThread \/ End
          \/ TaskLock \/ ReadName \/ ReadName2 \/ Relock \/ Count

OtherTasks ==
  \/ \E s \in Tasks : Fork(s) \/ Clone(s) \/ Unlink(s) \/ Exec(s) \/ Free(s)
  \/ \E s \in Renamers : Rename(s)

Next == Walker \/ OtherTasks

\* The walker runs on, a task that has begun to rename itself finishes, and
\* the task lock is a queued spinlock.
Spec == /\ Init /\ [][Next]_vars
        /\ SF_vars(Walker)
        /\ \A s \in Renamers : WF_vars(renames[s] # "no" /\ Rename(s))

-----------------------------------------------------------------------------
\* thrd_showall never touches a task that has been freed, whatever exits while
\* it walks: the RCU section is enough although tasklist_lock is not held.
NoFreedTask == walk = "rcu" => Alive /\ pc # "oops"

\* A name is printed whole, old or new, wherever the task lock guards the copy.
NameWhole == pc = "count" /\ walk # "prcs" => name[1] = name[2]

\* What thrd_showall reports counts, besides the idle thread, every task that
\* was there throughout the walk once, and none that was never there -- unless
\* a thread has called exec, after which its leader may never come round again.
\* Nor does any of the modules count more tasks than there can be.
TotalBounds ==
  ~execed =>
    /\ total < MaxTotal
    /\ pc = "done" /\ walk = "rcu" =>
         total - 1 \in Cardinality(stayed)..Cardinality(seen)

\* Without the lock held across get_task_comm() the walk comes to an end, and
\* with it insmod returns, again unless a thread calls exec.
WalkEnds ==
  (pc = "process" /\ walk # "buggy") ~> (pc \in {"done", "oops"} \/ execed)
=============================================================================
