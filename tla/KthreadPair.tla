---------------------------- MODULE KthreadPair ----------------------------
(***************************************************************************)
(* The frame that ch13/2_percpu/percpu_var.c and ch13/3_lockdep/           *)
(* deadlock_eg_AB-BA share: module_init creates two kernel threads, each   *)
(* pins itself to a processor and works, module_exit stops them.  Either   *)
(* module may be inserted; PerCpuThreads and LockOrder have their work.    *)
(***************************************************************************)
EXTENDS Integers

CONSTANTS
  Demos,       \* which of "percpu" and "abba" may be inserted
  MaxInserts   \* bound: how often a module is inserted

ASSUME PairAssumption == Demos \subseteq {"percpu", "abba"} /\ MaxInserts \in Nat

VARIABLES
  demo,     \* the module inserted last
  inserts,  \* how often one was
  mod,      \* the step module_init or module_exit is at
  thr,      \* thr[t]: how far kernel thread t is
  refs,     \* refs[t]: references to its task_struct
  cpu,      \* cpu[t]: the processor it runs on
  stop      \* stop[t]: KTHREAD_SHOULD_STOP

Threads == {0, 1}
Cpus    == {0, 1}
modvars == <<demo, inserts, mod>>
thrvars == <<thr, refs, cpu, stop>>

PairTypeOK ==
  /\ demo \in Demos /\ inserts \in 0..MaxInserts
  /\ mod \in {"out", "run0", "get0", "run1", "get1", "live", "stop0", "wait0",
              "stop1", "wait1", "oops"}
  /\ thr \in [Threads -> {"none", "woken", "start", "working", "dead"}]
  /\ refs \in [Threads -> 0..2]
  /\ cpu \in [Threads -> Cpus]
  /\ stop \in [Threads -> BOOLEAN]

PairInit ==
  /\ demo \in Demos /\ inserts = 0
  /\ mod = "out"
  /\ thr = [t \in Threads |-> "none"]
  /\ refs = [t \in Threads |-> 0]
  /\ cpu \in [Threads -> Cpus]
  /\ stop = [t \in Threads |-> FALSE]

At(t, a, b) == IF t = 0 THEN a ELSE b

-----------------------------------------------------------------------------
(* module_init and module_exit; kallsyms and alloc_percpu() may fail, which  *)
(* leaves everything as it was.                                              *)

Insert(d) ==
  /\ mod = "out" /\ inserts < MaxInserts
  /\ demo' = d /\ inserts' = inserts + 1
  /\ mod' = "run0"
  /\ thr' = [t \in Threads |-> "none"]
  /\ refs' = [t \in Threads |-> 0]
  /\ stop' = [t \in Threads |-> FALSE]
  /\ UNCHANGED cpu

\* kthread_run(): the thread exists and is runnable before run_kthrd() goes on.
Create(t) ==
  /\ mod = At(t, "run0", "run1")
  /\ mod' = At(t, "get0", "get1")
  /\ thr' = [thr EXCEPT ![t] = "woken"]
  /\ refs' = [refs EXCEPT ![t] = 1]
  /\ UNCHANGED <<demo, inserts, cpu, stop>>

\* It fails with an ERR_PTR, which run_kthrd() takes for a task; the error
\* paths out2 and out3 are never reached.
CreateFails(t) ==
  /\ mod = At(t, "run0", "run1")
  /\ mod' = "oops"
  /\ UNCHANGED <<demo, inserts, thrvars>>

\* get_task_struct(): of a thread that may already be gone.
GetTask(t) ==
  /\ mod = At(t, "get0", "get1")
  /\ IF refs[t] = 0 THEN mod' = "oops" /\ UNCHANGED refs
     ELSE mod' = At(t, "run1", "live") /\ refs' = [refs EXCEPT ![t] = refs[t] + 1]
  /\ UNCHANGED <<demo, inserts, thr, cpu, stop>>

Remove ==
  /\ mod = "live"
  /\ mod' = "stop0"
  /\ UNCHANGED <<demo, inserts, thrvars>>

\* kthread_stop() asks the thread to stop ...
AskStop(t) ==
  /\ mod = At(t, "stop0", "stop1")
  /\ mod' = At(t, "wait0", "wait1")
  /\ stop' = [stop EXCEPT ![t] = TRUE]
  /\ UNCHANGED <<demo, inserts, thr, refs, cpu>>

\* Mutant: module_exit stops the threads without waiting for their exit.
AwaitExit_NoWait(t) ==
  /\ mod = At(t, "wait0", "wait1")
  /\ mod' = At(t, "stop1", "out")
  /\ UNCHANGED <<demo, inserts, thrvars>>

\* ... and waits for it to exit; run_kthrd()'s reference is never put back.
AwaitExit(t) ==
  /\ mod = At(t, "wait0", "wait1") /\ thr[t] = "dead"
  /\ mod' = At(t, "stop1", "out")
  /\ UNCHANGED <<demo, inserts, thrvars>>

-----------------------------------------------------------------------------
(* The threads *)

\* The thread is gone: its own reference to its task_struct goes with it.
Exit(t) ==
  /\ thr' = [thr EXCEPT ![t] = "dead"]
  /\ refs' = [refs EXCEPT ![t] = refs[t] - 1]
  /\ UNCHANGED <<modvars, cpu, stop>>

\* kthread() does not call thrd_work() when it is asked to stop before it ran.
Begin(t) ==
  /\ thr[t] = "woken" /\ ~stop[t]
  /\ thr' = [thr EXCEPT ![t] = "start"]
  /\ UNCHANGED <<modvars, refs, cpu, stop>>

NeverBegins(t) == thr[t] = "woken" /\ stop[t] /\ Exit(t)

\* Mutant: the mask is built but never given to the scheduler.
SetAffinity_NotPinned(t) ==
  /\ thr[t] = "start"
  /\ thr' = [thr EXCEPT ![t] = "working"]
  /\ UNCHANGED <<modvars, refs, cpu, stop>>

\* set_cpuaffinity(): thread t runs on processor t from here on.
SetAffinity(t) ==
  /\ thr[t] = "start"
  /\ thr' = [thr EXCEPT ![t] = "working"]
  /\ cpu' = [cpu EXCEPT ![t] = t]
  /\ UNCHANGED <<modvars, refs, stop>>

SetAffinityFails(t) == thr[t] = "start" /\ Exit(t)

\* Until it has pinned itself a thread runs where the scheduler puts it.
Migrate(t) ==
  /\ thr[t] \in {"woken", "start"}
  /\ \E c \in Cpus \ {cpu[t]} : cpu' = [cpu EXCEPT ![t] = c]
  /\ UNCHANGED <<modvars, thr, refs, stop>>

InitSteps(t) == Create(t) \/ CreateFails(t) \/ GetTask(t)
StopSteps(t) == AskStop(t) \/ AwaitExit(t)
Prologue(t)  == Begin(t) \/ NeverBegins(t) \/ SetAffinity(t) \/ SetAffinityFails(t)

-----------------------------------------------------------------------------
\* When the module is gone no thread is left to run its code or to touch the
\* per-cpu memory module_exit has freed.
GoneAlone ==
  mod = "out" => \A t \in Threads : thr[t] \in {"none", "dead"}

\* run_kthrd() takes its reference while the task struct is still there,
\* "ensuring that the task does not simply die".
TaskTaken == \A t \in Threads : mod = At(t, "get0", "get1") => refs[t] > 0
=============================================================================
