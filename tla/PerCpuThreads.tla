--------------------------- MODULE PerCpuThreads ---------------------------
(***************************************************************************)
(* The work of ch13/2_percpu/percpu_var.c: thread 0 increments its         *)
(* processor's pcpa and adds to its pcp_ctx->tx, thread 1 decrements pcpa  *)
(* and adds to rx, and no lock is taken because no data is shared.         *)
(***************************************************************************)
EXTENDS KthreadPair

CONSTANT ITERS   \* THRD0_ITERS = THRD1_ITERS

ASSUME ItersAssumption == ITERS \in Nat

VARIABLES
  pcpa,     \* pcpa[c]: the per-cpu integer
  tx, rx,   \* pcp_ctx->tx, pcp_ctx->rx, per cpu
  iter,     \* iter[t]: iterations thread t has finished
  half      \* half[t]: it has moved pcpa but not yet tx or rx

pcpvars == <<pcpa, tx, rx, iter, half>>

PcpTypeOK ==
  /\ pcpa \in [Cpus -> -ITERS..ITERS]
  /\ tx \in [Cpus -> 0..100*ITERS]
  /\ rx \in [Cpus -> 0..200*ITERS]
  /\ iter \in [Threads -> 0..ITERS]
  /\ half \in [Threads -> BOOLEAN]

\* A fresh module image and alloc_percpu(): all zeroes.
Zero == [c \in Cpus |-> 0]
PcpFresh(a, t, r, i, h) ==
  /\ a = Zero /\ t = Zero /\ r = Zero
  /\ i = [s \in Threads |-> 0]
  /\ h = [s \in Threads |-> FALSE]

Working(t) == demo = "percpu" /\ thr[t] = "working"

\* Mutant: the loop runs once too often.
MovePcpa_OneMore(t) ==
  /\ Working(t) /\ iter[t] <= ITERS /\ ~half[t]
  /\ pcpa' = [pcpa EXCEPT ![cpu[t]] = @ + At(t, 1, -1)]
  /\ half' = [half EXCEPT ![t] = TRUE]
  /\ UNCHANGED <<tx, rx, iter, modvars, thrvars>>

\* get_cpu_var(pcpa): preemption is off until put_cpu_var().
MovePcpa(t) ==
  /\ Working(t) /\ iter[t] < ITERS /\ ~half[t]
  /\ pcpa' = [pcpa EXCEPT ![cpu[t]] = @ + At(t, 1, -1)]
  /\ half' = [half EXCEPT ![t] = TRUE]
  /\ UNCHANGED <<tx, rx, iter, modvars, thrvars>>

\* get_cpu_ptr(pcp_ctx): likewise.
MoveCtx(t) ==
  /\ Working(t) /\ half[t]
  /\ tx' = [tx EXCEPT ![cpu[t]] = @ + At(t, 100, 0)]
  /\ rx' = [rx EXCEPT ![cpu[t]] = @ + At(t, 0, 200)]
  /\ half' = [half EXCEPT ![t] = FALSE]
  /\ iter' = [iter EXCEPT ![t] = @ + 1]
  /\ UNCHANGED <<pcpa, modvars, thrvars>>

\* disp_vars() only prints.
WorkDone(t) ==
  /\ Working(t) /\ iter[t] = ITERS
  /\ Exit(t)
  /\ UNCHANGED pcpvars

PcpWork(t) == MovePcpa(t) \/ MoveCtx(t) \/ WorkDone(t)

-----------------------------------------------------------------------------
\* Without a lock no update is lost or made to another processor's copy: cpu t
\* shows exactly what thread t has done so far, and nothing of the other.  What
\* module_exit then displays is all of a thread's work or none of it, even when
\* the thread is stopped before it first ran.
PerCpuExact ==
  /\ pcpa[0] = iter[0] + (IF half[0] THEN 1 ELSE 0)
  /\ pcpa[1] = -(iter[1] + (IF half[1] THEN 1 ELSE 0))
  /\ tx = [c \in Cpus |-> At(c, 100 * iter[0], 0)]
  /\ rx = [c \in Cpus |-> At(c, 0, 200 * iter[1])]
  /\ mod = "out" => \A t \in Threads : iter[t] \in {0, ITERS} /\ ~half[t]
=============================================================================
