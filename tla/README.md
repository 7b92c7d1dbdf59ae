# Verification of the kernel modules

The repository is a collection of some sixty small Linux kernel modules and
user programs written along the chapters of two kernel-programming books.
They are not one system: each module is loaded alone and talks to the kernel
and to the processes that use its files.  What they share is a way of being
wrong: a static or a heap object that module_init creates, that any number of
processes use through file operations at the same time, and that module_exit
takes away.  This project models those modules whose correctness depends on
such interleavings, checks them with TLC and proves their safety with TLAPS,
for any number of processes, tasks, files and bytes.

## 1. Inventory

State, operations, what the part interacts with, what is hard in it, and what
makes it correct.

| Part (under `src/`) | State | Operations | What is hard | Correct when |
|---|---|---|---|---|
| `ch12/1_miscdrv_rdwr_mutexlock` | `ctx` (secret, tx, rx, its mutex), `ga`, `gb`, `lock1` | open, read, write, close, init, exit | a read made of three critical sections; device usable before `ctx` exists; failure that leaves the device registered; removal under open files | one process at a time in a section; counters and statistics exact; a read never mixes two secrets; removal spares who is in open; calls and rmmod return |
| `ch12/2_miscdrv_rdwr_spinlock` | the same, with a spinlock and a mutex in `ctx` | the same; parameter `buggy` sleeps under the spinlock | readers and writers take *different* locks; processors that spin | statistics, counters, the stored secret; nobody spins for ever |
| `ch13/miscdrv_rdwr_refcount` | the same, counters are `refcount_t` | the same | saturation at 0 | `grefa` exact, `grefb` never wraps |
| `ch14/miscdrv_rdwr` | the same, no lock | the same | every access races | secret terminated, statistics never invented, a register when calls do not overlap |
| `ch13/2_percpu` | per-cpu integer, per-cpu context pointer, two `task_struct` references | init, exit, two kernel threads | a thread that ends before its creator takes the reference; `kthread_stop` against an ending thread | no thread outlives the module; per-cpu data exact without a lock |
| `ch13/3_lockdep/deadlock_eg_AB-BA` | two spinlocks, parameter `lock_ooo` | init, exit, two kernel threads | lock order chosen at run time | a thread holds both locks or is on its way in a known order; rmmod ends |
| `ch6/foreach`, `ch13/3_lockdep` (walkers) | the kernel's task list, read-only | four walks from module_init | tasks come, go, exec and are freed during the walk | only live tasks are touched; names whole; totals within what existed; the walk ends |
| `ch15/procfs_simple_intf`, `sysfs_simple_intf`, `debugfs_simple_intf`, `mydebugfs` | a `debug_level`, a context, a mutex, the files created so far | init with an unwind chain, exit, file handlers | unwinding half an init; handlers running while files are removed; when the context is freed | levels in range and equal, nothing left after a failure, no freed context, rmmod returns |
| `ch15/mymiscdev` | description, level, two mutexes, device, context | open, read, write of the device; read and write of the level | lock result discarded, unlock without lock, device open before its static is set, a one-byte buffer for a number, module not pinned by its users | the level's file never outlives the context; failures leave nothing |
| `ch15/myplatdev_sysfs` | level, platform device, context | init, exit, show, store | failure that reports success | the same |
| `ch15/ioctl_intf` | one power state | three ioctls; a client that queries, sleeps and toggles | several clients between each other's query and set; no `.owner` | no toggle is lost unless two clients cross |
| `ch15/netlink_simple_intf` | a kernel socket, each user's socket | request, allocation, reply, wait | a reply that is never sent, to a client without timeout that keeps the module in | a client ends unless its reply was dropped |
| `ch13/1_rmw_atomic_bitops` | one word | RMW under a spinlock, `set_bit` | two ways to write one word, one of them through a byte | both leave the same word |
| `ch8/lowlevel_mem`, `ch8/slab1`, `ch8/myprac`, `ch9/vmalloc_try`, `ch9/slab_custom` | the blocks held, the parameters | init with unwind labels, exit; the parameters written meanwhile | the label that matches the step, the order that matches the allocation, results nobody checks | everything goes back, only what is held is touched |
| `ch8/slab_maxsize`, `ch8/slab_graphwaste` | the size, the step (a parameter) | a loop in init | the step may be 0 or negative and may change in the loop | insmod returns |
| `ch14/miscdrv_rdwr/rdwr_test_secret.c` | its arguments | one read or write | the check on the length is never true | any text is refused or sent with its NUL, says its message; it is not so |
| `klib_llkd.c`, `convenient.h` | none | `powerof`, printing | width, negative arguments | `powerof` agrees with the allocator's own 2^order |
| `ch5`, `ch6/current_affairs`, `ch7`, `ch14/miscdrv_demo`, `mymiscdrv` | none | print | nothing | not modelled |
| `ch14/bad_miscdrv`, `ch9/slub_debug`, `ch9/oom_killer_try` | | bugs made on purpose | | not modelled |
| scripts, latency and affinity experiments | none | run other programs | nothing | not modelled |

Interaction.  A user process calls a file operation; the kernel's file layer
(misc core, procfs, kernfs, debugfs) decides whether the call reaches the
module: the misc core holds `misc_mtx` across open and register/deregister, the
pseudo-file layers let a removal wait for handlers that have entered, which
the misc core does not.  insmod
and rmmod run module_init and module_exit concurrently with that; neither
an open device nor an open pseudo file pins these modules: the misc devices'
file_operations have no `.owner`, and procfs does not look at one.  Kernel threads
are created by module_init and stopped by module_exit.  Those outside parts
appear in the models only as the guards and waits the modules rely on, and
the map marks them external.

`PROJECT.json` lists the hazards one by one at their lines, with the properties
that cover them.

## 2. Modules

| Module | Models | State and actions |
|---|---|---|
| `SecretMemory` | strings, buffers, `strscpy`, `copy_to_user`, 32-bit counters | pure operators.  A string is its text (a model value) and its length; memory is a head and a tail so that a copy that overlaps a store shows; what is copied out is the piece and how many bytes were asked of it (`Copied`): fewer than the string's length cut it, more bring its NUL and what older secrets left behind that, whose bytes are not told apart |
| `SecretStore` | what the mutex driver promises: one secret, replaced as a unit, of which a read gets the bytes of one moment, as many as an earlier moment's secret had | `store`, `measured`, `result`; `Start`, `Put`, `Measure`, `Get`, `Forget` |
| `MutexDriver` | ch12/1 | one action per access to shared memory between two points where another process can run: `Open`, `OpenCtx`, `OpenLock`, `OpenIncGa`, ...; `x += n` is a load and a store; init and exit are steps of their own, and rmmod may come at any time, with files open and calls running: `MiscDeregister` takes the code from under whoever holds a descriptor.  A read carries its `secret_len` from the first critical section into the second, which copies that many bytes |
| `MutexDriverProofs` | | theorems about `MutexDriver` |
| `TwoLockSecret` | read and write of ch12/2 and ch13, whose text is the same | the secret under a spinlock and a mutex, and the processors: a process that spins keeps one, a process that sleeps gives it up |
| `SpinDriver` | ch12/2 | `TwoLockSecret`, open and close under spinlock `lock1` |
| `RefcountDriver` | ch13 refcount driver | `TwoLockSecret`, open and close on two `refcount_t` |
| `TwoLockProofs` | | lemmas about `TwoLockSecret`: locks, processors, statistics, the secret |
| `SpinDriverProofs`, `RefcountDriverProofs` | | theorems about `SpinDriver` and `RefcountDriver` |
| `PlainDriver` | ch14 driver without locks | the secret byte by byte |
| `PlainDriverProofs` | | theorems about `PlainDriver` |
| `KthreadPair` | what the two kernel-thread demos share | creation, references on the task, `kthread_stop`, exit of the thread |
| `PerCpuThreads`, `LockOrder` | the two thread functions | affinity, per-cpu updates; the two spinlocks |
| `KthreadDemos` | composes them | either demo, inserted and removed |
| `TaskWalk` | the four walkers | a process list and its thread lists with RCU's life of a `task_struct`; the environment forks, clones, execs, renames, exits, frees |
| `TaskWalkProofs` | | theorems about `TaskWalk` |
| `PseudoFiles` | what the ch15 interface modules share | the steps of init, unwind and exit as tables, the life of a file (hidden, drained, gone), the common shape of a handler |
| `ProcfsIntf`, `SysfsIntf`, `DebugfsIntf`, `MyDevices` | each module's tables and handlers; `MyDevices` has mymiscdev and myplatdev; mymiscdev's device is opened (`OpenNull` while `gmiscdev` is not set yet), then read or written | |
| `Interfaces` | composes them | `intf` picks one of the five for a behaviour; it is inserted (up to twice in the run), used, removed |
| `InterfacesProofs` | | theorems about `Interfaces` |
| `IoctlPower` | the ioctl driver and its client | `power`, and where each client is; `IocReset`, `IocQPower`, `IocSPower`, one action per ioctl, as each does one thing to `power` |
| `NetlinkEcho` | the netlink module and its client | each socket's place, its inbox; the callback runs inside `sendmsg()` and is taken apart into allocation and unicast |
| `AllocChain` | the five modules that allocate in a chain, and `powerof()` and `show_phy_pages()` of the library | `left`, the steps still to make, as data: a step allocates, checks or touches a block; an error label is what is freed from there on.  `held[b]` counts what a block's owner has got minus what it has given back; `kvsize` is what `kv` was allocated with, whatever `kvnum` is later, and `dumped` what is dumped of it |
| `SlabProbe` | the size probes | one action per round: allocate, fail, report; the size wraps as a `size_t` does |
| `BitOps` | the bit operations | the word as the set of its bits |
| `SecretClient` | the user program of the misc drivers | its checks and calls; texts are lengths here, as cutting them is all it does |
| `SoloModules` | composes `KthreadDemos` and the six above | `kind` picks the program a behaviour is about; the others stay out.  They share nothing, so that interleaving them would show nothing |
| `SoloProofs` | | theorems about `SoloModules` |

`MC*` modules hold only constants for TLC.  Definitions whose name ends in
`_Something` and whose comment begins with `Mutant` are wrong variants of the
definition below them; each breaks a property (`PROJECT.json`, "mutants").

Abstractions made throughout: texts are model values; `printk`, column layout
and values that are only printed are left out; a user buffer is what it
contains and how many bytes the process says it has; `-EFAULT` may happen at
any copy; an allocation may always fail.

## 3. Runs, bounds and what they show

| Run | Expect | Shows |
|---|---|---|
| `mutex_safe` | pass | `CtxExclusive`, `CountersSettled`, `StatsExact`; the driver implements `SecretStore` (`StoreSpec`); rmmod, at any time, takes the code from under no running open (`RemovalSparesOpen`) and ends unless somebody was lost in open() (`ExitReturns`); every call returns (`CallsReturn`) |
| `mutex_length` | violation of `ReadLengthMatches` | the length is taken in one critical section and used in another: a read cuts the newer secret off, or hands out what is behind its NUL |
| `mutex_init` | violation of `InitAlone` | the device can be opened before module_init has allocated the context |
| `spin_safe` | pass | on one and on two processors: `StatsExact`, `SecretWhole`, `CountersSettled`, `CallsReturn` |
| `spin_torn` | violation of `ReadWhole` | the mutex of the readers does not exclude the spinlock of the writers |
| `refcount_safe` | pass | `RefInv` (types and `RefaExact`), `RefbSticks` (saturated stays saturated), `CallsReturn` with `buggy=1` |
| `kthread_safe` | pass | `SoloModules`.  Kernel threads: `GoneAlone`, `PerCpuExact`, `RemoveEnds`.  ioctl: `SerialToggles`.  netlink: `SendersReturn`.  Allocation: `NothingHeld`, `TouchesHeld`.  Size probes: `ProbeReturns`.  Bits: `SameEitherWay`.  The user program has no property but its types |
| `kthread_taken` | violation of `TaskTaken` | the reference is taken when the thread may have exited |
| `task_walk` | pass | `NoFreedTask`, `NameWhole`, `TotalBounds`, `WalkEnds` |
| `plain_safe` | pass | `TypeOK` with `Terminated`, `SerialReads`, `StatsUndercount` |
| `interfaces_safe` | pass | `LevelsSane` (`LevelsAgree` of procfs and `ShownSane` of sysfs), `NothingLeft`, `NoStaleCtx` (with `FreedOnce`), `ReadersApart`, `RemoveReturns` |
| `interfaces_debugfs` | violation of `NoBug` | the context is freed before the file whose handler uses it |

The five violations are disagreements between the code and its own comments;
"findings" quotes the comment and the counterexample shows the code.

Some passing properties say less than one would like, because the code
promises less.  `StatsUndercount` says only that lost updates make the
statistics smaller; `SerialReads` speaks of calls that do not overlap;
`RemoveEnds` excludes `lock_ooo` = 1, with which the two threads can deadlock;
`WalkEnds` leaves out the walker that deadlocks on purpose (it takes the task
lock twice) and a walk during which some thread calls exec (without that
exception the walk of the threads can lose the leader it waits for: the
old leader is unlinked from its thread list and the loop that waits to see it
again never does); `NothingLeft` leaves out
procfs, whose first error label removes nothing, and debugfs; `NoStaleCtx` leaves
out debugfs, what handlers that got into procfs before its init was done may
find, the misc device itself, which can be used without a context, and the two
modules that undo a failed init and report success; `ReadersApart` speaks of the
misc device until a signal or a write unlocks a mutex it does not own;
`StoreSpec` promises the bytes of one secret but not all of them, which
`mutex_length` shows to be false; the run of `MutexDriver` takes for granted, with
the code's comment at 310-316, that nobody uses the device during insmod
(`QuietInit`), which `mutex_init` shows to be false, but nothing of rmmod;
`RemovalSparesOpen` speaks of those in open(), as whoever holds a descriptor when
the module goes is lost, the fops having no `.owner`; `ExitReturns` leaves out a
process lost in open() with `misc_mtx`; `SerialToggles` of clients that
nobody overtakes; `NothingHeld` names the three blocks that do not go back
(lowlevel_mem's block 5 is freed with another order than it was allocated with,
block 2 with whatever the parameter `order` is by then, and slab_custom loses
its cache when its object cannot be had); `TouchesHeld` speaks of parameters
that nobody writes, since the module reads `kvnum` and `order` again after it has
checked them and a write in between does what it likes, and names what faults
without one;
`ProbeReturns` needs a positive step.

About `rdwr_test_secret` nothing is claimed.  Its message (67-71) says that a
secret of more than 128 bytes is refused and its comment (87) that the NUL goes
along; but `strnlen(s, MAXBYTES) > MAXBYTES` is never true (`TooBig`), so that any
text is taken, cut to `MAXBYTES` and then sent without a NUL (`NumBytes`,
`WriteSecret`).  The model follows the code.

Bounds.

* Two processes (`Procs`).  Every race of these drivers is between two
  parties; a third process repeats one of them.  The theorems hold for any
  number.
* `MAXBYTES` 3 or 4 for the real 128.  The buffers cover empty, fitting, full
  without NUL and too long, the cases the code distinguishes.
* `IntMod` 2 to 4 for 2^32, so that `tx` and `rx` wrap within a run.
* `MaxLoads`, `MaxInserts`: one load for the misc drivers (the context of a
  second one is fresh), two for the interfaces and the kernel threads (what an
  earlier life leaves behind matters there).  A module is inserted again only
  when nothing of its earlier life is left: no file, no process inside it.
* `MaxCalls` 4 in `PlainDriver`: two overlapping calls and one before and
  after; the statistics there do not wrap.
* `QuietInit`: TRUE in all runs but `mutex_init`.
* `Machines`: one and two processors.
* `ITERS` 3: a thread that has not begun, is in the middle, and is at its end.
* Tasks t1, t2, t3: a process of two threads and one task that may become a
  thread or a process; `MaxTotal` caps the walker's count, which only
  a walk that counts a task twice reaches: by `TotalBounds`, after an exec.
* `Values` -1, 0, 2, 3: below, at both ends of and above the level range 0..2.
* `SoloModules`: three clients of which two may toggle (two that cross and one
  that is refused); two senders; `Orders` -1, 2, 3, 4, 11 are an order that is
  none, the default 3 with its neighbours and the first the allocator refuses
  (`MAX_ORDER` 11, as on x86); `KvNums` -1, 0, 8, 16 lie below and at the least
  size of 16 bytes that vmalloc_try accepts; `U64` 65536 for 2^64, wide enough
  for every power the modules ask for; `StepSizes` -20, -7, 0, 30 reach 0
  exactly, pass it, stand still and grow; `KMALLOC_MAX` 64 and `SizeMod` 256 keep
  the real relation, that the largest block and one step stay far below the
  wrap; `BITS_PER_LONG` 16 is more than the byte the word is squeezed through;
  `MAXBYTES` 4 and `TextMax` 6 let texts be empty, fit, just fail to fit, and be
  too long.

Deadlock checking is off where the system may stop: bounded inserts, a module
left half-registered, processes that crashed.

## 4. Fairness

* A running call is scheduled.  `SF` on a call's handler stands for this and
  for the kernel's mutex, which hands the lock to a waiter that lost it too
  often, and for a spinlock's queue.  It is per process and covers the whole
  handler, never the beginning of a call: no process is obliged to use the
  device.
* module_init and module_exit get `WF`: insmod and rmmod run once begun.  The
  last step of `MutexDriver`'s exit, whose second is `misc_deregister()`, waits for
  `misc_mtx`, which opens take again and again, and gets `SF`.
* A signal gets no fairness: an interruptible wait may last as long as the
  lock is held.
* Kernel threads get `SF` on their steps, which covers the waits on spinlocks.
* insmod's loop in `SlabProbe` and a sender that is not waiting get `WF`: they
  run on.  Nobody has to start, kill, insert or remove anything, nor write a
  parameter; and a lost reply is not sent again, as nothing in the code resends.
* The walker gets `SF`; a rename that has begun gets `WF`.  The rest of the
  environment of `TaskWalk` has none.
* `PlainDriver` claims no liveness.

## 5. Proofs

The theorems hold for any finite set of processes, tasks, clients and senders,
any number of insertions, any width of the counters and any size of the
buffers, from the named assumptions of the modules (`TLAPS` proves them from
nothing else; TLC evaluates the assumptions in the runs).  Every safety property
that a passing run checks is a theorem.

| Module | Theorem | Statement |
|---|---|---|
| `MutexDriverProofs` | `TypeCorrect` | `Spec => []TypeOK` |
| | `CountersCorrect` | `Spec => []CountersSettled` |
| | `CtxExclusion` | `QuietInit => (Spec => []CtxExclusive)` |
| | `StatsCorrect` | `QuietInit => (Spec => []StatsExact)` |
| | `RemovalCorrect` | `Spec => RemovalSparesOpen`, an action property |
| | `StoreImplemented` | `QuietInit => (Spec => StoreSpec)` |
| `SpinDriverProofs` | `OwnersCorrect` | `TypeOK /\ LocksHeld /\ Lock1Held`: each lock is owned by exactly the process past it |
| | `StatsCorrect`, `SecretCorrect`, `CountersCorrect` | `StatsExact`, `SecretWhole`, `CountersSettled` |
| `RefcountDriverProofs` | `ReferencesCorrect`, `StatsCorrect` | `RefInv`, `StatsExact` |
| | `RefbSticksForEver` | the action property `RefbSticks` |
| `PlainDriverProofs` | `TypeCorrect`, `StatsCorrect`, `ReadsCorrect` | `TypeOK` with `Terminated`, `StatsUndercount`, `SerialReads` |
| `SoloProofs` | `TypesCorrect` | `SoloTypeOK` |
| | `ThreadsGone`, `CountersExact` | `GoneAlone`, `PerCpuExact` |
| | `TogglesCorrect` | `SerialToggles` |
| | `AllGivenBack`, `HeldWhenTouched` | `NothingHeld`, `TouchesHeld` |
| | `EitherWay` | the action property `SameEitherWay` |
| `InterfacesProofs` | `TypeCorrect`, `LevelsCorrect`, `AllRemoved`, `ContextAlive`, `ReadersExclude` | `TypeOK`, `LevelsSane`, `NothingLeft`, `NoStaleCtx`, `ReadersApart` |
| `TaskWalkProofs` | `TypeCorrect`, `RcuSuffices`, `NamesWhole`, `TotalsBounded` | `TypeOK`, `NoFreedTask`, `NameWhole`, `TotalBounds` |

Where no form is given it is `Spec => []P`, and `SoloSpec => []P` in `SoloProofs`.
`TwoLockProofs` holds the lemmas that
`SpinDriverProofs` and `RefcountDriverProofs` share.

**`MutexDriver`.**  `TypeOK` is inductive; it rests on `StrscpyFits`, which bounds
what `strscpy` leaves in the buffer.  `CountersSettled` is not: it says nothing
while `lock1` is held.  `CounterInv` adds that a process is in the section of
`lock1` exactly when it owns it, and what `ga` and `gb` are at each place of that
section, counted against the set `Counted`.  Its proof needs the cardinality of
a finite set with one element more or less, from `FiniteSetTheorems`.  Steps
that leave `lock1`, `ga`, `gb`, `pc` and `file` alone are settled once, by
`CounterNeutral`.

`CtxExclusive` and `StatsExact` come from one invariant, `CtxInv`: the owner of
`ctx->lock` is the only process in the section; while nobody is in it, the
statistics equal the history and head and tail of the secret agree; and at
each place of the section, what has been loaded, copied or stored so far.
They are proved under `QuietInit`: without it they are false, since module_init
reinitialises a lock that somebody may hold (`MutexInit`).  They hold through
rmmod; `QuietLife` says in which stages of the module anybody can be in a call.  `CtxHolder` is the
lemma that a process outside the section disturbs nothing and one inside is
alone.

`RemovalSparesOpen` follows from `OpenHeld`: whoever is in open(), or was lost
there, has `misc_mtx`, which nobody else lets go, and `misc_deregister()` waits until
it is free.  It needs no assumption on the use of the device.

`StoreImplemented` maps the abstract store to the tail of the secret, `measured`
to the reads' `secret_len`, and a process's result to what its read copied and
returned.  A write takes effect when its tail is stored, a read measures in its
first critical section and takes effect at the end of its second one, where the
secret is still what it copied; `CtxInv` and `Measured` (a read that is past its
first section has a length, one that is not has none) give what makes those
steps `Put`, `Measure` and `Get`, and every other step leaves the mapped state or
is `Forget` or `Start`.

**`TwoLockSecret`, `SpinDriver`, `RefcountDriver`.**  `SecretInv` says for each of
the two locks who owns it and what the owner has loaded so far (`WriterKnows`,
`ReaderKnows`).  `tx` is only stored under the mutex, `rx` and the secret only
under the spinlock, so each is exact although neither lock covers both: that is
why `StatsExact` holds while `ReadWhole` does not.  `LocksHeld` and `Lock1Held` say
that a lock has an owner exactly when that process is past it.  `SpinDriver` adds
`CounterInv`, the argument of `MutexDriver` with a spinlock.  `RefaExact` is
inductive with the places of the open files (`FilesHeld`); `RefbSticks` needs
`RefbStuck`: `grefb` is 1 or saturated, and saturated once somebody has the
device open.

**`PlainDriver`.**  `Terminated` is inductive because no write stores at or past
the last byte; `Least`, that a set of naturals that is not empty has a least
one, gives where a string ends.  `NotInvented` is what makes `StatsUndercount`
inductive: whatever a call has loaded before others stored, what it is about to
store is no more than what has been copied.  `SerialInv` says of each write that
no other overlapped which bytes it has stored, and of each read that it has
copied those of the last text (`Knows`).

**`SoloModules`.**  One invariant, `SoloInv`, is the conjunction of the parts of
the programs.  The kernel threads need `PairInv` (a thread that runs has a
reference; who can be alive at which point of module_exit) and `PcpInv` (each
counter is a function of its thread's own rounds).  For `IoctlPower`, a client
that nobody overtook has seen what `power` is.

For `AllocChain` the steps still to make are a suffix of the table of the
module: `ChainInv` says at which position of init, of the error labels or of
exit the module is, and `InitHeld`, `UnwindHeld` and `ExitHeld` what each block
owes at that position.  `GetMoves`, `PutMoves` and `OtherMoves` move any of the
three by one step; what remains is that the position after a failing step is
the position of its label.  `TouchesHeld` needs that `powerof(2, order)`, a loop
that multiplies modulo 2^64, is the number of pages the allocator gives out.
The provers have no axioms for `^`, and the induction theorems of the library
cannot be instantiated, so `Pages` is a recursive function of the model and the
induction goes by the least counterexample: `Iterates` shows that a function
applied again and again exists, and `PowerofPages` compares the two wherever
2^order fits a u64.  For the dump of `kv`, `kvnum` is at least `KVN_MIN_BYTES` from
its check on, as long as nobody writes it, and so is what `kv` was allocated with.

**`Interfaces`.**  `Ctl` says at which step of its table each module is and, from
that, which files exist and whether the context is allocated; `PeopleInv` who is
in a handler of a file that exists or is being drained, and who has the mutex;
the remaining parts what each module's handlers have read.  The proof found the
model wrong: it let insmod begin again while a file of the earlier life was
still there, whose name the new one would be refused, or a process was still
inside code that had gone, and with that neither `NothingLeft` nor the ownership
of the mutex was inductive.  A run with one insertion cannot show it; the run
now inserts twice.

**`TaskWalk`.**  `ListsInv` says that the leaders are in one ring and the threads of
each group in another (`RingInsert`, `RingRemove` and `RingReplace` are list_add_tail,
list_del_rcu and list_replace_rcu on a ring), and `Sorted` that the ring of leaders
leads to the idle task and nowhere else in a circle.  `SectionInv` is RCU's
argument: what is listed or was unlinked since the section began leads only to
such tasks, and none of those is freed.  `NameInv` relates the task lock to how
far a rename is.

`TotalBounds` needs to know that the walk passes nobody over and meets nobody
twice, on lists that change under it.  `Ordered(S, T, r, b)` says that from the
members of S the lists lead on in an order r, and pass over no member of T.
Such an order exists before the walk for the listed tasks (`OrderBefore`; there
exec is allowed), and during it for all tasks that were ever listed, unlinked
ones included, with T the tasks that have stayed (`OrderDuring`): a new task comes
last, and whoever led to one that exits leads on to the next.  `Counted(C, r)` is then what the
count means: it is the size of a set C of tasks that lie behind the walker in
that order, and every task that has stayed is in C or ahead.  Exec during the
walk breaks the order (the new leader takes the old one's place), as
section 3 says it must.

Model-checked only: the liveness properties (`CallsReturn`, `ExitReturns`, `RemoveEnds`,
`WalkEnds`, `RemoveReturns`, `SendersReturn`, `ProbeReturns`), since liveness under
fairness and ENABLED are beyond the prover.

What the proofs assume of the constants, beyond finite sets and distinct model
values: `AllocChain` that the pages of every order below `MAX_ORDER` fit a u64;
`SlabProbe` that the first size is below the wrap and that the largest block and
one step stay below it.

## 6. Plan

Done, in this order because the misc driver is the program the repository
keeps returning to: `MutexDriver`, the two-lock drivers, the kernel threads, the
walkers, the lock-free driver, the pseudo-file modules, and the small programs
of `SoloModules`, each with its proofs.  Everything in the repository that keeps
a state it could get wrong is modelled; section 7 says why the rest is not.

Left: a stronger statement of what `Interfaces` promises of procfs once its first
error label is repaired, and of `TaskWalk` for a walk during which threads call
exec (a bound on the count that allows for the leaders that were replaced).

## 7. Not modelled

Each of these was read, and has no state a step of another could disturb.

* `ch5/modstacking`, `ch5/modparams`: init functions that print.  That
  user_lkm needs core_lkm is for the module loader to keep.
* `ch14/miscdrv_demo`, `ch14/mymiscdrv`: methods that print and return; their
  register and deregister are those of `MutexDriver`.
* `ch5/min_sysinfo`, `ch6/current_affairs`, `ch7` (kernel_seg and the others): they
  print what the kernel tells them, once, in module_init.  `bkp/` holds older
  copies.
* `ch14/bad_miscdrv`: copies to a wrong address on purpose; `ch9/slub_debug` and
  `ch9/oom_killer_try`: bugs and exhaustion on purpose.  They promise nothing that
  could be checked.
* The test programs that make one call each, other than `rdwr_test_secret.c`:
  the processes of the models make any sequence of such calls.
* Shell scripts and the latency, affinity and cgroup experiments: sequences of
  commands of other programs.
* Of `klib_llkd.c` and `convenient.h`, all but `powerof()` and the walk of
  `show_phy_pages()`: they print or delay.

Inside the modelled parts: formatting and logging; memory ordering weaker than
interleaving, which matters only to the lock-free driver, where bytes are
already read and written one at a time; which older bytes follow the NUL of a
secret that is read too far; what mymiscdev's copy into a buffer of one byte
(mymiscdev.c:141, size and flags of `devm_kzalloc` are swapped) overwrites behind
it, of which the model has only that the number read back may be any; that a
process lost in mymiscdev's open() keeps `misc_mtx`, for which others would wait;
the counters `ga` and `gb` of that
driver, which nothing reads; the races of insmod and rmmod with the users of
the spinlock, refcount and lock-free drivers, whose text is that of
`MutexDriver`, where they are modelled.
