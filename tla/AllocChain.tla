----------------------------- MODULE AllocChain -----------------------------
(***************************************************************************)
(* The modules whose module_init allocates block after block, unwinds when *)
(* one fails, and whose module_exit frees them:                            *)
(*   "lowlevel"  ch8/lowlevel_mem          "slab1"   ch8/slab1             *)
(*   "vmalloc"   ch9/vmalloc_try           "custom"  ch9/slab_custom       *)
(*   "myprac"    ch8/myprac                                                *)
(* A block is counted in pages or, where it is smaller, as 1.              *)
(***************************************************************************)
EXTENDS Integers, Sequences

CONSTANTS
  Chains,    \* which of the five may be inserted
  Orders,    \* values of lowlevel_mem's parameter `order'
  KvNums,    \* values of vmalloc_try's parameter `kvnum'
  MAX_ORDER, \* the allocator's
  U64        \* 2^64

ChainMods == {"lowlevel", "slab1", "vmalloc", "custom", "myprac"}
Blocks == {"gptr1", "gptr2", "gptr3", "gptr4", "gptr5", "gptr", "ctx", "rndm",
           "init", "kv", "kvarr", "vrx", "cache", "obj", "s1", "s2", "s3"}

\* The pages of a block of some order, 2^order.
Pages[o \in Nat] == IF o = 0 THEN 1 ELSE 2 * Pages[o - 1]

ASSUME ChainAssumption ==
  /\ Chains \subseteq ChainMods /\ Chains # {}
  /\ Orders \subseteq Int /\ Orders # {}
  /\ KvNums \subseteq Int /\ KvNums # {}
  /\ MAX_ORDER \in Nat /\ U64 \in Nat /\ U64 > 1
  /\ \A o \in 0..MAX_ORDER-1 : Pages[o] < U64

VARIABLES
  chain,     \* the module inserted last
  pre58,     \* built for a kernel before 5.8
  order, kvnum,  \* the parameters
  phase,     \* "out", "init", "unwind", "live", "exit" or "oops"
  left,      \* the steps it has yet to make
  held,      \* held[b]: what it has got for b minus what it has given back
  numpg,     \* numpg2alloc, at first 0
  walked,    \* pages show_phy_pages() has walked in gptr2
  kvsize,    \* bytes kv was allocated with, at first 0
  dumped,    \* bytes that have been dumped from kv on
  retval,    \* what module_init returned: 0 or not
  rewritten, \* history: a parameter has been written since insmod began
  missed     \* history: an allocation nobody looks at has failed since

chainvars == <<chain, pre58, order, kvnum, phase, left, held, numpg, walked,
               kvsize, dumped, retval, rewritten, missed>>

KVN_MIN_BYTES == 16

ChainTypeOK ==
  /\ chain \in Chains /\ pre58 \in BOOLEAN
  /\ order \in Orders /\ kvnum \in KvNums
  /\ phase \in {"out", "init", "unwind", "live", "exit", "oops"}
  /\ held \in [Blocks -> Int]
  /\ numpg \in 0..U64-1 /\ walked \in 0..U64-1
  /\ kvsize \in KvNums \cup {0} /\ dumped \in {0, KVN_MIN_BYTES}
  /\ retval \in {0, -1} /\ rewritten \in BOOLEAN /\ missed \in BOOLEAN

-----------------------------------------------------------------------------
(* klib_llkd.c *)

\* base^exponent for a base > 0, modulo the width.
Product(base) ==
  LET res[e \in Nat] == IF e = 0 THEN 1 ELSE (res[e - 1] * base) % U64 IN res

\* Mutant: the loop tests before it counts down, `while (exponent-- >= 0)'.
powerof_OneMore(base, exponent) ==
  IF base = 0 THEN 0
  ELSE IF base < 0 \/ exponent < 0 THEN U64 - 1
  ELSE Product(base)[exponent + 1]

powerof(base, exponent) ==
  IF base = 0 THEN 0
  ELSE IF base < 0 \/ exponent < 0 THEN U64 - 1
  ELSE Product(base)[exponent]

-----------------------------------------------------------------------------
(* The steps <<what, block>> of each module. *)

Get(b) == <<"get", b>>
Put(b) == <<"put", b>>

\* A structure is allocated, used unchecked, and freed.
Once(b) == << Get(b), <<"use", b>>, Put(b) >>

AllocSteps ==
  [lowlevel |-> << Get("gptr1"), <<"powerof", "gptr2">>, Get("gptr2"),
                   <<"show", "gptr2">>, Get("gptr3"), Get("gptr4"), Get("gptr5") >>,
   slab1    |-> << Get("gptr"), Get("ctx") >>,
   vmalloc  |-> << <<"check", "kv">>, Get("rndm"), Get("init"), Get("kv"),
                   <<"dump", "kv">>, Get("kvarr"), Get("vrx"), <<"write", "vrx">> >>,
   custom   |-> << Get("cache"), Get("obj"), Put("obj") >>,
   myprac   |-> << Get("gptr") >> \o Once("s1") \o Once("s2") \o Once("s3")]

\* Newer kernels have no __vmalloc() with protections.
Steps(c, old) == IF c = "vmalloc" /\ ~old THEN SubSeq(AllocSteps[c], 1, 6) ELSE AllocSteps[c]

\* What stands under the labels out5 to out2, fail2 and err_out5 to err_out2, one
\* falling through to the next ...
Labels ==
  [lowlevel |-> << Put("gptr4"), Put("gptr3"), Put("gptr2"), Put("gptr1") >>,
   slab1    |-> << Put("gptr") >>,
   vmalloc  |-> << Put("kvarr"), Put("kv"), Put("init"), Put("rndm") >>,
   custom   |-> << >>,
   myprac   |-> << >>]

\* ... and the one each failing allocation goes to, counted from the first.
Label == [gptr5 |-> 1, gptr4 |-> 2, gptr3 |-> 3, gptr2 |-> 4, gptr1 |-> 5,
          ctx |-> 1, gptr |-> 2, obj |-> 1,
          vrx |-> 1, kvarr |-> 2, kv |-> 3, init |-> 4, rndm |-> 5]

\* Mutant: each allocation goes one label too far down.
Unwind_TooFar(b) == SubSeq(Labels[chain], Label[b] + 1, Len(Labels[chain]))

Unwind(b) == SubSeq(Labels[chain], Label[b], Len(Labels[chain]))

ExitSteps ==
  [lowlevel |-> << Put("gptr5") >> \o Labels.lowlevel,
   slab1    |-> << Put("ctx"), Put("gptr") >>,
   vmalloc  |-> << Put("rndm"), Put("init"), Put("kv"), Put("kvarr") >>,
   custom   |-> << Put("cache") >>,
   myprac   |-> << Put("gptr") >>]

\* Failures nobody looks at: of alloc_pages(), whose NULL page_address() turns
\* into an address; of kmem_cache_create(); of kmalloc() in myprac.
Unseen == {"gptr5", "cache", "s1", "s2", "s3"}

-----------------------------------------------------------------------------
(* What a step does.  Sizes depend on the parameters as they are then. *)

OrderOK == order \in 0..MAX_ORDER-1

Size(b) == CASE b = "gptr2" -> Pages[order] [] b = "gptr5" -> Pages[5] [] OTHER -> 1

\* Given back to the allocator: the exit frees block 5 as one of 2^3 pages.
Freed(b) == CASE b = "gptr2" -> Pages[order] [] b = "gptr5" -> Pages[3] [] OTHER -> 1

\* kvnum becomes a size_t: a negative one is larger than any memory.
MayGet(b) == /\ b = "gptr2" => OrderOK
             /\ b = "kv" => kvnum >= 0

\* Of a parameter the module inserted last does not have.
AnyOrder == CHOOSE o \in Orders : TRUE
AnyKvnum == CHOOSE n \in KvNums : TRUE

ChainInit ==
  /\ chain = (CHOOSE c \in Chains : TRUE) /\ pre58 = TRUE
  /\ order = AnyOrder /\ kvnum = AnyKvnum
  /\ phase = "out" /\ left = << >> /\ held = [b \in Blocks |-> 0]
  /\ numpg = 0 /\ walked = 0 /\ kvsize = 0 /\ dumped = 0
  /\ retval = 0 /\ rewritten = FALSE /\ missed = FALSE

\* insmod, with the parameters it is given, of a module built for some kernel.
ChainInsert ==
  /\ phase = "out" /\ phase' = "init"
  /\ chain' \in Chains /\ pre58' \in BOOLEAN
  /\ order' \in (IF chain' = "lowlevel" THEN Orders ELSE {AnyOrder})
  /\ kvnum' \in (IF chain' = "vmalloc" THEN KvNums ELSE {AnyKvnum})
  /\ left' = Steps(chain', pre58')
  /\ held' = [b \in Blocks |-> 0]
  /\ numpg' = 0 /\ walked' = 0 /\ kvsize' = 0 /\ dumped' = 0
  /\ retval' = 0 /\ rewritten' = FALSE /\ missed' = FALSE

Doing(what) == left # << >> /\ left[1][1] = what
Block    == left[1][2]
SameChain     == UNCHANGED <<chain, pre58, order, kvnum, rewritten>>
SameDump      == UNCHANGED <<kvsize, dumped>>
NextStep  == left' = Tail(left) /\ UNCHANGED <<phase, retval>>

Got ==
  /\ Doing("get") /\ MayGet(Block)
  /\ Block = "obj" => held["cache"] = 1
  /\ NextStep
  /\ held' = [held EXCEPT ![Block] = @ + Size(Block)]
  /\ kvsize' = IF Block = "kv" THEN kvnum ELSE kvsize
  /\ UNCHANGED <<numpg, walked, dumped, missed>> /\ SameChain

\* Allocation fails, and module_init is on its way to -ENOMEM ...
Failed ==
  /\ Doing("get") /\ Block \notin Unseen
  /\ Block = "obj" => held["cache"] = 1
  /\ phase' = "unwind" /\ retval' = -1 /\ left' = Unwind(Block)
  /\ UNCHANGED <<held, numpg, walked, missed>> /\ SameDump /\ SameChain

\* ... or goes on.
FailedUnseen ==
  /\ Doing("get") /\ Block \in Unseen
  /\ NextStep /\ missed' = TRUE
  /\ UNCHANGED <<held, numpg, walked>> /\ SameDump /\ SameChain

Lost == /\ phase' = "oops"
        /\ UNCHANGED <<left, held, numpg, walked, retval, missed>> /\ SameDump /\ SameChain

\* A cache that is not there, a structure that is not, the dump of what
\* kvmalloc(0) returned, read-only memory, the address NULL was turned into, an
\* order no block has.
Faults ==
  /\ \/ Doing("get") /\ Block = "obj" /\ held["cache"] = 0
     \/ Doing("use") /\ held[Block] = 0
     \/ Doing("dump") /\ kvsize = 0
     \/ Doing("write")
     \/ Doing("put") /\ Block = "gptr2" /\ ~OrderOK
     \/ Doing("put") /\ Block = "gptr5" /\ held[Block] = 0
  /\ Lost

\* As many bytes are dumped whatever kv has: in too small a block the rest are
\* its neighbour's.
Used ==
  /\ \/ Doing("use") /\ held[Block] = 1 /\ UNCHANGED dumped
     \/ Doing("dump") /\ kvsize # 0 /\ dumped' = KVN_MIN_BYTES
  /\ NextStep
  /\ UNCHANGED <<held, numpg, walked, kvsize, missed>> /\ SameChain

GiveBack ==
  /\ Doing("put") /\ (Block = "gptr2" => OrderOK)
  /\ NextStep
  /\ held' = [held EXCEPT ![Block] = @ - Freed(Block)]
  /\ UNCHANGED <<numpg, walked, missed>> /\ SameDump /\ SameChain

CountPages ==
  /\ Doing("powerof") /\ numpg' = powerof(2, order)
  /\ NextStep
  /\ UNCHANGED <<held, walked, missed>> /\ SameDump /\ SameChain

\* The linear map is contiguous: the walk never stops before the last page.
ShowPhyPages ==
  /\ Doing("show") /\ walked' = numpg
  /\ NextStep
  /\ UNCHANGED <<held, numpg, missed>> /\ SameDump /\ SameChain

CheckKvnum ==
  /\ Doing("check")
  /\ IF kvnum >= KVN_MIN_BYTES THEN NextStep
     ELSE phase' = "unwind" /\ left' = << >> /\ retval' = -1
  /\ UNCHANGED <<held, numpg, walked, missed>> /\ SameDump /\ SameChain

Finished ==
  /\ left = << >> /\ phase \in {"init", "unwind", "exit"}
  /\ phase' = IF phase = "init" THEN "live" ELSE "out"
  /\ UNCHANGED <<left, held, numpg, walked, retval, missed>> /\ SameDump /\ SameChain

ChainRemove ==
  /\ phase = "live" /\ phase' = "exit" /\ left' = ExitSteps[chain]
  /\ UNCHANGED <<held, numpg, walked, retval, missed>> /\ SameDump /\ SameChain

\* Root writes the parameter of the module that is in.
SetOrder ==
  /\ chain = "lowlevel" /\ phase \notin {"out", "oops"}
  /\ order' \in Orders \ {order} /\ rewritten' = TRUE
  /\ UNCHANGED <<chain, pre58, kvnum, phase, left, held, numpg, walked, retval, missed>>
  /\ SameDump

SetKvnum ==
  /\ chain = "vmalloc" /\ phase \notin {"out", "oops"}
  /\ kvnum' \in KvNums \ {kvnum} /\ rewritten' = TRUE
  /\ UNCHANGED <<chain, pre58, order, phase, left, held, numpg, walked, retval, missed>>
  /\ SameDump

ChainStep ==
  /\ phase # "oops"
  /\ \/ Got \/ Failed \/ FailedUnseen \/ Faults \/ Used \/ GiveBack
     \/ CountPages \/ ShowPhyPages \/ CheckKvnum \/ Finished

ChainNext == ChainInsert \/ ChainStep \/ ChainRemove \/ SetOrder \/ SetKvnum

-----------------------------------------------------------------------------
\* When a module is out, after a failed module_init or after module_exit, all it
\* was given has gone back, and no more: except for lowlevel_mem's block 5, of
\* which 24 of 32 pages stay or which the exit frees without having it, a block
\* whose order has been rewritten since, and slab_custom's cache when its only
\* object could not be allocated.
NothingHeld ==
  phase = "out" => \A b \in Blocks : held[b] # 0 =>
    \/ b = "gptr5" /\ retval = 0 /\ held[b] \in {24, -8}
    \/ b = "gptr2" /\ rewritten
    \/ b = "cache" /\ retval # 0

\* What the modules touch they hold.  show_phy_pages() walks the block that was
\* allocated and no page beyond it, although the number of pages and the order are
\* taken at different times; the dump of kv stays inside kv, although kvnum is
\* tested when insmod begins and read again when kv is allocated: both as long as
\* nobody writes the parameter in between.  And while no parameter is written and no
\* unseen allocation fails, neither module_init nor module_exit ever faults, but for
\* the write to read-only memory that WR2ROMEM_BUG asks for.
TouchesHeld ==
  /\ phase \in {"init", "live"} /\ walked > 0 /\ ~rewritten => walked = held["gptr2"]
  /\ dumped > 0 /\ ~rewritten => dumped <= kvsize
  /\ phase = "oops" => rewritten \/ missed \/ Doing("write")
=============================================================================
