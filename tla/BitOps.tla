------------------------------- MODULE BitOps -------------------------------
(***************************************************************************)
(* ch13/1_rmw_atomic_bitops: module_init sets the most significant bit of  *)
(* a byte with set_bit() and then once more by a read-modify-write under a *)
(* spinlock, and tries the other bit operations.  A word is the set of the *)
(* bits that are 1 in it.                                                  *)
(***************************************************************************)
EXTENDS Integers, Sequences

CONSTANT BITS_PER_LONG

ASSUME WordAssumption == BITS_PER_LONG \in Nat /\ BITS_PER_LONG > 8

VARIABLES
  bits,  \* the step of module_init: 0 when the module is out
  mem    \* the word

bitvars == <<bits, mem>>

Byte == 0..7
Word == 0..BITS_PER_LONG-1

\* Mutant: the number of bits instead of that of the last of them.
MSB_OffByOne == 8

MSB == 8 - 1

Change(b) == IF b \in mem THEN mem \ {b} ELSE mem \cup {b}

\* What each step leaves in mem; at the second, the word goes through a u8 to
\* which 0x80 is added.
After == << mem \cup {MSB}, (mem \cap Byte) \cup {7}, mem \ {MSB}, Change(MSB),
            mem \cup {0}, mem \ {0}, Change(1) >>

BitTypeOK == bits \in 0..Len(After)+1 /\ mem \subseteq Word

BitInit == bits = 0 /\ mem = {}

BitInsert == bits = 0 /\ bits' = 1 /\ mem' = {}

BitStep ==
  /\ bits \in DOMAIN After
  /\ mem' = After[bits] /\ bits' = bits + 1

BitRemove == bits = Len(After) + 1 /\ bits' = 0 /\ mem' = {}

BitNext == BitInsert \/ BitStep \/ BitRemove

-----------------------------------------------------------------------------
\* The traditional way leaves the word as set_bit() has left it: that it goes
\* through a u8 loses nothing here.
SameEitherWay == [][bits = 2 /\ BitStep => mem' = mem]_bitvars
=============================================================================
