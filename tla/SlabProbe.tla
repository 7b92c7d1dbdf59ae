------------------------------ MODULE SlabProbe ------------------------------
(***************************************************************************)
(* ch8/slab_maxsize and ch8/slab_graphwaste, whose module_init allocates   *)
(* and frees ever larger blocks until an allocation fails; it always fails *)
(* itself, with -ENOMEM.  They differ in what they print.                  *)
(***************************************************************************)
EXTENDS Integers

CONSTANTS
  StepSizes,  \* values of the parameter `stepsz'
  KMALLOC_MAX, \* the largest block kmalloc() may return
  SizeMod     \* 2^64, at which a size_t wraps

START == 20

ASSUME ProbeAssumption ==
  /\ StepSizes \subseteq Int /\ StepSizes # {}
  /\ KMALLOC_MAX \in Nat /\ SizeMod \in Nat /\ START < SizeMod
  /\ \A s \in StepSizes : KMALLOC_MAX + s < SizeMod

VARIABLES
  probe,      \* "out", "alloc", "report" (it has a block) or "oops"
  stepsz,     \* the parameter
  size2alloc, \* the size to try
  growing     \* history: stepsz has been positive since insmod

probevars == <<probe, stepsz, size2alloc, growing>>

ProbeTypeOK ==
  /\ probe \in {"out", "alloc", "report", "oops"}
  /\ stepsz \in StepSizes /\ size2alloc \in 0..SizeMod-1
  /\ growing \in BOOLEAN

ProbeInit ==
  /\ probe = "out" /\ stepsz = (CHOOSE s \in StepSizes : TRUE)
  /\ size2alloc = START /\ growing = TRUE

ProbeInsert ==
  /\ probe = "out" /\ probe' = "alloc"
  /\ stepsz' \in StepSizes /\ growing' = (stepsz' > 0)
  /\ size2alloc' = START

Kmalloc ==
  /\ probe = "alloc" /\ size2alloc <= KMALLOC_MAX
  /\ probe' = "report"
  /\ UNCHANGED <<stepsz, size2alloc, growing>>

KmallocFails ==
  /\ probe = "alloc" /\ probe' = "out"
  /\ UNCHANGED <<stepsz, size2alloc, growing>>

\* Mutant: the next block is as large as this one.
Report_Same ==
  /\ probe = "report" /\ size2alloc # 0
  /\ probe' = "alloc"
  /\ UNCHANGED <<stepsz, size2alloc, growing>>

\* The waste in percent of the size is printed, the block is freed, and the
\* int is added to the size_t.
Report ==
  /\ probe = "report" /\ size2alloc # 0
  /\ probe' = "alloc"
  /\ size2alloc' = (size2alloc + stepsz) % SizeMod
  /\ UNCHANGED <<stepsz, growing>>

\* kmalloc(0) succeeds, and its percentage is a division by 0.
DivideByZero ==
  /\ probe = "report" /\ size2alloc = 0
  /\ probe' = "oops"
  /\ UNCHANGED <<stepsz, size2alloc, growing>>

\* Root writes the parameter while the loop is running.
SetStepsz ==
  /\ probe \in {"alloc", "report"}
  /\ stepsz' \in StepSizes \ {stepsz}
  /\ growing' = (growing /\ stepsz' > 0)
  /\ UNCHANGED <<probe, size2alloc>>

Loop == Kmalloc \/ KmallocFails \/ Report \/ DivideByZero
ProbeNext == ProbeInsert \/ Loop \/ SetStepsz

-----------------------------------------------------------------------------
\* As long as the step is positive, insmod returns: the size reaches what
\* kmalloc() refuses before it can wrap around, and is never 0 when it divides.
ProbeReturns == (probe = "alloc") ~> (probe = "out" \/ ~growing)
=============================================================================
