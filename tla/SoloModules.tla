----------------------------- MODULE SoloModules -----------------------------
(***************************************************************************)
(* The modules that neither share a lock nor call each other.  A behaviour *)
(* is one of a single program, `kind', which is inserted and removed at    *)
(* will while all the others stay out of the kernel.                       *)
(***************************************************************************)
EXTENDS KthreadDemos, IoctlPower, NetlinkEcho, AllocChain, SlabProbe, BitOps,
        SecretClient

CONSTANT Kinds   \* which of the programs

ASSUME KindsAssumption ==
  Kinds \subseteq {"threads", "ioctl", "netlink", "alloc", "probe", "bits", "client"}

VARIABLE kind   \* the program of this behaviour

solovars == <<kind, vars, powervars, echovars, chainvars, probevars, bitvars, clientvars>>

SoloTypeOK ==
  /\ kind \in Kinds
  /\ TypeOK /\ PowerTypeOK /\ EchoTypeOK /\ ChainTypeOK
  /\ ProbeTypeOK /\ BitTypeOK /\ ClientTypeOK

\* What threads that are never started leave open.
OneStart ==
  /\ demo = (CHOOSE d \in Demos : TRUE)
  /\ cpu = (CHOOSE c \in [Threads -> Cpus] : TRUE)
  /\ lock_ooo = (CHOOSE v \in OooValues : TRUE)

SoloInit ==
  /\ kind \in Kinds
  /\ kind # "threads" => OneStart
  /\ Init /\ PowerInit /\ EchoInit /\ ChainInit /\ ProbeInit /\ BitInit /\ ClientInit

SoloNext ==
  /\ UNCHANGED kind
  /\ \/ /\ kind = "threads" /\ Next
        /\ UNCHANGED <<powervars, echovars, chainvars, probevars, bitvars, clientvars>>
     \/ /\ kind = "ioctl" /\ PowerNext
        /\ UNCHANGED <<vars, echovars, chainvars, probevars, bitvars, clientvars>>
     \/ /\ kind = "netlink" /\ EchoNext
        /\ UNCHANGED <<vars, powervars, chainvars, probevars, bitvars, clientvars>>
     \/ /\ kind = "alloc" /\ ChainNext
        /\ UNCHANGED <<vars, powervars, echovars, probevars, bitvars, clientvars>>
     \/ /\ kind = "probe" /\ ProbeNext
        /\ UNCHANGED <<vars, powervars, echovars, chainvars, bitvars, clientvars>>
     \/ /\ kind = "bits" /\ BitNext
        /\ UNCHANGED <<vars, powervars, echovars, chainvars, probevars, clientvars>>
     \/ /\ kind = "client" /\ ClientNext
        /\ UNCHANGED <<vars, powervars, echovars, chainvars, probevars, bitvars>>

\* insmod and rmmod run on; each thread has a processor and the spinlocks are
\* queued; a program that is not waiting goes on, in the kernel and out of it.
\* Nobody has to insert, remove, start or kill anything.
SoloSpec ==
  /\ SoloInit /\ [][SoloNext]_solovars
  /\ WF_vars(ModuleSteps)
  /\ \A t \in Threads : SF_vars(ThreadSteps(t))
  /\ \A p \in Senders : WF_echovars(SenderSteps(p))
  /\ WF_probevars(Loop)
=============================================================================
