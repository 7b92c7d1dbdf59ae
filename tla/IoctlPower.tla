----------------------------- MODULE IoctlPower -----------------------------
(***************************************************************************)
(* ch15/ioctl_intf: a driver that keeps the power state of an imagined     *)
(* device, and the client program, of which several may run: it resets the *)
(* device, asks for the state and sets the opposite one.                   *)
(***************************************************************************)
EXTENDS Integers, FiniteSets

CONSTANTS
  Clients,   \* processes that run the client
  Admins     \* those of them with CAP_SYS_ADMIN

ASSUME ClientsAssumption == IsFiniteSet(Clients) /\ Admins \subseteq Clients

VARIABLES
  chrdev,   \* the major is registered
  power,    \* the driver's static
  at_ioctl, \* at_ioctl[p]: the ioctl the client makes next
  seen,     \* seen[p]: its local `power'
  flips,    \* history: the states set since insmod, modulo 2
  fresh,    \* fresh[p]: history: none of them since p asked
  raced     \* history: a client has set a state without being fresh

powervars == <<chrdev, power, at_ioctl, seen, flips, fresh, raced>>

PowerTypeOK ==
  /\ chrdev \in BOOLEAN /\ power \in {0, 1}
  /\ at_ioctl \in [Clients -> {"none", "reset", "query", "toggle", "stale"}]
  /\ seen \in [Clients -> {0, 1}]
  /\ flips \in {0, 1} /\ fresh \in [Clients -> BOOLEAN] /\ raced \in BOOLEAN

PowerInit ==
  /\ chrdev = FALSE /\ power = 1
  /\ at_ioctl = [p \in Clients |-> "none"] /\ seen = [p \in Clients |-> 0]
  /\ flips = 0 /\ fresh = [p \in Clients |-> FALSE] /\ raced = FALSE

\* register_chrdev(); when it fails all is as before.
Register ==
  /\ ~chrdev /\ chrdev' = TRUE
  /\ power' = 1 /\ flips' = 0 /\ raced' = FALSE
  /\ UNCHANGED <<at_ioctl, seen, fresh>>

\* rmmod does not wait for open descriptors, as no fops has an .owner: whatever
\* a client does next with its own is done by code that is gone.
Unregister ==
  /\ chrdev /\ chrdev' = FALSE
  /\ at_ioctl' = [p \in Clients |-> IF at_ioctl[p] = "none" THEN "none" ELSE "stale"]
  /\ UNCHANGED <<power, seen, flips, fresh, raced>>

NextIoctl(p, from, to) == at_ioctl[p] = from /\ at_ioctl' = [at_ioctl EXCEPT ![p] = to]

\* Minor 0; an open of another minor fails and the client exits.
OpenMinor(p) ==
  /\ chrdev /\ NextIoctl(p, "none", "reset")
  /\ UNCHANGED <<chrdev, power, seen, flips, fresh, raced>>

\* IOCTL_LLKD_IOCRESET does nothing so far.
IocReset(p) ==
  /\ NextIoctl(p, "reset", "query")
  /\ UNCHANGED <<chrdev, power, seen, flips, fresh, raced>>

IocQPower(p) ==
  /\ p \in Admins /\ NextIoctl(p, "query", "toggle")
  /\ seen' = [seen EXCEPT ![p] = power]
  /\ fresh' = [fresh EXCEPT ![p] = TRUE]
  /\ UNCHANGED <<chrdev, power, flips, raced>>

\* -EPERM, and the client closes and exits.
IocRefused(p) ==
  /\ p \notin Admins /\ NextIoctl(p, "query", "none")
  /\ UNCHANGED <<chrdev, power, seen, flips, fresh, raced>>

\* Mutant: the client powers the device on whatever it has read.
Opposite_AlwaysOn(p) == 1

Opposite(p) == IF seen[p] = 0 THEN 1 ELSE 0

\* At once, or 3 s later if the device was on.
IocSPower(p) ==
  /\ NextIoctl(p, "toggle", "none")
  /\ power' = Opposite(p)
  /\ flips' = (flips + 1) % 2
  /\ raced' = (raced \/ ~fresh[p])
  /\ fresh' = [q \in Clients |-> FALSE]
  /\ UNCHANGED <<chrdev, seen>>

PowerNext ==
  \/ Register \/ Unregister
  \/ \E p \in Clients :
       OpenMinor(p) \/ IocReset(p) \/ IocQPower(p) \/ IocRefused(p) \/ IocSPower(p)

-----------------------------------------------------------------------------
\* As long as no client sets a state that another has set since it asked, none
\* of the toggles is lost: the device is on exactly after an even number of them.
\* No lock makes it so; the driver's query and set are two calls.
SerialToggles == chrdev /\ ~raced => power = (1 + flips) % 2
=============================================================================
