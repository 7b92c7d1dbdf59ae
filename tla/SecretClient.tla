---------------------------- MODULE SecretClient ----------------------------
(***************************************************************************)
(* ch14/miscdrv_rdwr/rdwr_test_secret, the user program of the misc        *)
(* drivers: one read or one write of the secret per run.  A text is its    *)
(* length.  The driver's methods are one step each here and are taken      *)
(* apart in PlainDriver.                                                   *)
(***************************************************************************)
EXTENDS Integers

CONSTANTS
  Users,    \* processes that run the program
  MAXBYTES, \* the same in the program and the driver
  TextMax   \* bound on the length of argv[3]

ASSUME SecretAssumption == MAXBYTES \in Nat \ {0} /\ TextMax \in Nat

VARIABLES
  at_main,  \* at_main[p]: the call p makes next, "none" if it is not running
  opt, argv3,  \* opt[p], argv3[p]: its arguments
  stored    \* strnlen of the driver's oursecret

clientvars == <<at_main, opt, argv3, stored>>

ClientTypeOK ==
  /\ at_main \in [Users -> {"none", "open", "malloc", "call"}]
  /\ opt \in [Users -> {"r", "w"}] /\ argv3 \in [Users -> 0..TextMax]
  /\ stored \in 0..MAXBYTES-1

\* The driver's module_init puts a first message there.
ClientInit ==
  /\ at_main = [p \in Users |-> "none"]
  /\ opt = [p \in Users |-> "r"] /\ argv3 = [p \in Users |-> 0]
  /\ stored = MAXBYTES - 1

Least(a, b) == IF a < b THEN a ELSE b
strnlen(text) == Least(text, MAXBYTES)

\* What it takes for too big a secret is never so, since strnlen() counts no
\* further than MAXBYTES: a text of any length is taken.
TooBig(text) == strnlen(text) > MAXBYTES

CallOf(p, from, to) == at_main[p] = from /\ at_main' = [at_main EXCEPT ![p] = to]

Main(p) ==
  /\ CallOf(p, "none", "open")
  /\ \E o \in {"r", "w"}, text \in 0..TextMax :
       /\ ~(o = "w" /\ TooBig(text))
       /\ opt' = [opt EXCEPT ![p] = o]
       /\ argv3' = [argv3 EXCEPT ![p] = IF o = "w" THEN text ELSE 0]
  /\ UNCHANGED stored

OpenDevice(p) == CallOf(p, "open", "malloc") /\ UNCHANGED <<opt, argv3, stored>>
Malloc(p) == CallOf(p, "malloc", "call") /\ UNCHANGED <<opt, argv3, stored>>

\* open(), malloc(), read() or write() fails, and the program says so and exits.
MainFails(p) ==
  /\ CallOf(p, "open", "none") \/ CallOf(p, "malloc", "none") \/ CallOf(p, "call", "none")
  /\ UNCHANGED <<opt, argv3, stored>>

\* How many bytes are written, and how large the buffer is: one for the NUL, unless
\* the text leaves no room for it.
NumBytes(p) == Least(strnlen(argv3[p]) + 1, MAXBYTES)

\* A read asks for MAXBYTES, the fewest the driver serves; it refuses when the
\* secret is empty.
ReadSecret(p) ==
  /\ opt[p] = "r" /\ stored > 0
  /\ CallOf(p, "call", "none")
  /\ UNCHANGED <<opt, argv3, stored>>

\* strncpy() leaves no NUL when the text fills the buffer; the driver's strlcpy()
\* keeps one character fewer than it is sent, and looks for the NUL beyond them.
WriteSecret(p) ==
  /\ opt[p] = "w" /\ CallOf(p, "call", "none")
  /\ stored' = IF NumBytes(p) = 0 THEN stored ELSE Least(argv3[p], NumBytes(p) - 1)
  /\ UNCHANGED <<opt, argv3>>

ClientNext == \E p \in Users :
  \/ Main(p) \/ OpenDevice(p) \/ Malloc(p) \/ MainFails(p)
  \/ ReadSecret(p) \/ WriteSecret(p)
=============================================================================
