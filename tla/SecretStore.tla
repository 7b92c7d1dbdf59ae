---------------------------- MODULE SecretStore ----------------------------
(***************************************************************************)
(* What the misc driver of ch12/1 promises its users: one secret, replaced *)
(* as a unit, and read as a unit but for its length.  A read takes its     *)
(* bytes of the secret of one moment, as many as the secret of an earlier  *)
(* moment of the same read was long.                                       *)
(***************************************************************************)
EXTENDS Naturals

CONSTANTS
  Procs,    \* the users
  Strings,  \* what may be stored: [text, len]
  Empty,    \* the empty string
  Fresh     \* what a freshly inserted driver may hold

VARIABLES
  store,    \* the secret
  measured, \* how many bytes each user is to get, 0 before that is known
  result    \* what each user has got

\* The first n bytes of s, in the two halves of the user's buffer.
Half(s, n)  == [text |-> s.text, len |-> s.len, n |-> n]
Bytes(s, n) == [copy |-> [head |-> Half(s, n), tail |-> Half(s, n)], count |-> n]
NoResult == Bytes(Empty, 0)

Init == /\ store = Empty
        /\ measured = [p \in Procs |-> 0]
        /\ result = [p \in Procs |-> NoResult]

\* The driver is inserted, or given its first secret.
Start == store' \in Fresh /\ UNCHANGED <<measured, result>>

\* Some user sets the secret.
Put == store' \in Strings /\ UNCHANGED <<measured, result>>

\* A user's read begins with the length of a secret that is not empty.
Measure(p) == /\ measured[p] = 0 /\ store.len > 0
              /\ measured' = [measured EXCEPT ![p] = store.len]
              /\ UNCHANGED <<store, result>>

\* It ends with that many bytes of what is stored at that moment.
Get(p) == /\ measured[p] > 0 /\ result[p] = NoResult
          /\ result' = [result EXCEPT ![p] = Bytes(store, measured[p])]
          /\ UNCHANGED <<store, measured>>

Forget(p) == /\ measured' = [measured EXCEPT ![p] = 0]
             /\ result' = [result EXCEPT ![p] = NoResult]
             /\ UNCHANGED store

Next == Start \/ Put \/ \E p \in Procs : Measure(p) \/ Get(p) \/ Forget(p)

Spec == Init /\ [][Next]_<<store, measured, result>>
=============================================================================
