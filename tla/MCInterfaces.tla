---------------------------- MODULE MCInterfaces ----------------------------
(* A small instance of Interfaces. *)
EXTENDS Interfaces, TLC

CONSTANTS p1, p2

MCProcs == {p1, p2}

\* Below the range, in it, and above it.
MCValues == {-1, 0, 2, 3}
=============================================================================
