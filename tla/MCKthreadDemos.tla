--------------------------- MODULE MCKthreadDemos ---------------------------
(* A small instance of KthreadDemos. *)
EXTENDS KthreadDemos, TLC

\* The two values the code tests for, and one it does not know.
MCOooValues == {0, 1, 2}
=============================================================================
