---------------------------- MODULE MCRefcountDriver --------------------------
(* Small instances of RefcountDriver. *)
EXTENDS RefcountDriver, TLC

CONSTANTS p1, p2, boot, x, y

MCProcs == {p1, p2}
MCTexts == {boot, x, y}

\* MAXBYTES is 4; the text loses a character, written without its NUL.
MCBufs == {[text |-> x, chars |-> 2, count |-> 2]}
\* REFCOUNT_SATURATED is INT_MIN / 2.
MCSaturated == -100
MCReadCounts == {3, 4}
=============================================================================
