--------------------------- MODULE MCMutexDriver ---------------------------
(* Small instances of MutexDriver. *)
EXTENDS MutexDriver, TLC

CONSTANTS p1, p2, boot, x, y

MCProcs == {p1, p2}
MCTexts == {boot, x, y}

\* MAXBYTES is 4: a text written without its NUL, which loses a character,
\* one longer than the device holds, and an empty write.
MCBufs == { [text |-> x, chars |-> 2, count |-> 2],
            [text |-> y, chars |-> 5, count |-> 5] }
MCBufsEdge == MCBufs \cup {[text |-> y, chars |-> 0, count |-> 0]}
MCReadCounts == {3, 4}
=============================================================================
