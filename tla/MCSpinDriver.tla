---------------------------- MODULE MCSpinDriver ----------------------------
(* Small instances of SpinDriver. *)
EXTENDS SpinDriver, TLC

CONSTANTS p1, p2, boot, x, y

MCProcs == {p1, p2}
MCTexts == {boot, x, y}

\* MAXBYTES is 4: one text longer than the device holds, and one that,
\* written without its NUL, loses the only character it has.
MCBufs == { [text |-> y, chars |-> 5, count |-> 5],
            [text |-> x, chars |-> 1, count |-> 1] }
MCReadCounts == {4}
=============================================================================
