--------------------------- MODULE MCPlainDriver ---------------------------
(* A small instance of PlainDriver. *)
EXTENDS PlainDriver, TLC

CONSTANTS p1, p2, a, b

MCProcs == {p1, p2}
MCChars == {a, b}
MCInitMsg == <<a>>

\* MAXBYTES is 3: a full buffer with and without its NUL, one too long, and an
\* empty one.
MCBuffers == { <<b, b, NUL>>, <<b, a, b>>, <<a, NUL>>, <<a, a, a, NUL>>, << >> }
MCReadCounts == {2, 3}
=============================================================================
