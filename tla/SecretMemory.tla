---------------------------- MODULE SecretMemory ----------------------------
(***************************************************************************)
(* The data the misc drivers of ch12 and ch13 share: a buffer of MAXBYTES  *)
(* bytes holding the "secret", requests to read and write it, and what a   *)
(* call returns.  A string is a text (an identity, not characters) and a   *)
(* length; its memory is copied in two pieces, head and tail.              *)
(***************************************************************************)
EXTENDS Integers

CONSTANTS
  Texts,     \* texts a process may write (identities, not characters)
  InitMsg,   \* the text module_init stores, "initmsg"
  InitLen,   \* its length
  MAXBYTES,  \* size of ctx->oursecret
  Bufs,      \* write(2) requests: [text, chars, count], see BufType
  ReadCounts,\* the `count' arguments of read(2)
  IntMod     \* 2^w for the int counters tx and rx

\* A write: `count' bytes, of which the first `chars' come before any NUL.
BufType == [text : Texts, chars : Nat, count : Nat]

ASSUME SizeAssumption ==
  /\ MAXBYTES \in Nat \ {0}
  /\ IntMod \in Nat \ {0}
  /\ InitLen \in 0..MAXBYTES-1
ASSUME RequestAssumption ==
  /\ InitMsg \in Texts
  /\ Bufs \subseteq BufType
  /\ \A b \in Bufs : b.chars <= b.count
  /\ ReadCounts \subseteq Nat

String  == [text : Texts, len : 0..MAXBYTES-1]
Init0   == [text |-> InitMsg, len |-> 0]        \* kzalloc'ed: the empty string
Whole(s) == [head |-> s, tail |-> s]
Memory  == [head : String, tail : String]

\* copy_to_user() of n bytes of a piece of memory with `s' in it: a part of s if
\* n < s.len, and if n > s.len its NUL and what older secrets left behind that.
Copied(s, n) == [text |-> s.text, len |-> s.len, n |-> n]
Piece    == [text : Texts, len : 0..MAXBYTES-1, n : 0..MAXBYTES-1]
Received == [head : Piece, tail : Piece]
NoCopy   == Whole(Copied(Init0, 0))

\* strlen() of the memory: of the string, if it is whole.
StrLen(m) == {m.head.len, m.tail.len}

Smaller(a, b) == IF a <= b THEN a ELSE b

\* Mutant: the terminating NUL is not counted in the size.
Strscpy_NoRoomForNul(b) ==
  [text |-> b.text, len |-> Smaller(b.chars, Smaller(b.count, MAXBYTES))]

\* strscpy(oursecret, kbuf, min(count, MAXBYTES)): at most size-1 characters.
Strscpy(b) ==
  [text |-> b.text, len |-> Smaller(b.chars, Smaller(b.count, MAXBYTES) - 1)]

\* What a call returns: a count, or the kind of error.
Ret(kind, n) == [kind |-> kind, n |-> n]
Err(e)  == Ret(e, 0)
Nothing == Err("none")
Outcomes == [kind : {"opened", "closed", "read", "written", "none",
                     "EINVAL", "EFAULT", "ENOMEM"}, n : Nat]
NoReq == [text |-> InitMsg, chars |-> 0, count |-> 0]
=============================================================================
