----------------------------- MODULE BufReader -----------------------------
(***************************************************************************)
(* struct gil_bufio_reader (include/gilia/io.h, lib/io.c): a buffer of      *)
(* Size characters in front of a read function that is asked for as many    *)
(* as there is room for and returns some of them: at least one unless the   *)
(* text is over.  A reader r is a record; the operators return the reader   *)
(* after the C function.  A character is never the byte 0xFF, which a       *)
(* signed char cannot tell from EOF.                                        *)
(***************************************************************************)
EXTENDS Integers, Sequences

CONSTANTS Chars,     \* the characters
          EOF,       \* not a character
          Size,      \* GIL_IO_BUFSIZ
          MaxPeek    \* how far ahead a user looks

ASSUME ReaderAssumption ==
  /\ EOF \notin Chars
  /\ Size \in Nat \ {0} /\ MaxPeek \in Nat /\ MaxPeek <= Size

\* given: how much of the text the read function has returned.
\* buf: the first len characters of the array.  idx: those already taken.
EmptyReader == [given |-> 0, buf |-> <<>>, idx |-> 0]

Buffered(r) == Len(r.buf) - r.idx
Taken(r) == r.given - Buffered(r)

\* What read may return when the reader asks for all it has room for.
Amounts(r, text) ==
  LET room == Size - Buffered(r)
      left == Len(text) - r.given
  IN {n \in 0 .. room : n <= left /\ (n = 0 => room = 0 \/ left = 0)}

\* Mutant: the characters that were taken stay in front.
ShiftKeepsTaken(r, text, n) ==
  [given |-> r.given + n,
   buf |-> r.buf \o SubSeq(text, r.given + 1, r.given + n), idx |-> 0]

\* gil_bufio_shift, when read returns n characters.
Shift(r, text, n) ==
  [given |-> r.given + n,
   buf |-> SubSeq(r.buf, r.idx + 1, Len(r.buf))
           \o SubSeq(text, r.given + 1, r.given + n),
   idx |-> 0]

\* gil_bufio_peek: the reader after it, and what it returns.
Look(r, text, count, n) ==
  IF Buffered(r) >= count THEN r ELSE Shift(r, text, n)

Seen(r, count) == IF Buffered(r) >= count THEN r.buf[r.idx + count] ELSE EOF

\* gil_bufio_get.
Take(r, text, n) ==
  LET q == Look(r, text, 1, n)
  IN IF Buffered(q) >= 1 THEN [q EXCEPT !.idx = @ + 1] ELSE q

-----------------------------------------------------------------------------
IsReader(r) ==
  /\ r = [given |-> r.given, buf |-> r.buf, idx |-> r.idx]
  /\ r.given \in Nat /\ r.buf \in Seq(Chars) /\ r.idx \in Nat

\* The buffer holds the part of the text between what has been taken and what
\* has been given (io.c:48-56: the shift keeps what was not taken, at the front,
\* and the read appends to it).
InStep(r, text) ==
  /\ r.given \in 0 .. Len(text) /\ r.idx \in 0 .. Len(r.buf)
  /\ Len(r.buf) <= Size /\ Buffered(r) <= r.given
  /\ \A k \in 1 .. Buffered(r) : r.buf[r.idx + k] = text[Taken(r) + k]
=============================================================================
