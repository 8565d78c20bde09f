------------------------------- MODULE Reading -------------------------------
(***************************************************************************)
(* A user of the buffered reader of module BufReader: it peeks and gets in  *)
(* any order, but looks at the n-th character ahead only after the ones     *)
(* before it, as lib/parse/lex.c does (peek_ch_n(lexer, 2) always follows a *)
(* peek_ch of the character before).  Whatever amounts the reads return,    *)
(* it sees the text of module CharStream.  Its definitions have names of    *)
(* their own, for module SessionProofs extends it beside the session.       *)
(***************************************************************************)
EXTENDS BufReader

VARIABLES text, reader, looked, answer

readerVars == <<text, reader, looked, answer>>

Opened ==
  /\ text \in Seq(Chars)
  /\ reader = EmptyReader /\ looked = 0 /\ answer = EOF

Peek(count) ==
  /\ count <= looked + 1
  /\ \E n \in Amounts(reader, text) :
       LET r == Look(reader, text, count, n)
       IN reader' = r /\ answer' = Seen(r, count)
  /\ looked' = IF count > looked THEN count ELSE looked
  /\ UNCHANGED text

Get ==
  /\ \E n \in Amounts(reader, text) :
       LET r == Look(reader, text, 1, n)
       IN reader' = Take(reader, text, n) /\ answer' = Seen(r, 1)
  /\ looked' = IF looked = 0 THEN 0 ELSE looked - 1
  /\ UNCHANGED text

ReadingNext == Get \/ \E count \in 1 .. MaxPeek : Peek(count)

ReadingSpec == Opened /\ [][ReadingNext]_readerVars

-----------------------------------------------------------------------------
\* What was looked at is still in the buffer, unless the text is over.
Remembered == looked <= Buffered(reader) \/ reader.given = Len(text)

ReaderInv ==
  /\ text \in Seq(Chars) /\ looked \in 0 .. MaxPeek
  /\ IsReader(reader) /\ InStep(reader, text) /\ Remembered

\* Peeking and getting through the buffer is reading the text character by
\* character, however little each read returns (io.c:48-75, io.h:80-95).
Stream == INSTANCE CharStream WITH taken <- Taken(reader)
ImplementsStream == Stream!Spec
=============================================================================
