----------------------------- MODULE CharStream -----------------------------
(***************************************************************************)
(* What a user of include/gilia/io.h's buffered reader counts on: the       *)
(* characters of a text come one by one, the next ones can be looked at     *)
(* before they are taken, and after the last one comes EOF for ever.        *)
(* Nothing here knows that the text arrives in pieces.                      *)
(***************************************************************************)
EXTENDS Integers, Sequences

CONSTANTS Chars,     \* the characters
          MaxPeek,   \* how far ahead a user looks
          EOF        \* not a character

VARIABLES text,      \* the text that is read
          taken,     \* how many of its characters have been taken
          looked,    \* how many of the next ones have been looked at
          answer     \* what the last call returned

vars == <<text, taken, looked, answer>>

At(n) == IF n \in DOMAIN text THEN text[n] ELSE EOF

Init ==
  /\ text \in Seq(Chars)
  /\ taken = 0 /\ looked = 0 /\ answer = EOF

\* One character further than the user has looked already, or less far.
Peek(n) ==
  /\ n <= looked + 1
  /\ answer' = At(taken + n)
  /\ looked' = IF n > looked THEN n ELSE looked
  /\ UNCHANGED <<text, taken>>

Get ==
  /\ answer' = At(taken + 1)
  /\ taken' = IF taken < Len(text) THEN taken + 1 ELSE taken
  /\ looked' = IF looked = 0 THEN 0 ELSE looked - 1
  /\ UNCHANGED text

Next == Get \/ \E n \in 1 .. MaxPeek : Peek(n)

Spec == Init /\ [][Next]_vars
=============================================================================
