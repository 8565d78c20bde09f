---------------------------- MODULE MCStringSet -----------------------------
(***************************************************************************)
(* Six strings and tables that begin with two slots: the second table is   *)
(* 3/4 full before it is doubled, the third one gets as full.  Homes       *)
(* collide in every table, and the last slot of each is one of them.       *)
(***************************************************************************)
EXTENDS StringSet

MCStrings == 1 .. 6
MCHash == <<0, 0, 1, 3, 7, 7>>
MCNull == 0
=============================================================================
