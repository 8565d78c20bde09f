-------------------------------- MODULE MCGc --------------------------------
(***************************************************************************)
(* Three values beside the constant: arrays of one, and continuations     *)
(* that hold a call, a value of their own and arguments.                  *)
(***************************************************************************)
EXTENDS Gc

MCShapes == {<<"ARRAY", 1>>, <<"CONTINUATION", 3>>}
=============================================================================
