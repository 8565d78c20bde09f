---------------------------- MODULE MCNamespace -----------------------------
(***************************************************************************)
(* Two namespaces, one the other's parent.  3 and 11 have the same home in *)
(* tables of 4 and of 8 slots, the last slot of the first, and 2 is in     *)
(* nobody's way.  In one table of 8 slots, 7 and 15 have the last slot for *)
(* their home, and the others are there to fill it.                        *)
(***************************************************************************)
EXTENDS Namespace, TLC

MCIds == 2 :> {0, 1} @@ 3 :> {1, 2} @@ 11 :> {1}
DeletedIds == 3 :> {0, 1} @@ 11 :> {1}
CopyIds == 7 :> {0, 1} @@ 15 :> {1, 2} @@ 2 :> {1} @@ 3 :> {1}
MCParent == <<0, 1>>
OneSpace == <<0>>
=============================================================================
