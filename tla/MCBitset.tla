------------------------------ MODULE MCBitset ------------------------------
(***************************************************************************)
(* Bitset on words of two bits: a table holds two ids, a directory two     *)
(* tables.                                                                 *)
(***************************************************************************)
EXTENDS Bitset
=============================================================================
