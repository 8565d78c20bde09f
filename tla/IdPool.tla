------------------------------- MODULE IdPool -------------------------------
(***************************************************************************)
(* What the virtual machine expects of its value-id allocator              *)
(* (include/gilia/bitset.h): a pool that hands out natural numbers nobody  *)
(* holds, takes them back one at a time, and can be walked in ascending    *)
(* order from a given id while the walk itself gives back the ids it has   *)
(* just visited.  gil_vm's alloc_val, gc_free and gc_sweep use the pool in *)
(* exactly this way; the module Bitset shows that the two-level bitmap of  *)
(* lib/bitset.c implements it.                                             *)
(***************************************************************************)
EXTENDS Integers

CONSTANT NoId          \* "no id has been returned": not a natural number

VARIABLES used,        \* the ids currently handed out
          walking,     \* a walk is in progress
          start,       \* the id it started from
          pending,     \* the ids the walk still has to visit
          last         \* the id the last operation returned

vars == <<used, walking, start, pending, last>>

Least(S) == CHOOSE n \in S : \A m \in S : n <= m

Init ==
  /\ used = {}
  /\ walking = FALSE
  /\ start = 0
  /\ pending = {}
  /\ last = NoId

\* Hand out any id that is not in use.
Take ==
  /\ ~walking
  /\ last' \in Nat
  /\ last' \notin used
  /\ used' = used \cup {last'}
  /\ UNCHANGED <<walking, start, pending>>

\* Take back an id.  A walk may only give back the id it stands on.
Release ==
  /\ used' \subseteq used
  /\ walking => used \ used' \subseteq {last}
  /\ UNCHANGED <<walking, start, pending, last>>

Begin ==
  /\ ~walking
  /\ walking' = TRUE
  /\ start' \in Nat
  /\ pending' = {id \in used : id >= start'}
  /\ last' = NoId
  /\ UNCHANGED used

Visit ==
  /\ walking
  /\ pending # {}
  /\ last' = Least(pending)
  /\ pending' = pending \ {last'}
  /\ UNCHANGED <<used, walking, start>>

End ==
  /\ walking
  /\ pending = {}
  /\ walking' = FALSE
  /\ start' = 0
  /\ UNCHANGED <<used, pending, last>>

Next == Take \/ Release \/ Begin \/ Visit \/ End

Spec == Init /\ [][Next]_vars
=============================================================================
