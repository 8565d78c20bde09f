------------------------------- MODULE Scopes -------------------------------
(***************************************************************************)
(* What the interpreter expects of include/gilia/vm/vm.h's                 *)
(* gil_vm_namespace functions: each namespace is a finite map from atoms   *)
(* to value ids, has at most one parent, and a key it does not bind is     *)
(* looked up in, and assigned in, the nearest ancestor that does.  Module  *)
(* Machine computes with namespaces in these terms; module Namespace shows *)
(* when the hash tables of lib/vm/namespace.c implement them.              *)
(***************************************************************************)
EXTENDS Integers

CONSTANTS Ids,         \* the value ids each key, an atom, is set to; 0 unbinds it
          Parent       \* a sequence: the parent of each namespace, 0 for none

VARIABLES maps,        \* each namespace's map
          answer       \* what the last operation returned

vars == <<maps, answer>>

Spaces == DOMAIN Parent
Keys == DOMAIN Ids

\* The map m with key bound to id, or unbound when id is 0.
Bind(m, key, id) ==
  [k \in (DOMAIN m \cup {key}) \ (IF id = 0 THEN {key} ELSE {}) |->
     IF k = key THEN id ELSE m[k]]

\* A namespace and its ancestors, who have lower numbers.
Line[s \in Spaces] == {s} \cup (IF Parent[s] = 0 THEN {} ELSE Line[Parent[s]])

\* The nearest namespace from ns on that binds key, 0 if there is none.
Owner(ns, key) ==
  LET own == {s \in Spaces : s \in Line[ns] /\ key \in DOMAIN maps[s]}
  IN IF own = {} THEN 0 ELSE CHOOSE s \in own : \A r \in own : r <= s

Init ==
  /\ maps = [s \in Spaces |-> [k \in {} |-> 0]]
  /\ answer = 0

\* gil_vm_namespace_get
Get(ns, key) ==
  /\ answer' = IF Owner(ns, key) = 0 THEN 0 ELSE maps[Owner(ns, key)][key]
  /\ UNCHANGED maps

\* gil_vm_namespace_set
Set(ns, key, id) ==
  /\ maps' = [maps EXCEPT ![ns] = Bind(@, key, id)]
  /\ answer' = 0

\* gil_vm_namespace_replace: -1 when there is nothing to replace.
Replace(ns, key, id) ==
  LET owner == IF id = 0 THEN ns ELSE Owner(ns, key)
  IN IF owner = 0 THEN answer' = -1 /\ UNCHANGED maps
     ELSE Set(owner, key, id)

Next ==
  \E ns \in Spaces, key \in Keys :
    \/ Get(ns, key)
    \/ \E id \in Ids[key] : Set(ns, key, id) \/ Replace(ns, key, id)

Spec == Init /\ [][Next]_vars
=============================================================================
