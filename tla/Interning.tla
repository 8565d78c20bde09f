----------------------------- MODULE Interning ------------------------------
(***************************************************************************)
(* What the generator and the machine expect of include/gilia/strset.h:    *)
(* each string has a number, the first one 1 and each new one the next,    *)
(* and keeps it.  gil_gen_string relies on the numbers having no gaps (it  *)
(* uses them as indices), and the generator and the machine on the same    *)
(* strings, put in the same order, having the same numbers.                *)
(***************************************************************************)
EXTENDS Integers, FiniteSets

CONSTANT Strings

VARIABLES numbers,     \* the number of each string that has been put
          answer       \* what the last operation returned

vars == <<numbers, answer>>

Known == DOMAIN numbers

Init ==
  /\ numbers = [s \in {} |-> 0]
  /\ answer = 0

\* gil_strset_put and gil_strset_put_copy
Put(s) ==
  /\ answer' = IF s \in Known THEN numbers[s] ELSE Cardinality(Known) + 1
  /\ numbers' = [t \in Known \cup {s} |-> IF t = s THEN answer' ELSE numbers[t]]

\* gil_strset_get
Get(s) ==
  /\ answer' = IF s \in Known THEN numbers[s] ELSE 0
  /\ UNCHANGED numbers

Next == \E s \in Strings : Put(s) \/ Get(s)

Spec == Init /\ [][Next]_vars
=============================================================================
