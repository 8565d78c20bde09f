--------------------------------- MODULE Gc ---------------------------------
(***************************************************************************)
(* The collector of lib/vm/vm.c (gil_vm_gc, gc_mark, gc_sweep), one call   *)
(* of gc_mark and one turn of gc_sweep's loop at a time, between the steps *)
(* of a program that allocates values, keeps them and lets go of them.     *)
(* Module Vm collects in one step and marks without a limit; here are the  *)
(* recursion and its limit, the marks, which outlive a collection on the   *)
(* constants, and the sweep that clears them as it frees.                  *)
(***************************************************************************)
EXTENDS Integers, Sequences, FiniteSets

CONSTANTS GcStart,    \* the ids below it are constants: never freed (gc_start)
          MaxId,      \* bound: the machine holds no value above it
          Shapes,     \* <<type, how many ids>> of the values that are made
          MaxRoots,   \* bound: slots of stack and frames
          Limit       \* how deep gc_mark recurses, GIL_MAX_STACK_DEPTH (512)

Types == {"ARRAY", "NAMESPACE", "FUNCTION", "CFUNCTION", "CONTINUATION", "NONE"}

ASSUME GcAssumption ==
  /\ GcStart \in Nat \ {0} /\ MaxId \in Nat /\ GcStart <= MaxId
  /\ Shapes \subseteq Types \X Nat
  /\ MaxRoots \in Nat /\ Limit \in Nat

VARIABLES values,     \* id -> the value's type and the ids it holds, in order
          roots,      \* the ids in stack, fstack and modules, in order
          marked,     \* the ids whose value has GIL_VAL_MARKED
          calls,      \* the calls of gc_mark that are still to be made
          unswept,    \* the ids gc_sweep has still to visit
          phase,
          halted,
          cut         \* history: has a collection reached the limit?

vars == <<values, roots, marked, calls, unswept, phase, halted, cut>>
collector == <<marked, calls, unswept, phase, cut>>

-----------------------------------------------------------------------------

AllIds == 0 .. MaxId
Constants == 0 .. GcStart - 1
Used == DOMAIN values
Refs(id) == {values[id].refs[i] : i \in DOMAIN values[id].refs}

\* Mutant: the recursion through arrays is counted once more.
DeeperStill(v, i) == IF v.type = "ARRAY" THEN 3 ELSE 1

\* How much deeper the call for the i-th id is than the call for its value:
\* gc_mark_array, gc_mark_namespace and a continuation's marker count too.
Deeper(v, i) ==
  CASE v.type \in {"ARRAY", "NAMESPACE"} -> 2
    [] v.type = "CONTINUATION" /\ i \notin {1, Len(v.refs)} -> 2
    [] OTHER -> 1

\* Mutant: only the first id a value holds is followed.
FirstCall(v, depth) ==
  [i \in DOMAIN v.refs \cap {1} |->
     [id |-> v.refs[i], depth |-> depth + Deeper(v, i)]]

\* The calls gc_mark makes for a value, in order.
CallsFor(v, depth) ==
  [i \in DOMAIN v.refs |-> [id |-> v.refs[i], depth |-> depth + Deeper(v, i)]]

\* A set that holds the roots and, with a value, everything it refers to.
Closed(S) ==
  /\ \A i \in DOMAIN roots : roots[i] \in S
  /\ \A id \in S \cap Used : Refs(id) \subseteq S

Reachable == {id \in AllIds : \A S \in SUBSET AllIds : Closed(S) => id \in S}

\* What a program can name: what it can reach and the constants.
Nameable == Reachable \cup Constants

-----------------------------------------------------------------------------
(* The program, between two collections. *)

Running == phase = "run" /\ ~halted

\* alloc_val takes the lowest id that is free.
Alloc(shape) ==
  /\ Running
  /\ Len(roots) < MaxRoots
  /\ \E id \in AllIds \ Used, refs \in [1 .. shape[2] -> Nameable] :
       /\ \A free \in AllIds \ Used : id <= free
       /\ values' = [n \in Used \cup {id} |->
                       IF n = id THEN [type |-> shape[1], refs |-> refs]
                       ELSE values[n]]
       /\ roots' = Append(roots, id)
  /\ UNCHANGED <<collector, halted>>

Push ==
  /\ Running
  /\ Len(roots) < MaxRoots
  /\ \E id \in Nameable : roots' = Append(roots, id)
  /\ UNCHANGED <<values, collector, halted>>

Pop ==
  /\ Running
  /\ roots # <<>>
  /\ roots' = SubSeq(roots, 1, Len(roots) - 1)
  /\ UNCHANGED <<values, collector, halted>>

\* Arrays and namespaces are assigned to, and cycles come about.
Store ==
  /\ Running
  /\ \E id \in Reachable \cap Used, new \in Nameable :
       /\ values[id].type \in {"ARRAY", "NAMESPACE"}
       /\ \E i \in DOMAIN values[id].refs :
            values' = [values EXCEPT ![id].refs[i] = new]
  /\ UNCHANGED <<roots, collector, halted>>

Halt ==
  /\ Running
  /\ halted' = TRUE
  /\ UNCHANGED <<values, roots, collector>>

\* The REPL has another line to run.  The model ends when the limit was reached:
\* the sweep that follows frees values that are in use.
Resume ==
  /\ phase = "run" /\ halted /\ ~cut
  /\ halted' = FALSE
  /\ UNCHANGED <<values, roots, collector>>

-----------------------------------------------------------------------------
(* The collector. *)

\* gil_vm_gc, after any step or when the program has halted.
Begin ==
  /\ phase = "run" /\ ~cut
  /\ phase' = "mark"
  /\ calls' = [i \in DOMAIN roots |-> [id |-> roots[i], depth |-> 0]]
  /\ UNCHANGED <<values, roots, marked, unswept, halted, cut>>

\* gc_mark turns back here.
TooDeep(call) == call.depth > Limit

\* One call of gc_mark; those it makes come before those that are left.
Mark ==
  /\ phase = "mark" /\ calls # <<>>
  /\ LET call == Head(calls)
     IN \/ /\ call.id \in marked
           /\ calls' = Tail(calls)
           /\ UNCHANGED <<marked, halted, cut>>
        \/ /\ call.id \notin marked /\ TooDeep(call)
           /\ halted' = TRUE /\ cut' = TRUE
           /\ calls' = Tail(calls)
           /\ UNCHANGED marked
        \/ /\ call.id \notin marked /\ ~TooDeep(call)
           /\ marked' = marked \cup {call.id}
           /\ calls' = CallsFor(values[call.id], call.depth) \o Tail(calls)
           /\ UNCHANGED <<halted, cut>>
  /\ UNCHANGED <<values, roots, unswept, phase>>

\* Mutants: the sweep starts at 0; behind gc_start.
SweepsAll ==
  /\ phase = "mark" /\ calls = <<>>
  /\ phase' = "sweep"
  /\ unswept' = Used
  /\ UNCHANGED <<values, roots, marked, calls, halted, cut>>

SkipsFirst ==
  /\ phase = "mark" /\ calls = <<>>
  /\ phase' = "sweep"
  /\ unswept' = Used \ 0 .. GcStart
  /\ UNCHANGED <<values, roots, marked, calls, halted, cut>>

\* gc_sweep starts at gc_start.
StartSweep ==
  /\ phase = "mark" /\ calls = <<>>
  /\ phase' = "sweep"
  /\ unswept' = Used \ Constants
  /\ UNCHANGED <<values, roots, marked, calls, halted, cut>>

\* Mutant: the marks stay.
KeepsMarks ==
  /\ phase = "sweep"
  /\ \E id \in unswept :
       /\ \A other \in unswept : id <= other
       /\ unswept' = unswept \ {id}
       /\ values' = IF id \in marked THEN values
                    ELSE [n \in Used \ {id} |-> values[n]]
  /\ UNCHANGED <<marked, roots, calls, phase, halted, cut>>

\* A marked value loses its mark, one that is not is freed.
Sweep ==
  /\ phase = "sweep"
  /\ \E id \in unswept :
       /\ \A other \in unswept : id <= other
       /\ unswept' = unswept \ {id}
       /\ marked' = marked \ {id}
       /\ values' = IF id \in marked THEN values
                    ELSE [n \in Used \ {id} |-> values[n]]
  /\ UNCHANGED <<roots, calls, phase, halted, cut>>

End ==
  /\ phase = "sweep" /\ unswept = {}
  /\ phase' = "run"
  /\ UNCHANGED <<values, roots, marked, calls, unswept, halted, cut>>

\* The machine has halted at the limit.
Stopped == phase = "run" /\ cut /\ UNCHANGED vars

Init ==
  /\ values = [id \in Constants |-> [type |-> "NONE", refs |-> <<>>]]
  /\ roots = <<>>
  /\ marked = {} /\ calls = <<>> /\ unswept = {}
  /\ phase = "run"
  /\ halted = FALSE /\ cut = FALSE

Next ==
  \/ \E shape \in Shapes : Alloc(shape)
  \/ Push \/ Pop \/ Store \/ Halt \/ Resume
  \/ Begin \/ Mark \/ StartSweep \/ Sweep \/ End \/ Stopped

Spec == Init /\ [][Next]_vars

-----------------------------------------------------------------------------
(* Properties *)

TypeOK ==
  /\ Constants \subseteq Used /\ Used \subseteq AllIds
  /\ values \in [Used -> [type : Types, refs : Seq(AllIds)]]
  /\ roots \in Seq(AllIds)
  /\ marked \subseteq AllIds /\ unswept \subseteq AllIds
  /\ calls \in Seq([id : AllIds, depth : Nat])
  /\ phase \in {"run", "mark", "sweep"}
  /\ halted \in BOOLEAN /\ cut \in BOOLEAN

\* Nothing a program can still reach is freed, at any moment of any collection,
\* unless one has reached the limit (vm.c:74-81).
KeepsReachable == ~cut => Reachable \subseteq Used

\* No mark but a constant's is left when the program goes on: the next
\* collection would take the value's references for marked (vm.c:70, 172-177).
MarksCleared == phase = "run" => marked \subseteq Constants

\* README.md:187, "global mark+sweep": one collection frees everything that could
\* not be reached when it began, cycles and chains too.
FreesGarbage ==
  [][ phase = "sweep" /\ phase' = "run" /\ ~cut => Used = Nameable ]_vars

\* The limit is never met while there are few values: a value is no deeper than
\* two levels for each of the others.
LimitIsFar ==
  [][ cut' /\ ~cut => 2 * (Cardinality(Used) - 1) > Limit ]_vars
=============================================================================
