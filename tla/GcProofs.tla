------------------------------ MODULE GcProofs ------------------------------
(***************************************************************************)
(* The collector of module Gc is right for every number of values, of      *)
(* roots and of shapes, and for every limit of gc_mark's recursion.        *)
(*                                                                         *)
(* The argument is the one of a tri-colour collector: while the collector  *)
(* marks, everything a marked value refers to is marked or the subject of  *)
(* a call that is still to be made, so what is marked when no call is left *)
(* is closed; while it sweeps, what can be named is what has been swept    *)
(* and kept, and what is marked.                                           *)
(***************************************************************************)
EXTENDS Gc, FiniteSetTheorems, TLAPS

Pending == {calls[i].id : i \in DOMAIN calls}

\* Constants refer to nothing: their marks may stay from one collection to the next.
ConstantsAreLeaves == \A id \in Constants : values[id].refs = <<>>

ReachableInUse == phase = "mark" \/ ~cut => Reachable \subseteq Used

MarkedIsNameable ==
  phase = "mark" => marked \subseteq Nameable /\ Pending \subseteq Reachable

\* No marked value refers to one that has been forgotten.
NothingForgotten ==
  phase = "mark" /\ ~cut =>
    /\ \A i \in DOMAIN roots : roots[i] \in marked \cup Pending
    /\ \A id \in marked : Refs(id) \subseteq marked \cup Pending

NotSoDeep ==
  phase = "mark" =>
    \A i \in DOMAIN calls : calls[i].depth <= 2 * Cardinality(marked)

SweepIsExact ==
  phase = "sweep" =>
    /\ unswept \subseteq Used \ Constants
    /\ marked \subseteq Constants \cup unswept
    /\ ~cut => Nameable = Constants \cup (Used \ unswept) \cup marked

IInv ==
  /\ TypeOK
  /\ ConstantsAreLeaves
  /\ ReachableInUse
  /\ MarkedIsNameable
  /\ NothingForgotten
  /\ NotSoDeep
  /\ SweepIsExact
  /\ MarksCleared

-----------------------------------------------------------------------------
(* What is reachable *)

\* The ids are the constants and those above them.
LEMMA ConstantsInRange == Constants \subseteq AllIds
BY GcAssumption, SMT DEF Constants, AllIds

\* Reachable is the smallest closed set.
LEMMA Least ==
  ASSUME NEW S \in SUBSET AllIds, Closed(S)
  PROVE  Reachable \subseteq S
BY DEF Reachable

LEMMA LeastNext ==
  ASSUME NEW S \in SUBSET AllIds, Closed(S)'
  PROVE  Reachable' \subseteq S
BY DEF Reachable, AllIds

LEMMA ReachableClosed ==
  ASSUME TypeOK
  PROVE  /\ Closed(Reachable)
         /\ Reachable \subseteq AllIds
         /\ Nameable \subseteq AllIds
<1>1. Reachable \subseteq AllIds
  BY DEF Reachable
<1>2. ASSUME NEW i \in DOMAIN roots
      PROVE  roots[i] \in Reachable
  <2>1. roots[i] \in AllIds
    BY DEF TypeOK
  <2>2. \A S \in SUBSET AllIds : Closed(S) => roots[i] \in S
    BY DEF Closed
  <2> QED
    BY <2>1, <2>2 DEF Reachable
<1>3. ASSUME NEW id \in Reachable \cap Used, NEW ref \in Refs(id)
      PROVE  ref \in Reachable
  <2>1. values[id].refs \in Seq(AllIds)
    BY DEF TypeOK
  <2>2. ref \in AllIds
    BY <2>1 DEF Refs
  <2>3. \A S \in SUBSET AllIds : Closed(S) => ref \in S
    BY DEF Closed, Reachable
  <2> QED
    BY <2>2, <2>3 DEF Reachable
<1>4. Closed(Reachable)
  BY <1>2, <1>3 DEF Closed
<1> QED
  BY <1>1, <1>4, ConstantsInRange DEF Nameable

\* What can be named is closed, because constants refer to nothing.
LEMMA NameableClosed ==
  ASSUME TypeOK, ConstantsAreLeaves
  PROVE  /\ \A i \in DOMAIN roots : roots[i] \in Nameable
         /\ \A id \in Nameable \cap Used : Refs(id) \subseteq Nameable
<1>1. Closed(Reachable)
  BY ReachableClosed
<1>2. ASSUME NEW id \in Constants
      PROVE  Refs(id) = {}
  <2>1. values[id].refs = <<>>
    BY DEF ConstantsAreLeaves
  <2> QED
    BY <2>1 DEF Refs
<1> QED
  BY <1>1, <1>2 DEF Closed, Nameable

\* A step that leaves values and roots alone leaves what is reachable.
LEMMA SameReachable ==
  ASSUME UNCHANGED <<values, roots>>
  PROVE  Reachable' = Reachable /\ Nameable' = Nameable
BY DEF Reachable, Nameable, Closed, Refs, Used, Constants, AllIds

\* One that frees a value nothing can reach, too.
LEMMA FreeingKeepsReachable ==
  ASSUME TypeOK, TypeOK', NEW id \in Used \ Reachable,
         values' = [n \in Used \ {id} |-> values[n]], roots' = roots
  PROVE  Reachable' = Reachable
<1> PICK R \in SUBSET AllIds : R = Reachable
  BY ReachableClosed
<1> PICK T \in SUBSET AllIds : T = Reachable'
  BY DEF Reachable, AllIds
<1>1. Closed(R)' /\ R \subseteq AllIds
  <2>1. Closed(R)
    BY ReachableClosed
  <2>2. Used' = Used \ {id} /\ \A n \in Used' : values'[n] = values[n]
    BY DEF Used
  <2>3. \A n \in Used' : Refs(n)' = Refs(n)
    BY <2>2 DEF Refs
  <2> QED
    BY <2>1, <2>2, <2>3 DEF Closed
<1>2. T \subseteq R
  BY <1>1, LeastNext
<1>3. Closed(T)
  <2>1. Closed(T)'
    <3>1. (TypeOK => Closed(Reachable))'
      BY ReachableClosed, PTL
    <3> QED
      BY <3>1 DEF Closed
  <2>2. Used' = Used \ {id} /\ \A n \in Used' : values'[n] = values[n]
    BY DEF Used
  <2>3. \A n \in Used' : Refs(n)' = Refs(n)
    BY <2>2 DEF Refs
  <2>4. id \notin T
    BY <1>2
  <2> QED
    BY <2>1, <2>2, <2>3, <2>4 DEF Closed
<1>4. R \subseteq T
  BY <1>3, Least
<1> QED
  BY <1>2, <1>4

-----------------------------------------------------------------------------
(* The program's steps *)

LEMMA InitIInv == Init => IInv
<1> SUFFICES ASSUME Init PROVE IInv
  OBVIOUS
<1>1. TypeOK
  <2>1. Used = Constants
    BY DEF Init, Used
  <2>2. <<>> \in Seq(AllIds) /\ <<>> \in Seq([id : AllIds, depth : Nat])
    OBVIOUS
  <2>3. values \in [Used -> [type : Types, refs : Seq(AllIds)]]
    BY <2>1, <2>2 DEF Init, Types
  <2> QED
    BY <2>1, <2>2, <2>3, ConstantsInRange DEF Init, TypeOK
<1>2. ConstantsAreLeaves
  BY DEF Init, ConstantsAreLeaves
<1>3. ReachableInUse
  <2>1. Closed({})
    BY DEF Init, Closed
  <2>2. Reachable \subseteq {}
    BY <2>1, Least
  <2> QED
    BY <2>2 DEF ReachableInUse
<1> QED
  BY <1>1, <1>2, <1>3
  DEF Init, IInv, MarkedIsNameable, NothingForgotten, NotSoDeep, SweepIsExact,
      MarksCleared

\* Between two collections only what is reachable, the constants and the marks
\* matter, and the marks stay.
LEMMA ProgramStep ==
  ASSUME IInv, Running, UNCHANGED collector,
         TypeOK', ConstantsAreLeaves', ~cut => Reachable' \subseteq Used'
  PROVE  IInv'
<1>1. phase' = "run" /\ phase = "run" /\ cut' = cut /\ marked' = marked
  BY DEF Running, collector
<1>2. ReachableInUse'
  BY <1>1 DEF ReachableInUse
<1>3. MarksCleared'
  BY <1>1 DEF IInv, MarksCleared, Constants
<1> QED
  BY <1>1, <1>2, <1>3
  DEF IInv, MarkedIsNameable, NothingForgotten, NotSoDeep, SweepIsExact

LEMMA PushIInv == IInv /\ Push => IInv'
<1> SUFFICES ASSUME IInv, Push PROVE IInv'
  OBVIOUS
<1> USE DEF IInv
<1> PICK id \in Nameable : roots' = Append(roots, id)
  BY DEF Push
<1>1. Nameable \subseteq AllIds
  BY ReachableClosed
<1>2. roots' \in Seq(AllIds)
  BY <1>1 DEF TypeOK
<1>3. TypeOK'
  BY <1>2 DEF Push, Running, TypeOK, collector, Used, Constants, AllIds
<1>4. ConstantsAreLeaves'
  BY DEF Push, ConstantsAreLeaves, Constants
<1>5. ASSUME ~cut PROVE Reachable' \subseteq Used'
  <2> PICK S \in SUBSET AllIds : S = Nameable
    BY <1>1
  <2>1. \A i \in DOMAIN roots' : roots'[i] \in S
    <3>1. \A i \in DOMAIN roots : roots[i] \in S
      BY NameableClosed
    <3> QED
      BY <3>1 DEF TypeOK
  <2>2. Closed(S)'
    <3>1. \A n \in S \cap Used : Refs(n) \subseteq S
      BY NameableClosed
    <3> QED
      BY <2>1, <3>1 DEF Push, Closed, Used, Refs
  <2>3. Reachable' \subseteq S
    BY <2>2, LeastNext
  <2>4. S \subseteq Used
    BY <1>5 DEF ReachableInUse, Nameable, TypeOK
  <2> QED
    BY <2>3, <2>4 DEF Push, Used
<1> QED
  BY <1>3, <1>4, <1>5, ProgramStep DEF Push

LEMMA PopIInv == IInv /\ Pop => IInv'
<1> SUFFICES ASSUME IInv, Pop PROVE IInv'
  OBVIOUS
<1> USE DEF IInv
<1>1. /\ roots' \in Seq(AllIds)
      /\ \A i \in DOMAIN roots' : i \in DOMAIN roots /\ roots'[i] = roots[i]
  BY DEF Pop, TypeOK
<1>2. TypeOK'
  BY <1>1 DEF Pop, TypeOK, collector, Used, Constants, AllIds
<1>3. ConstantsAreLeaves'
  BY DEF Pop, ConstantsAreLeaves, Constants
<1>4. ASSUME ~cut PROVE Reachable' \subseteq Used'
  <2> PICK S \in SUBSET AllIds : S = Reachable
    BY ReachableClosed
  <2>1. Closed(S)
    BY ReachableClosed
  <2>2. Closed(S)'
    BY <1>1, <2>1 DEF Pop, Closed, Used, Refs
  <2>3. Reachable' \subseteq S
    BY <2>2, LeastNext
  <2> QED
    BY <1>4, <2>3 DEF Pop, ReachableInUse, Used
<1> QED
  BY <1>2, <1>3, <1>4, ProgramStep DEF Pop

LEMMA AllocIInv ==
  ASSUME NEW shape \in Shapes, IInv, Alloc(shape)
  PROVE  IInv'
<1> USE DEF IInv
<1> PICK id \in AllIds \ Used, refs \in [1 .. shape[2] -> Nameable] :
      /\ values' = [n \in Used \cup {id} |->
                      IF n = id THEN [type |-> shape[1], refs |-> refs]
                      ELSE values[n]]
      /\ roots' = Append(roots, id)
  BY DEF Alloc
<1>1. shape[1] \in Types /\ shape[2] \in Nat
  BY GcAssumption
<1>2. Nameable \subseteq AllIds
  BY ReachableClosed
<1>3. refs \in Seq(AllIds)
  BY <1>1, <1>2
<1>4. /\ Used' = Used \cup {id}
      /\ values'[id] = [type |-> shape[1], refs |-> refs]
      /\ \A n \in Used : values'[n] = values[n]
  BY DEF Used
<1>5. TypeOK'
  <2>1. \A n \in Used' : values'[n] \in [type : Types, refs : Seq(AllIds)]
    BY <1>1, <1>3, <1>4 DEF TypeOK
  <2>2. values' \in [Used' -> [type : Types, refs : Seq(AllIds)]]
    BY <1>4, <2>1
  <2>3. roots' \in Seq(AllIds)
    BY DEF TypeOK
  <2> QED
    BY <1>4, <2>2, <2>3 DEF Alloc, TypeOK, collector, Constants, AllIds
<1>6. ConstantsAreLeaves'
  BY <1>4 DEF ConstantsAreLeaves, TypeOK, Constants
<1>7. ASSUME ~cut PROVE Reachable' \subseteq Used'
  <2> PICK S \in SUBSET AllIds : S = Nameable \cup {id}
    BY <1>2
  <2>1. \A i \in DOMAIN roots' : roots'[i] \in S
    <3>1. \A i \in DOMAIN roots : roots[i] \in S
      BY NameableClosed
    <3> QED
      BY <3>1 DEF TypeOK
  <2>2. Refs(id)' \subseteq S
    BY <1>1, <1>4 DEF Refs
  <2>3. \A n \in S \cap Used : Refs(n)' \subseteq S
    <3>1. \A n \in Nameable \cap Used : Refs(n) \subseteq S
      BY NameableClosed
    <3> QED
      BY <1>4, <3>1 DEF Refs
  <2>4. Closed(S)'
    BY <1>4, <2>1, <2>2, <2>3 DEF Closed
  <2>5. Reachable' \subseteq S
    BY <2>4, LeastNext
  <2>6. Nameable \subseteq Used
    BY <1>7 DEF ReachableInUse, Nameable, TypeOK
  <2> QED
    BY <1>4, <2>5, <2>6
<1> QED
  BY <1>5, <1>6, <1>7, ProgramStep DEF Alloc

LEMMA StoreIInv == IInv /\ Store => IInv'
<1> SUFFICES ASSUME IInv, Store PROVE IInv'
  OBVIOUS
<1> USE DEF IInv
<1> PICK id \in Reachable \cap Used, new \in Nameable :
      \E i \in DOMAIN values[id].refs :
        values' = [values EXCEPT ![id].refs[i] = new]
  BY DEF Store
<1> PICK i \in DOMAIN values[id].refs :
      values' = [values EXCEPT ![id].refs[i] = new]
  OBVIOUS
<1>1. Nameable \subseteq AllIds
  BY ReachableClosed
<1>2. values[id] \in [type : Types, refs : Seq(AllIds)]
  BY DEF TypeOK
<1>3. /\ Used' = Used
      /\ values'[id] = [values[id] EXCEPT !.refs[i] = new]
      /\ \A n \in Used \ {id} : values'[n] = values[n]
  BY DEF Used, TypeOK
<1>4. /\ values'[id].refs = [values[id].refs EXCEPT ![i] = new]
      /\ values'[id].refs \in Seq(AllIds)
      /\ values'[id] \in [type : Types, refs : Seq(AllIds)]
  BY <1>1, <1>2, <1>3
<1>5. TypeOK'
  <2>1. values' \in [Used' -> [type : Types, refs : Seq(AllIds)]]
    BY <1>3, <1>4 DEF TypeOK
  <2> QED
    BY <1>3, <2>1 DEF Store, TypeOK, collector, Constants, AllIds
<1>6. ConstantsAreLeaves'
  <2>1. id \notin Constants
    BY DEF ConstantsAreLeaves
  <2> QED
    BY <1>3, <2>1 DEF ConstantsAreLeaves, TypeOK, Constants
<1>7. ASSUME ~cut PROVE Reachable' \subseteq Used'
  <2> PICK S \in SUBSET AllIds : S = Nameable
    BY <1>1
  <2>1. \A n \in S \cap Used : Refs(n) \subseteq S
    BY NameableClosed
  <2>2. Refs(id)' \subseteq S
    BY <1>2, <1>4, <2>1 DEF Refs, Nameable
  <2>3. \A n \in S \cap Used : Refs(n)' \subseteq S
    BY <1>3, <2>1, <2>2 DEF Refs
  <2>4. Closed(S)'
    <3>1. \A k \in DOMAIN roots : roots[k] \in S
      BY NameableClosed
    <3> QED
      BY <1>3, <2>3, <3>1 DEF Store, Closed
  <2>5. Reachable' \subseteq S
    BY <2>4, LeastNext
  <2>6. S \subseteq Used
    BY <1>7 DEF ReachableInUse, Nameable, TypeOK
  <2> QED
    BY <1>3, <2>5, <2>6
<1> QED
  BY <1>5, <1>6, <1>7, ProgramStep DEF Store

-----------------------------------------------------------------------------
(* The collector's steps *)

\* The steps that leave values, roots and the collector alone.
LEMMA IdleIInv ==
  ASSUME IInv, Halt \/ Resume \/ UNCHANGED vars
  PROVE  IInv'
<1>1. /\ UNCHANGED <<values, roots, collector>>
      /\ halted' \in BOOLEAN
  BY DEF IInv, TypeOK, Halt, Resume, vars, collector
<1>2. TypeOK'
  BY <1>1 DEF IInv, TypeOK, collector, Used, Constants, AllIds
<1>3. Reachable' = Reachable /\ Nameable' = Nameable
  BY <1>1, SameReachable
<1> QED
  BY <1>1, <1>2, <1>3
  DEF IInv, ConstantsAreLeaves, ReachableInUse, MarkedIsNameable, Pending,
      NothingForgotten, NotSoDeep, SweepIsExact, MarksCleared, Constants,
      collector, Used, Refs

\* The marks of a collection that begins are on constants.
LEMMA BeginIInv == IInv /\ Begin => IInv'
<1> SUFFICES ASSUME IInv, Begin PROVE IInv'
  OBVIOUS
<1> USE DEF IInv
<1>1. Reachable' = Reachable /\ Nameable' = Nameable
  BY SameReachable DEF Begin
<1>2. /\ DOMAIN calls' = DOMAIN roots
      /\ \A i \in DOMAIN roots : calls'[i] = [id |-> roots[i], depth |-> 0]
  BY DEF Begin
<1>3. calls' \in Seq([id : AllIds, depth : Nat])
  <2>1. \A i \in DOMAIN roots : [id |-> roots[i], depth |-> 0] \in [id : AllIds, depth : Nat]
    BY DEF TypeOK
  <2>2. roots \in Seq(AllIds) /\ DOMAIN roots = 1 .. Len(roots) /\ Len(roots) \in Nat
    BY DEF TypeOK
  <2> QED
    BY <1>2, <2>1, <2>2 DEF Begin
<1>4. TypeOK'
  BY <1>3 DEF Begin, TypeOK, Used, Constants, AllIds
<1>5. ConstantsAreLeaves'
  BY DEF Begin, ConstantsAreLeaves, Constants
<1>6. marked' \subseteq Constants
  BY DEF Begin, MarksCleared
<1>7. ReachableInUse'
  BY <1>1 DEF Begin, ReachableInUse, Used
<1>8. Pending' = {roots[i] : i \in DOMAIN roots}
  BY <1>2 DEF Pending
<1>9. MarkedIsNameable'
  <2>1. Closed(Reachable)
    BY ReachableClosed
  <2> QED
    BY <1>1, <1>6, <1>8, <2>1 DEF MarkedIsNameable, Closed, Nameable
<1>10. NothingForgotten'
  <2>1. \A id \in marked' : Refs(id)' = {}
    BY <1>5, <1>6 DEF ConstantsAreLeaves, Refs, Constants
  <2> QED
    BY <1>8, <2>1 DEF Begin, NothingForgotten
<1>11. NotSoDeep'
  <2>1. IsFiniteSet(marked')
    <3>1. IsFiniteSet(Constants)
      BY FS_Interval, GcAssumption DEF Constants
    <3> QED
      BY <1>6, <3>1, FS_Subset
  <2>2. Cardinality(marked') \in Nat
    BY <2>1, FS_CardinalityType
  <2>3. \A i \in DOMAIN calls' : calls'[i].depth = 0
    BY <1>2
  <2> QED
    BY <2>2, <2>3 DEF NotSoDeep
<1> QED
  BY <1>4, <1>5, <1>7, <1>9, <1>10, <1>11
  DEF Begin, SweepIsExact, MarksCleared

\* The calls for a value: one for each of its ids, at most two levels deeper.
LEMMA CallsForValue ==
  ASSUME NEW v \in [type : Types, refs : Seq(AllIds)], NEW depth \in Nat
  PROVE  /\ CallsFor(v, depth) \in Seq([id : AllIds, depth : Nat])
         /\ DOMAIN CallsFor(v, depth) = DOMAIN v.refs
         /\ \A i \in DOMAIN v.refs :
              /\ CallsFor(v, depth)[i].id = v.refs[i]
              /\ CallsFor(v, depth)[i].depth <= depth + 2
<1>1. \A i \in DOMAIN v.refs : Deeper(v, i) \in 1 .. 2
  BY DEF Deeper
<1>2. \A i \in DOMAIN v.refs :
        [id |-> v.refs[i], depth |-> depth + Deeper(v, i)] \in [id : AllIds, depth : Nat]
  BY <1>1
<1>3. v.refs \in Seq(AllIds) /\ DOMAIN v.refs = 1 .. Len(v.refs) /\ Len(v.refs) \in Nat
  OBVIOUS
<1>4. CallsFor(v, depth) \in Seq([id : AllIds, depth : Nat])
  BY <1>2, <1>3 DEF CallsFor
<1> QED
  BY <1>1, <1>4 DEF CallsFor

\* What is marked is finite and in use while the collector marks.
LEMMA MarkedInUse ==
  ASSUME IInv, phase = "mark"
  PROVE  /\ marked \subseteq Used
         /\ Pending \subseteq Used
         /\ IsFiniteSet(Used) /\ IsFiniteSet(marked)
         /\ Cardinality(marked) \in Nat /\ Cardinality(Used) \in Nat
<1>1. marked \subseteq Used /\ Pending \subseteq Used
  BY DEF IInv, MarkedIsNameable, ReachableInUse, Nameable, TypeOK
<1>2. IsFiniteSet(AllIds)
  BY FS_Interval, GcAssumption DEF AllIds
<1>3. IsFiniteSet(Used) /\ IsFiniteSet(marked)
  BY <1>1, <1>2, FS_Subset DEF IInv, TypeOK
<1> QED
  BY <1>1, <1>3, FS_CardinalityType

\* Head and Tail take a sequence apart.
LEMMA HeadAndTail ==
  ASSUME NEW T, NEW s \in Seq(T), s # <<>>
  PROVE  /\ 1 \in DOMAIN s /\ Head(s) = s[1] /\ Head(s) \in T
         /\ Tail(s) \in Seq(T)
         /\ \A i \in DOMAIN Tail(s) : i + 1 \in DOMAIN s /\ Tail(s)[i] = s[i + 1]
         /\ \A i \in DOMAIN s : i = 1 \/ i - 1 \in DOMAIN Tail(s)
<1>1. Len(s) \in Nat \ {0} /\ DOMAIN s = 1 .. Len(s)
  OBVIOUS
<1>2. Tail(s) \in Seq(T) /\ Len(Tail(s)) = Len(s) - 1
  BY <1>1
<1>3. DOMAIN Tail(s) = 1 .. Len(s) - 1
  BY <1>2
<1>4. \A i \in DOMAIN Tail(s) : i + 1 \in DOMAIN s /\ Tail(s)[i] = s[i + 1]
  BY <1>1, <1>3
<1>5. \A i \in DOMAIN s : i = 1 \/ i - 1 \in DOMAIN Tail(s)
  BY <1>1, <1>3
<1> QED
  BY <1>1, <1>2, <1>4, <1>5

LEMMA Elements ==
  ASSUME NEW T, NEW s \in Seq(T), NEW i \in DOMAIN s
  PROVE  s[i] \in T
OBVIOUS

LEMMA MarkIInv == IInv /\ Mark => IInv'
<1> SUFFICES ASSUME IInv, Mark PROVE IInv'
  OBVIOUS
<1> USE DEF IInv
<1> DEFINE call == Head(calls)
<1>0. phase = "mark" /\ phase' = "mark" /\ UNCHANGED <<values, roots, unswept>>
  BY DEF Mark
<1>1. Reachable' = Reachable /\ Nameable' = Nameable
  BY <1>0, SameReachable
<1>2. /\ calls \in Seq([id : AllIds, depth : Nat]) /\ calls # <<>>
      /\ call \in [id : AllIds, depth : Nat] /\ call = calls[1]
      /\ 1 \in DOMAIN calls
      /\ Tail(calls) \in Seq([id : AllIds, depth : Nat])
      /\ \A i \in DOMAIN Tail(calls) :
           i + 1 \in DOMAIN calls /\ Tail(calls)[i] = calls[i + 1]
      /\ \A i \in DOMAIN calls : i = 1 \/ i - 1 \in DOMAIN Tail(calls)
  <2>1. calls \in Seq([id : AllIds, depth : Nat]) /\ calls # <<>>
    BY DEF Mark, TypeOK
  <2> QED
    BY <2>1, HeadAndTail
<1>3. Pending = {call.id} \cup {Tail(calls)[i].id : i \in DOMAIN Tail(calls)}
  <2>1. \A i \in DOMAIN calls :
          i = 1 \/ (i - 1 \in DOMAIN Tail(calls) /\ calls[i] = Tail(calls)[i - 1])
    BY <1>2
  <2> QED
    BY <1>2, <2>1 DEF Pending
<1>4. call.id \in Reachable /\ call.id \in Used /\ call.depth <= 2 * Cardinality(marked)
  BY <1>0, <1>2, <1>3, MarkedInUse DEF MarkedIsNameable, NotSoDeep
<1>5. ConstantsAreLeaves'
  BY <1>0 DEF ConstantsAreLeaves, Constants
<1>6. ReachableInUse'
  BY <1>0, <1>1 DEF ReachableInUse, Used
<1>7. ASSUME calls' = Tail(calls), marked' = marked,
             halted' \in BOOLEAN, cut' \in BOOLEAN,
             ~cut' => ~cut /\ call.id \in marked
      PROVE  IInv'
  <2>1. TypeOK'
    BY <1>0, <1>2, <1>7 DEF TypeOK, Used, Constants, AllIds
  <2>2. Pending = {call.id} \cup Pending'
    BY <1>3, <1>7 DEF Pending
  <2>3. MarkedIsNameable'
    BY <1>0, <1>1, <1>7, <2>2 DEF MarkedIsNameable
  <2>4. NothingForgotten'
    BY <1>0, <1>7, <2>2 DEF NothingForgotten, Refs
  <2>5. NotSoDeep'
    BY <1>0, <1>2, <1>7 DEF NotSoDeep
  <2> QED
    BY <1>0, <1>5, <1>6, <2>1, <2>3, <2>4, <2>5 DEF SweepIsExact, MarksCleared
<1>8. CASE call.id \in marked /\ calls' = Tail(calls) /\ UNCHANGED <<marked, halted, cut>>
  BY <1>7, <1>8 DEF TypeOK
<1>9. CASE /\ halted' = TRUE /\ cut' = TRUE
           /\ calls' = Tail(calls) /\ UNCHANGED marked
  BY <1>7, <1>9
<1>10. CASE /\ call.id \notin marked
            /\ marked' = marked \cup {call.id}
            /\ calls' = CallsFor(values[call.id], call.depth) \o Tail(calls)
            /\ UNCHANGED <<halted, cut>>
  <2> DEFINE new == CallsFor(values[call.id], call.depth)
             rest == Tail(calls)
  <2>1. values[call.id] \in [type : Types, refs : Seq(AllIds)]
    BY <1>4 DEF TypeOK
  <2>2. /\ new \in Seq([id : AllIds, depth : Nat])
        /\ DOMAIN new = DOMAIN values[call.id].refs
        /\ \A i \in DOMAIN new :
             /\ new[i].id = values[call.id].refs[i]
             /\ new[i].depth <= call.depth + 2
    BY <1>2, <2>1, CallsForValue
  <2> HIDE DEF new
  <2>3. /\ calls' = new \o rest
        /\ calls' \in Seq([id : AllIds, depth : Nat])
    BY <1>2, <1>10, <2>2 DEF new
  <2>4. \A i \in DOMAIN calls' :
          \/ i \in DOMAIN new /\ calls'[i] = new[i]
          \/ i - Len(new) \in DOMAIN rest /\ calls'[i] = rest[i - Len(new)]
    BY <1>2, <2>2, <2>3
  <2>5. \A i \in DOMAIN new : i \in DOMAIN calls' /\ calls'[i] = new[i]
    BY <1>2, <2>2, <2>3
  <2>6. \A i \in DOMAIN rest :
          i + Len(new) \in DOMAIN calls' /\ calls'[i + Len(new)] = rest[i]
    BY <1>2, <2>2, <2>3
  <2>7. Refs(call.id) = {new[i].id : i \in DOMAIN new}
    BY <2>2 DEF Refs
  <2>8. Pending' = Refs(call.id) \cup {rest[i].id : i \in DOMAIN rest}
    <3>1. Pending' \subseteq {new[i].id : i \in DOMAIN new} \cup {rest[i].id : i \in DOMAIN rest}
      BY <2>4 DEF Pending
    <3>2. {new[i].id : i \in DOMAIN new} \subseteq Pending'
      BY <2>5 DEF Pending
    <3>3. {rest[i].id : i \in DOMAIN rest} \subseteq Pending'
      BY <2>6 DEF Pending
    <3> QED
      BY <2>7, <3>1, <3>2, <3>3
  <2>9. Pending \subseteq {call.id} \cup Pending' /\ Refs(call.id) \subseteq Pending'
    BY <1>3, <2>8
  <2>10. TypeOK'
    BY <1>0, <1>2, <1>10, <2>3 DEF TypeOK, Used, Constants, AllIds
  <2>11. MarkedIsNameable'
    <3>1. Refs(call.id) \subseteq Reachable
      BY <1>4, ReachableClosed DEF Closed
    <3> QED
      BY <1>0, <1>1, <1>3, <1>4, <1>10, <2>8, <3>1 DEF MarkedIsNameable, Nameable
  <2>12. NothingForgotten'
    <3>1. \A id : Refs(id)' = Refs(id)
      BY <1>0 DEF Refs
    <3> QED
      BY <1>0, <1>10, <2>9, <3>1 DEF NothingForgotten
  <2>13. NotSoDeep'
    <3>1. /\ Cardinality(marked) \in Nat
          /\ Cardinality(marked') = Cardinality(marked) + 1
      BY <1>0, <1>10, MarkedInUse, FS_AddElement
    <3>2. \A i \in DOMAIN new : new[i].depth <= 2 * Cardinality(marked')
      <4>1. \A i \in DOMAIN new : new[i].depth \in Nat
        <5>1. \A i \in DOMAIN new : new[i] \in [id : AllIds, depth : Nat]
          BY <2>2, Elements
        <5> QED
          BY <5>1
      <4> QED
        BY <1>2, <1>4, <2>2, <3>1, <4>1
    <3>3. \A i \in DOMAIN rest : rest[i].depth <= 2 * Cardinality(marked')
      <4>1. \A i \in DOMAIN rest :
              rest[i].depth \in Nat /\ rest[i].depth <= 2 * Cardinality(marked)
        <5>1. \A i \in DOMAIN rest : rest[i] \in [id : AllIds, depth : Nat]
          BY <1>2, Elements
        <5>2. \A i \in DOMAIN rest : rest[i].depth <= 2 * Cardinality(marked)
          BY <1>0, <1>2 DEF NotSoDeep
        <5> QED
          BY <5>1, <5>2
      <4> QED
        BY <3>1, <4>1
    <3> QED
      BY <2>4, <3>2, <3>3 DEF NotSoDeep
  <2> QED
    BY <1>0, <1>5, <1>6, <2>10, <2>11, <2>12, <2>13 DEF SweepIsExact, MarksCleared
<1> QED
  BY <1>8, <1>9, <1>10 DEF Mark

\* Nothing is left to call: what is marked is closed.
LEMMA StartSweepIInv == IInv /\ StartSweep => IInv'
<1> SUFFICES ASSUME IInv, StartSweep PROVE IInv'
  OBVIOUS
<1> USE DEF IInv
<1>0. /\ phase = "mark" /\ phase' = "sweep" /\ calls = <<>>
      /\ unswept' = Used \ Constants
      /\ UNCHANGED <<values, roots, marked, calls, halted, cut>>
  BY DEF StartSweep
<1>1. Reachable' = Reachable /\ Nameable' = Nameable
  BY <1>0, SameReachable
<1>2. TypeOK'
  BY <1>0 DEF TypeOK, Used, Constants, AllIds
<1>3. ConstantsAreLeaves'
  BY <1>0 DEF ConstantsAreLeaves, Constants
<1>4. ReachableInUse'
  BY <1>0, <1>1 DEF ReachableInUse, Used
<1>5. marked \subseteq Used
  BY <1>0, MarkedInUse
<1>6. ASSUME ~cut PROVE Reachable \subseteq marked
  <2> PICK S \in SUBSET AllIds : S = marked
    BY DEF TypeOK
  <2>1. Pending = {}
    BY <1>0 DEF Pending
  <2>2. Closed(S)
    BY <1>0, <1>6, <2>1 DEF NothingForgotten, Closed
  <2> QED
    BY <2>2, Least
<1>7. SweepIsExact'
  <2>1. ~cut => Nameable = Constants \cup marked
    BY <1>0, <1>6 DEF MarkedIsNameable, Nameable
  <2>2. Used \ (Used \ Constants) = Constants
    BY DEF TypeOK
  <2>3. Constants' = Constants /\ Used' = Used
    BY <1>0 DEF Constants, Used
  <2> QED
    BY <1>0, <1>1, <1>5, <2>1, <2>2, <2>3 DEF SweepIsExact
<1> QED
  BY <1>0, <1>2, <1>3, <1>4, <1>7
  DEF MarkedIsNameable, NothingForgotten, NotSoDeep, MarksCleared

LEMMA SweepIInv == IInv /\ Sweep => IInv'
<1> SUFFICES ASSUME IInv, Sweep PROVE IInv'
  OBVIOUS
<1> USE DEF IInv
<1> PICK id \in unswept :
      /\ unswept' = unswept \ {id}
      /\ marked' = marked \ {id}
      /\ values' = IF id \in marked THEN values
                   ELSE [n \in Used \ {id} |-> values[n]]
  BY DEF Sweep
<1>0. /\ phase = "sweep" /\ phase' = "sweep"
      /\ UNCHANGED <<roots, calls, halted, cut>>
  BY DEF Sweep
<1>1. /\ unswept \subseteq Used \ Constants
      /\ marked \subseteq Constants \cup unswept
      /\ Constants \subseteq Used /\ Constants' = Constants
  BY <1>0 DEF SweepIsExact, TypeOK, Constants
<1>2. CASE id \in marked
  <2>1. values' = values /\ Used' = Used
    BY <1>2 DEF Used
  <2>2. Reachable' = Reachable /\ Nameable' = Nameable
    BY <1>0, <2>1, SameReachable
  <2>3. TypeOK'
    BY <1>0, <2>1 DEF TypeOK, Constants, AllIds
  <2>4. ConstantsAreLeaves'
    BY <2>1 DEF ConstantsAreLeaves, Constants
  <2>5. ReachableInUse'
    BY <1>0, <2>1, <2>2 DEF ReachableInUse
  <2>6. SweepIsExact'
    BY <1>0, <1>1, <1>2, <2>1, <2>2 DEF SweepIsExact
  <2> QED
    BY <1>0, <2>3, <2>4, <2>5, <2>6
    DEF MarkedIsNameable, NothingForgotten, NotSoDeep, MarksCleared
<1>3. CASE id \notin marked
  <2>1. values' = [n \in Used \ {id} |-> values[n]] /\ Used' = Used \ {id}
    BY <1>3 DEF Used
  <2>2. TypeOK'
    <3>1. values' \in [Used' -> [type : Types, refs : Seq(AllIds)]]
      BY <2>1 DEF TypeOK
    <3> QED
      BY <1>0, <1>1, <2>1, <3>1 DEF TypeOK, AllIds
  <2>3. ConstantsAreLeaves'
    BY <1>1, <2>1 DEF ConstantsAreLeaves
  <2>4. ASSUME ~cut PROVE Reachable' = Reachable /\ Nameable' = Nameable
    <3>1. id \notin Nameable
      BY <1>0, <1>1, <1>3, <2>4 DEF SweepIsExact
    <3> QED
      BY <1>0, <1>1, <2>1, <2>2, <3>1, FreeingKeepsReachable DEF Nameable
  <2>5. SweepIsExact'
    BY <1>0, <1>1, <1>3, <2>1, <2>4 DEF SweepIsExact
  <2>6. ReachableInUse'
    BY <1>0, <1>1, <2>1, <2>4, <2>5 DEF ReachableInUse, SweepIsExact, Nameable
  <2> QED
    BY <1>0, <2>2, <2>3, <2>5, <2>6
    DEF MarkedIsNameable, NothingForgotten, NotSoDeep, MarksCleared
<1> QED
  BY <1>2, <1>3

LEMMA EndIInv == IInv /\ End => IInv'
<1> SUFFICES ASSUME IInv, End PROVE IInv'
  OBVIOUS
<1> USE DEF IInv
<1>0. /\ phase = "sweep" /\ phase' = "run" /\ unswept = {}
      /\ UNCHANGED <<values, roots, marked, calls, unswept, halted, cut>>
  BY DEF End
<1>1. Reachable' = Reachable
  BY <1>0, SameReachable
<1>2. TypeOK'
  BY <1>0 DEF TypeOK, Used, Constants, AllIds
<1> QED
  BY <1>0, <1>1, <1>2
  DEF ConstantsAreLeaves, ReachableInUse, MarkedIsNameable, NothingForgotten,
      NotSoDeep, SweepIsExact, MarksCleared, Constants, Used

LEMMA NextIInv == IInv /\ [Next]_vars => IInv'
<1> SUFFICES ASSUME IInv, [Next]_vars PROVE IInv'
  OBVIOUS
<1>1. CASE \E shape \in Shapes : Alloc(shape)
  BY <1>1, AllocIInv
<1>2. CASE Push
  BY <1>2, PushIInv
<1>3. CASE Pop
  BY <1>3, PopIInv
<1>4. CASE Store
  BY <1>4, StoreIInv
<1>5. CASE Halt \/ Resume \/ Stopped \/ UNCHANGED vars
  BY <1>5, IdleIInv DEF Stopped
<1>6. CASE Begin
  BY <1>6, BeginIInv
<1>7. CASE Mark
  BY <1>7, MarkIInv
<1>8. CASE StartSweep
  BY <1>8, StartSweepIInv
<1>9. CASE Sweep
  BY <1>9, SweepIInv
<1>10. CASE End
  BY <1>10, EndIInv
<1> QED
  BY <1>1, <1>2, <1>3, <1>4, <1>5, <1>6, <1>7, <1>8, <1>9, <1>10 DEF Next

LEMMA Invariant == Spec => []IInv
BY InitIInv, NextIInv, PTL DEF Spec

-----------------------------------------------------------------------------
(* The theorems *)

\* The machine's state is of its type, and the constants are never freed.
THEOREM TypeCorrect == Spec => []TypeOK
<1>1. IInv => TypeOK
  BY DEF IInv
<1> QED
  BY <1>1, Invariant, PTL

\* gc_sweep (vm.c:164-181) frees nothing the program can reach, in the middle of
\* the sweep either, as long as gc_mark has not been cut short.
THEOREM SafeCollection == Spec => []KeepsReachable
<1>1. IInv => KeepsReachable
  BY DEF IInv, KeepsReachable, ReachableInUse
<1> QED
  BY <1>1, Invariant, PTL

\* gc_sweep takes every mark off again, but those of the constants before gc_start.
THEOREM CleanMarks == Spec => []MarksCleared
<1>1. IInv => MarksCleared
  BY DEF IInv
<1> QED
  BY <1>1, Invariant, PTL

\* When gc_sweep returns, what can be named is all there is.
THEOREM CompleteCollection == Spec => FreesGarbage
<1>1. ASSUME IInv, [Next]_vars
      PROVE  phase = "sweep" /\ phase' = "run" /\ ~cut => Used = Nameable
  <2> SUFFICES ASSUME phase = "sweep", phase' = "run", ~cut
               PROVE  Used = Nameable
    OBVIOUS
  <2>1. unswept = {}
    BY <1>1 DEF Next, Alloc, Push, Pop, Store, Halt, Resume, Begin, Mark,
                StartSweep, Sweep, End, Stopped, Running, vars, collector
  <2> QED
    BY <2>1, <1>1 DEF IInv, SweepIsExact, TypeOK
<1>2. IInv /\ [Next]_vars =>
        [phase = "sweep" /\ phase' = "run" /\ ~cut => Used = Nameable]_vars
  BY <1>1
<1> QED
  BY <1>2, Invariant, PTL DEF Spec, FreesGarbage

\* gc_mark's limit (vm.c:74) is met only when more than half as many values exist.
THEOREM LimitNeedsValues == Spec => LimitIsFar
<1>1. ASSUME IInv, [Next]_vars, cut', ~cut
      PROVE  2 * (Cardinality(Used) - 1) > Limit
  <2> DEFINE call == Head(calls)
  <2>1. /\ phase = "mark" /\ calls # <<>>
        /\ call.id \notin marked /\ call.depth > Limit
    BY <1>1 DEF Next, Alloc, Push, Pop, Store, Halt, Resume, Begin, Mark, TooDeep,
                StartSweep, Sweep, End, Stopped, Running, vars, collector
  <2>2. /\ 1 \in DOMAIN calls /\ call = calls[1] /\ call.depth \in Nat
    <3>1. calls \in Seq([id : AllIds, depth : Nat])
      BY <1>1 DEF IInv, TypeOK
    <3>2. 1 \in DOMAIN calls /\ call = calls[1] /\ call \in [id : AllIds, depth : Nat]
      BY <2>1, <3>1, HeadAndTail
    <3> QED
      BY <3>2
  <2>3. call.id \in Used /\ call.depth <= 2 * Cardinality(marked)
    BY <1>1, <2>1, <2>2, MarkedInUse DEF IInv, Pending, NotSoDeep
  <2>4. /\ marked \cup {call.id} \subseteq Used
        /\ Cardinality(marked \cup {call.id}) = Cardinality(marked) + 1
        /\ Cardinality(marked) \in Nat /\ Cardinality(Used) \in Nat
        /\ IsFiniteSet(Used)
    BY <1>1, <2>1, <2>3, MarkedInUse, FS_AddElement
  <2>5. Cardinality(marked) + 1 <= Cardinality(Used)
    BY <2>4, FS_Subset
  <2>6. Limit \in Nat
    BY GcAssumption
  <2> QED
    BY <2>1, <2>2, <2>3, <2>4, <2>5, <2>6
<1>2. IInv /\ [Next]_vars =>
        [cut' /\ ~cut => 2 * (Cardinality(Used) - 1) > Limit]_vars
  BY <1>1
<1> QED
  BY <1>2, Invariant, PTL DEF Spec, LimitIsFar

=============================================================================
