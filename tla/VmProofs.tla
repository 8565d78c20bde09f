------------------------------ MODULE VmProofs -------------------------------
(***************************************************************************)
(* The machine, for every program whose code is as bytecode.h says: what it *)
(* follows is in use whenever the collector runs, programs never get hold   *)
(* of a continuation, the stacks stay within their arrays, and the machine  *)
(* keeps the protocol of Calls.  On top of module MachineProofs come the    *)
(* instructions that call and return, the rounds that continuations take,   *)
(* the machine gil_vm_init leaves, and the theorems.                        *)
(***************************************************************************)
EXTENDS MachineProofs

-----------------------------------------------------------------------------
(* Slots and frames that stay, with others above them. *)

LEMMA SameSeq ==
  ASSUME NEW S, NEW s \in Seq(S), NEW t, t = [i \in 1 .. Len(s) |-> t[i]],
         \A i \in 1 .. Len(s) : t[i] = s[i]
  PROVE  t = s
<1>1. s = [i \in 1 .. Len(s) |-> s[i]]  OBVIOUS
<1> QED  BY <1>1

\* In the slots up to j there is what there was.
Below(m, j, A) ==
  /\ Sound(m, Entries) /\ Later(vm.values, m.values, A)
  /\ j \in Nat /\ j <= Len(vm.stack) /\ j <= Len(m.stack)
  /\ \A i \in 1 .. j : m.stack[i] = vm.stack[i] /\ vm.stack[i] \notin A

LEMMA SlotsBelow ==
  ASSUME VmInv, NEW m, NEW j, NEW A, Below(m, j, A), NEW i \in 1 .. j
  PROVE  /\ SlotKinds(m)[i] = SlotKinds(vm)[i]
         /\ TypeOf(m, m.stack[i]) \in Hidden =>
              m.values[m.stack[i]] = vm.values[vm.stack[i]]
         /\ TypeOf(vm, vm.stack[i]) \in Hidden =>
              m.values[m.stack[i]] = vm.values[vm.stack[i]]
<1>1. Sound(vm, Entries) /\ Sound(m, Entries)  BY DEF VmInv, Below
<1>2. Len(vm.stack) \in Nat /\ Len(m.stack) \in Nat /\ vm.stack[i] \in DOMAIN vm.values
      /\ i \in 1 .. Len(vm.stack) /\ i \in 1 .. Len(m.stack)
  <2>1. Len(vm.stack) \in Nat /\ Len(m.stack) \in Nat  BY <1>1, StackIs
  <2>2. i \in 1 .. Len(vm.stack) /\ i \in 1 .. Len(m.stack)  BY <2>1 DEF Below
  <2> QED  BY <1>1, <2>1, <2>2, StackIs
<1>3. m.stack[i] = vm.stack[i] /\ vm.stack[i] \notin A  BY DEF Below
<1>4. PICK id : id = vm.stack[i]  OBVIOUS
<1>5. id \in DOMAIN vm.values /\ id \in DOMAIN m.values /\ id \notin A
      /\ (vm.values[id].type \in Hidden => m.values[id] = vm.values[id])
      /\ (vm.values[id].type \notin Hidden => m.values[id].type = vm.values[id].type)
  BY <1>2, <1>3, <1>4 DEF Below, Later
<1>6. Kind(m, id) = Kind(vm, id)
  <2>1. CASE vm.values[id].type \in Hidden
    BY <1>5, <2>1 DEF Kind, TypeOf
  <2>2. CASE vm.values[id].type \notin Hidden
    BY <1>5, <2>2 DEF Kind, TypeOf, Hidden
  <2> QED  BY <2>1, <2>2
<1>7. SlotKinds(m)[i] = Kind(m, m.stack[i]) /\ SlotKinds(vm)[i] = Kind(vm, vm.stack[i])
  BY <1>1, <1>2, KindsAre
<1> QED  BY <1>3, <1>4, <1>5, <1>6, <1>7 DEF TypeOf

\* What has to be known of a slot.
Fits1(m, i) ==
  LET x == m.values[m.stack[i]]
  IN /\ x.type = "RETURN" => x.ret = knone
     /\ x.type = "CONTINUATION" => i <= Room \/ (i <= Room + 1 /\ x.args = knone)

\* The slots up to j are of the kind they were.
Matches(m, j) ==
  /\ Sound(m, Entries) /\ j \in Nat /\ j <= Len(vm.stack) /\ j <= Len(m.stack)
  /\ \A i \in 1 .. j : Kind(m, m.stack[i]) = Kind(vm, vm.stack[i]) /\ Fits1(m, i)

LEMMA BelowMatches ==
  ASSUME VmInv, vm.halted = FALSE, NEW m, NEW j, NEW A, Below(m, j, A)
  PROVE  Matches(m, j)
<1>1. Sound(vm, Entries) /\ Sound(m, Entries) /\ j \in Nat /\ j <= Len(vm.stack)
      /\ j <= Len(m.stack) /\ Bare(vm) /\ Within(vm)
  BY DEF VmInv, Below
<1>2. Len(vm.stack) \in Nat /\ DOMAIN vm.stack = 1 .. Len(vm.stack) /\ Len(m.stack) \in Nat
  BY <1>1, StackIs
<1>3. ASSUME NEW i \in 1 .. j
      PROVE  Kind(m, m.stack[i]) = Kind(vm, vm.stack[i]) /\ Fits1(m, i)
  <2>1. i \in DOMAIN vm.stack /\ i \in 1 .. Len(vm.stack) /\ i \in 1 .. Len(m.stack)
    BY <1>1, <1>2
  <2>2. /\ TypeOf(m, m.stack[i]) \in Hidden => m.values[m.stack[i]] = vm.values[vm.stack[i]]
        /\ SlotKinds(m)[i] = SlotKinds(vm)[i]
    BY SlotsBelow
  <2>3. Kind(m, m.stack[i]) = Kind(vm, vm.stack[i])  BY <1>1, <2>1, <2>2, KindsAre
  <2>4. CASE m.values[m.stack[i]].type \in Hidden
    <3>1. m.values[m.stack[i]] = vm.values[vm.stack[i]]  BY <2>2, <2>4 DEF TypeOf
    <3> QED  BY <1>1, <2>1, <2>3, <3>1 DEF Fits1, Bare, Within, TypeOf
  <2>5. CASE m.values[m.stack[i]].type \notin Hidden
    BY <2>3, <2>5 DEF Fits1, Hidden
  <2> QED  BY <2>4, <2>5
<1> QED  BY <1>1, <1>3 DEF Matches

LEMMA MatchesLater ==
  ASSUME NEW m, NEW j, Matches(m, j), NEW r, Sound(r, Entries),
         Later(m.values, r.values, {}), j <= Len(r.stack),
         \A i \in 1 .. j : r.stack[i] = m.stack[i]
  PROVE  Matches(r, j)
<1>1. ASSUME NEW i \in 1 .. j
      PROVE  Kind(r, r.stack[i]) = Kind(vm, vm.stack[i]) /\ Fits1(r, i)
  <2>1. i \in 1 .. Len(m.stack)  BY StackIs DEF Matches
  <2>2. PICK id : id = m.stack[i]  OBVIOUS
  <2>3. id \in DOMAIN m.values /\ r.stack[i] = id  BY <2>1, <2>2, StackIs DEF Matches
  <2>4. Kind(r, id) = Kind(m, id)  BY <2>3, KindStays
  <2>5. Kind(m, id) = Kind(vm, vm.stack[i]) /\ Fits1(m, i)  BY <2>2 DEF Matches
  <2>6. CASE m.values[id].type \in Hidden
    <3>1. r.values[id] = m.values[id]  BY <2>3, <2>6 DEF Later
    <3> QED  BY <2>2, <2>3, <2>4, <2>5, <3>1 DEF Fits1
  <2>7. CASE m.values[id].type \notin Hidden
    <3>1. r.values[id].type \notin Hidden  BY <2>3, <2>7 DEF Later
    <3> QED  BY <2>3, <2>4, <2>5, <3>1 DEF Fits1, Hidden
  <2> QED  BY <2>6, <2>7
<1> QED  BY <1>1 DEF Matches

\* With one slot more.
LEMMA KindsAbove ==
  ASSUME VmInv, NEW m, NEW j, Matches(m, j), Len(m.stack) = j + 1, NEW kind,
         Kind(m, m.stack[j + 1]) = kind
  PROVE  SlotKinds(m) = Append(SubSeq(SlotKinds(vm), 1, j), kind)
<1>1. Sound(vm, Entries) /\ Sound(m, Entries) /\ j \in Nat /\ j <= Len(vm.stack)
  BY DEF VmInv, Matches
<1>2. PICK s : s = SlotKinds(vm)  OBVIOUS
<1>3. PICK t : t = SlotKinds(m)  OBVIOUS
<1>4. /\ Len(s) = Len(vm.stack) /\ s \in Seq(PP!Kinds) /\ Len(vm.stack) \in Nat
      /\ \A i \in 1 .. Len(vm.stack) : s[i] = Kind(vm, vm.stack[i])
  BY <1>1, <1>2, KindsAre, StackIs
<1>5. /\ Len(t) = j + 1 /\ t \in Seq(PP!Kinds)
      /\ \A i \in 1 .. j + 1 : t[i] = Kind(m, m.stack[i])
  BY <1>1, <1>3, KindsAre
<1>6. PICK n : n = Len(s) - j  OBVIOUS
<1>7. n \in Nat /\ n <= Len(s) /\ Len(s) - n = j  BY <1>1, <1>4, <1>6
<1>8. PICK u : u = SubSeq(s, 1, j)  OBVIOUS
<1>9. u \in Seq(PP!Kinds) /\ Len(u) = j /\ \A i \in 1 .. j : u[i] = s[i]
  <2>1. u = SubSeq(s, 1, Len(s) - n)  BY <1>7, <1>8
  <2>2. /\ u \in Seq(PP!Kinds) /\ Len(u) = Len(s) - n
        /\ \A i \in 1 .. Len(s) - n : u[i] = s[i]
    BY <1>4, <1>7, <2>1, Shrinks
  <2> QED  BY <1>7, <2>2
<1>10. kind \in PP!Kinds
  <2>1. j + 1 \in 1 .. j + 1  BY <1>1
  <2>2. t[j + 1] = kind  BY <1>5, <2>1
  <2>3. DOMAIN t = 1 .. j + 1  BY <1>5
  <2> QED  BY <1>5, <2>1, <2>2, <2>3
<1>11. PICK w : w = Append(u, kind)  OBVIOUS
<1>12. /\ w \in Seq(PP!Kinds) /\ Len(w) = j + 1
       /\ \A i \in 1 .. j : w[i] = u[i]
       /\ w[j + 1] = kind
  BY <1>9, <1>10, <1>11, Grows
<1>13. ASSUME NEW i \in 1 .. j  PROVE t[i] = s[i]
  <2>1. i \in 1 .. Len(vm.stack) /\ i \in 1 .. j + 1  BY <1>1, <1>4
  <2> QED  BY <1>4, <1>5, <2>1 DEF Matches
<1>14. \A i \in 1 .. j + 1 : i \in 1 .. j \/ i = j + 1  BY <1>1
<1>15. \A i \in 1 .. j + 1 : t[i] = w[i]
  <2>1. t[j + 1] = kind
    <3>1. j + 1 \in 1 .. j + 1  BY <1>1
    <3> QED  BY <1>5, <3>1
  <2> QED  BY <1>9, <1>12, <1>13, <1>14, <2>1
<1>16. t = w  BY <1>5, <1>12, <1>15, SeqEqual
<1> QED  BY <1>2, <1>3, <1>8, <1>11, <1>16

LEMMA BareWithin ==
  ASSUME NEW m, Sound(m, Entries), \A i \in 1 .. Len(m.stack) : Fits1(m, i),
         Len(m.fstack) <= Room + 1, m.check => Len(m.fstack) <= Room,
         Len(m.stack) <= Room + 2
  PROVE  /\ Bare(m) /\ Within(m)
         /\ Len(m.stack) <= StackSize /\ Len(m.fstack) <= StackSize
<1>1. DOMAIN m.stack = 1 .. Len(m.stack) /\ Len(m.stack) \in Nat /\ Len(m.fstack) \in Nat
  BY StackIs, FramesAre
<1>2. StackSize \in Nat /\ Margin \in Nat /\ Margin >= 2 /\ Margin <= StackSize
  BY MachineAssumption
<1>3. Len(m.stack) <= StackSize /\ Len(m.fstack) <= StackSize  BY <1>1, <1>2 DEF Room
<1> QED  BY <1>1, <1>3 DEF Bare, Within, Fits1, TypeOf

\* The frames up to k + 1 are there, and no more or one more.
Above(m, k, A) ==
  /\ Sound(m, Entries) /\ Later(vm.values, m.values, A)
  /\ k \in 1 .. Len(vm.fstack) - 1
  /\ Len(m.fstack) \in {k + 1, k + 2}
  /\ \A f \in 1 .. k + 1 : m.fstack[f] = vm.fstack[f]
  /\ GoesOn(m, k + 1) \in DOMAIN Code
  /\ Bodies(Code)[GoesOn(m, k + 1)] = BodyOf(vm.fstack[k + 1])
  /\ Len(m.fstack) = k + 2 =>
       /\ Placed(m, k + 2) /\ m.fstack[k + 2].retptr # NoReturn
       /\ m.fstack[k + 2].args = knone \/ TypeOf(m, m.fstack[k + 2].args) = "ARRAY"

LEMMA AboveFramed ==
  ASSUME VmInv, vm.halted = FALSE, NEW m, NEW k, NEW A, Above(m, k, A)
  PROVE  Framed(m)
<1>1. Sound(vm, Entries) /\ Sound(m, Entries) /\ Framed(vm) /\ k \in 1 .. Len(vm.fstack) - 1
  BY DEF VmInv, Above
<1>2. Len(vm.fstack) \in Nat /\ Len(vm.fstack) >= 2 /\ Len(m.fstack) \in Nat
  BY <1>1, FramesAre
<1>3. k \in Nat /\ k >= 1 /\ k + 1 <= Len(vm.fstack)  BY <1>1, <1>2
<1>4. Len(m.fstack) \in {k + 1, k + 2}
      /\ \A f \in 1 .. k + 1 : m.fstack[f] = vm.fstack[f]
  BY DEF Above
<1>5. ASSUME NEW f \in 2 .. k  PROVE Placed(m, f)
  <2>1. Placed(vm, f)  BY <1>1, <1>3 DEF Framed
  <2>2. f \in 1 .. k + 1 /\ f + 1 \in 1 .. k + 1 /\ f # Len(m.fstack) /\ f # Len(vm.fstack)
    BY <1>2, <1>3, <1>4
  <2>3. GoesOn(m, f) = GoesOn(vm, f)  BY <1>4, <2>2 DEF GoesOn
  <2> QED  BY <1>4, <2>1, <2>2, <2>3 DEF Placed
<1>6. Placed(m, k + 1)
  <2>1. k + 1 \in 1 .. k + 1  BY <1>3
  <2> QED  BY <1>4, <2>1 DEF Placed, Above
<1>7. ASSUME NEW f \in 2 .. Len(m.fstack)
      PROVE  Placed(m, f) /\ (m.fstack[f].retptr = NoReturn <=> f = 2)
  <2>1. CASE f \in 2 .. k + 1
    <3>1. Placed(m, f)
      <4>1. f \in 2 .. k \/ f = k + 1  BY <1>3, <2>1
      <4> QED  BY <1>5, <1>6, <4>1
    <3>2. f \in 2 .. Len(vm.fstack) /\ f \in 1 .. k + 1  BY <1>2, <1>3, <2>1
    <3>3. vm.fstack[f].retptr = NoReturn <=> f = 2  BY <1>1, <3>2 DEF Framed
    <3> QED  BY <1>4, <3>1, <3>2, <3>3
  <2>2. CASE f \notin 2 .. k + 1
    <3>1. f = k + 2 /\ f # 2 /\ Len(m.fstack) = k + 2  BY <1>2, <1>3, <1>4, <2>2
    <3> QED  BY <3>1 DEF Above
  <2> QED  BY <2>1, <2>2
<1>8. ASSUME NEW f \in 3 .. Len(m.fstack)
      PROVE  m.fstack[f].args = knone \/ TypeOf(m, m.fstack[f].args) = "ARRAY"
  <2>1. CASE f \in 3 .. k + 1
    <3>1. f \in 3 .. Len(vm.fstack) /\ f \in 1 .. k + 1 /\ f \in 1 .. Len(vm.fstack)
      BY <1>2, <1>3, <2>1
    <3>2. vm.fstack[f].args = knone \/ TypeOf(vm, vm.fstack[f].args) = "ARRAY"
      BY <1>1, <3>1 DEF Framed
    <3>3. vm.fstack[f].args \in Plain(vm.values)  BY <1>1, <3>1, FramesAre
    <3>4. PICK id : id = vm.fstack[f].args  OBVIOUS
    <3>5. id \in Plain(vm.values) /\ Later(vm.values, m.values, A) /\ m.fstack[f].args = id
      BY <1>4, <3>1, <3>3, <3>4 DEF Above
    <3>6. m.values[id].type = vm.values[id].type  BY <3>5 DEF Later, Plain
    <3> QED  BY <3>2, <3>4, <3>5, <3>6 DEF TypeOf
  <2>2. CASE f \notin 3 .. k + 1
    <3>1. f = k + 2 /\ Len(m.fstack) = k + 2  BY <1>2, <1>3, <1>4, <2>2
    <3> QED  BY <3>1 DEF Above
  <2> QED  BY <2>1, <2>2
<1> QED  BY <1>7, <1>8 DEF Framed

Frames(m, k, a, b) ==
  /\ Len(a) = Len(m.fstack) - 1 /\ a = [f \in 1 .. Len(m.fstack) - 1 |-> a[f]]
  /\ Len(b) = Len(vm.fstack) - 1 /\ b = [f \in 1 .. Len(vm.fstack) - 1 |-> b[f]]
  /\ \A f \in 1 .. k - 1 : a[f] = b[f]
  /\ a[k] = [sptr |-> vm.fstack[k + 1].sptr, base |-> Base(vm.fstack[k + 1]),
             want |-> H(GoesOn(m, k + 1))]
  /\ b[k] = [sptr |-> vm.fstack[k + 1].sptr, base |-> Base(vm.fstack[k + 1]),
             want |-> H(GoesOn(vm, k + 1))]
  /\ Len(m.fstack) = k + 2 =>
       a[k + 1] = [sptr |-> m.fstack[k + 2].sptr, base |-> Base(m.fstack[k + 2]),
                   want |-> H(m.iptr)]

LEMMA AboveActivations ==
  ASSUME VmInv, vm.halted = FALSE, NEW m, NEW k, NEW A, Above(m, k, A),
         NEW a, a = Activations(m), NEW b, b = Activations(vm)
  PROVE  Frames(m, k, a, b)
<1>1. Sound(vm, Entries) /\ Sound(m, Entries) /\ program \in DOMAIN Programs
      /\ k \in 1 .. Len(vm.fstack) - 1
  BY DEF VmInv, Above
<1>2. Len(vm.fstack) \in Nat /\ Len(vm.fstack) >= 2 /\ Len(m.fstack) \in Nat
  BY <1>1, FramesAre
<1>3. k \in Nat /\ k >= 1 /\ k + 1 <= Len(vm.fstack)  BY <1>1, <1>2
<1>4. Len(m.fstack) \in {k + 1, k + 2}
      /\ \A f \in 1 .. k + 1 : m.fstack[f] = vm.fstack[f]
  BY DEF Above
<1>7. /\ Len(a) = Len(m.fstack) - 1 /\ DOMAIN a = 1 .. Len(m.fstack) - 1
      /\ a = [f \in 1 .. Len(m.fstack) - 1 |-> a[f]]
      /\ \A f \in 1 .. Len(m.fstack) - 1 :
           a[f] = [sptr |-> m.fstack[f + 1].sptr, base |-> Base(m.fstack[f + 1]),
                   want |-> H(GoesOn(m, f + 1))]
  BY <1>1, ActivationsAre
<1>8. /\ Len(b) = Len(vm.fstack) - 1 /\ DOMAIN b = 1 .. Len(vm.fstack) - 1
      /\ b = [f \in 1 .. Len(vm.fstack) - 1 |-> b[f]]
      /\ \A f \in 1 .. Len(vm.fstack) - 1 :
           b[f] = [sptr |-> vm.fstack[f + 1].sptr, base |-> Base(vm.fstack[f + 1]),
                   want |-> H(GoesOn(vm, f + 1))]
  BY <1>1, ActivationsAre
<1>9. k \in 1 .. Len(m.fstack) - 1 /\ k + 1 \in 1 .. k + 1  BY <1>2, <1>3, <1>4
<1>10. ASSUME NEW f \in 1 .. k - 1  PROVE a[f] = b[f]
  <2>1. f \in 1 .. Len(m.fstack) - 1 /\ f \in 1 .. Len(vm.fstack) - 1
        /\ f + 1 \in 1 .. k + 1 /\ f + 1 + 1 \in 1 .. k + 1
        /\ f + 1 # Len(m.fstack) /\ f + 1 # Len(vm.fstack)
    BY <1>2, <1>3, <1>4
  <2>2. GoesOn(m, f + 1) = GoesOn(vm, f + 1)  BY <1>4, <2>1 DEF GoesOn
  <2>3. m.fstack[f + 1] = vm.fstack[f + 1]  BY <1>4, <2>1
  <2> QED  BY <1>7, <1>8, <2>1, <2>2, <2>3
<1>11. a[k] = [sptr |-> vm.fstack[k + 1].sptr, base |-> Base(vm.fstack[k + 1]),
               want |-> H(GoesOn(m, k + 1))]
  BY <1>4, <1>7, <1>9
<1>12. b[k] = [sptr |-> vm.fstack[k + 1].sptr, base |-> Base(vm.fstack[k + 1]),
               want |-> H(GoesOn(vm, k + 1))]
  BY <1>1, <1>8
<1>13. ASSUME Len(m.fstack) = k + 2
       PROVE  a[k + 1] = [sptr |-> m.fstack[k + 2].sptr, base |-> Base(m.fstack[k + 2]),
                          want |-> H(m.iptr)]
  <2>1. k + 1 \in 1 .. Len(m.fstack) - 1 /\ k + 1 + 1 = k + 2  BY <1>3, <1>13
  <2>2. GoesOn(m, k + 2) = m.iptr  BY <1>13 DEF GoesOn
  <2> QED  BY <1>7, <2>1, <2>2
<1> QED  BY <1>7, <1>8, <1>10, <1>11, <1>12, <1>13 DEF Frames

\* The frames as Calls sees them: s, and what is above.
FramesWith(m, k, s) ==
  /\ Len(m.fstack) = k + 1 => Activations(m) = s
  /\ Len(m.fstack) = k + 2 /\ H(m.iptr) = 0 =>
       Activations(m) =
         Append(s, PP!Began(m.fstack[k + 2].sptr, Base(m.fstack[k + 2])))

LEMMA ActivationsFrom ==
  ASSUME VmInv, vm.halted = FALSE, NEW m, NEW k, NEW A, Above(m, k, A),
         NEW s \in Seq(PP!Frame), Len(s) = k,
         \A f \in 1 .. k - 1 : s[f] = Activations(vm)[f],
         s[k] = [sptr |-> vm.fstack[k + 1].sptr, base |-> Base(vm.fstack[k + 1]),
                 want |-> H(GoesOn(m, k + 1))]
  PROVE  FramesWith(m, k, s)
<1>1. Sound(vm, Entries) /\ Sound(m, Entries) /\ k \in 1 .. Len(vm.fstack) - 1
  BY DEF VmInv, Above
<1>2. k \in Nat /\ k >= 1  BY <1>1, FramesAre
<1>3. PICK a, b : a = Activations(m) /\ b = Activations(vm)  OBVIOUS
<1>4. /\ a = [f \in 1 .. Len(m.fstack) - 1 |-> a[f]]
      /\ \A f \in 1 .. k - 1 : a[f] = b[f]
      /\ a[k] = [sptr |-> vm.fstack[k + 1].sptr, base |-> Base(vm.fstack[k + 1]),
                 want |-> H(GoesOn(m, k + 1))]
      /\ Len(m.fstack) = k + 2 =>
           a[k + 1] = [sptr |-> m.fstack[k + 2].sptr, base |-> Base(m.fstack[k + 2]),
                       want |-> H(m.iptr)]
  <2>1. Frames(m, k, a, b)  BY <1>3, AboveActivations
  <2> QED  BY <2>1 DEF Frames
<1>5. ASSUME NEW f \in 1 .. k  PROVE a[f] = s[f]
  <2>1. f \in 1 .. k - 1 \/ f = k  BY <1>2
  <2> QED  BY <1>3, <1>4, <2>1
<1>6. ASSUME Len(m.fstack) = k + 1  PROVE a = s
  <2>1. Len(m.fstack) - 1 = k  BY <1>2, <1>6
  <2>2. a = [f \in 1 .. Len(s) |-> a[f]]  BY <1>4, <2>1
  <2>3. \A f \in 1 .. Len(s) : a[f] = s[f]  BY <1>5
  <2> QED  BY <2>2, <2>3, SameSeq
<1>7. ASSUME Len(m.fstack) = k + 2, H(m.iptr) = 0, NEW fr,
             fr = PP!Began(m.fstack[k + 2].sptr, Base(m.fstack[k + 2]))
      PROVE  a = Append(s, fr)
  <2>1. Len(m.fstack) - 1 = k + 1 /\ k + 2 \in 1 .. Len(m.fstack)  BY <1>2, <1>7
  <2>2. a[k + 1] = fr  BY <1>4, <1>7 DEF PP!Began
  <2>3. PICK t : t = Append(s, fr)  OBVIOUS
  <2>4. PICK S : S = PP!Frame \cup {fr}  OBVIOUS
  <2>5. s \in Seq(S) /\ fr \in S  BY <2>4
  <2>6. /\ t \in Seq(S) /\ Len(t) = k + 1
        /\ \A i \in 1 .. k : t[i] = s[i]
        /\ t[k + 1] = fr
    BY <2>3, <2>5, Grows
  <2>7. a = [f \in 1 .. Len(t) |-> a[f]]  BY <1>4, <2>1, <2>6
  <2>8. \A f \in 1 .. Len(t) : a[f] = t[f]
    <3>1. \A f \in 1 .. Len(t) : f \in 1 .. k \/ f = k + 1  BY <1>2, <2>6
    <3> QED  BY <1>5, <2>2, <2>6, <3>1
  <2>9. a = t  BY <2>6, <2>7, <2>8, SameSeq
  <2> QED  BY <2>3, <2>9
<1> QED  BY <1>3, <1>6, <1>7 DEF FramesWith

\* Of a machine that goes on as this one would.
LEMMA ActivationsUpTo ==
  ASSUME VmInv, vm.halted = FALSE, NEW m, NEW k, NEW A, Above(m, k, A),
         H(GoesOn(m, k + 1)) = H(GoesOn(vm, k + 1))
  PROVE  FramesWith(m, k, SubSeq(Activations(vm), 1, k))
<1>1. PICK b : b = Activations(vm)  OBVIOUS
<1>2. b \in Seq(PP!Frame)  BY <1>1, InvIs DEF VmInv, PP!InOrder
<1>3. /\ Len(b) = Len(vm.fstack) - 1 /\ k \in 1 .. Len(vm.fstack) - 1
      /\ b[k] = [sptr |-> vm.fstack[k + 1].sptr, base |-> Base(vm.fstack[k + 1]),
                 want |-> H(GoesOn(vm, k + 1))]
  <2>1. PICK a : a = Activations(m)  OBVIOUS
  <2>2. Frames(m, k, a, b)  BY <1>1, <2>1, AboveActivations
  <2>3. k \in 1 .. Len(vm.fstack) - 1  BY DEF Above
  <2> QED  BY <2>2, <2>3 DEF Frames
<1>4. PICK n : n = Len(b) - k  OBVIOUS
<1>5. n \in Nat /\ n <= Len(b) /\ Len(b) - n = k /\ k >= 1 /\ k \in Nat
  BY <1>2, <1>3, <1>4, LenProperties
<1>6. PICK s : s = SubSeq(b, 1, Len(b) - n)  OBVIOUS
<1>7. s \in Seq(PP!Frame) /\ Len(s) = k /\ \A f \in 1 .. k : s[f] = b[f]
  BY <1>2, <1>5, <1>6, Shrinks
<1>8. s = SubSeq(b, 1, k)  BY <1>5, <1>6
<1>9. s[k] = [sptr |-> vm.fstack[k + 1].sptr, base |-> Base(vm.fstack[k + 1]),
              want |-> H(GoesOn(m, k + 1))]
  BY <1>3, <1>5, <1>7
<1>10. \A f \in 1 .. k - 1 : s[f] = Activations(vm)[f]  BY <1>1, <1>5, <1>7
<1>11. Len(s) = k /\ s \in Seq(PP!Frame)  BY <1>7
<1>12. FramesWith(m, k, s)
  BY <1>9, <1>10, <1>11, ActivationsFrom
<1> QED  BY <1>1, <1>8, <1>12

\* Of one whose last frame goes on elsewhere.
LEMMA ActivationsWanting ==
  ASSUME VmInv, vm.halted = FALSE, NEW m, NEW k, NEW A, Above(m, k, A),
         k = Len(vm.fstack) - 1, NEW want \in Nat, want = H(GoesOn(m, k + 1))
  PROVE  FramesWith(m, k, Wanting(want))
<1>1. PICK b : b = Activations(vm)  OBVIOUS
<1>2. b \in Seq(PP!Frame)  BY <1>1, InvIs DEF VmInv, PP!InOrder
<1>3. /\ Len(b) = k /\ k \in 1 .. k
      /\ b[k] = [sptr |-> vm.fstack[k + 1].sptr, base |-> Base(vm.fstack[k + 1]),
                 want |-> H(GoesOn(vm, k + 1))]
  <2>1. PICK a : a = Activations(m)  OBVIOUS
  <2>2. Frames(m, k, a, b)  BY <1>1, <2>1, AboveActivations
  <2>3. k \in 1 .. Len(vm.fstack) - 1  BY DEF Above
  <2> QED  BY <2>2, <2>3 DEF Frames
<1>4. PICK s : s = [b EXCEPT ![k].want = want]  OBVIOUS
<1>5. s = Wanting(want)  BY <1>1, <1>3, <1>4 DEF Wanting
<1>6. s \in Seq(PP!Frame) /\ Len(s) = k /\ \A f \in 1 .. k - 1 : s[f] = b[f]
  <2>1. b[k] \in PP!Frame /\ DOMAIN b = 1 .. k  BY <1>2, <1>3, ElementOfSeq, LenProperties
  <2>2. [b[k] EXCEPT !.want = want] \in PP!Frame  BY <2>1 DEF PP!Frame
  <2>3. PICK F : F = PP!Frame  OBVIOUS
  <2>4. PICK fr : fr = [b[k] EXCEPT !.want = want]  OBVIOUS
  <2>5. s = [b EXCEPT ![k] = fr] /\ fr \in F /\ b \in Seq(F)  BY <1>2, <1>4, <2>2, <2>3, <2>4
  <2>6. s \in Seq(F) /\ Len(s) = k  BY <1>3, <2>5
  <2>7. \A f \in 1 .. k - 1 : s[f] = b[f]  BY <1>3, <2>1, <2>5
  <2> QED  BY <2>3, <2>6, <2>7
<1>7. s[k] = [sptr |-> vm.fstack[k + 1].sptr, base |-> Base(vm.fstack[k + 1]),
              want |-> want]
  <2>1. s[k] = [b[k] EXCEPT !.want = want]  BY <1>2, <1>3, <1>4, LenProperties
  <2> QED  BY <1>3, <2>1
<1> QED  BY <1>1, <1>5, <1>6, <1>7, ActivationsFrom

LEMMA ReadyAbove ==
  ASSUME VmInv, vm.halted = FALSE, NEW m, NEW k, NEW A, Above(m, k, A),
         NEW j, Matches(m, j), Len(m.stack) = j + 1, Fits1(m, j + 1), j <= Room + 1,
         Len(m.fstack) <= Room + 1, m.check => Len(m.fstack) <= Room
  PROVE  Ready(m)
<1>1. Sound(m, Entries) /\ j \in Nat /\ k \in 1 .. Len(vm.fstack) - 1
      /\ program \in DOMAIN Programs /\ Sound(vm, Entries)
  BY DEF VmInv, Above, Matches
<1>2. \A i \in 1 .. Len(m.stack) : Fits1(m, i)
  <2>1. \A i \in 1 .. Len(m.stack) : i \in 1 .. j \/ i = j + 1  BY <1>1
  <2> QED  BY <2>1 DEF Matches
<1>3. Room \in Nat  BY MachineAssumption DEF Room
<1>4. Len(m.stack) <= Room + 2  BY <1>1, <1>3
<1>5. /\ Bare(m) /\ Within(m)
      /\ Len(m.stack) <= StackSize /\ Len(m.fstack) <= StackSize
  BY <1>1, <1>2, <1>4, BareWithin
<1>6. Framed(m)  BY AboveFramed
<1>7. m.iptr \in DOMAIN Code
  <2>1. Len(m.fstack) \in {k + 1, k + 2}  BY DEF Above
  <2>2. CASE Len(m.fstack) = k + 1
    <3>1. GoesOn(m, k + 1) = m.iptr  BY <2>2 DEF GoesOn
    <3> QED  BY <3>1 DEF Above
  <2>3. CASE Len(m.fstack) = k + 2
    <3>1. GoesOn(m, k + 2) = m.iptr  BY <2>3 DEF GoesOn
    <3> QED  BY <2>3, <3>1 DEF Above, Placed
  <2> QED  BY <2>1, <2>2, <2>3
<1>8. m.iptr \in 1 .. Len(Code) + 1  BY <1>1, <1>7, CodeIs
<1> QED  BY <1>1, <1>5, <1>6, <1>8 DEF Ready

\* A function is called.
InFunction(m, r, k, j, A) ==
  /\ Ready(r) /\ r.halted = FALSE /\ r.check = FALSE
  /\ Above(r, k, A) /\ Len(r.fstack) = k + 2 /\ GoesOn(r, k + 1) = GoesOn(m, k + 1)
  /\ H(r.iptr) = 0 /\ r.fstack[k + 2].sptr = j /\ Base(r.fstack[k + 2]) = j + 1
  /\ SlotKinds(r) = Append(SubSeq(SlotKinds(vm), 1, j), "value")

LEMMA Enters ==
  ASSUME VmInv, vm.halted = FALSE, NEW m, NEW k, NEW A, Above(m, k, A),
         Len(m.fstack) = k + 1, NEW j, Matches(m, j), Len(m.stack) = j,
         j <= Room + 1, Len(vm.fstack) <= Room, m.halted = FALSE, m.check = FALSE,
         NEW func \in DOMAIN m.values, TypeOf(m, func) = "FUNCTION",
         NEW args \in Plain(m.values), TypeOf(m, args) = "ARRAY",
         NEW r, r = CallFuncWithArgs(m, func, args)
  PROVE  InFunction(m, r, k, j, A)
<1>1. /\ Sound(m, Entries) /\ Later(vm.values, m.values, A) /\ k \in 1 .. Len(vm.fstack) - 1
      /\ GoesOn(m, k + 1) \in DOMAIN Code
      /\ Bodies(Code)[GoesOn(m, k + 1)] = BodyOf(vm.fstack[k + 1])
      /\ \A f \in 1 .. k + 1 : m.fstack[f] = vm.fstack[f]
      /\ Sound(vm, Entries) /\ program \in DOMAIN Programs /\ j \in Nat
  BY DEF Above, VmInv, Matches
<1>2. k \in Nat /\ k >= 1 /\ k + 1 <= Len(vm.fstack) /\ Len(vm.fstack) \in Nat
  BY <1>1, FramesAre
<1>3. GoesOn(m, k + 1) = m.iptr  BY DEF GoesOn
<1>4. m.iptr \in Nat  BY <1>1, <1>3, CodeIs
<1>5. Entered(m, r, args, Entries)  BY <1>1, <1>4, EnterSound
<1>6. PICK f : f = r.fstack[k + 2]  OBVIOUS
<1>7. /\ Sound(r, Entries) /\ Later(m.values, r.values, {})
      /\ r.halted = FALSE /\ r.check = FALSE /\ r.iptr \in Entries
      /\ Len(r.fstack) = k + 2
      /\ \A g \in 1 .. k + 1 : r.fstack[g] = m.fstack[g]
      /\ f.sptr = j /\ f.retptr = m.iptr /\ f.args = args
      /\ Len(r.stack) = j + 1 /\ r.stack[j + 1] = knone
      /\ \A i \in 1 .. j : r.stack[i] = m.stack[i]
  <2>1. Len(m.fstack) + 1 = k + 2  BY <1>2
  <2> QED  BY <1>5, <1>6, <2>1 DEF Entered
<1>8. Later(vm.values, r.values, A)
  <2>1. Later(m.values, r.values, A)  BY <1>7, LaterMore
  <2> QED  BY <1>1, <2>1, LaterTwice
<1>9. /\ GoesOn(r, k + 1) = m.iptr /\ GoesOn(r, k + 2) = r.iptr
  <2>1. k + 1 # Len(r.fstack) /\ k + 1 + 1 = k + 2  BY <1>2, <1>7
  <2> QED  BY <1>6, <1>7, <2>1 DEF GoesOn
<1>10. r.iptr \in DOMAIN Code /\ Bodies(Code)[r.iptr] = "function" /\ H(r.iptr) = 0
  BY <1>7 DEF Entries, H
<1>11. TypeOf(r, args) = "ARRAY" /\ args # knone /\ args \in Plain(m.values)
  <2>1. r.values[args].type = "ARRAY"  BY <1>7 DEF Later, Plain, TypeOf
  <2>2. r.values[knone].type = "NONE"  BY <1>7, HeapIs DEF Sound
  <2> QED  BY <2>1, <2>2 DEF TypeOf
<1>12. f.retptr # NoReturn  BY <1>4, <1>7 DEF NoReturn
<1>13. BodyOf(f) = "function" /\ Base(f) = j + 1
  BY <1>7, <1>11, <1>12 DEF BodyOf, Base
<1>14. Placed(r, k + 2)  BY <1>6, <1>9, <1>10, <1>13 DEF Placed
<1>15. Above(r, k, A)
  <2>1. \A g \in 1 .. k + 1 : r.fstack[g] = vm.fstack[g]  BY <1>1, <1>7
  <2> QED  BY <1>1, <1>3, <1>6, <1>7, <1>8, <1>9, <1>11, <1>12, <1>14, <2>1 DEF Above
<1>16. Matches(r, j)
  <2>1. j <= Len(r.stack)  BY <1>1, <1>7
  <2> QED  BY <1>7, <2>1, MatchesLater
<1>17. knone \in Plain(r.values)  BY <1>7, HeapIs DEF Sound, knone
<1>18. Kind(r, r.stack[j + 1]) = "value" /\ Fits1(r, j + 1)
  <2>1. Kind(r, knone) = "value"  BY <1>17, KindIs
  <2>2. r.values[knone].type \notin Hidden  BY <1>17 DEF Plain
  <2> QED  BY <1>7, <2>1, <2>2 DEF Fits1, Hidden
<1>19. SlotKinds(r) = Append(SubSeq(SlotKinds(vm), 1, j), "value")
  BY <1>7, <1>16, <1>18, KindsAbove
<1>20. Ready(r)
  <2>1. Room \in Nat  BY MachineAssumption DEF Room
  <2>2. Len(r.fstack) <= Room + 1  BY <1>2, <1>7, <2>1
  <2> QED  BY <1>7, <1>15, <1>16, <1>18, <2>2, ReadyAbove
<1> QED  BY <1>3, <1>6, <1>7, <1>9, <1>10, <1>13, <1>15, <1>19, <1>20 DEF InFunction

-----------------------------------------------------------------------------
(* FUNC_CALL and FUNC_CALL_INFIX. *)

\* Function and arguments are taken from the stack.
Taken(d, n, j, k) ==
  /\ Matches(d, j) /\ Len(d.stack) = j /\ j <= Room /\ j + 1 <= Room
  /\ Above(d, k, {}) /\ Len(d.fstack) = k + 1 /\ Len(vm.fstack) <= Room
  /\ GoesOn(d, k + 1) = vm.iptr + 1 /\ H(vm.iptr + 1) = Last.want - n
  /\ n < Last.want /\ Last.want - n \in Nat
  /\ j \in Nat /\ (j > 0 => vm.stack[j] \in Plain(vm.values))
  /\ d.halted = FALSE /\ d.check = FALSE /\ d.iptr = vm.iptr + 1

LEMMA CallTakes ==
  ASSUME VmInv, NEW op \in Falls, At(op), NEW n \in Nat, Takes(Instr) = n + 1,
         Effect(Instr) = 0 - n, NEW d, Dropped(d, n + 1), NEW j, j = Len(vm.stack) - n - 1,
         NEW k, k = Len(vm.fstack) - 1
  PROVE  Taken(d, n, j, k)
<1>1. /\ vm.halted = FALSE /\ vm.check = FALSE /\ Instr = Code[vm.iptr] /\ Instr.op = op
      /\ Sound(vm, Entries) /\ Legal(vm.iptr)
      /\ Len(vm.stack) \in Nat /\ Len(vm.stack) <= Room
      /\ Len(vm.fstack) <= Room /\ Room \in Nat /\ Takes(Instr) <= Len(vm.stack)
  BY AtIs
<1>2. /\ Sound(d, Entries) /\ d.values = vm.values /\ Beside(fetched, d)
      /\ Len(d.stack) = Len(vm.stack) - (n + 1)
      /\ \A i \in 1 .. Len(vm.stack) - (n + 1) : d.stack[i] = vm.stack[i]
  BY DEF Dropped
<1>3. /\ d.iptr = vm.iptr + 1 /\ d.fstack = vm.fstack /\ d.halted = FALSE /\ d.check = FALSE
  BY <1>1, <1>2, FetchedIs DEF Beside
<1>4. j \in Nat /\ j <= Len(vm.stack) /\ j + 1 <= Room /\ Len(d.stack) = j
      /\ \A i \in 1 .. j : d.stack[i] = vm.stack[i]
  BY <1>1, <1>2
<1>5. Later(vm.values, d.values, {})  BY <1>2, LaterSame
<1>6. Below(d, j, {})  BY <1>2, <1>4, <1>5 DEF Below
<1>7. Matches(d, j)  BY <1>1, <1>6, BelowMatches
<1>8. Len(vm.fstack) \in Nat /\ Len(vm.fstack) >= 2  BY <1>1, FramesAre
<1>9. k \in 1 .. Len(vm.fstack) - 1 /\ Len(vm.fstack) = k + 1 /\ k \in Nat  BY <1>8
<1>10. vm.iptr + 1 \in Follow(Code, vm.iptr)
  BY <1>1 DEF Falls, Follow
<1>11. /\ vm.iptr + 1 \in DOMAIN Code
       /\ Bodies(Code)[vm.iptr + 1] = Bodies(Code)[vm.iptr]
       /\ H(vm.iptr + 1) = H(vm.iptr) + Effect(Instr)
  BY <1>1, <1>10 DEF Legal
<1>12. /\ Bodies(Code)[vm.iptr] = BodyOf(Frame(vm))
       /\ Last = [sptr |-> Frame(vm).sptr, base |-> Base(Frame(vm)), want |-> H(vm.iptr)]
  BY <1>1, Here
<1>13. GoesOn(d, k + 1) = vm.iptr + 1  BY <1>3, <1>9 DEF GoesOn
<1>14. Frame(vm) = vm.fstack[k + 1]  BY <1>1, <1>9, FramesAre
<1>15. Len(d.fstack) = k + 1 /\ Len(d.fstack) # k + 2  BY <1>3, <1>9
<1>16. Above(d, k, {})
  BY <1>2, <1>3, <1>5, <1>9, <1>11, <1>12, <1>13, <1>14, <1>15 DEF Above
<1>17. PICK want : want = H(vm.iptr)  OBVIOUS
<1>18. want \in Nat /\ n + 1 <= want /\ H(vm.iptr + 1) = want + (0 - n)
  BY <1>1, <1>11, <1>17 DEF Legal
<1>19. Last.want = want  BY <1>12, <1>17
<1>20. H(vm.iptr + 1) = Last.want - n /\ n < Last.want /\ Last.want - n \in Nat
  BY <1>18, <1>19
<1>21. ASSUME j > 0  PROVE vm.stack[j] \in Plain(vm.values)
  <2>1. PICK base : base = Base(Frame(vm))  OBVIOUS
  <2>2. base \in Nat /\ Len(vm.stack) = base + want  BY <1>1, <1>17, <2>1, OwnSlots
  <2>3. j \in 1 .. Len(vm.stack) /\ j >= base  BY <1>1, <1>4, <1>18, <1>21, <2>2
  <2> QED  BY <1>1, <2>1, <2>3, OwnSlots
<1>22. j <= Room  BY <1>1, <1>4
<1> QED  BY <1>1, <1>3, <1>4, <1>7, <1>13, <1>15, <1>16, <1>20, <1>21, <1>22 DEF Taken

\* The machine m is c, with check set when what c has on top needs a look.
Looks(c) == \/ TypeOf(c, Slot(c, 1)) \in {"RETURN", "CONTINUATION"}
            \/ (Len(c.stack) >= 2 /\ TypeOf(c, Slot(c, 2)) = "CONTINUATION")
Looking(c, m) ==
  /\ Sound(m, Entries) /\ m.check = Looks(c)
  /\ m.values = c.values /\ m.stack = c.stack
  /\ m.fstack = c.fstack /\ m.halted = c.halted /\ m.iptr = c.iptr
  /\ m.modules = c.modules /\ m.fs = c.fs /\ m.kundeclared = c.kundeclared

\* What a C function has returned.
LEMMA AfterIs ==
  ASSUME NEW c, Sound(c, Entries), NEW m, m = AfterCFuncReturn(c)
  PROVE  Looking(c, m)
<1>1. Looks(c) \in BOOLEAN  BY DEF Looks
<1>2. PICK b \in BOOLEAN : b = Looks(c)  BY <1>1
<1>3. m = [c EXCEPT !.check = b]  BY <1>2 DEF AfterCFuncReturn, Looks
<1>4. /\ IsMachine(m) /\ m.check = b /\ m.values = c.values /\ m.stack = c.stack
      /\ m.fstack = c.fstack /\ m.halted = c.halted /\ m.iptr = c.iptr
      /\ m.modules = c.modules /\ m.fs = c.fs /\ m.kundeclared = c.kundeclared
  BY <1>3 DEF Sound, IsMachine
<1>5. Sound(m, Entries)  BY <1>4, SoundAs DEF Sound
<1> QED  BY <1>2, <1>4, <1>5 DEF Looking

LEMMA ArgumentsAlloc ==
  ASSUME NEW d, Sound(d, Entries), NEW argv \in Seq(Plain(d.values)),
         NEW r, r = Alloc(d, Array(argv)), NEW id, id = NewId(d)
  PROVE  Quietly(d, r, Entries) /\ id \in Plain(r.values) /\ TypeOf(r, id) = "ARRAY"
<1>1. PICK x : x = Array(argv)  OBVIOUS
<1>2. Fine(x, d.values, Entries, d.fs) /\ x.type = "ARRAY"  BY <1>1, ArrayFine
<1>3. x.type \notin Hidden  BY <1>2 DEF Hidden
<1>4. r = Alloc(d, x)  BY <1>1
<1>5. Quietly(d, r, Entries) /\ id \in Plain(r.values)  BY <1>2, <1>3, <1>4, AllocIs
<1>6. r.values[id] = x  BY <1>2, <1>4, AllocQuietly
<1> QED  BY <1>2, <1>5, <1>6 DEF TypeOf

\* What was made quietly is where it was.
LEMMA QuietlyAbove ==
  ASSUME NEW d, NEW k, NEW A, Above(d, k, A), Len(d.fstack) = k + 1,
         NEW j, Matches(d, j), Len(d.stack) = j, NEW r, Quietly(d, r, Entries)
  PROVE  /\ Above(r, k, A) /\ Len(r.fstack) = k + 1 /\ GoesOn(r, k + 1) = GoesOn(d, k + 1)
         /\ Matches(r, j) /\ Len(r.stack) = j
         /\ r.halted = d.halted /\ r.check = d.check /\ r.iptr = d.iptr
<1>1. /\ Sound(r, Entries) /\ Later(d.values, r.values, {}) /\ r.stack = d.stack
      /\ r.halted = d.halted /\ r.check = d.check /\ r.iptr = d.iptr /\ r.fstack = d.fstack
  BY DEF Quietly, Beside
<1>2. Later(vm.values, r.values, A)
  <2>1. Later(d.values, r.values, A)  BY <1>1, LaterMore
  <2> QED  BY <2>1, LaterTwice DEF Above
<1>3. GoesOn(r, k + 1) = GoesOn(d, k + 1)  BY <1>1 DEF GoesOn
<1>4. Len(r.fstack) # k + 2
  <2>1. k \in Nat  BY FramesAre DEF Above
  <2> QED  BY <1>1, <2>1
<1>5. Above(r, k, A)  BY <1>1, <1>2, <1>3, <1>4 DEF Above
<1>6. j \in Nat  BY DEF Matches
<1>7. Matches(r, j)  BY <1>1, <1>6, MatchesLater
<1> QED  BY <1>1, <1>3, <1>5, <1>7

LEMMA CallFunctionStep ==
  ASSUME VmInv, NEW op \in Falls, At(op), NEW n \in Nat, Takes(Instr) = n + 1,
         Effect(Instr) = 0 - n, NEW d, Dropped(d, n + 1),
         NEW func \in Plain(vm.values), TypeOf(d, func) = "FUNCTION",
         NEW argv \in Seq(Plain(vm.values)),
         NEW m, m = CallFuncWithArgs(Alloc(d, Array(argv)), func, NewId(d)), Finish(m)
  PROVE  VmInv' /\ PP!Next
<1>1. PICK j, k : j = Len(vm.stack) - n - 1 /\ k = Len(vm.fstack) - 1  OBVIOUS
<1>2. /\ Matches(d, j) /\ Len(d.stack) = j /\ j <= Room /\ j + 1 <= Room
      /\ Above(d, k, {}) /\ Len(d.fstack) = k + 1 /\ Len(vm.fstack) <= Room
      /\ GoesOn(d, k + 1) = vm.iptr + 1 /\ H(vm.iptr + 1) = Last.want - n
      /\ n < Last.want /\ Last.want - n \in Nat
      /\ j \in Nat /\ d.halted = FALSE /\ d.check = FALSE
  <2>1. Taken(d, n, j, k)  BY <1>1, CallTakes
  <2> QED  BY <2>1 DEF Taken
<1>3. vm.halted = FALSE /\ vm.check = FALSE /\ Sound(vm, Entries)  BY AtIs
<1>4. Sound(d, Entries) /\ d.values = vm.values  BY DEF Dropped
<1>5. PICK c : c = Alloc(d, Array(argv))  OBVIOUS
<1>6. PICK args : args = NewId(d)  OBVIOUS
<1>7. Quietly(d, c, Entries) /\ args \in Plain(c.values) /\ TypeOf(c, args) = "ARRAY"
  BY <1>4, <1>5, <1>6, ArgumentsAlloc
<1>8. /\ Above(c, k, {}) /\ Len(c.fstack) = k + 1 /\ GoesOn(c, k + 1) = GoesOn(d, k + 1)
      /\ Matches(c, j) /\ Len(c.stack) = j /\ c.halted = FALSE /\ c.check = FALSE
  BY <1>2, <1>7, QuietlyAbove
<1>9. func \in DOMAIN c.values /\ TypeOf(c, func) = "FUNCTION"
  <2>1. Later(d.values, c.values, {})  BY <1>7 DEF Quietly
  <2> QED  BY <1>4, <2>1 DEF Later, Plain, TypeOf, Hidden
<1>10. m = CallFuncWithArgs(c, func, args)  BY <1>5, <1>6
<1>11. j <= Room + 1
  <2>1. Room \in Nat  BY MachineAssumption DEF Room
  <2> QED  BY <1>2, <2>1
<1>12. InFunction(c, m, k, j, {})
  BY <1>2, <1>3, <1>7, <1>8, <1>9, <1>10, <1>11, Enters
<1>13. /\ Ready(m) /\ m.halted = FALSE /\ m.check = FALSE
       /\ Above(m, k, {}) /\ Len(m.fstack) = k + 2 /\ GoesOn(m, k + 1) = vm.iptr + 1
       /\ H(m.iptr) = 0 /\ m.fstack[k + 2].sptr = j /\ Base(m.fstack[k + 2]) = j + 1
       /\ SlotKinds(m) = Append(SubSeq(SlotKinds(vm), 1, j), "value")
  BY <1>2, <1>8, <1>12 DEF InFunction
<1>14. PICK want : want = Last.want - n  OBVIOUS
<1>15. want \in Nat /\ want = H(GoesOn(m, k + 1))  BY <1>2, <1>13, <1>14
<1>16. Activations(m) = Append(Wanting(want), PP!Began(j, j + 1))
  <2>1. FramesWith(m, k, Wanting(want))
    BY <1>1, <1>3, <1>13, <1>15, ActivationsWanting
  <2> QED  BY <1>13, <2>1 DEF FramesWith
<1>17. Len(SlotKinds(vm)) = Len(vm.stack) /\ Len(vm.stack) \in Nat  BY <1>3, KindsAre, StackIs
<1>18. n \in 0 .. Len(SlotKinds(vm)) /\ j = Len(SlotKinds(vm)) - n - 1
  BY <1>1, <1>2, <1>17
<1> QED  BY <1>2, <1>3, <1>13, <1>14, <1>16, <1>18, StepCall

LEMMA CallCFunctionStep ==
  ASSUME VmInv, NEW op \in Falls, At(op), NEW n \in Nat, Takes(Instr) = n + 1,
         Effect(Instr) = 0 - n, NEW d, Dropped(d, n + 1),
         NEW func \in Plain(vm.values), TypeOf(d, func) = "CFUNCTION",
         NEW argv \in Seq(Plain(vm.values)),
         NEW m, m = AfterCFuncReturn(CallCFunction(d, d.values[func], argv)), Finish(m)
  PROVE  VmInv' /\ PP!Next
<1>1. PICK j, k : j = Len(vm.stack) - n - 1 /\ k = Len(vm.fstack) - 1  OBVIOUS
<1>2. /\ Matches(d, j) /\ Len(d.stack) = j /\ j <= Room /\ j + 1 <= Room
      /\ Above(d, k, {}) /\ Len(d.fstack) = k + 1 /\ Len(vm.fstack) <= Room
      /\ GoesOn(d, k + 1) = vm.iptr + 1 /\ H(vm.iptr + 1) = Last.want - n
      /\ n < Last.want /\ Last.want - n \in Nat
      /\ j \in Nat /\ (j > 0 => vm.stack[j] \in Plain(vm.values))
      /\ d.halted = FALSE /\ d.check = FALSE
  <2>1. Taken(d, n, j, k)  BY <1>1, CallTakes
  <2> QED  BY <2>1 DEF Taken
<1>3. vm.halted = FALSE /\ vm.check = FALSE /\ Sound(vm, Entries)
      /\ Len(vm.stack) \in Nat
  BY AtIs
<1>4. Sound(d, Entries) /\ d.values = vm.values /\ Heap(d.values, d.fs, Entries)
      /\ \A i \in 1 .. j : d.stack[i] = vm.stack[i]
  <2>1. j = Len(vm.stack) - (n + 1)  BY <1>1, <1>3
  <2> QED  BY <2>1 DEF Dropped, Sound
<1>5. PICK x : x = d.values[func]  OBVIOUS
<1>6. Fine(x, d.values, Entries, d.fs) /\ x.type = "CFUNCTION"
  BY <1>4, <1>5, HeapIs DEF Plain, TypeOf
<1>7. PICK c : c = CallCFunction(d, x, argv)  OBVIOUS
<1>8. Answers(d, c, Len(argv), Entries)  BY <1>4, <1>6, <1>7, CFunctionAnswers
<1>9. PICK id : id = Slot(c, 1)  OBVIOUS
<1>10. /\ Sound(c, Entries) /\ Beside(d, c) /\ Later(d.values, c.values, {})
       /\ Len(c.stack) = j + 1
       /\ \A i \in 1 .. j : c.stack[i] = d.stack[i]
  BY <1>2, <1>8 DEF Answers, Pushed
<1>11. id \in Plain(c.values) \/
         /\ id \in DOMAIN c.values
         /\ \/ c.values[id].type = "RETURN" /\ c.values[id].ret = knone
            \/ c.values[id].type = "CONTINUATION"
  BY <1>8, <1>9 DEF Answers
<1>12. id = c.stack[j + 1]  BY <1>2, <1>9, <1>10 DEF Slot
<1>13. ~(Len(c.stack) >= 2 /\ TypeOf(c, Slot(c, 2)) = "CONTINUATION")
  <2>1. SUFFICES ASSUME Len(c.stack) >= 2  PROVE TypeOf(c, Slot(c, 2)) # "CONTINUATION"
    OBVIOUS
  <2>2. j > 0 /\ Slot(c, 2) = c.stack[j] /\ j \in 1 .. j
    BY <1>2, <1>10, <2>1 DEF Slot
  <2>3. c.stack[j] = vm.stack[j] /\ vm.stack[j] \in Plain(d.values)
    BY <1>2, <1>4, <1>10, <2>2
  <2>4. Plain(d.values) \subseteq Plain(c.values)  BY <1>10, LaterSets
  <2> QED  BY <2>2, <2>3, <2>4 DEF Plain, TypeOf, Hidden
<1>14. PICK check : check = m.check  OBVIOUS
<1>15. m = AfterCFuncReturn(c)  BY <1>5, <1>7
<1>16. /\ Sound(m, Entries) /\ m.check = check /\ check \in BOOLEAN
       /\ check <=> TypeOf(c, id) \in {"RETURN", "CONTINUATION"}
       /\ m.values = c.values /\ m.stack = c.stack
       /\ m.fstack = c.fstack /\ m.halted = c.halted /\ m.iptr = c.iptr
       /\ m.modules = c.modules /\ m.fs = c.fs /\ m.kundeclared = c.kundeclared
  <2>1. Looking(c, m)  BY <1>10, <1>15, AfterIs
  <2>2. Looks(c) <=> TypeOf(c, id) \in {"RETURN", "CONTINUATION"}  BY <1>9, <1>13 DEF Looks
  <2>3. check = Looks(c) /\ Looks(c) \in BOOLEAN  BY <1>14, <2>1 DEF Looking, Looks
  <2> QED  BY <1>14, <2>1, <2>2, <2>3 DEF Looking
<1>17. Sound(m, Entries)  BY <1>16
<1>18. m.halted = FALSE /\ m.fstack = d.fstack  BY <1>2, <1>10, <1>16 DEF Beside
<1>19. CASE id \in Plain(c.values)
  <2>1. check = FALSE
    <3>1. TypeOf(c, id) \notin {"RETURN", "CONTINUATION"}
      BY <1>19 DEF Plain, TypeOf, Hidden
    <3> QED  BY <1>16, <3>1
  <2>2. Beside(d, m)  BY <1>2, <1>10, <1>16, <2>1 DEF Beside
  <2>3. Slot(m, 1) \in Plain(m.values)  BY <1>9, <1>16, <1>19 DEF Slot
  <2>4. PushedPlain(d, m, Entries)
    BY <1>2, <1>10, <1>16, <1>17, <2>2, <2>3 DEF PushedPlain, Pushed
  <2>5. PICK t, e : t = Takes(Instr) /\ e = Effect(Instr)  OBVIOUS
  <2>6. n + 1 \in Nat /\ n + 1 <= Takes(Instr) /\ Effect(Instr) = 1 - (n + 1)
    BY <2>5
  <2> QED  BY <2>4, <2>6, PushStep
<1>20. CASE id \notin Plain(c.values)
  <2>1. /\ check = TRUE
        /\ c.values[id].type = "RETURN" => c.values[id].ret = knone
    BY <1>11, <1>16, <1>20 DEF TypeOf
  <2>2. Fits1(m, j + 1)
    BY <1>2, <1>12, <1>16, <2>1 DEF Fits1
  <2>3. \A i \in 1 .. j : m.stack[i] = vm.stack[i]  BY <1>4, <1>10, <1>16
  <2>4. Later(vm.values, m.values, {})  BY <1>4, <1>10, <1>16
  <2>5. Below(m, j, {})
    BY <1>1, <1>2, <1>3, <1>10, <1>16, <1>17, <2>3, <2>4 DEF Below
  <2>6. Matches(m, j)  BY <1>3, <2>5, BelowMatches
  <2>7. m.iptr = d.iptr  BY <1>10, <1>16 DEF Beside
  <2>8. GoesOn(m, k + 1) = GoesOn(d, k + 1)  BY <1>18, <2>7 DEF GoesOn
  <2>9. Above(m, k, {})
    <3>1. k \in Nat  BY <1>1, <1>3, FramesAre
    <3>2. Len(m.fstack) = k + 1 /\ Len(m.fstack) # k + 2  BY <1>2, <1>18, <3>1
    <3> QED  BY <1>2, <1>17, <1>18, <2>4, <2>8, <3>2 DEF Above
  <2>10. Len(m.fstack) = Len(vm.fstack)
    <3>1. Len(vm.fstack) \in Nat  BY <1>3, FramesAre
    <3> QED  BY <1>1, <1>2, <1>18, <3>1
  <2>11. Room \in Nat /\ Len(vm.fstack) \in Nat  BY <1>3, FramesAre, MachineAssumption DEF Room
  <2>12. Ready(m)
    <3>1. j <= Room + 1 /\ Len(m.fstack) <= Room + 1 /\ Len(m.fstack) <= Room
      BY <1>2, <2>10, <2>11
    <3> QED  BY <1>2, <1>3, <1>10, <1>16, <2>2, <2>6, <2>9, <3>1, ReadyAbove
  <2>13. PICK kind : kind = Kind(m, m.stack[j + 1])  OBVIOUS
  <2>14. SlotKinds(m) = Append(SubSeq(SlotKinds(vm), 1, j), kind)
    BY <1>10, <1>16, <2>6, <2>13, KindsAbove
  <2>15. kind \in PP!Kinds \ {"value"}
    <3>1. kind # "value"  BY <1>12, <1>11, <1>16, <1>20, <2>13, KindIs
    <3> QED  BY <2>13, <3>1 DEF Kind, PP!Kinds, PP!Continuations
  <2>16. PICK want : want = Last.want - n  OBVIOUS
  <2>17. want \in Nat /\ want = H(GoesOn(m, k + 1))  BY <1>2, <2>8, <2>16
  <2>18. Activations(m) = Wanting(want)
    <3>1. Len(m.fstack) = k + 1  BY <1>2, <1>18
    <3>2. FramesWith(m, k, Wanting(want))
      BY <1>1, <1>3, <2>9, <2>17, ActivationsWanting
    <3> QED  BY <3>1, <3>2 DEF FramesWith
  <2>19. Len(SlotKinds(vm)) = Len(vm.stack)  BY <1>3, KindsAre
  <2>20. n \in 0 .. Len(SlotKinds(vm)) /\ j = Len(SlotKinds(vm)) - n - 1
    BY <1>1, <1>2, <1>3, <2>19
  <2>21. SlotKinds(m) = Append(SubSeq(SlotKinds(vm), 1, Len(SlotKinds(vm)) - n - 1), kind)
    BY <2>14, <2>20
  <2>22. m.check = TRUE  BY <1>16, <2>1
  <2> QED  BY <1>2, <1>3, <1>18, <2>12, <2>15, <2>16, <2>18, <2>20, <2>21, <2>22, StepCallC
<1> QED  BY <1>19, <1>20

LEMMA CallFuncStep ==
  ASSUME VmInv, NEW op \in Falls, At(op), NEW n \in Nat, Takes(Instr) = n + 1,
         Effect(Instr) = 0 - n, NEW d, Dropped(d, n + 1),
         NEW func \in Plain(vm.values), NEW argv \in Seq(Plain(vm.values)),
         NEW m, m = CallFunc(d, func, argv), Finish(m)
  PROVE  VmInv' /\ PP!Next
<1>1. CASE TypeOf(d, func) = "FUNCTION"
  <2>1. m = CallFuncWithArgs(Alloc(d, Array(argv)), func, NewId(d))  BY <1>1 DEF CallFunc
  <2> QED  BY <1>1, <2>1, CallFunctionStep
<1>2. CASE TypeOf(d, func) = "CFUNCTION"
  <2>1. m = AfterCFuncReturn(CallCFunction(d, d.values[func], argv))  BY <1>2 DEF CallFunc
  <2> QED  BY <1>2, <2>1, CallCFunctionStep
<1>3. CASE TypeOf(d, func) \notin {"FUNCTION", "CFUNCTION"}
  <2>1. m = PushError(d)  BY <1>3 DEF CallFunc
  <2>2. PushedPlain(d, m, Entries)  BY <2>1, PushErrorPlain DEF Dropped
  <2>3. PICK t, e : t = Takes(Instr) /\ e = Effect(Instr)  OBVIOUS
  <2>4. n + 1 \in Nat /\ n + 1 <= Takes(Instr) /\ Effect(Instr) = 1 - (n + 1)
    BY <2>3
  <2> QED  BY <2>2, <2>4, PushStep
<1> QED  BY <1>1, <1>2, <1>3

LEMMA CallStep ==
  ASSUME VmInv, Call
  PROVE  VmInv' /\ PP!Next
<1>1. At("FUNC_CALL") /\ "FUNC_CALL" \in Falls  BY DEF Call, Falls, Operations
<1>2. PICK n : n = Instr.n  OBVIOUS
<1>3. Finish(CallFunc(Drop(fetched, n + 1), Slot(vm, n + 1), Args(vm, n)))  BY <1>2 DEF Call
<1>4. Instr.op = "FUNC_CALL" /\ Instr = Code[vm.iptr] /\ Legal(vm.iptr)  BY <1>1, AtIs
<1>5. n \in Nat  BY <1>2, <1>4 DEF Legal
<1>6. Takes(Instr) = n + 1 /\ Effect(Instr) = 0 - n  BY <1>2, <1>4, <1>5 DEF Takes, Effect
<1>7. PICK d : d = Drop(fetched, n + 1)  OBVIOUS
<1>8. n + 1 \in Nat /\ n + 1 <= Takes(Instr) /\ n + 1 \in 1 .. Takes(Instr)
  <2>1. PICK t : t = Takes(Instr)  OBVIOUS
  <2> QED  BY <1>5, <1>6, <2>1
<1>9. Dropped(d, n + 1)  BY <1>1, <1>7, <1>8, DropDropped
<1>10. Slot(vm, n + 1) \in Plain(vm.values)  BY <1>1, <1>8, Before
<1>11. Args(vm, n) \in Seq(Plain(vm.values))
  <2>1. n \in Nat /\ n <= Takes(Instr)
    <3>1. PICK t : t = Takes(Instr)  OBVIOUS
    <3> QED  BY <1>5, <1>6, <3>1
  <2> QED  BY <1>1, <2>1, ArgsPlain
<1>12. PICK func, argv : func = Slot(vm, n + 1) /\ argv = Args(vm, n)  OBVIOUS
<1>13. PICK m : m = CallFunc(d, func, argv)  OBVIOUS
<1>14. Finish(m)  BY <1>3, <1>7, <1>12, <1>13
<1> QED  BY <1>1, <1>5, <1>6, <1>9, <1>10, <1>11, <1>12, <1>13, <1>14, CallFuncStep

LEMMA CallInfixStep ==
  ASSUME VmInv, CallInfix
  PROVE  VmInv' /\ PP!Next
<1>1. At("FUNC_CALL_INFIX") /\ "FUNC_CALL_INFIX" \in Falls
  BY DEF CallInfix, Falls, Operations
<1>2. Instr.op = "FUNC_CALL_INFIX"  BY <1>1, AtIs
<1>3. Takes(Instr) = 2 + 1 /\ Effect(Instr) = 0 - 2  BY <1>2 DEF Takes, Effect
<1>4. PICK three : three = 3  OBVIOUS
<1>5. PICK d : d = Drop(fetched, three)  OBVIOUS
<1>6. three \in Nat /\ three <= Takes(Instr)
  <2>1. PICK t : t = Takes(Instr)  OBVIOUS
  <2> QED  BY <1>3, <1>4, <2>1
<1>7. Dropped(d, three)  BY <1>1, <1>5, <1>6, DropDropped
<1>8. PICK P : P = Plain(vm.values)  OBVIOUS
<1>9. PICK a, func, b : a = Slot(vm, 3) /\ func = Slot(vm, 2) /\ b = Slot(vm, 1)  OBVIOUS
<1>10. a \in P /\ func \in P /\ b \in P
  <2>1. 1 \in 1 .. Takes(Instr) /\ 2 \in 1 .. Takes(Instr) /\ 3 \in 1 .. Takes(Instr)
    <3>1. PICK t : t = Takes(Instr)  OBVIOUS
    <3> QED  BY <1>3, <3>1
  <2> QED  BY <1>1, <1>8, <1>9, <2>1, Before
<1>11. <<a, b>> \in Seq(P)  BY <1>10
<1>12. PICK argv : argv = <<a, b>>  OBVIOUS
<1>13. PICK m : m = CallFunc(d, func, argv)  OBVIOUS
<1>14. Finish(m)  BY <1>4, <1>5, <1>9, <1>12, <1>13 DEF CallInfix
<1>15. PICK two : two = 2  OBVIOUS
<1>16. /\ two \in Nat /\ Takes(Instr) = two + 1 /\ Effect(Instr) = 0 - two
       /\ Dropped(d, two + 1)
  <2>1. two + 1 = three  BY <1>4, <1>15
  <2> QED  BY <1>3, <1>7, <1>15, <2>1
<1> QED  BY <1>1, <1>8, <1>10, <1>11, <1>12, <1>13, <1>14, <1>16, CallFuncStep

\* The machine goes on after the instruction in the same frame.
LEMMA FallsTo ==
  ASSUME VmInv, NEW op \in Falls, At(op), NEW k, k = Len(vm.fstack) - 1
  PROVE  /\ k \in 1 .. Len(vm.fstack) - 1 /\ k \in Nat /\ Len(vm.fstack) = k + 1
         /\ vm.iptr + 1 \in DOMAIN Code /\ vm.iptr + 1 \in Nat
         /\ Bodies(Code)[vm.iptr + 1] = BodyOf(vm.fstack[k + 1])
         /\ H(vm.iptr + 1) = Last.want + Effect(Instr) /\ Last.want \in Nat
<1>1. vm.halted = FALSE /\ Instr = Code[vm.iptr] /\ Instr.op = op
      /\ Sound(vm, Entries) /\ Legal(vm.iptr) /\ program \in DOMAIN Programs
  BY AtIs DEF VmInv
<1>2. Len(vm.fstack) \in Nat /\ Len(vm.fstack) >= 2
      /\ Frame(vm) = vm.fstack[Len(vm.fstack)]
  BY <1>1, FramesAre
<1>3. vm.iptr + 1 \in Follow(Code, vm.iptr)  BY <1>1 DEF Falls, Follow
<1>4. /\ vm.iptr + 1 \in DOMAIN Code
      /\ Bodies(Code)[vm.iptr + 1] = Bodies(Code)[vm.iptr]
      /\ H(vm.iptr + 1) = H(vm.iptr) + Effect(Instr) /\ H(vm.iptr) \in Nat
  BY <1>1, <1>3 DEF Legal
<1>5. /\ Bodies(Code)[vm.iptr] = BodyOf(Frame(vm))
      /\ Last = [sptr |-> Frame(vm).sptr, base |-> Base(Frame(vm)), want |-> H(vm.iptr)]
  BY <1>1, Here
<1>6. vm.iptr + 1 \in Nat  BY <1>1, <1>4, CodeIs
<1> QED  BY <1>2, <1>4, <1>5, <1>6

\* A module is run: its namespace, its frame, and its entry in the list.
LEMMA RunModuleStep ==
  ASSUME VmInv, At("LOAD_MODULE"), NEW n, n = Instr.n, NEW ns, ns = NewId(vm), NEW c,
         c = Alloc(fetched, Namespace(vm.fstack[2].ns)), NEW new,
         new = [ns |-> ns, retptr |-> fetched.iptr, sptr |-> Len(vm.stack), args |-> knone],
         NEW m, m = [c EXCEPT !.fstack = Append(@, new), !.iptr = n,
                              !.modules = Append(@, [pos |-> n, ns |-> ns])],
         Finish(m)
  PROVE  VmInv' /\ PP!Next
<1> DEFINE op == "LOAD_MODULE"
<1>1. op \in Falls  BY DEF Falls, Operations
<1>2. /\ Instr.op = op /\ Instr = Code[vm.iptr] /\ Sound(vm, Entries) /\ Legal(vm.iptr)
      /\ vm.halted = FALSE /\ vm.check = FALSE /\ program \in DOMAIN Programs
      /\ Len(vm.stack) \in Nat /\ Len(vm.stack) <= Room /\ Len(vm.fstack) <= Room
      /\ Room \in Nat
  BY AtIs DEF VmInv
<1>3. PICK k : k = Len(vm.fstack) - 1  OBVIOUS
<1>4. /\ k \in 1 .. Len(vm.fstack) - 1 /\ k \in Nat /\ Len(vm.fstack) = k + 1
      /\ vm.iptr + 1 \in DOMAIN Code /\ vm.iptr + 1 \in Nat
      /\ Bodies(Code)[vm.iptr + 1] = BodyOf(vm.fstack[k + 1])
      /\ H(vm.iptr + 1) = Last.want + Effect(Instr) /\ Last.want \in Nat
  BY <1>1, <1>3, FallsTo
<1>5. Effect(Instr) = 1  BY <1>2 DEF Effect
<1>6. n \in DOMAIN Code /\ Bodies(Code)[n] = "module" /\ H(n) = 0 /\ n \in Nat
  <2>1. n \in DOMAIN Code /\ Bodies(Code)[n] = "module" /\ H(n) = 0  BY <1>2 DEF Legal
  <2> QED  BY <1>2, <2>1, CodeIs
<1>7. /\ Sound(fetched, Entries) /\ fetched.values = vm.values /\ fetched.stack = vm.stack
      /\ fetched.fstack = vm.fstack /\ fetched.halted = FALSE
      /\ fetched.check = FALSE /\ fetched.iptr = vm.iptr + 1
  BY <1>2, FetchedIs
<1>8. PICK parent : parent = vm.fstack[2].ns  OBVIOUS
<1>9. parent \in Spaces(fetched.values)  BY <1>2, <1>7, <1>8, FramesAre
<1>10. PICK x : x = Namespace(parent)  OBVIOUS
<1>11. Fine(x, fetched.values, Entries, fetched.fs) /\ x.type = "NAMESPACE"
  BY <1>7, <1>9, <1>10, NamespaceFine
<1>12. Quietly(fetched, c, Entries) /\ ns \in Spaces(c.values)
  <2>1. x.type \notin Hidden  BY <1>11 DEF Hidden
  <2>2. ns = NewId(fetched)  BY <1>7 DEF NewId
  <2>3. c = Alloc(fetched, x)  BY <1>8, <1>10
  <2> QED  BY <1>7, <1>11, <2>1, <2>2, <2>3, AllocIs
<1>13. /\ Sound(c, Entries) /\ IsMachine(c) /\ Later(vm.values, c.values, {})
       /\ c.stack = vm.stack /\ c.fstack = vm.fstack /\ c.halted = FALSE /\ c.check = FALSE
  BY <1>7, <1>12 DEF Quietly, Beside, Sound
<1>14. PICK mod : mod = [pos |-> n, ns |-> ns]  OBVIOUS
<1>15. m = [c EXCEPT !.fstack = Append(@, new), !.iptr = n, !.modules = Append(@, mod)]
  BY <1>14
<1>16. /\ IsMachine(m) /\ m.values = c.values /\ m.stack = vm.stack /\ m.iptr = n
       /\ m.fstack = Append(vm.fstack, new) /\ m.modules = Append(c.modules, mod)
       /\ m.fs = c.fs /\ m.halted = FALSE /\ m.check = FALSE
  BY <1>13, <1>15 DEF IsMachine
<1>17. new \in StackFrame(c.values) /\ mod \in LoadedModule(c.values)
  <2>1. knone \in Plain(c.values)  BY <1>13, HeapIs DEF Sound, knone
  <2> QED  BY <1>2, <1>4, <1>6, <1>7, <1>12, <1>14, <2>1 DEF StackFrame, LoadedModule
<1>18. /\ m.fstack \in Seq(StackFrame(c.values)) /\ Len(m.fstack) = k + 2
       /\ \A g \in 1 .. k + 1 : m.fstack[g] = vm.fstack[g]
       /\ m.fstack[k + 2] = new
  <2>1. PICK S : S = StackFrame(c.values)  OBVIOUS
  <2>2. PICK s : s = vm.fstack  OBVIOUS
  <2>3. s \in Seq(S) /\ new \in S  BY <1>13, <1>17, <2>1, <2>2 DEF Sound
  <2>4. /\ Append(s, new) \in Seq(S) /\ Len(Append(s, new)) = Len(s) + 1
        /\ \A i \in 1 .. Len(s) : Append(s, new)[i] = s[i]
        /\ Append(s, new)[Len(s) + 1] = new
    BY <2>3, Grows
  <2>5. Len(s) + 1 = k + 2 /\ Len(s) = k + 1  BY <1>4, <2>2
  <2> QED  BY <1>16, <2>1, <2>2, <2>4, <2>5
<1>19. m.modules \in Seq(LoadedModule(c.values))
  <2>1. PICK S : S = LoadedModule(c.values)  OBVIOUS
  <2>2. PICK s : s = c.modules  OBVIOUS
  <2>3. s \in Seq(S) /\ mod \in S  BY <1>13, <1>17, <2>1, <2>2 DEF Sound
  <2>4. Append(s, mod) \in Seq(S)  BY <2>3, Grows
  <2> QED  BY <1>16, <2>1, <2>2, <2>4
<1>20. Sound(m, Entries)
  <2>1. Heap(c.values, c.fs, Entries) /\ c.stack \in Seq(DOMAIN c.values)
        /\ Once(c.values, c.stack)
    BY <1>13 DEF Sound
  <2>2. Len(m.fstack) >= 2  BY <1>4, <1>18
  <2> QED  BY <1>13, <1>16, <1>18, <1>19, <2>1, <2>2 DEF Sound
<1>21. /\ new.retptr = vm.iptr + 1 /\ new.args = knone /\ new.sptr = Len(vm.stack)
       /\ new.retptr # NoReturn
  <2>1. new.retptr = vm.iptr + 1 /\ new.args = knone /\ new.sptr = Len(vm.stack)
    BY <1>7
  <2> QED  BY <1>4, <2>1 DEF NoReturn
<1>22. BodyOf(new) = "module" /\ Base(new) = Len(vm.stack)
  BY <1>21 DEF BodyOf, Base
<1>23. GoesOn(m, k + 1) = vm.iptr + 1 /\ GoesOn(m, k + 2) = n
  <2>1. k + 1 # Len(m.fstack) /\ k + 1 + 1 = k + 2  BY <1>4, <1>18
  <2> QED  BY <1>16, <1>18, <1>21, <2>1 DEF GoesOn
<1>24. Placed(m, k + 2)  BY <1>6, <1>18, <1>22, <1>23 DEF Placed
<1>25. Above(m, k, {})
  BY <1>4, <1>13, <1>16, <1>18, <1>20, <1>21, <1>23, <1>24 DEF Above
<1>26. PICK j : j = Len(vm.stack)  OBVIOUS
<1>27. Below(m, j, {})
  <2>1. Later(vm.values, m.values, {})  BY <1>13, <1>16
  <2>2. j \in Nat /\ j <= Len(vm.stack) /\ j <= Len(m.stack)
    <3>1. Len(m.stack) = j /\ j \in Nat  BY <1>2, <1>16, <1>26
    <3> QED  BY <1>26, <3>1
  <2>3. m.stack = vm.stack  BY <1>16
  <2> QED  BY <1>20, <2>1, <2>2, <2>3 DEF Below
<1>28. Matches(m, j)  BY <1>2, <1>27, BelowMatches
<1>29. \A i \in 1 .. j : Kind(m, m.stack[i]) = Kind(vm, vm.stack[i]) /\ Fits1(m, i)
  BY <1>28 DEF Matches
<1>30. Len(m.fstack) <= Room + 1 /\ Len(m.stack) <= Room + 2
  <2>1. Len(vm.fstack) <= Room /\ Len(vm.stack) <= Room /\ Room \in Nat
        /\ Len(vm.stack) \in Nat
    BY <1>2
  <2>2. Len(m.fstack) = k + 2 /\ Len(vm.fstack) = k + 1 /\ k \in Nat  BY <1>4, <1>18
  <2>3. Len(m.stack) = Len(vm.stack)  BY <1>16
  <2> QED  BY <2>1, <2>2, <2>3
<1>31. Bare(m) /\ Within(m) /\ Len(m.stack) <= StackSize /\ Len(m.fstack) <= StackSize
  BY <1>16, <1>20, <1>26, <1>29, <1>30, BareWithin
<1>32. Ready(m)
  <2>1. Framed(m)  BY <1>2, <1>25, AboveFramed
  <2>2. n \in 1 .. Len(Code) + 1  BY <1>2, <1>6, CodeIs
  <2> QED  BY <1>16, <1>20, <1>31, <2>1, <2>2 DEF Ready
<1>33. SlotKinds(m) = SlotKinds(vm)
  <2>1. PICK s, t : s = SlotKinds(m) /\ t = SlotKinds(vm)  OBVIOUS
  <2>2. Len(m.stack) = j  BY <1>16, <1>26
  <2>3. /\ Len(s) = j /\ s \in Seq(PP!Kinds)
        /\ \A i \in 1 .. j : s[i] = Kind(m, m.stack[i])
    BY <1>20, <2>1, <2>2, KindsAre
  <2>4. /\ Len(t) = j /\ t \in Seq(PP!Kinds)
        /\ \A i \in 1 .. j : t[i] = Kind(vm, vm.stack[i])
    BY <1>2, <1>26, <2>1, KindsAre
  <2>5. \A i \in 1 .. Len(s) : s[i] = t[i]  BY <1>29, <2>3, <2>4
  <2>6. s = t  BY <2>3, <2>4, <2>5, SeqEqual
  <2> QED  BY <2>1, <2>6
<1>34. PICK want : want = Last.want + 1  OBVIOUS
<1>35. want \in Nat /\ want = H(GoesOn(m, k + 1))  BY <1>4, <1>5, <1>23, <1>34
<1>36. Activations(m) = Append(Wanting(want), PP!Began(j, j))
  <2>1. FramesWith(m, k, Wanting(want))
    BY <1>2, <1>3, <1>25, <1>35, ActivationsWanting
  <2>2. H(m.iptr) = 0  BY <1>6, <1>16
  <2> QED  BY <1>18, <1>21, <1>22, <1>26, <2>1, <2>2 DEF FramesWith
<1>37. j = Len(SlotKinds(vm))  BY <1>2, <1>26, KindsAre
<1> QED  BY <1>2, <1>16, <1>32, <1>33, <1>34, <1>36, <1>37, StepLoad

LEMMA LoadModuleStep ==
  ASSUME VmInv, LoadModule
  PROVE  VmInv' /\ PP!Next
<1>1. PICK n : n = Instr.n  OBVIOUS
<1>2. PICK seen : seen = {i \in DOMAIN vm.modules : vm.modules[i].pos = n}  OBVIOUS
<1>3. PICK ns : ns = NewId(vm)  OBVIOUS
<1>4. PICK c : c = Alloc(fetched, Namespace(vm.fstack[2].ns))  OBVIOUS
<1>5. PICK new : new = [ns |-> ns, retptr |-> fetched.iptr, sptr |-> Len(vm.stack),
                        args |-> knone]
  OBVIOUS
<1>6. PICK m : m = [c EXCEPT !.fstack = Append(@, new), !.iptr = n,
                             !.modules = Append(@, [pos |-> n, ns |-> ns])]
  OBVIOUS
<1>7. PICK first : first = CHOOSE i \in seen : \A j \in seen : i <= j  OBVIOUS
<1>8. /\ At("LOAD_MODULE")
      /\ Finish(IF seen # {} THEN Push(fetched, vm.modules[first].ns) ELSE m)
  BY <1>1, <1>2, <1>3, <1>4, <1>5, <1>6, <1>7 DEF LoadModule
<1>9. CASE seen # {}
  <2>1. Finish(Push(fetched, vm.modules[first].ns)) /\ At("LOAD_MODULE")  BY <1>8, <1>9
  <2>2. first \in seen
    <3>1. DOMAIN vm.modules \subseteq Nat
      <4>1. PICK s, S : s = vm.modules /\ S = LoadedModule(vm.values)  OBVIOUS
      <4>2. s \in Seq(S)  BY <4>1 DEF VmInv, Sound
      <4>3. DOMAIN s = 1 .. Len(s) /\ Len(s) \in Nat  BY <4>2, LenProperties
      <4> QED  BY <4>1, <4>3
    <3>2. seen \subseteq Nat  BY <1>2, <3>1
    <3>3. \E i \in seen : \A j \in seen : i <= j  BY <1>9, <3>2, LeastOf
    <3> QED  BY <1>7, <3>3
  <2> QED  BY <1>2, <1>8, <2>1, <2>2, SeenStep
<1>10. CASE seen = {}
  <2>1. Finish(m)  BY <1>8, <1>10
  <2> QED  BY <1>1, <1>3, <1>4, <1>5, <1>6, <1>8, <2>1, RunModuleStep
<1> QED  BY <1>9, <1>10

-----------------------------------------------------------------------------
(* MOD_RET, and ASSERT when it fails. *)

\* A function or a module that is left has one below that goes on.
LEMMA NotProgram ==
  ASSUME VmInv, vm.halted = FALSE, Bodies(Code)[vm.iptr] # "program"
  PROVE  Len(vm.fstack) >= 3 /\ Frame(vm).retptr # NoReturn
<1>1. Sound(vm, Entries) /\ Framed(vm) /\ Bodies(Code)[vm.iptr] = BodyOf(Frame(vm))
  BY Here DEF VmInv
<1>2. Len(vm.fstack) \in Nat /\ Len(vm.fstack) >= 2
      /\ Frame(vm) = vm.fstack[Len(vm.fstack)]
  BY <1>1, FramesAre
<1>3. Frame(vm).retptr # NoReturn  BY <1>1 DEF BodyOf
<1>4. ASSUME Len(vm.fstack) = 2  PROVE FALSE
  <2>1. PICK f : f = Len(vm.fstack)  OBVIOUS
  <2>2. f \in 2 .. Len(vm.fstack) /\ f = 2  BY <1>4, <2>1
  <2>3. vm.fstack[f].retptr = NoReturn  BY <1>1, <2>2 DEF Framed
  <2> QED  BY <1>2, <1>3, <2>1, <2>3
<1>5. PICK n : n = Len(vm.fstack)  OBVIOUS
<1>6. n \in Nat /\ n >= 2 /\ n # 2  BY <1>2, <1>4, <1>5
<1>7. n >= 3  BY <1>6
<1> QED  BY <1>3, <1>5, <1>7

\* The frames below a frame of the machine, without those above it.
LEMMA AboveLeft ==
  ASSUME VmInv, vm.halted = FALSE, NEW k, k \in 1 .. Len(vm.fstack) - 2, NEW A,
         NEW m, Sound(m, Entries), Later(vm.values, m.values, A), Len(m.fstack) = k + 1,
         \A f \in 1 .. k + 1 : m.fstack[f] = vm.fstack[f],
         m.iptr = vm.fstack[k + 2].retptr
  PROVE  Above(m, k, A) /\ GoesOn(m, k + 1) = GoesOn(vm, k + 1)
<1>1. Sound(vm, Entries) /\ Framed(vm)  BY DEF VmInv
<1>2. Len(vm.fstack) \in Nat /\ Len(vm.fstack) >= 2  BY <1>1, FramesAre
<1>3. /\ k \in Nat /\ k + 1 \in 2 .. Len(vm.fstack) /\ k + 1 # Len(vm.fstack)
      /\ k \in 1 .. Len(vm.fstack) - 1 /\ k + 1 + 1 = k + 2
  BY <1>2
<1>4. GoesOn(vm, k + 1) = vm.fstack[k + 2].retptr  BY <1>3 DEF GoesOn
<1>5. GoesOn(m, k + 1) = m.iptr  BY DEF GoesOn
<1>6. Placed(vm, k + 1)  BY <1>1, <1>3 DEF Framed
<1>7. Len(m.fstack) # k + 2  BY <1>3
<1> QED  BY <1>3, <1>4, <1>5, <1>6, <1>7 DEF Above, Placed

LEMMA LeaveStep ==
  ASSUME VmInv, NEW op, At(op), Bodies(Code)[vm.iptr] # "program",
         NEW c, Quietly(fetched, c, Entries), NEW id \in Plain(c.values),
         NEW m, m = PopFrame(c, id), Finish(m),
         \/ Base(Frame(vm)) = Frame(vm).sptr
         \/ ~PP!IsContinuation(Frame(vm).sptr)
  PROVE  VmInv' /\ PP!Next
<1>1. /\ vm.halted = FALSE /\ vm.check = FALSE /\ Sound(vm, Entries)
      /\ Len(vm.stack) \in Nat /\ Len(vm.stack) <= Room
      /\ Len(vm.fstack) <= Room /\ Room \in Nat
  BY AtIs
<1>2. Len(vm.fstack) \in Nat /\ Len(vm.fstack) >= 3
      /\ Frame(vm) = vm.fstack[Len(vm.fstack)]
  BY <1>1, FramesAre, NotProgram
<1>3. PICK k : k = Len(vm.fstack) - 2  OBVIOUS
<1>4. /\ k \in 1 .. Len(vm.fstack) - 2 /\ k \in Nat /\ Len(vm.fstack) = k + 2
      /\ Len(vm.fstack) - 1 = k + 1
  BY <1>2, <1>3
<1>5. /\ Sound(c, Entries) /\ c.stack = vm.stack /\ c.fstack = vm.fstack
      /\ c.halted = FALSE /\ c.check = FALSE /\ Later(vm.values, c.values, {})
  <2>1. Sound(c, Entries) /\ Beside(fetched, c) /\ Later(fetched.values, c.values, {})
        /\ c.stack = fetched.stack
    BY DEF Quietly
  <2> QED  BY <1>1, <2>1, FetchedIs DEF Beside
<1>6. PICK sptr : sptr = Frame(vm).sptr  OBVIOUS
<1>7. Frame(c) = Frame(vm)  BY <1>2, <1>5, FramesAre
<1>8. sptr \in Nat /\ sptr <= Len(vm.stack)
  <2>1. sptr \in Nat  BY <1>1, <1>2, <1>6, FramesAre
  <2>2. PICK base, h : base = Base(Frame(vm)) /\ h = H(vm.iptr)  OBVIOUS
  <2>3. base \in Nat /\ h \in Nat /\ Len(vm.stack) = base + h  BY <1>1, <2>2, OwnSlots
  <2>4. base = 0 \/ base = sptr \/ base = sptr + 1  BY <1>6, <2>2 DEF Base
  <2>5. base # 0 \/ base = sptr
    <3>1. Frame(vm).retptr # NoReturn  BY <1>1, NotProgram
    <3>2. base = sptr \/ base = sptr + 1  BY <1>6, <2>2, <3>1 DEF Base
    <3> QED  BY <2>1, <3>2
  <2> QED  BY <1>1, <2>1, <2>3, <2>4, <2>5
<1>9. Popped(c, m, id, Entries)
  <2>1. Len(c.fstack) >= 3 /\ Frame(c).sptr <= Len(c.stack)
    BY <1>2, <1>5, <1>6, <1>7, <1>8
  <2> QED  BY <1>5, <2>1, PopFrameSound
<1>10. /\ Sound(m, Entries) /\ m.values = c.values /\ m.halted = FALSE /\ m.check = FALSE
       /\ m.iptr = vm.fstack[k + 2].retptr /\ Len(m.fstack) = k + 1
       /\ \A f \in 1 .. k + 1 : m.fstack[f] = vm.fstack[f]
       /\ Len(m.stack) = sptr + 1 /\ m.stack[sptr + 1] = id
       /\ \A i \in 1 .. sptr : m.stack[i] = vm.stack[i]
  BY <1>2, <1>4, <1>5, <1>6, <1>7, <1>9 DEF Popped
<1>11. Later(vm.values, m.values, {})  BY <1>5, <1>10
<1>12. Above(m, k, {}) /\ GoesOn(m, k + 1) = GoesOn(vm, k + 1)
  BY <1>1, <1>4, <1>10, <1>11, AboveLeft
<1>13. Below(m, sptr, {})
  <2>1. sptr <= Len(m.stack)  BY <1>8, <1>10
  <2> QED  BY <1>8, <1>10, <1>11, <2>1 DEF Below
<1>14. Matches(m, sptr)  BY <1>1, <1>13, BelowMatches
<1>15. id \in Plain(m.values)  BY <1>10
<1>16. Kind(m, m.stack[sptr + 1]) = "value" /\ Fits1(m, sptr + 1)
  <2>1. m.values[id].type \notin Hidden  BY <1>15 DEF Plain
  <2> QED  BY <1>10, <1>15, <2>1, KindIs DEF Fits1, Hidden
<1>17. Ready(m)
  <2>1. sptr <= Room + 1 /\ Len(m.fstack) <= Room + 1  BY <1>1, <1>4, <1>8, <1>10
  <2> QED  BY <1>1, <1>10, <1>12, <1>14, <1>16, <2>1, ReadyAbove
<1>18. SlotKinds(m) = Append(SubSeq(SlotKinds(vm), 1, sptr), "value")
  <2>1. PICK kind : kind = "value"  OBVIOUS
  <2>2. Kind(m, m.stack[sptr + 1]) = kind /\ Len(m.stack) = sptr + 1  BY <1>10, <1>16, <2>1
  <2>3. SlotKinds(m) = Append(SubSeq(SlotKinds(vm), 1, sptr), kind)
    BY <1>14, <2>2, KindsAbove
  <2> QED  BY <2>1, <2>3
<1>19. Activations(m) = SubSeq(Activations(vm), 1, k)
  <2>1. FramesWith(m, k, SubSeq(Activations(vm), 1, k))
    BY <1>1, <1>12, ActivationsUpTo
  <2> QED  BY <1>10, <2>1 DEF FramesWith
<1>20. /\ Len(Activations(vm)) = k + 1
       /\ Last.sptr = sptr /\ Last.base = Base(Frame(vm))
  <2>1. /\ Len(Activations(vm)) = Len(vm.fstack) - 1
        /\ Last = [sptr |-> Frame(vm).sptr, base |-> Base(Frame(vm)), want |-> H(vm.iptr)]
    BY <1>1, Here
  <2> QED  BY <1>4, <1>6, <2>1
<1>21. Len(Activations(vm)) > 1 /\ k = Len(Activations(vm)) - 1  BY <1>4, <1>20
<1>22. Last.base = Last.sptr \/ ~PP!IsContinuation(Last.sptr)  BY <1>6, <1>20
<1> QED  BY <1>1, <1>10, <1>17, <1>18, <1>19, <1>20, <1>21, <1>22, StepLeave

LEMMA ModRetStep ==
  ASSUME VmInv, ModRet
  PROVE  VmInv' /\ PP!Next
<1> DEFINE op == "MOD_RET"
<1>1. At(op) /\ Finish(PopFrame(fetched, Frame(vm).ns))  BY DEF ModRet
<1>2. /\ Instr.op = op /\ Instr = Code[vm.iptr] /\ Legal(vm.iptr) /\ vm.halted = FALSE
      /\ Sound(vm, Entries)
  BY <1>1, AtIs
<1>3. Bodies(Code)[vm.iptr] = "module" /\ Bodies(Code)[vm.iptr] = BodyOf(Frame(vm))
  BY <1>2, Here DEF Legal
<1>4. Base(Frame(vm)) = Frame(vm).sptr  BY <1>3 DEF BodyOf, Base
<1>5. PICK id : id = Frame(vm).ns  OBVIOUS
<1>6. PICK m : m = PopFrame(fetched, id)  OBVIOUS
<1>7. Quietly(fetched, fetched, Entries)
  BY <1>2, FetchedIs, LaterSame DEF Quietly, Beside
<1>8. id \in Plain(fetched.values)
  BY <1>1, <1>5, Before DEF Spaces, Plain, Hidden
<1>9. Finish(m)  BY <1>1, <1>5, <1>6
<1> QED  BY <1>1, <1>3, <1>4, <1>6, <1>7, <1>8, <1>9, LeaveStep

LEMMA AssertTrueStep ==
  ASSUME VmInv, ProperUse, AssertTrue
  PROVE  VmInv' /\ PP!Next
<1> DEFINE op == "ASSERT"
<1>1. PICK id : id = Slot(vm, 1)  OBVIOUS
<1>2. PICK c, new : c = Alloc(fetched, Error) /\ new = NewId(fetched)  OBVIOUS
<1>3. PICK d, m : d = Drop(fetched, 1) /\ m = PopFrame(c, new)  OBVIOUS
<1>4. At(op) /\ op \in Falls /\ Finish(IF IsTrue(vm, id) THEN d ELSE m)
  BY <1>1, <1>2, <1>3 DEF AssertTrue, Falls, Operations
<1>5. /\ Instr.op = op /\ Instr = Code[vm.iptr] /\ Legal(vm.iptr) /\ vm.halted = FALSE
      /\ Sound(vm, Entries)
  BY <1>4, AtIs
<1>6. CASE IsTrue(vm, id)
  <2>1. Finish(d)  BY <1>4, <1>6
  <2>2. PICK one : one = 1  OBVIOUS
  <2>3. Takes(Instr) = 1 /\ Effect(Instr) = 0 - 1
    <3>1. Effect(Instr) = -1  BY <1>5 DEF Effect
    <3> QED  BY <1>5, <3>1 DEF Takes
  <2>4. one \in Nat /\ one <= Takes(Instr) /\ Effect(Instr) = 0 - one  BY <2>2, <2>3
  <2>5. d = Drop(fetched, one)  BY <1>3, <2>2
  <2>6. Dropped(d, one)  BY <1>4, <2>4, <2>5, DropDropped
  <2>7. Quietly(d, d, Entries)  BY <2>6, LaterSame DEF Quietly, Beside, Dropped
  <2> QED  BY <1>4, <2>1, <2>4, <2>6, <2>7, QuietStep
<1>7. CASE ~IsTrue(vm, id)
  <2>1. Finish(m)  BY <1>4, <1>7
  <2>2. Bodies(Code)[vm.iptr] = "function"  BY <1>5 DEF Legal
  <2>3. Sound(fetched, Entries)  BY <1>4, Before
  <2>4. PICK x : x = Error  OBVIOUS
  <2>5. Fine(x, fetched.values, Entries, fetched.fs) /\ x.type \notin Hidden
    <3>1. x.type \in Bald  BY <2>4 DEF Error, Bald
    <3> QED  BY <3>1, BaldFine
  <2>6. Quietly(fetched, c, Entries) /\ new \in Plain(c.values)
    BY <1>2, <2>3, <2>4, <2>5, AllocIs
  <2>7. ~PP!IsContinuation(Frame(vm).sptr)
    <3>1. Frame(vm).sptr = 0 \/ TypeOf(vm, vm.stack[Frame(vm).sptr]) # "CONTINUATION"
      BY <1>1, <1>4, <1>5, <1>7 DEF ProperUse
    <3>2. SUFFICES ASSUME PP!IsContinuation(Frame(vm).sptr)  PROVE FALSE
      OBVIOUS
    <3>3. Frame(vm).sptr \in DOMAIN SlotKinds(vm)
          /\ SlotKinds(vm)[Frame(vm).sptr] \in {"passing", "answering"}
      BY <1>5, <3>2 DEF PP!IsContinuation, PP!Continuations
    <3>4. PICK i : i = Frame(vm).sptr  OBVIOUS
    <3>5. i \in 1 .. Len(vm.stack) /\ SlotKinds(vm)[i] = Kind(vm, vm.stack[i])
      BY <1>5, <3>3, <3>4, KindsAre
    <3>6. TypeOf(vm, vm.stack[i]) = "CONTINUATION"  BY <3>3, <3>4, <3>5, KindIs
    <3>7. i # 0  BY <3>5
    <3> QED  BY <3>1, <3>4, <3>6, <3>7
  <2> QED  BY <1>3, <1>4, <2>1, <2>2, <2>6, <2>7, LeaveStep
<1> QED  BY <1>6, <1>7

-----------------------------------------------------------------------------
(* Where a value that is returned gets to. *)

\* A frame of the machine, and the slot that it expects a value in.
Awaits(n, top) ==
  /\ n \in 1 .. Len(vm.fstack) - 1 /\ top \in Nat /\ top > 0
  /\ PP!Waits(SlotKinds(vm), Activations(vm)[n], top - 1)

\* What is known of the frame where it arrives, in slot a.
Expects(n, k, a) ==
  /\ a \in Nat /\ a > 0 /\ k \in 1 .. Len(vm.fstack) - 1
  /\ Activations(vm)[k] \in PP!Frame
  /\ Activations(vm)[k].sptr = vm.fstack[k + 1].sptr
  /\ Activations(vm)[k].base \in {Activations(vm)[k].sptr, Activations(vm)[k].sptr + 1}
  /\ PP!Waits(SlotKinds(vm), Activations(vm)[k], a - 1)
  /\ k < n => a = vm.fstack[k + 2].sptr + 1

\* What is known of the slots the value comes by.
Passed(n, top, k, slot) ==
  LET a == PP!Arrival(n, top, k)
  IN /\ a \in Nat /\ slot \in Nat /\ slot >= 1 /\ slot <= a /\ a - 1 <= Len(vm.stack)
     /\ slot - 1 <= Len(vm.stack) /\ vm.fstack[k + 1].sptr < slot
     /\ slot < a => slot <= Len(vm.stack)

LEMMA ArrivalIs ==
  ASSUME VmInv, vm.halted = FALSE, NEW n, NEW top, Awaits(n, top), NEW k \in 1 .. n, NEW a,
         a = PP!Arrival(n, top, k)
  PROVE  Expects(n, k, a)
<1>1. PICK b, s : b = Activations(vm) /\ s = SlotKinds(vm)  OBVIOUS
<1>2. /\ b \in Seq(PP!Frame) /\ PP!InOrder(s, b)  BY <1>1, InvIs DEF VmInv, PP!InOrder
<1>3. /\ Sound(vm, Entries) /\ program \in DOMAIN Programs  BY DEF VmInv
<1>4. /\ Len(b) = Len(vm.fstack) - 1 /\ DOMAIN b = 1 .. Len(vm.fstack) - 1
      /\ \A f \in 1 .. Len(vm.fstack) - 1 : b[f].sptr = vm.fstack[f + 1].sptr
  BY <1>1, <1>3, ActivationsAre
<1>5. Len(vm.fstack) \in Nat /\ Len(vm.fstack) >= 2  BY <1>3, FramesAre
<1>6. k \in 1 .. Len(vm.fstack) - 1 /\ k \in Nat /\ n \in Nat /\ k <= n
  BY <1>5 DEF Awaits
<1>7. b[k] \in PP!Frame  BY <1>2, <1>4, <1>6, ElementOfSeq
<1>8. b[k].base \in {b[k].sptr, b[k].sptr + 1}  BY <1>2, <1>4, <1>6 DEF PP!InOrder
<1>9. CASE k = n
  <2>1. a = top  BY <1>9 DEF PP!Arrival
  <2> QED  BY <1>1, <1>4, <1>6, <1>7, <1>8, <1>9, <2>1 DEF Awaits, Expects
<1>10. CASE k # n
  <2>1. k + 1 \in 1 .. Len(vm.fstack) - 1 /\ k < n /\ k + 1 + 1 = k + 2
    BY <1>5, <1>6, <1>10 DEF Awaits
  <2>2. a = b[k + 1].sptr + 1  BY <1>1, <1>10 DEF PP!Arrival
  <2>3. PP!Follows(s, b[k], b[k + 1])  BY <1>2, <1>4, <1>6, <2>1 DEF PP!InOrder
  <2>4. b[k + 1].sptr = vm.fstack[k + 2].sptr  BY <1>4, <2>1
  <2>5. b[k + 1].sptr \in Nat
    <3>1. k + 2 \in 1 .. Len(vm.fstack)  BY <1>5, <1>6, <2>1
    <3> QED  BY <1>3, <2>4, <3>1, FramesAre
  <2>6. a - 1 = b[k + 1].sptr /\ a \in Nat /\ a > 0  BY <2>2, <2>5
  <2>7. PP!Waits(s, b[k], a - 1)  BY <2>3, <2>6 DEF PP!Follows
  <2> QED  BY <1>1, <1>4, <1>6, <1>7, <1>8, <2>2, <2>4, <2>6, <2>7 DEF Expects
<1> QED  BY <1>9, <1>10

\* It stays above the frame's own values.
LEMMA SlotAbove ==
  ASSUME VmInv, vm.halted = FALSE, NEW n, NEW top, Awaits(n, top), NEW k \in 1 .. n,
         NEW slot, PP!Reaches(n, top, k, slot)
  PROVE  Passed(n, top, k, slot)
<1>1. PICK a : a = PP!Arrival(n, top, k)  OBVIOUS
<1>2. PICK fr, s : fr = Activations(vm)[k] /\ s = SlotKinds(vm)  OBVIOUS
<1>3. /\ a \in Nat /\ a > 0 /\ fr \in PP!Frame /\ fr.sptr = vm.fstack[k + 1].sptr
      /\ fr.base \in {fr.sptr, fr.sptr + 1} /\ PP!Waits(s, fr, a - 1)
  BY <1>1, <1>2, ArrivalIs DEF Expects
<1>4. s \in Seq(PP!Kinds) /\ Len(s) = Len(vm.stack) /\ Len(vm.stack) \in Nat
      /\ DOMAIN s = 1 .. Len(vm.stack)
  BY <1>2, KindsAre, StackIs DEF VmInv
<1>5. /\ fr.base \in Nat /\ fr.want \in Nat /\ fr.want > 0 /\ fr.sptr \in Nat
      /\ fr.base + fr.want - 1 <= a - 1 /\ a - 1 <= Len(vm.stack)
      /\ \A i \in fr.base .. fr.base + fr.want - 1 : i > 0 => s[i] = "value"
  <2>1. fr.base \in Nat /\ fr.want \in Nat /\ fr.sptr \in Nat  BY <1>3 DEF PP!Frame
  <2>2. fr.base + (fr.want - 1) = fr.base + fr.want - 1  BY <2>1
  <2> QED  BY <1>3, <1>4, <2>1, <2>2 DEF PP!Waits, PP!Own
<1>6. slot \in 1 .. a /\ PP!Resumed(slot, a)  BY <1>1 DEF PP!Reaches
<1>7. \A i \in slot .. a - 1 : s[i] \in {"passing", "answering"}
  BY <1>2, <1>6 DEF PP!Resumed, PP!IsContinuation, PP!Continuations
<1>8. PICK m : m = fr.base + fr.want - 1  OBVIOUS
<1>9. m \in Nat /\ fr.base <= m /\ m <= a - 1  BY <1>5, <1>8
<1>10. m < slot
  <2>1. SUFFICES ASSUME slot <= m  PROVE FALSE  BY <1>3, <1>6, <1>9
  <2>2. m > 0 /\ m \in slot .. a - 1 /\ m \in fr.base .. m  BY <1>3, <1>5, <1>6, <1>9, <2>1
  <2>3. s[m] = "value"  BY <1>5, <1>8, <2>2
  <2> QED  BY <1>7, <2>2, <2>3
<1>11. fr.sptr <= m  BY <1>3, <1>5, <1>9
<1>12. fr.sptr < slot /\ slot \in Nat /\ slot >= 1 /\ slot <= a
       /\ slot - 1 <= Len(vm.stack) /\ (slot < a => slot <= Len(vm.stack))
  <2>1. PICK l, p : l = Len(vm.stack) /\ p = fr.sptr  OBVIOUS
  <2>2. /\ l \in Nat /\ p \in Nat /\ a \in Nat /\ slot \in 1 .. a /\ m \in Nat
        /\ p <= m /\ m < slot /\ a - 1 <= l
    BY <1>3, <1>4, <1>5, <1>6, <1>9, <1>10, <1>11, <2>1
  <2>3. p < slot /\ slot \in Nat /\ slot >= 1 /\ slot <= a
        /\ slot - 1 <= l /\ (slot < a => slot <= l)
    BY ONLY <2>2
  <2> QED  BY <2>1, <2>3
<1> QED  BY <1>1, <1>2, <1>3, <1>5, <1>12 DEF Passed

\* Further down, by one continuation more.
LEMMA ReachesDown ==
  ASSUME VmInv, vm.halted = FALSE, NEW n, NEW top, Awaits(n, top), NEW k \in 1 .. n,
         NEW slot, PP!Reaches(n, top, k, slot), slot >= 2,
         TypeOf(vm, vm.stack[slot - 1]) = "CONTINUATION"
  PROVE  PP!Reaches(n, top, k, slot - 1) /\ slot - 1 < PP!Arrival(n, top, k)
<1>1. PICK a : a = PP!Arrival(n, top, k)  OBVIOUS
<1>2. /\ a \in Nat /\ slot \in Nat /\ slot <= a /\ slot - 1 <= Len(vm.stack)
  BY <1>1, SlotAbove DEF Passed
<1>3. Len(vm.stack) \in Nat /\ Sound(vm, Entries)  BY StackIs DEF VmInv
<1>4. slot - 1 \in 1 .. Len(vm.stack) /\ slot - 1 \in 1 .. a /\ slot - 1 < a
  BY <1>2, <1>3
<1>5. PP!IsContinuation(slot - 1)
  <2>1. PICK i : i = slot - 1  OBVIOUS
  <2>2. Kind(vm, vm.stack[i]) \in {"passing", "answering"}  BY <2>1, KindIs
  <2>3. SlotKinds(vm)[i] = Kind(vm, vm.stack[i]) /\ i \in DOMAIN SlotKinds(vm)
    BY <1>3, <1>4, <2>1, KindsAre
  <2> QED  BY <2>1, <2>2, <2>3 DEF PP!IsContinuation, PP!Continuations
<1>6. PP!Resumed(slot, a)  BY <1>1 DEF PP!Reaches
<1>7. PP!Resumed(slot - 1, a)
  <2>1. \A i \in slot - 1 .. a - 1 : i = slot - 1 \/ i \in slot .. a - 1  BY <1>2
  <2> QED  BY <1>5, <1>6, <2>1 DEF PP!Resumed
<1>8. \A j \in k + 1 .. n :
        \E i \in 1 .. PP!Arrival(n, top, j) - 1 :
          (IF vm.halted THEN <<>> ELSE SlotKinds(vm))[i] = "answering"
          /\ PP!Resumed(i, PP!Arrival(n, top, j))
  BY DEF PP!Reaches
<1> QED  BY <1>1, <1>4, <1>7, <1>8 DEF PP!Reaches

\* Down to the frame below, when the continuation in the slot is one of guard.
LEMMA ReachesBelow ==
  ASSUME VmInv, vm.halted = FALSE, NEW n, NEW top, Awaits(n, top), NEW k \in 2 .. n,
         NEW slot, PP!Reaches(n, top, k, slot), slot < PP!Arrival(n, top, k),
         SlotKinds(vm)[slot] = "answering", NEW s, s = vm.fstack[k + 1].sptr + 1
  PROVE  k - 1 \in 1 .. n /\ PP!Reaches(n, top, k - 1, s) /\ s = PP!Arrival(n, top, k - 1)
<1>1. PICK a : a = PP!Arrival(n, top, k)  OBVIOUS
<1>2. n \in Nat /\ k \in 1 .. n  BY FramesAre DEF VmInv, Awaits
<1>3. PICK j : j = k - 1  OBVIOUS
<1>4. j \in 1 .. n /\ j < n /\ j + 1 = k /\ j + 2 = k + 1 /\ k \in Nat  BY <1>2, <1>3
<1>5. s = PP!Arrival(n, top, j) /\ s \in Nat /\ s > 0
  <2>1. PICK b : b = PP!Arrival(n, top, j)  OBVIOUS
  <2>0. Expects(n, j, b)  BY <1>4, <2>1, ArrivalIs
  <2>2. j < n => b = vm.fstack[j + 2].sptr + 1  BY <2>0 DEF Expects
  <2>3. b \in Nat /\ b > 0  BY <2>0 DEF Expects
  <2>4. vm.fstack[j + 2] = vm.fstack[k + 1]  BY <1>4
  <2> QED  BY <1>4, <2>1, <2>2, <2>3, <2>4
<1>6. s \in 1 .. s /\ PP!Resumed(s, s)
  <2>1. s .. s - 1 = {}  BY <1>5
  <2> QED  BY <1>5, <2>1 DEF PP!Resumed
<1>7. a \in Nat /\ slot \in Nat /\ slot >= 1 /\ slot < a  BY <1>1, <1>2, SlotAbove DEF Passed
<1>8. slot \in 1 .. a - 1 /\ PP!Resumed(slot, a)  BY <1>1, <1>7 DEF PP!Reaches
<1>9. ASSUME NEW f \in j + 1 .. n
      PROVE  \E i \in 1 .. PP!Arrival(n, top, f) - 1 :
               (IF vm.halted THEN <<>> ELSE SlotKinds(vm))[i] = "answering"
               /\ PP!Resumed(i, PP!Arrival(n, top, f))
  <2>1. f = k \/ f \in k + 1 .. n  BY <1>2, <1>4
  <2>2. CASE f = k
    <3>1. (IF vm.halted THEN <<>> ELSE SlotKinds(vm))[slot] = "answering"  OBVIOUS
    <3> QED  BY <1>1, <1>8, <2>2, <3>1
  <2>3. CASE f \in k + 1 .. n  BY <2>3 DEF PP!Reaches
  <2> QED  BY <2>1, <2>2, <2>3
<1>10. PP!Reaches(n, top, j, s)  BY <1>5, <1>6, <1>9 DEF PP!Reaches
<1> QED  BY <1>3, <1>4, <1>5, <1>10

-----------------------------------------------------------------------------
(* A continuation on top of the stack: what it calls. *)

OnTop(m, k, slot, A) ==
  /\ Above(m, k, A) /\ Len(m.fstack) = k + 1 /\ GoesOn(m, k + 1) = GoesOn(vm, k + 1)
  /\ Matches(m, slot) /\ Len(m.stack) = slot /\ slot >= 1
  /\ TypeOf(m, m.stack[slot]) = "CONTINUATION"
  /\ m.halted = FALSE /\ m.check = FALSE /\ Len(vm.fstack) <= Room

CalledAgain(r, k, slot) ==
  /\ Ready(r) /\ r.halted = FALSE
  /\ \/ /\ r.check = FALSE
        /\ SlotKinds(r) = Append(SubSeq(SlotKinds(vm), 1, slot), "value")
        /\ Activations(r) = Append(SubSeq(Activations(vm), 1, k), PP!Began(slot, slot + 1))
     \/ /\ r.check = TRUE
        /\ \E kind \in PP!Kinds \ {"passing"} :
             SlotKinds(r) = Append(SubSeq(SlotKinds(vm), 1, slot), kind)
        /\ Activations(r) = SubSeq(Activations(vm), 1, k)

LEMMA FunctionCalled ==
  ASSUME VmInv, vm.halted = FALSE, NEW m, NEW k, NEW A, NEW slot, OnTop(m, k, slot, A),
         slot <= Room + 1, NEW func \in DOMAIN m.values, TypeOf(m, func) = "FUNCTION",
         NEW args \in Plain(m.values), TypeOf(m, args) = "ARRAY",
         NEW r, r = CallFuncWithArgs(m, func, args)
  PROVE  CalledAgain(r, k, slot)
<1>1. /\ Above(m, k, A) /\ Len(m.fstack) = k + 1 /\ GoesOn(m, k + 1) = GoesOn(vm, k + 1)
      /\ Matches(m, slot) /\ Len(m.stack) = slot
      /\ m.halted = FALSE /\ m.check = FALSE /\ Len(vm.fstack) <= Room
  BY DEF OnTop
<1>2. InFunction(m, r, k, slot, A)  BY <1>1, Enters
<1>3. /\ Ready(r) /\ r.halted = FALSE /\ r.check = FALSE
      /\ Above(r, k, A) /\ Len(r.fstack) = k + 2 /\ GoesOn(r, k + 1) = GoesOn(m, k + 1)
      /\ H(r.iptr) = 0 /\ r.fstack[k + 2].sptr = slot /\ Base(r.fstack[k + 2]) = slot + 1
      /\ SlotKinds(r) = Append(SubSeq(SlotKinds(vm), 1, slot), "value")
  BY <1>2 DEF InFunction
<1>4. FramesWith(r, k, SubSeq(Activations(vm), 1, k))
  <2>1. H(GoesOn(r, k + 1)) = H(GoesOn(vm, k + 1))  BY <1>1, <1>3
  <2> QED  BY <1>3, <2>1, ActivationsUpTo
<1>5. Activations(r) = Append(SubSeq(Activations(vm), 1, k), PP!Began(slot, slot + 1))
  BY <1>3, <1>4 DEF FramesWith
<1> QED  BY <1>3, <1>5 DEF CalledAgain

LEMMA CFunctionCalled ==
  ASSUME VmInv, vm.halted = FALSE, NEW m, NEW k, NEW A, NEW slot, OnTop(m, k, slot, A),
         slot <= Room + 1, NEW func \in DOMAIN m.values, TypeOf(m, func) = "CFUNCTION",
         NEW argv \in Seq(Plain(m.values)), Len(argv) = 0 \/ (Len(argv) = 1 /\ slot <= Room),
         NEW r, r = AfterCFuncReturn(CallCFunction(m, m.values[func], argv))
  PROVE  CalledAgain(r, k, slot)
<1>1. /\ Above(m, k, A) /\ Len(m.fstack) = k + 1 /\ GoesOn(m, k + 1) = GoesOn(vm, k + 1)
      /\ Matches(m, slot) /\ Len(m.stack) = slot /\ slot >= 1
      /\ TypeOf(m, m.stack[slot]) = "CONTINUATION"
      /\ m.halted = FALSE /\ m.check = FALSE /\ Len(vm.fstack) <= Room
  BY DEF OnTop
<1>2. Sound(m, Entries) /\ Heap(m.values, m.fs, Entries) /\ slot \in Nat
      /\ Sound(vm, Entries) /\ k \in 1 .. Len(vm.fstack) - 1
  BY <1>1 DEF Above, Sound, Matches, VmInv
<1>3. PICK x, argc : x = m.values[func] /\ argc = Len(argv)  OBVIOUS
<1>4. Fine(x, m.values, Entries, m.fs) /\ x.type = "CFUNCTION"
  BY <1>2, <1>3, HeapIs DEF TypeOf
<1>5. PICK c : c = CallCFunction(m, x, argv)  OBVIOUS
<1>6. Answers(m, c, argc, Entries)  BY <1>2, <1>3, <1>4, <1>5, CFunctionAnswers
<1>7. PICK id : id = Slot(c, 1)  OBVIOUS
<1>8. /\ Sound(c, Entries) /\ Beside(m, c) /\ Later(m.values, c.values, {})
      /\ Len(c.stack) = slot + 1
      /\ \A i \in 1 .. slot : c.stack[i] = m.stack[i]
  BY <1>1, <1>6 DEF Answers, Pushed
<1>9. id \in Plain(c.values) \/
        /\ id \in DOMAIN c.values /\ argc >= 1
        /\ \/ c.values[id].type = "RETURN" /\ c.values[id].ret = knone
           \/ /\ c.values[id].type = "CONTINUATION"
              /\ argc = 1 => c.values[id].callback = "loop" /\ c.values[id].args = knone
  BY <1>6, <1>7 DEF Answers
<1>10. id = c.stack[slot + 1] /\ Slot(c, 2) = c.stack[slot]
  BY <1>2, <1>7, <1>8 DEF Slot
<1>11. Looks(c)
  <2>1. PICK cont : cont = m.stack[slot]  OBVIOUS
  <2>2. cont \in DOMAIN m.values /\ c.stack[slot] = cont
    <3>1. slot \in 1 .. slot  BY <1>1, <1>2
    <3> QED  BY <1>1, <1>2, <1>8, <2>1, <3>1, StackIs
  <2>3. c.values[cont] = m.values[cont]
    BY <1>1, <1>8, <2>1, <2>2 DEF Later, TypeOf, Hidden
  <2>4. TypeOf(c, Slot(c, 2)) = "CONTINUATION"  BY <1>1, <1>10, <2>1, <2>2, <2>3 DEF TypeOf
  <2>5. Len(c.stack) >= 2  BY <1>1, <1>2, <1>8
  <2> QED  BY <2>4, <2>5 DEF Looks
<1>12. r = AfterCFuncReturn(c)  BY <1>3, <1>5
<1>13. /\ Sound(r, Entries) /\ r.check = TRUE
       /\ r.values = c.values /\ r.stack = c.stack
       /\ r.fstack = m.fstack /\ r.halted = FALSE /\ r.iptr = m.iptr
  <2>1. Looking(c, r)  BY <1>8, <1>12, AfterIs
  <2>2. Looks(c) = TRUE  BY <1>11 DEF Looks
  <2> QED  BY <1>1, <1>8, <2>1, <2>2 DEF Looking, Beside
<1>14. Later(m.values, r.values, {}) /\ Later(vm.values, r.values, A)
  <2>1. Later(m.values, r.values, {})  BY <1>8, <1>13
  <2>2. Later(m.values, r.values, A)  BY <2>1, LaterMore
  <2> QED  BY <1>1, <2>1, <2>2, LaterTwice DEF Above
<1>15. GoesOn(r, k + 1) = GoesOn(m, k + 1)  BY <1>13 DEF GoesOn
<1>16. Above(r, k, A) /\ Len(r.fstack) = k + 1
  <2>1. k \in Nat  BY <1>2, FramesAre
  <2>2. Len(r.fstack) = k + 1 /\ Len(r.fstack) # k + 2  BY <1>1, <1>13, <2>1
  <2> QED  BY <1>1, <1>13, <1>14, <1>15, <2>2 DEF Above
<1>17. Matches(r, slot)
  <2>1. slot <= Len(r.stack)  BY <1>2, <1>8, <1>13
  <2> QED  BY <1>1, <1>8, <1>13, <1>14, <2>1, MatchesLater
<1>18. /\ r.stack[slot + 1] = id /\ Len(r.stack) = slot + 1  BY <1>8, <1>10, <1>13
<1>19. Room \in Nat /\ Len(vm.fstack) \in Nat /\ argc \in Nat /\ k + 1 <= Len(vm.fstack)
       /\ (argc = 0 \/ (argc = 1 /\ slot <= Room))
  <2>1. Len(vm.fstack) \in Nat  BY <1>2, FramesAre
  <2>2. argc \in Nat  BY <1>3, LenProperties
  <2>3. Room \in Nat  BY MachineAssumption DEF Room
  <2>4. k + 1 <= Len(vm.fstack)  BY <1>2, <2>1
  <2> QED  BY <1>3, <2>1, <2>2, <2>3, <2>4
<1>20. Fits1(r, slot + 1)
  <2>1. CASE id \in Plain(c.values)
    BY <1>13, <1>18, <2>1 DEF Fits1, Plain, Hidden
  <2>2. CASE c.values[id].type = "RETURN" /\ c.values[id].ret = knone
    BY <1>13, <1>18, <2>2 DEF Fits1
  <2>3. CASE c.values[id].type = "CONTINUATION" /\ id \notin Plain(c.values)
    <3>1. argc = 1 /\ c.values[id].args = knone /\ slot <= Room  BY <1>9, <1>19, <2>3
    <3>2. slot + 1 <= Room + 1  BY <1>2, <1>19, <3>1
    <3> QED  BY <1>13, <1>18, <2>3, <3>1, <3>2 DEF Fits1
  <2> QED  BY <1>9, <2>1, <2>2, <2>3
<1>21. Ready(r)
  <2>1. Len(r.fstack) <= Room + 1 /\ Len(r.fstack) <= Room
    <3>1. k + 1 <= Room /\ k \in Nat  BY <1>1, <1>2, <1>19
    <3> QED  BY <1>16, <1>19, <3>1
  <2> QED  BY <1>16, <1>17, <1>18, <1>20, <2>1, ReadyAbove
<1>22. PICK kind : kind = Kind(r, r.stack[slot + 1])  OBVIOUS
<1>23. SlotKinds(r) = Append(SubSeq(SlotKinds(vm), 1, slot), kind)
  BY <1>17, <1>18, <1>22, KindsAbove
<1>24. kind \in PP!Kinds \ {"passing"}
  <2>1. kind \in PP!Kinds  BY <1>22 DEF Kind, PP!Kinds, PP!Continuations
  <2>2. CASE id \in Plain(c.values)
    <3>1. kind = "value"  BY <1>13, <1>18, <1>22, <2>2, KindIs
    <3> QED  BY <2>1, <3>1
  <2>3. CASE id \notin Plain(c.values)
    <3>1. argc = 1  BY <1>9, <1>19, <2>3
    <3>2. c.values[id].type = "RETURN"
          \/ (c.values[id].type = "CONTINUATION" /\ c.values[id].callback = "loop")
      BY <1>9, <2>3, <3>1
    <3>3. kind # "passing"  BY <1>13, <1>18, <1>22, <3>2 DEF Kind, TypeOf
    <3> QED  BY <2>1, <3>3
  <2> QED  BY <2>2, <2>3
<1>25. Activations(r) = SubSeq(Activations(vm), 1, k)
  <2>1. H(GoesOn(r, k + 1)) = H(GoesOn(vm, k + 1))  BY <1>1, <1>15
  <2>2. FramesWith(r, k, SubSeq(Activations(vm), 1, k))  BY <1>16, <2>1, ActivationsUpTo
  <2> QED  BY <1>16, <2>2 DEF FramesWith
<1> QED  BY <1>13, <1>21, <1>23, <1>24, <1>25 DEF CalledAgain

LEMMA ContinuationCalled ==
  ASSUME VmInv, vm.halted = FALSE, NEW m, NEW k, NEW A, NEW slot, OnTop(m, k, slot, A),
         TypeOf(m, m.values[m.stack[slot]].call) \in {"FUNCTION", "CFUNCTION"},
         NEW r, r = CallContinuation(m)
  PROVE  CalledAgain(r, k, slot)
<1>1. /\ Above(m, k, A) /\ Len(m.fstack) = k + 1 /\ GoesOn(m, k + 1) = GoesOn(vm, k + 1)
      /\ Matches(m, slot) /\ Len(m.stack) = slot /\ slot >= 1
      /\ TypeOf(m, m.stack[slot]) = "CONTINUATION"
      /\ m.halted = FALSE /\ m.check = FALSE /\ Len(vm.fstack) <= Room
  BY DEF OnTop
<1>2. Sound(m, Entries) /\ slot \in Nat /\ slot \in 1 .. slot /\ Fits1(m, slot)
      /\ Room \in Nat /\ Heap(m.values, m.fs, Entries)
  <2>1. slot \in Nat /\ Sound(m, Entries)  BY <1>1 DEF Matches
  <2>2. slot \in 1 .. slot  BY <1>1, <2>1
  <2>3. Fits1(m, slot)  BY <1>1, <2>2 DEF Matches
  <2>4. Room \in Nat  BY MachineAssumption DEF Room
  <2> QED  BY <2>1, <2>2, <2>3, <2>4 DEF Sound
<1>3. PICK cont : cont = m.stack[slot]  OBVIOUS
<1>4. PICK x : x = m.values[cont]  OBVIOUS
<1>5. PICK func : func = x.call  OBVIOUS
<1>6. cont \in DOMAIN m.values /\ Slot(m, 1) = cont
  <2>1. cont \in DOMAIN m.values  BY <1>1, <1>2, <1>3, StackIs
  <2>2. Len(m.stack) + 1 - 1 = slot  BY <1>1, <1>2
  <2> QED  BY <1>3, <2>1, <2>2 DEF Slot
<1>7. /\ x.type = "CONTINUATION" /\ func \in Plain(m.values)
      /\ x.args \in Slim(m.values) \cup {knone}
  <2>1. x.type = "CONTINUATION"  BY <1>1, <1>3, <1>4 DEF TypeOf
  <2>2. func \in Plain(m.values) /\ Closure(x, Plain(m.values), Slim(m.values))
    BY <1>2, <1>4, <1>5, <1>6, <2>1, ContinuationIs DEF TypeOf
  <2> QED  BY <2>1, <2>2 DEF Closure
<1>8. func \in DOMAIN m.values /\ TypeOf(m, func) \in {"FUNCTION", "CFUNCTION"}
  BY <1>3, <1>4, <1>5, <1>7 DEF Plain
<1>9. slot <= Room \/ (slot <= Room + 1 /\ x.args = knone)
  BY <1>2, <1>3, <1>4, <1>7 DEF Fits1
<1>10. slot <= Room + 1  BY <1>2, <1>9
<1>11. CASE x.args = knone
  <2>1. r = CallFunc(m, func, <<>>)  BY <1>4, <1>5, <1>6, <1>11 DEF CallContinuation
  <2>2. PICK argv : argv = <<>>  OBVIOUS
  <2>3. argv \in Seq(Plain(m.values)) /\ Len(argv) = 0  BY <2>2
  <2>4. CASE TypeOf(m, func) = "CFUNCTION"
    <3>1. r = AfterCFuncReturn(CallCFunction(m, m.values[func], argv))
      BY <2>1, <2>2, <2>4 DEF CallFunc
    <3> QED  BY <1>8, <1>10, <2>3, <2>4, <3>1, CFunctionCalled
  <2>5. CASE TypeOf(m, func) = "FUNCTION"
    <3>1. r = CallFuncWithArgs(Alloc(m, Array(argv)), func, NewId(m))
      BY <2>1, <2>2, <2>5 DEF CallFunc
    <3>2. PICK c, args : c = Alloc(m, Array(argv)) /\ args = NewId(m)  OBVIOUS
    <3>3. Quietly(m, c, Entries) /\ args \in Plain(c.values) /\ TypeOf(c, args) = "ARRAY"
      BY <1>2, <2>3, <3>2, ArgumentsAlloc
    <3>4. /\ Above(c, k, A) /\ Len(c.fstack) = k + 1 /\ GoesOn(c, k + 1) = GoesOn(m, k + 1)
          /\ Matches(c, slot) /\ Len(c.stack) = slot /\ c.halted = FALSE /\ c.check = FALSE
      BY <1>1, <3>3, QuietlyAbove
    <3>5. func \in DOMAIN c.values /\ TypeOf(c, func) = "FUNCTION"
          /\ TypeOf(c, c.stack[slot]) = "CONTINUATION"
      <4>1. Later(m.values, c.values, {}) /\ c.stack = m.stack  BY <3>3 DEF Quietly
      <4>2. c.values[cont] = m.values[cont]
        BY <1>4, <1>6, <1>7, <4>1 DEF Later, Hidden
      <4>3. func \in DOMAIN c.values /\ c.values[func].type = m.values[func].type
        BY <1>7, <4>1 DEF Later, Plain
      <4> QED  BY <1>3, <1>4, <1>7, <2>5, <4>1, <4>2, <4>3 DEF TypeOf
    <3>6. OnTop(c, k, slot, A)  BY <1>1, <3>4, <3>5 DEF OnTop
    <3>7. r = CallFuncWithArgs(c, func, args)  BY <3>1, <3>2
    <3> QED  BY <1>10, <3>3, <3>5, <3>6, <3>7, FunctionCalled
  <2> QED  BY <1>8, <2>4, <2>5
<1>12. CASE x.args # knone
  <2>1. PICK args : args = x.args  OBVIOUS
  <2>2. /\ args \in DOMAIN m.values /\ args \in Plain(m.values)
        /\ m.values[args].type = "ARRAY" /\ Len(m.values[args].data) <= 1
    BY <1>7, <1>12, <2>1 DEF Slim, Plain, Hidden
  <2>3. slot <= Room  BY <1>9, <1>12
  <2>4. CASE TypeOf(m, func) = "FUNCTION"
    <3>1. r = CallFuncWithArgs(m, func, args)
      BY <1>4, <1>5, <1>6, <1>12, <2>1, <2>4 DEF CallContinuation
    <3> QED  BY <1>8, <1>10, <2>2, <2>4, <3>1, FunctionCalled DEF TypeOf
  <2>5. CASE TypeOf(m, func) = "CFUNCTION"
    <3>1. PICK argv : argv = m.values[args].data  OBVIOUS
    <3>2. r = CallFunc(m, func, argv)
      BY <1>4, <1>5, <1>6, <1>12, <2>1, <2>5, <3>1 DEF CallContinuation
    <3>3. r = AfterCFuncReturn(CallCFunction(m, m.values[func], argv))
      BY <2>5, <3>2 DEF CallFunc
    <3>4. argv \in Seq(Plain(m.values))
      <4>1. Fine(m.values[args], m.values, Entries, m.fs)  BY <1>2, <2>2, HeapIs
      <4> QED  BY <2>2, <3>1, <4>1 DEF Fine, Well
    <3>5. Len(argv) = 0 \/ (Len(argv) = 1 /\ slot <= Room)
      <4>1. PICK argc : argc = Len(argv)  OBVIOUS
      <4>2. argc \in Nat  BY <3>4, <4>1, LenProperties
      <4>3. argc <= 1  BY <2>2, <3>1, <4>1
      <4>4. argc = 0 \/ argc = 1  BY ONLY <4>2, <4>3
      <4> QED  BY <2>3, <4>1, <4>4
    <3> QED  BY <1>8, <1>10, <2>5, <3>3, <3>4, <3>5, CFunctionCalled
  <2> QED  BY <1>8, <2>4, <2>5
<1> QED  BY <1>11, <1>12

-----------------------------------------------------------------------------
(* The rounds of after_func_return. *)

Returning(n, top) ==
  /\ VmInv /\ ProperUse /\ vm.halted = FALSE /\ Awaits(n, top) /\ Len(vm.fstack) <= Room

\* The continuations from a slot on: those that callbacks have been given.
Tops(slot) ==
  {vm.stack[i] : i \in {j \in slot .. Len(vm.stack) :
                          TypeOf(vm, vm.stack[j]) = "CONTINUATION"}}

LEMMA TopsAre ==
  ASSUME VmInv, NEW slot \in Nat, slot >= 1
  PROVE  /\ \A i \in 1 .. slot - 1 : i <= Len(vm.stack) => vm.stack[i] \notin Tops(slot)
         /\ \A s \in Nat : s <= slot => Tops(slot) \subseteq Tops(s)
         /\ slot <= Len(vm.stack) /\ TypeOf(vm, vm.stack[slot]) = "CONTINUATION" =>
              vm.stack[slot] \in Tops(slot)
<1>1. Sound(vm, Entries)  BY DEF VmInv
<1>2. Len(vm.stack) \in Nat /\ DOMAIN vm.stack = 1 .. Len(vm.stack)  BY <1>1, StackIs
<1>3. ASSUME NEW i \in 1 .. slot - 1, i <= Len(vm.stack), vm.stack[i] \in Tops(slot)
      PROVE  FALSE
  <2>1. PICK j \in slot .. Len(vm.stack) :
          TypeOf(vm, vm.stack[j]) = "CONTINUATION" /\ vm.stack[i] = vm.stack[j]
    BY <1>3 DEF Tops
  <2>2. i \in 1 .. Len(vm.stack) /\ j \in 1 .. Len(vm.stack) /\ i # j  BY <1>2, <1>3
  <2>3. Once(vm.values, vm.stack)  BY <1>1 DEF Sound
  <2>4. vm.values[vm.stack[i]].type \in Hidden  BY <2>1 DEF TypeOf, Hidden
  <2> QED  BY <1>2, <2>1, <2>2, <2>3, <2>4 DEF Once
<1>4. ASSUME NEW s \in Nat, s <= slot  PROVE Tops(slot) \subseteq Tops(s)
  <2>1. \A j \in slot .. Len(vm.stack) : j \in s .. Len(vm.stack)  BY <1>2, <1>4
  <2> QED  BY <2>1 DEF Tops
<1>5. slot <= Len(vm.stack) => slot \in slot .. Len(vm.stack)  BY <1>2
<1> QED  BY <1>3, <1>4, <1>5 DEF Tops

\* The machine m has come down to frame k, and something is in the slot.
Stands(m, n, top, k, slot) ==
  /\ k \in 1 .. n /\ PP!Reaches(n, top, k, slot) /\ slot - 1 <= Room + 1
  /\ Sound(m, Entries) /\ Later(vm.values, m.values, Tops(slot))
  /\ Len(m.fstack) = k + 1 /\ \A f \in 1 .. k + 1 : m.fstack[f] = vm.fstack[f]
  /\ GoesOn(m, k + 1) = GoesOn(vm, k + 1)
  /\ Len(m.stack) = slot /\ \A i \in 1 .. slot - 1 : m.stack[i] = vm.stack[i]
  /\ m.halted = FALSE /\ m.check = FALSE

\* What follows.
Stood(m, n, top, k, slot) ==
  /\ Passed(n, top, k, slot) /\ slot \in Nat /\ slot >= 1
  /\ k \in Nat /\ k \in 1 .. Len(vm.fstack) - 1 /\ n \in Nat /\ k <= n
  /\ Above(m, k, Tops(slot)) /\ Below(m, slot - 1, Tops(slot)) /\ Matches(m, slot - 1)

LEMMA StandsSo ==
  ASSUME NEW n, NEW top, Returning(n, top), NEW m, NEW k, NEW slot,
         Stands(m, n, top, k, slot)
  PROVE  Stood(m, n, top, k, slot)
<1>1. VmInv /\ vm.halted = FALSE /\ Awaits(n, top) /\ Sound(vm, Entries) /\ Framed(vm)
  BY DEF Returning, VmInv
<1>2. /\ k \in 1 .. n /\ PP!Reaches(n, top, k, slot)
      /\ Sound(m, Entries) /\ Later(vm.values, m.values, Tops(slot))
      /\ Len(m.fstack) = k + 1 /\ \A f \in 1 .. k + 1 : m.fstack[f] = vm.fstack[f]
      /\ GoesOn(m, k + 1) = GoesOn(vm, k + 1)
      /\ Len(m.stack) = slot /\ \A i \in 1 .. slot - 1 : m.stack[i] = vm.stack[i]
  BY DEF Stands
<1>3. Passed(n, top, k, slot)  BY <1>1, <1>2, SlotAbove
<1>4. slot \in Nat /\ slot >= 1 /\ slot - 1 <= Len(vm.stack)  BY <1>3 DEF Passed
<1>5. Len(vm.fstack) \in Nat /\ Len(vm.fstack) >= 2  BY <1>1, FramesAre
<1>6. n \in Nat /\ k \in Nat /\ k <= n /\ k \in 1 .. Len(vm.fstack) - 1
      /\ k + 1 \in 2 .. Len(vm.fstack) /\ k + 1 # k + 2
  BY <1>1, <1>2, <1>5 DEF Awaits
<1>7. Placed(vm, k + 1)  BY <1>1, <1>6 DEF Framed
<1>8. Above(m, k, Tops(slot))  BY <1>2, <1>6, <1>7 DEF Above, Placed
<1>9. Below(m, slot - 1, Tops(slot))
  <2>1. \A i \in 1 .. slot - 1 : vm.stack[i] \notin Tops(slot)
    <3>1. Len(vm.stack) \in Nat  BY <1>1, StackIs
    <3>2. \A i \in 1 .. slot - 1 : i <= Len(vm.stack)  BY <1>4, <3>1
    <3> QED  BY <1>1, <1>4, <3>2, TopsAre
  <2>2. slot - 1 \in Nat /\ slot - 1 <= Len(m.stack)  BY <1>2, <1>4
  <2> QED  BY <1>2, <1>4, <2>1, <2>2 DEF Below
<1>10. Matches(m, slot - 1)  BY <1>1, <1>9, BelowMatches
<1> QED  BY <1>3, <1>4, <1>6, <1>8, <1>9, <1>10 DEF Stood

\* One slot down, where a continuation was.
LEMMA StandsDown ==
  ASSUME NEW n, NEW top, Returning(n, top), NEW m, NEW k, NEW slot,
         Stands(m, n, top, k, slot), slot >= 2,
         TypeOf(vm, vm.stack[slot - 1]) = "CONTINUATION",
         NEW r, Sound(r, Entries), Later(m.values, r.values, {vm.stack[slot - 1]}),
         r.fstack = m.fstack, r.iptr = m.iptr, r.halted = FALSE, r.check = FALSE,
         Len(r.stack) = slot - 1, \A i \in 1 .. slot - 2 : r.stack[i] = m.stack[i]
  PROVE  Stands(r, n, top, k, slot - 1) /\ slot - 1 < PP!Arrival(n, top, k)
<1>1. VmInv /\ vm.halted = FALSE /\ Awaits(n, top)  BY DEF Returning
<1>2. /\ k \in 1 .. n /\ PP!Reaches(n, top, k, slot) /\ slot - 1 <= Room + 1
      /\ Later(vm.values, m.values, Tops(slot))
      /\ Len(m.fstack) = k + 1 /\ \A f \in 1 .. k + 1 : m.fstack[f] = vm.fstack[f]
      /\ GoesOn(m, k + 1) = GoesOn(vm, k + 1)
      /\ \A i \in 1 .. slot - 1 : m.stack[i] = vm.stack[i]
  BY DEF Stands
<1>3. Passed(n, top, k, slot) /\ slot \in Nat  BY StandsSo DEF Stood
<1>4. PICK j : j = slot - 1  OBVIOUS
<1>5. j \in Nat /\ j >= 1 /\ j <= slot /\ j <= Len(vm.stack) /\ j - 1 = slot - 2
      /\ j - 1 <= Room + 1
  <2>1. slot - 1 <= Len(vm.stack)  BY <1>3 DEF Passed
  <2>2. Room \in Nat  BY MachineAssumption DEF Room
  <2> QED  BY <1>2, <1>3, <1>4, <2>1, <2>2
<1>6. PP!Reaches(n, top, k, j) /\ j < PP!Arrival(n, top, k)
  BY <1>1, <1>2, <1>4, ReachesDown
<1>7. Later(vm.values, r.values, Tops(j))
  <2>1. Tops(slot) \subseteq Tops(j) /\ vm.stack[j] \in Tops(j)
    <3>1. TypeOf(vm, vm.stack[j]) = "CONTINUATION"  BY <1>4
    <3>2. vm.stack[j] \in Tops(j)  BY <1>1, <1>5, <3>1, TopsAre
    <3>3. slot >= 1  BY <1>3
    <3>4. Tops(slot) \subseteq Tops(j)  BY <1>1, <1>3, <1>5, <3>3, TopsAre
    <3> QED  BY <3>2, <3>4
  <2>2. Later(vm.values, m.values, Tops(j))  BY <1>2, <2>1, LaterMore
  <2>3. Later(m.values, r.values, Tops(j))
    <3>1. Later(m.values, r.values, {vm.stack[j]})  BY <1>4
    <3>2. {vm.stack[j]} \subseteq Tops(j)  BY <2>1
    <3> QED  BY <3>1, <3>2, LaterMore
  <2> QED  BY <2>2, <2>3, LaterTwice
<1>8. GoesOn(r, k + 1) = GoesOn(vm, k + 1)  BY <1>2 DEF GoesOn
<1>9. \A i \in 1 .. j - 1 : r.stack[i] = vm.stack[i]
  <2>1. \A i \in 1 .. j - 1 : i \in 1 .. slot - 2 /\ i \in 1 .. slot - 1  BY <1>3, <1>5
  <2> QED  BY <1>2, <2>1
<1>10. Stands(r, n, top, k, j)  BY <1>2, <1>4, <1>5, <1>6, <1>7, <1>8, <1>9 DEF Stands
<1> QED  BY <1>4, <1>6, <1>10

\* A value that stays there.
Settled(r, k, slot) ==
  /\ Ready(r) /\ r.halted = FALSE /\ r.check = FALSE
  /\ SlotKinds(r) = Append(SubSeq(SlotKinds(vm), 1, slot - 1), "value")
  /\ Activations(r) = SubSeq(Activations(vm), 1, k)

LEMMA StaysThere ==
  ASSUME NEW n, NEW top, Returning(n, top), NEW m, NEW k, NEW slot,
         Stands(m, n, top, k, slot), m.stack[slot] \in Plain(m.values)
  PROVE  Settled(m, k, slot)
<1>1. VmInv /\ vm.halted = FALSE /\ Len(vm.fstack) <= Room  BY DEF Returning
<1>2. /\ slot - 1 <= Room + 1 /\ Sound(m, Entries) /\ Len(m.fstack) = k + 1
      /\ GoesOn(m, k + 1) = GoesOn(vm, k + 1) /\ Len(m.stack) = slot
      /\ m.halted = FALSE /\ m.check = FALSE
  BY DEF Stands
<1>3. /\ slot \in Nat /\ slot >= 1 /\ k \in Nat /\ k \in 1 .. Len(vm.fstack) - 1
      /\ Above(m, k, Tops(slot)) /\ Matches(m, slot - 1)
  BY StandsSo DEF Stood
<1>4. PICK j : j = slot - 1  OBVIOUS
<1>5. slot = j + 1 /\ j \in Nat /\ Matches(m, j) /\ j <= Room + 1  BY <1>2, <1>3, <1>4
<1>6. PICK id : id = m.stack[j + 1]  OBVIOUS
<1>7. id \in Plain(m.values)  BY <1>5, <1>6
<1>8. Kind(m, id) = "value" /\ Fits1(m, j + 1)
  <2>1. m.values[id].type \notin Hidden  BY <1>7 DEF Plain
  <2> QED  BY <1>6, <1>7, <2>1, KindIs DEF Fits1, Hidden
<1>9. Len(m.fstack) <= Room + 1
  <2>1. Len(vm.fstack) \in Nat /\ Room \in Nat
    BY <1>1, FramesAre, MachineAssumption DEF VmInv, Room
  <2> QED  BY <1>1, <1>2, <1>3, <2>1
<1>10. Ready(m)
  <2>1. Len(m.stack) = j + 1  BY <1>2, <1>5
  <2> QED  BY <1>1, <1>2, <1>3, <1>5, <1>8, <1>9, <2>1, ReadyAbove
<1>11. SlotKinds(m) = Append(SubSeq(SlotKinds(vm), 1, j), "value")
  <2>1. PICK kind : kind = "value"  OBVIOUS
  <2>2. Kind(m, m.stack[j + 1]) = kind /\ Len(m.stack) = j + 1
    BY <1>2, <1>5, <1>6, <1>8, <2>1
  <2>3. SlotKinds(m) = Append(SubSeq(SlotKinds(vm), 1, j), kind)
    BY <1>1, <1>5, <2>2, KindsAbove
  <2> QED  BY <2>1, <2>3
<1>12. Activations(m) = SubSeq(Activations(vm), 1, k)
  <2>1. FramesWith(m, k, SubSeq(Activations(vm), 1, k))
    BY <1>1, <1>2, <1>3, ActivationsUpTo
  <2> QED  BY <1>2, <2>1 DEF FramesWith
<1> QED  BY <1>2, <1>4, <1>10, <1>11, <1>12 DEF Settled

-----------------------------------------------------------------------------
(* What comes to a slot: a value, or the continuation its callback has changed. *)

Callable(m, id) == TypeOf(m, id) \in {"FUNCTION", "CFUNCTION"}

Handed(m, id) ==
  LET x == vm.values[id]
      y == m.values[id]
  IN \/ /\ y.type = "CONTINUATION" /\ y.args = x.args /\ (Passing(y) <=> Passing(x))
        /\ Callable(m, y.call)
     \/ y.type = "RETURN" /\ y.ret \in Plain(m.values) /\ ~Passing(x)

Returned(m, a, slot) ==
  \/ m.stack[slot] \in Plain(m.values)
  \/ /\ slot < a /\ m.stack[slot] = vm.stack[slot]
     /\ TypeOf(vm, vm.stack[slot]) = "CONTINUATION" /\ Handed(m, vm.stack[slot])

Arrived(m, n, top, k, slot) ==
  Stands(m, n, top, k, slot) /\ Returned(m, PP!Arrival(n, top, k), slot)

\* A continuation below the slot is as it was.
LEMMA ContinuationBelow ==
  ASSUME NEW n, NEW top, Returning(n, top), NEW m, NEW k, NEW slot,
         Stands(m, n, top, k, slot), slot >= 2, NEW cont, cont = m.stack[slot - 1],
         TypeOf(m, cont) = "CONTINUATION" \/ TypeOf(vm, vm.stack[slot - 1]) = "CONTINUATION"
  PROVE  /\ slot - 1 \in 1 .. Len(vm.stack) /\ cont = vm.stack[slot - 1]
         /\ cont \in DOMAIN vm.values /\ cont \in DOMAIN m.values
         /\ TypeOf(vm, cont) = "CONTINUATION" /\ TypeOf(m, cont) = "CONTINUATION"
         /\ m.values[cont] = vm.values[cont]
<1>1. VmInv /\ Sound(vm, Entries) /\ Sound(m, Entries)  BY DEF Returning, VmInv, Stands
<1>2. Below(m, slot - 1, Tops(slot)) /\ slot \in Nat /\ slot - 1 <= Len(vm.stack)
  BY StandsSo DEF Stood, Passed
<1>3. PICK j : j = slot - 1  OBVIOUS
<1>4. Len(vm.stack) \in Nat /\ Len(m.stack) \in Nat  BY <1>1, StackIs
<1>5. j \in Nat /\ j \in 1 .. j /\ j \in 1 .. Len(vm.stack) /\ Below(m, j, Tops(slot))
      /\ j \in 1 .. Len(m.stack)
  <2>1. j <= Len(m.stack)  BY <1>2, <1>3 DEF Below
  <2> QED  BY <1>2, <1>3, <1>4, <2>1
<1>6. /\ TypeOf(m, m.stack[j]) \in Hidden => m.values[m.stack[j]] = vm.values[vm.stack[j]]
      /\ TypeOf(vm, vm.stack[j]) \in Hidden => m.values[m.stack[j]] = vm.values[vm.stack[j]]
  BY <1>1, <1>5, SlotsBelow
<1>7. m.stack[j] = vm.stack[j]  BY <1>5 DEF Below
<1>8. cont = m.stack[j] /\ cont = vm.stack[j]  BY <1>3, <1>7
<1>9. cont \in DOMAIN vm.values /\ cont \in DOMAIN m.values
  <2>1. vm.stack[j] \in DOMAIN vm.values /\ m.stack[j] \in DOMAIN m.values
    BY <1>1, <1>5, StackIs
  <2> QED  BY <1>8, <2>1
<1>10. TypeOf(m, cont) = "CONTINUATION" \/ TypeOf(vm, cont) = "CONTINUATION"
  BY <1>3, <1>8
<1>11. m.values[cont] = vm.values[cont]  BY <1>6, <1>8, <1>10 DEF Hidden
<1>12. TypeOf(vm, cont) = "CONTINUATION" /\ TypeOf(m, cont) = "CONTINUATION"
  BY <1>10, <1>11 DEF TypeOf
<1> QED  BY <1>3, <1>5, <1>8, <1>9, <1>11, <1>12

\* Whatever a callback makes a continuation call can be called.
LEMMA CalledByProperUse ==
  ASSUME VmInv, ProperUse, vm.halted = FALSE, NEW i \in 1 .. Len(vm.stack),
         NEW cont, cont = vm.stack[i], TypeOf(vm, cont) = "CONTINUATION", NEW x,
         x = vm.values[cont],
         NEW c, c = x.call \/ (x.callback # "NULL" /\ \E k \in DOMAIN x.held : c = x.held[k])
  PROVE  CanCall(c) /\ c \in Plain(vm.values)
<1>1. Sound(vm, Entries)  BY DEF VmInv
<1>2. DOMAIN vm.stack = 1 .. Len(vm.stack) /\ cont \in DOMAIN vm.values  BY <1>1, StackIs
<1>3. x.type = "CONTINUATION" /\ x.call \in Plain(vm.values)
      /\ Closure(x, Plain(vm.values), Slim(vm.values))
  BY <1>1, <1>2, ContinuationIs DEF TypeOf
<1>4. CanCall(x.call) /\ (x.callback # "NULL" => \A k \in DOMAIN x.held : CanCall(x.held[k]))
  BY <1>2, <1>3 DEF ProperUse
<1>5. CASE c = x.call  BY <1>3, <1>4, <1>5
<1>6. CASE x.callback # "NULL" /\ \E k \in DOMAIN x.held : c = x.held[k]
  <2>1. PICK k \in DOMAIN x.held : c = x.held[k]  BY <1>6
  <2>2. x.held = <<>> \/ x.held \in Seq(Plain(vm.values))  BY <1>3, <1>6 DEF Closure
  <2>3. PICK held : held = x.held  OBVIOUS
  <2>4. held # <<>>  BY <2>1, <2>3
  <2>5. held \in Seq(Plain(vm.values))  BY <2>2, <2>3, <2>4
  <2>6. c \in Plain(vm.values)  BY <2>1, <2>3, <2>5, ElementOfSeq, LenProperties
  <2> QED  BY <1>4, <1>6, <2>1, <2>6
<1> QED  BY <1>5, <1>6

\* One slot is another, or the slots end before.
Put(m, r, j, id) ==
  /\ Sound(r, Entries) /\ Beside(m, r) /\ r.values = m.values /\ Len(r.stack) = Len(m.stack)
  /\ r.stack[j] = id /\ \A i \in 1 .. Len(m.stack) : i # j => r.stack[i] = m.stack[i]
Cut(m, r, j) ==
  /\ Sound(r, Entries) /\ Beside(m, r) /\ r.values = m.values /\ Len(r.stack) = j
  /\ \A i \in 1 .. j : r.stack[i] = m.stack[i]

LEMMA PutsAndCuts ==
  ASSUME NEW m, Sound(m, Entries), Len(m.stack) >= 2, NEW id \in DOMAIN m.values,
         id \in Plain(m.values) \/ id = Slot(m, 2), NEW j, j = Len(m.stack) - 1,
         NEW b, b = Replace(m, 2, id), NEW r, r = Drop(b, 1)
  PROVE  Put(m, b, j, id) /\ Cut(b, r, j)
<1>1. PICK two : two = 2  OBVIOUS
<1>2. Len(m.stack) \in Nat  BY StackIs
<1>4. two \in 1 .. Len(m.stack)  BY <1>1, <1>2
<1>5. id \in Plain(m.values) \/ id = Slot(m, two)  BY <1>1
<1>6. Len(m.stack) + 1 - two = j  BY <1>1, <1>2
<1>7. b = Replace(m, two, id)  BY <1>1
<1>8. /\ Sound(b, Entries) /\ Beside(m, b) /\ b.values = m.values
      /\ Len(b.stack) = Len(m.stack) /\ b.stack[j] = id
      /\ \A i \in 1 .. Len(m.stack) : i # j => b.stack[i] = m.stack[i]
  BY <1>4, <1>5, <1>6, <1>7, ReplaceAt
<1>9. Put(m, b, j, id)  BY <1>8 DEF Put
<1>10. PICK one : one = 1  OBVIOUS
<1>11. one \in Nat /\ one <= Len(b.stack) /\ Len(b.stack) - one = j
  BY <1>2, <1>8, <1>10
<1>12. r = Drop(b, one)  BY <1>10
<1>13. Cut(b, r, j)
  <2>1. LET x == Drop(b, one)
        IN /\ Sound(x, Entries) /\ Beside(b, x) /\ x.values = b.values
           /\ Len(x.stack) = Len(b.stack) - one
           /\ \A i \in 1 .. Len(b.stack) - one : x.stack[i] = b.stack[i]
    BY <1>8, <1>11, DropSound
  <2>2. /\ Sound(r, Entries) /\ Beside(b, r) /\ r.values = b.values
        /\ Len(r.stack) = Len(b.stack) - one
        /\ \A i \in 1 .. Len(b.stack) - one : r.stack[i] = b.stack[i]
    BY <1>12, <2>1
  <2> QED  BY <1>11, <2>2 DEF Cut
<1> QED  BY <1>9, <1>13

\* A value is given to the continuation below it.
LEMMA Resumes ==
  ASSUME NEW n, NEW top, Returning(n, top), NEW m, NEW k, NEW slot,
         Stands(m, n, top, k, slot), slot >= 2, m.stack[slot] \in Plain(m.values),
         TypeOf(m, m.stack[slot - 1]) = "CONTINUATION",
         m.values[m.stack[slot - 1]].callback # "NULL", NEW r, r = Resume(m)
  PROVE  Arrived(r, n, top, k, slot - 1)
<1>1. VmInv /\ ProperUse /\ vm.halted = FALSE  BY DEF Returning
<1>2. PICK cont, id : cont = m.stack[slot - 1] /\ id = m.stack[slot]  OBVIOUS
<1>3. /\ slot - 1 \in 1 .. Len(vm.stack) /\ cont = vm.stack[slot - 1]
      /\ cont \in DOMAIN vm.values /\ cont \in DOMAIN m.values
      /\ TypeOf(vm, cont) = "CONTINUATION" /\ TypeOf(m, cont) = "CONTINUATION"
      /\ m.values[cont] = vm.values[cont]
  <2>1. TypeOf(m, cont) = "CONTINUATION"  BY <1>2
  <2> QED  BY <1>2, <2>1, ContinuationBelow
<1>4. /\ Sound(m, Entries) /\ Later(vm.values, m.values, Tops(slot)) /\ Len(m.stack) = slot
      /\ m.halted = FALSE /\ m.check = FALSE
  BY DEF Stands
<1>5. slot \in Nat  BY StandsSo DEF Stood
<1>6. Slot(m, 1) = id /\ Slot(m, 2) = cont
  <2>1. Len(m.stack) + 1 - 1 = slot /\ Len(m.stack) + 1 - 2 = slot - 1  BY <1>4, <1>5
  <2> QED  BY <1>2, <2>1 DEF Slot
<1>7. PICK a, id2 : a = CallBack(m, id, cont)[1] /\ id2 = CallBack(m, id, cont)[2]  OBVIOUS
<1>8. Answered(m, a, id2, cont, Entries)
  <2>1. m.values[cont].callback # "NULL" /\ id \in Plain(m.values)  BY <1>2
  <2> QED  BY <1>3, <1>4, <1>7, <2>1, CallBackAnswered
<1>9. /\ Sound(a, Entries) /\ Beside(m, a) /\ a.stack = m.stack
      /\ Later(m.values, a.values, {cont})
      /\ id2 \in Plain(a.values) \/
           (id2 = cont /\ Becomes(m.values[cont], a.values[cont], Plain(a.values)))
  BY <1>8 DEF Answered
<1>10. cont \in DOMAIN a.values  BY <1>3, <1>9 DEF Later
<1>11. id2 \in DOMAIN a.values /\ (id2 \in Plain(a.values) \/ id2 = cont)
  BY <1>9, <1>10 DEF Plain
<1>13. Slot(a, 2) = cont /\ Len(a.stack) = slot /\ Len(a.stack) >= 2
  <2>1. Slot(a, 2) = Slot(m, 2)  BY <1>9 DEF Slot
  <2>2. Len(a.stack) = slot  BY <1>4, <1>9
  <2> QED  BY <1>6, <2>1, <2>2
<1>14. PICK b : b = Replace(a, 2, id2)  OBVIOUS
<1>15. r = Drop(b, 1)  BY <1>6, <1>7, <1>14 DEF Resume
<1>16. PICK j : j = slot - 1  OBVIOUS
<1>17. Put(a, b, j, id2) /\ Cut(b, r, j)
  <2>1. j = Len(a.stack) - 1  BY <1>13, <1>16
  <2>2. id2 \in Plain(a.values) \/ id2 = Slot(a, 2)  BY <1>11, <1>13
  <2> QED  BY <1>9, <1>11, <1>13, <1>14, <1>15, <2>1, <2>2, PutsAndCuts
<1>18. /\ Sound(b, Entries) /\ Beside(a, b) /\ b.values = a.values
       /\ b.stack[slot - 1] = id2
       /\ \A i \in 1 .. slot : i # slot - 1 => b.stack[i] = a.stack[i]
  BY <1>13, <1>16, <1>17 DEF Put
<1>19. /\ Sound(r, Entries) /\ Beside(b, r) /\ r.values = b.values
       /\ Len(r.stack) = slot - 1 /\ \A i \in 1 .. slot - 1 : r.stack[i] = b.stack[i]
  BY <1>16, <1>17 DEF Cut
<1>20. /\ r.fstack = m.fstack /\ r.iptr = m.iptr /\ r.halted = FALSE /\ r.check = FALSE
       /\ Later(m.values, r.values, {vm.stack[slot - 1]})
  <2>1. {cont} = {vm.stack[slot - 1]} /\ r.values = a.values  BY <1>3, <1>18, <1>19
  <2> QED  BY <1>4, <1>9, <1>18, <1>19, <2>1 DEF Beside
<1>21. r.stack[slot - 1] = id2 /\ \A i \in 1 .. slot - 2 : r.stack[i] = m.stack[i]
  <2>1. slot - 1 \in 1 .. slot - 1  BY <1>5
  <2>2. \A i \in 1 .. slot - 2 : i \in 1 .. slot - 1 /\ i \in 1 .. slot /\ i # slot - 1
    BY <1>5
  <2> QED  BY <1>9, <1>18, <1>19, <2>1, <2>2
<1>22. Stands(r, n, top, k, slot - 1) /\ slot - 1 < PP!Arrival(n, top, k)
  <2>1. TypeOf(vm, vm.stack[slot - 1]) = "CONTINUATION"  BY <1>3
  <2> QED  BY <1>19, <1>20, <1>21, <2>1, StandsDown
<1>23. CASE id2 \in Plain(a.values)
  <2>1. r.stack[slot - 1] \in Plain(r.values)  BY <1>18, <1>19, <1>21, <1>23
  <2> QED  BY <1>22, <2>1 DEF Arrived, Returned
<1>24. CASE id2 = cont /\ Becomes(m.values[cont], a.values[cont], Plain(a.values))
  <2>1. PICK x, y : x = vm.values[cont] /\ y = r.values[cont]  OBVIOUS
  <2>2. Becomes(x, y, Plain(r.values))  BY <1>3, <1>18, <1>19, <1>24, <2>1
  <2>3. x.callback # "NULL"  BY <1>2, <1>3, <2>1
  <2>4. CASE y.type = "RETURN"
    <3>1. y.ret \in Plain(r.values) /\ ~Passing(x)  BY <2>2, <2>4 DEF Becomes
    <3>2. Handed(r, cont)  BY <2>1, <2>4, <3>1 DEF Handed
    <3> QED  BY <1>3, <1>21, <1>22, <1>24, <3>2 DEF Arrived, Returned
  <2>5. CASE y.type # "RETURN"
    <3>1. /\ y.type = "CONTINUATION" /\ y.args = x.args /\ (Passing(y) <=> Passing(x))
          /\ y.call = x.call \/ \E h \in DOMAIN x.held : y.call = x.held[h]
      BY <2>2, <2>5 DEF Becomes
    <3>2. PICK c : c = y.call  OBVIOUS
    <3>3. CanCall(c) /\ c \in Plain(vm.values)
      <4>1. c = x.call \/ (x.callback # "NULL" /\ \E h \in DOMAIN x.held : c = x.held[h])
        BY <2>3, <3>1, <3>2
      <4>2. PICK i : i = slot - 1  OBVIOUS
      <4>3. i \in 1 .. Len(vm.stack) /\ cont = vm.stack[i]  BY <1>3, <4>2
      <4> QED  BY <1>1, <1>3, <2>1, <4>1, <4>3, CalledByProperUse
    <3>4. Callable(r, c)
      <4>1. Later(vm.values, m.values, Tops(slot)) /\ Later(m.values, r.values, {cont})
        BY <1>4, <1>3, <1>20
      <4>2. c \in DOMAIN m.values /\ m.values[c].type = vm.values[c].type
            /\ m.values[c].type \notin Hidden
        BY <3>3, <4>1 DEF Later, Plain
      <4>3. r.values[c].type = m.values[c].type  BY <4>1, <4>2 DEF Later
      <4> QED  BY <3>3, <4>2, <4>3 DEF Callable, CanCall, TypeOf
    <3>5. Handed(r, cont)  BY <2>1, <3>1, <3>2, <3>4 DEF Handed
    <3> QED  BY <1>3, <1>21, <1>22, <1>24, <3>5 DEF Arrived, Returned
  <2> QED  BY <2>4, <2>5
<1> QED  BY <1>9, <1>23, <1>24

-----------------------------------------------------------------------------
(* Each round. *)

\* Where it ends: the value stays, or something is called again.
Left(r, n, top, k, slot) ==
  /\ k \in 1 .. n /\ PP!Reaches(n, top, k, slot)
  /\ \/ /\ Settled(r, k, slot)
        /\ \/ ~PP!IsContinuation(slot - 1)
           \/ slot < PP!Arrival(n, top, k) /\ SlotKinds(vm)[slot] = "passing"
     \/ slot < PP!Arrival(n, top, k) /\ CalledAgain(r, k, slot)

Done(r, n, top) == Ready(r) /\ (r.halted = TRUE \/ \E k, slot : Left(r, n, top, k, slot))

\* Or it goes on, with less left.
Goes(r, n, top, size) ==
  \/ r.again = FALSE /\ Done(r.vm, n, top)
  \/ /\ r.again = TRUE
     /\ \E k, slot : Arrived(r.vm, n, top, k, slot) /\ k + slot < size

LEMMA ReturnRound ==
  ASSUME NEW n, NEW top, Returning(n, top), NEW m, NEW k, NEW slot,
         Arrived(m, n, top, k, slot), TypeOf(m, m.stack[slot]) = "RETURN",
         NEW r, r = Round(m)
  PROVE  Goes(r, n, top, k + slot)
<1>1. VmInv /\ vm.halted = FALSE /\ Awaits(n, top) /\ Sound(vm, Entries) /\ Framed(vm)
      /\ Len(vm.fstack) <= StackSize /\ program \in DOMAIN Programs
  BY DEF Returning, VmInv
<1>2. /\ Stands(m, n, top, k, slot) /\ Sound(m, Entries)
      /\ Later(vm.values, m.values, Tops(slot)) /\ slot - 1 <= Room + 1
      /\ k \in 1 .. n /\ PP!Reaches(n, top, k, slot)
      /\ Len(m.fstack) = k + 1 /\ \A f \in 1 .. k + 1 : m.fstack[f] = vm.fstack[f]
      /\ Len(m.stack) = slot /\ \A i \in 1 .. slot - 1 : m.stack[i] = vm.stack[i]
      /\ m.halted = FALSE /\ m.check = FALSE
  BY DEF Arrived, Stands
<1>3. /\ Passed(n, top, k, slot) /\ slot \in Nat /\ slot >= 1
      /\ k \in Nat /\ k \in 1 .. Len(vm.fstack) - 1 /\ n \in Nat /\ k <= n
      /\ Above(m, k, Tops(slot))
  BY <1>2, StandsSo DEF Stood
<1>4. PICK id, a : id = m.stack[slot] /\ a = PP!Arrival(n, top, k)  OBVIOUS
<1>5. id \notin Plain(m.values)  BY <1>4 DEF Plain, Hidden, TypeOf
<1>6. slot < a /\ id = vm.stack[slot] /\ TypeOf(vm, id) = "CONTINUATION" /\ Handed(m, id)
  BY <1>4, <1>5 DEF Arrived, Returned
<1>7. PICK x, y : x = vm.values[id] /\ y = m.values[id]  OBVIOUS
<1>8. y.ret \in Plain(m.values) /\ ~Passing(x)
  <2>1. y.type = "RETURN"  BY <1>4, <1>7 DEF TypeOf
  <2> QED  BY <1>6, <1>7, <2>1 DEF Handed
<1>9. Len(vm.fstack) \in Nat /\ Frame(m) = m.fstack[k + 1] /\ k + 1 \in 1 .. k + 1
      /\ k + 1 \in 2 .. Len(vm.fstack)
  <2>1. Len(vm.fstack) \in Nat  BY <1>1, FramesAre
  <2>2. Frame(m) = m.fstack[k + 1]  BY <1>2 DEF Frame
  <2> QED  BY <1>3, <2>1, <2>2
<1>10. PICK fr : fr = vm.fstack[k + 1]  OBVIOUS
<1>11. Frame(m) = fr  BY <1>2, <1>9, <1>10
<1>12. Slot(m, 1) = id
  <2>1. Len(m.stack) + 1 - 1 = slot  BY <1>2, <1>3
  <2> QED  BY <1>4, <2>1 DEF Slot
<1>13. TypeOf(m, id) = "RETURN"  BY <1>4
<1>14. CASE fr.retptr = NoReturn
  <2>1. r = [vm |-> [m EXCEPT !.halted = TRUE], again |-> FALSE]
    BY <1>11, <1>12, <1>13, <1>14 DEF Round
  <2>2. PICK q : q = [m EXCEPT !.halted = TRUE]  OBVIOUS
  <2>3. r.vm = q /\ r.again = FALSE  BY <2>1, <2>2
  <2>4. /\ IsMachine(q) /\ q.values = m.values /\ q.stack = m.stack /\ q.fstack = m.fstack
        /\ q.modules = m.modules /\ q.fs = m.fs /\ q.halted = TRUE /\ q.check = m.check
        /\ q.iptr = m.iptr
    BY <1>2, <2>2 DEF Sound, IsMachine
  <2>5. Sound(q, Entries)  BY <1>2, <2>4, SoundAs
  <2>6. q.iptr \in 1 .. Len(Code) + 1
    <3>1. GoesOn(m, k + 1) = m.iptr  BY <1>2 DEF GoesOn
    <3>2. m.iptr \in DOMAIN Code  BY <1>3, <3>1 DEF Above
    <3> QED  BY <1>1, <2>4, <3>2, CodeIs
  <2>7. Len(q.stack) <= StackSize /\ Len(q.fstack) <= StackSize
    <3>1. StackSize \in Nat /\ Margin \in Nat /\ Margin >= 2  BY MachineAssumption
    <3>2. Len(q.stack) <= StackSize  BY <1>2, <1>3, <2>4, <3>1 DEF Room
    <3>3. Len(q.fstack) <= StackSize  BY <1>1, <1>2, <1>9, <2>4, <3>1
    <3> QED  BY <3>2, <3>3
  <2>8. Ready(q)  BY <2>4, <2>5, <2>6, <2>7 DEF Ready
  <2> QED  BY <2>3, <2>4, <2>8 DEF Goes, Done
<1>15. CASE fr.retptr # NoReturn
  <2>1. PICK p, ret : p = PopFrame(m, y.ret) /\ ret = y.ret  OBVIOUS
  <2>2. r = [vm |-> p, again |-> TRUE]
    BY <1>7, <1>11, <1>12, <1>13, <1>15, <2>1 DEF Round
  <2>3. k >= 2
    <3>1. PICK f : f = k + 1  OBVIOUS
    <3>2. vm.fstack[f].retptr = NoReturn <=> f = 2
      BY <1>1, <1>9, <3>1 DEF Framed
    <3>3. f # 2  BY <1>10, <1>15, <3>1, <3>2
    <3> QED  BY <1>3, <3>1, <3>3
  <2>4. PICK j, sptr, s : j = k - 1 /\ sptr = fr.sptr /\ s = sptr + 1  OBVIOUS
  <2>5. sptr \in Nat /\ sptr < slot
    <3>1. k + 1 \in 1 .. Len(vm.fstack)  BY <1>9
    <3>2. sptr \in Nat  BY <1>1, <1>10, <2>4, <3>1, FramesAre
    <3> QED  BY <1>3, <1>10, <2>4, <3>2 DEF Passed
  <2>6. j \in 1 .. n /\ PP!Reaches(n, top, j, s)
    <3>1. SlotKinds(vm)[slot] = "answering"
      <4>1. slot <= Len(vm.stack)  BY <1>3, <1>4, <1>6 DEF Passed
      <4>2. slot \in 1 .. Len(vm.stack)  BY <1>1, <1>3, <4>1, StackIs
      <4>3. SlotKinds(vm)[slot] = Kind(vm, id)  BY <1>1, <1>6, <4>2, KindsAre
      <4> QED  BY <1>6, <1>7, <1>8, <4>3, KindIs
    <3>2. k \in 2 .. n /\ slot < PP!Arrival(n, top, k)  BY <1>3, <1>4, <1>6, <2>3
    <3>3. s = vm.fstack[k + 1].sptr + 1  BY <1>10, <2>4
    <3> QED  BY <1>1, <1>2, <2>4, <3>1, <3>2, <3>3, ReachesBelow
  <2>7. Popped(m, p, ret, Entries)
    <3>1. Len(m.fstack) >= 3 /\ Frame(m).sptr <= Len(m.stack)
      BY <1>2, <1>3, <1>11, <2>3, <2>4, <2>5
    <3>2. ret \in Plain(m.values)  BY <1>8, <2>1
    <3> QED  BY <1>2, <2>1, <3>1, <3>2, PopFrameSound
  <2>8. /\ Sound(p, Entries) /\ p.values = m.values /\ p.halted = FALSE /\ p.check = FALSE
        /\ p.iptr = fr.retptr /\ Len(p.fstack) = k
        /\ \A f \in 1 .. k : p.fstack[f] = m.fstack[f]
        /\ Len(p.stack) = s /\ p.stack[s] = ret
        /\ \A i \in 1 .. sptr : p.stack[i] = m.stack[i]
    <3>1. Len(m.fstack) - 1 = k  BY <1>2, <1>3
    <3> QED  BY <1>2, <1>11, <2>4, <2>7, <3>1 DEF Popped
  <2>9. /\ j \in 1 .. Len(vm.fstack) - 2 /\ j + 1 = k /\ j + 2 = k + 1 /\ j \in Nat
        /\ s - 1 = sptr /\ s \in Nat /\ s <= slot
    BY <1>3, <1>9, <2>3, <2>4, <2>5
  <2>10. Later(vm.values, p.values, Tops(s))
    <3>1. Tops(slot) \subseteq Tops(s)  BY <1>1, <1>3, <2>9, TopsAre
    <3> QED  BY <1>2, <2>8, <3>1, LaterMore
  <2>11. GoesOn(p, j + 1) = GoesOn(vm, j + 1)
    <3>1. \A f \in 1 .. j + 1 : p.fstack[f] = vm.fstack[f]
      <4>1. \A f \in 1 .. j + 1 : f \in 1 .. k /\ f \in 1 .. k + 1  BY <1>3, <2>9
      <4> QED  BY <1>2, <2>8, <4>1
    <3>2. Len(p.fstack) = j + 1 /\ p.iptr = vm.fstack[j + 2].retptr
      BY <1>10, <2>8, <2>9
    <3> QED  BY <1>1, <2>8, <2>9, <2>10, <3>1, <3>2, AboveLeft
  <2>12. Stands(p, n, top, j, s)
    <3>1. \A f \in 1 .. j + 1 : p.fstack[f] = vm.fstack[f]
      <4>1. \A f \in 1 .. j + 1 : f \in 1 .. k /\ f \in 1 .. k + 1  BY <1>3, <2>9
      <4> QED  BY <1>2, <2>8, <4>1
    <3>2. \A i \in 1 .. s - 1 : p.stack[i] = vm.stack[i]
      <4>1. \A i \in 1 .. s - 1 : i \in 1 .. sptr /\ i \in 1 .. slot - 1
        BY <1>3, <2>5, <2>9
      <4> QED  BY <1>2, <2>8, <4>1
    <3>3. s - 1 <= Room + 1
      <4>1. Room \in Nat  BY MachineAssumption DEF Room
      <4> QED  BY <1>2, <1>3, <2>5, <2>9, <4>1
    <3>4. Len(p.fstack) = j + 1  BY <2>8, <2>9
    <3> QED  BY <2>6, <2>8, <2>10, <2>11, <3>1, <3>2, <3>3, <3>4 DEF Stands
  <2>13. Arrived(p, n, top, j, s)
    <3>1. p.stack[s] \in Plain(p.values)  BY <1>8, <2>1, <2>8
    <3> QED  BY <2>12, <3>1 DEF Arrived, Returned
  <2>14. j + s < k + slot  BY <1>3, <2>9
  <2>15. r.vm = p /\ r.again = TRUE  BY <2>2
  <2> QED  BY <2>13, <2>14, <2>15 DEF Goes
<1> QED  BY <1>14, <1>15

LEMMA ContinuationRound ==
  ASSUME NEW n, NEW top, Returning(n, top), NEW m, NEW k, NEW slot,
         Arrived(m, n, top, k, slot), TypeOf(m, m.stack[slot]) = "CONTINUATION",
         NEW r, r = Round(m)
  PROVE  Goes(r, n, top, k + slot)
<1>1. VmInv /\ vm.halted = FALSE /\ Sound(vm, Entries) /\ Within(vm)
      /\ Len(vm.fstack) <= Room
  BY DEF Returning, VmInv
<1>2. /\ Stands(m, n, top, k, slot) /\ Sound(m, Entries)
      /\ k \in 1 .. n /\ PP!Reaches(n, top, k, slot)
      /\ Len(m.fstack) = k + 1 /\ GoesOn(m, k + 1) = GoesOn(vm, k + 1)
      /\ Len(m.stack) = slot /\ m.halted = FALSE /\ m.check = FALSE
  BY DEF Arrived, Stands
<1>3. /\ Passed(n, top, k, slot) /\ slot \in Nat /\ slot >= 1
      /\ Above(m, k, Tops(slot)) /\ Matches(m, slot - 1)
  BY <1>2, StandsSo DEF Stood
<1>4. PICK id, a : id = m.stack[slot] /\ a = PP!Arrival(n, top, k)  OBVIOUS
<1>5. id \notin Plain(m.values) /\ TypeOf(m, id) = "CONTINUATION"
  BY <1>4 DEF Plain, Hidden, TypeOf
<1>6. slot < a /\ id = vm.stack[slot] /\ TypeOf(vm, id) = "CONTINUATION" /\ Handed(m, id)
  BY <1>4, <1>5 DEF Arrived, Returned
<1>7. PICK x, y : x = vm.values[id] /\ y = m.values[id]  OBVIOUS
<1>8. y.args = x.args /\ (Passing(y) <=> Passing(x)) /\ Callable(m, y.call)
  <2>1. y.type = "CONTINUATION" /\ y.type # "RETURN"  BY <1>5, <1>7 DEF TypeOf
  <2> QED  BY <1>6, <1>7, <2>1 DEF Handed
<1>9. slot \in 1 .. Len(vm.stack) /\ slot <= Len(vm.stack)
  <2>1. slot <= Len(vm.stack)  BY <1>3, <1>4, <1>6 DEF Passed
  <2> QED  BY <1>1, <1>3, <2>1, StackIs
<1>10. Kind(m, id) = Kind(vm, id)
  <2>1. x.callback \in {"NULL", "match"} <=> y.callback \in {"NULL", "match"}
    BY <1>8 DEF Passing
  <2> QED  BY <1>5, <1>6, <1>7, <2>1 DEF Kind
<1>11. Fits1(m, slot)
  <2>1. DOMAIN vm.stack = 1 .. Len(vm.stack)  BY <1>1, StackIs
  <2>2. slot <= Room \/ (slot <= Room + 1 /\ x.args = knone)
    BY <1>1, <1>6, <1>7, <1>9, <2>1 DEF Within
  <2>3. y.type # "RETURN"  BY <1>5, <1>7 DEF TypeOf
  <2> QED  BY <1>4, <1>7, <1>8, <2>2, <2>3 DEF Fits1
<1>12. Matches(m, slot)
  <2>1. \A i \in 1 .. slot : i \in 1 .. slot - 1 \/ i = slot  BY <1>3
  <2>2. slot <= Len(m.stack)  BY <1>2, <1>3
  <2> QED  BY <1>2, <1>3, <1>4, <1>6, <1>9, <1>10, <1>11, <2>1, <2>2 DEF Matches
<1>13. OnTop(m, k, slot, Tops(slot))
  BY <1>1, <1>2, <1>3, <1>12 DEF OnTop
<1>14. Slot(m, 1) = id
  <2>1. Len(m.stack) + 1 - 1 = slot  BY <1>2, <1>3
  <2> QED  BY <1>4, <2>1 DEF Slot
<1>15. PICK q : q = CallContinuation(m)  OBVIOUS
<1>16. r = [vm |-> q, again |-> FALSE]  BY <1>5, <1>14, <1>15 DEF Round
<1>17. CalledAgain(q, k, slot)
  <2>1. TypeOf(m, m.values[m.stack[slot]].call) \in {"FUNCTION", "CFUNCTION"}
    BY <1>4, <1>7, <1>8 DEF Callable
  <2> QED  BY <1>1, <1>13, <1>15, <2>1, ContinuationCalled
<1>18. Left(q, n, top, k, slot)  BY <1>2, <1>4, <1>6, <1>17 DEF Left
<1>19. Done(q, n, top)  BY <1>17, <1>18 DEF Done, CalledAgain
<1>20. r.vm = q /\ r.again = FALSE  BY <1>16
<1> QED  BY <1>19, <1>20 DEF Goes

LEMMA ValueRound ==
  ASSUME NEW n, NEW top, Returning(n, top), NEW m, NEW k, NEW slot,
         Arrived(m, n, top, k, slot), m.stack[slot] \in Plain(m.values),
         NEW r, r = Round(m)
  PROVE  Goes(r, n, top, k + slot)
<1>1. VmInv /\ vm.halted = FALSE /\ Sound(vm, Entries)  BY DEF Returning, VmInv
<1>2. /\ Stands(m, n, top, k, slot) /\ Sound(m, Entries)
      /\ k \in 1 .. n /\ PP!Reaches(n, top, k, slot)
      /\ Len(m.stack) = slot /\ m.halted = FALSE /\ m.check = FALSE
  BY DEF Arrived, Stands
<1>3. slot \in Nat /\ slot >= 1 /\ k \in Nat  BY <1>2, StandsSo DEF Stood
<1>4. PICK id : id = m.stack[slot]  OBVIOUS
<1>5. /\ id \in Plain(m.values) /\ id \in DOMAIN m.values
      /\ TypeOf(m, id) \notin {"RETURN", "CONTINUATION"}
  BY <1>4 DEF Plain, Hidden, TypeOf
<1>6. Slot(m, 1) = id
  <2>1. Len(m.stack) + 1 - 1 = slot  BY <1>2, <1>3
  <2> QED  BY <1>4, <2>1 DEF Slot
<1>7. PICK above : above = (Len(m.stack) >= 2 /\ TypeOf(m, Slot(m, 2)) = "CONTINUATION")
  OBVIOUS
<1>8. PICK cont : cont = m.stack[slot - 1]  OBVIOUS
<1>9. slot >= 2 => Slot(m, 2) = cont
  <2>1. Len(m.stack) + 1 - 2 = slot - 1  BY <1>2, <1>3
  <2> QED  BY <1>8, <2>1 DEF Slot
<1>10. CASE ~above
  <2>1. r = [vm |-> m, again |-> FALSE]  BY <1>5, <1>6, <1>7, <1>10 DEF Round
  <2>2. ~PP!IsContinuation(slot - 1)
    <3>1. SUFFICES ASSUME PP!IsContinuation(slot - 1)  PROVE FALSE  OBVIOUS
    <3>2. PICK j : j = slot - 1  OBVIOUS
    <3>3. j \in DOMAIN SlotKinds(vm) /\ SlotKinds(vm)[j] \in {"passing", "answering"}
      BY <1>1, <3>1, <3>2 DEF PP!IsContinuation, PP!Continuations
    <3>4. j \in 1 .. Len(vm.stack) /\ SlotKinds(vm)[j] = Kind(vm, vm.stack[j])
      BY <1>1, <3>3, KindsAre
    <3>5. slot >= 2
      <4>1. Len(vm.stack) \in Nat  BY <1>1, StackIs
      <4> QED  BY <1>3, <3>2, <3>4, <4>1
    <3>6. TypeOf(vm, vm.stack[j]) = "CONTINUATION"  BY <3>3, <3>4, KindIs
    <3>7. TypeOf(m, cont) = "CONTINUATION"
      <4>1. TypeOf(vm, vm.stack[slot - 1]) = "CONTINUATION"  BY <3>2, <3>6
      <4> QED  BY <1>2, <1>8, <3>5, <4>1, ContinuationBelow
    <3> QED  BY <1>2, <1>7, <1>9, <1>10, <3>5, <3>7
  <2>3. Settled(m, k, slot)  BY <1>2, StaysThere
  <2>4. Left(m, n, top, k, slot)  BY <1>2, <2>2, <2>3 DEF Left
  <2>5. Done(m, n, top)  BY <2>3, <2>4 DEF Done, Settled
  <2>6. r.vm = m /\ r.again = FALSE  BY <2>1
  <2> QED  BY <2>5, <2>6 DEF Goes
<1>11. CASE above
  <2>1. slot >= 2 /\ TypeOf(m, cont) = "CONTINUATION"  BY <1>2, <1>7, <1>9, <1>11
  <2>2. /\ slot - 1 \in 1 .. Len(vm.stack) /\ cont = vm.stack[slot - 1]
        /\ cont \in DOMAIN vm.values /\ cont \in DOMAIN m.values
        /\ TypeOf(vm, cont) = "CONTINUATION" /\ TypeOf(m, cont) = "CONTINUATION"
        /\ m.values[cont] = vm.values[cont]
    BY <1>2, <1>8, <2>1, ContinuationBelow
  <2>3. k + (slot - 1) < k + slot  BY <1>3
  <2>4. CASE m.values[cont].callback # "NULL"
    <3>1. PICK q : q = Resume(m)  OBVIOUS
    <3>2. r = [vm |-> q, again |-> TRUE]
      <4>1. ~(m.values[Slot(m, 2)].callback = "NULL")  BY <1>9, <2>1, <2>4
      <4> QED  BY <1>5, <1>6, <1>7, <1>11, <3>1, <4>1 DEF Round
    <3>3. Arrived(q, n, top, k, slot - 1)
      BY <1>2, <1>8, <2>1, <2>4, <3>1, Resumes
    <3>4. r.vm = q /\ r.again = TRUE  BY <3>2
    <3> QED  BY <2>3, <3>3, <3>4 DEF Goes
  <2>5. CASE m.values[cont].callback = "NULL"
    <3>1. PICK b : b = Replace(m, 2, id)  OBVIOUS
    <3>2. PICK q : q = Drop(b, 1)  OBVIOUS
    <3>3. r = [vm |-> q, again |-> FALSE]
      <4>1. m.values[Slot(m, 2)].callback = "NULL"  BY <1>9, <2>1, <2>5
      <4> QED  BY <1>5, <1>6, <1>7, <1>11, <3>1, <3>2, <4>1 DEF Round
    <3>4. PICK j : j = slot - 1  OBVIOUS
    <3>5. Put(m, b, j, id) /\ Cut(b, q, j)
      <4>1. j = Len(m.stack) - 1 /\ Len(m.stack) >= 2  BY <1>2, <2>1, <3>4
      <4> QED  BY <1>2, <1>5, <3>1, <3>2, <4>1, PutsAndCuts
    <3>6. /\ Sound(b, Entries) /\ Beside(m, b) /\ b.values = m.values
          /\ b.stack[j] = id /\ \A i \in 1 .. slot : i # j => b.stack[i] = m.stack[i]
      BY <1>2, <3>5 DEF Put
    <3>7. /\ Sound(q, Entries) /\ Beside(b, q) /\ q.values = b.values
          /\ Len(q.stack) = j /\ \A i \in 1 .. j : q.stack[i] = b.stack[i]
      BY <3>5 DEF Cut
    <3>8. /\ q.fstack = m.fstack /\ q.iptr = m.iptr /\ q.halted = FALSE /\ q.check = FALSE
          /\ Later(m.values, q.values, {vm.stack[slot - 1]})
      <4>1. q.values = m.values  BY <3>6, <3>7
      <4>2. Later(m.values, m.values, {})  BY LaterSame
      <4>3. Later(m.values, q.values, {vm.stack[slot - 1]})  BY <4>1, <4>2, LaterMore
      <4> QED  BY <1>2, <3>6, <3>7, <4>3 DEF Beside
    <3>9. \A i \in 1 .. slot - 2 : q.stack[i] = m.stack[i]
      <4>1. \A i \in 1 .. slot - 2 : i \in 1 .. j /\ i \in 1 .. slot /\ i # j
        BY <1>3, <3>4
      <4> QED  BY <3>6, <3>7, <4>1
    <3>10. Stands(q, n, top, k, slot - 1) /\ slot - 1 < PP!Arrival(n, top, k)
      <4>1. TypeOf(vm, vm.stack[slot - 1]) = "CONTINUATION"  BY <2>2
      <4>2. Len(q.stack) = slot - 1  BY <3>4, <3>7
      <4> QED  BY <1>2, <2>1, <3>7, <3>8, <3>9, <4>1, <4>2, StandsDown
    <3>11. Settled(q, k, slot - 1)
      <4>1. j \in 1 .. j  BY <1>3, <2>1, <3>4
      <4>2. q.stack[j] = id  BY <3>6, <3>7, <4>1
      <4>3. q.stack[slot - 1] \in Plain(q.values)  BY <1>5, <3>4, <3>6, <3>7, <4>2
      <4> QED  BY <3>10, <4>3, StaysThere
    <3>12. SlotKinds(vm)[slot - 1] = "passing"
      <4>1. SlotKinds(vm)[j] = Kind(vm, vm.stack[j])  BY <1>1, <2>2, <3>4, KindsAre
      <4>2. vm.values[vm.stack[j]].callback = "NULL" /\ TypeOf(vm, vm.stack[j]) = "CONTINUATION"
        BY <2>2, <2>5, <3>4
      <4> QED  BY <3>4, <4>1, <4>2 DEF Kind
    <3>13. Left(q, n, top, k, slot - 1)
      <4>1. PP!Reaches(n, top, k, slot - 1) /\ k \in 1 .. n  BY <3>10 DEF Stands
      <4> QED  BY <3>10, <3>11, <3>12, <4>1 DEF Left
    <3>14. Done(q, n, top)  BY <3>11, <3>13 DEF Done, Settled
    <3>15. r.vm = q /\ r.again = FALSE  BY <3>3
    <3> QED  BY <3>14, <3>15 DEF Goes
  <2> QED  BY <2>4, <2>5
<1>12. above \in BOOLEAN  BY <1>7
<1> QED  BY <1>10, <1>11, <1>12

LEMMA RoundGoes ==
  ASSUME NEW n, NEW top, Returning(n, top), NEW m, NEW k, NEW slot,
         Arrived(m, n, top, k, slot), NEW r, r = Round(m)
  PROVE  Goes(r, n, top, k + slot)
<1>1. CASE m.stack[slot] \in Plain(m.values)  BY <1>1, ValueRound
<1>2. CASE m.stack[slot] \notin Plain(m.values)
  <2>1. TypeOf(m, m.stack[slot]) \in {"RETURN", "CONTINUATION"}
    BY <1>2 DEF Arrived, Returned, Handed, TypeOf
  <2> QED  BY <2>1, ReturnRound, ContinuationRound
<1> QED  BY <1>1, <1>2

-----------------------------------------------------------------------------
(* All rounds. *)

Begun(m) == [vm |-> m, again |-> TRUE]
Onward(r) == IF r.again THEN Round(r.vm) ELSE r

Rounds(m, most, f) ==
  f = [j \in 0 .. most |-> IF j = 0 THEN Begun(m) ELSE Onward(f[j - 1])]

LEMMA RoundsExist ==
  ASSUME NEW m, NEW most \in Nat
  PROVE  \E f : Rounds(m, most, f)
<1> DEFINE Bad == {j \in Nat : ~ \E f : Rounds(m, j, f)}
<1>1. SUFFICES ASSUME Bad # {}  PROVE FALSE
  OBVIOUS
<1>2. PICK j \in Bad : \A i \in Bad : j <= i
  <2>1. Bad \subseteq Nat  OBVIOUS
  <2> HIDE DEF Bad
  <2> QED  BY <1>1, <2>1, LeastOf
<1>3. j \in Nat /\ ~ \E f : Rounds(m, j, f)  BY <1>2
<1>4. CASE j = 0
  <2>1. PICK f : f = [i \in 0 .. 0 |-> Begun(m)]  OBVIOUS
  <2>2. f = [i \in 0 .. 0 |-> IF i = 0 THEN Begun(m) ELSE Onward(f[i - 1])]
    <3>1. \A i \in 0 .. 0 : i = 0  OBVIOUS
    <3> QED  BY <2>1, <3>1
  <2> QED  BY <1>3, <1>4, <2>2 DEF Rounds
<1>5. CASE j # 0
  <2>1. PICK i : i = j - 1  OBVIOUS
  <2>2. i \in Nat /\ i < j /\ j = i + 1  BY <1>3, <1>5, <2>1
  <2>3. \E f : Rounds(m, i, f)
    <3>1. i \notin Bad  BY <1>2, <1>3, <2>2
    <3> QED  BY <2>2, <3>1
  <2>4. PICK f : Rounds(m, i, f)  BY <2>3
  <2>5. f = [h \in 0 .. i |-> IF h = 0 THEN Begun(m) ELSE Onward(f[h - 1])]
    BY <2>4 DEF Rounds
  <2>6. \A h \in 0 .. i : f[h] = IF h = 0 THEN Begun(m) ELSE Onward(f[h - 1])
    BY <2>5
  <2>7. PICK last : last = Onward(f[i])  OBVIOUS
  <2>8. PICK g : g = [h \in 0 .. j |-> IF h = j THEN last ELSE f[h]]  OBVIOUS
  <2>9. ASSUME NEW h \in 0 .. j
        PROVE  g[h] = IF h = 0 THEN Begun(m) ELSE Onward(g[h - 1])
    <3>1. h = j \/ h \in 0 .. i  BY <2>2
    <3>2. CASE h = j
      <4>1. h - 1 = i /\ i \in 0 .. j /\ i # j /\ h # 0  BY <2>2, <3>2
      <4>2. g[h - 1] = f[i]  BY <2>8, <4>1
      <4>3. g[h] = last  BY <2>8, <3>2
      <4> QED  BY <2>7, <4>1, <4>2, <4>3
    <3>3. CASE h \in 0 .. i /\ h # j
      <4>1. g[h] = f[h]  BY <2>8, <3>3
      <4>2. CASE h = 0  BY <2>6, <3>3, <4>1, <4>2
      <4>3. CASE h # 0
        <5>1. h - 1 \in 0 .. j /\ h - 1 # j  BY <2>2, <3>3, <4>3
        <5>2. g[h - 1] = f[h - 1]  BY <2>8, <5>1
        <5> QED  BY <2>6, <3>3, <4>1, <4>3, <5>2
      <4> QED  BY <4>2, <4>3
    <3>4. h \in 0 .. i => h # j  BY <2>2
    <3> QED  BY <3>1, <3>2, <3>3, <3>4
  <2>10. g = [h \in 0 .. j |-> g[h]]  BY <2>8
  <2>11. g = [h \in 0 .. j |-> IF h = 0 THEN Begun(m) ELSE Onward(g[h - 1])]
    BY <2>9, <2>10
  <2> QED  BY <1>3, <2>11 DEF Rounds
<1> QED  BY <1>4, <1>5

LEMMA AfterFuncReturnIs ==
  ASSUME NEW m, NEW most \in Nat, most = Len(m.stack) + Len(m.fstack)
  PROVE  \E f : Rounds(m, most, f) /\ AfterFuncReturn(m) = f[most].vm
<1>1. PICK f : f = CHOOSE g : Rounds(m, most, g)  OBVIOUS
<1>2. Rounds(m, most, f)  BY <1>1, RoundsExist
<1>3. AfterFuncReturn(m) = f[most].vm
  BY <1>1 DEF AfterFuncReturn, Rounds, Begun, Onward
<1> QED  BY <1>2, <1>3

LEMMA RoundsAre ==
  ASSUME NEW m, NEW most \in Nat, NEW f, Rounds(m, most, f)
  PROVE  /\ f[0] = Begun(m)
         /\ \A j \in 0 .. most - 1 : f[j + 1] = Onward(f[j])
<1>1. \A j \in 0 .. most : f[j] = IF j = 0 THEN Begun(m) ELSE Onward(f[j - 1])
  BY DEF Rounds
<1>2. 0 \in 0 .. most  OBVIOUS
<1>3. ASSUME NEW j \in 0 .. most - 1  PROVE f[j + 1] = Onward(f[j])
  <2>1. PICK i : i = j + 1  OBVIOUS
  <2>2. i \in 0 .. most /\ i # 0 /\ i - 1 = j  BY <2>1
  <2>3. f[i] = Onward(f[i - 1])  BY <1>1, <2>2
  <2> QED  BY <2>1, <2>2, <2>3
<1> QED  BY <1>1, <1>2, <1>3

\* From the first round on what is left gets less, so the last one has come to the
\* end.
LEMMA RoundsEnd ==
  ASSUME NEW n, NEW top, Returning(n, top), NEW m, NEW most \in Nat, most >= 1,
         NEW f, Rounds(m, most, f), Goes(f[1], n, top, most)
  PROVE  Done(f[most].vm, n, top)
<1> DEFINE Good(j) == Goes(f[j], n, top, most + 1 - j)
           Bad == {j \in 1 .. most : ~Good(j)}
<1>1. ASSUME NEW j \in 1 .. most - 1, Good(j)  PROVE Good(j + 1)
  <2>1. PICK size : size = most + 1 - j  OBVIOUS
  <2>2. size \in Int /\ most + 1 - (j + 1) = size - 1  BY <2>1
  <2>3. f[j + 1] = Onward(f[j])
    <3>1. j \in 0 .. most - 1  OBVIOUS
    <3> QED  BY <3>1, RoundsAre
  <2>4. PICK r, q : r = f[j] /\ q = f[j + 1]  OBVIOUS
  <2>5. Goes(r, n, top, size) /\ q = Onward(r)  BY <1>1, <2>1, <2>3, <2>4
  <2>6. Goes(q, n, top, size - 1)
    <3>1. CASE r.again = FALSE /\ Done(r.vm, n, top)
      <4>1. q = r  BY <2>5, <3>1 DEF Onward
      <4> QED  BY <3>1, <4>1 DEF Goes
    <3>2. CASE r.again = TRUE
      <4>1. PICK k, slot : Arrived(r.vm, n, top, k, slot) /\ k + slot < size
        BY <2>5, <3>2 DEF Goes
      <4>2. q = Round(r.vm)  BY <2>5, <3>2 DEF Onward
      <4>3. Goes(q, n, top, k + slot)  BY <4>1, <4>2, RoundGoes
      <4>4. k + slot \in Int /\ k + slot <= size - 1
        <5>1. k \in Nat /\ slot \in Nat  BY <4>1, StandsSo DEF Arrived, Stood
        <5> QED  BY <2>2, <4>1, <5>1
      <4>5. CASE q.again = FALSE /\ Done(q.vm, n, top)  BY <4>5 DEF Goes
      <4>6. CASE q.again = TRUE
        <5>1. PICK k2, slot2 : Arrived(q.vm, n, top, k2, slot2) /\ k2 + slot2 < k + slot
          BY <4>3, <4>6 DEF Goes
        <5>2. k2 \in Nat /\ slot2 \in Nat  BY <5>1, StandsSo DEF Arrived, Stood
        <5>3. k2 + slot2 < size - 1  BY <2>2, <4>4, <5>1, <5>2
        <5> QED  BY <4>6, <5>1, <5>3 DEF Goes
      <4> QED  BY <4>3, <4>5, <4>6 DEF Goes
    <3> QED  BY <2>5, <3>1, <3>2 DEF Goes
  <2> QED  BY <2>2, <2>4, <2>6
<1>2. Good(1)
  <2>1. most + 1 - 1 = most  OBVIOUS
  <2> QED  BY <2>1
<1> HIDE DEF Good
<1>3. Bad = {}
  <2>1. SUFFICES ASSUME Bad # {}  PROVE FALSE  OBVIOUS
  <2>2. PICK j \in Bad : \A i \in Bad : j <= i
    <3>1. Bad \subseteq Nat  OBVIOUS
    <3> HIDE DEF Bad
    <3> QED  BY <2>1, <3>1, LeastOf
  <2>3. j \in 1 .. most /\ ~Good(j)  BY <2>2
  <2>4. j # 1  BY <1>2, <2>3
  <2>5. PICK i : i = j - 1  OBVIOUS
  <2>6. i \in 1 .. most - 1 /\ i \in 1 .. most /\ j = i + 1 /\ ~(j <= i)
    BY <2>3, <2>4, <2>5
  <2>7. Good(i)  BY <2>2, <2>6
  <2> QED  BY <1>1, <2>3, <2>6, <2>7
<1>4. Good(most)  BY <1>3
<1>5. PICK r : r = f[most]  OBVIOUS
<1>6. Goes(r, n, top, 1)
  <2>1. most + 1 - most = 1  OBVIOUS
  <2> QED  BY <1>4, <1>5, <2>1 DEF Good
<1>7. CASE r.again = TRUE
  <2>1. PICK k, slot : Arrived(r.vm, n, top, k, slot) /\ k + slot < 1
    BY <1>6, <1>7 DEF Goes
  <2>2. slot \in Nat /\ slot >= 1 /\ k \in Nat  BY <2>1, StandsSo DEF Arrived, Stood
  <2> QED  BY <2>1, <2>2
<1> QED  BY <1>5, <1>6, <1>7 DEF Goes

\* When the first round ends, so it is.
LEMMA RoundsStop ==
  ASSUME NEW m, NEW most \in Nat, most >= 1, NEW f, Rounds(m, most, f),
         f[1].again = FALSE
  PROVE  f[most] = f[1]
<1> DEFINE Bad == {j \in 1 .. most : f[j] # f[1]}
<1>1. ASSUME NEW j \in 1 .. most - 1, f[j] = f[1]  PROVE f[j + 1] = f[1]
  <2>1. j \in 0 .. most - 1  OBVIOUS
  <2>2. f[j + 1] = Onward(f[j])  BY <2>1, RoundsAre
  <2> QED  BY <1>1, <2>2 DEF Onward
<1>2. Bad = {}
  <2>1. SUFFICES ASSUME Bad # {}  PROVE FALSE  OBVIOUS
  <2>2. PICK j \in Bad : \A i \in Bad : j <= i
    <3>1. Bad \subseteq Nat  OBVIOUS
    <3> HIDE DEF Bad
    <3> QED  BY <2>1, <3>1, LeastOf
  <2>3. j \in 1 .. most /\ f[j] # f[1]  BY <2>2
  <2>4. j # 1  BY <2>3
  <2>5. PICK i : i = j - 1  OBVIOUS
  <2>6. i \in 1 .. most - 1 /\ i \in 1 .. most /\ j = i + 1 /\ ~(j <= i)
    BY <2>3, <2>4, <2>5
  <2>7. f[i] = f[1]  BY <2>2, <2>6
  <2> QED  BY <1>1, <2>3, <2>6, <2>7
<1> QED  BY <1>2

-----------------------------------------------------------------------------
(* What the rounds come to is a step of Calls. *)

LEMMA CallsAgainIs ==
  ASSUME VmInv, vm.halted = FALSE, NEW r, NEW k, NEW slot, CalledAgain(r, k, slot), Finish(r)
  PROVE  PP!CallsAgain(k, slot)
<1>1. Ready(r) /\ r.halted = FALSE  BY DEF CalledAgain
<1>2. /\ SlotKinds(vm)' = SlotKinds(r) /\ Activations(vm)' = Activations(r)
      /\ vm'.halted = r.halted /\ vm'.check = r.check
  BY <1>1, Primes
<1>3. PICK stk, frs : stk = SlotKinds(vm) /\ frs = Activations(vm)  OBVIOUS
<1>4. /\ (IF vm.halted THEN <<>> ELSE SlotKinds(vm)) = stk
      /\ (IF vm.halted THEN <<>> ELSE Activations(vm)) = frs
  BY <1>3
<1>5. /\ (IF vm.halted THEN <<>> ELSE SlotKinds(vm))' = SlotKinds(r)
      /\ (IF vm.halted THEN <<>> ELSE Activations(vm))' = Activations(r)
      /\ (~vm.halted /\ vm.check)' = r.check /\ vm.halted' = vm.halted
  <2>1. vm'.halted = FALSE  BY <1>1, <1>2
  <2>2. r.check \in BOOLEAN  BY <1>1 DEF Ready, Sound
  <2>3. (~vm.halted /\ vm.check)' = (~vm'.halted /\ vm'.check)  OBVIOUS
  <2> QED  BY <1>2, <2>1, <2>2, <2>3
<1>6. CASE r.check = FALSE
  <2>1. /\ SlotKinds(r) = Append(SubSeq(stk, 1, slot), "value")
        /\ Activations(r) = Append(SubSeq(frs, 1, k), PP!Began(slot, slot + 1))
    BY <1>3, <1>6 DEF CalledAgain
  <2>2. PP!CallsFunction(k, slot)
    BY <1>4, <1>5, <1>6, <2>1 DEF PP!CallsFunction, PP!Above, PP!FramesUpTo
  <2> QED  BY <2>2 DEF PP!CallsAgain
<1>7. CASE r.check = TRUE
  <2>1. PICK kind \in PP!Kinds \ {"passing"} :
          /\ SlotKinds(r) = Append(SubSeq(stk, 1, slot), kind)
          /\ Activations(r) = SubSeq(frs, 1, k)
    BY <1>3, <1>7 DEF CalledAgain
  <2>2. PP!CallsCFunction(k, slot, kind)
    BY <1>4, <1>5, <1>7, <2>1 DEF PP!CallsCFunction, PP!Above, PP!FramesUpTo
  <2> QED  BY <2>2 DEF PP!CallsAgain
<1>8. r.check \in BOOLEAN  BY <1>1 DEF Ready, Sound
<1> QED  BY <1>6, <1>7, <1>8

LEMMA SettlesIs ==
  ASSUME VmInv, vm.halted = FALSE, NEW r, NEW k, NEW slot, NEW a, Settled(r, k, slot),
         Finish(r),
         ~PP!IsContinuation(slot - 1) \/ (slot < a /\ SlotKinds(vm)[slot] = "passing")
  PROVE  PP!Settles(k, slot, slot < a)
<1>1. /\ Ready(r) /\ r.halted = FALSE /\ r.check = FALSE
      /\ SlotKinds(r) = Append(SubSeq(SlotKinds(vm), 1, slot - 1), "value")
      /\ Activations(r) = SubSeq(Activations(vm), 1, k)
  BY DEF Settled
<1>2. /\ SlotKinds(vm)' = SlotKinds(r) /\ Activations(vm)' = Activations(r)
      /\ vm'.halted = r.halted /\ vm'.check = r.check
  BY <1>1, Primes
<1>3. PICK stk, frs : stk = SlotKinds(vm) /\ frs = Activations(vm)  OBVIOUS
<1>4. /\ (IF vm.halted THEN <<>> ELSE SlotKinds(vm)) = stk
      /\ (IF vm.halted THEN <<>> ELSE Activations(vm)) = frs
  BY <1>3
<1>5. /\ (IF vm.halted THEN <<>> ELSE SlotKinds(vm))' = SlotKinds(r)
      /\ (IF vm.halted THEN <<>> ELSE Activations(vm))' = Activations(r)
      /\ (~vm.halted /\ vm.check)' = FALSE /\ vm.halted' = vm.halted
  BY <1>1, <1>2
<1>6. ~PP!IsContinuation(slot - 1) \/ (slot < a /\ stk[slot] = "passing")  BY <1>3
<1> QED  BY <1>1, <1>3, <1>4, <1>5, <1>6 DEF PP!Settles, PP!Above, PP!FramesUpTo

LEMMA ReturnIs ==
  ASSUME NEW n, NEW top, Returning(n, top), NEW r, Done(r, n, top), Finish(r),
         r.halted = FALSE
  PROVE  PP!AfterFuncReturn(n, top)
<1>1. VmInv /\ vm.halted = FALSE  BY DEF Returning
<1>2. PICK k, slot : Left(r, n, top, k, slot)  BY DEF Done
<1>3. PICK a : a = PP!Arrival(n, top, k)  OBVIOUS
<1>4. k \in 1 .. n /\ PP!Reaches(n, top, k, slot)  BY <1>2 DEF Left
<1>5. slot \in 1 .. a  BY <1>3, <1>4 DEF PP!Reaches
<1>6. PP!Settles(k, slot, slot < a) \/ (slot < a /\ PP!CallsAgain(k, slot))
  <2>1. CASE /\ Settled(r, k, slot)
             /\ ~PP!IsContinuation(slot - 1) \/ (slot < a /\ SlotKinds(vm)[slot] = "passing")
    BY <1>1, <2>1, SettlesIs
  <2>2. CASE slot < a /\ CalledAgain(r, k, slot)
    BY <1>1, <2>2, CallsAgainIs
  <2> QED  BY <1>2, <1>3, <2>1, <2>2 DEF Left
<1> QED  BY <1>3, <1>4, <1>5, <1>6 DEF PP!AfterFuncReturn

-----------------------------------------------------------------------------
(* Where the rounds begin. *)

LEMMA StandsFirst ==
  ASSUME NEW n, NEW top, Returning(n, top), NEW m, Sound(m, Entries),
         m.values = vm.values, Len(m.fstack) = n + 1,
         \A f \in 1 .. n + 1 : m.fstack[f] = vm.fstack[f],
         GoesOn(m, n + 1) = GoesOn(vm, n + 1), Len(m.stack) = top,
         \A i \in 1 .. top - 1 : m.stack[i] = vm.stack[i],
         m.halted = FALSE, m.check = FALSE, top - 1 <= Room + 1,
         m.stack[top] \in Plain(m.values)
  PROVE  Arrived(m, n, top, n, top)
<1>1. Awaits(n, top) /\ Sound(vm, Entries)  BY DEF Returning, VmInv
<1>2. n \in Nat /\ n >= 1 /\ top \in Nat /\ top > 0  BY <1>1, FramesAre DEF Awaits
<1>3. PP!Arrival(n, top, n) = top  BY DEF PP!Arrival
<1>4. PP!Reaches(n, top, n, top)
  <2>1. top .. top - 1 = {} /\ n + 1 .. n = {} /\ top \in 1 .. top  BY <1>2
  <2>2. PP!Resumed(top, top)  BY <2>1 DEF PP!Resumed
  <2> QED  BY <1>3, <2>1, <2>2 DEF PP!Reaches
<1>5. Later(vm.values, m.values, Tops(top))
  <2>1. Later(vm.values, vm.values, {})  BY LaterSame
  <2>2. Later(vm.values, m.values, {})  BY <2>1
  <2>3. {} \subseteq Tops(top)  OBVIOUS
  <2> QED  BY <2>2, <2>3, LaterMore
<1>6. n \in 1 .. n  BY <1>2
<1>7. Stands(m, n, top, n, top)  BY <1>4, <1>5, <1>6 DEF Stands
<1> QED  BY <1>7 DEF Arrived, Returned

LEMMA RoundsFrom ==
  ASSUME NEW n, NEW top, Returning(n, top), NEW m, Arrived(m, n, top, n, top),
         NEW r, r = AfterFuncReturn(m)
  PROVE  Done(r, n, top)
<1>1. n \in Nat /\ n >= 1 /\ top \in Nat /\ top > 0  BY FramesAre DEF Returning, VmInv, Awaits
<1>2. Len(m.stack) = top /\ Len(m.fstack) = n + 1  BY DEF Arrived, Stands
<1>3. PICK most : most = Len(m.stack) + Len(m.fstack)  OBVIOUS
<1>4. most \in Nat /\ most >= 1 /\ n + top < most  BY <1>1, <1>2, <1>3
<1>5. PICK f : Rounds(m, most, f) /\ r = f[most].vm  BY <1>3, <1>4, AfterFuncReturnIs
<1>6. f[1] = Round(m)
  <2>1. 0 \in 0 .. most - 1 /\ 0 + 1 = 1  BY <1>4
  <2>2. f[0] = Begun(m) /\ f[1] = Onward(f[0])
    <3>1. PICK zero : zero = 0  OBVIOUS
    <3>2. zero \in 0 .. most - 1 /\ zero + 1 = 1  BY <1>4, <3>1
    <3>3. f[zero + 1] = Onward(f[zero])  BY <1>4, <1>5, <3>2, RoundsAre
    <3>4. f[0] = Begun(m)  BY <1>4, <1>5, RoundsAre
    <3> QED  BY <3>1, <3>2, <3>3, <3>4
  <2> QED  BY <2>2 DEF Begun, Onward
<1>7. PICK q : q = f[1]  OBVIOUS
<1>8. Goes(q, n, top, n + top)  BY <1>6, <1>7, RoundGoes
<1>9. Goes(q, n, top, most)
  <2>1. CASE q.again = FALSE /\ Done(q.vm, n, top)  BY <2>1 DEF Goes
  <2>2. CASE q.again = TRUE
    <3>1. PICK k, slot : Arrived(q.vm, n, top, k, slot) /\ k + slot < n + top
      BY <1>8, <2>2 DEF Goes
    <3>2. k \in Nat /\ slot \in Nat  BY <3>1, StandsSo DEF Arrived, Stood
    <3>3. k + slot < most  BY <1>1, <1>4, <3>1, <3>2
    <3> QED  BY <2>2, <3>1, <3>3 DEF Goes
  <2> QED  BY <1>8, <2>1, <2>2 DEF Goes
<1> QED  BY <1>4, <1>5, <1>7, <1>9, RoundsEnd

\* A function is left.
LEMMA FunctionLeft ==
  ASSUME VmInv, ProperUse, vm.halted = FALSE, Len(vm.fstack) <= Room,
         NEW sptr, sptr = Frame(vm).sptr, sptr <= Len(vm.stack), sptr <= Room + 1,
         Frame(vm).retptr # NoReturn,
         NEW c, Sound(c, Entries), c.values = vm.values, c.stack = vm.stack,
         c.fstack = vm.fstack, c.halted = FALSE, c.check = FALSE,
         NEW id \in Plain(vm.values), NEW p, p = PopFrame(c, id),
         NEW n, n = Len(vm.fstack) - 2, NEW top, top = sptr + 1
  PROVE  Returning(n, top) /\ Arrived(p, n, top, n, top)
<1>1. Sound(vm, Entries) /\ Framed(vm) /\ program \in DOMAIN Programs  BY DEF VmInv
<1>2. Len(vm.fstack) \in Nat /\ Len(vm.fstack) >= 2
      /\ Frame(vm) = vm.fstack[Len(vm.fstack)] /\ sptr \in Nat
  BY <1>1, FramesAre
<1>3. PICK last : last = Len(vm.fstack)  OBVIOUS
<1>4. last # 2 /\ last \in Nat /\ last >= 2 /\ last \in 2 .. Len(vm.fstack)
  <2>1. last \in Nat /\ last >= 2 /\ last \in 2 .. Len(vm.fstack)  BY <1>2, <1>3
  <2>2. vm.fstack[last].retptr = NoReturn <=> last = 2  BY <1>1, <2>1 DEF Framed
  <2> QED  BY <1>2, <1>3, <2>1, <2>2
<1>5. n \in Nat /\ n >= 1 /\ last = n + 2 /\ n \in 1 .. Len(vm.fstack) - 1
      /\ n \in 1 .. Len(vm.fstack) - 2 /\ n + 1 \in 1 .. Len(vm.fstack) - 1
  <2>1. n = last - 2  BY <1>3
  <2>2. last > 2 /\ last \in Nat  BY <1>4
  <2>3. n \in Nat /\ n >= 1 /\ last = n + 2 /\ n \in 1 .. last - 1
        /\ n \in 1 .. last - 2 /\ n + 1 \in 1 .. last - 1
    BY ONLY <2>1, <2>2
  <2> QED  BY ONLY <2>3, <1>3
<1>6. Awaits(n, top)
  <2>1. PICK b, s : b = Activations(vm) /\ s = SlotKinds(vm)  OBVIOUS
  <2>2. b \in Seq(PP!Frame) /\ PP!InOrder(s, b)  BY <2>1, InvIs DEF VmInv, PP!InOrder
  <2>3. /\ DOMAIN b = 1 .. Len(vm.fstack) - 1
        /\ \A f \in 1 .. Len(vm.fstack) - 1 : b[f].sptr = vm.fstack[f + 1].sptr
    BY <1>1, <2>1, ActivationsAre
  <2>4. PP!Follows(s, b[n], b[n + 1])  BY <1>5, <2>2, <2>3 DEF PP!InOrder
  <2>5. b[n + 1].sptr = sptr
    <3>1. PICK f : f = n + 1  OBVIOUS
    <3>2. f \in 1 .. Len(vm.fstack) - 1 /\ f + 1 = last  BY <1>5, <3>1
    <3>3. b[f].sptr = vm.fstack[last].sptr  BY <2>3, <3>2
    <3> QED  BY <1>2, <1>3, <3>1, <3>3
  <2>6. PP!Waits(s, b[n], sptr)  BY <2>4, <2>5 DEF PP!Follows
  <2>7. top - 1 = sptr /\ top \in Nat /\ top > 0  BY <1>2
  <2> QED  BY <1>5, <2>1, <2>6, <2>7 DEF Awaits
<1>7. Returning(n, top)  BY <1>6 DEF Returning
<1>8. Frame(c) = Frame(vm)  BY DEF Frame
<1>9. Popped(c, p, id, Entries)
  <2>1. Len(c.fstack) >= 3  BY <1>3, <1>5
  <2>2. Frame(c).sptr <= Len(c.stack) /\ id \in Plain(c.values)  BY <1>8
  <2> QED  BY <2>1, <2>2, PopFrameSound
<1>10. /\ Sound(p, Entries) /\ p.values = vm.values /\ p.halted = FALSE /\ p.check = FALSE
       /\ p.iptr = vm.fstack[n + 2].retptr /\ Len(p.fstack) = n + 1
       /\ \A f \in 1 .. n + 1 : p.fstack[f] = vm.fstack[f]
       /\ Len(p.stack) = top /\ p.stack[top] = id
       /\ \A i \in 1 .. sptr : p.stack[i] = vm.stack[i]
  <2>1. Len(c.fstack) - 1 = n + 1  BY <1>3, <1>5
  <2> QED  BY <1>2, <1>3, <1>5, <1>8, <1>9, <2>1 DEF Popped
<1>11. GoesOn(p, n + 1) = GoesOn(vm, n + 1)
  <2>1. Later(vm.values, p.values, {})  BY <1>10, LaterSame
  <2> QED  BY <1>5, <1>10, <2>1, AboveLeft
<1>12. top - 1 = sptr /\ top - 1 <= Room + 1  BY <1>2
<1>13. p.stack[top] \in Plain(p.values)  BY <1>10
<1>14. \A i \in 1 .. top - 1 : p.stack[i] = vm.stack[i]  BY <1>10, <1>12
<1> QED  BY <1>7, <1>10, <1>11, <1>12, <1>13, <1>14, StandsFirst

\* That is what Calls says of it.
LEMMA LeaveIs ==
  ASSUME VmInv, vm.halted = FALSE, NEW n, n = Len(vm.fstack) - 2, n >= 1,
         NEW top, top = Frame(vm).sptr + 1, PP!AfterFuncReturn(n, top)
  PROVE  PP!Leave
<1>1. /\ Last = [sptr |-> Frame(vm).sptr, base |-> Base(Frame(vm)), want |-> H(vm.iptr)]
      /\ Len(Activations(vm)) = Len(vm.fstack) - 1
  BY Here
<1>2. PICK frs : frs = Activations(vm)  OBVIOUS
<1>3. (IF vm.halted THEN <<>> ELSE Activations(vm)) = frs  BY <1>2
<1>4. PP!Top = Last  BY <1>2, <1>3 DEF PP!Top, Last
<1>5. PP!Top.sptr + 1 = top  BY <1>1, <1>4
<1>6. Len(frs) > 1 /\ Len(frs) - 1 = n
  <2>1. Len(vm.fstack) \in Nat  BY FramesAre DEF VmInv
  <2> QED  BY <1>1, <1>2, <2>1
<1> QED  BY <1>3, <1>5, <1>6 DEF PP!Leave

-----------------------------------------------------------------------------
(* RET. *)

LEMMA RetStep ==
  ASSUME VmInv, ProperUse, Ret
  PROVE  VmInv' /\ PP!Next
<1> DEFINE op == "RET"
<1>1. PICK id : id = Slot(vm, 1)  OBVIOUS
<1>2. PICK p : p = PopFrame(fetched, id)  OBVIOUS
<1>3. PICK r : r = AfterFuncReturn(p)  OBVIOUS
<1>4. At(op) /\ Finish(r)  BY <1>1, <1>2, <1>3 DEF Ret
<1>5. /\ Instr.op = op /\ Instr = Code[vm.iptr] /\ Legal(vm.iptr) /\ vm.halted = FALSE
      /\ vm.check = FALSE /\ Sound(vm, Entries) /\ Len(vm.fstack) <= Room
      /\ Len(vm.stack) \in Nat /\ Len(vm.stack) <= Room /\ Room \in Nat
      /\ \A k \in 1 .. Takes(Instr) : Slot(vm, k) \in Plain(vm.values)
  BY <1>4, AtIs
<1>6. id \in Plain(vm.values)
  <2>1. Takes(Instr) = 1  BY <1>5 DEF Takes
  <2>2. PICK one : one = 1  OBVIOUS
  <2>3. one \in 1 .. Takes(Instr)  BY <2>1, <2>2
  <2> QED  BY <1>1, <1>5, <2>2, <2>3
<1>7. Len(vm.fstack) >= 3 /\ Frame(vm).retptr # NoReturn
  <2>1. Bodies(Code)[vm.iptr] = "function"  BY <1>5 DEF Legal
  <2> QED  BY <1>5, <2>1, NotProgram
<1>8. PICK sptr : sptr = Frame(vm).sptr  OBVIOUS
<1>9. sptr \in Nat /\ sptr <= Len(vm.stack) /\ sptr <= Room + 1
  <2>1. sptr \in Nat
    <3>1. Len(vm.fstack) \in 1 .. Len(vm.fstack) /\ Frame(vm) = vm.fstack[Len(vm.fstack)]
      BY <1>5, FramesAre
    <3> QED  BY <1>5, <1>8, <3>1, FramesAre
  <2>2. PICK base, h : base = Base(Frame(vm)) /\ h = H(vm.iptr)  OBVIOUS
  <2>3. base \in Nat /\ h \in Nat /\ Len(vm.stack) = base + h  BY <1>5, <2>2, OwnSlots
  <2>4. base = sptr \/ base = sptr + 1  BY <1>7, <1>8, <2>2 DEF Base
  <2> QED  BY <1>5, <2>1, <2>3, <2>4
<1>10. PICK n, top : n = Len(vm.fstack) - 2 /\ top = sptr + 1  OBVIOUS
<1>11. Returning(n, top) /\ Arrived(p, n, top, n, top)
  <2>1. /\ Sound(fetched, Entries) /\ fetched.values = vm.values /\ fetched.stack = vm.stack
        /\ fetched.fstack = vm.fstack /\ fetched.halted = FALSE /\ fetched.check = FALSE
    BY <1>5, FetchedIs
  <2> QED  BY <1>2, <1>5, <1>6, <1>7, <1>8, <1>9, <1>10, <2>1, FunctionLeft
<1>12. Done(r, n, top)  BY <1>3, <1>11, RoundsFrom
<1>13. CASE r.halted = TRUE
  BY <1>4, <1>5, <1>12, <1>13, StepStop DEF Done
<1>14. CASE r.halted = FALSE
  <2>1. PP!AfterFuncReturn(n, top)  BY <1>4, <1>11, <1>12, <1>14, ReturnIs
  <2>2. n >= 1 /\ top = Frame(vm).sptr + 1
    <3>1. Len(vm.fstack) \in Nat  BY <1>5, FramesAre
    <3> QED  BY <1>7, <1>8, <1>10, <3>1
  <2>3. PP!Leave  BY <1>5, <1>10, <2>1, <2>2, LeaveIs
  <2>4. PP!Running  BY <1>5 DEF PP!Running
  <2>5. PP!Ret  BY <2>3, <2>4 DEF PP!Ret
  <2>6. PP!Next  BY <2>5 DEF PP!Next
  <2>7. PP!IInv'  BY <2>6, PP!StepProtocol DEF VmInv
  <2> QED  BY <1>4, <1>12, <2>6, <2>7, ReadyAfter DEF Done
<1>15. r.halted \in BOOLEAN  BY <1>12 DEF Done, Ready, Sound
<1> QED  BY <1>13, <1>14, <1>15

-----------------------------------------------------------------------------
(* What a C function has returned. *)

\* The machine, before the first round.
Looked == [vm EXCEPT !.check = FALSE]

LEMMA LookedIs ==
  ASSUME VmInv, vm.halted = FALSE, vm.check = TRUE
  PROVE  /\ Sound(Looked, Entries) /\ Looked.values = vm.values /\ Looked.stack = vm.stack
         /\ Looked.fstack = vm.fstack /\ Looked.halted = FALSE /\ Looked.check = FALSE
         /\ Looked.iptr = vm.iptr
<1>1. Sound(vm, Entries)  BY DEF VmInv
<1>2. IsMachine(vm)  BY <1>1 DEF Sound
<1>3. /\ IsMachine(Looked) /\ Looked.values = vm.values /\ Looked.stack = vm.stack
      /\ Looked.fstack = vm.fstack /\ Looked.halted = FALSE /\ Looked.check = FALSE
      /\ Looked.iptr = vm.iptr /\ Looked.modules = vm.modules /\ Looked.fs = vm.fs
  BY <1>2 DEF Looked, IsMachine
<1> QED  BY <1>1, <1>3, SoundAs

\* Where the frame stands that has called it.
LEMMA CheckIs ==
  ASSUME VmInv, vm.halted = FALSE, vm.check = TRUE
  PROVE  /\ Sound(vm, Entries) /\ Framed(vm) /\ Bare(vm) /\ Within(vm)
         /\ Len(vm.fstack) \in Nat /\ Len(vm.fstack) >= 2 /\ Len(vm.fstack) <= Room
         /\ Room \in Nat
         /\ Len(vm.stack) \in Nat /\ Len(vm.stack) >= 1 /\ Len(vm.stack) <= Room + 2
         /\ PP!Waits(SlotKinds(vm), Last, Len(vm.stack) - 1)
         /\ Frame(vm).sptr \in Nat /\ Frame(vm).sptr <= Len(vm.stack) - 1
<1>1. /\ Sound(vm, Entries) /\ Framed(vm) /\ Bare(vm) /\ Within(vm)  BY DEF VmInv
<1>2. /\ Len(vm.fstack) \in Nat /\ Len(vm.fstack) >= 2
      /\ Len(vm.fstack) \in 1 .. Len(vm.fstack) /\ Frame(vm) = vm.fstack[Len(vm.fstack)]
      /\ Len(vm.stack) \in Nat /\ Room \in Nat
  BY <1>1, FramesAre, StackIs, MachineAssumption DEF Room
<1>3. Len(vm.fstack) <= Room /\ Len(vm.stack) <= Room + 2  BY <1>1 DEF Within
<1>4. PICK b, s : b = Activations(vm) /\ s = SlotKinds(vm)  OBVIOUS
<1>5. /\ PP!InOrder(s, b) /\ Len(s) > 0 /\ PP!Waits(s, Last, Len(s) - 1)
  BY <1>4, InvIs DEF VmInv, Last
<1>6. Len(s) = Len(vm.stack)  BY <1>1, <1>4, KindsAre
<1>7. Last = [sptr |-> Frame(vm).sptr, base |-> Base(Frame(vm)), want |-> H(vm.iptr)]
      /\ Len(b) = Len(vm.fstack) - 1
  BY <1>4, Here
<1>8. b \in Seq(PP!Frame) /\ b # <<>> /\ Last = b[Len(b)]
      /\ \A f \in DOMAIN b : b[f].base \in {b[f].sptr, b[f].sptr + 1}
  BY <1>4, <1>5 DEF PP!InOrder, Last
<1>9. Len(b) \in DOMAIN b  BY <1>2, <1>7, <1>8, LenProperties
<1>10. Last \in PP!Frame /\ Last.base \in {Last.sptr, Last.sptr + 1}
  BY <1>8, <1>9, ElementOfSeq
<1>11. PICK sptr, base, want :
          sptr = Last.sptr /\ base = Last.base /\ want = Last.want
  OBVIOUS
<1>12. sptr \in Nat /\ base \in Nat /\ want \in Nat /\ (base = sptr \/ base = sptr + 1)
  BY <1>10, <1>11 DEF PP!Frame
<1>13. want > 0 /\ base + want - 1 <= Len(s) - 1  BY <1>5, <1>11 DEF PP!Waits
<1>14. sptr <= Len(vm.stack) - 1 /\ Len(vm.stack) >= 1
  <2>1. PICK l : l = Len(vm.stack)  OBVIOUS
  <2>2. l \in Nat /\ base + want - 1 <= l - 1  BY <1>2, <1>6, <1>13, <2>1
  <2>3. sptr <= l - 1 /\ l >= 1  BY ONLY <1>12, <1>13, <2>2
  <2> QED  BY <2>1, <2>3
<1>15. Frame(vm).sptr = sptr  BY <1>7, <1>11
<1> QED  BY <1>1, <1>2, <1>3, <1>4, <1>5, <1>6, <1>12, <1>14, <1>15

\* The rounds, and the first of them.
RoundsOf(r, most, f) ==
  /\ most \in Nat /\ most >= 1 /\ most = Len(vm.stack) + Len(vm.fstack)
  /\ Rounds(Looked, most, f) /\ r = f[most].vm /\ f[1] = Round(Looked)

LEMMA FirstRound ==
  ASSUME VmInv, vm.halted = FALSE, vm.check = TRUE, NEW r, r = AfterFuncReturn(Looked)
  PROVE  \E most, f : RoundsOf(r, most, f)
<1>1. PICK m : m = Looked  OBVIOUS
<1>2. m.stack = vm.stack /\ m.fstack = vm.fstack  BY <1>1, LookedIs
<1>3. PICK a, b : a = Len(vm.stack) /\ b = Len(vm.fstack)  OBVIOUS
<1>4. a \in Nat /\ b \in Nat /\ b >= 2  BY <1>3, CheckIs
<1>5. PICK most : most = a + b  OBVIOUS
<1>6. most \in Nat /\ most >= 1  BY ONLY <1>4, <1>5
<1>7. most = Len(m.stack) + Len(m.fstack)  BY <1>2, <1>3, <1>5
<1>8. PICK f : Rounds(m, most, f) /\ r = f[most].vm
  BY <1>1, <1>6, <1>7, AfterFuncReturnIs
<1>9. f[1] = Round(m)
  <2>1. PICK zero : zero = 0  OBVIOUS
  <2>2. zero \in 0 .. most - 1 /\ zero + 1 = 1  BY ONLY <1>6, <2>1
  <2>3. f[zero + 1] = Onward(f[zero])  BY <1>6, <1>8, <2>2, RoundsAre
  <2>4. f[0] = Begun(m)  BY <1>6, <1>8, RoundsAre
  <2>5. f[1] = Onward(Begun(m))  BY <2>1, <2>2, <2>3, <2>4
  <2> QED  BY <2>5 DEF Begun, Onward
<1> QED  BY <1>1, <1>3, <1>5, <1>6, <1>8, <1>9 DEF RoundsOf

\* The slot it has returned.
LEMMA CheckedSlot ==
  ASSUME VmInv, vm.halted = FALSE, vm.check = TRUE, NEW id, id = vm.stack[Len(vm.stack)]
  PROVE  /\ Slot(Looked, 1) = id /\ id = Looked.stack[Len(Looked.stack)]
         /\ TypeOf(Looked, id) = TypeOf(vm, id) /\ id \in DOMAIN vm.values
         /\ Len(vm.stack) \in 1 .. Len(vm.stack) /\ Len(vm.stack) \in DOMAIN vm.stack
         /\ SlotKinds(vm)[Len(vm.stack)] = Kind(vm, id)
         /\ Len(SlotKinds(vm)) = Len(vm.stack)
<1>1. PICK l, m : l = Len(vm.stack) /\ m = Looked  OBVIOUS
<1>2. l \in Nat /\ l >= 1 /\ Sound(vm, Entries)  BY <1>1, CheckIs
<1>3. m.stack = vm.stack /\ m.values = vm.values  BY <1>1, LookedIs
<1>4. l \in 1 .. l /\ l + 1 - 1 = l  BY ONLY <1>2
<1>5. Slot(m, 1) = id  BY <1>1, <1>3, <1>4 DEF Slot
<1>6. TypeOf(m, id) = TypeOf(vm, id)  BY <1>3 DEF TypeOf
<1>7. id \in DOMAIN vm.values /\ l \in DOMAIN vm.stack
  BY <1>1, <1>2, <1>4, StackIs
<1>8. SlotKinds(vm)[l] = Kind(vm, id) /\ Len(SlotKinds(vm)) = l
  BY <1>1, <1>2, <1>4, KindsAre
<1> QED  BY <1>1, <1>3, <1>4, <1>5, <1>6, <1>7, <1>8

\* What Calls says of it.
LEMMA CheckedIs ==
  ASSUME VmInv, vm.halted = FALSE, vm.check = TRUE, NEW l, l = Len(vm.stack),
         \/ SlotKinds(vm)[l] = "return" /\ PP!Leave
         \/ /\ SlotKinds(vm)[l] \in {"passing", "answering"}
            /\ PP!CallsAgain(Len(Activations(vm)), l)
         \/ SlotKinds(vm)[l] = "value" /\ PP!AfterFuncReturn(Len(Activations(vm)), l)
  PROVE  PP!Next
<1>1. PICK stk, frs : stk = SlotKinds(vm) /\ frs = Activations(vm)  OBVIOUS
<1>2. /\ (IF vm.halted THEN <<>> ELSE SlotKinds(vm)) = stk
      /\ (IF vm.halted THEN <<>> ELSE Activations(vm)) = frs
  BY <1>1
<1>3. Len(stk) = l  BY <1>1, CheckedSlot
<1>4. \/ stk[l] = "return" /\ PP!Leave
      \/ stk[l] \in {"passing", "answering"} /\ PP!CallsAgain(Len(frs), l)
      \/ stk[l] = "value" /\ PP!AfterFuncReturn(Len(frs), l)
  BY <1>1
<1>5. PP!CheckRetval  BY <1>2, <1>3, <1>4 DEF PP!CheckRetval, PP!Continuations
<1> QED  BY <1>5 DEF PP!Next

\* When the rounds are done.
LEMMA DoneStep ==
  ASSUME VmInv, vm.halted = FALSE, NEW n, NEW top, NEW r, Done(r, n, top), Finish(r),
         r.halted = FALSE => PP!Next
  PROVE  VmInv' /\ PP!Next
<1>1. Ready(r) /\ r.halted \in BOOLEAN  BY DEF Done, Ready, Sound
<1>2. CASE r.halted = TRUE  BY <1>1, <1>2, StepStop
<1>3. CASE r.halted = FALSE
  <2>1. PP!Next  BY <1>3
  <2>2. PP!IInv'  BY <2>1, PP!StepProtocol DEF VmInv
  <2> QED  BY <1>1, <2>1, <2>2, ReadyAfter
<1> QED  BY <1>1, <1>2, <1>3

\* A RETURN value of the program stops the machine.
LEMMA CheckEnd ==
  ASSUME VmInv, vm.halted = FALSE, vm.check = TRUE, NEW r, r = AfterFuncReturn(Looked),
         Finish(r), TypeOf(vm, vm.stack[Len(vm.stack)]) = "RETURN",
         Frame(vm).retptr = NoReturn
  PROVE  VmInv' /\ PP!Next
<1>1. PICK m, id : m = Looked /\ id = vm.stack[Len(vm.stack)]  OBVIOUS
<1>2. /\ Sound(m, Entries) /\ m.values = vm.values /\ m.stack = vm.stack
      /\ m.fstack = vm.fstack /\ m.check = FALSE /\ m.iptr = vm.iptr
  BY <1>1, LookedIs
<1>3. Slot(m, 1) = id /\ TypeOf(m, id) = "RETURN"  BY <1>1, CheckedSlot
<1>4. Frame(m).retptr = NoReturn  BY <1>2 DEF Frame
<1>5. PICK q : q = [m EXCEPT !.halted = TRUE]  OBVIOUS
<1>6. Round(m) = [vm |-> q, again |-> FALSE]  BY <1>3, <1>4, <1>5 DEF Round
<1>7. PICK most, f : RoundsOf(r, most, f)  BY FirstRound
<1>8. f[1] = [vm |-> q, again |-> FALSE] /\ r = f[most].vm
  BY <1>1, <1>6, <1>7 DEF RoundsOf
<1>9. f[1].again = FALSE /\ f[1].vm = q  BY <1>8
<1>10. f[most] = f[1]  BY <1>7, <1>9, RoundsStop DEF RoundsOf
<1>11. r = q  BY <1>8, <1>9, <1>10
<1>12. IsMachine(m)  BY <1>2 DEF Sound
<1>13. /\ IsMachine(q) /\ q.values = m.values /\ q.stack = m.stack /\ q.fstack = m.fstack
       /\ q.modules = m.modules /\ q.fs = m.fs /\ q.halted = TRUE /\ q.check = m.check
       /\ q.iptr = m.iptr
  BY <1>5, <1>12 DEF IsMachine
<1>14. Sound(q, Entries)  BY <1>2, <1>13, SoundAs
<1>15. q.iptr \in 1 .. Len(Code) + 1 /\ Len(q.stack) <= StackSize /\ Len(q.fstack) <= StackSize
  BY <1>2, <1>13 DEF VmInv
<1>16. Ready(q)  BY <1>13, <1>14, <1>15 DEF Ready
<1> QED  BY <1>11, <1>13, <1>16, StepStop

\* One of a function leaves the function.
LEMMA CheckReturn ==
  ASSUME VmInv, ProperUse, vm.halted = FALSE, vm.check = TRUE,
         NEW r, r = AfterFuncReturn(Looked),
         Finish(r), TypeOf(vm, vm.stack[Len(vm.stack)]) = "RETURN",
         Frame(vm).retptr # NoReturn
  PROVE  VmInv' /\ PP!Next
<1>1. PICK m, id : m = Looked /\ id = vm.stack[Len(vm.stack)]  OBVIOUS
<1>2. /\ Sound(m, Entries) /\ m.values = vm.values /\ m.stack = vm.stack
      /\ m.fstack = vm.fstack /\ m.halted = FALSE /\ m.check = FALSE
  BY <1>1, LookedIs
<1>3. /\ Slot(m, 1) = id /\ TypeOf(m, id) = "RETURN" /\ TypeOf(vm, id) = "RETURN"
      /\ Len(vm.stack) \in DOMAIN vm.stack /\ SlotKinds(vm)[Len(vm.stack)] = Kind(vm, id)
  BY <1>1, CheckedSlot
<1>4. Frame(m) = Frame(vm)  BY <1>2 DEF Frame
<1>5. m.values[id].ret = knone
  <2>1. Bare(vm)  BY CheckIs
  <2>2. vm.values[id].ret = knone  BY <1>1, <1>3, <2>1 DEF Bare
  <2> QED  BY <1>2, <2>2
<1>6. knone \in Plain(vm.values)
  <2>1. Heap(vm.values, vm.fs, Entries)  BY DEF VmInv, Sound
  <2>2. 1 \in Plain(vm.values)  BY <2>1, HeapIs
  <2> QED  BY <2>2 DEF knone
<1>7. PICK p : p = PopFrame(m, knone)  OBVIOUS
<1>8. Round(m) = [vm |-> p, again |-> TRUE]  BY <1>3, <1>4, <1>5, <1>7 DEF Round
<1>9. PICK sptr, l, g : sptr = Frame(vm).sptr /\ l = Len(vm.stack) /\ g = Len(vm.fstack)
  OBVIOUS
<1>10. /\ sptr \in Nat /\ l \in Nat /\ g \in Nat /\ g <= Room /\ Room \in Nat
       /\ sptr <= l - 1 /\ l <= Room + 2
  BY <1>9, CheckIs
<1>11. PICK n, top : n = g - 2 /\ top = sptr + 1  OBVIOUS
<1>12. sptr <= l /\ sptr <= Room + 1  BY ONLY <1>10
<1>13. Returning(n, top) /\ Arrived(p, n, top, n, top)
  BY <1>1, <1>2, <1>6, <1>7, <1>9, <1>10, <1>11, <1>12, FunctionLeft
<1>14. PICK most, f : RoundsOf(r, most, f)  BY FirstRound
<1>15. /\ most \in Nat /\ most >= 1 /\ most = l + g
       /\ Rounds(Looked, most, f) /\ r = f[most].vm /\ f[1] = [vm |-> p, again |-> TRUE]
  BY <1>1, <1>8, <1>9, <1>14 DEF RoundsOf
<1>16. n + top < most  BY ONLY <1>10, <1>11, <1>15
<1>17. PICK q : q = f[1]  OBVIOUS
<1>18. q.vm = p /\ q.again = TRUE  BY <1>15, <1>17
<1>19. Goes(q, n, top, most)  BY <1>13, <1>16, <1>18 DEF Goes
<1>20. Done(r, n, top)  BY <1>13, <1>15, <1>17, <1>19, RoundsEnd
<1>21. ASSUME r.halted = FALSE  PROVE PP!Next
  <2>1. PP!AfterFuncReturn(n, top)  BY <1>13, <1>20, <1>21, ReturnIs
  <2>2. n >= 1
    <3>1. n \in 1 .. g - 1  BY <1>9, <1>13 DEF Returning, Awaits
    <3> QED  BY ONLY <1>10, <3>1
  <2>3. n = Len(vm.fstack) - 2 /\ top = Frame(vm).sptr + 1  BY <1>9, <1>11
  <2>4. PP!Leave  BY <2>1, <2>2, <2>3, LeaveIs
  <2>5. Kind(vm, id) = "return"  BY <1>3, KindIs
  <2> QED  BY <1>3, <2>4, <2>5, CheckedIs
<1> QED  BY <1>20, <1>21, DoneStep

\* A continuation is called.
LEMMA CheckContinuation ==
  ASSUME VmInv, ProperUse, vm.halted = FALSE, vm.check = TRUE,
         NEW r, r = AfterFuncReturn(Looked),
         Finish(r), TypeOf(vm, vm.stack[Len(vm.stack)]) = "CONTINUATION"
  PROVE  VmInv' /\ PP!Next
<1>1. PICK m, id : m = Looked /\ id = vm.stack[Len(vm.stack)]  OBVIOUS
<1>2. /\ Sound(m, Entries) /\ m.values = vm.values /\ m.stack = vm.stack
      /\ m.fstack = vm.fstack /\ m.halted = FALSE /\ m.check = FALSE /\ m.iptr = vm.iptr
  BY <1>1, LookedIs
<1>3. /\ Slot(m, 1) = id /\ TypeOf(m, id) = "CONTINUATION" /\ TypeOf(vm, id) = "CONTINUATION"
      /\ Len(vm.stack) \in DOMAIN vm.stack /\ SlotKinds(vm)[Len(vm.stack)] = Kind(vm, id)
  BY <1>1, CheckedSlot
<1>4. PICK l, g : l = Len(vm.stack) /\ g = Len(vm.fstack)  OBVIOUS
<1>5. l \in Nat /\ l >= 1 /\ g \in Nat /\ g >= 2 /\ g <= Room  BY <1>4, CheckIs
<1>6. PICK k : k = g - 1  OBVIOUS
<1>7. k \in 1 .. g - 1 /\ k + 1 = g /\ g # k + 2 /\ k \in Nat  BY ONLY <1>5, <1>6
<1>8. Later(vm.values, m.values, {})  BY <1>2, LaterSame
<1>9. GoesOn(m, k + 1) = vm.iptr /\ GoesOn(vm, k + 1) = vm.iptr
  BY <1>2, <1>4, <1>7 DEF GoesOn
<1>10. /\ vm.iptr \in DOMAIN Code /\ Bodies(Code)[vm.iptr] = BodyOf(vm.fstack[k + 1])
       /\ Len(Activations(vm)) = k
  <2>1. Frame(vm) = vm.fstack[k + 1]  BY <1>4, <1>7 DEF Frame
  <2> QED  BY <1>4, <1>6, <2>1, Here
<1>11. Above(m, k, {})
  BY <1>2, <1>4, <1>7, <1>8, <1>9, <1>10 DEF Above
<1>12. Below(m, l, {})  BY <1>2, <1>4, <1>5, <1>8 DEF Below
<1>13. Matches(m, l)  BY <1>12, BelowMatches
<1>14. OnTop(m, k, l, {})
  BY <1>1, <1>2, <1>3, <1>4, <1>5, <1>7, <1>9, <1>11, <1>13 DEF OnTop
<1>15. TypeOf(m, m.values[m.stack[l]].call) \in {"FUNCTION", "CFUNCTION"}
  <2>1. CanCall(vm.values[id].call)
    BY <1>1, <1>3 DEF ProperUse, TypeOf
  <2> QED  BY <1>1, <1>2, <1>4, <2>1 DEF CanCall, TypeOf
<1>16. PICK q : q = CallContinuation(m)  OBVIOUS
<1>17. CalledAgain(q, k, l)  BY <1>14, <1>15, <1>16, ContinuationCalled
<1>18. Round(m) = [vm |-> q, again |-> FALSE]  BY <1>3, <1>16 DEF Round
<1>19. PICK most, f : RoundsOf(r, most, f)  BY FirstRound
<1>20. f[1] = [vm |-> q, again |-> FALSE] /\ r = f[most].vm
  BY <1>1, <1>18, <1>19 DEF RoundsOf
<1>21. f[1].again = FALSE /\ f[1].vm = q  BY <1>20
<1>22. f[most] = f[1]  BY <1>19, <1>21, RoundsStop DEF RoundsOf
<1>23. r = q  BY <1>20, <1>21, <1>22
<1>24. PP!CallsAgain(k, l)  BY <1>17, <1>23, CallsAgainIs
<1>25. Kind(vm, id) \in {"passing", "answering"}  BY <1>3, KindIs
<1>26. PP!Next  BY <1>3, <1>4, <1>10, <1>24, <1>25, CheckedIs
<1>27. PP!IInv'  BY <1>26, PP!StepProtocol DEF VmInv
<1>28. Ready(r)  BY <1>17, <1>23 DEF CalledAgain
<1> QED  BY <1>26, <1>27, <1>28, ReadyAfter

\* A value goes to the frame that waits for it.
LEMMA CheckValue ==
  ASSUME VmInv, ProperUse, vm.halted = FALSE, vm.check = TRUE,
         NEW r, r = AfterFuncReturn(Looked),
         Finish(r), vm.stack[Len(vm.stack)] \in Plain(vm.values)
  PROVE  VmInv' /\ PP!Next
<1>1. PICK m, id : m = Looked /\ id = vm.stack[Len(vm.stack)]  OBVIOUS
<1>2. /\ Sound(m, Entries) /\ m.values = vm.values /\ m.stack = vm.stack
      /\ m.fstack = vm.fstack /\ m.halted = FALSE /\ m.check = FALSE /\ m.iptr = vm.iptr
  BY <1>1, LookedIs
<1>3. SlotKinds(vm)[Len(vm.stack)] = Kind(vm, id)  BY <1>1, CheckedSlot
<1>4. PICK top, g : top = Len(vm.stack) /\ g = Len(vm.fstack)  OBVIOUS
<1>5. /\ top \in Nat /\ top >= 1 /\ g \in Nat /\ g >= 2 /\ g <= Room
      /\ Room \in Nat /\ top <= Room + 2
      /\ PP!Waits(SlotKinds(vm), Last, top - 1)
  BY <1>4, CheckIs
<1>6. PICK n : n = g - 1  OBVIOUS
<1>7. /\ n \in 1 .. g - 1 /\ n + 1 = g /\ n \in Nat /\ top > 0 /\ top - 1 <= Room + 1
  BY ONLY <1>5, <1>6
<1>8. Len(Activations(vm)) = n  BY <1>4, <1>6, Here
<1>9. Awaits(n, top)  BY <1>4, <1>5, <1>7, <1>8 DEF Awaits, Last
<1>10. Returning(n, top)  BY <1>4, <1>5, <1>9 DEF Returning
<1>11. GoesOn(m, n + 1) = GoesOn(vm, n + 1)  BY <1>2 DEF GoesOn
<1>12. Arrived(m, n, top, n, top)
  BY <1>1, <1>2, <1>4, <1>7, <1>10, <1>11, StandsFirst
<1>13. Done(r, n, top)  BY <1>1, <1>10, <1>12, RoundsFrom
<1>14. ASSUME r.halted = FALSE  PROVE PP!Next
  <2>1. PP!AfterFuncReturn(n, top)  BY <1>10, <1>13, <1>14, ReturnIs
  <2>2. Kind(vm, id) = "value"  BY <1>1, KindIs
  <2> QED  BY <1>3, <1>4, <1>8, <2>1, <2>2, CheckedIs
<1> QED  BY <1>13, <1>14, DoneStep

LEMMA CheckRetvalStep ==
  ASSUME VmInv, ProperUse, CheckRetval
  PROVE  VmInv' /\ PP!Next
<1>1. vm.halted = FALSE /\ vm.check = TRUE  BY DEF CheckRetval, VmInv, Sound
<1>2. PICK r : r = AfterFuncReturn(Looked)  OBVIOUS
<1>3. Finish(r)  BY <1>2 DEF CheckRetval, Looked
<1>4. PICK id : id = vm.stack[Len(vm.stack)]  OBVIOUS
<1>5. id \in DOMAIN vm.values  BY <1>1, <1>4, CheckedSlot
<1>6. CASE TypeOf(vm, id) = "RETURN"
  BY <1>1, <1>2, <1>3, <1>4, <1>6, CheckEnd, CheckReturn
<1>7. CASE TypeOf(vm, id) = "CONTINUATION"
  BY <1>1, <1>2, <1>3, <1>4, <1>7, CheckContinuation
<1>8. CASE id \in Plain(vm.values)
  BY <1>1, <1>2, <1>3, <1>4, <1>8, CheckValue
<1> QED  BY <1>5, <1>6, <1>7, <1>8 DEF Plain, Hidden, TypeOf

-----------------------------------------------------------------------------
(* Every step. *)

LEMMA StepKeeps ==
  ASSUME VmInv, ProperUse, Step
  PROVE  VmInv' /\ PP!Next
<1>1. CASE \/ CheckRetval \/ StackOverflow \/ Discard \/ Dup \/ Dup2 \/ SwapDiscard
           \/ Call \/ CallInfix \/ Jump
  BY <1>1, CheckRetvalStep, StackOverflowStep, DiscardStep, DupStep, Dup2Step,
     SwapDiscardStep, CallStep, CallInfixStep, JumpStep
<1>2. CASE \/ GetArgs \/ GetArg \/ NamedParam \/ Lookup \/ Set \/ SetExisting
           \/ AssertTrue \/ Ret \/ ModRet
  BY <1>2, GetArgsStep, GetArgStep, NamedParamStep, LookupStep, SetStep,
     SetExistingStep, AssertTrueStep, RetStep, ModRetStep
<1>3. CASE \/ AllocNone \/ AllocConstant \/ AllocArray \/ AllocNamespace
           \/ AllocFunction \/ NamespaceSetOp \/ NamespaceLookup
  BY <1>3, AllocNoneStep, AllocConstantStep, AllocArrayStep, AllocNamespaceStep,
     AllocFunctionStep, NamespaceSetStep, NamespaceLookupStep
<1>4. CASE \/ ArrayLookup \/ ArraySet \/ DynamicLookup \/ DynamicSet \/ LoadModule
           \/ LoadCModule \/ Halt
  BY <1>4, ArrayLookupStep, ArraySetStep, DynamicLookupStep, DynamicSetStep,
     LoadModuleStep, LoadCModuleStep, HaltStepped
<1> QED  BY <1>1, <1>2, <1>3, <1>4 DEF Step

-----------------------------------------------------------------------------
(* The machine that gil_vm_init leaves. *)

\* Memory nobody has set holds ids that are in use: kundeclared (vm.h:194), and the
\* files' namespace, which fs.c:146 marks before the module has made it.
Lucky == Garbage \subseteq 0 .. root

LEMMA RootIs ==
  root \in Nat /\ root >= 6 /\ root - 6 = Len(BuiltinNames)
  /\ Len(BuiltinNames) \in Nat /\ DOMAIN BuiltinNames = 1 .. Len(BuiltinNames)
<1>1. BuiltinNames \in Seq(STRING)  BY MachineAssumption
<1>2. Len(BuiltinNames) \in Nat /\ DOMAIN BuiltinNames = 1 .. Len(BuiltinNames)
  BY <1>1, LenProperties
<1> QED  BY <1>2 DEF root, builtins

LEMMA BuiltinIdsAre ==
  /\ BuiltinIds = [name \in DOMAIN BuiltinIds |-> BuiltinIds[name]]
  /\ \A name \in DOMAIN BuiltinIds : BuiltinIds[name] \in 0 .. root
<1>1. BuiltinIds = [name \in DOMAIN BuiltinIds |-> BuiltinIds[name]]  BY DEF BuiltinIds
<1>2. ASSUME NEW name \in DOMAIN BuiltinIds  PROVE BuiltinIds[name] \in 0 .. root
  <2>1. CASE name = "none"
    <3>1. BuiltinIds[name] = 1  BY <2>1 DEF BuiltinIds, knone
    <3> QED  BY <3>1, RootIs
  <2>2. CASE name # "none"
    <3>1. \E i \in DOMAIN BuiltinNames : BuiltinNames[i] = name  BY <2>2 DEF BuiltinIds
    <3>2. PICK i : i = CHOOSE k \in DOMAIN BuiltinNames : BuiltinNames[k] = name  OBVIOUS
    <3>3. i \in DOMAIN BuiltinNames  BY <3>1, <3>2
    <3>4. i \in Nat /\ i <= root - 6  BY <3>3, RootIs
    <3>5. BuiltinIds[name] = 5 + i  BY <2>2, <3>2 DEF BuiltinIds, builtins
    <3> QED  BY <3>4, <3>5, RootIs
  <2> QED  BY <2>1, <2>2
<1> QED  BY <1>1, <1>2

BuiltinsTable == Table(0, BuiltinIds, 16, {})
RootTable == Table(5, <<>>, 16, {})

Initially(v) ==
  /\ DOMAIN v = 0 .. root
  /\ \A id \in 0 .. 1 : v[id] = [type |-> "NONE"]
  /\ \A id \in 2 .. 4 : \E a : v[id] = [type |-> "ATOM", atom |-> a]
  /\ v[5] = BuiltinsTable
  /\ \A id \in 6 .. root - 1 : \E func \in BuiltinFunctions : v[id] = CFunction(func, 0)
  /\ v[root] = RootTable

LEMMA InitialValues ==
  ASSUME NEW v, v = [id \in 0 .. root |-> InitialValue(id)]
  PROVE  Initially(v)
<1>1. root \in Nat /\ root >= 6  BY RootIs
<1>2. DOMAIN v = 0 .. root /\ \A id \in 0 .. root : v[id] = InitialValue(id)  OBVIOUS
<1>3. ASSUME NEW id \in 0 .. 1  PROVE v[id] = [type |-> "NONE"]
  <2>1. id \in 0 .. root /\ id # 2 /\ id # 3 /\ id # 4 /\ id # 5 /\ id # root
        /\ id \notin 5 + 1 .. root - 1
    BY <1>1
  <2> QED  BY <1>2, <2>1 DEF InitialValue, None, ktrue, kfalse, kstop, builtins
<1>4. ASSUME NEW id \in 2 .. 4  PROVE \E a : v[id] = [type |-> "ATOM", atom |-> a]
  <2>1. id \in 0 .. root /\ id # 5 /\ id # root /\ id \notin 5 + 1 .. root - 1
        /\ (id = 2 \/ id = 3 \/ id = 4)
    BY <1>1
  <2>2. v[id] = Atom("true") \/ v[id] = Atom("false") \/ v[id] = Atom("stop")
    BY <1>2, <2>1 DEF InitialValue, ktrue, kfalse, kstop, builtins
  <2> QED  BY <2>2 DEF Atom
<1>5. v[5] = BuiltinsTable
  <2>1. PICK id : id = 5  OBVIOUS
  <2>2. id \in 0 .. root /\ id # 2 /\ id # 3 /\ id # 4 /\ id # root
        /\ id \notin 5 + 1 .. root - 1
    BY <1>1, <2>1
  <2>3. PICK map : map = BuiltinIds  OBVIOUS
  <2>4. v[id] = [Namespace(0) EXCEPT !.map = map]
    BY <1>2, <2>1, <2>2, <2>3 DEF InitialValue, ktrue, kfalse, kstop, builtins
  <2>5. v[id] = Table(0, map, 16, {})  BY <2>4 DEF Namespace, Table
  <2> QED  BY <2>1, <2>3, <2>5 DEF BuiltinsTable
<1>6. ASSUME NEW id \in 6 .. root - 1
      PROVE  \E func \in BuiltinFunctions : v[id] = CFunction(func, 0)
  <2>1. id \in 0 .. root /\ id # 2 /\ id # 3 /\ id # 4 /\ id # 5
        /\ id \in 5 + 1 .. root - 1 /\ id - 5 \in 1 .. root - 6
    BY <1>1
  <2>2. v[id] = CFunction(BuiltinNames[id - 5], 0)
    BY <1>2, <2>1 DEF InitialValue, ktrue, kfalse, kstop, builtins
  <2>3. PICK i : i = id - 5  OBVIOUS
  <2>4. BuiltinNames[i] \in BuiltinFunctions
    BY <2>1, <2>3, RootIs, BuiltinsAssumption, ElementOfSeq
  <2> QED  BY <2>2, <2>3, <2>4
<1>7. v[root] = RootTable
  <2>1. PICK id : id = root  OBVIOUS
  <2>2. id \in 0 .. root /\ id # 2 /\ id # 3 /\ id # 4 /\ id # 5
        /\ id \notin 5 + 1 .. root - 1
    BY <1>1, <2>1
  <2>3. v[id] = Namespace(5)
    BY <1>2, <2>1, <2>2 DEF InitialValue, ktrue, kfalse, kstop, builtins
  <2> QED  BY <2>1, <2>3 DEF Namespace, Table, RootTable
<1> QED  BY <1>2, <1>3, <1>4, <1>5, <1>6, <1>7 DEF Initially, BuiltinsTable, RootTable

LEMMA InitialHeap ==
  ASSUME NEW v, v = [id \in 0 .. root |-> InitialValue(id)], NEW fs, NEW E,
         NEW nsfile \in 0 .. root, fs = [ns |-> 0, nsfile |-> nsfile]
  PROVE  /\ Heap(v, fs, E) /\ DOMAIN v = 0 .. root
         /\ 5 \in Spaces(v) /\ root \in Spaces(v) /\ 0 \in Plain(v)
<1>1. root \in Nat /\ root >= 6  BY RootIs
<1>a. Initially(v)  BY InitialValues
<1>2. /\ DOMAIN v = 0 .. root
      /\ \A id \in 0 .. 1 : v[id] = [type |-> "NONE"]
      /\ \A id \in 2 .. 4 : \E a : v[id] = [type |-> "ATOM", atom |-> a]
      /\ v[5] = BuiltinsTable
      /\ \A id \in 6 .. root - 1 : \E func \in BuiltinFunctions : v[id] = CFunction(func, 0)
      /\ v[root] = RootTable
  BY <1>a DEF Initially
<1>3. ASSUME NEW id \in 0 .. root
      PROVE  \/ id \in 0 .. 1 /\ v[id] = [type |-> "NONE"]
             \/ id \in 2 .. 4 /\ \E a : v[id] = [type |-> "ATOM", atom |-> a]
             \/ id = 5 /\ v[id] = BuiltinsTable
             \/ id \in 6 .. root - 1 /\ \E func \in BuiltinFunctions : v[id] = CFunction(func, 0)
             \/ id = root /\ v[id] = RootTable
  <2>1. id \in 0 .. 1 \/ id \in 2 .. 4 \/ id = 5 \/ id \in 6 .. root - 1 \/ id = root
    BY <1>1
  <2> QED  BY <1>2, <2>1
<1>4. \A id \in 0 .. root :
        /\ v[id].type \in {"NONE", "ATOM", "NAMESPACE", "CFUNCTION"}
        /\ id \in 0 .. 1 => v[id].type = "NONE"
        /\ id \in 2 .. 4 => v[id].type = "ATOM"
        /\ v[id].type = "NAMESPACE" <=> id \in {5, root}
  <2>1. ASSUME NEW id \in 0 .. root
        PROVE  /\ v[id].type \in {"NONE", "ATOM", "NAMESPACE", "CFUNCTION"}
               /\ id \in 0 .. 1 => v[id].type = "NONE"
               /\ id \in 2 .. 4 => v[id].type = "ATOM"
               /\ v[id].type = "NAMESPACE" <=> id \in {5, root}
    <3>1. CASE id \in 0 .. 1 /\ v[id] = [type |-> "NONE"]
      BY <1>1, <3>1
    <3>2. CASE id \in 2 .. 4 /\ \E a : v[id] = [type |-> "ATOM", atom |-> a]
      BY <1>1, <3>2
    <3>3. CASE id = 5 /\ v[id] = BuiltinsTable
      BY <1>1, <3>3, TableIs DEF BuiltinsTable
    <3>4. CASE id \in 6 .. root - 1 /\ \E func \in BuiltinFunctions : v[id] = CFunction(func, 0)
      BY <1>1, <3>4 DEF CFunction
    <3>5. CASE id = root /\ v[id] = RootTable
      BY <1>1, <3>5, TableIs DEF RootTable
    <3> QED  BY <1>3, <3>1, <3>2, <3>3, <3>4, <3>5
  <2> QED  BY <2>1
<1>5. Plain(v) = 0 .. root  BY <1>2, <1>4 DEF Plain, Hidden
<1>6. 5 \in 0 .. root /\ root \in 0 .. root /\ 0 \in 0 .. root  BY <1>1
<1>7. Spaces(v) = {5, root}  BY <1>2, <1>4, <1>6 DEF Spaces
<1>8. ASSUME NEW id \in 0 .. root
      PROVE  Well(v[id], Plain(v), Spaces(v), Slim(v), E, fs)
  <2>1. PICK P, N, S, x : P = Plain(v) /\ N = Spaces(v) /\ S = Slim(v) /\ x = v[id]  OBVIOUS
  <2>2. P = 0 .. root /\ N = {5, root} /\ 0 \in P  BY <1>5, <1>6, <1>7, <2>1
  <2> SUFFICES Well(x, P, N, S, E, fs)  BY <2>1
  <2>3. CASE x = [type |-> "NONE"] \/ \E a : x = [type |-> "ATOM", atom |-> a]
    <3>1. x.type = "NONE" \/ x.type = "ATOM"  BY ONLY <2>3
    <3> QED  BY ONLY <3>1 DEF Well, Types
  <2>5. CASE x = BuiltinsTable
    <3>1. PICK map : map = BuiltinIds  OBVIOUS
    <3>2. map = [n \in DOMAIN map |-> map[n]] /\ \A n \in DOMAIN map : map[n] \in P
      BY <2>2, <3>1, BuiltinIdsAre
    <3>3. map \in [DOMAIN map -> P]  BY <3>2
    <3>4. x.type = "NAMESPACE" /\ x.parent = 0 /\ x.map = map  BY <2>5, <3>1, TableIs DEF BuiltinsTable
    <3>5. x = Table(x.parent, x.map, x.size, x.gone)  BY <2>5, TableIs DEF BuiltinsTable
    <3> QED  BY ONLY <3>3, <3>4, <3>5 DEF Well, Types
  <2>6. CASE x = RootTable
    <3>1. PICK map : map = <<>>  OBVIOUS
    <3>2. map \in [DOMAIN map -> P]
      <4>1. DOMAIN map = {} /\ map = [n \in {} |-> map[n]]  BY <3>1
      <4> QED  BY <4>1
    <3>3. x.type = "NAMESPACE" /\ x.parent = 5 /\ x.map = map  BY <2>6, <3>1, TableIs DEF RootTable
    <3>4. x = Table(x.parent, x.map, x.size, x.gone)  BY <2>6, TableIs DEF RootTable
    <3>5. x.parent \in N \cup {0}  BY <2>2, <3>3
    <3> QED  BY ONLY <3>2, <3>3, <3>4, <3>5 DEF Well, Types
  <2>7. CASE \E func \in BuiltinFunctions : x = CFunction(func, 0)
    <3>1. PICK func \in BuiltinFunctions : x = CFunction(func, 0)  BY <2>7
    <3>2. x.type = "CFUNCTION" /\ x.func = func /\ x.self = 0  BY <3>1 DEF CFunction
    <3>3. x = CFunction(x.func, x.self)  BY <3>1, <3>2
    <3>4. x.func \in BuiltinFunctions /\ x.self \in P  BY <2>2, <3>2
    <3> QED  BY ONLY <3>2, <3>3, <3>4 DEF Well, Types
  <2> QED  BY <1>3, <2>1, <2>3, <2>5, <2>6, <2>7
<1>9. Acyclic(v)
  <2>1. ASSUME NEW T \in SUBSET Spaces(v), T # {}
        PROVE  \E id \in T : v[id].parent \notin T
    <3>1. T \subseteq {5, root}  BY <1>7
    <3>2. v[5].parent = 0 /\ v[root].parent = 5  BY <1>2, TableIs DEF BuiltinsTable, RootTable
    <3>3. 0 \notin T /\ 5 # root  BY <1>1, <3>1
    <3> QED  BY <2>1, <3>1, <3>2, <3>3
  <2> QED  BY <2>1 DEF Acyclic
<1>10. IsFiniteSet(0 .. root)  BY <1>1, FS_Interval
<1>11. v = [id \in DOMAIN v |-> v[id]]  BY <1>2
<1>12. \A id \in 0 .. gc_start - 1 : id \in DOMAIN v /\ v[id].type \in {"NONE", "ATOM"}
  <2>1. ASSUME NEW id \in 0 .. 4  PROVE id \in DOMAIN v /\ v[id].type \in {"NONE", "ATOM"}
    <3>1. id \in 0 .. root /\ (id \in 0 .. 1 \/ id \in 2 .. 4)  BY <1>1
    <3> QED  BY <1>2, <1>4, <3>1
  <2> QED  BY <2>1 DEF gc_start
<1>13. v[knone].type = "NONE"
  <2>1. 1 \in 0 .. 1 /\ 1 \in 0 .. root  BY <1>1
  <2> QED  BY <1>4, <2>1 DEF knone
<1>14. fs = [ns |-> fs.ns, nsfile |-> fs.nsfile] /\ fs.ns = 0 /\ fs.nsfile = nsfile  OBVIOUS
<1>15. DOMAIN v \subseteq Nat /\ IsFiniteSet(DOMAIN v)  BY <1>2, <1>10
<1>16. \A id \in DOMAIN v : Well(v[id], Plain(v), Spaces(v), Slim(v), E, fs)  BY <1>2, <1>8
<1>17. fs.nsfile \in Plain(v)  BY <1>5, <1>14
<1>18. Heap(v, fs, E)
  BY <1>9, <1>11, <1>12, <1>13, <1>14, <1>15, <1>16, <1>17 DEF Heap
<1> QED  BY <1>2, <1>5, <1>6, <1>7, <1>18

LEMMA InitInv ==
  ASSUME Lucky, Init
  PROVE  VmInv /\ PP!Init
<1>1. PICK kun, nsfile \in Garbage : vm = InitialMachine(kun, nsfile)  BY DEF Init
<1>2. /\ vm.halted = FALSE /\ vm.check = FALSE /\ vm.iptr = 1 /\ vm.stack = <<>>
      /\ vm.fstack = <<[ns |-> 5, sptr |-> 0, retptr |-> 0, args |-> 0],
                       [ns |-> root, sptr |-> 0, retptr |-> NoReturn, args |-> 0]>>
      /\ vm.values = [id \in 0 .. root |-> InitialValue(id)]
      /\ vm.modules = <<>> /\ vm.fs = [ns |-> 0, nsfile |-> nsfile]
  BY <1>1 DEF InitialMachine, builtins
<1>3. IsMachine(vm)  BY <1>1 DEF IsMachine, InitialMachine
<1>4. program \in DOMAIN Programs  BY VmAssumption DEF Init
<1>5. nsfile \in 0 .. root  BY <1>1 DEF Lucky
<1>6. /\ Heap(vm.values, vm.fs, Entries)
      /\ 5 \in Spaces(vm.values) /\ root \in Spaces(vm.values) /\ 0 \in Plain(vm.values)
  BY <1>2, <1>5, InitialHeap
<1>7. PICK f1, f2 :
        /\ f1 = [ns |-> 5, sptr |-> 0, retptr |-> 0, args |-> 0]
        /\ f2 = [ns |-> root, sptr |-> 0, retptr |-> NoReturn, args |-> 0]
  OBVIOUS
<1>8. f1 \in StackFrame(vm.values) /\ f2 \in StackFrame(vm.values)
  BY <1>6, <1>7 DEF StackFrame
<1>9. vm.fstack = <<f1, f2>>  BY <1>2, <1>7
<1>10. /\ vm.fstack \in Seq(StackFrame(vm.values)) /\ Len(vm.fstack) = 2
       /\ vm.fstack[2] = f2
  BY <1>8, <1>9
<1>11. Once(vm.values, vm.stack) /\ Len(vm.stack) = 0 /\ vm.stack \in Seq(DOMAIN vm.values)
       /\ DOMAIN vm.stack = {}
  BY <1>2 DEF Once
<1>12. vm.modules \in Seq(LoadedModule(vm.values))  BY <1>2
<1>13. Sound(vm, Entries)
  <2>1. vm.halted \in BOOLEAN /\ vm.check \in BOOLEAN  BY <1>2
  <2>2. Len(vm.fstack) >= 2  BY <1>10
  <2> QED  BY <1>3, <1>6, <1>10, <1>11, <1>12, <2>1, <2>2 DEF Sound
<1>14. /\ Len(Code) \in Nat /\ DOMAIN Code = 1 .. Len(Code) /\ 1 \in DOMAIN Code
       /\ Bodies(Code)[1] = "program" /\ H(1) = 0
  BY <1>4, CodeIs
<1>15. /\ StackSize \in Nat /\ 2 <= StackSize /\ Room \in Nat /\ 2 <= Room + 1
  BY MachineAssumption DEF Room
<1>16. f2.retptr = NoReturn /\ f2.sptr = 0  BY <1>7
<1>17. Framed(vm)
  <2>1. BodyOf(f2) = "program"  BY <1>16 DEF BodyOf
  <2>2. GoesOn(vm, 2) = 1  BY <1>2, <1>10 DEF GoesOn
  <2>3. Placed(vm, 2)  BY <1>10, <1>14, <2>1, <2>2 DEF Placed
  <2>4. 2 .. Len(vm.fstack) = {2} /\ 3 .. Len(vm.fstack) = {}  BY <1>10
  <2> QED  BY <1>10, <1>16, <2>3, <2>4 DEF Framed
<1>18. Bare(vm)  BY <1>11 DEF Bare
<1>19. Within(vm)
  <2>1. 0 <= Room + 2  BY <1>15
  <2> QED  BY <1>2, <1>10, <1>11, <1>15, <2>1 DEF Within
<1>20. PP!Init
  <2>1. SlotKinds(vm) = <<>>
    <3>1. Len(SlotKinds(vm)) = 0 /\ SlotKinds(vm) \in Seq(PP!Kinds)  BY <1>11, <1>13, KindsAre
    <3> QED  BY <3>1, EmptySeq
  <2>2. Activations(vm) = <<PP!Began(0, 0)>>
    <3>1. PICK b, x : b = Activations(vm) /\ x = PP!Began(0, 0)  OBVIOUS
    <3>2. GoesOn(vm, 2) = 1 /\ Base(f2) = 0
      BY <1>2, <1>10, <1>16 DEF GoesOn, Base
    <3>3. Len(vm.fstack) - 1 = 1  BY <1>10
    <3>4. b = [f \in 1 .. 1 |->
                 [sptr |-> vm.fstack[f + 1].sptr, base |-> Base(vm.fstack[f + 1]),
                  want |-> H(GoesOn(vm, f + 1))]]
      BY <1>4, <1>13, <3>1, <3>3, ActivationsAre
    <3>5. b[1] = [sptr |-> vm.fstack[2].sptr, base |-> Base(vm.fstack[2]),
                  want |-> H(GoesOn(vm, 2))]
      BY ONLY <3>4
    <3>6. b[1] = x  BY <1>10, <1>14, <1>16, <3>1, <3>2, <3>5 DEF PP!Began
    <3>7. DOMAIN b = 1 .. 1 /\ b = [f \in DOMAIN b |-> b[f]]  BY ONLY <3>4
    <3>8. b = <<x>>  BY ONLY <3>6, <3>7
    <3> QED  BY <3>1, <3>8
  <2> QED  BY <1>2, <2>1, <2>2 DEF PP!Init
<1>21. PP!IInv  BY <1>20, PP!InitProtocol
<1>22. collections \in 0 .. MaxCollections /\ eager \in BOOLEAN
  BY VmAssumption DEF Init
<1>23. vm.iptr \in 1 .. Len(Code) + 1  BY <1>2, <1>14
<1> QED
  BY <1>4, <1>10, <1>11, <1>13, <1>15, <1>17, <1>18, <1>19, <1>20, <1>21, <1>22,
     <1>23 DEF VmInv

-----------------------------------------------------------------------------
(* What follows. *)

LEMMA InvTypes == VmInv => TypeOK
<1> SUFFICES ASSUME VmInv  PROVE TypeOK  OBVIOUS
<1>1. Sound(vm, Entries) /\ Heap(vm.values, vm.fs, Entries)  BY DEF VmInv, Sound
<1>2. \A id \in Ids : id \in Nat /\ vm.values[id].type \in Types
  BY <1>1, HeapIs DEF Ids, Heap, Well
<1>3. vm.stack \in Seq(Nat)
  <2>1. Ids \subseteq Nat /\ vm.stack \in Seq(Ids)  BY <1>1 DEF Ids, Heap, Sound
  <2>2. PICK s, I : s = vm.stack /\ I = Ids  OBVIOUS
  <2>3. s \in Seq(I) /\ I \subseteq Nat  BY <2>1, <2>2
  <2>4. s \in Seq(Nat)
    <3>1. PICK n : n = Len(s)  OBVIOUS
    <3>2. n \in Nat /\ DOMAIN s = 1 .. n /\ \A i \in 1 .. n : s[i] \in Nat
      BY <2>3, <3>1, LenProperties, ElementOfSeq
    <3>3. s = [i \in DOMAIN s |-> s[i]]  BY <2>3
    <3> QED  BY ONLY <3>2, <3>3
  <2> QED  BY <2>2, <2>4
<1>4. \A f \in 1 .. Len(vm.fstack) :
        vm.fstack[f].ns \in Ids /\ TypeOf(vm, vm.fstack[f].ns) = "NAMESPACE"
  BY <1>1, FramesAre DEF Spaces, Ids, TypeOf
<1> QED  BY <1>1, <1>2, <1>3, <1>4 DEF VmInv, Sound, TypeOK

LEMMA InvEscape == VmInv => NoEscape
<1> SUFFICES ASSUME VmInv  PROVE NoEscape  OBVIOUS
<1>1. /\ Heap(vm.values, vm.fs, Entries) /\ Once(vm.values, vm.stack) /\ Sound(vm, Entries)
  BY DEF VmInv, Sound
<1>2. PICK hidden : hidden = {id \in Ids : TypeOf(vm, id) \in {"CONTINUATION", "RETURN"}}
  OBVIOUS
<1>3. \A id \in Ids : Children(vm.values[id]) \subseteq Plain(vm.values)
  BY <1>1, ChildrenPlain DEF Ids
<1>4. Plain(vm.values) \cap hidden = {}  BY <1>2 DEF Plain, Hidden, TypeOf
<1>5. \A id \in Ids \ hidden : Children(vm.values[id]) \cap hidden = {}
  BY <1>3, <1>4
<1>6. \A i, j \in DOMAIN vm.stack :
        vm.stack[i] = vm.stack[j] /\ vm.stack[i] \in hidden => i = j
  BY <1>1, <1>2 DEF Once, Hidden, TypeOf
<1> QED  BY <1>2, <1>5, <1>6 DEF NoEscape

LEMMA UsesIn ==
  ASSUME NEW v, NEW fs, NEW E, Heap(v, fs, E), NEW id \in DOMAIN v,
         v[id].type = "RETURN" => v[id].ret \in DOMAIN v
  PROVE  Uses(v[id]) \subseteq DOMAIN v
<1>1. PICK x, P : x = v[id] /\ P = Plain(v)  OBVIOUS
<1>2. Well(x, P, Spaces(v), Slim(v), E, fs) /\ 0 \in P /\ knone \in P /\ fs.nsfile \in P
  BY <1>1, HeapIs DEF Heap, Fine, knone
<1>3. P \subseteq DOMAIN v /\ Spaces(v) \subseteq DOMAIN v /\ Slim(v) \subseteq DOMAIN v
  BY <1>1 DEF Plain, Spaces, Slim
<1>4. x.type \in Types  BY <1>2 DEF Well
<1>5. CASE x.type = "FUNCTION"
  BY <1>1, <1>2, <1>3, <1>5 DEF Well, Uses
<1>6. CASE x.type = "CVAL"
  BY <1>1, <1>2, <1>3, <1>6 DEF Well, Uses
<1>7. CASE x.type = "RETURN"
  BY <1>1, <1>7 DEF Uses
<1>8. CASE x.type = "ARRAY"
  <2>1. x.data \in Seq(P)  BY <1>2, <1>8 DEF Well
  <2>2. Uses(x) = {x.data[i] : i \in DOMAIN x.data}  BY <1>8 DEF Uses
  <2>3. \A i \in DOMAIN x.data : x.data[i] \in P  BY <2>1, LenProperties, ElementOfSeq
  <2> QED  BY <1>1, <1>3, <2>2, <2>3
<1>9. CASE x.type = "NAMESPACE"
  <2>1. x.map \in [DOMAIN x.map -> P] /\ x.parent \in Spaces(v) \cup {0}
    BY <1>2, <1>9 DEF Well
  <2>2. Uses(x) = {x.parent} \cup {x.map[k] : k \in DOMAIN x.map}  BY <1>9 DEF Uses
  <2> QED  BY <1>1, <1>2, <1>3, <2>1, <2>2
<1>10. CASE x.type = "CONTINUATION"
  <2>1. x.call \in P /\ Closure(x, P, Slim(v))  BY <1>2, <1>10 DEF Well
  <2>2. x.args \in DOMAIN v  BY <1>2, <1>3, <2>1 DEF Closure
  <2>3. x.callback = "NULL" \/ x.held \in Seq(P) \/ x.held = <<>>  BY <2>1 DEF Closure
  <2>4. x.callback # "NULL" => \A i \in DOMAIN x.held : x.held[i] \in P
    BY <2>3, LenProperties, ElementOfSeq
  <2>5. Uses(x) = {x.call, x.args} \cup
                  (IF x.callback = "NULL" THEN {} ELSE {x.held[i] : i \in DOMAIN x.held})
    BY <1>10 DEF Uses
  <2> QED  BY <1>1, <1>3, <2>1, <2>2, <2>4, <2>5
<1>11. CASE x.type \notin {"FUNCTION", "CVAL", "RETURN", "ARRAY", "NAMESPACE", "CONTINUATION"}
  BY <1>1, <1>11 DEF Uses
<1> QED  BY <1>5, <1>6, <1>7, <1>8, <1>9, <1>10, <1>11

LEMMA InvDangling == VmInv => NoDangling
<1> SUFFICES ASSUME VmInv, ~vm.halted
             PROVE  /\ Roots(vm) \subseteq Ids
                    /\ \A id \in Marked(vm) : Uses(vm.values[id]) \subseteq Ids
  BY DEF NoDangling
<1>1. Sound(vm, Entries) /\ Heap(vm.values, vm.fs, Entries) /\ Bare(vm)
  BY DEF VmInv, Sound
<1>2. Roots(vm) \subseteq Ids  BY <1>1, RootsIn DEF Ids
<1>3. ASSUME NEW id \in Marked(vm)  PROVE Uses(vm.values[id]) \subseteq Ids
  <2>1. /\ id \in Ids
        /\ id \in Plain(vm.values) \/ \E i \in DOMAIN vm.stack : vm.stack[i] = id
    BY <1>1, MarkedIs DEF Ids
  <2>2. knone \in Ids  BY <1>1, HeapIs DEF knone, Plain, Ids
  <2>3. vm.values[id].type = "RETURN" => vm.values[id].ret = knone
    BY <1>1, <2>1 DEF Plain, Hidden, Bare, TypeOf
  <2> QED  BY <1>1, <2>1, <2>2, <2>3, UsesIn DEF Ids
<1> QED  BY <1>2, <1>3

\* Calls, with and without its proofs.
LEMMA InvBalance == VmInv => StackBalance
<1>1. VmInv => PP!StackBalance  BY PP!BalanceFollows DEF VmInv
<1>2. PP!StackBalance => StackBalance
  BY DEF StackBalance, PP!StackBalance, Protocol!StackBalance, PP!Height, Protocol!Height,
         PP!Resumed, Protocol!Resumed, PP!IsContinuation, Protocol!IsContinuation,
         PP!Continuations, Protocol!Continuations
<1> QED  BY <1>1, <1>2

LEMMA InvBounded == VmInv => StackBounded
BY DEF VmInv, StackBounded

LEMMA SameInit ==
  ASSUME PP!Init
  PROVE  Protocol!Init
BY DEF PP!Init, Protocol!Init, PP!Began, Protocol!Began

LEMMA SameNext ==
  ASSUME PP!Next
  PROVE  Protocol!Next
BY Zenon DEF PP!Next, Protocol!Next, PP!PushValue, Protocol!PushValue, PP!LoadModule,
  Protocol!LoadModule, PP!ModRet, Protocol!ModRet, PP!AssertFails, Protocol!AssertFails,
  PP!Ret, Protocol!Ret, PP!CheckRetval, Protocol!CheckRetval, PP!Stop, Protocol!Stop,
  PP!DropValues, Protocol!DropValues, PP!Call, Protocol!Call, PP!CallC, Protocol!CallC,
  PP!Running, Protocol!Running, PP!Top, Protocol!Top, PP!Wants, Protocol!Wants,
  PP!FramesUpTo, Protocol!FramesUpTo, PP!Above, Protocol!Above, PP!Began, Protocol!Began,
  PP!IsContinuation, Protocol!IsContinuation, PP!Continuations, Protocol!Continuations,
  PP!Kinds, Protocol!Kinds, PP!IsModule, Protocol!IsModule, PP!Arrival, Protocol!Arrival,
  PP!Resumed, Protocol!Resumed, PP!Reaches, Protocol!Reaches, PP!Settles, Protocol!Settles,
  PP!CallsFunction, Protocol!CallsFunction, PP!CallsCFunction, Protocol!CallsCFunction,
  PP!CallsAgain, Protocol!CallsAgain, PP!AfterFuncReturn, Protocol!AfterFuncReturn,
  PP!Leave, Protocol!Leave

-----------------------------------------------------------------------------
(* Theorems *)

LEMMA Stutters ==
  ASSUME VmInv, UNCHANGED vars
  PROVE  VmInv' /\ UNCHANGED PP!vars /\ UNCHANGED Protocol!vars
<1>1. vm' = vm /\ program' = program /\ eager' = eager /\ collections' = collections
  BY DEF vars
<1>2. Code' = Code /\ Entries' = Entries  BY <1>1 DEF Code, Entries
<1>3. SlotKinds(vm)' = SlotKinds(vm)  BY <1>1 DEF SlotKinds, Kind, TypeOf
<1>4. Activations(vm)' = Activations(vm)
  BY <1>1 DEF Activations, GoesOn, Base, Height
<1>5. /\ (IF vm.halted THEN <<>> ELSE SlotKinds(vm))' =
            (IF vm.halted THEN <<>> ELSE SlotKinds(vm))
      /\ (IF vm.halted THEN <<>> ELSE Activations(vm))' =
            (IF vm.halted THEN <<>> ELSE Activations(vm))
      /\ (~vm.halted /\ vm.check)' = (~vm.halted /\ vm.check) /\ vm.halted' = vm.halted
  BY <1>1, <1>3, <1>4
<1>6. UNCHANGED PP!vars /\ UNCHANGED Protocol!vars
  BY <1>5 DEF PP!vars, Protocol!vars
<1>7. PP!IInv'  BY <1>6, PP!StepProtocol DEF VmInv
<1>8. (~vm.halted => Framed(vm) /\ Bare(vm) /\ Within(vm))'
  BY <1>1, <1>2 DEF VmInv, Framed, Placed, GoesOn, BodyOf, Bare, Within, TypeOf
<1>9. Sound(vm, Entries)'  BY <1>1, <1>2 DEF VmInv
<1>10. VmInv'  BY <1>1, <1>2, <1>7, <1>8, <1>9 DEF VmInv
<1> QED  BY <1>6, <1>10

LEMMA NextKeeps ==
  ASSUME VmInv, ProperUse, [Next]_vars
  PROVE  VmInv' /\ [Protocol!Next]_(Protocol!vars)
<1>1. CASE Step  BY <1>1, StepKeeps, SameNext
<1>2. CASE Halted  BY <1>2, Stutters DEF Halted
<1>3. CASE UNCHANGED vars  BY <1>3, Stutters
<1> QED  BY <1>1, <1>2, <1>3 DEF Next

\* The machine is as VmInv says, always: what the properties below follow from.
THEOREM InvariantHolds ==
  ASSUME Lucky
  PROVE  Spec /\ []ProperUse => []VmInv
<1>1. Init => VmInv  BY InitInv
<1>2. VmInv /\ ProperUse /\ [Next]_vars => VmInv'  BY NextKeeps
<1> QED  BY <1>1, <1>2, PTL DEF Spec

\* The ids on the stack and in the frames are ids, and a frame's is a namespace's.
THEOREM TypesHold ==
  ASSUME Lucky
  PROVE  Spec /\ []ProperUse => []TypeOK
BY InvariantHolds, InvTypes, PTL

\* Every frame has exactly the values its code says on the stack, for every program
\* that is verified, whatever it calls (vm.c:429-582, 659-812).
THEOREM BalanceHolds ==
  ASSUME Lucky
  PROVE  Spec /\ []ProperUse => []StackBalance
BY InvariantHolds, InvBalance, PTL

\* Programs never get hold of a continuation or a RETURN value (vm.c:429-582,
\* builtins.c:413-660).
THEOREM NothingEscapes ==
  ASSUME Lucky
  PROVE  Spec /\ []ProperUse => []NoEscape
BY InvariantHolds, InvEscape, PTL

\* Whenever the collector runs, it leaves everything the machine follows (vm.c:42-237).
THEOREM NothingDangles ==
  ASSUME Lucky
  PROVE  Spec /\ []ProperUse => []NoDangling
BY InvariantHolds, InvDangling, PTL

\* The stacks stay within their arrays, although continuations are called without a
\* look at how full they are (vm.c:626-653).
THEOREM StacksFit ==
  ASSUME Lucky
  PROVE  Spec /\ []ProperUse => []StackBounded
BY InvariantHolds, InvBounded, PTL

\* Every step of the machine is one of Calls, or none.
THEOREM ProtocolKept ==
  ASSUME Lucky
  PROVE  Spec /\ []ProperUse => KeepsProtocol
<1>1. Init => Protocol!Init
  <2> SUFFICES ASSUME Init  PROVE Protocol!Init  OBVIOUS
  <2>1. PP!Init  BY InitInv
  <2> QED  BY <2>1, SameInit
<1>2. VmInv /\ ProperUse /\ [Next]_vars => [Protocol!Next]_(Protocol!vars)  BY NextKeeps
<1> QED  BY <1>1, <1>2, InvariantHolds, PTL DEF Spec, KeepsProtocol, Protocol!Spec
==============================================================================
