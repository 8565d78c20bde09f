---------------------------- MODULE MachineProofs ----------------------------
(***************************************************************************)
(* What the parts of the machine do, for every program whose code is as     *)
(* bytecode.h says: its values and what they refer to, its C functions and  *)
(* callbacks, the collector, and the instructions that call nothing.  The   *)
(* invariant they all keep, VmInv, is stated here; module VmProofs goes on  *)
(* with calls, returns and continuations.                                   *)
(***************************************************************************)
EXTENDS Vm, SequenceTheorems, FiniteSetTheorems, WellFoundedInduction, TLAPS

-----------------------------------------------------------------------------
(* The values. *)

Hidden == {"CONTINUATION", "RETURN"}

\* Of a map v from ids to values: those a program may hold, the namespaces, and
\* what a continuation may have for arguments.
Plain(v) == {id \in DOMAIN v : v[id].type \notin Hidden}
Spaces(v) == {id \in DOMAIN v : v[id].type = "NAMESPACE"}
Slim(v) == {id \in DOMAIN v : v[id].type = "ARRAY" /\ Len(v[id].data) <= 1}

FileFunctions == {"fs.open", "fs.close", "fs.read"}

\* A continuation's callback finds in the closure what it will look for.
Closure(x, P, S) ==
  /\ x.callback \in {"NULL", "loop", "while", "for", "guard", "match"}
  /\ x.args \in S \cup {knone}
  /\ x.callback = "NULL" => x.marker = FALSE
  /\ x.callback = "guard" => x.held = <<>>
  /\ x.callback \in {"loop", "while", "for", "match"} => x.marker /\ x.held \in Seq(P)
  /\ x.callback \in {"while", "for"} => Len(x.held) = 2
  /\ x.callback = "for" => x.args \in S
  /\ x.callback = "match" => x.index \in Nat \ {0} /\ 2 * x.index <= Len(x.held)

Table(parent, map, size, gone) ==
  [type |-> "NAMESPACE", parent |-> parent, map |-> map, size |-> size, gone |-> gone]

\* A value whose references are to plain values P, to namespaces N and to arrays S,
\* and to a place in the code where a function begins, in E.
Well(x, P, N, S, E, fs) ==
  /\ x.type \in Types
  /\ x.type = "ARRAY" => x = Array(x.data) /\ x.data \in Seq(P)
  /\ x.type = "NAMESPACE" =>
       /\ x = Table(x.parent, x.map, x.size, x.gone)
       /\ x.map \in [DOMAIN x.map -> P] /\ x.parent \in N \cup {0}
  /\ x.type = "FUNCTION" =>
       x = Function(x.pos, x.ns, x.self) /\ x.pos \in E /\ x.ns \in N /\ x.self \in P
  /\ x.type = "CFUNCTION" =>
       /\ x = CFunction(x.func, x.self) /\ x.self \in P
       /\ x.func \in BuiltinFunctions \/ (x.func \in FileFunctions /\ fs.ns # 0)
  /\ x.type = "CVAL" =>
       /\ x = [type |-> "CVAL", ns |-> x.ns, open |-> x.open, rest |-> x.rest]
       /\ x.ns = fs.nsfile /\ fs.ns # 0
  /\ x.type = "CONTINUATION" =>
       /\ x = [type |-> "CONTINUATION", call |-> x.call, callback |-> x.callback,
               args |-> x.args, held |-> x.held, marker |-> x.marker,
               index |-> x.index]
       /\ x.call \in P /\ Closure(x, P, S)

\* Whoever goes up the parents comes to an end.
Acyclic(v) ==
  \A T \in SUBSET Spaces(v) : T # {} => \E id \in T : v[id].parent \notin T

Heap(v, fs, E) ==
  /\ v = [id \in DOMAIN v |-> v[id]]
  /\ DOMAIN v \subseteq Nat /\ IsFiniteSet(DOMAIN v)
  /\ \A id \in 0 .. gc_start - 1 : id \in DOMAIN v /\ v[id].type \in {"NONE", "ATOM"}
  /\ v[knone].type = "NONE"
  /\ \A id \in DOMAIN v : Well(v[id], Plain(v), Spaces(v), Slim(v), E, fs)
  /\ Acyclic(v)
  /\ fs = [ns |-> fs.ns, nsfile |-> fs.nsfile] /\ fs.nsfile \in Plain(v)
  /\ fs.ns = 0 \/ (fs.ns \in Spaces(v) /\ fs.nsfile \in Spaces(v))

-----------------------------------------------------------------------------
(* The machine. *)

IsMachine(m) ==
  DOMAIN m = {"halted", "kundeclared", "check", "iptr", "stack", "fstack", "values",
              "modules", "fs", "out"}

StackFrame(v) ==
  [ns : Spaces(v), sptr : Nat, retptr : Nat \cup {NoReturn}, args : Plain(v)]
LoadedModule(v) == [pos : Nat, ns : Spaces(v)]

\* What is hidden is in one slot.
Once(v, stack) ==
  \A i, j \in DOMAIN stack :
    stack[i] = stack[j] /\ v[stack[i]].type \in Hidden => i = j

Sound(m, E) ==
  /\ IsMachine(m) /\ m.halted \in BOOLEAN /\ m.check \in BOOLEAN
  /\ Heap(m.values, m.fs, E)
  /\ m.fstack \in Seq(StackFrame(m.values)) /\ Len(m.fstack) >= 2
  /\ m.modules \in Seq(LoadedModule(m.values))
  /\ m.stack \in Seq(DOMAIN m.values) /\ Once(m.values, m.stack)

-----------------------------------------------------------------------------
(* Where it is. *)

Entries == {p \in DOMAIN Code : Bodies(Code)[p] = "function" /\ Heights(Code)[p] = 0}

BodyOf(frame) ==
  CASE frame.retptr = NoReturn -> "program"
    [] frame.retptr # NoReturn /\ frame.args = knone -> "module"
    [] OTHER -> "function"

Placed(m, f) ==
  GoesOn(m, f) \in DOMAIN Code /\ Bodies(Code)[GoesOn(m, f)] = BodyOf(m.fstack[f])

\* The frame at the bottom, that of the builtins, is never left; the next is the
\* program's.
Framed(m) ==
  /\ \A f \in 2 .. Len(m.fstack) : Placed(m, f) /\ (m.fstack[f].retptr = NoReturn <=> f = 2)
  /\ \A f \in 3 .. Len(m.fstack) :
       m.fstack[f].args = knone \/ TypeOf(m, m.fstack[f].args) = "ARRAY"

\* RETURN values that are on the stack between steps are guard's own.
Bare(m) ==
  \A i \in DOMAIN m.stack :
    TypeOf(m, m.stack[i]) = "RETURN" => m.values[m.stack[i]].ret = knone

\* A step begins with stacks below Room.  Only a continuation goes beyond, and what it
\* calls, and what is called by a loop that it calls.
Room == StackSize - Margin
Within(m) ==
  /\ Len(m.fstack) <= Room + 1 /\ (m.check => Len(m.fstack) <= Room)
  /\ Len(m.stack) <= Room + 2
  /\ \A i \in DOMAIN m.stack :
       TypeOf(m, m.stack[i]) = "CONTINUATION" =>
         i <= Room \/ (i <= Room + 1 /\ m.values[m.stack[i]].args = knone)

PP == INSTANCE CallsProofs WITH
  stack <- IF vm.halted THEN <<>> ELSE SlotKinds(vm),
  frames <- IF vm.halted THEN <<>> ELSE Activations(vm),
  check <- ~vm.halted /\ vm.check,
  halted <- vm.halted

VmInv ==
  /\ program \in DOMAIN Programs /\ eager \in BOOLEAN /\ collections \in 0 .. MaxCollections
  /\ Sound(vm, Entries)
  /\ vm.iptr \in 1 .. Len(Code) + 1
  /\ Len(vm.stack) <= StackSize /\ Len(vm.fstack) <= StackSize
  /\ PP!IInv
  /\ ~vm.halted => Framed(vm) /\ Bare(vm) /\ Within(vm)

LEMMA LeastOf ==
  ASSUME NEW A, A \subseteq Nat, A # {}
  PROVE  \E n \in A : \A k \in A : n <= k
<1>1. PICK n \in A : \A k \in A : ~(<<k, n>> \in OpToRel(<, Nat))
  BY NatLessThanWellFounded, WFMin
<1>2. ASSUME NEW k \in A, k < n  PROVE FALSE
  BY <1>1, <1>2 DEF OpToRel
<1> QED  BY <1>2

-----------------------------------------------------------------------------
(* What is found by following references. *)

\* The references of the values in a map v, as the collector follows them.
Found(v, A) == A \cup UNION {Children(v[id]) : id \in A \cap DOMAIN v}
ClosedIn(v, C) == \A id \in C \cap DOMAIN v : Children(v[id]) \subseteq C
Reach(v, A) == {x \in Nat : \A C \in SUBSET Nat : A \subseteq C /\ ClosedIn(v, C) => x \in C}

LEMMA ReachIs ==
  ASSUME NEW v, NEW A \in SUBSET Nat
  PROVE  /\ Reach(v, A) \in SUBSET Nat
         /\ Found(v, A) = A => Reach(v, A) = A
         /\ Found(v, A) \in SUBSET Nat => Reach(v, Found(v, A)) = Reach(v, A)
<1>1. Reach(v, A) \in SUBSET Nat  BY DEF Reach
<1>2. ASSUME Found(v, A) = A  PROVE Reach(v, A) = A
  <2>1. ClosedIn(v, A)  BY <1>2 DEF ClosedIn, Found
  <2> QED  BY <2>1 DEF Reach
<1>3. ASSUME Found(v, A) \in SUBSET Nat  PROVE Reach(v, Found(v, A)) = Reach(v, A)
  <2>1. ASSUME NEW C \in SUBSET Nat, ClosedIn(v, C)
        PROVE  A \subseteq C <=> Found(v, A) \subseteq C
    BY <2>1 DEF ClosedIn, Found
  <2> QED  BY <2>1 DEF Reach
<1> QED  BY <1>1, <1>2, <1>3

\* The function gc_mark stands for exists when references are ids.
Marks(v, f) ==
  f = [A \in SUBSET Nat |-> IF Found(v, A) = A THEN A ELSE f[Found(v, A)]]

LEMMA MarksExist ==
  ASSUME NEW v, \A id \in DOMAIN v : Children(v[id]) \subseteq Nat
  PROVE  \E f : Marks(v, f)
<1> DEFINE f == [A \in SUBSET Nat |-> Reach(v, A)]
<1>1. ASSUME NEW A \in SUBSET Nat
      PROVE  f[A] = IF Found(v, A) = A THEN A ELSE f[Found(v, A)]
  <2>1. Found(v, A) \in SUBSET Nat  BY DEF Found
  <2> QED  BY <2>1, ReachIs
<1>2. f = [A \in SUBSET Nat |-> IF Found(v, A) = A THEN A ELSE f[Found(v, A)]]
  <2>1. ASSUME NEW A \in SUBSET Nat
        PROVE  Reach(v, A) = IF Found(v, A) = A THEN A ELSE f[Found(v, A)]
    BY <1>1
  <2> HIDE DEF f
  <2>2. f = [A \in SUBSET Nat |-> Reach(v, A)]  BY DEF f
  <2> QED  BY <2>1, <2>2
<1> QED  BY <1>2 DEF Marks

\* What is marked is closed, and in every closed set that is finite.
LEMMA MarksClose ==
  ASSUME NEW v, NEW f, Marks(v, f),
         NEW C \in SUBSET Nat, IsFiniteSet(C), ClosedIn(v, C),
         NEW A, A \subseteq C
  PROVE  A \subseteq f[A] /\ f[A] \subseteq C /\ ClosedIn(v, f[A])
<1> DEFINE Good(B) == B \subseteq f[B] /\ f[B] \subseteq C /\ ClosedIn(v, f[B])
           R == StrictSubsetOrdering(SUBSET C)
           Bad == {D \in SUBSET C : ~Good(C \ D)}
<1>1. SUFFICES ASSUME Bad # {}  PROVE FALSE
  <2>1. C \ (C \ A) = A /\ C \ A \in SUBSET C  OBVIOUS
  <2>2. C \ A \notin Bad  BY <1>1
  <2> QED  BY <2>1, <2>2
<1>2. PICK D \in Bad : \A D2 \in Bad : ~(D2 \subseteq D /\ D2 # D)
  <2>1. IsWellFoundedOn(StrictSubsetOrdering(C), FiniteSubsetsOf(C))
    BY FS_StrictSubsetOrderingWellFounded
  <2>2. Bad \subseteq FiniteSubsetsOf(C)
    BY FS_Subset DEF FiniteSubsetsOf
  <2>3. PICK D \in Bad : \A D2 \in Bad : ~(<<D2, D>> \in StrictSubsetOrdering(C))
    BY <1>1, <2>1, <2>2, WFMin
  <2> QED  BY <2>3 DEF StrictSubsetOrdering
<1> DEFINE B == C \ D
<1>3. B \in SUBSET Nat /\ B \subseteq C  OBVIOUS
<1>4. f[B] = IF Found(v, B) = B THEN B ELSE f[Found(v, B)]  BY <1>3 DEF Marks
<1>5. CASE Found(v, B) = B
  <2>1. f[B] = B  BY <1>4, <1>5
  <2>2. ClosedIn(v, B)  BY <1>5 DEF Found, ClosedIn
  <2> QED  BY <1>3, <2>1, <2>2
<1>6. CASE Found(v, B) # B
  <2>1. Found(v, B) \subseteq C  BY <1>3 DEF Found, ClosedIn
  <2>2. B \subseteq Found(v, B)  BY DEF Found
  <2> DEFINE D2 == C \ Found(v, B)
  <2>3. D2 \subseteq D /\ D2 # D  BY <1>6, <2>1, <2>2
  <2>4. Good(C \ D2)  BY <1>2, <2>3
  <2>5. C \ D2 = Found(v, B)  BY <2>1
  <2>6. f[B] = f[Found(v, B)]  BY <1>4, <1>6
  <2> QED  BY <2>2, <2>4, <2>5, <2>6
<1> QED  BY <1>5, <1>6

-----------------------------------------------------------------------------
(* What is found by going up the parents. *)

Parents(v) == \A id \in Spaces(v) : v[id].parent \in Spaces(v) \cup {0}
HasKey(v, id, key) == key \in DOMAIN v[id].map

\* The function gil_vm_namespace_get stands for.
Ups(v, key, f) ==
  f = [n \in Spaces(v) |-> IF HasKey(v, n, key) THEN n
                            ELSE IF v[n].parent = 0 THEN 0 ELSE f[v[n].parent]]

\* The namespaces it looks at from one on.
UpIn(v, key, C) ==
  \A id \in C : ~HasKey(v, id, key) /\ v[id].parent # 0 => v[id].parent \in C
Seen(v, key, id) ==
  {x \in Spaces(v) : \A C \in SUBSET Spaces(v) : id \in C /\ UpIn(v, key, C) => x \in C}
Hits(v, key, id) == {x \in Seen(v, key, id) : HasKey(v, x, key)}

LEMMA HitsAre ==
  ASSUME NEW v, Parents(v), NEW key, NEW id \in Spaces(v)
  PROVE  Hits(v, key, id) =
           IF HasKey(v, id, key) THEN {id}
           ELSE IF v[id].parent = 0 THEN {} ELSE Hits(v, key, v[id].parent)
<1>1. id \in Seen(v, key, id)  BY DEF Seen
<1>2. CASE HasKey(v, id, key) \/ v[id].parent = 0
  <2>1. UpIn(v, key, {id})  BY <1>2 DEF UpIn
  <2>2. Seen(v, key, id) = {id}  BY <1>1, <2>1 DEF Seen
  <2> QED  BY <1>2, <2>2 DEF Hits
<1>3. CASE ~HasKey(v, id, key) /\ v[id].parent # 0
  <2> DEFINE p == v[id].parent
  <2>1. p \in Spaces(v)  BY <1>3 DEF Parents
  <2>2. p \in Seen(v, key, p) /\ UpIn(v, key, Seen(v, key, p))
    <3>1. p \in Seen(v, key, p)  BY <2>1 DEF Seen
    <3>2. ASSUME NEW x \in Seen(v, key, p), ~HasKey(v, x, key), v[x].parent # 0
          PROVE  v[x].parent \in Seen(v, key, p)
      <4>1. x \in Spaces(v) /\ v[x].parent \in Spaces(v)  BY <3>2 DEF Seen, Parents
      <4>2. ASSUME NEW C \in SUBSET Spaces(v), p \in C, UpIn(v, key, C)
            PROVE  v[x].parent \in C
        BY <3>2, <4>2 DEF Seen, UpIn
      <4> QED  BY <4>1, <4>2 DEF Seen
    <3> QED  BY <3>1, <3>2 DEF UpIn
  <2> DEFINE C == {id} \cup Seen(v, key, p)
  <2>3. C \in SUBSET Spaces(v) /\ id \in C /\ UpIn(v, key, C)
    BY <2>2 DEF UpIn, Seen
  <2>4. Seen(v, key, id) \subseteq C  BY <2>3 DEF Seen
  <2>5. Seen(v, key, p) \subseteq Seen(v, key, id)
    <3>1. ASSUME NEW D \in SUBSET Spaces(v), id \in D, UpIn(v, key, D)
          PROVE  p \in D
      BY <1>3, <3>1 DEF UpIn
    <3> QED  BY <3>1 DEF Seen
  <2>6. Hits(v, key, id) = Hits(v, key, p)
    BY <1>1, <1>3, <2>4, <2>5 DEF Hits
  <2> QED  BY <1>3, <2>6
<1> QED  BY <1>2, <1>3

LEMMA UpsExist ==
  ASSUME NEW v, Parents(v), NEW key
  PROVE  \E f : Ups(v, key, f)
<1> DEFINE of(H) == IF H = {} THEN 0 ELSE CHOOSE x \in H : TRUE
<1>1. PICK f : f = [n \in Spaces(v) |-> of(Hits(v, key, n))]  OBVIOUS
<1>2. ASSUME NEW n \in Spaces(v)
      PROVE  f[n] = IF HasKey(v, n, key) THEN n
                    ELSE IF v[n].parent = 0 THEN 0 ELSE f[v[n].parent]
  <2>0. f[n] = of(Hits(v, key, n))  BY <1>1
  <2>1. CASE HasKey(v, n, key)
    <3>1. Hits(v, key, n) = {n}  BY <2>1, HitsAre
    <3>2. of({n}) = n  OBVIOUS
    <3> QED  BY <2>0, <2>1, <3>1, <3>2
  <2>2. CASE ~HasKey(v, n, key) /\ v[n].parent = 0
    BY <2>0, <2>2, HitsAre
  <2>3. CASE ~HasKey(v, n, key) /\ v[n].parent # 0
    <3>1. v[n].parent \in Spaces(v)  BY <2>3 DEF Parents
    <3>2. Hits(v, key, n) = Hits(v, key, v[n].parent)  BY <2>3, HitsAre
    <3>3. f[v[n].parent] = of(Hits(v, key, v[n].parent))  BY <1>1, <3>1
    <3> QED  BY <2>0, <2>3, <3>2, <3>3
  <2> QED  BY <2>1, <2>2, <2>3
<1>3. f = [n \in Spaces(v) |-> f[n]]  BY <1>1
<1>4. Ups(v, key, f)
  BY ONLY <1>2, <1>3 DEF Ups
<1> QED  BY <1>4

\* It comes to a namespace that has the key, or to the end.
LEMMA UpsEnd ==
  ASSUME NEW v, Parents(v), Acyclic(v), NEW key, NEW f, Ups(v, key, f),
         NEW id \in Spaces(v)
  PROVE  f[id] = 0 \/ (f[id] \in Spaces(v) /\ HasKey(v, f[id], key))
<1> DEFINE Good(n) == f[n] = 0 \/ (f[n] \in Spaces(v) /\ HasKey(v, f[n], key))
           Bad == {n \in Spaces(v) : ~Good(n)}
<1>1. SUFFICES ASSUME Bad # {}  PROVE FALSE
  BY <1>1
<1>2. PICK n \in Bad : v[n].parent \notin Bad  BY <1>1 DEF Acyclic
<1>3. f[n] = IF HasKey(v, n, key) THEN n
             ELSE IF v[n].parent = 0 THEN 0 ELSE f[v[n].parent]
  BY DEF Ups
<1>4. ~HasKey(v, n, key) /\ v[n].parent # 0  BY <1>3
<1>5. v[n].parent \in Spaces(v)  BY <1>4 DEF Parents
<1>6. Good(v[n].parent)  BY <1>2, <1>5
<1> QED  BY <1>3, <1>4, <1>6

LEMMA OwnerIs ==
  ASSUME NEW m, Parents(m.values), Acyclic(m.values), NEW key,
         NEW ns \in Spaces(m.values)
  PROVE  LET owner == Owner(m, ns, key)
         IN owner = 0 \/ (owner \in Spaces(m.values) /\ HasKey(m.values, owner, key))
<1> DEFINE v == m.values
           up == CHOOSE f : Ups(v, key, f)
<1>1. Ups(v, key, up)  BY UpsExist
<1>2. Owner(m, ns, key) = up[ns]
  BY DEF Owner, Ups, HasKey, Spaces, TypeOf
<1> HIDE DEF up
<1> QED  BY <1>1, <1>2, UpsEnd

-----------------------------------------------------------------------------
(* Values that change. *)

\* v2 has what v had: plain values keep their types, the arguments of continuations
\* stay short, and hidden values are the same but for those in A.
Later(v, v2, A) ==
  \A id \in DOMAIN v :
    /\ id \in DOMAIN v2
    /\ v[id].type \in Hidden =>
         v2[id] = v[id] \/ (id \in A /\ v2[id].type \in Hidden)
    /\ v[id].type \notin Hidden => v2[id].type = v[id].type
    /\ id \in Slim(v) => id \in Slim(v2)

LEMMA LaterSame ==
  ASSUME NEW v
  PROVE  Later(v, v, {})
BY DEF Later

LEMMA LaterTwice ==
  ASSUME NEW v, NEW v2, NEW v3, NEW A, Later(v, v2, A), Later(v2, v3, A)
  PROVE  Later(v, v3, A)
BY DEF Later

LEMMA LaterMore ==
  ASSUME NEW v, NEW v2, NEW A, NEW B, Later(v, v2, A), A \subseteq B
  PROVE  Later(v, v2, B)
BY DEF Later

LEMMA LaterSets ==
  ASSUME NEW v, NEW v2, NEW A, Later(v, v2, A)
  PROVE  /\ DOMAIN v \subseteq DOMAIN v2 /\ Plain(v) \subseteq Plain(v2)
         /\ Spaces(v) \subseteq Spaces(v2) /\ Slim(v) \subseteq Slim(v2)
<1>1. ASSUME NEW id \in Slim(v)  PROVE id \in Slim(v2)
  BY DEF Later, Slim
<1> QED  BY <1>1 DEF Later, Plain, Spaces, Hidden

LEMMA WellAfter ==
  ASSUME NEW x, NEW P, NEW N, NEW S, NEW E, NEW fs, NEW P2, NEW N2, NEW S2, NEW fs2,
         Well(x, P, N, S, E, fs), P \subseteq P2, N \subseteq N2, S \subseteq S2,
         fs2 = fs \/ fs.ns = 0
  PROVE  Well(x, P2, N2, S2, E, fs2)
<1>1. Seq(P) \subseteq Seq(P2)  BY SeqMonotonic
<1>2. x.type = "CONTINUATION" => Closure(x, P2, S2)
  BY <1>1 DEF Well, Closure
<1>3. x.type = "NAMESPACE" => x.map \in [DOMAIN x.map -> P2] /\ x.parent \in N2 \cup {0}
  BY DEF Well
<1>4. x.type = "CVAL" => fs2 = fs  BY DEF Well
<1>5. x.type = "CFUNCTION" =>
        x.func \in BuiltinFunctions \/ (x.func \in FileFunctions /\ fs2.ns # 0)
  BY DEF Well
<1>6. x.type = "ARRAY" => x.data \in Seq(P2)  BY <1>1 DEF Well
<1> QED  BY <1>2, <1>3, <1>4, <1>5, <1>6 DEF Well

Fine(x, v, E, fs) == Well(x, Plain(v), Spaces(v), Slim(v), E, fs)

LEMMA FineAfter ==
  ASSUME NEW x, NEW v, NEW v2, NEW A, NEW E, NEW fs, NEW fs2, Later(v, v2, A),
         Fine(x, v, E, fs), fs2 = fs \/ fs.ns = 0
  PROVE  Fine(x, v2, E, fs2)
<1>1. /\ Plain(v) \subseteq Plain(v2)
      /\ Spaces(v) \subseteq Spaces(v2) /\ Slim(v) \subseteq Slim(v2)
  BY LaterSets
<1> QED  BY <1>1, WellAfter DEF Fine

LEMMA HeapIs ==
  ASSUME NEW v, NEW fs, NEW E, Heap(v, fs, E)
  PROVE  /\ v = [id \in DOMAIN v |-> v[id]]
         /\ DOMAIN v \subseteq Nat /\ IsFiniteSet(DOMAIN v)
         /\ \A id \in 0 .. 4 : id \in DOMAIN v /\ v[id].type \in {"NONE", "ATOM"}
         /\ \A id \in 0 .. 4 : id \in Plain(v)
         /\ v[knone].type = "NONE"
         /\ \A id \in DOMAIN v : Fine(v[id], v, E, fs)
         /\ Acyclic(v) /\ Parents(v)
         /\ fs = [ns |-> fs.ns, nsfile |-> fs.nsfile] /\ fs.nsfile \in Plain(v)
         /\ fs.ns = 0 \/ (fs.ns \in Spaces(v) /\ fs.nsfile \in Spaces(v))
<1>1. Parents(v)
  <2>1. ASSUME NEW id \in Spaces(v)  PROVE v[id].parent \in Spaces(v) \cup {0}
    <3>1. Well(v[id], Plain(v), Spaces(v), Slim(v), E, fs)  BY DEF Heap, Spaces
    <3>2. v[id].type = "NAMESPACE"  BY DEF Spaces
    <3> QED  BY <3>1, <3>2 DEF Well
  <2> QED  BY <2>1 DEF Parents
<1>2. \A id \in 0 .. 4 : id \in DOMAIN v /\ v[id].type \in {"NONE", "ATOM"}
  BY DEF Heap, gc_start
<1>3. \A id \in 0 .. 4 : id \in Plain(v)  BY <1>2 DEF Plain, Hidden
<1> QED  BY <1>1, <1>2, <1>3 DEF Heap, Fine

\* The heap after a step that keeps what it does not replace by something as good.
LEMMA HeapStep ==
  ASSUME NEW v, NEW fs, NEW E, Heap(v, fs, E), NEW v2, NEW fs2, NEW A, Later(v, v2, A),
         v2 = [id \in DOMAIN v2 |-> v2[id]],
         DOMAIN v2 \subseteq Nat, IsFiniteSet(DOMAIN v2),
         \A id \in DOMAIN v2 : (id \in DOMAIN v /\ v2[id] = v[id]) \/ Fine(v2[id], v2, E, fs2),
         \A id \in 0 .. 4 : v2[id] = v[id],
         Acyclic(v2),
         fs2 = fs \/ (/\ fs.ns = 0 /\ fs2 = [ns |-> fs2.ns, nsfile |-> fs2.nsfile]
                      /\ fs2.ns \in Spaces(v2) /\ fs2.nsfile \in Spaces(v2))
  PROVE  Heap(v2, fs2, E)
<1>1. \A id \in DOMAIN v2 : Fine(v2[id], v2, E, fs2)
  <2>1. ASSUME NEW id \in DOMAIN v2, id \in DOMAIN v, v2[id] = v[id]
        PROVE  Fine(v2[id], v2, E, fs2)
    <3>1. Fine(v[id], v, E, fs)  BY <2>1, HeapIs
    <3>2. Fine(v[id], v2, E, fs2)  BY <3>1, FineAfter
    <3> QED  BY <2>1, <3>2
  <2> QED  BY <2>1
<1>2. Spaces(v2) \subseteq Plain(v2)  BY DEF Spaces, Plain, Hidden
<1>3. Plain(v) \subseteq Plain(v2) /\ Spaces(v) \subseteq Spaces(v2) /\ DOMAIN v \subseteq DOMAIN v2
  BY LaterSets
<1>4. fs.nsfile \in Plain(v) /\ (fs.ns = 0 \/ (fs.ns \in Spaces(v) /\ fs.nsfile \in Spaces(v)))
      /\ fs = [ns |-> fs.ns, nsfile |-> fs.nsfile]
  BY HeapIs
<1>5. fs2 = [ns |-> fs2.ns, nsfile |-> fs2.nsfile] /\ fs2.nsfile \in Plain(v2)
      /\ (fs2.ns = 0 \/ (fs2.ns \in Spaces(v2) /\ fs2.nsfile \in Spaces(v2)))
  BY <1>2, <1>3, <1>4
<1>6. \A id \in 0 .. 4 : id \in DOMAIN v /\ v[id].type \in {"NONE", "ATOM"}
  BY HeapIs
<1>7. v[knone].type = "NONE" /\ knone \in 0 .. 4  BY HeapIs DEF knone
<1>8. v2[knone].type = "NONE"  BY <1>7
<1>9. \A id \in 0 .. gc_start - 1 : id \in DOMAIN v2 /\ v2[id].type \in {"NONE", "ATOM"}
  BY <1>3, <1>6 DEF gc_start
<1> QED  BY <1>1, <1>5, <1>8, <1>9 DEF Heap, Fine

\* A new value.
LEMMA HeapNew ==
  ASSUME NEW v, NEW fs, NEW E, Heap(v, fs, E), NEW new \in Nat, new \notin DOMAIN v,
         NEW x, Fine(x, v, E, fs)
  PROVE  LET v2 == With(v, new, x)
         IN /\ Heap(v2, fs, E) /\ Later(v, v2, {}) /\ new \in DOMAIN v2
            /\ v2[new] = x /\ \A id \in DOMAIN v : v2[id] = v[id]
<1>1. PICK v2 : v2 = With(v, new, x)  OBVIOUS
<1>2. v2 = [z \in DOMAIN v \cup {new} |-> IF z = new THEN x ELSE v[z]]  BY <1>1 DEF With
<1>3. DOMAIN v2 = DOMAIN v \cup {new} /\ v2[new] = x /\ \A id \in DOMAIN v : v2[id] = v[id]
  BY <1>2
<1>4. v2 = [id \in DOMAIN v2 |-> v2[id]]  BY <1>2
<1>5. Later(v, v2, {})
  <2>1. ASSUME NEW id \in DOMAIN v, id \in Slim(v)  PROVE id \in Slim(v2)
    BY <1>3, <2>1 DEF Slim
  <2> QED  BY <1>3, <2>1 DEF Later
<1>6. DOMAIN v2 \subseteq Nat /\ IsFiniteSet(DOMAIN v2)  BY <1>3, HeapIs, FS_AddElement
<1>7. \A id \in DOMAIN v2 : (id \in DOMAIN v /\ v2[id] = v[id]) \/ Fine(v2[id], v2, E, fs)
  <2>1. Fine(x, v2, E, fs)  BY <1>5, FineAfter
  <2> QED  BY <1>3, <2>1
<1>8. \A id \in 0 .. 4 : v2[id] = v[id]  BY <1>3, HeapIs
<1>9. Acyclic(v2)
  <2>0. Acyclic(v) /\ Parents(v)  BY HeapIs
  <2>1. \A id \in Spaces(v) : id \in DOMAIN v  BY DEF Spaces
  <2>2. \A id \in Spaces(v2) \ {new} : id \in Spaces(v) /\ v2[id] = v[id]
    BY <1>3 DEF Spaces
  <2>3. ASSUME NEW T \in SUBSET Spaces(v2), T # {}
        PROVE  \E id \in T : v2[id].parent \notin T
    <3>1. CASE T \ {new} # {}
      <4>1. T \ {new} \in SUBSET Spaces(v)  BY <2>2
      <4>2. PICK id \in T \ {new} : v[id].parent \notin T \ {new}
        BY <2>0, <3>1, <4>1 DEF Acyclic
      <4>3. v2[id].parent = v[id].parent  BY <2>2
      <4>4. v[id].parent # new
        <5>1. v[id].parent \in Spaces(v) \cup {0}  BY <2>0, <4>1 DEF Parents
        <5>2. 0 \in DOMAIN v  BY HeapIs
        <5> QED  BY <2>1, <5>1, <5>2
      <4> QED  BY <4>2, <4>3, <4>4
    <3>2. CASE T = {new}
      <4>1. v2[new] = x /\ x.type = "NAMESPACE"  BY <1>3, <3>2 DEF Spaces
      <4>2. x.parent \in Spaces(v) \cup {0}  BY <4>1 DEF Fine, Well
      <4>3. 0 \in DOMAIN v  BY HeapIs
      <4>4. x.parent # new  BY <2>1, <4>2, <4>3
      <4> QED  BY <3>2, <4>1, <4>4
    <3> QED  BY <2>3, <3>1, <3>2
  <2> QED  BY <2>3 DEF Acyclic
<1>10. Heap(v2, fs, E)
  BY <1>4, <1>5, <1>6, <1>7, <1>8, <1>9, HeapStep
<1> QED  BY <1>1, <1>3, <1>5, <1>10

\* What a value may be replaced by: a plain one by one of the same type, and the same
\* parent.
Replaces(x, old) ==
  /\ old.type \notin {"NONE", "ATOM"}
  /\ IF old.type \in Hidden THEN x.type \in Hidden ELSE x.type = old.type
  /\ x.type = "NAMESPACE" => x.parent = old.parent
  /\ x.type = "ARRAY" => (Len(old.data) <= 1 => Len(x.data) <= 1)

LEMMA HeapChange ==
  ASSUME NEW v, NEW fs, NEW E, Heap(v, fs, E), NEW id \in DOMAIN v,
         NEW x, Fine(x, v, E, fs), Replaces(x, v[id])
  PROVE  LET v2 == [v EXCEPT ![id] = x]
         IN /\ Heap(v2, fs, E) /\ Later(v, v2, {id} \ Plain(v)) /\ DOMAIN v2 = DOMAIN v
            /\ v2[id] = x /\ \A other \in DOMAIN v \ {id} : v2[other] = v[other]
<1>1. PICK v2 : v2 = [v EXCEPT ![id] = x]  OBVIOUS
<1>0. v = [z \in DOMAIN v |-> v[z]]  BY HeapIs
<1>2. /\ DOMAIN v2 = DOMAIN v /\ v2[id] = x
      /\ \A other \in DOMAIN v \ {id} : v2[other] = v[other]
      /\ v2 = [z \in DOMAIN v2 |-> v2[z]]
  BY <1>0, <1>1
<1> DEFINE A == {id} \ Plain(v)
<1>3. Later(v, v2, A)
  <2>1. ASSUME NEW k \in DOMAIN v, k \in Slim(v)  PROVE k \in Slim(v2)
    BY <1>2, <2>1 DEF Slim, Hidden, Replaces
  <2>2. v[id].type \in Hidden => id \in A  BY DEF Plain
  <2> HIDE DEF A
  <2> QED  BY <1>2, <2>1, <2>2 DEF Later, Replaces
<1>4. DOMAIN v2 \subseteq Nat /\ IsFiniteSet(DOMAIN v2)  BY <1>2, HeapIs
<1>5. \A k \in DOMAIN v2 : (k \in DOMAIN v /\ v2[k] = v[k]) \/ Fine(v2[k], v2, E, fs)
  <2>1. Fine(x, v2, E, fs)  BY <1>3, FineAfter
  <2> QED  BY <1>2, <2>1
<1>6. \A k \in 0 .. 4 : v2[k] = v[k]  BY <1>2, HeapIs DEF Replaces
<1>7. Acyclic(v2)
  <2>1. \A k \in Spaces(v2) : k \in Spaces(v) /\ v2[k].parent = v[k].parent
    BY <1>2 DEF Spaces, Hidden, Replaces
  <2>2. Acyclic(v)  BY HeapIs
  <2>3. ASSUME NEW T \in SUBSET Spaces(v2), T # {}
        PROVE  \E k \in T : v2[k].parent \notin T
    <3>1. T \in SUBSET Spaces(v)  BY <2>1
    <3>2. PICK k \in T : v[k].parent \notin T  BY <2>2, <2>3, <3>1 DEF Acyclic
    <3> QED  BY <2>1, <3>2
  <2> QED  BY <2>3 DEF Acyclic
<1>8. Heap(v2, fs, E)
  <2> HIDE DEF A
  <2> QED  BY <1>2, <1>3, <1>4, <1>5, <1>6, <1>7, HeapStep
<1> QED  BY <1>1, <1>2, <1>3, <1>8

-----------------------------------------------------------------------------
(* Operations of the machine. *)

\* r differs from m in values, on the stack and in what was printed.
Beside(m, r) ==
  /\ r.halted = m.halted /\ r.kundeclared = m.kundeclared /\ r.check = m.check
  /\ r.iptr = m.iptr /\ r.fstack = m.fstack /\ r.modules = m.modules /\ r.fs = m.fs

\* A machine is sound after a step that leaves frames and modules alone.
LEMMA SoundStep ==
  ASSUME NEW m, NEW E, Sound(m, E), NEW r, NEW A, IsMachine(r), Beside(m, r),
         Heap(r.values, r.fs, E), Later(m.values, r.values, A),
         r.stack \in Seq(DOMAIN r.values), Once(r.values, r.stack)
  PROVE  Sound(r, E)
<1>1. StackFrame(m.values) \subseteq StackFrame(r.values)
  BY LaterSets DEF StackFrame
<1>2. LoadedModule(m.values) \subseteq LoadedModule(r.values)
  BY LaterSets DEF LoadedModule
<1>3. r.fstack \in Seq(StackFrame(r.values)) /\ r.modules \in Seq(LoadedModule(r.values))
  BY <1>1, <1>2, SeqMonotonic DEF Sound, Beside
<1> QED  BY <1>3 DEF Sound, Beside

\* The ids on the stack are still there.
LEMMA StackLater ==
  ASSUME NEW m, NEW E, Sound(m, E), NEW v2, NEW A, Later(m.values, v2, A)
  PROVE  m.stack \in Seq(DOMAIN v2) /\ Once(v2, m.stack)
<1>1. m.stack \in Seq(DOMAIN m.values)  BY DEF Sound
<1>2. DOMAIN m.values \subseteq DOMAIN v2  BY LaterSets
<1>3. m.stack \in Seq(DOMAIN v2)  BY <1>1, <1>2, SeqMonotonic
<1>4. \A i \in DOMAIN m.stack : m.stack[i] \in DOMAIN m.values
  BY <1>1, ElementOfSeq, LenProperties
<1>5. \A id \in DOMAIN m.values : v2[id].type \in Hidden => m.values[id].type \in Hidden
  BY DEF Later
<1>6. Once(m.values, m.stack)  BY DEF Sound
<1> QED  BY <1>3, <1>4, <1>5, <1>6 DEF Once

\* Sequences whose elements change, one by one.
LEMMA OnceIs ==
  ASSUME NEW v, NEW s,
         \A i, j \in DOMAIN s : s[i] = s[j] /\ v[s[i]].type \in Hidden => i = j
  PROVE  Once(v, s)
BY DEF Once

LEMMA Grows ==
  ASSUME NEW S, NEW s \in Seq(S), NEW x \in S
  PROVE  /\ Append(s, x) \in Seq(S) /\ Len(Append(s, x)) = Len(s) + 1
         /\ DOMAIN Append(s, x) = 1 .. Len(s) + 1 /\ DOMAIN s = 1 .. Len(s) /\ Len(s) \in Nat
         /\ \A i \in 1 .. Len(s) : Append(s, x)[i] = s[i]
         /\ Append(s, x)[Len(s) + 1] = x
<1>1. Append(s, x) \in Seq(S)  OBVIOUS
<1>2. Len(s) \in Nat /\ DOMAIN s = 1 .. Len(s)  BY LenProperties
<1> QED  BY <1>1, <1>2, LenProperties

LEMMA Shrinks ==
  ASSUME NEW S, NEW s \in Seq(S), NEW n \in Nat, n <= Len(s)
  PROVE  LET t == SubSeq(s, 1, Len(s) - n)
         IN /\ t \in Seq(S) /\ Len(t) = Len(s) - n /\ DOMAIN t = 1 .. Len(s) - n
            /\ \A i \in 1 .. Len(s) - n : t[i] = s[i]
<1>1. Len(s) \in Nat /\ DOMAIN s = 1 .. Len(s)  BY LenProperties
<1>2. PICK k : k = Len(s) - n  OBVIOUS
<1>3. k \in Nat /\ k <= Len(s)  BY <1>1, <1>2
<1>4. /\ SubSeq(s, 1, k) \in Seq(S) /\ Len(SubSeq(s, 1, k)) = k
      /\ \A i \in 1 .. k : SubSeq(s, 1, k)[i] = s[i]
  BY <1>3, PP!Cuts
<1> QED  BY <1>2, <1>4, LenProperties

LEMMA PushSound ==
  ASSUME NEW m, NEW E, Sound(m, E), NEW id \in DOMAIN m.values,
         id \in Plain(m.values) \/ \A i \in DOMAIN m.stack : m.stack[i] # id
  PROVE  LET r == Push(m, id)
         IN Sound(r, E) /\ Beside(m, r) /\ r.values = m.values /\ r.stack = Append(m.stack, id)
            /\ r.out = m.out
<1>1. PICK r : r = Push(m, id)  OBVIOUS
<1>2. IsMachine(m)  BY DEF Sound
<1>3. /\ IsMachine(r) /\ Beside(m, r) /\ r.values = m.values
      /\ r.stack = Append(m.stack, id) /\ r.out = m.out
  BY <1>1, <1>2 DEF Push, IsMachine, Beside
<1>4. Later(m.values, r.values, {})  BY <1>3, LaterSame
<1>5. m.stack \in Seq(DOMAIN m.values) /\ Once(m.values, m.stack)  BY DEF Sound
<1>6. r.stack \in Seq(DOMAIN r.values)
  <2>1. PICK D : D = DOMAIN m.values  OBVIOUS
  <2>2. PICK s : s = m.stack  OBVIOUS
  <2>3. Append(s, id) \in Seq(D)  BY <1>5, <2>1, <2>2, Grows
  <2> QED  BY <1>3, <2>1, <2>2, <2>3
<1>7. Once(r.values, r.stack)
  <2>1. ASSUME NEW i \in DOMAIN r.stack, NEW j \in DOMAIN r.stack,
               r.stack[i] = r.stack[j], r.values[r.stack[i]].type \in Hidden
        PROVE  i = j
    <3>1. /\ Len(m.stack) \in Nat /\ DOMAIN m.stack = 1 .. Len(m.stack)
          /\ DOMAIN r.stack = 1 .. Len(m.stack) + 1 /\ r.stack[Len(m.stack) + 1] = id
          /\ \A k \in 1 .. Len(m.stack) : r.stack[k] = m.stack[k]
      BY <1>3, <1>5, Grows
    <3>2. i \in 1 .. Len(m.stack) + 1 /\ j \in 1 .. Len(m.stack) + 1  BY <2>1, <3>1
    <3>3. id \in Plain(m.values) => m.values[id].type \notin Hidden  BY DEF Plain
    <3> QED  BY <1>3, <1>5, <2>1, <3>1, <3>2, <3>3 DEF Once
  <2> QED  BY <2>1 DEF Once
<1>8. Heap(r.values, r.fs, E)  BY <1>3 DEF Sound, Beside
<1>9. Sound(r, E)  BY <1>3, <1>4, <1>6, <1>7, <1>8, SoundStep
<1> QED  BY <1>1, <1>3, <1>9

\* alloc_val: there is a free id, and the lowest is not above their number.
LEMMA NewIdIs ==
  ASSUME NEW m, DOMAIN m.values \subseteq Nat, IsFiniteSet(DOMAIN m.values)
  PROVE  NewId(m) \in Nat /\ NewId(m) \notin DOMAIN m.values
<1> DEFINE D == DOMAIN m.values
           c == Cardinality(D)
           Free == {id \in Nat : id \notin D}
<1>1. c \in Nat  BY FS_CardinalityType
<1>2. Free # {}
  <2>1. SUFFICES ASSUME Free = {}  PROVE FALSE
    BY <2>1
  <2>2. 1 .. c + 1 \subseteq D  BY <1>1, <2>1
  <2>3. IsFiniteSet(1 .. c + 1) /\ Cardinality(1 .. c + 1) = c + 1
    BY <1>1, FS_Interval
  <2>4. Cardinality(1 .. c + 1) <= c  BY <2>2, FS_Subset
  <2> QED  BY <1>1, <2>3, <2>4
<1>3. PICK n \in Free : \A k \in Free : n <= k  BY <1>2, LeastOf
<1>4. 0 .. n - 1 \subseteq D  BY <1>3
<1>5. n <= c
  <2>1. n \in Nat /\ n - 1 \in Int /\ 0 \in Int  BY <1>3
  <2>2. IsFiniteSet(0 .. n - 1)
        /\ Cardinality(0 .. n - 1) = IF 0 > n - 1 THEN 0 ELSE (n - 1) - 0 + 1
    BY <2>1, FS_Interval
  <2>3. Cardinality(0 .. n - 1) = n  BY <2>1, <2>2
  <2>4. Cardinality(0 .. n - 1) <= c  BY <1>4, FS_Subset
  <2> QED  BY <2>3, <2>4
<1>6. \E id \in 0 .. c : id \notin D /\ 0 .. id - 1 \subseteq D
  BY <1>1, <1>3, <1>4, <1>5
<1>7. NewId(m) \in 0 .. c /\ NewId(m) \notin D
  BY <1>6 DEF NewId
<1> QED  BY <1>1, <1>7

LEMMA AllocSound ==
  ASSUME NEW m, NEW E, Sound(m, E), NEW x, Fine(x, m.values, E, m.fs)
  PROVE  LET r == Alloc(m, x)
             id == NewId(m)
         IN /\ Sound(r, E) /\ Beside(m, r) /\ r.stack = m.stack /\ r.out = m.out
            /\ Later(m.values, r.values, {})
            /\ id \notin DOMAIN m.values /\ id \in DOMAIN r.values /\ r.values[id] = x
            /\ \A k \in DOMAIN m.values : r.values[k] = m.values[k]
            /\ \A i \in DOMAIN m.stack : m.stack[i] # id
<1>1. PICK r : r = Alloc(m, x)  OBVIOUS
<1>2. PICK id : id = NewId(m)  OBVIOUS
<1>3. IsMachine(m) /\ Heap(m.values, m.fs, E)  BY DEF Sound
<1>4. id \in Nat /\ id \notin DOMAIN m.values  BY <1>2, <1>3, HeapIs, NewIdIs
<1>5. PICK v2 : v2 = With(m.values, id, x)  OBVIOUS
<1>6. /\ Heap(v2, m.fs, E) /\ Later(m.values, v2, {}) /\ id \in DOMAIN v2
      /\ v2[id] = x /\ \A k \in DOMAIN m.values : v2[k] = m.values[k]
  BY <1>3, <1>4, <1>5, HeapNew
<1>7. r = [m EXCEPT !.values = v2]  BY <1>1, <1>2, <1>5 DEF Alloc
<1>8. /\ IsMachine(r) /\ Beside(m, r) /\ r.values = v2 /\ r.stack = m.stack /\ r.out = m.out
  BY <1>3, <1>7 DEF IsMachine, Beside
<1>9. m.stack \in Seq(DOMAIN v2) /\ Once(v2, m.stack)  BY <1>6, StackLater
<1>10. r.fs = m.fs  BY <1>8 DEF Beside
<1>11. Sound(r, E)  BY <1>6, <1>8, <1>9, <1>10, SoundStep
<1>12. \A i \in DOMAIN m.stack : m.stack[i] # id
  BY <1>4, ElementOfSeq, LenProperties DEF Sound
<1> QED  BY <1>1, <1>2, <1>4, <1>6, <1>8, <1>11, <1>12

\* A value that is written to in place.
Write(m, id, x) == [m EXCEPT !.values = [m.values EXCEPT ![id] = x]]

Written(m, r, id, x, E) ==
  /\ Sound(r, E) /\ Beside(m, r) /\ r.stack = m.stack /\ r.out = m.out
  /\ Later(m.values, r.values, {id})
  /\ id \in Plain(m.values) => Later(m.values, r.values, {})
  /\ DOMAIN r.values = DOMAIN m.values
  /\ r.values[id] = x
  /\ \A k \in DOMAIN m.values \ {id} : r.values[k] = m.values[k]

LEMMA ChangeSound ==
  ASSUME NEW m, NEW E, Sound(m, E), NEW id \in DOMAIN m.values,
         NEW x, Fine(x, m.values, E, m.fs), Replaces(x, m.values[id])
  PROVE  Written(m, Write(m, id, x), id, x, E)
<1>0. PICK r : r = Write(m, id, x)  OBVIOUS
<1>1. PICK v2 : v2 = [m.values EXCEPT ![id] = x]  OBVIOUS
<1>2. r = [m EXCEPT !.values = v2]  BY <1>0, <1>1 DEF Write
<1>3. IsMachine(m) /\ Heap(m.values, m.fs, E)  BY DEF Sound
<1>4. /\ Heap(v2, m.fs, E) /\ Later(m.values, v2, {id} \ Plain(m.values))
      /\ DOMAIN v2 = DOMAIN m.values
      /\ v2[id] = x /\ \A k \in DOMAIN m.values \ {id} : v2[k] = m.values[k]
  BY <1>1, <1>3, HeapChange
<1>5. /\ IsMachine(r) /\ Beside(m, r) /\ r.values = v2 /\ r.stack = m.stack /\ r.out = m.out
  BY <1>2, <1>3 DEF IsMachine, Beside
<1>6. m.stack \in Seq(DOMAIN v2) /\ Once(v2, m.stack)  BY <1>4, StackLater
<1>7. r.fs = m.fs  BY <1>5 DEF Beside
<1>8. Sound(r, E)  BY <1>4, <1>5, <1>6, <1>7, SoundStep
<1>9. Later(m.values, v2, {id})
  <2>1. {id} \ Plain(m.values) \subseteq {id}  OBVIOUS
  <2> QED  BY <1>4, <2>1, LaterMore
<1>10. id \in Plain(m.values) => Later(m.values, v2, {})
  <2>1. id \in Plain(m.values) => {id} \ Plain(m.values) = {}  OBVIOUS
  <2> QED  BY <1>4, <2>1
<1> QED  BY <1>0, <1>4, <1>5, <1>8, <1>9, <1>10 DEF Written

LEMMA DropSound ==
  ASSUME NEW m, NEW E, Sound(m, E), NEW n \in Nat, n <= Len(m.stack)
  PROVE  LET r == Drop(m, n)
         IN /\ Sound(r, E) /\ Beside(m, r) /\ r.values = m.values /\ r.out = m.out
            /\ Len(r.stack) = Len(m.stack) - n
            /\ \A i \in 1 .. Len(m.stack) - n : r.stack[i] = m.stack[i]
<1>1. PICK r : r = Drop(m, n)  OBVIOUS
<1>2. IsMachine(m)  BY DEF Sound
<1>3. /\ IsMachine(r) /\ Beside(m, r) /\ r.values = m.values
      /\ r.stack = SubSeq(m.stack, 1, Len(m.stack) - n) /\ r.out = m.out
  BY <1>1, <1>2 DEF Drop, IsMachine, Beside
<1>4. Later(m.values, r.values, {})  BY <1>3, LaterSame
<1>5. m.stack \in Seq(DOMAIN m.values) /\ Once(m.values, m.stack)
      /\ Len(m.stack) \in Nat /\ DOMAIN m.stack = 1 .. Len(m.stack)
  BY LenProperties DEF Sound
<1>6. /\ r.stack \in Seq(DOMAIN r.values) /\ Len(r.stack) = Len(m.stack) - n
      /\ \A i \in 1 .. Len(m.stack) - n : r.stack[i] = m.stack[i]
      /\ DOMAIN r.stack = 1 .. Len(m.stack) - n
  <2>1. PICK D : D = DOMAIN m.values  OBVIOUS
  <2>2. PICK s : s = m.stack  OBVIOUS
  <2>3. PICK t : t = SubSeq(s, 1, Len(s) - n)  OBVIOUS
  <2>4. /\ t \in Seq(D) /\ Len(t) = Len(s) - n /\ DOMAIN t = 1 .. Len(s) - n
        /\ \A i \in 1 .. Len(s) - n : t[i] = s[i]
    BY <1>5, <2>1, <2>2, <2>3, Shrinks
  <2>5. r.stack = t /\ r.values = m.values  BY <1>3, <2>2, <2>3
  <2> QED  BY <2>1, <2>2, <2>4, <2>5
<1>7. Once(r.values, r.stack)
  <2>1. ASSUME NEW i \in DOMAIN r.stack, NEW j \in DOMAIN r.stack,
               r.stack[i] = r.stack[j], r.values[r.stack[i]].type \in Hidden
        PROVE  i = j
    <3>1. i \in DOMAIN m.stack /\ j \in DOMAIN m.stack  BY <1>5, <1>6, <2>1
    <3>2. m.stack[i] = r.stack[i] /\ m.stack[j] = r.stack[j]  BY <1>6, <2>1
    <3> QED  BY <1>3, <1>5, <2>1, <3>1, <3>2 DEF Once
  <2> QED  BY <2>1 DEF Once
<1>8. Heap(r.values, r.fs, E)  BY <1>3 DEF Sound, Beside
<1>9. Sound(r, E)  BY <1>3, <1>4, <1>6, <1>7, <1>8, SoundStep
<1> QED  BY <1>1, <1>3, <1>6, <1>9

LEMMA ReplaceAt ==
  ASSUME NEW m, NEW E, Sound(m, E), NEW k \in 1 .. Len(m.stack),
         NEW id \in DOMAIN m.values, id \in Plain(m.values) \/ id = Slot(m, k),
         NEW r, r = Replace(m, k, id), NEW j, j = Len(m.stack) + 1 - k
  PROVE  /\ Sound(r, E) /\ Beside(m, r) /\ r.values = m.values /\ r.out = m.out
         /\ Len(r.stack) = Len(m.stack) /\ r.stack[j] = id
         /\ \A i \in 1 .. Len(m.stack) : i # j => r.stack[i] = m.stack[i]
<1>2. IsMachine(m)  BY DEF Sound
<1>3. /\ IsMachine(r) /\ Beside(m, r) /\ r.values = m.values
      /\ r.stack = [m.stack EXCEPT ![Len(m.stack) + 1 - k] = id] /\ r.out = m.out
  BY <1>2 DEF Replace, IsMachine, Beside
<1>4. Later(m.values, r.values, {})  BY <1>3, LaterSame
<1>5. m.stack \in Seq(DOMAIN m.values) /\ Once(m.values, m.stack)
      /\ Len(m.stack) \in Nat /\ DOMAIN m.stack = 1 .. Len(m.stack)
  BY LenProperties DEF Sound
<1>7. j \in 1 .. Len(m.stack)  BY <1>5
<1>8. /\ r.stack \in Seq(DOMAIN r.values) /\ Len(r.stack) = Len(m.stack) /\ r.stack[j] = id
      /\ DOMAIN r.stack = 1 .. Len(m.stack)
      /\ \A i \in 1 .. Len(m.stack) : i # j => r.stack[i] = m.stack[i]
  BY <1>3, <1>5, <1>7
<1>9. Once(r.values, r.stack)
  <2>1. id \in Plain(m.values) => m.values[id].type \notin Hidden  BY DEF Plain
  <2>2. id = Slot(m, k) => id = m.stack[j]  BY DEF Slot
  <2>3. ASSUME NEW a \in DOMAIN r.stack, NEW b \in DOMAIN r.stack,
               r.stack[a] = r.stack[b], r.values[r.stack[a]].type \in Hidden
        PROVE  a = b
    <3>1. a \in DOMAIN m.stack /\ b \in DOMAIN m.stack  BY <1>5, <1>8
    <3>2. r.stack[a] \notin Plain(m.values)  BY <1>3, <2>3 DEF Plain
    <3>3. (a = j \/ b = j) => id = m.stack[j]  BY <1>8, <2>2, <2>3, <3>2
    <3>4. m.stack[a] = r.stack[a] /\ m.stack[b] = r.stack[b]  BY <1>8, <2>3, <3>3
    <3> QED  BY <1>3, <1>5, <2>3, <3>1, <3>4 DEF Once
  <2> QED  BY <2>3 DEF Once
<1>10. Heap(r.values, r.fs, E)  BY <1>3 DEF Sound, Beside
<1>11. Sound(r, E)  BY <1>3, <1>4, <1>8, <1>9, <1>10, SoundStep
<1> QED  BY <1>3, <1>8, <1>11

LEMMA ReplaceSound ==
  ASSUME NEW m, NEW E, Sound(m, E), NEW k \in 1 .. Len(m.stack),
         NEW id \in DOMAIN m.values, id \in Plain(m.values) \/ id = Slot(m, k)
  PROVE  LET r == Replace(m, k, id)
         IN /\ Sound(r, E) /\ Beside(m, r) /\ r.values = m.values /\ r.out = m.out
            /\ Len(r.stack) = Len(m.stack) /\ r.stack[Len(m.stack) + 1 - k] = id
            /\ \A i \in 1 .. Len(m.stack) : i # Len(m.stack) + 1 - k => r.stack[i] = m.stack[i]
<1>1. PICK r, j : r = Replace(m, k, id) /\ j = Len(m.stack) + 1 - k  OBVIOUS
<1> QED  BY <1>1, ReplaceAt

\* What is not said about a machine that only differs in these.
LEMMA SoundAs ==
  ASSUME NEW m, NEW E, Sound(m, E), NEW r, IsMachine(r), r.values = m.values,
         r.stack = m.stack, r.fstack = m.fstack, r.modules = m.modules, r.fs = m.fs,
         r.halted \in BOOLEAN, r.check \in BOOLEAN
  PROVE  Sound(r, E)
BY DEF Sound

LEMMA StackIs ==
  ASSUME NEW m, NEW E, Sound(m, E)
  PROVE  /\ IsMachine(m) /\ Heap(m.values, m.fs, E)
         /\ Len(m.stack) \in Nat /\ DOMAIN m.stack = 1 .. Len(m.stack)
         /\ \A i \in 1 .. Len(m.stack) : m.stack[i] \in DOMAIN m.values
         /\ \A k \in 1 .. Len(m.stack) : Slot(m, k) \in DOMAIN m.values
<1>1. PICK s : s = m.stack  OBVIOUS
<1>2. PICK D : D = DOMAIN m.values  OBVIOUS
<1>3. s \in Seq(D)  BY <1>1, <1>2 DEF Sound
<1>4. Len(s) \in Nat /\ DOMAIN s = 1 .. Len(s) /\ \A i \in 1 .. Len(s) : s[i] \in D
  BY <1>3, LenProperties, ElementOfSeq
<1>5. ASSUME NEW k \in 1 .. Len(s)  PROVE s[Len(s) + 1 - k] \in D
  <2>1. Len(s) + 1 - k \in 1 .. Len(s)  BY <1>4
  <2> QED  BY <1>4, <2>1
<1> QED  BY <1>1, <1>2, <1>4, <1>5 DEF Sound, Slot

\* A value that refers to nothing.
Bald == {"NONE", "ATOM", "REAL", "BUFFER", "ERROR"}

LEMMA BaldFine ==
  ASSUME NEW x, x.type \in Bald, NEW v, NEW E, NEW fs
  PROVE  Fine(x, v, E, fs) /\ x.type \notin Hidden
BY DEF Bald, Fine, Well, Types, Hidden

LEMMA ConstantsFine ==
  ASSUME NEW v, NEW E, NEW fs, NEW x
  PROVE  /\ Fine(Atom(x), v, E, fs) /\ Atom(x).type \notin Hidden
         /\ Fine(Real(x), v, E, fs) /\ Real(x).type \notin Hidden
         /\ Fine(Buffer(x), v, E, fs) /\ Buffer(x).type \notin Hidden
         /\ Fine(Error, v, E, fs) /\ Error.type \notin Hidden
<1>1. Atom(x).type \in Bald /\ Real(x).type \in Bald /\ Buffer(x).type \in Bald
      /\ Error.type \in Bald
  BY DEF Atom, Real, Buffer, Error, Bald
<1> QED  BY <1>1, BaldFine

LEMMA ArrayFine ==
  ASSUME NEW v, NEW E, NEW fs, NEW data \in Seq(Plain(v))
  PROVE  Fine(Array(data), v, E, fs) /\ Array(data).type = "ARRAY" /\ Array(data).data = data
BY DEF Array, Fine, Well, Types

LEMMA TableIs ==
  ASSUME NEW parent, NEW map, NEW size, NEW gone, NEW x, x = Table(parent, map, size, gone)
  PROVE  /\ x.type = "NAMESPACE" /\ x.parent = parent /\ x.map = map
         /\ x.size = size /\ x.gone = gone
         /\ x = Table(x.parent, x.map, x.size, x.gone)
BY DEF Table

LEMMA NamespaceFine ==
  ASSUME NEW v, NEW E, NEW fs, NEW parent \in Spaces(v) \cup {0}
  PROVE  Fine(Namespace(parent), v, E, fs) /\ Namespace(parent).type = "NAMESPACE"
<1>1. PICK x : x = Namespace(parent)  OBVIOUS
<1>2. x = Table(parent, <<>>, 16, {})  BY <1>1 DEF Namespace, Table
<1>3. /\ x.type = "NAMESPACE" /\ x.parent = parent /\ x.map = <<>>
      /\ x.size = 16 /\ x.gone = {}
  BY <1>2, TableIs
<1>4. x.map \in [DOMAIN x.map -> Plain(v)]
  <2>1. DOMAIN <<>> = {}  OBVIOUS
  <2>2. <<>> \in [{} -> Plain(v)]  OBVIOUS
  <2> QED  BY <1>3, <2>1, <2>2
<1>5. x = Table(x.parent, x.map, x.size, x.gone)  BY <1>2, <1>3
<1>6. x.type \in Types  BY <1>3 DEF Types
<1>7. Fine(x, v, E, fs)  BY <1>3, <1>4, <1>5, <1>6 DEF Fine, Well
<1> QED  BY <1>1, <1>3, <1>7

LEMMA FunctionsFine ==
  ASSUME NEW v, NEW E, NEW fs, NEW pos \in E, NEW ns \in Spaces(v), NEW self \in Plain(v),
         NEW func, func \in BuiltinFunctions \/ (func \in FileFunctions /\ fs.ns # 0)
  PROVE  /\ Fine(Function(pos, ns, self), v, E, fs)
         /\ Function(pos, ns, self).type = "FUNCTION"
         /\ Fine(CFunction(func, self), v, E, fs)
         /\ CFunction(func, self).type = "CFUNCTION"
BY DEF Function, CFunction, Fine, Well, Types

-----------------------------------------------------------------------------
(* Values that are pushed. *)

\* The machine r is m with one slot more.
Pushed(m, r, E) ==
  /\ Sound(r, E) /\ Beside(m, r) /\ Later(m.values, r.values, {})
  /\ Len(r.stack) = Len(m.stack) + 1
  /\ \A i \in 1 .. Len(m.stack) : r.stack[i] = m.stack[i]
PushedPlain(m, r, E) == Pushed(m, r, E) /\ Slot(r, 1) \in Plain(r.values)

\* Nothing on the stack changes.
Quietly(m, r, E) ==
  Sound(r, E) /\ Beside(m, r) /\ Later(m.values, r.values, {}) /\ r.stack = m.stack

LEMMA QuietlyPushed ==
  ASSUME NEW m, NEW n, NEW r, NEW E, Quietly(m, n, E)
  PROVE  /\ Pushed(n, r, E) => Pushed(m, r, E)
         /\ PushedPlain(n, r, E) => PushedPlain(m, r, E)
         /\ Quietly(n, r, E) => Quietly(m, r, E)
<1>1. Later(n.values, r.values, {}) => Later(m.values, r.values, {})
  BY LaterTwice DEF Quietly
<1>2. Beside(n, r) => Beside(m, r)  BY DEF Quietly, Beside
<1> QED  BY <1>1, <1>2 DEF Quietly, Pushed, PushedPlain

LEMMA PushPlain ==
  ASSUME NEW m, NEW E, Sound(m, E), NEW id \in Plain(m.values)
  PROVE  PushedPlain(m, Push(m, id), E) /\ Push(m, id).values = m.values
<1>1. PICK r : r = Push(m, id)  OBVIOUS
<1>2. id \in DOMAIN m.values  BY DEF Plain
<1>3. Sound(r, E) /\ Beside(m, r) /\ r.values = m.values /\ r.stack = Append(m.stack, id)
  BY <1>1, <1>2, PushSound
<1>4. PICK s : s = m.stack  OBVIOUS
<1>5. PICK D : D = DOMAIN m.values  OBVIOUS
<1>6. s \in Seq(D)  BY <1>4, <1>5 DEF Sound
<1>7. /\ Len(s) \in Nat /\ Len(Append(s, id)) = Len(s) + 1
      /\ \A i \in 1 .. Len(s) : Append(s, id)[i] = s[i]
      /\ Append(s, id)[Len(s) + 1] = id
  BY <1>2, <1>5, <1>6, Grows
<1>8. Later(m.values, r.values, {})  BY <1>3, LaterSame
<1>9. Slot(r, 1) = id  BY <1>3, <1>4, <1>7 DEF Slot
<1> QED  BY <1>1, <1>3, <1>4, <1>7, <1>8, <1>9 DEF PushedPlain, Pushed

LEMMA PushNewIs ==
  ASSUME NEW m, NEW E, Sound(m, E), NEW x, Fine(x, m.values, E, m.fs)
  PROVE  LET r == PushNew(m, x)
             id == Slot(r, 1)
         IN /\ Pushed(m, r, E)
            /\ id \notin DOMAIN m.values /\ id \in DOMAIN r.values /\ r.values[id] = x
            /\ x.type \notin Hidden => PushedPlain(m, r, E)
<1>1. PICK n : n = Alloc(m, x)  OBVIOUS
<1>2. PICK id : id = NewId(m)  OBVIOUS
<1>3. PICK r : r = PushNew(m, x)  OBVIOUS
<1>4. r = Push(n, id)  BY <1>1, <1>2, <1>3 DEF PushNew
<1>5. /\ Sound(n, E) /\ Beside(m, n) /\ n.stack = m.stack
      /\ Later(m.values, n.values, {})
      /\ id \notin DOMAIN m.values /\ id \in DOMAIN n.values /\ n.values[id] = x
      /\ \A i \in DOMAIN m.stack : m.stack[i] # id
  BY <1>1, <1>2, AllocSound
<1>6. \A i \in DOMAIN n.stack : n.stack[i] # id  BY <1>5
<1>7. Sound(r, E) /\ Beside(n, r) /\ r.values = n.values /\ r.stack = Append(n.stack, id)
  BY <1>4, <1>5, <1>6, PushSound
<1>8. PICK s : s = n.stack  OBVIOUS
<1>9. PICK D : D = DOMAIN n.values  OBVIOUS
<1>10. s \in Seq(D)  BY <1>5, <1>8, <1>9 DEF Sound
<1>11. /\ Len(s) \in Nat /\ Len(Append(s, id)) = Len(s) + 1
       /\ \A i \in 1 .. Len(s) : Append(s, id)[i] = s[i]
       /\ Append(s, id)[Len(s) + 1] = id
  BY <1>5, <1>9, <1>10, Grows
<1>12. Slot(r, 1) = id  BY <1>7, <1>8, <1>11 DEF Slot
<1>13. Beside(m, r)  BY <1>5, <1>7 DEF Beside
<1>14. Pushed(m, r, E)  BY <1>5, <1>7, <1>8, <1>11, <1>13 DEF Pushed
<1>15. x.type \notin Hidden => id \in Plain(r.values)  BY <1>5, <1>7 DEF Plain
<1> QED  BY <1>3, <1>5, <1>7, <1>12, <1>14, <1>15 DEF PushedPlain

LEMMA PushNewPlain ==
  ASSUME NEW m, NEW E, Sound(m, E), NEW x, Fine(x, m.values, E, m.fs), x.type \notin Hidden
  PROVE  PushedPlain(m, PushNew(m, x), E)
BY PushNewIs

LEMMA PushErrorPlain ==
  ASSUME NEW m, NEW E, Sound(m, E)
  PROVE  PushedPlain(m, PushError(m), E)
BY ConstantsFine, PushNewPlain DEF PushError

LEMMA PushTypeErrorPlain ==
  ASSUME NEW m, NEW E, Sound(m, E), NEW id \in Plain(m.values)
  PROVE  PushedPlain(m, PushTypeError(m, id), E)
BY PushErrorPlain, PushPlain DEF PushTypeError

LEMMA AllocQuietly ==
  ASSUME NEW m, NEW E, Sound(m, E), NEW x, Fine(x, m.values, E, m.fs)
  PROVE  LET r == Alloc(m, x)
             id == NewId(m)
         IN /\ Quietly(m, r, E) /\ id \notin DOMAIN m.values /\ id \in DOMAIN r.values
            /\ r.values[id] = x /\ \A k \in DOMAIN m.values : r.values[k] = m.values[k]
BY AllocSound DEF Quietly

-----------------------------------------------------------------------------
(* The C functions. *)

\* What a C function that was given n arguments has pushed: a value, or a continuation
\* or RETURN value of its own.
Answers(m, r, n, E) ==
  /\ Pushed(m, r, E)
  /\ LET id == Slot(r, 1)
         x == r.values[id]
     IN id \in Plain(r.values) \/
        /\ id \notin DOMAIN m.values /\ id \in DOMAIN r.values /\ n >= 1
        /\ \/ x.type = "RETURN" /\ x.ret = knone
           \/ x.type = "CONTINUATION" /\ (n = 1 => x.callback = "loop" /\ x.args = knone)

LEMMA PlainAnswers ==
  ASSUME NEW m, NEW r, NEW n, NEW E, PushedPlain(m, r, E)
  PROVE  Answers(m, r, n, E)
BY DEF PushedPlain, Answers

LEMMA NewAnswers ==
  ASSUME NEW m, NEW E, Sound(m, E), NEW x, Fine(x, m.values, E, m.fs), NEW n, n >= 1,
         \/ x.type = "RETURN" /\ x.ret = knone
         \/ x.type = "CONTINUATION" /\ (n = 1 => x.callback = "loop" /\ x.args = knone)
  PROVE  Answers(m, PushNew(m, x), n, E)
<1>1. PICK r : r = PushNew(m, x)  OBVIOUS
<1>2. /\ Pushed(m, r, E) /\ Slot(r, 1) \notin DOMAIN m.values
      /\ Slot(r, 1) \in DOMAIN r.values /\ r.values[Slot(r, 1)] = x
  BY <1>1, PushNewIs
<1> QED  BY <1>1, <1>2 DEF Answers

LEMMA QuietlyAnswers ==
  ASSUME NEW m, NEW n, NEW r, NEW E, Quietly(m, n, E), NEW argc, Answers(n, r, argc, E)
  PROVE  Answers(m, r, argc, E)
<1>1. Pushed(m, r, E)  BY QuietlyPushed DEF Answers
<1>2. DOMAIN m.values \subseteq DOMAIN n.values  BY LaterSets DEF Quietly
<1> QED  BY <1>1, <1>2 DEF Answers

\* The arguments a function is given: values of the program.
LEMMA Arguments ==
  ASSUME NEW m, NEW argv \in Seq(Plain(m.values))
  PROVE  /\ Len(argv) \in Nat /\ DOMAIN argv = 1 .. Len(argv)
         /\ \A i \in 1 .. Len(argv) : argv[i] \in Plain(m.values)
BY LenProperties, ElementOfSeq

LEMMA FirstOtherIs ==
  ASSUME NEW m, NEW argv \in Seq(Plain(m.values)), NEW type,
         \E i \in DOMAIN argv : TypeOf(m, argv[i]) # type
  PROVE  FirstOther(m, argv, type) \in Plain(m.values)
<1> DEFINE A == {i \in DOMAIN argv : TypeOf(m, argv[i]) # type}
<1>1. Len(argv) \in Nat /\ DOMAIN argv = 1 .. Len(argv)
      /\ \A i \in 1 .. Len(argv) : argv[i] \in Plain(m.values)
  BY Arguments
<1>2. A \subseteq Nat /\ A # {}  BY <1>1
<1>3. PICK n \in A : \A k \in A : n <= k  BY <1>2, LeastOf
<1>4. \A j \in 1 .. n - 1 : TypeOf(m, argv[j]) = type
  <2>1. ASSUME NEW j \in 1 .. n - 1  PROVE TypeOf(m, argv[j]) = type
    <3>1. n \in 1 .. Len(argv) /\ j \in DOMAIN argv /\ j < n  BY <1>1, <1>3
    <3> QED  BY <1>3, <3>1
  <2> QED  BY <2>1
<1>5. \E i \in DOMAIN argv : /\ TypeOf(m, argv[i]) # type
                             /\ \A j \in 1 .. i - 1 : TypeOf(m, argv[j]) = type
  BY <1>3, <1>4
<1> QED  BY <1>1, <1>5 DEF FirstOther

LEMMA ArithmeticAnswers ==
  ASSUME NEW m, NEW E, Sound(m, E), NEW op, NEW argv \in Seq(Plain(m.values))
  PROVE  PushedPlain(m, Arithmetic(m, op, argv), E)
<1>1. \A x : PushedPlain(m, PushNew(m, Real(x)), E)  BY ConstantsFine, PushNewPlain
<1>2. ~Reals(m, argv) =>
        PushedPlain(m, PushTypeError(m, FirstOther(m, argv, "REAL")), E)
  BY FirstOtherIs, PushTypeErrorPlain DEF Reals
<1> QED  BY <1>1, <1>2 DEF Arithmetic

LEMMA BoolIs ==
  ASSUME NEW m, NEW E, Sound(m, E), NEW b
  PROVE  PushedPlain(m, Push(m, Bool(b)), E) /\ PushedPlain(m, Push(m, knone), E)
         /\ PushedPlain(m, Push(m, 0), E)
         /\ PushedPlain(m, Push(m, ktrue), E) /\ PushedPlain(m, Push(m, kfalse), E)
<1>1. 0 \in Plain(m.values) /\ 1 \in Plain(m.values) /\ 2 \in Plain(m.values)
      /\ 3 \in Plain(m.values)
  BY HeapIs DEF Sound
<1> QED  BY <1>1, PushPlain DEF Bool, knone, ktrue, kfalse

LEMMA LeastIndex ==
  ASSUME NEW m, NEW argv \in Seq(Plain(m.values)), NEW stops, stops \subseteq DOMAIN argv,
         stops # {}
  PROVE  argv[CHOOSE i \in stops : \A j \in stops : i <= j] \in Plain(m.values)
<1>1. Len(argv) \in Nat /\ DOMAIN argv = 1 .. Len(argv)
      /\ \A i \in 1 .. Len(argv) : argv[i] \in Plain(m.values)
  BY Arguments
<1>2. stops \subseteq Nat  BY <1>1
<1>3. \E i \in stops : \A j \in stops : i <= j  BY <1>2, LeastOf
<1>4. (CHOOSE i \in stops : \A j \in stops : i <= j) \in stops  BY <1>3
<1> QED  BY <1>1, <1>4

LEMMA CompareAnswers ==
  ASSUME NEW m, NEW E, Sound(m, E), NEW op, NEW argv \in Seq(Plain(m.values))
  PROVE  PushedPlain(m, Compare(m, op, argv), E)
<1> DEFINE bad(i) == TypeOf(m, argv[i]) # "REAL"
           out(i) == ~bad(i) /\ i > 1 /\ ~bad(i - 1) /\
                     ~Holds(op, m.values[argv[i - 1]].real, m.values[argv[i]].real)
           stops == {i \in DOMAIN argv : bad(i) \/ out(i)}
           first == CHOOSE i \in stops : \A j \in stops : i <= j
<1>1. Compare(m, op, argv) =
        CASE Len(argv) < 2 \/ stops = {} -> Push(m, ktrue)
          [] OTHER -> IF bad(first) THEN PushTypeError(m, argv[first])
                      ELSE Push(m, kfalse)
  BY DEF Compare
<1>2. stops \subseteq DOMAIN argv  OBVIOUS
<1> HIDE DEF stops
<1>3. stops # {} => PushedPlain(m, PushTypeError(m, argv[first]), E)
  BY <1>2, LeastIndex, PushTypeErrorPlain
<1> HIDE DEF first, bad
<1>4. PushedPlain(m, Push(m, ktrue), E) /\ PushedPlain(m, Push(m, kfalse), E)  BY BoolIs
<1> QED  BY <1>1, <1>3, <1>4

LEMMA LogicAnswers ==
  ASSUME NEW m, NEW E, Sound(m, E), NEW decides \in BOOLEAN, NEW argv \in Seq(Plain(m.values))
  PROVE  PushedPlain(m, Logic(m, decides, argv), E)
<1> DEFINE stops == {i \in DOMAIN argv : \/ TypeOf(m, argv[i]) = "ERROR"
                                         \/ IsTrue(m, argv[i]) = decides}
           first == CHOOSE i \in stops : \A j \in stops : i <= j
<1>1. Logic(m, decides, argv) =
        CASE stops = {} -> Push(m, IF ~decides THEN ktrue ELSE kfalse)
          [] stops # {} /\ TypeOf(m, argv[first]) = "ERROR" -> Push(m, argv[first])
          [] OTHER -> Push(m, IF decides THEN ktrue ELSE kfalse)
  BY DEF Logic, Bool
<1>2. stops \subseteq DOMAIN argv  OBVIOUS
<1> HIDE DEF stops
<1>3. stops # {} => PushedPlain(m, Push(m, argv[first]), E)
  BY <1>2, LeastIndex, PushPlain
<1> HIDE DEF first
<1>4. PushedPlain(m, Push(m, ktrue), E) /\ PushedPlain(m, Push(m, kfalse), E)  BY BoolIs
<1>5. CASE stops = {}  BY <1>1, <1>4, <1>5
<1>6. CASE stops # {}  BY <1>1, <1>3, <1>4, <1>6
<1> QED  BY <1>5, <1>6

LEMMA PrintAnswers ==
  ASSUME NEW m, NEW E, Sound(m, E), NEW out
  PROVE  PushedPlain(m, Push([m EXCEPT !.out = out], knone), E)
<1>1. PICK n : n = [m EXCEPT !.out = out]  OBVIOUS
<1>2. IsMachine(m)  BY DEF Sound
<1>3. IsMachine(n) /\ Beside(m, n) /\ n.values = m.values /\ n.stack = m.stack
      /\ n.halted = m.halted /\ n.check = m.check /\ n.fstack = m.fstack
      /\ n.modules = m.modules /\ n.fs = m.fs
  BY <1>1, <1>2 DEF IsMachine, Beside
<1>4. Sound(n, E)
  <2>1. m.halted \in BOOLEAN /\ m.check \in BOOLEAN  BY DEF Sound
  <2> QED  BY <1>3, <2>1, SoundAs
<1>5. Later(m.values, n.values, {})  BY <1>3, LaterSame
<1>6. Quietly(m, n, E)  BY <1>3, <1>4, <1>5 DEF Quietly
<1>7. PushedPlain(n, Push(n, knone), E)  BY <1>4, BoolIs
<1> QED  BY <1>1, <1>6, <1>7, QuietlyPushed

\* A continuation whose closure is what its callback expects.
IsContinuation(x) ==
  /\ x = [type |-> "CONTINUATION", call |-> x.call, callback |-> x.callback,
          args |-> x.args, held |-> x.held, marker |-> x.marker, index |-> x.index]
  /\ x.type = "CONTINUATION"

LEMMA ContinuationFine ==
  ASSUME NEW v, NEW E, NEW fs, NEW x, IsContinuation(x), x.call \in Plain(v),
         Closure(x, Plain(v), Slim(v))
  PROVE  Fine(x, v, E, fs)
BY DEF IsContinuation, Fine, Well, Types

LEMMA IfAnswers ==
  ASSUME NEW m, NEW E, Sound(m, E), NEW argv \in Seq(Plain(m.values))
  PROVE  Answers(m, If(m, argv), Len(argv), E)
<1>1. Len(argv) \in Nat /\ \A i \in 1 .. Len(argv) : argv[i] \in Plain(m.values)
  BY Arguments
<1>2. ASSUME NEW call \in Plain(m.values), Len(argv) \in {2, 3}
      PROVE  Answers(m, PushNew(m, Continuation(call, "NULL", knone, <<>>, FALSE)),
                     Len(argv), E)
  <2>x. PICK x : x = Continuation(call, "NULL", knone, <<>>, FALSE)  OBVIOUS
  <2>y. IsContinuation(x) /\ x.call = call /\ x.callback = "NULL" /\ x.args = knone
        /\ x.held = <<>> /\ x.marker = FALSE /\ x.index = 1
    BY <2>x DEF Continuation, IsContinuation
  <2>1. Closure(x, Plain(m.values), Slim(m.values))  BY <2>y DEF Closure
  <2>2. Fine(x, m.values, E, m.fs)
    BY <2>1, <2>y, ContinuationFine
  <2>3. Len(argv) >= 1 /\ Len(argv) # 1  BY <1>2
  <2> QED  BY <2>2, <2>3, <2>x, <2>y, NewAnswers DEF IsContinuation
<1>3. CASE Len(argv) \notin {2, 3}
  <2>1. If(m, argv) = PushError(m)  BY <1>3 DEF If
  <2> QED  BY <2>1, PushErrorPlain, PlainAnswers
<1>4. CASE Len(argv) \in {2, 3} /\ IsTrue(m, argv[1])
  <2>1. If(m, argv) = PushNew(m, Continuation(argv[2], "NULL", knone, <<>>, FALSE))
    BY <1>4 DEF If
  <2>2. argv[2] \in Plain(m.values)  BY <1>1, <1>4
  <2>3. Answers(m, PushNew(m, Continuation(argv[2], "NULL", knone, <<>>, FALSE)),
                Len(argv), E)
    BY <1>2, <1>4, <2>2
  <2> QED  BY <2>1, <2>3
<1>5. CASE Len(argv) = 3 /\ ~IsTrue(m, argv[1])
  <2>1. If(m, argv) = PushNew(m, Continuation(argv[3], "NULL", knone, <<>>, FALSE))
    BY <1>5 DEF If
  <2>2. argv[3] \in Plain(m.values)  BY <1>1, <1>5
  <2>3. Answers(m, PushNew(m, Continuation(argv[3], "NULL", knone, <<>>, FALSE)),
                Len(argv), E)
    BY <1>2, <1>5, <2>2
  <2> QED  BY <2>1, <2>3
<1>6. CASE Len(argv) = 2 /\ ~IsTrue(m, argv[1])
  <2>1. If(m, argv) = Push(m, 0)  BY <1>6 DEF If
  <2> QED  BY <2>1, BoolIs, PlainAnswers
<1> QED  BY <1>3, <1>4, <1>5, <1>6

LEMMA LoopAnswers ==
  ASSUME NEW m, NEW E, Sound(m, E), NEW argv \in Seq(Plain(m.values))
  PROVE  Answers(m, Loop(m, argv), Len(argv), E)
<1>1. Len(argv) \in Nat /\ \A i \in 1 .. Len(argv) : argv[i] \in Plain(m.values)
  BY Arguments
<1>2. CASE Len(argv) # 1
  <2>1. Loop(m, argv) = PushError(m)  BY <1>2 DEF Loop
  <2> QED  BY <2>1, PushErrorPlain, PlainAnswers
<1>3. CASE Len(argv) = 1
  <2>x. PICK x : x = Continuation(argv[1], "loop", knone, argv, TRUE)  OBVIOUS
  <2>y. IsContinuation(x) /\ x.call = argv[1] /\ x.callback = "loop" /\ x.args = knone
        /\ x.held = argv /\ x.marker = TRUE /\ x.index = 1
    BY <2>x DEF Continuation, IsContinuation
  <2>1. Loop(m, argv) = PushNew(m, x)  BY <1>3, <2>x DEF Loop
  <2>2. Closure(x, Plain(m.values), Slim(m.values))  BY <2>y DEF Closure
  <2>3. Fine(x, m.values, E, m.fs) 
    BY <1>1, <1>3, <2>2, <2>y, ContinuationFine
  <2>4. Len(argv) >= 1  BY <1>3
  <2> QED  BY <2>1, <2>3, <2>4, <2>y, NewAnswers DEF IsContinuation
<1> QED  BY <1>2, <1>3

LEMMA WhileAnswers ==
  ASSUME NEW m, NEW E, Sound(m, E), NEW argv \in Seq(Plain(m.values))
  PROVE  Answers(m, While(m, argv), Len(argv), E)
<1>1. Len(argv) \in Nat /\ \A i \in 1 .. Len(argv) : argv[i] \in Plain(m.values)
  BY Arguments
<1>2. CASE Len(argv) # 2
  <2>1. While(m, argv) = PushError(m)  BY <1>2 DEF While
  <2> QED  BY <2>1, PushErrorPlain, PlainAnswers
<1>3. CASE Len(argv) = 2
  <2>x. PICK x : x = Continuation(argv[1], "while", knone, argv, TRUE)  OBVIOUS
  <2>y. IsContinuation(x) /\ x.call = argv[1] /\ x.callback = "while" /\ x.args = knone
        /\ x.held = argv /\ x.marker = TRUE /\ x.index = 1
    BY <2>x DEF Continuation, IsContinuation
  <2>1. While(m, argv) = PushNew(m, x)  BY <1>3, <2>x DEF While
  <2>2. Closure(x, Plain(m.values), Slim(m.values))  BY <1>3, <2>y DEF Closure
  <2>3. Fine(x, m.values, E, m.fs)
    BY <1>1, <1>3, <2>2, <2>y, ContinuationFine
  <2>4. Len(argv) >= 1 /\ Len(argv) # 1  BY <1>3
  <2> QED  BY <2>1, <2>3, <2>4, <2>y, NewAnswers DEF IsContinuation
<1> QED  BY <1>2, <1>3

\* The arguments of for and match are in an array of at most one, made first.
LEMMA SlimAlloc ==
  ASSUME NEW m, NEW E, Sound(m, E), NEW data \in Seq(Plain(m.values)), Len(data) <= 1
  PROVE  LET n == Alloc(m, Array(data))
         IN /\ Quietly(m, n, E) /\ NewId(m) \in Slim(n.values)
            /\ Plain(m.values) \subseteq Plain(n.values) /\ n.fs = m.fs
<1>1. PICK x : x = Array(data)  OBVIOUS
<1>2. Fine(x, m.values, E, m.fs) /\ x.type = "ARRAY" /\ x.data = data
  BY <1>1, ArrayFine
<1>3. PICK n : n = Alloc(m, x)  OBVIOUS
<1>4. PICK id : id = NewId(m)  OBVIOUS
<1>5. Quietly(m, n, E) /\ id \in DOMAIN n.values /\ n.values[id] = x
  BY <1>2, <1>3, <1>4, AllocQuietly
<1>6. id \in Slim(n.values)  BY <1>2, <1>5 DEF Slim
<1>7. Plain(m.values) \subseteq Plain(n.values) /\ n.fs = m.fs
  BY <1>5, LaterSets DEF Quietly, Beside
<1> QED  BY <1>1, <1>3, <1>4, <1>5, <1>6, <1>7

LEMMA ForAnswers ==
  ASSUME NEW m, NEW E, Sound(m, E), NEW argv \in Seq(Plain(m.values))
  PROVE  Answers(m, For(m, argv), Len(argv), E)
<1>1. Len(argv) \in Nat /\ \A i \in 1 .. Len(argv) : argv[i] \in Plain(m.values)
  BY Arguments
<1>2. CASE Len(argv) # 2
  <2>1. For(m, argv) = PushError(m)  BY <1>2 DEF For
  <2> QED  BY <2>1, PushErrorPlain, PlainAnswers
<1>3. CASE Len(argv) = 2
  <2>1. PICK n : n = Alloc(m, Array(<<>>))  OBVIOUS
  <2>2. PICK id : id = NewId(m)  OBVIOUS
  <2>x. PICK x : x = Continuation(argv[1], "for", id, argv, TRUE)  OBVIOUS
  <2>y. IsContinuation(x) /\ x.call = argv[1] /\ x.callback = "for" /\ x.args = id
        /\ x.held = argv /\ x.marker = TRUE /\ x.index = 1
    BY <2>x DEF Continuation, IsContinuation
  <2>3. For(m, argv) = PushNew(n, x)  BY <1>3, <2>1, <2>2, <2>x DEF For
  <2>4. /\ Quietly(m, n, E) /\ id \in Slim(n.values)
        /\ Plain(m.values) \subseteq Plain(n.values) /\ n.fs = m.fs
    <3>1. <<>> \in Seq(Plain(m.values)) /\ Len(<<>>) <= 1  OBVIOUS
    <3> QED  BY <2>1, <2>2, <3>1, SlimAlloc
  <2>5. argv \in Seq(Plain(n.values))  BY <2>4, SeqMonotonic
  <2>6. Closure(x, Plain(n.values), Slim(n.values))
    BY <1>3, <2>4, <2>5, <2>y DEF Closure
  <2>7. Fine(x, n.values, E, n.fs)
    BY <1>1, <1>3, <2>4, <2>6, <2>y, ContinuationFine
  <2>8. Len(argv) >= 1 /\ Len(argv) # 1  BY <1>3
  <2>9. Sound(n, E)  BY <2>4 DEF Quietly
  <2>10. Answers(n, PushNew(n, x), Len(argv), E)  BY <2>7, <2>8, <2>9, <2>y, NewAnswers DEF IsContinuation
  <2> QED  BY <2>3, <2>4, <2>10, QuietlyAnswers
<1> QED  BY <1>2, <1>3

LEMMA GuardAnswers ==
  ASSUME NEW m, NEW E, Sound(m, E), NEW argv \in Seq(Plain(m.values))
  PROVE  Answers(m, Guard(m, argv), Len(argv), E)
<1>1. Len(argv) \in Nat /\ \A i \in 1 .. Len(argv) : argv[i] \in Plain(m.values)
  BY Arguments
<1>2. \A id \in Plain(m.values) : Answers(m, Push(m, id), Len(argv), E)
  BY PushPlain, PlainAnswers
<1>3. Answers(m, PushError(m), Len(argv), E) /\ Answers(m, Push(m, knone), Len(argv), E)
  BY PushErrorPlain, BoolIs, PlainAnswers
<1>4. Len(argv) = 1 => Answers(m, PushNew(m, Return(knone)), Len(argv), E)
  <2>1. PICK x : x = Return(knone)  OBVIOUS
  <2>2. x.type = "RETURN" /\ x.ret = knone  BY <2>1 DEF Return
  <2>3. Fine(x, m.values, E, m.fs)  BY <2>2 DEF Fine, Well, Types
  <2> QED  BY <2>1, <2>2, <2>3, NewAnswers
<1>5. Len(argv) = 2 =>
        Answers(m, PushNew(m, Continuation(argv[2], "guard", knone, <<>>, FALSE)),
                Len(argv), E)
  <2> SUFFICES ASSUME Len(argv) = 2
               PROVE  Answers(m, PushNew(m, Continuation(argv[2], "guard", knone, <<>>, FALSE)),
                              Len(argv), E)
    OBVIOUS
  <2>0. PICK a : a = argv[2]  OBVIOUS
  <2>1. a \in Plain(m.values)  BY <1>1, <2>0
  <2>2. PICK x : x = Continuation(a, "guard", knone, <<>>, FALSE)  OBVIOUS
  <2>y. IsContinuation(x) /\ x.call = a /\ x.callback = "guard" /\ x.args = knone
        /\ x.held = <<>>
    BY <2>2 DEF Continuation, IsContinuation
  <2>3. Closure(x, Plain(m.values), Slim(m.values))  BY <2>y DEF Closure
  <2>4. Fine(x, m.values, E, m.fs)
    BY <2>1, <2>2, <2>3, <2>y, ContinuationFine
  <2>5. Answers(m, PushNew(m, x), Len(argv), E)  BY <2>4, <2>y, NewAnswers DEF IsContinuation
  <2> QED  BY <2>0, <2>2, <2>5
<1>6. CASE Len(argv) \notin {1, 2}
  <2>1. Guard(m, argv) = PushError(m)  BY <1>6 DEF Guard
  <2> QED  BY <1>3, <2>1
<1>7. CASE Len(argv) \in {1, 2}
  <2>1. Guard(m, argv) \in {Push(m, argv[1]), Push(m, knone)}
        \/ (Len(argv) = 2 /\ Guard(m, argv) = Push(m, argv[2]))
        \/ (Len(argv) = 1 /\ Guard(m, argv) = PushNew(m, Return(knone)))
        \/ (Len(argv) = 2 /\
              Guard(m, argv) = PushNew(m, Continuation(argv[2], "guard", knone, <<>>, FALSE)))
    BY <1>7 DEF Guard
  <2>2. argv[1] \in Plain(m.values)  BY <1>1, <1>7
  <2>3. Len(argv) = 2 => argv[2] \in Plain(m.values)  BY <1>1
  <2>4. PICK r : r = Guard(m, argv)  OBVIOUS
  <2>5. Answers(m, Push(m, argv[1]), Len(argv), E)
        /\ (Len(argv) = 2 => Answers(m, Push(m, argv[2]), Len(argv), E))
    BY <1>2, <2>2, <2>3
  <2>6. CASE r \in {Push(m, argv[1]), Push(m, knone)}  BY <1>3, <2>4, <2>5, <2>6
  <2>7. CASE Len(argv) = 2 /\ r = Push(m, argv[2])  BY <2>4, <2>5, <2>7
  <2>8. CASE Len(argv) = 1 /\ r = PushNew(m, Return(knone))  BY <1>4, <2>4, <2>8
  <2>9. CASE Len(argv) = 2
             /\ r = PushNew(m, Continuation(argv[2], "guard", knone, <<>>, FALSE))
    BY <1>5, <2>4, <2>9
  <2> QED  BY <2>1, <2>4, <2>6, <2>7, <2>8, <2>9
<1> QED  BY <1>6, <1>7

LEMMA MatchAnswers ==
  ASSUME NEW m, NEW E, Sound(m, E), NEW argv \in Seq(Plain(m.values))
  PROVE  Answers(m, Match(m, argv), Len(argv), E)
<1>1. Len(argv) \in Nat /\ \A i \in 1 .. Len(argv) : argv[i] \in Plain(m.values)
  BY Arguments
<1>2. CASE Len(argv) < 3 \/ Len(argv) % 2 = 0
  <2>1. Match(m, argv) = PushError(m)  BY <1>2 DEF Match
  <2> QED  BY <2>1, PushErrorPlain, PlainAnswers
<1>3. CASE ~(Len(argv) < 3 \/ Len(argv) % 2 = 0)
  <2>1. PICK n : n = Alloc(m, Array(<<argv[1]>>))  OBVIOUS
  <2>2. PICK id : id = NewId(m)  OBVIOUS
  <2>x. PICK x : x = Continuation(argv[2], "match", id, Tail(argv), TRUE)  OBVIOUS
  <2>y. IsContinuation(x) /\ x.call = argv[2] /\ x.callback = "match" /\ x.args = id
        /\ x.held = Tail(argv) /\ x.marker = TRUE /\ x.index = 1
    BY <2>x DEF Continuation, IsContinuation
  <2>3. Match(m, argv) = PushNew(n, x)  BY <1>3, <2>1, <2>2, <2>x DEF Match
  <2>0. Len(argv) >= 3  BY <1>1, <1>3
  <2>4. /\ Quietly(m, n, E) /\ id \in Slim(n.values)
        /\ Plain(m.values) \subseteq Plain(n.values) /\ n.fs = m.fs
    <3>1. PICK a : a = argv[1]  OBVIOUS
    <3>2. a \in Plain(m.values)  BY <1>1, <2>0, <3>1
    <3>3. <<a>> \in Seq(Plain(m.values)) /\ Len(<<a>>) <= 1  BY <3>2
    <3> QED  BY <2>1, <2>2, <3>1, <3>3, SlimAlloc
  <2>5. argv \in Seq(Plain(n.values))  BY <2>4, SeqMonotonic
  <2>6. Tail(argv) \in Seq(Plain(n.values)) /\ Len(Tail(argv)) = Len(argv) - 1
    <3>1. argv # <<>>  BY <2>0
    <3> QED  BY <2>5, <3>1, HeadTailProperties
  <2>7. Closure(x, Plain(n.values), Slim(n.values))
    BY <1>1, <2>0, <2>4, <2>6, <2>y DEF Closure
  <2>8. Fine(x, n.values, E, n.fs)
    <3>1. argv[2] \in Plain(n.values)  BY <1>1, <2>0, <2>4
    <3> QED  BY <2>7, <3>1, <2>y, ContinuationFine
  <2>9. Len(argv) >= 1 /\ Len(argv) # 1  BY <1>1, <2>0
  <2>10. Sound(n, E)  BY <2>4 DEF Quietly
  <2>11. Answers(n, PushNew(n, x), Len(argv), E)  BY <2>8, <2>9, <2>10, <2>y, NewAnswers DEF IsContinuation
  <2> QED  BY <2>3, <2>4, <2>11, QuietlyAnswers
<1> QED  BY <1>2, <1>3

-----------------------------------------------------------------------------
(* Plain values that are written to. *)

LEMMA ChangeQuietly ==
  ASSUME NEW m, NEW E, Sound(m, E), NEW id \in Plain(m.values),
         NEW x, Fine(x, m.values, E, m.fs), Replaces(x, m.values[id])
  PROVE  LET r == Write(m, id, x)
         IN Quietly(m, r, E) /\ r.values[id] = x /\ DOMAIN r.values = DOMAIN m.values
<1>1. PICK r : r = Write(m, id, x)  OBVIOUS
<1>2. id \in DOMAIN m.values /\ m.values[id].type \notin Hidden  BY DEF Plain
<1>3. Written(m, r, id, x, E)  BY <1>1, <1>2, ChangeSound
<1> QED  BY <1>1, <1>3 DEF Written, Quietly

Fields == {"type", "parent", "map", "size", "gone"}

LEMMA TableShape ==
  ASSUME NEW x, x = Table(x.parent, x.map, x.size, x.gone)
  PROVE  DOMAIN x = Fields /\ x.type = "NAMESPACE"
BY DEF Table, Fields

LEMMA NamespaceSetQuietly ==
  ASSUME NEW m, NEW E, Sound(m, E), NEW ns \in Spaces(m.values), NEW key,
         NEW id \in Plain(m.values)
  PROVE  Quietly(m, NamespaceSet(m, ns, key, id), E)
<1>1. PICK old : old = m.values[ns]  OBVIOUS
<1>2. IsMachine(m) /\ Heap(m.values, m.fs, E)  BY DEF Sound
<1>3. ns \in DOMAIN m.values /\ old.type = "NAMESPACE" /\ ns \in Plain(m.values)
  BY <1>1 DEF Spaces, Plain, Hidden
<1>4. Fine(old, m.values, E, m.fs)  BY <1>1, <1>2, <1>3, HeapIs
<1>5. /\ old = Table(old.parent, old.map, old.size, old.gone)
      /\ old.map \in [DOMAIN old.map -> Plain(m.values)]
      /\ old.parent \in Spaces(m.values) \cup {0}
  BY <1>3, <1>4 DEF Fine, Well
<1>6. PICK map : map = IF id = 0 THEN [k \in DOMAIN old.map \ {key} |-> old.map[k]]
                       ELSE With(old.map, key, id)
  OBVIOUS
<1>7. map \in [DOMAIN map -> Plain(m.values)]
  <2>1. \A k \in DOMAIN old.map : old.map[k] \in Plain(m.values)  BY <1>5
  <2>2. CASE id = 0
    <3>1. map = [k \in DOMAIN old.map \ {key} |-> old.map[k]]  BY <1>6, <2>2
    <3> QED  BY <2>1, <3>1
  <2>3. CASE id # 0
    <3>1. map = [z \in DOMAIN old.map \cup {key} |-> IF z = key THEN id ELSE old.map[z]]
      BY <1>6, <2>3 DEF With
    <3> QED  BY <2>1, <3>1
  <2> QED  BY <2>2, <2>3
<1>8. PICK x : x = Stored(old, key, id)  OBVIOUS
<1>9. /\ x = Table(x.parent, x.map, x.size, x.gone)
      /\ x.type = "NAMESPACE" /\ x.parent = old.parent /\ x.map = map
  <2>1. PICK roomy : roomy = Roomy(old)  OBVIOUS
  <2>a. DOMAIN old = Fields  BY <1>5, TableShape
  <2>2. /\ roomy = Table(old.parent, old.map, roomy.size, roomy.gone)
        /\ roomy.parent = old.parent /\ roomy.map = old.map
    <3>1. CASE roomy = old  BY <1>5, <3>1
    <3>2. CASE roomy # old
      <4>1. PICK size : size = 2 * old.size  OBVIOUS
      <4>2. roomy = [old EXCEPT !.size = size, !.gone = {}]
        BY <2>1, <3>2, <4>1 DEF Roomy
      <4>3. roomy = Table(old.parent, old.map, size, {})
        BY <1>3, <2>a, <4>2 DEF Table, Fields
      <4> QED  BY <4>3, TableIs
    <3> QED  BY <3>1, <3>2
  <2>b. DOMAIN roomy = Fields /\ roomy.type = "NAMESPACE"  BY <2>2, TableIs, TableShape
  <2>3. CASE id = 0
    <3>1. PICK gone : gone = old.gone \cup ({key} \cap DOMAIN old.map)  OBVIOUS
    <3>2. x = [old EXCEPT !.map = map, !.gone = gone]
      BY <1>6, <1>8, <2>3, <3>1 DEF Stored
    <3>3. x = Table(old.parent, map, old.size, gone)  BY <1>3, <2>a, <3>2 DEF Table, Fields
    <3> QED  BY <3>3, TableIs
  <2>4. CASE id # 0
    <3>1. PICK gone : gone = roomy.gone \ {key}  OBVIOUS
    <3>2. x = [roomy EXCEPT !.map = map, !.gone = gone]
      BY <1>6, <1>8, <2>1, <2>2, <2>4, <3>1 DEF Stored
    <3>3. x = Table(roomy.parent, map, roomy.size, gone)  BY <2>2, <2>b, <3>2 DEF Table, Fields
    <3> QED  BY <2>2, <3>3, TableIs
  <2> QED  BY <2>3, <2>4
<1>10. Fine(x, m.values, E, m.fs)  BY <1>5, <1>7, <1>9 DEF Fine, Well, Types
<1>11. NamespaceSet(m, ns, key, id) = Write(m, ns, x)
  BY <1>1, <1>8 DEF NamespaceSet, Write
<1>12. Quietly(m, Write(m, ns, x), E)
  BY <1>1, <1>3, <1>9, <1>10, ChangeQuietly DEF Replaces, Hidden
<1> QED  BY <1>11, <1>12

LEMMA ElementSet ==
  ASSUME NEW m, NEW E, Sound(m, E), NEW arr \in DOMAIN m.values,
         m.values[arr].type = "ARRAY", NEW data \in Seq(Plain(m.values)),
         Len(data) <= 1 \/ Len(data) = Len(m.values[arr].data)
  PROVE  /\ m.values[arr] = Array(m.values[arr].data)
         /\ m.values[arr].data \in Seq(Plain(m.values))
         /\ Quietly(m, [m EXCEPT !.values[arr].data = data], E)
<1>1. PICK old : old = m.values[arr]  OBVIOUS
<1>2. IsMachine(m) /\ Heap(m.values, m.fs, E)  BY DEF Sound
<1>3. old.type = "ARRAY" /\ arr \in Plain(m.values)  BY <1>1 DEF Plain, Hidden
<1>4. Fine(old, m.values, E, m.fs)  BY <1>1, <1>2, HeapIs
<1>5. old = Array(old.data) /\ old.data \in Seq(Plain(m.values))
  BY <1>3, <1>4 DEF Fine, Well
<1>6. PICK x : x = [old EXCEPT !.data = data]  OBVIOUS
<1>7. x = Array(data) /\ x.type = "ARRAY" /\ x.data = data  BY <1>5, <1>6 DEF Array
<1>8. Fine(x, m.values, E, m.fs)  BY <1>7, ArrayFine
<1>9. [m EXCEPT !.values[arr].data = data] = Write(m, arr, x)
  BY <1>1, <1>6 DEF Write
<1>10. Len(old.data) <= 1 => Len(x.data) <= 1  BY <1>1, <1>7
<1>11. Quietly(m, Write(m, arr, x), E)
  BY <1>1, <1>3, <1>7, <1>8, <1>10, ChangeQuietly DEF Replaces, Hidden
<1> QED  BY <1>1, <1>5, <1>9, <1>11

-----------------------------------------------------------------------------
(* The fs module. *)

LEMMA FileIs ==
  ASSUME NEW m, NEW E, Sound(m, E), NEW self \in DOMAIN m.values,
         TypeOf(m, self) = "CVAL"
  PROVE  LET x == m.values[self]
         IN /\ x = [type |-> "CVAL", ns |-> x.ns, open |-> x.open, rest |-> x.rest]
            /\ x.ns = m.fs.nsfile /\ m.fs.ns # 0 /\ x.type = "CVAL"
            /\ self \in Plain(m.values)
<1>1. Fine(m.values[self], m.values, E, m.fs)  BY HeapIs DEF Sound
<1> QED  BY <1>1 DEF TypeOf, Fine, Well, Plain, Hidden

\* Records with one field written.
LEMMA FileWith ==
  ASSUME NEW old, old = [type |-> "CVAL", ns |-> old.ns, open |-> old.open, rest |-> old.rest],
         NEW y
  PROVE  /\ [old EXCEPT !.rest = y] =
              [type |-> "CVAL", ns |-> old.ns, open |-> old.open, rest |-> y]
         /\ [old EXCEPT !.open = y] =
              [type |-> "CVAL", ns |-> old.ns, open |-> y, rest |-> old.rest]
<1>1. PICK a, b, c : a = old.ns /\ b = old.open /\ c = old.rest  OBVIOUS
<1>2. old = [type |-> "CVAL", ns |-> a, open |-> b, rest |-> c]  BY <1>1
<1> QED  BY <1>1, <1>2

LEMMA FileSet ==
  ASSUME NEW m, NEW E, Sound(m, E), NEW self \in DOMAIN m.values,
         TypeOf(m, self) = "CVAL", NEW x,
         x = [type |-> "CVAL", ns |-> m.values[self].ns, open |-> x.open, rest |-> x.rest]
  PROVE  Quietly(m, Write(m, self, x), E)
<1>1. /\ m.values[self].ns = m.fs.nsfile /\ m.fs.ns # 0 /\ self \in Plain(m.values)
      /\ m.values[self].type = "CVAL"
  BY FileIs
<1>2. PICK ns : ns = m.values[self].ns  OBVIOUS
<1>3. x = [type |-> "CVAL", ns |-> ns, open |-> x.open, rest |-> x.rest]  BY <1>2
<1>4. x.type = "CVAL" /\ x.ns = ns  BY <1>3
<1>5. Fine(x, m.values, E, m.fs)  BY <1>1, <1>2, <1>3, <1>4 DEF Fine, Well, Types
<1> QED  BY <1>1, <1>4, <1>5, ChangeQuietly DEF Replaces, Hidden

LEMMA OpenAnswers ==
  ASSUME NEW m, NEW E, Sound(m, E), m.fs.ns # 0, NEW argv \in Seq(Plain(m.values))
  PROVE  PushedPlain(m, Open(m, argv), E)
<1>1. Len(argv) \in {1, 2} => argv[1] \in Plain(m.values)  BY Arguments
<1>2. PushedPlain(m, PushError(m), E)  BY PushErrorPlain
<1>3. Len(argv) \in {1, 2} => PushedPlain(m, PushTypeError(m, argv[1]), E)
  BY <1>1, PushTypeErrorPlain
<1>4. \A rest : PushedPlain(m, PushNew(m, File(m.fs.nsfile, rest)), E)
  <2>1. ASSUME NEW rest  PROVE PushedPlain(m, PushNew(m, File(m.fs.nsfile, rest)), E)
    <3>1. PICK x : x = File(m.fs.nsfile, rest)  OBVIOUS
    <3>2. PICK ns : ns = m.fs.nsfile  OBVIOUS
    <3>3. x = [type |-> "CVAL", ns |-> ns, open |-> TRUE, rest |-> rest]
      BY <3>1, <3>2 DEF File
    <3>4. x = [type |-> "CVAL", ns |-> x.ns, open |-> x.open, rest |-> x.rest]
          /\ x.type = "CVAL" /\ x.ns = ns
      BY <3>3
    <3>5. Fine(x, m.values, E, m.fs)  BY <3>2, <3>4 DEF Fine, Well, Types
    <3>6. x.type \notin Hidden  BY <3>4 DEF Hidden
    <3> QED  BY <3>1, <3>5, <3>6, PushNewPlain
  <2> QED  BY <2>1
<1> QED  BY <1>2, <1>3, <1>4 DEF Open

LEMMA RefusedAnswers ==
  ASSUME NEW m, NEW E, Sound(m, E), NEW self \in Plain(m.values), NEW argv
  PROVE  PushedPlain(m, Refused(m, self, argv), E)
BY PushErrorPlain, PushTypeErrorPlain DEF Refused

LEMMA CloseAnswers ==
  ASSUME NEW m, NEW E, Sound(m, E), NEW self \in Plain(m.values), NEW argv
  PROVE  PushedPlain(m, Close(m, self, argv), E)
<1>1. CASE Usable(m, self, argv)
  <2>1. TypeOf(m, self) = "CVAL" /\ self \in DOMAIN m.values  BY <1>1 DEF Usable, Plain
  <2>2. PICK old : old = m.values[self]  OBVIOUS
  <2>3. PICK x : x = [old EXCEPT !.open = FALSE]  OBVIOUS
  <2>4. old = [type |-> "CVAL", ns |-> old.ns, open |-> old.open, rest |-> old.rest]
    BY <2>1, <2>2, FileIs
  <2>5. x = [type |-> "CVAL", ns |-> old.ns, open |-> x.open, rest |-> x.rest]
    <3>1. x = [type |-> "CVAL", ns |-> old.ns, open |-> FALSE, rest |-> old.rest]
      BY <2>3, <2>4, FileWith
    <3> QED  BY <3>1
  <2>6. PICK n : n = Write(m, self, x)  OBVIOUS
  <2>7. Quietly(m, n, E)  BY <2>1, <2>2, <2>5, <2>6, FileSet
  <2>8. [m EXCEPT !.values[self].open = FALSE] = n  BY <2>2, <2>3, <2>6 DEF Write
  <2>9. PushedPlain(n, Push(n, knone), E)  BY <2>7, BoolIs DEF Quietly
  <2>10. Close(m, self, argv) = Push(n, knone)  BY <1>1, <2>8 DEF Close
  <2> QED  BY <2>7, <2>9, <2>10, QuietlyPushed
<1>2. CASE ~Usable(m, self, argv)
  <2>1. Close(m, self, argv) = Refused(m, self, argv)  BY <1>2 DEF Close
  <2> QED  BY <2>1, RefusedAnswers
<1> QED  BY <1>1, <1>2

LEMMA ReadAllAnswers ==
  ASSUME NEW m, NEW E, Sound(m, E), NEW self \in Plain(m.values), NEW argv
  PROVE  PushedPlain(m, ReadAll(m, self, argv), E)
<1>1. CASE Usable(m, self, argv)
  <2>1. TypeOf(m, self) = "CVAL" /\ self \in DOMAIN m.values  BY <1>1 DEF Usable, Plain
  <2>2. PICK old : old = m.values[self]  OBVIOUS
  <2>3. PICK x : x = [old EXCEPT !.rest = ""]  OBVIOUS
  <2>4. old = [type |-> "CVAL", ns |-> old.ns, open |-> old.open, rest |-> old.rest]
    BY <2>1, <2>2, FileIs
  <2>5. x = [type |-> "CVAL", ns |-> old.ns, open |-> x.open, rest |-> x.rest]
    <3>1. x = [type |-> "CVAL", ns |-> old.ns, open |-> old.open, rest |-> ""]
      BY <2>3, <2>4, FileWith
    <3> QED  BY <3>1
  <2>6. PICK n : n = Write(m, self, x)  OBVIOUS
  <2>7. Quietly(m, n, E)  BY <2>1, <2>2, <2>5, <2>6, FileSet
  <2>8. [m EXCEPT !.values[self].rest = ""] = n  BY <2>2, <2>3, <2>6 DEF Write
  <2>9. PICK y : y = Buffer(m.values[self].rest)  OBVIOUS
  <2>10. PushedPlain(n, PushNew(n, y), E)
    BY <2>7, <2>9, ConstantsFine, PushNewPlain DEF Quietly
  <2>11. ReadAll(m, self, argv) = PushNew(n, y)  BY <1>1, <2>8, <2>9 DEF ReadAll
  <2> QED  BY <2>7, <2>10, <2>11, QuietlyPushed
<1>2. CASE ~Usable(m, self, argv)
  <2>1. ReadAll(m, self, argv) = Refused(m, self, argv)  BY <1>2 DEF ReadAll
  <2> QED  BY <2>1, RefusedAnswers
<1> QED  BY <1>1, <1>2

LEMMA LengthAnswers ==
  ASSUME NEW m, NEW E, Sound(m, E), NEW argv \in Seq(Plain(m.values))
  PROVE  PushedPlain(m, Length(m, argv), E)
<1>1. \A x : PushedPlain(m, PushNew(m, Real(x)), E)  BY ConstantsFine, PushNewPlain
<1>2. PushedPlain(m, PushError(m), E)  BY PushErrorPlain
<1> QED  BY <1>1, <1>2 DEF Length

LEMMA BuiltinAnswers ==
  ASSUME NEW m, NEW E, Sound(m, E), NEW argv \in Seq(Plain(m.values)),
         NEW name \in BuiltinFunctions
  PROVE  Answers(m, CallBuiltin(m, name, argv), Len(argv), E)
<1> DEFINE r == CallBuiltin(m, name, argv)
<1>1. CASE name \in {"+", "-", "*", "/"}
  <2>1. r = Arithmetic(m, name, argv)  BY <1>1 DEF CallBuiltin
  <2> QED  BY <2>1, ArithmeticAnswers, PlainAnswers
<1>2. CASE name \in {"==", "!="}
  <2>1. r = Eq(m, argv) \/ r = Neq(m, argv)  BY <1>2 DEF CallBuiltin
  <2>2. PushedPlain(m, Eq(m, argv), E) /\ PushedPlain(m, Neq(m, argv), E)
    BY BoolIs DEF Eq, Neq, Bool
  <2> QED  BY <2>1, <2>2, PlainAnswers
<1>3. CASE name \in {"<", "<=", ">", ">="}
  <2>1. r = Compare(m, name, argv)  BY <1>3 DEF CallBuiltin
  <2> QED  BY <2>1, CompareAnswers, PlainAnswers
<1>4. CASE name \in {"&&", "||"}
  <2>1. r = Logic(m, FALSE, argv) \/ r = Logic(m, TRUE, argv)  BY <1>4 DEF CallBuiltin
  <2>2. PushedPlain(m, Logic(m, FALSE, argv), E) /\ PushedPlain(m, Logic(m, TRUE, argv), E)
    BY LogicAnswers
  <2> QED  BY <2>1, <2>2, PlainAnswers
<1>5. CASE name = "??"
  <2>1. r = First(m, argv)  BY <1>5 DEF CallBuiltin
  <2>2. PushedPlain(m, First(m, argv), E)
    BY BoolIs, FirstOtherIs, PushPlain DEF First
  <2> QED  BY <2>1, <2>2, PlainAnswers
<1>6. CASE name \in {"print", "write"}
  <2>1. r = PrintOut(m, argv) \/ r = WriteOut(m, argv)  BY <1>6 DEF CallBuiltin
  <2>2. PushedPlain(m, PrintOut(m, argv), E) /\ PushedPlain(m, WriteOut(m, argv), E)
    BY PrintAnswers DEF PrintOut, WriteOut
  <2> QED  BY <2>1, <2>2, PlainAnswers
<1>7. CASE name = "len"
  <2>1. r = Length(m, argv)  BY <1>7 DEF CallBuiltin
  <2> QED  BY <2>1, LengthAnswers, PlainAnswers
<1>8. CASE name \in {"if", "loop", "while"}
  <2>1. (name = "if" /\ r = If(m, argv)) \/ (name = "loop" /\ r = Loop(m, argv))
        \/ (name = "while" /\ r = While(m, argv))
    BY <1>8 DEF CallBuiltin
  <2> QED  BY <2>1, IfAnswers, LoopAnswers, WhileAnswers
<1>9. CASE name \in {"for", "guard", "match"}
  <2>1. (name = "for" /\ r = For(m, argv)) \/ (name = "guard" /\ r = Guard(m, argv))
        \/ (name = "match" /\ r = Match(m, argv))
    BY <1>9 DEF CallBuiltin
  <2> QED  BY <2>1, ForAnswers, GuardAnswers, MatchAnswers
<1> QED  BY <1>1, <1>2, <1>3, <1>4, <1>5, <1>6, <1>7, <1>8, <1>9 DEF BuiltinFunctions

LEMMA CFunctionAnswers ==
  ASSUME NEW m, NEW E, Sound(m, E), NEW argv \in Seq(Plain(m.values)),
         NEW x, Fine(x, m.values, E, m.fs), x.type = "CFUNCTION"
  PROVE  Answers(m, CallCFunction(m, x, argv), Len(argv), E)
<1>1. /\ x.self \in Plain(m.values)
      /\ x.func \in BuiltinFunctions \/ (x.func \in FileFunctions /\ m.fs.ns # 0)
  BY DEF Fine, Well
<1>2. CASE x.func \in BuiltinFunctions
  <2>1. CallCFunction(m, x, argv) = CallBuiltin(m, x.func, argv)
    BY <1>2 DEF CallCFunction, BuiltinFunctions
  <2> QED  BY <1>2, <2>1, BuiltinAnswers
<1>3. CASE x.func \in FileFunctions /\ m.fs.ns # 0
  <2>1. CallCFunction(m, x, argv) \in
          {Open(m, argv), Close(m, x.self, argv), ReadAll(m, x.self, argv)}
    BY <1>3 DEF CallCFunction, FileFunctions
  <2>2. PushedPlain(m, CallCFunction(m, x, argv), E)
    BY <1>1, <1>3, <2>1, OpenAnswers, CloseAnswers, ReadAllAnswers
  <2> QED  BY <2>2, PlainAnswers
<1> QED  BY <1>1, <1>2, <1>3

\* create writes the module's two namespaces first and then allocates, or the other
\* way round: nothing it does in between looks at them.
WithFs(m, fs) == [m EXCEPT !.fs = fs]

LEMMA WithFsLater ==
  ASSUME NEW m, IsMachine(m), NEW fs, NEW x, NEW ns, NEW key, NEW id
  PROVE  /\ NewId(WithFs(m, fs)) = NewId(m)
         /\ Alloc(WithFs(m, fs), x) = WithFs(Alloc(m, x), fs) /\ IsMachine(Alloc(m, x))
         /\ NamespaceSet(WithFs(m, fs), ns, key, id) = WithFs(NamespaceSet(m, ns, key, id), fs)
         /\ IsMachine(NamespaceSet(m, ns, key, id))
<1>1. PICK n : n = WithFs(m, fs)  OBVIOUS
<1>2. n = [m EXCEPT !.fs = fs]  BY <1>1 DEF WithFs
<1>3. IsMachine(n) /\ n.values = m.values  BY <1>2 DEF IsMachine
<1>4. NewId(n) = NewId(m)  BY <1>3 DEF NewId
<1>5. \A W : [n EXCEPT !.values = W] = [[m EXCEPT !.values = W] EXCEPT !.fs = fs]
             /\ IsMachine([m EXCEPT !.values = W])
  BY <1>2 DEF IsMachine
<1>6. Alloc(n, x) = WithFs(Alloc(m, x), fs) /\ IsMachine(Alloc(m, x))
  <2>1. PICK W : W = With(m.values, NewId(m), x)  OBVIOUS
  <2>2. Alloc(n, x) = [n EXCEPT !.values = W]  BY <1>3, <1>4, <2>1 DEF Alloc
  <2>3. Alloc(m, x) = [m EXCEPT !.values = W]  BY <2>1 DEF Alloc
  <2> QED  BY <1>5, <2>2, <2>3 DEF WithFs
<1>7. NamespaceSet(n, ns, key, id) = WithFs(NamespaceSet(m, ns, key, id), fs)
      /\ IsMachine(NamespaceSet(m, ns, key, id))
  <2>1. PICK W : W = [m.values EXCEPT ![ns] = Stored(@, key, id)]  OBVIOUS
  <2>2. NamespaceSet(n, ns, key, id) = [n EXCEPT !.values = W]
    BY <1>3, <2>1 DEF NamespaceSet
  <2>3. NamespaceSet(m, ns, key, id) = [m EXCEPT !.values = W]  BY <2>1 DEF NamespaceSet
  <2> QED  BY <1>5, <2>2, <2>3 DEF WithFs
<1> QED  BY <1>1, <1>4, <1>6, <1>7

LEMMA WithFsAlloc ==
  ASSUME NEW m, IsMachine(m), NEW fs, NEW x, NEW r, r = Alloc(m, x), NEW n, n = WithFs(m, fs)
  PROVE  NewId(n) = NewId(m) /\ Alloc(n, x) = WithFs(r, fs) /\ IsMachine(r)
BY WithFsLater

LEMMA WithFsSet ==
  ASSUME NEW m, IsMachine(m), NEW fs, NEW ns, NEW key, NEW id,
         NEW r, r = NamespaceSet(m, ns, key, id), NEW n, n = WithFs(m, fs)
  PROVE  NamespaceSet(n, ns, key, id) = WithFs(r, fs) /\ IsMachine(r)
BY WithFsLater

\* What create leaves.
Created(m, r, E) ==
  /\ Sound(r, E) /\ Later(m.values, r.values, {})
  /\ r.halted = m.halted /\ r.kundeclared = m.kundeclared /\ r.check = m.check
  /\ r.iptr = m.iptr /\ r.stack = m.stack /\ r.fstack = m.fstack /\ r.modules = m.modules
  /\ r.fs.ns \in Spaces(r.values)

LEMMA WithFsSound ==
  ASSUME NEW m, NEW E, Sound(m, E), m.fs.ns = 0, NEW ns \in Spaces(m.values),
         NEW nsfile \in Spaces(m.values)
  PROVE  Created(m, WithFs(m, [ns |-> ns, nsfile |-> nsfile]), E)
<1>1. PICK fs : fs = [ns |-> ns, nsfile |-> nsfile]  OBVIOUS
<1>2. PICK r : r = WithFs(m, fs)  OBVIOUS
<1>3. IsMachine(m) /\ Heap(m.values, m.fs, E)  BY DEF Sound
<1>4. /\ IsMachine(r) /\ r.values = m.values /\ r.fs = fs
      /\ r.halted = m.halted /\ r.kundeclared = m.kundeclared /\ r.check = m.check
      /\ r.iptr = m.iptr /\ r.stack = m.stack /\ r.fstack = m.fstack /\ r.modules = m.modules
  BY <1>2, <1>3 DEF IsMachine, WithFs
<1>5. Later(m.values, m.values, {})  BY LaterSame
<1>6. fs = [ns |-> fs.ns, nsfile |-> fs.nsfile] /\ fs.ns = ns /\ fs.nsfile = nsfile
  BY <1>1
<1>7. /\ m.values = [id \in DOMAIN m.values |-> m.values[id]]
      /\ DOMAIN m.values \subseteq Nat /\ IsFiniteSet(DOMAIN m.values)
      /\ Acyclic(m.values)
  BY <1>3, HeapIs
<1>8. Heap(m.values, fs, E)
  BY <1>3, <1>5, <1>6, <1>7, HeapStep
<1>9. Sound(r, E)  BY <1>4, <1>8 DEF Sound
<1> QED  BY <1>1, <1>2, <1>4, <1>5, <1>6, <1>9 DEF Created

LEMMA CreatedQuietly ==
  ASSUME NEW m, NEW E, NEW n, NEW r, Created(m, n, E), Quietly(n, r, E)
  PROVE  Created(m, r, E)
<1>1. Later(m.values, r.values, {})  BY LaterTwice DEF Created, Quietly
<1>2. Spaces(n.values) \subseteq Spaces(r.values)  BY LaterSets DEF Quietly
<1> QED  BY <1>1, <1>2 DEF Created, Quietly, Beside

LEMMA QuietlyCreated ==
  ASSUME NEW m, NEW E, NEW n, NEW r, Quietly(m, n, E), Created(n, r, E)
  PROVE  Created(m, r, E)
<1>1. Later(m.values, r.values, {})  BY LaterTwice DEF Created, Quietly
<1> QED  BY <1>1 DEF Created, Quietly, Beside

LEMMA AllocIs ==
  ASSUME NEW m, NEW E, Sound(m, E), NEW x, Fine(x, m.values, E, m.fs),
         x.type \notin Hidden, NEW r, r = Alloc(m, x)
  PROVE  /\ Quietly(m, r, E) /\ NewId(m) \in Plain(r.values)
         /\ x.type = "NAMESPACE" => NewId(m) \in Spaces(r.values)
<1>1. Quietly(m, r, E) /\ NewId(m) \in DOMAIN r.values /\ r.values[NewId(m)] = x
  BY AllocQuietly
<1> QED  BY <1>1 DEF Plain, Spaces

LEMMA CreateSound ==
  ASSUME NEW m, NEW E, Sound(m, E), m.fs.ns = 0
  PROVE  Created(m, Create(m), E)
<1>1. PICK ns : ns = NewId(m)  OBVIOUS
<1>2. PICK m1 : m1 = Alloc(m, Namespace(0))  OBVIOUS
<1>3. PICK nsfile : nsfile = NewId(m1)  OBVIOUS
<1>4. PICK m2 : m2 = Alloc(m1, Namespace(0))  OBVIOUS
<1>a. PICK close : close = NewId(m2)  OBVIOUS
<1>b. PICK c1 : c1 = CFunction("fs.close", 0)  OBVIOUS
<1>5. PICK m3 : m3 = Alloc(m2, c1)  OBVIOUS
<1>c. PICK read : read = NewId(m3)  OBVIOUS
<1>d. PICK c2 : c2 = CFunction("fs.read", 0)  OBVIOUS
<1>6. PICK m4 : m4 = Alloc(m3, c2)  OBVIOUS
<1>7. PICK m5 : m5 = NamespaceSet(m4, nsfile, "close", close)  OBVIOUS
<1>8. PICK m6 : m6 = NamespaceSet(m5, nsfile, "read", read)  OBVIOUS
<1>e. PICK open : open = NewId(m6)  OBVIOUS
<1>f. PICK c3 : c3 = CFunction("fs.open", 0)  OBVIOUS
<1>9. PICK m7 : m7 = Alloc(m6, c3)  OBVIOUS
<1>10. PICK m8 : m8 = NamespaceSet(m7, ns, "open", open)  OBVIOUS
<1>11. PICK fs : fs = [ns |-> ns, nsfile |-> nsfile]  OBVIOUS
<1>12. Create(m) = WithFs(m8, fs)
  BY <1>1, <1>2, <1>3, <1>4, <1>5, <1>6, <1>7, <1>8, <1>9, <1>10, <1>11,
     <1>a, <1>b, <1>c, <1>d, <1>e, <1>f DEF Create, WithFs
<1>13. /\ Quietly(m, m1, E) /\ ns \in Spaces(m1.values)
  <2>1. /\ Fine(Namespace(0), m.values, E, m.fs) /\ Namespace(0).type = "NAMESPACE"
    BY NamespaceFine
  <2>2. Namespace(0).type \notin Hidden  BY <2>1 DEF Hidden
  <2> QED  BY <1>1, <1>2, <2>1, <2>2, AllocIs
<1>14. /\ Quietly(m1, m2, E) /\ nsfile \in Spaces(m2.values) /\ ns \in Spaces(m2.values)
  <2>1. /\ Fine(Namespace(0), m1.values, E, m1.fs) /\ Namespace(0).type = "NAMESPACE"
    BY NamespaceFine
  <2>2. Namespace(0).type \notin Hidden  BY <2>1 DEF Hidden
  <2>3. Quietly(m1, m2, E) /\ nsfile \in Spaces(m2.values)
    BY <1>3, <1>4, <1>13, <2>1, <2>2, AllocIs DEF Quietly
  <2> QED  BY <1>13, <2>3, LaterSets DEF Quietly
<1>15. Quietly(m, m2, E) /\ Sound(m2, E) /\ m2.fs.ns = 0
  BY <1>13, <1>14, QuietlyPushed DEF Quietly, Beside
<1>16. PICK n2 : n2 = WithFs(m2, fs)  OBVIOUS
<1>17. Created(m2, n2, E) /\ n2.fs = fs /\ n2.values = m2.values
  <2>1. Created(m2, n2, E)  BY <1>11, <1>14, <1>15, <1>16, WithFsSound
  <2> QED  BY <1>15, <1>16, <2>1 DEF WithFs, Sound, IsMachine
<1>18. Created(m, n2, E)  BY <1>15, <1>17, QuietlyCreated
<1>19. \A func \in FileFunctions : \A n : Sound(n, E) /\ n.fs.ns # 0 =>
         /\ Fine(CFunction(func, 0), n.values, E, n.fs)
         /\ CFunction(func, 0).type \notin Hidden
  <2>1. ASSUME NEW func \in FileFunctions, NEW n, Sound(n, E), n.fs.ns # 0
        PROVE  /\ Fine(CFunction(func, 0), n.values, E, n.fs)
               /\ CFunction(func, 0).type \notin Hidden
    <3>1. PICK x : x = CFunction(func, 0)  OBVIOUS
    <3>2. x.type = "CFUNCTION" /\ x.func = func /\ x.self = 0  BY <3>1 DEF CFunction
    <3>3. 0 \in Plain(n.values)  BY <2>1, HeapIs DEF Sound
    <3>4. Fine(x, n.values, E, n.fs)  BY <2>1, <3>1, <3>2, <3>3 DEF Fine, Well, Types
    <3> QED  BY <3>1, <3>2, <3>4 DEF Hidden
  <2> QED  BY <2>1
<1>20. ns # 0
  <2>1. 0 \in DOMAIN m.values  BY HeapIs DEF Sound
  <2>2. DOMAIN m.values \subseteq Nat /\ IsFiniteSet(DOMAIN m.values)  BY HeapIs DEF Sound
  <2>3. ns \notin DOMAIN m.values  BY <1>1, <2>2, NewIdIs
  <2> QED  BY <2>1, <2>3
<1> DEFINE Ready(n) == /\ Created(m, n, E) /\ Sound(n, E) /\ n.fs.ns # 0
                       /\ ns \in Spaces(n.values) /\ nsfile \in Spaces(n.values)
<1>21. ASSUME NEW n, NEW r, Ready(n), Quietly(n, r, E)  PROVE Ready(r)
  <2>1. Created(m, r, E)  BY <1>21, CreatedQuietly
  <2>2. Spaces(n.values) \subseteq Spaces(r.values)  BY <1>21, LaterSets DEF Quietly
  <2> QED  BY <1>21, <2>1, <2>2 DEF Quietly, Beside
<1>22. Ready(n2)  BY <1>11, <1>14, <1>17, <1>18, <1>20 DEF Created
<1>23. IsMachine(m2)  BY <1>15 DEF Sound
<1>m3. IsMachine(m3)  BY <1>5, <1>23, WithFsLater
<1>m4. IsMachine(m4)  BY <1>6, <1>m3, WithFsLater
<1>m5. IsMachine(m5)  BY <1>7, <1>m4, WithFsLater
<1>m6. IsMachine(m6)  BY <1>8, <1>m5, WithFsLater
<1>m7. IsMachine(m7)  BY <1>9, <1>m6, WithFsLater
<1>24. PICK n3 : n3 = WithFs(m3, fs)  OBVIOUS
<1>25. n3 = Alloc(n2, c1) /\ NewId(n2) = close
  BY <1>5, <1>16, <1>23, <1>24, <1>a, WithFsAlloc
<1> HIDE DEF Ready
<1>26. Ready(n3) /\ close \in Plain(n3.values)
  <2>1. Quietly(n2, n3, E) /\ NewId(n2) \in Plain(n3.values)
    BY <1>19, <1>22, <1>25, <1>b, AllocIs DEF Ready, FileFunctions
  <2> QED  BY <1>21, <1>22, <1>25, <2>1
<1>27. PICK n4 : n4 = WithFs(m4, fs)  OBVIOUS
<1>28. n4 = Alloc(n3, c2) /\ NewId(n3) = read
  BY <1>6, <1>24, <1>m3, <1>27, <1>c, WithFsAlloc
<1>29. Ready(n4) /\ close \in Plain(n4.values) /\ read \in Plain(n4.values)
  <2>1. Quietly(n3, n4, E) /\ NewId(n3) \in Plain(n4.values)
    BY <1>19, <1>26, <1>28, <1>d, AllocIs DEF Ready, FileFunctions
  <2>2. Plain(n3.values) \subseteq Plain(n4.values)  BY <2>1, LaterSets DEF Quietly
  <2> QED  BY <1>21, <1>26, <1>28, <2>1, <2>2
<1>30. PICK n5 : n5 = WithFs(m5, fs)  OBVIOUS
<1>31. n5 = NamespaceSet(n4, nsfile, "close", close)
  BY <1>7, <1>27, <1>m4, <1>30, WithFsSet
<1>32. Ready(n5) /\ read \in Plain(n5.values)
  <2>1. Quietly(n4, n5, E)  BY <1>29, <1>31, NamespaceSetQuietly DEF Ready
  <2>2. Plain(n4.values) \subseteq Plain(n5.values)  BY <2>1, LaterSets DEF Quietly
  <2> QED  BY <1>21, <1>29, <2>1, <2>2
<1>33. PICK n6 : n6 = WithFs(m6, fs)  OBVIOUS
<1>34. n6 = NamespaceSet(n5, nsfile, "read", read)
  BY <1>8, <1>30, <1>m5, <1>33, WithFsSet
<1>35. Ready(n6)
  <2>1. Quietly(n5, n6, E)  BY <1>32, <1>34, NamespaceSetQuietly DEF Ready
  <2> QED  BY <1>21, <1>32, <2>1
<1>36. PICK n7 : n7 = WithFs(m7, fs)  OBVIOUS
<1>37. n7 = Alloc(n6, c3) /\ NewId(n6) = open
  BY <1>9, <1>33, <1>m6, <1>36, <1>e, WithFsAlloc
<1>38. Ready(n7) /\ open \in Plain(n7.values)
  <2>1. Quietly(n6, n7, E) /\ NewId(n6) \in Plain(n7.values)
    BY <1>19, <1>35, <1>37, <1>f, AllocIs DEF Ready, FileFunctions
  <2> QED  BY <1>21, <1>35, <1>37, <2>1
<1>39. PICK n8 : n8 = WithFs(m8, fs)  OBVIOUS
<1>40. n8 = NamespaceSet(n7, ns, "open", open)
  BY <1>10, <1>36, <1>m7, <1>39, WithFsSet
<1>41. Ready(n8)
  <2>1. Quietly(n7, n8, E)  BY <1>38, <1>40, NamespaceSetQuietly DEF Ready
  <2> QED  BY <1>21, <1>38, <2>1
<1> QED  BY <1>12, <1>39, <1>41 DEF Ready

-----------------------------------------------------------------------------
(* The collector. *)

LEMMA ChildrenPlain ==
  ASSUME NEW v, NEW fs, NEW E, Heap(v, fs, E), NEW id \in DOMAIN v
  PROVE  Children(v[id]) \subseteq Plain(v)
<1>1. PICK x : x = v[id]  OBVIOUS
<1>2. Fine(x, v, E, fs) /\ knone \in Plain(v) /\ 0 \in Plain(v)
  BY <1>1, HeapIs DEF knone
<1>3. Spaces(v) \subseteq Plain(v) /\ Slim(v) \subseteq Plain(v)
  BY DEF Spaces, Slim, Plain, Hidden
<1>4. x.type \in Types  BY <1>2 DEF Fine, Well
<1>5. CASE x.type = "ARRAY"
  <2>1. x.data \in Seq(Plain(v))  BY <1>2, <1>5 DEF Fine, Well
  <2>2. Children(x) = {x.data[i] : i \in DOMAIN x.data}  BY <1>5 DEF Children
  <2> QED  BY <1>1, <2>1, <2>2, LenProperties, ElementOfSeq
<1>6. CASE x.type = "NAMESPACE"
  <2>1. x.map \in [DOMAIN x.map -> Plain(v)] /\ x.parent \in Spaces(v) \cup {0}
    BY <1>2, <1>6 DEF Fine, Well
  <2>2. Children(x) = {x.map[k] : k \in DOMAIN x.map} \cup ({x.parent} \ {0})
    BY <1>6 DEF Children
  <2> QED  BY <1>1, <1>3, <2>1, <2>2
<1>7. CASE x.type = "FUNCTION"
  BY <1>1, <1>2, <1>3, <1>7 DEF Fine, Well, Children
<1>8. CASE x.type = "CFUNCTION"
  BY <1>1, <1>2, <1>8 DEF Fine, Well, Children
<1>9. CASE x.type = "CONTINUATION"
  <2>1. x.call \in Plain(v) /\ Closure(x, Plain(v), Slim(v))
    BY <1>2, <1>9 DEF Fine, Well
  <2>2. x.args \in Plain(v)  BY <1>2, <1>3, <2>1 DEF Closure
  <2>3. Children(x) = {x.call, x.args} \cup
          (IF x.marker THEN {x.held[i] : i \in DOMAIN x.held} ELSE {})
    BY <1>9 DEF Children
  <2>4. x.marker => \A i \in DOMAIN x.held : x.held[i] \in Plain(v)
    <3>1. CASE x.callback = "NULL"  BY <2>1, <3>1 DEF Closure
    <3>2. CASE x.callback = "guard"
      <4>1. x.held = <<>>  BY <2>1, <3>2 DEF Closure
      <4> QED  BY <4>1
    <3>3. CASE x.callback \in {"loop", "while", "for", "match"}
      <4>1. x.held \in Seq(Plain(v))  BY <2>1, <3>3 DEF Closure
      <4> QED  BY <4>1, LenProperties, ElementOfSeq
    <3> QED  BY <2>1, <3>1, <3>2, <3>3 DEF Closure
  <2> QED  BY <1>1, <2>1, <2>2, <2>3, <2>4
<1>10. CASE x.type \notin {"ARRAY", "NAMESPACE", "FUNCTION", "CFUNCTION", "CONTINUATION"}
  <2>1. Children(x) = {}  BY <1>10 DEF Children
  <2> QED  BY <1>1, <2>1
<1> QED  BY <1>5, <1>6, <1>7, <1>8, <1>9, <1>10

LEMMA RootsIn ==
  ASSUME NEW m, NEW E, Sound(m, E)
  PROVE  /\ Roots(m) \subseteq Plain(m.values) \cup {m.stack[i] : i \in DOMAIN m.stack}
         /\ Roots(m) \subseteq DOMAIN m.values
<1>1. Heap(m.values, m.fs, E) /\ m.fstack \in Seq(StackFrame(m.values))
      /\ m.modules \in Seq(LoadedModule(m.values))
  BY DEF Sound
<1>2. m.fs.nsfile \in Plain(m.values) /\ (m.fs.ns = 0 \/ m.fs.ns \in Spaces(m.values))
  BY <1>1, HeapIs
<1>3. Spaces(m.values) \subseteq Plain(m.values)  BY DEF Spaces, Plain, Hidden
<1>4. \A i \in DOMAIN m.fstack : m.fstack[i].ns \in Spaces(m.values)
                                  /\ m.fstack[i].args \in Plain(m.values)
  <2>1. \A i \in DOMAIN m.fstack : m.fstack[i] \in StackFrame(m.values)
    BY <1>1, LenProperties, ElementOfSeq
  <2> QED  BY <2>1 DEF StackFrame
<1>5. \A i \in DOMAIN m.modules : m.modules[i].ns \in Spaces(m.values)
  <2>1. \A i \in DOMAIN m.modules : m.modules[i] \in LoadedModule(m.values)
    BY <1>1, LenProperties, ElementOfSeq
  <2> QED  BY <2>1 DEF LoadedModule
<1>6. Roots(m) \subseteq Plain(m.values) \cup {m.stack[i] : i \in DOMAIN m.stack}
  BY <1>2, <1>3, <1>4, <1>5 DEF Roots
<1>7. \A i \in DOMAIN m.stack : m.stack[i] \in DOMAIN m.values  BY StackIs
<1> QED  BY <1>6, <1>7 DEF Plain

\* What the collector marks: it is closed, and what is hidden is on the stack.
LEMMA MarkedIs ==
  ASSUME NEW m, NEW E, Sound(m, E)
  PROVE  /\ Roots(m) \subseteq Marked(m) /\ Marked(m) \subseteq DOMAIN m.values
         /\ \A id \in Marked(m) : Children(m.values[id]) \subseteq Marked(m)
         /\ \A id \in Marked(m) :
              id \in Plain(m.values) \/ \E i \in DOMAIN m.stack : m.stack[i] = id
<1> DEFINE v == m.values
           C == Plain(v) \cup {m.stack[i] : i \in DOMAIN m.stack}
           mark == CHOOSE f : Marks(v, f)
<1>1. Heap(v, m.fs, E)  BY DEF Sound
<1>2. DOMAIN v \subseteq Nat /\ IsFiniteSet(DOMAIN v)  BY <1>1, HeapIs
<1>3. \A id \in DOMAIN v : Children(v[id]) \subseteq Plain(v)  BY <1>1, ChildrenPlain
<1>4. \A i \in DOMAIN m.stack : m.stack[i] \in DOMAIN v  BY StackIs
<1>5. C \subseteq DOMAIN v  BY <1>4 DEF Plain
<1>6. C \in SUBSET Nat /\ IsFiniteSet(C)  BY <1>2, <1>5, FS_Subset
<1>7. Plain(v) \subseteq Nat  BY <1>2 DEF Plain
<1>8. ClosedIn(v, C)  BY <1>3, <1>5 DEF ClosedIn
<1>9. Roots(m) \subseteq C /\ Roots(m) \subseteq DOMAIN v  BY RootsIn
<1>10. \A id \in DOMAIN v : Children(v[id]) \subseteq Nat  BY <1>3, <1>7
<1>11. Marks(v, mark)
  <2>1. \E f : Marks(v, f)  BY <1>10, MarksExist
  <2> QED  BY <2>1
<1>12. PICK f : f = mark  OBVIOUS
<1>13. Marked(m) = f[Roots(m)] \cap DOMAIN v
  <2>1. f = CHOOSE g : g = [S \in SUBSET Nat |->
              IF S \cup UNION {Children(v[id]) : id \in S \cap DOMAIN v} = S THEN S
              ELSE g[S \cup UNION {Children(v[id]) : id \in S \cap DOMAIN v}]]
    BY <1>12 DEF Marks, Found
  <2> QED  BY <2>1 DEF Marked
<1>14. Roots(m) \subseteq f[Roots(m)] /\ f[Roots(m)] \subseteq C /\ ClosedIn(v, f[Roots(m)])
  <2>1. Marks(v, f)  BY <1>11, <1>12
  <2> HIDE DEF C, mark
  <2> QED  BY <2>1, <1>6, <1>8, <1>9, MarksClose
<1>15. ASSUME NEW id \in Marked(m)
       PROVE  Children(v[id]) \subseteq Marked(m)
  BY <1>3, <1>13, <1>14 DEF ClosedIn, Plain
<1> QED  BY <1>5, <1>9, <1>13, <1>14, <1>15

\* What is kept when all values in K are, and K is closed.
Kept(v, K) == [id \in K |-> v[id]]

LEMMA KeptFine ==
  ASSUME NEW v, NEW fs, NEW E, Heap(v, fs, E), NEW K, K \subseteq DOMAIN v,
         \A id \in K : Children(v[id]) \subseteq K, 0 .. gc_start - 1 \subseteq K,
         fs.nsfile \in K, fs.ns \in K, NEW id \in K
  PROVE  Fine(v[id], Kept(v, K), E, fs)
<1>1. PICK v2 : v2 = Kept(v, K)  OBVIOUS
<1>2. DOMAIN v2 = K /\ \A k \in K : v2[k] = v[k]  BY <1>1 DEF Kept
<1>3. /\ Plain(v2) = Plain(v) \cap K /\ Spaces(v2) = Spaces(v) \cap K
      /\ Slim(v2) = Slim(v) \cap K
  BY <1>2 DEF Plain, Spaces, Slim
<1>4. PICK x : x = v[id]  OBVIOUS
<1>5. Well(x, Plain(v), Spaces(v), Slim(v), E, fs)  BY <1>4, HeapIs DEF Fine
<1>6. Children(x) \subseteq K  BY <1>4
<1>7. PICK P : P = Plain(v2)  OBVIOUS
<1>8. PICK N : N = Spaces(v2)  OBVIOUS
<1>9. PICK S : S = Slim(v2)  OBVIOUS
<1>10. knone \in K  BY DEF knone, gc_start
<1>11. x.type = "ARRAY" => x = Array(x.data) /\ x.data \in Seq(P)
  <2>1. SUFFICES ASSUME x.type = "ARRAY"
                 PROVE  x = Array(x.data) /\ x.data \in Seq(P)
    OBVIOUS
  <2>2. x = Array(x.data) /\ x.data \in Seq(Plain(v))  BY <1>5, <2>1 DEF Well
  <2>3. \A i \in DOMAIN x.data : x.data[i] \in K  BY <1>6, <2>1 DEF Children
  <2>4. Len(x.data) \in Nat /\ DOMAIN x.data = 1 .. Len(x.data)
        /\ \A i \in 1 .. Len(x.data) : x.data[i] \in Plain(v)
    BY <2>2, LenProperties, ElementOfSeq
  <2>5. \A i \in 1 .. Len(x.data) : x.data[i] \in P  BY <1>3, <1>7, <2>3, <2>4
  <2>6. x.data = [i \in 1 .. Len(x.data) |-> x.data[i]]  BY <2>2, <2>4
  <2> QED  BY <2>2, <2>4, <2>5, <2>6
<1>12. x.type = "NAMESPACE" =>
         /\ x = Table(x.parent, x.map, x.size, x.gone)
         /\ x.map \in [DOMAIN x.map -> P] /\ x.parent \in N \cup {0}
  <2>1. SUFFICES ASSUME x.type = "NAMESPACE"
                 PROVE  /\ x = Table(x.parent, x.map, x.size, x.gone)
                        /\ x.map \in [DOMAIN x.map -> P] /\ x.parent \in N \cup {0}
    OBVIOUS
  <2>2. /\ x = Table(x.parent, x.map, x.size, x.gone)
        /\ x.map \in [DOMAIN x.map -> Plain(v)] /\ x.parent \in Spaces(v) \cup {0}
    BY <1>5, <2>1 DEF Well
  <2>3. (\A k \in DOMAIN x.map : x.map[k] \in K) /\ (x.parent = 0 \/ x.parent \in K)
    BY <1>6, <2>1 DEF Children
  <2>4. x.map \in [DOMAIN x.map -> P]  BY <1>3, <1>7, <2>2, <2>3
  <2> QED  BY <1>3, <1>8, <2>2, <2>3, <2>4
<1>13. x.type = "FUNCTION" =>
         x = Function(x.pos, x.ns, x.self) /\ x.pos \in E /\ x.ns \in N /\ x.self \in P
  BY <1>3, <1>5, <1>6, <1>7, <1>8 DEF Well, Children
<1>14. x.type = "CFUNCTION" =>
         /\ x = CFunction(x.func, x.self) /\ x.self \in P
         /\ x.func \in BuiltinFunctions \/ (x.func \in FileFunctions /\ fs.ns # 0)
  BY <1>3, <1>5, <1>6, <1>7 DEF Well, Children
<1>15. x.type = "CVAL" =>
         /\ x = [type |-> "CVAL", ns |-> x.ns, open |-> x.open, rest |-> x.rest]
         /\ x.ns = fs.nsfile /\ fs.ns # 0
  BY <1>5 DEF Well
<1>16. x.type = "CONTINUATION" =>
         /\ x = [type |-> "CONTINUATION", call |-> x.call, callback |-> x.callback,
                 args |-> x.args, held |-> x.held, marker |-> x.marker,
                 index |-> x.index]
         /\ x.call \in P /\ Closure(x, P, S)
  <2>1. SUFFICES ASSUME x.type = "CONTINUATION"
                 PROVE  /\ x = [type |-> "CONTINUATION", call |-> x.call,
                                callback |-> x.callback, args |-> x.args, held |-> x.held,
                                marker |-> x.marker, index |-> x.index]
                        /\ x.call \in P /\ Closure(x, P, S)
    OBVIOUS
  <2>2. /\ x = [type |-> "CONTINUATION", call |-> x.call, callback |-> x.callback,
                args |-> x.args, held |-> x.held, marker |-> x.marker, index |-> x.index]
        /\ x.call \in Plain(v) /\ Closure(x, Plain(v), Slim(v))
    BY <1>5, <2>1 DEF Well
  <2>3. x.call \in K /\ x.args \in K
        /\ (x.marker => \A i \in DOMAIN x.held : x.held[i] \in K)
    BY <1>6, <2>1 DEF Children
  <2>4. x.callback \in {"loop", "while", "for", "match"} => x.held \in Seq(P)
    <3>1. SUFFICES ASSUME x.callback \in {"loop", "while", "for", "match"}
                   PROVE  x.held \in Seq(P)
      OBVIOUS
    <3>2. x.held \in Seq(Plain(v)) /\ x.marker  BY <2>2, <3>1 DEF Closure
    <3>3. Len(x.held) \in Nat /\ DOMAIN x.held = 1 .. Len(x.held)
          /\ \A i \in 1 .. Len(x.held) : x.held[i] \in Plain(v)
      BY <3>2, LenProperties, ElementOfSeq
    <3>4. \A i \in 1 .. Len(x.held) : x.held[i] \in P  BY <1>3, <1>7, <2>3, <3>2, <3>3
    <3>5. x.held = [i \in 1 .. Len(x.held) |-> x.held[i]]  BY <3>2, <3>3
    <3> QED  BY <3>3, <3>4, <3>5
  <2>5. x.args \in S \cup {knone} /\ (x.callback = "for" => x.args \in S)
    BY <1>3, <1>9, <2>2, <2>3 DEF Closure
  <2>6. Closure(x, P, S)  BY <2>2, <2>4, <2>5 DEF Closure
  <2> QED  BY <1>3, <1>7, <2>2, <2>3, <2>6
<1>17. x.type \in Types  BY <1>5 DEF Well
<1>18. Well(x, P, N, S, E, fs)
  BY <1>11, <1>12, <1>13, <1>14, <1>15, <1>16, <1>17 DEF Well
<1> QED  BY <1>1, <1>4, <1>7, <1>8, <1>9, <1>18 DEF Fine

LEMMA KeptHeap ==
  ASSUME NEW v, NEW fs, NEW E, Heap(v, fs, E), NEW K, K \subseteq DOMAIN v,
         \A id \in K : Children(v[id]) \subseteq K, 0 .. gc_start - 1 \subseteq K,
         fs.nsfile \in K, fs.ns \in K
  PROVE  Heap(Kept(v, K), fs, E)
<1>1. PICK v2 : v2 = Kept(v, K)  OBVIOUS
<1>2. DOMAIN v2 = K /\ (\A k \in K : v2[k] = v[k]) /\ v2 = [k \in K |-> v[k]]
  BY <1>1 DEF Kept
<1>3. ASSUME NEW id \in DOMAIN v2  PROVE Fine(v2[id], v2, E, fs)
  <2>1. id \in K /\ v2[id] = v[id]  BY <1>2
  <2>2. Fine(v[id], Kept(v, K), E, fs)  BY <2>1, KeptFine
  <2> QED  BY <1>1, <2>1, <2>2
<1>4. DOMAIN v2 \subseteq Nat /\ IsFiniteSet(DOMAIN v2)  BY <1>2, HeapIs, FS_Subset
<1>5. \A id \in 0 .. gc_start - 1 : id \in DOMAIN v2 /\ v2[id].type \in {"NONE", "ATOM"}
  BY <1>2 DEF Heap
<1>6. v2[knone].type = "NONE"  BY <1>2, HeapIs DEF knone, gc_start
<1>7. Acyclic(v2)
  <2>1. Spaces(v2) \subseteq Spaces(v)  BY <1>2 DEF Spaces
  <2>2. \A id \in Spaces(v2) : v2[id] = v[id]  BY <1>2 DEF Spaces
  <2>3. Acyclic(v)  BY HeapIs
  <2> QED  BY <2>1, <2>2, <2>3 DEF Acyclic
<1>8. /\ fs = [ns |-> fs.ns, nsfile |-> fs.nsfile] /\ fs.nsfile \in Plain(v)
      /\ fs.ns = 0 \/ (fs.ns \in Spaces(v) /\ fs.nsfile \in Spaces(v))
  BY HeapIs
<1>9. fs.nsfile \in Plain(v2)  BY <1>2, <1>8 DEF Plain
<1>10. fs.ns = 0 \/ (fs.ns \in Spaces(v2) /\ fs.nsfile \in Spaces(v2))
  BY <1>2, <1>8 DEF Spaces
<1>11. v2 = [id \in DOMAIN v2 |-> v2[id]]  BY <1>2
<1>12. Heap(v2, fs, E)
  BY <1>3, <1>4, <1>5, <1>6, <1>7, <1>8, <1>9, <1>10, <1>11 DEF Heap, Fine
<1> QED  BY <1>1, <1>12

\* The machine r, after a collection of m.
Collected(m, r, E) ==
  /\ Sound(r, E) /\ Beside(m, r) /\ r.stack = m.stack /\ r.out = m.out
  /\ DOMAIN r.values \subseteq DOMAIN m.values
  /\ \A id \in DOMAIN r.values : r.values[id] = m.values[id]

LEMMA CollectSound ==
  ASSUME NEW m, NEW E, Sound(m, E)
  PROVE  Collected(m, Collect(m), E)
<1>1. PICK r : r = Collect(m)  OBVIOUS
<1>2. PICK K : K = Marked(m) \cup 0 .. gc_start - 1  OBVIOUS
<1>3. PICK v2 : v2 = Kept(m.values, K)  OBVIOUS
<1>4. r = [m EXCEPT !.values = v2]  BY <1>1, <1>2, <1>3 DEF Collect, Kept
<1>5. IsMachine(m) /\ Heap(m.values, m.fs, E)  BY DEF Sound
<1>6. IsMachine(r) /\ Beside(m, r) /\ r.values = v2 /\ r.stack = m.stack /\ r.out = m.out
      /\ r.fs = m.fs
  BY <1>4, <1>5 DEF IsMachine, Beside
<1>7. Roots(m) \subseteq K /\ Marked(m) \subseteq DOMAIN m.values  BY <1>2, MarkedIs
<1>8. K \subseteq DOMAIN m.values  BY <1>2, <1>5, <1>7 DEF Heap
<1>9. \A id \in K : Children(m.values[id]) \subseteq K
  <2>1. \A id \in Marked(m) : Children(m.values[id]) \subseteq K  BY <1>2, MarkedIs
  <2>2. \A id \in 0 .. gc_start - 1 : Children(m.values[id]) = {}
    <3>1. \A id \in 0 .. gc_start - 1 : m.values[id].type \in {"NONE", "ATOM"}
      BY <1>5 DEF Heap
    <3> QED  BY <3>1 DEF Children
  <2> QED  BY <1>2, <2>1, <2>2
<1>10. 0 \in K /\ 0 .. gc_start - 1 \subseteq K  BY <1>2 DEF gc_start
<1>11. m.fs.nsfile \in K /\ m.fs.ns \in K  BY <1>7, <1>10 DEF Roots
<1>12. Heap(v2, m.fs, E)  BY <1>3, <1>5, <1>8, <1>9, <1>10, <1>11, KeptHeap
<1>13. DOMAIN v2 = K /\ \A id \in K : v2[id] = m.values[id]  BY <1>3 DEF Kept
<1>14. Plain(v2) = Plain(m.values) \cap K /\ Spaces(v2) = Spaces(m.values) \cap K
  BY <1>8, <1>13 DEF Plain, Spaces
<1>15. r.stack \in Seq(DOMAIN v2)
  <2>1. PICK s : s = m.stack  OBVIOUS
  <2>2. s \in Seq(DOMAIN m.values)  BY <2>1 DEF Sound
  <2>3. \A i \in DOMAIN s : s[i] \in K  BY <1>7, <2>1 DEF Roots
  <2>4. Len(s) \in Nat /\ DOMAIN s = 1 .. Len(s)  BY <2>2, LenProperties
  <2>5. s = [i \in 1 .. Len(s) |-> s[i]]  BY <2>2, <2>4
  <2>6. s \in Seq(K)  BY <2>3, <2>4, <2>5
  <2> QED  BY <1>6, <1>13, <2>1, <2>6
<1>16. Once(v2, r.stack)
  <2>1. \A i \in DOMAIN m.stack : v2[m.stack[i]] = m.values[m.stack[i]]
    BY <1>7, <1>13 DEF Roots
  <2>2. Once(m.values, m.stack)  BY DEF Sound
  <2> QED  BY <1>6, <2>1, <2>2 DEF Once
<1>17. r.fstack \in Seq(StackFrame(v2))
  <2>1. PICK s : s = m.fstack  OBVIOUS
  <2>2. s \in Seq(StackFrame(m.values))  BY <2>1 DEF Sound
  <2>3. Len(s) \in Nat /\ DOMAIN s = 1 .. Len(s)
        /\ \A i \in 1 .. Len(s) : s[i] \in StackFrame(m.values)
    BY <2>2, LenProperties, ElementOfSeq
  <2>4. \A i \in 1 .. Len(s) : s[i].ns \in K /\ s[i].args \in K
    BY <1>7, <2>1, <2>3 DEF Roots
  <2>5. \A i \in 1 .. Len(s) : s[i] \in StackFrame(v2)
    BY <1>14, <2>3, <2>4 DEF StackFrame
  <2>6. s = [i \in 1 .. Len(s) |-> s[i]]  BY <2>2, <2>3
  <2>7. s \in Seq(StackFrame(v2))  BY <2>3, <2>5, <2>6
  <2> QED  BY <1>6, <2>1, <2>7 DEF Beside
<1>18. r.modules \in Seq(LoadedModule(v2))
  <2>1. PICK s : s = m.modules  OBVIOUS
  <2>2. s \in Seq(LoadedModule(m.values))  BY <2>1 DEF Sound
  <2>3. Len(s) \in Nat /\ DOMAIN s = 1 .. Len(s)
        /\ \A i \in 1 .. Len(s) : s[i] \in LoadedModule(m.values)
    BY <2>2, LenProperties, ElementOfSeq
  <2>4. \A i \in 1 .. Len(s) : s[i].ns \in K  BY <1>7, <2>1, <2>3 DEF Roots
  <2>5. \A i \in 1 .. Len(s) : s[i] \in LoadedModule(v2)
    BY <1>14, <2>3, <2>4 DEF LoadedModule
  <2>6. s = [i \in 1 .. Len(s) |-> s[i]]  BY <2>2, <2>3
  <2>7. s \in Seq(LoadedModule(v2))  BY <2>3, <2>5, <2>6
  <2> QED  BY <1>6, <2>1, <2>7 DEF Beside
<1>19. Sound(r, E)
  BY <1>6, <1>12, <1>15, <1>16, <1>17, <1>18 DEF Sound, Beside
<1> QED  BY <1>1, <1>6, <1>8, <1>13, <1>19 DEF Collected

-----------------------------------------------------------------------------
(* What instructions find in namespaces and arrays. *)

LEMMA OwnerOf ==
  ASSUME NEW m, NEW E, Sound(m, E), NEW ns \in Spaces(m.values), NEW key
  PROVE  Owner(m, ns, key) = 0 \/
           (Owner(m, ns, key) \in Spaces(m.values) /\
            HasKey(m.values, Owner(m, ns, key), key))
<1>1. Parents(m.values) /\ Acyclic(m.values)  BY HeapIs DEF Sound
<1> QED  BY <1>1, OwnerIs

LEMMA GetPlain ==
  ASSUME NEW m, NEW E, Sound(m, E), NEW ns \in Spaces(m.values), NEW key
  PROVE  NamespaceGet(m, ns, key) \in Plain(m.values)
<1>1. PICK owner : owner = Owner(m, ns, key)  OBVIOUS
<1>2. Heap(m.values, m.fs, E) /\ 0 \in Plain(m.values)  BY HeapIs DEF Sound
<1>3. owner = 0 \/ (owner \in Spaces(m.values) /\ HasKey(m.values, owner, key))
  BY <1>1, OwnerOf
<1>4. CASE owner = 0
  <2>1. NamespaceGet(m, ns, key) = 0  BY <1>1, <1>4 DEF NamespaceGet
  <2> QED  BY <1>2, <2>1
<1>5. CASE owner # 0
  <2>1. owner \in DOMAIN m.values /\ m.values[owner].type = "NAMESPACE"
    BY <1>3, <1>5 DEF Spaces
  <2>2. Fine(m.values[owner], m.values, E, m.fs)  BY <1>2, <2>1, HeapIs
  <2>3. m.values[owner].map \in [DOMAIN m.values[owner].map -> Plain(m.values)]
    BY <2>1, <2>2 DEF Fine, Well
  <2>4. key \in DOMAIN m.values[owner].map  BY <1>3, <1>5 DEF HasKey
  <2>5. NamespaceGet(m, ns, key) = m.values[owner].map[key]
    BY <1>1, <1>5 DEF NamespaceGet
  <2> QED  BY <2>3, <2>4, <2>5
<1> QED  BY <1>4, <1>5

LEMMA GetOrPlain ==
  ASSUME NEW m, NEW E, Sound(m, E), NEW ns \in Spaces(m.values), NEW key,
         NEW alt \in Plain(m.values)
  PROVE  NamespaceGetOr(m, ns, key, alt) \in Plain(m.values)
BY GetPlain DEF NamespaceGetOr

LEMMA ReplaceQuietly ==
  ASSUME NEW m, NEW E, Sound(m, E), NEW ns \in Spaces(m.values), NEW key,
         NEW id \in Plain(m.values), CanReplace(m, ns, key, id)
  PROVE  Quietly(m, NamespaceReplace(m, ns, key, id), E)
<1>1. PICK where : where = IF id = 0 THEN ns ELSE Owner(m, ns, key)  OBVIOUS
<1>2. where \in Spaces(m.values)  BY <1>1, OwnerOf DEF CanReplace
<1>3. NamespaceReplace(m, ns, key, id) = NamespaceSet(m, where, key, id)
  BY <1>1 DEF NamespaceReplace
<1> QED  BY <1>2, <1>3, NamespaceSetQuietly

\* Only the values say which namespace has a key.
LEMMA OwnerByValues ==
  ASSUME NEW m, NEW r, r.values = m.values, NEW ns, NEW key, NEW id
  PROVE  /\ Owner(r, ns, key) = Owner(m, ns, key)
         /\ CanReplace(r, ns, key, id) = CanReplace(m, ns, key, id)
         /\ NamespaceGet(r, ns, key) = NamespaceGet(m, ns, key)
<1>1. Owner(r, ns, key) = Owner(m, ns, key)  BY DEF Owner, TypeOf
<1> QED  BY <1>1 DEF CanReplace, NamespaceGet

LEMMA ElementPlain ==
  ASSUME NEW E, Sound(vm, E), NEW arr \in DOMAIN vm.values, TypeOf(vm, arr) = "ARRAY",
         NEW k
  PROVE  Element(arr, k) \in Plain(vm.values)
<1>1. Heap(vm.values, vm.fs, E) /\ knone \in Plain(vm.values)  BY HeapIs DEF Sound, knone
<1>2. Fine(vm.values[arr], vm.values, E, vm.fs)  BY <1>1, HeapIs
<1>3. PICK data : data = vm.values[arr].data  OBVIOUS
<1>4. data \in Seq(Plain(vm.values))  BY <1>2, <1>3 DEF Fine, Well, TypeOf
<1>5. Len(data) \in Nat /\ \A i \in 1 .. Len(data) : data[i] \in Plain(vm.values)
  BY <1>4, LenProperties, ElementOfSeq
<1>6. Element(arr, k) = IF k \in 0 .. Len(data) - 1 THEN data[k + 1] ELSE knone
  BY <1>3 DEF Element
<1>7. CASE k \in 0 .. Len(data) - 1
  <2>1. k + 1 \in 1 .. Len(data)  BY <1>5, <1>7
  <2> QED  BY <1>5, <1>6, <1>7, <2>1
<1> QED  BY <1>1, <1>6, <1>7

LEMMA SetElementQuietly ==
  ASSUME NEW m, NEW E, Sound(m, E), m.values = vm.values, NEW arr \in DOMAIN m.values,
         TypeOf(vm, arr) = "ARRAY", NEW k, NEW id \in Plain(m.values)
  PROVE  Quietly(m, SetElement(m, arr, k, id), E)
<1>1. PICK old : old = m.values[arr].data  OBVIOUS
<1>2. old \in Seq(Plain(m.values))
  <2>1. Heap(m.values, m.fs, E)  BY DEF Sound
  <2>2. Fine(m.values[arr], m.values, E, m.fs)  BY <2>1, HeapIs
  <2> QED  BY <1>1, <2>2 DEF Fine, Well, TypeOf
<1>3. CASE Fits(arr, k)
  <2>1. k + 1 \in 1 .. Len(old)  BY <1>1, <1>2, <1>3, LenProperties DEF Fits
  <2>2. PICK data : data = [old EXCEPT ![k + 1] = id]  OBVIOUS
  <2>3. PICK P : P = Plain(m.values)  OBVIOUS
  <2>4. old \in Seq(P) /\ id \in P  BY <1>2, <2>3
  <2>5. data \in Seq(P) /\ Len(data) = Len(old)  BY <2>1, <2>2, <2>4
  <2>6. SetElement(m, arr, k, id) = [m EXCEPT !.values[arr].data = data]
    BY <1>1, <1>3, <2>2 DEF SetElement
  <2>7. Quietly(m, [m EXCEPT !.values[arr].data = data], E)
    BY <1>1, <2>3, <2>5, ElementSet DEF TypeOf
  <2> QED  BY <2>6, <2>7
<1>4. CASE ~Fits(arr, k)
  <2>1. SetElement(m, arr, k, id) = Alloc(m, Error)  BY <1>4 DEF SetElement
  <2>2. Fine(Error, m.values, E, m.fs)  BY ConstantsFine
  <2> QED  BY <2>1, <2>2, AllocQuietly
<1> QED  BY <1>3, <1>4

-----------------------------------------------------------------------------
(* Frames. *)

LEMMA FramesAre ==
  ASSUME NEW m, NEW E, Sound(m, E)
  PROVE  /\ Len(m.fstack) \in Nat /\ DOMAIN m.fstack = 1 .. Len(m.fstack)
         /\ Len(m.fstack) >= 2
         /\ \A f \in 1 .. Len(m.fstack) :
              /\ m.fstack[f] \in StackFrame(m.values)
              /\ m.fstack[f].ns \in Spaces(m.values) /\ m.fstack[f].sptr \in Nat
              /\ m.fstack[f].retptr \in Nat \cup {NoReturn}
              /\ m.fstack[f].args \in Plain(m.values)
         /\ Frame(m) = m.fstack[Len(m.fstack)]
<1>1. m.fstack \in Seq(StackFrame(m.values)) /\ Len(m.fstack) >= 2  BY DEF Sound
<1>2. /\ Len(m.fstack) \in Nat /\ DOMAIN m.fstack = 1 .. Len(m.fstack)
      /\ \A f \in 1 .. Len(m.fstack) : m.fstack[f] \in StackFrame(m.values)
  BY <1>1, LenProperties, ElementOfSeq
<1> QED  BY <1>1, <1>2 DEF StackFrame, Frame

\* A frame is left, with id where it began.
Popped(m, r, id, E) ==
  /\ Sound(r, E) /\ r.values = m.values /\ r.halted = m.halted /\ r.check = m.check
  /\ r.kundeclared = m.kundeclared /\ r.modules = m.modules /\ r.fs = m.fs
  /\ r.iptr = Frame(m).retptr
  /\ Len(r.fstack) = Len(m.fstack) - 1
  /\ \A f \in 1 .. Len(m.fstack) - 1 : r.fstack[f] = m.fstack[f]
  /\ Len(r.stack) = Frame(m).sptr + 1 /\ r.stack[Frame(m).sptr + 1] = id
  /\ \A i \in 1 .. Frame(m).sptr : r.stack[i] = m.stack[i]

LEMMA PopFrameSound ==
  ASSUME NEW m, NEW E, Sound(m, E), NEW id \in Plain(m.values), Len(m.fstack) >= 3,
         Frame(m).sptr <= Len(m.stack)
  PROVE  Popped(m, PopFrame(m, id), id, E)
<1>1. PICK r : r = PopFrame(m, id)  OBVIOUS
<1>2. PICK f : f = Frame(m)  OBVIOUS
<1>3. f.sptr \in Nat  BY <1>2, FramesAre
<1>4. /\ Len(m.stack) \in Nat /\ IsMachine(m) /\ id \in DOMAIN m.values
      /\ m.stack \in Seq(DOMAIN m.values) /\ m.fstack \in Seq(StackFrame(m.values))
      /\ Len(m.fstack) \in Nat
  BY StackIs, FramesAre DEF Sound, Plain
<1>5. PICK n : n = Drop(m, Len(m.stack) - f.sptr)  OBVIOUS
<1>6. Len(m.stack) - f.sptr \in Nat /\ Len(m.stack) - f.sptr <= Len(m.stack)
      /\ Len(m.stack) - (Len(m.stack) - f.sptr) = f.sptr
  BY <1>2, <1>3, <1>4
<1>7. /\ Sound(n, E) /\ Beside(m, n) /\ n.values = m.values /\ n.out = m.out
      /\ Len(n.stack) = f.sptr
      /\ \A i \in 1 .. f.sptr : n.stack[i] = m.stack[i]
  <2>1. PICK k : k = Len(m.stack) - f.sptr  OBVIOUS
  <2>2. k \in Nat /\ k <= Len(m.stack) /\ Len(m.stack) - k = f.sptr  BY <1>6, <2>1
  <2>3. n = Drop(m, k)  BY <1>5, <2>1
  <2> QED  BY <2>2, <2>3, DropSound
<1>8. n.stack = SubSeq(m.stack, 1, f.sptr)
  BY <1>4, <1>5, <1>6 DEF Drop, IsMachine
<1>9. PICK p : p = Push(n, id)  OBVIOUS
<1>10. /\ Sound(p, E) /\ Beside(n, p) /\ p.values = n.values
       /\ p.stack = Append(n.stack, id) /\ p.out = n.out
  <2>1. id \in DOMAIN n.values /\ id \in Plain(n.values)  BY <1>4, <1>7
  <2> QED  BY <1>7, <1>9, <2>1, PushSound
<1>11. /\ Len(p.stack) = f.sptr + 1 /\ p.stack[f.sptr + 1] = id
       /\ \A i \in 1 .. f.sptr : p.stack[i] = m.stack[i]
  <2>1. PICK D : D = DOMAIN m.values  OBVIOUS
  <2>2. PICK s : s = n.stack  OBVIOUS
  <2>3. s \in Seq(D) /\ id \in D  BY <1>4, <1>7, <2>1, <2>2 DEF Sound
  <2>4. Len(Append(s, id)) = Len(s) + 1 /\ Append(s, id)[Len(s) + 1] = id
        /\ \A i \in 1 .. Len(s) : Append(s, id)[i] = s[i]
    BY <2>3, Grows
  <2> QED  BY <1>7, <1>10, <2>2, <2>4
<1>12. /\ IsMachine(r) /\ r.values = m.values /\ r.halted = m.halted /\ r.check = m.check
       /\ r.kundeclared = m.kundeclared /\ r.modules = m.modules /\ r.fs = m.fs
       /\ r.iptr = f.retptr /\ r.stack = Append(SubSeq(m.stack, 1, f.sptr), id)
       /\ r.fstack = SubSeq(m.fstack, 1, Len(m.fstack) - 1)
  BY <1>1, <1>2, <1>4 DEF PopFrame, IsMachine
<1>13. r.stack = p.stack  BY <1>8, <1>10, <1>12
<1>14. /\ r.fstack \in Seq(StackFrame(m.values)) /\ Len(r.fstack) = Len(m.fstack) - 1
       /\ \A g \in 1 .. Len(m.fstack) - 1 : r.fstack[g] = m.fstack[g]
  <2>1. PICK S : S = StackFrame(m.values)  OBVIOUS
  <2>2. PICK s : s = m.fstack  OBVIOUS
  <2>3. s \in Seq(S) /\ Len(s) >= 3 /\ Len(s) \in Nat  BY <1>4, <2>1, <2>2
  <2>4. /\ SubSeq(s, 1, Len(s) - 1) \in Seq(S) /\ Len(SubSeq(s, 1, Len(s) - 1)) = Len(s) - 1
        /\ \A i \in 1 .. Len(s) - 1 : SubSeq(s, 1, Len(s) - 1)[i] = s[i]
    BY <2>3, Shrinks
  <2> QED  BY <1>12, <2>1, <2>2, <2>4
<1>15. Sound(r, E)
  <2>1. Heap(p.values, p.fs, E) /\ p.stack \in Seq(DOMAIN p.values) /\ Once(p.values, p.stack)
        /\ p.modules \in Seq(LoadedModule(p.values)) /\ p.halted \in BOOLEAN
        /\ p.check \in BOOLEAN
    BY <1>10 DEF Sound
  <2>2. p.fs = m.fs /\ p.modules = m.modules /\ p.halted = m.halted /\ p.check = m.check
        /\ p.values = m.values
    BY <1>7, <1>10 DEF Beside
  <2>3. Len(r.fstack) >= 2  BY <1>4, <1>14
  <2>4. Heap(r.values, r.fs, E)  BY <1>12, <2>1, <2>2
  <2>5. r.modules \in Seq(LoadedModule(r.values)) /\ r.halted \in BOOLEAN /\ r.check \in BOOLEAN
    BY <1>12, <2>1, <2>2
  <2>6. r.stack \in Seq(DOMAIN r.values) /\ Once(r.values, r.stack)
    BY <1>12, <1>13, <2>1, <2>2
  <2>7. r.fstack \in Seq(StackFrame(r.values))  BY <1>12, <1>14
  <2> QED  BY <1>12, <2>3, <2>4, <2>5, <2>6, <2>7 DEF Sound
<1>16. Popped(m, r, id, E)
  BY <1>2, <1>11, <1>12, <1>13, <1>14, <1>15 DEF Popped
<1> QED  BY <1>1, <1>16

\* A function's frame, with the slot below its values.
Entered(m, r, args, E) ==
  /\ Sound(r, E) /\ Later(m.values, r.values, {})
  /\ r.halted = m.halted /\ r.check = m.check
  /\ r.kundeclared = m.kundeclared
  /\ r.iptr \in E
  /\ Len(r.fstack) = Len(m.fstack) + 1
  /\ \A f \in 1 .. Len(m.fstack) : r.fstack[f] = m.fstack[f]
  /\ LET f == r.fstack[Len(m.fstack) + 1]
     IN f.sptr = Len(m.stack) /\ f.retptr = m.iptr /\ f.args = args
  /\ Len(r.stack) = Len(m.stack) + 1 /\ r.stack[Len(m.stack) + 1] = knone
  /\ \A i \in 1 .. Len(m.stack) : r.stack[i] = m.stack[i]

LEMMA EnterSound ==
  ASSUME NEW m, NEW E, Sound(m, E), m.iptr \in Nat, NEW func \in DOMAIN m.values,
         TypeOf(m, func) = "FUNCTION", NEW args \in Plain(m.values)
  PROVE  Entered(m, CallFuncWithArgs(m, func, args), args, E)
<1>1. PICK r : r = CallFuncWithArgs(m, func, args)  OBVIOUS
<1>2. PICK f : f = m.values[func]  OBVIOUS
<1>3. IsMachine(m) /\ Heap(m.values, m.fs, E) /\ Len(m.stack) \in Nat  BY StackIs
<1>4. Fine(f, m.values, E, m.fs) /\ f.type = "FUNCTION"  BY <1>2, <1>3, HeapIs DEF TypeOf
<1>5. f.pos \in E /\ f.ns \in Spaces(m.values)  BY <1>4 DEF Fine, Well
<1>6. PICK x : x = Namespace(f.ns)  OBVIOUS
<1>7. Fine(x, m.values, E, m.fs) /\ x.type = "NAMESPACE"
  BY <1>5, <1>6, NamespaceFine
<1>8. PICK n : n = Alloc(m, x)  OBVIOUS
<1>9. PICK id : id = NewId(m)  OBVIOUS
<1>10. Quietly(m, n, E) /\ id \in Spaces(n.values)
  <2>1. x.type \notin Hidden  BY <1>7 DEF Hidden
  <2> QED  BY <1>7, <1>8, <1>9, <2>1, AllocIs
<1>11. /\ Sound(n, E) /\ Beside(m, n) /\ Later(m.values, n.values, {}) /\ n.stack = m.stack
  BY <1>10 DEF Quietly
<1>12. PICK p : p = Push(n, knone)  OBVIOUS
<1>13. knone \in Plain(n.values) /\ knone \in DOMAIN n.values
  <2>1. knone \in Plain(n.values)  BY <1>11, HeapIs DEF Sound, knone
  <2> QED  BY <2>1 DEF Plain
<1>14. /\ Sound(p, E) /\ Beside(n, p) /\ p.values = n.values
       /\ p.stack = Append(n.stack, knone) /\ p.out = n.out
  BY <1>11, <1>12, <1>13, PushSound
<1>15. IsMachine(n) /\ IsMachine(p)  BY <1>11, <1>14 DEF Sound
<1>16. PICK new : new = [ns |-> id, retptr |-> m.iptr, sptr |-> Len(m.stack), args |-> args]
  OBVIOUS
<1>17. r = [n EXCEPT !.fstack = Append(@, new), !.iptr = f.pos, !.stack = Append(@, knone)]
  BY <1>1, <1>2, <1>6, <1>8, <1>9, <1>16 DEF CallFuncWithArgs
<1>18. /\ IsMachine(r) /\ r.values = n.values /\ r.stack = p.stack /\ r.iptr = f.pos
       /\ r.fstack = Append(n.fstack, new) /\ r.modules = n.modules /\ r.fs = n.fs
       /\ r.halted = n.halted /\ r.check = n.check /\ r.kundeclared = n.kundeclared
  BY <1>14, <1>15, <1>17 DEF IsMachine
<1>19. /\ n.fstack = m.fstack /\ n.halted = m.halted /\ n.check = m.check
       /\ n.kundeclared = m.kundeclared /\ n.fs = m.fs
  BY <1>11 DEF Beside
<1>20. new \in StackFrame(n.values)
  <2>1. args \in Plain(n.values)  BY <1>11, LaterSets
  <2> QED  BY <1>3, <1>10, <1>16, <2>1 DEF StackFrame
<1>21. /\ r.fstack \in Seq(StackFrame(n.values)) /\ Len(r.fstack) = Len(m.fstack) + 1
       /\ \A g \in 1 .. Len(m.fstack) : r.fstack[g] = m.fstack[g]
       /\ r.fstack[Len(m.fstack) + 1] = new /\ Len(r.fstack) >= 2
  <2>1. PICK S : S = StackFrame(n.values)  OBVIOUS
  <2>2. PICK s : s = n.fstack  OBVIOUS
  <2>3. s \in Seq(S) /\ new \in S  BY <1>11, <1>20, <2>1, <2>2 DEF Sound
  <2>4. /\ Append(s, new) \in Seq(S) /\ Len(Append(s, new)) = Len(s) + 1
        /\ \A i \in 1 .. Len(s) : Append(s, new)[i] = s[i]
        /\ Append(s, new)[Len(s) + 1] = new /\ Len(s) \in Nat
    BY <2>3, Grows
  <2>5. Len(m.fstack) >= 2  BY DEF Sound
  <2> QED  BY <1>18, <1>19, <2>1, <2>2, <2>4, <2>5
<1>22. /\ Len(r.stack) = Len(m.stack) + 1 /\ r.stack[Len(m.stack) + 1] = knone
       /\ \A i \in 1 .. Len(m.stack) : r.stack[i] = m.stack[i]
  <2>1. PICK D : D = DOMAIN n.values  OBVIOUS
  <2>2. PICK s : s = n.stack  OBVIOUS
  <2>3. s \in Seq(D) /\ knone \in D  BY <1>11, <1>13, <2>1, <2>2 DEF Sound
  <2>4. Len(Append(s, knone)) = Len(s) + 1 /\ Append(s, knone)[Len(s) + 1] = knone
        /\ \A i \in 1 .. Len(s) : Append(s, knone)[i] = s[i]
    BY <2>3, Grows
  <2> QED  BY <1>11, <1>14, <1>18, <2>2, <2>4
<1>23. Sound(r, E)
  <2>1. Heap(p.values, p.fs, E) /\ p.stack \in Seq(DOMAIN p.values) /\ Once(p.values, p.stack)
        /\ p.modules \in Seq(LoadedModule(p.values)) /\ p.halted \in BOOLEAN
        /\ p.check \in BOOLEAN
    BY <1>14 DEF Sound
  <2>2. p.fs = n.fs /\ p.modules = n.modules /\ p.halted = n.halted /\ p.check = n.check
    BY <1>14 DEF Beside
  <2> QED  BY <1>14, <1>18, <1>21, <2>1, <2>2 DEF Sound
<1>24. new.sptr = Len(m.stack) /\ new.retptr = m.iptr /\ new.args = args  BY <1>16
<1>25. Entered(m, r, args, E)
  BY <1>5, <1>11, <1>18, <1>19, <1>21, <1>22, <1>23, <1>24 DEF Entered
<1> QED  BY <1>1, <1>25

-----------------------------------------------------------------------------
(* Callbacks. *)

LEMMA ContinuationIs ==
  ASSUME NEW m, NEW E, Sound(m, E), NEW cont \in DOMAIN m.values,
         TypeOf(m, cont) = "CONTINUATION"
  PROVE  LET x == m.values[cont]
         IN /\ IsContinuation(x) /\ x.call \in Plain(m.values)
            /\ Closure(x, Plain(m.values), Slim(m.values))
<1>1. Fine(m.values[cont], m.values, E, m.fs)  BY HeapIs DEF Sound
<1> QED  BY <1>1 DEF Fine, Well, IsContinuation, TypeOf

\* One with another function.
Alike(x, y, call, callback) ==
  /\ IsContinuation(y) /\ y.call = call /\ y.callback = callback
  /\ y.args = x.args /\ y.held = x.held

LEMMA Recalled ==
  ASSUME NEW x, IsContinuation(x), NEW call, NEW P, NEW S, Closure(x, P, S),
         NEW y, y = [x EXCEPT !.call = call]
  PROVE  Alike(x, y, call, x.callback) /\ Closure(y, P, S)
<1>1. /\ IsContinuation(y) /\ y.call = call /\ y.callback = x.callback /\ y.marker = x.marker
      /\ y.args = x.args /\ y.held = x.held /\ y.index = x.index
  BY DEF IsContinuation
<1>2. Closure(y, P, S)  BY <1>1 DEF Closure
<1> QED  BY <1>1, <1>2 DEF Alike

LEMMA RecalledNext ==
  ASSUME NEW x, IsContinuation(x), NEW call, NEW index \in Nat \ {0}, NEW P, NEW S,
         Closure(x, P, S), 2 * index <= Len(x.held),
         NEW y, y = [x EXCEPT !.call = call, !.index = index]
  PROVE  Alike(x, y, call, x.callback) /\ Closure(y, P, S)
<1>1. /\ IsContinuation(y) /\ y.call = call /\ y.callback = x.callback /\ y.marker = x.marker
      /\ y.args = x.args /\ y.held = x.held /\ y.index = index
  BY DEF IsContinuation
<1>2. Closure(y, P, S)  BY <1>1 DEF Closure
<1> QED  BY <1>1, <1>2 DEF Alike

LEMMA RecalledLast ==
  ASSUME NEW x, IsContinuation(x), NEW call, NEW callback, NEW marker, NEW P, NEW S,
         Closure(x, P, S), callback = "NULL", marker = FALSE,
         NEW y, y = [x EXCEPT !.call = call, !.callback = callback, !.marker = marker]
  PROVE  Alike(x, y, call, callback) /\ Closure(y, P, S)
<1>1. /\ IsContinuation(y) /\ y.call = call /\ y.callback = callback /\ y.marker = marker
      /\ y.args = x.args /\ y.held = x.held /\ y.index = x.index
  BY DEF IsContinuation
<1>2. Closure(y, P, S)  BY <1>1 DEF Closure
<1> QED  BY <1>1, <1>2 DEF Alike

\* It is written to in place.
LEMMA RewriteSound ==
  ASSUME NEW m, NEW E, Sound(m, E), NEW cont \in DOMAIN m.values,
         TypeOf(m, cont) = "CONTINUATION", NEW x, Fine(x, m.values, E, m.fs),
         x.type \in Hidden
  PROVE  Written(m, Write(m, cont, x), cont, x, E)
<1>1. Replaces(x, m.values[cont])  BY DEF Replaces, Hidden, TypeOf
<1> QED  BY <1>1, ChangeSound

\* What a continuation may be after its callback.
Passing(x) == x.callback \in {"NULL", "match"}
Becomes(x, y, P) ==
  \/ /\ y.type = "CONTINUATION" /\ y.args = x.args /\ (Passing(y) <=> Passing(x))
     /\ y.call = x.call \/ \E k \in DOMAIN x.held : y.call = x.held[k]
  \/ y.type = "RETURN" /\ y.ret \in P /\ ~Passing(x)

Answered(m, r, a, cont, E) ==
  /\ Sound(r, E) /\ Beside(m, r) /\ r.stack = m.stack /\ Later(m.values, r.values, {cont})
  /\ a \in Plain(r.values) \/
       (a = cont /\ Becomes(m.values[cont], r.values[cont], Plain(r.values)))

LEMMA AnsweredPlain ==
  ASSUME NEW m, NEW E, Sound(m, E), NEW cont, NEW a \in Plain(m.values)
  PROVE  Answered(m, m, a, cont, E)
<1>1. Later(m.values, m.values, {cont})  BY LaterSame, LaterMore
<1>2. Beside(m, m)  BY DEF Beside
<1> QED  BY <1>1, <1>2 DEF Answered

LEMMA AnsweredWritten ==
  ASSUME NEW m, NEW E, Sound(m, E), NEW cont \in DOMAIN m.values,
         TypeOf(m, cont) = "CONTINUATION", NEW x, Fine(x, m.values, E, m.fs),
         x.type \in Hidden, Becomes(m.values[cont], x, Plain(m.values))
  PROVE  Answered(m, Write(m, cont, x), cont, cont, E)
<1>1. PICK r : r = Write(m, cont, x)  OBVIOUS
<1>2. Written(m, r, cont, x, E)  BY <1>1, RewriteSound
<1>3. /\ Sound(r, E) /\ Beside(m, r) /\ r.stack = m.stack /\ Later(m.values, r.values, {cont})
      /\ r.values[cont] = x
  BY <1>2 DEF Written
<1>4. Plain(m.values) \subseteq Plain(r.values)  BY <1>3, LaterSets
<1>5. Becomes(m.values[cont], x, Plain(r.values))  BY <1>4 DEF Becomes
<1> QED  BY <1>1, <1>3, <1>5 DEF Answered

\* The continuation itself, with another function.
LEMMA CallNextAnswered ==
  ASSUME NEW m, NEW E, Sound(m, E), NEW cont \in DOMAIN m.values,
         TypeOf(m, cont) = "CONTINUATION", NEW id \in Plain(m.values),
         \E k \in DOMAIN m.values[cont].held : id = m.values[cont].held[k]
  PROVE  Answered(m, CallNext(m, cont, id), cont, cont, E)
<1>1. PICK x : x = m.values[cont]  OBVIOUS
<1>2. IsContinuation(x) /\ Closure(x, Plain(m.values), Slim(m.values))
  BY <1>1, ContinuationIs
<1>3. PICK y : y = [x EXCEPT !.call = id]  OBVIOUS
<1>4. /\ IsContinuation(y) /\ y.call = id /\ y.callback = x.callback
      /\ y.args = x.args /\ y.held = x.held /\ Closure(y, Plain(m.values), Slim(m.values))
  BY <1>2, <1>3, Recalled DEF Alike
<1>5. Fine(y, m.values, E, m.fs) /\ y.type = "CONTINUATION"
  BY <1>4, ContinuationFine DEF IsContinuation
<1>6. CallNext(m, cont, id) = Write(m, cont, y)  BY <1>1, <1>3 DEF CallNext, Write
<1>7. Becomes(x, y, Plain(m.values))  BY <1>1, <1>4, <1>5 DEF Becomes, Passing
<1>8. y.type \in Hidden  BY <1>5 DEF Hidden
<1> QED  BY <1>1, <1>5, <1>6, <1>7, <1>8, AnsweredWritten

\* The first values are those of the machine before.
LEMMA AnsweredLater ==
  ASSUME NEW m, NEW E, NEW n, Quietly(m, n, E), NEW cont, n.values[cont] = m.values[cont],
         NEW r, NEW a, Answered(n, r, a, cont, E)
  PROVE  Answered(m, r, a, cont, E)
<1>1. Later(m.values, n.values, {}) /\ Beside(m, n) /\ n.stack = m.stack  BY DEF Quietly
<1>2. Later(m.values, n.values, {cont})  BY <1>1, LaterMore
<1>3. Later(n.values, r.values, {cont}) /\ Beside(n, r) /\ r.stack = n.stack /\ Sound(r, E)
  BY DEF Answered
<1>4. Later(m.values, r.values, {cont})  BY <1>2, <1>3, LaterTwice
<1>5. Beside(m, r)  BY <1>1, <1>3 DEF Beside
<1> QED  BY <1>1, <1>3, <1>4, <1>5 DEF Answered

LEMMA LoopAnswered ==
  ASSUME NEW m, NEW E, Sound(m, E), NEW cont \in DOMAIN m.values,
         TypeOf(m, cont) = "CONTINUATION", NEW retval \in Plain(m.values)
  PROVE  LET answer == LoopCallback(m, retval, cont)
         IN Answered(m, answer[1], answer[2], cont, E)
<1>1. PICK a : a = CASE TypeOf(m, retval) = "ERROR" -> retval
                     [] Is(m, retval, kstop) -> knone
                     [] OTHER -> cont
  OBVIOUS
<1>2. a \in {retval, knone, cont}  BY <1>1
<1>3. LoopCallback(m, retval, cont) = <<m, a>>  BY <1>1 DEF LoopCallback
<1>4. knone \in Plain(m.values)  BY HeapIs DEF Sound, knone
<1>5. a \in Plain(m.values) => Answered(m, m, a, cont, E)  BY AnsweredPlain
<1>6. Answered(m, m, cont, cont, E)
  <2>1. Later(m.values, m.values, {cont})  BY LaterSame, LaterMore
  <2>2. Becomes(m.values[cont], m.values[cont], Plain(m.values))
    BY DEF Becomes, TypeOf
  <2>3. Beside(m, m)  BY DEF Beside
  <2> QED  BY <2>1, <2>2, <2>3 DEF Answered
<1> QED  BY <1>2, <1>3, <1>4, <1>5, <1>6

LEMMA WhileAnswered ==
  ASSUME NEW m, NEW E, Sound(m, E), NEW cont \in DOMAIN m.values,
         TypeOf(m, cont) = "CONTINUATION", m.values[cont].callback = "while",
         NEW retval \in Plain(m.values)
  PROVE  LET answer == WhileCallback(m, retval, cont)
         IN Answered(m, answer[1], answer[2], cont, E)
<1>1. PICK c : c = m.values[cont]  OBVIOUS
<1>2. Closure(c, Plain(m.values), Slim(m.values))  BY <1>1, ContinuationIs
<1>3. c.held \in Seq(Plain(m.values)) /\ Len(c.held) = 2  BY <1>1, <1>2 DEF Closure
<1>4. /\ 1 \in DOMAIN c.held /\ 2 \in DOMAIN c.held
      /\ c.held[1] \in Plain(m.values) /\ c.held[2] \in Plain(m.values)
  BY <1>3, LenProperties, ElementOfSeq
<1>5. PICK h1, h2 : h1 = c.held[1] /\ h2 = c.held[2]  OBVIOUS
<1>6. knone \in Plain(m.values)  BY HeapIs DEF Sound, knone
<1>7. /\ Answered(m, m, retval, cont, E) /\ Answered(m, m, knone, cont, E)
  BY <1>6, AnsweredPlain
<1>8. Answered(m, CallNext(m, cont, h1), cont, cont, E)
  BY <1>1, <1>4, <1>5, CallNextAnswered
<1>9. Answered(m, CallNext(m, cont, h2), cont, cont, E)
  BY <1>1, <1>4, <1>5, CallNextAnswered
<1>10. WhileCallback(m, retval, cont) \in
         {<<m, retval>>, <<m, knone>>, <<CallNext(m, cont, h1), cont>>,
          <<CallNext(m, cont, h2), cont>>}
  BY <1>1, <1>5 DEF WhileCallback
<1> QED  BY <1>7, <1>8, <1>9, <1>10

LEMMA ForAnswered ==
  ASSUME NEW m, NEW E, Sound(m, E), NEW cont \in DOMAIN m.values,
         TypeOf(m, cont) = "CONTINUATION", m.values[cont].callback = "for",
         NEW retval \in Plain(m.values)
  PROVE  LET answer == ForCallback(m, retval, cont)
         IN Answered(m, answer[1], answer[2], cont, E)
<1>1. PICK c : c = m.values[cont]  OBVIOUS
<1>2. Closure(c, Plain(m.values), Slim(m.values))  BY <1>1, ContinuationIs
<1>3. c.held \in Seq(Plain(m.values)) /\ Len(c.held) = 2 /\ c.args \in Slim(m.values)
  BY <1>1, <1>2 DEF Closure
<1>4. /\ 1 \in DOMAIN c.held /\ 2 \in DOMAIN c.held
      /\ c.held[1] \in Plain(m.values) /\ c.held[2] \in Plain(m.values)
  BY <1>3, LenProperties, ElementOfSeq
<1>5. PICK h1, h2 : h1 = c.held[1] /\ h2 = c.held[2]  OBVIOUS
<1>6. knone \in Plain(m.values)  BY HeapIs DEF Sound, knone
<1>7. /\ Answered(m, m, retval, cont, E) /\ Answered(m, m, knone, cont, E)
  BY <1>6, AnsweredPlain
<1>8. PICK arr : arr = c.args  OBVIOUS
<1>9. arr \in DOMAIN m.values /\ m.values[arr].type = "ARRAY" /\ arr # cont
  BY <1>3, <1>8 DEF Slim, TypeOf
<1>10. ASSUME NEW data \in Seq(Plain(m.values)), Len(data) <= 1, NEW h \in {h1, h2}
       PROVE  Answered(m, CallNext([m EXCEPT !.values[arr].data = data], cont, h), cont, cont, E)
  <2>1. PICK n : n = [m EXCEPT !.values[arr].data = data]  OBVIOUS
  <2>2. Quietly(m, n, E)  BY <1>9, <1>10, <2>1, ElementSet
  <2>3. IsMachine(m) /\ m.values = [id \in DOMAIN m.values |-> m.values[id]]
    BY HeapIs DEF Sound
  <2>4. n.values[cont] = m.values[cont] /\ cont \in DOMAIN n.values
    BY <1>9, <2>1, <2>3 DEF IsMachine
  <2>5. Sound(n, E) /\ Plain(m.values) \subseteq Plain(n.values)
    BY <2>2, LaterSets DEF Quietly
  <2>6. TypeOf(n, cont) = "CONTINUATION" /\ n.values[cont] = c
    BY <1>1, <2>4 DEF TypeOf
  <2>7. h \in Plain(n.values) /\ \E k \in DOMAIN n.values[cont].held : h = n.values[cont].held[k]
    BY <1>4, <1>5, <1>10, <2>5, <2>6
  <2>8. Answered(n, CallNext(n, cont, h), cont, cont, E)
    BY <2>4, <2>5, <2>6, <2>7, CallNextAnswered
  <2>9. Answered(m, CallNext(n, cont, h), cont, cont, E)
    BY <2>2, <2>4, <2>8, AnsweredLater
  <2> QED  BY <2>1, <2>9
<1>11. <<retval>> \in Seq(Plain(m.values)) /\ Len(<<retval>>) = 1  OBVIOUS
<1>12. PICK none : none = <<>>  OBVIOUS
<1>13. none \in Seq(Plain(m.values)) /\ Len(none) = 0  BY <1>12
<1>14. PICK one : one = <<retval>>  OBVIOUS
<1>15. Answered(m, CallNext([m EXCEPT !.values[arr].data = one], cont, h2), cont, cont, E)
  <2>1. one \in Seq(Plain(m.values)) /\ Len(one) <= 1  BY <1>11, <1>14
  <2>2. h2 \in {h1, h2}  OBVIOUS
  <2> QED  BY <1>10, <2>1, <2>2
<1>16. Answered(m, CallNext([m EXCEPT !.values[arr].data = none], cont, h1), cont, cont, E)
  <2>1. none \in Seq(Plain(m.values)) /\ Len(none) <= 1  BY <1>13
  <2>2. h1 \in {h1, h2}  OBVIOUS
  <2> QED  BY <1>10, <2>1, <2>2
<1>17. ForCallback(m, retval, cont) \in
         {<<m, retval>>, <<m, knone>>,
          <<CallNext([m EXCEPT !.values[arr].data = one], cont, h2), cont>>,
          <<CallNext([m EXCEPT !.values[arr].data = none], cont, h1), cont>>}
  BY <1>1, <1>5, <1>8, <1>12, <1>14 DEF ForCallback
<1> QED  BY <1>7, <1>15, <1>16, <1>17

LEMMA GuardAnswered ==
  ASSUME NEW m, NEW E, Sound(m, E), NEW cont \in DOMAIN m.values,
         TypeOf(m, cont) = "CONTINUATION", m.values[cont].callback = "guard",
         NEW retval \in Plain(m.values)
  PROVE  LET answer == GuardCallback(m, retval, cont)
         IN Answered(m, answer[1], answer[2], cont, E)
<1>1. PICK x : x = Return(retval)  OBVIOUS
<1>2. x.type = "RETURN" /\ x.ret = retval  BY <1>1 DEF Return
<1>3. Fine(x, m.values, E, m.fs) /\ x.type \in Hidden
  BY <1>2 DEF Fine, Well, Types, Hidden
<1>4. Becomes(m.values[cont], x, Plain(m.values))  BY <1>2 DEF Becomes, Passing
<1>5. Answered(m, Write(m, cont, x), cont, cont, E)  BY <1>3, <1>4, AnsweredWritten
<1>6. GuardCallback(m, retval, cont) = <<Write(m, cont, x), cont>>
  BY <1>1 DEF GuardCallback, Write
<1> QED  BY <1>5, <1>6

LEMMA MatchAnswered ==
  ASSUME NEW m, NEW E, Sound(m, E), NEW cont \in DOMAIN m.values,
         TypeOf(m, cont) = "CONTINUATION", m.values[cont].callback = "match",
         NEW retval \in Plain(m.values)
  PROVE  LET answer == MatchCallback(m, retval, cont)
         IN Answered(m, answer[1], answer[2], cont, E)
<1>1. PICK c : c = m.values[cont]  OBVIOUS
<1>2. IsContinuation(c) /\ Closure(c, Plain(m.values), Slim(m.values))
  BY <1>1, ContinuationIs
<1>3. c.held \in Seq(Plain(m.values)) /\ c.index \in Nat \ {0} /\ 2 * c.index <= Len(c.held)
  BY <1>1, <1>2 DEF Closure
<1>4. /\ Len(c.held) \in Nat /\ DOMAIN c.held = 1 .. Len(c.held)
      /\ \A k \in 1 .. Len(c.held) : c.held[k] \in Plain(m.values)
  BY <1>3, LenProperties, ElementOfSeq
<1>5. knone \in Plain(m.values)  BY HeapIs DEF Sound, knone
<1>6. Answered(m, m, knone, cont, E)  BY <1>5, AnsweredPlain
<1>7. PICK next : next = c.index + 1  OBVIOUS
<1>8. PICK f : f = c.held[2 * c.index]  OBVIOUS
<1>9. PICK g : g = c.held[2 * next - 1]  OBVIOUS
<1>10. PICK y : y = [c EXCEPT !.call = f, !.callback = "NULL", !.marker = FALSE]  OBVIOUS
<1>11. PICK z : z = [c EXCEPT !.call = g, !.index = next]  OBVIOUS
<1>12. Answered(m, Write(m, cont, y), cont, cont, E)
  <2>1. 2 * c.index \in 1 .. Len(c.held)  BY <1>3, <1>4
  <2>2. f \in Plain(m.values) /\ \E k \in DOMAIN c.held : f = c.held[k]
    BY <1>4, <1>8, <2>1
  <2>3. /\ IsContinuation(y) /\ y.call = f /\ y.callback = "NULL"
        /\ y.args = c.args /\ y.held = c.held /\ Closure(y, Plain(m.values), Slim(m.values))
    <3>1. PICK callback : callback = "NULL"  OBVIOUS
    <3>2. PICK marker : marker = FALSE  OBVIOUS
    <3>3. y = [c EXCEPT !.call = f, !.callback = callback, !.marker = marker]
      BY <1>10, <3>1, <3>2
    <3>4. Alike(c, y, f, callback) /\ Closure(y, Plain(m.values), Slim(m.values))
      BY <1>2, <3>1, <3>2, <3>3, RecalledLast
    <3> QED  BY <3>1, <3>4 DEF Alike
  <2>4. Fine(y, m.values, E, m.fs) /\ y.type = "CONTINUATION"
    BY <2>2, <2>3, ContinuationFine DEF IsContinuation
  <2>5. Becomes(c, y, Plain(m.values))  BY <1>1, <2>2, <2>3, <2>4 DEF Becomes, Passing
  <2> QED  BY <1>1, <2>4, <2>5, AnsweredWritten DEF Hidden
<1>13. 2 * next <= Len(c.held) => Answered(m, Write(m, cont, z), cont, cont, E)
  <2>1. SUFFICES ASSUME 2 * next <= Len(c.held)
                 PROVE  Answered(m, Write(m, cont, z), cont, cont, E)
    OBVIOUS
  <2>2. next \in Nat \ {0} /\ 2 * next - 1 \in 1 .. Len(c.held)  BY <1>3, <1>4, <1>7, <2>1
  <2>3. g \in Plain(m.values) /\ \E k \in DOMAIN c.held : g = c.held[k]
    BY <1>4, <1>9, <2>2
  <2>4. /\ IsContinuation(z) /\ z.call = g /\ z.callback = c.callback
        /\ z.args = c.args /\ z.held = c.held /\ Closure(z, Plain(m.values), Slim(m.values))
    <3>1. PICK k \in Nat \ {0} : k = next  BY <2>2
    <3>2. z = [c EXCEPT !.call = g, !.index = k] /\ 2 * k <= Len(c.held)
      BY <1>11, <2>1, <3>1
    <3>3. Alike(c, z, g, c.callback) /\ Closure(z, Plain(m.values), Slim(m.values))
      BY <1>2, <3>2, RecalledNext
    <3> QED  BY <3>3 DEF Alike
  <2>5. Fine(z, m.values, E, m.fs) /\ z.type = "CONTINUATION"
    BY <2>3, <2>4, ContinuationFine DEF IsContinuation
  <2>6. Becomes(c, z, Plain(m.values))  BY <2>3, <2>4, <2>5 DEF Becomes, Passing
  <2> QED  BY <1>1, <2>5, <2>6, AnsweredWritten DEF Hidden
<1>14. CASE IsTrue(m, retval)
  <2>1. MatchCallback(m, retval, cont) =
          <<[m EXCEPT !.values[cont].call = f, !.values[cont].callback = "NULL",
                      !.values[cont].marker = FALSE], cont>>
    BY <1>1, <1>8, <1>14 DEF MatchCallback
  <2>2. [m EXCEPT !.values[cont].call = f, !.values[cont].callback = "NULL",
                  !.values[cont].marker = FALSE] = Write(m, cont, y)
    BY <1>1, <1>10 DEF Write
  <2> QED  BY <1>12, <2>1, <2>2
<1>15. CASE ~IsTrue(m, retval) /\ 2 * next > Len(c.held)
  <2>1. MatchCallback(m, retval, cont) = <<m, knone>>
    BY <1>1, <1>7, <1>15 DEF MatchCallback
  <2> QED  BY <1>6, <2>1
<1>16. CASE ~IsTrue(m, retval) /\ 2 * next <= Len(c.held)
  <2>1. MatchCallback(m, retval, cont) =
          <<[m EXCEPT !.values[cont].call = g, !.values[cont].index = next], cont>>
    <3>1. ~(2 * next > Len(c.held))  BY <1>3, <1>4, <1>7, <1>16
    <3> QED  BY <1>1, <1>7, <1>9, <1>16, <3>1 DEF MatchCallback
  <2>2. [m EXCEPT !.values[cont].call = g, !.values[cont].index = next] = Write(m, cont, z)
    BY <1>1, <1>11 DEF Write
  <2> QED  BY <1>13, <1>16, <2>1, <2>2
<1>17. 2 * next > Len(c.held) \/ 2 * next <= Len(c.held)  BY <1>3, <1>4, <1>7
<1> QED  BY <1>14, <1>15, <1>16, <1>17

LEMMA CallBackAnswered ==
  ASSUME NEW m, NEW E, Sound(m, E), NEW cont \in DOMAIN m.values,
         TypeOf(m, cont) = "CONTINUATION", m.values[cont].callback # "NULL",
         NEW retval \in Plain(m.values)
  PROVE  LET answer == CallBack(m, retval, cont)
         IN Answered(m, answer[1], answer[2], cont, E)
<1>1. PICK name : name = m.values[cont].callback  OBVIOUS
<1>2. name \in {"loop", "while", "for", "guard", "match"}
  BY <1>1, ContinuationIs DEF Closure
<1>3. CASE name = "loop"
  <2>1. CallBack(m, retval, cont) = LoopCallback(m, retval, cont)  BY <1>1, <1>3 DEF CallBack
  <2> QED  BY <2>1, LoopAnswered
<1>4. CASE name = "while"
  <2>1. CallBack(m, retval, cont) = WhileCallback(m, retval, cont)  BY <1>1, <1>4 DEF CallBack
  <2> QED  BY <1>1, <1>4, <2>1, WhileAnswered
<1>5. CASE name = "for"
  <2>1. CallBack(m, retval, cont) = ForCallback(m, retval, cont)  BY <1>1, <1>5 DEF CallBack
  <2> QED  BY <1>1, <1>5, <2>1, ForAnswered
<1>6. CASE name = "guard"
  <2>1. CallBack(m, retval, cont) = GuardCallback(m, retval, cont)  BY <1>1, <1>6 DEF CallBack
  <2> QED  BY <1>1, <1>6, <2>1, GuardAnswered
<1>7. CASE name = "match"
  <2>1. CallBack(m, retval, cont) = MatchCallback(m, retval, cont)  BY <1>1, <1>7 DEF CallBack
  <2> QED  BY <1>1, <1>7, <2>1, MatchAnswered
<1> QED  BY <1>2, <1>3, <1>4, <1>5, <1>6, <1>7

-----------------------------------------------------------------------------
(* The end of a step. *)

Stays(m, r) ==
  /\ r.halted = m.halted /\ r.check = m.check /\ r.iptr = m.iptr
  /\ r.stack = m.stack /\ r.fstack = m.fstack
  /\ \A i \in 1 .. Len(m.stack) : r.values[m.stack[i]] = m.values[m.stack[i]]
  /\ \A f \in 1 .. Len(m.fstack) : r.values[m.fstack[f].args] = m.values[m.fstack[f].args]

\* What the collector leaves is the machine it was given, for all that is said here.
LEMMA CollectSame ==
  ASSUME NEW m, NEW E, Sound(m, E)
  PROVE  Sound(Collect(m), E) /\ Stays(m, Collect(m))
<1>1. PICK r : r = Collect(m)  OBVIOUS
<1>2. Collected(m, r, E)  BY <1>1, CollectSound
<1>3. /\ Sound(r, E) /\ Beside(m, r) /\ r.stack = m.stack
      /\ \A id \in DOMAIN r.values : r.values[id] = m.values[id]
  BY <1>2 DEF Collected
<1>4. \A i \in 1 .. Len(m.stack) : m.stack[i] \in DOMAIN r.values  BY <1>3, StackIs
<1>5. \A f \in 1 .. Len(m.fstack) : m.fstack[f].args \in DOMAIN r.values
  BY <1>3, FramesAre DEF Beside, Plain
<1> QED  BY <1>1, <1>3, <1>4, <1>5 DEF Stays, Beside

LEMMA FinishIs ==
  ASSUME VmInv, NEW m, Sound(m, Entries), Finish(m)
  PROVE  /\ Sound(vm', Entries) /\ Stays(m, vm')
         /\ program' = program /\ eager' = eager /\ collections' \in 0 .. MaxCollections
<1>1. Stays(m, m)  BY DEF Stays
<1>2. Sound(Collect(m), Entries) /\ Stays(m, Collect(m))  BY CollectSame
<1>3. vm' = m \/ vm' = Collect(m)  BY DEF Finish
<1>4. collections \in 0 .. MaxCollections /\ MaxCollections \in Nat
  BY VmAssumption DEF VmInv
<1>5. collections' = collections \/ (collections < MaxCollections /\ collections' = collections + 1)
  BY DEF Finish
<1> QED  BY <1>1, <1>2, <1>3, <1>4, <1>5 DEF Finish

LEMMA KindsSame ==
  ASSUME NEW m, NEW E, Sound(m, E), NEW r, Stays(m, r)
  PROVE  SlotKinds(r) = SlotKinds(m)
<1>1. DOMAIN m.stack = 1 .. Len(m.stack)  BY StackIs
<1>2. r.stack = m.stack /\ \A i \in DOMAIN m.stack : r.values[m.stack[i]] = m.values[m.stack[i]]
  BY <1>1 DEF Stays
<1>3. \A i \in DOMAIN m.stack : Kind(r, m.stack[i]) = Kind(m, m.stack[i])
  BY <1>2 DEF Kind, TypeOf
<1> QED  BY <1>2, <1>3 DEF SlotKinds

LEMMA ActivationsSame ==
  ASSUME NEW m, program' = program, Stays(m, vm')
  PROVE  Activations(vm)' = Activations(m)
BY DEF Activations, GoesOn, Base, Stays, Height

\* What is said of the machine when a step is at its end.
Ready(m) ==
  /\ Sound(m, Entries)
  /\ m.iptr \in 1 .. Len(Code) + 1
  /\ Len(m.stack) <= StackSize /\ Len(m.fstack) <= StackSize
  /\ m.halted = FALSE => Framed(m) /\ Bare(m) /\ Within(m)

LEMMA ReadyAfter ==
  ASSUME VmInv, NEW m, Ready(m), Finish(m), PP!IInv'
  PROVE  VmInv'
<1>1. /\ Sound(vm', Entries) /\ Stays(m, vm')
      /\ program' = program /\ eager' = eager /\ collections' \in 0 .. MaxCollections
  BY FinishIs DEF Ready
<1>2. Code' = Code  BY <1>1 DEF Code
<1>3. Entries' = Entries  BY <1>2 DEF Entries
<1>4. Sound(vm, Entries)'  BY <1>1, <1>3
<1>5. /\ vm'.iptr = m.iptr /\ vm'.stack = m.stack /\ vm'.fstack = m.fstack
      /\ vm'.halted = m.halted /\ vm'.check = m.check
  BY <1>1 DEF Stays
<1>6. (vm.iptr \in 1 .. Len(Code) + 1)'  BY <1>2, <1>5 DEF Ready
<1>7. ASSUME m.halted = FALSE  PROVE (Framed(vm) /\ Bare(vm) /\ Within(vm))'
  <2>1. Framed(m) /\ Bare(m) /\ Within(m)  BY <1>7 DEF Ready
  <2>2. /\ Len(m.fstack) \in Nat /\ DOMAIN m.stack = 1 .. Len(m.stack)
    BY StackIs, FramesAre DEF Ready
  <2>3. /\ \A i \in 1 .. Len(m.stack) : vm'.values[m.stack[i]] = m.values[m.stack[i]]
        /\ \A f \in 1 .. Len(m.fstack) :
             vm'.values[m.fstack[f].args] = m.values[m.fstack[f].args]
    BY <1>1 DEF Stays
  <2>4. \A f \in 2 .. Len(m.fstack) : Placed(m, f) => Placed(vm, f)'
    BY <1>2, <1>5 DEF Placed, GoesOn, BodyOf
  <2>5. Framed(vm)'
    BY <1>5, <2>1, <2>2, <2>3, <2>4 DEF Framed, TypeOf
  <2>6. Bare(vm)'  BY <1>5, <2>1, <2>2, <2>3 DEF Bare, TypeOf
  <2>7. Within(vm)'  BY <1>5, <2>1, <2>2, <2>3 DEF Within, TypeOf, Room
  <2> QED  BY <2>5, <2>6, <2>7
<1>8. m.halted \in BOOLEAN  BY DEF Ready, Sound
<1>9. ~vm'.halted => (Framed(vm) /\ Bare(vm) /\ Within(vm))'  BY <1>5, <1>7, <1>8
<1>10. program' \in DOMAIN Programs /\ eager' \in BOOLEAN  BY <1>1 DEF VmInv
<1>11. Len(vm'.stack) <= StackSize /\ Len(vm'.fstack) <= StackSize  BY <1>5 DEF Ready
<1> QED  BY <1>1, <1>4, <1>6, <1>9, <1>10, <1>11 DEF VmInv

-----------------------------------------------------------------------------
(* The machine as Calls sees it. *)

LEMMA InvIs ==
  ASSUME PP!IInv, vm.halted = FALSE
  PROVE  /\ SlotKinds(vm) \in Seq(PP!Kinds)
         /\ PP!InOrder(SlotKinds(vm), Activations(vm)) /\ PP!Alone(SlotKinds(vm))
         /\ LET last == Activations(vm)[Len(Activations(vm))]
            IN IF vm.check
               THEN Len(SlotKinds(vm)) > 0
                    /\ PP!Waits(SlotKinds(vm), last, Len(SlotKinds(vm)) - 1)
               ELSE /\ PP!Own(SlotKinds(vm), last, last.want)
                    /\ Len(SlotKinds(vm)) = last.base + last.want
BY DEF PP!IInv, PP!Top

\* What the machine becomes; the actions of Calls, said of two machines.
Last == Activations(vm)[Len(Activations(vm))]
Wanting(n) == [Activations(vm) EXCEPT ![Len(Activations(vm))].want = n]

LEMMA Primes ==
  ASSUME VmInv, NEW m, Ready(m), Finish(m)
  PROVE  /\ SlotKinds(vm)' = SlotKinds(m) /\ Activations(vm)' = Activations(m)
         /\ vm'.halted = m.halted /\ vm'.check = m.check
<1>1. Sound(m, Entries)  BY DEF Ready
<1>2. Sound(vm', Entries) /\ Stays(m, vm') /\ program' = program  BY <1>1, FinishIs
<1>3. SlotKinds(vm') = SlotKinds(m)  BY <1>1, <1>2, KindsSame
<1>4. SlotKinds(vm)' = SlotKinds(vm')  BY DEF SlotKinds, Kind, TypeOf
<1> QED  BY <1>2, <1>3, <1>4, ActivationsSame DEF Stays

LEMMA StepPush ==
  ASSUME VmInv, vm.halted = FALSE, vm.check = FALSE, NEW m, Ready(m), Finish(m),
         m.halted = FALSE, m.check = FALSE,
         SlotKinds(m) = Append(SlotKinds(vm), "value"),
         Activations(m) = Wanting(Last.want + 1)
  PROVE  VmInv' /\ PP!Next
<1>0. /\ SlotKinds(vm)' = SlotKinds(m) /\ Activations(vm)' = Activations(m)
      /\ vm'.halted = m.halted /\ vm'.check = m.check
  BY Primes
<1>1. (IF vm.halted THEN <<>> ELSE SlotKinds(vm))' =
      Append(IF vm.halted THEN <<>> ELSE SlotKinds(vm), "value")
  BY <1>0
<1>2. (IF vm.halted THEN <<>> ELSE Activations(vm))' = PP!Wants(PP!Top.want + 1)
  <2>1. PP!Wants(PP!Top.want + 1) = Wanting(Last.want + 1)
    BY DEF PP!Wants, PP!Top, Wanting, Last
  <2>2. (IF vm.halted THEN <<>> ELSE Activations(vm))' = Activations(vm)'  BY <1>0
  <2> QED  BY <1>0, <2>1, <2>2
<1>3. UNCHANGED <<~vm.halted /\ vm.check, vm.halted>> /\ PP!Running
  BY <1>0 DEF PP!Running
<1>4. PP!PushValue  BY <1>1, <1>2, <1>3 DEF PP!PushValue
<1>5. PP!Next  BY <1>4 DEF PP!Next
<1>6. PP!IInv'  BY <1>5, PP!StepProtocol DEF VmInv
<1> QED  BY <1>5, <1>6, ReadyAfter

LEMMA StepDrop ==
  ASSUME VmInv, vm.halted = FALSE, vm.check = FALSE, NEW m, Ready(m), Finish(m),
         m.halted = FALSE, m.check = FALSE,
         NEW n \in 0 .. Len(SlotKinds(vm)), n <= Last.want,
         SlotKinds(m) = SubSeq(SlotKinds(vm), 1, Len(SlotKinds(vm)) - n),
         Activations(m) = Wanting(Last.want - n)
  PROVE  VmInv' /\ PP!Next
<1>0. /\ SlotKinds(vm)' = SlotKinds(m) /\ Activations(vm)' = Activations(m)
      /\ vm'.halted = m.halted /\ vm'.check = m.check
  BY Primes
<1>1. PICK stk : stk = SlotKinds(vm)  OBVIOUS
<1>2. (IF vm.halted THEN <<>> ELSE SlotKinds(vm))' = SubSeq(stk, 1, Len(stk) - n)
  BY <1>0, <1>1
<1>3. (IF vm.halted THEN <<>> ELSE SlotKinds(vm)) = stk  BY <1>1
<1>4. (IF vm.halted THEN <<>> ELSE Activations(vm))' = PP!Wants(PP!Top.want - n)
      /\ n <= PP!Top.want
  <2>1. PP!Wants(PP!Top.want - n) = Wanting(Last.want - n)
    BY DEF PP!Wants, PP!Top, Wanting, Last
  <2>2. (IF vm.halted THEN <<>> ELSE Activations(vm))' = Activations(vm)'  BY <1>0
  <2>3. PP!Top = Last  BY DEF PP!Top, Last
  <2> QED  BY <1>0, <2>1, <2>2, <2>3
<1>5. UNCHANGED <<~vm.halted /\ vm.check, vm.halted>> /\ PP!Running
  BY <1>0 DEF PP!Running
<1>6. PP!DropValues(n)  BY <1>2, <1>3, <1>4, <1>5 DEF PP!DropValues
<1>7. PP!Next  BY <1>1, <1>3, <1>6 DEF PP!Next
<1>8. PP!IInv'  BY <1>7, PP!StepProtocol DEF VmInv
<1> QED  BY <1>7, <1>8, ReadyAfter

LEMMA StepCall ==
  ASSUME VmInv, vm.halted = FALSE, vm.check = FALSE, NEW m, Ready(m), Finish(m),
         m.halted = FALSE, m.check = FALSE,
         NEW n \in 0 .. Len(SlotKinds(vm)), n < Last.want, NEW sptr,
         sptr = Len(SlotKinds(vm)) - n - 1,
         SlotKinds(m) = Append(SubSeq(SlotKinds(vm), 1, sptr), "value"),
         Activations(m) = Append(Wanting(Last.want - n), PP!Began(sptr, sptr + 1))
  PROVE  VmInv' /\ PP!Next
<1>0. /\ SlotKinds(vm)' = SlotKinds(m) /\ Activations(vm)' = Activations(m)
      /\ vm'.halted = m.halted /\ vm'.check = m.check
  BY Primes
<1>1. PICK stk : stk = SlotKinds(vm)  OBVIOUS
<1>2. (IF vm.halted THEN <<>> ELSE SlotKinds(vm)) = stk  BY <1>1
<1>3. (IF vm.halted THEN <<>> ELSE SlotKinds(vm))' = PP!Above(sptr, "value")
  BY <1>0, <1>1, <1>2 DEF PP!Above
<1>4. /\ (IF vm.halted THEN <<>> ELSE Activations(vm))' =
           Append(PP!Wants(PP!Top.want - n), PP!Began(sptr, sptr + 1))
      /\ n < PP!Top.want
  <2>1. PP!Wants(PP!Top.want - n) = Wanting(Last.want - n)
    BY DEF PP!Wants, PP!Top, Wanting, Last
  <2>2. (IF vm.halted THEN <<>> ELSE Activations(vm))' = Activations(vm)'  BY <1>0
  <2>3. PP!Top = Last  BY DEF PP!Top, Last
  <2> QED  BY <1>0, <2>1, <2>2, <2>3
<1>5. UNCHANGED <<~vm.halted /\ vm.check, vm.halted>> /\ PP!Running
  BY <1>0 DEF PP!Running
<1>6. PP!Call(n)
  <2>1. sptr = Len(IF vm.halted THEN <<>> ELSE SlotKinds(vm)) - n - 1  BY <1>1, <1>2
  <2> QED  BY <1>3, <1>4, <1>5, <2>1 DEF PP!Call
<1>7. PP!Next  BY <1>1, <1>2, <1>6 DEF PP!Next
<1>8. PP!IInv'  BY <1>7, PP!StepProtocol DEF VmInv
<1> QED  BY <1>7, <1>8, ReadyAfter

LEMMA StepCallC ==
  ASSUME VmInv, vm.halted = FALSE, vm.check = FALSE, NEW m, Ready(m), Finish(m),
         m.halted = FALSE, m.check = TRUE,
         NEW n \in 0 .. Len(SlotKinds(vm)), n < Last.want,
         NEW kind \in PP!Kinds \ {"value"},
         SlotKinds(m) = Append(SubSeq(SlotKinds(vm), 1, Len(SlotKinds(vm)) - n - 1), kind),
         Activations(m) = Wanting(Last.want - n)
  PROVE  VmInv' /\ PP!Next
<1>0. /\ SlotKinds(vm)' = SlotKinds(m) /\ Activations(vm)' = Activations(m)
      /\ vm'.halted = m.halted /\ vm'.check = m.check
  BY Primes
<1>1. PICK stk : stk = SlotKinds(vm)  OBVIOUS
<1>2. (IF vm.halted THEN <<>> ELSE SlotKinds(vm)) = stk  BY <1>1
<1>3. (IF vm.halted THEN <<>> ELSE SlotKinds(vm))' = PP!Above(Len(stk) - n - 1, kind)
  BY <1>0, <1>1, <1>2 DEF PP!Above
<1>4. /\ (IF vm.halted THEN <<>> ELSE Activations(vm))' = PP!Wants(PP!Top.want - n)
      /\ n < PP!Top.want
  <2>1. PP!Wants(PP!Top.want - n) = Wanting(Last.want - n)
    BY DEF PP!Wants, PP!Top, Wanting, Last
  <2>2. (IF vm.halted THEN <<>> ELSE Activations(vm))' = Activations(vm)'  BY <1>0
  <2>3. PP!Top = Last  BY DEF PP!Top, Last
  <2> QED  BY <1>0, <2>1, <2>2, <2>3
<1>5. (~vm.halted /\ vm.check)' = TRUE /\ UNCHANGED vm.halted /\ PP!Running
  BY <1>0 DEF PP!Running
<1>6. PP!CallC(n, kind)  BY <1>2, <1>3, <1>4, <1>5 DEF PP!CallC
<1>7. PP!Next  BY <1>1, <1>2, <1>6 DEF PP!Next
<1>8. PP!IInv'  BY <1>7, PP!StepProtocol DEF VmInv
<1> QED  BY <1>7, <1>8, ReadyAfter

LEMMA StepLoad ==
  ASSUME VmInv, vm.halted = FALSE, vm.check = FALSE, NEW m, Ready(m), Finish(m),
         m.halted = FALSE, m.check = FALSE, SlotKinds(m) = SlotKinds(vm),
         NEW sptr, sptr = Len(SlotKinds(vm)),
         Activations(m) = Append(Wanting(Last.want + 1), PP!Began(sptr, sptr))
  PROVE  VmInv' /\ PP!Next
<1>0. /\ SlotKinds(vm)' = SlotKinds(m) /\ Activations(vm)' = Activations(m)
      /\ vm'.halted = m.halted /\ vm'.check = m.check
  BY Primes
<1>1. PICK stk : stk = SlotKinds(vm)  OBVIOUS
<1>2. (IF vm.halted THEN <<>> ELSE SlotKinds(vm)) = stk  BY <1>1
<1>3. (IF vm.halted THEN <<>> ELSE SlotKinds(vm))' = (IF vm.halted THEN <<>> ELSE SlotKinds(vm))
  BY <1>0
<1>4. (IF vm.halted THEN <<>> ELSE Activations(vm))' =
           Append(PP!Wants(PP!Top.want + 1), PP!Began(sptr, sptr))
  <2>1. PP!Wants(PP!Top.want + 1) = Wanting(Last.want + 1)
    BY DEF PP!Wants, PP!Top, Wanting, Last
  <2>2. (IF vm.halted THEN <<>> ELSE Activations(vm))' = Activations(vm)'  BY <1>0
  <2> QED  BY <1>0, <2>1, <2>2
<1>5. UNCHANGED <<~vm.halted /\ vm.check, vm.halted>> /\ PP!Running
  BY <1>0 DEF PP!Running
<1>6. PP!LoadModule
  <2>1. sptr = Len(IF vm.halted THEN <<>> ELSE SlotKinds(vm))  BY <1>1, <1>2
  <2> QED  BY <1>3, <1>4, <1>5, <2>1 DEF PP!LoadModule
<1>7. PP!Next  BY <1>6 DEF PP!Next
<1>8. PP!IInv'  BY <1>7, PP!StepProtocol DEF VmInv
<1> QED  BY <1>7, <1>8, ReadyAfter

\* A module's frame is left, or the frame of an assertion that failed.
LEMMA StepLeave ==
  ASSUME VmInv, vm.halted = FALSE, vm.check = FALSE, NEW m, Ready(m), Finish(m),
         m.halted = FALSE, m.check = FALSE, Len(Activations(vm)) > 1,
         \/ Last.base = Last.sptr
         \/ ~PP!IsContinuation(Last.sptr),
         SlotKinds(m) = Append(SubSeq(SlotKinds(vm), 1, Last.sptr), "value"),
         Activations(m) = SubSeq(Activations(vm), 1, Len(Activations(vm)) - 1)
  PROVE  VmInv' /\ PP!Next
<1>0. /\ SlotKinds(vm)' = SlotKinds(m) /\ Activations(vm)' = Activations(m)
      /\ vm'.halted = m.halted /\ vm'.check = m.check
  BY Primes
<1>1. PICK stk : stk = SlotKinds(vm)  OBVIOUS
<1>2. (IF vm.halted THEN <<>> ELSE SlotKinds(vm)) = stk  BY <1>1
<1>3. PICK frs : frs = Activations(vm)  OBVIOUS
<1>4. (IF vm.halted THEN <<>> ELSE Activations(vm)) = frs  BY <1>3
<1>5. PP!Top = Last /\ Last = frs[Len(frs)]  BY <1>3, <1>4 DEF PP!Top, Last
<1>6. (IF vm.halted THEN <<>> ELSE SlotKinds(vm))' = PP!Above(PP!Top.sptr, "value")
  BY <1>0, <1>1, <1>2, <1>5 DEF PP!Above
<1>7. (IF vm.halted THEN <<>> ELSE Activations(vm))' = PP!FramesUpTo(Len(frs) - 1)
  <2>1. (IF vm.halted THEN <<>> ELSE Activations(vm))' = Activations(vm)'  BY <1>0
  <2> QED  BY <1>0, <1>3, <1>4, <2>1 DEF PP!FramesUpTo
<1>8. UNCHANGED <<~vm.halted /\ vm.check, vm.halted>> /\ PP!Running
  BY <1>0 DEF PP!Running
<1>9. CASE Last.base = Last.sptr
  <2>1. PP!IsModule(Len(frs))  BY <1>3, <1>4, <1>5, <1>9 DEF PP!IsModule
  <2>2. PP!ModRet  BY <1>4, <1>6, <1>7, <1>8, <2>1 DEF PP!ModRet
  <2>3. PP!Next  BY <2>2 DEF PP!Next
  <2>4. PP!IInv'  BY <2>3, PP!StepProtocol DEF VmInv
  <2> QED  BY <2>3, <2>4, ReadyAfter
<1>10. CASE ~PP!IsContinuation(Last.sptr)
  <2>1. ~PP!IsContinuation(PP!Top.sptr)  BY <1>5, <1>10
  <2>2. PP!AssertFails  BY <1>3, <1>4, <1>6, <1>7, <1>8, <2>1 DEF PP!AssertFails
  <2>3. PP!Next  BY <2>2 DEF PP!Next
  <2>4. PP!IInv'  BY <2>3, PP!StepProtocol DEF VmInv
  <2> QED  BY <2>3, <2>4, ReadyAfter
<1> QED  BY <1>9, <1>10

LEMMA StepStop ==
  ASSUME VmInv, vm.halted = FALSE, NEW m, Ready(m), Finish(m), m.halted = TRUE
  PROVE  VmInv' /\ PP!Next
<1>0. vm'.halted = m.halted  BY Primes
<1>1. /\ (IF vm.halted THEN <<>> ELSE SlotKinds(vm))' = <<>>
      /\ (IF vm.halted THEN <<>> ELSE Activations(vm))' = <<>>
      /\ (~vm.halted /\ vm.check)' = FALSE /\ vm.halted' = TRUE
  BY <1>0
<1>2. PP!Stop  BY <1>1 DEF PP!Stop
<1>3. PP!Next  BY <1>2 DEF PP!Next
<1>4. PP!IInv'  BY <1>3, PP!StepProtocol DEF VmInv
<1> QED  BY <1>3, <1>4, ReadyAfter

-----------------------------------------------------------------------------
(* The code. *)

H(p) == Heights(Code)[p]

\* What is known of an instruction that the machine gets to.
Legal(p) ==
  /\ Code[p].op \in Operations
  /\ Code[p].op \in {"FUNC_CALL", "ALLOC_ARRAY", "RJMP"} => Code[p].n \in Nat
  /\ H(p) \in Nat /\ Takes(Code[p]) <= H(p)
  /\ Code[p].op \in {"STACK_FRAME_GET_ARG", "NAMED_PARAM", "ASSERT", "RET"} =>
       Bodies(Code)[p] = "function"
  /\ Code[p].op = "MOD_RET" => Bodies(Code)[p] = "module"
  /\ Code[p].op = "ALLOC_FUNCTION" => Code[p].n \in Entries
  /\ Code[p].op = "LOAD_MODULE" =>
       Code[p].n \in DOMAIN Code /\ Bodies(Code)[Code[p].n] = "module" /\ H(Code[p].n) = 0
  /\ \A q \in Follow(Code, p) :
       q \in DOMAIN Code /\ Bodies(Code)[q] = Bodies(Code)[p]
       /\ H(q) = H(p) + Effect(Code[p])

LEMMA CodeIs ==
  ASSUME program \in DOMAIN Programs
  PROVE  /\ Len(Code) \in Nat /\ DOMAIN Code = 1 .. Len(Code)
         /\ 1 \in DOMAIN Code /\ Bodies(Code)[1] = "program" /\ H(1) = 0
         /\ \A p \in DOMAIN Code : Bodies(Code)[p] # "data" => Legal(p)
<1>1. Verified(Code)  BY ProgramsVerified DEF Code
<1>2. PICK code : code = Code  OBVIOUS
<1>3. PICK height : height = Heights(code)  OBVIOUS
<1>4. PICK body : body = Bodies(code)  OBVIOUS
<1>5. Verified(code)  BY <1>1, <1>2
<1>6. /\ Len(code) \in Nat /\ DOMAIN code = 1 .. Len(code)
      /\ 1 \in DOMAIN code /\ body[1] = "program" /\ height[1] = 0
  BY <1>3, <1>4, <1>5 DEF Verified
<1>7. ASSUME NEW p \in DOMAIN code, body[p] # "data"
      PROVE  /\ code[p].op \in Operations
             /\ code[p].op \in {"FUNC_CALL", "ALLOC_ARRAY", "RJMP"} => code[p].n \in Nat
             /\ height[p] \in Nat /\ Takes(code[p]) <= height[p]
             /\ code[p].op \in {"STACK_FRAME_GET_ARG", "NAMED_PARAM", "ASSERT", "RET"} =>
                  body[p] = "function"
             /\ code[p].op = "MOD_RET" => body[p] = "module"
             /\ code[p].op = "ALLOC_FUNCTION" =>
                  code[p].n \in DOMAIN code /\ body[code[p].n] = "function"
                  /\ height[code[p].n] = 0
             /\ code[p].op = "LOAD_MODULE" =>
                  code[p].n \in DOMAIN code /\ body[code[p].n] = "module"
                  /\ height[code[p].n] = 0
             /\ \A q \in Follow(code, p) :
                  q \in DOMAIN code /\ body[q] = body[p]
                  /\ height[q] = height[p] + Effect(code[p])
  BY <1>3, <1>4, <1>5, <1>7 DEF Verified
<1>8. ASSUME NEW p \in DOMAIN Code, Bodies(Code)[p] # "data"  PROVE Legal(p)
  <2>1. p \in DOMAIN code /\ body[p] # "data"  BY <1>2, <1>4, <1>8
  <2> QED  BY <1>2, <1>3, <1>4, <1>7, <2>1 DEF Legal, H, Entries
<1> QED  BY <1>2, <1>3, <1>4, <1>6, <1>8 DEF H

LEMMA EffectIs ==
  ASSUME NEW p, Legal(p)
  PROVE  /\ Takes(Code[p]) \in Nat /\ Effect(Code[p]) \in Int
         /\ Effect(Code[p]) <= 1 /\ -Effect(Code[p]) <= Takes(Code[p])
<1>1. PICK i : i = Code[p]  OBVIOUS
<1>2. PICK n : n = i.n  OBVIOUS
<1>3. i.op \in Operations /\ (i.op \in {"FUNC_CALL", "ALLOC_ARRAY"} => n \in Nat)
  BY <1>1, <1>2 DEF Legal
<1>4. Takes(i) \in Nat /\ Effect(i) \in Int /\ Effect(i) <= 1 /\ -Effect(i) <= Takes(i)
  <2>1. CASE i.op \in {"FUNC_CALL", "ALLOC_ARRAY"}
    BY <1>2, <1>3, <2>1 DEF Takes, Effect
  <2>2. CASE i.op \notin {"FUNC_CALL", "ALLOC_ARRAY"}
    BY <1>3, <2>2 DEF Takes, Effect, Operations
  <2> QED  BY <2>1, <2>2
<1> QED  BY <1>1, <1>4

-----------------------------------------------------------------------------
(* Before an instruction. *)

LEMMA ActivationsAre ==
  ASSUME NEW m, Sound(m, Entries), program \in DOMAIN Programs
  PROVE  /\ Len(Activations(m)) = Len(m.fstack) - 1
         /\ DOMAIN Activations(m) = 1 .. Len(m.fstack) - 1
         /\ Activations(m) =
              [f \in 1 .. Len(m.fstack) - 1 |->
                 [sptr |-> m.fstack[f + 1].sptr, base |-> Base(m.fstack[f + 1]),
                  want |-> H(GoesOn(m, f + 1))]]
         /\ \A f \in 1 .. Len(m.fstack) - 1 :
              Activations(m)[f] = [sptr |-> m.fstack[f + 1].sptr,
                                   base |-> Base(m.fstack[f + 1]),
                                   want |-> H(GoesOn(m, f + 1))]
<1>1. Len(m.fstack) \in Nat /\ Len(m.fstack) >= 2  BY FramesAre
<1>2. \A p : Height[program][p] = H(p)  BY DEF Height, H, Code
<1>3. Activations(m) = [f \in 1 .. Len(m.fstack) - 1 |->
                         [sptr |-> m.fstack[f + 1].sptr, base |-> Base(m.fstack[f + 1]),
                          want |-> H(GoesOn(m, f + 1))]]
  BY <1>2 DEF Activations
<1>4. PICK n : n = Len(m.fstack) - 1  OBVIOUS
<1>5. n \in Nat  BY <1>1, <1>4
<1>6. Len(Activations(m)) = n  BY <1>3, <1>4, <1>5
<1> QED  BY <1>3, <1>4, <1>6

LEMMA Here ==
  ASSUME VmInv, vm.halted = FALSE
  PROVE  /\ Sound(vm, Entries)
         /\ vm.iptr \in DOMAIN Code /\ Bodies(Code)[vm.iptr] = BodyOf(Frame(vm))
         /\ Legal(vm.iptr)
         /\ Last = [sptr |-> Frame(vm).sptr, base |-> Base(Frame(vm)), want |-> H(vm.iptr)]
         /\ Len(Activations(vm)) = Len(vm.fstack) - 1
<1>1. Sound(vm, Entries) /\ Framed(vm) /\ program \in DOMAIN Programs  BY DEF VmInv
<1>2. Len(vm.fstack) \in Nat /\ Len(vm.fstack) >= 2 /\ Frame(vm) = vm.fstack[Len(vm.fstack)]
  BY <1>1, FramesAre
<1>3. Placed(vm, Len(vm.fstack))  BY <1>1, <1>2 DEF Framed
<1>4. GoesOn(vm, Len(vm.fstack)) = vm.iptr  BY DEF GoesOn
<1>5. vm.iptr \in DOMAIN Code /\ Bodies(Code)[vm.iptr] = BodyOf(Frame(vm))
  BY <1>2, <1>3, <1>4 DEF Placed
<1>6. BodyOf(Frame(vm)) # "data"  BY DEF BodyOf
<1>7. Legal(vm.iptr)  BY <1>1, <1>5, <1>6, CodeIs
<1>8. Len(Activations(vm)) = Len(vm.fstack) - 1  BY <1>1, ActivationsAre
<1>9. Last = [sptr |-> Frame(vm).sptr, base |-> Base(Frame(vm)), want |-> H(vm.iptr)]
  <2>1. Len(vm.fstack) - 1 \in 1 .. Len(vm.fstack) - 1 /\ Len(vm.fstack) - 1 + 1 = Len(vm.fstack)
    BY <1>2
  <2> QED  BY <1>1, <1>2, <1>4, <1>8, <2>1, ActivationsAre DEF Last
<1> QED  BY <1>1, <1>5, <1>7, <1>8, <1>9

LEMMA KindsAre ==
  ASSUME NEW m, NEW E, Sound(m, E)
  PROVE  /\ Len(SlotKinds(m)) = Len(m.stack) /\ DOMAIN SlotKinds(m) = 1 .. Len(m.stack)
         /\ \A i \in 1 .. Len(m.stack) : SlotKinds(m)[i] = Kind(m, m.stack[i])
         /\ SlotKinds(m) = [i \in 1 .. Len(m.stack) |-> Kind(m, m.stack[i])]
         /\ SlotKinds(m) \in Seq(PP!Kinds)
<1>1. DOMAIN m.stack = 1 .. Len(m.stack) /\ Len(m.stack) \in Nat  BY StackIs
<1>2. SlotKinds(m) = [i \in 1 .. Len(m.stack) |-> Kind(m, m.stack[i])]  BY <1>1 DEF SlotKinds
<1>3. \A i \in 1 .. Len(m.stack) : Kind(m, m.stack[i]) \in PP!Kinds
  BY DEF Kind, PP!Kinds, PP!Continuations
<1>4. Len(SlotKinds(m)) = Len(m.stack)  BY <1>1, <1>2
<1>5. SlotKinds(m) \in Seq(PP!Kinds)  BY <1>1, <1>2, <1>3
<1> QED  BY <1>2, <1>4, <1>5

LEMMA KindIs ==
  ASSUME NEW m, NEW id
  PROVE  /\ id \in Plain(m.values) => Kind(m, id) = "value"
         /\ Kind(m, id) = "value" /\ id \in DOMAIN m.values => id \in Plain(m.values)
         /\ Kind(m, id) \in {"passing", "answering"} <=> TypeOf(m, id) = "CONTINUATION"
         /\ Kind(m, id) = "return" <=> TypeOf(m, id) = "RETURN"
         /\ TypeOf(m, id) = "CONTINUATION" =>
              (Kind(m, id) = "passing" <=> Passing(m.values[id]))
BY DEF Kind, Plain, Hidden, TypeOf, Passing

\* The frame's own values are a program's.
LEMMA OwnSlots ==
  ASSUME VmInv, vm.halted = FALSE, vm.check = FALSE
  PROVE  /\ Base(Frame(vm)) \in Nat /\ H(vm.iptr) \in Nat
         /\ Len(vm.stack) = Base(Frame(vm)) + H(vm.iptr)
         /\ \A i \in 1 .. Len(vm.stack) :
              i >= Base(Frame(vm)) => vm.stack[i] \in Plain(vm.values)
<1>1. Sound(vm, Entries) /\ Legal(vm.iptr)
      /\ Last = [sptr |-> Frame(vm).sptr, base |-> Base(Frame(vm)), want |-> H(vm.iptr)]
  BY Here
<1>2. PP!Own(SlotKinds(vm), Last, Last.want) /\ Len(SlotKinds(vm)) = Last.base + Last.want
  BY InvIs DEF VmInv, Last
<1>3. Frame(vm).sptr \in Nat /\ Frame(vm) \in StackFrame(vm.values)
  BY <1>1, FramesAre
<1>4. Base(Frame(vm)) \in Nat  BY <1>3 DEF Base
<1>5. H(vm.iptr) \in Nat  BY <1>1 DEF Legal
<1>6. Len(SlotKinds(vm)) = Len(vm.stack) /\ Len(vm.stack) \in Nat
      /\ \A i \in 1 .. Len(vm.stack) : SlotKinds(vm)[i] = Kind(vm, vm.stack[i])
  BY <1>1, KindsAre, StackIs
<1>7. Len(vm.stack) = Base(Frame(vm)) + H(vm.iptr)  BY <1>1, <1>2, <1>6
<1>8. ASSUME NEW i \in 1 .. Len(vm.stack), i >= Base(Frame(vm))
      PROVE  vm.stack[i] \in Plain(vm.values)
  <2>1. i \in Last.base .. Last.base + Last.want /\ i > 0
    BY <1>1, <1>4, <1>5, <1>7, <1>8
  <2>2. SlotKinds(vm)[i] = "value"  BY <1>2, <2>1 DEF PP!Own
  <2>3. vm.stack[i] \in DOMAIN vm.values  BY <1>1, StackIs
  <2> QED  BY <1>6, <2>2, <2>3, KindIs
<1> QED  BY <1>4, <1>5, <1>7, <1>8

\* An instruction is about to be taken.
LEMMA AtIs ==
  ASSUME VmInv, NEW op, At(op)
  PROVE  /\ vm.halted = FALSE /\ vm.check = FALSE /\ Instr = Code[vm.iptr] /\ Instr.op = op
         /\ Sound(vm, Entries) /\ Legal(vm.iptr)
         /\ Len(vm.stack) \in Nat /\ Len(vm.stack) <= Room
         /\ Len(vm.fstack) <= Room /\ Room + 2 <= StackSize /\ Room \in Nat
         /\ Takes(Instr) \in Nat /\ Takes(Instr) <= Len(vm.stack)
         /\ \A k \in 1 .. Takes(Instr) : Slot(vm, k) \in Plain(vm.values)
         /\ \A i \in Len(vm.stack) + 1 - Takes(Instr) .. Len(vm.stack) :
              vm.stack[i] \in Plain(vm.values)
<1>1. vm.halted = FALSE /\ vm.check = FALSE /\ ~Overflow /\ Instr = Code[vm.iptr]
      /\ Instr.op = op
  BY DEF At, VmInv, Sound, Instr
<1>2. Sound(vm, Entries) /\ Legal(vm.iptr)  BY <1>1, Here
<1>3. Len(vm.stack) \in Nat /\ Len(vm.fstack) \in Nat  BY <1>2, StackIs, FramesAre
<1>4. StackSize \in Nat /\ Margin \in Nat /\ Margin >= 2 /\ Margin <= StackSize
  BY MachineAssumption
<1>5. Room \in Nat /\ Room + 2 <= StackSize  BY <1>4 DEF Room
<1>6. Len(vm.stack) <= Room /\ Len(vm.fstack) <= Room
  BY <1>1, <1>3, <1>4 DEF Overflow, Room
<1>7. Takes(Instr) \in Nat /\ Takes(Instr) <= H(vm.iptr)  BY <1>1, <1>2, EffectIs DEF Legal
<1>8. /\ Base(Frame(vm)) \in Nat /\ H(vm.iptr) \in Nat
      /\ Len(vm.stack) = Base(Frame(vm)) + H(vm.iptr)
      /\ \A i \in 1 .. Len(vm.stack) : i >= Base(Frame(vm)) => vm.stack[i] \in Plain(vm.values)
  BY <1>1, OwnSlots
<1>9. Takes(Instr) <= Len(vm.stack)  BY <1>7, <1>8
<1>10. ASSUME NEW i \in Len(vm.stack) + 1 - Takes(Instr) .. Len(vm.stack)
       PROVE  vm.stack[i] \in Plain(vm.values)
  <2>1. i \in 1 .. Len(vm.stack) /\ i >= Base(Frame(vm))  BY <1>3, <1>7, <1>8
  <2> QED  BY <1>8, <2>1
<1>11. ASSUME NEW k \in 1 .. Takes(Instr)  PROVE Slot(vm, k) \in Plain(vm.values)
  <2>1. Len(vm.stack) + 1 - k \in Len(vm.stack) + 1 - Takes(Instr) .. Len(vm.stack)
    BY <1>3, <1>7
  <2> QED  BY <1>10, <2>1 DEF Slot
<1> QED  BY <1>1, <1>2, <1>3, <1>5, <1>6, <1>7, <1>9, <1>10, <1>11

LEMMA FetchedIs ==
  ASSUME Sound(vm, Entries)
  PROVE  /\ Sound(fetched, Entries) /\ fetched.values = vm.values /\ fetched.stack = vm.stack
         /\ fetched.fstack = vm.fstack /\ fetched.halted = vm.halted
         /\ fetched.check = vm.check /\ fetched.iptr = vm.iptr + 1 /\ fetched.fs = vm.fs
         /\ fetched.modules = vm.modules /\ fetched.kundeclared = vm.kundeclared
<1>1. IsMachine(vm) /\ vm.halted \in BOOLEAN /\ vm.check \in BOOLEAN  BY DEF Sound
<1>2. PICK r : r = fetched  OBVIOUS
<1>3. /\ IsMachine(r) /\ r.values = vm.values /\ r.stack = vm.stack
      /\ r.fstack = vm.fstack /\ r.halted = vm.halted
      /\ r.check = vm.check /\ r.iptr = vm.iptr + 1 /\ r.fs = vm.fs
      /\ r.modules = vm.modules /\ r.kundeclared = vm.kundeclared
  BY <1>1, <1>2 DEF fetched, IsMachine
<1>4. Sound(r, Entries)  BY <1>1, <1>3, SoundAs
<1> QED  BY <1>2, <1>3, <1>4

-----------------------------------------------------------------------------
(* An instruction that calls nothing. *)

\* The machine after one: what is above keep slots are values of the program.
Straight(m) ==
  /\ Sound(m, Entries) /\ Later(vm.values, m.values, {})
  /\ m.halted = FALSE /\ m.check = FALSE /\ m.fstack = vm.fstack
  /\ m.iptr \in Follow(Code, vm.iptr)
  /\ Len(m.stack) = Len(vm.stack) + Effect(Instr)
  /\ \A i \in 1 .. Len(vm.stack) - Takes(Instr) : m.stack[i] = vm.stack[i]
  /\ \A i \in Len(vm.stack) - Takes(Instr) + 1 .. Len(m.stack) :
       m.stack[i] \in Plain(m.values)

\* A slot that stays has the same kind.
LEMMA KindStays ==
  ASSUME NEW m, NEW r, NEW id \in DOMAIN m.values, Later(m.values, r.values, {})
  PROVE  Kind(r, id) = Kind(m, id)
<1>1. id \in DOMAIN r.values  BY DEF Later
<1>2. CASE m.values[id].type \in Hidden
  <2>1. r.values[id] = m.values[id]  BY <1>2 DEF Later
  <2> QED  BY <2>1 DEF Kind, TypeOf
<1>3. CASE m.values[id].type \notin Hidden
  <2>1. r.values[id].type = m.values[id].type  BY <1>3 DEF Later
  <2> QED  BY <1>3, <2>1 DEF Kind, TypeOf, Hidden
<1> QED  BY <1>2, <1>3

LEMMA StraightKinds ==
  ASSUME VmInv, NEW op, At(op), NEW m, Straight(m)
  PROVE  /\ Len(m.stack) \in Nat
         /\ \A i \in 1 .. Len(m.stack) :
              /\ i <= Len(vm.stack) => Kind(m, m.stack[i]) = Kind(vm, vm.stack[i])
              /\ i > Len(vm.stack) => Kind(m, m.stack[i]) = "value"
              /\ TypeOf(m, m.stack[i]) \in Hidden =>
                   /\ i <= Len(vm.stack) /\ m.stack[i] = vm.stack[i]
                   /\ m.values[m.stack[i]] = vm.values[vm.stack[i]]
<1>1. /\ Sound(vm, Entries) /\ Takes(Instr) \in Nat /\ Takes(Instr) <= Len(vm.stack)
      /\ Len(vm.stack) \in Nat
      /\ \A i \in Len(vm.stack) + 1 - Takes(Instr) .. Len(vm.stack) :
           vm.stack[i] \in Plain(vm.values)
  BY AtIs
<1>2. Sound(m, Entries) /\ Later(vm.values, m.values, {})  BY DEF Straight
<1>3. Len(m.stack) \in Nat  BY <1>2, StackIs
<1>4. ASSUME NEW i \in 1 .. Len(m.stack)
      PROVE  /\ i <= Len(vm.stack) => Kind(m, m.stack[i]) = Kind(vm, vm.stack[i])
             /\ i > Len(vm.stack) => Kind(m, m.stack[i]) = "value"
             /\ TypeOf(m, m.stack[i]) \in Hidden =>
                  /\ i <= Len(vm.stack) /\ m.stack[i] = vm.stack[i]
                  /\ m.values[m.stack[i]] = vm.values[vm.stack[i]]
  <2>1. CASE i \in 1 .. Len(vm.stack) - Takes(Instr)
    <3>1. m.stack[i] = vm.stack[i]  BY <2>1 DEF Straight
    <3>2. i <= Len(vm.stack) /\ i \in 1 .. Len(vm.stack)  BY <1>1, <2>1
    <3>3. vm.stack[i] \in DOMAIN vm.values  BY <1>1, <3>2, StackIs
    <3>4. Kind(m, m.stack[i]) = Kind(vm, vm.stack[i])  BY <1>2, <3>1, <3>3, KindStays
    <3>5. TypeOf(m, m.stack[i]) \in Hidden => m.values[m.stack[i]] = vm.values[vm.stack[i]]
      BY <1>2, <3>1, <3>3 DEF Later, TypeOf
    <3> QED  BY <3>1, <3>2, <3>4, <3>5
  <2>2. CASE i \notin 1 .. Len(vm.stack) - Takes(Instr)
    <3>1. i \in Len(vm.stack) - Takes(Instr) + 1 .. Len(m.stack)  BY <1>1, <1>3, <2>2
    <3>2. m.stack[i] \in Plain(m.values)  BY <3>1 DEF Straight
    <3>3. Kind(m, m.stack[i]) = "value" /\ TypeOf(m, m.stack[i]) \notin Hidden
      BY <3>2, KindIs DEF Plain, TypeOf
    <3>4. i <= Len(vm.stack) => Kind(vm, vm.stack[i]) = "value"
      <4>1. SUFFICES ASSUME i <= Len(vm.stack)  PROVE Kind(vm, vm.stack[i]) = "value"
        OBVIOUS
      <4>2. i \in Len(vm.stack) + 1 - Takes(Instr) .. Len(vm.stack)  BY <1>1, <2>2, <4>1
      <4> QED  BY <1>1, <4>2, KindIs
    <3> QED  BY <3>3, <3>4
  <2> QED  BY <2>1, <2>2
<1> QED  BY <1>3, <1>4

LEMMA StraightReady ==
  ASSUME VmInv, NEW op, At(op), NEW m, Straight(m)
  PROVE  Ready(m) /\ Activations(m) = Wanting(Last.want + Effect(Instr))
<1>1. /\ vm.halted = FALSE /\ vm.check = FALSE /\ Instr = Code[vm.iptr]
      /\ Sound(vm, Entries) /\ Legal(vm.iptr)
      /\ Len(vm.stack) \in Nat /\ Len(vm.stack) <= Room /\ Len(vm.fstack) <= Room
      /\ Room + 2 <= StackSize /\ Room \in Nat
  BY AtIs
<1>2. /\ Sound(m, Entries) /\ Later(vm.values, m.values, {})
      /\ m.halted = FALSE /\ m.check = FALSE /\ m.fstack = vm.fstack
      /\ m.iptr \in Follow(Code, vm.iptr)
      /\ Len(m.stack) = Len(vm.stack) + Effect(Instr)
  BY DEF Straight
<1>3. /\ m.iptr \in DOMAIN Code /\ Bodies(Code)[m.iptr] = Bodies(Code)[vm.iptr]
      /\ H(m.iptr) = H(vm.iptr) + Effect(Instr)
  BY <1>1, <1>2 DEF Legal
<1>4. program \in DOMAIN Programs /\ Framed(vm) /\ Bare(vm) /\ Within(vm)
  BY <1>1 DEF VmInv
<1>5. DOMAIN Code = 1 .. Len(Code) /\ Len(Code) \in Nat  BY <1>4, CodeIs
<1>6. Effect(Instr) \in Int /\ Effect(Instr) <= 1  BY <1>1, EffectIs
<1>7. Len(m.stack) \in Nat /\ Len(m.stack) <= Room + 1  BY <1>1, <1>2, <1>6, StackIs
<1>8. /\ Len(vm.fstack) \in Nat /\ Len(vm.fstack) >= 2
      /\ Frame(vm) = vm.fstack[Len(vm.fstack)]
  BY <1>1, FramesAre
<1>9. DOMAIN m.stack = 1 .. Len(m.stack)  BY <1>2, StackIs
<1>10. \A f \in 1 .. Len(m.fstack) - 1 : GoesOn(m, f) = GoesOn(vm, f)
  BY <1>2, <1>8 DEF GoesOn
<1>11. GoesOn(m, Len(m.fstack)) = m.iptr /\ GoesOn(vm, Len(vm.fstack)) = vm.iptr
  BY DEF GoesOn
<1>12. Framed(m)
  <2>1. ASSUME NEW f \in 2 .. Len(m.fstack)
        PROVE  Placed(m, f) /\ (m.fstack[f].retptr = NoReturn <=> f = 2)
    <3>1. Placed(vm, f) /\ (vm.fstack[f].retptr = NoReturn <=> f = 2)
      BY <1>2, <1>4, <2>1 DEF Framed
    <3>2. CASE f = Len(m.fstack)
      BY <1>2, <1>3, <1>11, <3>1, <3>2 DEF Placed
    <3>3. CASE f # Len(m.fstack)
      <4>1. f \in 1 .. Len(m.fstack) - 1  BY <1>2, <1>8, <2>1, <3>3
      <4> QED  BY <1>2, <1>10, <3>1, <4>1 DEF Placed
    <3> QED  BY <3>2, <3>3
  <2>2. ASSUME NEW f \in 3 .. Len(m.fstack)
        PROVE  m.fstack[f].args = knone \/ TypeOf(m, m.fstack[f].args) = "ARRAY"
    <3>1. vm.fstack[f].args = knone \/ TypeOf(vm, vm.fstack[f].args) = "ARRAY"
      BY <1>2, <1>4, <2>2 DEF Framed
    <3>2. f \in 1 .. Len(vm.fstack)  BY <1>2, <1>8, <2>2
    <3>3. vm.fstack[f].args \in Plain(vm.values)  BY <1>1, <3>2, FramesAre
    <3> QED  BY <1>2, <3>1, <3>3 DEF Later, Plain, TypeOf, Hidden
  <2> QED  BY <2>1, <2>2 DEF Framed
<1>13. \A i \in 1 .. Len(m.stack) :
         TypeOf(m, m.stack[i]) \in Hidden =>
           /\ i <= Len(vm.stack) /\ m.stack[i] = vm.stack[i]
           /\ m.values[m.stack[i]] = vm.values[vm.stack[i]]
  BY StraightKinds
<1>14. Bare(m)
  <2>1. DOMAIN vm.stack = 1 .. Len(vm.stack)  BY <1>1, StackIs
  <2> QED  BY <1>1, <1>4, <1>9, <1>7, <1>13, <2>1 DEF Bare, Hidden, TypeOf
<1>15. Within(m)
  <2>1. \A i \in 1 .. Len(m.stack) : TypeOf(m, m.stack[i]) = "CONTINUATION" => i <= Room
    BY <1>1, <1>7, <1>13 DEF Hidden
  <2> QED  BY <1>1, <1>2, <1>7, <1>8, <1>9, <2>1 DEF Within
<1>16. Ready(m)
  <2>1. m.iptr \in 1 .. Len(Code) + 1  BY <1>3, <1>5
  <2>2. Len(m.stack) <= StackSize /\ Len(m.fstack) <= StackSize
    <3>1. StackSize \in Nat  BY MachineAssumption
    <3> QED  BY <1>1, <1>2, <1>7, <1>8, <3>1
  <2> QED  BY <1>2, <1>12, <1>14, <1>15, <2>1, <2>2 DEF Ready
<1>17. Activations(m) = Wanting(Last.want + Effect(Instr))
  <2>1. /\ Activations(vm) = [f \in 1 .. Len(vm.fstack) - 1 |->
             [sptr |-> vm.fstack[f + 1].sptr, base |-> Base(vm.fstack[f + 1]),
              want |-> H(GoesOn(vm, f + 1))]]
        /\ Len(Activations(vm)) = Len(vm.fstack) - 1
        /\ Activations(m) = [f \in 1 .. Len(vm.fstack) - 1 |->
             [sptr |-> vm.fstack[f + 1].sptr, base |-> Base(vm.fstack[f + 1]),
              want |-> H(GoesOn(m, f + 1))]]
    BY <1>1, <1>2, <1>4, ActivationsAre
  <2>2. PICK n : n = Len(vm.fstack) - 1  OBVIOUS
  <2>3. n \in Nat /\ n >= 1 /\ n + 1 = Len(vm.fstack)  BY <1>8, <2>2
  <2>4. Last = [sptr |-> vm.fstack[n + 1].sptr, base |-> Base(vm.fstack[n + 1]),
                want |-> H(vm.iptr)]
    BY <1>1, <1>8, <2>3, Here
  <2>5. ASSUME NEW f \in 1 .. n
        PROVE  Activations(m)[f] = Wanting(Last.want + Effect(Instr))[f]
    <3>1. CASE f = n
      <4>1. GoesOn(m, f + 1) = m.iptr  BY <1>2, <1>11, <2>3, <3>1
      <4>2. Activations(m)[f] = [sptr |-> vm.fstack[n + 1].sptr,
              base |-> Base(vm.fstack[n + 1]), want |-> H(vm.iptr) + Effect(Instr)]
        BY <1>3, <2>1, <2>2, <3>1, <4>1
      <4>3. Activations(vm)[f] = [sptr |-> vm.fstack[n + 1].sptr,
              base |-> Base(vm.fstack[n + 1]), want |-> H(vm.iptr)]
        BY <1>11, <2>1, <2>2, <2>3, <3>1
      <4>4. Wanting(Last.want + Effect(Instr))[f] =
              [Activations(vm)[f] EXCEPT !.want = Last.want + Effect(Instr)]
        BY <2>1, <2>2, <2>3, <3>1 DEF Wanting
      <4> QED  BY <2>4, <4>2, <4>3, <4>4
    <3>2. CASE f # n
      <4>1. f + 1 \in 1 .. Len(m.fstack) - 1  BY <1>2, <2>2, <2>3, <3>2
      <4>2. Activations(m)[f] = Activations(vm)[f]  BY <1>10, <2>1, <2>2, <4>1
      <4>3. Wanting(Last.want + Effect(Instr))[f] = Activations(vm)[f]
        BY <2>1, <2>2, <2>3, <3>2 DEF Wanting
      <4> QED  BY <4>2, <4>3
    <3> QED  BY <3>1, <3>2
  <2>6. /\ Activations(m) = [f \in 1 .. n |-> Activations(m)[f]]
        /\ Wanting(Last.want + Effect(Instr)) =
             [f \in 1 .. n |-> Wanting(Last.want + Effect(Instr))[f]]
    BY <2>1, <2>2 DEF Wanting
  <2> QED  BY <2>5, <2>6
<1> QED  BY <1>16, <1>17

LEMMA StraightStep ==
  ASSUME VmInv, NEW op, At(op), NEW m, Straight(m), Finish(m)
  PROVE  VmInv' /\ PP!Next
<1>1. /\ vm.halted = FALSE /\ vm.check = FALSE /\ Instr = Code[vm.iptr]
      /\ Sound(vm, Entries) /\ Legal(vm.iptr) /\ Len(vm.stack) \in Nat
      /\ Takes(Instr) \in Nat /\ Takes(Instr) <= Len(vm.stack)
  BY AtIs
<1>2. Ready(m) /\ Activations(m) = Wanting(Last.want + Effect(Instr))  BY StraightReady
<1>3. /\ Sound(m, Entries) /\ m.halted = FALSE /\ m.check = FALSE
      /\ Len(m.stack) = Len(vm.stack) + Effect(Instr)
  BY DEF Straight
<1>4. Effect(Instr) \in Int /\ Effect(Instr) <= 1 /\ -Effect(Instr) <= Takes(Instr)
      /\ Takes(Instr) <= H(vm.iptr) /\ H(vm.iptr) \in Nat
  BY <1>1, EffectIs DEF Legal
<1>5. /\ Len(m.stack) \in Nat
      /\ \A i \in 1 .. Len(m.stack) :
           /\ i <= Len(vm.stack) => Kind(m, m.stack[i]) = Kind(vm, vm.stack[i])
           /\ i > Len(vm.stack) => Kind(m, m.stack[i]) = "value"
  BY StraightKinds
<1>6. PICK s : s = SlotKinds(vm)  OBVIOUS
<1>7. PICK t : t = SlotKinds(m)  OBVIOUS
<1>8. /\ s \in Seq(PP!Kinds) /\ Len(s) = Len(vm.stack)
      /\ \A i \in 1 .. Len(vm.stack) : s[i] = Kind(vm, vm.stack[i])
  BY <1>1, <1>6, KindsAre
<1>9. /\ t \in Seq(PP!Kinds) /\ Len(t) = Len(m.stack)
      /\ \A i \in 1 .. Len(m.stack) : t[i] = Kind(m, m.stack[i])
  BY <1>3, <1>7, KindsAre
<1>10. CASE Effect(Instr) = 1
  <2>1. t = Append(s, "value")
    <3>1. PICK u : u = Append(s, "value")  OBVIOUS
    <3>2. "value" \in PP!Kinds  BY DEF PP!Kinds
    <3>3. /\ u \in Seq(PP!Kinds) /\ Len(u) = Len(s) + 1
          /\ \A i \in 1 .. Len(s) : u[i] = s[i]
          /\ u[Len(s) + 1] = "value"
      BY <1>8, <3>1, <3>2, Grows
    <3>4. Len(t) = Len(s) + 1  BY <1>3, <1>8, <1>9, <1>10
    <3>5. \A i \in 1 .. Len(t) : t[i] = u[i]
      BY <1>1, <1>5, <1>8, <1>9, <3>3, <3>4
    <3> QED  BY <1>9, <3>1, <3>3, <3>4, <3>5, SeqEqual
  <2> QED  BY <1>1, <1>2, <1>3, <1>6, <1>7, <1>10, <2>1, StepPush
<1>11. CASE Effect(Instr) # 1
  <2>1. PICK n : n = -Effect(Instr)  OBVIOUS
  <2>2. n \in 0 .. Len(s) /\ n <= H(vm.iptr)  BY <1>1, <1>4, <1>8, <1>11, <2>1
  <2>3. t = SubSeq(s, 1, Len(s) - n)
    <3>1. PICK u : u = SubSeq(s, 1, Len(s) - n)  OBVIOUS
    <3>2. n \in Nat /\ n <= Len(s)  BY <1>1, <1>8, <2>2
    <3>3. /\ u \in Seq(PP!Kinds) /\ Len(u) = Len(s) - n
          /\ \A i \in 1 .. Len(s) - n : u[i] = s[i]
      BY <1>8, <3>1, <3>2, Shrinks
    <3>4. Len(t) = Len(s) - n  BY <1>3, <1>4, <1>8, <1>9, <2>1
    <3>5. \A i \in 1 .. Len(t) : t[i] = u[i]
      <4>1. \A i \in 1 .. Len(t) : i <= Len(vm.stack) /\ i \in 1 .. Len(vm.stack)
        BY <1>1, <1>8, <2>2, <3>4
      <4> QED  BY <1>5, <1>8, <1>9, <3>3, <3>4, <4>1
    <3> QED  BY <1>9, <3>1, <3>3, <3>4, <3>5, SeqEqual
  <2>4. Last.want = H(vm.iptr)
    <3>1. Last = [sptr |-> Frame(vm).sptr, base |-> Base(Frame(vm)), want |-> H(vm.iptr)]
      BY <1>1, Here
    <3>2. PICK sptr, base, want : sptr = Frame(vm).sptr /\ base = Base(Frame(vm))
                                  /\ want = H(vm.iptr)
      OBVIOUS
    <3>3. Last = [sptr |-> sptr, base |-> base, want |-> want]  BY <3>1, <3>2
    <3> QED  BY <3>2, <3>3
  <2>5. Last.want + Effect(Instr) = Last.want - n  BY <1>4, <2>1, <2>4
  <2>6. n \in 0 .. Len(SlotKinds(vm)) /\ n <= Last.want  BY <1>6, <2>2, <2>4
  <2>7. SlotKinds(m) = SubSeq(SlotKinds(vm), 1, Len(SlotKinds(vm)) - n)
    BY <1>6, <1>7, <2>3
  <2>8. Activations(m) = Wanting(Last.want - n)  BY <1>2, <2>5
  <2> QED  BY <1>1, <1>2, <1>3, <2>6, <2>7, <2>8, StepDrop
<1> QED  BY <1>10, <1>11

\* The machine without its n topmost values, past the instruction.
Dropped(d, n) ==
  /\ Sound(d, Entries) /\ d.values = vm.values /\ Beside(fetched, d)
  /\ Len(d.stack) = Len(vm.stack) - n
  /\ \A i \in 1 .. Len(vm.stack) - n : d.stack[i] = vm.stack[i]

LEMMA FetchedDropped ==
  ASSUME VmInv, NEW op, At(op)
  PROVE  Dropped(fetched, 0)
<1>1. Sound(vm, Entries) /\ Len(vm.stack) \in Nat  BY AtIs
<1> QED  BY <1>1, FetchedIs DEF Dropped, Beside

LEMMA DropDropped ==
  ASSUME VmInv, NEW op, At(op), NEW n \in Nat, n <= Takes(Instr)
  PROVE  Dropped(Drop(fetched, n), n)
<1>1. /\ Sound(vm, Entries) /\ Len(vm.stack) \in Nat /\ Takes(Instr) \in Nat
      /\ Takes(Instr) <= Len(vm.stack)
  BY AtIs
<1>2. PICK f : f = fetched  OBVIOUS
<1>3. Sound(f, Entries) /\ f.values = vm.values /\ f.stack = vm.stack  BY <1>1, <1>2, FetchedIs
<1>4. n <= Len(f.stack)  BY <1>1, <1>3
<1>5. PICK d : d = Drop(f, n)  OBVIOUS
<1>6. /\ Sound(d, Entries) /\ Beside(f, d) /\ d.values = f.values
      /\ Len(d.stack) = Len(f.stack) - n
      /\ \A i \in 1 .. Len(f.stack) - n : d.stack[i] = f.stack[i]
  BY <1>3, <1>4, <1>5, DropSound
<1> QED  BY <1>2, <1>3, <1>5, <1>6 DEF Dropped

LEMMA DroppedPlain ==
  ASSUME VmInv, NEW op, At(op), NEW n \in Nat, n <= Takes(Instr), NEW d, Dropped(d, n)
  PROVE  \A i \in Len(vm.stack) + 1 - Takes(Instr) .. Len(d.stack) :
           d.stack[i] \in Plain(d.values)
<1>1. /\ Len(vm.stack) \in Nat /\ Takes(Instr) \in Nat /\ Takes(Instr) <= Len(vm.stack)
      /\ \A i \in Len(vm.stack) + 1 - Takes(Instr) .. Len(vm.stack) :
           vm.stack[i] \in Plain(vm.values)
  BY AtIs
<1> QED  BY <1>1 DEF Dropped

Falls == Operations \ {"RJMP", "RET", "MOD_RET", "HALT"}

\* A value is left.
LEMMA PushStraight ==
  ASSUME VmInv, NEW op \in Falls, At(op), NEW n \in Nat, n <= Takes(Instr),
         Effect(Instr) = 1 - n, NEW d, Dropped(d, n), NEW m, PushedPlain(d, m, Entries)
  PROVE  Straight(m)
<1>1. /\ Sound(vm, Entries) /\ Instr = Code[vm.iptr] /\ Instr.op = op
      /\ Len(vm.stack) \in Nat /\ Takes(Instr) \in Nat /\ Takes(Instr) <= Len(vm.stack)
      /\ vm.halted = FALSE /\ vm.check = FALSE
  BY AtIs
<1>2. /\ fetched.fstack = vm.fstack /\ fetched.halted = vm.halted
      /\ fetched.check = vm.check /\ fetched.iptr = vm.iptr + 1
  BY <1>1, FetchedIs
<1>3. /\ Sound(m, Entries) /\ Beside(d, m) /\ Later(d.values, m.values, {})
      /\ Len(m.stack) = Len(d.stack) + 1
      /\ \A i \in 1 .. Len(d.stack) : m.stack[i] = d.stack[i]
      /\ Slot(m, 1) \in Plain(m.values)
  BY DEF PushedPlain, Pushed
<1>4. /\ m.halted = FALSE /\ m.check = FALSE /\ m.fstack = vm.fstack
      /\ m.iptr = vm.iptr + 1 /\ Later(vm.values, m.values, {})
  BY <1>1, <1>2, <1>3 DEF Dropped, Beside
<1>5. m.iptr \in Follow(Code, vm.iptr)  BY <1>1, <1>4 DEF Follow, Falls
<1>6. Len(d.stack) = Len(vm.stack) - n /\ \A i \in 1 .. Len(vm.stack) - n : d.stack[i] = vm.stack[i]
  BY DEF Dropped
<1>7. Len(m.stack) = Len(vm.stack) + Effect(Instr)  BY <1>1, <1>3, <1>6
<1>8. ASSUME NEW i \in 1 .. Len(vm.stack) - Takes(Instr)  PROVE m.stack[i] = vm.stack[i]
  <2>1. i \in 1 .. Len(vm.stack) - n  BY <1>1
  <2> QED  BY <1>3, <1>6, <2>1
<1>9. ASSUME NEW i \in Len(vm.stack) - Takes(Instr) + 1 .. Len(m.stack)
      PROVE  m.stack[i] \in Plain(m.values)
  <2>1. CASE i = Len(m.stack)
    <3>1. Slot(m, 1) = m.stack[i]  BY <1>1, <1>7, <2>1 DEF Slot
    <3> QED  BY <1>3, <3>1
  <2>2. CASE i # Len(m.stack)
    <3>1. i \in Len(vm.stack) + 1 - Takes(Instr) .. Len(d.stack) /\ i \in 1 .. Len(d.stack)
      <4>1. PICK a, t : a = Len(vm.stack) /\ t = Takes(Instr)  OBVIOUS
      <4>2. a \in Nat /\ t \in Nat /\ t <= a /\ n <= t  BY <1>1, <4>1
      <4>3. Len(d.stack) = a - n /\ Len(m.stack) = a - n + 1  BY <1>3, <1>6, <4>1
      <4>4. i \in a - t + 1 .. a - n + 1 /\ i # a - n + 1  BY <2>2, <4>1, <4>3
      <4>5. i \in a + 1 - t .. a - n /\ i \in 1 .. a - n
        BY ONLY <4>2, <4>4, n \in Nat
      <4> QED  BY <4>1, <4>3, <4>5
    <3>2. d.stack[i] \in Plain(d.values)  BY <3>1, DroppedPlain
    <3> QED  BY <1>3, <3>1, <3>2, LaterSets
  <2> QED  BY <2>1, <2>2
<1> QED  BY <1>3, <1>4, <1>5, <1>7, <1>8, <1>9 DEF Straight

\* None is, or those that are left are the machine's own.
LEMMA QuietStraight ==
  ASSUME VmInv, NEW op, At(op), NEW n \in Nat, n <= Takes(Instr),
         Effect(Instr) = 0 - n, NEW d, Dropped(d, n), NEW m, Quietly(d, m, Entries),
         op \in Falls
  PROVE  Straight(m)
<1>1. /\ Sound(vm, Entries) /\ Instr = Code[vm.iptr] /\ Instr.op = op
      /\ Len(vm.stack) \in Nat /\ Takes(Instr) \in Nat /\ Takes(Instr) <= Len(vm.stack)
      /\ vm.halted = FALSE /\ vm.check = FALSE
  BY AtIs
<1>2. /\ fetched.fstack = vm.fstack /\ fetched.halted = vm.halted
      /\ fetched.check = vm.check /\ fetched.iptr = vm.iptr + 1
  BY <1>1, FetchedIs
<1>3. /\ Sound(m, Entries) /\ Beside(d, m) /\ Later(d.values, m.values, {})
      /\ m.stack = d.stack
  BY DEF Quietly
<1>4. /\ m.halted = FALSE /\ m.check = FALSE /\ m.fstack = vm.fstack
      /\ m.iptr = vm.iptr + 1 /\ Later(vm.values, m.values, {})
  BY <1>1, <1>2, <1>3 DEF Dropped, Beside
<1>5. m.iptr \in Follow(Code, vm.iptr)  BY <1>1, <1>4 DEF Follow, Falls
<1>6. Len(d.stack) = Len(vm.stack) - n /\ \A i \in 1 .. Len(vm.stack) - n : d.stack[i] = vm.stack[i]
  BY DEF Dropped
<1>7. Len(m.stack) = Len(vm.stack) + Effect(Instr)
  <2>1. PICK a : a = Len(vm.stack)  OBVIOUS
  <2>2. a \in Nat /\ Len(m.stack) = a - n  BY <1>1, <1>3, <1>6, <2>1
  <2>3. PICK e : e = Effect(Instr)  OBVIOUS
  <2>4. e = 0 - n /\ a - n = a + e  BY <2>2, <2>3
  <2> QED  BY <2>1, <2>2, <2>3, <2>4
<1>8. ASSUME NEW i \in 1 .. Len(vm.stack) - Takes(Instr)  PROVE m.stack[i] = vm.stack[i]
  <2>1. i \in 1 .. Len(vm.stack) - n  BY <1>1
  <2> QED  BY <1>3, <1>6, <2>1
<1>9. ASSUME NEW i \in Len(vm.stack) - Takes(Instr) + 1 .. Len(m.stack)
      PROVE  m.stack[i] \in Plain(m.values)
  <2>1. i \in Len(vm.stack) + 1 - Takes(Instr) .. Len(d.stack)
    BY <1>1, <1>3
  <2>2. d.stack[i] \in Plain(d.values)  BY <2>1, DroppedPlain
  <2> QED  BY <1>3, <2>2, LaterSets
<1> QED  BY <1>3, <1>4, <1>5, <1>7, <1>8, <1>9 DEF Straight

\* Of a machine that has stopped only this is known.
LEMMA HaltedReady ==
  ASSUME VmInv, NEW op, At(op), NEW m, Sound(m, Entries), m.halted = TRUE,
         m.iptr \in DOMAIN Code \/ m.iptr = vm.iptr + 1,
         Len(m.stack) <= StackSize, Len(m.fstack) <= StackSize
  PROVE  Ready(m)
<1>1. vm.iptr \in DOMAIN Code /\ program \in DOMAIN Programs  BY Here, AtIs DEF VmInv
<1>2. Len(Code) \in Nat /\ DOMAIN Code = 1 .. Len(Code)  BY <1>1, CodeIs
<1>3. m.iptr \in 1 .. Len(Code) + 1  BY <1>1, <1>2
<1> QED  BY <1>3 DEF Ready

LEMMA HaltStep ==
  ASSUME VmInv, NEW op, At(op), NEW m, Straight(m), NEW r, NEW h \in BOOLEAN,
         r = [m EXCEPT !.halted = h], Finish(r)
  PROVE  VmInv' /\ PP!Next
<1>1. Sound(m, Entries) /\ IsMachine(m) /\ m.halted = FALSE /\ m.check = FALSE
      /\ m.fstack = vm.fstack /\ m.iptr \in Follow(Code, vm.iptr)
      /\ Len(m.stack) = Len(vm.stack) + Effect(Instr)
  BY DEF Straight, Sound
<1>2. /\ IsMachine(r) /\ r.values = m.values /\ r.stack = m.stack /\ r.fstack = m.fstack
      /\ r.modules = m.modules /\ r.fs = m.fs /\ r.halted = h /\ r.check = m.check
      /\ r.iptr = m.iptr
  BY <1>1 DEF IsMachine
<1>3. Sound(r, Entries)  BY <1>1, <1>2, SoundAs
<1>4. CASE h = FALSE
  <2>1. Straight(r)  BY <1>2, <1>3, <1>4 DEF Straight
  <2> QED  BY <2>1, StraightStep
<1>5. CASE h = TRUE
  <2>1. Ready(m)  BY StraightReady
  <2>2. Ready(r)  BY <1>2, <1>3, <1>5, <2>1 DEF Ready
  <2> QED  BY <1>2, <1>5, <2>2, AtIs, StepStop
<1> QED  BY <1>4, <1>5

-----------------------------------------------------------------------------
(* One by one. *)

LEMMA Before ==
  ASSUME VmInv, NEW op, At(op)
  PROVE  /\ Instr.op = op /\ Sound(vm, Entries) /\ Takes(Instr) \in Nat
         /\ Sound(fetched, Entries) /\ fetched.values = vm.values /\ fetched.fs = vm.fs
         /\ Dropped(fetched, 0)
         /\ Frame(vm).ns \in Spaces(vm.values) /\ Frame(vm).args \in Plain(vm.values)
         /\ knone \in Plain(vm.values) /\ vm.kundeclared = fetched.kundeclared
         /\ \A k \in 1 .. Takes(Instr) :
              Slot(vm, k) \in Plain(vm.values) /\ Slot(vm, k) \in DOMAIN vm.values
<1>1. /\ Instr.op = op /\ Sound(vm, Entries) /\ Takes(Instr) \in Nat
      /\ \A k \in 1 .. Takes(Instr) : Slot(vm, k) \in Plain(vm.values)
  BY AtIs
<1>2. /\ Len(vm.fstack) \in 1 .. Len(vm.fstack) /\ Frame(vm) = vm.fstack[Len(vm.fstack)]
      /\ \A f \in 1 .. Len(vm.fstack) :
           vm.fstack[f].ns \in Spaces(vm.values) /\ vm.fstack[f].args \in Plain(vm.values)
  <2>1. Len(vm.fstack) \in Nat /\ Len(vm.fstack) >= 2  BY <1>1, FramesAre
  <2> QED  BY <1>1, <2>1, FramesAre
<1>3. 1 \in Plain(vm.values)  BY <1>1, HeapIs DEF Sound
<1> QED  BY <1>1, <1>2, <1>3, FetchedIs, FetchedDropped DEF knone, Plain

LEMMA PushStep ==
  ASSUME VmInv, NEW op \in Falls, At(op), NEW n \in Nat, n <= Takes(Instr),
         Effect(Instr) = 1 - n, NEW d, Dropped(d, n), NEW m, PushedPlain(d, m, Entries),
         Finish(m)
  PROVE  VmInv' /\ PP!Next
BY PushStraight, StraightStep

LEMMA QuietStep ==
  ASSUME VmInv, NEW op \in Falls, At(op), NEW n \in Nat, n <= Takes(Instr),
         Effect(Instr) = 0 - n, NEW d, Dropped(d, n), NEW m, Quietly(d, m, Entries),
         Finish(m)
  PROVE  VmInv' /\ PP!Next
BY QuietStraight, StraightStep

\* What is pushed by an instruction that takes nothing.
LEMMA OneMore ==
  ASSUME VmInv, NEW op \in Falls, At(op), Effect(Instr) = 1,
         NEW m, PushedPlain(fetched, m, Entries), Finish(m)
  PROVE  VmInv' /\ PP!Next
<1>1. Dropped(fetched, 0) /\ Takes(Instr) \in Nat  BY Before
<1>2. 0 <= Takes(Instr) /\ Effect(Instr) = 1 - 0  BY <1>1
<1> QED  BY <1>1, <1>2, PushStep

LEMMA NoMore ==
  ASSUME VmInv, NEW op \in Falls, At(op), Effect(Instr) = 0,
         NEW m, Quietly(fetched, m, Entries), Finish(m)
  PROVE  VmInv' /\ PP!Next
<1>1. Dropped(fetched, 0) /\ Takes(Instr) \in Nat  BY Before
<1>2. 0 <= Takes(Instr)  BY <1>1
<1>3. Effect(Instr) = 0 - 0  OBVIOUS
<1> QED  BY <1>1, <1>2, <1>3, QuietStep

LEMMA DupStep ==
  ASSUME VmInv, Dup
  PROVE  VmInv' /\ PP!Next
<1>1. At("DUP") /\ Finish(Push(fetched, Slot(vm, 1))) /\ "DUP" \in Falls
  BY DEF Dup, Falls, Operations
<1>2. Instr.op = "DUP"  BY <1>1, Before
<1>3. Takes(Instr) = 1 /\ Effect(Instr) = 1  BY <1>2 DEF Takes, Effect
<1>4. Sound(fetched, Entries) /\ Slot(vm, 1) \in Plain(fetched.values)
  BY <1>1, <1>3, Before
<1>5. PushedPlain(fetched, Push(fetched, Slot(vm, 1)), Entries)  BY <1>4, PushPlain
<1> QED  BY <1>1, <1>3, <1>5, OneMore

LEMMA Dup2Step ==
  ASSUME VmInv, Dup2
  PROVE  VmInv' /\ PP!Next
<1>1. At("DUP_2") /\ Finish(Push(fetched, Slot(vm, 2))) /\ "DUP_2" \in Falls
  BY DEF Dup2, Falls, Operations
<1>2. Instr.op = "DUP_2"  BY <1>1, Before
<1>3. Takes(Instr) = 2 /\ Effect(Instr) = 1  BY <1>2 DEF Takes, Effect
<1>4. Sound(fetched, Entries) /\ Slot(vm, 2) \in Plain(fetched.values)
  BY <1>1, <1>3, Before
<1>5. PushedPlain(fetched, Push(fetched, Slot(vm, 2)), Entries)  BY <1>4, PushPlain
<1> QED  BY <1>1, <1>3, <1>5, OneMore

LEMMA GetArgsStep ==
  ASSUME VmInv, GetArgs
  PROVE  VmInv' /\ PP!Next
<1> DEFINE op == "STACK_FRAME_GET_ARGS"
<1>1. At(op) /\ Finish(Push(fetched, Frame(vm).args)) /\ op \in Falls
  BY DEF GetArgs, Falls, Operations
<1>2. Instr.op = op  BY <1>1, Before
<1>3. Effect(Instr) = 1  BY <1>2 DEF Effect
<1>4. Sound(fetched, Entries) /\ Frame(vm).args \in Plain(fetched.values)  BY <1>1, Before
<1>5. PushedPlain(fetched, Push(fetched, Frame(vm).args), Entries)  BY <1>4, PushPlain
<1> QED  BY <1>1, <1>3, <1>5, OneMore

LEMMA AllocNoneStep ==
  ASSUME VmInv, AllocNone
  PROVE  VmInv' /\ PP!Next
<1> DEFINE op == "ALLOC_NONE"
<1>1. At(op) /\ Finish(Push(fetched, knone)) /\ op \in Falls
  BY DEF AllocNone, Falls, Operations
<1>2. Instr.op = op  BY <1>1, Before
<1>3. Effect(Instr) = 1  BY <1>2 DEF Effect
<1>4. Sound(fetched, Entries) /\ knone \in Plain(fetched.values)  BY <1>1, Before
<1>5. PushedPlain(fetched, Push(fetched, knone), Entries)  BY <1>4, PushPlain
<1> QED  BY <1>1, <1>3, <1>5, OneMore

LEMMA AllocConstantStep ==
  ASSUME VmInv, AllocConstant
  PROVE  VmInv' /\ PP!Next
<1>1. PICK op, x :
        /\ op \in {"ALLOC_ATOM", "ALLOC_REAL", "ALLOC_BUFFER_STATIC"}
        /\ At(op) /\ Finish(PushNew(fetched, x))
        /\ \E y : x \in {Atom(y), Real(y), Buffer(y)}
  BY DEF AllocConstant
<1>2. Instr.op = op /\ Sound(fetched, Entries)  BY <1>1, Before
<1>3. Effect(Instr) = 1 /\ op \in Falls
  <2>1. Instr.op \in {"ALLOC_ATOM", "ALLOC_REAL", "ALLOC_BUFFER_STATIC"}  BY <1>1, <1>2
  <2>2. Effect(Instr) = 1  BY <2>1 DEF Effect
  <2> QED  BY <1>1, <2>2 DEF Falls, Operations
<1>4. Fine(x, fetched.values, Entries, fetched.fs) /\ x.type \notin Hidden
  BY <1>1, ConstantsFine
<1>5. PushedPlain(fetched, PushNew(fetched, x), Entries)  BY <1>2, <1>4, PushNewPlain
<1> QED  BY <1>1, <1>3, <1>5, OneMore

LEMMA AllocNamespaceStep ==
  ASSUME VmInv, AllocNamespace
  PROVE  VmInv' /\ PP!Next
<1> DEFINE op == "ALLOC_NAMESPACE"
<1>1. At(op) /\ Finish(PushNew(fetched, Namespace(0))) /\ op \in Falls
  BY DEF AllocNamespace, Falls, Operations
<1>2. Instr.op = op /\ Sound(fetched, Entries)  BY <1>1, Before
<1>3. Effect(Instr) = 1  BY <1>2 DEF Effect
<1>4. Fine(Namespace(0), fetched.values, Entries, fetched.fs)
      /\ Namespace(0).type \notin Hidden
  BY NamespaceFine DEF Hidden
<1>5. PushedPlain(fetched, PushNew(fetched, Namespace(0)), Entries)
  BY <1>2, <1>4, PushNewPlain
<1> QED  BY <1>1, <1>3, <1>5, OneMore

LEMMA AllocFunctionStep ==
  ASSUME VmInv, AllocFunction
  PROVE  VmInv' /\ PP!Next
<1> DEFINE op == "ALLOC_FUNCTION"
<1>1. PICK x : x = Function(Instr.n, Frame(vm).ns, 0)  OBVIOUS
<1>2. At(op) /\ Finish(PushNew(fetched, x)) /\ op \in Falls
  BY <1>1 DEF AllocFunction, Falls, Operations
<1>3. Instr.op = op /\ Sound(fetched, Entries) /\ Frame(vm).ns \in Spaces(fetched.values)
      /\ 0 \in Plain(fetched.values)
  BY <1>2, Before, HeapIs DEF Sound
<1>4. Effect(Instr) = 1  BY <1>3 DEF Effect
<1>5. Instr.n \in Entries
  <2>1. Instr = Code[vm.iptr] /\ Legal(vm.iptr)  BY <1>2, AtIs
  <2> QED  BY <1>3, <2>1 DEF Legal
<1>6. PICK pos, ns : pos = Instr.n /\ ns = Frame(vm).ns  OBVIOUS
<1>7. pos \in Entries /\ ns \in Spaces(fetched.values) /\ x = Function(pos, ns, 0)
  BY <1>1, <1>3, <1>5, <1>6
<1>8. PICK func : func \in BuiltinFunctions  BY DEF BuiltinFunctions
<1>9. Fine(x, fetched.values, Entries, fetched.fs) /\ x.type \notin Hidden
  BY <1>3, <1>7, <1>8, FunctionsFine DEF Hidden
<1>10. PushedPlain(fetched, PushNew(fetched, x), Entries)  BY <1>3, <1>9, PushNewPlain
<1> QED  BY <1>2, <1>4, <1>10, OneMore

LEMMA LookupStep ==
  ASSUME VmInv, Lookup
  PROVE  VmInv' /\ PP!Next
<1> DEFINE op == "STACK_FRAME_LOOKUP"
<1>1. PICK id : id = NamespaceGet(vm, Frame(vm).ns, Instr.key)  OBVIOUS
<1>2. PICK m : m = IF id = vm.kundeclared THEN PushError(fetched) ELSE Push(fetched, id)
  OBVIOUS
<1>3. At(op) /\ Finish(m) /\ op \in Falls  BY <1>1, <1>2 DEF Lookup, Falls, Operations
<1>4. Instr.op = op /\ Sound(fetched, Entries) /\ fetched.values = vm.values
  BY <1>3, Before
<1>5. Effect(Instr) = 1  BY <1>4 DEF Effect
<1>6. id \in Plain(fetched.values)
  <2>1. Frame(vm).ns \in Spaces(vm.values) /\ Sound(vm, Entries)  BY <1>3, Before
  <2> QED  BY <1>1, <1>4, <2>1, GetPlain
<1>7. PushedPlain(fetched, m, Entries)  BY <1>2, <1>4, <1>6, PushPlain, PushErrorPlain
<1> QED  BY <1>3, <1>5, <1>7, OneMore

LEMMA SetStep ==
  ASSUME VmInv, Set
  PROVE  VmInv' /\ PP!Next
<1> DEFINE op == "STACK_FRAME_SET"
<1>1. PICK m : m = NamespaceSet(fetched, Frame(vm).ns, Instr.key, Slot(vm, 1))  OBVIOUS
<1>2. At(op) /\ Finish(m) /\ op \in Falls  BY <1>1 DEF Set, Falls, Operations
<1>3. Instr.op = op  BY <1>2, Before
<1>4. Effect(Instr) = 0 /\ Takes(Instr) = 1  BY <1>3 DEF Effect, Takes
<1>5. Sound(fetched, Entries) /\ Frame(vm).ns \in Spaces(fetched.values)
      /\ Slot(vm, 1) \in Plain(fetched.values)
  BY <1>2, <1>4, Before
<1>6. Quietly(fetched, m, Entries)  BY <1>1, <1>5, NamespaceSetQuietly
<1> QED  BY <1>2, <1>4, <1>6, NoMore

LEMMA DiscardStep ==
  ASSUME VmInv, Discard
  PROVE  VmInv' /\ PP!Next
<1>1. At("DISCARD") /\ Finish(StopIfError(Drop(fetched, 1), Slot(vm, 1)))  BY DEF Discard
<1>2. Takes(Instr) = 1 /\ Effect(Instr) = 0 - 1
  <2>1. Instr.op = "DISCARD"  BY <1>1, AtIs
  <2> QED  BY <2>1 DEF Takes, Effect
<1>3. PICK d : d = Drop(fetched, 1)  OBVIOUS
<1>4. Dropped(d, 1)  BY <1>1, <1>2, <1>3, DropDropped
<1>5. Quietly(d, d, Entries)  BY <1>4, LaterSame DEF Quietly, Dropped, Beside
<1>6. "DISCARD" \in Falls  BY DEF Falls, Operations
<1>7. Straight(d)
  <2> HIDE DEF Quietly, Dropped, Falls
  <2> QED  BY <1>1, <1>2, <1>4, <1>5, <1>6, QuietStraight
<1>8. PICK h \in BOOLEAN : h = (TypeOf(d, Slot(vm, 1)) = "ERROR")  OBVIOUS
<1>9. PICK r : r = [d EXCEPT !.halted = h]  OBVIOUS
<1>10. Finish(r)  BY <1>1, <1>3, <1>8, <1>9 DEF StopIfError
<1> QED  BY <1>1, <1>7, <1>9, <1>10, HaltStep

LEMMA SetExistingStep ==
  ASSUME VmInv, SetExisting
  PROVE  VmInv' /\ PP!Next
<1> DEFINE op == "STACK_FRAME_REPLACE"
<1>1. PICK ns, key, id : ns = Frame(vm).ns /\ key = Instr.key /\ id = Slot(vm, 1)  OBVIOUS
<1>2. PICK m : m = IF CanReplace(vm, ns, key, id) THEN NamespaceReplace(fetched, ns, key, id)
                   ELSE PushError(Drop(fetched, 1))
  OBVIOUS
<1>3. At(op) /\ Finish(m) /\ op \in Falls
  BY <1>1, <1>2 DEF SetExisting, Falls, Operations
<1>4. Instr.op = op  BY <1>3, Before
<1>5. Effect(Instr) = 0 /\ Takes(Instr) = 1  BY <1>4 DEF Effect, Takes
<1>6. Sound(fetched, Entries) /\ fetched.values = vm.values
      /\ ns \in Spaces(fetched.values) /\ id \in Plain(fetched.values)
  BY <1>1, <1>3, <1>5, Before
<1>7. CASE CanReplace(vm, ns, key, id)
  <2>1. CanReplace(fetched, ns, key, id)  BY <1>6, <1>7, OwnerByValues
  <2>2. Quietly(fetched, m, Entries)  BY <1>2, <1>6, <1>7, <2>1, ReplaceQuietly
  <2> QED  BY <1>3, <1>5, <2>2, NoMore
<1>8. CASE ~CanReplace(vm, ns, key, id)
  <2>1. PICK d : d = Drop(fetched, 1)  OBVIOUS
  <2>2. Dropped(d, 1)  BY <1>3, <1>5, <2>1, DropDropped
  <2>3. Sound(d, Entries)  BY <2>2 DEF Dropped
  <2>4. PushedPlain(d, m, Entries)  BY <1>2, <1>8, <2>1, <2>3, PushErrorPlain
  <2>5. Effect(Instr) = 1 - 1  BY <1>5
  <2> QED  BY <1>3, <1>5, <2>2, <2>4, <2>5, PushStep
<1> QED  BY <1>7, <1>8

\* Arguments of a function are in an array.
LEMMA ArgumentsArray ==
  ASSUME VmInv, NEW op \in {"STACK_FRAME_GET_ARG", "NAMED_PARAM"}, At(op)
  PROVE  /\ Frame(vm).args \in DOMAIN vm.values /\ TypeOf(vm, Frame(vm).args) = "ARRAY"
         /\ \A k : Element(Frame(vm).args, k) \in Plain(vm.values)
<1>1. /\ vm.halted = FALSE /\ Sound(vm, Entries) /\ Legal(vm.iptr) /\ Instr = Code[vm.iptr]
      /\ Instr.op = op
  BY AtIs
<1>2. BodyOf(Frame(vm)) = "function"
  <2>1. Bodies(Code)[vm.iptr] = BodyOf(Frame(vm))  BY <1>1, Here
  <2>2. Bodies(Code)[vm.iptr] = "function"  BY <1>1 DEF Legal
  <2> QED  BY <2>1, <2>2
<1>3. Frame(vm).retptr # NoReturn /\ Frame(vm).args # knone  BY <1>2 DEF BodyOf
<1>4. /\ Len(vm.fstack) \in Nat /\ Len(vm.fstack) >= 2
      /\ Frame(vm) = vm.fstack[Len(vm.fstack)]
      /\ \A f \in 1 .. Len(vm.fstack) : vm.fstack[f].args \in Plain(vm.values)
  BY <1>1, FramesAre
<1>5. PICK f : f = Len(vm.fstack)  OBVIOUS
<1>6. f \in 2 .. Len(vm.fstack) /\ f \in 1 .. Len(vm.fstack) /\ Frame(vm) = vm.fstack[f]
  BY <1>4, <1>5
<1>7. Framed(vm)  BY <1>1 DEF VmInv
<1>8. f # 2  BY <1>3, <1>6, <1>7 DEF Framed
<1>9. f \in 3 .. Len(vm.fstack)  BY <1>4, <1>6, <1>8
<1>10. Frame(vm).args \in Plain(vm.values)  BY <1>4, <1>6
<1>11. TypeOf(vm, Frame(vm).args) = "ARRAY"  BY <1>3, <1>6, <1>7, <1>9 DEF Framed
<1>12. Frame(vm).args \in DOMAIN vm.values  BY <1>10 DEF Plain
<1>13. ASSUME NEW k  PROVE Element(Frame(vm).args, k) \in Plain(vm.values)
  <2>1. PICK args : args = Frame(vm).args  OBVIOUS
  <2>2. args \in DOMAIN vm.values /\ TypeOf(vm, args) = "ARRAY"  BY <1>11, <1>12, <2>1
  <2>3. Element(args, k) \in Plain(vm.values)  BY <1>1, <2>2, ElementPlain
  <2> QED  BY <2>1, <2>3
<1> QED  BY <1>11, <1>12, <1>13

LEMMA GetArgStep ==
  ASSUME VmInv, GetArg
  PROVE  VmInv' /\ PP!Next
<1> DEFINE op == "STACK_FRAME_GET_ARG"
<1>1. PICK id : id = Element(Frame(vm).args, Instr.n)  OBVIOUS
<1>2. At(op) /\ Finish(Push(fetched, id)) /\ op \in Falls
  BY <1>1 DEF GetArg, Falls, Operations
<1>3. Instr.op = op /\ Sound(fetched, Entries) /\ fetched.values = vm.values
  BY <1>2, Before
<1>4. Effect(Instr) = 1  BY <1>3 DEF Effect
<1>5. id \in Plain(fetched.values)  BY <1>1, <1>2, <1>3, ArgumentsArray
<1>6. PushedPlain(fetched, Push(fetched, id), Entries)  BY <1>3, <1>5, PushPlain
<1> QED  BY <1>2, <1>4, <1>6, OneMore

LEMMA NamedParamStep ==
  ASSUME VmInv, NamedParam
  PROVE  VmInv' /\ PP!Next
<1> DEFINE op == "NAMED_PARAM"
<1>1. PICK id : id = Element(Frame(vm).args, Instr.n)  OBVIOUS
<1>2. PICK m : m = NamespaceSet(fetched, Frame(vm).ns, Instr.key, id)  OBVIOUS
<1>3. At(op) /\ Finish(m) /\ op \in Falls
  BY <1>1, <1>2 DEF NamedParam, Falls, Operations
<1>4. Instr.op = op /\ Sound(fetched, Entries) /\ fetched.values = vm.values
      /\ Frame(vm).ns \in Spaces(fetched.values)
  BY <1>3, Before
<1>5. Effect(Instr) = 0  BY <1>4 DEF Effect
<1>6. id \in Plain(fetched.values)  BY <1>1, <1>3, <1>4, ArgumentsArray
<1>7. Quietly(fetched, m, Entries)  BY <1>2, <1>4, <1>6, NamespaceSetQuietly
<1> QED  BY <1>3, <1>5, <1>7, NoMore

LEMMA DroppedSound ==
  ASSUME NEW d, NEW n, Dropped(d, n)
  PROVE  Sound(d, Entries) /\ d.values = vm.values
BY DEF Dropped

LEMMA ArgsPlain ==
  ASSUME VmInv, NEW op, At(op), NEW n \in Nat, n <= Takes(Instr)
  PROVE  Args(vm, n) \in Seq(Plain(vm.values))
<1>1. /\ Len(vm.stack) \in Nat /\ Takes(Instr) \in Nat /\ Takes(Instr) <= Len(vm.stack)
      /\ Sound(vm, Entries)
      /\ \A i \in Len(vm.stack) + 1 - Takes(Instr) .. Len(vm.stack) :
           vm.stack[i] \in Plain(vm.values)
  BY AtIs
<1>2. PICK P, D : P = Plain(vm.values) /\ D = DOMAIN vm.values  OBVIOUS
<1>3. PICK s, t : s = vm.stack /\ t = Takes(Instr)  OBVIOUS
<1>4. s \in Seq(D) /\ t \in Nat /\ t <= Len(s) /\ Len(s) \in Nat /\ n <= t
      /\ \A i \in Len(s) + 1 - t .. Len(s) : s[i] \in P
  BY <1>1, <1>2, <1>3 DEF Sound
<1>5. \A i \in Len(s) + 1 - n .. Len(s) : s[i] \in P
  <2>1. \A i \in Len(s) + 1 - n .. Len(s) : i \in Len(s) + 1 - t .. Len(s)  BY <1>4
  <2> QED  BY <1>4, <2>1
<1>6. PICK argv : argv = SubSeq(s, Len(s) - n + 1, Len(s))  OBVIOUS
<1>7. argv \in Seq(P)  BY <1>4, <1>5, <1>6
<1> QED  BY <1>2, <1>3, <1>6, <1>7 DEF Args

LEMMA AllocArrayStep ==
  ASSUME VmInv, AllocArray
  PROVE  VmInv' /\ PP!Next
<1> DEFINE op == "ALLOC_ARRAY"
<1>1. PICK n, argv : n = Instr.n /\ argv = Args(vm, Instr.n)  OBVIOUS
<1>2. PICK d : d = Drop(fetched, n)  OBVIOUS
<1>3. At(op) /\ Finish(PushNew(d, Array(argv))) /\ op \in Falls
  BY <1>1, <1>2 DEF AllocArray, Falls, Operations
<1>4. Instr.op = op  BY <1>3, Before
<1>5. Effect(Instr) = 1 - n /\ Takes(Instr) = n  BY <1>1, <1>4 DEF Effect, Takes
<1>6. n \in Nat /\ n <= Takes(Instr)
  <2>1. Instr = Code[vm.iptr] /\ Legal(vm.iptr)  BY <1>3, AtIs
  <2>2. n \in Nat  BY <1>1, <1>4, <2>1 DEF Legal
  <2> QED  BY <1>5, <2>2
<1>7. Dropped(d, n)  BY <1>2, <1>3, <1>6, DropDropped
<1>8. Sound(d, Entries) /\ d.values = vm.values  BY <1>7, DroppedSound
<1>9. argv \in Seq(Plain(d.values))  BY <1>1, <1>3, <1>6, <1>8, ArgsPlain
<1>10. Fine(Array(argv), d.values, Entries, d.fs) /\ Array(argv).type \notin Hidden
  BY <1>9, ArrayFine DEF Hidden
<1>11. PushedPlain(d, PushNew(d, Array(argv)), Entries)  BY <1>8, <1>10, PushNewPlain
<1> QED  BY <1>3, <1>5, <1>6, <1>7, <1>11, PushStep

LEMMA JumpStep ==
  ASSUME VmInv, Jump
  PROVE  VmInv' /\ PP!Next
<1> DEFINE op == "RJMP"
<1>1. PICK n : n = Instr.n  OBVIOUS
<1>2. PICK f : f = fetched  OBVIOUS
<1>3. PICK m : m = [f EXCEPT !.iptr = @ + n]  OBVIOUS
<1>4. At(op) /\ Finish(m)  BY <1>1, <1>2, <1>3 DEF Jump
<1>5. Instr.op = op /\ Sound(vm, Entries) /\ Takes(Instr) \in Nat  BY <1>4, Before
<1>6. Effect(Instr) = 0 /\ Takes(Instr) = 0  BY <1>5 DEF Effect, Takes
<1>7. /\ Sound(f, Entries) /\ f.values = vm.values /\ f.stack = vm.stack
      /\ f.fstack = vm.fstack /\ f.halted = vm.halted
      /\ f.check = vm.check /\ f.iptr = vm.iptr + 1 /\ f.fs = vm.fs
      /\ f.modules = vm.modules /\ f.kundeclared = vm.kundeclared
  BY <1>2, <1>5, FetchedIs
<1>8. /\ IsMachine(m) /\ m.values = vm.values /\ m.stack = vm.stack
      /\ m.fstack = vm.fstack /\ m.halted = vm.halted
      /\ m.check = vm.check /\ m.iptr = vm.iptr + 1 + n /\ m.fs = vm.fs
      /\ m.modules = vm.modules
  BY <1>3, <1>7 DEF Sound, IsMachine
<1>9. vm.halted = FALSE /\ vm.check = FALSE /\ Instr = Code[vm.iptr]
      /\ Len(vm.stack) \in Nat
  BY <1>4, AtIs
<1>10. Sound(m, Entries)
  <2>1. m.halted \in BOOLEAN /\ m.check \in BOOLEAN  BY <1>8, <1>9
  <2> QED  BY <1>5, <1>8, <2>1, SoundAs
<1>11. m.iptr \in Follow(Code, vm.iptr)  BY <1>1, <1>5, <1>8, <1>9 DEF Follow
<1>12. Straight(m)
  BY <1>6, <1>8, <1>9, <1>10, <1>11, LaterSame DEF Straight
<1> QED  BY <1>4, <1>12, StraightStep

LEMMA NamespaceSetStep ==
  ASSUME VmInv, NamespaceSetOp
  PROVE  VmInv' /\ PP!Next
<1> DEFINE op == "NAMESPACE_SET"
<1>1. PICK ns, key, id : ns = Slot(vm, 2) /\ key = Instr.key /\ id = Slot(vm, 1)  OBVIOUS
<1>2. PICK d : d = Drop(fetched, 1)  OBVIOUS
<1>3. PICK m : m = IF TypeOf(vm, ns) = "NAMESPACE" THEN NamespaceSet(fetched, ns, key, id)
                   ELSE PushTypeError(d, ns)
  OBVIOUS
<1>4. At(op) /\ Finish(m) /\ op \in Falls
  BY <1>1, <1>2, <1>3 DEF NamespaceSetOp, Falls, Operations
<1>5. Instr.op = op  BY <1>4, Before
<1>6. Effect(Instr) = 0 /\ Takes(Instr) = 2  BY <1>5 DEF Effect, Takes
<1>7. Sound(fetched, Entries) /\ fetched.values = vm.values
      /\ id \in Plain(fetched.values) /\ ns \in Plain(fetched.values)
  BY <1>1, <1>4, <1>6, Before
<1>8. CASE TypeOf(vm, ns) = "NAMESPACE"
  <2>1. ns \in Spaces(fetched.values)  BY <1>7, <1>8 DEF Spaces, Plain, TypeOf
  <2>2. Quietly(fetched, m, Entries)  BY <1>3, <1>7, <1>8, <2>1, NamespaceSetQuietly
  <2> QED  BY <1>4, <1>6, <2>2, NoMore
<1>9. CASE TypeOf(vm, ns) # "NAMESPACE"
  <2>1. Dropped(d, 1)  BY <1>2, <1>4, <1>6, DropDropped
  <2>2. Sound(d, Entries) /\ d.values = vm.values  BY <2>1, DroppedSound
  <2>3. PushedPlain(d, m, Entries)  BY <1>3, <1>7, <1>9, <2>2, PushTypeErrorPlain
  <2>4. Effect(Instr) = 1 - 1 /\ 1 <= Takes(Instr)  BY <1>6
  <2> QED  BY <1>4, <2>1, <2>3, <2>4, PushStep
<1> QED  BY <1>8, <1>9

\* A function that is taken out of a namespace.
LEMMA BindPlain ==
  ASSUME NEW d, Sound(d, Entries), NEW m, PushedPlain(d, m, Entries), NEW ns \in Plain(d.values)
  PROVE  PushedPlain(d, Bind(m, ns), Entries)
<1>1. PICK id : id = Slot(m, 1)  OBVIOUS
<1>2. PICK x : x = m.values[id]  OBVIOUS
<1>3. /\ Sound(m, Entries) /\ Beside(d, m) /\ Later(d.values, m.values, {})
      /\ Len(m.stack) = Len(d.stack) + 1
      /\ \A i \in 1 .. Len(d.stack) : m.stack[i] = d.stack[i]
      /\ id \in Plain(m.values)
  BY <1>1 DEF PushedPlain, Pushed
<1>4. CASE TypeOf(m, id) \notin {"FUNCTION", "CFUNCTION"}
  BY <1>1, <1>4 DEF Bind
<1>5. CASE TypeOf(m, id) \in {"FUNCTION", "CFUNCTION"}
  <2>1. ns \in Plain(m.values)  BY <1>3, LaterSets
  <2>2. id \in DOMAIN m.values /\ x.type \in {"FUNCTION", "CFUNCTION"}
    BY <1>2, <1>3, <1>5 DEF Plain, TypeOf
  <2>3. Fine(x, m.values, Entries, m.fs)
    BY <1>2, <1>3, <2>2, HeapIs DEF Sound
  <2>4. PICK y : y = [x EXCEPT !.self = ns]  OBVIOUS
  <2>5. Fine(y, m.values, Entries, m.fs) /\ y.type \notin Hidden
    <3>1. PICK pos, space, func : pos = x.pos /\ space = x.ns /\ func = x.func  OBVIOUS
    <3>2. CASE x.type = "FUNCTION"
      <4>1. pos \in Entries /\ space \in Spaces(m.values)
            /\ x = Function(pos, space, x.self)
        BY <2>3, <3>1, <3>2 DEF Fine, Well
      <4>2. y = Function(pos, space, ns)  BY <2>4, <4>1 DEF Function
      <4>3. PICK other : other \in BuiltinFunctions  BY DEF BuiltinFunctions
      <4> QED  BY <2>1, <4>1, <4>2, <4>3, FunctionsFine DEF Hidden
    <3>3. CASE x.type = "CFUNCTION"
      <4>1. (func \in BuiltinFunctions \/ (func \in FileFunctions /\ m.fs.ns # 0))
            /\ x = CFunction(func, x.self)
        BY <2>3, <3>1, <3>3 DEF Fine, Well
      <4>2. y = CFunction(func, ns)  BY <2>4, <4>1 DEF CFunction
      <4>3. PICK v, fs : v = m.values /\ fs = m.fs  OBVIOUS
      <4>4. ns \in Plain(v) /\ (func \in BuiltinFunctions \/ (func \in FileFunctions /\ fs.ns # 0))
        BY <2>1, <4>1, <4>3
      <4>5. Fine(CFunction(func, ns), v, Entries, fs) /\ CFunction(func, ns).type = "CFUNCTION"
        BY <4>4 DEF Fine, Well, CFunction, Types
      <4> QED  BY <4>2, <4>3, <4>5 DEF Hidden
    <3> QED  BY <2>2, <3>2, <3>3
  <2>6. PICK e : e = Drop(m, 1)  OBVIOUS
  <2>7. Len(d.stack) \in Nat /\ 1 <= Len(m.stack)  BY <1>3, StackIs
  <2>8. /\ Sound(e, Entries) /\ Beside(m, e) /\ e.values = m.values
        /\ Len(e.stack) = Len(m.stack) - 1
        /\ \A i \in 1 .. Len(m.stack) - 1 : e.stack[i] = m.stack[i]
    <3>1. PICK n \in Nat : n = 1  OBVIOUS
    <3>2. n <= Len(m.stack) /\ e = Drop(m, n)  BY <2>6, <2>7, <3>1
    <3>3. /\ Sound(e, Entries) /\ Beside(m, e) /\ e.values = m.values
          /\ Len(e.stack) = Len(m.stack) - n
          /\ \A i \in 1 .. Len(m.stack) - n : e.stack[i] = m.stack[i]
      BY <1>3, <3>2, DropSound
    <3> QED  BY <3>1, <3>3
  <2>9. e.fs = m.fs  BY <2>8 DEF Beside
  <2>10. PICK r : r = PushNew(e, y)  OBVIOUS
  <2>11. PushedPlain(e, r, Entries)  BY <2>5, <2>8, <2>9, <2>10, PushNewPlain
  <2>12. Bind(m, ns) = r  BY <1>1, <1>2, <1>5, <2>4, <2>6, <2>10 DEF Bind
  <2>13. /\ Sound(r, Entries) /\ Beside(e, r) /\ Later(e.values, r.values, {})
         /\ Len(r.stack) = Len(e.stack) + 1
         /\ \A i \in 1 .. Len(e.stack) : r.stack[i] = e.stack[i]
         /\ Slot(r, 1) \in Plain(r.values)
    BY <2>11 DEF PushedPlain, Pushed
  <2>14. Beside(d, r)  BY <1>3, <2>8, <2>13 DEF Beside
  <2>15. Later(d.values, r.values, {})  BY <1>3, <2>8, <2>13, LaterTwice
  <2>16. Len(e.stack) = Len(d.stack)  BY <1>3, <2>7, <2>8
  <2>17. Len(r.stack) = Len(d.stack) + 1
         /\ \A i \in 1 .. Len(d.stack) : r.stack[i] = d.stack[i]
    BY <1>3, <2>7, <2>8, <2>13, <2>16
  <2> QED  BY <2>12, <2>13, <2>14, <2>15, <2>17 DEF PushedPlain, Pushed
<1> QED  BY <1>4, <1>5

\* Where the names of what is plain are.
LEMMA NamesPlain ==
  ASSUME Sound(vm, Entries), NEW id \in Plain(vm.values)
  PROVE  NamesOf(id) \in Plain(vm.values)
<1>1. CASE TypeOf(vm, id) = "CVAL"
  <2>1. id \in DOMAIN vm.values  BY DEF Plain
  <2>2. vm.values[id].ns = vm.fs.nsfile  BY <1>1, <2>1, FileIs
  <2>3. vm.fs.nsfile \in Plain(vm.values)  BY HeapIs DEF Sound
  <2> QED  BY <1>1, <2>2, <2>3 DEF NamesOf
<1>2. CASE TypeOf(vm, id) # "CVAL"
  BY <1>2 DEF NamesOf
<1> QED  BY <1>1, <1>2

LEMMA NamespaceLookupStep ==
  ASSUME VmInv, NamespaceLookup
  PROVE  VmInv' /\ PP!Next
<1> DEFINE op == "NAMESPACE_LOOKUP"
<1>1. PICK id, key, ns : id = Slot(vm, 1) /\ key = Instr.key /\ ns = NamesOf(id)  OBVIOUS
<1>2. PICK d : d = Drop(fetched, 1)  OBVIOUS
<1>3. PICK found : found = NamespaceGetOr(vm, ns, key, knone)  OBVIOUS
<1>4. PICK m : m = IF TypeOf(vm, ns) = "NAMESPACE" THEN Push(d, found)
                   ELSE PushTypeError(d, ns)
  OBVIOUS
<1>5. At(op) /\ Finish(Bind(m, id)) /\ op \in Falls
  BY <1>1, <1>2, <1>3, <1>4 DEF NamespaceLookup, Falls, Operations
<1>6. Instr.op = op  BY <1>5, Before
<1>7. Effect(Instr) = 0 /\ Takes(Instr) = 1  BY <1>6 DEF Effect, Takes
<1>8. Sound(vm, Entries) /\ id \in Plain(vm.values) /\ knone \in Plain(vm.values)
  BY <1>1, <1>5, <1>7, Before
<1>9. Dropped(d, 1)  BY <1>2, <1>5, <1>7, DropDropped
<1>10. Sound(d, Entries) /\ d.values = vm.values  BY <1>9, DroppedSound
<1>11. ns \in Plain(vm.values)  BY <1>1, <1>8, NamesPlain
<1>12. PushedPlain(d, m, Entries)
  <2>1. CASE TypeOf(vm, ns) = "NAMESPACE"
    <3>1. ns \in Spaces(vm.values)  BY <1>11, <2>1 DEF Spaces, Plain, TypeOf
    <3>2. found \in Plain(d.values)  BY <1>3, <1>8, <1>10, <3>1, GetOrPlain
    <3> QED  BY <1>4, <1>10, <2>1, <3>2, PushPlain
  <2>2. CASE TypeOf(vm, ns) # "NAMESPACE"
    BY <1>4, <1>10, <1>11, <2>2, PushTypeErrorPlain
  <2> QED  BY <2>1, <2>2
<1>13. PushedPlain(d, Bind(m, id), Entries)
  <2>1. id \in Plain(d.values)  BY <1>8, <1>10
  <2> QED  BY <1>10, <1>12, <2>1, BindPlain
<1>14. Effect(Instr) = 1 - 1 /\ 1 <= Takes(Instr)  BY <1>7
<1> QED  BY <1>5, <1>9, <1>13, <1>14, PushStep

LEMMA ArrayLookupStep ==
  ASSUME VmInv, ArrayLookup
  PROVE  VmInv' /\ PP!Next
<1> DEFINE op == "ARRAY_LOOKUP"
<1>1. PICK arr, k : arr = Slot(vm, 1) /\ k = Instr.n  OBVIOUS
<1>2. PICK d : d = Drop(fetched, 1)  OBVIOUS
<1>3. PICK m : m = IF TypeOf(vm, arr) = "ARRAY" THEN Push(d, Element(arr, k))
                   ELSE PushTypeError(d, arr)
  OBVIOUS
<1>4. At(op) /\ Finish(m) /\ op \in Falls
  BY <1>1, <1>2, <1>3 DEF ArrayLookup, Falls, Operations
<1>5. Instr.op = op  BY <1>4, Before
<1>6. Effect(Instr) = 0 /\ Takes(Instr) = 1  BY <1>5 DEF Effect, Takes
<1>7. Sound(vm, Entries) /\ arr \in Plain(vm.values) /\ arr \in DOMAIN vm.values
  BY <1>1, <1>4, <1>6, Before
<1>8. Dropped(d, 1)  BY <1>2, <1>4, <1>6, DropDropped
<1>9. Sound(d, Entries) /\ d.values = vm.values  BY <1>8, DroppedSound
<1>10. PushedPlain(d, m, Entries)
  <2>1. CASE TypeOf(vm, arr) = "ARRAY"
    <3>1. Element(arr, k) \in Plain(d.values)  BY <1>7, <1>9, <2>1, ElementPlain
    <3> QED  BY <1>3, <1>9, <2>1, <3>1, PushPlain
  <2>2. CASE TypeOf(vm, arr) # "ARRAY"
    BY <1>3, <1>7, <1>9, <2>2, PushTypeErrorPlain
  <2> QED  BY <2>1, <2>2
<1>11. Effect(Instr) = 1 - 1 /\ 1 <= Takes(Instr)  BY <1>6
<1> QED  BY <1>4, <1>8, <1>10, <1>11, PushStep

LEMMA DynamicLookupStep ==
  ASSUME VmInv, DynamicLookup
  PROVE  VmInv' /\ PP!Next
<1> DEFINE op == "DYNAMIC_LOOKUP"
<1>1. PICK key, container : key = Slot(vm, 1) /\ container = NamesOf(Slot(vm, 2))  OBVIOUS
<1>2. PICK d : d = Drop(fetched, 2)  OBVIOUS
<1>3. PICK k, atom : k = vm.values[key].real /\ atom = vm.values[key].atom  OBVIOUS
<1>4. PICK found : found = NamespaceGetOr(vm, container, atom, knone)  OBVIOUS
<1>5. PICK m :
        m = CASE TypeOf(vm, key) # KeyType(container) ->
                   PushTypeError(d, Misfit(container, key))
              [] TypeOf(vm, key) = KeyType(container) /\ TypeOf(vm, key) = "REAL" ->
                   Push(d, Element(container, k))
              [] OTHER -> Push(d, found)
  OBVIOUS
<1>6. At(op) /\ Finish(m) /\ op \in Falls
  BY <1>1, <1>2, <1>3, <1>4, <1>5 DEF DynamicLookup, Falls, Operations
<1>7. Instr.op = op  BY <1>6, Before
<1>8. Effect(Instr) = 1 - 2 /\ Takes(Instr) = 2  BY <1>7 DEF Effect, Takes
<1>9. Sound(vm, Entries) /\ key \in Plain(vm.values) /\ knone \in Plain(vm.values)
      /\ Slot(vm, 2) \in Plain(vm.values)
  BY <1>1, <1>6, <1>8, Before
<1>10. container \in Plain(vm.values) /\ container \in DOMAIN vm.values
  BY <1>1, <1>9, NamesPlain DEF Plain
<1>11. Dropped(d, 2)  BY <1>2, <1>6, <1>8, DropDropped
<1>12. Sound(d, Entries) /\ d.values = vm.values  BY <1>11, DroppedSound
<1>13. PushedPlain(d, m, Entries)
  <2>1. CASE TypeOf(vm, key) # KeyType(container)
    <3>1. PICK id : id = Misfit(container, key)  OBVIOUS
    <3>2. id \in Plain(d.values)  BY <1>9, <1>10, <1>12, <3>1 DEF Misfit
    <3> QED  BY <1>5, <1>12, <2>1, <3>1, <3>2, PushTypeErrorPlain
  <2>2. CASE TypeOf(vm, key) = KeyType(container) /\ TypeOf(vm, key) = "REAL"
    <3>1. TypeOf(vm, container) = "ARRAY"  BY <2>2 DEF KeyType
    <3>2. Element(container, k) \in Plain(d.values)
      BY <1>9, <1>10, <1>12, <3>1, ElementPlain
    <3> QED  BY <1>5, <1>12, <2>2, <3>2, PushPlain
  <2>3. CASE TypeOf(vm, key) = KeyType(container) /\ TypeOf(vm, key) # "REAL"
    <3>1. TypeOf(vm, container) = "NAMESPACE"
      <4>1. TypeOf(vm, key) \in Types
        <5>1. key \in DOMAIN vm.values  BY <1>9 DEF Plain
        <5> QED  BY <1>9, <5>1, HeapIs DEF Sound, Fine, Well, TypeOf
      <4> QED  BY <2>3, <4>1 DEF KeyType, Types
    <3>2. container \in Spaces(vm.values)  BY <1>10, <3>1 DEF Spaces, TypeOf
    <3>3. found \in Plain(d.values)  BY <1>4, <1>9, <1>12, <3>2, GetOrPlain
    <3> QED  BY <1>5, <1>12, <2>3, <3>3, PushPlain
  <2> QED  BY <2>1, <2>2, <2>3
<1> QED  BY <1>6, <1>8, <1>11, <1>13, PushStep

\* One of the values that were looked at is replaced.
LEMMA ReplaceStraight ==
  ASSUME VmInv, NEW op, At(op), NEW m, Straight(m), NEW k \in 1 .. Len(m.stack),
         Len(m.stack) + 1 - k > Len(vm.stack) - Takes(Instr), NEW id \in Plain(m.values),
         NEW r, r = Replace(m, k, id)
  PROVE  Straight(r)
<1>1. Sound(m, Entries)  BY DEF Straight
<1>2. id \in DOMAIN m.values  BY DEF Plain
<1>3. /\ Sound(r, Entries) /\ Beside(m, r) /\ r.values = m.values
      /\ Len(r.stack) = Len(m.stack) /\ r.stack[Len(m.stack) + 1 - k] = id
      /\ \A i \in 1 .. Len(m.stack) : i # Len(m.stack) + 1 - k => r.stack[i] = m.stack[i]
  BY <1>1, <1>2, ReplaceSound
<1>4. /\ Len(vm.stack) \in Nat /\ Takes(Instr) \in Nat /\ Takes(Instr) <= Len(vm.stack)
      /\ Len(m.stack) \in Nat /\ Len(m.stack) = Len(vm.stack) + Effect(Instr)
      /\ Effect(Instr) \in Int /\ -Effect(Instr) <= Takes(Instr)
  <2>1. Legal(vm.iptr) /\ Instr = Code[vm.iptr]  BY AtIs
  <2> QED  BY <1>1, <2>1, AtIs, StackIs, EffectIs DEF Straight
<1>5. PICK a, b, t : a = Len(vm.stack) /\ b = Len(m.stack) /\ t = Takes(Instr)  OBVIOUS
<1>6. a \in Nat /\ b \in Nat /\ t \in Nat /\ t <= a /\ b >= a - t  BY <1>4, <1>5
<1>7. ASSUME NEW i \in 1 .. Len(vm.stack) - Takes(Instr)  PROVE r.stack[i] = vm.stack[i]
  <2>1. i \in 1 .. Len(m.stack) /\ i # Len(m.stack) + 1 - k
    BY <1>5, <1>6
  <2> QED  BY <1>3, <2>1 DEF Straight
<1>8. ASSUME NEW i \in Len(vm.stack) - Takes(Instr) + 1 .. Len(r.stack)
      PROVE  r.stack[i] \in Plain(r.values)
  <2>1. i \in 1 .. Len(m.stack) /\ i \in Len(vm.stack) - Takes(Instr) + 1 .. Len(m.stack)
    BY <1>3, <1>5, <1>6
  <2>2. m.stack[i] \in Plain(m.values)  BY <2>1 DEF Straight
  <2> QED  BY <1>3, <2>1, <2>2
<1> QED  BY <1>3, <1>7, <1>8 DEF Straight, Beside

\* The two topmost values become the one that is topmost.
LEMMA SwapStraight ==
  ASSUME VmInv, NEW op \in Falls, At(op), Effect(Instr) = 0 - 1, Takes(Instr) = 2,
         NEW r, r = Drop(Replace(fetched, 2, Slot(vm, 1)), 1)
  PROVE  Straight(r)
<1>1. PICK f : f = fetched  OBVIOUS
<1>2. PICK id : id = Slot(vm, 1)  OBVIOUS
<1>3. PICK e : e = Replace(f, 2, id)  OBVIOUS
<1>4. /\ Sound(vm, Entries) /\ Instr = Code[vm.iptr] /\ Instr.op = op
      /\ Len(vm.stack) \in Nat /\ 2 <= Len(vm.stack)
      /\ vm.halted = FALSE /\ vm.check = FALSE
  BY AtIs
<1>5. /\ Sound(f, Entries) /\ f.values = vm.values /\ f.stack = vm.stack
      /\ f.fstack = vm.fstack /\ f.halted = vm.halted
      /\ f.check = vm.check /\ f.iptr = vm.iptr + 1
  BY <1>1, <1>4, FetchedIs
<1>6. id \in Plain(f.values) /\ id \in DOMAIN f.values  BY <1>2, <1>5, Before
<1>7. /\ Sound(e, Entries) /\ Beside(f, e) /\ e.values = f.values
      /\ Len(e.stack) = Len(f.stack) /\ e.stack[Len(f.stack) + 1 - 2] = id
      /\ \A i \in 1 .. Len(f.stack) : i # Len(f.stack) + 1 - 2 => e.stack[i] = f.stack[i]
  <2>1. PICK two : two = 2  OBVIOUS
  <2>2. two \in 1 .. Len(f.stack) /\ e = Replace(f, two, id)  BY <1>3, <1>4, <1>5, <2>1
  <2>3. /\ Sound(e, Entries) /\ Beside(f, e) /\ e.values = f.values
        /\ Len(e.stack) = Len(f.stack) /\ e.stack[Len(f.stack) + 1 - two] = id
        /\ \A i \in 1 .. Len(f.stack) : i # Len(f.stack) + 1 - two => e.stack[i] = f.stack[i]
    BY <1>5, <1>6, <2>2, ReplaceSound
  <2> QED  BY <2>1, <2>3
<1>8. /\ Sound(r, Entries) /\ Beside(e, r) /\ r.values = e.values
      /\ Len(r.stack) = Len(e.stack) - 1
      /\ \A i \in 1 .. Len(e.stack) - 1 : r.stack[i] = e.stack[i]
  <2>1. PICK one : one = 1  OBVIOUS
  <2>2. one \in Nat /\ one <= Len(e.stack) /\ r = Drop(e, one)
    BY <1>1, <1>2, <1>3, <1>4, <1>5, <1>7, <2>1
  <2>3. /\ Sound(r, Entries) /\ Beside(e, r) /\ r.values = e.values
        /\ Len(r.stack) = Len(e.stack) - one
        /\ \A i \in 1 .. Len(e.stack) - one : r.stack[i] = e.stack[i]
    BY <1>7, <2>2, DropSound
  <2> QED  BY <2>1, <2>3
<1>9. PICK n : n = Len(vm.stack)  OBVIOUS
<1>10. n \in Nat /\ n >= 2 /\ Len(f.stack) = n /\ Len(e.stack) = n /\ Len(r.stack) = n - 1
  BY <1>4, <1>5, <1>7, <1>8, <1>9
<1>11. ASSUME NEW i \in 1 .. n - 2  PROVE r.stack[i] = vm.stack[i]
  <2>1. i \in 1 .. n - 1 /\ i \in 1 .. n /\ i # n + 1 - 2  BY <1>10
  <2> QED  BY <1>5, <1>7, <1>8, <1>10, <2>1
<1>12. ASSUME NEW i \in n - 2 + 1 .. n - 1  PROVE r.stack[i] \in Plain(r.values)
  <2>1. i = n + 1 - 2 /\ i \in 1 .. n - 1  BY <1>10
  <2>2. r.stack[i] = id  BY <1>7, <1>8, <1>10, <2>1
  <2> QED  BY <1>6, <1>7, <1>8, <2>2
<1>13. r.iptr \in Follow(Code, vm.iptr)
  <2>1. r.iptr = vm.iptr + 1  BY <1>5, <1>7, <1>8 DEF Beside
  <2> QED  BY <1>4, <2>1 DEF Follow, Falls
<1>14. Later(vm.values, r.values, {})  BY <1>5, <1>7, <1>8, LaterSame
<1>15. r.halted = FALSE /\ r.check = FALSE /\ r.fstack = vm.fstack
  BY <1>4, <1>5, <1>7, <1>8 DEF Beside
<1>16. Len(r.stack) = Len(vm.stack) + Effect(Instr)
  <2>1. n - 1 = n + (0 - 1)  BY <1>10
  <2> QED  BY <1>9, <1>10, <2>1
<1> QED  BY <1>8, <1>9, <1>10, <1>11, <1>12, <1>13, <1>14, <1>15, <1>16 DEF Straight

LEMMA SwapDiscardStep ==
  ASSUME VmInv, SwapDiscard
  PROVE  VmInv' /\ PP!Next
<1> DEFINE op == "SWAP_DISCARD"
<1>1. PICK d : d = Drop(Replace(fetched, 2, Slot(vm, 1)), 1)  OBVIOUS
<1>2. At(op) /\ Finish(StopIfError(d, Slot(vm, 1))) /\ op \in Falls
  BY <1>1 DEF SwapDiscard, Falls, Operations
<1>3. Instr.op = op  BY <1>2, Before
<1>4. Effect(Instr) = 0 - 1 /\ Takes(Instr) = 2  BY <1>3 DEF Effect, Takes
<1>5. Straight(d)  BY <1>1, <1>2, <1>4, SwapStraight
<1>6. PICK h \in BOOLEAN : h = (TypeOf(d, Slot(vm, 1)) = "ERROR")  OBVIOUS
<1>7. PICK r : r = [d EXCEPT !.halted = h]  OBVIOUS
<1>8. Finish(r)  BY <1>2, <1>6, <1>7 DEF StopIfError
<1> QED  BY <1>2, <1>5, <1>7, <1>8, HaltStep

LEMMA ArraySetStep ==
  ASSUME VmInv, ArraySet
  PROVE  VmInv' /\ PP!Next
<1> DEFINE op == "ARRAY_SET"
<1>1. PICK arr, k, id : arr = Slot(vm, 2) /\ k = Instr.n /\ id = Slot(vm, 1)  OBVIOUS
<1>2. PICK d : d = Drop(fetched, 1)  OBVIOUS
<1>3. PICK s : s = SetElement(fetched, arr, k, id)  OBVIOUS
<1>4. PICK m : m = CASE TypeOf(vm, arr) # "ARRAY" -> PushTypeError(d, arr)
                     [] TypeOf(vm, arr) = "ARRAY" /\ Fits(arr, k) -> s
                     [] OTHER -> Replace(s, 1, NewId(vm))
  OBVIOUS
<1>5. At(op) /\ Finish(m) /\ op \in Falls
  BY <1>1, <1>2, <1>3, <1>4 DEF ArraySet, Falls, Operations
<1>6. Instr.op = op  BY <1>5, Before
<1>7. Effect(Instr) = 0 /\ Takes(Instr) = 2  BY <1>6 DEF Effect, Takes
<1>8. Sound(fetched, Entries) /\ fetched.values = vm.values
      /\ id \in Plain(fetched.values) /\ arr \in Plain(fetched.values)
      /\ arr \in DOMAIN fetched.values
  BY <1>1, <1>5, <1>7, Before
<1>9. CASE TypeOf(vm, arr) # "ARRAY"
  <2>1. Dropped(d, 1)  BY <1>2, <1>5, <1>7, DropDropped
  <2>2. Sound(d, Entries) /\ d.values = vm.values  BY <2>1, DroppedSound
  <2>3. PushedPlain(d, m, Entries)  BY <1>4, <1>8, <1>9, <2>2, PushTypeErrorPlain
  <2>4. Effect(Instr) = 1 - 1 /\ 1 <= Takes(Instr)  BY <1>7
  <2> QED  BY <1>5, <2>1, <2>3, <2>4, PushStep
<1>10. CASE TypeOf(vm, arr) = "ARRAY"
  <2>1. Quietly(fetched, s, Entries)  BY <1>3, <1>8, <1>10, SetElementQuietly
  <2>2. CASE Fits(arr, k)
    <3>1. m = s  BY <1>4, <1>10, <2>2
    <3> QED  BY <1>5, <1>7, <2>1, <3>1, NoMore
  <2>3. CASE ~Fits(arr, k)
    <3>1. m = Replace(s, 1, NewId(vm))  BY <1>4, <1>10, <2>3
    <3>2. s = Alloc(fetched, Error)  BY <1>3, <2>3 DEF SetElement
    <3>3. NewId(fetched) = NewId(vm)  BY <1>8 DEF NewId
    <3>4. Fine(Error, fetched.values, Entries, fetched.fs) /\ Error.type \notin Hidden
      BY ConstantsFine
    <3>5. NewId(vm) \in Plain(s.values)  BY <1>8, <3>2, <3>3, <3>4, AllocIs
    <3>6. 0 \in Nat /\ 0 <= Takes(Instr) /\ Effect(Instr) = 0 - 0  BY <1>7
    <3>7. Dropped(fetched, 0)  BY <1>5, Before
    <3>8. Straight(s)  BY <1>5, <2>1, <3>6, <3>7, QuietStraight
    <3>9. /\ Len(vm.stack) \in Nat /\ 2 <= Len(vm.stack)  BY <1>5, <1>7, AtIs
    <3>10. Len(s.stack) = Len(vm.stack)  BY <1>7, <3>8, <3>9 DEF Straight
    <3>11. PICK one : one = 1  OBVIOUS
    <3>12. one \in 1 .. Len(s.stack)
           /\ Len(s.stack) + 1 - one > Len(vm.stack) - Takes(Instr)
      BY <1>7, <3>9, <3>10, <3>11
    <3>13. PICK id2 : id2 = NewId(vm)  OBVIOUS
    <3>14. id2 \in Plain(s.values) /\ m = Replace(s, one, id2)  BY <3>1, <3>5, <3>11, <3>13
    <3>15. Straight(m)  BY <1>5, <3>8, <3>12, <3>14, ReplaceStraight
    <3> QED  BY <1>5, <3>15, StraightStep
  <2> QED  BY <2>2, <2>3
<1> QED  BY <1>9, <1>10

LEMMA PushedQuietly ==
  ASSUME NEW d, NEW m, NEW r, PushedPlain(d, m, Entries), Quietly(m, r, Entries)
  PROVE  PushedPlain(d, r, Entries)
<1>1. Later(d.values, r.values, {})  BY LaterTwice DEF PushedPlain, Pushed, Quietly
<1>2. Plain(m.values) \subseteq Plain(r.values)  BY LaterSets DEF Quietly
<1> QED  BY <1>1, <1>2 DEF PushedPlain, Pushed, Quietly, Beside, Slot

LEMMA DynamicSetStep ==
  ASSUME VmInv, DynamicSet
  PROVE  VmInv' /\ PP!Next
<1> DEFINE op == "DYNAMIC_SET"
<1>1. PICK key, container, id :
        key = Slot(vm, 2) /\ container = Slot(vm, 3) /\ id = Slot(vm, 1)
  OBVIOUS
<1>2. PICK d : d = Drop(fetched, 3)  OBVIOUS
<1>3. PICK k, atom : k = vm.values[key].real /\ atom = vm.values[key].atom  OBVIOUS
<1>4. PICK p : p = Push(d, id)  OBVIOUS
<1>5. PICK e : e = Drop(p, 1)  OBVIOUS
<1>6. PICK m :
        m = CASE TypeOf(vm, key) # KeyType(container) ->
                   PushTypeError(e, Misfit(container, key))
              [] TypeOf(vm, key) = KeyType(container) /\ TypeOf(vm, key) = "REAL" ->
                   SetElement(p, container, k, id)
              [] OTHER -> NamespaceSet(p, container, atom, id)
  OBVIOUS
<1>7. At(op) /\ Finish(m) /\ op \in Falls
  BY <1>1, <1>2, <1>3, <1>4, <1>5, <1>6 DEF DynamicSet, Falls, Operations
<1>8. Instr.op = op  BY <1>7, Before
<1>9. Effect(Instr) = 1 - 3 /\ Takes(Instr) = 3  BY <1>8 DEF Effect, Takes
<1>10. Sound(vm, Entries) /\ key \in Plain(vm.values) /\ container \in Plain(vm.values)
       /\ id \in Plain(vm.values) /\ container \in DOMAIN vm.values /\ key \in DOMAIN vm.values
  BY <1>1, <1>7, <1>9, Before
<1>11. Dropped(d, 3)  BY <1>2, <1>7, <1>9, DropDropped
<1>12. Sound(d, Entries) /\ d.values = vm.values  BY <1>11, DroppedSound
<1>13. PushedPlain(d, p, Entries) /\ p.values = vm.values
  BY <1>4, <1>10, <1>12, PushPlain
<1>14. Sound(p, Entries)  BY <1>13 DEF PushedPlain, Pushed
<1>15. CASE TypeOf(vm, key) # KeyType(container)
  <2>1. PICK bad : bad = Misfit(container, key)  OBVIOUS
  <2>2. bad \in Plain(vm.values)  BY <1>10, <2>1 DEF Misfit
  <2>3. Len(d.stack) \in Nat /\ Len(p.stack) = Len(d.stack) + 1
    BY <1>12, <1>13, StackIs DEF PushedPlain, Pushed
  <2>4. PICK one : one = 1  OBVIOUS
  <2>5. one \in Nat /\ one <= Len(p.stack) /\ e = Drop(p, one)  BY <1>5, <2>3, <2>4
  <2>6. /\ Sound(e, Entries) /\ Beside(p, e) /\ e.values = p.values
        /\ Len(e.stack) = Len(p.stack) - one
        /\ \A i \in 1 .. Len(p.stack) - one : e.stack[i] = p.stack[i]
    BY <1>14, <2>5, DropSound
  <2>7. Len(e.stack) = Len(d.stack) /\ \A i \in 1 .. Len(d.stack) : e.stack[i] = d.stack[i]
    BY <1>13, <2>3, <2>4, <2>6 DEF PushedPlain, Pushed
  <2>8. Beside(fetched, e)  BY <1>11, <1>13, <2>6 DEF Beside, PushedPlain, Pushed, Dropped
  <2>9. Dropped(e, 3)  BY <1>11, <1>13, <2>6, <2>7, <2>8 DEF Dropped
  <2>10. PushedPlain(e, m, Entries)
    BY <1>6, <1>13, <1>15, <2>1, <2>2, <2>6, PushTypeErrorPlain
  <2>11. 3 \in Nat /\ 3 <= Takes(Instr)  BY <1>9
  <2> QED  BY <1>7, <1>9, <2>9, <2>10, <2>11, PushStep
<1>16. CASE TypeOf(vm, key) = KeyType(container)
  <2>1. Quietly(p, m, Entries)
    <3>1. CASE TypeOf(vm, key) = "REAL"
      <4>1. TypeOf(vm, container) = "ARRAY"  BY <1>16, <3>1 DEF KeyType
      <4>2. m = SetElement(p, container, k, id)  BY <1>6, <1>16, <3>1
      <4> QED  BY <1>10, <1>13, <1>14, <4>1, <4>2, SetElementQuietly
    <3>2. CASE TypeOf(vm, key) # "REAL"
      <4>1. TypeOf(vm, key) \in Types
        BY <1>10, HeapIs DEF Sound, Fine, Well, TypeOf
      <4>2. TypeOf(vm, container) = "NAMESPACE"  BY <1>16, <3>2, <4>1 DEF KeyType, Types
      <4>3. container \in Spaces(p.values)  BY <1>10, <1>13, <4>2 DEF Spaces, TypeOf
      <4>4. m = NamespaceSet(p, container, atom, id)  BY <1>6, <1>16, <3>2
      <4> QED  BY <1>10, <1>13, <1>14, <4>3, <4>4, NamespaceSetQuietly
    <3> QED  BY <3>1, <3>2
  <2>2. PushedPlain(d, m, Entries)  BY <1>13, <2>1, PushedQuietly
  <2>3. 3 \in Nat /\ 3 <= Takes(Instr)  BY <1>9
  <2> QED  BY <1>7, <1>9, <1>11, <2>2, <2>3, PushStep
<1> QED  BY <1>15, <1>16

\* The C module's namespaces may be made first.
LEMMA LoadCModuleStep ==
  ASSUME VmInv, LoadCModule
  PROVE  VmInv' /\ PP!Next
<1> DEFINE op == "LOAD_CMODULE"
<1>1. PICK f : f = fetched  OBVIOUS
<1>2. PICK d : d = IF Instr.key = "fs" /\ vm.fs.ns = 0 THEN Create(f) ELSE f  OBVIOUS
<1>3. PICK m : m = IF Instr.key = "fs" THEN Push(d, d.fs.ns) ELSE PushError(d)  OBVIOUS
<1>4. At(op) /\ Finish(m) /\ op \in Falls
  BY <1>1, <1>2, <1>3 DEF LoadCModule, Falls, Operations
<1>5. /\ Instr.op = op /\ Sound(vm, Entries) /\ Instr = Code[vm.iptr]
      /\ Len(vm.stack) \in Nat /\ vm.halted = FALSE /\ vm.check = FALSE
  BY <1>4, AtIs
<1>6. Effect(Instr) = 1 /\ Takes(Instr) = 0  BY <1>5 DEF Effect, Takes
<1>7. /\ Sound(f, Entries) /\ f.values = vm.values /\ f.stack = vm.stack
      /\ f.fstack = vm.fstack /\ f.halted = vm.halted
      /\ f.check = vm.check /\ f.iptr = vm.iptr + 1 /\ f.fs = vm.fs
  BY <1>1, <1>5, FetchedIs
<1>8. /\ Sound(d, Entries) /\ Later(f.values, d.values, {})
      /\ Instr.key = "fs" => d.fs.ns \in Plain(d.values)
      /\ d.halted = f.halted /\ d.check = f.check
      /\ d.iptr = f.iptr /\ d.stack = f.stack /\ d.fstack = f.fstack
  <2>1. CASE Instr.key = "fs" /\ vm.fs.ns = 0
    <3>1. Created(f, d, Entries)  BY <1>2, <1>7, <2>1, CreateSound
    <3> QED  BY <3>1 DEF Created, Spaces, Plain, Hidden
  <2>2. CASE ~(Instr.key = "fs" /\ vm.fs.ns = 0)
    <3>1. Instr.key = "fs" => f.fs.ns \in Plain(f.values)
      BY <1>7, <2>2, HeapIs DEF Sound, Spaces, Plain, Hidden
    <3> QED  BY <1>2, <1>7, <2>2, <3>1, LaterSame
  <2> QED  BY <2>1, <2>2
<1>9. PushedPlain(d, m, Entries)  BY <1>3, <1>8, PushPlain, PushErrorPlain
<1>10. /\ Sound(m, Entries) /\ Beside(d, m) /\ Later(d.values, m.values, {})
       /\ Len(m.stack) = Len(d.stack) + 1
       /\ \A i \in 1 .. Len(d.stack) : m.stack[i] = d.stack[i]
       /\ Slot(m, 1) \in Plain(m.values)
  BY <1>9 DEF PushedPlain, Pushed
<1>11. Later(vm.values, m.values, {})  BY <1>7, <1>8, <1>10, LaterTwice
<1>12. m.halted = FALSE /\ m.check = FALSE /\ m.fstack = vm.fstack /\ m.iptr = vm.iptr + 1
  BY <1>5, <1>7, <1>8, <1>10 DEF Beside
<1>13. m.iptr \in Follow(Code, vm.iptr)  BY <1>5, <1>12 DEF Follow
<1>14. Len(m.stack) = Len(vm.stack) + 1
       /\ \A i \in 1 .. Len(vm.stack) : m.stack[i] = vm.stack[i]
  BY <1>7, <1>8, <1>10
<1>15. m.stack[Len(vm.stack) + 1] \in Plain(m.values)
  <2>1. Len(m.stack) + 1 - 1 = Len(vm.stack) + 1  BY <1>5, <1>14
  <2> QED  BY <1>10, <2>1 DEF Slot
<1>16. Straight(m)
  <2>1. Len(vm.stack) - Takes(Instr) = Len(vm.stack)  BY <1>5, <1>6
  <2>2. \A i \in Len(vm.stack) + 1 .. Len(m.stack) : i = Len(vm.stack) + 1
    BY <1>5, <1>14
  <2> QED  BY <1>6, <1>10, <1>11, <1>12, <1>13, <1>14, <1>15, <2>1, <2>2 DEF Straight
<1> QED  BY <1>4, <1>16, StraightStep

LEMMA HaltStepped ==
  ASSUME VmInv, Halt
  PROVE  VmInv' /\ PP!Next
<1> DEFINE op == "HALT"
<1>1. PICK f : f = fetched  OBVIOUS
<1>2. PICK m : m = [f EXCEPT !.halted = TRUE]  OBVIOUS
<1>3. At(op) /\ Finish(m)  BY <1>1, <1>2 DEF Halt
<1>4. Sound(vm, Entries) /\ vm.halted = FALSE  BY <1>3, AtIs
<1>5. /\ Sound(f, Entries) /\ IsMachine(f) /\ f.stack = vm.stack /\ f.fstack = vm.fstack
      /\ f.check \in BOOLEAN /\ f.iptr = vm.iptr + 1
  BY <1>1, <1>4, FetchedIs DEF Sound
<1>6. /\ IsMachine(m) /\ m.values = f.values /\ m.stack = f.stack /\ m.fstack = f.fstack
      /\ m.modules = f.modules /\ m.fs = f.fs /\ m.halted = TRUE /\ m.check = f.check
      /\ m.iptr = f.iptr
  BY <1>2, <1>5 DEF IsMachine
<1>7. Sound(m, Entries)  BY <1>5, <1>6, SoundAs
<1>8. Len(m.stack) <= StackSize /\ Len(m.fstack) <= StackSize  BY <1>5, <1>6 DEF VmInv
<1>9. Ready(m)  BY <1>3, <1>5, <1>6, <1>7, <1>8, HaltedReady
<1> QED  BY <1>3, <1>4, <1>6, <1>9, StepStop

LEMMA StackOverflowStep ==
  ASSUME VmInv, StackOverflow
  PROVE  VmInv' /\ PP!Next
<1>1. /\ ~vm.halted /\ vm' = [vm EXCEPT !.halted = TRUE]
      /\ program' = program /\ eager' = eager /\ collections' = collections
  BY DEF StackOverflow
<1>2. Sound(vm, Entries) /\ IsMachine(vm) /\ vm.check \in BOOLEAN  BY DEF VmInv, Sound
<1>3. PICK m : m = vm'  OBVIOUS
<1>4. /\ IsMachine(m) /\ m.values = vm.values /\ m.stack = vm.stack /\ m.fstack = vm.fstack
      /\ m.modules = vm.modules /\ m.fs = vm.fs /\ m.halted = TRUE /\ m.check = vm.check
      /\ m.iptr = vm.iptr
  BY <1>1, <1>2, <1>3 DEF IsMachine
<1>5. Sound(m, Entries)  BY <1>2, <1>4, SoundAs
<1>6. Code' = Code /\ Entries' = Entries  BY <1>1 DEF Code, Entries
<1>7. Sound(vm, Entries)'  BY <1>3, <1>5, <1>6
<1>8. /\ (IF vm.halted THEN <<>> ELSE SlotKinds(vm))' = <<>>
      /\ (IF vm.halted THEN <<>> ELSE Activations(vm))' = <<>>
      /\ (~vm.halted /\ vm.check)' = FALSE /\ vm.halted' = TRUE
  BY <1>3, <1>4
<1>9. PP!Stop  BY <1>1, <1>8 DEF PP!Stop
<1>10. PP!Next  BY <1>9 DEF PP!Next
<1>11. PP!IInv'  BY <1>10, PP!StepProtocol DEF VmInv
<1>12. VmInv'
  BY <1>1, <1>3, <1>4, <1>6, <1>7, <1>11 DEF VmInv
<1> QED  BY <1>10, <1>12

\* A module that was run before.
LEMMA SeenStep ==
  ASSUME VmInv, At("LOAD_MODULE"), NEW n, NEW seen,
         seen = {i \in DOMAIN vm.modules : vm.modules[i].pos = n},
         NEW first \in seen,
         Finish(Push(fetched, vm.modules[first].ns))
  PROVE  VmInv' /\ PP!Next
<1> DEFINE op == "LOAD_MODULE"
<1>1. op \in Falls  BY DEF Falls, Operations
<1>2. Instr.op = op /\ Sound(fetched, Entries) /\ fetched.values = vm.values
      /\ Sound(vm, Entries)
  BY Before
<1>3. Effect(Instr) = 1  BY <1>2 DEF Effect
<1>4. PICK N : N = Spaces(vm.values)  OBVIOUS
<1>5. PICK s : s = vm.modules  OBVIOUS
<1>6. s \in Seq([pos : Nat, ns : N])  BY <1>2, <1>4, <1>5 DEF Sound, LoadedModule
<1>7. Len(s) \in Nat /\ DOMAIN s = 1 .. Len(s) /\ \A i \in 1 .. Len(s) : s[i] \in [pos : Nat, ns : N]
  BY <1>6, LenProperties, ElementOfSeq
<1>8. seen \subseteq DOMAIN s /\ seen \subseteq Nat
  <2>1. seen \subseteq DOMAIN s  BY <1>5
  <2> QED  BY <1>7, <2>1
<1>10. first \in seen  OBVIOUS
<1>11. PICK id : id = vm.modules[first].ns  OBVIOUS
<1>12. id \in N  BY <1>5, <1>7, <1>8, <1>10, <1>11
<1>13. id \in Plain(fetched.values)  BY <1>2, <1>4, <1>12 DEF Spaces, Plain, Hidden
<1>14. PushedPlain(fetched, Push(fetched, id), Entries)  BY <1>2, <1>13, PushPlain
<1> QED  BY <1>1, <1>3, <1>11, <1>14, OneMore
==============================================================================
