------------------------------ MODULE Machine ------------------------------
(***************************************************************************)
(* struct gil_vm (include/gilia/vm/vm.h) and the helpers of lib/vm that    *)
(* every instruction and every built-in function is written with.  A       *)
(* machine m is a record: the operators below take a machine and return    *)
(* the machine after the C function of the same name.                      *)
(*                                                                         *)
(* Value ids are natural numbers; m.values maps the ids in use to their    *)
(* values, and a new value takes the lowest free id, as the bitmap of      *)
(* module Bitset does while its first table has room.  A namespace is a    *)
(* finite map (see module Namespace for the hash table behind it), an      *)
(* array a sequence of ids, a number an integer, an atom and a string      *)
(* their text.  Instruction addresses count instructions, from 1.          *)
(***************************************************************************)
EXTENDS Integers, Sequences, FiniteSets

CONSTANTS BuiltinNames,  \* the names in the builtins namespace, in order
          StackSize,     \* slots of stack and of fstack (1024)
          Margin         \* gil_vm_step stops this far below the end (32)

ASSUME MachineAssumption ==
  /\ StackSize \in Nat /\ Margin \in 2 .. StackSize - 1
  /\ BuiltinNames \in Seq(STRING)

-----------------------------------------------------------------------------
(* struct gil_vm_value *)

None == [type |-> "NONE"]
Atom(a) == [type |-> "ATOM", atom |-> a]
Real(n) == [type |-> "REAL", real |-> n]
Buffer(s) == [type |-> "BUFFER", buffer |-> s]
Array(data) == [type |-> "ARRAY", data |-> data]
\* Besides its map, what len needs of the hash table: its size, and the deleted keys
\* whose slots still count.
Namespace(parent) ==
  [type |-> "NAMESPACE", parent |-> parent, map |-> <<>>, size |-> 16, gone |-> {}]
Function(pos, ns, self) ==
  [type |-> "FUNCTION", pos |-> pos, ns |-> ns, self |-> self]
CFunction(func, self) == [type |-> "CFUNCTION", func |-> func, self |-> self]
Return(ret) == [type |-> "RETURN", ret |-> ret]
Error == [type |-> "ERROR"]

\* A continuation and its struct gil_vm_contcontext: the callback, the args
\* array (knone for "no arguments"), the values the callback's closure holds
\* and whether there is a marker to mark them.  match keeps an index too.
\* The context of if is a null pointer: no callback, no arguments, no marker.
Continuation(call, callback, args, held, marker) ==
  [type |-> "CONTINUATION", call |-> call, callback |-> callback,
   args |-> args, held |-> held, marker |-> marker, index |-> 1]

Types == {"NONE", "ATOM", "REAL", "BUFFER", "ARRAY", "NAMESPACE", "FUNCTION",
          "CFUNCTION", "CVAL", "CONTINUATION", "RETURN", "ERROR"}

\* The ids gil_vm_init gives out first.
undeclared == 0
knone == 1
ktrue == 2
kfalse == 3
kstop == 4
gc_start == 5
builtins == 5
root == builtins + Len(BuiltinNames) + 1

NoReturn == -1           \* retptr of the root frame, ~0 in the code

\* The ids of the names in the builtins namespace.
BuiltinIds ==
  [name \in {BuiltinNames[i] : i \in DOMAIN BuiltinNames} \cup {"none"} |->
     IF name = "none" THEN knone
     ELSE builtins + (CHOOSE i \in DOMAIN BuiltinNames : BuiltinNames[i] = name)]

\* gil_vm_init: the constant values, the builtins and their frame, the root
\* namespace and its frame.
InitialValue(id) ==
  CASE id = ktrue -> Atom("true")
    [] id = kfalse -> Atom("false")
    [] id = kstop -> Atom("stop")
    [] id = builtins -> [Namespace(0) EXCEPT !.map = BuiltinIds]
    [] id \in builtins + 1 .. root - 1 ->
         CFunction(BuiltinNames[id - builtins], 0)
    [] id = root -> Namespace(builtins)
    [] OTHER -> None

\* Neither kundeclared nor what the fs module remembers of its own is set when
\* the machine starts.
InitialMachine(kundeclared, nsfile) ==
  [halted |-> FALSE,
   kundeclared |-> kundeclared,
   check |-> FALSE,                          \* need_check_retval
   iptr |-> 1,
   stack |-> <<>>,
   fstack |-> <<[ns |-> builtins, sptr |-> 0, retptr |-> 0, args |-> 0],
                [ns |-> root, sptr |-> 0, retptr |-> NoReturn, args |-> 0]>>,
   values |-> [id \in 0 .. root |-> InitialValue(id)],
   modules |-> <<>>,
   fs |-> [ns |-> 0, nsfile |-> nsfile],     \* the C module, not loaded yet
   out |-> <<>>]                             \* what std_output was given

-----------------------------------------------------------------------------
(* The stack: slot k counts from the top. *)

Slot(m, k) == m.stack[Len(m.stack) + 1 - k]
TypeOf(m, id) == m.values[id].type
Frame(m) == m.fstack[Len(m.fstack)]

Push(m, id) == [m EXCEPT !.stack = Append(@, id)]
Drop(m, n) == [m EXCEPT !.stack = SubSeq(@, 1, Len(@) - n)]
Replace(m, k, id) == [m EXCEPT !.stack[Len(m.stack) + 1 - k] = id]

\* The n topmost slots, the deepest first.
Args(m, n) == SubSeq(m.stack, Len(m.stack) - n + 1, Len(m.stack))

\* alloc_val.
NewId(m) ==
  CHOOSE id \in 0 .. Cardinality(DOMAIN m.values) :
    id \notin DOMAIN m.values /\ 0 .. id - 1 \subseteq DOMAIN m.values

\* The function f, with y as the value of x.
With(f, x, y) == [z \in DOMAIN f \cup {x} |-> IF z = x THEN y ELSE f[z]]

Alloc(m, value) == [m EXCEPT !.values = With(@, NewId(m), value)]
PushNew(m, value) == Push(Alloc(m, value), NewId(m))

\* gil_vm_error, and gil_vm_type_error, which passes an error on.
PushError(m) == PushNew(m, Error)
PushTypeError(m, id) ==
  IF TypeOf(m, id) = "ERROR" THEN Push(m, id) ELSE PushError(m)

IsTrue(m, id) == m.values[id] = m.values[ktrue]

-----------------------------------------------------------------------------
(* Namespaces: the functions lib/vm/namespace.c exports. *)

\* The nearest namespace from ns up its parents that has the key, 0 if none.
Owner(m, ns, key) ==
  LET up[n \in {id \in DOMAIN m.values : TypeOf(m, id) = "NAMESPACE"}] ==
        IF key \in DOMAIN m.values[n].map THEN n
        ELSE IF m.values[n].parent = 0 THEN 0
        ELSE up[m.values[n].parent]
  IN up[ns]

\* gil_vm_namespace_get: 0 when the key is nowhere.
NamespaceGet(m, ns, key) ==
  LET owner == Owner(m, ns, key)
  IN IF owner = 0 THEN 0 ELSE m.values[owner].map[key]

NamespaceGetOr(m, ns, key, alt) ==
  LET id == NamespaceGet(m, ns, key) IN IF id = 0 THEN alt ELSE id

\* ns->len.  A key that is deleted still counts, until it is set again or the table
\* grows.  (Keys do not collide here; another one could take the slot.)
TableLen(v) == Cardinality(DOMAIN v.map \cup v.gone)

\* The table that set puts a key in: a crowded one grows, without the deleted keys.
Roomy(v) ==
  IF TableLen(v) < v.size \div 2 THEN v ELSE [v EXCEPT !.size = 2 * @, !.gone = {}]

\* gil_vm_namespace_set: storing id 0 deletes the key.
Stored(v, key, id) ==
  IF id = 0
  THEN [v EXCEPT !.map = [k \in DOMAIN @ \ {key} |-> @[k]],
                 !.gone = @ \cup ({key} \cap DOMAIN v.map)]
  ELSE [Roomy(v) EXCEPT !.map = With(@, key, id), !.gone = @ \ {key}]

NamespaceSet(m, ns, key, id) == [m EXCEPT !.values[ns] = Stored(@, key, id)]

\* gil_vm_namespace_replace: FALSE when there is nothing to replace.
CanReplace(m, ns, key, id) == id = 0 \/ Owner(m, ns, key) # 0
NamespaceReplace(m, ns, key, id) ==
  NamespaceSet(m, IF id = 0 THEN ns ELSE Owner(m, ns, key), key, id)

-----------------------------------------------------------------------------
(* gil_vm_gc *)

\* Mutant: a continuation's marker is not called.
NoMarker(v) ==
  CASE v.type = "ARRAY" -> {v.data[i] : i \in DOMAIN v.data}
    [] v.type = "NAMESPACE" ->
         {v.map[k] : k \in DOMAIN v.map} \cup ({v.parent} \ {0})
    [] v.type = "FUNCTION" -> {v.ns, v.self}
    [] v.type = "CFUNCTION" -> {v.self}
    [] v.type = "CONTINUATION" -> {v.call, v.args}
    [] OTHER -> {}

\* What gc_mark marks from a value.
Children(v) ==
  CASE v.type = "ARRAY" -> {v.data[i] : i \in DOMAIN v.data}
    [] v.type = "NAMESPACE" ->
         {v.map[k] : k \in DOMAIN v.map} \cup ({v.parent} \ {0})
    [] v.type = "FUNCTION" -> {v.ns, v.self}
    [] v.type = "CFUNCTION" -> {v.self}
    [] v.type = "CONTINUATION" ->
         {v.call, v.args} \cup
         (IF v.marker THEN {v.held[i] : i \in DOMAIN v.held} ELSE {})
    [] OTHER -> {}

\* The base of the marking: the stack, the frames, the loaded modules, and what
\* the C module's marker marks, whether it is loaded or not.
Roots(m) ==
  {m.stack[i] : i \in DOMAIN m.stack}
  \cup (UNION {{m.fstack[i].ns, m.fstack[i].args} : i \in DOMAIN m.fstack})
  \cup {m.modules[i].ns : i \in DOMAIN m.modules}
  \cup ({m.fs.ns} \ {0}) \cup {m.fs.nsfile}

Marked(m) ==
  LET mark[S \in SUBSET Nat] ==
        LET T == S \cup UNION {Children(m.values[id]) :
                                id \in S \cap DOMAIN m.values}
        IN IF T = S THEN S ELSE mark[T]
  IN mark[Roots(m)] \cap DOMAIN m.values

\* The sweep starts at gc_start: the constants below it are never freed.
Collect(m) ==
  [m EXCEPT !.values = [id \in Marked(m) \cup 0 .. gc_start - 1 |-> @[id]]]
=============================================================================
