--------------------------------- MODULE Vm ---------------------------------
(***************************************************************************)
(* lib/vm/vm.c: the bytecode interpreter.  One action per instruction, and *)
(* one for the pass that looks at what a C function returned; the garbage  *)
(* collector may run at the end of any of them.  Functions do not call     *)
(* each other on the C stack: if, while and the others leave a             *)
(* continuation on the value stack below the frame of the function they    *)
(* want called, and whatever returns to a slot above a continuation is     *)
(* given to it.  The properties are about this protocol: that it neither   *)
(* loses nor leaks stack slots, that nothing it still needs is collected,  *)
(* and that programs see neither of the two.                               *)
(***************************************************************************)
EXTENDS FsModule

CONSTANTS Programs,     \* name -> the program's bytecode and what it is
                        \* to print: [code, prints]
          Started,      \* the names of the programs that are run
          Garbage,      \* what memory nobody has set may hold
          MaxCollections

ASSUME VmAssumption ==
  /\ Started \subseteq DOMAIN Programs
  /\ Garbage \subseteq Nat /\ MaxCollections \in Nat

VARIABLES vm,           \* struct gil_vm
          program,      \* the name of the program it runs
          eager,        \* the host collects after every step, as --step and
                        \* the example tests do; otherwise need_gc decides
          collections   \* how often need_gc has been set so far

vars == <<vm, program, eager, collections>>

Code == Programs[program].code
Instr == Code[vm.iptr]

\* The machine when the instruction and its operands have been read.
fetched == [vm EXCEPT !.iptr = @ + 1]

-----------------------------------------------------------------------------
(* Calls and returns. *)

\* Mutant: the frame's namespace and arguments are swapped.
SwappedFrame(m, func, args) ==
  LET f == m.values[func]
      n == Alloc(m, Namespace(f.ns))
  IN [n EXCEPT !.fstack = Append(@, [ns |-> args, retptr |-> m.iptr,
                                     sptr |-> Len(m.stack), args |-> NewId(m)]),
               !.iptr = f.pos,
               !.stack = Append(@, knone)]

\* call_func_with_args: a new frame, and one slot between it and the caller's
\* so that the function's own values never lie above a continuation.
CallFuncWithArgs(m, func, args) ==
  LET f == m.values[func]
      n == Alloc(m, Namespace(f.ns))
  IN [n EXCEPT !.fstack = Append(@, [ns |-> NewId(m), retptr |-> m.iptr,
                                     sptr |-> Len(m.stack), args |-> args]),
               !.iptr = f.pos,
               !.stack = Append(@, knone)]

\* Mutants: a returned value is not taken to the continuation below it; a
\* continuation is not looked at.
OnlyOwnType(m) ==
  [m EXCEPT !.check = TypeOf(m, Slot(m, 1)) \in {"RETURN", "CONTINUATION"}]
OnlyReturns(m) ==
  [m EXCEPT !.check =
     \/ TypeOf(m, Slot(m, 1)) = "RETURN"
     \/ Len(m.stack) >= 2 /\ TypeOf(m, Slot(m, 2)) = "CONTINUATION"]

\* after_cfunc_return: the next step has to look at the value returned.
AfterCFuncReturn(m) ==
  [m EXCEPT !.check =
     \/ TypeOf(m, Slot(m, 1)) \in {"RETURN", "CONTINUATION"}
     \/ Len(m.stack) >= 2 /\ TypeOf(m, Slot(m, 2)) = "CONTINUATION"]

\* call_func, with the function and its arguments popped.
CallFunc(m, func, argv) ==
  CASE TypeOf(m, func) = "CFUNCTION" ->
         AfterCFuncReturn(CallCFunction(m, m.values[func], argv))
    [] TypeOf(m, func) = "FUNCTION" ->
         CallFuncWithArgs(Alloc(m, Array(argv)), func, NewId(m))
    [] OTHER -> PushError(m)

\* Leave the current frame and push id where it began.
PopFrame(m, id) ==
  LET f == Frame(m)
  IN [m EXCEPT !.fstack = SubSeq(@, 1, Len(@) - 1),
               !.stack = Append(SubSeq(@, 1, f.sptr), id),
               !.iptr = f.retptr]

\* Mutant: a continuation is gone when its function is called.
NotLeft(m) ==
  LET c == m.values[Slot(m, 1)]
      args == IF c.args = knone THEN <<>> ELSE m.values[c.args].data
  IN CallFunc(Drop(m, 1), c.call, args)

\* A continuation on top of the stack: call its function.
CallContinuation(m) ==
  LET c == m.values[Slot(m, 1)]
  IN CASE c.args = knone -> CallFunc(m, c.call, <<>>)
       [] c.args # knone /\ TypeOf(m, c.call) = "FUNCTION" ->
            CallFuncWithArgs(m, c.call, c.args)
       [] OTHER -> CallFunc(m, c.call, m.values[c.args].data)

\* A value above a continuation: the continuation takes it and is replaced by
\* what its callback answers.
Resume(m) ==
  LET answer == CallBack(m, Slot(m, 1), Slot(m, 2))
  IN Drop(Replace(answer[1], 2, answer[2]), 1)

\* One round of after_func_return; again is its tail call.
Round(m) ==
  LET top == TypeOf(m, Slot(m, 1))
      above == Len(m.stack) >= 2 /\ TypeOf(m, Slot(m, 2)) = "CONTINUATION"
  IN CASE top = "RETURN" ->
            IF Frame(m).retptr = NoReturn
            THEN [vm |-> [m EXCEPT !.halted = TRUE], again |-> FALSE]
            ELSE [vm |-> PopFrame(m, m.values[Slot(m, 1)].ret), again |-> TRUE]
       [] top = "CONTINUATION" -> [vm |-> CallContinuation(m), again |-> FALSE]
       [] top \notin {"RETURN", "CONTINUATION"} /\ above ->
            IF m.values[Slot(m, 2)].callback = "NULL"
            THEN [vm |-> Drop(Replace(m, 2, Slot(m, 1)), 1), again |-> FALSE]
            ELSE [vm |-> Resume(m), again |-> TRUE]
       [] OTHER -> [vm |-> m, again |-> FALSE]

\* Every round that goes on takes a frame or a slot off the machine.
AfterFuncReturn(m) ==
  LET most == Len(m.stack) + Len(m.fstack)
      round[n \in 0 .. most] ==
        IF n = 0 THEN [vm |-> m, again |-> TRUE]
        ELSE LET r == round[n - 1] IN IF r.again THEN Round(r.vm) ELSE r
  IN round[most].vm

-----------------------------------------------------------------------------
(* gil_vm_step *)

\* Mutant: only the frames are counted.
FramesOnly == Len(vm.fstack) > StackSize - Margin

Overflow == \/ Len(vm.stack) > StackSize - Margin
            \/ Len(vm.fstack) > StackSize - Margin

\* The end of a step that leaves the machine m.  alloc_val sets need_gc when
\* the value array is nearly full: after any step that allocated.
Finish(m) ==
  /\ UNCHANGED <<program, eager>>
  /\ \/ /\ ~eager
        /\ vm' = m
        /\ UNCHANGED collections
     \/ /\ eager
        /\ vm' = Collect(m)
        /\ UNCHANGED collections
     \/ /\ ~eager
        /\ collections < MaxCollections
        /\ DOMAIN m.values # DOMAIN vm.values
        /\ vm' = Collect(m)
        /\ collections' = collections + 1

CheckRetval ==
  /\ ~vm.halted
  /\ vm.check
  /\ Finish(AfterFuncReturn([vm EXCEPT !.check = FALSE]))

StackOverflow ==
  /\ ~vm.halted
  /\ ~vm.check
  /\ Overflow
  /\ vm' = [vm EXCEPT !.halted = TRUE]
  /\ UNCHANGED <<program, eager, collections>>

At(op) == ~vm.halted /\ ~vm.check /\ ~Overflow /\ Instr.op = op

\* DISCARD and SWAP_DISCARD report an error value they throw away and stop.
StopIfError(m, id) == [m EXCEPT !.halted = TypeOf(m, id) = "ERROR"]

Discard ==
  /\ At("DISCARD")
  /\ Finish(StopIfError(Drop(fetched, 1), Slot(vm, 1)))

Dup == At("DUP") /\ Finish(Push(fetched, Slot(vm, 1)))
\* Mutant: the top slot.
DupTop == At("DUP_2") /\ Finish(Push(fetched, Slot(vm, 1)))

Dup2 == At("DUP_2") /\ Finish(Push(fetched, Slot(vm, 2)))

\* The slot looked at is the one just above the new top: the kept value again.
SwapDiscard ==
  /\ At("SWAP_DISCARD")
  /\ Finish(StopIfError(Drop(Replace(fetched, 2, Slot(vm, 1)), 1), Slot(vm, 1)))

\* n arguments above the function.
Call ==
  /\ At("FUNC_CALL")
  /\ LET n == Instr.n
     IN Finish(CallFunc(Drop(fetched, n + 1), Slot(vm, n + 1), Args(vm, n)))

CallInfix ==
  /\ At("FUNC_CALL_INFIX")
  /\ Finish(CallFunc(Drop(fetched, 3), Slot(vm, 2), <<Slot(vm, 3), Slot(vm, 1)>>))

\* RJMP and RJMP_U4.
Jump ==
  /\ At("RJMP")
  /\ Finish([fetched EXCEPT !.iptr = @ + Instr.n])

GetArgs ==
  /\ At("STACK_FRAME_GET_ARGS")
  /\ Finish(Push(fetched, Frame(vm).args))

\* gil_vm_array_get; k counts from 0, and as an unsigned word is never
\* negative.
Element(arr, k) ==
  LET data == vm.values[arr].data
  IN IF k \in 0 .. Len(data) - 1 THEN data[k + 1] ELSE knone

GetArg ==
  /\ At("STACK_FRAME_GET_ARG")
  /\ Finish(Push(fetched, Element(Frame(vm).args, Instr.n)))

NamedParam ==
  /\ At("NAMED_PARAM")
  /\ Finish(NamespaceSet(fetched, Frame(vm).ns, Instr.key,
                         Element(Frame(vm).args, Instr.n)))

Lookup ==
  /\ At("STACK_FRAME_LOOKUP")
  /\ LET id == NamespaceGet(vm, Frame(vm).ns, Instr.key)
     IN Finish(IF id = vm.kundeclared THEN PushError(fetched)
               ELSE Push(fetched, id))

Set ==
  /\ At("STACK_FRAME_SET")
  /\ Finish(NamespaceSet(fetched, Frame(vm).ns, Instr.key, Slot(vm, 1)))

SetExisting ==
  /\ At("STACK_FRAME_REPLACE")
  /\ LET ns == Frame(vm).ns
         id == Slot(vm, 1)
     IN Finish(IF CanReplace(vm, ns, Instr.key, id)
               THEN NamespaceReplace(fetched, ns, Instr.key, id)
               ELSE PushError(Drop(fetched, 1)))

\* A failed assertion returns an error from the function.
AssertTrue ==
  /\ At("ASSERT")
  /\ Finish(IF IsTrue(vm, Slot(vm, 1)) THEN Drop(fetched, 1)
            ELSE PopFrame(Alloc(fetched, Error), NewId(fetched)))

Ret ==
  /\ At("RET")
  /\ Finish(AfterFuncReturn(PopFrame(fetched, Slot(vm, 1))))

ModRet ==
  /\ At("MOD_RET")
  /\ Finish(PopFrame(fetched, Frame(vm).ns))

AllocNone == At("ALLOC_NONE") /\ Finish(Push(fetched, knone))

\* ALLOC_ATOM, ALLOC_REAL and ALLOC_BUFFER_STATIC.
AllocConstant ==
  \/ At("ALLOC_ATOM") /\ Finish(PushNew(fetched, Atom(Instr.v)))
  \/ At("ALLOC_REAL") /\ Finish(PushNew(fetched, Real(Instr.v)))
  \/ /\ At("ALLOC_BUFFER_STATIC")
     /\ Finish(PushNew(fetched, Buffer(Code[Instr.v].v)))

AllocArray ==
  /\ At("ALLOC_ARRAY")
  /\ Finish(PushNew(Drop(fetched, Instr.n), Array(Args(vm, Instr.n))))

AllocNamespace ==
  /\ At("ALLOC_NAMESPACE")
  /\ Finish(PushNew(fetched, Namespace(0)))

AllocFunction ==
  /\ At("ALLOC_FUNCTION")
  /\ Finish(PushNew(fetched, Function(Instr.n, Frame(vm).ns, 0)))

NamespaceSetOp ==
  /\ At("NAMESPACE_SET")
  /\ LET ns == Slot(vm, 2)
     IN Finish(IF TypeOf(vm, ns) = "NAMESPACE"
               THEN NamespaceSet(fetched, ns, Instr.key, Slot(vm, 1))
               ELSE PushTypeError(Drop(fetched, 1), ns))

\* A function that is looked up in a namespace is copied, with self bound.
Bind(m, ns) ==
  IF TypeOf(m, Slot(m, 1)) \in {"FUNCTION", "CFUNCTION"}
  THEN PushNew(Drop(m, 1), [m.values[Slot(m, 1)] EXCEPT !.self = ns])
  ELSE m

\* Where a container's names are: a C value's in the namespace it was made with.
NamesOf(id) == IF TypeOf(vm, id) = "CVAL" THEN vm.values[id].ns ELSE id

NamespaceLookup ==
  /\ At("NAMESPACE_LOOKUP")
  /\ LET ns == NamesOf(Slot(vm, 1))
         m == Drop(fetched, 1)
     IN Finish(Bind(IF TypeOf(vm, ns) = "NAMESPACE"
                    THEN Push(m, NamespaceGetOr(vm, ns, Instr.key, knone))
                    ELSE PushTypeError(m, ns), Slot(vm, 1)))

\* gil_vm_array_set.
Fits(arr, k) == k \in 0 .. Len(vm.values[arr].data) - 1
SetElement(m, arr, k, id) ==
  IF Fits(arr, k) THEN [m EXCEPT !.values[arr].data[k + 1] = id]
  ELSE Alloc(m, Error)

ArrayLookup ==
  /\ At("ARRAY_LOOKUP")
  /\ LET arr == Slot(vm, 1)
         m == Drop(fetched, 1)
     IN Finish(IF TypeOf(vm, arr) = "ARRAY" THEN Push(m, Element(arr, Instr.n))
               ELSE PushTypeError(m, arr))

ArraySet ==
  /\ At("ARRAY_SET")
  /\ LET arr == Slot(vm, 2)
         m == SetElement(fetched, arr, Instr.n, Slot(vm, 1))
     IN Finish(
          CASE TypeOf(vm, arr) # "ARRAY" -> PushTypeError(Drop(fetched, 1), arr)
            [] TypeOf(vm, arr) = "ARRAY" /\ Fits(arr, Instr.n) -> m
            [] OTHER -> Replace(m, 1, NewId(vm)))

\* The types a container and its key must have.
KeyType(container) ==
  CASE TypeOf(vm, container) = "ARRAY" -> "REAL"
    [] TypeOf(vm, container) = "NAMESPACE" -> "ATOM"
    [] OTHER -> "no key fits"

\* The one of the two gil_vm_type_error complains about.
Misfit(container, key) ==
  IF TypeOf(vm, container) \in {"ARRAY", "NAMESPACE"} THEN key ELSE container

DynamicLookup ==
  /\ At("DYNAMIC_LOOKUP")
  /\ LET key == Slot(vm, 1)
         container == NamesOf(Slot(vm, 2))
         m == Drop(fetched, 2)
     IN Finish(
          CASE TypeOf(vm, key) # KeyType(container) ->
                 PushTypeError(m, Misfit(container, key))
            [] TypeOf(vm, key) = KeyType(container) /\ TypeOf(vm, key) = "REAL" ->
                 Push(m, Element(container, vm.values[key].real))
            [] OTHER ->
                 Push(m, NamespaceGetOr(vm, container, vm.values[key].atom, knone)))

\* An index that is out of range allocates an error nobody looks at.
DynamicSet ==
  /\ At("DYNAMIC_SET")
  /\ LET id == Slot(vm, 1)
         key == Slot(vm, 2)
         container == Slot(vm, 3)
         m == Push(Drop(fetched, 3), id)
     IN Finish(
          CASE TypeOf(vm, key) # KeyType(container) ->
                 PushTypeError(Drop(m, 1), Misfit(container, key))
            [] TypeOf(vm, key) = KeyType(container) /\ TypeOf(vm, key) = "REAL" ->
                 SetElement(m, container, vm.values[key].real, id)
            [] OTHER -> NamespaceSet(m, container, vm.values[key].atom, id))

\* The module was run before: its namespace.  Otherwise run it, and register
\* it at once.
LoadModule ==
  /\ At("LOAD_MODULE")
  /\ LET seen == {i \in DOMAIN vm.modules : vm.modules[i].pos = Instr.n}
         ns == NewId(vm)
     IN Finish(
          IF seen # {}
          THEN Push(fetched, vm.modules[CHOOSE i \in seen : \A j \in seen : i <= j].ns)
          ELSE [Alloc(fetched, Namespace(vm.fstack[2].ns)) EXCEPT
                  !.fstack = Append(@, [ns |-> ns, retptr |-> fetched.iptr,
                                        sptr |-> Len(vm.stack), args |-> knone]),
                  !.iptr = Instr.n,
                  !.modules = Append(@, [pos |-> Instr.n, ns |-> ns])])

\* The C module makes its namespace the first time it is loaded.
LoadCModule ==
  /\ At("LOAD_CMODULE")
  /\ LET m == IF vm.fs.ns = 0 THEN Create(fetched) ELSE fetched
     IN Finish(IF Instr.key = "fs" THEN Push(m, m.fs.ns) ELSE PushError(fetched))

Halt == At("HALT") /\ Finish([fetched EXCEPT !.halted = TRUE])

Init ==
  /\ \E kundeclared, nsfile \in Garbage : vm = InitialMachine(kundeclared, nsfile)
  /\ program \in Started
  /\ eager \in BOOLEAN
  /\ collections = 0

\* gil_vm_run's loop: a step as long as the machine is not halted.
Step ==
  \/ CheckRetval \/ StackOverflow
  \/ Discard \/ Dup \/ Dup2 \/ SwapDiscard \/ Call \/ CallInfix \/ Jump
  \/ GetArgs \/ GetArg \/ NamedParam \/ Lookup \/ Set \/ SetExisting
  \/ AssertTrue \/ Ret \/ ModRet \/ AllocNone \/ AllocConstant \/ AllocArray
  \/ AllocNamespace \/ AllocFunction \/ NamespaceSetOp \/ NamespaceLookup
  \/ ArrayLookup \/ ArraySet \/ DynamicLookup \/ DynamicSet \/ LoadModule
  \/ LoadCModule \/ Halt

\* gil_vm_run has returned.
Halted == vm.halted /\ UNCHANGED vars

Next == Step \/ Halted

Spec == Init /\ [][Next]_vars

\* WF_vars(Step), said without ENABLED: the runs find no deadlock, so a machine
\* that is not halted has a step to take, and the step changes it, for it moves
\* iptr or clears check.
FairSpec == Spec /\ ([]<>vm.halted \/ []<><<TRUE>>_vars)

-----------------------------------------------------------------------------
(* What the code says of the stack, before it is run. *)

\* The slots an instruction adds, as include/gilia/bytecode.h documents them
\* and as the value it leaves requires.
Effect(i) ==
  CASE i.op \in {"DUP", "DUP_2", "STACK_FRAME_GET_ARGS", "STACK_FRAME_GET_ARG",
                 "STACK_FRAME_LOOKUP", "ALLOC_NONE", "ALLOC_ATOM", "ALLOC_REAL",
                 "ALLOC_BUFFER_STATIC", "ALLOC_NAMESPACE", "ALLOC_FUNCTION",
                 "LOAD_MODULE", "LOAD_CMODULE"} -> 1
    [] i.op \in {"DISCARD", "SWAP_DISCARD", "ASSERT", "DYNAMIC_LOOKUP"} -> -1
    [] i.op \in {"FUNC_CALL_INFIX", "DYNAMIC_SET"} -> -2
    [] i.op = "FUNC_CALL" -> -i.n
    [] i.op = "ALLOC_ARRAY" -> 1 - i.n
    [] OTHER -> 0

\* How many values it takes, or looks at.
Takes(i) ==
  CASE i.op \in {"DISCARD", "DUP", "STACK_FRAME_SET", "STACK_FRAME_REPLACE", "ASSERT",
                 "RET", "NAMESPACE_LOOKUP", "ARRAY_LOOKUP"} -> 1
    [] i.op \in {"DUP_2", "SWAP_DISCARD", "NAMESPACE_SET", "ARRAY_SET",
                 "DYNAMIC_LOOKUP"} -> 2
    [] i.op \in {"FUNC_CALL_INFIX", "DYNAMIC_SET"} -> 3
    [] i.op = "FUNC_CALL" -> i.n + 1
    [] i.op = "ALLOC_ARRAY" -> i.n
    [] OTHER -> 0

\* What is known before each instruction, when it is start(p) where a body begins and
\* next(x, i) after an instruction i.  Code that is jumped over is another body.
Along(code, start(_), next(_, _)) ==
  LET jump(q) == code[q].op = "RJMP"
      from(p) == {q \in 1 .. p - 1 : jump(q) /\ q + 1 + code[q].n = p}
      known[n \in 0 .. Len(code)] ==
        IF n = 0 THEN <<>>
        ELSE LET before == known[n - 1]
             IN Append(before,
                  CASE from(n) # {} -> before[CHOOSE q \in from(n) : TRUE]
                    [] from(n) = {} /\ (n = 1 \/ jump(n - 1)) -> start(n)
                    [] OTHER -> next(before[n - 1], code[n - 1]))
  IN known[Len(code)]

\* How many of its own values a function, a module or the program has on the
\* stack before each instruction.
Heights(code) ==
  LET start(p) == 0
      next(height, i) == height + Effect(i)
  IN Along(code, start, next)

\* Whose instruction it is: the program's, a function's, a module's or nobody's.
Bodies(code) ==
  LET begins(p, op) == \E q \in DOMAIN code : code[q].op = op /\ code[q].n = p
      start(p) == CASE p = 1 -> "program"
                    [] p # 1 /\ begins(p, "ALLOC_FUNCTION") -> "function"
                    [] p # 1 /\ begins(p, "LOAD_MODULE") -> "module"
                    [] OTHER -> "data"
      next(body, i) == body
  IN Along(code, start, next)

Operations ==
  {"DISCARD", "DUP", "DUP_2", "SWAP_DISCARD", "FUNC_CALL", "FUNC_CALL_INFIX", "RJMP",
   "STACK_FRAME_GET_ARGS", "STACK_FRAME_GET_ARG", "NAMED_PARAM", "STACK_FRAME_LOOKUP",
   "STACK_FRAME_SET", "STACK_FRAME_REPLACE", "ASSERT", "RET", "MOD_RET", "ALLOC_NONE",
   "ALLOC_ATOM", "ALLOC_REAL", "ALLOC_BUFFER_STATIC", "ALLOC_ARRAY", "ALLOC_NAMESPACE",
   "ALLOC_FUNCTION", "NAMESPACE_SET", "NAMESPACE_LOOKUP", "ARRAY_LOOKUP", "ARRAY_SET",
   "DYNAMIC_LOOKUP", "DYNAMIC_SET", "LOAD_MODULE", "LOAD_CMODULE", "HALT"}

\* Where the machine goes after the instruction at p, unless it calls something.
Follow(code, p) ==
  CASE code[p].op = "RJMP" -> {p + 1 + code[p].n}
    [] code[p].op \in {"RET", "MOD_RET", "HALT"} -> {}
    [] OTHER -> {p + 1}

\* What the machine takes on trust of the code it is given, as bytecode.h documents
\* the instructions: wherever it can get to, there is an instruction, what the
\* instruction takes is on the stack, arguments and named parameters are those of a
\* function, and functions and modules have an end of their own.
Verified(code) ==
  LET height == Heights(code)
      body == Bodies(code)
      begins(p, kind) == p \in DOMAIN code /\ body[p] = kind /\ height[p] = 0
  IN /\ Len(code) \in Nat /\ DOMAIN code = 1 .. Len(code)
     /\ begins(1, "program")
     /\ \A p \in DOMAIN code : body[p] # "data" =>
          LET op == code[p].op
          IN /\ op \in Operations
             /\ op \in {"FUNC_CALL", "ALLOC_ARRAY", "RJMP"} => code[p].n \in Nat
             /\ height[p] \in Nat /\ Takes(code[p]) <= height[p]
             /\ op \in {"STACK_FRAME_GET_ARG", "NAMED_PARAM", "ASSERT", "RET"} =>
                  body[p] = "function"
             /\ op = "MOD_RET" => body[p] = "module"
             /\ op = "ALLOC_FUNCTION" => begins(code[p].n, "function")
             /\ op = "LOAD_MODULE" => begins(code[p].n, "module")
             /\ \A q \in Follow(code, p) :
                  /\ q \in DOMAIN code /\ body[q] = body[p]
                  /\ height[q] = height[p] + Effect(code[p])

ASSUME ProgramsVerified ==
  LET programs == Programs
  IN \A name \in DOMAIN programs : Verified(programs[name].code)

Height ==
  LET programs == Programs
  IN [name \in DOMAIN programs |-> Heights(programs[name].code)]

-----------------------------------------------------------------------------
(* Properties *)

Ids == DOMAIN vm.values

TypeOK ==
  /\ vm.halted \in BOOLEAN /\ vm.check \in BOOLEAN
  /\ vm.iptr \in 1 .. Len(Code) + 1
  /\ \A id \in Ids : id \in Nat /\ vm.values[id].type \in Types
  /\ vm.stack \in Seq(Nat)
  /\ \A f \in 1 .. Len(vm.fstack) :
       vm.fstack[f].ns \in Ids /\ TypeOf(vm, vm.fstack[f].ns) = "NAMESPACE"
  /\ collections \in 0 .. MaxCollections /\ eager \in BOOLEAN

\* The machine as module Calls sees it.
Kind(m, id) ==
  CASE TypeOf(m, id) = "RETURN" -> "return"
    [] TypeOf(m, id) = "CONTINUATION" ->
         IF m.values[id].callback \in {"NULL", "match"} THEN "passing" ELSE "answering"
    [] OTHER -> "value"
SlotKinds(m) == [i \in DOMAIN m.stack |-> Kind(m, m.stack[i])]

\* Where a frame's own values begin: above the root frame's nothing, above a
\* function's the slot that call_func_with_args leaves, above a module's (its
\* args are none) nothing.
Base(f) ==
  CASE f.retptr = NoReturn -> 0
    [] f.retptr # NoReturn /\ f.args = knone -> f.sptr
    [] OTHER -> f.sptr + 1

\* The frames but for that of the builtins, with the height the code has where they
\* go on.
GoesOn(m, f) == IF f = Len(m.fstack) THEN m.iptr ELSE m.fstack[f + 1].retptr
Activations(m) ==
  LET height == Height[program]
  IN [f \in 1 .. Len(m.fstack) - 1 |->
        [sptr |-> m.fstack[f + 1].sptr, base |-> Base(m.fstack[f + 1]),
         want |-> height[GoesOn(m, f + 1)]]]

Protocol == INSTANCE Calls WITH
  stack <- IF vm.halted THEN <<>> ELSE SlotKinds(vm),
  frames <- IF vm.halted THEN <<>> ELSE Activations(vm),
  check <- ~vm.halted /\ vm.check,
  halted <- vm.halted

\* Every frame has exactly the values its code says on the stack, and above them
\* only continuations that what it waits for will be handed to.
StackBalance == Protocol!StackBalance

\* The machine keeps the protocol, whatever the program is: calls, returns,
\* continuations that are resumed and RETURN values are those of module Calls
\* (vm.c:429-582, 626-653, 659-812).
KeepsProtocol == Protocol!Spec

\* The ids the machine follows from a value, whatever the collector marks.
Uses(v) ==
  CASE v.type \in {"FUNCTION", "CVAL"} -> {v.ns}
    [] v.type = "RETURN" -> {v.ret}
    [] v.type = "ARRAY" -> {v.data[i] : i \in DOMAIN v.data}
    [] v.type = "NAMESPACE" -> {v.parent} \cup {v.map[k] : k \in DOMAIN v.map}
    [] v.type = "CONTINUATION" ->
         {v.call, v.args} \cup
         (IF v.callback = "NULL" THEN {}
          ELSE {v.held[i] : i \in DOMAIN v.held})
    [] OTHER -> {}

\* What is needed is never freed: as long as the machine runs, the ids in the
\* stack, the frames and the loaded modules are in use, and so is every id
\* used by a value the collector keeps.  gc_mark has no case for RETURN, and a
\* continuation's values are marked by a function its builtin may leave out.
NoDangling ==
  ~vm.halted =>
    /\ Roots(vm) \subseteq Ids
    /\ \A id \in Marked(vm) : Uses(vm.values[id]) \subseteq Ids

\* Continuations and RETURN values are the machine's own: a program never gets
\* hold of one.  They are on the stack, in one slot, and in no variable, no
\* array and no function.
NoEscape ==
  LET hidden == {id \in Ids : TypeOf(vm, id) \in {"CONTINUATION", "RETURN"}}
  IN /\ \A id \in Ids \ hidden : Children(vm.values[id]) \cap hidden = {}
     /\ \A i, j \in DOMAIN vm.stack :
          vm.stack[i] = vm.stack[j] /\ vm.stack[i] \in hidden => i = j

\* The stacks never outgrow their arrays, although the pass that handles
\* continuations pushes frames without the check at vm.c:653.
StackBounded == Len(vm.stack) <= StackSize /\ Len(vm.fstack) <= StackSize

\* A program prints what its constructs promise, in order and nothing else,
\* whenever the collector runs.
PrintsAsExpected ==
  LET prints == Programs[program].prints
  IN /\ Len(vm.out) <= Len(prints)
     /\ vm.out = SubSeq(prints, 1, Len(vm.out))
     /\ vm.halted => vm.out = prints

\* What variables refer to, and what they come to from there: what would be marked
\* with nothing on the stack and no arguments in the frames.
InVariables(m) ==
  Marked([m EXCEPT !.stack = <<>>,
                   !.fstack = [f \in DOMAIN @ |-> [@[f] EXCEPT !.args = knone]]])

\* test/examples/functions.g:25, "$ is a variable containing the arguments
\* passed to the function": in a variable of the program they stay what they were,
\* as every array does, unless the program assigns to an element.
ArgumentsStay ==
  [][ vm.check \/ Instr.op \notin {"ARRAY_SET", "DYNAMIC_SET"} =>
        \A id \in InVariables(vm) \cap InVariables(vm') :
          TypeOf(vm, id) = "ARRAY" => vm'.values[id] = vm.values[id] ]_vars

Executes(op) == ~vm.check /\ ~Overflow /\ Instr.op = op

\* include/gilia/bytecode.h:98-101, "Assign <val> to stack frame at <key>": after
\* an assignment the variable is there.
AssignmentBinds ==
  [][ Executes("STACK_FRAME_SET") =>
        Instr.key \in DOMAIN vm'.values[Frame(vm).ns].map ]_vars

\* A program that calls nothing endlessly comes to its end.
Terminates == <>vm.halted

\* What the machine takes on trust of the program: the control functions are given
\* functions to call (of anything else the error stays above the continuation, and
\* nobody looks at it, vm.c:554), and no assertion fails in a function that a
\* continuation has called (vm.c:768 leaves the frame and looks no further).
CanCall(id) == TypeOf(vm, id) \in {"FUNCTION", "CFUNCTION"}
ProperUse ==
  ~vm.halted =>
    /\ \A i \in DOMAIN vm.stack :
         LET x == vm.values[vm.stack[i]]
         IN x.type = "CONTINUATION" =>
              /\ CanCall(x.call)
              /\ x.callback # "NULL" => \A k \in DOMAIN x.held : CanCall(x.held[k])
    /\ At("ASSERT") /\ ~IsTrue(vm, Slot(vm, 1)) =>
         \/ Frame(vm).sptr = 0
         \/ TypeOf(vm, vm.stack[Frame(vm).sptr]) # "CONTINUATION"
=============================================================================
