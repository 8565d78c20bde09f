------------------------------ MODULE Builtins ------------------------------
(***************************************************************************)
(* lib/modules/builtins.c: the functions of the builtins namespace.        *)
(* A C function takes the arguments and returns an id, which call_func     *)
(* pushes: here each is a machine with that id pushed.  The control        *)
(* functions (if, loop, while, for, guard, match) do not call anything:    *)
(* they return a continuation, and the machine calls their callback with   *)
(* what the continuation's function returned.                              *)
(***************************************************************************)
EXTENDS Machine

\* The names create gives to functions.
BuiltinFunctions ==
  {"+", "-", "*", "/", "==", "!=", "<", "<=", ">", ">=", "&&", "||", "??",
   "print", "write", "len", "if", "loop", "while", "for", "guard", "match"}

ASSUME BuiltinsAssumption == BuiltinNames \in Seq(BuiltinFunctions)

-----------------------------------------------------------------------------
(* Arithmetic, comparison and logic. *)

Reals(m, argv) == \A i \in DOMAIN argv : TypeOf(m, argv[i]) = "REAL"
FirstOther(m, argv, type) ==
  argv[CHOOSE i \in DOMAIN argv :
         /\ TypeOf(m, argv[i]) # type
         /\ \A j \in 1 .. i - 1 : TypeOf(m, argv[j]) = type]

\* A number is an integer here: a quotient has to be one.
Apply(op, a, b) ==
  CASE op = "+" -> a + b [] op = "-" -> a - b [] op = "*" -> a * b
    [] op = "/" /\ b # 0 /\ a % b = 0 -> a \div b
Identity(op) == IF op \in {"*", "/"} THEN 1 ELSE 0

Arithmetic(m, op, argv) ==
  LET nums == [i \in DOMAIN argv |-> m.values[argv[i]].real]
      sum[i \in Nat] == IF i = 1 THEN nums[1] ELSE Apply(op, sum[i - 1], nums[i])
  IN CASE argv = <<>> -> PushNew(m, Real(Identity(op)))
       [] ~Reals(m, argv) -> PushTypeError(m, FirstOther(m, argv, "REAL"))
       [] Len(argv) = 1 -> PushNew(m, Real(Apply(op, Identity(op), nums[1])))
       [] OTHER -> PushNew(m, Real(sum[Len(argv)]))

\* Two values are the same when they are one value, or atoms, numbers or
\* strings with the same contents.
Same(m, a, b) ==
  \/ a = b
  \/ /\ TypeOf(m, a) = TypeOf(m, b)
     /\ TypeOf(m, a) \in {"ATOM", "REAL", "BUFFER"}
     /\ m.values[a] = m.values[b]

Bool(b) == IF b THEN ktrue ELSE kfalse

Eq(m, argv) ==
  Push(m, Bool(\A i \in 1 .. Len(argv) - 1 : Same(m, argv[i], argv[i + 1])))
Neq(m, argv) ==
  Push(m, Bool(\E i \in 1 .. Len(argv) - 1 : ~Same(m, argv[i], argv[i + 1])))

Holds(op, a, b) ==
  CASE op = "<" -> a < b [] op = "<=" -> a <= b
    [] op = ">" -> a > b [] op = ">=" -> a >= b

\* The operands are looked at from the left: the first pair that is out of
\* order decides before a later operand of another type is an error.
Compare(m, op, argv) ==
  LET bad(i) == TypeOf(m, argv[i]) # "REAL"
      out(i) == ~bad(i) /\ i > 1 /\ ~bad(i - 1) /\
                ~Holds(op, m.values[argv[i - 1]].real, m.values[argv[i]].real)
      stops == {i \in DOMAIN argv : bad(i) \/ out(i)}
      first == CHOOSE i \in stops : \A j \in stops : i <= j
  IN CASE Len(argv) < 2 \/ stops = {} -> Push(m, ktrue)
       [] OTHER -> IF bad(first) THEN PushTypeError(m, argv[first])
                   ELSE Push(m, kfalse)

\* && and ||: the first operand that is an error or decides the outcome.
Logic(m, decides, argv) ==
  LET stops == {i \in DOMAIN argv : \/ TypeOf(m, argv[i]) = "ERROR"
                                    \/ IsTrue(m, argv[i]) = decides}
      first == CHOOSE i \in stops : \A j \in stops : i <= j
  IN CASE stops = {} -> Push(m, Bool(~decides))
       [] stops # {} /\ TypeOf(m, argv[first]) = "ERROR" -> Push(m, argv[first])
       [] OTHER -> Push(m, Bool(decides))

First(m, argv) ==
  IF \A i \in DOMAIN argv : TypeOf(m, argv[i]) = "NONE" THEN Push(m, knone)
  ELSE Push(m, FirstOther(m, argv, "NONE"))

-----------------------------------------------------------------------------
(* print and len *)

\* What print_val writes of a value: its type and, of a number, an atom or a
\* string, its contents.  Elements of an array are shown one level deep.
Scalar(v) == CASE v.type = "REAL" -> <<v.type, v.real>>
               [] v.type = "ATOM" -> <<v.type, v.atom>>
               [] v.type = "BUFFER" -> <<v.type, v.buffer>>
               [] OTHER -> <<v.type>>
Shown(m, v) ==
  IF v.type = "ARRAY"
  THEN <<"ARRAY", [i \in DOMAIN v.data |-> Scalar(m.values[v.data[i]])]>>
  ELSE Scalar(v)

PrintOut(m, argv) ==
  Push([m EXCEPT !.out =
          Append(@, [i \in DOMAIN argv |-> Shown(m, m.values[argv[i]])])], knone)

\* write: the line goes on.
WriteOut(m, argv) ==
  Push([m EXCEPT !.out =
          Append(@, <<"on">> \o [i \in DOMAIN argv |-> Shown(m, m.values[argv[i]])])],
       knone)

Length(m, argv) ==
  IF Len(argv) # 1 THEN PushError(m)
  ELSE LET v == m.values[argv[1]]
       IN PushNew(m, Real(CASE v.type = "ARRAY" -> Len(v.data)
                            [] v.type = "NAMESPACE" -> TableLen(v)
                            [] v.type = "BUFFER" -> Len(v.buffer)
                            [] OTHER -> 0))

-----------------------------------------------------------------------------
(* The control functions. *)

If(m, argv) ==
  CASE Len(argv) \notin {2, 3} -> PushError(m)
    [] Len(argv) \in {2, 3} /\ IsTrue(m, argv[1]) ->
         PushNew(m, Continuation(argv[2], "NULL", knone, <<>>, FALSE))
    [] Len(argv) = 3 /\ ~IsTrue(m, argv[1]) ->
         PushNew(m, Continuation(argv[3], "NULL", knone, <<>>, FALSE))
    [] OTHER -> Push(m, 0)

Loop(m, argv) ==
  IF Len(argv) # 1 THEN PushError(m)
  ELSE PushNew(m, Continuation(argv[1], "loop", knone, argv, TRUE))

While(m, argv) ==
  IF Len(argv) # 2 THEN PushError(m)
  ELSE PushNew(m, Continuation(argv[1], "while", knone, argv, TRUE))

\* The args array is allocated first and lives as long as the continuation.
For(m, argv) ==
  IF Len(argv) # 2 THEN PushError(m)
  ELSE PushNew(Alloc(m, Array(<<>>)),
               Continuation(argv[1], "for", NewId(m), argv, TRUE))

Guard(m, argv) ==
  LET isError(i) == TypeOf(m, argv[i]) = "ERROR"
      n == Len(argv)
  IN CASE n \notin {1, 2} -> PushError(m)
       [] n \in {1, 2} /\ isError(1) -> Push(m, argv[1])
       [] n = 2 /\ ~isError(1) /\ isError(2) -> Push(m, argv[2])
       [] OTHER ->
            CASE ~IsTrue(m, argv[1]) -> Push(m, knone)
              [] IsTrue(m, argv[1]) /\ n = 1 -> PushNew(m, Return(knone))
              [] OTHER ->
                   PushNew(m, Continuation(argv[2], "guard", knone, <<>>, FALSE))

\* Mutant: what is matched is taken for the first predicate.
MatchAll(m, argv) ==
  IF Len(argv) < 3 \/ Len(argv) % 2 = 0 THEN PushError(m)
  ELSE PushNew(Alloc(m, Array(<<argv[1]>>)),
               Continuation(argv[2], "match", NewId(m), argv, TRUE))

\* held: the predicates and functions, in turn.
Match(m, argv) ==
  IF Len(argv) < 3 \/ Len(argv) % 2 = 0 THEN PushError(m)
  ELSE PushNew(Alloc(m, Array(<<argv[1]>>)),
               Continuation(argv[2], "match", NewId(m), Tail(argv), TRUE))

\* func->cfunc.func: the C function behind a CFUNCTION value.
CallBuiltin(m, name, argv) ==
  CASE name \in {"+", "-", "*", "/"} -> Arithmetic(m, name, argv)
    [] name = "==" -> Eq(m, argv)
    [] name = "!=" -> Neq(m, argv)
    [] name \in {"<", "<=", ">", ">="} -> Compare(m, name, argv)
    [] name = "&&" -> Logic(m, FALSE, argv)
    [] name = "||" -> Logic(m, TRUE, argv)
    [] name = "??" -> First(m, argv)
    [] name = "print" -> PrintOut(m, argv)
    [] name = "write" -> WriteOut(m, argv)
    [] name = "len" -> Length(m, argv)
    [] name = "if" -> If(m, argv)
    [] name = "loop" -> Loop(m, argv)
    [] name = "while" -> While(m, argv)
    [] name = "for" -> For(m, argv)
    [] name = "guard" -> Guard(m, argv)
    [] name = "match" -> Match(m, argv)

-----------------------------------------------------------------------------
(* The callbacks: retval is what the continuation's function returned.  Each *)
(* is the id it returns and the machine with its changes to the              *)
(* continuation made in place.                                               *)

Is(m, id, atom) == m.values[id] = m.values[atom]

LoopCallback(m, retval, cont) ==
  <<m, CASE TypeOf(m, retval) = "ERROR" -> retval
         [] Is(m, retval, kstop) -> knone
         [] OTHER -> cont>>

\* Mutant: the continuation goes on calling the same function.
SameFunction(m, cont, id) == m

\* Call the other function of the pair next.
CallNext(m, cont, id) == [m EXCEPT !.values[cont].call = id]

WhileCallback(m, retval, cont) ==
  LET c == m.values[cont]
      ranCond == c.call = c.held[1]
  IN CASE TypeOf(m, retval) = "ERROR" -> <<m, retval>>
       [] ranCond /\ IsTrue(m, retval) -> <<CallNext(m, cont, c.held[2]), cont>>
       [] ranCond /\ TypeOf(m, retval) # "ERROR" /\ ~IsTrue(m, retval) ->
            <<m, knone>>
       [] OTHER -> <<CallNext(m, cont, c.held[1]), cont>>

\* The args array is written in place: the functions are called with it.
ForCallback(m, retval, cont) ==
  LET c == m.values[cont]
      ranIter == c.call = c.held[1]
      with(argv) == [m EXCEPT !.values[c.args].data = argv]
  IN CASE TypeOf(m, retval) = "ERROR" -> <<m, retval>>
       [] ranIter /\ Is(m, retval, kstop) -> <<m, knone>>
       [] ranIter /\ TypeOf(m, retval) # "ERROR" /\ ~Is(m, retval, kstop) ->
            <<CallNext(with(<<retval>>), cont, c.held[2]), cont>>
       [] OTHER -> <<CallNext(with(<<>>), cont, c.held[1]), cont>>

\* The continuation becomes the RETURN value, in place.
GuardCallback(m, retval, cont) ==
  <<[m EXCEPT !.values[cont] = Return(retval)], cont>>

MatchCallback(m, retval, cont) ==
  LET c == m.values[cont]
      next == c.index + 1
  IN CASE IsTrue(m, retval) ->
            <<[m EXCEPT !.values[cont].call = c.held[2 * c.index],
                        !.values[cont].callback = "NULL",
                        !.values[cont].marker = FALSE], cont>>
       [] ~IsTrue(m, retval) /\ 2 * next > Len(c.held) -> <<m, knone>>
       [] OTHER ->
            <<[m EXCEPT !.values[cont].call = c.held[2 * next - 1],
                        !.values[cont].index = next], cont>>

CallBack(m, retval, cont) ==
  LET name == m.values[cont].callback
  IN CASE name = "loop" -> LoopCallback(m, retval, cont)
       [] name = "while" -> WhileCallback(m, retval, cont)
       [] name = "for" -> ForCallback(m, retval, cont)
       [] name = "guard" -> GuardCallback(m, retval, cont)
       [] name = "match" -> MatchCallback(m, retval, cont)
=============================================================================
