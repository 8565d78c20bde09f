------------------------------ MODULE Compiler ------------------------------
(***************************************************************************)
(* lib/parse/parse.c and lib/gen/gen.c: the recursive-descent parser, which *)
(* calls the generator as it goes, so that parsing a program is writing its *)
(* bytecode.  Tokens are what lib/parse/lex.c hands out: a tuple of a kind  *)
(* and, for an identifier ("ident"), an identifier with a trailing = such   *)
(* as += ("ident="), a number ("num"), a .0 ("dot-num") or a string         *)
(* ("str"), its value.  "(ns" is a parenthesis with no space before it.     *)
(*                                                                          *)
(* The bytecode is the sequence of instructions, addressed by their         *)
(* position, instead of their encoding; the operands are read_uint's        *)
(* numbers, with an atom's text for its id.  The bytes of a string literal  *)
(* are one DATA cell that the RJMP before it jumps over.                    *)
(***************************************************************************)
EXTENDS Integers, Resolver
LOCAL INSTANCE TLC

CONSTANTS Main,       \* the path of the program
          Paths,      \* what strings and names say as paths, if they do
          Files,      \* the files there are: path from the root -> tokens
          CModules,   \* names of the registered C modules
          MaxDepth    \* GIL_MAX_STACK_DEPTH

-----------------------------------------------------------------------------
(* The parser's state, and the steps it is made of.  After an error nothing *)
(* more is read or written: every function returns -1 at once.              *)

\* toks: what is left of the program.  code: the bytecode so far.
\* strings: where each string literal's bytes are.  resolver: the generator's.
\* suffixed: the value 1 of parse_arg_level_expression, "not just the one base
\* expression".
Parser(toks) == [toks |-> toks, code |-> <<>>, strings |-> <<>>, ok |-> TRUE,
                 resolver |-> NewResolver(Main), suffixed |-> FALSE]

Token(p, n) == IF n <= Len(p.toks) THEN p.toks[n] ELSE <<"EOF">>
Kind(p, n) == Token(p, n)[1]
Val(p, n) == Token(p, n)[2]
Kinds(p, kinds) == \A n \in DOMAIN kinds : Kind(p, n) = kinds[n]
IsIdent(p, name) == Kind(p, 1) = "ident" /\ Val(p, 1) = name

InfixNames == {"+", "-", "*", "/", "==", "!=", "<", "<=", ">", ">=", "&&",
               "||", "??"}
IsInfix(p) == Kind(p, 1) = "ident" /\ Val(p, 1) \in InfixNames
IsEnd(p) == Kind(p, 1) \in {"}", "]", ")", "EOF", "EOL"}

Fail(p) == [p EXCEPT !.ok = FALSE]
Consume(p, n) ==
  IF p.ok THEN [p EXCEPT !.toks = SubSeq(@, n + 1, Len(@))] ELSE p
SkipOpt(p, kind) == IF Kind(p, 1) = kind THEN Consume(p, 1) ELSE p
Expect(p, kind) == IF Kind(p, 1) = kind THEN Consume(p, 1) ELSE Fail(p)

Emit(p, instr) == IF p.ok THEN [p EXCEPT !.code = Append(@, instr)] ELSE p
Put(p, op) == Emit(p, [op |-> op])
PutKey(p, op, key) == Emit(p, [op |-> op, key |-> key])
PutN(p, op, n) == Emit(p, [op |-> op, n |-> n])

Here(p) == Len(p.code) + 1

\* The RJMP_U4 written at pos jumps to here; the host patches the operand in
\* when the whole program is written (gil_gen_fixup_reloc).
Fixup(p, pos) ==
  IF p.ok THEN [p EXCEPT !.code[pos].n = Len(p.code) - pos] ELSE p

\* gil_gen_string: the bytes of a literal are written once.
PutString(p, s) ==
  LET pos == Here(p) + 1
  IN IF s \in DOMAIN p.strings
     THEN Emit(p, [op |-> "ALLOC_BUFFER_STATIC", v |-> p.strings[s]])
     ELSE Emit(Emit(PutN([p EXCEPT !.strings = (s :> pos) @@ @], "RJMP", 1),
                    [op |-> "DATA", v |-> s]),
               [op |-> "ALLOC_BUFFER_STATIC", v |-> pos])

-----------------------------------------------------------------------------
RECURSIVE Program(_, _), Expression(_, _), ArgLevel(_, _), Suffixes(_, _),
          Arguments(_, _, _, _), InfixCalls(_, _, _), Fields(_, _),
          Body(_, _, _), Params(_, _, _), Elements(_, _, _)

\* import_callback: the module's code, jumped over, then the instruction
\* that runs it.  The module's tokens come from a lexer of its own.
Module(p, path, d) ==
  LET start == Here(p) + 1
      open == [PutN(p, "RJMP", 0) EXCEPT !.toks = Files[path],
                                         !.resolver = CreateReader(@, path)]
      q == Program(open, d + 1)
      r == Put([q EXCEPT !.toks = p.toks], "MOD_RET")
      s == PutN(Fixup(r, start - 1), "LOAD_MODULE", start)
  IN [s EXCEPT !.resolver = DestroyReader(@)]

\* gil_gen_import: moduleset is never added to, so that every import of a
\* file parses it again.
Import(p, name, d) ==
  CASE ~p.ok -> p
    [] p.ok /\ name \in CModules -> PutKey(p, "LOAD_CMODULE", name)
    [] p.ok /\ name \in DOMAIN Paths \ CModules ->
         LET path == Normalize(p.resolver, Paths[name])
         IN IF path \in DOMAIN Files THEN Module(p, path, d) ELSE Fail(p)
    [] OTHER -> Fail(p)

ParseImport(p, d) ==
  IF Kind(p, 2) = "str" THEN Import(Consume(p, 2), Val(p, 2), d) ELSE Fail(p)

ParseUse(p, d) ==
  IF Kind(p, 2) = "ident"
  THEN PutKey(Import(Consume(p, 2), Val(p, 2), d), "STACK_FRAME_SET", Val(p, 2))
  ELSE Fail(p)

\* parse_object_literal, after the { and ALLOC_NAMESPACE.
Fields(p, d) ==
  CASE ~p.ok -> p
    [] p.ok /\ Kind(p, 1) = "}" -> Consume(p, 1)
    [] p.ok /\ Kinds(p, <<"ident", ":">>) ->
         LET q == Put(PutKey(Expression(Consume(p, 2), d + 1), "NAMESPACE_SET",
                             Val(p, 1)), "DISCARD")
         IN IF Kind(q, 1) \in {"EOL", "}"} THEN Fields(SkipOpt(q, "EOL"), d)
            ELSE Fail(q)
    [] OTHER -> Fail(p)

\* parse_function_literal_body: every expression but the last is discarded.
Body(p, first, d) ==
  CASE ~p.ok -> p
    [] p.ok /\ Kind(p, 1) = "}" ->
         Put(IF first THEN Put(Consume(p, 1), "ALLOC_NONE") ELSE Consume(p, 1),
             "RET")
    [] OTHER ->
         LET q == IF first THEN p ELSE Put(p, "DISCARD")
         IN Body(SkipOpt(Expression(q, d + 1), "EOL"), FALSE, d)

\* The parameters between the pipes, the idx-th and on: each is bound, and
\* one with a predicate is asserted to satisfy it.
Params(p, idx, d) ==
  CASE ~p.ok \/ Kind(p, 1) = "|" -> p
    [] p.ok /\ Kind(p, 1) = "EOL" -> Params(Consume(p, 1), idx, d)
    [] p.ok /\ Kind(p, 1) = "ident" ->
         LET q == Emit(Consume(p, 1),
                       [op |-> "NAMED_PARAM", key |-> Val(p, 1), n |-> idx])
             r == Expect(Expression(Consume(q, 1), d + 1), ")")
             s == Put(PutN(PutN(r, "STACK_FRAME_GET_ARG", idx),
                           "FUNC_CALL", 1), "ASSERT")
         IN Params(IF Kind(q, 1) = "(ns" THEN s ELSE q, idx + 1, d)
    [] OTHER -> Fail(p)

\* The function's code is jumped over, then its value is allocated.
FunctionLiteral(p, d) ==
  LET start == Here(p) + 1
  IN PutN(Fixup(Body(PutN(p, "RJMP", 0), TRUE, d), start - 1),
          "ALLOC_FUNCTION", start)

FunctionLiteralWithIntroducer(p, d) ==
  LET start == Here(p) + 1
      q == Params(Consume(PutN(p, "RJMP", 0), 1), 0, d)
      r == Body(SkipOpt(Expect(Consume(q, 1), "{"), "EOL"), TRUE, d)
  IN PutN(Fixup(r, start - 1), "ALLOC_FUNCTION", start)

\* {} is an empty object, { ident : an object, any other a function.
ObjectOrFunctionLiteral(p, d) ==
  LET q == SkipOpt(Consume(p, 1), "EOL")
  IN CASE Kind(q, 1) = "}" -> Put(Consume(q, 1), "ALLOC_NAMESPACE")
       [] Kinds(q, <<"ident", ":">>) -> Fields(Put(q, "ALLOC_NAMESPACE"), d + 1)
       [] OTHER -> FunctionLiteral(q, d + 1)

Elements(p, count, d) ==
  CASE ~p.ok -> p
    [] p.ok /\ Kind(p, 1) = "]" -> PutN(Consume(p, 1), "ALLOC_ARRAY", count)
    [] OTHER -> Elements(SkipOpt(ArgLevel(p, d + 1), "EOL"), count + 1, d)

ArrayLiteral(p, d) == Elements(SkipOpt(Consume(p, 1), "EOL"), 0, d)

\* parse_arg_level_expression_base.
Base(p, d) ==
  CASE ~p.ok -> p
    [] p.ok /\ d > MaxDepth -> Fail(p)
    [] OTHER ->
       CASE Kind(p, 1) = "(" -> Expect(Expression(Consume(p, 1), d + 1), ")")
         [] IsIdent(p, "$") -> Put(Consume(p, 1), "STACK_FRAME_GET_ARGS")
         [] Kind(p, 1) = "ident" /\ ~IsIdent(p, "$") ->
              PutKey(Consume(p, 1), "STACK_FRAME_LOOKUP", Val(p, 1))
         [] Kind(p, 1) = "num" ->
              Emit(Consume(p, 1), [op |-> "ALLOC_REAL", v |-> Val(p, 1)])
         [] Kind(p, 1) = "str" -> PutString(Consume(p, 1), Val(p, 1))
         [] Kinds(p, <<"'", "ident">>) ->
              Emit(Consume(p, 2), [op |-> "ALLOC_ATOM", v |-> Val(p, 2)])
         [] Kind(p, 1) = "{" -> ObjectOrFunctionLiteral(p, d + 1)
         [] Kind(p, 1) = "|" -> FunctionLiteralWithIntroducer(p, d + 1)
         [] Kind(p, 1) = "[" -> ArrayLiteral(p, d + 1)
         [] OTHER -> Fail(p)

\* The inner loop of parse_func_call_after_base: operator and right-hand side,
\* as long as an infix operator follows.  An operator with a suffix is not
\* called: it is one more argument.  The result is the parser and argc.
InfixCalls(p, argc, d) ==
  LET q == ArgLevel(p, d + 1)
      r == Put(ArgLevel(q, d + 1), "FUNC_CALL_INFIX")
  IN CASE q.ok /\ q.suffixed -> <<q, argc + 1>>
       [] q.ok /\ ~q.suffixed /\ r.ok /\ IsInfix(r) -> InfixCalls(r, argc, d)
       [] OTHER -> <<r, argc>>

\* parse_func_call_after_base: argc arguments are on the stack, above the
\* function.  Infix calls before the first argument are all there is.
Arguments(p, infixStart, argc, d) ==
  LET infix == argc >= infixStart /\ IsInfix(p)
      step == IF infix THEN InfixCalls(p, argc, d)
              ELSE <<ArgLevel(p, d + 1), argc + 1>>
      q == step[1]
  IN CASE ~q.ok \/ (infix /\ step[2] = 0) -> q
       [] q.ok /\ ~(infix /\ step[2] = 0) /\ IsEnd(q) ->
            PutN(q, "FUNC_CALL", step[2])
       [] OTHER -> Arguments(q, infixStart, step[2], d)

\* The function of "foo=" and its right-hand side, applied to the value of
\* the left-hand side that is on the stack.
Update(p, func, d) ==
  Put(Expression(PutKey(p, "STACK_FRAME_LOOKUP", func), d + 1),
      "FUNC_CALL_INFIX")

\* .( ), and what may follow it.
DynamicSuffix(p, d) ==
  LET q == Expect(Expression(Consume(p, 2), d + 1), ")")
  IN CASE Kind(q, 1) = "=" ->
            Put(Expression(Consume(q, 1), d + 1), "DYNAMIC_SET")
       [] Kind(q, 1) = "ident=" ->
            Put(Update(Put(Put(Put(Consume(q, 1), "DUP_2"), "DUP_2"),
                           "DYNAMIC_LOOKUP"), Val(q, 1), d), "DYNAMIC_SET")
       [] OTHER -> Put(q, "DYNAMIC_LOOKUP")

\* One turn of the loop in parse_arg_level_expression; p itself at its end.
Suffix(p, d) ==
  CASE Kinds(p, <<"(ns", ")">>) -> PutN(Consume(p, 2), "FUNC_CALL", 0)
    [] Kind(p, 1) = "(ns" /\ Kind(p, 2) # ")" ->
         Expect(Arguments(Consume(p, 1), 1, 0, d + 1), ")")
    [] Kinds(p, <<".", "ident", "=">>) ->
         Put(PutKey(Expression(Consume(p, 3), d + 1), "NAMESPACE_SET",
                    Val(p, 2)), "SWAP_DISCARD")
    [] Kinds(p, <<".", "ident", "ident=">>) ->
         LET q == PutKey(Put(Consume(p, 3), "DUP"), "NAMESPACE_LOOKUP", Val(p, 2))
         IN Put(PutKey(Update(q, Val(p, 3), d), "NAMESPACE_SET", Val(p, 2)),
                "SWAP_DISCARD")
    [] Kinds(p, <<".", "ident">>) /\ Kind(p, 3) \notin {"=", "ident="} ->
         PutKey(Consume(p, 2), "NAMESPACE_LOOKUP", Val(p, 2))
    [] Kinds(p, <<"dot-num", "=">>) ->
         Put(PutN(Expression(Consume(p, 2), d + 1), "ARRAY_SET", Val(p, 1)),
             "SWAP_DISCARD")
    [] Kinds(p, <<"dot-num", "ident=">>) ->
         LET q == PutN(Put(Consume(p, 2), "DUP"), "ARRAY_LOOKUP", Val(p, 1))
         IN Put(PutN(Update(q, Val(p, 2), d), "ARRAY_SET", Val(p, 1)),
                "SWAP_DISCARD")
    [] Kind(p, 1) = "dot-num" /\ Kind(p, 2) \notin {"=", "ident="} ->
         PutN(Consume(p, 1), "ARRAY_LOOKUP", Val(p, 1))
    [] Kinds(p, <<".", "(ns">>) -> DynamicSuffix(p, d)
    [] OTHER -> p

Suffixes(p, d) ==
  LET q == Suffix(p, d)
  IN IF ~p.ok \/ q = p THEN p
     ELSE [Suffixes(q, d) EXCEPT !.suffixed = TRUE]

\* parse_arg_level_expression.
ArgLevel(p, d) ==
  IF p.ok THEN Suffixes([Base(p, d + 1) EXCEPT !.suffixed = FALSE], d) ELSE p

\* parse_expression.
Expression(p, d) ==
  CASE ~p.ok -> p
    [] p.ok /\ d > MaxDepth -> Fail(p)
    [] OTHER ->
       CASE IsIdent(p, "import") -> ParseImport(p, d + 1)
         [] IsIdent(p, "use") -> ParseUse(p, d + 1)
         [] OTHER ->
            CASE Kinds(p, <<"ident", ":=">>) ->
                   PutKey(Expression(Consume(p, 2), d + 1), "STACK_FRAME_SET",
                          Val(p, 1))
              [] Kinds(p, <<"ident", "=">>) ->
                   PutKey(Expression(Consume(p, 2), d + 1), "STACK_FRAME_REPLACE",
                          Val(p, 1))
              [] Kinds(p, <<"ident", "ident=">>) ->
                   PutKey(Update(PutKey(Consume(p, 2), "STACK_FRAME_LOOKUP",
                                        Val(p, 1)), Val(p, 2), d),
                          "STACK_FRAME_REPLACE", Val(p, 1))
              [] OTHER ->
                   LET q == ArgLevel(p, d + 1)
                   IN IF ~q.ok \/ IsEnd(q) THEN q ELSE Arguments(q, 0, 0, d + 1)

\* parse_program: every expression's value is discarded.  After an error the
\* code ends in a HALT.
Program(p, d) ==
  LET q == SkipOpt(p, "EOL")
      r == Expression(q, d + 1)
  IN CASE ~p.ok \/ Kind(q, 1) = "EOF" -> q
       [] ~r.ok -> [r EXCEPT !.code = Append(@, [op |-> "HALT"])]
       [] OTHER -> Program(Put(r, "DISCARD"), d)

\* gil_parse_program.
Compile(toks) == Put(Program(Parser(toks), 0), "HALT")
=============================================================================
