-------------------------------- MODULE MCVm --------------------------------
(***************************************************************************)
(* Programs for the machine: the README's and test/examples', shortened,   *)
(* compiled by module Compiler.  A program is written as its words; prints *)
(* is what the documentation says it prints.                               *)
(***************************************************************************)
EXTENDS Vm, TLC

CONSTANT MaxDepth

MCContents == [Notes |-> "Hello"]

-----------------------------------------------------------------------------
(* From words to tokens. *)

Symbols == {"(", "(ns", ")", "{", "}", "[", "]", "|", ".", ":", ":=", "=", "'"}
Digits == <<"0", "1", "2", "3", "4", "5", "6", "7", "9", "10", "20", "24">>
Numbers == <<0, 1, 2, 3, 4, 5, 6, 7, 9, 10, 20, 24>>
Literals == {"Hello", "Inner", "Neither", "Notes", "Shouter", "Ten", "fs",
             "lib/Outer", "../Counter", "Twin", "Counter"}    \* string literals

Lex(word) ==
  CASE word = ";" -> <<"EOL">>
    [] word \in Symbols -> <<word>>
    [] \E n \in DOMAIN Digits : Digits[n] = word ->
         <<"num", Numbers[CHOOSE n \in DOMAIN Digits : Digits[n] = word]>>
    [] word \in {".0", ".1", ".2"} ->
         <<"dot-num", CASE word = ".0" -> 0 [] word = ".1" -> 1 [] OTHER -> 2>>
    [] word \in Literals -> <<"str", word>>
    [] word = "+=" -> <<"ident=", "+">>
    [] word = "-=" -> <<"ident=", "-">>
    [] OTHER -> <<"ident", word>>

Tokens(words) == [n \in DOMAIN words |-> Lex(words[n])]

\* The program is a file beside Counter and outer, and there is a directory lib.
\* Counter and lib/Twin print when they are run.
MCMain == <<"home", "main">>
MCPaths ==
  [Shouter |-> <<"Shouter">>, outer |-> <<"outer">>, Twin |-> <<"Twin">>,
   Counter |-> <<"Counter">>] @@
  "lib/Outer" :> <<"lib", "Outer">> @@ "../Counter" :> <<"..", "Counter">>
MCFiles ==
  <<"home", "Shouter">> :>
    Tokens(<<"print", "Inner", ";", "volume", ":=", "3">>) @@
  <<"home", "outer">> :>
    Tokens(<<"s", ":=", "import", "Shouter", ";", "nop", ":=", "|", "x", "|",
             "{", "}">>) @@
  <<"home", "Counter">> :> Tokens(<<"print", "1">>) @@
  <<"home", "lib", "Counter">> :> Tokens(<<"print", "2">>) @@
  <<"home", "lib", "Twin">> :> Tokens(<<"print", "3">>) @@
  <<"home", "lib", "Outer">> :>
    Tokens(<<"import", "Twin", ";", "import", "../Counter", ";",
             "import", "Counter">>)

C == INSTANCE Compiler WITH Main <- MCMain, Paths <- MCPaths, Files <- MCFiles,
                            CModules <- {"fs"}

Source(words, prints) == [words |-> words, prints |-> prints]

Parsed(source) == C!Compile(Tokens(source.words))
Program(source) ==
  LET parsed == Parsed(source)
  IN [code |-> parsed.code, prints |-> source.prints, ok |-> parsed.ok]

N(n) == <<"REAL", n>>
S(s) == <<"BUFFER", s>>
A(a) == <<"ATOM", a>>
L(elements) == <<"ARRAY", elements>>

MCBuiltinNames ==
  <<"+", "-", "*", "/", "==", "!=", "<", "<=", ">", ">=", "&&", "||", "??", "print", "write",
    "len", "if", "loop", "while", "for", "guard", "match">>

-----------------------------------------------------------------------------
(* The programs *)

IsNIsAny == <<"is-n", ":=", "|", "n", "|", "{", "{", "$", ".0", "==", "n", "}",
              "}", ";", "is-any", ":=", "{", "'", "true", "}", ";">>

OrdinarySources == [
  \* README.md:66-70, a while loop.
  while |-> Source(
    <<"i", ":=", "0", ";", "while", "{", "i", "<", "2", "}", "{", "print", "i",
      ";", "i", "+=", "1", "}">>,
    << <<N(0)>>, <<N(1)>> >>),
  \* README.md:77-83, match.
  match |-> Source(
    IsNIsAny \o
    <<"match", "24", "is-n", "(ns", "10", ")", "{", "print", "Ten", "}",
      "is-any", "|", "x", "|", "{", "print", "Neither", "x", "}">>,
    << <<S("Neither"), N(24)>> >>),
  \* README.md:131-139, an iterator and guard.
  iterate |-> Source(
    <<"values", ":=", "[", "10", "20", "]", ";", "index", ":=", "0", ";",
      "iter", ":=", "{", "guard", "index", ">=", "len", "(ns", "values", ")",
      "{", "'", "stop", "}", ";", "ret", ":=", "[", "index", "values", ".",
      "(ns", "index", ")", "]", ";", "index", "+=", "1", ";", "ret", "}", ";",
      "for", "iter", "print">>,
    << <<L(<<N(0), N(10)>>)>>, <<L(<<N(1), N(20)>>)>> >>),
  \* control-flow.g: if with one branch and with two, its value, and a loop
  \* that an if inside it stops.
  branches |-> Source(
    <<"if", "'", "false", "{", "print", "0", "}", ";",
      "print", "(", "if", "'", "false", "{", "0", "}", "{", "if", "'", "true",
      "{", "Inner", "}", "}", ")", ";",
      "i", ":=", "0", ";", "loop", "{", "i", "=", "i", "+", "1", ";",
      "if", "i", ">=", "2", "{", "'", "stop", "}", "}", ";", "print", "i">>,
    << <<S("Inner")>>, <<N(2)>> >>),
  \* functions.g: closures, arguments, named parameters with a predicate,
  \* infix operators from left to right.
  functions |-> Source(
    <<"str", ":=", "Hello", ";", "func", ":=", "{", "{", "str", "=", "$", ".0",
      "}", "}", ";", "func", "(ns", ")", "10", ";", "print", "str", ";",
      "func", ":=", "|", "a", "(ns", "{", "$", ".0", "==", "5", "}", ")", "b",
      "|", "{", "a", "+", "b", "-", "1", "}", ";",
      "print", "(", "func", "5", "6", ")">>,
    << <<N(10)>>, <<N(10)>> >>),
  \* namespaces.g, arrays.g, dynamic-lookups.g, func-equals.g.
  containers |-> Source(
    <<"obj", ":=", "{", "foo", ":", "1", ";", "b", ":", "[", "{", "c", ":",
      "2", "}", "]", "}", ";",
      "obj", ".", "foo", "+=", "4", ";", "print", "obj", ".", "foo", ";",
      "obj", ".", "(ns", "'", "b", ")", ".", "(ns", "0", ")", ".", "c", "=",
      "7", ";", "print", "obj", ".", "b", ".0", ".", "c", ";",
      "arr", ":=", "[", "1", "2", "]", ";", "arr", ".1", "=", "Hello", ";",
      "arr", ".0", "-=", "1", ";", "arr", ".", "(ns", "0", ")", "-=", "3", ";",
      "print", "arr", ".0", "arr", ".1", "arr", ".2">>,
    << <<N(5)>>, <<N(7)>>, <<N(-3), S("Hello"), <<"NONE">> >> >>),
  \* builtins.g:126-137, len.  A key that is set again does not count twice.
  lengths |-> Source(
    <<"o", ":=", "{", "a", ":", "1", ";", "b", ":", "2", "}", ";", "print",
      "(", "len", "10", ")", "(", "len", "[", "]", ")", "(", "len", "Hello", ")",
      "(", "len", "o", ")", ";",
      "o", ".", "c", "=", "3", ";", "o", ".", "b", "=", "4", ";",
      "print", "(", "len", "o", ")">>,
    << <<N(0), N(0), N(5), N(2)>>, <<N(3)>> >>),
  \* What goes wrong is a value that can be passed on, and ends the program
  \* when nothing takes it: print reaches the end of the line above it.
  mistakes |-> Source(
    <<"print", "5", ".", "foo", "[", "]", ".", "(ns", "'", "a", ")", "[", "]",
      ".", "(ns", "9", ")", "(", "5", "6", ")", ";",
      "o", ":=", "{", "}", ";", "o", ".", "(ns", "'", "p", ")", "=", "print",
      ";", "print", "o", ".", "p", ";", "print", "(", "o", ".0", ")", ";",
      "o", ".", "x", "=", "missing", ";", "print", "0">>,
    << << <<"ERROR">>, <<"ERROR">>, <<"NONE">>, <<"ERROR">> >>,
       << <<"CFUNCTION">> >>, << <<"ERROR">> >> >>),
  \* A module runs the first time its import is reached, and its namespace is
  \* the import's value.
  modules |-> Source(
    <<"f", ":=", "{", "use", "outer", "}", ";", "f", "(ns", ")", ";", "print",
      "f", "(ns", ")", ".", "s", ".", "volume", ";",
      "print", "(", "f", "(ns", ")", ".", "nop", "1", ")">>,
    << <<S("Inner")>>, <<N(3)>>, << <<"NONE">> >> >>),
  \* An import is looked for in the directory of the file that it is in, before
  \* and after the imports inside it.
  directories |-> Source(
    <<"import", "Counter", ";", "import", "lib/Outer", ";", "import", "Counter">>,
    << <<N(1)>>, <<N(3)>>, <<N(1)>>, <<N(2)>>, <<N(1)>> >>),
  \* The fs module: a file is read once, closed once, and nothing else; the same
  \* module wherever it is imported (README.md:153).
  files |-> Source(
    <<"dir", ":=", "import", "fs", ";", "f", ":=", "dir", ".", "open", "(ns",
      "Notes", ")", ";", "get", ":=", "f", ".", "read", ";",
      "print", "(", "get", "(ns", ")", ")", "f", ".", "read", "(ns", ")", ";",
      "f", ".", "close", "(ns", ")", ";",
      "print", "f", "f", ".", "read", "(ns", ")", "f", ".", "close", "(ns", ")",
      "dir", ".", "open", "(ns", "Ten", ")", "dir", ".", "open", "(ns", "5", ")",
      ";", "print", "f", ".", "open", "f", ".", "(ns", "'", "read", ")", "f", ".0", ";",
      "o", ":=", "{", "get", ":", "get", "}", ";", "print", "o", ".", "get", "(ns",
      ")", ";", "twin", ":=", "import", "fs", ";", "write", "(", "dir", "==", "twin",
      ")", "(", "6", "/", "3", ")">>,
    << <<S("Hello"), S("")>>, << <<"CVAL">>, <<"ERROR">>, <<"ERROR">>,
          <<"ERROR">>, <<"ERROR">> >>,
       << <<"NONE">>, <<"CFUNCTION">>, <<"ERROR">> >>, << <<"ERROR">> >>,
       <<"on", A("true"), N(2)>> >>),
  \* README.md:61, control functions are functions: they can be given to each
  \* other.  A RETURN value of a predicate leaves the function that match is in.
  borrowed |-> Source(
    <<"n", ":=", "0", ";", "next", ":=", "{", "guard", "n", ">=", "1", "{", "'",
      "stop", "}", ";", "n", "+=", "1", ";", "{", "print", "n", ";", "'", "stop",
      "}", "}", ";", "for", "next", "loop", ";",
      "match", "5", "guard", "{", "print", "0", "}", "{", "'", "true", "}", "print",
      ";", "f", ":=", "{", "match", "'", "true", "guard", "{", "print", "0", "}", ";",
      "print", "0", "}", ";", "print", "f", "(ns", ")">>,
    << <<N(1)>>, <<N(5)>>, << <<"NONE">> >> >>),
  \* guard in no function ends the program.
  done |-> Source(
    <<"print", "1", ";", "guard", "'", "true", "{", "5", "}", ";", "print", "0">>,
    << <<N(1)>> >>),
  \* A recursion without end, through continuations.
  recursion |-> Source(
    <<"f", ":=", "{", "if", "'", "true", "f", "}", ";", "f", "(ns", ")", ";",
      "print", "0">>,
    <<>>)]

-----------------------------------------------------------------------------
(* Every control function inside every other: each runs its block once. *)

Block(n, inner) ==
  <<"{", "print", n, ";">> \o inner \o <<";", "print", n, ";", "'", "stop", "}">>

Control(name, block) ==
  CASE name = "if" -> <<"if", "'", "true">> \o block
    [] name = "else" -> <<"if", "'", "false", "{", "0", "}">> \o block
    [] name = "loop" -> <<"loop">> \o block
    [] name = "condition" -> <<"while">> \o block \o <<"{", "0", "}">>
    [] name = "iterator" -> <<"for">> \o block \o <<"print">>
    [] name = "guard" ->
         <<"{", "guard", "'", "true">> \o block \o <<"}", "(ns", ")">>
    [] name = "predicate" -> <<"match", "1">> \o block \o <<"{", "0", "}">>
    [] name = "case" -> <<"match", "1", "{", "'", "true", "}">> \o block
    [] name = "call" -> block \o <<"(ns", ")">>

Controls == {"if", "else", "loop", "condition", "iterator", "guard",
             "predicate", "case", "call"}

\* A statement of its own, or a value among others.
Place(place, words) ==
  IF place = "in" THEN words
  ELSE <<"[", "0", "(">> \o words \o <<")", "1", "]">>

Nested(outer, place, inner) ==
  Source(Control(outer,
           Block("1", Place(place, Control(inner, Block("2", <<"0">>))))),
         << <<N(1)>>, <<N(2)>>, <<N(2)>>, <<N(1)>> >>)

-----------------------------------------------------------------------------
\* Programs the documentation promises something about that the code does not
\* keep, for runs of their own.
BrokenSources ==
  [assertion |-> Source(
     <<"print", "(", "match", "5", "{", "'", "true", "}", "|", "x",
       "(ns", "{", "$", ".0", "==", "6", "}", ")", "|", "{", "x", "}", ")">>,
     <<>>),
   nonfunction |-> Source(
     <<"print", "(", "if", "'", "true", "10", ")">>, <<>>),
   arguments |-> Source(
     <<"i", ":=", "0", ";", "kept", ":=", "0", ";",
       "for", "{", "i", "+=", "1", ";",
               "if", "i", "==", "3", "{", "'", "stop", "}", "{", "i", "}", "}",
             "{", "kept", "=", "$", "}", ";", "print", "kept">>, <<>>),
   assignment |-> Source(
     <<"x", ":=", "1", ";", "x", ":=", "(", "if", "'", "false", "{", "2", "}", ")",
       ";", "print", "x">>, <<>>)]

-----------------------------------------------------------------------------
(* A program's name is its name above or where the construct it nests is. *)

OrdinaryNames ==
  {<<name>> : name \in DOMAIN OrdinarySources} \cup
  (Controls \X {"in", "among"} \X Controls)
BrokenNames == {<<name>> : name \in DOMAIN BrokenSources}

SourceOf(name) ==
  CASE Len(name) = 3 -> Nested(name[1], name[2], name[3])
    [] name \in BrokenNames -> BrokenSources[name[1]]
    [] OTHER -> OrdinarySources[name[1]]

Compiled ==
  [name \in OrdinaryNames |-> Program(SourceOf(name))] @@
  [name \in BrokenNames |-> Program(SourceOf(name))]

\* What the .cfg puts in the place of the constants.  TLC evaluates Compiled once,
\* before it starts, but a constant's replacement whenever it is used; and when it
\* counts the actions it follows every replacement that is not a LET.
MCPrograms == LET programs == Compiled IN programs
MCStarted == LET names == OrdinaryNames IN names
ErrorsInCalls == LET names == {<<"assertion">>, <<"nonfunction">>} IN names
KeptArguments == LET name == <<"arguments">> IN {name}
NothingAssigned == LET name == <<"assignment">> IN {name}

ASSUME ProgramsCompile == \A name \in DOMAIN Compiled : Compiled[name].ok
=============================================================================
