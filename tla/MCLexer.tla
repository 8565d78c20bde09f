------------------------------- MODULE MCLexer -------------------------------
(***************************************************************************)
(* Texts for the lexer: every two words, and every three of a few words that *)
(* matter most, in several layouts each, and the README's programs.  What   *)
(* tokens a text was written to mean is said word by word, from the README. *)
(***************************************************************************)
EXTENDS Lexer, SequencesExt

CharsOf(string) == [n \in 1 .. Len(string) |-> SubSeq(string, n, n)]
Members(string) == {SubSeq(string, n, n) : n \in 1 .. Len(string)}

Small == "abcdefghijklmnopqrstuvwxyz"
Letter == Members(Small) \cup Members("ABCDEFGHIJKLMNOPQRSTUVWXYZ")
Char == Letter \cup Members("0123456789 \t\r\n()[]{}'|,.:;\"\\#=+-*/?&<>!$_%")

-----------------------------------------------------------------------------
(* Words: how they are spelled, and the token they are written to be. *)

Spelled(spelling, tok) == [spelling |-> spelling, tok |-> tok]
Name(s) == Spelled(s, <<"ident", s>>)
Sym(s) == Spelled(s, <<s>>)

Names == {Name("ab"), Name("-"), Name("=="), Name("||")}
Updates == {Spelled("+=", <<"ident=", "+">>), Spelled("ab=", <<"ident=", "ab">>)}
Numbers == {Spelled("-10", <<"num", -10>>), Spelled("1'0.25", <<"num", 1025, 100>>),
            Spelled("0x1f", <<"num", 31>>), Spelled("3r21", <<"num", 7>>)}
Elements == {Spelled(".12", <<"dot-num", 12>>)}
Brackets == {Sym(s) : s \in {"(", ")", "{", "]"}}
Strings == {Spelled("\"\\\"# \\n\"", <<"str", "\"# \n">>), Spelled("\"\"", <<"str", "">>)}
Others == {Sym("."), Sym(":"), Sym(":="), Sym("="), Sym("|"), Sym("'")}
Words == Names \cup Updates \cup Numbers \cup Elements \cup Brackets \cup Strings
           \cup Others

IsBracket(w) == w \in Brackets

\* What a parenthesis can belong to: calls, and what comes after a dot
\* (README.md:81, README.md:114).
Ends(w) == w \in Names \cup Elements \cup {Sym(")"), Sym("]"), Sym(".")}

\* Words that can stand together with nothing in between.  Not an assignment and a
\* parenthesis: the README does not say what x =(1) is, which the lexer takes for a
\* call of =.
Assigns(w) == w \in Updates \cup {Sym("=")}
Touch(v, w) ==
  \/ IsBracket(v)
  \/ IsBracket(w) /\ v \notin Strings /\ ~(Assigns(v) /\ w = Sym("("))
  \/ v = Name("ab") /\ w \in {Sym("."), Sym(":"), Sym(":="), Sym("|")} \cup Elements
  \/ v \in Elements /\ w \in {Sym(".")} \cup Elements
  \/ v \in {Sym("."), Sym("'")} /\ w = Name("ab")
-----------------------------------------------------------------------------
(* Layout: what stands between two words. *)

Spaces == {" ", "\n->", " \n\t -> "}
Lines == {"\n\n ", "\n", " # -> (\n  # \"\n"}
Stops == {";", "; # a\n\n ;"}

Open(w, n) == Cardinality({k \in 1 .. n : w[k] = Sym("(")})
              - Cardinality({k \in 1 .. n : w[k] = Sym(")")})

\* A line ends at a semicolon, or as well at a newline outside parentheses
\* (README.md:47, "Semicolons are unnecessary").
LineEnds(w, l, n) == l[n] \in Stops \/ (l[n] \in Lines /\ Open(w, n) = 0)

\* The tokens of the words w[1], w[2], ... with the layout l[n] after w[n].  A
\* parenthesis belongs to what is before it if nothing is in between.
Meant(w, l) ==
  LET Belongs(n) == n > 1 /\ l[n - 1] = "" /\ Ends(w[n - 1])
      Tok(n) == IF w[n] = Sym("(") /\ Belongs(n) THEN <<"(ns">> ELSE w[n].tok
  IN FlattenSeq([n \in DOMAIN w |->
                   IF LineEnds(w, l, n) THEN <<Tok(n), <<"EOL">> >> ELSE <<Tok(n)>>])

\* A newline, and then a parenthesis, where the line before ends with something a
\* parenthesis can belong to.
LineOpens(w, l) ==
  \E n \in 1 .. Len(w) - 1 :
    /\ w[n + 1] = Sym("(") /\ l[n] \in Lines /\ Open(w, n) = 0
    /\ Ends(w[n]) \/ Assigns(w[n])

Text(w, l) ==
  FlattenSeq([n \in DOMAIN w |-> CharsOf(w[n].spelling) \o CharsOf(l[n])])

Layouts(w, between, after) ==
  {l \in [DOMAIN w -> between \cup after] :
     /\ \A n \in 1 .. Len(w) - 1 :
          l[n] \in between /\ (l[n] = "" => Touch(w[n], w[n + 1]))
     /\ l[Len(w)] \in after}

Few == {Name("ab"), Sym("("), Sym(")"), Sym("{")}

\* Every text, as the words and the layout it is made of.
Written2 == UNION {{<<w, l>> : l \in Layouts(w, {"", " ", " # -> (\n  # \"\n", ";"}, {""})} :
                     w \in Words \X Words}
Written3 == UNION {{<<w, l>> :
                      l \in Layouts(w, {"", "\n\n ", "; # a\n\n ;", "\n->", " \n\t -> "},
                                    {"", "\n"})} :
                     w \in Few \X Few \X Few}
Sample(wl) == <<Text(wl[1], wl[2]), Meant(wl[1], wl[2])>>
Opening == {wl \in Written2 \cup Written3 : LineOpens(wl[1], wl[2])}
Texts == {Sample(wl) : wl \in (Written2 \cup Written3) \ Opening}
-----------------------------------------------------------------------------
(* Programs, character by character, and the words they are made of.  After *)
(* "(ns" come the arguments of a call; ";" is a line's end.                 *)

Alone == {"(", "(ns", ")", "{", "}", "[", "]", "|", ".", ":", ":=", "=", "'"}
Ints == [n \in {ToString(k) : k \in 0 .. 40} |->
           CHOOSE k \in 0 .. 40 : ToString(k) = n]

Tokens(words) ==
  [n \in DOMAIN words |->
     LET w == words[n]
     IN CASE w = ";" -> <<"EOL">>
          [] w \in Alone -> <<w>>
          [] w \in DOMAIN Ints -> <<"num", Ints[w]>>
          [] w \in {".0", ".2"} -> <<"dot-num", IF w = ".0" THEN 0 ELSE 2>>
          [] w = "+=" -> <<"ident=", "+">>
          [] SubSeq(w, 1, 1) = "\"" -> <<"str", SubSeq(w, 2, Len(w))>>
          [] OTHER -> <<"ident", w>>]

Program(text, words) == <<CharsOf(text), Tokens(words)>>

Programs == {
  \* README.md:49-51
  Program("print \"Hello World\"\nprint \"See You\"",
          <<"print", "\"Hello World", ";", "print", "\"See You">>),
  \* README.md:66-70
  Program("i := 0\nwhile {i < 5} {\n\tprint i\n\ti += 1\n}\n",
          <<"i", ":=", "0", ";", "while", "{", "i", "<", "5", "}", "{", ";",
            "print", "i", ";", "i", "+=", "1", ";", "}", ";">>),
  \* README.md:77-83
  Program("is-n := |n| {{$.0 == n}}\nis-any := {'true}\n\nmatch 24\n"
          \o "-> is-n(10) {print \"It was 10\"}\n-> is-any |x| {print x}\n",
          <<"is-n", ":=", "|", "n", "|", "{", "{", "$", ".0", "==", "n", "}", "}",
            ";", "is-any", ":=", "{", "'", "true", "}", ";", "match", "24",
            "is-n", "(ns", "10", ")", "{", "print", "\"It was 10", "}", "is-any",
            "|", "x", "|", "{", "print", "x", "}", ";">>),
  \* README.md:94-99
  Program("alice := {\n\tname: \"Alice\"\n\tage: 32\n}\n"
          \o "print alice.name # Prints \"Alice\"\n",
          <<"alice", ":=", "{", ";", "name", ":", "\"Alice", ";", "age", ":", "32",
            ";", "}", ";", "print", "alice", ".", "name", ";">>),
  \* README.md:114-115
  Program("get-value := |base offset| {numbers.(base + offset)}\n"
          \o "print (get-value 1 2) # Prints 40, at index 3",
          <<"get-value", ":=", "|", "base", "offset", "|", "{", "numbers", ".",
            "(ns", "base", "+", "offset", ")", "}", ";", "print", "(",
            "get-value", "1", "2", ")", ";">>)}

\* What the .cfg puts in the place of the constants: not the texts of Opening, where
\* the lexer does not do what the README says.
AllSamples == Texts \cup Programs
MCSamples == LET samples == AllSamples IN samples
MCChars == LET chars == Char IN chars
MCLetters == LET letters == Letter IN letters
MCChunks == {1, 7}

\* No two layouts of different meaning are the same text.
ASSUME OneMeaning ==
  Cardinality({sample[1] : sample \in AllSamples}) = Cardinality(AllSamples)
=============================================================================
