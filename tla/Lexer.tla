-------------------------------- MODULE Lexer --------------------------------
(***************************************************************************)
(* lib/parse/lex.c: characters become tokens, a few of which wait for the   *)
(* parser.  A lexer lx is a record, struct gil_lexer without its tokens.    *)
(* It reads through module BufReader's buffer; how many characters each     *)
(* read gets is settled by lx.chunk, the most that read returns at once.    *)
(*                                                                          *)
(* A character is a string of length 1, and capital digits are left out.    *)
(* The value of a name or a string is its text, that of a number an integer *)
(* or, when it has a fraction, two.  The line and column that error         *)
(* messages give, and the storage of small and long names, are left out.    *)
(***************************************************************************)
EXTENDS BufReader, TLC
LOCAL INSTANCE SequencesExt

CONSTANTS Letters,      \* a to z and A to Z
          Samples,      \* texts to read, each with the tokens it was written to mean
          Chunks,       \* the most characters a read returns, while a text lasts
          MaxDigits,    \* sizeof(buffer) in read_integer and read_number
          QueueSize,    \* the length of gil_lexer's toks
          MaxTokens     \* bound: the tokens a parser consumes

ASSUME LexerAssumption ==
  /\ Letters \subseteq Chars
  /\ QueueSize \in Nat /\ MaxTokens \in Nat
  /\ MaxDigits \in Nat \ {0} /\ Chunks \subseteq Nat \ {0}

VARIABLES lexer,      \* struct gil_lexer, but for its tokens
          toks,       \* lexer->toks: the tokens that wait
          consumed,   \* how many have been consumed
          written     \* the tokens the text was written to mean

vars == <<lexer, toks, consumed, written>>

NL == "\n"
Space == {" ", "\t", "\r", NL}
Digits == <<"0", "1", "2", "3", "4", "5", "6", "7", "8", "9", "a", "b", "c",
            "d", "e", "f", "g", "h", "i", "j", "k", "l", "m", "n", "o", "p",
            "q", "r", "s", "t", "u", "v", "w", "x", "y", "z">>
Numeric == {Digits[n] : n \in 1 .. 10}
Delimiters == Space \cup {"(", ")", "{", "}", "[", "]", "'", "|", ",", ".", ":",
                          ";"}
IdentChars == Chars \ Delimiters

Joined(cs) == FoldLeft(LAMBDA s, c : s \o c, "", cs)

-----------------------------------------------------------------------------
(* peek_ch and read_ch, through the buffer.  A call c is a lexer with the   *)
(* variables of the call of read_tok that is running.  A call is handed on  *)
(* as the argument of a function, which is worked out once.                 *)

Lexers == [text : Seq(STRING), chunk : Nat, parens : Int, prev : BOOLEAN,
           reader : [given : Nat, buf : Seq(STRING), idx : Nat]]
Calls == [lx : Lexers, nl : BOOLEAN, skipped : BOOLEAN, got : Seq(STRING)]

\* gil_lexer_init.
NewLexer(text, chunk) ==
  [text |-> text, chunk |-> chunk, parens |-> 0, prev |-> FALSE,
   reader |-> EmptyReader]

\* What the read function returns of what it is asked for.
Amount(lx) ==
  CHOOSE n \in Amounts(lx.reader, lx.text) :
    n <= lx.chunk /\ \A m \in Amounts(lx.reader, lx.text) : m <= lx.chunk => m <= n

\* The n-th character ahead, when it has been peeked at.
Ch(c, n) == Seen(c.lx.reader, n)

Peek[c \in Calls, n \in 1 .. MaxPeek] ==
  IF Buffered(c.lx.reader) >= n THEN c
  ELSE [c EXCEPT !.lx.reader = Look(@, c.lx.text, n, Amount(c.lx))]

Read[c \in Calls] ==
  LET p == Peek[c, 1]
  IN [p EXCEPT !.lx.reader = Take(@, c.lx.text, Amount(c.lx)),
               !.got = IF Ch(p, 1) = EOF THEN @ ELSE Append(@, Ch(p, 1))]

\* One character is read and the next one peeked at.
Step(c) == Peek[Read[c], 1]

\* Read on while the characters are in S.
ReadAll[c \in Calls, S \in {Space \ {NL}, Chars \ {NL}, IdentChars}] ==
  LET p == Peek[c, 1] IN IF Ch(p, 1) \in S THEN ReadAll[Read[p], S] ELSE p

-----------------------------------------------------------------------------
(* skip_whitespace *)

\* After a line's end: the next line's arrow joins it to this one.
Arrow[c \in Calls] ==
  LET p == IF Ch(c, 1) = "-" THEN Peek[c, 2] ELSE c
  IN IF Ch(p, 1) = "-" /\ Ch(p, 2) = ">" THEN Read[Read[p]]
     ELSE [p EXCEPT !.nl = TRUE]

Blanks[c \in Calls] ==
  LET p == Peek[c, 1]
      q == [Read[p] EXCEPT !.skipped = TRUE]
  IN CASE Ch(p, 1) = NL -> Blanks[Arrow[ReadAll[q, Space \ {NL}]]]
       [] Ch(p, 1) \in Space \ {NL} -> Blanks[q]
       [] OTHER -> p

\* Mutant: a comment is only space.
CommentIsSpace(c) ==
  [Read[ReadAll[c, Chars \ {NL}]] EXCEPT !.skipped = TRUE]

\* A comment counts as a line's end; the line after it is not asked for an
\* arrow, since the comment takes its newline with it.
Comment(c) ==
  [Read[ReadAll[c, Chars \ {NL}]] EXCEPT !.nl = TRUE, !.skipped = TRUE]

Comments[p \in Calls] ==
  IF Ch(p, 1) = "#" THEN Comments[Blanks[Comment(p)]] ELSE p

SkipWhitespace(c) == Comments[Blanks[c]]

-----------------------------------------------------------------------------
(* read_integer and read_number *)

Value(ds, base) == FoldLeft(LAMBDA n, d : n * base + d, 0, ds)
IsDigit(ch, base) == \E n \in 1 .. base : Digits[n] = ch
DigitOf(ch) == (CHOOSE n \in DOMAIN Digits : Digits[n] = ch) - 1

Digited == [c : Calls, ds : Seq(0 .. 35), ok : BOOLEAN]

\* The digits of a base, as many as the buffer holds; ' separates them.  A digit
\* that is too big for the base is an error, unless the buffer is full.
ReadDigits[c \in Calls, base \in 0 .. 36, ds \in Seq(0 .. 35)] ==
  LET p == Peek[c, 1]
      ch == Ch(p, 1)
  IN CASE Len(ds) < MaxDigits /\ ch = "'" -> ReadDigits[Read[p], base, ds]
       [] Len(ds) < MaxDigits /\ IsDigit(ch, base) ->
            ReadDigits[Read[p], base, Append(ds, DigitOf(ch))]
       [] OTHER -> [c |-> p, ds |-> ds,
                    ok |-> Len(ds) = MaxDigits \/ ~IsDigit(ch, 36)]

Integers == [c : Calls, n : Int, base : 0 .. 36, ok : BOOLEAN]
Integer(c, n, base, ok) == [c |-> c, n |-> n, base |-> base, ok |-> ok]

\* The digits after a base and its letter.  When there are none the error is set
\* but not returned: the number is 0.
InBase[d \in Digited, base \in 2 .. 36] ==
  Integer(d.c, Value(d.ds, base), base, d.ok)

\* A base stands before a letter: 0x1f, 0b101, 3r22.
Based[d \in Digited] ==
  LET mark == Ch(d.c, 1)
      n == Value(d.ds, 10)
      base == CASE mark = "b" -> 2 [] mark = "o" -> 8 [] mark = "x" -> 16
                [] OTHER -> n
      isBase == mark = "r" \/ (mark \in {"b", "o", "x"} /\ d.ds = <<0>>)
  IN CASE ~isBase -> Integer(d.c, n, 10, TRUE)
       [] isBase /\ base \in 2 .. 36 ->
            InBase[ReadDigits[Read[d.c], base, <<>>], base]
       [] OTHER -> Integer(d.c, n, 10, FALSE)

ReadInteger(c) == Based[ReadDigits[c, 10, <<>>]]

\* What a function of read_tok returns: the call, and the token it wrote.
Token(c, tok) == [c |-> c, tok |-> tok]

\* A number with a fraction has its numerator and its denominator for value.
Fraction[d \in Digited, whole \in Integers, sign \in {-1, 1}] ==
  LET power == whole.base ^ Len(d.ds)
      n == whole.n * power + Value(d.ds, whole.base)
  IN Token(d.c, IF d.ds # <<>> /\ d.ok THEN <<"num", sign * n, power>>
                ELSE <<"error">>)

Number[whole \in Integers, sign \in {-1, 1}] ==
  CASE ~whole.ok -> Token(whole.c, <<"error">>)
    [] whole.ok /\ Ch(Peek[whole.c, 1], 1) # "." ->
         Token(Peek[whole.c, 1], <<"num", sign * whole.n>>)
    [] OTHER ->
         Fraction[ReadDigits[Read[whole.c], whole.base, <<>>], whole, sign]

ReadNumber(c) ==
  IF Ch(c, 1) = "-" THEN Number[ReadInteger(Read[c]), -1]
  ELSE Number[ReadInteger(c), 1]

-----------------------------------------------------------------------------
(* read_string and read_ident *)

Escaped(ch) == CASE ch = "n" -> NL [] ch = "r" -> "\r" [] ch = "t" -> "\t"
                 [] OTHER -> ch

ReadString[c \in Calls, cs \in Seq(STRING)] ==
  LET p == Peek[c, 1]
      q == Step(p)
      ch == Ch(p, 1)
      escape == ch = "\\"
  IN CASE ch = "\"" -> Token(Read[p], <<"str", Joined(cs)>>)
       [] ch = EOF \/ (escape /\ Ch(q, 1) = EOF) -> Token(q, <<"error">>)
       [] escape /\ Ch(q, 1) # EOF ->
            ReadString[Read[q], Append(cs, Escaped(Ch(q, 1)))]
       [] OTHER -> ReadString[Read[p], Append(cs, ch)]

\* is_ident_eq.
NameEnds == Letters \cup {"+", "-", "*", "/", "?", "&"}
IsIdentEq(cs) ==
  Len(cs) >= 2 /\ cs[Len(cs)] = "=" /\ cs[Len(cs) - 1] \in NameEnds

\* A lone = is a token of its own.
Ident[c \in Calls] ==
  Token(c, CASE c.got = <<"=">> -> <<"=">>
             [] IsIdentEq(c.got) -> <<"ident=", Joined(Front(c.got))>>
             [] OTHER -> <<"ident", Joined(c.got)>>)

ReadIdent(c) == Ident[ReadAll[[c EXCEPT !.got = <<>>], IdentChars]]

-----------------------------------------------------------------------------
(* read_tok *)

\* prev_tok_is_expr: a ( that follows at once is a call.
Expr(t) == [t EXCEPT !.c.lx.prev = TRUE]
Nest(t, n) == [t EXCEPT !.c.lx.parens = @ + n]

\* Any number of semicolons and lines in between are one end of line.
Semicolons[c \in Calls] ==
  IF Ch(c, 1) = ";" THEN Semicolons[SkipWhitespace(Read[c])]
  ELSE Token(c, <<"EOL">>)

Element[n \in Integers] ==
  IF n.ok THEN Expr(Token(n.c, <<"dot-num", n.n>>)) ELSE Token(n.c, <<"error">>)

Dot[c \in Calls] ==
  IF Ch(c, 1) \in Numeric THEN Element[ReadInteger(c)]
  ELSE Expr(Token(c, <<".">>))

Colon[c \in Calls] ==
  IF Ch(c, 1) = "=" THEN Token(Read[c], <<":=">>) ELSE Token(c, <<":">>)

Pipe[c \in Calls] ==
  IF Ch(c, 1) = "|" THEN Expr(Token(Read[c], <<"ident", "||">>))
  ELSE Token(c, <<"|">>)

\* A number, or a minus before one, or anything else.
Word[c \in Calls] ==
  IF Ch(c, 1) \in Numeric \/ (Ch(c, 1) = "-" /\ Ch(c, 2) \in Numeric)
  THEN ReadNumber(c) ELSE Expr(ReadIdent(c))

\* The switch: joined says that the token before is an expression and no space
\* follows it.
Switch[c \in Calls, joined \in BOOLEAN] ==
  LET ch == Ch(c, 1)
  IN CASE ch = "(" -> Nest(Token(Read[c], IF joined THEN <<"(ns">> ELSE <<"(">>), 1)
       [] ch = ")" -> Nest(Expr(Token(Read[c], <<")">>)), -1)
       [] ch \in {"{", "[", "'", ","} -> Token(Read[c], <<ch>>)
       [] ch \in {"}", "]"} -> Expr(Token(Read[c], <<ch>>))
       [] ch = ";" -> Semicolons[c]
       [] ch = "." -> Dot[Step(c)]
       [] ch = ":" -> Colon[Step(c)]
       [] ch = "|" -> Pipe[Step(c)]
       [] ch = EOF -> Token(c, <<"EOF">>)
       [] ch = "\"" -> ReadString[Read[c], <<>>]
       [] OTHER -> Word[Peek[c, 2]]

\* A line's end is a token unless a parenthesis is open; it leaves prev as the
\* line before has set it.
AfterWhitespace[c \in Calls] ==
  IF c.nl /\ c.lx.parens = 0 THEN Token(c, <<"EOL">>)
  ELSE Switch[[c EXCEPT !.lx.prev = FALSE], c.lx.prev /\ ~c.skipped]

ReadTok(lx) ==
  AfterWhitespace[SkipWhitespace(
    [lx |-> lx, nl |-> FALSE, skipped |-> FALSE, got |-> <<>>])]

-----------------------------------------------------------------------------
(* The queue of tokens between the lexer and the parser. *)

Init ==
  /\ \E sample \in Samples, chunk \in Chunks :
       lexer = NewLexer(sample[1], chunk) /\ written = sample[2]
  /\ toks = <<>> /\ consumed = 0

\* gil_lexer_peek(count): the tokens that are missing are read.
ReadMore[lx \in Lexers, n \in Nat] ==
  LET t == ReadTok(lx)
  IN IF n = 0 THEN [lx |-> lx, toks |-> <<>>]
     ELSE [ReadMore[t.c.lx, n - 1] EXCEPT !.toks = <<t.tok>> \o @]

\* Mutant: tokens that wait already are not counted.
LookAtAnew(count) ==
  /\ count > Len(toks)
  /\ \E read \in {ReadMore[lexer, count]} :
       lexer' = read.lx /\ toks' = toks \o read.toks
  /\ UNCHANGED <<consumed, written>>

\* The parser looks at one token, two or three.
LookAt(count) ==
  /\ count > Len(toks)
  /\ \E read \in {ReadMore[lexer, count - Len(toks)]} :
       lexer' = read.lx /\ toks' = toks \o read.toks
  /\ UNCHANGED <<consumed, written>>

\* Mutant: the last token that waits is not given out.
ConsumeAllButLast ==
  /\ Len(toks) > 1 /\ Head(toks) # <<"EOF">> /\ consumed < MaxTokens
  /\ toks' = Tail(toks)
  /\ consumed' = consumed + 1
  /\ UNCHANGED <<lexer, written>>

\* gil_lexer_consume: a token the parser has looked at; it never consumes EOF.
Consume ==
  /\ toks # <<>> /\ Head(toks) # <<"EOF">> /\ consumed < MaxTokens
  /\ toks' = Tail(toks)
  /\ consumed' = consumed + 1
  /\ UNCHANGED <<lexer, written>>

Next == Consume \/ \E count \in 1 .. 3 : LookAt(count)

Spec == Init /\ [][Next]_vars

\* One thread looks at the next token and consumes it, as long as there is one.
FairSpec == Spec /\ WF_vars(LookAt(1)) /\ WF_vars(Consume)

-----------------------------------------------------------------------------
(* Properties *)

TypeOK ==
  /\ <<lexer.text, written>> \in Samples /\ lexer.chunk \in Chunks
  /\ lexer \in Lexers
  /\ Len(toks) <= QueueSize /\ consumed \in 0 .. MaxTokens

\* What is buffered is what comes next in the text, however little each read
\* returns (io.c:48-56).
ReaderInStep == InStep(lexer.reader, lexer.text)

\* The tokens are those the text was written to mean: whether its parts are
\* separated by spaces, lines, comments or arrows, however the reads cut it up
\* and however far the parser looks ahead (README.md:47, "Semicolons are
\* unnecessary"; README.md:89, "The arrows -> is a generic line continuation
\* syntax").  Left out of the texts is what it does not hold for, a line that begins
\* with a parenthesis after one that ends in an expression: the lexer takes that for
\* a call's (lex.c:545-559), which it would not after a semicolon.  Left out as well is
\* an assignment that touches a parenthesis, of which the README says nothing.
TokensAsWritten ==
  \A n \in DOMAIN toks :
    toks[n] = IF consumed + n <= Len(written) THEN written[consumed + n]
              ELSE <<"EOF">>

\* The parser comes to the end of every text: each token but the last takes
\* something of the text with it (lex.c:539-689 has no other way to end).
ReachesEnd == <>(toks # <<>> /\ Head(toks) = <<"EOF">>)
=============================================================================
