------------------------------- MODULE Session -------------------------------
(***************************************************************************)
(* cmd/main.c: a program is compiled and run (parse_text), or one line      *)
(* after another is, by one generator and one machine (repl).  The parser   *)
(* is taken for any sequence of calls of gil_gen_... with nested functions  *)
(* and modules that it may give up in the middle of; the machine for its    *)
(* instruction pointer and what it jumps by.  It may call any function it   *)
(* has allocated, and stop at any instruction, with an error or because a   *)
(* stack is full.                                                           *)
(***************************************************************************)
EXTENDS Generator

CONSTANTS
  PlainOps,       \* instructions to generate, without an operand,
  Counted,        \*   with a number for an operand: pairs <<op, number>>,
  NamedOps,       \*   and with a name for one: pairs <<op, name>>
  Parameters,     \* NAMED_PARAM's: pairs <<name, number>>
  Reals,          \* the bytes of numbers
  Strings,        \* the bytes of string constants
  MaxCalls,       \* bounds, by mode: the calls the parser makes, in all lines
  MaxLines,       \* bound: the lines the user enters
  MaxDepth        \* bound: the calls of functions inside each other

\* The instructions whose operand is a name, and those that are not generated on
\* their own: they belong to a body, to a string or to the end of a program.
NameOps == {"STACK_FRAME_LOOKUP", "STACK_FRAME_SET", "STACK_FRAME_REPLACE",
            "ALLOC_ATOM", "NAMESPACE_SET", "NAMESPACE_LOOKUP", "LOAD_CMODULE"}
Structure == {"RJMP", "RJMP_U4", "RET", "MOD_RET", "ALLOC_FUNCTION", "LOAD_MODULE"}

ASSUME SessionAssumption ==
  /\ \A bytes \in Reals : bytes \in Seq(Byte) /\ Len(bytes) = 8
  /\ Strings \subseteq Seq(Byte)
  /\ PlainOps \subseteq
       {op \in ToSet(Opcodes) : Words(op) = 0 /\ Fixed(op) = 0} \ Structure
  /\ \A counted \in Counted :
       /\ counted[1] \in {op \in ToSet(Opcodes) : Words(op) = 1}
                        \ (NameOps \cup Structure)
       /\ counted[2] \in Operand
  /\ \A named \in NamedOps : named[1] \in NameOps
  /\ \A param \in Parameters : param[2] \in Operand
  /\ MaxCalls \in [{"file", "repl"} -> Nat] /\ MaxLines \in Nat /\ MaxDepth \in Nat

VARIABLES
  mode,       \* "file" or "repl"
  phase,      \* "prompt", "reading", "printing", "running" or "over"
  gen,        \* the generator
  open,       \* the functions and modules the parser is in
  vm,         \* the machine
  calls,      \* how many calls the parser has made
  lines,      \* how many lines have been read
  meant       \* for each address, the instruction generated there (history)

vars == <<mode, phase, gen, open, vm, calls, lines, meant>>

-----------------------------------------------------------------------------
(* What an instruction means, to the generator and to the machine. *)

\* A name, and whether the machine knows it as well.
Name(name) == <<Contains(MachineAtoms, name), name>>
NameOf(id) ==
  IF id \in DOMAIN MachineAtoms THEN <<TRUE, MachineAtoms[id]>>
  ELSE <<FALSE, gen.atoms[id]>>

\* What the machine does for the instruction i: where it jumps to, the bytes it
\* copies, the name it uses.
Meaning(i) ==
  CASE i.op = "RJMP" -> i.next + i.words[1]
    [] i.op = "RJMP_U4" -> i.next + ReadFour(i.bytes, 0)
    [] i.op = "ALLOC_BUFFER_STATIC" ->
         SubSeq(gen.mem, i.words[2] + 1, i.words[2] + i.words[1])
    [] i.op = "ALLOC_REAL" -> i.bytes
    [] i.op \in NameOps -> NameOf(i.words[1])
    [] i.op = "NAMED_PARAM" -> <<NameOf(i.words[1]), i.words[2]>>
    [] OTHER -> i.words

\* The history, with what is generated at pos.
Noted(history, pos, op, what) ==
  [a \in {pos} \cup DOMAIN history |->
     IF a = pos THEN [op |-> op, means |-> what] ELSE history[a]]

-----------------------------------------------------------------------------
Init ==
  /\ mode \in {"file", "repl"}
  /\ phase = IF mode = "file" THEN "reading" ELSE "prompt"
  /\ gen = NewGenerator /\ open = <<>>
  /\ vm = [iptr |-> 0, rets |-> <<>>, funcs |-> {}, modules |-> {}]
  /\ calls = 0 /\ lines = 0 /\ meant = <<>>

(* Reading: one action for each kind of gil_gen_ function. *)

Generates(g, history) ==
  /\ phase = "reading" /\ calls < MaxCalls[mode]
  /\ calls' = calls + 1
  /\ gen' = g /\ meant' = history
  /\ UNCHANGED <<mode, phase, vm, lines>>

GenPlain(op) ==
  /\ Generates(Instruction(gen, op), Noted(meant, gen.pos, op, <<>>))
  /\ UNCHANGED open

GenCounted(op, n) ==
  /\ Generates(Instruction1(gen, op, n), Noted(meant, gen.pos, op, <<n>>))
  /\ UNCHANGED open

GenNamed(op, name) ==
  \E g \in {Named(gen, name)} :
    /\ Generates(Instruction1(g, op, Id(g, name)),
                 Noted(meant, gen.pos, op, Name(name)))
    /\ UNCHANGED open

GenParam(name, idx) ==
  \E g \in {Named(gen, name)} :
    /\ Generates(Instruction2(g, "NAMED_PARAM", Id(g, name), idx),
                 Noted(meant, gen.pos, "NAMED_PARAM", <<Name(name), idx>>))
    /\ UNCHANGED open

GenNumber(bytes) ==
  /\ Generates(Number(gen, bytes), Noted(meant, gen.pos, "ALLOC_REAL", bytes))
  /\ UNCHANGED open

GenString(string) ==
  /\ \E g \in {IF Known(gen, string) THEN gen ELSE StringData(gen, string)} :
     \E history \in {IF Known(gen, string) THEN meant
                    ELSE Noted(meant, gen.pos, "RJMP", g.pos)} :
       Generates(Instruction2(g, "ALLOC_BUFFER_STATIC", Len(string),
                              Constant(g, string).pos),
                 Noted(history, g.pos, "ALLOC_BUFFER_STATIC", string))
  /\ UNCHANGED open

\* gil_gen_import of a C module; its number is that of its name.
GenCModule(name) ==
  /\ Generates(Instruction1(gen, "LOAD_CMODULE", Id(gen, name)),
               Noted(meant, gen.pos, "LOAD_CMODULE", Name(name)))
  /\ UNCHANGED open

\* The body of a function, or of a module that is imported, goes where the import
\* or the function is, behind a jump.  In a REPL there are no modules to import
\* (main.c:114 gives it no resolver).
OpenBody(kind) ==
  /\ kind = "module" => mode = "file"
  /\ \E g \in {Placeholder(gen)} :
       /\ Generates(g, Noted(meant, gen.pos, "RJMP_U4", -1))
       /\ open' = Append(open, [kind |-> kind, reloc |-> gen.pos + 1, start |-> g.pos])

CloseBody ==
  /\ open # <<>>
  /\ LET body == Last(open)
         isFunc == body.kind = "function"
         ret == IF isFunc THEN "RET" ELSE "MOD_RET"
         load == IF isFunc THEN "ALLOC_FUNCTION" ELSE "LOAD_MODULE"
     IN \E g \in {Instruction(gen, ret)} :
        \E history \in {Noted(Noted(meant, gen.pos, ret, <<>>),
                             g.pos, load, <<body.start>>)} :
          Generates(AddReloc(Instruction1(g, load, body.start), body.reloc,
                             g.pos - body.start),
                    Noted(history, body.reloc - 1, "RJMP_U4", g.pos))
  /\ open' = Front(open)

-----------------------------------------------------------------------------
(* The ends of reading. *)

Halted(g) == Flush(Instruction(g, "HALT"))

\* A parse error: a program that is being imported ends with a HALT as well
\* (parse.c:841).  A REPL goes on, with the code it has.
Fail ==
  /\ phase = "reading"
  /\ LET modules == {n \in DOMAIN open : open[n].kind = "module"}
         halts == [n \in 1 .. 1 + Cardinality(modules) |-> HaltCode]
     IN \E g \in {Flush(Put(gen, halts))} :
          gen' = g /\ vm' = [vm EXCEPT !.iptr = Len(g.mem)]
  /\ open' = <<>>
  /\ phase' = IF mode = "file" THEN "over" ELSE "prompt"
  /\ UNCHANGED <<mode, calls, lines, meant>>

\* parse_text
EndProgram ==
  /\ phase = "reading" /\ mode = "file" /\ open = <<>>
  /\ \E g \in {Halted(gen)} : gen' = FixedUp(g)
  /\ meant' = Noted(meant, gen.pos, "HALT", <<>>)
  /\ phase' = "running"
  /\ UNCHANGED <<mode, open, vm, calls, lines>>

\* repl: the next instruction will be the first one generated for the line.
NextLine ==
  /\ phase = "prompt" /\ lines < MaxLines
  /\ lines' = lines + 1
  /\ vm' = [vm EXCEPT !.iptr = Len(gen.mem)]
  /\ gen' = [gen EXCEPT !.pos = Len(gen.mem)]
  /\ phase' = "reading"
  /\ UNCHANGED <<mode, open, calls, meant>>

\* The line was read as $$ := <line>.
EndLine ==
  /\ phase = "reading" /\ mode = "repl" /\ open = <<>>
  /\ \E g \in {Named(gen, "$$")} :
     \E set \in {Instruction1(g, "STACK_FRAME_SET", Id(g, "$$"))} :
     \E discard \in {Instruction(set, "DISCARD")} :
     \E history \in {Noted(Noted(meant, gen.pos, "STACK_FRAME_SET", Name("$$")),
                          set.pos, "DISCARD", <<>>)} :
       /\ gen' = Halted(discard)
       /\ meant' = Noted(history, discard.pos, "HALT", <<>>)
  /\ phase' = "printing"
  /\ UNCHANGED <<mode, open, vm, calls, lines>>

\* The HALT goes, and print $$ takes its place.
PrintFrom(g) ==
  \E print \in {Instruction1(g, "STACK_FRAME_LOOKUP", Id(g, "print"))} :
  \E arg \in {Instruction1(print, "STACK_FRAME_LOOKUP", Id(g, "$$"))} :
  \E call \in {Instruction1(arg, "FUNC_CALL", 1)} :
  \E discard \in {Instruction(call, "DISCARD")} :
  \E called \in {Noted(Noted(meant, g.pos, "STACK_FRAME_LOOKUP", Name("print")),
                      print.pos, "STACK_FRAME_LOOKUP", Name("$$"))} :
  \E history \in {Noted(Noted(called, arg.pos, "FUNC_CALL", <<1>>),
                       call.pos, "DISCARD", <<>>)} :
    /\ \E all \in {Halted(discard)} : gen' = [FixedUp(all) EXCEPT !.relocs = <<>>]
    /\ meant' = Noted(history, discard.pos, "HALT", <<>>)

\* Mutant: the HALT stays.
BehindHalt(g) == [g EXCEPT !.pos = Len(g.mem)]

WithoutHalt(g) == [g EXCEPT !.mem = Front(@), !.pos = Len(g.mem) - 1]

PrintLine ==
  /\ phase = "printing"
  /\ PrintFrom(WithoutHalt(gen))
  /\ phase' = "running"
  /\ UNCHANGED <<mode, open, vm, calls, lines>>

-----------------------------------------------------------------------------
(* gil_vm_step, as far as it moves the instruction pointer. *)

Instr == Decode(gen.mem, vm.iptr)
Running == phase = "running" /\ vm.iptr < Len(gen.mem)
Goes(machine) ==
  vm' = machine /\ UNCHANGED <<mode, phase, gen, open, calls, lines, meant>>
Ends == IF mode = "file" THEN "over" ELSE "prompt"

Jump ==
  /\ Running /\ Instr.op \in {"RJMP", "RJMP_U4"}
  /\ Goes([vm EXCEPT !.iptr = Meaning(Instr)])

Halt ==
  /\ Running /\ Instr.op = "HALT"
  /\ vm' = [vm EXCEPT !.iptr = Instr.next]
  /\ phase' = Ends
  /\ UNCHANGED <<mode, gen, open, calls, lines, meant>>

AllocFunction ==
  /\ Running /\ Instr.op = "ALLOC_FUNCTION"
  /\ Goes([vm EXCEPT !.iptr = Instr.next, !.funcs = @ \cup {Instr.words[1]}])

Enter(i, pos) == [vm EXCEPT !.rets = Append(@, i.next), !.iptr = pos]

\* A call of a function of the program; one of a C function goes on.
Call ==
  /\ Running /\ Instr.op \in {"FUNC_CALL", "FUNC_CALL_INFIX"}
  /\ \/ Goes([vm EXCEPT !.iptr = Instr.next])
     \/ /\ Len(vm.rets) < MaxDepth
        /\ \E pos \in vm.funcs : Goes(Enter(Instr, pos))

Return ==
  /\ Running /\ Instr.op \in {"RET", "MOD_RET"} /\ vm.rets # <<>>
  /\ Goes([vm EXCEPT !.iptr = Last(vm.rets), !.rets = Front(@)])

\* A module runs when it is loaded for the first time.
LoadModule ==
  /\ Running /\ Instr.op = "LOAD_MODULE"
  /\ \E pos \in {Instr.words[1]} :
       IF pos \in vm.modules THEN Goes([vm EXCEPT !.iptr = Instr.next])
       ELSE /\ Len(vm.rets) < MaxDepth
            /\ Goes([Enter(Instr, pos) EXCEPT !.modules = @ \cup {pos}])

OtherInstr ==
  /\ Running
  /\ Instr.op \notin {"RJMP", "RJMP_U4", "HALT", "ALLOC_FUNCTION", "FUNC_CALL",
                      "FUNC_CALL_INFIX", "RET", "MOD_RET", "LOAD_MODULE"}
  /\ Goes([vm EXCEPT !.iptr = Instr.next])

\* A stack overflow before the instruction, or an error that is discarded by it.
Stop ==
  /\ Running
  /\ \/ vm' = vm
     \/ /\ Instr.op \in {"DISCARD", "SWAP_DISCARD"}
        /\ vm' = [vm EXCEPT !.iptr = Instr.next]
  /\ phase' = Ends
  /\ UNCHANGED <<mode, gen, open, calls, lines, meant>>

Step ==
  \/ Jump \/ Halt \/ AllocFunction \/ Call \/ Return \/ LoadModule \/ OtherInstr
  \/ Stop

Generate ==
  \/ \E op \in PlainOps : GenPlain(op)
  \/ \E counted \in Counted : GenCounted(counted[1], counted[2])
  \/ \E named \in NamedOps : GenNamed(named[1], named[2])
  \/ \E param \in Parameters : GenParam(param[1], param[2])
  \/ \E bytes \in Reals : GenNumber(bytes)
  \/ \E string \in Strings : GenString(string)
  \/ \E name \in CModules : GenCModule(name)
  \/ \E kind \in {"function", "module"} : OpenBody(kind)
  \/ CloseBody

Next ==
  \/ Generate \/ Fail \/ EndProgram \/ NextLine \/ EndLine \/ PrintLine \/ Step

Spec == Init /\ [][Next]_vars

-----------------------------------------------------------------------------
(* Properties *)

TypeOK ==
  /\ mode \in {"file", "repl"}
  /\ phase \in {"prompt", "reading", "printing", "running", "over"}
  /\ gen.mem \in Seq(Byte) /\ gen.buf \in Seq(Byte) /\ Len(gen.buf) <= BufferSize
  /\ gen.pos \in Nat
  /\ \A n \in DOMAIN open : open[n].reloc \in Nat /\ open[n].start \in Nat
  /\ vm.iptr \in Nat /\ vm.rets \in Seq(Nat) /\ Len(vm.rets) <= MaxDepth
  /\ calls \in 0 .. MaxCalls[mode] /\ lines \in 0 .. MaxLines

\* The generator's position is the address of the byte it writes next: what is in
\* memory and what is still in the buffer comes before it, after a failed line
\* and a HALT that was taken back, too (gen.c:20, main.c:193-205).
PosIsAddress == gen.pos = Len(gen.mem) + Len(gen.buf)

\* A string constant stays where the generator remembers it to be, so that a later
\* line, or the rest of one whose beginning failed, can use it again
\* (gen.c:392-421).
StringsInPlace ==
  \A n \in DOMAIN gen.strings :
    LET s == gen.strings[n]
    IN SubSeq(gen.mem \o gen.buf, s.pos + 1, s.pos + Len(s.string)) = s.string

\* Wherever the machine is, there is an instruction that was generated for what is
\* being run, and the bytes there say what was meant: the same operation, the same
\* names, a jump behind the body or the data it was made for, the string's own
\* bytes (gen.c, vm.c:584-607).
RunsWhatWasMeant ==
  phase = "running" =>
    /\ vm.iptr \in DOMAIN meant
    /\ LET i == Instr
       IN meant[vm.iptr].op = i.op /\ meant[vm.iptr].means = Meaning(i)

\* A run that comes to a HALT has come to the end of the code, so a REPL has
\* printed what the line is worth (main.c:193-205).
HaltsAtTheEnd == [][Halt => vm'.iptr = Len(gen.mem)]_vars
=============================================================================
