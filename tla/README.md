# Verification of Gilia

Gilia is a small expression language implemented in C. A lexer and a
recursive-descent parser drive a bytecode generator; a stack machine with a
mark-and-sweep collector runs the bytecode; the control structures (`if`,
`while`, `for`, `match`, ...) are ordinary functions of a builtins module that
steer the machine through continuations. This directory holds TLA+
specifications of the program, the TLC configurations that check them on small
instances, and TLAPS proofs of theorems that hold for every size.

Contents: [inventory](#inventory) · [modules and the code](#modules-and-the-code) ·
[runs](#runs) · [bounds](#bounds) · [fairness](#fairness) · [proofs](#proofs) ·
[what is not modelled](#what-is-only-checked-and-what-is-not-modelled) ·
[plan](#plan)

## Inventory

| component | state | operations | used by |
|---|---|---|---|
| bitset (`lib/bitset.c`) | words of bits, one directory bit per word, the current table and directory | `set_next`, `unset`, iterator | machine: which value ids are in use |
| string set (`lib/strset.c`) | open hash table string -> number, next number | `put`, `put_copy`, `get`, growth | generator and machine: atoms, string literals |
| buffered I/O (`lib/io.c`) | the reader's buffer with what was taken of it; the writer's buffer | peek, get; put, put_n, flush | lexer, generator, printers |
| strings (`lib/str.c`) | growing buffer | append, finish | lexer |
| lexer (`lib/parse/lex.c`) | 4 tokens of lookahead, depth of parentheses, whether the last token ends an expression | `peek`, `consume`, `read_tok` | parser |
| parser (`lib/parse/parse.c`) | the C stack (depth limited) | one function per production; emits as it reads | CLI, REPL |
| generator (`lib/gen/gen.c`) | output position, atoms, strings, relocations | one function per instruction; `import`; filling in jumps | parser, REPL |
| import resolver (`lib/gen/fs_resolver.c`) | the directories of the files being parsed | normalize, create and destroy a reader | generator |
| machine (`lib/vm/vm.c`) | values, value ids, value stack, frame stack, `iptr`, loaded modules, flags `halted`, `need_gc`, `need_check_retval` | `gil_vm_step`, calls, returns, continuations | CLI, REPL |
| namespaces (`lib/vm/namespace.c`) | per namespace an open hash table atom -> id, and a parent | get, set, replace, delete, growth | machine, builtins |
| collector (`lib/vm/vm.c`) | a mark per value | `gc_mark`, `gc_sweep` | machine after a step, REPL after a line |
| builtins (`lib/modules/builtins.c`) | the contexts of continuations that wait | functions, callbacks, markers | machine |
| fs module (`lib/modules/fs.c`) | files as C values | open, close, read | machine |
| CLI and REPL (`cmd/main.c`) | one machine, generator and op buffer for all lines | parse, run, collect, repeat | user |
| printers, loader, trace | none that matters | formatting, reading a file | CLI |

**How they interact.** There is one thread. The parser calls the lexer for
tokens and the generator for code; nothing comes back from the generator but
positions; an `import` starts a second parser on the file's text in the middle of
the first one's code. The bytecode is shared memory between generator and machine:
in a REPL the machine stands at the end of what was executed and the generator
appends. The atoms' numbers are an agreement between the generator's and the
machine's string sets. In the machine everything names values by id; ids come from the bitset.
A builtin is called with ids as arguments and returns one id. It cannot call
back into the machine: to have a function called it returns a *continuation*,
which stays on the value stack, one slot below the frame of the function it
wants called, and whose callback is given what that function returns.

**What is hard.** No messages and no threads; the interleavings are those of
the program with the collector, which may run after any step, and those of
nested control structures, whose continuations, frames and values share one
stack. The failures are those of programs: errors are values that travel up the
same paths as results, from every place a call can fail. The long sequences
are those of the data structures: a bitmap that fills up, empties and is walked
while it changes, hash tables with deleted keys and growth, marks that survive
a collection, a REPL whose lines fail in every way and whose next line uses what
they left. Input comes in pieces of any size and a token's meaning depends on
what was read before it and on what follows. Numbers matter at the limits: the 32
slots of slack of the stack check, the recursion limit of the collector, id 0, the
digits of an operand.

**What makes each part correct.**

* bitset: no id is handed out twice, none is lost, a walk visits every id in use.
* string set: a string keeps its number, numbers have no gaps, searches end.
* namespaces: a table behaves as a map, with the parents behind it; probes end.
* machine: the stack before each instruction is the one the parser had in mind;
  continuations are resumed exactly once and are never seen by the program;
  programs print what the language's documentation says.
* collector: nothing in use is freed, everything else is; marks do not leak.
* control functions: they end when their condition says so, in every nesting.
* reader: whatever amounts the reads return, the text comes through in order.
* lexer: a text has the tokens it was written to mean, in every layout.
* generator and REPL: an address the generator remembers is where the thing is, the
  bytes at an address mean to the machine what the generator meant by them, and
  every line runs to its end.

`PROJECT.json` lists each component's status and, under `hazards`, where in the
code these can go wrong and which property would notice.

## Modules and the code

| module | models | notes |
|---|---|---|
| `IdPool` | what the machine expects of the bitset | abstract specification: `Take`, `Release`, `Begin`, `Visit`, `End` |
| `Bitset` | `lib/bitset.c` | one action per operation; implements `IdPool` |
| `BitsetProofs` | | proofs about `Bitset` |
| `Interning` | what the generator and the machine expect of string sets | abstract specification: numbered strings |
| `StringSet` | `lib/strset.c` | tables slot by slot, growth one slot at a time; implements `Interning` |
| `StringSetProofs` | | proofs about `StringSet` |
| `Scopes` | what the machine expects of namespaces | abstract specification: finite maps with parents |
| `Namespace` | `lib/vm/namespace.c` | tables slot by slot, growth one slot at a time; implements `Scopes` under a condition, see below |
| `NamespaceProofs` | | proofs about `Namespace` |
| `Gc` | `gil_vm_gc`, `gc_mark`, `gc_sweep`, `alloc_val` | small steps: one call of `gc_mark`, one value of the sweep |
| `GcProofs` | | proofs about `Gc` |
| `CharStream` | what the lexer expects of a buffered reader | abstract specification: characters one by one |
| `BufReader` | the reader of `lib/io.c` | operators on the reader's record |
| `Reading` | a user of the reader | peeks and gets in any order, reads of any amount; implements `CharStream` |
| `Lexer` | `lib/parse/lex.c` over `BufReader` | recursive functions from characters to tokens; the queue of tokens as state |
| `Bytecode` | the bytes of instructions | how `gen.c` writes them, how `vm.c` and `print.c` read them |
| `Generator` | `lib/gen/gen.c`, the writer of `lib/io.c` | operators on the generator's record |
| `Session` | `cmd/main.c`: `parse_text`, `repl` | composes `Generator`, a parser that calls anything, and a machine that follows the bytes |
| `SessionProofs` | | proofs about `Bytecode`, `Generator` and `Session`, and about the other half of `lib/io.c`, `BufReader` and `Reading` |
| `Calls` | calls, returns and continuations of `vm.c`, for any program | abstract specification: kinds of slots and frames |
| `CallsProofs` | | proofs about `Calls` |
| `Machine` | values, allocation, namespaces as maps, `gc_mark`/`gc_sweep` in one step | operators on the machine's record |
| `Builtins` | `lib/modules/builtins.c` | each builtin and each callback as an operator |
| `FsModule` | `lib/modules/fs.c` | files as C values, in front of `Builtins` |
| `Vm` | `gil_vm_step`, calls, returns, continuations | one action per instruction; composes `Machine`, `Builtins` and `FsModule`; implements `Calls` |
| `MachineProofs` | | proofs about `Machine`, `Builtins`, `FsModule` and the instructions of `Vm` that call nothing |
| `VmProofs` | | proofs about calls, returns and continuations of `Vm`; the theorems about the machine |
| `Resolver` | `lib/gen/fs_resolver.c` | the directories as a sequence |
| `Compiler` | `lib/parse/parse.c`, the calls it makes of `lib/gen/gen.c` | recursive operators from tokens to instructions; used by TLC only |
| `MCVm` | programs and files | compiles the programs and runs `Vm` on them |

The chain from a text to its output is cut in three, each part as general as it can
be checked: characters -> tokens (`Lexer`), tokens -> instructions -> output
(`Compiler`, `Vm`), calls of the generator -> bytes -> instructions executed
(`Generator`, `Session`).
`Machine` uses namespaces as the maps of `Scopes`, ids as the pool of `IdPool`
(the lowest free id, as `Bitset` gives out) and collects in one step; `Namespace`,
`Bitset` and `Gc` check those abstractions against the code they stand for. So the
composition is: tokens -> `Compiler` -> instructions -> `Vm` over `Machine`,
`Builtins` and `FsModule`, with the data structures refined separately. An atom is its name in `Vm`;
`StringSet` implements the numbers (`Interning`) that stand for names in the code.

**Vm.** `vm` is the struct `gil_vm` as a record. `Step` is the dispatch of
`gil_vm_step`: if the flag `check` (`need_check_retval`) is set, the pass that
looks at a builtin's result (lines 626-638), else the overflow check and one
instruction. Each action is the whole case of the switch, including the calls it
makes (`call_func`, `after_func_return`, a builtin, its callback), and ends with
the collection of lines 1124-1128 when there is one. Operators that take a
machine and return one stand for C functions; `Alloc` then `Push` in the order of
the code. When `need_gc` is set depends on how many values exist; the model lets
it be set by any allocation, at most `MaxCollections` times, or after every step
when `eager` (the `--step` mode and the example tests).

**Calls.** What calls, returns and continuations do to the two stacks, with nothing
of the values but what a slot holds: a value, a RETURN value, or a continuation,
which hands on what it is given (that of `if` and of `match`) or answers for itself.
The program may do anything with values of its own, and a C function may return
anything that a builtin can. A frame has `base`, where its own values begin, and
`want`, how many its code says it has there when it goes on. `after_func_return`,
which calls itself, is one action that says where a returned value comes to rest:
the continuations in between are resumed, and frames that a RETURN value goes
through are left (`Reaches`); then there is nothing left to resume (`Settles`) or a
continuation has its function called (`CallsAgain`). `Vm` implements it: `Kind` maps
ids to kinds, `Activations` the frames, and `want` is the height that `Heights`
computes from the bytecode where the frame goes on, so that "the machine keeps the
protocol" says that bytecode and machine agree at every step. Two things that the
code does are outside of it, and what `vm_assert` is about: a continuation whose
function is none, which is the finding, and an assertion that fails in a function called
by a continuation.

**Compiler.** The parser and the generator as one pass: each `Parse...` operator
is the production of the same name and returns what is left of the tokens and the
code emitted so far. Jumps are patched as in the code, strings are placed after
the first use and shared. An import parses the file's tokens in the place of the
import, with the resolver's directories as the code leaves them. Instructions are
counted, not bytes; the bytes are `Bytecode`'s and `Session`'s.

**FsModule.** A file is a value of its own, with the text that has not been read.
The namespace of a file's functions is known only to the module, whose marker keeps
it; looking a function up in a file makes a new function value with the file as
`self`. Closing takes the file from the value, not the value from the program.

**BufReader, Lexer.** A reader is the record `[given, buf, idx]`: how much the read
function has returned, the buffer, how much of it was taken. `Shift` moves what is
left to the front and appends what a read returns: at least a character while there
are any. `Reading` lets every read return any amount, and its refinement is proved
for all buffers; `Lexer` runs on one amount per text (`chunk`), and keeps the calls of
`peek_ch` in the order of the code, since it is the order that fills the buffer. A
call of `read_tok` is one step, `lx` the struct and `c` the call's local variables.
`Lexer`'s state between calls is what makes tokens depend on each other: `parens`,
`prev` and the queue.

**Generator, Session.** `gen` is the struct with the memory written so far and the
buffer of the writer. Each `Gen...` action is one `gil_gen_` function with the bytes
it writes; bodies of functions and modules nest (`open`). The parser is any sequence
of such calls, which it may give up anywhere (`Fail`). `meant` is a history variable:
what the generator meant at each address. The machine has an instruction pointer,
return addresses and the functions it has seen allocated; it may call any of them,
in any order, and may stop at any instruction. `Fail`, `EndLine` and `PrintLine` are
the REPL's treatment of a line: a HALT is written, taken back, and `print $$` is
appended in its place (main.c:193-205).

**Gc.** `values` maps the ids in use to what they refer to; `roots` stands for the
value stack, the frames and the modules. The program's steps are all that matters
to a collector: making a value, holding and dropping one, assigning to an array or
namespace, halting. `calls` is `gc_mark`'s recursion as the list of calls still to
be made, in the order of the code, each with its depth. Ids below `gc_start` are
constants: marked, never swept, so that their marks stay. `cut` records that the
depth limit was met; the code then halts, but the sweep that follows frees values
in use, and the model ends after it.

**StringSet.** `Put` is `put` or `put_copy` in a table with room; in a crowded one
it is `Grow` (the new arrays), `Move` for every slot of the old ones, and
`PutGrown` (the loop of `put`). The code runs these without a break; they are steps
so that the properties hold in the middle of it too. `&mask` is `% size`, as sizes
are powers of two.

**Bitset and Namespace.** The state is the struct of the header; the word size
and the first sizes are constants. `Namespace` grows a table as `StringSet` does:
`Set` allocates the new table, `Move` is one turn of `grow`'s loop and `SetGrown` the
rest of `set`; the old table is in place until then. It deletes a key by leaving a
tombstone, as the code does, and then does *not* implement `Scopes` in general:
`get` stops at tombstones. It does when a deleted key is in no other key's way,
and the run `namespace` says so through the keys it may delete; the runs
`namespace_delete` and `namespace_copy` show what happens otherwise: a key is hidden,
and a key that is set again gets a second copy, of which growth may keep the older one.
`Machine` has namespaces as maps, with what `len` needs besides: the size, and the keys
deleted since the table last grew, which `ns->len` goes on counting.

## Runs

| run | question | outcome |
|---|---|---|
| `bitset` | do bitmap and directories agree in every order of `set_next`, `unset` and iteration, and implement `IdPool`? | yes |
| `strset` | does the table, which doubles later than its rule says, number strings as `Interning` does, and do searches end? | yes |
| `namespace` | do colliding keys, growth and the walk up the parents implement `Scopes`, and do probes end? | yes, if no deleted key was in the way of another |
| `namespace_delete` | does a key keep its value when another is deleted? | no: finding, `namespace.c:97` |
| `namespace_copy` | does a key keep its value when the table grows? | not if it was set again after a deletion: finding, `namespace.c:71` |
| `lexer` | does a text have the tokens it was written to mean, in every layout, however it is read and looked ahead in, and is its end reached? | yes |
| `session` | does the machine only ever execute what was generated, as it was meant, in programs and in sessions with failed and stopped lines? | yes |
| `gc` | is nothing reachable ever freed, everything else always, and every mark taken off; when is the limit met? | yes; only with more than `Limit / 2` values |
| `vm` | for the README's and the examples' programs, the fs module, imports and all control functions nested in each other, with collections anywhere: does it keep the protocol of `Calls`, is nothing needed freed, is the output right, does everything end? | yes |
| `vm_assert` | is the stack balanced when a continuation is to call what is no function, or what it called fails an assertion? | no: finding, `vm.c:554`, the continuation stays |
| `vm_arguments` | does a `$` that a variable keeps stay as it was? | no: finding, `builtins.c:486`, `for` reuses the array |
| `vm_assignment` | does assigning bind the variable? | finding, `builtins.c:344`: not the value of an empty `if` |

The properties of `Vm`:

* `KeepsProtocol`: every step is one of `Calls` or changes nothing there. A step may
  leave the stack balanced and still be wrong: a continuation that is dropped when its
  function is called is never resumed. `StackBalance` does not notice that.
* `StackBalance`, which is stated in `Calls`, compares the value stack with the heights
  computed from the bytecode (`Heights`), for every frame: above a frame's own values
  there may be waiting continuations and nothing else. It is the property the parser,
  the instructions and the continuations have to keep together.
* `NoDangling`: whatever the machine will follow is in use. `Uses` says what that
  is, independently of what `gc_mark` marks.
* `NoEscape`: continuations and `RETURN` values are in one stack slot and nowhere
  else.
* `StackBounded`: with the slack the code leaves, the arrays are not overrun,
  although the overflow check is skipped when results are checked.
* `PrintsAsExpected`: the output is a prefix of the expected one and all of it at
  the end. What is expected is written in `MCVm` from the documentation and the
  examples, not computed from the code.
* `Terminates`: every program of `MCVm` halts.
* `ArgumentsStay` and `AssignmentBinds` say what the documentation says of `$` and of
  assignments, and are violated. The first is about the arrays that variables refer to
  before and after a step (`InVariables`), not about those the machine only prepares for
  its next call.
* `ProperUse` is about the programs: the control functions are given functions to call,
  and no assertion fails in a function that a continuation has called. These are the two
  things the machine handles badly (`vm_assert`), and the condition of the
  theorems about the machine; the run shows that the programs of the documentation meet
  it.

The properties of `Session`:

* `PosIsAddress`: the position the generator counts is the address it writes to.
  Jumps, strings and functions are remembered as positions, and the machine goes to
  addresses; the REPL sets the position by hand, on three occasions.
* `StringsInPlace`: a string's bytes stay where the generator will point later lines
  to, although lengths are filled in and a HALT is taken back in between.
* `RunsWhatWasMeant`: at every address the machine comes to, an instruction was
  generated, and decoding it gives what was meant: no data is executed, no jump is
  left without its length, names are those of the other string set.
* `HaltsAtTheEnd`: no HALT in the middle ends a line early.

`TokensAsWritten` compares the queue with tokens that `MCLexer` writes down word by
word, from the README and the tests, when it lays the words out as a text: a newline
ends a line as a semicolon does, and a parenthesis belongs to what is before it only if
nothing is in between. The code does otherwise when a line begins with `(` after one
that ends in an expression; these texts (`Opening`) are left out of the run, and the
disagreement is noted below. Nor does an assignment touch a parenthesis in them,
`x =(1)`, of which the README says nothing.

Each property of a passing run comes with a mutant in `PROJECT.json`: a definition
and a plausible wrong version of it, which stands beside it in the module and is
marked "Mutant". With the wrong one in its place TLC finds the property violated.

## Bounds

* `MCBitset`: words of two bits, one table at first, and no allocation once five
  tables are in use. A directory then describes two tables, so directories fill,
  are left for later ones, and get free ids back behind the current position;
  arrays double twice.
* `MCStringSet`: new tables of two slots (16 in the code) that double twice, six
  strings whose homes collide in each. The second table is three quarters full
  before it doubles, which is the most `ProbesEnd` allows; no table grows beyond
  eight slots, then only `get` and nothing crowded is possible.
* `MCNamespace`: two namespaces, tables of 4 slots growing to 8 (16 and more in
  the code). Keys 3 and 11 collide in both sizes, in the last slot of the small
  table, so that probes wrap around; key 2 comes before them. `namespace_copy` has one
  table of 8 slots growing to 16, in which two keys collide and two more fill it.
* `MCGc`: one constant, three values, two roots, arrays of one id and
  continuations with three, `Limit` 4. Chains, cycles and shared values of all
  three occur, and a chain of three is deep enough to meet the limit.
* `MCLexer`: 4802 texts: every two of 25 words, and every three of a few that decide
  about lines and calls, with spaces, newlines, comments, semicolons, arrows or
  nothing between them, in and outside parentheses; five programs of the README.
  Reads return one character or seven, the buffer has three (1024 in the code), so
  that every token is cut at every place. At most three tokens of lookahead, as many
  as the parser uses; numbers have at most six digits (32 in the code).
* `MCSession`: a buffer of seven bytes (1024), so that it is flushed inside
  instructions; operands of one, two and three digits; an empty string and one whose
  length takes two digits. Four calls of the generator in a program and three in a
  session of two lines: enough for a body with something in it, for a string that
  is used again by a second line, and for a failure in either line.
* `MCVm`: the stacks have 16 slots with a margin of 6 (1024 and 32 in the code),
  enough for two nested controls with their continuations and small enough for
  the program `recursion` to overflow. One collection at any place, or one after
  every step. Integers are TLA+ integers; the programs stay far below the 53 bits
  a double holds exactly. The program `files` opens, reads and closes files and uses
  them after that; `borrowed` gives C functions to the control functions, which then
  call them instead of functions of the program; `directories` imports files of two directories from each other.

## Fairness

There is one thread, which goes on as long as there is something to do; that is all
that is assumed.

* `Vm`'s `Terminates`: `FairSpec` says that the machine takes steps as long as it is not
  halted, which is what `gil_vm_run` (vm.c:417-421) is, a loop around `gil_vm_step`.
  It is weak fairness of `Step`, written without `ENABLED`. Nothing is assumed about
  programs or about when collections happen.
* `Lexer`'s `ReachesEnd`: weak fairness of `LookAt(1)` and of `Consume`. The parser's loop
  (parse.c:748-790) looks at the next token and consumes it until it is EOF, or gives
  up. How far it looks ahead besides is left open.

## Proofs

All theorems are checked by TLAPS for every value of the constants that the
modules' assumptions allow.

`BitsetProofs` proves for `Bitset`: `TypeCorrect`, `SummaryCorrect`, `RoomCorrect`,
`CoverCorrect`, `GrowthCorrect`, and `Refinement`, that `Bitset` implements `IdPool`
(initial states, and every step a step of the pool or a stutter). Assumed
(`BitsetAssumption`): the word size is the number of tables at first times a power
of two, as 64 and 4 are in the code; without it, doubling the number of tables would
not meet the boundary of a directory. The inductive invariant `Inv` is the
conjunction of the type, of `SummaryExact` (a directory's bit is set exactly if its
table exists and is full), of `RoomAhead` (the current table has a free bit and is
the current directory's), of `Growth` (doubling the tables reaches the capacity of
the directories, so that the directories stay ahead) and of `WalkInv` (a walk has
left behind the id it returned last). The arithmetic of words, tables and
directories is in lemmas of its own (`Split`, `DirOfSlot`, `Doublings...`), since no
prover does it in context.

`StringSetProofs` proves for `StringSet`: `TypeCorrect`, `SearchesEnd` (`ProbesEnd`),
`KeysAreFound` (`KeysFound`) and `Refinement`, that it implements `Interning`. Assumed:
that a new table's size is even and not 0, nothing about hashes. The invariant `Inv`
adds to the type and `KeysFound`

* `Fill`: `2 * used + Size = 2 * len + size`, which is what the miscounting comes to.
  A table doubles when `len` is half its size, so at most `size - Size / 2` slots
  are in use and a search always meets an empty one (`Room`, with `Onto`: the probes
  reach every slot, which takes arithmetic of remainders);
* `NoTwoPlaces`: what waits to be moved is nowhere else;
* `Numbers`: the numbers given out are those up to the number of strings.

The step worth reading is `PutIn`: a string put where its search ended is in nobody's
way, since the slot was empty and no other search went past it. TLC checked `Inv` on
`MCStringSet` first.

`NamespaceProofs` proves for `Namespace`, whatever is set and deleted: `TypeCorrect` and
`SearchesEnd` (`ProbesEnd`); and for programs that delete nothing (`NoDelete`: no key is
set to 0): `KeysAreFound` (`KeysFound`) and `Refinement`, that the tables implement
`Scopes`. Assumed (`NamespaceAssumption`): a new table has at least two slots, atoms and
ids are naturals and a parent is older than its children. The second pair cannot be had
without `NoDelete`, as the finding at `namespace.c:97` shows; what it adds is that the
tombstones are the *only* thing wrong. The condition excludes more than the run does,
which deletes a key in nobody's way. Of the invariants

* `Growth` says that the table `grow` fills has twice the size and holds no more than has
  been moved, so at most half of the old one; that leaves room for the key `set` came with;
* `Clean`, without deletion: no tombstones, no value 0 next to a key, and every key is
  where its search ends. `InsertClean` has the argument of `PutIn` above;
* `Transfer`: `get` in the new table would find what has been moved, nothing else. So a
  key that is moved is new there, and `grow`, which compares no keys, puts it where `set`
  would (`RehashIsInsert`).

`SessionProofs` begins with `UintReadsBack` and `FourReadsBack`: an operand that is written anywhere
in a program is read back, and reading goes on behind it. They are about `Bytecode`'s
operators, for operands below 2^28 (`encode_uint` has room for four digits). Its lemmas
say of every `gil_gen_` function what it adds to the output (`Adds`, `Written`), what
`Decode` makes of that (`Reads`), and that an instruction is still the same one when
other bytes change (`SameInstruction`).

It goes on with `Session`, for every program, session and buffer size, and
whatever the parser generates: `PosCorrect` (`PosIsAddress`), `StringsCorrect`
(`StringsInPlace`), and, as long as the code is `Addressable`, `TypeCorrect` (`TypeOK`),
`RunsCorrect` (`RunsWhatWasMeant`) and `HaltsCorrect` (`HaltsAtTheEnd`). Assumed:

* `GeneratorAssumption`: a buffer of at least five bytes, the longest that is written
  byte by byte (1024 in the code);
* `NamesAssumption`: names are strings, `print` is a builtin, and a C module's name is
  interned when it is registered (gen.c:105-113);
* `SessionAssumption`: numbers and strings are made of bytes, and the operations that
  are generated on their own take the operands they are given (bytecode.h);
* `Addressable`, a condition on the behaviour and not on the constants: fewer than 2^28
  bytes of code and fewer than 2^28 names. Positions and names are operands, and
  `encode_uint` has room for four digits (gen.c:25). It holds from the start, and the
  theorems speak of a session for as long as it does.

None of them is inductive. Strings stay in place only if what is overwritten later is
somewhere else: the first invariant, `SessionInv`, is `Sound` of the phase the session is
in, which adds

* the position is the length of the output (`IsWriter`); the buffer is never fuller than
  it is long (`Buffers`), empty outside reading, and after a line there is a byte, its
  HALT, that can be taken back;
* `Kept`, up to a limit: each string's bytes are in the output (`StringAt`) and lie in
  front of that HALT, and apart from each hole, the four bytes of a jump whose length
  is not yet filled in (`Apart`). The holes are those of the bodies that are open and
  those that wait in `relocs`; a hole is made at the end of the output, so it is apart
  from every string before it, and strings are put behind it.

That filling in lengths leaves strings as they were is then a lemma about `FixedUp`, which
changes nothing but the bytes of holes. TLC checked this invariant on `MCSession` first.

That the machine runs what was meant needs to know of every address it may ever come to.
`meant` does not tell which those are: it also holds what lines that failed have left. So the second
invariant, `CodeInv`, says that there is a function `f` from addresses to *cells*, an operation with its
meaning and the address behind it, and that three sets of addresses carry it:
`T`, the program or the line outside all bodies; `B`, its bodies; and `P`, the bodies of
earlier lines, whose functions may still be called. The parts are

* `Laid`: each cell is in the output in full, clear of all holes but its own
  (`InPlace`), and decodes to what it means once names and strings are looked up
  (`Tells`); the jump over a body has its length, or a hole in which its length will be put
  (`Awaits`). `Meant`: the history says the same of it;
* `Flows`: the machine cannot leave a set except by a call. From a cell it gets to a cell of the same
  set, or to the end of the code being written (`TopEnd` outside bodies, `BodyEnd` in the
  innermost one). `Starts`: what is called is the first cell of a body;
* `Without`: RET is only in bodies and HALT only in `T`, where it is followed by the end
  of the code. This is `HaltsCorrect`;
* `Bodies`: the jump over an open body is a cell of the one around it, so that closing
  it makes a cell that leads behind the body;
* `HolesApart`: no two lengths overlap, so that filling them in gives each jump its own;
* `OnItsWay`: the machine is in `T` or in a body, and so is the place each call will return
  to: up to some depth the calls are of bodies, and the one below is in `T`.

When a line fails or is done with, `T` and its bodies are given up (`P` grows by the
bodies of a line that is run), and the next line starts with an empty `T` at the end of what there
is. Each `Gen...` action adds one cell or two (`CodedPlain`, `CodedNamed`, ...,
`GenerateStepCodes`); `FixedUpReady` fills in the lengths; `CodedHalts` and
`HaltTakenBack` are about the HALT that a line ends with. `CodeRuns` then says of a running
machine that it is at a cell. `CodeInv` is about functions and sets that exist, which TLC does
not search; what follows from it is what TLC checks on `MCSession`.

`SessionProofs` also proves for `Reading`, through which every line is read:
`ReaderInStep`, that the buffer holds the part of the text between what was taken and
what was given, and `ReaderRefinement`, that peeking and getting through it implements
`CharStream`. Assumed (`ReaderAssumption`): `EOF` is no
character, the buffer is not empty, and nobody looks further ahead than it is long.
The refinement needs one thing more in the invariant: what was looked at is still
buffered unless the text is over (`Remembered`). Without it peeking at the second
character could answer EOF because a read returned only one, which is why the code may
peek at the second only after the first.

`CallsProofs` proves for `Calls`: `Balance` (`StackBalance`) and `InOrderAlways`
(`IInv`), for every program, every depth and all answers of C functions, from no
assumption. Balance alone is not inductive: where a returned value comes to rest
depends on what is in the slots below it. `IInv` says

* `Own`: a frame's own values are values. A returned value is handed down through
  continuations, so it cannot get below the place where the frame waits for it;
* `Waits`, for every frame but the last: between that place and the frame above there
  are continuations only. So it does not rest above that place either, except
* on a continuation that hands on without a look at what is below: `Alone` says there
  is no other continuation directly below such a one. (The code relies on it:
  `vm.c:494` does not look.)
* `InOrder`: the frames begin one above the other, so that leaving some of them keeps
  the rest as they were (`Kept`).

With these, a return comes down to two lemmas, `Lands` and `Again`, and `Returns` says
that `AfterFuncReturn` is always one of them. TLC checked `IInv` on `Calls` with stacks
of up to seven slots and four frames before. `KeepsProtocol` carries the result over to
the machine.

`MachineProofs` and `VmProofs` prove for `Vm`, for every program, every size of the stacks,
with collections at any place: `TypesHold` (`TypeOK`), `BalanceHolds` (`StackBalance`),
`NothingDangles` (`NoDangling`), `NothingEscapes` (`NoEscape`), `StacksFit` (`StackBounded`)
and `ProtocolKept` (`KeepsProtocol`, that `Vm` implements `Calls`). Assumed:

* `MachineAssumption`: a margin of at least two slots, and stacks that are larger (32 and
  1024 in the code). A step that begins below the margin may go beyond it: a continuation
  calls a function, which takes a frame and a slot, and a loop that it calls answers with
  a continuation once more. Two slots are enough for all of that (`Within`);
* `BuiltinsAssumption`: the builtins are those of builtins.c;
* `ProgramsVerified`: the code is as bytecode.h documents it (`Verified`). Every
  instruction finds what it takes, jumps stay in the body they are in, functions and
  modules have an end of their own. The machine checks nothing of this; TLC evaluates it
  on the bytecode that `Compiler` makes of every program of `MCVm`;
* `ProperUse`, of the behaviour: without it what `vm_assert` is about leaves a
  continuation on the stack for good;
* `Lucky`, of memory nobody has set: `kundeclared` and the files' namespace hold ids that
  are in use, as 0 is. Otherwise the marker of fs.c marks what is not there before the
  module is loaded.

None of the properties is inductive, nor are all of them together. What the machine does
next depends on values it has stored away, so `VmInv` says of the whole heap what may be
found in it:

* `Heap`: each value is `Well`. What a program can hold (`Plain`) is neither a
  continuation nor a RETURN value, and refers to plain values only; functions refer to
  namespaces and to entries in the code; a continuation holds what its callback will look
  for in its closure (`Closure`). Following parents comes to an end (`Acyclic`), though
  assignments can change any array or namespace;
* `Once`: a hidden value is in one slot, so that a callback, which writes to the
  continuation in place, changes nothing that anybody else sees;
* `Framed`: each frame goes on at an instruction of a body of its kind (program, module or
  function), so that RET finds a function's frame, and `$` an array;
* `Bare`: between steps a RETURN value on the stack is one that `guard` has just made. It
  refers to `none`, which is never collected: that is why `gc_mark` may do without a
  case for it;
* `Within`: how full the stacks are, and where continuations are on top of them;
* `PP!IInv`, the invariant of `Calls`, of the stacks as `Calls` sees them.

The proof follows the code. `Quietly` and `Later` say of a C function, a callback or a write
what it leaves as it was: types, hidden values, and the stack below. `CollectSame` says
that a collection keeps everything the machine can come to as it is, from the least
closed set that `Marked` is. Instructions that call nothing change the stack by their
`Effect` (`Straight`), and that is a `PushValue` or `DropValues` of `Calls`.
`AfterFuncReturn` calls itself: `Round` is one call of it, and the lemmas about each kind
of round (`ReturnRound`, `ContinuationRound`, `ValueRound`) say where the value that is
returned has got to, and that less is left to go through. `RoundsEnd` says of them all
that they come to an end, by the least round for which it would be wrong (`LeastOf`: the
library's induction takes an operator as a parameter, well-foundedness does not). TLC
checked `VmInv` on programs of `MCVm` before it was proved.

`GcProofs` proves for `Gc`: `TypeCorrect`, `SafeCollection` (`KeepsReachable`),
`CleanMarks` (`MarksCleared`), `CompleteCollection` (`FreesGarbage`) and
`LimitNeedsValues` (`LimitIsFar`). Assumed: at least one constant, naturals for the
sizes. `KeepsReachable` is not inductive: that a sweep frees only garbage depends on
what was marked, that on the calls of `gc_mark` left to make. `IInv` adds

* `NothingForgotten`: while marking, every root and everything a marked value refers
  to is marked or the subject of a call to come. With no call left the marked values
  are therefore closed, and `Reachable` is the least closed set (`Least`);
* `MarkedIsNameable`: nothing else is marked;
* `SweepIsExact`: while sweeping, what can be named is the constants, what has been
  swept and kept, and what is still marked;
* `ConstantsAreLeaves`: why marks may stay on constants;
* `NotSoDeep`: the depth of a call is at most twice the number of marked values.

TLC checked `IInv` on `MCGc` before it was proved. For the program's steps the
argument is that the new state has a closed set (`Nameable`, with the new id) all
of whose members are in use. Sweeping a value nobody can reach leaves `Reachable`
as it was (`FreeingKeepsReachable`).

## What is only checked, and what is not modelled

Model-checked only:

* `PrintsAsExpected`: what a program is to print is known of the programs of `MCVm` only,
  and that a program prints it depends on all it computes;
* `Compiler` and `Resolver`, which are recursive operators (`RECURSIVE`): TLAPS loses its
  main prover in every module that declares one. That the code they make is `Verified`
  is evaluated by TLC for every program of `MCVm`; the machine is proved for every code
  that is;
* `ProperUse` is a condition on programs that nothing in the code checks;
* `Lexer`: its functions from characters to tokens are recursive functions, and what
  they compute for every text takes induction over data, which is out of the prover's reach;
  the reader it takes its characters from is proved (`Reading`);
* `Namespace`, that tables of which keys are deleted that are in no other key's way
  implement `Scopes`;
* liveness (`Terminates`, `ReachesEnd`), which the prover cannot do.

Not modelled:

* memory as such: allocation failure, pointers that move, what is left in freed
  memory;
* floating point, operands of 2^28 and more, the byte 0xFF in a text (which the reader
  cannot tell from EOF);
* the spelling of printed values and of error messages, with the line and column
  they give;
* strings and the small-string storage of tokens: an append-only buffer;
* the loader and the options of the command line (`--step`, `--timeout`, bytecode
  files): input and output without state; trace: debug output, not in a normal build;
* the file system behind `open` and imports, beyond a map from paths to texts;
  `open`'s modes (fs.c:28 checks the type of the path a second time instead of the
  mode's);
* tests, fuzzing and benchmarks, which are where the programs of `MCVm` come from.

What a reader of the code may stumble over, and the models follow:

* `=` and `x=` set `prev_tok_is_expr` (lex.c:682): `x =(1)` is read as a call of `=`
  and does not parse.
* README.md:47 says "Semicolons are unnecessary"; but a line that begins with `(` after
  one that ends in an expression does not parse: the end of the line leaves
  `prev_tok_is_expr` set (lex.c:545-559), so that the `(` is read as a call's. With a
  semicolon in the place of the newline it is not.
* nothing sets `kundeclared` (vm.h:194, main.c:404), which lookups compare with
  (vm.c:741): a misspelt name is an error only if that memory happens to be 0, the id that
  vm.c:272 reserves. Otherwise its value is the id 0 itself.
* `len` of a namespace goes on counting a key that was deleted, until the table grows
  (namespace.c:44-59, builtins.c:316-318).
* an arrow joins a line to the one before, but not if that ends in a comment.
* the generator's table of modules is never filled: a file that is imported twice is
  compiled and run twice (README.md:153 lists it as to do). A file that imports itself
  ends at the parser's depth limit.
* `gil_print_bytecode` reads the bytes one after the other, the data of strings too.

## Plan

Done, in this order: the id pool and its bitmap with proofs; the machine with
builtins and compiler; the namespaces with proofs; the collector with proofs; the string
set with proofs; the reader with proofs and the lexer; bytes, generator and REPL, with
proofs that every program and session runs as it was meant; the fs module and imports; the
protocol of calls with proofs; proofs that the machine keeps it, and of everything else
that its run checks of it but the output.

What could follow: a REPL with values, that is what a failed line leaves on the stacks
and in `$$`. Of the proofs: that the generator's calls make code that is `Verified`,
which would join `SessionProofs` to `VmProofs`, and the lexer's queue.
