------------------------------ MODULE Generator ------------------------------
(***************************************************************************)
(* struct gil_generator (lib/gen/gen.c) with the writer it writes to        *)
(* (lib/io.c): a call of gil_gen_... appends an instruction to a buffer,    *)
(* which goes to memory when it is full.  A generator g is a record:        *)
(*   mem      the bytes the memory writer has been given                    *)
(*   buf      the first idx bytes of the writer's buffer                    *)
(*   pos      where the generator takes the next byte to go                 *)
(*   atoms    the names of atoms, the n-th one with the number n            *)
(*   strings  the string constants, with where their bytes are              *)
(*   relocs   the jumps whose length is to be filled in                     *)
(***************************************************************************)
EXTENDS Bytecode, SequencesExt

CONSTANT BufferSize     \* GIL_IO_BUFSIZ

ASSUME GeneratorAssumption == BufferSize \in Nat /\ BufferSize >= 5

-----------------------------------------------------------------------------
(* The writer. *)

Flush(g) == [g EXCEPT !.mem = @ \o g.buf, !.buf = <<>>]

\* Mutant: the buffer is taken to be one byte longer.
PutPastEnd(g, bytes) ==
  LET room == BufferSize + 1 - Len(g.buf)
      q == [g EXCEPT !.pos = @ + Len(bytes)]
  IN IF Len(bytes) <= room THEN [q EXCEPT !.buf = @ \o bytes]
     ELSE [q EXCEPT !.mem = @ \o g.buf \o SubSeq(bytes, 1, room),
                    !.buf = SubSeq(bytes, room + 1, Len(bytes))]

\* gil_bufio_put, one byte after the other: the buffer goes when the next byte
\* finds it full.  Not more bytes than the buffer holds.
Put(g, bytes) ==
  LET room == BufferSize - Len(g.buf)
      q == [g EXCEPT !.pos = @ + Len(bytes)]
  IN IF Len(bytes) <= room THEN [q EXCEPT !.buf = @ \o bytes]
     ELSE [q EXCEPT !.mem = @ \o g.buf \o SubSeq(bytes, 1, room),
                    !.buf = SubSeq(bytes, room + 1, Len(bytes))]

\* Mutant: the buffer is not written before what passes it by.
PutNAhead(g, bytes) ==
  LET q == [g EXCEPT !.pos = @ + Len(bytes)]
  IN IF Len(bytes) < BufferSize - Len(g.buf) THEN [q EXCEPT !.buf = @ \o bytes]
     ELSE [q EXCEPT !.mem = @ \o bytes]

\* gil_bufio_put_n: at once; what does not fit passes the buffer by.
PutN(g, bytes) ==
  LET q == [g EXCEPT !.pos = @ + Len(bytes)]
  IN IF Len(bytes) < BufferSize - Len(g.buf) THEN [q EXCEPT !.buf = @ \o bytes]
     ELSE [q EXCEPT !.mem = @ \o g.buf \o bytes, !.buf = <<>>]

-----------------------------------------------------------------------------
(* Instructions: an opcode, its operands, and bytes of fixed size. *)

CodeOf(op) ==
  IF op = "HALT" THEN HaltCode
  ELSE (CHOOSE n \in DOMAIN Opcodes : Opcodes[n] = op) - 1

Instruction(g, op) == Put(g, <<CodeOf(op)>>)
Instruction1(g, op, w) == PutN(Instruction(g, op), EncodeUint(w))
Instruction2(g, op, v, w) == PutN(Instruction1(g, op, v), EncodeUint(w))

\* gil_gen_number.
Number(g, bytes) == PutN(Instruction(g, "ALLOC_REAL"), bytes)

\* gil_gen_rjmp_placeholder.
Placeholder(g) == Put(g, <<CodeOf("RJMP_U4"), 0, 0, 0, 0>>)

\* gil_strset_put: a name that is new gets the next number.
Named(g, name) ==
  IF Contains(g.atoms, name) THEN g ELSE [g EXCEPT !.atoms = Append(@, name)]
Id(g, name) == CHOOSE n \in DOMAIN g.atoms : g.atoms[n] = name

\* gil_gen_string: a string that is new has its bytes put in the code, behind a
\* jump.
Known(g, string) == \E n \in DOMAIN g.strings : g.strings[n].string = string
Constant(g, string) ==
  g.strings[CHOOSE n \in DOMAIN g.strings : g.strings[n].string = string]

\* Mutant: its bytes are written but not counted.
StringDataUncounted(g, string) ==
  LET q == Instruction1(g, "RJMP", Len(string))
  IN [PutN(q, string) EXCEPT
        !.pos = q.pos,
        !.strings = Append(@, [string |-> string, pos |-> q.pos])]

StringData(g, string) ==
  LET q == Instruction1(g, "RJMP", Len(string))
  IN [PutN(q, string) EXCEPT
        !.strings = Append(@, [string |-> string, pos |-> q.pos])]

\* Mutant: the position of the jump and not of its length.
AddRelocAtJump(g, pos, replacement) ==
  [g EXCEPT !.relocs = Append(@, [pos |-> pos - 1, replacement |-> replacement])]

\* gil_gen_add_reloc.
AddReloc(g, pos, replacement) ==
  [g EXCEPT !.relocs = Append(@, [pos |-> pos, replacement |-> replacement])]

\* What main.c does when all has been written: the lengths are filled in, one
\* after the other.
Relocated(g, n) ==
  {k \in DOMAIN g.relocs : n \in g.relocs[k].pos + 1 .. g.relocs[k].pos + 4}

ByteAt(g, n) ==
  IF Relocated(g, n) = {} THEN g.mem[n]
  ELSE LET reloc == g.relocs[Max(Relocated(g, n))]
       IN FourBytes(reloc.replacement)[n - reloc.pos]

FixedUp(g) == [g EXCEPT !.mem = [n \in DOMAIN @ |-> ByteAt(g, n)]]

-----------------------------------------------------------------------------
(* The names that have numbers before a program is read: first those of     *)
(* bytecode.h, then the builtins', then each C module's own name and its    *)
(* functions'.                                                              *)

CONSTANTS BuiltinNames,     \* what builtins.c interns, in its order
          ModuleNames,      \* what the C modules intern, one module after the other
          CModules          \* which of those are the modules' own names

ASSUME NamesAssumption ==
  /\ BuiltinNames \in Seq(STRING) /\ ModuleNames \in Seq(STRING)
  /\ Contains(BuiltinNames, "print")
  /\ CModules \subseteq ToSet(ModuleNames)

\* A name is interned where it comes for the first time, and its number is how many
\* have been by then.
FirstTimes(names) ==
  {n \in DOMAIN names : \A k \in DOMAIN names : k < n => names[k] # names[n]}
NumberAt(names, n) == Cardinality({k \in FirstTimes(names) : k <= n})
Interned(names) ==
  [id \in 1 .. Cardinality(FirstTimes(names)) |->
     names[CHOOSE n \in FirstTimes(names) : NumberAt(names, n) = id]]

InitialNames == <<"true", "false", "stop">> \o BuiltinNames \o ModuleNames

\* gil_gen_init and gil_gen_register_module.
NewGenerator ==
  [mem |-> <<>>, buf |-> <<>>, pos |-> 0, atoms |-> Interned(InitialNames),
   strings |-> <<>>, relocs |-> <<>>]

\* gil_vm_init and gil_vm_register_module.
MachineAtoms == Interned(InitialNames)
=============================================================================
