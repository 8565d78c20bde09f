------------------------------- MODULE Bytecode -------------------------------
(***************************************************************************)
(* The bytes of a program (include/gilia/bytecode.h): how lib/gen/gen.c     *)
(* spells instructions and how lib/vm/vm.c and lib/vm/print.c read them.    *)
(* The byte at address a of a program is mem[a + 1].  A jump's or a         *)
(* number's bytes of fixed size are kept as they are.                       *)
(***************************************************************************)
EXTENDS Integers, Sequences

Byte == 0 .. 255

\* gil_word holds 32 bits, but encode_uint has room for four digits of base 128
\* (gen.c:25): an operand of five is left out.
Base2 == 16384          \* 128 * 128
Base3 == 2097152        \* 128 * 128 * 128
Operand == {w \in Nat : w < 268435456}

\* enum gil_opcode, from 0 on; HALT is 0xff.
Opcodes ==
  <<"NOP", "DISCARD", "DUP", "DUP_2", "SWAP_DISCARD", "FUNC_CALL",
    "FUNC_CALL_INFIX", "RJMP", "RJMP_U4", "STACK_FRAME_GET_ARGS",
    "STACK_FRAME_GET_ARG", "STACK_FRAME_LOOKUP", "STACK_FRAME_SET",
    "STACK_FRAME_REPLACE", "ASSERT", "NAMED_PARAM", "RET", "MOD_RET",
    "ALLOC_NONE", "ALLOC_ATOM", "ALLOC_REAL", "ALLOC_BUFFER_STATIC",
    "ALLOC_ARRAY", "ALLOC_NAMESPACE", "ALLOC_FUNCTION", "NAMESPACE_SET",
    "NAMESPACE_LOOKUP", "ARRAY_LOOKUP", "ARRAY_SET", "DYNAMIC_LOOKUP",
    "DYNAMIC_SET", "LOAD_CMODULE", "LOAD_MODULE">>

HaltCode == 255

\* How many operands of variable length follow, and how many bytes of fixed size.
Plain == {"NOP", "DISCARD", "DUP", "DUP_2", "SWAP_DISCARD", "FUNC_CALL_INFIX",
          "RJMP_U4", "STACK_FRAME_GET_ARGS", "ASSERT", "RET", "MOD_RET",
          "ALLOC_NONE", "ALLOC_REAL", "ALLOC_NAMESPACE", "DYNAMIC_LOOKUP",
          "DYNAMIC_SET", "HALT", "?"}
Words(op) == CASE op \in Plain -> 0
               [] op \in {"NAMED_PARAM", "ALLOC_BUFFER_STATIC"} -> 2
               [] OTHER -> 1
Fixed(op) == CASE op = "RJMP_U4" -> 4 [] op = "ALLOC_REAL" -> 8 [] OTHER -> 0

-----------------------------------------------------------------------------
(* Writing *)

\* encode_uint: the digits of base 128, the first one first, all but the last
\* one with the top bit set.
EncodeUint(w) ==
  CASE w < 128 -> <<w>>
    [] 128 <= w /\ w < Base2 -> <<128 + (w \div 128), w % 128>>
    [] Base2 <= w /\ w < Base3 ->
         <<128 + (w \div Base2), 128 + ((w \div 128) % 128), w % 128>>
    [] OTHER -> <<128 + (w \div Base3), 128 + ((w \div Base2) % 128),
                  128 + ((w \div 128) % 128), w % 128>>

\* gil_gen_fixup_reloc: the lowest byte first.
FourBytes(n) ==
  <<n % 256, (n \div 256) % 256, (n \div 65536) % 256, n \div 16777216>>

-----------------------------------------------------------------------------
(* Reading *)

\* The digits end with the first byte that has no top bit.
UintLength(mem, a) ==
  CASE mem[a + 1] < 128 -> 1
    [] mem[a + 1] >= 128 /\ mem[a + 2] < 128 -> 2
    [] mem[a + 1] >= 128 /\ mem[a + 2] >= 128 /\ mem[a + 3] < 128 -> 3
    [] OTHER -> 4

\* read_uint takes a digit, and shifts before the next one.
Shifted(word, digit) == (word + (digit % 128)) * 128

ReadUint(mem, a) ==
  LET n == UintLength(mem, a)
      w1 == IF n > 1 THEN Shifted(0, mem[a + 1]) ELSE 0
      w2 == IF n > 2 THEN Shifted(w1, mem[a + 2]) ELSE w1
      w3 == IF n > 3 THEN Shifted(w2, mem[a + 3]) ELSE w2
  IN w3 + mem[a + n]

\* read_u4le
ReadFour(mem, a) ==
  mem[a + 1] + mem[a + 2] * 256 + mem[a + 3] * 65536 + mem[a + 4] * 16777216

\* What the machine and the printer take for the instruction at a: its name,
\* its operands and its bytes of fixed size, and the address after it.
Opcode(mem, a) ==
  CASE mem[a + 1] = HaltCode -> "HALT"
    [] mem[a + 1] < Len(Opcodes) -> Opcodes[mem[a + 1] + 1]
    [] OTHER -> "?"

Decode(mem, a) ==
  LET op == Opcode(mem, a)
      first == a + 1
      second == first + UintLength(mem, first)
  IN CASE Words(op) = 0 ->
            [op |-> op, words |-> <<>>, next |-> first + Fixed(op),
             bytes |-> SubSeq(mem, first + 1, first + Fixed(op))]
       [] Words(op) = 1 ->
            [op |-> op, words |-> <<ReadUint(mem, first)>>, next |-> second,
             bytes |-> <<>>]
       [] OTHER ->
            [op |-> op, words |-> <<ReadUint(mem, first), ReadUint(mem, second)>>,
             next |-> second + UintLength(mem, second), bytes |-> <<>>]
=============================================================================
