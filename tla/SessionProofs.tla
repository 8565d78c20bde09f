---------------------------- MODULE SessionProofs ----------------------------
(***************************************************************************)
(* A session, for every buffer size, program and line that is entered: the  *)
(* generator's position is the address of the byte it writes next, string   *)
(* constants stay where it remembers them, and the machine runs what was    *)
(* meant.  Two invariants are followed through the actions in turn:         *)
(* SessionInv, of the output, and then CodeInv, of the code: which bytes    *)
(* make an instruction, what it means and where the machine can go from it. *)
(* Before that, what the functions of the generator write: the operands     *)
(* that the machine and the printer read back, the instructions they take   *)
(* them for, and what is kept of all that was written before.  After it,    *)
(* the reader of lib/io.c, through which every line is read: for every      *)
(* text, every size of the buffer, every order of peeks and gets, and every *)
(* way the reads cut the text into pieces.                                  *)
(***************************************************************************)
EXTENDS Session, Reading, SequenceTheorems, FiniteSetTheorems, WellFoundedInduction, TLAPS

-----------------------------------------------------------------------------
(* Sequences, of whatever elements. *)

IsSeq(s) == \E S : s \in Seq(S)

LEMMA Domains ==
  ASSUME NEW s, IsSeq(s)
  PROVE  Len(s) \in Nat /\ DOMAIN s = 1 .. Len(s)
BY LenProperties DEF IsSeq

LEMMA Pairs ==
  ASSUME NEW x
  PROVE  IsSeq(<<x>>) /\ Len(<<x>>) = 1
<1>1. <<x>> \in Seq({x})  OBVIOUS
<1> QED  BY <1>1 DEF IsSeq

LEMMA Wider ==
  ASSUME NEW S, NEW T, NEW s \in Seq(S)
  PROVE  s \in Seq(S \cup T)
<1>1. Len(s) \in Nat /\ s \in [1 .. Len(s) -> S]  BY LenProperties
<1>2. s \in [1 .. Len(s) -> S \cup T]  BY <1>1
<1> QED  BY <1>1, <1>2

\* Two sequences in a row, element by element.
LEMMA Joins ==
  ASSUME NEW s, NEW t, IsSeq(s), IsSeq(t)
  PROVE  /\ IsSeq(s \o t) /\ Len(s \o t) = Len(s) + Len(t)
         /\ \A k \in 1 .. Len(s) : (s \o t)[k] = s[k]
         /\ \A k \in 1 .. Len(t) : (s \o t)[Len(s) + k] = t[k]
<1>1. PICK S, T : s \in Seq(S) /\ t \in Seq(T)  BY DEF IsSeq
<1>2. s \in Seq(S \cup T) /\ t \in Seq(S \cup T)
  <2>1. s \in Seq(S \cup T)  BY <1>1, Wider
  <2>2. t \in Seq(T \cup S)  BY <1>1, Wider
  <2>3. T \cup S = S \cup T  OBVIOUS
  <2> QED  BY <2>1, <2>2, <2>3
<1>3. s \o t \in Seq(S \cup T)  BY <1>2
<1>4. Len(s) \in Nat /\ Len(t) \in Nat  BY <1>1, LenProperties
<1>5. Len(s \o t) = Len(s) + Len(t)  BY <1>2
<1>6. \A k \in 1 .. Len(s) : (s \o t)[k] = s[k]  BY <1>2, <1>4
<1>7. \A k \in 1 .. Len(t) : (s \o t)[Len(s) + k] = t[k]  BY <1>2, <1>4
<1> QED  BY <1>3, <1>5, <1>6, <1>7 DEF IsSeq

\* The n elements after the i-th.
IsPart(s, i, n) == IsSeq(s) /\ i \in Nat /\ n \in Nat /\ i + n <= Len(s)

LEMMA Parts ==
  ASSUME NEW s, NEW i, NEW n, IsPart(s, i, n)
  PROVE  /\ IsSeq(SubSeq(s, i + 1, i + n)) /\ Len(SubSeq(s, i + 1, i + n)) = n
         /\ \A k \in 1 .. n : SubSeq(s, i + 1, i + n)[k] = s[i + k]
<1>0. IsSeq(s) /\ i \in Nat /\ n \in Nat /\ i + n <= Len(s)  BY DEF IsPart
<1>1. PICK S : s \in Seq(S)  BY <1>0 DEF IsSeq
<1>2. Len(s) \in Nat  BY <1>0, <1>1, LenProperties
<1>3. CASE n = 0
  <2>1. SubSeq(s, i + 1, i + n) = <<>>  BY <1>0, <1>1, <1>2, <1>3
  <2>2. <<>> \in Seq(S)  OBVIOUS
  <2> QED  BY <1>0, <1>3, <2>1, <2>2 DEF IsSeq
<1>4. CASE n > 0
  <2>1. i + 1 \in 1 .. Len(s) /\ i + n \in i + 1 .. Len(s)  BY <1>0, <1>2, <1>4
  <2>2. SubSeq(s, i + 1, i + n) \in Seq(S)  BY <1>0, <1>1, <1>2, <2>1
  <2>3. Len(SubSeq(s, i + 1, i + n)) = n  BY <1>0, <1>1, <1>2, <1>4, <2>1
  <2>4. \A k \in 1 .. n : SubSeq(s, i + 1, i + n)[k] = s[i + k]
    BY <1>0, <1>1, <1>2, <1>4, <2>1
  <2> QED  BY <2>2, <2>3, <2>4 DEF IsSeq
<1> QED  BY <1>0, <1>3, <1>4

\* A sequence is the part of another one when its elements are.
LEMMA SamePart ==
  ASSUME NEW s, IsSeq(s), NEW t, IsSeq(t), NEW i \in Nat, i + Len(t) <= Len(s),
         \A k \in 1 .. Len(t) : s[i + k] = t[k]
  PROVE  SubSeq(s, i + 1, i + Len(t)) = t
<1>1. Len(t) \in Nat  BY Domains
<1> DEFINE p == SubSeq(s, i + 1, i + Len(t))
<1>2. IsSeq(p) /\ Len(p) = Len(t) /\ \A k \in 1 .. Len(t) : p[k] = s[i + k]
  <2>1. IsPart(s, i, Len(t))  BY <1>1 DEF IsPart
  <2> QED  BY <2>1, Parts
<1> HIDE DEF p
<1>3. PICK S, T : p \in Seq(S) /\ t \in Seq(T)  BY <1>2 DEF IsSeq
<1>4. p \in Seq(S \cup T)  BY <1>3, Wider
<1>5. t \in Seq(S \cup T)
  <2>1. t \in Seq(T \cup S)  BY <1>3, Wider
  <2>2. T \cup S = S \cup T  OBVIOUS
  <2> QED  BY <2>1, <2>2
<1>6. p = t  BY <1>2, <1>4, <1>5, SeqEqual
<1> QED  BY <1>6 DEF p

\* One more element.
LEMMA Appends ==
  ASSUME NEW s, NEW x, IsSeq(s)
  PROVE  /\ IsSeq(Append(s, x)) /\ Len(Append(s, x)) = Len(s) + 1
         /\ \A k \in 1 .. Len(s) : Append(s, x)[k] = s[k]
         /\ Append(s, x)[Len(s) + 1] = x
<1>1. PICK S : s \in Seq(S)  BY DEF IsSeq
<1>2. s \in Seq(S \cup {x}) /\ Len(s) \in Nat  BY <1>1, Wider, LenProperties
<1>3. Append(s, x) \in Seq(S \cup {x}) /\ Len(Append(s, x)) = Len(s) + 1
  BY <1>2
<1>4. \A k \in 1 .. Len(s) : Append(s, x)[k] = s[k]  BY <1>2
<1>5. Append(s, x)[Len(s) + 1] = x  BY <1>2
<1> QED  BY <1>3, <1>4, <1>5 DEF IsSeq

\* Rows of three, however they are bracketed.
Three(s, t, u) == IsSeq(s) /\ IsSeq(t) /\ IsSeq(u)

LEMMA Brackets ==
  ASSUME NEW s, NEW t, NEW u, Three(s, t, u)
  PROVE  (s \o t) \o u = s \o (t \o u)
<1>1. PICK S, T, U : s \in Seq(S) /\ t \in Seq(T) /\ u \in Seq(U)
  BY DEF IsSeq, Three
<1> DEFINE A == (S \cup T) \cup U
<1>2. s \in Seq(A)  BY <1>1, Wider
<1>3. t \in Seq(A)
  <2>1. t \in Seq(T \cup (S \cup U))  BY <1>1, Wider
  <2>2. T \cup (S \cup U) = A  OBVIOUS
  <2> QED  BY <2>1, <2>2
<1>4. u \in Seq(A)
  <2>1. u \in Seq(U \cup (S \cup T))  BY <1>1, Wider
  <2>2. U \cup (S \cup T) = A  OBVIOUS
  <2> QED  BY <2>1, <2>2
<1> HIDE DEF A
<1> QED  BY <1>2, <1>3, <1>4, ConcatAssociative

\* Lengths that fit, and lengths that do not.
LEMMA Sums ==
  ASSUME NEW l \in Nat, NEW m \in Nat, NEW n \in Nat
  PROVE  l + m \in Nat /\ (l + m) + n = l + (m + n) /\ l + 0 = l
OBVIOUS

LEMMA Fits ==
  ASSUME NEW l \in Nat, NEW n \in Nat, NEW size \in Nat, n < size - l
  PROVE  l + n <= size
OBVIOUS

-----------------------------------------------------------------------------
(* Operands: what is written is what the machine and the printer read. *)

\* Every digit is less than 128.
Digit == {d \in Nat : d < 128}

\* The digits of a word: each one is less than 128, and together they are the word.
LEMMA TwoDigits ==
  ASSUME NEW w \in Nat
  PROVE  /\ w \div 128 \in Nat /\ w % 128 \in Digit
         /\ w = (w \div 128) * 128 + (w % 128)
BY SMT DEF Digit

LEMMA ThreeDigits ==
  ASSUME NEW w \in Nat
  PROVE  /\ w \div 16384 \in Nat
         /\ w \div 128 = (w \div 16384) * 128 + ((w \div 128) % 128)
BY SMT

LEMMA FourDigits ==
  ASSUME NEW w \in Nat
  PROVE  /\ w \div 2097152 \in Nat
         /\ w \div 16384 = (w \div 2097152) * 128 + ((w \div 16384) % 128)
BY SMT

\* The digits that are written for an operand of each size.
LEMMA OneByte ==
  ASSUME NEW w \in Nat, w < 128
  PROVE  EncodeUint(w) = <<w>>
BY SMT DEF EncodeUint, Base2, Base3

LEMMA TwoBytes ==
  ASSUME NEW w \in Nat, 128 <= w, w < Base2
  PROVE  \E d \in Digit \ {0}, e \in Digit :
           w = d * 128 + e /\ EncodeUint(w) = <<128 + d, e>>
<1> DEFINE d == w \div 128
           e == w % 128
<1>1. EncodeUint(w) = <<128 + d, e>>
  BY SMT DEF EncodeUint, Base2, Base3
<1>2. d \in Digit \ {0} /\ e \in Digit
  BY SMT DEF Base2, Digit
<1>3. w = d * 128 + e
  BY TwoDigits, SMT
<1> QED
  BY <1>1, <1>2, <1>3, SMT

LEMMA ThreeBytes ==
  ASSUME NEW w \in Nat, Base2 <= w, w < Base3
  PROVE  \E d \in Digit \ {0}, e \in Digit, f \in Digit :
           w = (d * 128 + e) * 128 + f /\ EncodeUint(w) = <<128 + d, 128 + e, f>>
<1> DEFINE d == w \div 16384
           e == (w \div 128) % 128
           f == w % 128
<1>1. EncodeUint(w) = <<128 + d, 128 + e, f>>
  BY SMT DEF EncodeUint, Base2, Base3
<1>2. d \in Digit \ {0}
  BY SMT DEF Digit, Base2, Base3
<1>3. e \in Digit /\ f \in Digit
  BY SMT DEF Digit
<1>4. w = (d * 128 + e) * 128 + f
  BY TwoDigits, ThreeDigits, SMT
<1> QED
  BY <1>1, <1>2, <1>3, <1>4, SMT

LEMMA FourBytesOfUint ==
  ASSUME NEW w \in Nat, Base3 <= w, w < 268435456
  PROVE  \E d \in Digit \ {0}, e \in Digit, f \in Digit, g \in Digit :
           /\ w = ((d * 128 + e) * 128 + f) * 128 + g
           /\ EncodeUint(w) = <<128 + d, 128 + e, 128 + f, g>>
<1> DEFINE d == w \div 2097152
           e == (w \div 16384) % 128
           f == (w \div 128) % 128
           g == w % 128
<1>1. EncodeUint(w) = <<128 + d, 128 + e, 128 + f, g>>
  BY SMT DEF EncodeUint, Base2, Base3
<1>2. d \in Digit \ {0}
  BY SMT DEF Digit, Base3
<1>3. e \in Digit /\ f \in Digit /\ g \in Digit
  BY SMT DEF Digit
<1>4. w = ((d * 128 + e) * 128 + f) * 128 + g
  BY TwoDigits, ThreeDigits, FourDigits, SMT
<1> QED
  BY <1>1, <1>2, <1>3, <1>4, SMT

\* The bytes are in memory from the address a on.
Written(mem, a, bytes) == \A k \in 1 .. Len(bytes) : mem[a + k] = bytes[k]

LEMMA WrittenOne ==
  ASSUME NEW mem, NEW a \in Nat, NEW x, Written(mem, a, <<x>>)
  PROVE  mem[a + 1] = x
BY SMT DEF Written

LEMMA WrittenTwo ==
  ASSUME NEW mem, NEW a \in Nat, NEW x, NEW y, Written(mem, a, <<x, y>>)
  PROVE  mem[a + 1] = x /\ mem[a + 2] = y
BY SMT DEF Written

LEMMA WrittenThree ==
  ASSUME NEW mem, NEW a \in Nat, NEW x, NEW y, NEW z, Written(mem, a, <<x, y, z>>)
  PROVE  mem[a + 1] = x /\ mem[a + 2] = y /\ mem[a + 3] = z
BY SMT DEF Written

LEMMA WrittenFour ==
  ASSUME NEW mem, NEW a \in Nat, NEW x, NEW y, NEW z, NEW t,
         Written(mem, a, <<x, y, z, t>>)
  PROVE  mem[a + 1] = x /\ mem[a + 2] = y /\ mem[a + 3] = z /\ mem[a + 4] = t
BY SMT DEF Written

\* An operand of every size is read back from where it was written, with no byte
\* too many (gen.c:24-41, vm.c:584-593).
THEOREM UintReadsBack ==
  ASSUME NEW w \in Operand, NEW mem, NEW a \in Nat, Written(mem, a, EncodeUint(w))
  PROVE  /\ UintLength(mem, a) = Len(EncodeUint(w))
         /\ ReadUint(mem, a) = w
<1>0. w \in Nat /\ w < 268435456
  BY SMT DEF Operand
<1>1. CASE w < 128
  <2>1. EncodeUint(w) = <<w>>
    BY <1>0, <1>1, OneByte, SMT
  <2>2. mem[a + 1] = w
    BY <2>1, WrittenOne, Zenon
  <2>3. UintLength(mem, a) = 1
    BY <1>0, <1>1, <2>2, SMT DEF UintLength
  <2>4. ReadUint(mem, a) = 0 + mem[a + 1]
    BY <2>3, SMT DEF ReadUint, Digit
  <2> QED
    BY <1>0, <2>1, <2>2, <2>3, <2>4, SMT
<1>2. CASE 128 <= w /\ w < Base2
  <2>1. PICK d \in Digit \ {0}, e \in Digit :
          w = d * 128 + e /\ EncodeUint(w) = <<128 + d, e>>
    BY <1>0, <1>2, TwoBytes, SMT
  <2>2. mem[a + 1] = 128 + d /\ mem[a + 2] = e
    <3>1. Written(mem, a, <<128 + d, e>>)
      BY <2>1
    <3> QED
      BY <3>1, WrittenTwo
  <2>3. UintLength(mem, a) = 2
    BY <2>1, <2>2, SMT DEF UintLength, Digit
  <2>4. Shifted(0, mem[a + 1]) = d * 128
    BY <2>1, <2>2, SMT DEF Shifted, Digit
  <2>5. ReadUint(mem, a) = d * 128 + e
    BY <2>2, <2>3, <2>4, SMT DEF ReadUint, Digit
  <2> QED
    BY <2>1, <2>3, <2>5, SMT
<1>3. CASE Base2 <= w /\ w < Base3
  <2>1. PICK d \in Digit \ {0}, e \in Digit, f \in Digit :
          w = (d * 128 + e) * 128 + f /\ EncodeUint(w) = <<128 + d, 128 + e, f>>
    BY <1>0, <1>3, ThreeBytes, SMT
  <2>2. mem[a + 1] = 128 + d /\ mem[a + 2] = 128 + e /\ mem[a + 3] = f
    <3>1. Written(mem, a, <<128 + d, 128 + e, f>>)
      BY <2>1
    <3> QED
      BY <3>1, WrittenThree
  <2>3. UintLength(mem, a) = 3
    BY <2>1, <2>2, SMT DEF UintLength, Digit
  <2>4. /\ Shifted(0, mem[a + 1]) = d * 128
        /\ Shifted(d * 128, mem[a + 2]) = (d * 128 + e) * 128
    BY <2>1, <2>2, SMT DEF Shifted, Digit
  <2>5. ReadUint(mem, a) = (d * 128 + e) * 128 + f
    BY <2>2, <2>3, <2>4, SMT DEF ReadUint, Digit
  <2> QED
    BY <2>1, <2>3, <2>5, SMT
<1>4. CASE Base3 <= w
  <2>1. PICK d \in Digit \ {0}, e \in Digit, f \in Digit, g \in Digit :
          /\ w = ((d * 128 + e) * 128 + f) * 128 + g
          /\ EncodeUint(w) = <<128 + d, 128 + e, 128 + f, g>>
    BY <1>0, <1>4, FourBytesOfUint, SMT
  <2>2. /\ mem[a + 1] = 128 + d /\ mem[a + 2] = 128 + e
        /\ mem[a + 3] = 128 + f /\ mem[a + 4] = g
    <3>1. Written(mem, a, <<128 + d, 128 + e, 128 + f, g>>)
      BY <2>1
    <3> QED
      BY <3>1, WrittenFour
  <2>3. UintLength(mem, a) = 4
    BY <2>1, <2>2, SMT DEF UintLength, Digit
  <2>4. /\ Shifted(0, mem[a + 1]) = d * 128
        /\ Shifted(d * 128, mem[a + 2]) = (d * 128 + e) * 128
        /\ Shifted((d * 128 + e) * 128, mem[a + 3]) = ((d * 128 + e) * 128 + f) * 128
    BY <2>1, <2>2, SMT DEF Shifted, Digit
  <2>5. ReadUint(mem, a) = ((d * 128 + e) * 128 + f) * 128 + g
    BY <2>2, <2>3, <2>4, SMT DEF ReadUint, Digit
  <2> QED
    BY <2>1, <2>3, <2>5, SMT
<1> QED
  BY <1>0, <1>1, <1>2, <1>3, <1>4, SMT DEF Base2, Base3

LEMMA DigitsOf256 ==
  ASSUME NEW n \in Nat
  PROVE  /\ n % 256 \in Nat /\ (n \div 256) % 256 \in Nat
         /\ (n \div 65536) % 256 \in Nat /\ n \div 16777216 \in Nat
         /\ n = (n \div 256) * 256 + (n % 256)
         /\ n \div 256 = (n \div 65536) * 256 + ((n \div 256) % 256)
         /\ n \div 65536 = (n \div 16777216) * 256 + ((n \div 65536) % 256)
BY SMT

\* The length of a jump that is filled in is the length the machine jumps by
\* (gen.c:136-141, vm.c:595-605).
THEOREM FourReadsBack ==
  ASSUME NEW n \in Nat, NEW mem, NEW a \in Nat, Written(mem, a, FourBytes(n))
  PROVE  ReadFour(mem, a) = n
<1> DEFINE d == n % 256
           e == (n \div 256) % 256
           f == (n \div 65536) % 256
           g == n \div 16777216
<1>1. d \in Nat /\ e \in Nat /\ f \in Nat /\ g \in Nat
  BY DigitsOf256, SMT
<1>2. n = d + e * 256 + f * 65536 + g * 16777216
  BY DigitsOf256, SMT
<1>3. Written(mem, a, <<d, e, f, g>>)
  BY SMT DEF FourBytes
<1> HIDE DEF d, e, f, g
<1>4. mem[a + 1] = d /\ mem[a + 2] = e /\ mem[a + 3] = f /\ mem[a + 4] = g
  BY <1>3, WrittenFour
<1> QED
  BY <1>1, <1>2, <1>4, SMT DEF ReadFour

-----------------------------------------------------------------------------
(* Generators, and what they have written. *)

Out(g) == g.mem \o g.buf

Fields == {"mem", "buf", "pos", "atoms", "strings", "relocs"}

\* The position is the address of the byte to be written next.
IsWriter(g) ==
  /\ g = [f \in Fields |-> g[f]]
  /\ IsSeq(g.mem) /\ IsSeq(g.buf)
  /\ g.pos = Len(g.mem) + Len(g.buf)

Buffers(g) == Len(g.buf) <= BufferSize

\* The bytes s are those g has written, and then the new ones.
Continues(s, g, bytes) ==
  /\ \A k \in 1 .. g.pos : s[k] = Out(g)[k]
  /\ \A k \in 1 .. Len(bytes) : s[g.pos + k] = bytes[k]

\* What writing leaves alone.
SameRest(g, q) == q.strings = g.strings /\ q.relocs = g.relocs

\* g became q by writing bytes.
Wrote(g, q, bytes) ==
  /\ IsWriter(q)
  /\ q.pos = g.pos + Len(bytes)
  /\ Out(q) = Out(g) \o bytes
  /\ SameRest(g, q) /\ q.atoms = g.atoms

\* g became q by writing something.
Extends(g, q) ==
  /\ IsWriter(q)
  /\ q.pos >= g.pos
  /\ \A k \in 1 .. g.pos : Out(q)[k] = Out(g)[k]
  /\ SameRest(g, q)

LEMMA Positions ==
  ASSUME NEW g, IsWriter(g)
  PROVE  /\ g.pos \in Nat /\ IsSeq(Out(g)) /\ Len(Out(g)) = g.pos
         /\ Len(g.mem) \in Nat /\ Len(g.buf) \in Nat
         /\ g.pos = Len(g.mem) + Len(g.buf)
<1>1. IsSeq(g.mem) /\ IsSeq(g.buf) /\ g.pos = Len(g.mem) + Len(g.buf)
  BY Zenon DEF IsWriter
<1>2. Len(g.mem) \in Nat /\ Len(g.buf) \in Nat  BY <1>1, Domains, Zenon
<1>3. IsSeq(g.mem \o g.buf) /\ Len(g.mem \o g.buf) = Len(g.mem) + Len(g.buf)
  BY <1>1, Joins, ZenonT(60)
<1>4. Out(g) = g.mem \o g.buf  BY DEF Out
<1>5. IsSeq(Out(g)) /\ Len(Out(g)) = g.pos  BY <1>1, <1>3, <1>4, Zenon
<1>6. g.pos \in Nat
  <2>1. PICK m \in Nat : m = Len(g.mem)  BY <1>2, Zenon
  <2>2. PICK n \in Nat : n = Len(g.buf)  BY <1>2, Zenon
  <2>3. m + n \in Nat  OBVIOUS
  <2> QED  BY <1>1, <2>1, <2>2, <2>3, Zenon
<1> QED  BY <1>1, <1>2, <1>5, <1>6, Zenon

\* Bytes behind those g has written, element by element.
LEMMA OutThen ==
  ASSUME NEW g, IsWriter(g), NEW bytes, IsSeq(bytes)
  PROVE  /\ IsSeq(Out(g) \o bytes)
         /\ Len(Out(g) \o bytes) = g.pos + Len(bytes)
         /\ Continues(Out(g) \o bytes, g, bytes)
<1>1. IsSeq(Out(g)) /\ Len(Out(g)) = g.pos  BY Positions, Zenon
<1>2. \A k \in 1 .. Len(Out(g)) : (Out(g) \o bytes)[k] = Out(g)[k]
  BY <1>1, Joins, Zenon
<1>3. \A k \in 1 .. Len(bytes) : (Out(g) \o bytes)[Len(Out(g)) + k] = bytes[k]
  BY <1>1, Joins
<1>4. IsSeq(Out(g) \o bytes) /\ Len(Out(g) \o bytes) = Len(Out(g)) + Len(bytes)
  BY <1>1, Joins, Zenon
<1>5. Continues(Out(g) \o bytes, g, bytes)
  BY <1>1, <1>2, <1>3, Zenon DEF Continues
<1> QED  BY <1>1, <1>4, <1>5, Zenon

LEMMA WroteContinues ==
  ASSUME NEW g, NEW q, NEW bytes, IsWriter(g), IsSeq(bytes), Wrote(g, q, bytes)
  PROVE  Continues(Out(q), g, bytes) /\ Extends(g, q)
<1>1. g.pos \in Nat /\ Len(bytes) \in Nat  BY Positions, Domains, Zenon
<1>2. Continues(Out(q), g, bytes)  BY OutThen, Zenon DEF Wrote
<1>3. IsWriter(q) /\ SameRest(g, q) /\ q.pos = g.pos + Len(bytes)
  BY Zenon DEF Wrote
<1>4. q.pos >= g.pos  BY <1>1, <1>3
<1>5. Extends(g, q)  BY <1>2, <1>3, <1>4, Zenon DEF Extends, Continues
<1> QED  BY <1>2, <1>5

LEMMA ExtendsTwice ==
  ASSUME NEW g, NEW q, NEW r, IsWriter(g), Extends(g, q), Extends(q, r)
  PROVE  Extends(g, r)
<1>1. g.pos \in Nat /\ q.pos \in Nat /\ r.pos \in Nat
  BY Positions DEF Extends
<1>2. \A k \in 1 .. g.pos : k \in 1 .. q.pos  BY <1>1 DEF Extends
<1>3. \A k \in 1 .. g.pos : Out(r)[k] = Out(g)[k]  BY <1>2 DEF Extends
<1>4. r.pos >= g.pos  BY <1>1 DEF Extends
<1> QED  BY <1>3, <1>4 DEF Extends, SameRest

LEMMA ExtendsSame ==
  ASSUME NEW g, IsWriter(g)
  PROVE  Extends(g, g)
<1>1. g.pos \in Nat  BY Positions
<1> QED  BY <1>1 DEF Extends, SameRest

\* Bytes go to the buffer, and some of it to memory.
Became(g, bytes, m, b) ==
  [g EXCEPT !.pos = g.pos + Len(bytes), !.mem = m, !.buf = b]

Split(g, bytes, m, b) ==
  /\ IsWriter(g) /\ IsSeq(bytes) /\ IsSeq(m) /\ IsSeq(b)
  /\ m \o b = Out(g) \o bytes

LEMMA Behind ==
  ASSUME NEW g, NEW bytes, NEW m, NEW b, Split(g, bytes, m, b)
  PROVE  /\ Wrote(g, Became(g, bytes, m, b), bytes)
         /\ Became(g, bytes, m, b).buf = b /\ Became(g, bytes, m, b).mem = m
<1> DEFINE q == Became(g, bytes, m, b)
<1>0. /\ IsWriter(g) /\ IsSeq(bytes) /\ IsSeq(m) /\ IsSeq(b)
      /\ m \o b = Out(g) \o bytes
  BY DEF Split
<1>1. g = [f \in Fields |-> g[f]]  BY <1>0 DEF IsWriter
<1>2. q = [f \in Fields |-> q[f]]  BY <1>1 DEF Fields, Became
<1>3. q.mem = m /\ q.buf = b /\ q.pos = g.pos + Len(bytes)
      /\ q.strings = g.strings /\ q.relocs = g.relocs /\ q.atoms = g.atoms
  BY <1>1 DEF Fields, Became
<1> HIDE DEF q
<1>4. Out(q) = Out(g) \o bytes  BY <1>0, <1>3, Zenon DEF Out
<1>5. Len(m) + Len(b) = g.pos + Len(bytes)
  <2>1. Len(m \o b) = Len(m) + Len(b)  BY <1>0, Joins, Zenon
  <2>2. Len(Out(g) \o bytes) = g.pos + Len(bytes)  BY <1>0, OutThen, Zenon
  <2> QED  BY <1>0, <2>1, <2>2, Zenon
<1>6. IsWriter(q)  BY <1>0, <1>2, <1>3, <1>5, Zenon DEF IsWriter
<1>7. SameRest(g, q)  BY <1>3, Zenon DEF SameRest
<1>8. Wrote(g, q, bytes)  BY <1>3, <1>4, <1>6, <1>7, Zenon DEF Wrote
<1> QED  BY <1>3, <1>8, Zenon DEF q

\* Nothing is a sequence, and adds nothing.
LEMMA Nothing ==
  /\ IsSeq(<<>>) /\ Len(<<>>) = 0
  /\ \A s : IsSeq(s) => s \o <<>> = s
<1>1. IsSeq(<<>>) /\ Len(<<>>) = 0  BY EmptySeq DEF IsSeq
<1>2. ASSUME NEW s, IsSeq(s)  PROVE s \o <<>> = s
  <2>1. PICK S : s \in Seq(S)  BY <1>2 DEF IsSeq
  <2> QED  BY <2>1, ConcatEmptySeq
<1> QED  BY <1>1, <1>2

LEMMA FlushWrites ==
  ASSUME NEW g, IsWriter(g)
  PROVE  /\ Wrote(g, Flush(g), <<>>) /\ Flush(g).buf = <<>>
         /\ Flush(g).mem = Out(g) /\ Flush(g).pos = g.pos /\ Out(Flush(g)) = Out(g)
<1>1. IsSeq(Out(g)) /\ g.pos \in Nat  BY Positions, Zenon
<1>2. Out(g) \o <<>> = Out(g) /\ IsSeq(<<>>) /\ Len(<<>>) = 0  BY <1>1, Nothing, Zenon
<1>3. g = [f \in Fields |-> g[f]]  BY DEF IsWriter
<1> DEFINE q == Became(g, <<>>, Out(g), <<>>)
<1>4. Wrote(g, q, <<>>) /\ q.buf = <<>> /\ q.mem = Out(g)
  <2>1. Split(g, <<>>, Out(g), <<>>)  BY <1>1, <1>2, Zenon DEF Split
  <2> QED  BY <2>1, Behind
<1>5. Flush(g) = q
  <2>1. g.pos + Len(<<>>) = g.pos  BY <1>1, <1>2
  <2>2. [g EXCEPT !.mem = Out(g), !.buf = <<>>]
          = [g EXCEPT !.pos = g.pos, !.mem = Out(g), !.buf = <<>>]
    BY <1>3 DEF Fields
  <2> QED  BY <2>1, <2>2, Zenon DEF Flush, Out, Became
<1>6. q.pos = g.pos /\ Out(q) = Out(g)
  <2>1. q.pos = g.pos + Len(<<>>) /\ Out(q) = Out(g) \o <<>>
    BY <1>4, Zenon DEF Wrote
  <2> QED  BY <1>1, <1>2, <2>1
<1> QED  BY <1>4, <1>5, <1>6, Zenon

\* gil_bufio_put_n.
LEMMA PutNWrites ==
  ASSUME NEW g, IsWriter(g), Buffers(g), NEW bytes, IsSeq(bytes)
  PROVE  Wrote(g, PutN(g, bytes), bytes) /\ Buffers(PutN(g, bytes))
<1>1. PICK mem, buf, pos : mem = g.mem /\ buf = g.buf /\ pos = g.pos  OBVIOUS
<1>2. g = [f \in Fields |-> g[f]]  BY DEF IsWriter
<1>3. /\ IsSeq(mem) /\ IsSeq(buf) /\ Out(g) = mem \o buf
      /\ Len(mem) \in Nat /\ Len(buf) \in Nat /\ Len(bytes) \in Nat
      /\ Len(buf) <= BufferSize /\ BufferSize \in Nat
  BY <1>1, Positions, Domains, GeneratorAssumption DEF IsWriter, Buffers, Out
<1>4. CASE Len(bytes) < BufferSize - Len(buf)
  <2>1. PICK b : b = buf \o bytes  OBVIOUS
  <2>2. IsSeq(b) /\ Len(b) = Len(buf) + Len(bytes)  BY <1>3, <2>1, Joins
  <2>3. mem \o b = Out(g) \o bytes
    <3>1. Three(mem, buf, bytes)  BY <1>3 DEF Three
    <3>2. (mem \o buf) \o bytes = mem \o (buf \o bytes)  BY <3>1, Brackets, SMTT(30)
    <3> QED  BY <1>3, <2>1, <3>2, Zenon
  <2>4. PutN(g, bytes) = Became(g, bytes, mem, b)
    BY <1>1, <1>2, <1>4, <2>1 DEF PutN, Fields, Became
  <2>5. Split(g, bytes, mem, b)  BY <1>3, <2>2, <2>3 DEF Split
  <2>6. Len(b) <= BufferSize  BY <1>3, <1>4, <2>2, Fits, Zenon
  <2> QED  BY <2>4, <2>5, <2>6, Behind DEF Buffers
<1>5. CASE ~(Len(bytes) < BufferSize - Len(buf))
  <2>1. PICK m : m = Out(g) \o bytes  OBVIOUS
  <2>2. IsSeq(m) /\ IsSeq(<<>>) /\ m \o <<>> = m /\ Len(<<>>) = 0
    BY <2>1, OutThen, Nothing, Zenon
  <2>3. PutN(g, bytes) = Became(g, bytes, m, <<>>)
    BY <1>1, <1>2, <1>3, <1>5, <2>1 DEF PutN, Fields, Became
  <2>4. Split(g, bytes, m, <<>>)  BY <2>1, <2>2 DEF Split
  <2>5. Len(<<>>) <= BufferSize  BY <1>3, <2>2
  <2> QED  BY <2>3, <2>4, <2>5, Behind DEF Buffers
<1> QED  BY <1>4, <1>5

\* The part of the bytes the buffer has room for, and the rest.
LEMMA Halves ==
  ASSUME NEW s, IsSeq(s), NEW i \in Nat, i <= Len(s)
  PROVE  /\ IsSeq(SubSeq(s, 1, i)) /\ IsSeq(SubSeq(s, i + 1, Len(s)))
         /\ Len(SubSeq(s, i + 1, Len(s))) = Len(s) - i
         /\ SubSeq(s, 1, i) \o SubSeq(s, i + 1, Len(s)) = s
<1>1. PICK S : s \in Seq(S)  BY DEF IsSeq
<1>2. Len(s) \in Nat  BY <1>1, LenProperties
<1>3. PICK n \in Nat : n = Len(s) - i /\ i + n = Len(s)
  <2>1. Len(s) - i \in Nat /\ i + (Len(s) - i) = Len(s)  BY <1>2
  <2> QED  BY <2>1
<1>4. /\ IsSeq(SubSeq(s, 0 + 1, 0 + i)) /\ Len(SubSeq(s, 0 + 1, 0 + i)) = i
      /\ \A k \in 1 .. i : SubSeq(s, 0 + 1, 0 + i)[k] = s[0 + k]
  <2>1. IsPart(s, 0, i)  BY <1>2 DEF IsPart
  <2> QED  BY <2>1, Parts
<1>5. /\ IsSeq(SubSeq(s, i + 1, i + n)) /\ Len(SubSeq(s, i + 1, i + n)) = n
      /\ \A k \in 1 .. n : SubSeq(s, i + 1, i + n)[k] = s[i + k]
  <2>1. IsPart(s, i, n)  BY <1>2, <1>3 DEF IsPart
  <2> QED  BY <2>1, Parts
<1>6. PICK t, u : t = SubSeq(s, 0 + 1, 0 + i) /\ u = SubSeq(s, i + 1, i + n)  OBVIOUS
<1>7. /\ IsSeq(t \o u) /\ Len(t \o u) = Len(t) + Len(u)
      /\ \A k \in 1 .. Len(t) : (t \o u)[k] = t[k]
      /\ \A k \in 1 .. Len(u) : (t \o u)[Len(t) + k] = u[k]
  BY <1>4, <1>5, <1>6, Joins
<1>8. Len(t) = i /\ Len(u) = n /\ Len(t \o u) = Len(s)
  BY <1>3, <1>4, <1>5, <1>6, <1>7
<1>9. t \o u = s
  <2>1. PICK T : t \o u \in Seq(T)  BY <1>7 DEF IsSeq
  <2>2. t \o u \in Seq(T \cup S)  BY <2>1, Wider
  <2>3. s \in Seq(S \cup T)  BY <1>1, Wider
  <2>4. S \cup T = T \cup S  OBVIOUS
  <2>5. ASSUME NEW k \in 1 .. Len(s)  PROVE (t \o u)[k] = s[k]
    <3>1. CASE k \in 1 .. i
      BY <1>2, <1>4, <1>6, <1>7, <1>8, <3>1
    <3>2. CASE k \notin 1 .. i
      <4>1. PICK j \in 1 .. n : k = i + j  BY <1>2, <1>3, <3>2
      <4> QED  BY <1>5, <1>6, <1>7, <1>8, <4>1
    <3> QED  BY <3>1, <3>2
  <2> QED  BY <1>8, <2>2, <2>3, <2>4, <2>5, SeqEqual
<1>10. t = SubSeq(s, 1, i) /\ u = SubSeq(s, i + 1, Len(s))  BY <1>2, <1>3, <1>6
<1> QED  BY <1>3, <1>4, <1>5, <1>6, <1>8, <1>9, <1>10

\* gil_bufio_put.
LEMMA PutWrites ==
  ASSUME NEW g, IsWriter(g), Buffers(g), NEW bytes, IsSeq(bytes)
  PROVE  /\ Wrote(g, Put(g, bytes), bytes)
         /\ Len(bytes) <= BufferSize => Buffers(Put(g, bytes))
<1>1. PICK mem, buf, pos : mem = g.mem /\ buf = g.buf /\ pos = g.pos  OBVIOUS
<1>2. g = [f \in Fields |-> g[f]]  BY DEF IsWriter
<1>3. /\ IsSeq(mem) /\ IsSeq(buf) /\ Out(g) = mem \o buf
      /\ Len(mem) \in Nat /\ Len(buf) \in Nat /\ Len(bytes) \in Nat
      /\ Len(buf) <= BufferSize /\ BufferSize \in Nat
  BY <1>1, Positions, Domains, GeneratorAssumption DEF IsWriter, Buffers, Out
<1>4. PICK room \in Nat : room = BufferSize - Len(buf) /\ room <= BufferSize
  <2>1. BufferSize - Len(buf) \in Nat /\ BufferSize - Len(buf) <= BufferSize  BY <1>3
  <2> QED  BY <2>1, Zenon
<1>5. CASE Len(bytes) <= room
  <2>1. PICK b : b = buf \o bytes  OBVIOUS
  <2>2. IsSeq(b) /\ Len(b) = Len(buf) + Len(bytes)  BY <1>3, <2>1, Joins
  <2>3. mem \o b = Out(g) \o bytes
    <3>1. Three(mem, buf, bytes)  BY <1>3 DEF Three
    <3>2. (mem \o buf) \o bytes = mem \o (buf \o bytes)  BY <3>1, Brackets, SMTT(30)
    <3> QED  BY <1>3, <2>1, <3>2, Zenon
  <2>4. Put(g, bytes) = Became(g, bytes, mem, b)
    BY <1>1, <1>2, <1>4, <1>5, <2>1 DEF Put, Fields, Became
  <2>5. Split(g, bytes, mem, b)  BY <1>3, <2>2, <2>3 DEF Split
  <2>6. Len(b) <= BufferSize  BY <1>3, <1>4, <1>5, <2>2
  <2> QED  BY <2>4, <2>5, <2>6, Behind DEF Buffers
<1>6. CASE ~(Len(bytes) <= room)
  <2>1. PICK t, u : t = SubSeq(bytes, 1, room) /\ u = SubSeq(bytes, room + 1, Len(bytes))
    OBVIOUS
  <2>2. IsSeq(t) /\ IsSeq(u) /\ Len(u) = Len(bytes) - room /\ t \o u = bytes
    <3>1. room <= Len(bytes)  BY <1>3, <1>6
    <3> QED  BY <2>1, <3>1, Halves, Zenon
  <2>3. PICK o, m : o = mem \o buf /\ m = o \o t  OBVIOUS
  <2>4. IsSeq(o)  BY <1>3, <2>3, Joins
  <2>5. IsSeq(m)  BY <2>2, <2>3, <2>4, Joins
  <2>6. m \o u = Out(g) \o bytes
    <3>1. Three(o, t, u)  BY <2>2, <2>4 DEF Three
    <3>2. (o \o t) \o u = o \o (t \o u)  BY <3>1, Brackets
    <3> QED  BY <1>3, <2>2, <2>3, <3>2
  <2>7. Put(g, bytes) = Became(g, bytes, m, u)
    BY <1>1, <1>2, <1>3, <1>4, <1>6, <2>1, <2>3 DEF Put, Fields, Became
  <2>8. Split(g, bytes, m, u)  BY <2>2, <2>5, <2>6 DEF Split
  <2>9. Len(bytes) <= BufferSize => Len(u) <= BufferSize  BY <1>3, <1>4, <2>2
  <2> QED  BY <2>7, <2>8, <2>9, Behind DEF Buffers
<1> QED  BY <1>5, <1>6

-----------------------------------------------------------------------------
(* Instructions. *)

\* What every call of the generator does to its output.
Grows(g, q) == Extends(g, q) /\ Buffers(q)

LEMMA GrowsByWriting ==
  ASSUME NEW g, NEW q, NEW bytes, IsWriter(g), IsSeq(bytes), Wrote(g, q, bytes),
         Buffers(q)
  PROVE  Grows(g, q) /\ IsWriter(q)
BY WroteContinues DEF Grows, Wrote

LEMMA GrowsTwice ==
  ASSUME NEW g, NEW q, NEW r, IsWriter(g), Grows(g, q), Grows(q, r)
  PROVE  Grows(g, r)
BY ExtendsTwice DEF Grows

\* The operand w is one to four bytes.
LEMMA Digits ==
  ASSUME NEW w
  PROVE  IsSeq(EncodeUint(w))
<1>1. \A a : IsSeq(<<a>>)  BY Pairs
<1>2. \A a, b : IsSeq(<<a, b>>)
  <2>1. ASSUME NEW a, NEW b  PROVE IsSeq(<<a, b>>)
    <3>1. <<a, b>> \in Seq({a, b})  OBVIOUS
    <3> QED  BY <3>1 DEF IsSeq
  <2> QED  BY <2>1
<1>3. \A a, b, c : IsSeq(<<a, b, c>>)
  <2>1. ASSUME NEW a, NEW b, NEW c  PROVE IsSeq(<<a, b, c>>)
    <3>1. <<a, b, c>> \in Seq({a, b, c})  OBVIOUS
    <3> QED  BY <3>1 DEF IsSeq
  <2> QED  BY <2>1
<1>4. \A a, b, c, d : IsSeq(<<a, b, c, d>>)
  <2>1. ASSUME NEW a, NEW b, NEW c, NEW d  PROVE IsSeq(<<a, b, c, d>>)
    <3>1. <<a, b, c, d>> \in Seq({a, b, c, d})  OBVIOUS
    <3> QED  BY <3>1 DEF IsSeq
  <2> QED  BY <2>1
<1> QED  BY <1>1, <1>2, <1>3, <1>4 DEF EncodeUint

LEMMA InstructionGrows ==
  ASSUME NEW g, IsWriter(g), Buffers(g), NEW op
  PROVE  LET q == Instruction(g, op)
         IN Grows(g, q) /\ IsWriter(q) /\ Buffers(q) /\ q.pos = g.pos + 1
<1>1. PICK byte : byte = CodeOf(op)  OBVIOUS
<1>2. IsSeq(<<byte>>) /\ Len(<<byte>>) = 1  BY Pairs
<1>3. PICK q : q = Put(g, <<byte>>)  OBVIOUS
<1>4. 1 <= BufferSize  BY GeneratorAssumption
<1>5. Wrote(g, q, <<byte>>) /\ Buffers(q)  BY <1>2, <1>3, <1>4, PutWrites
<1>6. Grows(g, q) /\ IsWriter(q)  BY <1>2, <1>5, GrowsByWriting
<1>7. q.pos = g.pos + 1  BY <1>2, <1>5 DEF Wrote
<1> QED  BY <1>1, <1>3, <1>5, <1>6, <1>7 DEF Instruction

LEMMA OperandGrows ==
  ASSUME NEW g, IsWriter(g), Buffers(g), NEW bytes, IsSeq(bytes)
  PROVE  LET q == PutN(g, bytes)
         IN Grows(g, q) /\ IsWriter(q) /\ Buffers(q) /\ q.pos = g.pos + Len(bytes)
<1>1. PICK q : q = PutN(g, bytes)  OBVIOUS
<1>2. Wrote(g, q, bytes) /\ Buffers(q)  BY <1>1, PutNWrites
<1>3. Grows(g, q) /\ IsWriter(q)  BY <1>2, GrowsByWriting
<1> QED  BY <1>1, <1>2, <1>3 DEF Wrote

LEMMA Instruction1Grows ==
  ASSUME NEW g, IsWriter(g), Buffers(g), NEW op, NEW w
  PROVE  LET q == Instruction1(g, op, w) IN Grows(g, q) /\ IsWriter(q) /\ Buffers(q)
<1>1. PICK r, bytes : r = Instruction(g, op) /\ bytes = EncodeUint(w)  OBVIOUS
<1>2. Grows(g, r) /\ IsWriter(r) /\ Buffers(r)  BY <1>1, InstructionGrows
<1>3. IsSeq(bytes)  BY <1>1, Digits
<1>4. PICK q : q = PutN(r, bytes)  OBVIOUS
<1>5. Grows(r, q) /\ IsWriter(q) /\ Buffers(q)  BY <1>2, <1>3, <1>4, OperandGrows
<1>6. Grows(g, q)  BY <1>2, <1>5, GrowsTwice
<1> QED  BY <1>1, <1>4, <1>5, <1>6 DEF Instruction1

LEMMA Instruction2Grows ==
  ASSUME NEW g, IsWriter(g), Buffers(g), NEW op, NEW v, NEW w
  PROVE  LET q == Instruction2(g, op, v, w) IN Grows(g, q) /\ IsWriter(q) /\ Buffers(q)
<1>1. PICK r, bytes : r = Instruction1(g, op, v) /\ bytes = EncodeUint(w)  OBVIOUS
<1>2. Grows(g, r) /\ IsWriter(r) /\ Buffers(r)  BY <1>1, Instruction1Grows
<1>3. IsSeq(bytes)  BY <1>1, Digits
<1>4. PICK q : q = PutN(r, bytes)  OBVIOUS
<1>5. Grows(r, q) /\ IsWriter(q) /\ Buffers(q)  BY <1>2, <1>3, <1>4, OperandGrows
<1>6. Grows(g, q)  BY <1>2, <1>5, GrowsTwice
<1> QED  BY <1>1, <1>4, <1>5, <1>6 DEF Instruction2

LEMMA NumberGrows ==
  ASSUME NEW g, IsWriter(g), Buffers(g), NEW bytes, IsSeq(bytes)
  PROVE  LET q == Number(g, bytes) IN Grows(g, q) /\ IsWriter(q) /\ Buffers(q)
<1>1. PICK r : r = Instruction(g, "ALLOC_REAL")  OBVIOUS
<1>2. Grows(g, r) /\ IsWriter(r) /\ Buffers(r)  BY <1>1, InstructionGrows
<1>3. PICK q : q = PutN(r, bytes)  OBVIOUS
<1>4. Grows(r, q) /\ IsWriter(q) /\ Buffers(q)  BY <1>2, <1>3, OperandGrows
<1>5. Grows(g, q)  BY <1>2, <1>4, GrowsTwice
<1> QED  BY <1>1, <1>3, <1>4, <1>5 DEF Number

LEMMA PlaceholderGrows ==
  ASSUME NEW g, IsWriter(g), Buffers(g)
  PROVE  LET q == Placeholder(g)
         IN Grows(g, q) /\ IsWriter(q) /\ Buffers(q) /\ q.pos = g.pos + 5
<1>1. PICK byte : byte = CodeOf("RJMP_U4")  OBVIOUS
<1>2. PICK bytes : bytes = <<byte, 0, 0, 0, 0>>  OBVIOUS
<1>3. IsSeq(bytes) /\ Len(bytes) = 5
  <2>1. bytes \in Seq({byte, 0})  BY <1>2
  <2>2. Len(bytes) = 5  BY <1>2
  <2> QED  BY <2>1, <2>2 DEF IsSeq
<1>4. PICK q : q = Put(g, bytes)  OBVIOUS
<1>5. Len(bytes) <= BufferSize  BY <1>3, GeneratorAssumption
<1>6. Wrote(g, q, bytes) /\ Buffers(q)  BY <1>3, <1>4, <1>5, PutWrites
<1>7. Grows(g, q) /\ IsWriter(q)  BY <1>3, <1>6, GrowsByWriting
<1>8. q.pos = g.pos + 5  BY <1>3, <1>6 DEF Wrote
<1> QED  BY <1>1, <1>2, <1>4, <1>6, <1>7, <1>8 DEF Placeholder

\* A new name is not output.
LEMMA NamedGrows ==
  ASSUME NEW g, IsWriter(g), Buffers(g), NEW name
  PROVE  LET q == Named(g, name)
         IN Grows(g, q) /\ IsWriter(q) /\ Buffers(q) /\ q.pos = g.pos
<1>1. g = [f \in Fields |-> g[f]] /\ g.pos \in Nat
  BY Positions DEF IsWriter
<1>2. CASE Contains(g.atoms, name)
  BY <1>2, ExtendsSame DEF Named, Grows
<1>3. CASE ~Contains(g.atoms, name)
  <2>1. PICK q, atoms : atoms = Append(g.atoms, name) /\ q = [g EXCEPT !.atoms = atoms]
    OBVIOUS
  <2>2. q = [f \in Fields |-> q[f]]  BY <1>1, <2>1 DEF Fields
  <2>3. /\ q.mem = g.mem /\ q.buf = g.buf /\ q.pos = g.pos
        /\ q.strings = g.strings /\ q.relocs = g.relocs
    BY <1>1, <2>1 DEF Fields
  <2>4. Out(q) = Out(g)  BY <2>3 DEF Out
  <2>5. IsWriter(q) /\ Buffers(q) /\ SameRest(g, q)
    BY <2>2, <2>3 DEF IsWriter, Buffers, SameRest
  <2>6. Grows(g, q)  BY <1>1, <2>3, <2>4, <2>5 DEF Grows, Extends
  <2>7. q = Named(g, name)  BY <1>3, <2>1 DEF Named
  <2> QED  BY <2>3, <2>5, <2>6, <2>7
<1> QED  BY <1>2, <1>3

-----------------------------------------------------------------------------
(* String constants, and the jumps whose lengths are to be filled in. *)

\* The string is where the generator remembers it, in front of limit.
StringAt(g, s, limit) ==
  /\ IsSeq(s.string) /\ s.pos \in Nat /\ s.pos + Len(s.string) <= limit
  /\ \A k \in 1 .. Len(s.string) : Out(g)[s.pos + k] = s.string[k]

\* The four bytes from p on are in front of limit, and not of a string.
Apart(g, p, limit) ==
  /\ p \in Nat /\ p + 4 <= limit
  /\ \A n \in DOMAIN g.strings :
       \/ p + 4 <= g.strings[n].pos
       \/ g.strings[n].pos + Len(g.strings[n].string) <= p

\* Where lengths are going to be filled in: at the jumps the generator has listed,
\* and those over the bodies o the parser is in.
Holes(g, o) ==
  {g.relocs[n].pos : n \in DOMAIN g.relocs} \cup {o[n].reloc : n \in DOMAIN o}

Kept(g, o, limit) ==
  /\ IsSeq(g.strings) /\ IsSeq(g.relocs) /\ IsSeq(o)
  /\ \A n \in DOMAIN g.strings : StringAt(g, g.strings[n], limit)
  /\ \A p \in Holes(g, o) : Apart(g, p, limit)

SamePrefix(g, q, limit) == \A k \in 1 .. limit : Out(q)[k] = Out(g)[k]

\* Strings and lengths are kept when what is in front of them is.
LEMMA KeepsPrefix ==
  ASSUME NEW g, NEW q, NEW o, NEW l \in Nat, NEW m \in Nat, l <= m,
         SamePrefix(g, q, l), SameRest(g, q), Kept(g, o, l)
  PROVE  Kept(q, o, m)
<1>1. PICK strings, relocs : strings = g.strings /\ relocs = g.relocs  OBVIOUS
<1>2. q.strings = strings /\ q.relocs = relocs  BY <1>1 DEF SameRest
<1>3. ASSUME NEW n \in DOMAIN strings  PROVE StringAt(q, strings[n], m)
  <2>1. PICK str, pos : str = strings[n].string /\ pos = strings[n].pos  OBVIOUS
  <2>2. StringAt(g, strings[n], l)  BY <1>1, <1>3 DEF Kept
  <2>3. /\ IsSeq(str) /\ pos \in Nat /\ pos + Len(str) <= l
        /\ \A k \in 1 .. Len(str) : Out(g)[pos + k] = str[k]
    BY <2>1, <2>2 DEF StringAt
  <2>4. Len(str) \in Nat  BY <2>3, Domains
  <2>5. \A k \in 1 .. Len(str) : pos + k \in 1 .. l  BY <2>3, <2>4
  <2>6. \A k \in 1 .. Len(str) : Out(q)[pos + k] = str[k]
    BY <2>3, <2>5 DEF SamePrefix
  <2>7. pos + Len(str) <= m  BY <2>3, <2>4
  <2> QED  BY <2>1, <2>3, <2>6, <2>7 DEF StringAt
<1>4. ASSUME NEW p \in Holes(q, o)  PROVE Apart(q, p, m)
  <2>1. p \in Holes(g, o)  BY <1>1, <1>2, <1>4 DEF Holes
  <2>2. Apart(g, p, l)  BY <2>1 DEF Kept
  <2>3. p \in Nat /\ p + 4 <= l  BY <2>2 DEF Apart
  <2>4. p + 4 <= m  BY <2>3
  <2> QED  BY <1>1, <1>2, <2>2, <2>3, <2>4 DEF Apart
<1> QED  BY <1>1, <1>2, <1>3, <1>4 DEF Kept

LEMMA KeepsGrowing ==
  ASSUME NEW g, NEW q, NEW o, IsWriter(g), Grows(g, q), Kept(g, o, g.pos)
  PROVE  Kept(q, o, q.pos)
<1>1. IsWriter(q) /\ q.pos >= g.pos /\ SamePrefix(g, q, g.pos) /\ SameRest(g, q)
  BY DEF Grows, Extends, SamePrefix
<1>2. PICK l, m : l = g.pos /\ m = q.pos  OBVIOUS
<1>3. l \in Nat /\ m \in Nat /\ l <= m  BY <1>1, <1>2, Positions
<1> QED  BY <1>1, <1>2, <1>3, KeepsPrefix

\* One hole less, or more.
LEMMA KeepsHoles ==
  ASSUME NEW g, NEW q, NEW o, NEW u, NEW l, IsSeq(u), IsSeq(q.relocs),
         Out(q) = Out(g), q.strings = g.strings, Kept(g, o, l),
         \A p \in Holes(q, u) : p \in Holes(g, o) \/ Apart(g, p, l)
  PROVE  Kept(q, u, l)
<1>1. PICK strings : strings = g.strings /\ strings = q.strings  OBVIOUS
<1>2. IsSeq(strings)  BY <1>1 DEF Kept
<1>3. \A n \in DOMAIN strings : StringAt(g, strings[n], l)  BY <1>1 DEF Kept
<1>4. \A n \in DOMAIN strings : StringAt(q, strings[n], l)  BY <1>3 DEF StringAt
<1>5. \A p \in Holes(q, u) : Apart(g, p, l)  BY DEF Kept
<1>6. \A p \in Holes(q, u) : Apart(q, p, l)  BY <1>1, <1>5 DEF Apart
<1> QED  BY <1>1, <1>2, <1>4, <1>6 DEF Kept

\* gil_gen_string: what is written behind the jump is the string.
LEMMA StringDataKeeps ==
  ASSUME NEW g, NEW o, NEW string, IsSeq(string), IsWriter(g), Buffers(g),
         Kept(g, o, g.pos)
  PROVE  LET q == StringData(g, string)
         IN IsWriter(q) /\ Buffers(q) /\ Kept(q, o, q.pos)
<1>1. PICK r : r = Instruction1(g, "RJMP", Len(string))  OBVIOUS
<1>2. Grows(g, r) /\ IsWriter(r) /\ Buffers(r)  BY <1>1, Instruction1Grows
<1>3. PICK t : t = PutN(r, string)  OBVIOUS
<1>4. Wrote(r, t, string) /\ Buffers(t) /\ IsWriter(t)
  BY <1>2, <1>3, PutNWrites DEF Wrote
<1>5. Grows(r, t)  BY <1>2, <1>4, GrowsByWriting
<1>6. Kept(r, o, r.pos)  BY <1>2, KeepsGrowing
<1>7. Kept(t, o, t.pos)  BY <1>2, <1>5, <1>6, KeepsGrowing
<1>8. PICK from, to, old : from = r.pos /\ to = t.pos /\ old = t.strings  OBVIOUS
<1>9. from \in Nat /\ to \in Nat /\ Len(string) \in Nat /\ to = from + Len(string)
  BY <1>2, <1>4, <1>8, Positions, Domains DEF Wrote
<1>10. PICK s : s = [string |-> string, pos |-> from]  OBVIOUS
<1>11. s.string = string /\ s.pos = from  BY <1>10
<1>12. PICK q, strings : strings = Append(old, s) /\ q = [t EXCEPT !.strings = strings]
  OBVIOUS
<1>13. q = StringData(g, string)
  BY <1>1, <1>3, <1>8, <1>10, <1>12 DEF StringData
<1>14. t = [f \in Fields |-> t[f]]  BY <1>4 DEF IsWriter
<1>15. q = [f \in Fields |-> q[f]]  BY <1>12, <1>14 DEF Fields
<1>16. q.mem = t.mem /\ q.buf = t.buf /\ q.pos = t.pos /\ q.relocs = t.relocs
       /\ q.strings = strings
  BY <1>12, <1>14 DEF Fields
<1>17. Out(q) = Out(t)  BY <1>16 DEF Out
<1>18. IsWriter(q) /\ Buffers(q)  BY <1>4, <1>15, <1>16 DEF IsWriter, Buffers
<1>19. IsSeq(old)  BY <1>7, <1>8 DEF Kept
<1>20. /\ IsSeq(strings) /\ Len(strings) = Len(old) + 1
       /\ \A k \in 1 .. Len(old) : strings[k] = old[k]
       /\ strings[Len(old) + 1] = s
  BY <1>12, <1>19, Appends
<1>21. /\ Len(old) \in Nat /\ DOMAIN old = 1 .. Len(old)
       /\ DOMAIN strings = 1 .. Len(strings)
  BY <1>19, <1>20, Domains
<1>22. \A n \in DOMAIN strings : \/ n \in DOMAIN old /\ strings[n] = old[n]
                                \/ strings[n] = s
  BY <1>20, <1>21
<1>23. StringAt(q, s, to)
  <2>1. Continues(Out(t), r, string)  BY <1>2, <1>4, WroteContinues
  <2>2. \A k \in 1 .. Len(string) : Out(q)[from + k] = string[k]
    BY <1>8, <1>17, <2>1 DEF Continues
  <2> QED  BY <1>9, <1>11, <2>2 DEF StringAt
<1>24. ASSUME NEW n \in DOMAIN strings  PROVE StringAt(q, strings[n], to)
  <2>1. CASE n \in DOMAIN old /\ strings[n] = old[n]
    <3>1. StringAt(t, old[n], to)  BY <1>7, <1>8, <2>1 DEF Kept
    <3> QED  BY <1>17, <2>1, <3>1 DEF StringAt
  <2>2. CASE strings[n] = s  BY <1>23, <2>2
  <2> QED  BY <1>22, <2>1, <2>2
<1>25. ASSUME NEW p \in Holes(q, o)  PROVE Apart(q, p, to)
  <2>1. p \in Holes(t, o)  BY <1>16, <1>25 DEF Holes
  <2>2. Apart(t, p, to)  BY <1>7, <1>8, <2>1 DEF Kept
  <2>3. p \in Nat /\ p + 4 <= to  BY <2>2 DEF Apart
  <2>4. p + 4 <= from
    <3>1. Holes(t, o) = Holes(r, o)
      BY <1>5 DEF Holes, Grows, Extends, SameRest
    <3>2. Apart(r, p, from)  BY <1>6, <1>8, <2>1, <3>1 DEF Kept
    <3> QED  BY <3>2 DEF Apart
  <2>5. ASSUME NEW n \in DOMAIN strings
        PROVE  p + 4 <= strings[n].pos \/ strings[n].pos + Len(strings[n].string) <= p
    <3>1. CASE n \in DOMAIN old /\ strings[n] = old[n]
      BY <1>8, <2>2, <3>1 DEF Apart
    <3>2. CASE strings[n] = s  BY <1>11, <2>4, <3>2
    <3> QED  BY <1>22, <3>1, <3>2
  <2> QED  BY <1>16, <2>3, <2>5 DEF Apart
<1>26. IsSeq(q.relocs) /\ IsSeq(o)  BY <1>7, <1>16 DEF Kept
<1>27. Kept(q, o, q.pos)
  BY <1>8, <1>16, <1>20, <1>24, <1>25, <1>26 DEF Kept
<1> QED  BY <1>13, <1>18, <1>27

\* gil_gen_fixup_reloc, for all lengths: no string changes.
LEMMA FixedUpKeeps ==
  ASSUME NEW g, NEW o, NEW l \in Nat, IsWriter(g), g.buf = <<>>, l <= g.pos, Kept(g, o, l)
  PROVE  LET q == FixedUp(g)
         IN IsWriter(q) /\ q.buf = <<>> /\ Buffers(q) /\ q.pos = g.pos /\ Kept(q, o, l)
<1>1. PICK mem, pos, strings, relocs :
        mem = g.mem /\ pos = g.pos /\ strings = g.strings /\ relocs = g.relocs
  OBVIOUS
<1>2. g = [f \in Fields |-> g[f]] /\ IsSeq(mem) /\ pos \in Nat /\ IsSeq(<<>>)
      /\ Len(<<>>) = 0
  BY <1>1, Positions, Nothing DEF IsWriter
<1>3. Len(mem) = pos /\ DOMAIN mem = 1 .. pos
  <2>1. Len(mem) \in Nat /\ DOMAIN mem = 1 .. Len(mem)  BY <1>2, Domains
  <2>2. pos = Len(mem) + Len(<<>>)  BY <1>1, Zenon DEF IsWriter
  <2>3. pos = Len(mem)  BY <1>2, <2>1, <2>2
  <2> QED  BY <2>1, <2>3
<1>4. PICK new : new = [n \in 1 .. pos |-> ByteAt(g, n)]  OBVIOUS
<1>5. IsSeq(new) /\ Len(new) = pos
  <2> DEFINE S == {ByteAt(g, n) : n \in 1 .. pos}
  <2>1. new \in [1 .. pos -> S]  BY <1>4
  <2> HIDE DEF S
  <2>2. new \in Seq(S)  BY <1>2, <2>1
  <2>3. Len(new) = pos  BY <1>2, <2>1, <2>2, LenProperties
  <2> QED  BY <2>2, <2>3 DEF IsSeq
<1>6. PICK q : q = [g EXCEPT !.mem = new]  OBVIOUS
<1>7. q = FixedUp(g)  BY <1>1, <1>3, <1>4, <1>6 DEF FixedUp
<1>8. q = [f \in Fields |-> q[f]]  BY <1>2, <1>6 DEF Fields
<1>9. q.mem = new /\ q.buf = <<>> /\ q.pos = pos /\ q.strings = strings /\ q.relocs = relocs
  BY <1>1, <1>2, <1>6 DEF Fields
<1>10. IsWriter(q)
  <2>1. pos = Len(new) + Len(<<>>)  BY <1>2, <1>5
  <2> QED  BY <1>2, <1>5, <1>8, <1>9, <2>1, Zenon DEF IsWriter
<1>11. Buffers(q)  BY <1>2, <1>9, GeneratorAssumption DEF Buffers
<1>12. Out(q) = new /\ Out(g) = mem  BY <1>1, <1>2, <1>5, <1>9, Nothing DEF Out
<1>13. ASSUME NEW n \in DOMAIN strings  PROVE StringAt(q, strings[n], l)
  <2>1. PICK str, at : str = strings[n].string /\ at = strings[n].pos  OBVIOUS
  <2>2. StringAt(g, strings[n], l)  BY <1>1, <1>13 DEF Kept
  <2>3. /\ IsSeq(str) /\ at \in Nat /\ at + Len(str) <= l
        /\ \A k \in 1 .. Len(str) : mem[at + k] = str[k]
    BY <1>12, <2>1, <2>2 DEF StringAt
  <2>4. Len(str) \in Nat  BY <2>3, Domains
  <2>5. ASSUME NEW k \in 1 .. Len(str)  PROVE new[at + k] = str[k]
    <3>1. at + k \in 1 .. pos  BY <1>1, <1>2, <2>3, <2>4
    <3>2. ASSUME NEW m \in DOMAIN relocs  PROVE at + k \notin relocs[m].pos + 1 .. relocs[m].pos + 4
      <4>1. PICK p : p = relocs[m].pos  OBVIOUS
      <4>2. p \in Holes(g, o)  BY <1>1, <3>2, <4>1 DEF Holes
      <4>3. Apart(g, p, l)  BY <4>2 DEF Kept
      <4>4. p \in Nat /\ (p + 4 <= at \/ at + Len(str) <= p)
        BY <1>1, <1>13, <2>1, <4>3 DEF Apart
      <4> QED  BY <2>3, <2>4, <4>1, <4>4
    <3>3. Relocated(g, at + k) = {}  BY <1>1, <3>2 DEF Relocated
    <3>4. ByteAt(g, at + k) = mem[at + k]  BY <1>1, <3>3 DEF ByteAt
    <3> QED  BY <1>4, <2>3, <3>1, <3>4
  <2> QED  BY <1>12, <2>1, <2>3, <2>5 DEF StringAt
<1>14. ASSUME NEW p \in Holes(q, o)  PROVE Apart(q, p, l)
  <2>1. p \in Holes(g, o)  BY <1>1, <1>9, <1>14 DEF Holes
  <2>2. Apart(g, p, l)  BY <2>1 DEF Kept
  <2> QED  BY <1>1, <1>9, <2>2 DEF Apart
<1>15. Kept(q, o, l)  BY <1>1, <1>9, <1>13, <1>14 DEF Kept
<1> QED  BY <1>1, <1>7, <1>9, <1>10, <1>11, <1>15

-----------------------------------------------------------------------------
(* Instructions: what the machine and the printer take the bytes for. *)

\* The operations that have a code.
Operation == ToSet(Opcodes) \cup {"HALT"}

LEMMA CodesOfAll ==
  DOMAIN Opcodes = 1 .. 33 /\ Len(Opcodes) = 33
BY SMT DEF Opcodes

LEMMA OpcodeReadsBack ==
  ASSUME NEW op \in Operation, NEW s, NEW a \in Nat, s[a + 1] = CodeOf(op)
  PROVE  Opcode(s, a) = op
<1>1. CASE op = "HALT"
  <2>1. s[a + 1] = HaltCode  BY <1>1 DEF CodeOf
  <2>2. ~ (s[a + 1] < Len(Opcodes))  BY <2>1, CodesOfAll DEF HaltCode
  <2> QED  BY <1>1, <2>1, <2>2 DEF Opcode
<1>2. CASE op # "HALT"
  <2>1. PICK n \in 1 .. 33 : n = (CHOOSE k \in DOMAIN Opcodes : Opcodes[k] = op)
                            /\ Opcodes[n] = op
    <3>1. op \in {Opcodes[k] : k \in DOMAIN Opcodes}  BY <1>2 DEF Operation, ToSet
    <3>2. \E k \in DOMAIN Opcodes : Opcodes[k] = op  BY <3>1
    <3> QED  BY <3>2, CodesOfAll
  <2>2. s[a + 1] = n - 1  BY <1>2, <2>1 DEF CodeOf
  <2>3. s[a + 1] # HaltCode /\ s[a + 1] < Len(Opcodes) /\ s[a + 1] + 1 = n
    BY <2>2, CodesOfAll DEF HaltCode
  <2> QED  BY <2>1, <2>3 DEF Opcode
<1> QED  BY <1>1, <1>2

LEMMA CodesAreBytes ==
  ASSUME NEW op \in Operation
  PROVE  CodeOf(op) \in Byte
<1>1. CASE op = "HALT"
  BY <1>1 DEF CodeOf, HaltCode, Byte
<1>2. CASE op # "HALT"
  <2>1. PICK n \in 1 .. 33 : n = CHOOSE k \in DOMAIN Opcodes : Opcodes[k] = op
    <3>1. op \in {Opcodes[k] : k \in DOMAIN Opcodes}  BY <1>2 DEF Operation, ToSet
    <3>2. \E k \in DOMAIN Opcodes : Opcodes[k] = op  BY <3>1
    <3> QED  BY <3>2, CodesOfAll
  <2>2. CodeOf(op) = n - 1  BY <1>2, <2>1 DEF CodeOf
  <2> QED  BY <2>2 DEF Byte
<1> QED  BY <1>1, <1>2

LEMMA UintLengths ==
  ASSUME NEW s, NEW a \in Nat
  PROVE  UintLength(s, a) \in {1, 2, 3, 4}
BY DEF UintLength

LEMMA FixedLengths ==
  ASSUME NEW op
  PROVE  Fixed(op) \in Nat
BY DEF Fixed

\* An instruction without operands, with one and with two.
LEMMA ReadsNone ==
  ASSUME NEW s, NEW a \in Nat, Words(Opcode(s, a)) = 0
  PROVE  LET i == Decode(s, a)
             first == a + 1
         IN /\ i.op = Opcode(s, a) /\ i.words = <<>>
            /\ i.next = first + Fixed(Opcode(s, a))
            /\ i.bytes = SubSeq(s, first + 1, first + Fixed(Opcode(s, a)))
BY DEF Decode

LEMMA ReadsOne ==
  ASSUME NEW s, NEW a \in Nat, Words(Opcode(s, a)) = 1
  PROVE  LET i == Decode(s, a)
             first == a + 1
         IN /\ i.op = Opcode(s, a) /\ i.words = <<ReadUint(s, first)>>
            /\ i.next = first + UintLength(s, first) /\ i.bytes = <<>>
BY DEF Decode

LEMMA ReadsTwo ==
  ASSUME NEW s, NEW a \in Nat, Words(Opcode(s, a)) = 2
  PROVE  LET i == Decode(s, a)
             first == a + 1
             second == first + UintLength(s, first)
         IN /\ i.op = Opcode(s, a)
            /\ i.words = <<ReadUint(s, first), ReadUint(s, second)>>
            /\ i.next = second + UintLength(s, second) /\ i.bytes = <<>>
BY DEF Decode

LEMMA HowManyWords ==
  ASSUME NEW op
  PROVE  Words(op) \in {0, 1, 2}
BY DEF Words

\* The bytes of s that are at the addresses from a up to b are those of t.
Alike(s, t, a, b) == \A k \in a + 1 .. b : s[k] = t[k]

\* An operand is read from its own bytes.
LEMMA SameUint ==
  ASSUME NEW s, NEW t, NEW a \in Nat, Alike(s, t, a, a + UintLength(s, a))
  PROVE  /\ UintLength(t, a) = UintLength(s, a)
         /\ ReadUint(t, a) = ReadUint(s, a)
<1>1. PICK n \in {1, 2, 3, 4} : n = UintLength(s, a)  BY UintLengths
<1>2. \A k \in 1 .. n : t[a + k] = s[a + k]
  <2>1. \A k \in a + 1 .. a + n : s[k] = t[k]  BY <1>1 DEF Alike
  <2>2. \A k \in 1 .. n : a + k \in a + 1 .. a + n  BY <1>1
  <2> QED  BY <2>1, <2>2
<1>3. CASE n = 1
  <2>1. t[a + 1] = s[a + 1]  BY <1>2, <1>3
  <2>2. UintLength(t, a) = n  BY <1>1, <1>3, <2>1 DEF UintLength
  <2> QED  BY <1>1, <1>3, <2>1, <2>2 DEF ReadUint
<1>4. CASE n = 2
  <2>1. t[a + 1] = s[a + 1] /\ t[a + 2] = s[a + 2]  BY <1>2, <1>4
  <2>2. UintLength(t, a) = n  BY <1>1, <1>4, <2>1 DEF UintLength
  <2> QED  BY <1>1, <1>4, <2>1, <2>2 DEF ReadUint
<1>5. CASE n = 3
  <2>1. t[a + 1] = s[a + 1] /\ t[a + 2] = s[a + 2] /\ t[a + 3] = s[a + 3]
    BY <1>2, <1>5
  <2>2. UintLength(t, a) = n  BY <1>1, <1>5, <2>1 DEF UintLength
  <2> QED  BY <1>1, <1>5, <2>1, <2>2 DEF ReadUint
<1>6. CASE n = 4
  <2>1. /\ t[a + 1] = s[a + 1] /\ t[a + 2] = s[a + 2] /\ t[a + 3] = s[a + 3]
        /\ t[a + 4] = s[a + 4]
    BY <1>2, <1>6
  <2>2. UintLength(t, a) = n  BY <1>1, <1>6, <2>1 DEF UintLength
  <2> QED  BY <1>1, <1>6, <2>1, <2>2 DEF ReadUint
<1> QED  BY <1>3, <1>4, <1>5, <1>6

\* The bytes of fixed size, from the bytes of the instruction.
LEMMA SameBytes ==
  ASSUME NEW s, NEW t, IsSeq(s), IsSeq(t), NEW a \in Nat, NEW n \in Nat,
         a + n <= Len(s), a + n <= Len(t), Alike(s, t, a, a + n)
  PROVE  SubSeq(t, a + 1, a + n) = SubSeq(s, a + 1, a + n)
<1>1. PICK p : p = SubSeq(s, a + 1, a + n)  OBVIOUS
<1>2. IsSeq(p) /\ Len(p) = n /\ \A k \in 1 .. n : p[k] = s[a + k]
  <2>1. IsPart(s, a, n)  BY DEF IsPart
  <2> QED  BY <1>1, <2>1, Parts
<1>3. \A k \in 1 .. Len(p) : t[a + k] = p[k]
  <2>1. \A k \in 1 .. n : a + k \in a + 1 .. a + n  OBVIOUS
  <2> QED  BY <1>2, <2>1 DEF Alike
<1>4. a + Len(p) <= Len(t)  BY <1>2
<1>5. SubSeq(t, a + 1, a + Len(p)) = p  BY <1>2, <1>3, <1>4, SamePart
<1> QED  BY <1>1, <1>2, <1>5

LEMMA AlikePart ==
  ASSUME NEW s, NEW t, NEW a \in Nat, NEW b \in Nat, Alike(s, t, a, b),
         NEW c \in Nat, NEW d \in Nat, a <= c, d <= b
  PROVE  Alike(s, t, c, d)
BY DEF Alike

\* An instruction, from its own bytes.
LEMMA SameInstruction ==
  ASSUME NEW s, NEW t, IsSeq(s), IsSeq(t), NEW a \in Nat, NEW b \in Nat,
         b = Decode(s, a).next, b <= Len(s), b <= Len(t), Alike(s, t, a, b)
  PROVE  a < b /\ Decode(t, a) = Decode(s, a)
<1>0. b = Decode(s, a).next  OBVIOUS
<1>1. PICK op : op = Opcode(s, a)  OBVIOUS
<1>2. PICK first \in Nat : first = a + 1  OBVIOUS
<1>3. PICK n \in Nat : n = UintLength(s, first) /\ n > 0  BY UintLengths
<1>4. PICK second \in Nat : second = first + n  OBVIOUS
<1>5. PICK m \in Nat : m = UintLength(s, second) /\ m > 0  BY UintLengths
<1>6. PICK fixed \in Nat : fixed = Fixed(op)  BY FixedLengths
<1>7. /\ Words(op) = 0 => b = first + fixed
      /\ Words(op) = 1 => b = second
      /\ Words(op) = 2 => b = second + m
  <2>1. Words(op) = 0 => b = (a + 1) + Fixed(op)  BY ONLY <1>1, <1>0, ReadsNone
  <2>2. Words(op) = 1 => b = (a + 1) + UintLength(s, a + 1)  BY ONLY <1>1, <1>0, ReadsOne
  <2>3. Words(op) = 2 => b = second + UintLength(s, second)
    BY ONLY <1>1, <1>2, <1>3, <1>4, <1>0, ReadsTwo
  <2> QED  BY <1>2, <1>3, <1>4, <1>5, <1>6, <2>1, <2>2, <2>3
<1>8. a < b
  <2>1. Words(op) \in {0, 1, 2}  BY HowManyWords
  <2> QED  BY ONLY <1>2, <1>3, <1>4, <1>5, <1>7, <2>1
<1>9. Opcode(t, a) = op
  <2>1. t[a + 1] = s[a + 1]  BY <1>8 DEF Alike
  <2> QED  BY <1>1, <2>1 DEF Opcode
<1>10. Alike(s, t, first, b)  BY <1>2, AlikePart
<1>11. CASE Words(op) = 0
  <2>1. PICK bytes : /\ bytes = SubSeq(s, first + 1, first + fixed)
                     /\ bytes = SubSeq(t, first + 1, first + fixed)
    <3>1. SubSeq(t, first + 1, first + fixed) = SubSeq(s, first + 1, first + fixed)
      BY <1>7, <1>10, <1>11, SameBytes
    <3> QED  BY <3>1, Zenon
  <2> DEFINE i == [op |-> op, words |-> <<>>, next |-> first + fixed,
                     bytes |-> bytes]
  <2>3. Decode(s, a) = i  BY <1>1, <1>2, <1>6, <1>11, <2>1 DEF Decode
  <2>4. Decode(t, a) = i
    <3>1. Decode(t, a) = [op |-> op, words |-> <<>>, next |-> first + fixed,
                          bytes |-> SubSeq(t, first + 1, first + fixed)]
      BY <1>2, <1>6, <1>9, <1>11 DEF Decode
    <3> QED  BY <2>1, <3>1, Zenon
  <2> QED  BY <1>8, <2>3, <2>4
<1>12. CASE Words(op) = 1
  <2>1. Alike(s, t, first, first + UintLength(s, first))  BY <1>3, <1>4, <1>7, <1>10, <1>12
  <2>2. UintLength(t, first) = n /\ ReadUint(t, first) = ReadUint(s, first)
    BY <1>3, <2>1, SameUint
  <2> DEFINE i == [op |-> op, words |-> <<ReadUint(s, first)>>, next |-> second,
                     bytes |-> <<>>]
  <2>4. Decode(s, a) = i  BY <1>1, <1>2, <1>3, <1>4, <1>12 DEF Decode
  <2>5. Decode(t, a) = i  BY <1>2, <1>4, <1>9, <1>12, <2>2 DEF Decode
  <2> QED  BY <1>8, <2>4, <2>5
<1>13. CASE Words(op) = 2
  <2>1. Alike(s, t, first, first + UintLength(s, first))
    <3>1. second <= b  BY <1>5, <1>7, <1>13
    <3>2. Alike(s, t, first, second)  BY <3>1, <1>10, AlikePart
    <3> QED  BY <1>3, <1>4, <3>2
  <2>2. UintLength(t, first) = n /\ ReadUint(t, first) = ReadUint(s, first)
    BY <1>3, <2>1, SameUint
  <2>3. Alike(s, t, second, second + UintLength(s, second))
    <3>1. first <= second  BY <1>4
    <3>2. Alike(s, t, second, b)  BY <3>1, <1>10, AlikePart
    <3> QED  BY <1>5, <1>7, <1>13, <3>2
  <2>4. UintLength(t, second) = m /\ ReadUint(t, second) = ReadUint(s, second)
    BY <1>5, <2>3, SameUint
  <2> DEFINE i == [op |-> op, words |-> <<ReadUint(s, first), ReadUint(s, second)>>,
                     next |-> second + m, bytes |-> <<>>]
  <2>6. Words(op) # 0 /\ Words(op) # 1  BY <1>13
  <2>7. Decode(s, a) = i  BY <1>1, <1>2, <1>3, <1>4, <1>5, <2>6 DEF Decode
  <2>8. Decode(t, a) = i  BY <1>2, <1>4, <1>9, <2>2, <2>4, <2>6 DEF Decode
  <2> QED  BY <1>8, <2>7, <2>8
<1> QED  BY <1>11, <1>12, <1>13, HowManyWords

-----------------------------------------------------------------------------
(* Instructions: they are taken for what they were written for. *)

Bytes(s) == \A k \in 1 .. Len(s) : s[k] \in Byte

LEMMA BytesOf ==
  ASSUME NEW s \in Seq(Byte)
  PROVE  IsSeq(s) /\ Bytes(s)
BY DEF IsSeq, Bytes

\* g became q by writing bytes, and only that.
Adds(g, q) ==
  /\ Grows(g, q) /\ IsWriter(q) /\ Buffers(q)
  /\ q.atoms = g.atoms
  /\ Bytes(Out(g)) => Bytes(Out(q))

LEMMA AddsByWriting ==
  ASSUME NEW g, NEW q, NEW bytes, IsWriter(g), IsSeq(bytes), Wrote(g, q, bytes),
         Buffers(q), Bytes(bytes)
  PROVE  /\ Adds(g, q) /\ Written(Out(q), g.pos, bytes)
         /\ q.pos = g.pos + Len(bytes) /\ Len(bytes) \in Nat /\ g.pos \in Nat
<1>1. Grows(g, q) /\ IsWriter(q)  BY GrowsByWriting
<1>2. q.pos = g.pos + Len(bytes) /\ q.atoms = g.atoms  BY DEF Wrote
<1>3. Continues(Out(q), g, bytes)  BY WroteContinues
<1>4. PICK s, t : s = Out(g) /\ t = Out(q)  OBVIOUS
<1>5. PICK l, n : l = g.pos /\ n = Len(bytes)  OBVIOUS
<1>6. l \in Nat /\ n \in Nat /\ Len(s) = l /\ Len(t) = l + n
  BY <1>1, <1>2, <1>4, <1>5, Positions, Domains
<1>7. (\A k \in 1 .. l : t[k] = s[k]) /\ \A k \in 1 .. n : t[l + k] = bytes[k]
  BY <1>3, <1>4, <1>5 DEF Continues
<1>8. ASSUME Bytes(s)  PROVE Bytes(t)
  <2>1. \A k \in 1 .. l : t[k] \in Byte  BY <1>6, <1>7, <1>8 DEF Bytes
  <2>2. \A k \in 1 .. n : t[l + k] \in Byte  BY <1>5, <1>7 DEF Bytes
  <2>3. ASSUME NEW k \in 1 .. l + n  PROVE t[k] \in Byte
    <3>1. CASE k <= l  BY <2>1, <3>1
    <3>2. CASE ~ (k <= l)
      <4>1. PICK j : j = k - l  OBVIOUS
      <4>2. j \in 1 .. n /\ l + j = k  BY <1>6, <3>2, <4>1
      <4> QED  BY <2>2, <4>2
    <3> QED  BY <3>1, <3>2
  <2> QED  BY <1>6, <2>3 DEF Bytes
<1>9. Written(t, l, bytes)  BY <1>5, <1>7 DEF Written
<1> QED  BY <1>1, <1>2, <1>4, <1>5, <1>6, <1>8, <1>9 DEF Adds

LEMMA AddsTwice ==
  ASSUME NEW g, NEW q, NEW r, IsWriter(g), Adds(g, q), Adds(q, r)
  PROVE  Adds(g, r)
BY GrowsTwice DEF Adds

\* What has been written stays.
LEMMA AddsAlike ==
  ASSUME NEW g, NEW q, IsWriter(g), Adds(g, q), NEW a \in Nat
  PROVE  Alike(Out(g), Out(q), a, g.pos) /\ g.pos \in Nat /\ q.pos \in Nat /\ g.pos <= q.pos
<1>1. g.pos \in Nat /\ q.pos \in Nat  BY Positions DEF Adds
<1>2. g.pos <= q.pos /\ \A k \in 1 .. g.pos : Out(q)[k] = Out(g)[k]
  BY <1>1 DEF Adds, Grows, Extends
<1> QED  BY <1>1, <1>2 DEF Alike

\* One byte for the operation.
LEMMA InstructionWrites ==
  ASSUME NEW g, IsWriter(g), Buffers(g), NEW op \in Operation
  PROVE  LET q == Instruction(g, op)
         IN /\ Adds(g, q) /\ q.pos = g.pos + 1 /\ g.pos \in Nat
            /\ Out(q)[g.pos + 1] = CodeOf(op)
<1>1. PICK byte : byte = CodeOf(op)  OBVIOUS
<1>2. IsSeq(<<byte>>) /\ Len(<<byte>>) = 1  BY Pairs
<1>3. PICK bytes : bytes = <<byte>>  OBVIOUS
<1>4. PICK q : q = Put(g, bytes)  OBVIOUS
<1>5. IsSeq(bytes) /\ Len(bytes) = 1 /\ bytes[1] = byte  BY <1>2, <1>3
<1>6. Len(bytes) <= BufferSize  BY <1>5, GeneratorAssumption
<1>7. Wrote(g, q, bytes) /\ Buffers(q)  BY <1>4, <1>5, <1>6, PutWrites
<1>8. Bytes(bytes)
  <2>1. byte \in Byte  BY <1>1, CodesAreBytes
  <2>2. \A k \in 1 .. 1 : k = 1  OBVIOUS
  <2> QED  BY <1>5, <2>1, <2>2 DEF Bytes
<1>9. /\ Adds(g, q) /\ Written(Out(q), g.pos, bytes)
      /\ q.pos = g.pos + Len(bytes) /\ g.pos \in Nat
  BY <1>5, <1>7, <1>8, AddsByWriting
<1>10. Out(q)[g.pos + 1] = byte  BY <1>3, <1>9, WrittenOne
<1> QED  BY <1>1, <1>3, <1>4, <1>5, <1>9, <1>10 DEF Instruction

\* The operand w, from the address a up to b.
IsUint(s, a, w, b) ==
  /\ a \in Nat /\ b \in Nat /\ a < b
  /\ a + UintLength(s, a) = b /\ ReadUint(s, a) = w

LEMMA UintStays ==
  ASSUME NEW s, NEW t, NEW a, NEW b, NEW w, IsUint(s, a, w, b), Alike(s, t, a, b)
  PROVE  IsUint(t, a, w, b)
<1>1. a \in Nat /\ Alike(s, t, a, a + UintLength(s, a))  BY DEF IsUint
<1>2. UintLength(t, a) = UintLength(s, a) /\ ReadUint(t, a) = ReadUint(s, a)
  BY <1>1, SameUint
<1> QED  BY <1>2 DEF IsUint

LEMMA DigitsAreBytes ==
  ASSUME NEW w \in Operand
  PROVE  Bytes(EncodeUint(w)) /\ Len(EncodeUint(w)) \in {1, 2, 3, 4}
<1>1. w \in Nat /\ w < 268435456  BY DEF Operand
<1>2. CASE w < 128
  <2>1. EncodeUint(w) = <<w>>  BY <1>1, <1>2, OneByte
  <2> QED  BY <1>1, <1>2, <2>1 DEF Bytes, Byte
<1>3. CASE 128 <= w /\ w < Base2
  <2>1. PICK d \in Digit \ {0}, e \in Digit : EncodeUint(w) = <<128 + d, e>>
    BY <1>1, <1>3, TwoBytes
  <2> QED  BY <2>1 DEF Bytes, Byte, Digit
<1>4. CASE Base2 <= w /\ w < Base3
  <2>1. PICK d \in Digit \ {0}, e \in Digit, f \in Digit :
          EncodeUint(w) = <<128 + d, 128 + e, f>>
    BY <1>1, <1>4, ThreeBytes
  <2> QED  BY <2>1 DEF Bytes, Byte, Digit
<1>5. CASE Base3 <= w
  <2>1. PICK d \in Digit \ {0}, e \in Digit, f \in Digit, g \in Digit :
          EncodeUint(w) = <<128 + d, 128 + e, 128 + f, g>>
    BY <1>1, <1>5, FourBytesOfUint
  <2> QED  BY <2>1 DEF Bytes, Byte, Digit
<1> QED  BY <1>1, <1>2, <1>3, <1>4, <1>5 DEF Base2, Base3

LEMMA OperandWrites ==
  ASSUME NEW g, IsWriter(g), Buffers(g), NEW w \in Operand
  PROVE  LET q == PutN(g, EncodeUint(w))
         IN Adds(g, q) /\ IsUint(Out(q), g.pos, w, q.pos)
<1>1. PICK bytes : bytes = EncodeUint(w)  OBVIOUS
<1>2. IsSeq(bytes) /\ Bytes(bytes) /\ Len(bytes) \in {1, 2, 3, 4}
  BY <1>1, Digits, DigitsAreBytes
<1>3. PICK q : q = PutN(g, bytes)  OBVIOUS
<1>4. Wrote(g, q, bytes) /\ Buffers(q)  BY <1>2, <1>3, PutNWrites
<1>5. /\ Adds(g, q) /\ Written(Out(q), g.pos, bytes)
      /\ q.pos = g.pos + Len(bytes) /\ g.pos \in Nat
  BY <1>2, <1>4, AddsByWriting
<1>6. PICK a \in Nat : a = g.pos  BY <1>5
<1>7. UintLength(Out(q), a) = Len(bytes) /\ ReadUint(Out(q), a) = w
  BY <1>1, <1>5, <1>6, UintReadsBack
<1>8. IsUint(Out(q), a, w, q.pos)
  BY <1>2, <1>5, <1>6, <1>7 DEF IsUint
<1> QED  BY <1>1, <1>3, <1>5, <1>6, <1>8

\* The instruction at a: its operation, its operands and the address after it.
Reads(s, a, op, words, b) ==
  LET i == Decode(s, a) IN i.op = op /\ i.words = words /\ i.next = b

LEMMA InstructionReads ==
  ASSUME NEW g, IsWriter(g), Buffers(g), NEW op \in Operation,
         Words(op) = 0, Fixed(op) = 0
  PROVE  LET q == Instruction(g, op)
         IN Adds(g, q) /\ q.pos = g.pos + 1 /\ Reads(Out(q), g.pos, op, <<>>, q.pos)
<1>1. PICK q : q = Instruction(g, op)  OBVIOUS
<1>2. /\ Adds(g, q) /\ q.pos = g.pos + 1 /\ g.pos \in Nat
      /\ Out(q)[g.pos + 1] = CodeOf(op)
  BY <1>1, InstructionWrites
<1>3. PICK a \in Nat, s \in {Out(q)} : a = g.pos /\ s = Out(q)  BY <1>2
<1>4. Opcode(s, a) = op  BY <1>2, <1>3, OpcodeReadsBack
<1>5. Reads(s, a, op, <<>>, a + 1)  BY <1>4, ReadsNone DEF Reads
<1> QED  BY <1>1, <1>2, <1>3, <1>5

LEMMA Instruction1Reads ==
  ASSUME NEW g, IsWriter(g), Buffers(g), NEW op \in Operation, Words(op) = 1,
         NEW w \in Operand
  PROVE  LET q == Instruction1(g, op, w)
         IN Adds(g, q) /\ g.pos < q.pos /\ Reads(Out(q), g.pos, op, <<w>>, q.pos)
<1>1. PICK r : r = Instruction(g, op)  OBVIOUS
<1>2. /\ Adds(g, r) /\ r.pos = g.pos + 1 /\ g.pos \in Nat
      /\ Out(r)[g.pos + 1] = CodeOf(op)
  BY <1>1, InstructionWrites
<1>3. IsWriter(r) /\ Buffers(r)  BY <1>2 DEF Adds
<1>4. PICK q : q = PutN(r, EncodeUint(w))  OBVIOUS
<1>5. Adds(r, q) /\ IsUint(Out(q), r.pos, w, q.pos)  BY <1>3, <1>4, OperandWrites
<1>6. PICK a \in Nat, s \in {Out(q)}, b \in {q.pos} : a = g.pos /\ s = Out(q) /\ b = q.pos  BY <1>2
<1>7. IsUint(s, a + 1, w, b)  BY <1>2, <1>5, <1>6
<1>8. s[a + 1] = CodeOf(op)
  <2>1. Alike(Out(r), s, a, a + 1)  BY <1>2, <1>3, <1>5, <1>6, AddsAlike
  <2>2. a + 1 \in a + 1 .. a + 1  OBVIOUS
  <2> QED  BY <1>2, <1>6, <2>1, <2>2 DEF Alike
<1>9. Opcode(s, a) = op  BY <1>8, OpcodeReadsBack
<1>10. Reads(s, a, op, <<w>>, b)
  <2>1. ReadUint(s, a + 1) = w /\ (a + 1) + UintLength(s, a + 1) = b
    BY <1>7 DEF IsUint
  <2> QED  BY <1>9, <2>1, ReadsOne DEF Reads
<1>11. a < b  BY <1>7 DEF IsUint
<1>12. Adds(g, q)  BY <1>2, <1>5, AddsTwice
<1> QED  BY <1>1, <1>4, <1>6, <1>10, <1>11, <1>12 DEF Instruction1

LEMMA Instruction2Reads ==
  ASSUME NEW g, IsWriter(g), Buffers(g), NEW op \in Operation, Words(op) = 2,
         NEW v \in Operand, NEW w \in Operand
  PROVE  LET q == Instruction2(g, op, v, w)
         IN Adds(g, q) /\ g.pos < q.pos /\ Reads(Out(q), g.pos, op, <<v, w>>, q.pos)
<1>1. PICK r : r = Instruction(g, op)  OBVIOUS
<1>2. /\ Adds(g, r) /\ r.pos = g.pos + 1 /\ g.pos \in Nat
      /\ Out(r)[g.pos + 1] = CodeOf(op)
  BY <1>1, InstructionWrites
<1>3. IsWriter(r) /\ Buffers(r)  BY <1>2 DEF Adds
<1>4. PICK t : t = PutN(r, EncodeUint(v))  OBVIOUS
<1>5. Adds(r, t) /\ IsUint(Out(t), r.pos, v, t.pos)  BY <1>3, <1>4, OperandWrites
<1>6. IsWriter(t) /\ Buffers(t)  BY <1>5 DEF Adds
<1>7. PICK q : q = PutN(t, EncodeUint(w))  OBVIOUS
<1>8. Adds(t, q) /\ IsUint(Out(q), t.pos, w, q.pos)  BY <1>6, <1>7, OperandWrites
<1>9. Adds(r, q)  BY <1>3, <1>5, <1>8, AddsTwice
<1>10. Adds(g, q)  BY <1>2, <1>9, AddsTwice
<1>11. PICK a \in Nat, s \in {Out(q)}, b \in {q.pos}, m \in {t.pos} :
         a = g.pos /\ s = Out(q) /\ b = q.pos /\ m = t.pos
  BY <1>2
<1>12. IsUint(s, a + 1, v, m)
  <2>1. Alike(Out(t), s, a + 1, m)  BY <1>6, <1>8, <1>11, AddsAlike
  <2>2. IsUint(Out(t), a + 1, v, m)  BY <1>2, <1>5, <1>11
  <2> QED  BY <2>1, <2>2, UintStays
<1>13. IsUint(s, m, w, b)  BY <1>8, <1>11
<1>14. s[a + 1] = CodeOf(op)
  <2>1. Alike(Out(r), s, a, a + 1)  BY <1>2, <1>3, <1>9, <1>11, AddsAlike
  <2>2. a + 1 \in a + 1 .. a + 1  OBVIOUS
  <2> QED  BY <1>2, <1>11, <2>1, <2>2 DEF Alike
<1>15. Opcode(s, a) = op  BY <1>14, OpcodeReadsBack
<1>16. Reads(s, a, op, <<v, w>>, b)
  <2>1. /\ ReadUint(s, a + 1) = v /\ (a + 1) + UintLength(s, a + 1) = m
        /\ ReadUint(s, m) = w /\ m + UintLength(s, m) = b
    BY <1>12, <1>13 DEF IsUint
  <2> QED  BY <1>15, <2>1, ReadsTwo DEF Reads
<1>17. a < b  BY <1>12, <1>13 DEF IsUint
<1> QED  BY <1>1, <1>4, <1>7, <1>10, <1>11, <1>16, <1>17 DEF Instruction1, Instruction2

LEMMA NumberReads ==
  ASSUME NEW g, IsWriter(g), Buffers(g), NEW bytes \in Seq(Byte), Len(bytes) = 8
  PROVE  LET q == Number(g, bytes)
         IN /\ Adds(g, q) /\ q.pos = g.pos + 9
            /\ Reads(Out(q), g.pos, "ALLOC_REAL", <<>>, q.pos)
            /\ Decode(Out(q), g.pos).bytes = bytes
<1>1. "ALLOC_REAL" \in Operation  BY DEF Operation, Opcodes, ToSet
<1>2. PICK r : r = Instruction(g, "ALLOC_REAL")  OBVIOUS
<1>3. /\ Adds(g, r) /\ r.pos = g.pos + 1 /\ g.pos \in Nat
      /\ Out(r)[g.pos + 1] = CodeOf("ALLOC_REAL")
  BY <1>1, <1>2, InstructionWrites
<1>4. IsWriter(r) /\ Buffers(r)  BY <1>3 DEF Adds
<1>5. IsSeq(bytes) /\ Bytes(bytes)  BY BytesOf
<1>6. PICK q : q = PutN(r, bytes)  OBVIOUS
<1>7. Wrote(r, q, bytes) /\ Buffers(q)  BY <1>4, <1>5, <1>6, PutNWrites
<1>8. Adds(r, q) /\ Written(Out(q), r.pos, bytes) /\ q.pos = r.pos + Len(bytes)
  BY <1>4, <1>5, <1>7, AddsByWriting
<1>9. Adds(g, q)  BY <1>3, <1>8, AddsTwice
<1>10. PICK a \in Nat, s \in {Out(q)} : a = g.pos /\ s = Out(q)  BY <1>3
<1>11. q.pos = (a + 1) + 8 /\ r.pos = a + 1  BY <1>3, <1>8, <1>10
<1>12. s[a + 1] = CodeOf("ALLOC_REAL")
  <2>1. Alike(Out(r), s, a, a + 1)  BY <1>3, <1>4, <1>8, <1>10, AddsAlike
  <2>2. a + 1 \in a + 1 .. a + 1  OBVIOUS
  <2> QED  BY <1>3, <1>10, <2>1, <2>2 DEF Alike
<1>13. Opcode(s, a) = "ALLOC_REAL"  BY <1>1, <1>12, OpcodeReadsBack
<1>14. Words("ALLOC_REAL") = 0 /\ Fixed("ALLOC_REAL") = 8  BY DEF Words, Plain, Fixed
<1>15. SubSeq(s, (a + 1) + 1, (a + 1) + 8) = bytes
  <2>1. IsSeq(s) /\ Len(s) = (a + 1) + 8
    <3>1. IsWriter(q)  BY <1>8 DEF Adds
    <3>2. IsSeq(Out(q)) /\ Len(Out(q)) = q.pos  BY <3>1, Positions
    <3> QED  BY <1>10, <1>11, <3>2
  <2>2. \A k \in 1 .. Len(bytes) : s[(a + 1) + k] = bytes[k]
    BY <1>8, <1>10, <1>11 DEF Written
  <2>3. SubSeq(s, (a + 1) + 1, (a + 1) + Len(bytes)) = bytes
    BY <1>5, <2>1, <2>2, SamePart
  <2> QED  BY <2>3
<1>16. Reads(s, a, "ALLOC_REAL", <<>>, (a + 1) + 8) /\ Decode(s, a).bytes = bytes
  <2>1. /\ Decode(s, a).op = "ALLOC_REAL" /\ Decode(s, a).words = <<>>
        /\ Decode(s, a).next = (a + 1) + 8
        /\ Decode(s, a).bytes = SubSeq(s, (a + 1) + 1, (a + 1) + 8)
    <3>1. Words(Opcode(s, a)) = 0 /\ Fixed(Opcode(s, a)) = 8  BY <1>13, <1>14
    <3> QED  BY ONLY <1>13, <3>1, ReadsNone
  <2> QED  BY <1>15, <2>1 DEF Reads
<1> QED  BY <1>2, <1>6, <1>9, <1>10, <1>11, <1>16 DEF Number

LEMMA PlaceholderReads ==
  ASSUME NEW g, IsWriter(g), Buffers(g)
  PROVE  LET q == Placeholder(g)
         IN /\ Adds(g, q) /\ q.pos = g.pos + 5
            /\ Reads(Out(q), g.pos, "RJMP_U4", <<>>, q.pos)
<1>1. PICK byte : byte = CodeOf("RJMP_U4")  OBVIOUS
<1>2. PICK bytes : bytes = <<byte, 0, 0, 0, 0>>  OBVIOUS
<1>3. "RJMP_U4" \in Operation  BY DEF Operation, Opcodes, ToSet
<1>4. byte \in Byte  BY <1>1, <1>3, CodesAreBytes
<1>5. bytes \in Seq(Byte)  BY <1>2, <1>4 DEF Byte
<1>6. Len(bytes) = 5 /\ bytes[1] = byte  BY <1>2
<1>7. IsSeq(bytes) /\ Bytes(bytes)  BY <1>5, BytesOf
<1>8. PICK q : q = Put(g, bytes)  OBVIOUS
<1>9. Len(bytes) <= BufferSize  BY <1>6, GeneratorAssumption
<1>10. Wrote(g, q, bytes) /\ Buffers(q)  BY <1>7, <1>8, <1>9, PutWrites
<1>11. /\ Adds(g, q) /\ Written(Out(q), g.pos, bytes)
       /\ q.pos = g.pos + Len(bytes) /\ g.pos \in Nat
  BY <1>7, <1>10, AddsByWriting
<1>12. PICK a \in Nat, s \in {Out(q)} : a = g.pos /\ s = Out(q)  BY <1>11
<1>13. s[a + 1] = byte
  <2>1. 1 \in 1 .. Len(bytes)  BY <1>6
  <2> QED  BY <1>6, <1>11, <1>12, <2>1 DEF Written
<1>14. Opcode(s, a) = "RJMP_U4"  BY <1>1, <1>3, <1>13, OpcodeReadsBack
<1>15. Words("RJMP_U4") = 0 /\ Fixed("RJMP_U4") = 4  BY DEF Words, Plain, Fixed
<1>16. Reads(s, a, "RJMP_U4", <<>>, (a + 1) + 4)
  BY <1>14, <1>15, ReadsNone DEF Reads
<1>17. q.pos = a + 5 /\ (a + 1) + 4 = a + 5  BY <1>6, <1>11, <1>12
<1> QED  BY <1>1, <1>2, <1>8, <1>11, <1>12, <1>16, <1>17 DEF Placeholder

-----------------------------------------------------------------------------
(* The numbers of names. *)

\* Every set of natural numbers that is not empty has a least element.
LEMMA LeastOf ==
  ASSUME NEW A \in SUBSET Nat, A # {}
  PROVE  \E i \in A : \A j \in A : i <= j
<1>1. PICK x \in A : \A y \in A : ~(<<y, x>> \in OpToRel(<, Nat))
  BY NatLessThanWellFounded, WFMin
<1>2. ASSUME NEW y \in A, y < x  PROVE FALSE
  BY <1>1, <1>2 DEF OpToRel
<1> QED  BY <1>2

\* Every name comes for a first time.
LEMMA FirstTimeOf ==
  ASSUME NEW names, IsSeq(names), NEW n \in DOMAIN names
  PROVE  \E k \in FirstTimes(names) : names[k] = names[n]
<1>1. PICK A : A = {k \in DOMAIN names : names[k] = names[n]}  OBVIOUS
<1>2. A \in SUBSET Nat /\ n \in A
  <2>1. DOMAIN names = 1 .. Len(names)  BY Domains
  <2> QED  BY <1>1, <2>1
<1>3. PICK k \in A : \A j \in A : k <= j  BY <1>2, LeastOf
<1>4. ASSUME NEW j \in DOMAIN names, j < k  PROVE names[j] # names[k]
  <2>1. j \in Nat /\ k \in Nat  BY <1>1, <1>2, <1>3, Domains
  <2>2. j \notin A  BY <1>3, <1>4, <2>1
  <2> QED  BY <1>1, <2>2
<1>5. k \in FirstTimes(names)  BY <1>1, <1>4 DEF FirstTimes
<1> QED  BY <1>1, <1>5

\* The first times are numbered from 1 on, each number is that of one of them.
LEMMA FirstTimesNumbered ==
  ASSUME NEW names, IsSeq(names)
  PROVE  LET F == FirstTimes(names)
         IN /\ Cardinality(F) \in Nat
            /\ \A id \in 1 .. Cardinality(F) : \E n \in F : NumberAt(names, n) = id
            /\ \A n \in F : NumberAt(names, n) \in 1 .. Cardinality(F)
            /\ \A m, n \in F : NumberAt(names, m) = NumberAt(names, n) => m = n
<1>1. PICK F, l : F = FirstTimes(names) /\ l = Len(names)  OBVIOUS
<1>2. l \in Nat /\ F \in SUBSET (1 .. l)  BY <1>1, Domains DEF FirstTimes
<1>3. IsFiniteSet(F)
  <2>1. 1 \in Int /\ l \in Int  BY <1>2
  <2>2. IsFiniteSet(1 .. l)  BY <2>1, FS_Interval
  <2> QED  BY <1>2, <2>2, FS_Subset
<1>4. PICK c \in Nat : c = Cardinality(F)  BY <1>3, FS_CardinalityType
<1> DEFINE Upto(n) == {k \in F : k <= n}
<1>5. ASSUME NEW n \in F
      PROVE  /\ IsFiniteSet(Upto(n)) /\ Cardinality(Upto(n)) \in 1 .. c
             /\ NumberAt(names, n) = Cardinality(Upto(n))
  <2>1. Upto(n) \in SUBSET F  OBVIOUS
  <2>2. IsFiniteSet(Upto(n)) /\ Cardinality(Upto(n)) <= c  BY <1>3, <1>4, <2>1, FS_Subset
  <2>3. n \in Upto(n)  BY <1>2
  <2>4. Cardinality(Upto(n)) \in Nat  BY <2>2, FS_CardinalityType
  <2>5. Cardinality(Upto(n)) # 0  BY <2>2, <2>3, FS_EmptySet
  <2>6. NumberAt(names, n) = Cardinality(Upto(n))  BY <1>1 DEF NumberAt
  <2> HIDE DEF Upto
  <2> QED  BY <2>2, <2>4, <2>5, <2>6
<1>6. ASSUME NEW m \in F, NEW n \in F, m < n
      PROVE  Cardinality(Upto(m)) # Cardinality(Upto(n))
  <2>1. m \in Nat /\ n \in Nat /\ F \subseteq Nat  BY <1>2
  <2>2. Upto(m) \in SUBSET Upto(n)
    <3>1. ASSUME NEW k \in F, k <= m  PROVE k <= n  BY <1>6, <2>1, <3>1
    <3> QED  BY <3>1
  <2>3. n \in Upto(n) /\ n \notin Upto(m)  BY <1>6, <2>1
  <2>4. IsFiniteSet(Upto(n))  BY <1>5
  <2> HIDE DEF Upto
  <2> QED  BY <2>2, <2>3, <2>4, FS_Subset
<1> HIDE DEF Upto
<1>7. \A m, n \in F : NumberAt(names, m) = NumberAt(names, n) => m = n
  <2>1. ASSUME NEW m \in F, NEW n \in F, NumberAt(names, m) = NumberAt(names, n), m # n
        PROVE  FALSE
    <3>1. m \in Nat /\ n \in Nat  BY <1>2
    <3>2. m < n \/ n < m  BY <2>1, <3>1
    <3> QED  BY <1>5, <1>6, <2>1, <3>2
  <2> QED  BY <2>1
<1>8. PICK r : r = [n \in F |-> NumberAt(names, n)]  OBVIOUS
<1>9. r \in Injection(F, 1 .. c)
  <2>1. r \in [F -> 1 .. c]  BY <1>5, <1>8
  <2>2. IsInjective(r)  BY <1>7, <1>8 DEF IsInjective
  <2> QED  BY <2>1, <2>2 DEF Injection
<1>10. IsFiniteSet(1 .. c) /\ Cardinality(1 .. c) = c
  <2>1. 1 \in Int /\ c \in Int  OBVIOUS
  <2>2. IsFiniteSet(1 .. c) /\ Cardinality(1 .. c) = IF 1 > c THEN 0 ELSE c - 1 + 1
    BY <2>1, FS_Interval
  <2> QED  BY <2>2
<1>11. r \in Surjection(F, 1 .. c)  BY <1>4, <1>9, <1>10, FS_Injection
<1>12. \A id \in 1 .. c : \E n \in F : NumberAt(names, n) = id
  BY <1>8, <1>11 DEF Surjection
<1> QED  BY <1>1, <1>4, <1>5, <1>7, <1>12

\* No name is interned twice, and every name is.
LEMMA InternedNames ==
  ASSUME NEW names, IsSeq(names)
  PROVE  /\ IsSeq(Interned(names)) /\ IsInjective(Interned(names))
         /\ \A n \in DOMAIN names : \E id \in DOMAIN Interned(names) :
              Interned(names)[id] = names[n]
<1>1. PICK F : F = FirstTimes(names)  OBVIOUS
<1>2. PICK c \in Nat : c = Cardinality(F)  BY <1>1, FirstTimesNumbered
<1>3. /\ \A id \in 1 .. c : \E n \in F : NumberAt(names, n) = id
      /\ \A n \in F : NumberAt(names, n) \in 1 .. c
      /\ \A m, n \in F : NumberAt(names, m) = NumberAt(names, n) => m = n
  BY <1>1, <1>2, FirstTimesNumbered
<1>4. PICK at : at = [id \in 1 .. c |-> CHOOSE n \in F : NumberAt(names, n) = id]  OBVIOUS
<1>5. \A id \in 1 .. c : at[id] \in F /\ NumberAt(names, at[id]) = id
  <2>1. ASSUME NEW id \in 1 .. c  PROVE at[id] \in F /\ NumberAt(names, at[id]) = id
    <3>1. at[id] = CHOOSE n \in F : NumberAt(names, n) = id  BY <1>4
    <3>2. \E n \in F : NumberAt(names, n) = id  BY <1>3
    <3> QED  BY <3>1, <3>2
  <2> QED  BY <2>1
<1>6. PICK s : s = [id \in 1 .. c |-> names[at[id]]]  OBVIOUS
<1>7. s = Interned(names)
  <2>1. Interned(names) = [id \in 1 .. c |->
                            names[CHOOSE n \in F : NumberAt(names, n) = id]]
    BY <1>1, <1>2 DEF Interned
  <2> QED  BY <1>4, <1>6, <2>1
<1>8. IsSeq(s)
  <2>1. s \in [1 .. c -> {s[id] : id \in 1 .. c}]  BY <1>6
  <2>2. s \in Seq({s[id] : id \in 1 .. c})  BY <2>1, SeqDef
  <2> QED  BY <2>2, Zenon DEF IsSeq
<1>9. IsInjective(s)
  <2>1. ASSUME NEW i \in 1 .. c, NEW j \in 1 .. c, s[i] = s[j]  PROVE i = j
    <3>1. PICK m \in F, n \in F : m = at[i] /\ n = at[j]  BY <1>5
    <3>2. names[m] = names[n]  BY <1>6, <2>1, <3>1
    <3>3. m = n
      <4>1. m \in DOMAIN names /\ n \in DOMAIN names
        BY <1>1 DEF FirstTimes
      <4>2. m \in Nat /\ n \in Nat  BY <4>1, Domains
      <4>3. ~ (m < n) /\ ~ (n < m)  BY <1>1, <3>2, <4>1 DEF FirstTimes
      <4> QED  BY <4>2, <4>3
    <3> QED  BY <1>5, <3>1, <3>3
  <2>2. DOMAIN s = 1 .. c  BY <1>6
  <2> QED  BY <2>1, <2>2 DEF IsInjective
<1>10. ASSUME NEW n \in DOMAIN names  PROVE \E id \in DOMAIN s : s[id] = names[n]
  <2>1. PICK k \in F : names[k] = names[n]  BY <1>1, FirstTimeOf
  <2>2. PICK id \in 1 .. c : id = NumberAt(names, k)  BY <1>3
  <2>3. at[id] = k  BY <1>3, <1>5, <2>2
  <2> QED  BY <1>6, <2>1, <2>3
<1> QED  BY <1>7, <1>8, <1>9, <1>10

\* A name in either half of a row is in the row.
IsRow(r, s, t) == IsSeq(s) /\ IsSeq(t) /\ r = s \o t

LEMMA NamesJoin ==
  ASSUME NEW r, NEW s, NEW t, IsRow(r, s, t)
  PROVE  /\ IsSeq(r)
         /\ \A n \in DOMAIN s : \E k \in DOMAIN r : r[k] = s[n]
         /\ \A n \in DOMAIN t : \E k \in DOMAIN r : r[k] = t[n]
<1>1. IsSeq(s) /\ IsSeq(t) /\ r = s \o t  BY DEF IsRow
<1>2. /\ IsSeq(r) /\ Len(r) = Len(s) + Len(t)
      /\ \A k \in 1 .. Len(s) : r[k] = s[k]
      /\ \A k \in 1 .. Len(t) : r[Len(s) + k] = t[k]
  BY <1>1, Joins
<1>3. PICK l \in Nat, m \in Nat : l = Len(s) /\ m = Len(t)  BY <1>1, Domains
<1>4. DOMAIN s = 1 .. l /\ DOMAIN t = 1 .. m /\ DOMAIN r = 1 .. l + m
  BY <1>1, <1>2, <1>3, Domains
<1>5. \A n \in 1 .. l : n \in 1 .. l + m  BY <1>3
<1>6. \A n \in 1 .. m : l + n \in 1 .. l + m  BY <1>3
<1> QED  BY <1>1, <1>2, <1>3, <1>4, <1>5, <1>6

\* The machine knows print, and every C module by its name.
LEMMA MachineNames ==
  /\ IsSeq(MachineAtoms) /\ IsInjective(MachineAtoms)
  /\ \A name \in {"print"} \cup CModules :
       \E id \in DOMAIN MachineAtoms : MachineAtoms[id] = name
<1>1. PICK first : first = <<"true", "false", "stop">>  OBVIOUS
<1>2. PICK s : s = first \o BuiltinNames  OBVIOUS
<1>3. InitialNames = s \o ModuleNames  BY <1>1, <1>2 DEF InitialNames
<1>4. IsSeq(BuiltinNames) /\ IsSeq(ModuleNames)  BY NamesAssumption, Zenon DEF IsSeq
<1>5. IsSeq(first)
  <2>1. first \in Seq({"true", "false", "stop"})  BY <1>1
  <2> QED  BY <2>1, Zenon DEF IsSeq
<1>6. IsSeq(s) /\ \A n \in DOMAIN BuiltinNames : \E k \in DOMAIN s : s[k] = BuiltinNames[n]
  <2>1. IsRow(s, first, BuiltinNames)  BY <1>2, <1>4, <1>5 DEF IsRow
  <2> QED  BY <2>1, NamesJoin
<1>7. PICK names : names = InitialNames  OBVIOUS
<1>8. /\ IsSeq(names)
      /\ \A n \in DOMAIN s : \E k \in DOMAIN names : names[k] = s[n]
      /\ \A n \in DOMAIN ModuleNames : \E k \in DOMAIN names : names[k] = ModuleNames[n]
  <2>1. IsRow(names, s, ModuleNames)  BY <1>3, <1>4, <1>6, <1>7 DEF IsRow
  <2> QED  BY <2>1, NamesJoin
<1>9. PICK atoms : atoms = MachineAtoms  OBVIOUS
<1>10. /\ IsSeq(atoms) /\ IsInjective(atoms)
       /\ \A n \in DOMAIN names : \E id \in DOMAIN atoms : atoms[id] = names[n]
  BY <1>7, <1>8, <1>9, InternedNames DEF MachineAtoms
<1>11. \E id \in DOMAIN atoms : atoms[id] = "print"
  <2>1. PICK n \in 1 .. Len(BuiltinNames) : BuiltinNames[n] = "print"
    BY NamesAssumption DEF Contains
  <2>2. n \in DOMAIN BuiltinNames  BY <1>4, Domains
  <2>3. PICK k \in DOMAIN s : s[k] = "print"  BY <1>6, <2>1, <2>2
  <2>4. PICK j \in DOMAIN names : names[j] = "print"  BY <1>8, <2>3
  <2> QED  BY <1>10, <2>4
<1>12. ASSUME NEW name \in CModules  PROVE \E id \in DOMAIN atoms : atoms[id] = name
  <2>1. name \in {ModuleNames[n] : n \in DOMAIN ModuleNames}
    BY NamesAssumption DEF ToSet
  <2>2. PICK n \in DOMAIN ModuleNames : ModuleNames[n] = name  BY <2>1
  <2>3. PICK j \in DOMAIN names : names[j] = name  BY <1>8, <2>2
  <2> QED  BY <1>10, <2>3
<1> QED  BY <1>9, <1>10, <1>11, <1>12

\* The generator's numbers are the machine's as far as the machine has any.
Atoms(g) ==
  /\ IsSeq(g.atoms) /\ IsInjective(g.atoms)
  /\ \A id \in DOMAIN MachineAtoms :
       id \in DOMAIN g.atoms /\ g.atoms[id] = MachineAtoms[id]

\* The number n of the name.
IsId(g, name, n) == n \in DOMAIN g.atoms /\ g.atoms[n] = name

\* What only adds to the names and to the strings.
Widens(g, q) ==
  /\ Out(q) = Out(g) /\ q.pos = g.pos /\ q.relocs = g.relocs
  /\ \A n \in DOMAIN g.atoms : n \in DOMAIN q.atoms /\ q.atoms[n] = g.atoms[n]
  /\ \A n \in DOMAIN g.strings : n \in DOMAIN q.strings /\ q.strings[n] = g.strings[n]

LEMMA KnownId ==
  ASSUME NEW g, NEW name, \E n \in DOMAIN g.atoms : g.atoms[n] = name
  PROVE  IsId(g, name, Id(g, name))
BY DEF IsId, Id

\* A name that has a number keeps it, one that has none gets one that is free.
LEMMA NamedNumbers ==
  ASSUME NEW g, IsWriter(g), Buffers(g), Atoms(g), NEW name
  PROVE  LET q == Named(g, name)
         IN /\ IsWriter(q) /\ Buffers(q) /\ Atoms(q) /\ Widens(g, q)
            /\ q.strings = g.strings /\ IsId(q, name, Id(q, name))
<1>1. g = [f \in Fields |-> g[f]] /\ IsSeq(g.atoms)  BY DEF IsWriter, Atoms
<1>2. CASE Contains(g.atoms, name)
  <2>1. Named(g, name) = g  BY <1>2 DEF Named
  <2>2. Widens(g, g)  BY DEF Widens
  <2>3. IsId(g, name, Id(g, name))
    <3>1. PICK n \in 1 .. Len(g.atoms) : g.atoms[n] = name  BY <1>2 DEF Contains
    <3>2. n \in DOMAIN g.atoms  BY <1>1, Domains
    <3> QED  BY <3>1, <3>2, KnownId
  <2> QED  BY <2>1, <2>2, <2>3
<1>3. CASE ~Contains(g.atoms, name)
  <2>1. PICK q, old, atoms : /\ old = g.atoms /\ atoms = Append(old, name)
                             /\ q = [g EXCEPT !.atoms = atoms]
    OBVIOUS
  <2>2. q = Named(g, name)  BY <1>3, <2>1 DEF Named
  <2>3. /\ q.mem = g.mem /\ q.buf = g.buf /\ q.pos = g.pos /\ q.atoms = atoms
        /\ q.strings = g.strings /\ q.relocs = g.relocs
    BY <1>1, <2>1 DEF Fields
  <2>4. IsWriter(q) /\ Buffers(q)  BY <2>2, NamedGrows
  <2>5. /\ IsSeq(atoms) /\ Len(atoms) = Len(old) + 1
        /\ \A k \in 1 .. Len(old) : atoms[k] = old[k]
        /\ atoms[Len(old) + 1] = name
    BY <1>1, <2>1, Appends
  <2>6. PICK l \in Nat : l = Len(old)  BY <1>1, <2>1, Domains
  <2>7. DOMAIN old = 1 .. l /\ DOMAIN atoms = 1 .. l + 1
    BY <1>1, <2>1, <2>5, <2>6, Domains
  <2>8. \A n \in 1 .. l : n \in 1 .. l + 1 /\ atoms[n] = old[n] /\ old[n] # name
    <3>1. \A n \in 1 .. l : old[n] # name  BY <1>3, <2>1, <2>6 DEF Contains
    <3> QED  BY <2>5, <2>6, <3>1
  <2>9. atoms[l + 1] = name /\ l + 1 \in 1 .. l + 1  BY <2>5, <2>6
  <2>10. IsInjective(atoms)
    <3>1. ASSUME NEW i \in 1 .. l + 1, NEW j \in 1 .. l + 1, atoms[i] = atoms[j]
          PROVE  i = j
      <4>1. i \in 1 .. l \/ i = l + 1  OBVIOUS
      <4>2. j \in 1 .. l \/ j = l + 1  OBVIOUS
      <4>3. CASE i \in 1 .. l /\ j \in 1 .. l
        <5>1. old[i] = old[j]  BY <2>8, <3>1, <4>3
        <5>2. IsInjective(old)  BY <2>1 DEF Atoms
        <5> QED  BY <2>7, <4>3, <5>1, <5>2 DEF IsInjective
      <4>4. CASE ~ (i \in 1 .. l /\ j \in 1 .. l)
        BY <2>8, <2>9, <3>1, <4>1, <4>2, <4>4
      <4> QED  BY <4>3, <4>4
    <3> QED  BY <2>7, <3>1 DEF IsInjective
  <2>11. \A n \in DOMAIN old : n \in DOMAIN atoms /\ atoms[n] = old[n]
    BY <2>7, <2>8
  <2>12. Atoms(q)  BY <2>1, <2>3, <2>5, <2>10, <2>11 DEF Atoms
  <2>13. Widens(g, q)
    <3>1. Out(q) = Out(g)  BY <2>3 DEF Out
    <3> QED  BY <2>1, <2>3, <2>11, <3>1 DEF Widens
  <2>14. IsId(q, name, Id(q, name))
    <3>1. l + 1 \in DOMAIN q.atoms /\ q.atoms[l + 1] = name  BY <2>3, <2>7, <2>9
    <3> QED  BY <3>1, KnownId
  <2> QED  BY <2>2, <2>3, <2>4, <2>12, <2>13, <2>14
<1> QED  BY <1>2, <1>3

-----------------------------------------------------------------------------
(* The invariant of the output. *)

\* gil_gen_halt, and the end of writing.
LEMMA HaltedGrows ==
  ASSUME NEW g, IsWriter(g), Buffers(g)
  PROVE  LET q == Halted(g)
         IN Grows(g, q) /\ IsWriter(q) /\ Buffers(q) /\ q.pos = g.pos + 1
            /\ q.buf = <<>>
<1>1. PICK r : r = Instruction(g, "HALT")  OBVIOUS
<1>2. Grows(g, r) /\ IsWriter(r) /\ Buffers(r) /\ r.pos = g.pos + 1
  BY <1>1, InstructionGrows
<1>3. PICK q : q = Flush(r)  OBVIOUS
<1>4. Wrote(r, q, <<>>) /\ q.buf = <<>> /\ q.pos = r.pos  BY <1>2, <1>3, FlushWrites
<1>5. Buffers(q)  BY <1>4, Nothing, GeneratorAssumption DEF Buffers
<1>6. Grows(r, q) /\ IsWriter(q)  BY <1>2, <1>4, <1>5, Nothing, GrowsByWriting
<1>7. Grows(g, q)  BY <1>2, <1>6, GrowsTwice
<1> QED  BY <1>1, <1>2, <1>3, <1>4, <1>5, <1>6, <1>7 DEF Halted

\* When a line is about to be printed, its HALT is about to be taken back: the
\* strings are in front of it.
Limit(ph, g) == IF ph = "printing" THEN g.pos - 1 ELSE g.pos

Sound(ph, g, o) ==
  /\ IsWriter(g) /\ Buffers(g)
  /\ ph # "reading" => g.buf = <<>>
  /\ ph = "printing" => g.pos >= 1
  /\ Kept(g, o, Limit(ph, g))

SessionInv == Sound(phase, gen, open)

LEMMA SoundParts ==
  ASSUME NEW ph, NEW g, NEW o, Sound(ph, g, o)
  PROVE  /\ IsWriter(g) /\ Buffers(g) /\ g.pos \in Nat
         /\ ph # "reading" => g.buf = <<>>
         /\ ph # "printing" => Kept(g, o, g.pos)
BY Positions DEF Sound, Limit

\* The parser calls the generator.
LEMMA ReadingGrows ==
  ASSUME NEW g, NEW q, NEW o, Sound("reading", g, o), Grows(g, q)
  PROVE  Sound("reading", q, o)
<1>1. IsWriter(g) /\ Kept(g, o, g.pos)  BY SoundParts
<1>2. IsWriter(q) /\ Buffers(q)  BY DEF Grows, Extends
<1>3. Kept(q, o, q.pos)  BY <1>1, KeepsGrowing
<1> QED  BY <1>2, <1>3 DEF Sound, Limit

LEMMA ReadingInstruction ==
  ASSUME NEW g, NEW o, NEW op, Sound("reading", g, o)
  PROVE  Sound("reading", Instruction(g, op), o)
<1>1. IsWriter(g) /\ Buffers(g)  BY SoundParts
<1>2. PICK q : q = Instruction(g, op)  OBVIOUS
<1>3. Grows(g, q)  BY <1>1, <1>2, InstructionGrows
<1> QED  BY <1>2, <1>3, ReadingGrows

LEMMA ReadingInstruction1 ==
  ASSUME NEW g, NEW o, NEW op, NEW w, Sound("reading", g, o)
  PROVE  Sound("reading", Instruction1(g, op, w), o)
<1>1. IsWriter(g) /\ Buffers(g)  BY SoundParts
<1>2. PICK q : q = Instruction1(g, op, w)  OBVIOUS
<1>3. Grows(g, q)  BY <1>1, <1>2, Instruction1Grows
<1> QED  BY <1>2, <1>3, ReadingGrows

LEMMA ReadingInstruction2 ==
  ASSUME NEW g, NEW o, NEW op, NEW v, NEW w, Sound("reading", g, o)
  PROVE  Sound("reading", Instruction2(g, op, v, w), o)
<1>1. IsWriter(g) /\ Buffers(g)  BY SoundParts
<1>2. PICK q : q = Instruction2(g, op, v, w)  OBVIOUS
<1>3. Grows(g, q)  BY <1>1, <1>2, Instruction2Grows
<1> QED  BY <1>2, <1>3, ReadingGrows

LEMMA ReadingNamed ==
  ASSUME NEW g, NEW o, NEW name, Sound("reading", g, o)
  PROVE  Sound("reading", Named(g, name), o)
<1>1. IsWriter(g) /\ Buffers(g)  BY SoundParts
<1>2. PICK q : q = Named(g, name)  OBVIOUS
<1>3. Grows(g, q)  BY <1>1, <1>2, NamedGrows
<1> QED  BY <1>2, <1>3, ReadingGrows

LEMMA ReadingString ==
  ASSUME NEW g, NEW o, NEW string, IsSeq(string), Sound("reading", g, o)
  PROVE  Sound("reading", StringData(g, string), o)
<1>1. IsWriter(g) /\ Buffers(g) /\ Kept(g, o, g.pos)  BY SoundParts
<1>2. PICK q : q = StringData(g, string)  OBVIOUS
<1>3. IsWriter(q) /\ Buffers(q) /\ Kept(q, o, q.pos)
  BY <1>1, <1>2, StringDataKeeps
<1> QED  BY <1>2, <1>3 DEF Sound, Limit

\* A jump over a body, and the hole in it.
LEMMA ReadingOpens ==
  ASSUME NEW g, NEW o, NEW body, Sound("reading", g, o), body.reloc = g.pos + 1
  PROVE  Sound("reading", Placeholder(g), Append(o, body))
<1>1. IsWriter(g) /\ Buffers(g) /\ g.pos \in Nat /\ Kept(g, o, g.pos)  BY SoundParts
<1>2. PICK q : q = Placeholder(g)  OBVIOUS
<1>3. Grows(g, q) /\ IsWriter(q) /\ Buffers(q) /\ q.pos = g.pos + 5
  BY <1>1, <1>2, PlaceholderGrows
<1>4. Kept(q, o, q.pos)  BY <1>1, <1>3, KeepsGrowing
<1>5. PICK from, to, p : from = g.pos /\ to = q.pos /\ p = body.reloc  OBVIOUS
<1>6. from \in Nat /\ to = from + 5 /\ p = from + 1  BY <1>1, <1>3, <1>5
<1>7. Apart(q, p, to)
  <2>1. q.strings = g.strings  BY <1>3 DEF Grows, Extends, SameRest
  <2>2. ASSUME NEW n \in DOMAIN g.strings
        PROVE  g.strings[n].pos + Len(g.strings[n].string) <= p
    <3>1. PICK at, len : at = g.strings[n].pos /\ len = Len(g.strings[n].string)
      OBVIOUS
    <3>2. StringAt(g, g.strings[n], from)  BY <1>1, <1>5 DEF Kept
    <3>3. at \in Nat /\ len \in Nat /\ at + len <= from
      BY <3>1, <3>2, Domains DEF StringAt
    <3> QED  BY <1>6, <3>1, <3>3
  <2> QED  BY <1>6, <2>1, <2>2 DEF Apart
<1>8. PICK u : u = Append(o, body)  OBVIOUS
<1>9. IsSeq(o) /\ IsSeq(q.relocs)  BY <1>4 DEF Kept
<1>10. /\ IsSeq(u) /\ Len(u) = Len(o) + 1
       /\ \A k \in 1 .. Len(o) : u[k] = o[k]
       /\ u[Len(o) + 1] = body
  BY <1>8, <1>9, Appends
<1>11. Len(o) \in Nat /\ DOMAIN o = 1 .. Len(o) /\ DOMAIN u = 1 .. Len(u)
  BY <1>9, <1>10, Domains
<1>12. \A n \in DOMAIN u : (n \in DOMAIN o /\ u[n] = o[n]) \/ u[n] = body
  BY <1>10, <1>11
<1>13. \A r \in Holes(q, u) : r \in Holes(q, o) \/ Apart(q, r, to)
  BY <1>5, <1>7, <1>12 DEF Holes
<1>14. Kept(q, u, to)  BY <1>4, <1>5, <1>9, <1>10, <1>13, KeepsHoles
<1> QED  BY <1>2, <1>3, <1>5, <1>8, <1>14 DEF Sound, Limit

\* The hole of the innermost body is listed, and the body left.
LEMMA ReadingCloses ==
  ASSUME NEW g, NEW o, NEW n, Sound("reading", g, o), o # <<>>
  PROVE  Sound("reading", AddReloc(g, Last(o).reloc, n), Front(o))
<1>1. IsWriter(g) /\ Buffers(g) /\ Kept(g, o, g.pos)  BY SoundParts
<1>2. IsSeq(o) /\ IsSeq(g.relocs)  BY <1>1 DEF Kept
<1>3. Len(o) \in Nat /\ DOMAIN o = 1 .. Len(o)  BY <1>2, Domains
<1>4. Len(o) > 0
  <2>1. PICK S : o \in Seq(S)  BY <1>2 DEF IsSeq
  <2> QED  BY <1>3, <2>1, EmptySeq
<1>5. PICK m \in Nat : m + 1 = Len(o) /\ m = Len(o) - 1
  <2>1. Len(o) - 1 \in Nat /\ (Len(o) - 1) + 1 = Len(o)  BY <1>3, <1>4
  <2> QED  BY <2>1
<1>6. PICK u : u = SubSeq(o, 0 + 1, 0 + m)  OBVIOUS
<1>7. u = Front(o)  BY <1>5, <1>6 DEF Front
<1>8. IsSeq(u) /\ Len(u) = m /\ \A k \in 1 .. m : u[k] = o[0 + k]
  <2>1. IsPart(o, 0, m)  BY <1>2, <1>3, <1>5 DEF IsPart
  <2> QED  BY <1>6, <2>1, Parts
<1>9. \A k \in DOMAIN u : k \in DOMAIN o /\ u[k] = o[k]
  <2>1. DOMAIN u = 1 .. m  BY <1>8, Domains
  <2> QED  BY <1>3, <1>5, <1>8, <2>1
<1>10. PICK body : body = o[Len(o)] /\ Len(o) \in DOMAIN o  BY <1>3, <1>4
<1>11. body = Last(o)  BY <1>10 DEF Last
<1>12. PICK old, relocs, r :
         /\ old = g.relocs /\ r = [pos |-> body.reloc, replacement |-> n]
         /\ relocs = Append(old, r)
  OBVIOUS
<1>13. PICK q : q = [g EXCEPT !.relocs = relocs]  OBVIOUS
<1>14. q = AddReloc(g, Last(o).reloc, n)  BY <1>11, <1>12, <1>13 DEF AddReloc
<1>15. g = [f \in Fields |-> g[f]]  BY <1>1 DEF IsWriter
<1>16. q = [f \in Fields |-> q[f]]  BY <1>13, <1>15 DEF Fields
<1>17. q.mem = g.mem /\ q.buf = g.buf /\ q.pos = g.pos /\ q.strings = g.strings
       /\ q.relocs = relocs
  BY <1>13, <1>15 DEF Fields
<1>18. Out(q) = Out(g)  BY <1>17 DEF Out
<1>19. IsWriter(q) /\ Buffers(q)  BY <1>1, <1>16, <1>17 DEF IsWriter, Buffers
<1>20. /\ IsSeq(relocs) /\ Len(relocs) = Len(old) + 1
       /\ \A k \in 1 .. Len(old) : relocs[k] = old[k]
       /\ relocs[Len(old) + 1] = r
  BY <1>2, <1>12, Appends
<1>21. Len(old) \in Nat /\ DOMAIN old = 1 .. Len(old) /\ DOMAIN relocs = 1 .. Len(relocs)
  BY <1>2, <1>12, <1>20, Domains
<1>22. \A k \in DOMAIN relocs : \/ k \in DOMAIN old /\ relocs[k] = old[k]
                               \/ relocs[k] = r
  BY <1>20, <1>21
<1>23. r.pos = body.reloc /\ body.reloc \in Holes(g, o)  BY <1>10, <1>12 DEF Holes
<1>24. \A p \in Holes(q, u) : p \in Holes(g, o)
  BY <1>9, <1>12, <1>17, <1>22, <1>23 DEF Holes
<1>25. PICK to : to = g.pos  OBVIOUS
<1>26. Kept(q, u, to)
  BY <1>1, <1>8, <1>17, <1>18, <1>20, <1>24, <1>25, KeepsHoles
<1> QED  BY <1>7, <1>14, <1>17, <1>19, <1>25, <1>26 DEF Sound, Limit

\* A parse error: HALTs, and no more bodies.
LEMMA FailSound ==
  ASSUME NEW g, NEW o, NEW halts, NEW ph, Sound("reading", g, o), IsSeq(halts),
         ph # "printing"
  PROVE  Sound(ph, Flush(Put(g, halts)), <<>>)
<1>1. IsWriter(g) /\ Buffers(g) /\ Kept(g, o, g.pos)  BY SoundParts
<1>2. PICK r, q : r = Put(g, halts) /\ q = Flush(r)  OBVIOUS
<1>3. Wrote(g, r, halts)  BY <1>1, <1>2, PutWrites
<1>4. IsWriter(r) /\ Extends(g, r)  BY <1>1, <1>3, WroteContinues DEF Wrote
<1>5. Wrote(r, q, <<>>) /\ q.buf = <<>>  BY <1>2, <1>4, FlushWrites
<1>6. IsWriter(q) /\ Extends(r, q)  BY <1>4, <1>5, Nothing, WroteContinues DEF Wrote
<1>7. Buffers(q)  BY <1>5, Nothing, GeneratorAssumption DEF Buffers
<1>8. Grows(g, q)  BY <1>1, <1>4, <1>6, <1>7, ExtendsTwice DEF Grows
<1>9. PICK to : to = q.pos  OBVIOUS
<1>10. Kept(q, o, to)  BY <1>1, <1>8, <1>9, KeepsGrowing
<1>11. IsSeq(q.relocs)  BY <1>10 DEF Kept
<1>12. \A p \in Holes(q, <<>>) : p \in Holes(q, o)  BY DEF Holes
<1>13. Kept(q, <<>>, to)  BY <1>10, <1>11, <1>12, Nothing, KeepsHoles
<1> QED  BY <1>2, <1>5, <1>6, <1>7, <1>9, <1>13 DEF Sound, Limit

\* All is written, and what has been put off is filled in.
LEMMA HaltedSound ==
  ASSUME NEW g, NEW o, Sound("reading", g, o)
  PROVE  LET q == Halted(g)
         IN /\ Sound("reading", q, o) /\ Sound("printing", q, o)
            /\ Sound("running", FixedUp(q), o)
<1>1. IsWriter(g) /\ Buffers(g) /\ g.pos \in Nat /\ Kept(g, o, g.pos)  BY SoundParts
<1>2. PICK q : q = Halted(g)  OBVIOUS
<1>3. Grows(g, q) /\ IsWriter(q) /\ Buffers(q) /\ q.pos = g.pos + 1 /\ q.buf = <<>>
  BY <1>1, <1>2, HaltedGrows
<1>4. PICK from, to : from = g.pos /\ to = q.pos  OBVIOUS
<1>5. from \in Nat /\ to \in Nat /\ to - 1 = from /\ to >= 1  BY <1>1, <1>3, <1>4
<1>6. Kept(q, o, to)  BY <1>1, <1>3, <1>4, KeepsGrowing
<1>7. Kept(q, o, from)
  <2>1. SamePrefix(g, q, from) /\ SameRest(g, q)
    BY <1>3, <1>4 DEF Grows, Extends, SamePrefix
  <2>2. from <= from  BY <1>5
  <2> QED  BY <1>1, <1>4, <1>5, <2>1, <2>2, KeepsPrefix
<1>8. Sound("reading", q, o)  BY <1>3, <1>4, <1>6 DEF Sound, Limit
<1>9. Sound("printing", q, o)  BY <1>3, <1>4, <1>5, <1>7 DEF Sound, Limit
<1>10. PICK r : r = FixedUp(q)  OBVIOUS
<1>11. /\ IsWriter(r) /\ r.buf = <<>> /\ Buffers(r) /\ r.pos = to /\ Kept(r, o, to)
  <2>1. to <= to  BY <1>5
  <2> QED  BY <1>3, <1>4, <1>5, <1>6, <1>10, <2>1, FixedUpKeeps
<1>12. Sound("running", r, o)  BY <1>11 DEF Sound, Limit
<1> QED  BY <1>2, <1>8, <1>9, <1>10, <1>12

\* The HALT is taken back.
LEMMA WithoutHaltSound ==
  ASSUME NEW g, NEW o, Sound("printing", g, o)
  PROVE  Sound("reading", WithoutHalt(g), o)
<1>1. IsWriter(g) /\ Buffers(g) /\ g.pos \in Nat /\ g.pos >= 1 /\ g.buf = <<>>
      /\ Kept(g, o, g.pos - 1)
  BY SoundParts DEF Sound, Limit
<1>2. PICK mem, pos : mem = g.mem /\ pos = g.pos  OBVIOUS
<1>3. g = [f \in Fields |-> g[f]] /\ IsSeq(mem) /\ pos = Len(mem) /\ Out(g) = mem
  <2>1. g = [f \in Fields |-> g[f]] /\ IsSeq(mem) /\ pos = Len(mem) + Len(<<>>)
    BY <1>1, <1>2, Zenon DEF IsWriter
  <2>2. mem \o <<>> = mem /\ Len(<<>>) = 0 /\ Len(mem) \in Nat
    BY <2>1, Nothing, Domains
  <2>3. pos = Len(mem)  BY <2>1, <2>2
  <2>4. Out(g) = mem  BY <1>1, <1>2, <2>2 DEF Out
  <2> QED  BY <2>1, <2>3, <2>4
<1>4. PICK n \in Nat : n + 1 = pos /\ n = pos - 1
  <2>1. pos - 1 \in Nat /\ (pos - 1) + 1 = pos  BY <1>1, <1>2
  <2> QED  BY <2>1
<1>5. PICK new : new = SubSeq(mem, 0 + 1, 0 + n)  OBVIOUS
<1>6. IsSeq(new) /\ Len(new) = n /\ \A k \in 1 .. n : new[k] = mem[0 + k]
  <2>1. IsPart(mem, 0, n)  BY <1>3, <1>4 DEF IsPart
  <2> QED  BY <1>5, <2>1, Parts
<1>7. new = Front(mem)  BY <1>3, <1>4, <1>5 DEF Front
<1>8. PICK q : q = [g EXCEPT !.mem = new, !.pos = n]  OBVIOUS
<1>9. q = WithoutHalt(g)  BY <1>2, <1>3, <1>4, <1>7, <1>8 DEF WithoutHalt, Fields
<1>10. q = [f \in Fields |-> q[f]]  BY <1>3, <1>8 DEF Fields
<1>11. q.mem = new /\ q.buf = <<>> /\ q.pos = n /\ q.strings = g.strings
       /\ q.relocs = g.relocs
  BY <1>1, <1>3, <1>8 DEF Fields
<1>12. new \o <<>> = new /\ Len(<<>>) = 0 /\ IsSeq(<<>>)  BY <1>6, Nothing
<1>13. IsWriter(q)
  <2>1. n = Len(new) + Len(<<>>)  BY <1>6, <1>12
  <2> QED  BY <1>6, <1>10, <1>11, <1>12, <2>1, Zenon DEF IsWriter
<1>14. Buffers(q)  BY <1>11, <1>12, GeneratorAssumption DEF Buffers
<1>15. SamePrefix(g, q, n)
  <2>1. Out(q) = new  BY <1>11, <1>12, Zenon DEF Out
  <2>2. \A k \in 1 .. n : new[k] = mem[k]  BY <1>6
  <2> QED  BY <1>3, <2>1, <2>2 DEF SamePrefix
<1>16. Kept(q, o, n)
  <2>1. SameRest(g, q) /\ n <= n /\ Kept(g, o, n)
    BY <1>1, <1>2, <1>4, <1>11 DEF SameRest
  <2> QED  BY <1>15, <2>1, KeepsPrefix
<1> QED  BY <1>9, <1>11, <1>13, <1>14, <1>16 DEF Sound, Limit

\* The lengths need not be filled in twice.
LEMMA PrintedSound ==
  ASSUME NEW g, NEW o, Sound("running", g, o)
  PROVE  Sound("running", [g EXCEPT !.relocs = <<>>], o)
<1>1. IsWriter(g) /\ Buffers(g) /\ g.buf = <<>> /\ Kept(g, o, g.pos)  BY SoundParts
<1>2. g = [f \in Fields |-> g[f]]  BY <1>1 DEF IsWriter
<1>3. PICK q : q = [g EXCEPT !.relocs = <<>>]  OBVIOUS
<1>4. q = [f \in Fields |-> q[f]]  BY <1>2, <1>3 DEF Fields
<1>5. q.mem = g.mem /\ q.buf = g.buf /\ q.pos = g.pos /\ q.strings = g.strings
      /\ q.relocs = <<>>
  BY <1>2, <1>3 DEF Fields
<1>6. Out(q) = Out(g)  BY <1>5 DEF Out
<1>7. IsWriter(q) /\ Buffers(q)  BY <1>1, <1>4, <1>5 DEF IsWriter, Buffers
<1>8. IsSeq(o) /\ IsSeq(q.relocs)  BY <1>1, <1>5, Nothing DEF Kept
<1>9. \A p \in Holes(q, o) : p \in Holes(g, o)  BY <1>5 DEF Holes
<1>10. PICK to : to = g.pos  OBVIOUS
<1>11. Kept(q, o, to)  BY <1>1, <1>5, <1>6, <1>8, <1>9, <1>10, KeepsHoles
<1> QED  BY <1>1, <1>3, <1>5, <1>7, <1>10, <1>11 DEF Sound, Limit

-----------------------------------------------------------------------------
(* Its beginning and its steps. *)

LEMMA NewSound ==
  ASSUME NEW ph, ph # "printing"
  PROVE  Sound(ph, NewGenerator, <<>>)
<1>1. PICK atoms : atoms = Interned(InitialNames)  OBVIOUS
<1>2. PICK g : g = [mem |-> <<>>, buf |-> <<>>, pos |-> 0, atoms |-> atoms,
                    strings |-> <<>>, relocs |-> <<>>]
  OBVIOUS
<1>3. g = NewGenerator  BY <1>1, <1>2 DEF NewGenerator
<1>4. g = [f \in Fields |-> g[f]]  BY <1>2 DEF Fields
<1>5. g.mem = <<>> /\ g.buf = <<>> /\ g.pos = 0 /\ g.strings = <<>> /\ g.relocs = <<>>
  BY <1>2
<1>6. IsSeq(<<>>) /\ Len(<<>>) = 0  BY Nothing
<1>7. IsWriter(g) /\ Buffers(g)
  <2>1. 0 = Len(<<>>) + Len(<<>>) /\ Len(<<>>) <= BufferSize
    BY <1>6, GeneratorAssumption
  <2>2. IsWriter(g)  BY <1>4, <1>5, <1>6, <2>1, Zenon DEF IsWriter
  <2>3. Buffers(g)  BY <1>5, <2>1, Zenon DEF Buffers
  <2> QED  BY <2>2, <2>3
<1>8. Kept(g, <<>>, 0)
  <2>1. DOMAIN <<>> = {}  OBVIOUS
  <2> QED  BY <1>5, <1>6, <2>1 DEF Kept, Holes
<1> QED  BY <1>3, <1>5, <1>7, <1>8 DEF Sound, Limit

LEMMA SessionInit == Init => SessionInv
<1> SUFFICES ASSUME Init  PROVE SessionInv  OBVIOUS
<1>1. phase # "printing" /\ gen = NewGenerator /\ open = <<>>  BY DEF Init
<1> QED  BY <1>1, NewSound DEF SessionInv

\* An action that generates something.
LEMMA GenerateKeeps ==
  ASSUME SessionInv, Generate
  PROVE  SessionInv'
<1>1. Sound(phase, gen, open)  BY DEF SessionInv
<1>2. SUFFICES phase = "reading" /\ phase' = phase => Sound("reading", gen', open')
  <2>1. phase = "reading" /\ phase' = phase
    BY DEF Generate, GenPlain, GenCounted, GenNamed, GenParam, GenNumber, GenString,
           GenCModule, OpenBody, CloseBody, Generates
  <2> QED  BY <2>1 DEF SessionInv
<1> SUFFICES ASSUME phase = "reading"  PROVE Sound("reading", gen', open')  OBVIOUS
<1>3. Sound("reading", gen, open)  BY <1>1
<1>4. CASE \E op \in PlainOps : GenPlain(op)
  BY <1>3, <1>4, ReadingInstruction DEF GenPlain, Generates
<1>5. CASE \E counted \in Counted : GenCounted(counted[1], counted[2])
  BY <1>3, <1>5, ReadingInstruction1 DEF GenCounted, Generates
<1>6. CASE \E named \in NamedOps : GenNamed(named[1], named[2])
  <2>1. PICK op, name : GenNamed(op, name)  BY <1>6
  <2>2. PICK g : /\ g = Named(gen, name) /\ gen' = Instruction1(g, op, Id(g, name))
                 /\ open' = open
    BY <2>1 DEF GenNamed, Generates
  <2>3. Sound("reading", g, open)  BY <1>3, <2>2, ReadingNamed
  <2> QED  BY <2>2, <2>3, ReadingInstruction1
<1>7. CASE \E param \in Parameters : GenParam(param[1], param[2])
  <2>1. PICK name, idx : GenParam(name, idx)  BY <1>7
  <2>2. PICK g : /\ g = Named(gen, name)
                 /\ gen' = Instruction2(g, "NAMED_PARAM", Id(g, name), idx)
                 /\ open' = open
    BY <2>1 DEF GenParam, Generates
  <2>3. Sound("reading", g, open)  BY <1>3, <2>2, ReadingNamed
  <2> QED  BY <2>2, <2>3, ReadingInstruction2
<1>8. CASE \E bytes \in Reals : GenNumber(bytes)
  <2>1. PICK bytes \in Reals : GenNumber(bytes)  BY <1>8
  <2>2. IsSeq(bytes)  BY SessionAssumption DEF IsSeq
  <2>3. gen' = Number(gen, bytes) /\ open' = open  BY <2>1 DEF GenNumber, Generates
  <2>4. IsWriter(gen) /\ Buffers(gen)  BY <1>3, SoundParts
  <2>5. Grows(gen, gen')
    <3>1. PICK q : q = Number(gen, bytes)  OBVIOUS
    <3>2. Grows(gen, q)  BY <2>2, <2>4, <3>1, NumberGrows
    <3> QED  BY <2>3, <3>1, <3>2
  <2> QED  BY <1>3, <2>3, <2>5, ReadingGrows
<1>9. CASE \E string \in Strings : GenString(string)
  <2>1. PICK string \in Strings : GenString(string)  BY <1>9
  <2>2. IsSeq(string)  BY SessionAssumption DEF IsSeq
  <2>3. PICK g : /\ g = IF Known(gen, string) THEN gen ELSE StringData(gen, string)
                 /\ gen' = Instruction2(g, "ALLOC_BUFFER_STATIC", Len(string),
                                        Constant(g, string).pos)
                 /\ open' = open
    BY <2>1 DEF GenString, Generates
  <2>4. Sound("reading", g, open)  BY <1>3, <2>2, <2>3, ReadingString
  <2> QED  BY <2>3, <2>4, ReadingInstruction2
<1>10. CASE \E name \in CModules : GenCModule(name)
  BY <1>3, <1>10, ReadingInstruction1 DEF GenCModule, Generates
<1>11. CASE \E kind \in {"function", "module"} : OpenBody(kind)
  <2>1. PICK kind : OpenBody(kind)  BY <1>11
  <2>2. PICK body : /\ body.reloc = gen.pos + 1
                    /\ gen' = Placeholder(gen) /\ open' = Append(open, body)
    BY <2>1 DEF OpenBody, Generates
  <2> QED  BY <1>3, <2>2, ReadingOpens
<1>12. CASE CloseBody
  <2>1. PICK body, ret, load, n, g :
          /\ open # <<>> /\ body = Last(open) /\ g = Instruction(gen, ret)
          /\ gen' = AddReloc(Instruction1(g, load, body.start), body.reloc, n)
          /\ open' = Front(open)
    BY <1>12 DEF CloseBody, Generates
  <2>2. Sound("reading", g, open)  BY <1>3, <2>1, ReadingInstruction
  <2>3. PICK q : q = Instruction1(g, load, body.start)  OBVIOUS
  <2>4. Sound("reading", q, open)  BY <2>2, <2>3, ReadingInstruction1
  <2> QED  BY <2>1, <2>3, <2>4, ReadingCloses
<1> QED
  BY <1>4, <1>5, <1>6, <1>7, <1>8, <1>9, <1>10, <1>11, <1>12 DEF Generate

LEMMA FailKeeps ==
  ASSUME SessionInv, Fail
  PROVE  SessionInv'
<1>1. Sound("reading", gen, open) /\ phase' # "printing" /\ open' = <<>>
  BY DEF SessionInv, Fail
<1>2. PICK modules, halts :
        /\ modules = {n \in DOMAIN open : open[n].kind = "module"}
        /\ halts = [n \in 1 .. 1 + Cardinality(modules) |-> HaltCode]
        /\ gen' = Flush(Put(gen, halts))
  BY DEF Fail
<1>3. Cardinality(modules) \in Nat
  <2>1. IsSeq(open)  BY <1>1 DEF Sound, Kept
  <2>2. Len(open) \in Nat /\ DOMAIN open = 1 .. Len(open)  BY <2>1, Domains
  <2>3. IsFiniteSet(DOMAIN open)  BY <2>2, FS_Interval
  <2> QED  BY <1>2, <2>3, FS_Subset, FS_CardinalityType
<1>4. IsSeq(halts)
  <2>1. PICK m \in Nat : m = 1 + Cardinality(modules)  BY <1>3
  <2>2. halts \in [1 .. m -> {HaltCode}]  BY <1>2, <2>1
  <2>3. halts \in Seq({HaltCode})  BY <2>1, <2>2
  <2> QED  BY <2>3 DEF IsSeq
<1> QED  BY <1>1, <1>2, <1>4, FailSound DEF SessionInv

LEMMA EndProgramKeeps ==
  ASSUME SessionInv, EndProgram
  PROVE  SessionInv'
<1>1. PICK g : /\ Sound("reading", gen, open) /\ g = Halted(gen) /\ gen' = FixedUp(g)
               /\ phase' = "running" /\ open' = open
  BY DEF SessionInv, EndProgram
<1> QED  BY <1>1, HaltedSound DEF SessionInv

\* The position is where it was.
LEMMA NextLineKeeps ==
  ASSUME SessionInv, NextLine
  PROVE  SessionInv'
<1>1. Sound("prompt", gen, open) /\ phase' = "reading" /\ open' = open
      /\ gen' = [gen EXCEPT !.pos = Len(gen.mem)]
  BY DEF SessionInv, NextLine
<1>2. IsWriter(gen) /\ Buffers(gen) /\ gen.buf = <<>> /\ Kept(gen, open, gen.pos)
  BY <1>1, SoundParts
<1>3. PICK mem, pos : mem = gen.mem /\ pos = gen.pos  OBVIOUS
<1>4. pos = Len(mem)
  <2>1. pos = Len(mem) + Len(<<>>) /\ IsSeq(mem)
    BY <1>2, <1>3, Zenon DEF IsWriter
  <2>2. Len(<<>>) = 0 /\ Len(mem) \in Nat  BY <2>1, Nothing, Domains
  <2> QED  BY <2>1, <2>2
<1>5. gen = [f \in Fields |-> gen[f]]  BY <1>2 DEF IsWriter
<1>6. gen' = gen  BY <1>1, <1>3, <1>4, <1>5 DEF Fields
<1>7. Sound("reading", gen, open)  BY <1>2 DEF Sound, Limit
<1> QED  BY <1>1, <1>6, <1>7 DEF SessionInv

LEMMA EndLineKeeps ==
  ASSUME SessionInv, EndLine
  PROVE  SessionInv'
<1>1. PICK g, set, discard :
        /\ Sound("reading", gen, open) /\ g = Named(gen, "$$")
        /\ set = Instruction1(g, "STACK_FRAME_SET", Id(g, "$$"))
        /\ discard = Instruction(set, "DISCARD")
        /\ gen' = Halted(discard) /\ phase' = "printing" /\ open' = open
  BY DEF SessionInv, EndLine
<1>2. Sound("reading", g, open)  BY <1>1, ReadingNamed
<1>3. Sound("reading", set, open)  BY <1>1, <1>2, ReadingInstruction1
<1>4. Sound("reading", discard, open)  BY <1>1, <1>3, ReadingInstruction
<1> QED  BY <1>1, <1>4, HaltedSound DEF SessionInv

LEMMA PrintLineKeeps ==
  ASSUME SessionInv, PrintLine
  PROVE  SessionInv'
<1>1. PICK g, print, arg, call, discard, all :
        /\ Sound("printing", gen, open) /\ g = WithoutHalt(gen)
        /\ print = Instruction1(g, "STACK_FRAME_LOOKUP", Id(g, "print"))
        /\ arg = Instruction1(print, "STACK_FRAME_LOOKUP", Id(g, "$$"))
        /\ call = Instruction1(arg, "FUNC_CALL", 1)
        /\ discard = Instruction(call, "DISCARD")
        /\ all = Halted(discard)
        /\ gen' = [FixedUp(all) EXCEPT !.relocs = <<>>]
        /\ phase' = "running" /\ open' = open
  BY DEF SessionInv, PrintLine, PrintFrom
<1>2. Sound("reading", g, open)  BY <1>1, WithoutHaltSound
<1>3. Sound("reading", print, open)  BY <1>1, <1>2, ReadingInstruction1
<1>4. Sound("reading", arg, open)  BY <1>1, <1>3, ReadingInstruction1
<1>5. Sound("reading", call, open)  BY <1>1, <1>4, ReadingInstruction1
<1>6. Sound("reading", discard, open)  BY <1>1, <1>5, ReadingInstruction
<1>7. Sound("running", FixedUp(all), open)  BY <1>1, <1>6, HaltedSound
<1> QED  BY <1>1, <1>7, PrintedSound DEF SessionInv

\* The machine writes nothing.
LEMMA StepKeeps ==
  ASSUME SessionInv, Step
  PROVE  SessionInv'
<1>1. phase = "running" /\ gen' = gen /\ open' = open
      /\ phase' \in {"running", "over", "prompt"}
  BY DEF Step, Jump, Halt, AllocFunction, Call, Return, LoadModule, OtherInstr, Stop,
         Running, Goes, Ends
<1>2. Sound("running", gen, open)  BY <1>1 DEF SessionInv
<1> QED  BY <1>1, <1>2 DEF SessionInv, Sound, Limit

LEMMA SessionNext == SessionInv /\ [Next]_vars => SessionInv'
<1> SUFFICES ASSUME SessionInv, [Next]_vars  PROVE SessionInv'  OBVIOUS
<1>1. CASE Generate  BY <1>1, GenerateKeeps
<1>2. CASE Fail  BY <1>2, FailKeeps
<1>3. CASE EndProgram  BY <1>3, EndProgramKeeps
<1>4. CASE NextLine  BY <1>4, NextLineKeeps
<1>5. CASE EndLine  BY <1>5, EndLineKeeps
<1>6. CASE PrintLine  BY <1>6, PrintLineKeeps
<1>7. CASE Step  BY <1>7, StepKeeps
<1>8. CASE UNCHANGED vars  BY <1>8 DEF SessionInv, vars
<1> QED  BY <1>1, <1>2, <1>3, <1>4, <1>5, <1>6, <1>7, <1>8 DEF Next

LEMMA Invariance == Spec => []SessionInv
BY SessionInit, SessionNext, PTL DEF Spec

\* The generator's position is the address of the byte it writes next, whatever
\* has been written and taken back (gen.c:20, main.c:193-205).
THEOREM PosCorrect == Spec => []PosIsAddress
<1>1. SessionInv => PosIsAddress  BY DEF SessionInv, Sound, IsWriter, PosIsAddress
<1> QED  BY <1>1, Invariance, PTL

LEMMA StringsStay == SessionInv => StringsInPlace
<1> SUFFICES ASSUME SessionInv, NEW n \in DOMAIN gen.strings
             PROVE  LET s == gen.strings[n]
                    IN SubSeq(gen.mem \o gen.buf, s.pos + 1, s.pos + Len(s.string))
                         = s.string
  BY DEF StringsInPlace
<1>1. PICK s, string, pos, out, to :
        /\ s = gen.strings[n] /\ string = s.string /\ pos = s.pos
        /\ out = Out(gen) /\ to = gen.pos
  OBVIOUS
<1>2. to \in Nat /\ IsSeq(out) /\ Len(out) = to
  BY <1>1, Positions DEF SessionInv, Sound
<1>3. StringAt(gen, s, Limit(phase, gen))  BY <1>1 DEF SessionInv, Sound, Kept
<1>4. /\ IsSeq(string) /\ pos \in Nat
      /\ pos + Len(string) <= to \/ pos + Len(string) <= to - 1
      /\ \A k \in 1 .. Len(string) : out[pos + k] = string[k]
  BY <1>1, <1>3 DEF StringAt, Limit
<1>5. pos + Len(string) <= Len(out)
  <2>1. Len(string) \in Nat  BY <1>4, Domains
  <2> QED  BY <1>2, <1>4, <2>1
<1>6. SubSeq(out, pos + 1, pos + Len(string)) = string
  BY <1>2, <1>4, <1>5, SamePart
<1> QED  BY <1>1, <1>6 DEF Out

\* A string constant stays where the generator remembers it to be, through failed
\* lines, lengths that are filled in and HALTs that are taken back
\* (gen.c:392-421, main.c:193-205).
THEOREM StringsCorrect == Spec => []StringsInPlace
BY StringsStay, Invariance, PTL

-----------------------------------------------------------------------------
(* What an instruction is there for: a cell c has the operation, its meaning *)
(* and the address after it.                                                 *)

Called(g, id, x) == id \in DOMAIN g.atoms /\ x = Name(g.atoms[id])

\* The instruction i, in the code of g, means x.
Tells(g, i, x) ==
  CASE i.op = "RJMP" -> x = i.next + i.words[1]
    [] i.op = "RJMP_U4" -> TRUE
    [] i.op = "ALLOC_BUFFER_STATIC" ->
         \E n \in DOMAIN g.strings :
           /\ g.strings[n].string = x /\ g.strings[n].pos = i.words[2]
           /\ Len(x) = i.words[1]
    [] i.op = "ALLOC_REAL" -> x = i.bytes
    [] i.op \in NameOps -> Called(g, i.words[1], x)
    [] i.op = "NAMED_PARAM" -> Called(g, i.words[1], x[1]) /\ x = <<x[1], i.words[2]>>
    [] OTHER -> x = i.words

Says(g, a, c) ==
  LET i == Decode(Out(g), a) IN i.op = c.op /\ i.next = c.next /\ Tells(g, i, c.means)

\* It is there in full.
Stands(a, c, g) ==
  /\ a \in Nat /\ c.next \in Nat /\ a < c.next /\ c.next <= g.pos
  /\ Says(g, a, c)

\* A jump over a body has its length.
Filled(g, a, c) ==
  c.means - c.next \in Nat /\ Written(Out(g), a + 1, FourBytes(c.means - c.next))

\* Or is going to have it.
Awaits(a, c, g, o) ==
  /\ c.next = a + 5
  /\ Filled(g, a, c) \/ a + 1 \in Holes(g, o)
  /\ \A n \in DOMAIN g.relocs :
       g.relocs[n].pos = a + 1 => c.means = c.next + g.relocs[n].replacement

\* The hole p is not in the cell, except for the one a jump has.
Clear(p, a, c) == p + 4 <= a \/ c.next <= p \/ (p = a + 1 /\ c.op = "RJMP_U4")

InPlace(a, c, g, o) ==
  /\ Stands(a, c, g)
  /\ \A p \in Holes(g, o) : Clear(p, a, c)
  /\ c.op = "RJMP_U4" => Awaits(a, c, g, o)

\* q knows the names and strings g knows.
Remembers(g, q) ==
  /\ \A n \in DOMAIN g.atoms : n \in DOMAIN q.atoms /\ q.atoms[n] = g.atoms[n]
  /\ \A n \in DOMAIN g.strings : n \in DOMAIN q.strings /\ q.strings[n] = g.strings[n]

LEMMA TellsStays ==
  ASSUME NEW g, NEW q, Remembers(g, q), NEW i, NEW x, Tells(g, i, x)
  PROVE  Tells(q, i, x)
<1>1. \A id, y : Called(g, id, y) => Called(q, id, y)
  BY DEF Called, Remembers
<1>2. ASSUME NEW n \in DOMAIN g.strings
      PROVE  n \in DOMAIN q.strings /\ q.strings[n] = g.strings[n]
  BY DEF Remembers
<1>3. CASE i.op = "RJMP"  BY <1>3 DEF Tells, NameOps
<1>4. CASE i.op = "RJMP_U4"  BY <1>4 DEF Tells, NameOps
<1>5. CASE i.op = "ALLOC_BUFFER_STATIC"
  <2>1. PICK n \in DOMAIN g.strings :
          /\ g.strings[n].string = x /\ g.strings[n].pos = i.words[2]
          /\ Len(x) = i.words[1]
    BY <1>5 DEF Tells, NameOps
  <2>2. n \in DOMAIN q.strings /\ q.strings[n] = g.strings[n]  BY <1>2
  <2> QED  BY <1>5, <2>1, <2>2 DEF Tells, NameOps
<1>6. CASE i.op = "ALLOC_REAL"  BY <1>6 DEF Tells, NameOps
<1>7. CASE i.op \in NameOps  BY <1>1, <1>7 DEF Tells, NameOps
<1>8. CASE i.op = "NAMED_PARAM"  BY <1>1, <1>8 DEF Tells, NameOps
<1>9. CASE i.op \notin NameOps \cup {"RJMP", "RJMP_U4", "ALLOC_BUFFER_STATIC",
                                    "ALLOC_REAL", "NAMED_PARAM"}
  BY <1>9 DEF Tells, NameOps
<1> QED  BY <1>3, <1>4, <1>5, <1>6, <1>7, <1>8, <1>9

LEMMA StandsStays ==
  ASSUME NEW g, NEW q, IsWriter(g), IsWriter(q), g.pos <= q.pos, Remembers(g, q),
         NEW a, NEW c, Stands(a, c, g), Alike(Out(g), Out(q), a, c.next)
  PROVE  Stands(a, c, q)
<1>1. PICK s, t, b : s = Out(g) /\ t = Out(q) /\ b = c.next  OBVIOUS
<1>2. PICK l, m : l = g.pos /\ m = q.pos  OBVIOUS
<1>3. IsSeq(s) /\ Len(s) = l /\ l \in Nat /\ IsSeq(t) /\ Len(t) = m /\ m \in Nat /\ l <= m
  BY <1>1, <1>2, Positions
<1>4. a \in Nat /\ b \in Nat /\ b <= l /\ b <= m  BY <1>1, <1>2, <1>3 DEF Stands
<1>5. PICK i : i = Decode(s, a)  OBVIOUS
<1>6. i.op = c.op /\ i.next = b /\ Tells(g, i, c.means)
  BY <1>1, <1>5 DEF Stands, Says
<1>7. Decode(t, a) = i
  <2>1. Alike(s, t, a, b) /\ b <= Len(s) /\ b <= Len(t)  BY <1>1, <1>3, <1>4
  <2>2. b = Decode(s, a).next  BY <1>5, <1>6
  <2>3. Decode(t, a) = Decode(s, a)  BY ONLY <1>3, <1>4, <2>1, <2>2, SameInstruction
  <2> QED  BY <1>5, <2>3
<1>8. Tells(q, i, c.means)  BY <1>6, TellsStays
<1>9. Says(q, a, c)  BY <1>1, <1>6, <1>7, <1>8 DEF Says
<1> QED  BY <1>1, <1>2, <1>4, <1>9 DEF Stands

LEMMA FourLong ==
  ASSUME NEW n
  PROVE  Len(FourBytes(n)) = 4
BY DEF FourBytes

LEMMA FilledStays ==
  ASSUME NEW g, NEW q, NEW a \in Nat, NEW c, c.next = a + 5, Filled(g, a, c),
         Alike(Out(g), Out(q), a, c.next)
  PROVE  Filled(q, a, c)
<1>1. PICK s, t, n : s = Out(g) /\ t = Out(q) /\ n = c.means - c.next  OBVIOUS
<1>2. PICK bytes : bytes = FourBytes(n) /\ Len(bytes) = 4  BY FourLong
<1>3. n \in Nat /\ \A k \in 1 .. Len(bytes) : s[(a + 1) + k] = bytes[k]
  BY <1>1, <1>2 DEF Filled, Written
<1>4. ASSUME NEW k \in 1 .. Len(bytes)  PROVE t[(a + 1) + k] = bytes[k]
  <2>1. (a + 1) + k \in a + 1 .. a + 5  BY <1>2
  <2>2. t[(a + 1) + k] = s[(a + 1) + k]  BY <1>1, <2>1 DEF Alike
  <2> QED  BY <1>3, <2>2
<1>5. Written(t, a + 1, bytes)  BY <1>4 DEF Written
<1> QED  BY <1>1, <1>2, <1>3, <1>5 DEF Filled

\* g became q, and what was written is the same; there are new holes only behind it.
Carries(g, q, o, u) ==
  /\ IsWriter(g) /\ IsWriter(q) /\ g.pos <= q.pos
  /\ Alike(Out(g), Out(q), 0, g.pos)
  /\ Remembers(g, q)
  /\ \A p \in Holes(q, u) : p \in Holes(g, o) \/ (p \in Nat /\ g.pos <= p)
  /\ \A n \in DOMAIN q.relocs : n \in DOMAIN g.relocs /\ q.relocs[n] = g.relocs[n]

LEMMA CarriesCell ==
  ASSUME NEW g, NEW q, NEW o, NEW u, Carries(g, q, o, u),
         NEW a, NEW c, InPlace(a, c, g, o)
  PROVE  /\ Stands(a, c, q) /\ \A p \in Holes(q, u) : Clear(p, a, c)
         /\ c.op = "RJMP_U4" /\ Filled(g, a, c) => Filled(q, a, c)
         /\ (Holes(g, o) \subseteq Holes(q, u) \/ Filled(g, a, c)) => InPlace(a, c, q, u)
<1>1. a \in Nat /\ c.next \in Nat /\ a < c.next /\ c.next <= g.pos /\ g.pos \in Nat
  BY Positions DEF InPlace, Stands, Carries
<1>2. Alike(Out(g), Out(q), a, c.next)
  <2>1. Alike(Out(g), Out(q), 0, g.pos)  BY DEF Carries
  <2> QED  BY <1>1, <2>1 DEF Alike
<1>3. Stands(a, c, q)  BY <1>2, StandsStays DEF Carries, InPlace
<1>4. ASSUME NEW p \in Holes(q, u)  PROVE Clear(p, a, c)
  <2>1. CASE p \in Holes(g, o)  BY <2>1 DEF InPlace
  <2>2. CASE p \in Nat /\ g.pos <= p
    <3>1. c.next <= p  BY <1>1, <2>2
    <3> QED  BY <3>1 DEF Clear
  <2> QED  BY <2>1, <2>2 DEF Carries
<1>5. ASSUME c.op = "RJMP_U4", Filled(g, a, c)  PROVE Filled(q, a, c)
  <2>1. c.next = a + 5  BY <1>5 DEF InPlace, Awaits
  <2> QED  BY <1>1, <1>2, <1>5, <2>1, FilledStays
<1>6. ASSUME c.op = "RJMP_U4", Holes(g, o) \subseteq Holes(q, u) \/ Filled(g, a, c)
      PROVE  Awaits(a, c, q, u)
  <2>1. Awaits(a, c, g, o)  BY <1>6 DEF InPlace
  <2>2. Filled(q, a, c) \/ a + 1 \in Holes(q, u)  BY <1>5, <1>6, <2>1 DEF Awaits
  <2>3. \A n \in DOMAIN q.relocs : n \in DOMAIN g.relocs /\ q.relocs[n] = g.relocs[n]
    BY DEF Carries
  <2> QED  BY <2>1, <2>2, <2>3 DEF Awaits
<1> QED  BY <1>3, <1>4, <1>5, <1>6 DEF InPlace

LEMMA AddsCarries ==
  ASSUME NEW g, NEW q, NEW o, IsWriter(g), Adds(g, q)
  PROVE  Carries(g, q, o, o) /\ Holes(q, o) = Holes(g, o)
<1>1. IsWriter(q) /\ q.strings = g.strings /\ q.relocs = g.relocs /\ q.atoms = g.atoms
  BY DEF Adds, Grows, Extends, SameRest
<1>2. g.pos <= q.pos /\ Alike(Out(g), Out(q), 0, g.pos)
  <2>1. 0 \in Nat  OBVIOUS
  <2> QED  BY <2>1, AddsAlike
<1>3. Holes(q, o) = Holes(g, o)  BY <1>1 DEF Holes
<1> QED  BY <1>1, <1>2, <1>3 DEF Carries, Remembers

LEMMA WidensCarries ==
  ASSUME NEW g, NEW q, NEW o, IsWriter(g), IsWriter(q), Widens(g, q)
  PROVE  Carries(g, q, o, o) /\ Holes(q, o) = Holes(g, o)
<1>1. Out(q) = Out(g) /\ q.pos = g.pos /\ q.relocs = g.relocs /\ Remembers(g, q)
  BY DEF Widens, Remembers
<1>2. g.pos \in Nat  BY Positions
<1>3. Holes(q, o) = Holes(g, o)  BY <1>1 DEF Holes
<1>4. Alike(Out(g), Out(q), 0, g.pos)  BY <1>1 DEF Alike
<1> QED  BY <1>1, <1>2, <1>3, <1>4 DEF Carries

-----------------------------------------------------------------------------
(* The code: f has the cell at each address.  T are the addresses of the     *)
(* program or the line being read or run, outside all bodies; B those of its *)
(* bodies, P those of the bodies of earlier lines.                           *)

With(f, a, c) == [x \in {a} \cup DOMAIN f |-> IF x = a THEN c ELSE f[x]]

\* Where the machine may go from the cell c.  A body's jump leads nowhere before
\* the body is complete.
Leads(c) ==
  CASE c.op = "RJMP" -> {c.means}
    [] c.op = "RJMP_U4" -> {c.means} \ {-1}
    [] c.op \in {"HALT", "RET", "MOD_RET"} -> {}
    [] OTHER -> {c.next}

Starting == {"ALLOC_FUNCTION", "LOAD_MODULE"}

Laid(f, S, g, o) == \A a \in S : a \in DOMAIN f /\ InPlace(a, f[a], g, o)
FilledIn(f, S, g) == \A a \in S : f[a].op = "RJMP_U4" => Filled(g, a, f[a])
Flows(f, S, E) == \A a \in S : Leads(f[a]) \subseteq S \cup E
Starts(f, S, Q) == \A a \in S : f[a].op \in Starting => f[a].means[1] \in Q
Without(f, S, ops) == \A a \in S : f[a].op \notin ops
Meant(f, S, m) ==
  \A a \in S : a \in DOMAIN m /\ m[a] = [op |-> f[a].op, means |-> f[a].means]
Disjoint(T, B, P) == T \cap B = {} /\ T \cap P = {} /\ B \cap P = {}

Code(f, T, B, P, g, o, m) ==
  /\ Laid(f, T \cup B \cup P, g, o) /\ Meant(f, T \cup B \cup P, m)
  /\ FilledIn(f, P, g) /\ Flows(f, P, {})
  /\ Starts(f, P, P) /\ Starts(f, T \cup B, B \cup P)
  /\ Without(f, T, {"RET", "MOD_RET"}) /\ Without(f, B \cup P, {"HALT"})
  /\ Disjoint(T, B, P)

\* The jump over the n-th body is in the one around it, or outside all of them.
BodyOf(f, S, B, body, l) ==
  /\ body.reloc \in Nat /\ body.start = body.reloc + 4
  /\ body.reloc - 1 \in S
  /\ f[body.reloc - 1] = [op |-> "RJMP_U4", means |-> -1, next |-> body.start]
  /\ body.start \in B \cup {l}

Bodies(f, T, B, o, l) ==
  \A n \in DOMAIN o : BodyOf(f, IF n = 1 THEN T ELSE B, B, o[n], l)

\* Where the next instruction will be: outside the bodies, or in one.
TopEnd(o, l) == IF o = <<>> THEN {l} ELSE {}
BodyEnd(o, l) == IF o = <<>> THEN {} ELSE {l}

Reading(f, T, B, P, g, o, m) ==
  /\ Code(f, T, B, P, g, o, m)
  /\ Without(f, T, {"HALT"})
  /\ Flows(f, T, TopEnd(o, g.pos)) /\ Flows(f, B, BodyEnd(o, g.pos))
  /\ Bodies(f, T, B, o, g.pos)

\* No length is in another one.
Far(p, q) == p + 4 <= q \/ q + 4 <= p

HolesApart(g, o) ==
  /\ \A k, n \in DOMAIN g.relocs : k # n => Far(g.relocs[k].pos, g.relocs[n].pos)
  /\ \A k \in DOMAIN g.relocs, n \in DOMAIN o : Far(g.relocs[k].pos, o[n].reloc)
  /\ \A k, n \in DOMAIN o : k # n => Far(o[k].reloc, o[n].reloc)
  /\ \A n \in DOMAIN g.relocs : g.relocs[n].replacement \in 0 .. g.pos

\* What is being read, with the machine at the address at.
Coded(g, o, m, P, at) ==
  /\ Sound("reading", g, o) /\ Bytes(Out(g)) /\ Atoms(g) /\ HolesApart(g, o)
  /\ \E f, T, B : Reading(f, T, B, P, g, o, m) /\ at \in T \cup TopEnd(o, g.pos)

-----------------------------------------------------------------------------
LEMMA WithCell ==
  ASSUME NEW f, NEW a, NEW c
  PROVE  /\ a \in DOMAIN With(f, a, c) /\ With(f, a, c)[a] = c
         /\ \A x \in DOMAIN f : /\ x \in DOMAIN With(f, a, c)
                                /\ x # a => With(f, a, c)[x] = f[x]
BY DEF With

LEMMA NotedCell ==
  ASSUME NEW m, NEW a, NEW op, NEW what
  PROVE  /\ a \in DOMAIN Noted(m, a, op, what)
         /\ Noted(m, a, op, what)[a] = [op |-> op, means |-> what]
         /\ \A x \in DOMAIN m : /\ x \in DOMAIN Noted(m, a, op, what)
                                /\ x # a => Noted(m, a, op, what)[x] = m[x]
BY DEF Noted

\* All cells are in front of the position.
LEMMA CellsInFront ==
  ASSUME NEW f, NEW S, NEW g, NEW o, Laid(f, S, g, o), IsWriter(g)
  PROVE  /\ \A a \in S : a \in DOMAIN f /\ a \in Nat /\ a < g.pos
         /\ g.pos \in Nat /\ g.pos \notin S
<1>1. g.pos \in Nat  BY Positions
<1>2. ASSUME NEW a \in S  PROVE a \in DOMAIN f /\ a \in Nat /\ a < g.pos
  <2>1. Stands(a, f[a], g) /\ a \in DOMAIN f  BY DEF Laid, InPlace
  <2> QED  BY <1>1, <2>1 DEF Stands
<1> QED  BY <1>1, <1>2

LEMMA FlowsAdds ==
  ASSUME NEW f, NEW S, NEW E, NEW l, NEW c, \A a \in S : a \in DOMAIN f, l \notin S,
         Flows(f, S, E), E \subseteq {l}
  PROVE  Flows(With(f, l, c), S \cup {l}, Leads(c))
<1>1. \A a \in S : With(f, l, c)[a] = f[a]  BY WithCell
<1>2. With(f, l, c)[l] = c  BY WithCell
<1>3. ASSUME NEW a \in S \cup {l}
      PROVE  Leads(With(f, l, c)[a]) \subseteq (S \cup {l}) \cup Leads(c)
  <2>1. CASE a \in S
    <3>1. Leads(f[a]) \subseteq S \cup E  BY <2>1 DEF Flows
    <3> QED  BY <1>1, <2>1, <3>1
  <2>2. CASE a = l  BY <1>2, <2>2
  <2> QED  BY <1>3, <2>1, <2>2
<1> QED  BY <1>3 DEF Flows

LEMMA FlowsSame ==
  ASSUME NEW f, NEW S, NEW E, NEW l, NEW c, \A a \in S : a \in DOMAIN f, l \notin S,
         Flows(f, S, E)
  PROVE  Flows(With(f, l, c), S, E)
<1>1. \A a \in S : With(f, l, c)[a] = f[a]  BY WithCell
<1> QED  BY <1>1 DEF Flows

LEMMA FlowsWider ==
  ASSUME NEW f, NEW S, NEW E, NEW F, E \subseteq F, Flows(f, S, E)
  PROVE  Flows(f, S, F)
BY DEF Flows

\* One cell more, behind all others.
LEMMA CodeAdds ==
  ASSUME NEW f, NEW T, NEW B, NEW P, NEW g, NEW o, NEW m, Code(f, T, B, P, g, o, m),
         NEW q, NEW u, Carries(g, q, o, u), Holes(g, o) \subseteq Holes(q, u),
         NEW c, InPlace(g.pos, c, q, u),
         NEW T2, NEW B2,
         \/ T2 = T \cup {g.pos} /\ B2 = B /\ c.op \notin {"RET", "MOD_RET"}
         \/ T2 = T /\ B2 = B \cup {g.pos} /\ c.op # "HALT",
         c.op \in Starting => c.means[1] \in B2 \cup P
  PROVE  Code(With(f, g.pos, c), T2, B2, P, q, u, Noted(m, g.pos, c.op, c.means))
<1>1. PICK l, S, S2 : l = g.pos /\ S = T \cup B \cup P /\ S2 = T2 \cup B2 \cup P  OBVIOUS
<1>2. S2 = S \cup {l} /\ T \subseteq T2 /\ B \subseteq B2  BY <1>1
<1>3. PICK h, mm : h = With(f, l, c) /\ mm = Noted(m, l, c.op, c.means)  OBVIOUS
<1>4. Laid(f, S, g, o) /\ Meant(f, S, m)  BY <1>1 DEF Code
<1>5. IsWriter(g) /\ l \in Nat /\ l \notin S /\ \A a \in S : a \in DOMAIN f
  <2>1. IsWriter(g)  BY DEF Carries
  <2> QED  BY <1>1, <1>4, <2>1, CellsInFront
<1>6. h[l] = c /\ l \in DOMAIN h /\ \A a \in S : a \in DOMAIN h /\ h[a] = f[a]
  BY <1>3, <1>5, WithCell
<1>7. mm[l] = [op |-> c.op, means |-> c.means] /\ l \in DOMAIN mm
      /\ \A a \in S : a \in DOMAIN m => a \in DOMAIN mm /\ mm[a] = m[a]
  BY <1>3, <1>5, NotedCell
<1>8. Laid(h, S2, q, u)
  <2>1. ASSUME NEW a \in S  PROVE InPlace(a, f[a], q, u)
    <3>1. InPlace(a, f[a], g, o)  BY <1>4 DEF Laid
    <3> QED  BY <3>1, CarriesCell
  <2> QED  BY <1>1, <1>2, <1>6, <2>1 DEF Laid
<1>9. Meant(h, S2, mm)  BY <1>2, <1>4, <1>6, <1>7 DEF Meant
<1>10. P \subseteq S /\ T \subseteq S /\ B \subseteq S  BY <1>1
<1>11. FilledIn(h, P, q)
  <2>1. ASSUME NEW a \in P, f[a].op = "RJMP_U4"  PROVE Filled(q, a, f[a])
    <3>1. InPlace(a, f[a], g, o)  BY <1>4, <1>10 DEF Laid
    <3>2. Filled(g, a, f[a])  BY <2>1 DEF Code, FilledIn
    <3> QED  BY <2>1, <3>1, <3>2, CarriesCell
  <2> QED  BY <1>6, <1>10, <2>1 DEF FilledIn
<1>12. Flows(h, P, {})
  <2>1. Flows(f, P, {})  BY DEF Code
  <2> QED  BY <1>6, <1>10, <2>1 DEF Flows
<1>13. Starts(h, P, P)
  <2>1. Starts(f, P, P)  BY DEF Code
  <2> QED  BY <1>6, <1>10, <2>1 DEF Starts
<1>14. Starts(h, T2 \cup B2, B2 \cup P)
  <2>1. Starts(f, T \cup B, B \cup P)  BY DEF Code
  <2>2. ASSUME NEW a \in T2 \cup B2, h[a].op \in Starting
        PROVE  h[a].means[1] \in B2 \cup P
    <3>1. CASE a = l  BY <1>6, <2>2, <3>1
    <3>2. CASE a # l
      <4>1. a \in T \cup B  BY <1>1, <3>2
      <4>2. h[a] = f[a]  BY <1>6, <1>10, <4>1
      <4>3. f[a].means[1] \in B \cup P  BY <2>1, <2>2, <4>1, <4>2 DEF Starts
      <4> QED  BY <1>2, <4>2, <4>3
    <3> QED  BY <3>1, <3>2
  <2> QED  BY <2>2 DEF Starts
<1>15. Without(h, T2, {"RET", "MOD_RET"}) /\ Without(h, B2 \cup P, {"HALT"})
  <2>1. Without(f, T, {"RET", "MOD_RET"}) /\ Without(f, B \cup P, {"HALT"})  BY DEF Code
  <2>2. CASE T2 = T \cup {l} /\ B2 = B /\ c.op \notin {"RET", "MOD_RET"}
    BY <1>6, <1>10, <2>1, <2>2 DEF Without
  <2>3. CASE T2 = T /\ B2 = B \cup {l} /\ c.op # "HALT"
    BY <1>6, <1>10, <2>1, <2>3 DEF Without
  <2> QED  BY <1>1, <2>2, <2>3
<1>16. Disjoint(T2, B2, P)
  <2>1. Disjoint(T, B, P)  BY DEF Code
  <2> QED  BY <1>1, <1>5, <1>10, <2>1 DEF Disjoint
<1> QED
  BY <1>1, <1>3, <1>8, <1>9, <1>11, <1>12, <1>13, <1>14, <1>15, <1>16 DEF Code

LEMMA HolesApartStays ==
  ASSUME NEW g, NEW q, NEW o, q.relocs = g.relocs, g.pos \in Nat, q.pos \in Nat,
         g.pos <= q.pos, HolesApart(g, o)
  PROVE  HolesApart(q, o)
<1>1. \A n \in DOMAIN g.relocs : g.relocs[n].replacement \in 0 .. q.pos
  <2>1. ASSUME NEW n \in DOMAIN g.relocs  PROVE g.relocs[n].replacement \in 0 .. q.pos
    <3>1. PICK r : r = g.relocs[n].replacement  OBVIOUS
    <3>2. r \in 0 .. g.pos  BY <3>1 DEF HolesApart
    <3> QED  BY <3>1, <3>2
  <2> QED  BY <2>1
<1> QED  BY <1>1 DEF HolesApart

\* Bodies stay where they are.
LEMMA BodiesStay ==
  ASSUME NEW f, NEW h, NEW T, NEW B, NEW T2, NEW B2, NEW o, NEW l, NEW e,
         Bodies(f, T, B, o, l), T \subseteq T2, B \subseteq B2,
         l \in B2 \/ l = e, \A a \in T \cup B : h[a] = f[a]
  PROVE  Bodies(h, T2, B2, o, e)
<1>1. ASSUME NEW n \in DOMAIN o
      PROVE  BodyOf(h, IF n = 1 THEN T2 ELSE B2, B2, o[n], e)
  <2>1. PICK S, S2 : S = (IF n = 1 THEN T ELSE B) /\ S2 = (IF n = 1 THEN T2 ELSE B2)
    OBVIOUS
  <2>2. BodyOf(f, S, B, o[n], l)  BY <2>1 DEF Bodies
  <2>3. S \subseteq S2 /\ S \subseteq T \cup B  BY <2>1
  <2>4. BodyOf(h, S2, B2, o[n], e)  BY <2>2, <2>3 DEF BodyOf
  <2> QED  BY <2>1, <2>4
<1> QED  BY <1>1 DEF Bodies

-----------------------------------------------------------------------------
(* Reading: what each call of the parser does to the code. *)

LEMMA HolesInFront ==
  ASSUME NEW g, NEW o, Sound("reading", g, o)
  PROVE  /\ \A p \in Holes(g, o) : p \in Nat /\ p + 4 <= g.pos
         /\ IsSeq(o) /\ IsSeq(g.relocs) /\ IsSeq(g.strings)
         /\ IsWriter(g) /\ Buffers(g) /\ g.pos \in Nat
BY SoundParts DEF Kept, Apart

LEMMA AtomsStay ==
  ASSUME NEW g, NEW q, q.atoms = g.atoms, Atoms(g)
  PROVE  Atoms(q)
BY DEF Atoms

LEMMA CodeCarries ==
  ASSUME NEW f, NEW T, NEW B, NEW P, NEW g, NEW o, NEW m, Code(f, T, B, P, g, o, m),
         NEW q, NEW u, Carries(g, q, o, u), Holes(g, o) \subseteq Holes(q, u)
  PROVE  Code(f, T, B, P, q, u, m)
<1>1. Laid(f, T \cup B \cup P, q, u)
  <2>1. Laid(f, T \cup B \cup P, g, o)  BY DEF Code
  <2>2. ASSUME NEW a \in T \cup B \cup P  PROVE a \in DOMAIN f /\ InPlace(a, f[a], q, u)
    <3>1. a \in DOMAIN f /\ InPlace(a, f[a], g, o)  BY <2>1 DEF Laid
    <3> QED  BY <3>1, CarriesCell
  <2> QED  BY <2>2 DEF Laid
<1>2. FilledIn(f, P, q)
  <2>1. ASSUME NEW a \in P, f[a].op = "RJMP_U4"  PROVE Filled(q, a, f[a])
    <3>1. InPlace(a, f[a], g, o)  BY DEF Code, Laid
    <3>2. Filled(g, a, f[a])  BY <2>1 DEF Code, FilledIn
    <3> QED  BY <2>1, <3>1, <3>2, CarriesCell
  <2> QED  BY <2>1 DEF FilledIn
<1> QED  BY <1>1, <1>2 DEF Code

\* A name or a string is new.
LEMMA CodedWidens ==
  ASSUME NEW g, NEW o, NEW m, NEW P, NEW at, Coded(g, o, m, P, at),
         NEW q, Widens(g, q), Atoms(q), Sound("reading", q, o)
  PROVE  Coded(q, o, m, P, at)
<1>1. Sound("reading", g, o) /\ Bytes(Out(g)) /\ HolesApart(g, o)  BY DEF Coded
<1>2. IsWriter(g) /\ IsWriter(q) /\ g.pos \in Nat  BY <1>1, HolesInFront
<1>3. Carries(g, q, o, o) /\ Holes(q, o) = Holes(g, o)  BY <1>2, WidensCarries
<1>4. q.pos = g.pos /\ Out(q) = Out(g) /\ q.relocs = g.relocs  BY DEF Widens
<1>5. PICK f, T, B : Reading(f, T, B, P, g, o, m) /\ at \in T \cup TopEnd(o, g.pos)
  BY DEF Coded
<1>6. Code(f, T, B, P, q, o, m)  BY <1>3, <1>5, CodeCarries DEF Reading
<1>7. Reading(f, T, B, P, q, o, m)  BY <1>4, <1>5, <1>6 DEF Reading
<1>8. HolesApart(q, o)  BY <1>1, <1>4 DEF HolesApart
<1> QED  BY <1>1, <1>4, <1>5, <1>7, <1>8 DEF Coded

\* An instruction that is neither the beginning nor the end of a body.
Structural == {"RJMP_U4", "RET", "MOD_RET", "HALT"} \cup Starting

LEMMA CodedAdds ==
  ASSUME NEW g, NEW o, NEW m, NEW P, NEW at, Coded(g, o, m, P, at),
         NEW q, Adds(g, q),
         NEW c, Stands(g.pos, c, q), c.op \notin Structural, Leads(c) \subseteq {q.pos}
  PROVE  Coded(q, o, Noted(m, g.pos, c.op, c.means), P, at)
<1>1. Sound("reading", g, o) /\ Bytes(Out(g)) /\ HolesApart(g, o) /\ Atoms(g)
  BY DEF Coded
<1>2. IsWriter(g) /\ g.pos \in Nat /\ \A p \in Holes(g, o) : p \in Nat /\ p + 4 <= g.pos
  BY <1>1, HolesInFront
<1>3. Carries(g, q, o, o) /\ Holes(q, o) = Holes(g, o)  BY <1>2, AddsCarries
<1>4. /\ Grows(g, q) /\ IsWriter(q) /\ q.relocs = g.relocs /\ q.atoms = g.atoms
      /\ Bytes(Out(q)) /\ q.pos \in Nat /\ g.pos <= q.pos
  BY <1>1, <1>3, Positions DEF Adds, Grows, Extends, SameRest, Carries
<1>5. PICK f, T, B : Reading(f, T, B, P, g, o, m) /\ at \in T \cup TopEnd(o, g.pos)
  BY DEF Coded
<1>6. PICK l, e : l = g.pos /\ e = q.pos  OBVIOUS
<1>7. PICK h, mm : h = With(f, l, c) /\ mm = Noted(m, l, c.op, c.means)  OBVIOUS
<1>8. PICK T2, B2 :
        IF o = <<>> THEN T2 = T \cup {l} /\ B2 = B ELSE T2 = T /\ B2 = B \cup {l}
  <2>1. CASE o = <<>>  BY <2>1
  <2>2. CASE o # <<>>  BY <2>2
  <2> QED  BY <2>1, <2>2
<1>9. InPlace(l, c, q, o)
  <2>1. \A p \in Holes(q, o) : Clear(p, l, c)  BY <1>2, <1>3, <1>6 DEF Clear
  <2>2. c.op # "RJMP_U4"  BY DEF Structural
  <2> QED  BY <1>6, <2>1, <2>2 DEF InPlace
<1>10. Code(f, T, B, P, g, o, m) /\ Without(f, T, {"HALT"})
       /\ Flows(f, T, TopEnd(o, l)) /\ Flows(f, B, BodyEnd(o, l))
       /\ Bodies(f, T, B, o, l)
  BY <1>5, <1>6 DEF Reading
<1>11. c.op \notin {"RET", "MOD_RET", "HALT"} /\ c.op \notin Starting
  BY DEF Structural
<1>12. Code(h, T2, B2, P, q, o, mm)
  <2>1. \/ T2 = T \cup {g.pos} /\ B2 = B /\ c.op \notin {"RET", "MOD_RET"}
        \/ T2 = T /\ B2 = B \cup {g.pos} /\ c.op # "HALT"
    BY <1>6, <1>8, <1>11
  <2>2. Code(With(f, g.pos, c), T2, B2, P, q, o, Noted(m, g.pos, c.op, c.means))
    BY <1>3, <1>6, <1>9, <1>10, <1>11, <2>1, CodeAdds
  <2> QED  BY <1>6, <1>7, <2>2
<1>13. /\ \A a \in T \cup B : a \in DOMAIN f
       /\ l \notin T /\ l \notin B
  <2>1. Laid(f, T \cup B \cup P, g, o)  BY <1>10 DEF Code
  <2>2. \A a \in T \cup B \cup P : a \in DOMAIN f
    BY <1>2, <2>1, CellsInFront
  <2>3. g.pos \notin T \cup B \cup P  BY <1>2, <2>1, CellsInFront
  <2> QED  BY <1>6, <2>2, <2>3
<1>14. /\ h[l] = c /\ \A a \in T \cup B : h[a] = f[a]
  BY <1>7, <1>13, WithCell
<1>15. Without(h, T2, {"HALT"})  BY <1>8, <1>10, <1>11, <1>14 DEF Without
<1>16. Flows(h, T2, TopEnd(o, e)) /\ Flows(h, B2, BodyEnd(o, e))
  <2>1. CASE o = <<>>
    <3>1. TopEnd(o, l) = {l} /\ TopEnd(o, e) = {e} /\ BodyEnd(o, l) = {} /\ BodyEnd(o, e) = {}
      BY <2>1 DEF TopEnd, BodyEnd
    <3>2. Flows(f, T, {l}) /\ {l} \subseteq {l}  BY <1>10, <3>1
    <3>3. Flows(h, T \cup {l}, Leads(c))  BY <1>7, <1>13, <3>2, FlowsAdds
    <3>4. Flows(h, T \cup {l}, {e})  BY <1>6, <3>3, FlowsWider
    <3>5. Flows(h, B, {})  BY <1>7, <1>10, <1>13, <3>1, FlowsSame
    <3> QED  BY <1>8, <2>1, <3>1, <3>4, <3>5
  <2>2. CASE o # <<>>
    <3>1. TopEnd(o, l) = {} /\ TopEnd(o, e) = {} /\ BodyEnd(o, l) = {l} /\ BodyEnd(o, e) = {e}
      BY <2>2 DEF TopEnd, BodyEnd
    <3>2. Flows(f, B, {l}) /\ {l} \subseteq {l}  BY <1>10, <3>1
    <3>3. Flows(h, B \cup {l}, Leads(c))  BY <1>7, <1>13, <3>2, FlowsAdds
    <3>4. Flows(h, B \cup {l}, {e})  BY <1>6, <3>3, FlowsWider
    <3>5. Flows(h, T, {})  BY <1>7, <1>10, <1>13, <3>1, FlowsSame
    <3> QED  BY <1>8, <2>2, <3>1, <3>4, <3>5
  <2> QED  BY <2>1, <2>2
<1>17. Bodies(h, T2, B2, o, e)
  <2>1. CASE o = <<>>
    <3>1. DOMAIN o = {}  BY <2>1
    <3> QED  BY <3>1 DEF Bodies
  <2>2. CASE o # <<>>
    <3>1. T \subseteq T2 /\ B \subseteq B2 /\ l \in B2  BY <1>8, <2>2
    <3> QED  BY <1>10, <1>14, <3>1, BodiesStay
  <2> QED  BY <2>1, <2>2
<1>18. Reading(h, T2, B2, P, q, o, mm)
  BY <1>6, <1>12, <1>15, <1>16, <1>17 DEF Reading
<1>19. at \in T2 \cup TopEnd(o, e)  BY <1>5, <1>6, <1>8 DEF TopEnd
<1>20. Sound("reading", q, o)  BY <1>1, <1>4, ReadingGrows
<1>21. HolesApart(q, o)  BY <1>1, <1>2, <1>4, HolesApartStays
<1>22. Atoms(q)  BY <1>1, <1>4, AtomsStay
<1> QED  BY <1>4, <1>6, <1>7, <1>18, <1>19, <1>20, <1>21, <1>22 DEF Coded

\* A body is opened.
LEMMA CodedOpens ==
  ASSUME NEW g, NEW o, NEW m, NEW P, NEW at, Coded(g, o, m, P, at),
         NEW q, q = Placeholder(g),
         NEW body, body.reloc = g.pos + 1, body.start = q.pos
  PROVE  Coded(q, Append(o, body), Noted(m, g.pos, "RJMP_U4", -1), P, at)
<1>1. Sound("reading", g, o) /\ Bytes(Out(g)) /\ HolesApart(g, o) /\ Atoms(g)
  BY DEF Coded
<1>2. /\ IsWriter(g) /\ Buffers(g) /\ g.pos \in Nat /\ IsSeq(o) /\ IsSeq(g.relocs)
      /\ \A p \in Holes(g, o) : p \in Nat /\ p + 4 <= g.pos
  BY <1>1, HolesInFront
<1>3. Adds(g, q) /\ q.pos = g.pos + 5 /\ Reads(Out(q), g.pos, "RJMP_U4", <<>>, q.pos)
  BY <1>2, PlaceholderReads
<1>4. PICK u : u = Append(o, body)  OBVIOUS
<1>5. PICK l \in Nat, e \in Nat : l = g.pos /\ e = q.pos /\ e = l + 5
  <2>1. q.pos \in Nat  BY <1>2, <1>3
  <2> QED  BY <1>2, <1>3, <2>1
<1>6. PICK n \in Nat : n = Len(o)  BY <1>2, Domains
<1>7. /\ IsSeq(u) /\ DOMAIN o = 1 .. n /\ DOMAIN u = 1 .. n + 1
      /\ \A k \in 1 .. n : u[k] = o[k]
      /\ u[n + 1] = body
  <2>1. /\ IsSeq(u) /\ Len(u) = n + 1 /\ \A k \in 1 .. n : u[k] = o[k]
        /\ u[n + 1] = body
    BY <1>2, <1>4, <1>6, Appends
  <2> QED  BY <1>2, <1>6, <2>1, Domains
<1>8. /\ IsWriter(q) /\ q.relocs = g.relocs /\ q.atoms = g.atoms /\ q.strings = g.strings
      /\ Bytes(Out(q))
  BY <1>1, <1>3 DEF Adds, Grows, Extends, SameRest
<1>9. \A p : p \in Holes(q, u) <=> p \in Holes(g, o) \/ p = l + 1
  <2>1. \A p : p \in Holes(g, o) => p \in Holes(q, u)
    <3>1. \A k \in 1 .. n : k \in 1 .. n + 1  OBVIOUS
    <3> QED  BY <1>7, <1>8, <3>1 DEF Holes
  <2>2. l + 1 \in Holes(q, u)
    <3>1. n + 1 \in 1 .. n + 1  OBVIOUS
    <3>2. u[n + 1].reloc = l + 1  BY <1>5, <1>7
    <3> QED  BY <1>7, <3>1, <3>2 DEF Holes
  <2>3. ASSUME NEW p \in Holes(q, u)  PROVE p \in Holes(g, o) \/ p = l + 1
    <3>1. CASE \E k \in DOMAIN g.relocs : p = g.relocs[k].pos  BY <3>1 DEF Holes
    <3>2. CASE \E k \in DOMAIN u : p = u[k].reloc
      <4>1. PICK k \in 1 .. n + 1 : p = u[k].reloc  BY <1>7, <3>2
      <4>2. CASE k = n + 1  BY <1>5, <1>7, <4>1, <4>2
      <4>3. CASE k # n + 1
        <5>1. k \in 1 .. n  BY <4>3
        <5> QED  BY <1>7, <4>1, <5>1 DEF Holes
      <4> QED  BY <4>2, <4>3
    <3> QED  BY <1>8, <2>3, <3>1, <3>2 DEF Holes
  <2> QED  BY <2>1, <2>2, <2>3
<1>10. Carries(g, q, o, u) /\ Holes(g, o) \subseteq Holes(q, u)
  <2>1. Carries(g, q, o, o)  BY <1>2, <1>3, AddsCarries
  <2>2. \A p \in Holes(q, u) : p \in Holes(g, o) \/ (p \in Nat /\ l <= p)
    BY <1>9
  <2> QED  BY <1>5, <1>9, <2>1, <2>2 DEF Carries
<1>11. PICK c : c = [op |-> "RJMP_U4", means |-> -1, next |-> e]  OBVIOUS
<1>12. c.op = "RJMP_U4" /\ c.means = -1 /\ c.next = e  BY <1>11
<1>13. InPlace(l, c, q, u)
  <2>1. Says(q, l, c)
    <3>1. Decode(Out(q), l).op = "RJMP_U4" /\ Decode(Out(q), l).next = e
      BY <1>3, <1>5 DEF Reads
    <3> QED  BY <1>12, <3>1 DEF Says, Tells, NameOps
  <2>2. Stands(l, c, q)  BY <1>5, <1>12, <2>1 DEF Stands
  <2>3. \A p \in Holes(q, u) : Clear(p, l, c)  BY <1>2, <1>5, <1>9, <1>12 DEF Clear
  <2>4. Awaits(l, c, q, u)
    <3>1. ASSUME NEW k \in DOMAIN q.relocs, q.relocs[k].pos = l + 1  PROVE FALSE
      <4>1. l + 1 \in Holes(g, o)  BY <1>8, <3>1 DEF Holes
      <4> QED  BY <1>2, <1>5, <4>1
    <3> QED  BY <1>5, <1>9, <1>12, <3>1 DEF Awaits
  <2> QED  BY <2>2, <2>3, <2>4 DEF InPlace
<1>14. PICK f, T, B : Reading(f, T, B, P, g, o, m) /\ at \in T \cup TopEnd(o, l)
  BY <1>5 DEF Coded
<1>15. PICK h, mm : h = With(f, l, c) /\ mm = Noted(m, l, "RJMP_U4", -1)  OBVIOUS
<1>16. PICK T2, B2 :
         IF o = <<>> THEN T2 = T \cup {l} /\ B2 = B ELSE T2 = T /\ B2 = B \cup {l}
  <2>1. CASE o = <<>>  BY <2>1
  <2>2. CASE o # <<>>  BY <2>2
  <2> QED  BY <2>1, <2>2
<1>17. Code(f, T, B, P, g, o, m) /\ Without(f, T, {"HALT"})
       /\ Flows(f, T, TopEnd(o, l)) /\ Flows(f, B, BodyEnd(o, l))
       /\ Bodies(f, T, B, o, l)
  BY <1>5, <1>14 DEF Reading
<1>18. Code(h, T2, B2, P, q, u, mm)
  <2>1. \/ T2 = T \cup {g.pos} /\ B2 = B /\ c.op \notin {"RET", "MOD_RET"}
        \/ T2 = T /\ B2 = B \cup {g.pos} /\ c.op # "HALT"
    BY <1>5, <1>12, <1>16
  <2>2. c.op \notin Starting  BY <1>12 DEF Starting
  <2>3. InPlace(g.pos, c, q, u)  BY <1>5, <1>13
  <2>4. Code(With(f, g.pos, c), T2, B2, P, q, u, Noted(m, g.pos, c.op, c.means))
    BY <1>10, <1>17, <2>1, <2>2, <2>3, CodeAdds
  <2> QED  BY <1>5, <1>12, <1>15, <2>4
<1>19. (\A a \in T \cup B : a \in DOMAIN f) /\ l \notin T /\ l \notin B
  <2>1. Laid(f, T \cup B \cup P, g, o)  BY <1>17 DEF Code
  <2>2. \A a \in T \cup B \cup P : a \in DOMAIN f  BY <1>2, <2>1, CellsInFront
  <2>3. g.pos \notin T \cup B \cup P  BY <1>2, <2>1, CellsInFront
  <2> QED  BY <1>5, <2>2, <2>3
<1>20. h[l] = c /\ \A a \in T \cup B : h[a] = f[a]  BY <1>15, <1>19, WithCell
<1>21. Without(h, T2, {"HALT"})
  BY <1>12, <1>16, <1>17, <1>20 DEF Without
<1>22. u # <<>> /\ TopEnd(u, e) = {} /\ BodyEnd(u, e) = {e}
  <2>1. u # <<>>
    <3>1. n + 1 \in DOMAIN u  BY <1>7
    <3> QED  BY <3>1
  <2> QED  BY <2>1 DEF TopEnd, BodyEnd
<1>23. Leads(c) = {}  BY <1>12 DEF Leads
<1>24. Flows(h, T2, TopEnd(u, e)) /\ Flows(h, B2, BodyEnd(u, e))
  <2>1. CASE o = <<>>
    <3>1. Flows(f, T, {l}) /\ Flows(f, B, {})  BY <1>17, <2>1 DEF TopEnd, BodyEnd
    <3>2. Flows(h, T \cup {l}, {})  BY <1>15, <1>19, <1>23, <3>1, FlowsAdds
    <3>3. Flows(h, B, {})  BY <1>15, <1>19, <3>1, FlowsSame
    <3>4. Flows(h, B, {e})  BY <3>3, FlowsWider
    <3> QED  BY <1>16, <1>22, <2>1, <3>2, <3>4
  <2>2. CASE o # <<>>
    <3>1. Flows(f, T, {}) /\ Flows(f, B, {l})  BY <1>17, <2>2 DEF TopEnd, BodyEnd
    <3>2. Flows(h, B \cup {l}, {})  BY <1>15, <1>19, <1>23, <3>1, FlowsAdds
    <3>3. Flows(h, B \cup {l}, {e})  BY <3>2, FlowsWider
    <3>4. Flows(h, T, {})  BY <1>15, <1>19, <3>1, FlowsSame
    <3> QED  BY <1>16, <1>22, <2>2, <3>3, <3>4
  <2> QED  BY <2>1, <2>2
<1>25. Bodies(h, T2, B2, u, e)
  <2>1. ASSUME NEW k \in 1 .. n
        PROVE  BodyOf(h, IF k = 1 THEN T2 ELSE B2, B2, u[k], e)
    <3>1. o # <<>>
      <4>1. DOMAIN o # {}  BY <1>7, <2>1
      <4> QED  BY <4>1
    <3>2. T \subseteq T2 /\ B \subseteq B2 /\ l \in B2  BY <1>16, <3>1
    <3>3. Bodies(h, T2, B2, o, e)  BY <1>17, <1>20, <3>2, BodiesStay
    <3>4. BodyOf(h, IF k = 1 THEN T2 ELSE B2, B2, o[k], e)
      BY <1>7, <2>1, <3>3 DEF Bodies
    <3> QED  BY <1>7, <2>1, <3>4
  <2>2. BodyOf(h, IF n + 1 = 1 THEN T2 ELSE B2, B2, body, e)
    <3>1. PICK S : S = (IF n + 1 = 1 THEN T2 ELSE B2)  OBVIOUS
    <3>2. n = 0 <=> o = <<>>
      <4>1. PICK R : o \in Seq(R)  BY <1>2 DEF IsSeq
      <4> QED  BY <1>6, <4>1, EmptySeq
    <3>3. l \in S  BY <1>16, <3>1, <3>2
    <3>4. body.reloc - 1 = l /\ body.reloc \in Nat /\ body.start = body.reloc + 4
          /\ body.start = e
      BY <1>5
    <3>5. h[l] = [op |-> "RJMP_U4", means |-> -1, next |-> e]  BY <1>11, <1>20
    <3>6. BodyOf(h, S, B2, body, e)  BY <3>3, <3>4, <3>5 DEF BodyOf
    <3> QED  BY <3>1, <3>6
  <2>3. ASSUME NEW k \in DOMAIN u
        PROVE  BodyOf(h, IF k = 1 THEN T2 ELSE B2, B2, u[k], e)
    <3>1. k \in 1 .. n \/ k = n + 1  BY <1>7
    <3>2. CASE k \in 1 .. n  BY <2>1, <3>2
    <3>3. CASE k = n + 1  BY <1>7, <2>2, <3>3
    <3> QED  BY <3>1, <3>2, <3>3
  <2> QED  BY <2>3 DEF Bodies
<1>26. Reading(h, T2, B2, P, q, u, mm)
  BY <1>5, <1>18, <1>21, <1>24, <1>25 DEF Reading
<1>27. at \in T2 \cup TopEnd(u, e)  BY <1>14, <1>16 DEF TopEnd
<1>28. Sound("reading", q, u)  BY <1>1, <1>4, ReadingOpens
<1>29. HolesApart(q, u)
  <2>1. HolesApart(q, o)
    <3>1. g.pos <= q.pos /\ q.pos \in Nat  BY <1>5
    <3> QED  BY <1>1, <1>2, <1>8, <3>1, HolesApartStays
  <2>2. \A p \in Holes(g, o) : Far(p, l + 1) /\ Far(l + 1, p)  BY <1>2, <1>5 DEF Far
  <2>3. \A k \in DOMAIN u : (k \in DOMAIN o /\ u[k] = o[k]) \/ (k = n + 1 /\ u[k].reloc = l + 1)
    BY <1>5, <1>7
  <2>4. \A k \in DOMAIN q.relocs : q.relocs[k].pos \in Holes(g, o)  BY <1>8 DEF Holes
  <2>5. \A k \in DOMAIN o : o[k].reloc \in Holes(g, o)  BY DEF Holes
  <2>6. \A k \in DOMAIN q.relocs, j \in DOMAIN u : Far(q.relocs[k].pos, u[j].reloc)
    BY <2>1, <2>2, <2>3, <2>4 DEF HolesApart
  <2>7. \A k, j \in DOMAIN u : k # j => Far(u[k].reloc, u[j].reloc)
    BY <2>1, <2>2, <2>3, <2>5 DEF HolesApart
  <2> QED  BY <2>1, <2>6, <2>7 DEF HolesApart
<1>30. Atoms(q)  BY <1>1, <1>8, AtomsStay
<1> QED
  BY <1>4, <1>5, <1>8, <1>15, <1>26, <1>27, <1>28, <1>29, <1>30 DEF Coded

\* All but the last one, and the last one.
LEMMA Fronts ==
  ASSUME NEW o, IsSeq(o), o # <<>>
  PROVE  \E n \in Nat :
           /\ DOMAIN o = 1 .. n + 1 /\ IsSeq(Front(o)) /\ DOMAIN Front(o) = 1 .. n
           /\ \A k \in 1 .. n : Front(o)[k] = o[k]
           /\ Last(o) = o[n + 1]
           /\ n = 0 <=> Front(o) = <<>>
<1>1. Len(o) \in Nat /\ DOMAIN o = 1 .. Len(o)  BY Domains
<1>2. Len(o) > 0
  <2>1. PICK S : o \in Seq(S)  BY DEF IsSeq
  <2> QED  BY <1>1, <2>1, EmptySeq
<1>3. PICK m \in Nat : m + 1 = Len(o) /\ m = Len(o) - 1
  <2>1. Len(o) - 1 \in Nat /\ (Len(o) - 1) + 1 = Len(o)  BY <1>1, <1>2
  <2> QED  BY <2>1
<1>4. PICK u : u = SubSeq(o, 0 + 1, 0 + m)  OBVIOUS
<1>5. u = Front(o)  BY <1>3, <1>4 DEF Front
<1>6. IsSeq(u) /\ Len(u) = m /\ \A k \in 1 .. m : u[k] = o[0 + k]
  <2>1. IsPart(o, 0, m)  BY <1>1, <1>3 DEF IsPart
  <2> QED  BY <1>4, <2>1, Parts
<1>7. DOMAIN u = 1 .. m /\ \A k \in 1 .. m : u[k] = o[k]  BY <1>6, Domains
<1>8. Last(o) = o[m + 1]  BY <1>3 DEF Last
<1>9. m = 0 <=> u = <<>>
  <2>1. PICK S : u \in Seq(S)  BY <1>6 DEF IsSeq
  <2> QED  BY <1>6, <2>1, EmptySeq
<1> QED  BY <1>1, <1>3, <1>5, <1>6, <1>7, <1>8, <1>9

\* An instruction whose operands are what it means.
Literal == {"RJMP", "RJMP_U4", "ALLOC_BUFFER_STATIC", "ALLOC_REAL", "NAMED_PARAM"} \cup NameOps

LEMMA SaysWords ==
  ASSUME NEW q, NEW a \in Nat, NEW c, Reads(Out(q), a, c.op, c.means, c.next),
         c.op \notin Literal
  PROVE  Says(q, a, c)
<1>1. PICK i : i = Decode(Out(q), a)  OBVIOUS
<1>2. i.op = c.op /\ i.words = c.means /\ i.next = c.next  BY <1>1 DEF Reads
<1>3. Tells(q, i, c.means)  BY <1>2 DEF Tells, Literal
<1> QED  BY <1>1, <1>2, <1>3 DEF Says

LEMMA FlowsPatches ==
  ASSUME NEW f, NEW S, NEW E, NEW j, NEW c, \A a \in S : a \in DOMAIN f,
         Flows(f, S, E), Leads(c) \subseteq S \cup E
  PROVE  Flows(With(f, j, c), S, E)
<1>1. \A a \in S : a # j => With(f, j, c)[a] = f[a]  BY WithCell
<1>2. With(f, j, c)[j] = c  BY WithCell
<1> QED  BY <1>1, <1>2 DEF Flows

\* The length of the jump at j is listed, as that to the address after n more bytes.
Patches(f, j, n, next, c) ==
  /\ n \in Nat /\ next \in Nat /\ next = j + 5
  /\ f[j] = [op |-> "RJMP_U4", means |-> -1, next |-> next]
  /\ c = [op |-> "RJMP_U4", means |-> next + n, next |-> next]
Lists(g, q, o, u, j, n) ==
  /\ IsWriter(g) /\ IsSeq(g.relocs)
  /\ \A k \in DOMAIN g.relocs : g.relocs[k].pos # j + 1
  /\ q = AddReloc(g, j + 1, n)
  /\ Holes(q, u) = Holes(g, o) /\ j + 1 \in Holes(g, o)

LEMMA CodePatches ==
  ASSUME NEW f, NEW T, NEW B, NEW P, NEW g, NEW o, NEW m, Code(f, T, B, P, g, o, m),
         NEW j \in T \cup B, NEW n, NEW next, NEW c, Patches(f, j, n, next, c),
         NEW q, NEW u, Lists(g, q, o, u, j, n)
  PROVE  /\ Code(With(f, j, c), T, B, P, q, u, Noted(m, j, "RJMP_U4", next + n))
         /\ IsWriter(q) /\ Out(q) = Out(g) /\ q.pos = g.pos /\ q.atoms = g.atoms
         /\ \A k \in DOMAIN q.relocs :
              \/ k \in DOMAIN g.relocs /\ q.relocs[k] = g.relocs[k]
              \/ /\ k = Len(g.relocs) + 1
                 /\ q.relocs[k] = [pos |-> j + 1, replacement |-> n]
<1> USE DEF Patches, Lists
<1>1. PICK r, old, relocs : /\ r = [pos |-> j + 1, replacement |-> n]
                            /\ old = g.relocs /\ relocs = Append(old, r)
  OBVIOUS
<1>2. q = [g EXCEPT !.relocs = relocs]  BY <1>1 DEF AddReloc
<1>3. g = [x \in Fields |-> g[x]]  BY DEF IsWriter
<1>4. q = [x \in Fields |-> q[x]]  BY <1>2, <1>3 DEF Fields
<1>5. /\ q.mem = g.mem /\ q.buf = g.buf /\ q.pos = g.pos /\ q.atoms = g.atoms
      /\ q.strings = g.strings /\ q.relocs = relocs
  BY <1>2, <1>3 DEF Fields
<1>6. Out(q) = Out(g)  BY <1>5 DEF Out
<1>7. IsWriter(q)  BY <1>4, <1>5 DEF IsWriter
<1>8. \A k \in DOMAIN relocs : \/ k \in DOMAIN old /\ relocs[k] = old[k]
                               \/ k = Len(old) + 1 /\ relocs[k] = r
  <2>1. /\ IsSeq(relocs) /\ Len(relocs) = Len(old) + 1
        /\ \A k \in 1 .. Len(old) : relocs[k] = old[k]
        /\ relocs[Len(old) + 1] = r
    BY <1>1, Appends
  <2>2. /\ Len(old) \in Nat /\ DOMAIN old = 1 .. Len(old)
        /\ DOMAIN relocs = 1 .. Len(relocs)
    BY <1>1, <2>1, Domains
  <2> QED  BY <2>1, <2>2
<1>8a. \A k \in DOMAIN q.relocs : \/ k \in DOMAIN g.relocs /\ q.relocs[k] = g.relocs[k]
                                  \/ k = Len(g.relocs) + 1 /\ q.relocs[k] = r
  <2>1. q.relocs = relocs /\ old = g.relocs  BY <1>1, <1>5
  <2> QED  BY ONLY <1>8, <2>1
<1>8b. \A k \in DOMAIN g.relocs : g.relocs[k].pos # j + 1  OBVIOUS
<1>9. Remembers(g, q)  BY <1>5 DEF Remembers
<1>10. PICK S : S = T \cup B \cup P  OBVIOUS
<1>11. Laid(f, S, g, o) /\ Meant(f, S, m) /\ Disjoint(T, B, P)  BY <1>10 DEF Code
<1>12. PICK h, mm : h = With(f, j, c) /\ mm = Noted(m, j, "RJMP_U4", next + n)  OBVIOUS
<1>13. \A a \in S : a \in DOMAIN f  BY <1>11 DEF Laid
<1>14. /\ h[j] = c /\ j \in DOMAIN h
       /\ \A a \in S : a \in DOMAIN h /\ (a # j => h[a] = f[a])
  BY <1>12, <1>13, WithCell
<1>15. mm[j] = [op |-> "RJMP_U4", means |-> next + n] /\ j \in DOMAIN mm
       /\ \A a \in S : a \in DOMAIN m => a \in DOMAIN mm /\ (a # j => mm[a] = m[a])
  BY <1>12, NotedCell
<1>16. c.op = "RJMP_U4" /\ c.means = next + n /\ c.next = next  OBVIOUS
<1>17. f[j].op = "RJMP_U4" /\ f[j].next = next  OBVIOUS
<1>18. r.pos = j + 1 /\ r.replacement = n  BY <1>1
<1>19. ASSUME NEW a \in S, a # j  PROVE InPlace(a, f[a], q, u)
  <2>1. InPlace(a, f[a], g, o)  BY <1>11, <1>19 DEF Laid
  <2>2. Stands(a, f[a], g)  BY <2>1 DEF InPlace
  <2>3. a \in Nat  BY <2>2 DEF Stands
  <2>4. Stands(a, f[a], q)
    <3>1. Alike(Out(g), Out(q), a, f[a].next)  BY <1>6 DEF Alike
    <3>2. g.pos <= q.pos
      <4>1. g.pos \in Nat  BY Positions
      <4> QED  BY <1>5, <4>1
    <3> QED  BY <1>7, <1>9, <2>2, <3>1, <3>2, StandsStays
  <2>5. ASSUME f[a].op = "RJMP_U4"  PROVE Awaits(a, f[a], q, u)
    <3>1. Awaits(a, f[a], g, o)  BY <2>1, <2>5 DEF InPlace
    <3>2. Filled(g, a, f[a]) => Filled(q, a, f[a])  BY <1>6 DEF Filled
    <3>3. a + 1 # j + 1
      <4>1. j \in Nat
        <5>1. InPlace(j, f[j], g, o)  BY <1>10, <1>11 DEF Laid
        <5> QED  BY <5>1 DEF InPlace, Stands
      <4> QED  BY <1>19, <2>3, <4>1
    <3>4. \A k \in DOMAIN q.relocs : q.relocs[k].pos = a + 1 =>
            k \in DOMAIN g.relocs /\ q.relocs[k] = g.relocs[k]
      BY ONLY <1>18, <1>8a, <3>3
    <3> QED  BY <3>1, <3>2, <3>4 DEF Awaits
  <2> QED  BY <2>1, <2>4, <2>5 DEF InPlace
<1>20. InPlace(j, f[j], g, o)  BY <1>10, <1>11 DEF Laid
<1>21. j \in Nat  BY <1>20 DEF InPlace, Stands
<1>22. InPlace(j, c, q, u)
  <2>1. Says(q, j, c)
    <3>1. Says(g, j, f[j])  BY <1>20 DEF InPlace, Stands
    <3>2. Decode(Out(q), j).op = "RJMP_U4" /\ Decode(Out(q), j).next = next
      BY <1>6, <1>17, <3>1 DEF Says
    <3> QED  BY <1>16, <3>2 DEF Says, Tells, NameOps
  <2>2. Stands(j, c, q)
    <3>1. j < next /\ next <= g.pos  BY <1>17, <1>20 DEF InPlace, Stands
    <3> QED  BY <1>5, <1>16, <1>21, <2>1, <3>1 DEF Stands
  <2>3. \A p \in Holes(q, u) : Clear(p, j, c)
    <3>1. \A p \in Holes(g, o) : Clear(p, j, f[j])  BY <1>20 DEF InPlace
    <3> QED  BY <1>16, <1>17, <3>1 DEF Clear
  <2>4. ASSUME NEW k \in DOMAIN q.relocs, q.relocs[k].pos = j + 1
        PROVE  c.means = c.next + q.relocs[k].replacement
    <3>1. q.relocs[k] = r  BY ONLY <1>8a, <1>8b, <2>4
    <3> QED  BY <1>16, <1>18, <3>1
  <2>5. Awaits(j, c, q, u)  BY <1>16, <2>4 DEF Awaits
  <2> QED  BY <2>2, <2>3, <2>5 DEF InPlace
<1>23. Laid(h, S, q, u)
  <2>1. ASSUME NEW a \in S  PROVE InPlace(a, h[a], q, u)
    <3>1. CASE a = j  BY <1>14, <1>22, <3>1
    <3>2. CASE a # j  BY <1>14, <1>19, <3>2
    <3> QED  BY <3>1, <3>2
  <2> QED  BY <1>14, <2>1 DEF Laid
<1>24. Meant(h, S, mm)
  <2>1. ASSUME NEW a \in S
        PROVE  a \in DOMAIN mm /\ mm[a] = [op |-> h[a].op, means |-> h[a].means]
    <3>1. CASE a = j  BY <1>14, <1>15, <1>16, <3>1
    <3>2. CASE a # j
      <4>1. a \in DOMAIN m /\ m[a] = [op |-> f[a].op, means |-> f[a].means]
        BY <1>11 DEF Meant
      <4> QED  BY <1>14, <1>15, <3>2, <4>1
    <3> QED  BY <3>1, <3>2
  <2> QED  BY <2>1 DEF Meant
<1>25. P \subseteq S /\ T \subseteq S /\ B \subseteq S /\ j \notin P
  BY <1>10, <1>11 DEF Disjoint
<1>26. \A a \in P : h[a] = f[a]  BY <1>14, <1>25
<1>27. FilledIn(h, P, q)
  <2>1. FilledIn(f, P, g)  BY DEF Code
  <2> QED  BY <1>6, <1>26, <2>1 DEF FilledIn, Filled
<1>28. Flows(h, P, {}) /\ Starts(h, P, P)
  <2>1. Flows(f, P, {}) /\ Starts(f, P, P)  BY DEF Code
  <2> QED  BY <1>26, <2>1 DEF Flows, Starts
<1>29. Starts(h, T \cup B, B \cup P)
  <2>1. Starts(f, T \cup B, B \cup P)  BY DEF Code
  <2>2. c.op \notin Starting  BY <1>16 DEF Starting
  <2> QED  BY <1>14, <1>25, <2>1, <2>2 DEF Starts
<1>30. Without(h, T, {"RET", "MOD_RET"}) /\ Without(h, B \cup P, {"HALT"})
  <2>1. Without(f, T, {"RET", "MOD_RET"}) /\ Without(f, B \cup P, {"HALT"})  BY DEF Code
  <2> QED  BY <1>14, <1>16, <1>25, <2>1 DEF Without
<1>31. Code(h, T, B, P, q, u, mm)
  BY <1>10, <1>11, <1>23, <1>24, <1>27, <1>28, <1>29, <1>30 DEF Code
<1> QED  BY <1>1, <1>5, <1>6, <1>7, <1>8, <1>12, <1>31

\* The instruction that was written last, without a hole.
LEMMA LastStands ==
  ASSUME NEW g, NEW q, g.pos \in Nat, q.pos \in Nat, g.pos < q.pos,
         NEW c, c.next = q.pos, Reads(Out(q), g.pos, c.op, c.means, q.pos),
         c.op \notin Literal
  PROVE  Stands(g.pos, c, q)
<1>1. Says(q, g.pos, c)  BY SaysWords
<1> QED  BY <1>1 DEF Stands

LEMMA LastInPlace ==
  ASSUME NEW g, NEW q, NEW o, NEW c, Stands(g.pos, c, q), c.op # "RJMP_U4",
         \A p \in Holes(q, o) : p \in Nat /\ p + 4 <= g.pos
  PROVE  InPlace(g.pos, c, q, o)
<1>1. \A p \in Holes(q, o) : Clear(p, g.pos, c)  BY DEF Clear
<1> QED  BY <1>1 DEF InPlace

\* The generator's operands fit into what encode_uint has room for.
Short(g) == g.pos < 268435456 /\ Len(g.atoms) < 268435456

LEMMA ShortOperands ==
  ASSUME NEW g, Short(g), g.pos \in Nat
  PROVE  \A w \in Nat : w <= g.pos => w \in Operand
BY SMT DEF Short, Operand

\* The jump over a body is a cell of it.
LEMMA BodyInside ==
  ASSUME NEW f, NEW T, NEW B, NEW P, NEW g, NEW o, NEW m, Reading(f, T, B, P, g, o, m),
         IsWriter(g), NEW n \in DOMAIN o, NEW S, S = IF n = 1 THEN T ELSE B
  PROVE  /\ BodyOf(f, S, B, o[n], g.pos)
         /\ o[n].reloc \in Nat /\ o[n].start \in Nat /\ o[n].start <= g.pos
<1>1. Laid(f, T \cup B \cup P, g, o) /\ BodyOf(f, S, B, o[n], g.pos)
  BY DEF Reading, Code, Bodies
<1>2. /\ \A a \in T \cup B \cup P : a \in DOMAIN f /\ a \in Nat /\ a < g.pos
      /\ g.pos \in Nat
  BY <1>1, CellsInFront
<1>3. o[n].start \in B \cup {g.pos} /\ o[n].reloc \in Nat  BY <1>1 DEF BodyOf
<1>4. PICK start : start = o[n].start  OBVIOUS
<1>5. start \in Nat /\ start <= g.pos  BY <1>2, <1>3, <1>4
<1> QED  BY <1>1, <1>3, <1>4, <1>5

LEMMA Returning ==
  ASSUME NEW op \in {"RET", "MOD_RET"}
  PROVE  op \in Operation /\ Words(op) = 0 /\ Fixed(op) = 0
<1>1. "RET" \in Operation /\ "MOD_RET" \in Operation
  BY DEF Operation, Opcodes, ToSet
<1>2. /\ Words("RET") = 0 /\ Fixed("RET") = 0
      /\ Words("MOD_RET") = 0 /\ Fixed("MOD_RET") = 0
  BY DEF Words, Plain, Fixed
<1> QED  BY <1>1, <1>2

LEMMA Loading ==
  ASSUME NEW op \in Starting
  PROVE  op \in Operation /\ Words(op) = 1
<1>1. "ALLOC_FUNCTION" \in Operation /\ "LOAD_MODULE" \in Operation
  BY DEF Operation, Opcodes, ToSet
<1>2. Words("ALLOC_FUNCTION") = 1 /\ Words("LOAD_MODULE") = 1
  BY DEF Words, Plain
<1> QED  BY <1>1, <1>2 DEF Starting

\* A body is closed, and its function or module loaded.
LEMMA CodedCloses ==
  ASSUME NEW g, NEW o, NEW m, NEW P, NEW at, Coded(g, o, m, P, at), o # <<>>,
         NEW body, body = Last(o),
         NEW ret \in {"RET", "MOD_RET"}, NEW load \in Starting,
         NEW g1, g1 = Instruction(g, ret),
         NEW g2, g2 = Instruction1(g1, load, body.start),
         NEW q, q = AddReloc(g2, body.reloc, g1.pos - body.start),
         Short(q)
  PROVE  Coded(q, Front(o),
               Noted(Noted(Noted(m, g.pos, ret, <<>>), g1.pos, load, <<body.start>>),
                     body.reloc - 1, "RJMP_U4", g1.pos),
               P, at)
<1>1. Sound("reading", g, o) /\ Bytes(Out(g)) /\ HolesApart(g, o) /\ Atoms(g)
  BY DEF Coded
<1>2. /\ IsWriter(g) /\ Buffers(g) /\ g.pos \in Nat /\ IsSeq(o) /\ IsSeq(g.relocs)
      /\ \A p \in Holes(g, o) : p \in Nat /\ p + 4 <= g.pos
  BY <1>1, HolesInFront
<1>3. PICK n \in Nat, u \in {Front(o)} :
        /\ u = Front(o)
        /\ DOMAIN o = 1 .. n + 1 /\ IsSeq(u) /\ DOMAIN u = 1 .. n
        /\ \A k \in 1 .. n : u[k] = o[k]
        /\ body = o[n + 1]
        /\ n = 0 <=> u = <<>>
  BY <1>2, Fronts
<1>4. n + 1 \in DOMAIN o  BY <1>3
<1>5. PICK f, T, B : Reading(f, T, B, P, g, o, m) /\ at \in T \cup TopEnd(o, g.pos)
  BY DEF Coded
<1>6. PICK S : S = IF n + 1 = 1 THEN T ELSE B  OBVIOUS
<1>7. PICK reloc \in Nat, start \in Nat : /\ reloc = body.reloc /\ start = body.start
                                          /\ start <= g.pos
  BY <1>2, <1>3, <1>4, <1>5, <1>6, BodyInside
<1>8. BodyOf(f, S, B, body, g.pos)
  BY <1>2, <1>3, <1>4, <1>5, <1>6, BodyInside
<1>9. start = reloc + 4 /\ start \in B \cup {g.pos} /\ reloc - 1 \in S
      /\ f[reloc - 1] = [op |-> "RJMP_U4", means |-> -1, next |-> start]
  BY <1>7, <1>8 DEF BodyOf
<1>10. PICK j : j = reloc - 1 /\ j + 1 = reloc /\ start = j + 5  BY <1>7, <1>9
<1>11. ret \in Operation /\ Words(ret) = 0 /\ Fixed(ret) = 0  BY Returning
<1>12. load \in Operation /\ Words(load) = 1  BY Loading
<1>13. Adds(g, g1) /\ g1.pos = g.pos + 1 /\ Reads(Out(g1), g.pos, ret, <<>>, g1.pos)
  BY <1>2, <1>11, InstructionReads
<1>14. Sound("reading", g1, o)  BY <1>1, ReadingInstruction
<1>15. IsWriter(g1) /\ Buffers(g1) /\ g1.pos \in Nat  BY <1>14, HolesInFront
<1>16. Sound("reading", g2, o)  BY <1>14, ReadingInstruction1
<1>17. IsWriter(g2) /\ Buffers(g2) /\ g2.pos \in Nat /\ IsSeq(g2.relocs)
  BY <1>16, HolesInFront
<1>18. q.pos = g2.pos
  <2>1. g2 = [x \in Fields |-> g2[x]]  BY <1>17 DEF IsWriter
  <2>2. PICK relocs : relocs = Append(g2.relocs, [pos |-> body.reloc,
                                    replacement |-> g1.pos - body.start])
    OBVIOUS
  <2>3. q = [g2 EXCEPT !.relocs = relocs]  BY <2>2 DEF AddReloc
  <2> QED  BY <2>1, <2>3 DEF Fields
<1>19. start \in Operand
  <2>1. Grows(g1, g2)
    <3>1. PICK r : r = Instruction1(g1, load, body.start)  OBVIOUS
    <3>2. Grows(g1, r)  BY <1>15, <3>1, Instruction1Grows
    <3> QED  BY <3>1, <3>2
  <2>2. g1.pos <= g2.pos  BY <1>15, <1>17, <2>1 DEF Grows, Extends
  <2>3. start < q.pos /\ q.pos \in Nat  BY <1>2, <1>7, <1>13, <1>17, <1>18, <2>2
  <2> QED  BY <2>3, ShortOperands
<1>20. Adds(g1, g2) /\ g1.pos < g2.pos /\ Reads(Out(g2), g1.pos, load, <<start>>, g2.pos)
  BY <1>7, <1>12, <1>15, <1>19, Instruction1Reads
<1>21. PICK l \in Nat, l1 \in Nat, e \in Nat :
         l = g.pos /\ l1 = g1.pos /\ e = g2.pos /\ l1 = l + 1 /\ l1 < e
  BY <1>2, <1>13, <1>15, <1>17, <1>20
<1>22. PICK c1, c2, c3 :
         /\ c1 = [op |-> ret, means |-> <<>>, next |-> l1]
         /\ c2 = [op |-> load, means |-> <<start>>, next |-> e]
         /\ c3 = [op |-> "RJMP_U4", means |-> l1, next |-> start]
  OBVIOUS
<1>23. c1.op = ret /\ c1.means = <<>> /\ c1.next = l1  BY <1>22
<1>24. c2.op = load /\ c2.means = <<start>> /\ c2.next = e  BY <1>22
<1>25. c3.op = "RJMP_U4" /\ c3.means = l1 /\ c3.next = start  BY <1>22
<1>26. PICK m1, m2, m3 :
         /\ m1 = Noted(m, l, ret, <<>>) /\ m2 = Noted(m1, l1, load, <<start>>)
         /\ m3 = Noted(m2, j, "RJMP_U4", l1)
  OBVIOUS
<1>27. PICK h1, h2, h3 : h1 = With(f, l, c1) /\ h2 = With(h1, l1, c2) /\ h3 = With(h2, j, c3)
  OBVIOUS
<1>28. PICK B1 : B1 = B \cup {l}  OBVIOUS
<1>29. PICK T2, B2 :
         IF n = 0 THEN T2 = T \cup {l1} /\ B2 = B1 ELSE T2 = T /\ B2 = B1 \cup {l1}
  <2>1. CASE n = 0  BY <2>1
  <2>2. CASE n # 0  BY <2>2
  <2> QED  BY <2>1, <2>2
\* The code, step by step.
<1>30. Carries(g, g1, o, o) /\ Holes(g1, o) = Holes(g, o)
       /\ Carries(g1, g2, o, o) /\ Holes(g2, o) = Holes(g, o)
  BY <1>2, <1>13, <1>15, <1>20, AddsCarries
<1>31. ret \notin Literal /\ load \notin Literal /\ ret # "RJMP_U4" /\ load # "RJMP_U4"
       /\ ret # "HALT" /\ load \notin {"HALT", "RET", "MOD_RET"} /\ ret \notin Starting
  BY DEF Literal, NameOps, Starting
<1>32. InPlace(g.pos, c1, g1, o)
  <2>1. Stands(g.pos, c1, g1)
    <3>1. g.pos < g1.pos  BY <1>2, <1>13
    <3> QED  BY <1>2, <1>13, <1>15, <1>21, <1>23, <1>31, <3>1, LastStands
  <2>2. \A p \in Holes(g1, o) : p \in Nat /\ p + 4 <= g.pos  BY <1>2, <1>30
  <2> QED  BY <1>23, <1>31, <2>1, <2>2, LastInPlace
<1>33. InPlace(g1.pos, c2, g2, o)
  <2>1. Stands(g1.pos, c2, g2)
    BY <1>15, <1>17, <1>20, <1>21, <1>24, <1>31, LastStands
  <2>2. \A p \in Holes(g2, o) : p \in Nat /\ p + 4 <= g1.pos
    <3>1. ASSUME NEW p \in Holes(g2, o)  PROVE p \in Nat /\ p + 4 <= g1.pos
      <4>1. p \in Nat /\ p + 4 <= g.pos  BY <1>2, <1>30
      <4> QED  BY <1>2, <1>13, <4>1
    <3> QED  BY <3>1
  <2> QED  BY <1>24, <1>31, <2>1, <2>2, LastInPlace
<1>34. Code(f, T, B, P, g, o, m) /\ Without(f, T, {"HALT"})
       /\ Flows(f, T, TopEnd(o, l)) /\ Flows(f, B, BodyEnd(o, l))
       /\ Bodies(f, T, B, o, l)
  BY <1>5, <1>21 DEF Reading
<1>35. Code(h1, T, B1, P, g1, o, m1)
  <2>1. Code(With(f, g.pos, c1), T, B1, P, g1, o, Noted(m, g.pos, c1.op, c1.means))
    <3>1. T = T /\ B1 = B \cup {g.pos} /\ c1.op # "HALT"
      BY <1>21, <1>23, <1>28, <1>31
    <3>2. c1.op \notin Starting  BY <1>23, <1>31
    <3>3. Holes(g, o) \subseteq Holes(g1, o)  BY <1>30
    <3> QED  BY <1>30, <1>32, <1>34, <3>1, <3>2, <3>3, CodeAdds
  <2> QED  BY <1>21, <1>23, <1>26, <1>27, <2>1
<1>36. Code(h2, T2, B2, P, g2, o, m2)
  <2>1. start \in B1  BY <1>9, <1>21, <1>28
  <2>2. B1 \subseteq B2  BY <1>29
  <2>3. c2.means[1] \in B2 \cup P  BY <1>24, <2>1, <2>2
  <2>4. \/ T2 = T \cup {g1.pos} /\ B2 = B1 /\ c2.op \notin {"RET", "MOD_RET"}
        \/ T2 = T /\ B2 = B1 \cup {g1.pos} /\ c2.op # "HALT"
    BY <1>21, <1>24, <1>29, <1>31
  <2>5. Holes(g1, o) \subseteq Holes(g2, o)  BY <1>30
  <2>6. Code(With(h1, g1.pos, c2), T2, B2, P, g2, o, Noted(m1, g1.pos, c2.op, c2.means))
    BY <1>30, <1>33, <1>35, <2>3, <2>4, <2>5, CodeAdds
  <2> QED  BY <1>21, <1>24, <1>26, <1>27, <2>6
\* Where its cells are.
<1>37. /\ (\A a \in T \cup B : a \in DOMAIN f /\ a \in Nat /\ a < l)
       /\ l \notin T /\ l \notin B /\ l1 \notin T /\ l1 \notin B1
  <2>1. Laid(f, T \cup B \cup P, g, o)  BY <1>34 DEF Code
  <2>2. \A a \in T \cup B \cup P : a \in DOMAIN f /\ a \in Nat /\ a < g.pos
    BY <1>2, <2>1, CellsInFront
  <2>3. \A a \in T \cup B : a \in DOMAIN f /\ a \in Nat /\ a < l  BY <1>21, <2>2
  <2>4. \A a \in T \cup B : a # l /\ a # l1  BY <1>21, <2>3
  <2> QED  BY <1>21, <1>28, <2>3, <2>4
<1>38. S \subseteq T \cup B /\ j \in S /\ j \in T \cup B /\ j # l /\ j # l1
       /\ j \in T2 \cup B2
  <2>1. S \subseteq T \cup B /\ j \in S /\ j \in T \cup B  BY <1>6, <1>9, <1>10
  <2> QED  BY <1>28, <1>29, <1>37, <2>1
<1>39. /\ h1[l] = c1 /\ \A a \in T \cup B : h1[a] = f[a]
       /\ \A a \in T \cup B1 : a \in DOMAIN h1
  BY <1>27, <1>28, <1>37, WithCell
<1>40. /\ h2[l1] = c2 /\ h2[l] = c1 /\ \A a \in T \cup B : h2[a] = f[a]
       /\ \A a \in T2 \cup B2 : a \in DOMAIN h2
  <2>1. h2[l1] = c2 /\ l1 \in DOMAIN h2
        /\ \A a \in DOMAIN h1 : a \in DOMAIN h2 /\ (a # l1 => h2[a] = h1[a])
    BY <1>27, WithCell
  <2>2. \A a \in T \cup B1 : a # l1  BY <1>37
  <2> QED  BY <1>28, <1>29, <1>39, <2>1, <2>2
<1>41. h3[j] = c3 /\ \A a \in T2 \cup B2 : a # j => h3[a] = h2[a]
  BY <1>27, <1>40, WithCell
\* The length of its jump is listed.
<1>42. q = AddReloc(g2, j + 1, l1 - start) /\ l1 - start \in Nat
       /\ start + (l1 - start) = l1
  <2>1. l1 - start \in Nat /\ start + (l1 - start) = l1  BY <1>7, <1>21
  <2> QED  BY <1>7, <1>10, <1>21, <2>1
<1>43. \A k \in DOMAIN g2.relocs : g2.relocs[k].pos # j + 1
  <2>1. g2.relocs = g.relocs
    BY <1>13, <1>20 DEF Adds, Grows, Extends, SameRest
  <2>2. ASSUME NEW k \in DOMAIN g.relocs  PROVE g.relocs[k].pos # j + 1
    <3>1. Far(g.relocs[k].pos, o[n + 1].reloc)  BY <1>1, <1>4 DEF HolesApart
    <3>2. ~Far(reloc, reloc)  BY <1>7 DEF Far
    <3> QED  BY <1>3, <1>7, <1>10, <3>1, <3>2
  <2> QED  BY <2>1, <2>2
<1>44. /\ Holes(q, u) = Holes(g2, o) /\ j + 1 \in Holes(g2, o)
       /\ IsWriter(q) /\ Out(q) = Out(g2) /\ q.atoms = g2.atoms
       /\ IsSeq(q.relocs) /\ Len(q.relocs) = Len(g2.relocs) + 1
       /\ \A k \in 1 .. Len(g2.relocs) : q.relocs[k] = g2.relocs[k]
       /\ q.relocs[Len(g2.relocs) + 1] = [pos |-> j + 1, replacement |-> l1 - start]
  <2>1. g2 = [x \in Fields |-> g2[x]]  BY <1>17 DEF IsWriter
  <2>2. PICK r, old, relocs : /\ r = [pos |-> j + 1, replacement |-> l1 - start]
                              /\ old = g2.relocs /\ relocs = Append(old, r)
    OBVIOUS
  <2>3. q = [g2 EXCEPT !.relocs = relocs]  BY <1>42, <2>2 DEF AddReloc
  <2>4. q = [x \in Fields |-> q[x]]  BY <2>1, <2>3 DEF Fields
  <2>5. /\ q.mem = g2.mem /\ q.buf = g2.buf /\ q.pos = g2.pos /\ q.atoms = g2.atoms
        /\ q.relocs = relocs
    BY <2>1, <2>3 DEF Fields
  <2>6. IsWriter(q) /\ Out(q) = Out(g2)  BY <1>17, <2>4, <2>5 DEF IsWriter, Out
  <2>7. /\ IsSeq(relocs) /\ Len(relocs) = Len(old) + 1
        /\ \A k \in 1 .. Len(old) : relocs[k] = old[k]
        /\ relocs[Len(old) + 1] = r
    BY <1>17, <2>2, Appends
  <2>8. PICK y \in Nat : y = Len(old) /\ DOMAIN old = 1 .. y /\ DOMAIN relocs = 1 .. y + 1
    BY <1>17, <2>2, <2>7, Domains
  <2>9. r.pos = j + 1  BY <2>2
  <2>10. j + 1 = o[n + 1].reloc  BY <1>3, <1>7, <1>10
  <2>11. ASSUME NEW p  PROVE p \in Holes(q, u) <=> p \in Holes(g2, o)
    <3>1. ASSUME NEW k \in 1 .. y + 1  PROVE relocs[k].pos \in Holes(g2, o)
      <4>1. CASE k = y + 1
        <5>1. relocs[k].pos = o[n + 1].reloc  BY <2>7, <2>8, <2>9, <2>10, <4>1
        <5> QED  BY <1>4, <5>1 DEF Holes
      <4>2. CASE k # y + 1
        <5>1. k \in DOMAIN old /\ relocs[k] = old[k]  BY <2>7, <2>8, <4>2
        <5> QED  BY <2>2, <5>1 DEF Holes
      <4> QED  BY <4>1, <4>2
    <3>2. ASSUME NEW k \in 1 .. n  PROVE u[k].reloc \in Holes(g2, o)
      <4>1. k \in DOMAIN o /\ u[k] = o[k]  BY <1>3
      <4> QED  BY <4>1 DEF Holes
    <3>3. p \in Holes(q, u) => p \in Holes(g2, o)
      <4>1. PICK H : H = Holes(g2, o)  OBVIOUS
      <4>2. \A k \in DOMAIN q.relocs : q.relocs[k].pos \in H  BY <2>5, <2>8, <3>1, <4>1
      <4>3. \A k \in DOMAIN u : u[k].reloc \in H  BY <1>3, <3>2, <4>1
      <4>4. p \in Holes(q, u) => p \in H  BY ONLY <4>2, <4>3 DEF Holes
      <4> QED  BY <4>1, <4>4
    <3>4. ASSUME NEW k \in DOMAIN old  PROVE old[k].pos \in Holes(q, u)
      <4>1. k \in DOMAIN relocs /\ relocs[k] = old[k]  BY <2>7, <2>8
      <4> QED  BY <2>5, <4>1 DEF Holes
    <3>5. ASSUME NEW k \in DOMAIN o  PROVE o[k].reloc \in Holes(q, u)
      <4>1. CASE k = n + 1
        <5>1. y + 1 \in DOMAIN relocs /\ relocs[y + 1].pos = o[k].reloc
          BY <2>7, <2>8, <2>9, <2>10, <4>1
        <5> QED  BY <2>5, <5>1 DEF Holes
      <4>2. CASE k # n + 1
        <5>1. k \in DOMAIN u /\ u[k] = o[k]  BY <1>3, <4>2
        <5> QED  BY <5>1 DEF Holes
      <4> QED  BY <4>1, <4>2
    <3>6. p \in Holes(g2, o) => p \in Holes(q, u)
      <4>1. PICK H : H = Holes(q, u)  OBVIOUS
      <4>2. \A k \in DOMAIN g2.relocs : g2.relocs[k].pos \in H  BY <2>2, <3>4, <4>1
      <4>3. \A k \in DOMAIN o : o[k].reloc \in H  BY <3>5, <4>1
      <4>4. p \in Holes(g2, o) => p \in H  BY ONLY <4>2, <4>3 DEF Holes
      <4> QED  BY <4>1, <4>4
    <3> QED  BY <3>3, <3>6
  <2>12. Holes(q, u) = Holes(g2, o)  BY <2>11
  <2>13. j + 1 \in Holes(g2, o)  BY <1>4, <2>10 DEF Holes
  <2>14. /\ IsSeq(q.relocs) /\ Len(q.relocs) = Len(old) + 1
         /\ \A k \in 1 .. Len(old) : q.relocs[k] = old[k]
         /\ q.relocs[Len(old) + 1] = r
    BY ONLY <2>5, <2>7
  <2>15. r = [pos |-> j + 1, replacement |-> l1 - start] /\ old = g2.relocs
    BY <2>2
  <2> QED  BY ONLY <2>5, <2>6, <2>12, <2>13, <2>14, <2>15
<1>45. Code(h3, T2, B2, P, q, u, m3)
  <2>1. h2[j] = [op |-> "RJMP_U4", means |-> -1, next |-> start]
    BY <1>9, <1>10, <1>38, <1>40
  <2>2. PICK d \in Nat : d = l1 - start /\ start + d = l1  BY <1>42
  <2>3. q = AddReloc(g2, j + 1, d)  BY <1>42, <2>2
  <2>4. c3 = [op |-> "RJMP_U4", means |-> start + d, next |-> start]  BY <1>22, <2>2
  <2>5. Patches(h2, j, d, start, c3)  BY <1>10, <2>1, <2>4 DEF Patches
  <2>6. Lists(g2, q, o, u, j, d)  BY <1>17, <1>43, <1>44, <2>3 DEF Lists
  <2>7. Code(With(h2, j, c3), T2, B2, P, q, u, Noted(m2, j, "RJMP_U4", start + d))
    BY ONLY <1>36, <1>38, <2>5, <2>6, CodePatches
  <2> QED  BY <1>26, <1>27, <2>2, <2>7
\* Where they lead.
<1>46. TopEnd(o, l) = {} /\ BodyEnd(o, l) = {l}  BY DEF TopEnd, BodyEnd
<1>47. Leads(c1) = {} /\ Leads(c2) = {e} /\ Leads(c3) \subseteq {l1}
  <2>1. Leads(c1) = {}  BY <1>23 DEF Leads
  <2>2. Leads(c2) = {e}  BY <1>24, <1>31 DEF Leads, Starting
  <2>3. Leads(c3) \subseteq {l1}  BY <1>25 DEF Leads
  <2> QED  BY <2>1, <2>2, <2>3
<1>48. Flows(h1, T, {}) /\ Flows(h1, B1, {})
  <2>1. Flows(f, T, {}) /\ Flows(f, B, {l}) /\ {l} \subseteq {l}  BY <1>34, <1>46
  <2>2. Flows(h1, T, {})  BY <1>27, <1>37, <2>1, FlowsSame
  <2>3. Flows(h1, B \cup {l}, Leads(c1))  BY <1>27, <1>37, <2>1, FlowsAdds
  <2> QED  BY <1>28, <1>47, <2>2, <2>3
<1>49. Flows(h2, T2, TopEnd(u, e)) /\ Flows(h2, B2, BodyEnd(u, e))
  <2>1. CASE n = 0
    <3>1. TopEnd(u, e) = {e} /\ BodyEnd(u, e) = {}  BY <1>3, <2>1 DEF TopEnd, BodyEnd
    <3>2. Flows(h2, T \cup {l1}, Leads(c2))  BY <1>27, <1>37, <1>39, <1>48, FlowsAdds
    <3>3. Flows(h2, B1, {})  BY <1>27, <1>37, <1>39, <1>48, FlowsSame
    <3> QED  BY <1>29, <1>47, <2>1, <3>1, <3>2, <3>3
  <2>2. CASE n # 0
    <3>1. TopEnd(u, e) = {} /\ BodyEnd(u, e) = {e}  BY <1>3, <2>2 DEF TopEnd, BodyEnd
    <3>2. Flows(h2, B1 \cup {l1}, Leads(c2))  BY <1>27, <1>37, <1>39, <1>48, FlowsAdds
    <3>3. Flows(h2, T, {})  BY <1>27, <1>37, <1>39, <1>48, FlowsSame
    <3> QED  BY <1>29, <1>47, <2>2, <3>1, <3>2, <3>3
  <2> QED  BY <2>1, <2>2
<1>50. T2 \cap B2 = {}  BY <1>36 DEF Code, Disjoint
<1>51. Flows(h3, T2, TopEnd(u, e)) /\ Flows(h3, B2, BodyEnd(u, e))
  <2>1. CASE n = 0
    <3>1. j \in T2 /\ l1 \in T2  BY <1>6, <1>29, <1>38, <2>1
    <3>2. Leads(c3) \subseteq T2 \cup TopEnd(u, e)  BY <1>47, <3>1
    <3>3. Flows(h3, T2, TopEnd(u, e))  BY <1>27, <1>40, <1>49, <3>2, FlowsPatches
    <3>4. j \notin B2  BY <1>50, <3>1
    <3>5. Flows(h3, B2, BodyEnd(u, e))  BY <1>27, <1>40, <1>49, <3>4, FlowsSame
    <3> QED  BY <3>3, <3>5
  <2>2. CASE n # 0
    <3>1. j \in B2 /\ l1 \in B2
      <4>1. S = B  BY <1>6, <2>2
      <4> QED  BY <1>28, <1>29, <1>38, <2>2, <4>1
    <3>2. Leads(c3) \subseteq B2 \cup BodyEnd(u, e)  BY <1>47, <3>1
    <3>3. Flows(h3, B2, BodyEnd(u, e))  BY <1>27, <1>40, <1>49, <3>2, FlowsPatches
    <3>4. j \notin T2  BY <1>50, <3>1
    <3>5. Flows(h3, T2, TopEnd(u, e))  BY <1>27, <1>40, <1>49, <3>4, FlowsSame
    <3> QED  BY <3>3, <3>5
  <2> QED  BY <2>1, <2>2
<1>52. Without(h3, T2, {"HALT"})
  <2>1. ASSUME NEW a \in T2  PROVE h3[a].op # "HALT"
    <3>1. CASE a = j  BY <1>25, <1>41, <3>1
    <3>2. CASE a = l1 /\ a # j  BY <1>24, <1>31, <1>40, <1>41, <2>1, <3>2
    <3>3. CASE a # l1 /\ a # j
      <4>1. a \in T  BY <1>29, <3>3
      <4>2. h3[a] = f[a]  BY <1>40, <1>41, <2>1, <3>3, <4>1
      <4> QED  BY <1>34, <4>1, <4>2 DEF Without
    <3> QED  BY <3>1, <3>2, <3>3
  <2> QED  BY <2>1 DEF Without
\* The bodies around it.
<1>53. T \subseteq T2 /\ B \subseteq B2 /\ l \in B2  BY <1>28, <1>29
<1>54. Bodies(h3, T2, B2, u, e)
  <2>1. ASSUME NEW k \in 1 .. n
        PROVE  BodyOf(h3, IF k = 1 THEN T2 ELSE B2, B2, u[k], e)
    <3>1. PICK R, R2 : /\ R = (IF k = 1 THEN T ELSE B)
                       /\ R2 = (IF k = 1 THEN T2 ELSE B2)
      OBVIOUS
    <3>2. k \in DOMAIN o /\ k # n + 1 /\ u[k] = o[k]  BY <1>3
    <3>3. BodyOf(f, R, B, u[k], l)  BY <1>34, <3>1, <3>2 DEF Bodies
    <3>4. PICK y : y = u[k].reloc  OBVIOUS
    <3>5. Far(y, reloc)
      <4>1. Far(o[k].reloc, o[n + 1].reloc)  BY <1>1, <1>4, <3>2 DEF HolesApart
      <4> QED  BY <1>3, <1>7, <3>2, <3>4, <4>1
    <3>6. y \in Nat /\ y - 1 \in R  BY <3>3, <3>4 DEF BodyOf
    <3>7. y - 1 # j
      <4>1. y # reloc  BY <1>7, <3>5, <3>6 DEF Far
      <4> QED  BY <1>10, <3>6, <4>1
    <3>8. y - 1 \in T \cup B /\ y - 1 \in R2  BY <1>53, <3>1, <3>6
    <3>9. h3[y - 1] = f[y - 1]  BY <1>40, <1>41, <1>53, <3>7, <3>8
    <3>10. B \cup {l} \subseteq B2 \cup {e}  BY <1>53
    <3>11. BodyOf(h3, R2, B2, u[k], e)  BY <3>3, <3>4, <3>8, <3>9, <3>10 DEF BodyOf
    <3> QED  BY <3>1, <3>11
  <2> QED  BY <1>3, <2>1 DEF Bodies
<1>55. Reading(h3, T2, B2, P, q, u, m3)
  BY <1>18, <1>21, <1>45, <1>51, <1>52, <1>54 DEF Reading
<1>56. at \in T2 \cup TopEnd(u, q.pos)
  BY <1>5, <1>21, <1>46, <1>53
\* The rest.
<1>57. Sound("reading", q, u)
  BY <1>3, <1>16, ReadingCloses
<1>58. Bytes(Out(q)) /\ Atoms(q)
  <2>1. Bytes(Out(g2)) /\ g2.atoms = g.atoms  BY <1>1, <1>13, <1>20 DEF Adds
  <2> QED  BY <1>1, <1>44, <2>1, AtomsStay
<1>59. HolesApart(q, u)
  <2>1. g2.relocs = g.relocs  BY <1>13, <1>20 DEF Adds, Grows, Extends, SameRest
  <2>2. PICK y \in Nat : /\ y = Len(g.relocs) /\ DOMAIN g.relocs = 1 .. y
                         /\ DOMAIN q.relocs = 1 .. y + 1
    BY <1>2, <1>44, <2>1, Domains
  <2>3. PICK r : r = q.relocs[y + 1]  OBVIOUS
  <2>4. r = [pos |-> j + 1, replacement |-> l1 - start]  BY <1>44, <2>1, <2>2, <2>3
  <2>5. r.pos = o[n + 1].reloc /\ r.replacement = l1 - start
    BY <1>3, <1>7, <1>10, <2>4
  <2>6. \A k \in 1 .. y : q.relocs[k] = g.relocs[k]  BY <1>44, <2>1, <2>2
  <2>7. HolesApart(g, o)  BY <1>1
  <2>8. \A p, x : Far(p, x) <=> Far(x, p)  BY DEF Far
  <2>9. ASSUME NEW k \in 1 .. y + 1, NEW x \in 1 .. y + 1, k # x
        PROVE  Far(q.relocs[k].pos, q.relocs[x].pos)
    <3>1. CASE k = y + 1
      <4>1. x \in 1 .. y  BY <2>9, <3>1
      <4>2. Far(g.relocs[x].pos, o[n + 1].reloc)
        BY <1>4, <2>2, <2>7, <4>1 DEF HolesApart
      <4> QED  BY <2>3, <2>5, <2>6, <2>8, <3>1, <4>1, <4>2
    <3>2. CASE k # y + 1 /\ x = y + 1
      <4>1. k \in 1 .. y  BY <2>9, <3>2
      <4>2. Far(g.relocs[k].pos, o[n + 1].reloc)
        BY <1>4, <2>2, <2>7, <4>1 DEF HolesApart
      <4> QED  BY <2>3, <2>5, <2>6, <3>2, <4>1, <4>2
    <3>3. CASE k # y + 1 /\ x # y + 1
      <4>1. k \in 1 .. y /\ x \in 1 .. y  BY <2>9, <3>3
      <4> QED  BY <2>2, <2>6, <2>7, <2>9, <4>1 DEF HolesApart
    <3> QED  BY <3>1, <3>2, <3>3
  <2>10. ASSUME NEW k \in 1 .. y + 1, NEW x \in 1 .. n
         PROVE  Far(q.relocs[k].pos, u[x].reloc)
    <3>1. x \in DOMAIN o /\ u[x] = o[x] /\ x # n + 1  BY <1>3
    <3>2. CASE k = y + 1
      <4>1. Far(o[n + 1].reloc, o[x].reloc)  BY <1>4, <2>7, <3>1 DEF HolesApart
      <4> QED  BY <2>3, <2>5, <3>1, <3>2, <4>1
    <3>3. CASE k # y + 1
      <4>1. k \in 1 .. y  BY <2>10, <3>3
      <4> QED  BY <2>2, <2>6, <2>7, <3>1, <4>1 DEF HolesApart
    <3> QED  BY <3>2, <3>3
  <2>11. ASSUME NEW k \in 1 .. n, NEW x \in 1 .. n, k # x
         PROVE  Far(u[k].reloc, u[x].reloc)
    <3>1. /\ k \in DOMAIN o /\ u[k] = o[k]
          /\ x \in DOMAIN o /\ u[x] = o[x]
      BY <1>3
    <3> QED  BY <2>7, <2>11, <3>1 DEF HolesApart
  <2>12. ASSUME NEW k \in 1 .. y + 1  PROVE q.relocs[k].replacement \in 0 .. q.pos
    <3>1. CASE k = y + 1
      <4>1. l1 - start \in 0 .. e  BY SMTT(30), <1>7, <1>21
      <4> QED  BY <1>18, <1>21, <2>3, <2>5, <3>1, <4>1
    <3>2. CASE k # y + 1
      <4>1. k \in 1 .. y  BY <2>12, <3>2
      <4>2. PICK z : z = q.relocs[k].replacement  OBVIOUS
      <4>3. z \in 0 .. g.pos  BY <2>2, <2>6, <2>7, <4>1, <4>2 DEF HolesApart
      <4>4. z \in 0 .. e  BY <1>21, <4>3
      <4> QED  BY <1>18, <1>21, <4>2, <4>4
    <3> QED  BY <3>1, <3>2
  <2>13. DOMAIN u = 1 .. n  BY <1>3
  <2> QED  BY ONLY <2>2, <2>9, <2>10, <2>11, <2>12, <2>13 DEF HolesApart
<1>60. Coded(q, u, m3, P, at)
  BY <1>55, <1>56, <1>57, <1>58, <1>59 DEF Coded
<1> QED  BY <1>3, <1>7, <1>10, <1>21, <1>26, <1>60

\* The machine goes on behind most instructions.
LEMMA GoesOn ==
  ASSUME NEW c, c.op \notin Structural, c.op # "RJMP"
  PROVE  Leads(c) = {c.next}
BY DEF Structural, Leads

LEMMA CodedParts ==
  ASSUME NEW g, NEW o, NEW m, NEW P, NEW at, Coded(g, o, m, P, at)
  PROVE  IsWriter(g) /\ Buffers(g) /\ g.pos \in Nat /\ Atoms(g) /\ Sound("reading", g, o)
<1>1. Sound("reading", g, o) /\ Atoms(g)  BY DEF Coded
<1> QED  BY <1>1, HolesInFront

\* An instruction without operands.
LEMMA CodedPlain ==
  ASSUME NEW g, NEW o, NEW m, NEW P, NEW at, Coded(g, o, m, P, at),
         NEW op \in Operation, Words(op) = 0, Fixed(op) = 0,
         op \notin Structural, op \notin Literal,
         NEW q, q = Instruction(g, op)
  PROVE  Coded(q, o, Noted(m, g.pos, op, <<>>), P, at) /\ q.atoms = g.atoms
<1>1. IsWriter(g) /\ Buffers(g) /\ g.pos \in Nat  BY CodedParts
<1>2. Adds(g, q) /\ q.pos = g.pos + 1 /\ Reads(Out(q), g.pos, op, <<>>, q.pos)
  BY <1>1, InstructionReads
<1>3. g.pos < q.pos /\ q.pos \in Nat  BY <1>1, <1>2
<1>4. PICK c : c = [op |-> op, means |-> <<>>, next |-> q.pos]  OBVIOUS
<1>5. c.op = op /\ c.means = <<>> /\ c.next = q.pos  BY <1>4
<1>6. Stands(g.pos, c, q)  BY <1>1, <1>2, <1>3, <1>5, LastStands
<1>7. Leads(c) \subseteq {q.pos}
  <2>1. op # "RJMP"  BY DEF Literal
  <2> QED  BY <1>5, <2>1, GoesOn
<1>8. Coded(q, o, Noted(m, g.pos, c.op, c.means), P, at)
  BY <1>2, <1>5, <1>6, <1>7, CodedAdds
<1> QED  BY <1>2, <1>5, <1>8 DEF Adds

\* An instruction with a number.
LEMMA CodedCounted ==
  ASSUME NEW g, NEW o, NEW m, NEW P, NEW at, Coded(g, o, m, P, at),
         NEW op \in Operation, Words(op) = 1, op \notin Structural, op \notin Literal,
         NEW w \in Operand, NEW q, q = Instruction1(g, op, w)
  PROVE  Coded(q, o, Noted(m, g.pos, op, <<w>>), P, at) /\ q.atoms = g.atoms
<1>1. IsWriter(g) /\ Buffers(g) /\ g.pos \in Nat  BY CodedParts
<1>2. Adds(g, q) /\ g.pos < q.pos /\ Reads(Out(q), g.pos, op, <<w>>, q.pos)
  BY <1>1, Instruction1Reads
<1>3. q.pos \in Nat  BY <1>2, Positions DEF Adds
<1>4. PICK c : c = [op |-> op, means |-> <<w>>, next |-> q.pos]  OBVIOUS
<1>5. c.op = op /\ c.means = <<w>> /\ c.next = q.pos  BY <1>4
<1>6. Stands(g.pos, c, q)  BY <1>1, <1>2, <1>3, <1>5, LastStands
<1>7. Leads(c) \subseteq {q.pos}
  <2>1. op # "RJMP"  BY DEF Literal
  <2> QED  BY <1>5, <2>1, GoesOn
<1>8. Coded(q, o, Noted(m, g.pos, c.op, c.means), P, at)
  BY <1>2, <1>5, <1>6, <1>7, CodedAdds
<1> QED  BY <1>2, <1>5, <1>8 DEF Adds

LEMMA NameOpsRead ==
  ASSUME NEW op \in NameOps
  PROVE  op \in Operation /\ Words(op) = 1 /\ op \notin Structural /\ op # "RJMP"
<1>1. NameOps \subseteq Operation
  <2>1. "STACK_FRAME_LOOKUP" \in Operation /\ "STACK_FRAME_SET" \in Operation
    BY DEF Operation, Opcodes, ToSet
  <2>2. "STACK_FRAME_REPLACE" \in Operation /\ "ALLOC_ATOM" \in Operation
    BY DEF Operation, Opcodes, ToSet
  <2>3. "NAMESPACE_SET" \in Operation /\ "NAMESPACE_LOOKUP" \in Operation
    BY DEF Operation, Opcodes, ToSet
  <2>4. "LOAD_CMODULE" \in Operation  BY DEF Operation, Opcodes, ToSet
  <2> QED  BY <2>1, <2>2, <2>3, <2>4 DEF NameOps
<1>2. /\ Words("STACK_FRAME_LOOKUP") = 1 /\ Words("STACK_FRAME_SET") = 1
      /\ Words("STACK_FRAME_REPLACE") = 1 /\ Words("ALLOC_ATOM") = 1
      /\ Words("NAMESPACE_SET") = 1 /\ Words("NAMESPACE_LOOKUP") = 1
      /\ Words("LOAD_CMODULE") = 1
  BY DEF Words, Plain
<1>3. op \notin Structural /\ op # "RJMP"  BY DEF NameOps, Structural, Starting
<1> QED  BY <1>1, <1>2, <1>3 DEF NameOps

\* A number of a name can be an operand.
LEMMA IdOperand ==
  ASSUME NEW g, NEW q, Short(q), q.atoms = g.atoms, Atoms(g), NEW name, NEW n,
         IsId(g, name, n)
  PROVE  n \in Operand
<1>1. PICK l \in Nat : l = Len(g.atoms) /\ DOMAIN g.atoms = 1 .. l
  BY Domains DEF Atoms
<1>2. n \in Nat /\ n <= l  BY <1>1 DEF IsId
<1>3. l < 268435456  BY SMT, <1>1 DEF Short
<1> QED  BY SMT, <1>2, <1>3 DEF Operand

\* An instruction with a name.
LEMMA CodedNamed ==
  ASSUME NEW g, NEW o, NEW m, NEW P, NEW at, Coded(g, o, m, P, at),
         NEW op \in NameOps, NEW name, NEW n, IsId(g, name, n), n \in Operand,
         NEW q, q = Instruction1(g, op, n)
  PROVE  Coded(q, o, Noted(m, g.pos, op, Name(name)), P, at) /\ q.atoms = g.atoms
<1>1. IsWriter(g) /\ Buffers(g) /\ g.pos \in Nat  BY CodedParts
<1>2. op \in Operation /\ Words(op) = 1 /\ op \notin Structural /\ op # "RJMP"
  BY NameOpsRead
<1>3. Adds(g, q) /\ g.pos < q.pos /\ Reads(Out(q), g.pos, op, <<n>>, q.pos)
  BY <1>1, <1>2, Instruction1Reads
<1>4. q.pos \in Nat /\ q.atoms = g.atoms  BY <1>3, Positions DEF Adds
<1>5. PICK x : x = Name(name)  OBVIOUS
<1>6. PICK c : c = [op |-> op, means |-> x, next |-> q.pos]  OBVIOUS
<1>7. c.op = op /\ c.means = x /\ c.next = q.pos  BY <1>6
<1>8. Called(q, n, x)  BY <1>4, <1>5 DEF Called, IsId
<1>9. Says(q, g.pos, c)
  <2>1. PICK i : i = Decode(Out(q), g.pos)  OBVIOUS
  <2>2. i.op = op /\ i.words = <<n>> /\ i.next = q.pos  BY <1>3, <2>1 DEF Reads
  <2>3. i.words[1] = n  BY <2>2
  <2>4. Tells(q, i, x)  BY <1>8, <2>2, <2>3 DEF Tells, NameOps
  <2> QED  BY <1>7, <2>1, <2>2, <2>4 DEF Says
<1>10. Stands(g.pos, c, q)  BY <1>1, <1>3, <1>4, <1>7, <1>9 DEF Stands
<1>11. Leads(c) \subseteq {q.pos}  BY <1>2, <1>7, GoesOn
<1>12. Coded(q, o, Noted(m, g.pos, c.op, c.means), P, at)
  BY <1>2, <1>3, <1>7, <1>10, <1>11, CodedAdds
<1> QED  BY <1>4, <1>5, <1>7, <1>12

\* A parameter's name, and its place.
LEMMA CodedParam ==
  ASSUME NEW g, NEW o, NEW m, NEW P, NEW at, Coded(g, o, m, P, at),
         NEW name, NEW n, IsId(g, name, n), n \in Operand, NEW idx \in Operand,
         NEW q, q = Instruction2(g, "NAMED_PARAM", n, idx)
  PROVE  Coded(q, o, Noted(m, g.pos, "NAMED_PARAM", <<Name(name), idx>>), P, at)
<1>1. IsWriter(g) /\ Buffers(g) /\ g.pos \in Nat  BY CodedParts
<1>2. "NAMED_PARAM" \in Operation  BY DEF Operation, Opcodes, ToSet
<1>3. Words("NAMED_PARAM") = 2  BY DEF Words, Plain
<1>4. /\ Adds(g, q) /\ g.pos < q.pos
      /\ Reads(Out(q), g.pos, "NAMED_PARAM", <<n, idx>>, q.pos)
  BY <1>1, <1>2, <1>3, Instruction2Reads
<1>5. q.pos \in Nat /\ q.atoms = g.atoms  BY <1>4, Positions DEF Adds
<1>6. PICK y : y = Name(name)  OBVIOUS
<1>7. PICK x : x = <<y, idx>>  OBVIOUS
<1>8. PICK c : c = [op |-> "NAMED_PARAM", means |-> x, next |-> q.pos]  OBVIOUS
<1>9. c.op = "NAMED_PARAM" /\ c.means = x /\ c.next = q.pos  BY <1>8
<1>10. Called(q, n, y)  BY <1>5, <1>6 DEF Called, IsId
<1>11. Says(q, g.pos, c)
  <2>1. PICK i : i = Decode(Out(q), g.pos)  OBVIOUS
  <2>2. i.op = "NAMED_PARAM" /\ i.words = <<n, idx>> /\ i.next = q.pos
    BY <1>4, <2>1 DEF Reads
  <2>3. i.words[1] = n /\ i.words[2] = idx  BY <2>2
  <2>4. x[1] = y /\ x = <<x[1], i.words[2]>>  BY <1>7, <2>3
  <2>5. Tells(q, i, x)  BY <1>10, <2>2, <2>3, <2>4 DEF Tells, NameOps
  <2> QED  BY <1>9, <2>1, <2>2, <2>5 DEF Says
<1>12. Stands(g.pos, c, q)  BY <1>1, <1>4, <1>5, <1>9, <1>11 DEF Stands
<1>13. c.op \notin Structural /\ c.op # "RJMP"  BY <1>9 DEF Structural, Starting
<1>14. Leads(c) \subseteq {q.pos}  BY <1>9, <1>13, GoesOn
<1>15. Coded(q, o, Noted(m, g.pos, c.op, c.means), P, at)
  BY <1>4, <1>9, <1>12, <1>13, <1>14, CodedAdds
<1> QED  BY <1>6, <1>7, <1>9, <1>15

\* A number in the program.
LEMMA CodedNumber ==
  ASSUME NEW g, NEW o, NEW m, NEW P, NEW at, Coded(g, o, m, P, at),
         NEW bytes \in Seq(Byte), Len(bytes) = 8, NEW q, q = Number(g, bytes)
  PROVE  Coded(q, o, Noted(m, g.pos, "ALLOC_REAL", bytes), P, at)
<1>1. IsWriter(g) /\ Buffers(g) /\ g.pos \in Nat  BY CodedParts
<1>2. /\ Adds(g, q) /\ q.pos = g.pos + 9
      /\ Reads(Out(q), g.pos, "ALLOC_REAL", <<>>, q.pos)
      /\ Decode(Out(q), g.pos).bytes = bytes
  BY <1>1, NumberReads
<1>3. q.pos \in Nat /\ g.pos < q.pos  BY <1>1, <1>2
<1>4. PICK c : c = [op |-> "ALLOC_REAL", means |-> bytes, next |-> q.pos]  OBVIOUS
<1>5. c.op = "ALLOC_REAL" /\ c.means = bytes /\ c.next = q.pos  BY <1>4
<1>6. Says(q, g.pos, c)
  <2>1. PICK i : i = Decode(Out(q), g.pos)  OBVIOUS
  <2>2. i.op = "ALLOC_REAL" /\ i.bytes = bytes /\ i.next = q.pos
    BY <1>2, <2>1 DEF Reads
  <2>3. Tells(q, i, bytes)  BY <2>2 DEF Tells, NameOps
  <2> QED  BY <1>5, <2>1, <2>2, <2>3 DEF Says
<1>7. Stands(g.pos, c, q)  BY <1>1, <1>3, <1>5, <1>6 DEF Stands
<1>8. c.op \notin Structural /\ c.op # "RJMP"  BY <1>5 DEF Structural, Starting
<1>9. Leads(c) \subseteq {q.pos}  BY <1>5, <1>8, GoesOn
<1>10. Coded(q, o, Noted(m, g.pos, c.op, c.means), P, at)
  BY <1>2, <1>5, <1>7, <1>8, <1>9, CodedAdds
<1> QED  BY <1>5, <1>10

\* A string constant that is known.
LEMMA CodedConstant ==
  ASSUME NEW g, NEW o, NEW m, NEW P, NEW at, Coded(g, o, m, P, at),
         NEW string, Known(g, string),
         NEW q, q = Instruction2(g, "ALLOC_BUFFER_STATIC", Len(string),
                                 Constant(g, string).pos),
         Short(q)
  PROVE  Coded(q, o, Noted(m, g.pos, "ALLOC_BUFFER_STATIC", string), P, at)
<1>1. IsWriter(g) /\ Buffers(g) /\ g.pos \in Nat /\ Sound("reading", g, o)  BY CodedParts
<1>2. PICK k \in DOMAIN g.strings : /\ g.strings[k].string = string
                                    /\ Constant(g, string) = g.strings[k]
  BY DEF Known, Constant
<1>3. StringAt(g, g.strings[k], g.pos)  BY <1>1 DEF Sound, Kept, Limit
<1>4. PICK len \in Nat, pos \in Nat :
        /\ len = Len(string) /\ pos = Constant(g, string).pos
        /\ pos + len <= g.pos
  BY <1>2, <1>3, Domains DEF StringAt
<1>5. len \in Operand /\ pos \in Operand
  <2>1. PICK r : r = Instruction2(g, "ALLOC_BUFFER_STATIC", Len(string),
                                  Constant(g, string).pos)
    OBVIOUS
  <2>2. Grows(g, r)  BY <1>1, <2>1, Instruction2Grows
  <2>3. IsWriter(q) /\ g.pos <= q.pos  BY <1>1, <2>1, <2>2 DEF Grows, Extends
  <2>4. q.pos \in Nat  BY <2>3, Positions
  <2>5. len <= q.pos /\ pos <= q.pos  BY <1>1, <1>4, <2>3, <2>4
  <2> QED  BY <2>4, <2>5, ShortOperands
<1>6. "ALLOC_BUFFER_STATIC" \in Operation  BY DEF Operation, Opcodes, ToSet
<1>7. Words("ALLOC_BUFFER_STATIC") = 2  BY DEF Words, Plain
<1>8. /\ Adds(g, q) /\ g.pos < q.pos
      /\ Reads(Out(q), g.pos, "ALLOC_BUFFER_STATIC", <<len, pos>>, q.pos)
  BY <1>1, <1>4, <1>5, <1>6, <1>7, Instruction2Reads
<1>9. q.pos \in Nat /\ q.strings = g.strings
  BY <1>8, Positions DEF Adds, Grows, Extends, SameRest
<1>10. PICK c : c = [op |-> "ALLOC_BUFFER_STATIC", means |-> string, next |-> q.pos]
  OBVIOUS
<1>11. c.op = "ALLOC_BUFFER_STATIC" /\ c.means = string /\ c.next = q.pos  BY <1>10
<1>12. Says(q, g.pos, c)
  <2>1. PICK i : i = Decode(Out(q), g.pos)  OBVIOUS
  <2>2. i.op = "ALLOC_BUFFER_STATIC" /\ i.words = <<len, pos>> /\ i.next = q.pos
    BY <1>8, <2>1 DEF Reads
  <2>3. i.words[1] = len /\ i.words[2] = pos  BY <2>2
  <2>4. q.strings[k].string = string /\ q.strings[k].pos = i.words[2]
        /\ Len(string) = i.words[1] /\ k \in DOMAIN q.strings
    BY <1>2, <1>4, <1>9, <2>3
  <2>5. Tells(q, i, string)  BY <2>2, <2>4 DEF Tells, NameOps
  <2> QED  BY <1>11, <2>1, <2>2, <2>5 DEF Says
<1>13. Stands(g.pos, c, q)  BY <1>1, <1>8, <1>9, <1>11, <1>12 DEF Stands
<1>14. c.op \notin Structural /\ c.op # "RJMP"  BY <1>11 DEF Structural, Starting
<1>15. Leads(c) \subseteq {q.pos}  BY <1>11, <1>14, GoesOn
<1>16. Coded(q, o, Noted(m, g.pos, c.op, c.means), P, at)
  BY <1>8, <1>11, <1>13, <1>14, <1>15, CodedAdds
<1> QED  BY <1>11, <1>16

\* One that is new, behind a jump.
LEMMA CodedString ==
  ASSUME NEW g, NEW o, NEW m, NEW P, NEW at, Coded(g, o, m, P, at),
         NEW string \in Seq(Byte), NEW q, q = StringData(g, string),
         NEW r, Grows(q, r), Short(r)
  PROVE  /\ Coded(q, o, Noted(m, g.pos, "RJMP", q.pos), P, at)
         /\ Known(q, string) /\ q.atoms = g.atoms
<1>1. IsWriter(g) /\ Buffers(g) /\ g.pos \in Nat /\ Atoms(g) /\ Sound("reading", g, o)
  BY CodedParts
<1>2. IsSeq(string) /\ Bytes(string)  BY BytesOf
<1>3. PICK len \in Nat : len = Len(string)  BY <1>2, Domains
<1>4. PICK t, d : t = Instruction1(g, "RJMP", len) /\ d = PutN(t, string)  OBVIOUS
<1>5. IsWriter(t) /\ Buffers(t)
  <2>1. PICK x : x = Instruction1(g, "RJMP", len)  OBVIOUS
  <2>2. IsWriter(x) /\ Buffers(x)  BY <1>1, <2>1, Instruction1Grows
  <2> QED  BY <1>4, <2>1, <2>2
<1>6. Wrote(t, d, string) /\ Buffers(d)  BY <1>2, <1>4, <1>5, PutNWrites
<1>7. Adds(t, d) /\ d.pos = t.pos + len /\ t.pos \in Nat
  BY <1>2, <1>3, <1>5, <1>6, AddsByWriting
<1>8. IsWriter(d) /\ d.pos \in Nat  BY <1>7, Positions DEF Adds
<1>9. PICK s, old, strings : /\ s = [string |-> string, pos |-> t.pos]
                             /\ old = d.strings /\ strings = Append(old, s)
  OBVIOUS
<1>10. q = [d EXCEPT !.strings = strings]  BY <1>3, <1>4, <1>9 DEF StringData
<1>11. d = [x \in Fields |-> d[x]]  BY <1>8 DEF IsWriter
<1>12. q = [x \in Fields |-> q[x]]  BY <1>10, <1>11 DEF Fields
<1>13. /\ q.mem = d.mem /\ q.buf = d.buf /\ q.pos = d.pos /\ q.atoms = d.atoms
       /\ q.strings = strings /\ q.relocs = d.relocs
  BY <1>10, <1>11 DEF Fields
<1>14. len \in Operand
  <2>1. q.pos \in Nat /\ q.pos <= r.pos /\ r.pos \in Nat
    BY <1>8, <1>13, Positions DEF Grows, Extends
  <2>2. len <= r.pos  BY <1>7, <1>13, <2>1
  <2> QED  BY <2>1, <2>2, ShortOperands
<1>15. "RJMP" \in Operation  BY DEF Operation, Opcodes, ToSet
<1>16. Words("RJMP") = 1  BY DEF Words, Plain
<1>17. Adds(g, t) /\ g.pos < t.pos /\ Reads(Out(t), g.pos, "RJMP", <<len>>, t.pos)
  BY <1>1, <1>4, <1>14, <1>15, <1>16, Instruction1Reads
<1>18. Adds(g, d) /\ d.strings = g.strings /\ d.atoms = g.atoms
  <2>1. Adds(g, d)  BY <1>1, <1>7, <1>17, AddsTwice
  <2> QED  BY <2>1 DEF Adds, Grows, Extends, SameRest
<1>19. PICK c : c = [op |-> "RJMP", means |-> d.pos, next |-> t.pos]  OBVIOUS
<1>20. c.op = "RJMP" /\ c.means = d.pos /\ c.next = t.pos  BY <1>19
<1>21. Stands(g.pos, c, t)
  <2>1. PICK i : i = Decode(Out(t), g.pos)  OBVIOUS
  <2>2. i.op = "RJMP" /\ i.words = <<len>> /\ i.next = t.pos  BY <1>17, <2>1 DEF Reads
  <2>3. d.pos = i.next + i.words[1]  BY <1>7, <2>2
  <2>4. Tells(t, i, d.pos)  BY <2>2, <2>3 DEF Tells, NameOps
  <2>5. Says(t, g.pos, c)  BY <1>20, <2>1, <2>2, <2>4 DEF Says
  <2>6. t.pos <= t.pos  BY <1>7
  <2> QED  BY <1>1, <1>7, <1>17, <1>20, <2>5, <2>6 DEF Stands
<1>22. Stands(g.pos, c, d)
  <2>1. Alike(Out(t), Out(d), g.pos, t.pos) /\ t.pos <= d.pos
    BY <1>1, <1>5, <1>7, AddsAlike
  <2>2. Remembers(t, d)
    <3>1. d.atoms = t.atoms /\ d.strings = t.strings
      BY <1>7 DEF Adds, Grows, Extends, SameRest
    <3> QED  BY <3>1 DEF Remembers
  <2> QED  BY <1>5, <1>8, <1>20, <1>21, <2>1, <2>2, StandsStays
<1>23. Leads(c) \subseteq {d.pos}  BY <1>20 DEF Leads
<1>24. c.op \notin Structural  BY <1>20 DEF Structural, Starting
<1>25. Coded(d, o, Noted(m, g.pos, c.op, c.means), P, at)
  BY <1>18, <1>22, <1>23, <1>24, CodedAdds
<1>26. Coded(d, o, Noted(m, g.pos, "RJMP", q.pos), P, at)  BY <1>13, <1>20, <1>25
<1>27. IsSeq(old)
  <2>1. Kept(g, o, g.pos)  BY <1>1, SoundParts
  <2> QED  BY <1>9, <1>18, <2>1 DEF Kept
<1>28. /\ Len(strings) = Len(old) + 1 /\ \A k \in 1 .. Len(old) : strings[k] = old[k]
       /\ strings[Len(old) + 1] = s /\ IsSeq(strings)
  BY <1>9, <1>27, Appends
<1>29. PICK n \in Nat : n = Len(old) /\ DOMAIN old = 1 .. n /\ DOMAIN strings = 1 .. n + 1
  BY <1>27, <1>28, Domains
<1>30. Widens(d, q)
  <2>1. Out(q) = Out(d)  BY <1>13 DEF Out
  <2>2. \A k \in 1 .. n : k \in 1 .. n + 1 /\ strings[k] = old[k]  BY <1>28, <1>29
  <2> QED  BY <1>9, <1>13, <1>29, <2>1, <2>2 DEF Widens
<1>31. Known(q, string)
  <2>1. n + 1 \in DOMAIN q.strings /\ q.strings[n + 1] = s  BY <1>13, <1>28, <1>29
  <2>2. s.string = string  BY <1>9
  <2> QED  BY <2>1, <2>2 DEF Known
<1>32. Sound("reading", q, o)  BY <1>1, <1>2, ReadingString
<1>33. Atoms(q)  BY <1>1, <1>13, <1>18, AtomsStay
<1>34. Coded(q, o, Noted(m, g.pos, "RJMP", q.pos), P, at)
  BY <1>26, <1>30, <1>32, <1>33, CodedWidens
<1> QED  BY <1>13, <1>18, <1>31, <1>34

LEMMA NoHaltGenerated == "HALT" \notin ToSet(Opcodes)
BY SMT DEF Opcodes, ToSet

LEMMA PlainOpsRead ==
  ASSUME NEW op \in PlainOps
  PROVE  op \in Operation /\ Words(op) = 0 /\ Fixed(op) = 0
         /\ op \notin Structural /\ op \notin Literal
<1>1. op \in ToSet(Opcodes) /\ Words(op) = 0 /\ Fixed(op) = 0 /\ op \notin Structure
  BY SessionAssumption
<1>2. op \notin NameOps
  <2>1. \A name \in NameOps : Words(name) = 1  BY NameOpsRead
  <2> QED  BY <1>1, <2>1
<1>3. /\ Fixed("ALLOC_REAL") = 8 /\ Words("ALLOC_BUFFER_STATIC") = 2
      /\ Words("NAMED_PARAM") = 2
  BY DEF Words, Plain, Fixed
<1>4. op \notin {"ALLOC_REAL", "ALLOC_BUFFER_STATIC", "NAMED_PARAM"}  BY <1>1, <1>3
<1>5. op # "HALT" /\ op \in Operation  BY <1>1, NoHaltGenerated DEF Operation
<1> QED  BY <1>1, <1>2, <1>4, <1>5 DEF Structural, Starting, Literal, Structure

LEMMA CountedRead ==
  ASSUME NEW op, op \in ToSet(Opcodes), Words(op) = 1, op \notin NameOps \cup Structure
  PROVE  op \in Operation /\ op \notin Structural /\ op \notin Literal
<1>1. /\ Words("ALLOC_REAL") = 0 /\ Words("ALLOC_BUFFER_STATIC") = 2
      /\ Words("NAMED_PARAM") = 2
  BY DEF Words, Plain
<1>2. op \notin {"ALLOC_REAL", "ALLOC_BUFFER_STATIC", "NAMED_PARAM"}  BY <1>1
<1>3. op # "HALT" /\ op \in Operation  BY NoHaltGenerated DEF Operation
<1> QED  BY <1>2, <1>3 DEF Structural, Starting, Literal, Structure

\* A name has its number, whether it is new or not.
LEMMA NameCodes ==
  ASSUME NEW g, NEW o, NEW m, NEW P, NEW at, Coded(g, o, m, P, at), NEW name,
         NEW q, q = Named(g, name), NEW n, n = Id(q, name)
  PROVE  Coded(q, o, m, P, at) /\ q.pos = g.pos /\ IsId(q, name, n) /\ Atoms(q)
<1>1. /\ IsWriter(g) /\ Buffers(g) /\ g.pos \in Nat /\ Atoms(g)
      /\ Sound("reading", g, o)
  BY CodedParts
<1>2. Atoms(q) /\ Widens(g, q) /\ IsId(q, name, n)  BY <1>1, NamedNumbers
<1>3. Sound("reading", q, o)  BY <1>1, ReadingNamed
<1>4. Coded(q, o, m, P, at)  BY <1>2, <1>3, CodedWidens
<1> QED  BY <1>2, <1>4 DEF Widens

\* Names are not written.
LEMMA InstructionAtoms ==
  ASSUME NEW g, IsWriter(g), Buffers(g), NEW op, NEW v, NEW w
  PROVE  /\ Instruction(g, op).atoms = g.atoms
         /\ Instruction1(g, op, v).atoms = g.atoms
         /\ Instruction2(g, op, v, w).atoms = g.atoms
<1>1. PICK q, r, t : /\ q = Instruction(g, op) /\ r = PutN(q, EncodeUint(v))
                     /\ t = PutN(r, EncodeUint(w))
  OBVIOUS
<1>2. IsSeq(EncodeUint(v)) /\ IsSeq(EncodeUint(w))  BY Digits
<1>3. q.atoms = g.atoms /\ IsWriter(q) /\ Buffers(q)
  <2>1. PICK bytes : bytes = <<CodeOf(op)>>  OBVIOUS
  <2>2. IsSeq(bytes)  BY <2>1, Pairs
  <2>3. Wrote(g, q, bytes)  BY <1>1, <2>1, <2>2, PutWrites DEF Instruction
  <2>4. IsWriter(q) /\ Buffers(q)  BY <1>1, InstructionGrows
  <2> QED  BY <2>3, <2>4 DEF Wrote
<1>4. r.atoms = q.atoms /\ IsWriter(r) /\ Buffers(r)
  BY <1>1, <1>2, <1>3, PutNWrites DEF Wrote
<1>5. t.atoms = r.atoms  BY <1>1, <1>2, <1>4, PutNWrites DEF Wrote
<1> QED  BY <1>1, <1>3, <1>4, <1>5 DEF Instruction1, Instruction2

\* The names of the machine have numbers.
LEMMA KnowsMachines ==
  ASSUME NEW g, Atoms(g), NEW name \in {"print"} \cup CModules
  PROVE  IsId(g, name, Id(g, name))
<1>1. PICK id \in DOMAIN MachineAtoms : MachineAtoms[id] = name  BY MachineNames
<1>2. id \in DOMAIN g.atoms /\ g.atoms[id] = name  BY <1>1 DEF Atoms
<1> QED  BY <1>2, KnownId

\* Whatever the parser calls.
LEMMA GenerateCodes ==
  ASSUME NEW P, Coded(gen, open, meant, P, vm.iptr), Generate, Short(gen')
  PROVE  Coded(gen', open', meant', P, vm'.iptr)
<1>1. /\ IsWriter(gen) /\ Buffers(gen) /\ gen.pos \in Nat /\ Atoms(gen)
      /\ Sound("reading", gen, open)
  BY CodedParts
<1>2. vm' = vm
  BY DEF Generate, GenPlain, GenCounted, GenNamed, GenParam, GenNumber, GenString,
         GenCModule, OpenBody, CloseBody, Generates
<1>3. SUFFICES Coded(gen', open', meant', P, vm.iptr)  BY <1>2
<1>4. CASE \E op \in PlainOps : GenPlain(op)
  <2>1. PICK op \in PlainOps : GenPlain(op)  BY <1>4
  <2>2. /\ gen' = Instruction(gen, op) /\ open' = open
        /\ meant' = Noted(meant, gen.pos, op, <<>>)
    BY <2>1 DEF GenPlain, Generates
  <2>3. PICK q : q = Instruction(gen, op)  OBVIOUS
  <2>4. Coded(q, open, Noted(meant, gen.pos, op, <<>>), P, vm.iptr)
    BY <2>3, PlainOpsRead, CodedPlain
  <2> QED  BY <2>2, <2>3, <2>4
<1>5. CASE \E counted \in Counted : GenCounted(counted[1], counted[2])
  <2>1. PICK counted \in Counted : GenCounted(counted[1], counted[2])  BY <1>5
  <2>2. PICK op, w : op = counted[1] /\ w = counted[2]  OBVIOUS
  <2>3. op \in ToSet(Opcodes) /\ Words(op) = 1 /\ op \notin NameOps \cup Structure
        /\ w \in Operand
    BY <2>2, SessionAssumption
  <2>4. /\ gen' = Instruction1(gen, op, w) /\ open' = open
        /\ meant' = Noted(meant, gen.pos, op, <<w>>)
    BY <2>1, <2>2 DEF GenCounted, Generates
  <2>5. PICK q : q = Instruction1(gen, op, w)  OBVIOUS
  <2>6. Coded(q, open, Noted(meant, gen.pos, op, <<w>>), P, vm.iptr)
    BY <2>3, <2>5, CountedRead, CodedCounted
  <2> QED  BY <2>4, <2>5, <2>6
<1>6. CASE \E named \in NamedOps : GenNamed(named[1], named[2])
  <2>1. PICK named \in NamedOps : GenNamed(named[1], named[2])  BY <1>6
  <2>2. PICK op, name : op = named[1] /\ name = named[2]  OBVIOUS
  <2>3. op \in NameOps  BY <2>2, SessionAssumption
  <2>4. PICK g, n : /\ g = Named(gen, name) /\ n = Id(g, name)
                    /\ gen' = Instruction1(g, op, n) /\ open' = open
                    /\ meant' = Noted(meant, gen.pos, op, Name(name))
    BY <2>1, <2>2 DEF GenNamed, Generates
  <2>5. Coded(g, open, meant, P, vm.iptr) /\ g.pos = gen.pos /\ IsId(g, name, n)
        /\ Atoms(g)
    BY <2>4, NameCodes
  <2>6. PICK q : q = Instruction1(g, op, n)  OBVIOUS
  <2>7. n \in Operand
    <3>1. IsWriter(g) /\ Buffers(g)  BY <2>5, CodedParts
    <3>2. q.atoms = g.atoms /\ Short(q)  BY <2>4, <2>6, <3>1, InstructionAtoms
    <3> QED  BY <2>5, <3>2, IdOperand
  <2>8. Coded(q, open, Noted(meant, g.pos, op, Name(name)), P, vm.iptr)
    BY <2>3, <2>5, <2>6, <2>7, CodedNamed
  <2> QED  BY <2>4, <2>5, <2>6, <2>8
<1>7. CASE \E param \in Parameters : GenParam(param[1], param[2])
  <2>1. PICK param \in Parameters : GenParam(param[1], param[2])  BY <1>7
  <2>2. PICK name, idx : name = param[1] /\ idx = param[2]  OBVIOUS
  <2>3. idx \in Operand  BY <2>2, SessionAssumption
  <2>4. PICK g, n : /\ g = Named(gen, name) /\ n = Id(g, name)
                    /\ gen' = Instruction2(g, "NAMED_PARAM", n, idx) /\ open' = open
                    /\ meant' = Noted(meant, gen.pos, "NAMED_PARAM", <<Name(name), idx>>)
    BY <2>1, <2>2 DEF GenParam, Generates
  <2>5. Coded(g, open, meant, P, vm.iptr) /\ g.pos = gen.pos /\ IsId(g, name, n)
        /\ Atoms(g)
    BY <2>4, NameCodes
  <2>6. PICK q : q = Instruction2(g, "NAMED_PARAM", n, idx)  OBVIOUS
  <2>7. n \in Operand
    <3>1. IsWriter(g) /\ Buffers(g)  BY <2>5, CodedParts
    <3>2. q.atoms = g.atoms /\ Short(q)  BY <2>4, <2>6, <3>1, InstructionAtoms
    <3> QED  BY <2>5, <3>2, IdOperand
  <2>8. Coded(q, open, Noted(meant, g.pos, "NAMED_PARAM", <<Name(name), idx>>), P, vm.iptr)
    BY <2>3, <2>5, <2>6, <2>7, CodedParam
  <2> QED  BY <2>4, <2>5, <2>6, <2>8
<1>8. CASE \E bytes \in Reals : GenNumber(bytes)
  <2>1. PICK bytes \in Reals : GenNumber(bytes)  BY <1>8
  <2>2. bytes \in Seq(Byte) /\ Len(bytes) = 8  BY SessionAssumption
  <2>3. /\ gen' = Number(gen, bytes) /\ open' = open
        /\ meant' = Noted(meant, gen.pos, "ALLOC_REAL", bytes)
    BY <2>1 DEF GenNumber, Generates
  <2>4. PICK q : q = Number(gen, bytes)  OBVIOUS
  <2>5. Coded(q, open, Noted(meant, gen.pos, "ALLOC_REAL", bytes), P, vm.iptr)
    BY <2>2, <2>4, CodedNumber
  <2> QED  BY <2>3, <2>4, <2>5
<1>9. CASE \E string \in Strings : GenString(string)
  <2>1. PICK string \in Strings : GenString(string)  BY <1>9
  <2>2. string \in Seq(Byte)  BY SessionAssumption
  <2>3. PICK g, history, q :
          /\ g = IF Known(gen, string) THEN gen ELSE StringData(gen, string)
          /\ history = IF Known(gen, string) THEN meant
                       ELSE Noted(meant, gen.pos, "RJMP", g.pos)
          /\ q = Instruction2(g, "ALLOC_BUFFER_STATIC", Len(string),
                              Constant(g, string).pos)
          /\ gen' = q /\ open' = open
          /\ meant' = Noted(history, g.pos, "ALLOC_BUFFER_STATIC", string)
    BY <2>1 DEF GenString, Generates
  <2>4. Short(q)  BY <2>3
  <2>5. Coded(g, open, history, P, vm.iptr) /\ Known(g, string)
    <3>1. CASE Known(gen, string)  BY <2>3, <3>1
    <3>2. CASE ~Known(gen, string)
      <4>1. g = StringData(gen, string) /\ history = Noted(meant, gen.pos, "RJMP", g.pos)
        BY <2>3, <3>2
      <4>2. IsWriter(g) /\ Buffers(g)
        <5>1. IsSeq(string)  BY <2>2, BytesOf
        <5>2. Sound("reading", g, open)  BY <1>1, <4>1, <5>1, ReadingString
        <5> QED  BY <5>2, SoundParts
      <4>3. Grows(g, q)
        <5>1. PICK x : x = Instruction2(g, "ALLOC_BUFFER_STATIC", Len(string),
                                        Constant(g, string).pos)
          OBVIOUS
        <5>2. Grows(g, x)  BY <4>2, <5>1, Instruction2Grows
        <5> QED  BY <2>3, <5>1, <5>2
      <4> QED  BY <2>2, <2>4, <4>1, <4>3, CodedString
    <3> QED  BY <3>1, <3>2
  <2>6. Coded(q, open, Noted(history, g.pos, "ALLOC_BUFFER_STATIC", string), P, vm.iptr)
    BY <2>3, <2>4, <2>5, CodedConstant
  <2> QED  BY <2>3, <2>6
<1>10. CASE \E name \in CModules : GenCModule(name)
  <2>1. PICK name \in CModules : GenCModule(name)  BY <1>10
  <2>2. PICK n, q : /\ n = Id(gen, name) /\ q = Instruction1(gen, "LOAD_CMODULE", n)
                    /\ gen' = q /\ open' = open
                    /\ meant' = Noted(meant, gen.pos, "LOAD_CMODULE", Name(name))
    BY <2>1 DEF GenCModule, Generates
  <2>3. IsId(gen, name, n)  BY <1>1, <2>2, KnowsMachines
  <2>4. n \in Operand
    <3>1. q.atoms = gen.atoms /\ Short(q)  BY <1>1, <2>2, InstructionAtoms
    <3> QED  BY <1>1, <2>3, <3>1, IdOperand
  <2>5. "LOAD_CMODULE" \in NameOps  BY DEF NameOps
  <2>6. Coded(q, open, Noted(meant, gen.pos, "LOAD_CMODULE", Name(name)), P, vm.iptr)
    BY <2>2, <2>3, <2>4, <2>5, CodedNamed
  <2> QED  BY <2>2, <2>6
<1>11. CASE \E kind \in {"function", "module"} : OpenBody(kind)
  <2>1. PICK kind : OpenBody(kind)  BY <1>11
  <2>2. PICK g, body : /\ g = Placeholder(gen)
                       /\ body = [kind |-> kind, reloc |-> gen.pos + 1, start |-> g.pos]
                       /\ gen' = g /\ open' = Append(open, body)
                       /\ meant' = Noted(meant, gen.pos, "RJMP_U4", -1)
    BY <2>1 DEF OpenBody, Generates
  <2>3. body.reloc = gen.pos + 1 /\ body.start = g.pos  BY <2>2
  <2>4. Coded(g, Append(open, body), Noted(meant, gen.pos, "RJMP_U4", -1), P, vm.iptr)
    BY <2>2, <2>3, CodedOpens
  <2> QED  BY <2>2, <2>4
<1>12. CASE CloseBody
  <2>1. PICK body, ret, load :
          /\ body = Last(open)
          /\ ret = IF body.kind = "function" THEN "RET" ELSE "MOD_RET"
          /\ load = IF body.kind = "function" THEN "ALLOC_FUNCTION" ELSE "LOAD_MODULE"
    OBVIOUS
  <2>2. PICK g, g2, q, history :
          /\ open # <<>> /\ g = Instruction(gen, ret)
          /\ g2 = Instruction1(g, load, body.start)
          /\ q = AddReloc(g2, body.reloc, g.pos - body.start)
          /\ gen' = q /\ open' = Front(open)
          /\ history = Noted(Noted(meant, gen.pos, ret, <<>>), g.pos, load, <<body.start>>)
          /\ meant' = Noted(history, body.reloc - 1, "RJMP_U4", g.pos)
    BY <1>12, <2>1 DEF CloseBody, Generates
  <2>3. ret \in {"RET", "MOD_RET"} /\ load \in Starting  BY <2>1 DEF Starting
  <2>4. Short(q)  BY <2>2
  <2>5. Coded(q, Front(open),
              Noted(Noted(Noted(meant, gen.pos, ret, <<>>), g.pos, load, <<body.start>>),
                    body.reloc - 1, "RJMP_U4", g.pos),
              P, vm.iptr)
    BY <2>1, <2>2, <2>3, <2>4, CodedCloses
  <2> QED  BY <2>2, <2>5
<1> QED
  BY <1>4, <1>5, <1>6, <1>7, <1>8, <1>9, <1>10, <1>11, <1>12 DEF Generate

-----------------------------------------------------------------------------
(* The lengths are filled in. *)

Patchable(g) ==
  /\ IsWriter(g) /\ g.buf = <<>> /\ IsSeq(g.relocs) /\ HolesApart(g, <<>>)
  /\ \A k \in DOMAIN g.relocs : g.relocs[k].pos \in Nat /\ g.relocs[k].pos + 4 <= g.pos

LEMMA FixedUpBytes ==
  ASSUME NEW g, Patchable(g), NEW q, q = FixedUp(g)
  PROVE  /\ IsWriter(q) /\ q.buf = <<>> /\ q.pos = g.pos /\ q.atoms = g.atoms
         /\ q.strings = g.strings /\ q.relocs = g.relocs
         /\ Out(g) = g.mem /\ \A n \in 1 .. g.pos : Out(q)[n] = ByteAt(g, n)
<1>1. PICK mem, pos, old : mem = g.mem /\ pos = g.pos /\ old = g.relocs  OBVIOUS
<1>2. g = [x \in Fields |-> g[x]] /\ IsSeq(mem) /\ pos \in Nat /\ IsSeq(<<>>)
      /\ Len(<<>>) = 0 /\ g.buf = <<>>
  BY <1>1, Positions, Nothing DEF IsWriter, Patchable
<1>3. Len(mem) = pos /\ DOMAIN mem = 1 .. pos
  <2>1. Len(mem) \in Nat /\ DOMAIN mem = 1 .. Len(mem)  BY <1>2, Domains
  <2>2. pos = Len(mem) + Len(<<>>)  BY <1>1, Zenon DEF IsWriter, Patchable
  <2>3. pos = Len(mem)  BY <1>2, <2>1, <2>2
  <2> QED  BY <2>1, <2>3
<1>4. PICK new : new = [n \in 1 .. pos |-> ByteAt(g, n)]  OBVIOUS
<1>5. IsSeq(new) /\ Len(new) = pos
  <2> DEFINE S == {ByteAt(g, n) : n \in 1 .. pos}
  <2>1. new \in [1 .. pos -> S]  BY <1>4
  <2> HIDE DEF S
  <2>2. new \in Seq(S)  BY <1>2, <2>1
  <2>3. Len(new) = pos  BY <1>2, <2>1, <2>2, LenProperties
  <2> QED  BY <2>2, <2>3 DEF IsSeq
<1>6. q = [g EXCEPT !.mem = new]  BY <1>1, <1>3, <1>4 DEF FixedUp
<1>7. q = [x \in Fields |-> q[x]]  BY <1>2, <1>6 DEF Fields
<1>8. /\ q.mem = new /\ q.buf = <<>> /\ q.pos = pos /\ q.atoms = g.atoms
      /\ q.strings = g.strings /\ q.relocs = g.relocs
  BY <1>1, <1>2, <1>6 DEF Fields
<1>9. IsWriter(q)
  <2>1. pos = Len(new) + Len(<<>>)  BY <1>2, <1>5
  <2> QED  BY <1>2, <1>5, <1>7, <1>8, <2>1, Zenon DEF IsWriter
<1>10. Out(q) = new /\ Out(g) = mem  BY <1>1, <1>2, <1>5, <1>8, Nothing DEF Out
<1>11. \A n \in 1 .. pos : new[n] = ByteAt(g, n)  BY <1>4
<1> QED  BY <1>1, <1>8, <1>9, <1>10, <1>11

\* A byte that is in no length.
LEMMA ByteStays ==
  ASSUME NEW g, Patchable(g), NEW n \in Nat,
         \A k \in DOMAIN g.relocs : n <= g.relocs[k].pos \/ g.relocs[k].pos + 4 < n
  PROVE  ByteAt(g, n) = g.mem[n]
<1>1. ASSUME NEW k \in DOMAIN g.relocs
      PROVE  n \notin g.relocs[k].pos + 1 .. g.relocs[k].pos + 4
  <2>1. PICK p \in Nat : p = g.relocs[k].pos  BY DEF Patchable
  <2>2. n <= p \/ p + 4 < n  BY <2>1
  <2> QED  BY <2>1, <2>2
<1>2. Relocated(g, n) = {}  BY <1>1 DEF Relocated
<1> QED  BY <1>2 DEF ByteAt

\* One that is in the k-th.
LEMMA ByteFills ==
  ASSUME NEW g, Patchable(g), NEW k \in DOMAIN g.relocs, NEW d \in {1, 2, 3, 4}
  PROVE  ByteAt(g, g.relocs[k].pos + d) = FourBytes(g.relocs[k].replacement)[d]
<1>1. PICK p \in Nat, n \in Nat : p = g.relocs[k].pos /\ n = p + d  BY DEF Patchable
<1>2. n \in p + 1 .. p + 4 /\ n - p = d  BY <1>1
<1>3. k \in Nat  BY Domains DEF Patchable
<1>4. ASSUME NEW x \in DOMAIN g.relocs, x # k
      PROVE  n \notin g.relocs[x].pos + 1 .. g.relocs[x].pos + 4
  <2>1. PICK y \in Nat : y = g.relocs[x].pos  BY DEF Patchable
  <2>2. Far(p, y)  BY <1>1, <1>4, <2>1 DEF Patchable, HolesApart
  <2>3. n <= y \/ y + 4 < n  BY <1>1, <2>2 DEF Far
  <2> QED  BY <2>1, <2>3
<1>5. Relocated(g, n) = {k}  BY <1>1, <1>2, <1>4 DEF Relocated
<1>6. Max({k}) = k
  <2>1. k >= k  BY <1>3
  <2> QED  BY <2>1 DEF Max
<1>7. ByteAt(g, n) = FourBytes(g.relocs[k].replacement)[n - g.relocs[k].pos]
  BY <1>5, <1>6 DEF ByteAt
<1> QED  BY <1>1, <1>2, <1>7

LEMMA FourAreBytes ==
  ASSUME NEW n \in Nat, n < 268435456, NEW d \in {1, 2, 3, 4}
  PROVE  FourBytes(n)[d] \in Byte
<1>1. n % 256 \in Byte /\ (n \div 256) % 256 \in Byte /\ (n \div 65536) % 256 \in Byte
  BY SMT DEF Byte
<1>2. n \div 16777216 \in Byte  BY SMT DEF Byte
<1>3. PICK v, w, x, y : v = n % 256 /\ w = (n \div 256) % 256 /\ x = (n \div 65536) % 256
                        /\ y = n \div 16777216
  OBVIOUS
<1>4. FourBytes(n) = <<v, w, x, y>>  BY SMT, <1>3 DEF FourBytes
<1>5. v \in Byte /\ w \in Byte /\ x \in Byte /\ y \in Byte  BY SMT, <1>1, <1>2, <1>3
<1> QED  BY SMT, <1>4, <1>5

LEMMA FixedUpAreBytes ==
  ASSUME NEW g, Patchable(g), Short(g), Bytes(g.mem), NEW q, q = FixedUp(g)
  PROVE  Bytes(Out(q))
<1>1. /\ IsWriter(q) /\ q.pos = g.pos /\ Out(g) = g.mem
      /\ \A n \in 1 .. g.pos : Out(q)[n] = ByteAt(g, n)
  BY FixedUpBytes
<1>2. Len(Out(q)) = g.pos /\ Len(g.mem) = g.pos /\ g.pos \in Nat
  BY <1>1, Positions DEF Patchable
<1>3. ASSUME NEW n \in 1 .. g.pos  PROVE ByteAt(g, n) \in Byte
  <2>1. CASE \A k \in DOMAIN g.relocs : n <= g.relocs[k].pos \/ g.relocs[k].pos + 4 < n
    <3>1. ByteAt(g, n) = g.mem[n]  BY <2>1, ByteStays
    <3> QED  BY <1>2, <3>1 DEF Bytes
  <2>2. CASE \E k \in DOMAIN g.relocs : ~ (n <= g.relocs[k].pos \/ g.relocs[k].pos + 4 < n)
    <3>1. PICK k \in DOMAIN g.relocs : ~ (n <= g.relocs[k].pos \/ g.relocs[k].pos + 4 < n)
      BY <2>2
    <3>2. PICK p \in Nat : p = g.relocs[k].pos  BY DEF Patchable
    <3>3. n \in Nat /\ p < n /\ n <= p + 4  BY <3>1, <3>2
    <3>4. PICK d \in {1, 2, 3, 4} : n = p + d
      <4>1. n = p + 1 \/ n = p + 2 \/ n = p + 3 \/ n = p + 4  BY <3>3
      <4> QED  BY <4>1
    <3>5. PICK r : r = g.relocs[k].replacement  OBVIOUS
    <3>6. r \in 0 .. g.pos  BY <3>5 DEF Patchable, HolesApart
    <3>7. r \in Nat /\ r <= g.pos  BY <1>2, <3>6
    <3>8. r \in Operand  BY <1>2, <3>7, ShortOperands
    <3>9. FourBytes(r)[d] \in Byte  BY SMT, <3>7, <3>8, FourAreBytes DEF Operand
    <3> QED  BY <3>2, <3>4, <3>5, <3>9, ByteFills
  <2> QED  BY <2>1, <2>2
<1> QED  BY <1>1, <1>2, <1>3 DEF Bytes

LEMMA DecodedOpcode ==
  ASSUME NEW s, NEW a \in Nat
  PROVE  Decode(s, a).op = Opcode(s, a)
<1>1. Words(Opcode(s, a)) \in {0, 1, 2}  BY HowManyWords
<1> QED  BY <1>1, ReadsNone, ReadsOne, ReadsTwo

LEMMA OpcodeOfByte ==
  ASSUME NEW s, NEW t, NEW a, s[a + 1] = t[a + 1]
  PROVE  Opcode(s, a) = Opcode(t, a)
BY DEF Opcode

\* What is there stays what it is, and jumps have their lengths.
LEMMA CellFills ==
  ASSUME NEW g, Patchable(g), NEW q, q = FixedUp(g),
         NEW a, NEW c, InPlace(a, c, g, <<>>)
  PROVE  InPlace(a, c, q, <<>>) /\ (c.op = "RJMP_U4" => Filled(q, a, c))
<1>1. /\ IsWriter(g) /\ IsWriter(q) /\ q.pos = g.pos /\ q.relocs = g.relocs
      /\ Out(g) = g.mem /\ \A n \in 1 .. g.pos : Out(q)[n] = ByteAt(g, n)
  BY FixedUpBytes DEF Patchable
<1>2. Remembers(g, q)
  <2>1. q.atoms = g.atoms /\ q.strings = g.strings  BY FixedUpBytes
  <2> QED  BY <2>1 DEF Remembers
<1>3. Stands(a, c, g) /\ g.pos <= q.pos
  <2>1. g.pos \in Nat  BY <1>1, Positions
  <2> QED  BY <1>1, <2>1 DEF InPlace
<1>4. PICK i \in Nat, b \in Nat, l \in Nat : i = a /\ b = c.next /\ l = g.pos /\ i < b /\ b <= l
  BY <1>1, <1>3, Positions DEF Stands
<1>5. \A p \in Holes(g, <<>>) : Clear(p, a, c)  BY DEF InPlace
<1>6. ASSUME NEW k \in DOMAIN g.relocs
      PROVE  LET p == g.relocs[k].pos
             IN p \in Nat /\ (p + 4 <= i \/ b <= p \/ (p = i + 1 /\ c.op = "RJMP_U4"))
  <2>1. PICK p \in Nat : p = g.relocs[k].pos  BY DEF Patchable
  <2>2. p \in Holes(g, <<>>)  BY <2>1 DEF Holes
  <2>3. Clear(p, a, c)  BY <1>5, <2>2
  <2> QED  BY <1>4, <2>1, <2>3 DEF Clear
<1>7. ASSUME NEW n \in i + 1 .. b,
             \A k \in DOMAIN g.relocs :
               g.relocs[k].pos = i + 1 /\ c.op = "RJMP_U4" => n <= i + 1
      PROVE  Out(q)[n] = Out(g)[n]
  <2>1. ASSUME NEW k \in DOMAIN g.relocs
        PROVE  n <= g.relocs[k].pos \/ g.relocs[k].pos + 4 < n
    <3>1. PICK p \in Nat : p = g.relocs[k].pos  BY <1>6
    <3>2. p + 4 <= i \/ b <= p \/ (p = i + 1 /\ c.op = "RJMP_U4")  BY <1>6, <3>1
    <3>3. p = i + 1 /\ c.op = "RJMP_U4" => n <= p  BY <1>7, <3>1
    <3>4. n \in Nat /\ i < n /\ n <= b  BY <1>4
    <3>5. n <= p \/ p + 4 < n  BY <3>2, <3>3, <3>4
    <3> QED  BY <3>1, <3>5
  <2>2. n \in Nat /\ n \in 1 .. l  BY <1>4
  <2>3. ByteAt(g, n) = g.mem[n]  BY <2>1, <2>2, ByteStays
  <2> QED  BY <1>1, <1>4, <2>2, <2>3
<1>8. Holes(q, <<>>) = Holes(g, <<>>)  BY <1>1 DEF Holes
<1>9. CASE \A k \in DOMAIN g.relocs : ~ (g.relocs[k].pos = i + 1 /\ c.op = "RJMP_U4")
  <2>1. Alike(Out(g), Out(q), a, c.next)  BY <1>4, <1>7, <1>9 DEF Alike
  <2>2. Stands(a, c, q)  BY <1>1, <1>2, <1>3, <2>1, StandsStays
  <2>3. ASSUME c.op = "RJMP_U4"  PROVE Filled(q, a, c) /\ Awaits(a, c, q, <<>>)
    <3>1. Awaits(a, c, g, <<>>)  BY <2>3 DEF InPlace
    <3>2. a + 1 \notin Holes(g, <<>>)  BY <1>4, <1>9, <2>3 DEF Holes
    <3>3. Filled(g, a, c) /\ c.next = a + 5  BY <3>1, <3>2 DEF Awaits
    <3>4. Filled(q, a, c)  BY <1>4, <2>1, <3>3, FilledStays
    <3> QED  BY <1>1, <3>1, <3>4 DEF Awaits
  <2> QED  BY <1>5, <1>8, <2>2, <2>3 DEF InPlace
<1>10. CASE c.op = "RJMP_U4" /\ \E k \in DOMAIN g.relocs : g.relocs[k].pos = i + 1
  <2>1. PICK k \in DOMAIN g.relocs : g.relocs[k].pos = i + 1  BY <1>10
  <2>2. Awaits(a, c, g, <<>>)  BY <1>10 DEF InPlace
  <2>3. PICK r : r = g.relocs[k].replacement  OBVIOUS
  <2>4. b = i + 5 /\ c.means = b + r  BY <1>4, <2>1, <2>2, <2>3 DEF Awaits
  <2>5. r \in Nat
    <3>1. r \in 0 .. g.pos  BY <2>3 DEF Patchable, HolesApart
    <3> QED  BY <3>1
  <2>6. PICK s, t : s = Out(g) /\ t = Out(q)  OBVIOUS
  <2>7. t[i + 1] = s[i + 1]
    <3>1. i + 1 \in i + 1 .. b /\ i + 1 <= i + 1  BY <1>4
    <3> QED  BY <1>7, <2>6, <3>1
  <2>8. Opcode(t, i) = "RJMP_U4"
    <3>1. Opcode(s, i) = "RJMP_U4"
      <4>1. Decode(s, i).op = "RJMP_U4"  BY <1>3, <1>4, <1>10, <2>6 DEF Stands, Says
      <4> QED  BY <4>1, DecodedOpcode
    <3> QED  BY <2>7, <3>1, OpcodeOfByte
  <2>9. Decode(t, i).op = "RJMP_U4" /\ Decode(t, i).next = i + 5
    <3>1. Words("RJMP_U4") = 0 /\ Fixed("RJMP_U4") = 4  BY DEF Words, Plain, Fixed
    <3>2. Decode(t, i).op = "RJMP_U4" /\ Decode(t, i).next = (i + 1) + 4
      BY <2>8, <3>1, ReadsNone
    <3> QED  BY <3>2
  <2>10. Stands(a, c, q)
    <3>1. Says(q, a, c)  BY <1>4, <1>10, <2>4, <2>6, <2>9 DEF Says, Tells, NameOps
    <3> QED  BY <1>1, <1>3, <3>1 DEF Stands
  <2>11. Filled(q, a, c)
    <3>1. c.means - c.next = r /\ c.means - c.next \in Nat  BY <1>4, <2>4, <2>5
    <3>2. ASSUME NEW d \in {1, 2, 3, 4}  PROVE t[(i + 1) + d] = FourBytes(r)[d]
      <4>1. ByteAt(g, (i + 1) + d) = FourBytes(r)[d]  BY <2>1, <2>3, ByteFills
      <4>2. (i + 1) + d \in 1 .. l  BY <1>4, <2>4
      <4> QED  BY <1>1, <1>4, <2>6, <4>1, <4>2
    <3>3. PICK bytes : bytes = FourBytes(r) /\ Len(bytes) = 4  BY FourLong
    <3>4. ASSUME NEW d \in 1 .. Len(bytes)  PROVE t[(i + 1) + d] = bytes[d]
      <4>1. d \in {1, 2, 3, 4}  BY <3>3
      <4> QED  BY <3>2, <3>3, <4>1
    <3>5. Written(t, i + 1, bytes)  BY <3>4 DEF Written
    <3> QED  BY <1>4, <2>6, <3>1, <3>3, <3>5 DEF Filled
  <2>12. Awaits(a, c, q, <<>>)  BY <1>1, <2>2, <2>11 DEF Awaits
  <2> QED  BY <1>5, <1>8, <2>10, <2>11, <2>12 DEF InPlace
<1> QED  BY <1>9, <1>10

-----------------------------------------------------------------------------
(* The ends of reading. *)

\* All has been written, and a HALT ends the program or the line.
Finished(f, T, B, P, g, m) ==
  /\ Code(f, T, B, P, g, <<>>, m) /\ Flows(f, T, {}) /\ Flows(f, B, {})
  /\ \A a \in T : f[a].op = "HALT" => f[a].next = g.pos

\* And all lengths have been filled in.  The bodies are now among those of P.
Ready(f, T, P, g, m) ==
  /\ Code(f, T, {}, P, g, <<>>, m) /\ Flows(f, T, {}) /\ FilledIn(f, T, g)
  /\ \A a \in T : f[a].op = "HALT" => f[a].next = g.pos

Whole(g) == HolesApart(g, <<>>) /\ Bytes(Out(g)) /\ Atoms(g)

\* What is noted about the next address is about none of the cells.
LEMMA CodedNotes ==
  ASSUME NEW g, NEW o, NEW m, NEW P, NEW at, Coded(g, o, m, P, at), NEW op, NEW what
  PROVE  Coded(g, o, Noted(m, g.pos, op, what), P, at)
<1>1. PICK mm : mm = Noted(m, g.pos, op, what)  OBVIOUS
<1>2. PICK f, T, B : Reading(f, T, B, P, g, o, m) /\ at \in T \cup TopEnd(o, g.pos)
  BY DEF Coded
<1>3. PICK S : S = T \cup B \cup P  OBVIOUS
<1>4. Code(f, T, B, P, g, o, m)  BY <1>2 DEF Reading
<1>5. Laid(f, S, g, o) /\ Meant(f, S, m)  BY <1>3, <1>4 DEF Code
<1>6. g.pos \notin S
  <2>1. IsWriter(g)  BY CodedParts
  <2> QED  BY <1>5, <2>1, CellsInFront
<1>7. Meant(f, S, mm)
  <2>1. ASSUME NEW a \in S
        PROVE  a \in DOMAIN mm /\ mm[a] = [op |-> f[a].op, means |-> f[a].means]
    <3>1. a \in DOMAIN m /\ m[a] = [op |-> f[a].op, means |-> f[a].means]
      BY <1>5 DEF Meant
    <3>2. a # g.pos  BY <1>6
    <3>3. a \in DOMAIN mm /\ mm[a] = m[a]
      BY <1>1, <3>1, <3>2 DEF Noted
    <3> QED  BY <3>1, <3>3
  <2> QED  BY <2>1 DEF Meant
<1>8. Code(f, T, B, P, g, o, mm)  BY <1>3, <1>4, <1>7 DEF Code
<1>9. Reading(f, T, B, P, g, o, mm)  BY <1>2, <1>8 DEF Reading
<1> QED  BY <1>1, <1>2, <1>9 DEF Coded

LEMMA HaltIsPlain ==
  "HALT" \in Operation /\ Words("HALT") = 0 /\ Fixed("HALT") = 0
<1>1. "HALT" \in Operation  BY DEF Operation
<1>2. Words("HALT") = 0 /\ Fixed("HALT") = 0  BY DEF Words, Plain, Fixed
<1> QED  BY <1>1, <1>2

LEMMA HaltedReads ==
  ASSUME NEW g, IsWriter(g), Buffers(g), NEW q, q = Halted(g)
  PROVE  /\ Adds(g, q) /\ q.pos = g.pos + 1 /\ q.buf = <<>>
         /\ Reads(Out(q), g.pos, "HALT", <<>>, q.pos)
<1>1. PICK r : r = Instruction(g, "HALT")  OBVIOUS
<1>2. Adds(g, r) /\ r.pos = g.pos + 1 /\ Reads(Out(r), g.pos, "HALT", <<>>, r.pos)
  BY <1>1, HaltIsPlain, InstructionReads
<1>3. IsWriter(r)  BY <1>2 DEF Adds
<1>4. q = Flush(r)  BY <1>1 DEF Halted
<1>5. Wrote(r, q, <<>>) /\ q.buf = <<>> /\ q.pos = r.pos /\ Out(q) = Out(r)
  BY <1>3, <1>4, FlushWrites
<1>6. Buffers(q)  BY <1>5, Nothing, GeneratorAssumption DEF Buffers
<1>7. Bytes(<<>>)
  <2>1. <<>> \in Seq(Byte)  OBVIOUS
  <2> QED  BY <2>1, BytesOf
<1>8. Adds(r, q)  BY <1>3, <1>5, <1>6, <1>7, Nothing, AddsByWriting
<1>9. Adds(g, q)  BY <1>2, <1>8, AddsTwice
<1> QED  BY <1>2, <1>5, <1>9

LEMMA CodedHalts ==
  ASSUME NEW g, NEW m, NEW P, NEW at, Coded(g, <<>>, m, P, at), NEW q, q = Halted(g)
  PROVE  /\ \E f, T, B : /\ Finished(f, T, B, P, q, Noted(m, g.pos, "HALT", <<>>))
                         /\ at \in T
         /\ Patchable(q) /\ Bytes(Out(q)) /\ Atoms(q) /\ q.atoms = g.atoms
<1>1. IsWriter(g) /\ Buffers(g) /\ g.pos \in Nat /\ Atoms(g) /\ Sound("reading", g, <<>>)
  BY CodedParts
<1>2. Adds(g, q) /\ q.pos = g.pos + 1 /\ q.buf = <<>>
      /\ Reads(Out(q), g.pos, "HALT", <<>>, q.pos)
  BY <1>1, HaltedReads
<1>3. Bytes(Out(g)) /\ HolesApart(g, <<>>)  BY DEF Coded
<1>4. IsWriter(q) /\ q.relocs = g.relocs /\ q.atoms = g.atoms /\ Bytes(Out(q))
  BY <1>2, <1>3 DEF Adds, Grows, Extends, SameRest
<1>5. q.pos \in Nat /\ g.pos < q.pos /\ g.pos <= q.pos  BY <1>1, <1>2
<1>6. Atoms(q)  BY <1>1, <1>4, AtomsStay
<1>7. /\ \A p \in Holes(g, <<>>) : p \in Nat /\ p + 4 <= g.pos
      /\ IsSeq(g.relocs)
  BY <1>1, HolesInFront
<1>8. Patchable(q)
  <2>1. HolesApart(q, <<>>)  BY <1>1, <1>3, <1>4, <1>5, HolesApartStays
  <2>2. ASSUME NEW k \in DOMAIN q.relocs
        PROVE  q.relocs[k].pos \in Nat /\ q.relocs[k].pos + 4 <= q.pos
    <3>1. PICK p : p = q.relocs[k].pos  OBVIOUS
    <3>2. p \in Holes(g, <<>>)  BY <1>4, <3>1 DEF Holes
    <3>3. p \in Nat /\ p + 4 <= g.pos  BY <1>7, <3>2
    <3> QED  BY <1>1, <1>5, <3>1, <3>3
  <2> QED  BY <1>2, <1>4, <1>7, <2>1, <2>2 DEF Patchable
<1>9. PICK c : c = [op |-> "HALT", means |-> <<>>, next |-> q.pos]  OBVIOUS
<1>10. c.op = "HALT" /\ c.means = <<>> /\ c.next = q.pos  BY <1>9
<1>11. Carries(g, q, <<>>, <<>>) /\ Holes(q, <<>>) = Holes(g, <<>>)
  BY <1>1, <1>2, AddsCarries
<1>12. InPlace(g.pos, c, q, <<>>)
  <2>1. c.op \notin Literal  BY <1>10 DEF Literal, NameOps
  <2>2. Stands(g.pos, c, q)  BY <1>1, <1>2, <1>5, <1>10, <2>1, LastStands
  <2>3. c.op # "RJMP_U4"  BY <1>10
  <2> QED  BY <1>7, <1>11, <2>2, <2>3, LastInPlace
<1>13. PICK f, T, B : Reading(f, T, B, P, g, <<>>, m) /\ at \in T \cup TopEnd(<<>>, g.pos)
  BY DEF Coded
<1>14. Code(f, T, B, P, g, <<>>, m) /\ Without(f, T, {"HALT"})
       /\ Flows(f, T, {g.pos}) /\ Flows(f, B, {}) /\ at \in T \cup {g.pos}
  BY <1>13 DEF Reading, TopEnd, BodyEnd
<1>15. PICK h, T2, mm : /\ h = With(f, g.pos, c) /\ T2 = T \cup {g.pos}
                        /\ mm = Noted(m, g.pos, "HALT", <<>>)
  OBVIOUS
<1>16. Code(h, T2, B, P, q, <<>>, mm)
  <2>1. c.op \notin {"RET", "MOD_RET"} /\ c.op \notin Starting  BY <1>10 DEF Starting
  <2>2. Holes(g, <<>>) \subseteq Holes(q, <<>>)  BY <1>11
  <2>3. Code(h, T2, B, P, q, <<>>, Noted(m, g.pos, c.op, c.means))
    BY <1>11, <1>12, <1>14, <1>15, <2>1, <2>2, CodeAdds
  <2> QED  BY <1>10, <1>15, <2>3
<1>17. (\A a \in T \cup B : a \in DOMAIN f) /\ g.pos \notin T /\ g.pos \notin B
  <2>1. Laid(f, T \cup B \cup P, g, <<>>)  BY <1>14 DEF Code
  <2>2. /\ \A a \in T \cup B \cup P : a \in DOMAIN f
        /\ g.pos \notin T \cup B \cup P
    BY <1>1, <2>1, CellsInFront
  <2> QED  BY <2>2
<1>18. Flows(h, T2, {}) /\ Flows(h, B, {})
  <2>1. Leads(c) = {}  BY <1>10 DEF Leads
  <2>2. Flows(h, T2, Leads(c))  BY <1>14, <1>15, <1>17, FlowsAdds
  <2>3. Flows(h, B, {})  BY <1>14, <1>15, <1>17, FlowsSame
  <2> QED  BY <2>1, <2>2, <2>3
<1>19. ASSUME NEW a \in T2, h[a].op = "HALT"  PROVE h[a].next = q.pos
  <2>1. CASE a = g.pos  BY <1>10, <1>15, <2>1, WithCell
  <2>2. CASE a # g.pos
    <3>1. a \in T  BY <1>15, <2>2
    <3>2. h[a] = f[a]  BY <1>15, <1>17, <2>2, <3>1, WithCell
    <3> QED  BY <1>14, <1>19, <3>1, <3>2 DEF Without
  <2> QED  BY <2>1, <2>2
<1>20. Finished(h, T2, B, P, q, mm) /\ at \in T2
  BY <1>14, <1>15, <1>16, <1>18, <1>19 DEF Finished
<1> QED  BY <1>4, <1>6, <1>8, <1>15, <1>20

LEMMA FixedUpReady ==
  ASSUME NEW f, NEW T, NEW B, NEW P, NEW g, NEW m, Finished(f, T, B, P, g, m),
         Patchable(g), Bytes(Out(g)), Atoms(g), Short(g), NEW q, q = FixedUp(g)
  PROVE  Ready(f, T, B \cup P, q, m) /\ Whole(q)
<1>1. /\ q.pos = g.pos /\ q.atoms = g.atoms /\ q.relocs = g.relocs /\ Out(g) = g.mem
  BY FixedUpBytes
<1>2. Whole(q)
  <2>1. Bytes(g.mem)  BY <1>1
  <2>2. Bytes(Out(q))  BY <2>1, FixedUpAreBytes
  <2>3. Atoms(q)  BY <1>1, AtomsStay
  <2>4. HolesApart(q, <<>>)  BY <1>1 DEF Patchable, HolesApart
  <2> QED  BY <2>2, <2>3, <2>4 DEF Whole
<1>3. Code(f, T, B, P, g, <<>>, m)  BY DEF Finished
<1>4. PICK Q, S : Q = B \cup P /\ S = T \cup {} \cup Q  OBVIOUS
<1>5. S = T \cup B \cup P  BY <1>4
<1>6. ASSUME NEW a \in S
      PROVE  /\ a \in DOMAIN f /\ InPlace(a, f[a], q, <<>>)
             /\ f[a].op = "RJMP_U4" => Filled(q, a, f[a])
  <2>1. a \in DOMAIN f /\ InPlace(a, f[a], g, <<>>)  BY <1>3, <1>5 DEF Code, Laid
  <2> QED  BY <2>1, CellFills
<1>7. Laid(f, S, q, <<>>)  BY <1>6 DEF Laid
<1>8. FilledIn(f, T, q) /\ FilledIn(f, Q, q)  BY <1>4, <1>6 DEF FilledIn
<1>9. Meant(f, S, m)  BY <1>3, <1>5 DEF Code
<1>10. Flows(f, Q, {})
  <2>1. Flows(f, P, {}) /\ Flows(f, B, {})  BY <1>3 DEF Code, Finished
  <2> QED  BY <1>4, <2>1 DEF Flows
<1>11. Starts(f, Q, Q) /\ Starts(f, T \cup {}, {} \cup Q)
  <2>1. Starts(f, P, P) /\ Starts(f, T \cup B, B \cup P)  BY <1>3 DEF Code
  <2> QED  BY <1>4, <2>1 DEF Starts
<1>12. Without(f, T, {"RET", "MOD_RET"}) /\ Without(f, {} \cup Q, {"HALT"})
  <2>1. {} \cup Q = B \cup P  BY <1>4
  <2> QED  BY <1>3, <2>1 DEF Code
<1>13. Disjoint(T, {}, Q)  BY <1>3, <1>4 DEF Code, Disjoint
<1>14. Code(f, T, {}, Q, q, <<>>, m)
  BY <1>4, <1>7, <1>8, <1>9, <1>10, <1>11, <1>12, <1>13 DEF Code
<1>15. Flows(f, T, {}) /\ \A a \in T : f[a].op = "HALT" => f[a].next = q.pos
  BY <1>1 DEF Finished
<1> QED  BY <1>2, <1>4, <1>8, <1>14, <1>15 DEF Ready

\* A generator that has written all it is going to for now.
LEMMA ClearedReady ==
  ASSUME NEW f, NEW T, NEW P, NEW g, NEW m, Ready(f, T, P, g, m), Whole(g),
         Sound("running", g, <<>>), NEW q, q = [g EXCEPT !.relocs = <<>>]
  PROVE  Ready(f, T, P, q, m) /\ Whole(q)
<1>1. IsWriter(g) /\ g.pos \in Nat  BY SoundParts
<1>2. g = [x \in Fields |-> g[x]]  BY <1>1 DEF IsWriter
<1>3. /\ q.mem = g.mem /\ q.buf = g.buf /\ q.pos = g.pos /\ q.strings = g.strings
      /\ q.atoms = g.atoms /\ q.relocs = <<>>
  BY <1>2 DEF Fields
<1>4. Out(q) = Out(g)  BY <1>3 DEF Out
<1>5. IsWriter(q)
  <2>1. Sound("running", q, <<>>)  BY PrintedSound
  <2> QED  BY <2>1, SoundParts
<1>6. DOMAIN q.relocs = {} /\ Holes(q, <<>>) = {}  BY <1>3 DEF Holes
<1>7. Whole(q)
  <2>1. Atoms(q)  BY <1>3, AtomsStay DEF Whole
  <2>2. HolesApart(q, <<>>)  BY <1>6 DEF HolesApart
  <2> QED  BY <1>4, <2>1, <2>2 DEF Whole
<1>8. Carries(g, q, <<>>, <<>>)
  <2>1. Remembers(g, q)  BY <1>3 DEF Remembers
  <2>2. Alike(Out(g), Out(q), 0, g.pos)  BY <1>4 DEF Alike
  <2> QED  BY <1>1, <1>3, <1>5, <1>6, <2>1, <2>2 DEF Carries
<1>9. Code(f, T, {}, P, g, <<>>, m) /\ FilledIn(f, T, g)  BY DEF Ready
<1>10. PICK S : S = T \cup {} \cup P  OBVIOUS
<1>11. ASSUME NEW a \in S
       PROVE  /\ a \in DOMAIN f /\ InPlace(a, f[a], q, <<>>)
              /\ f[a].op = "RJMP_U4" => Filled(q, a, f[a])
  <2>1. a \in DOMAIN f /\ InPlace(a, f[a], g, <<>>)
    BY <1>9, <1>10 DEF Code, Laid
  <2>2. f[a].op = "RJMP_U4" => Filled(g, a, f[a])
    BY <1>9, <1>10 DEF Code, FilledIn
  <2>3. CASE f[a].op = "RJMP_U4"  BY <1>8, <2>1, <2>2, <2>3, CarriesCell
  <2>4. CASE f[a].op # "RJMP_U4"
    <3>1. Stands(a, f[a], q)  BY <1>8, <2>1, CarriesCell
    <3> QED  BY <1>6, <2>1, <2>4, <3>1 DEF InPlace
  <2> QED  BY <2>3, <2>4
<1>12. Laid(f, S, q, <<>>)  BY <1>11 DEF Laid
<1>13. FilledIn(f, T, q) /\ FilledIn(f, P, q)  BY <1>10, <1>11 DEF FilledIn
<1>14. Code(f, T, {}, P, q, <<>>, m)  BY <1>9, <1>10, <1>12, <1>13 DEF Code
<1> QED  BY <1>3, <1>7, <1>13, <1>14 DEF Ready

-----------------------------------------------------------------------------
(* The machine, on its way through the code. *)

MachineFields == {"iptr", "rets", "funcs", "modules"}
IsMachine(v) ==
  /\ v = [x \in MachineFields |-> v[x]]
  /\ v.iptr \in Nat /\ v.rets \in Seq(Nat) /\ Len(v.rets) <= MaxDepth

\* In the calls from base on it is in bodies, and in the one before in the line.
Where(k, base, T, P) == IF k = base THEN T ELSE P

OnItsWay(T, P, v) ==
  \E base \in Nat :
    /\ base <= Len(v.rets) /\ v.iptr \in Where(Len(v.rets), base, T, P)
    /\ \A k \in DOMAIN v.rets : k > base => v.rets[k] \in Where(k - 1, base, T, P)

LEMMA MachineMoves ==
  ASSUME NEW v, IsMachine(v), NEW a \in Nat, NEW w, w = [v EXCEPT !.iptr = a]
  PROVE  IsMachine(w) /\ w.iptr = a /\ w.rets = v.rets /\ w.funcs = v.funcs
<1>1. v = [x \in MachineFields |-> v[x]]  BY DEF IsMachine
<1>2. w = [x \in MachineFields |-> w[x]]  BY <1>1 DEF MachineFields
<1>3. w.iptr = a /\ w.rets = v.rets /\ w.funcs = v.funcs  BY <1>1 DEF MachineFields
<1> QED  BY <1>2, <1>3 DEF IsMachine

\* The start of a program or a line.
LEMMA Sets ==
  ASSUME NEW T, NEW P, NEW v, IsMachine(v), v.iptr \in T
  PROVE  OnItsWay(T, P, v)
<1>1. PICK r : r = v.rets  OBVIOUS
<1>2. r \in Seq(Nat)  BY <1>1 DEF IsMachine
<1>3. IsSeq(r)  BY <1>2 DEF IsSeq
<1>4. PICK base : base = Len(r)  OBVIOUS
<1>5. base \in Nat /\ DOMAIN r = 1 .. base /\ base <= base  BY <1>3, <1>4, Domains
<1>6. \A k \in DOMAIN r : ~ (k > base)  BY <1>5
<1>7. v.iptr \in Where(Len(v.rets), base, T, P)  BY <1>1, <1>4 DEF Where
<1> QED  BY <1>1, <1>4, <1>5, <1>6, <1>7 DEF OnItsWay

\* From one cell to the next.
LEMMA GoesAlong ==
  ASSUME NEW T, NEW P, NEW v, IsMachine(v), OnItsWay(T, P, v), NEW a \in Nat,
         v.iptr \in T => a \in T, v.iptr \in P => a \in P,
         NEW w, w = [v EXCEPT !.iptr = a]
  PROVE  OnItsWay(T, P, w) /\ IsMachine(w) /\ w.funcs = v.funcs
<1>1. IsMachine(w) /\ w.iptr = a /\ w.rets = v.rets /\ w.funcs = v.funcs  BY MachineMoves
<1>2. PICK base \in Nat :
        /\ base <= Len(v.rets) /\ v.iptr \in Where(Len(v.rets), base, T, P)
        /\ \A k \in DOMAIN v.rets : k > base => v.rets[k] \in Where(k - 1, base, T, P)
  BY DEF OnItsWay
<1>3. w.iptr \in Where(Len(w.rets), base, T, P)  BY <1>1, <1>2 DEF Where
<1> QED  BY <1>1, <1>2, <1>3 DEF OnItsWay

\* A call: w is v with b on its stack of returns, at a.
Entered(T, P, v, w, a, b) ==
  /\ IsMachine(v) /\ OnItsWay(T, P, v) /\ Len(v.rets) < MaxDepth
  /\ a \in Nat /\ a \in P /\ b \in Nat
  /\ (v.iptr \in T => b \in T) /\ (v.iptr \in P => b \in P)
  /\ w = [x \in MachineFields |-> w[x]] /\ w.rets = Append(v.rets, b) /\ w.iptr = a

LEMMA GoesIn ==
  ASSUME NEW T, NEW P, NEW v, NEW w, NEW a, NEW b, Entered(T, P, v, w, a, b)
  PROVE  OnItsWay(T, P, w) /\ IsMachine(w)
<1> /\ IsMachine(v) /\ OnItsWay(T, P, v) /\ Len(v.rets) < MaxDepth
    /\ a \in Nat /\ a \in P /\ b \in Nat
    /\ (v.iptr \in T => b \in T) /\ (v.iptr \in P => b \in P)
    /\ w = [x \in MachineFields |-> w[x]] /\ w.rets = Append(v.rets, b) /\ w.iptr = a
  BY DEF Entered
<1>1. v.rets \in Seq(Nat)  BY DEF IsMachine
<1>2. PICK r, s : r = v.rets /\ s = Append(r, b)  OBVIOUS
<1>4. w = [x \in MachineFields |-> w[x]]  OBVIOUS
<1>5. w.iptr = a /\ w.rets = s  BY <1>2
<1>6. IsSeq(r)  BY <1>1, <1>2 DEF IsSeq
<1>7. PICK len \in Nat : len = Len(r) /\ DOMAIN r = 1 .. len  BY <1>6, Domains
<1>8. /\ s \in Seq(Nat) /\ Len(s) = len + 1 /\ \A k \in 1 .. len : s[k] = r[k]
      /\ s[len + 1] = b /\ DOMAIN s = 1 .. len + 1
  <2>1. s \in Seq(Nat)  BY <1>1, <1>2
  <2>2. IsSeq(s) /\ Len(s) = len + 1 /\ (\A k \in 1 .. len : s[k] = r[k]) /\ s[len + 1] = b
    BY <1>2, <1>6, <1>7, Appends
  <2> QED  BY <2>1, <2>2, Domains
<1>9. PICK base \in Nat :
        /\ base <= len /\ v.iptr \in Where(len, base, T, P)
        /\ \A k \in 1 .. len : k > base => r[k] \in Where(k - 1, base, T, P)
  BY <1>2, <1>7 DEF OnItsWay
<1>10. base <= len + 1 /\ a \in Where(len + 1, base, T, P)
  <2>1. len + 1 # base /\ base <= len + 1  BY <1>9
  <2> QED  BY <2>1 DEF Where
<1>11. ASSUME NEW k \in 1 .. len + 1, k > base  PROVE s[k] \in Where(k - 1, base, T, P)
  <2>1. CASE k \in 1 .. len  BY <1>8, <1>9, <1>11, <2>1
  <2>2. CASE k = len + 1
    <3>1. k - 1 = len  BY <2>2
    <3>2. b \in Where(len, base, T, P)  BY <1>9 DEF Where
    <3> QED  BY <1>8, <2>2, <3>1, <3>2
  <2> QED  BY <2>1, <2>2
<1>12. OnItsWay(T, P, w)  BY <1>5, <1>8, <1>9, <1>10, <1>11 DEF OnItsWay
<1>13. Len(s) <= MaxDepth
  <2>1. MaxDepth \in Nat  BY SessionAssumption
  <2> QED  BY <1>2, <1>7, <1>8, <2>1
<1> QED  BY <1>4, <1>5, <1>8, <1>12, <1>13 DEF IsMachine

LEMMA ComesBack ==
  ASSUME NEW T, NEW P, NEW v, IsMachine(v), OnItsWay(T, P, v), v.rets # <<>>,
         v.iptr \notin T, NEW w, w = [v EXCEPT !.iptr = Last(v.rets), !.rets = Front(v.rets)]
  PROVE  OnItsWay(T, P, w) /\ IsMachine(w) /\ w.funcs = v.funcs
<1>1. v = [x \in MachineFields |-> v[x]] /\ v.rets \in Seq(Nat) /\ Len(v.rets) <= MaxDepth
  BY DEF IsMachine
<1>2. PICK r, s, a : r = v.rets /\ s = Front(r) /\ a = Last(r)  OBVIOUS
<1>3. w = [v EXCEPT !.iptr = a, !.rets = s]  BY <1>2
<1>4. w = [x \in MachineFields |-> w[x]]  BY <1>1, <1>3 DEF MachineFields
<1>5. w.iptr = a /\ w.rets = s /\ w.funcs = v.funcs
  BY <1>1, <1>3 DEF MachineFields
<1>6. IsSeq(r) /\ r # <<>>  BY <1>1, <1>2 DEF IsSeq
<1>7. PICK n \in Nat :
        /\ DOMAIN r = 1 .. n + 1 /\ IsSeq(s) /\ DOMAIN s = 1 .. n
        /\ \A k \in 1 .. n : s[k] = r[k]
        /\ a = r[n + 1]
  BY <1>2, <1>6, Fronts
<1>8. Len(r) = n + 1 /\ Len(s) = n
  <2>1. PICK l \in Nat, m \in Nat :
          l = Len(r) /\ DOMAIN r = 1 .. l /\ m = Len(s) /\ DOMAIN s = 1 .. m
    BY <1>6, <1>7, Domains
  <2>2. 1 .. l = 1 .. n + 1 /\ 1 .. m = 1 .. n  BY <1>7, <2>1
  <2>3. l = n + 1 /\ m = n  BY <2>2
  <2> QED  BY <2>1, <2>3
<1>9. PICK base \in Nat :
        /\ base <= n + 1 /\ v.iptr \in Where(n + 1, base, T, P)
        /\ \A k \in 1 .. n + 1 : k > base => r[k] \in Where(k - 1, base, T, P)
  BY <1>2, <1>7, <1>8 DEF OnItsWay
<1>10. base <= n
  <2>1. base # n + 1  BY <1>9 DEF Where
  <2> QED  BY <1>9, <2>1
<1>11. a \in Where(n, base, T, P)
  <2>1. n + 1 \in 1 .. n + 1 /\ n + 1 > base /\ (n + 1) - 1 = n  BY <1>10
  <2> QED  BY <1>7, <1>9, <2>1
<1>12. \A k \in 1 .. n : k > base => s[k] \in Where(k - 1, base, T, P)
  <2>1. \A k \in 1 .. n : k \in 1 .. n + 1  OBVIOUS
  <2> QED  BY <1>7, <1>9, <2>1
<1>13. OnItsWay(T, P, w)  BY <1>5, <1>7, <1>8, <1>10, <1>11, <1>12 DEF OnItsWay
<1>14. s \in Seq(Nat) /\ a \in Nat
  <2>1. r \in Seq(Nat)  BY <1>1, <1>2
  <2>2. r \in [1 .. n + 1 -> Nat]  BY <1>7, <1>8, <2>1
  <2>3. a \in Nat /\ \A k \in 1 .. n : s[k] \in Nat
    BY <1>7, <2>2
  <2>4. PICK S : s \in Seq(S)  BY <1>7 DEF IsSeq
  <2>5. s \in [1 .. n -> Nat]
    <3>1. s = [k \in 1 .. n |-> s[k]]  BY <1>7, <2>4
    <3> QED  BY <2>3, <3>1
  <2> QED  BY <2>3, <2>5
<1>15. Len(s) <= MaxDepth
  <2>1. MaxDepth \in Nat  BY SessionAssumption
  <2> QED  BY <1>1, <1>2, <1>8, <2>1
<1> QED  BY <1>4, <1>5, <1>13, <1>14, <1>15 DEF IsMachine

-----------------------------------------------------------------------------
(* What the machine finds at a cell. *)

LEMMA NumberedName ==
  ASSUME NEW id, NEW x, Called(gen, id, x), Atoms(gen)
  PROVE  NameOf(id) = x
<1>1. PICK atoms, known, name : atoms = gen.atoms /\ known = MachineAtoms /\ name = atoms[id]
  OBVIOUS
<1>2. /\ id \in DOMAIN atoms /\ IsInjective(atoms) /\ x = <<Contains(known, name), name>>
      /\ \A n \in DOMAIN known : n \in DOMAIN atoms /\ atoms[n] = known[n]
  BY <1>1 DEF Called, Atoms, Name
<1>3. NameOf(id) = IF id \in DOMAIN known THEN <<TRUE, known[id]>> ELSE <<FALSE, name>>
  BY <1>1 DEF NameOf
<1>4. IsSeq(known)  BY <1>1, MachineNames
<1>5. DOMAIN known = 1 .. Len(known)  BY <1>4, Domains
<1>6. CASE id \in DOMAIN known
  <2>1. known[id] = name  BY <1>1, <1>2, <1>6
  <2>2. Contains(known, name) = TRUE
    <3>1. Contains(known, name)  BY <1>5, <1>6, <2>1 DEF Contains
    <3> QED  BY <3>1 DEF Contains
  <2> QED  BY <1>2, <1>3, <1>6, <2>1, <2>2, Zenon
<1>7. CASE id \notin DOMAIN known
  <2>1. Contains(known, name) = FALSE
    <3>1. ASSUME NEW n \in 1 .. Len(known), known[n] = name  PROVE FALSE
      <4>1. n \in DOMAIN atoms /\ atoms[n] = atoms[id]  BY <1>1, <1>2, <1>5, <3>1
      <4>2. n = id  BY <1>2, <4>1 DEF IsInjective
      <4> QED  BY <1>5, <1>7, <4>2
    <3>2. ~ Contains(known, name)  BY <3>1 DEF Contains
    <3> QED  BY <3>2 DEF Contains
  <2> QED  BY <1>2, <1>3, <1>7, <2>1, Zenon
<1> QED  BY <1>6, <1>7

\* The length of a jump over a body, as it is filled in.
LEMMA FilledMeans ==
  ASSUME IsWriter(gen), NEW a \in Nat, NEW n \in Nat, a + 5 <= gen.pos,
         Written(Out(gen), a + 1, FourBytes(n)), Opcode(Out(gen), a) = "RJMP_U4"
  PROVE  ReadFour(Decode(Out(gen), a).bytes, 0) = n
<1>1. PICK s : s = Out(gen)  OBVIOUS
<1>2. IsSeq(s) /\ Len(s) = gen.pos /\ gen.pos \in Nat  BY <1>1, Positions
<1>3. Words("RJMP_U4") = 0 /\ Fixed("RJMP_U4") = 4  BY DEF Words, Plain, Fixed
<1>4. PICK b \in Nat : b = a + 1  OBVIOUS
<1>5. PICK bytes : bytes = SubSeq(s, b + 1, b + 4)  OBVIOUS
<1>6. Decode(s, a).bytes = bytes
  <2>1. Opcode(s, a) = "RJMP_U4"  BY <1>1
  <2>2. Decode(s, a).bytes = SubSeq(s, (a + 1) + 1, (a + 1) + 4)
    BY <1>3, <2>1, ReadsNone
  <2> QED  BY <1>4, <1>5, <2>2
<1>7. \A k \in 1 .. 4 : bytes[k] = s[b + k]
  <2>1. PICK len \in Nat : len = 4  OBVIOUS
  <2>2. IsPart(s, b, len)  BY <1>2, <1>4, <2>1 DEF IsPart
  <2>3. bytes = SubSeq(s, b + 1, b + len)  BY <1>5, <2>1
  <2>4. IsSeq(bytes) /\ Len(bytes) = len /\ \A k \in 1 .. len : bytes[k] = s[b + k]
    BY ONLY <2>2, <2>3, Parts
  <2> QED  BY <2>1, <2>4
<1>8. PICK four : four = FourBytes(n) /\ Len(four) = 4  BY FourLong
<1>9. \A k \in 1 .. 4 : s[b + k] = four[k]  BY <1>1, <1>4, <1>8 DEF Written
<1>10. Written(bytes, 0, four)
  <2>1. ASSUME NEW k \in 1 .. 4  PROVE bytes[0 + k] = four[k]
    <3>1. 0 + k = k  OBVIOUS
    <3> QED  BY <1>7, <1>9, <3>1
  <2> QED  BY <1>8, <2>1 DEF Written
<1>11. ReadFour(bytes, 0) = n  BY <1>8, <1>10, FourReadsBack
<1> QED  BY <1>1, <1>6, <1>11

\* A cell means what the instruction there says.
LEMMA CellMeans ==
  ASSUME Sound("running", gen, <<>>), Atoms(gen), StringsInPlace,
         NEW a, NEW c, InPlace(a, c, gen, <<>>),
         c.op = "RJMP_U4" => Filled(gen, a, c) /\ c.means \in Int,
         NEW i, i = Decode(gen.mem, a)
  PROVE  i.op = c.op /\ i.next = c.next /\ Meaning(i) = c.means
<1>1. IsWriter(gen) /\ gen.buf = <<>>  BY SoundParts
<1>2. gen.mem \o gen.buf = gen.mem /\ Out(gen) = gen.mem
  BY <1>1, Nothing DEF IsWriter, Out
<1>3. Stands(a, c, gen)  BY DEF InPlace
<1>4. i.op = c.op /\ i.next = c.next /\ Tells(gen, i, c.means)
  BY <1>2, <1>3 DEF Stands, Says
<1>5. Meaning(i) = c.means
  <2>1. CASE i.op = "RJMP"  BY <1>4, <2>1 DEF Tells, Meaning, NameOps
  <2>2. CASE i.op = "RJMP_U4"
    <3>1. c.means \in Int /\ c.next = a + 5 /\ a \in Nat /\ c.next <= gen.pos
      BY <1>3, <1>4, <2>2 DEF InPlace, Awaits, Stands
    <3>2. PICK n \in Nat : n = c.means - c.next
      BY <1>4, <2>2 DEF Filled
    <3>3. Written(Out(gen), a + 1, FourBytes(n))  BY <1>4, <2>2, <3>2 DEF Filled
    <3>4. Opcode(Out(gen), a) = "RJMP_U4"
      <4>1. Decode(Out(gen), a).op = "RJMP_U4"  BY <1>2, <2>2
      <4> QED  BY <3>1, <4>1, DecodedOpcode
    <3>5. a + 5 <= gen.pos  BY <3>1
    <3>6. ReadFour(i.bytes, 0) = n  BY <1>1, <1>2, <3>1, <3>3, <3>4, <3>5, FilledMeans
    <3>7. Meaning(i) = i.next + ReadFour(i.bytes, 0)  BY <2>2 DEF Meaning, NameOps
    <3> QED  BY <1>4, <3>1, <3>2, <3>6, <3>7
  <2>3. CASE i.op = "ALLOC_BUFFER_STATIC"
    <3>1. PICK n \in DOMAIN gen.strings :
            /\ gen.strings[n].string = c.means /\ gen.strings[n].pos = i.words[2]
            /\ Len(c.means) = i.words[1]
      BY <1>4, <2>3 DEF Tells, NameOps
    <3>2. SubSeq(gen.mem, gen.strings[n].pos + 1,
                 gen.strings[n].pos + Len(gen.strings[n].string)) = gen.strings[n].string
      BY <1>2 DEF StringsInPlace
    <3>3. Meaning(i) = SubSeq(gen.mem, i.words[2] + 1, i.words[2] + i.words[1])
      BY <2>3 DEF Meaning, NameOps
    <3> QED  BY <3>1, <3>2, <3>3
  <2>4. CASE i.op = "ALLOC_REAL"  BY <1>4, <2>4 DEF Tells, Meaning, NameOps
  <2>5. CASE i.op \in NameOps
    <3>1. Called(gen, i.words[1], c.means)  BY <1>4, <2>5 DEF Tells, NameOps
    <3>2. Meaning(i) = NameOf(i.words[1])  BY <2>5 DEF Meaning, NameOps
    <3> QED  BY <3>1, <3>2, NumberedName
  <2>6. CASE i.op = "NAMED_PARAM"
    <3>1. Called(gen, i.words[1], c.means[1]) /\ c.means = <<c.means[1], i.words[2]>>
      BY <1>4, <2>6 DEF Tells, NameOps
    <3>2. Meaning(i) = <<NameOf(i.words[1]), i.words[2]>>  BY <2>6 DEF Meaning, NameOps
    <3>3. NameOf(i.words[1]) = c.means[1]  BY <3>1, NumberedName
    <3> QED  BY <3>1, <3>2, <3>3
  <2>7. CASE i.op \notin NameOps \cup {"RJMP", "RJMP_U4", "ALLOC_BUFFER_STATIC",
                                      "ALLOC_REAL", "NAMED_PARAM"}
    BY <1>4, <2>7 DEF Tells, Meaning, NameOps
  <2> QED  BY <2>1, <2>2, <2>3, <2>4, <2>5, <2>6, <2>7
<1> QED  BY <1>4, <1>5

\* Where the machine is, in the program's or the line's code or in an earlier body.
AtCell(f, T, P, a, i) ==
  /\ a \in Nat /\ a \in DOMAIN meant
  /\ meant[a].op = i.op /\ meant[a].means = Meaning(i)
  /\ i.op = f[a].op /\ i.next = f[a].next /\ i.next \in Nat /\ Meaning(i) = f[a].means
  /\ a \in T => Leads(f[a]) \subseteq T
  /\ a \in P => Leads(f[a]) \subseteq P
  /\ \A b \in T \cup P : b \in Nat

LEMMA AtCells ==
  ASSUME Sound("running", gen, <<>>), Whole(gen), StringsInPlace,
         NEW f, NEW T, NEW P, Ready(f, T, P, gen, meant), NEW a \in T \cup P,
         NEW i, i = Decode(gen.mem, a)
  PROVE  AtCell(f, T, P, a, i)
<1>1. Code(f, T, {}, P, gen, <<>>, meant) /\ Flows(f, T, {}) /\ FilledIn(f, T, gen)
  BY DEF Ready
<1>2. /\ Laid(f, T \cup {} \cup P, gen, <<>>) /\ Meant(f, T \cup {} \cup P, meant)
      /\ FilledIn(f, P, gen) /\ Flows(f, P, {})
  BY <1>1 DEF Code
<1>3. PICK S : S = T \cup {} \cup P /\ a \in S  OBVIOUS
<1>4. \A b \in S : b \in Nat /\ b \in DOMAIN f
  <2>1. IsWriter(gen)  BY SoundParts
  <2> QED  BY <1>2, <1>3, <2>1, CellsInFront
<1>5. PICK c : c = f[a]  OBVIOUS
<1>6. InPlace(a, c, gen, <<>>)  BY <1>2, <1>3, <1>5 DEF Laid
<1>7. (a \in T => Leads(c) \subseteq T) /\ (a \in P => Leads(c) \subseteq P)
  BY <1>1, <1>2, <1>5 DEF Flows
<1>8. c.op = "RJMP_U4" => Filled(gen, a, c) /\ c.means \in Int
  <2> SUFFICES ASSUME c.op = "RJMP_U4"  PROVE Filled(gen, a, c) /\ c.means \in Int
    OBVIOUS
  <2>1. Filled(gen, a, c)  BY <1>1, <1>2, <1>5 DEF FilledIn
  <2>2. Leads(c) = {c.means} \ {-1}  BY DEF Leads
  <2>3. c.means = -1 \/ c.means \in S  BY <1>3, <1>7, <2>2
  <2>4. c.means \in Int
    <3>1. CASE c.means = -1  BY <3>1
    <3>2. CASE c.means \in S
      <4>1. c.means \in Nat  BY <1>4, <3>2
      <4> QED  BY <4>1
    <3> QED  BY <2>3, <3>1, <3>2
  <2> QED  BY <2>1, <2>4
<1>9. Atoms(gen)  BY DEF Whole
<1>10. i.op = c.op /\ i.next = c.next /\ Meaning(i) = c.means
  BY <1>6, <1>8, <1>9, CellMeans
<1>11. a \in DOMAIN meant /\ meant[a].op = c.op /\ meant[a].means = c.means
  <2>1. a \in DOMAIN meant /\ meant[a] = [op |-> f[a].op, means |-> f[a].means]
    BY <1>2, <1>3 DEF Meant
  <2>2. meant[a] = [op |-> c.op, means |-> c.means]  BY <1>5, <2>1
  <2> QED  BY <2>1, <2>2
<1>12. c.next \in Nat  BY <1>6 DEF InPlace, Stands
<1> QED  BY <1>3, <1>4, <1>5, <1>7, <1>10, <1>11, <1>12 DEF AtCell

-----------------------------------------------------------------------------
(* The invariant of the code and the machine, in its phases. *)

\* P are the addresses of the bodies there are, which may still be called.
Placed(P) ==
  /\ phase = "reading" => Coded(gen, open, meant, P, vm.iptr)
  /\ phase = "printing" =>
       /\ Coded(WithoutHalt(gen), <<>>, meant, P, vm.iptr) /\ Bytes(Out(gen))
       /\ \E n : IsId(WithoutHalt(gen), "$$", n)
  /\ phase = "running" =>
       \E f, T : Ready(f, T, P, gen, meant) /\ OnItsWay(T, P, vm)
  /\ phase \in {"prompt", "over"} => \E f : Ready(f, {}, P, gen, meant)
  /\ phase \in {"prompt", "running", "over"} => Whole(gen)
  /\ phase # "reading" => open = <<>>

Counts ==
  /\ mode \in {"file", "repl"}
  /\ phase \in {"prompt", "reading", "printing", "running", "over"}
  /\ calls \in 0 .. MaxCalls[mode] /\ lines \in 0 .. MaxLines

CodeInv ==
  /\ SessionInv /\ Counts /\ IsMachine(vm)
  /\ \E P : vm.funcs \subseteq P /\ Placed(P)

LEMMA CountsInit == Init => Counts /\ IsMachine(vm)
<1> SUFFICES ASSUME Init  PROVE Counts /\ IsMachine(vm)  OBVIOUS
<1>1. Counts
  <2>1. MaxCalls[mode] \in Nat /\ MaxLines \in Nat  BY SessionAssumption DEF Init
  <2> QED  BY <2>1 DEF Init, Counts
<1>2. vm = [iptr |-> 0, rets |-> <<>>, funcs |-> {}, modules |-> {}]  BY DEF Init
<1>3. vm = [x \in MachineFields |-> vm[x]]  BY <1>2 DEF MachineFields
<1>4. vm.iptr = 0 /\ vm.rets = <<>>  BY <1>2
<1>5. Len(<<>>) <= MaxDepth /\ <<>> \in Seq(Nat)
  <2>1. MaxDepth \in Nat /\ Len(<<>>) = 0  BY SessionAssumption, Nothing
  <2> QED  BY <2>1
<1>6. vm.iptr \in Nat /\ vm.rets \in Seq(Nat) /\ Len(vm.rets) <= MaxDepth
  BY ONLY <1>4, <1>5
<1>7. IsMachine(vm)  BY <1>3, <1>6, Zenon DEF IsMachine
<1> QED  BY <1>1, <1>7

\* Nothing has been generated.
LEMMA NothingCoded ==
  ASSUME NEW f, NEW P, NEW g, NEW m, Sound("reading", g, <<>>), Whole(g),
         Ready(f, {}, P, g, m)
  PROVE  Coded(g, <<>>, m, P, g.pos)
<1>1. Code(f, {}, {}, P, g, <<>>, m)  BY DEF Ready
<1>2. Without(f, {}, {"HALT"})  BY DEF Without
<1>3. Flows(f, {}, TopEnd(<<>>, g.pos)) /\ Flows(f, {}, BodyEnd(<<>>, g.pos))
  BY DEF Flows
<1>4. Bodies(f, {}, {}, <<>>, g.pos)
  <2>1. DOMAIN <<>> = {}  OBVIOUS
  <2> QED  BY <2>1 DEF Bodies
<1>5. Reading(f, {}, {}, P, g, <<>>, m)  BY <1>1, <1>2, <1>3, <1>4 DEF Reading
<1>6. g.pos \in {} \cup TopEnd(<<>>, g.pos)  BY DEF TopEnd
<1> QED  BY <1>5, <1>6 DEF Coded, Whole

LEMMA NewReady ==
  ASSUME NEW f
  PROVE  /\ Ready(f, {}, {}, NewGenerator, <<>>) /\ Whole(NewGenerator)
         /\ NewGenerator.pos = 0
<1>1. PICK g, atoms : /\ atoms = Interned(InitialNames) /\ g = NewGenerator
                      /\ g = [mem |-> <<>>, buf |-> <<>>, pos |-> 0, atoms |-> atoms,
                              strings |-> <<>>, relocs |-> <<>>]
  BY DEF NewGenerator
<1>2. g.mem = <<>> /\ g.buf = <<>> /\ g.pos = 0 /\ g.atoms = atoms /\ g.relocs = <<>>
  BY <1>1
<1>3. Out(g) = <<>>
  <2>1. <<>> \o <<>> = <<>>  BY Nothing
  <2> QED  BY <1>2, <2>1 DEF Out
<1>4. Bytes(<<>>)
  <2>1. <<>> \in Seq(Byte)  OBVIOUS
  <2> QED  BY <2>1, BytesOf
<1>5. Atoms(g)
  <2>1. atoms = MachineAtoms  BY <1>1 DEF MachineAtoms
  <2>2. IsSeq(atoms) /\ IsInjective(atoms)  BY <2>1, MachineNames
  <2> QED  BY <1>2, <2>1, <2>2, Zenon DEF Atoms
<1>6. HolesApart(g, <<>>)
  <2>1. DOMAIN g.relocs = {} /\ DOMAIN <<>> = {}  BY <1>2
  <2> QED  BY <2>1 DEF HolesApart
<1>7. Code(f, {}, {}, {}, g, <<>>, <<>>)
  BY DEF Code, Laid, Meant, FilledIn, Flows, Starts, Without, Disjoint
<1>8. Ready(f, {}, {}, g, <<>>)  BY <1>7 DEF Ready, Flows, FilledIn
<1> QED  BY <1>1, <1>2, <1>3, <1>4, <1>5, <1>6, <1>8 DEF Whole

LEMMA CodeInit == Init => CodeInv
<1> SUFFICES ASSUME Init  PROVE CodeInv  OBVIOUS
<1>1. Counts /\ IsMachine(vm) /\ SessionInv  BY CountsInit, SessionInit
<1>2. /\ phase \in {"reading", "prompt"} /\ gen = NewGenerator /\ open = <<>>
      /\ meant = <<>> /\ vm.funcs = {} /\ vm.iptr = 0
  BY DEF Init
<1>3. PICK f : f = <<>>  OBVIOUS
<1>4. Ready(f, {}, {}, gen, meant) /\ Whole(gen) /\ gen.pos = 0  BY <1>2, NewReady
<1>5. Placed({})
  <2>1. CASE phase = "reading"
    <3>1. Sound("reading", gen, <<>>)  BY <1>1, <1>2, <2>1 DEF SessionInv
    <3>2. Coded(gen, <<>>, meant, {}, gen.pos)  BY <1>4, <3>1, NothingCoded
    <3>3. Coded(gen, open, meant, {}, vm.iptr)  BY <1>2, <1>4, <3>2
    <3> QED  BY <2>1, <3>3 DEF Placed
  <2>2. CASE phase = "prompt"  BY <1>2, <1>4, <2>2 DEF Placed
  <2> QED  BY <1>2, <2>1, <2>2
<1> QED  BY <1>1, <1>2, <1>5 DEF CodeInv

\* The code of the line is given up, or done with.
LEMMA ReadyLess ==
  ASSUME NEW f, NEW T, NEW P, NEW g, NEW m, Ready(f, T, P, g, m)
  PROVE  Ready(f, {}, P, g, m)
<1>1. Code(f, T, {}, P, g, <<>>, m)  BY DEF Ready
<1>2. Code(f, {}, {}, P, g, <<>>, m)
  <2>1. Laid(f, {} \cup {} \cup P, g, <<>>)  BY <1>1 DEF Code, Laid
  <2>2. Meant(f, {} \cup {} \cup P, m)  BY <1>1 DEF Code, Meant
  <2>3. Starts(f, {} \cup {}, {} \cup P) /\ Without(f, {}, {"RET", "MOD_RET"})
    BY DEF Starts, Without
  <2>4. Disjoint({}, {}, P)  BY DEF Disjoint
  <2> QED  BY <1>1, <2>1, <2>2, <2>3, <2>4 DEF Code
<1> QED  BY <1>2 DEF Ready, Flows, FilledIn

LEMMA GenerateStepCodes ==
  ASSUME CodeInv, Generate, Short(gen')
  PROVE  CodeInv'
<1>1. /\ phase = "reading" /\ phase' = phase /\ mode' = mode /\ vm' = vm
      /\ lines' = lines /\ calls < MaxCalls[mode] /\ calls' = calls + 1
  BY DEF Generate, GenPlain, GenCounted, GenNamed, GenParam, GenNumber, GenString,
         GenCModule, OpenBody, CloseBody, Generates
<1>2. PICK P : vm.funcs \subseteq P /\ Placed(P)  BY DEF CodeInv
<1>3. Coded(gen, open, meant, P, vm.iptr)  BY <1>1, <1>2 DEF Placed
<1>4. Coded(gen', open', meant', P, vm'.iptr)  BY <1>3, GenerateCodes
<1>5. Placed(P)'  BY <1>1, <1>4 DEF Placed
<1>6. SessionInv'  BY GenerateKeeps DEF CodeInv
<1>7. Counts'
  <2>1. MaxCalls[mode] \in Nat  BY SessionAssumption DEF CodeInv, Counts
  <2>2. calls + 1 \in 0 .. MaxCalls[mode]  BY <1>1, <2>1 DEF CodeInv, Counts
  <2> QED  BY <1>1, <2>2 DEF CodeInv, Counts
<1>8. IsMachine(vm)' /\ vm'.funcs \subseteq P  BY <1>1, <1>2 DEF CodeInv, IsMachine
<1> QED  BY <1>5, <1>6, <1>7, <1>8 DEF CodeInv

-----------------------------------------------------------------------------
(* The ends of reading keep it. *)

\* HALTs are written, and the buffer with them.
LEMMA HaltsWritten ==
  ASSUME NEW g, IsWriter(g), Buffers(g), NEW n \in Nat,
         NEW halts, halts = [k \in 1 .. n |-> HaltCode],
         NEW q, q = Flush(Put(g, halts))
  PROVE  Adds(g, q) /\ q.buf = <<>>
<1>1. HaltCode \in Byte  BY DEF HaltCode, Byte
<1>2. halts \in Seq(Byte)
  <2>1. halts \in [1 .. n -> Byte]  BY <1>1
  <2> QED  BY <2>1
<1>3. IsSeq(halts) /\ Bytes(halts)  BY <1>2, BytesOf
<1>4. PICK r : r = Put(g, halts)  OBVIOUS
<1>5. Wrote(g, r, halts)  BY <1>3, <1>4, PutWrites
<1>6. Wrote(r, q, <<>>) /\ q.buf = <<>> /\ q.pos = r.pos /\ Out(q) = Out(r)
  BY <1>4, <1>5, FlushWrites DEF Wrote
<1>7. Wrote(g, q, halts)
  <2>1. /\ q.pos = g.pos + Len(halts) /\ Out(q) = Out(g) \o halts
        /\ SameRest(g, q) /\ q.atoms = g.atoms /\ IsWriter(q)
    BY <1>5, <1>6 DEF Wrote, SameRest
  <2> QED  BY <2>1 DEF Wrote
<1>8. Buffers(q)  BY <1>6, Nothing, GeneratorAssumption DEF Buffers
<1> QED  BY <1>3, <1>6, <1>7, <1>8, AddsByWriting

LEMMA FailCodes ==
  ASSUME CodeInv, Fail
  PROVE  CodeInv'
<1>1. /\ phase = "reading" /\ phase' \in {"over", "prompt"} /\ open' = <<>>
      /\ mode' = mode /\ calls' = calls /\ lines' = lines /\ meant' = meant
  BY DEF Fail
<1>2. PICK P : vm.funcs \subseteq P /\ Placed(P)  BY DEF CodeInv
<1>3. Coded(gen, open, meant, P, vm.iptr)  BY <1>1, <1>2 DEF Placed
<1>4. IsWriter(gen) /\ Buffers(gen) /\ gen.pos \in Nat /\ Atoms(gen)
      /\ Sound("reading", gen, open)
  BY <1>3, CodedParts
<1>5. PICK n, halts :
        /\ n = 1 + Cardinality({k \in DOMAIN open : open[k].kind = "module"})
        /\ halts = [k \in 1 .. n |-> HaltCode] /\ gen' = Flush(Put(gen, halts))
        /\ vm' = [vm EXCEPT !.iptr = Len(gen'.mem)]
  BY DEF Fail
<1>6. n \in Nat
  <2>1. IsSeq(open)  BY <1>4, HolesInFront
  <2>2. Len(open) \in Nat /\ DOMAIN open = 1 .. Len(open)  BY <2>1, Domains
  <2>3. IsFiniteSet(DOMAIN open)  BY <2>2, FS_Interval
  <2> QED  BY <1>5, <2>3, FS_Subset, FS_CardinalityType
<1>7. PICK q : q = gen'  OBVIOUS
<1>8. Adds(gen, q) /\ q.buf = <<>>  BY <1>4, <1>5, <1>6, <1>7, HaltsWritten
<1>9. /\ IsWriter(q) /\ q.relocs = gen.relocs /\ q.atoms = gen.atoms /\ Bytes(Out(q))
      /\ gen.pos <= q.pos /\ q.pos \in Nat
  <2>1. Bytes(Out(gen))  BY <1>3 DEF Coded
  <2>2. gen.pos <= q.pos /\ q.pos \in Nat
    <3>1. 0 \in Nat  OBVIOUS
    <3> QED  BY <1>4, <1>8, <3>1, AddsAlike
  <2> QED  BY <1>8, <2>1, <2>2 DEF Adds, Grows, Extends, SameRest
<1>10. Whole(q)
  <2>1. HolesApart(q, open)  BY <1>3, <1>4, <1>9, HolesApartStays DEF Coded
  <2>2. HolesApart(q, <<>>)
    <3>1. DOMAIN <<>> = {}  OBVIOUS
    <3> QED  BY <2>1, <3>1 DEF HolesApart
  <2>3. Atoms(q)  BY <1>4, <1>9, AtomsStay
  <2> QED  BY <1>9, <2>2, <2>3 DEF Whole
<1>11. Carries(gen, q, open, <<>>) /\ Holes(q, <<>>) \subseteq Holes(gen, open)
  <2>1. Carries(gen, q, open, open) /\ Holes(q, open) = Holes(gen, open)
    BY <1>4, <1>8, AddsCarries
  <2>2. Holes(q, <<>>) \subseteq Holes(q, open)
    <3>1. DOMAIN <<>> = {}  OBVIOUS
    <3> QED  BY <3>1 DEF Holes
  <2> QED  BY <2>1, <2>2 DEF Carries
<1>12. PICK f, T, B : Code(f, T, B, P, gen, open, meant)
  <2>1. PICK f, T, B : Reading(f, T, B, P, gen, open, meant)  BY <1>3 DEF Coded
  <2> QED  BY <2>1 DEF Reading
<1>13. ASSUME NEW a \in P
       PROVE  /\ a \in DOMAIN f /\ InPlace(a, f[a], q, <<>>)
              /\ f[a].op = "RJMP_U4" => Filled(q, a, f[a])
  <2>1. a \in DOMAIN f /\ InPlace(a, f[a], gen, open)  BY <1>12 DEF Code, Laid
  <2>2. f[a].op = "RJMP_U4" => Filled(gen, a, f[a])  BY <1>12 DEF Code, FilledIn
  <2>3. CASE f[a].op = "RJMP_U4"  BY <1>11, <2>1, <2>2, <2>3, CarriesCell
  <2>4. CASE f[a].op # "RJMP_U4"
    <3>1. Stands(a, f[a], q) /\ \A p \in Holes(q, <<>>) : Clear(p, a, f[a])
      BY <1>11, <2>1, CarriesCell
    <3> QED  BY <2>1, <2>4, <3>1 DEF InPlace
  <2> QED  BY <2>3, <2>4
<1>14. Ready(f, {}, P, q, meant)
  <2>1. Laid(f, {} \cup {} \cup P, q, <<>>) /\ FilledIn(f, P, q)
    BY <1>13 DEF Laid, FilledIn
  <2>2. Meant(f, {} \cup {} \cup P, meant)  BY <1>12 DEF Code, Meant
  <2>3. Starts(f, {} \cup {}, {} \cup P) /\ Without(f, {}, {"RET", "MOD_RET"})
    BY DEF Starts, Without
  <2>4. Disjoint({}, {}, P)  BY DEF Disjoint
  <2>5. Flows(f, P, {}) /\ Starts(f, P, P)  BY <1>12 DEF Code
  <2>6. Without(f, {} \cup P, {"HALT"})  BY <1>12 DEF Code, Without
  <2>7. Code(f, {}, {}, P, q, <<>>, meant)
    BY <2>1, <2>2, <2>3, <2>4, <2>5, <2>6 DEF Code
  <2> QED  BY <2>7 DEF Ready, Flows, FilledIn
<1>15. Placed(P)'  BY <1>1, <1>7, <1>10, <1>14 DEF Placed
<1>16. IsMachine(vm)' /\ vm'.funcs = vm.funcs
  <2>1. Len(gen'.mem) \in Nat  BY <1>7, <1>9, Positions
  <2>2. PICK v : v = [vm EXCEPT !.iptr = Len(gen'.mem)]  OBVIOUS
  <2>3. IsMachine(v) /\ v.funcs = vm.funcs  BY <2>1, <2>2, MachineMoves DEF CodeInv
  <2> QED  BY <1>5, <2>2, <2>3 DEF IsMachine
<1>17. SessionInv' /\ Counts'  BY <1>1, FailKeeps DEF CodeInv, Counts
<1> QED  BY <1>2, <1>15, <1>16, <1>17 DEF CodeInv

\* The program, or the line, begins.
LEMMA Begins ==
  ASSUME NEW f, NEW T, NEW P, Ready(f, T, P, gen', meant'), Whole(gen'),
         IsMachine(vm), vm' = vm, vm.iptr \in T, vm.funcs \subseteq P,
         phase' = "running", open' = <<>>, SessionInv', Counts'
  PROVE  CodeInv'
<1>1. OnItsWay(T, P, vm)  BY Sets
<1>2. Placed(P)'  BY <1>1 DEF Placed
<1> QED  BY <1>2 DEF CodeInv, IsMachine

LEMMA EndProgramCodes ==
  ASSUME CodeInv, EndProgram, Short(gen')
  PROVE  CodeInv'
<1>1. PICK q : /\ q = Halted(gen) /\ gen' = FixedUp(q)
               /\ phase = "reading" /\ open = <<>> /\ phase' = "running"
               /\ meant' = Noted(meant, gen.pos, "HALT", <<>>)
               /\ mode' = mode /\ open' = open /\ vm' = vm /\ calls' = calls
               /\ lines' = lines
  BY DEF EndProgram
<1>2. PICK P : vm.funcs \subseteq P /\ Placed(P)  BY DEF CodeInv
<1>3. Coded(gen, <<>>, meant, P, vm.iptr)  BY <1>1, <1>2 DEF Placed
<1>4. /\ \E f, T, B : Finished(f, T, B, P, q, meant') /\ vm.iptr \in T
      /\ Patchable(q) /\ Bytes(Out(q)) /\ Atoms(q)
  BY <1>1, <1>3, CodedHalts
<1>5. PICK f, T, B : Finished(f, T, B, P, q, meant') /\ vm.iptr \in T  BY <1>4
<1>6. Short(q)
  <2>1. gen'.pos = q.pos /\ gen'.atoms = q.atoms  BY <1>1, <1>4, FixedUpBytes
  <2> QED  BY SMT, <2>1 DEF Short
<1>7. PICK r, Q : r = FixedUp(q) /\ Q = B \cup P  OBVIOUS
<1>8. Ready(f, T, Q, r, meant') /\ Whole(r)
  BY <1>4, <1>5, <1>6, <1>7, FixedUpReady
<1>9. SessionInv' /\ Counts'  BY <1>1, EndProgramKeeps DEF CodeInv, Counts
<1>10. r = gen' /\ vm.funcs \subseteq Q  BY <1>1, <1>2, <1>7
<1>11. IsMachine(vm)  BY DEF CodeInv
<1> QED  BY <1>1, <1>5, <1>8, <1>9, <1>10, <1>11, Begins

LEMMA NextLineCodes ==
  ASSUME CodeInv, NextLine
  PROVE  CodeInv'
<1>1. /\ phase = "prompt" /\ phase' = "reading" /\ lines < MaxLines
      /\ lines' = lines + 1 /\ vm' = [vm EXCEPT !.iptr = Len(gen.mem)]
      /\ gen' = [gen EXCEPT !.pos = Len(gen.mem)]
      /\ mode' = mode /\ open' = open /\ calls' = calls /\ meant' = meant
  BY DEF NextLine
<1>2. PICK P : vm.funcs \subseteq P /\ Placed(P)  BY DEF CodeInv
<1>3. open = <<>> /\ Whole(gen)  BY <1>1, <1>2 DEF Placed
<1>4. PICK f : Ready(f, {}, P, gen, meant)  BY <1>1, <1>2 DEF Placed
<1>5. Sound("prompt", gen, <<>>)  BY <1>1, <1>3 DEF CodeInv, SessionInv
<1>6. IsWriter(gen) /\ gen.buf = <<>> /\ gen.pos \in Nat  BY <1>5, SoundParts
<1>7. PICK mem, pos : mem = gen.mem /\ pos = gen.pos  OBVIOUS
<1>8. pos = Len(mem)
  <2>1. pos = Len(mem) + Len(<<>>) /\ IsSeq(mem)
    BY <1>6, <1>7, Zenon DEF IsWriter
  <2>2. Len(<<>>) = 0 /\ Len(mem) \in Nat  BY <2>1, Nothing, Domains
  <2> QED  BY <2>1, <2>2
<1>9. gen' = gen
  <2>1. gen = [x \in Fields |-> gen[x]]  BY <1>6 DEF IsWriter
  <2> QED  BY <1>1, <1>7, <1>8, <2>1 DEF Fields
<1>10. SessionInv'  BY NextLineKeeps DEF CodeInv
<1>11. Sound("reading", gen, <<>>)  BY <1>1, <1>3, <1>9, <1>10 DEF SessionInv
<1>12. Coded(gen, <<>>, meant, P, pos)  BY <1>3, <1>4, <1>7, <1>11, NothingCoded
<1>13. IsMachine(vm)' /\ vm'.funcs = vm.funcs /\ vm'.iptr = pos
  <2>1. PICK v : v = [vm EXCEPT !.iptr = pos]  OBVIOUS
  <2>2. IsMachine(v) /\ v.funcs = vm.funcs /\ v.iptr = pos
    BY <1>6, <1>7, <2>1, MachineMoves DEF CodeInv
  <2> QED  BY <1>1, <1>7, <1>8, <2>1, <2>2 DEF IsMachine
<1>14. Placed(P)'  BY <1>1, <1>3, <1>9, <1>12, <1>13 DEF Placed
<1>15. Counts'
  <2>1. MaxLines \in Nat  BY SessionAssumption
  <2>2. lines + 1 \in 0 .. MaxLines  BY <1>1, <2>1 DEF CodeInv, Counts
  <2> QED  BY <1>1, <2>2 DEF CodeInv, Counts
<1> QED  BY <1>2, <1>10, <1>13, <1>14, <1>15 DEF CodeInv

\* A HALT that is taken back.
LEMMA HaltTakenBack ==
  ASSUME NEW g, IsWriter(g), Buffers(g), NEW h, h = Halted(g), NEW q, q = WithoutHalt(h)
  PROVE  Widens(g, q) /\ q.atoms = g.atoms /\ h.atoms = g.atoms
<1>1. PICK r, bytes : bytes = <<HaltCode>> /\ r = Put(g, bytes)  OBVIOUS
<1>2. IsSeq(bytes) /\ Len(bytes) = 1  BY <1>1, Pairs
<1>3. Wrote(g, r, bytes)  BY <1>1, <1>2, PutWrites
<1>4. h = Flush(r)  BY <1>1 DEF Halted, Instruction, CodeOf
<1>5. IsWriter(r)  BY <1>3 DEF Wrote
<1>6. /\ Wrote(r, h, <<>>) /\ h.buf = <<>> /\ h.mem = Out(r)
  BY <1>4, <1>5, FlushWrites
<1>7. h.strings = g.strings /\ h.relocs = g.relocs /\ h.atoms = g.atoms /\ IsWriter(h)
  BY <1>3, <1>6 DEF Wrote, SameRest
<1>8. PICK mem, out, n : mem = h.mem /\ out = Out(g) /\ n = g.pos  OBVIOUS
<1>9. IsSeq(out) /\ Len(out) = n /\ n \in Nat  BY <1>8, Positions
<1>10. IsSeq(mem) /\ Len(mem) = n + 1 /\ \A k \in 1 .. n : mem[k] = out[k]
  <2>1. mem = out \o bytes  BY <1>3, <1>6, <1>8 DEF Wrote
  <2>2. /\ IsSeq(out \o bytes) /\ Len(out \o bytes) = n + Len(bytes)
        /\ Continues(out \o bytes, g, bytes)
    BY <1>2, <1>8, OutThen
  <2> QED  BY <1>2, <1>8, <2>1, <2>2 DEF Continues
<1>11. Front(mem) = out
  <2>1. Front(mem) = SubSeq(mem, 1, n)
    <3>1. (n + 1) - 1 = n  BY <1>9
    <3> QED  BY <1>10, <3>1 DEF Front
  <2>2. SubSeq(mem, 0 + 1, 0 + Len(out)) = out
    <3>1. 0 + Len(out) <= Len(mem)  BY <1>9, <1>10
    <3>2. \A k \in 1 .. Len(out) : mem[0 + k] = out[k]  BY <1>9, <1>10
    <3> QED  BY <1>9, <1>10, <3>1, <3>2, SamePart
  <2>3. 0 + 1 = 1 /\ 0 + Len(out) = n  BY <1>9
  <2> QED  BY <2>1, <2>2, <2>3
<1>12. q = [h EXCEPT !.mem = out, !.pos = n]
  <2>1. h = [x \in Fields |-> h[x]]  BY <1>7 DEF IsWriter
  <2>2. Len(h.mem) - 1 = n  BY <1>8, <1>9, <1>10
  <2> QED  BY <1>8, <1>11, <2>1, <2>2 DEF WithoutHalt, Fields
<1>13. /\ q.mem = out /\ q.buf = <<>> /\ q.pos = n /\ q.strings = g.strings
       /\ q.relocs = g.relocs /\ q.atoms = g.atoms
  <2>1. h = [x \in Fields |-> h[x]]  BY <1>7 DEF IsWriter
  <2> QED  BY <1>6, <1>7, <1>12, <2>1 DEF Fields
<1>14. Out(q) = out
  <2>1. out \o <<>> = out  BY <1>9, Nothing
  <2> QED  BY <1>13, <2>1 DEF Out
<1> QED  BY <1>7, <1>8, <1>13, <1>14 DEF Widens

LEMMA DiscardIsPlain ==
  /\ "DISCARD" \in Operation /\ Words("DISCARD") = 0 /\ Fixed("DISCARD") = 0
  /\ "DISCARD" \notin Structural /\ "DISCARD" \notin Literal
<1>1. "DISCARD" \in Operation  BY DEF Operation, Opcodes, ToSet
<1>2. Words("DISCARD") = 0 /\ Fixed("DISCARD") = 0  BY DEF Words, Plain, Fixed
<1>3. "DISCARD" \notin Structural  BY DEF Structural, Starting
<1>4. "DISCARD" \notin Literal  BY DEF Literal, NameOps
<1> QED  BY <1>1, <1>2, <1>3, <1>4

LEMMA CallIsCounted ==
  /\ "FUNC_CALL" \in Operation /\ Words("FUNC_CALL") = 1
  /\ "FUNC_CALL" \notin Structural /\ "FUNC_CALL" \notin Literal /\ 1 \in Operand
<1>1. "FUNC_CALL" \in Operation  BY DEF Operation, Opcodes, ToSet
<1>2. Words("FUNC_CALL") = 1  BY DEF Words, Plain
<1>3. "FUNC_CALL" \notin Structural  BY DEF Structural, Starting
<1>4. "FUNC_CALL" \notin Literal  BY DEF Literal, NameOps
<1>5. 1 \in Operand  BY SMT DEF Operand
<1> QED  BY <1>1, <1>2, <1>3, <1>4, <1>5

LEMMA SetsAndLookups ==
  "STACK_FRAME_SET" \in NameOps /\ "STACK_FRAME_LOOKUP" \in NameOps
BY DEF NameOps

LEMMA Instruction1Atoms ==
  ASSUME NEW g, IsWriter(g), Buffers(g), NEW op, NEW w, NEW q, q = Instruction1(g, op, w)
  PROVE  q.atoms = g.atoms /\ IsWriter(q) /\ Buffers(q)
BY InstructionAtoms, Instruction1Grows

LEMMA EndLineCodes ==
  ASSUME CodeInv, EndLine, Short(gen')
  PROVE  CodeInv'
<1>1. PICK g, n, set, discard, history :
        /\ g = Named(gen, "$$") /\ n = Id(g, "$$")
        /\ set = Instruction1(g, "STACK_FRAME_SET", n)
        /\ discard = Instruction(set, "DISCARD")
        /\ history = Noted(Noted(meant, gen.pos, "STACK_FRAME_SET", Name("$$")),
                           set.pos, "DISCARD", <<>>)
        /\ gen' = Halted(discard)
        /\ meant' = Noted(history, discard.pos, "HALT", <<>>)
  BY DEF EndLine
<1>2. /\ phase = "reading" /\ phase' = "printing" /\ open = <<>> /\ open' = open
      /\ mode' = mode /\ vm' = vm /\ calls' = calls /\ lines' = lines
  BY DEF EndLine
<1>3. PICK P : vm.funcs \subseteq P /\ Placed(P)  BY DEF CodeInv
<1>4. Coded(gen, <<>>, meant, P, vm.iptr)  BY <1>2, <1>3 DEF Placed
<1>5. Coded(g, <<>>, meant, P, vm.iptr) /\ g.pos = gen.pos /\ IsId(g, "$$", n) /\ Atoms(g)
  BY <1>1, <1>4, NameCodes
<1>6. IsWriter(g) /\ Buffers(g)  BY <1>5, CodedParts
<1>7. set.atoms = g.atoms /\ IsWriter(set) /\ Buffers(set)
  BY <1>1, <1>6, InstructionAtoms, Instruction1Grows
<1>8. discard.atoms = g.atoms /\ IsWriter(discard) /\ Buffers(discard)
  BY <1>1, <1>7, InstructionAtoms, InstructionGrows
<1>9. PICK h, q : h = Halted(discard) /\ q = WithoutHalt(h)  OBVIOUS
<1>10. Widens(discard, q) /\ q.atoms = g.atoms /\ h.atoms = g.atoms
  BY <1>8, <1>9, HaltTakenBack
<1>11. n \in Operand
  <2>1. Short(h)  BY <1>1, <1>9
  <2> QED  BY <1>5, <1>10, <2>1, IdOperand
<1>12. Coded(set, <<>>, Noted(meant, gen.pos, "STACK_FRAME_SET", Name("$$")), P, vm.iptr)
  <2>1. Coded(set, <<>>, Noted(meant, g.pos, "STACK_FRAME_SET", Name("$$")), P, vm.iptr)
    BY <1>1, <1>5, <1>11, SetsAndLookups, CodedNamed
  <2> QED  BY <1>5, <2>1
<1>13. Coded(discard, <<>>, history, P, vm.iptr)
  BY <1>1, <1>12, DiscardIsPlain, CodedPlain
<1>14. Sound("reading", discard, <<>>) /\ Atoms(discard)  BY <1>13, CodedParts
<1>15. Sound("printing", h, <<>>)  BY <1>9, <1>14, HaltedSound
<1>16. Sound("reading", q, <<>>)  BY <1>9, <1>15, WithoutHaltSound
<1>17. Atoms(q)  BY <1>8, <1>10, <1>14, AtomsStay
<1>18. Coded(q, <<>>, history, P, vm.iptr)  BY <1>10, <1>13, <1>16, <1>17, CodedWidens
<1>19. Coded(q, <<>>, meant', P, vm.iptr)
  <2>1. q.pos = discard.pos  BY <1>10 DEF Widens
  <2>2. Coded(q, <<>>, Noted(history, q.pos, "HALT", <<>>), P, vm.iptr)
    BY <1>18, CodedNotes
  <2> QED  BY <1>1, <2>1, <2>2
<1>20. Bytes(Out(h))  BY <1>9, <1>13, CodedHalts
<1>21. IsId(q, "$$", n)  BY <1>5, <1>10 DEF IsId
<1>22. h = gen' /\ q = WithoutHalt(gen')  BY <1>1, <1>9
<1>23. Placed(P)'  BY <1>2, <1>19, <1>20, <1>21, <1>22 DEF Placed
<1>24. SessionInv' /\ Counts'  BY <1>2, EndLineKeeps DEF CodeInv, Counts
<1>25. IsMachine(vm)' /\ vm'.funcs \subseteq P  BY <1>2, <1>3 DEF CodeInv, IsMachine
<1> QED  BY <1>23, <1>24, <1>25 DEF CodeInv

LEMMA PrintLineCodes ==
  ASSUME CodeInv, PrintLine, Short(gen')
  PROVE  CodeInv'
<1>1. PICK g : g = WithoutHalt(gen) /\ PrintFrom(g)  BY DEF PrintLine
<1>2. PICK k, n : k = Id(g, "print") /\ n = Id(g, "$$")  OBVIOUS
<1>3. PICK print, arg, call, discard, all :
        /\ print = Instruction1(g, "STACK_FRAME_LOOKUP", k)
        /\ arg = Instruction1(print, "STACK_FRAME_LOOKUP", n)
        /\ call = Instruction1(arg, "FUNC_CALL", 1)
        /\ discard = Instruction(call, "DISCARD")
        /\ all = Halted(discard)
  OBVIOUS
<1>4. PICK called, history :
        /\ called = Noted(Noted(meant, g.pos, "STACK_FRAME_LOOKUP", Name("print")),
                          print.pos, "STACK_FRAME_LOOKUP", Name("$$"))
        /\ history = Noted(Noted(called, arg.pos, "FUNC_CALL", <<1>>),
                           call.pos, "DISCARD", <<>>)
  OBVIOUS
<1>5. /\ gen' = [FixedUp(all) EXCEPT !.relocs = <<>>]
      /\ meant' = Noted(history, discard.pos, "HALT", <<>>)
  BY <1>1, <1>2, <1>3, <1>4 DEF PrintFrom
<1>6. /\ phase = "printing" /\ phase' = "running" /\ open' = open
      /\ mode' = mode /\ vm' = vm /\ calls' = calls /\ lines' = lines
  BY DEF PrintLine
<1>7. PICK P : vm.funcs \subseteq P /\ Placed(P)  BY DEF CodeInv
<1>8. Coded(g, <<>>, meant, P, vm.iptr) /\ open = <<>> /\ \E x : IsId(g, "$$", x)
  BY <1>1, <1>6, <1>7 DEF Placed
<1>9. IsWriter(g) /\ Buffers(g) /\ Atoms(g)  BY <1>8, CodedParts
<1>10. IsId(g, "print", k) /\ IsId(g, "$$", n)
  <2>1. IsId(g, "print", k)  BY <1>2, <1>9, KnowsMachines
  <2>2. IsId(g, "$$", n)  BY <1>2, <1>8, KnownId DEF IsId
  <2> QED  BY <2>1, <2>2
<1>11. print.atoms = g.atoms /\ IsWriter(print) /\ Buffers(print)
  BY <1>3, <1>9, Instruction1Atoms
<1>12. arg.atoms = g.atoms /\ IsWriter(arg) /\ Buffers(arg)
  BY <1>3, <1>11, Instruction1Atoms
<1>13. call.atoms = g.atoms /\ IsWriter(call) /\ Buffers(call)
  BY <1>3, <1>12, Instruction1Atoms
<1>14. discard.atoms = g.atoms /\ IsWriter(discard) /\ Buffers(discard)
  BY <1>3, <1>13, InstructionAtoms, InstructionGrows
<1>15. all.atoms = g.atoms
  BY <1>3, <1>14, HaltedReads DEF Adds
<1>16. PICK r : r = FixedUp(all)  OBVIOUS
<1>17. Short(all)
  <2>1. IsWriter(all)  BY <1>3, <1>14, HaltedReads DEF Adds
  <2>2. all = [x \in Fields |-> all[x]]  BY <2>1 DEF IsWriter
  <2>3. PICK mem : r = [all EXCEPT !.mem = mem]  BY <1>16 DEF FixedUp
  <2>4. gen' = [r EXCEPT !.relocs = <<>>]  BY <1>5, <1>16
  <2>5. gen'.pos = all.pos /\ gen'.atoms = all.atoms  BY <2>2, <2>3, <2>4 DEF Fields
  <2> QED  BY SMT, <2>5 DEF Short
<1>18. k \in Operand /\ n \in Operand  BY <1>9, <1>10, <1>15, <1>17, IdOperand
<1>19. Coded(print, <<>>, Noted(meant, g.pos, "STACK_FRAME_LOOKUP", Name("print")),
             P, vm.iptr)
  BY <1>3, <1>8, <1>10, <1>18, SetsAndLookups, CodedNamed
<1>20. Coded(arg, <<>>, called, P, vm.iptr)
  <2>1. IsId(print, "$$", n)  BY <1>10, <1>11 DEF IsId
  <2> QED  BY <1>3, <1>4, <1>18, <1>19, <2>1, SetsAndLookups, CodedNamed
<1>21. Coded(call, <<>>, Noted(called, arg.pos, "FUNC_CALL", <<1>>), P, vm.iptr)
  BY <1>3, <1>20, CallIsCounted, CodedCounted
<1>22. Coded(discard, <<>>, history, P, vm.iptr)
  BY <1>3, <1>4, <1>21, DiscardIsPlain, CodedPlain
<1>23. /\ \E f, T, B : Finished(f, T, B, P, all, meant') /\ vm.iptr \in T
       /\ Patchable(all) /\ Bytes(Out(all)) /\ Atoms(all)
  BY <1>3, <1>5, <1>22, CodedHalts
<1>24. PICK f, T, B : Finished(f, T, B, P, all, meant') /\ vm.iptr \in T  BY <1>23
<1>25. PICK Q : Q = B \cup P  OBVIOUS
<1>26. Ready(f, T, Q, r, meant') /\ Whole(r)
  BY <1>16, <1>17, <1>23, <1>24, <1>25, FixedUpReady
<1>27. Sound("running", r, <<>>)
  <2>1. Sound("reading", discard, <<>>)  BY <1>22, CodedParts
  <2> QED  BY <1>3, <1>16, <2>1, HaltedSound
<1>28. PICK q : q = [r EXCEPT !.relocs = <<>>]  OBVIOUS
<1>29. Ready(f, T, Q, q, meant') /\ Whole(q)  BY <1>26, <1>27, <1>28, ClearedReady
<1>30. q = gen' /\ vm.funcs \subseteq Q  BY <1>5, <1>7, <1>16, <1>25, <1>28
<1>31. SessionInv' /\ Counts'  BY <1>6, PrintLineKeeps DEF CodeInv, Counts
<1>32. IsMachine(vm)  BY DEF CodeInv
<1> QED  BY <1>6, <1>8, <1>24, <1>29, <1>30, <1>31, <1>32, Begins

-----------------------------------------------------------------------------
(* The machine's steps keep it. *)

\* The machine, running.
Runs(f, T, P) ==
  /\ Ready(f, T, P, gen, meant) /\ OnItsWay(T, P, vm) /\ vm.funcs \subseteq P
  /\ open = <<>> /\ Whole(gen) /\ IsMachine(vm) /\ phase = "running"
  /\ AtCell(f, T, P, vm.iptr, Instr) /\ vm.iptr \in T \cup P

LEMMA CodeRuns ==
  ASSUME CodeInv, phase = "running"
  PROVE  \E f, T, P : Runs(f, T, P)
<1>1. PICK P : vm.funcs \subseteq P /\ Placed(P)  BY DEF CodeInv
<1>2. PICK f, T : Ready(f, T, P, gen, meant) /\ OnItsWay(T, P, vm)  BY <1>1 DEF Placed
<1>3. open = <<>> /\ Whole(gen)  BY <1>1 DEF Placed
<1>4. Sound("running", gen, <<>>)  BY <1>3 DEF CodeInv, SessionInv
<1>5. StringsInPlace  BY StringsStay DEF CodeInv
<1>6. vm.iptr \in T \cup P  BY <1>2 DEF OnItsWay, Where
<1>7. AtCell(f, T, P, vm.iptr, Instr)
  BY <1>2, <1>3, <1>4, <1>5, <1>6, AtCells DEF Instr
<1>8. IsMachine(vm)  BY DEF CodeInv
<1> QED  BY <1>1, <1>2, <1>3, <1>6, <1>7, <1>8 DEF Runs

\* The machine has gone to another cell.
LEMMA RunsOn ==
  ASSUME CodeInv, NEW f, NEW T, NEW P, Runs(f, T, P),
         UNCHANGED <<mode, phase, gen, open, calls, lines, meant>>,
         OnItsWay(T, P, vm'), IsMachine(vm'), vm'.funcs \subseteq P
  PROVE  CodeInv'
<1>1. Placed(P)'  BY DEF Runs, Placed
<1>2. SessionInv' /\ Counts' /\ IsMachine(vm)'
  BY DEF CodeInv, SessionInv, Counts, IsMachine
<1> QED  BY <1>1, <1>2 DEF CodeInv

\* Or it has stopped.
LEMMA Stops ==
  ASSUME CodeInv, NEW f, NEW T, NEW P, Runs(f, T, P),
         UNCHANGED <<mode, gen, open, calls, lines, meant>>, phase' = Ends,
         IsMachine(vm'), vm'.funcs \subseteq P
  PROVE  CodeInv'
<1>1. phase' \in {"over", "prompt"}  BY DEF Ends
<1>2. Ready(f, {}, P, gen, meant) /\ Whole(gen) /\ open = <<>>  BY ReadyLess DEF Runs
<1>3. Placed(P)'  BY <1>1, <1>2 DEF Placed
<1>4. Counts' /\ IsMachine(vm)'  BY <1>1 DEF CodeInv, Counts, IsMachine
<1>5. SessionInv'
  <2>1. Sound("running", gen, open)  BY DEF CodeInv, SessionInv, Runs
  <2> QED  BY <1>1, <2>1 DEF SessionInv, Sound, Limit
<1> QED  BY <1>3, <1>4, <1>5 DEF CodeInv

\* Behind the instruction.
LEMMA NextCell ==
  ASSUME NEW f, NEW T, NEW P, Runs(f, T, P),
         Instr.op \notin {"RJMP", "RJMP_U4", "HALT", "RET", "MOD_RET"}
  PROVE  /\ Instr.next \in Nat
         /\ vm.iptr \in T => Instr.next \in T
         /\ vm.iptr \in P => Instr.next \in P
<1>1. AtCell(f, T, P, vm.iptr, Instr)  BY DEF Runs
<1>2. Leads(f[vm.iptr]) = {Instr.next}  BY <1>1 DEF AtCell, Leads
<1> QED  BY <1>1, <1>2 DEF AtCell

LEMMA JumpCodes ==
  ASSUME CodeInv, Jump
  PROVE  CodeInv'
<1>1. /\ phase = "running" /\ Instr.op \in {"RJMP", "RJMP_U4"}
      /\ vm' = [vm EXCEPT !.iptr = Meaning(Instr)]
      /\ UNCHANGED <<mode, phase, gen, open, calls, lines, meant>>
  BY DEF Jump, Running, Goes
<1>2. PICK f, T, P : Runs(f, T, P)  BY <1>1, CodeRuns
<1>3. AtCell(f, T, P, vm.iptr, Instr) /\ vm.iptr \in T \cup P  BY <1>2 DEF Runs
<1>4. PICK a, c : a = Meaning(Instr) /\ c = f[vm.iptr]  OBVIOUS
<1>5. c.op = Instr.op /\ c.means = a  BY <1>3, <1>4 DEF AtCell
<1>6. a # -1
  <2>1. /\ vm.iptr \in T \cup P /\ Ready(f, T, P, gen, meant)
    BY <1>2 DEF Runs
  <2>2. c.op = "RJMP_U4" => Filled(gen, vm.iptr, c)
    BY <1>4, <2>1 DEF Ready, Code, FilledIn
  <2>3. c.op = "RJMP_U4" => c.means - c.next \in Nat  BY <2>2 DEF Filled
  <2>4. c.next \in Nat  BY <1>3, <1>4 DEF AtCell
  <2>5. CASE c.op = "RJMP_U4"  BY <1>5, <2>3, <2>4, <2>5
  <2>6. CASE c.op = "RJMP"  
    <3>1. Leads(c) = {a}  BY <1>5, <2>6 DEF Leads
    <3>2. a \in T \cup P  BY <1>3, <1>4, <3>1 DEF AtCell
    <3>3. a \in Nat  BY <1>3, <3>2 DEF AtCell
    <3> QED  BY <3>3
  <2> QED  BY <1>1, <1>5, <2>5, <2>6
<1>7. Leads(c) = {a}  BY <1>1, <1>5, <1>6 DEF Leads
<1>8. (vm.iptr \in T => a \in T) /\ (vm.iptr \in P => a \in P)
  BY <1>3, <1>4, <1>7 DEF AtCell
<1>9. a \in Nat  BY <1>3, <1>8 DEF AtCell
<1>10. IsMachine(vm) /\ OnItsWay(T, P, vm) /\ vm.funcs \subseteq P  BY <1>2 DEF Runs
<1>11. PICK w : w = [vm EXCEPT !.iptr = a]  OBVIOUS
<1>12. OnItsWay(T, P, w) /\ IsMachine(w) /\ w.funcs = vm.funcs
  BY <1>8, <1>9, <1>10, <1>11, GoesAlong
<1>13. vm' = w  BY <1>1, <1>4, <1>11
<1> QED  BY <1>1, <1>2, <1>10, <1>12, <1>13, RunsOn

\* On to the next instruction.
LEMMA GoesNext ==
  ASSUME CodeInv, phase = "running", Goes([vm EXCEPT !.iptr = Instr.next]),
         Instr.op \notin {"RJMP", "RJMP_U4", "HALT", "RET", "MOD_RET"}
  PROVE  CodeInv'
<1>1. PICK f, T, P : Runs(f, T, P)  BY CodeRuns
<1>2. PICK a : a = Instr.next  OBVIOUS
<1>3. a \in Nat /\ (vm.iptr \in T => a \in T) /\ (vm.iptr \in P => a \in P)
  BY <1>1, <1>2, NextCell
<1>4. IsMachine(vm) /\ OnItsWay(T, P, vm) /\ vm.funcs \subseteq P  BY <1>1 DEF Runs
<1>5. PICK w : w = [vm EXCEPT !.iptr = a]  OBVIOUS
<1>6. OnItsWay(T, P, w) /\ IsMachine(w) /\ w.funcs = vm.funcs
  BY <1>3, <1>4, <1>5, GoesAlong
<1>7. vm' = w /\ UNCHANGED <<mode, phase, gen, open, calls, lines, meant>>
  BY <1>2, <1>5 DEF Goes
<1> QED  BY <1>1, <1>4, <1>6, <1>7, RunsOn

\* What ALLOC_FUNCTION and LOAD_MODULE name is a body.
LEMMA StartsBody ==
  ASSUME NEW f, NEW T, NEW P, Runs(f, T, P), Instr.op \in Starting
  PROVE  Instr.words[1] \in P /\ Instr.words[1] \in Nat
<1>1. AtCell(f, T, P, vm.iptr, Instr) /\ vm.iptr \in T \cup P
      /\ Ready(f, T, P, gen, meant)
  BY DEF Runs
<1>2. f[vm.iptr].op = Instr.op /\ f[vm.iptr].means = Meaning(Instr)  BY <1>1 DEF AtCell
<1>3. Meaning(Instr) = Instr.words
  <2>1. Instr.op \notin NameOps /\ Instr.op \notin {"RJMP", "RJMP_U4", "NAMED_PARAM",
                                                   "ALLOC_BUFFER_STATIC", "ALLOC_REAL"}
    BY DEF Starting, NameOps
  <2> QED  BY <2>1 DEF Meaning
<1>4. Starts(f, P, P) /\ Starts(f, T \cup {}, {} \cup P)  BY <1>1 DEF Ready, Code
<1>5. f[vm.iptr].means[1] \in P  BY <1>1, <1>2, <1>4 DEF Starts
<1>6. Instr.words[1] \in P  BY <1>2, <1>3, <1>5
<1> QED  BY <1>1, <1>6 DEF AtCell

LEMMA AllocFunctionCodes ==
  ASSUME CodeInv, AllocFunction
  PROVE  CodeInv'
<1>1. /\ phase = "running" /\ Instr.op = "ALLOC_FUNCTION"
      /\ vm' = [vm EXCEPT !.iptr = Instr.next, !.funcs = @ \cup {Instr.words[1]}]
      /\ UNCHANGED <<mode, phase, gen, open, calls, lines, meant>>
  BY DEF AllocFunction, Running, Goes
<1>2. PICK f, T, P : Runs(f, T, P)  BY <1>1, CodeRuns
<1>3. PICK a, b : a = Instr.next /\ b = Instr.words[1]  OBVIOUS
<1>4. a \in Nat /\ (vm.iptr \in T => a \in T) /\ (vm.iptr \in P => a \in P)
  BY <1>1, <1>2, <1>3, NextCell
<1>5. b \in P  BY <1>1, <1>2, <1>3, StartsBody DEF Starting
<1>6. IsMachine(vm) /\ OnItsWay(T, P, vm) /\ vm.funcs \subseteq P  BY <1>2 DEF Runs
<1>7. PICK v, w : v = [vm EXCEPT !.iptr = a] /\ w = vm'  OBVIOUS
<1>8. OnItsWay(T, P, v) /\ IsMachine(v)  BY <1>4, <1>6, <1>7, GoesAlong
<1>9. /\ w = [x \in MachineFields |-> w[x]] /\ w.iptr = v.iptr /\ w.rets = v.rets
      /\ w.funcs = vm.funcs \cup {b}
  <2>1. vm = [x \in MachineFields |-> vm[x]]  BY <1>6 DEF IsMachine
  <2>2. PICK F : F = vm.funcs \cup {b}  OBVIOUS
  <2>3. w = [vm EXCEPT !.iptr = a, !.funcs = F]  BY <1>1, <1>3, <1>7, <2>1, <2>2
  <2> QED  BY <1>7, <2>1, <2>2, <2>3 DEF MachineFields
<1>10. OnItsWay(T, P, w)  BY <1>8, <1>9 DEF OnItsWay
<1>11. IsMachine(w)  BY <1>8, <1>9 DEF IsMachine
<1>12. w.funcs \subseteq P  BY <1>5, <1>6, <1>9
<1> QED  BY <1>1, <1>2, <1>7, <1>10, <1>11, <1>12, RunsOn

\* Into a body.
LEMMA Enters ==
  ASSUME NEW f, NEW T, NEW P, Runs(f, T, P), NEW pos \in P,
         Len(vm.rets) < MaxDepth,
         Instr.op \notin {"RJMP", "RJMP_U4", "HALT", "RET", "MOD_RET"},
         NEW w, w = Enter(Instr, pos)
  PROVE  OnItsWay(T, P, w) /\ IsMachine(w) /\ w.funcs = vm.funcs
<1>1. PICK b : b = Instr.next  OBVIOUS
<1>2. b \in Nat /\ (vm.iptr \in T => b \in T) /\ (vm.iptr \in P => b \in P)
  BY <1>1, NextCell
<1>3. IsMachine(vm) /\ OnItsWay(T, P, vm)  BY DEF Runs
<1>4. pos \in Nat  BY DEF Runs, AtCell
<1>5. w = [vm EXCEPT !.rets = Append(vm.rets, b), !.iptr = pos]  BY <1>1 DEF Enter
<1>6. pos \in P /\ Len(vm.rets) < MaxDepth  OBVIOUS
<1>7. PICK s : s = Append(vm.rets, b)  OBVIOUS
<1>8. vm = [x \in MachineFields |-> vm[x]]  BY <1>3 DEF IsMachine
<1>9. w = [vm EXCEPT !.rets = s, !.iptr = pos]  BY <1>5, <1>7
<1>10. w = [x \in MachineFields |-> w[x]]  BY <1>8, <1>9 DEF MachineFields
<1>11. w.iptr = pos /\ w.rets = s /\ w.funcs = vm.funcs  BY <1>8, <1>9 DEF MachineFields
<1>12. Entered(T, P, vm, w, pos, b)  BY <1>2, <1>3, <1>4, <1>6, <1>7, <1>10, <1>11 DEF Entered
<1>13. OnItsWay(T, P, w) /\ IsMachine(w)  BY <1>12, GoesIn
<1> QED  BY <1>11, <1>13

LEMMA CallCodes ==
  ASSUME CodeInv, Call
  PROVE  CodeInv'
<1>1. phase = "running" /\ Instr.op \in {"FUNC_CALL", "FUNC_CALL_INFIX"}
  BY DEF Call, Running
<1>2. Instr.op \notin {"RJMP", "RJMP_U4", "HALT", "RET", "MOD_RET"}  BY <1>1
<1>3. CASE Goes([vm EXCEPT !.iptr = Instr.next])  BY <1>1, <1>2, <1>3, GoesNext
<1>4. CASE /\ Len(vm.rets) < MaxDepth
           /\ \E pos \in vm.funcs : Goes(Enter(Instr, pos))
  <2>1. PICK pos \in vm.funcs : Goes(Enter(Instr, pos))  BY <1>4
  <2>2. PICK f, T, P : Runs(f, T, P)  BY <1>1, CodeRuns
  <2>3. pos \in P /\ vm.funcs \subseteq P  BY <2>2 DEF Runs
  <2>4. PICK w : w = Enter(Instr, pos)  OBVIOUS
  <2>5. OnItsWay(T, P, w) /\ IsMachine(w) /\ w.funcs = vm.funcs
    BY <1>2, <1>4, <2>2, <2>3, <2>4, Enters
  <2>6. vm' = w /\ UNCHANGED <<mode, phase, gen, open, calls, lines, meant>>
    BY <2>1, <2>4 DEF Goes
  <2> QED  BY <2>2, <2>3, <2>5, <2>6, RunsOn
<1> QED  BY <1>3, <1>4 DEF Call

LEMMA LoadModuleCodes ==
  ASSUME CodeInv, LoadModule
  PROVE  CodeInv'
<1>1. PICK pos : /\ phase = "running" /\ Instr.op = "LOAD_MODULE" /\ pos = Instr.words[1]
                 /\ IF pos \in vm.modules THEN Goes([vm EXCEPT !.iptr = Instr.next])
                    ELSE /\ Len(vm.rets) < MaxDepth
                         /\ Goes([Enter(Instr, pos) EXCEPT !.modules = @ \cup {pos}])
  BY DEF LoadModule, Running
<1>2. Instr.op \notin {"RJMP", "RJMP_U4", "HALT", "RET", "MOD_RET"}  BY <1>1
<1>3. CASE pos \in vm.modules  BY <1>1, <1>2, <1>3, GoesNext
<1>4. CASE pos \notin vm.modules
  <2>1. PICK f, T, P : Runs(f, T, P)  BY <1>1, CodeRuns
  <2>2. pos \in P /\ vm.funcs \subseteq P  BY <1>1, <2>1, StartsBody DEF Runs, Starting
  <2>3. PICK v, w : v = Enter(Instr, pos) /\ w = vm'  OBVIOUS
  <2>4. OnItsWay(T, P, v) /\ IsMachine(v) /\ v.funcs = vm.funcs
    BY <1>1, <1>2, <1>4, <2>1, <2>2, <2>3, Enters
  <2>5. /\ w = [v EXCEPT !.modules = @ \cup {pos}]
        /\ UNCHANGED <<mode, phase, gen, open, calls, lines, meant>>
    BY <1>1, <1>4, <2>3 DEF Goes
  <2>6. /\ w = [x \in MachineFields |-> w[x]] /\ w.iptr = v.iptr /\ w.rets = v.rets
        /\ w.funcs = v.funcs
    <3>1. v = [x \in MachineFields |-> v[x]]  BY <2>4 DEF IsMachine
    <3>2. PICK M : M = v.modules \cup {pos}  OBVIOUS
    <3>3. w = [v EXCEPT !.modules = M]  BY <2>5, <3>1, <3>2
    <3> QED  BY <3>1, <3>3 DEF MachineFields
  <2>7. OnItsWay(T, P, w)  BY <2>4, <2>6 DEF OnItsWay
  <2>8. IsMachine(w)  BY <2>4, <2>6 DEF IsMachine
  <2> QED  BY <2>1, <2>2, <2>3, <2>4, <2>5, <2>6, <2>7, <2>8, RunsOn
<1> QED  BY <1>3, <1>4

\* A body is left, for what it was called from.
LEMMA ReturnCodes ==
  ASSUME CodeInv, Return
  PROVE  CodeInv'
<1>1. /\ phase = "running" /\ Instr.op \in {"RET", "MOD_RET"} /\ vm.rets # <<>>
      /\ vm' = [vm EXCEPT !.iptr = Last(vm.rets), !.rets = Front(@)]
      /\ UNCHANGED <<mode, phase, gen, open, calls, lines, meant>>
  BY DEF Return, Running, Goes
<1>2. PICK f, T, P : Runs(f, T, P)  BY <1>1, CodeRuns
<1>3. /\ IsMachine(vm) /\ OnItsWay(T, P, vm) /\ vm.funcs \subseteq P
      /\ Ready(f, T, P, gen, meant) /\ AtCell(f, T, P, vm.iptr, Instr)
  BY <1>2 DEF Runs
<1>4. vm.iptr \notin T
  <2>1. f[vm.iptr].op \in {"RET", "MOD_RET"}  BY <1>1, <1>3 DEF AtCell
  <2>2. Without(f, T, {"RET", "MOD_RET"})  BY <1>3 DEF Ready, Code
  <2> QED  BY <2>1, <2>2 DEF Without
<1>5. PICK w : w = [vm EXCEPT !.iptr = Last(vm.rets), !.rets = Front(vm.rets)]  OBVIOUS
<1>6. OnItsWay(T, P, w) /\ IsMachine(w) /\ w.funcs = vm.funcs
  BY <1>1, <1>3, <1>4, <1>5, ComesBack
<1>7. vm' = w
  <2>1. vm = [x \in MachineFields |-> vm[x]]  BY <1>3 DEF IsMachine
  <2> QED  BY <1>1, <1>5, <2>1 DEF MachineFields
<1> QED  BY <1>1, <1>2, <1>3, <1>6, <1>7, RunsOn

\* A HALT is only at the end of the program or the line.
LEMMA HaltCodes ==
  ASSUME CodeInv, Halt
  PROVE  CodeInv' /\ vm'.iptr = Len(gen.mem)
<1>1. /\ phase = "running" /\ Instr.op = "HALT" /\ phase' = Ends
      /\ vm' = [vm EXCEPT !.iptr = Instr.next]
      /\ UNCHANGED <<mode, gen, open, calls, lines, meant>>
  BY DEF Halt, Running
<1>2. PICK f, T, P : Runs(f, T, P)  BY <1>1, CodeRuns
<1>3. /\ IsMachine(vm) /\ vm.funcs \subseteq P /\ Ready(f, T, P, gen, meant)
      /\ AtCell(f, T, P, vm.iptr, Instr) /\ vm.iptr \in T \cup P
  BY <1>2 DEF Runs
<1>4. f[vm.iptr].op = "HALT" /\ f[vm.iptr].next = Instr.next /\ Instr.next \in Nat
  BY <1>1, <1>3 DEF AtCell
<1>5. vm.iptr \notin P
  <2>1. Without(f, {} \cup P, {"HALT"})  BY <1>3 DEF Ready, Code
  <2> QED  BY <1>4, <2>1 DEF Without
<1>6. Instr.next = gen.pos  BY <1>3, <1>4, <1>5 DEF Ready
<1>7. PICK a, w : a = Instr.next /\ w = [vm EXCEPT !.iptr = a]  OBVIOUS
<1>8. IsMachine(w) /\ w.iptr = a /\ w.funcs = vm.funcs
  BY <1>3, <1>4, <1>7, MachineMoves
<1>9. vm' = w  BY <1>1, <1>7
<1>10. gen.pos = Len(gen.mem)
  <2>1. Sound("running", gen, open)  BY <1>1 DEF CodeInv, SessionInv
  <2>2. IsWriter(gen) /\ gen.buf = <<>>  BY <2>1, SoundParts
  <2>3. PICK pos, mem : pos = gen.pos /\ mem = gen.mem  OBVIOUS
  <2>4. pos = Len(mem) + Len(<<>>) /\ IsSeq(mem)  BY <2>2, <2>3, Zenon DEF IsWriter
  <2>5. Len(<<>>) = 0 /\ Len(mem) \in Nat  BY <2>4, Nothing, Domains
  <2> QED  BY <2>3, <2>4, <2>5
<1>11. CodeInv'  BY <1>1, <1>2, <1>3, <1>8, <1>9, Stops
<1> QED  BY <1>6, <1>7, <1>8, <1>9, <1>10, <1>11

LEMMA StopCodes ==
  ASSUME CodeInv, Stop
  PROVE  CodeInv'
<1>1. /\ phase = "running" /\ phase' = Ends
      /\ UNCHANGED <<mode, gen, open, calls, lines, meant>>
      /\ \/ vm' = vm
         \/ /\ Instr.op \in {"DISCARD", "SWAP_DISCARD"}
            /\ vm' = [vm EXCEPT !.iptr = Instr.next]
  BY DEF Stop, Running
<1>2. PICK f, T, P : Runs(f, T, P)  BY <1>1, CodeRuns
<1>3. IsMachine(vm) /\ vm.funcs \subseteq P /\ AtCell(f, T, P, vm.iptr, Instr)
  BY <1>2 DEF Runs
<1>4. IsMachine(vm') /\ vm'.funcs \subseteq P
  <2>1. CASE vm' = vm  BY <1>3, <2>1
  <2>2. CASE vm' = [vm EXCEPT !.iptr = Instr.next]
    <3>1. PICK a, w : a = Instr.next /\ w = [vm EXCEPT !.iptr = a]  OBVIOUS
    <3>2. a \in Nat  BY <1>3, <3>1 DEF AtCell
    <3>3. IsMachine(w) /\ w.funcs = vm.funcs  BY <1>3, <3>1, <3>2, MachineMoves
    <3> QED  BY <1>3, <2>2, <3>1, <3>3
  <2> QED  BY <1>1, <2>1, <2>2
<1> QED  BY <1>1, <1>2, <1>4, Stops

LEMMA OtherInstrCodes ==
  ASSUME CodeInv, OtherInstr
  PROVE  CodeInv'
<1>1. /\ phase = "running" /\ Goes([vm EXCEPT !.iptr = Instr.next])
      /\ Instr.op \notin {"RJMP", "RJMP_U4", "HALT", "RET", "MOD_RET"}
  BY DEF OtherInstr, Running
<1> QED  BY <1>1, GoesNext

LEMMA CodeNext == CodeInv /\ Short(gen') /\ [Next]_vars => CodeInv'
<1> SUFFICES ASSUME CodeInv, Short(gen'), [Next]_vars  PROVE CodeInv'  OBVIOUS
<1>1. CASE Generate  BY <1>1, GenerateStepCodes
<1>2. CASE Fail  BY <1>2, FailCodes
<1>3. CASE EndProgram  BY <1>3, EndProgramCodes
<1>4. CASE NextLine  BY <1>4, NextLineCodes
<1>5. CASE EndLine  BY <1>5, EndLineCodes
<1>6. CASE PrintLine  BY <1>6, PrintLineCodes
<1>7. CASE Step
  BY <1>7, JumpCodes, HaltCodes, AllocFunctionCodes, CallCodes, ReturnCodes,
     LoadModuleCodes, OtherInstrCodes, StopCodes DEF Step
<1>8. CASE UNCHANGED vars
  BY <1>8 DEF vars, CodeInv, SessionInv, Counts, IsMachine, Placed
<1> QED  BY <1>1, <1>2, <1>3, <1>4, <1>5, <1>6, <1>7, <1>8 DEF Next

-----------------------------------------------------------------------------
(* What the code writes can be addressed by its own operands: encode_uint    *)
(* has room for four digits (gen.c:25).                                      *)

Addressable == Short(gen)

LEMMA CodeInvariance == Spec /\ []Addressable => []CodeInv
<1>1. Addressable' => Short(gen')  BY DEF Addressable
<1>2. CodeInv /\ Addressable' /\ [Next]_vars => CodeInv'  BY <1>1, CodeNext
<1> QED  BY <1>2, CodeInit, PTL DEF Spec

-----------------------------------------------------------------------------
(* What follows. *)

LEMMA AreBytes ==
  ASSUME NEW s, IsSeq(s), Bytes(s)
  PROVE  s \in Seq(Byte)
<1>1. PICK S : s \in Seq(S)  BY DEF IsSeq
<1>2. Len(s) \in Nat /\ DOMAIN s = 1 .. Len(s)  BY Domains
<1>3. \A k \in 1 .. Len(s) : s[k] \in Byte  BY DEF Bytes
<1> QED  BY <1>1, <1>2, <1>3

LEMMA BothAreBytes ==
  ASSUME NEW s, NEW t, IsSeq(s), IsSeq(t), Bytes(s \o t)
  PROVE  Bytes(s) /\ Bytes(t)
<1>1. PICK out : out = s \o t  OBVIOUS
<1>2. PICK l, m : l = Len(s) /\ m = Len(t)  OBVIOUS
<1>3. l \in Nat /\ m \in Nat  BY <1>2, Domains
<1>4. /\ Len(out) = l + m
      /\ \A k \in 1 .. l : out[k] = s[k]
      /\ \A k \in 1 .. m : out[l + k] = t[k]
  BY <1>1, <1>2, Joins
<1>5. \A k \in 1 .. l + m : out[k] \in Byte  BY <1>1, <1>4 DEF Bytes
<1>6. ASSUME NEW k \in 1 .. l  PROVE s[k] \in Byte
  <2>1. k \in 1 .. l + m  BY <1>3
  <2> QED  BY <1>4, <1>5, <2>1
<1>7. ASSUME NEW k \in 1 .. m  PROVE t[k] \in Byte
  <2>1. l + k \in 1 .. l + m  BY <1>3
  <2> QED  BY <1>4, <1>5, <2>1
<1> QED  BY <1>2, <1>6, <1>7 DEF Bytes

LEMMA CodeTyped == CodeInv => TypeOK
<1> SUFFICES ASSUME CodeInv  PROVE TypeOK  OBVIOUS
<1>1. Counts /\ IsMachine(vm) /\ Sound(phase, gen, open)  BY DEF CodeInv, SessionInv
<1>2. PICK P : Placed(P)  BY DEF CodeInv
<1>3. IsWriter(gen) /\ Buffers(gen) /\ gen.pos \in Nat  BY <1>1, SoundParts
<1>4. Bytes(Out(gen))
  <2>1. phase \in {"prompt", "reading", "printing", "running", "over"}
    BY <1>1 DEF Counts
  <2> QED  BY <1>2, <2>1 DEF Placed, Coded, Whole
<1>5. PICK mem, buf : mem = gen.mem /\ buf = gen.buf  OBVIOUS
<1>6. IsSeq(mem) /\ IsSeq(buf) /\ Bytes(mem \o buf)
  BY <1>3, <1>4, <1>5 DEF IsWriter, Out
<1>7. mem \in Seq(Byte) /\ buf \in Seq(Byte)  BY <1>6, BothAreBytes, AreBytes
<1>8. ASSUME NEW n \in DOMAIN open  PROVE open[n].reloc \in Nat /\ open[n].start \in Nat
  <2>1. CASE phase = "reading"
    <3>1. PICK f, T, B : Reading(f, T, B, P, gen, open, meant)
      BY <1>2, <2>1 DEF Placed, Coded
    <3> QED  BY <1>3, <3>1, BodyInside
  <2>2. CASE phase # "reading"
    <3>1. open = <<>>  BY <1>2, <2>2 DEF Placed
    <3> QED  BY <3>1
  <2> QED  BY <2>1, <2>2
<1>9. vm.iptr \in Nat /\ vm.rets \in Seq(Nat) /\ Len(vm.rets) <= MaxDepth
  BY <1>1 DEF IsMachine
<1> QED  BY <1>1, <1>3, <1>5, <1>7, <1>8, <1>9 DEF TypeOK, Counts, Buffers

LEMMA CodeMeant == CodeInv => RunsWhatWasMeant
<1> SUFFICES ASSUME CodeInv, phase = "running"
             PROVE  /\ vm.iptr \in DOMAIN meant
                    /\ meant[vm.iptr].op = Instr.op
                    /\ meant[vm.iptr].means = Meaning(Instr)
  BY DEF RunsWhatWasMeant
<1>1. PICK f, T, P : AtCell(f, T, P, vm.iptr, Instr)  BY CodeRuns DEF Runs
<1> QED  BY <1>1 DEF AtCell

\* The bytes are bytes, the lengths that are awaited and the places the machine
\* goes to are addresses, and neither the buffer nor the stack of returns grows
\* past its limit (gen.c:20-24, vm.c:520-524).
THEOREM TypeCorrect == Spec /\ []Addressable => []TypeOK
BY CodeTyped, CodeInvariance, PTL

\* Whatever program or line is read, and whether or not lines before it failed or
\* were abandoned, the machine only comes to addresses an instruction was generated
\* at, and reads there the operation, the names, the jump's target and the string
\* that were meant (gen.c:156-421, vm.c:584-607).
THEOREM RunsCorrect == Spec /\ []Addressable => []RunsWhatWasMeant
BY CodeMeant, CodeInvariance, PTL

\* A HALT the machine comes to is the last thing in memory, so what a REPL writes
\* next, the printing of the line's value, is where the machine goes on
\* (main.c:193-205).
THEOREM HaltsCorrect == Spec /\ []Addressable => HaltsAtTheEnd
<1>1. CodeInv /\ [Next]_vars => [Halt => vm'.iptr = Len(gen.mem)]_vars
  BY HaltCodes
<1> QED  BY <1>1, CodeInvariance, PTL DEF Spec, HaltsAtTheEnd

-----------------------------------------------------------------------------
(* The other half of lib/io.c: reading through the buffer is reading the     *)
(* text.  First what one shift does to a reader, then what each call returns, *)
(* then the refinement.                                                       *)

\* What SubSeq keeps: n elements after the i-th.
LEMMA PartElements ==
  ASSUME NEW s \in Seq(Chars), NEW i \in Nat, NEW n \in Nat,
         i + n <= Len(s)
  PROVE  /\ SubSeq(s, i + 1, i + n) \in Seq(Chars)
         /\ Len(SubSeq(s, i + 1, i + n)) = n
         /\ \A k \in 1 .. n : SubSeq(s, i + 1, i + n)[k] = s[i + k]
<1>1. Len(s) \in Nat  BY LenProperties
<1>2. CASE n = 0
  <2>1. SubSeq(s, i + 1, i + n) = <<>>  BY <1>1, <1>2
  <2>. QED  BY <1>1, <1>2, <2>1
<1>3. CASE n > 0
  <2>1. i + 1 \in 1 .. Len(s) /\ i + n \in i + 1 .. Len(s)  BY <1>1, <1>3
  <2>. QED  BY <1>1, <1>3, <2>1
<1>. QED  BY <1>2, <1>3

\* What a shift leaves in the buffer: what was not taken, then what was read.
LEMMA JoinElements ==
  ASSUME NEW s \in Seq(Chars), NEW t \in Seq(Chars)
  PROVE  /\ s \o t \in Seq(Chars) /\ Len(s \o t) = Len(s) + Len(t)
         /\ \A k \in 1 .. Len(s) : (s \o t)[k] = s[k]
         /\ \A k \in 1 .. Len(t) : (s \o t)[Len(s) + k] = t[k]
<1>1. Len(s) \in Nat /\ Len(t) \in Nat  BY LenProperties
<1>. QED  BY <1>1

-----------------------------------------------------------------------------
(* One shift. *)

\* The numbers of a reader that is in step: b characters are buffered.
LEMMA Numbers ==
  ASSUME NEW t \in Seq(Chars), NEW r, IsReader(r), InStep(r, t)
  PROVE  /\ Len(t) \in Nat /\ r.given \in Nat /\ r.idx \in Nat /\ Size \in Nat
         /\ r.buf \in Seq(Chars) /\ Len(r.buf) = r.idx + Buffered(r)
         /\ Buffered(r) \in Nat /\ Taken(r) \in Nat
         /\ r.given = Taken(r) + Buffered(r) /\ r.given <= Len(t)
         /\ Buffered(r) <= Size
<1>1. PICK l, g, i : l = Len(r.buf) /\ g = r.given /\ i = r.idx  OBVIOUS
<1>2. l \in Nat /\ g \in Nat /\ i \in Nat /\ Len(t) \in Nat /\ Size \in Nat
  BY <1>1, LenProperties, ReaderAssumption DEF IsReader
<1>3. g <= Len(t) /\ i <= l /\ l <= Size /\ l - i <= g
  BY <1>1, <1>2 DEF InStep, Buffered
<1>4. Buffered(r) = l - i /\ Taken(r) = g - (l - i)
  BY <1>1 DEF Buffered, Taken
<1>5. l - i \in Nat /\ g - (l - i) \in Nat /\ l = i + (l - i) /\ l - i <= Size
      /\ g = (g - (l - i)) + (l - i)
  BY <1>2, <1>3
<1>. QED  BY <1>1, <1>2, <1>3, <1>4, <1>5 DEF IsReader

\* A shift keeps the place in the text, adds what was read and gets at least
\* one character more, unless the text is over or the buffer is full.
LEMMA ShiftStep ==
  ASSUME NEW t \in Seq(Chars), NEW r, IsReader(r), InStep(r, t),
         NEW n \in Amounts(r, t)
  PROVE  /\ IsReader(Shift(r, t, n)) /\ InStep(Shift(r, t, n), t)
         /\ n \in Nat /\ Shift(r, t, n).given = r.given + n
         /\ Taken(Shift(r, t, n)) = Taken(r)
         /\ Buffered(Shift(r, t, n)) = Buffered(r) + n
         /\ n = 0 => Buffered(r) = Size \/ r.given = Len(t)
<1>1. PICK q : q = Shift(r, t, n)  OBVIOUS
<1>2. PICK b \in Nat, p \in Nat, g \in Nat, i \in Nat :
        b = Buffered(r) /\ p = Taken(r) /\ g = r.given /\ i = r.idx
  BY Numbers
<1>3. /\ Len(t) \in Nat /\ Size \in Nat /\ g = p + b /\ g <= Len(t) /\ b <= Size
      /\ r.buf \in Seq(Chars) /\ Len(r.buf) = i + b
  BY <1>2, Numbers
<1>4. /\ n \in Nat /\ n <= Size - b /\ n <= Len(t) - g
      /\ n = 0 => b = Size \/ g = Len(t)
  <2>1. /\ n \in 0 .. Size - b /\ n <= Len(t) - g
        /\ n = 0 => Size - b = 0 \/ Len(t) - g = 0
    BY <1>2 DEF Amounts
  <2>2. PICK l \in Nat, z \in Nat : l = Len(t) /\ z = Size /\ b <= z /\ g <= l
    BY <1>3
  <2>3. n \in 0 .. z - b /\ n <= l - g /\ (n = 0 => z - b = 0 \/ l - g = 0)
    BY <2>1, <2>2
  <2>4. n \in Nat /\ n <= z - b /\ n <= l - g /\ (n = 0 => b = z \/ g = l)
    BY <2>2, <2>3
  <2>. QED  BY <2>2, <2>4
<1>5. PICK kept : kept = SubSeq(r.buf, i + 1, i + b)  OBVIOUS
<1>6. PICK read : read = SubSeq(t, g + 1, g + n)  OBVIOUS
<1>7. /\ kept \in Seq(Chars) /\ Len(kept) = b
      /\ \A k \in 1 .. b : kept[k] = r.buf[i + k]
  <2>1. i + b <= Len(r.buf)  BY <1>3
  <2>. QED  BY <1>3, <1>5, <2>1, PartElements
<1>8. /\ read \in Seq(Chars) /\ Len(read) = n
      /\ \A k \in 1 .. n : read[k] = t[g + k]
  <2>1. g + n <= Len(t)  BY <1>3, <1>4
  <2>. QED  BY <1>4, <1>6, <2>1, PartElements
<1>9. /\ q.given = g + n /\ q.buf = kept \o read /\ q.idx = 0
      /\ q = [given |-> q.given, buf |-> q.buf, idx |-> q.idx]
  BY <1>1, <1>2, <1>3, <1>5, <1>6 DEF Shift
<1>10. PICK buf : buf = kept \o read  OBVIOUS
<1>11. /\ buf \in Seq(Chars) /\ Len(buf) = b + n
       /\ \A k \in 1 .. b : buf[k] = kept[k]
       /\ \A k \in 1 .. n : buf[b + k] = read[k]
  BY <1>7, <1>8, <1>10, JoinElements
<1>12. IsReader(q)
  <2>1. g + n \in Nat  BY <1>2, <1>4
  <2>. QED  BY <1>9, <1>10, <1>11, <2>1 DEF IsReader
<1>13. Buffered(q) = b + n
  BY <1>4, <1>9, <1>10, <1>11 DEF Buffered
<1>14. Taken(q) = p
  <2>1. Taken(q) = (g + n) - (b + n)  BY <1>9, <1>13 DEF Taken
  <2>. QED  BY <1>3, <1>4, <2>1
<1>15. ASSUME NEW k \in 1 .. b + n
       PROVE  buf[k] = t[p + k]
  <2>1. CASE k <= b
    <3>1. k \in 1 .. b  BY <1>4, <2>1
    <3>2. buf[k] = r.buf[i + k]  BY <1>7, <1>11, <3>1
    <3>3. r.buf[i + k] = t[p + k]  BY <1>2, <3>1 DEF InStep
    <3>. QED  BY <3>2, <3>3
  <2>2. CASE k > b
    <3>1. PICK m \in 1 .. n : k = b + m
      <4>1. k - b \in 1 .. n /\ k = b + (k - b)  BY <1>4, <2>2
      <4>. QED  BY <4>1
    <3>2. buf[k] = t[g + m]  BY <1>8, <1>11, <3>1
    <3>3. g + m = p + k  BY <1>3, <1>4, <3>1
    <3>. QED  BY <3>2, <3>3
  <2>. QED  BY <1>4, <2>1, <2>2
<1>16. InStep(q, t)
  <2>1. q.given \in 0 .. Len(t)
    <3>1. g + n \in 0 .. Len(t)  BY <1>3, <1>4
    <3>. QED  BY <1>9, <3>1
  <2>2. q.idx \in 0 .. Len(q.buf) /\ Len(q.buf) <= Size
    <3>1. 0 \in 0 .. b + n /\ b + n <= Size  BY <1>3, <1>4
    <3>. QED  BY <1>9, <1>10, <1>11, <3>1
  <2>3. Buffered(q) <= q.given
    <3>1. b + n <= g + n  BY <1>3, <1>4
    <3>. QED  BY <1>9, <1>13, <3>1
  <2>4. ASSUME NEW k \in 1 .. Buffered(q)
        PROVE  q.buf[q.idx + k] = t[Taken(q) + k]
    <3>1. k \in 1 .. b + n /\ 0 + k = k  BY <1>4, <1>13
    <3>. QED  BY <1>9, <1>10, <1>14, <1>15, <3>1
  <2>. QED  BY <2>1, <2>2, <2>3, <2>4 DEF InStep
<1>. QED  BY <1>1, <1>2, <1>4, <1>9, <1>12, <1>13, <1>14, <1>16

-----------------------------------------------------------------------------
(* One call. *)

\* A look changes nothing that can be seen, and finds the n-th character ahead
\* or, when the text is over before it, EOF.
LEMMA LookStep ==
  ASSUME NEW t \in Seq(Chars), NEW r, IsReader(r), InStep(r, t),
         NEW count \in Nat \ {0}, count <= Size,
         count <= Buffered(r) + 1 \/ r.given = Len(t),
         NEW n \in Amounts(r, t)
  PROVE  /\ IsReader(Look(r, t, count, n)) /\ InStep(Look(r, t, count, n), t)
         /\ Taken(Look(r, t, count, n)) = Taken(r)
         /\ Buffered(r) <= Buffered(Look(r, t, count, n))
         /\ \/ count <= Buffered(Look(r, t, count, n))
            \/ Look(r, t, count, n).given = Len(t)
         /\ r.given = Len(t) => Look(r, t, count, n).given = Len(t)
         /\ Seen(Look(r, t, count, n), count) =
              IF Taken(r) + count \in DOMAIN t THEN t[Taken(r) + count] ELSE EOF
<1>1. PICK q : q = Look(r, t, count, n)  OBVIOUS
<1>2. PICK b \in Nat, c \in Nat, p \in Nat :
        b = Buffered(r) /\ c = Buffered(q) /\ p = Taken(r) /\ IsReader(q)
        /\ InStep(q, t) /\ Taken(q) = p /\ b <= c
        /\ (count <= c \/ q.given = Len(t))
        /\ (r.given = Len(t) => q.given = Len(t))
  <2>1. Buffered(r) \in Nat /\ Taken(r) \in Nat /\ r.given \in Nat
        /\ Len(t) \in Nat /\ r.given <= Len(t) /\ Size \in Nat
    BY Numbers
  <2>2. CASE Buffered(r) >= count
    <3>1. q = r  BY <1>1, <2>2 DEF Look
    <3>. QED  BY <2>1, <2>2, <3>1
  <2>3. CASE ~(Buffered(r) >= count)
    <3>1. q = Shift(r, t, n)  BY <1>1, <2>3 DEF Look
    <3>2. /\ IsReader(q) /\ InStep(q, t) /\ n \in Nat
          /\ q.given = r.given + n /\ Taken(q) = Taken(r)
          /\ Buffered(q) = Buffered(r) + n
          /\ n = 0 => Buffered(r) = Size \/ r.given = Len(t)
      BY <3>1, ShiftStep
    <3>3. q.given \in Nat /\ q.given <= Len(t)  BY <3>2, Numbers
    <3>4. r.given = Len(t) => q.given = Len(t)  BY <2>1, <3>2, <3>3
    <3>5. count <= Buffered(q) \/ q.given = Len(t)
      <4>1. CASE r.given = Len(t)  BY <3>4, <4>1
      <4>2. CASE r.given # Len(t)
        <5>1. n # 0  BY <2>1, <2>3, <3>2, <4>2
        <5>2. count <= Buffered(r) + n  BY <2>1, <3>2, <4>2, <5>1
        <5>. QED  BY <3>2, <5>2
      <4>. QED  BY <4>1, <4>2
    <3>6. Buffered(r) + n \in Nat /\ Buffered(r) <= Buffered(r) + n
      BY <2>1, <3>2
    <3>. QED  BY <2>1, <3>2, <3>4, <3>5, <3>6
  <2>. QED  BY <2>2, <2>3
<1>3. /\ Len(t) \in Nat /\ DOMAIN t = 1 .. Len(t)
      /\ q.given = p + c /\ q.given <= Len(t)
  BY <1>2, Numbers, LenProperties
<1>4. Seen(q, count) = IF p + count \in DOMAIN t THEN t[p + count] ELSE EOF
  <2>1. CASE count <= c
    <3>1. count \in 1 .. c /\ p + count \in 1 .. Len(t)  BY <1>2, <1>3, <2>1
    <3>2. q.buf[q.idx + count] = t[p + count]  BY <1>2, <3>1 DEF InStep
    <3>3. c >= count  BY <1>2, <2>1
    <3>. QED  BY <1>2, <1>3, <3>1, <3>2, <3>3 DEF Seen
  <2>2. CASE ~(count <= c)
    <3>1. p + count \notin 1 .. Len(t) /\ ~(c >= count)  BY <1>2, <1>3, <2>2
    <3>. QED  BY <1>2, <1>3, <3>1 DEF Seen
  <2>. QED  BY <2>1, <2>2
<1>. QED  BY <1>1, <1>2, <1>4

\* A get takes one character, when there is one.
LEMMA TakeStep ==
  ASSUME NEW t \in Seq(Chars), NEW r, IsReader(r), InStep(r, t),
         NEW n \in Amounts(r, t)
  PROVE  /\ IsReader(Take(r, t, n)) /\ InStep(Take(r, t, n), t)
         /\ Taken(Take(r, t, n)) =
              IF Taken(r) < Len(t) THEN Taken(r) + 1 ELSE Taken(r)
         /\ r.given = Len(t) => Take(r, t, n).given = Len(t)
         /\ Buffered(r) <= Buffered(Take(r, t, n)) + 1
<1>1. PICK q : q = Look(r, t, 1, n)  OBVIOUS
<1>2. /\ IsReader(q) /\ InStep(q, t) /\ Taken(q) = Taken(r)
      /\ Buffered(r) <= Buffered(q)
      /\ 1 <= Buffered(q) \/ q.given = Len(t)
      /\ r.given = Len(t) => q.given = Len(t)
  <2>1. 1 <= Size /\ 1 \in Nat \ {0}  BY ReaderAssumption
  <2>2. 1 <= Buffered(r) + 1  BY Numbers
  <2>. QED  BY <1>1, <2>1, <2>2, LookStep
<1>3. PICK b, c, p, l, i, g :
        /\ b = Buffered(r) /\ c = Buffered(q) /\ p = Taken(r) /\ l = Len(t)
        /\ i = q.idx /\ g = q.given
  OBVIOUS
<1>n. /\ b \in Nat /\ c \in Nat /\ p \in Nat /\ l \in Nat /\ i \in Nat /\ g \in Nat
      /\ g = p + c /\ g <= l
  <2>1. b \in Nat /\ p \in Nat  BY <1>3, Numbers
  <2>2. /\ c \in Nat /\ l \in Nat /\ i \in Nat /\ g \in Nat
        /\ g = Taken(q) + c /\ g <= l
    BY <1>2, <1>3, Numbers
  <2>. QED  BY <1>2, <1>3, <2>1, <2>2
<1>q. q.buf \in Seq(Chars) /\ Len(q.buf) = i + c  BY <1>2, <1>3, Numbers
<1>4. CASE c = 0
  <2>1. Take(r, t, n) = q
    <3>1. ~(Buffered(q) >= 1)  BY <1>3, <1>4
    <3>. QED  BY <1>1, <3>1 DEF Take
  <2>2. g = l /\ b <= c  BY <1>2, <1>3, <1>4
  <2>3. ~(p < l) /\ b <= c + 1  BY <1>n, <1>4, <2>2
  <2>. QED  BY <1>2, <1>3, <2>1, <2>3
<1>5. CASE c # 0
  <2>1. PICK s : s = [q EXCEPT !.idx = i + 1]  OBVIOUS
  <2>2. Take(r, t, n) = s
    <3>1. c >= 1  BY <1>n, <1>5
    <3>. QED  BY <1>1, <1>3, <2>1, <3>1 DEF Take
  <2>3. /\ s = [given |-> s.given, buf |-> s.buf, idx |-> s.idx]
        /\ s.given = g /\ s.buf = q.buf /\ s.idx = i + 1
    BY <1>2, <1>3, <2>1 DEF IsReader
  <2>4. IsReader(s)
    <3>1. i + 1 \in Nat  BY <1>n
    <3>. QED  BY <1>n, <1>q, <2>3, <3>1 DEF IsReader
  <2>5. Buffered(s) = c - 1 /\ Taken(s) = p + 1
    <3>1. (i + c) - (i + 1) = c - 1 /\ g - (c - 1) = p + 1  BY <1>n
    <3>2. Buffered(s) = c - 1  BY <1>q, <2>3, <3>1 DEF Buffered
    <3>. QED  BY <2>3, <3>1, <3>2 DEF Taken
  <2>6. InStep(s, t)
    <3>1. g \in 0 .. l /\ i + 1 \in 0 .. i + c /\ c - 1 <= g  BY <1>n, <1>5
    <3>2. s.given \in 0 .. Len(t) /\ s.idx \in 0 .. Len(s.buf)
          /\ Buffered(s) <= s.given
      BY <1>3, <1>q, <2>3, <2>5, <3>1
    <3>3. Len(s.buf) <= Size  BY <1>2, <2>3 DEF InStep
    <3>4. ASSUME NEW k \in 1 .. Buffered(s)
          PROVE  s.buf[s.idx + k] = t[Taken(s) + k]
      <4>1. k \in 1 .. c - 1  BY <2>5
      <4>2. /\ k + 1 \in 1 .. c /\ i + (k + 1) = (i + 1) + k
            /\ p + (k + 1) = (p + 1) + k
        BY <1>n, <4>1
      <4>3. q.buf[q.idx + (k + 1)] = t[Taken(q) + (k + 1)]
        BY <1>2, <1>3, <4>2 DEF InStep
      <4>4. q.buf[i + (k + 1)] = t[p + (k + 1)]  BY <1>2, <1>3, <4>3
      <4>. QED  BY <2>3, <2>5, <4>2, <4>4
    <3>. QED  BY <3>2, <3>3, <3>4 DEF InStep
  <2>7. p < l /\ b <= (c - 1) + 1
    <3>1. b <= c  BY <1>2, <1>3
    <3>. QED  BY <1>n, <1>5, <3>1
  <2>. QED  BY <1>2, <1>3, <2>2, <2>3, <2>4, <2>5, <2>6, <2>7
<1>. QED  BY <1>3, <1>4, <1>5

-----------------------------------------------------------------------------
(* The refinement. *)

LEMMA OpenedInStep == Opened => ReaderInv
<1>. SUFFICES ASSUME Opened PROVE ReaderInv  OBVIOUS
<1>1. text \in Seq(Chars) /\ reader = EmptyReader /\ looked = 0
  BY DEF Opened
<1>2. Len(text) \in Nat /\ MaxPeek \in Nat /\ Size \in Nat
  BY <1>1, LenProperties, ReaderAssumption
<1>3. /\ reader.given = 0 /\ reader.buf = <<>> /\ reader.idx = 0
      /\ <<>> \in Seq(Chars) /\ Len(<<>>) = 0
  BY <1>1 DEF EmptyReader
<1>4. Buffered(reader) = 0 /\ IsReader(reader)
  BY <1>1, <1>3 DEF Buffered, IsReader, EmptyReader
<1>5. InStep(reader, text)
  BY <1>2, <1>3, <1>4 DEF InStep
<1>. QED  BY <1>1, <1>2, <1>4, <1>5 DEF ReaderInv, Remembered

\* A peek returns what the stream's does.
LEMMA PeekStep ==
  ASSUME ReaderInv, NEW count \in 1 .. MaxPeek, Peek(count)
  PROVE  ReaderInv' /\ Stream!Peek(count)
<1>1. PICK n \in Amounts(reader, text) :
        /\ reader' = Look(reader, text, count, n)
        /\ answer' = Seen(Look(reader, text, count, n), count)
  BY DEF Peek
<1>2. /\ text \in Seq(Chars) /\ text' = text
      /\ looked \in Nat /\ looked <= MaxPeek /\ MaxPeek \in Nat /\ Size \in Nat
      /\ MaxPeek <= Size /\ IsReader(reader) /\ InStep(reader, text) /\ Remembered
      /\ count <= looked + 1
      /\ looked' = IF count > looked THEN count ELSE looked
  BY ReaderAssumption DEF ReaderInv, Peek
<1>3. Buffered(reader) \in Nat  BY <1>2, Numbers
<1>4. /\ count \in Nat \ {0} /\ count <= Size
      /\ count <= Buffered(reader) + 1 \/ reader.given = Len(text)
  <2>1. count \in Nat \ {0} /\ count <= Size  BY <1>2
  <2>2. looked <= Buffered(reader) \/ reader.given = Len(text)  BY <1>2 DEF Remembered
  <2>3. looked <= Buffered(reader) => count <= Buffered(reader) + 1
    BY <1>2, <1>3, <2>1
  <2>. QED  BY <2>1, <2>2, <2>3
<1>5. /\ IsReader(reader') /\ InStep(reader', text)
      /\ Taken(reader') = Taken(reader) /\ Buffered(reader) <= Buffered(reader')
      /\ count <= Buffered(reader') \/ reader'.given = Len(text)
      /\ reader.given = Len(text) => reader'.given = Len(text)
      /\ answer' = IF Taken(reader) + count \in DOMAIN text
                   THEN text[Taken(reader) + count] ELSE EOF
  BY <1>1, <1>2, <1>4, LookStep
<1>6. looked' \in 0 .. MaxPeek  BY <1>2
<1>7. Remembered'
  <2>1. Buffered(reader') \in Nat  BY <1>2, <1>5, Numbers
  <2>2. CASE reader'.given = Len(text)  BY <1>2, <2>2 DEF Remembered
  <2>3. CASE reader'.given # Len(text)
    <3>1. looked <= Buffered(reader)  BY <1>2, <1>5, <2>3 DEF Remembered
    <3>2. looked <= Buffered(reader')  BY <1>2, <1>3, <1>5, <2>1, <3>1
    <3>3. looked' <= Buffered(reader')  BY <1>2, <1>5, <2>3, <3>2
    <3>. QED  BY <3>3 DEF Remembered
  <2>. QED  BY <2>2, <2>3
<1>8. ReaderInv'  BY <1>2, <1>5, <1>6, <1>7 DEF ReaderInv
<1>9. Stream!Peek(count)
  BY <1>2, <1>5 DEF Stream!Peek, Stream!At, Taken, Buffered
<1>. QED  BY <1>8, <1>9

\* And so does a get.
LEMMA GetStep ==
  ASSUME ReaderInv, Get
  PROVE  ReaderInv' /\ Stream!Get
<1>1. PICK n \in Amounts(reader, text) :
        /\ reader' = Take(reader, text, n)
        /\ answer' = Seen(Look(reader, text, 1, n), 1)
  BY DEF Get
<1>2. /\ text \in Seq(Chars) /\ text' = text
      /\ looked \in Nat /\ looked <= MaxPeek /\ MaxPeek \in Nat
      /\ IsReader(reader) /\ InStep(reader, text) /\ Remembered
      /\ looked' = IF looked = 0 THEN 0 ELSE looked - 1
      /\ 1 \in Nat \ {0} /\ 1 <= Size
  BY ReaderAssumption DEF ReaderInv, Get
<1>3. Buffered(reader) \in Nat /\ 1 <= Buffered(reader) + 1
  BY <1>2, Numbers
<1>4. answer' = IF Taken(reader) + 1 \in DOMAIN text
                THEN text[Taken(reader) + 1] ELSE EOF
  BY <1>1, <1>2, <1>3, LookStep
<1>5. /\ IsReader(reader') /\ InStep(reader', text)
      /\ Taken(reader') =
           IF Taken(reader) < Len(text) THEN Taken(reader) + 1 ELSE Taken(reader)
      /\ reader.given = Len(text) => reader'.given = Len(text)
      /\ Buffered(reader) <= Buffered(reader') + 1
  BY <1>1, <1>2, TakeStep
<1>6. looked' \in 0 .. MaxPeek  BY <1>2
<1>7. Remembered'
  <2>1. Buffered(reader') \in Nat  BY <1>2, <1>5, Numbers
  <2>2. CASE reader.given = Len(text)  BY <1>2, <1>5, <2>2 DEF Remembered
  <2>3. CASE reader.given # Len(text)
    <3>1. looked <= Buffered(reader)  BY <1>2, <2>3 DEF Remembered
    <3>2. looked <= Buffered(reader') + 1  BY <1>2, <1>3, <1>5, <2>1, <3>1
    <3>3. looked' <= Buffered(reader')  BY <1>2, <2>1, <3>2
    <3>. QED  BY <3>3 DEF Remembered
  <2>. QED  BY <2>2, <2>3
<1>8. ReaderInv'  BY <1>2, <1>5, <1>6, <1>7 DEF ReaderInv
<1>9. Stream!Get
  BY <1>2, <1>4, <1>5 DEF Stream!Get, Stream!At, Taken, Buffered
<1>. QED  BY <1>8, <1>9

LEMMA ReadingStep == ReaderInv /\ [ReadingNext]_readerVars => ReaderInv' /\ [Stream!Next]_(Stream!vars)
<1>. SUFFICES ASSUME ReaderInv, [ReadingNext]_readerVars
              PROVE  ReaderInv' /\ [Stream!Next]_(Stream!vars)
  OBVIOUS
<1>1. CASE Get
  BY <1>1, GetStep DEF Stream!Next
<1>2. ASSUME NEW count \in 1 .. MaxPeek, Peek(count)
      PROVE  ReaderInv' /\ [Stream!Next]_(Stream!vars)
  BY <1>2, PeekStep DEF Stream!Next
<1>3. CASE UNCHANGED readerVars
  BY <1>3 DEF readerVars, ReaderInv, Remembered, Stream!vars, Taken, Buffered, InStep, IsReader
<1>. QED  BY <1>1, <1>2, <1>3 DEF ReadingNext

\* The buffer always holds the part of the text that comes next (io.h's
\* gil_bufio_peek and gil_bufio_get, io.c's shift).
THEOREM ReaderInStep == ReadingSpec => []InStep(reader, text)
<1>1. ReaderInv => InStep(reader, text)  BY DEF ReaderInv
<1>2. ReaderInv /\ [ReadingNext]_readerVars => ReaderInv'  BY ReadingStep
<1>. QED  BY OpenedInStep, <1>1, <1>2, PTL DEF ReadingSpec

\* Whatever the reads return, peeks and gets return the text's characters in
\* their order, and EOF only when there are no more.
THEOREM ReaderRefinement == ReadingSpec => ImplementsStream
<1>1. Opened => Stream!Init
  <2>. SUFFICES ASSUME Opened PROVE Stream!Init  OBVIOUS
  <2>1. Taken(reader) = 0  BY DEF Opened, EmptyReader, Taken, Buffered
  <2>. QED  BY <2>1 DEF Opened, Stream!Init, Taken, Buffered
<1>2. ReaderInv /\ [ReadingNext]_readerVars => ReaderInv'  BY ReadingStep
<1>3. ReaderInv /\ [ReadingNext]_readerVars => [Stream!Next]_(Stream!vars)  BY ReadingStep
<1>. QED  BY OpenedInStep, <1>1, <1>2, <1>3, PTL DEF ReadingSpec, ImplementsStream, Stream!Spec
=============================================================================
