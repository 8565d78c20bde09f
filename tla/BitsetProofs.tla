---------------------------- MODULE BitsetProofs ----------------------------
(***************************************************************************)
(* Proofs about Bitset, for words of any size and any number of tables.    *)
(***************************************************************************)
EXTENDS Bitset, TLAPS, WellFoundedInduction

-----------------------------------------------------------------------------
(* Arithmetic of table indices.                                            *)

\* A table index below y leaves room for a whole directory below y's.
LEMMA MulMono ==
  ASSUME NEW x \in Nat, NEW y \in Nat, x < y
  PROVE  x * ENTSIZ + ENTSIZ <= y * ENTSIZ
<1> DEFINE k == y - x - 1
<1>1. k \in Nat /\ y = x + 1 + k  OBVIOUS
<1>2. ENTSIZ \in Nat  BY BitsetAssumption
<1>3. k * ENTSIZ \in Nat  BY <1>1, <1>2
<1>4. y * ENTSIZ = x * ENTSIZ + ENTSIZ + k * ENTSIZ  BY <1>1, <1>2
<1>5. x * ENTSIZ \in Nat  BY <1>2
<1>. QED  BY <1>2, <1>3, <1>4, <1>5

\* A table index has one directory and one slot.
LEMMA Split ==
  ASSUME NEW d \in Nat, NEW e \in Nat, NEW a \in Bits, NEW b \in Bits,
         d * ENTSIZ + a = e * ENTSIZ + b
  PROVE  d = e /\ a = b
<1>1. ENTSIZ \in Nat /\ a \in Nat /\ b \in Nat /\ a < ENTSIZ /\ b < ENTSIZ
  BY BitsetAssumption DEF Bits
<1>2. d * ENTSIZ \in Nat /\ e * ENTSIZ \in Nat  BY <1>1
<1>3. ~(d < e)  BY MulMono, <1>1, <1>2
<1>4. ~(e < d)  BY MulMono, <1>1, <1>2
<1>5. d = e  BY <1>3, <1>4
<1>. QED  BY <1>1, <1>2, <1>5

\* / and % give that directory and that slot.
LEMMA DivMod ==
  ASSUME NEW t \in Nat
  PROVE  /\ DirOf(t) \in Nat
         /\ SlotOf(t) \in Bits
         /\ t = DirOf(t) * ENTSIZ + SlotOf(t)
<1>1. ENTSIZ \in Nat \ {0}  BY BitsetAssumption
<1>2. t \div ENTSIZ \in Nat  BY <1>1
<1>3. t % ENTSIZ \in 0 .. ENTSIZ - 1  BY <1>1
<1>4. t = (ENTSIZ * (t \div ENTSIZ)) + (t % ENTSIZ)  BY <1>1
<1>5. ENTSIZ * (t \div ENTSIZ) = (t \div ENTSIZ) * ENTSIZ  BY <1>1, <1>2
<1>. QED  BY <1>2, <1>3, <1>4, <1>5 DEF DirOf, SlotOf, Bits

\* The directory of slot a of directory d is d.
LEMMA DirOfSlot ==
  ASSUME NEW d \in Nat, NEW a \in Bits
  PROVE  /\ d * ENTSIZ + a \in Nat
         /\ DirOf(d * ENTSIZ + a) = d
         /\ SlotOf(d * ENTSIZ + a) = a
<1>1. d * ENTSIZ + a \in Nat  BY BitsetAssumption DEF Bits
<1>. QED  BY <1>1, DivMod, Split

\* Every non-empty set of natural numbers has a least element.
LEMMA LowestExists ==
  ASSUME NEW S \in SUBSET Nat, S # {}
  PROVE  Lowest(S) \in S /\ \A c \in S : Lowest(S) <= c
<1>1. PICK x \in S : \A y \in S : ~ (<<y, x>> \in OpToRel(<, Nat))
  <2>1. IsWellFoundedOn(OpToRel(<, Nat), Nat)  BY NatLessThanWellFounded
  <2>. QED  BY ONLY <2>1, S \in SUBSET Nat, S # {}, WFMin
<1>2. ASSUME NEW y \in S, y < x  PROVE FALSE
  <2>1. <<y, x>> \in {ss \in Nat \X Nat : ss[1] < ss[2]}  BY <1>2
  <2>. QED  BY <1>1, <2>1 DEF OpToRel
<1>3. \E b \in S : \A c \in S : b <= c  BY <1>2
<1>. QED  BY <1>3 DEF Lowest

\* A word that is not full has a lowest unset bit, and every bit below it is
\* set.
LEMMA FirstUnsetBit ==
  ASSUME NEW word \in SUBSET Bits, word # Bits
  PROVE  /\ FirstUnset(word) \in Bits \ word
         /\ \A c \in Bits : c < FirstUnset(word) => c \in word
<1>0. Bits \ word # {}  OBVIOUS
<1>1. Bits \ word \in SUBSET Nat /\ Bits \ word # {}
  BY <1>0, BitsetAssumption DEF Bits
<1>2. /\ FirstUnset(word) \in Bits \ word
      /\ \A c \in Bits \ word : FirstUnset(word) <= c
  BY <1>1, LowestExists DEF FirstUnset
<1>. QED  BY <1>2 DEF Bits

-----------------------------------------------------------------------------
(* Doubling.  The table array and the directory array only ever double, so *)
(* the ids the directories cover are a power of two times the tables there *)
(* are.  The numbers reached from n by doubling are stated as the smallest *)
(* set that is closed under it, which needs no exponentiation.             *)

Closed(S) == \A x \in S : 2 * x \in S
Doublings(n) == {m \in Nat : \A S \in SUBSET Nat : n \in S /\ Closed(S) => m \in S}

LEMMA DoublingsSelf ==
  ASSUME NEW n \in Nat
  PROVE  n \in Doublings(n)
BY DEF Doublings

LEMMA DoublingsTwice ==
  ASSUME NEW n \in Nat, NEW m \in Doublings(n)
  PROVE  2 * m \in Doublings(n)
BY DEF Doublings, Closed

\* Doubling does not decrease.
LEMMA DoublingsAbove ==
  ASSUME NEW n \in Nat, NEW m \in Doublings(n)
  PROVE  n <= m
<1> DEFINE S == {x \in Nat : n <= x}
<1>1. n \in S /\ Closed(S) /\ S \in SUBSET Nat  BY DEF Closed
<1>2. m \in S  BY <1>1 DEF Doublings
<1>. QED  BY <1>2

\* A number reached from n in more than no steps is reached from 2n.
LEMMA DoublingsStep ==
  ASSUME NEW n \in Nat, NEW m \in Doublings(n), m # n
  PROVE  m \in Doublings(2 * n)
<1> DEFINE S == {n} \cup Doublings(2 * n)
<1>1. 2 * n \in Nat  OBVIOUS
<1>2. S \in SUBSET Nat  BY DEF Doublings
<1>3. Closed(S)
  <2>1. 2 * n \in Doublings(2 * n)  BY <1>1, DoublingsSelf
  <2>2. \A x \in Doublings(2 * n) : 2 * x \in Doublings(2 * n)
    BY <1>1, DoublingsTwice
  <2>. QED  BY <2>1, <2>2 DEF Closed
<1>4. m \in S  BY <1>2, <1>3 DEF Doublings
<1>. QED  BY <1>4

\* One directory covers a power of two times the first tables.
LEMMA FirstDirectory == ENTSIZ \in Doublings(InitTables)
<1> DEFINE D == Doublings(InitTables)
<1>1. InitTables \in Nat /\ \A m \in D : m \in Nat
  BY BitsetAssumption DEF Doublings
<1>2. InitTables * 1 \in D  BY <1>1, DoublingsSelf
<1>3. InitTables * 2 \in D  BY <1>1, <1>2, DoublingsTwice
<1>4. InitTables * 4 \in D
  <2>1. 2 * (InitTables * 2) \in D  BY <1>1, <1>3, DoublingsTwice
  <2>. QED  BY <1>1, <2>1
<1>5. InitTables * 8 \in D
  <2>1. 2 * (InitTables * 4) \in D  BY <1>1, <1>4, DoublingsTwice
  <2>. QED  BY <1>1, <2>1
<1>6. InitTables * 16 \in D
  <2>1. 2 * (InitTables * 8) \in D  BY <1>1, <1>5, DoublingsTwice
  <2>. QED  BY <1>1, <2>1
<1>7. InitTables * 32 \in D
  <2>1. 2 * (InitTables * 16) \in D  BY <1>1, <1>6, DoublingsTwice
  <2>. QED  BY <1>1, <2>1
<1>8. InitTables * 64 \in D
  <2>1. 2 * (InitTables * 32) \in D  BY <1>1, <1>7, DoublingsTwice
  <2>. QED  BY <1>1, <2>1
<1>. QED  BY <1>2, <1>3, <1>4, <1>5, <1>6, <1>7, <1>8, BitsetAssumption

-----------------------------------------------------------------------------
(* The inductive invariant.  SummaryExact and RoomAhead need each other,   *)
(* Growth keeps the directories ahead of the tables, and WalkInv says that *)
(* a walk has left behind the id it returned last.                         *)

Growth == dirslen * ENTSIZ \in Doublings(tableslen)

WalkInv ==
  iterating /\ last # NoId =>
    \E b \in Bits : /\ last = IdOf(it.tableidx, b)
                    /\ \A c \in it.table : b < c

Inv == TypeOK /\ SummaryExact /\ RoomAhead /\ Growth /\ WalkInv

\* What set_next finds: room in the current table, which is a slot of the
\* current directory, which exists.
LEMMA Found ==
  ASSUME Inv
  PROVE  /\ NewBit \in Bits \ tables[currtable]
         /\ NewWord \in SUBSET Bits
         /\ NewTables \in [0 .. tableslen - 1 -> SUBSET Bits]
         /\ NewTables[currtable] = NewWord
         /\ \A t \in 0 .. tableslen - 1 : t # currtable => NewTables[t] = tables[t]
         /\ tableslen <= dirslen * ENTSIZ
         /\ currdir \in 0 .. dirslen - 1
         /\ currtable = currdir * ENTSIZ + SlotOf(currtable)
         /\ SlotOf(currtable) \in Bits
<1> USE DEF Inv
<1>1. currtable \in 0 .. tableslen - 1 /\ tables[currtable] \in SUBSET Bits
  BY DEF TypeOK, RoomAhead
<1>2. NewBit \in Bits \ tables[currtable]
  BY <1>1, FirstUnsetBit DEF NewBit, RoomAhead
<1>3. NewWord \in SUBSET Bits  BY <1>1, <1>2 DEF NewWord
<1>4. /\ NewTables \in [0 .. tableslen - 1 -> SUBSET Bits]
      /\ NewTables[currtable] = NewWord
      /\ \A t \in 0 .. tableslen - 1 : t # currtable => NewTables[t] = tables[t]
  BY <1>1, <1>3 DEF NewTables, TypeOK
<1>5. tableslen <= dirslen * ENTSIZ
  BY DoublingsAbove DEF Growth, TypeOK
<1>6. /\ currdir \in Nat
      /\ SlotOf(currtable) \in Bits
      /\ currtable = currdir * ENTSIZ + SlotOf(currtable)
  BY <1>1, DivMod DEF RoomAhead
<1>7. currdir < dirslen
  <2>1. SUFFICES ASSUME dirslen <= currdir  PROVE FALSE
    BY <1>6 DEF TypeOK
  <2>2. dirslen * ENTSIZ <= currdir * ENTSIZ
    <3>1. CASE dirslen = currdir  BY <3>1, BitsetAssumption, <1>6
    <3>2. CASE dirslen < currdir
      <4>1. dirslen * ENTSIZ + ENTSIZ <= currdir * ENTSIZ
        BY <3>2, <1>6, MulMono DEF TypeOK
      <4>2. dirslen * ENTSIZ \in Nat /\ currdir * ENTSIZ \in Nat
        BY <1>6, BitsetAssumption DEF TypeOK
      <4>. QED  BY <4>1, <4>2, BitsetAssumption
    <3>. QED  BY <2>1, <3>1, <3>2, <1>6 DEF TypeOK
  <2>3. dirslen * ENTSIZ \in Nat /\ currdir * ENTSIZ \in Nat /\ tableslen \in Nat
    BY <1>6, BitsetAssumption DEF TypeOK
  <2>. QED  BY <1>1, <1>5, <1>6, <2>2, <2>3 DEF Bits
<1>8. currdir \in 0 .. dirslen - 1  BY <1>6, <1>7 DEF TypeOK
<1>. QED  BY <1>2, <1>3, <1>4, <1>5, <1>6, <1>8

\* expand_tables: the table asked for exists afterwards, the ones there were
\* are unchanged and the new ones are empty.
LEMMA Expanded ==
  ASSUME NEW t \in Nat, t <= tableslen, tableslen \in Nat \ {0},
         NewTables \in [0 .. tableslen - 1 -> SUBSET Bits],
         t < tableslen => NewTables[t] # Bits,
         ExpandTables(t)
  PROVE  /\ tableslen' \in Nat \ {0}
         /\ tableslen' = IF t = tableslen THEN 2 * tableslen ELSE tableslen
         /\ tables' \in [0 .. tableslen' - 1 -> SUBSET Bits]
         /\ t < tableslen'
         /\ tables'[t] # Bits
         /\ \A x \in Nat : x < tableslen' /\ tables'[x] = Bits
                         <=> x < tableslen /\ NewTables[x] = Bits
<1>1. {} # Bits  BY BitsetAssumption DEF Bits
<1>2. CASE t >= tableslen
  <2>1. t = tableslen  BY <1>2
  <2>2. /\ tableslen' = 2 * tableslen
        /\ tables' = [i \in 0 .. 2 * tableslen - 1 |->
                         IF i < tableslen THEN NewTables[i] ELSE {}]
    BY <1>2 DEF ExpandTables
  <2>. QED  BY <1>1, <2>1, <2>2
<1>3. CASE ~(t >= tableslen)
  <2>1. tableslen' = tableslen /\ tables' = NewTables
    BY <1>3 DEF ExpandTables
  <2>. QED  BY <1>3, <2>1
<1>. QED  BY <1>2, <1>3

\* Whatever directory set_next moves to, if the directories are exact for the
\* new tables and the chosen table does not skip one that does not exist yet,
\* the invariant holds afterwards.
LEMMA Move ==
  ASSUME Inv, NewWord = Bits,
         dirslen' \in Nat \ {0},
         dirs' \in [0 .. dirslen' - 1 -> SUBSET Bits],
         dirslen' * ENTSIZ \in Doublings(tableslen),
         \A e \in 0 .. dirslen' - 1, s \in Bits :
           s \in dirs'[e] <=> /\ e * ENTSIZ + s < tableslen
                             /\ NewTables[e * ENTSIZ + s] = Bits,
         NEW d \in 0 .. dirslen' - 1, NEW u \in Bits, u \notin dirs'[d],
         d * ENTSIZ + u <= tableslen,
         MoveTo(d, d * ENTSIZ + u),
         UNCHANGED walk, ~iterating, last' \in Nat
  PROVE  Inv'
<1> DEFINE t == d * ENTSIZ + u
<1>1. t \in Nat /\ DirOf(t) = d /\ d \in Nat
  BY DirOfSlot
<1>2. /\ NewTables \in [0 .. tableslen - 1 -> SUBSET Bits]
      /\ tableslen \in Nat \ {0}
  BY Found DEF Inv, TypeOK
<1>3. currdir' = d /\ currtable' = t /\ ExpandTables(t)
  BY DEF MoveTo
<1>4. t < dirslen' * ENTSIZ
  <2>1. d * ENTSIZ + ENTSIZ <= dirslen' * ENTSIZ
    BY MulMono
  <2>2. d * ENTSIZ \in Nat /\ dirslen' * ENTSIZ \in Nat
    BY <1>1, BitsetAssumption
  <2>. QED  BY <2>1, <2>2, BitsetAssumption DEF Bits
<1>5. t < tableslen => NewTables[t] # Bits
  OBVIOUS
<1>6. /\ tableslen' \in Nat \ {0}
      /\ tableslen' = IF t = tableslen THEN 2 * tableslen ELSE tableslen
      /\ tables' \in [0 .. tableslen' - 1 -> SUBSET Bits]
      /\ t < tableslen'
      /\ tables'[t] # Bits
      /\ \A x \in Nat : x < tableslen' /\ tables'[x] = Bits
                      <=> x < tableslen /\ NewTables[x] = Bits
  <2>. HIDE DEF t
  <2>1. t <= tableslen  BY DEF t
  <2>. QED  BY ONLY <1>1, <1>2, <1>3, <1>5, <2>1, Expanded
<1>7. SummaryExact'
  <2>1. SUFFICES ASSUME NEW e \in 0 .. dirslen' - 1, NEW s \in Bits
                 PROVE  s \in dirs'[e] <=> /\ e * ENTSIZ + s < tableslen'
                                          /\ tables'[e * ENTSIZ + s] = Bits
    BY DEF SummaryExact
  <2>2. e * ENTSIZ + s \in Nat  BY BitsetAssumption DEF Bits
  <2>. QED  BY <2>2, <1>6
<1>8. RoomAhead'
  BY <1>1, <1>3, <1>6 DEF RoomAhead
<1>9. TypeOK'
  BY <1>1, <1>3, <1>6 DEF Inv, TypeOK, walk
<1>10. Growth'
  <2>1. CASE t = tableslen
    BY <2>1, <1>2, <1>4, <1>6, DoublingsStep DEF Growth
  <2>2. CASE t # tableslen
    BY <2>2, <1>6 DEF Growth
  <2>. QED  BY <2>1, <2>2
<1>11. WalkInv'
  BY DEF WalkInv, walk
<1>. QED  BY <1>7, <1>8, <1>9, <1>10, <1>11 DEF Inv

\* When the current table becomes full, the updated directories are exact for
\* the updated tables.
LEMMA NewSummary ==
  ASSUME Inv, NewWord = Bits
  PROVE  /\ NewDirs \in [0 .. dirslen - 1 -> SUBSET Bits]
         /\ \A e \in 0 .. dirslen - 1, s \in Bits :
              s \in NewDirs[e] <=> /\ e * ENTSIZ + s < tableslen
                                  /\ NewTables[e * ENTSIZ + s] = Bits
<1>1. NewDirs \in [0 .. dirslen - 1 -> SUBSET Bits]
  BY Found DEF NewDirs, Inv, TypeOK
<1>2. ASSUME NEW e \in 0 .. dirslen - 1, NEW s \in Bits
      PROVE  s \in NewDirs[e] <=> /\ e * ENTSIZ + s < tableslen
                                 /\ NewTables[e * ENTSIZ + s] = Bits
  <2> DEFINE x == e * ENTSIZ + s
  <2>1. x \in Nat /\ e \in Nat  BY DirOfSlot
  <2>2. s \in dirs[e] <=> x < tableslen /\ tables[x] = Bits
    BY DEF Inv, SummaryExact
  <2>3. tableslen \in Nat /\ currtable \in 0 .. tableslen - 1
    BY DEF Inv, TypeOK, RoomAhead
  <2>4. dirs \in [0 .. dirslen - 1 -> SUBSET Bits]  BY DEF Inv, TypeOK
  <2>5. CASE x = currtable
    <3>1. e = currdir /\ s = SlotOf(currtable)
      BY <2>1, <2>5, Found, Split
    <3>. QED  BY <2>3, <2>4, <2>5, <3>1, Found DEF NewDirs
  <2>6. CASE x # currtable
    <3>1. ~(e = currdir /\ s = SlotOf(currtable))
      BY <2>6, Found
    <3>2. s \in NewDirs[e] <=> s \in dirs[e]
      BY <2>4, <3>1, Found DEF NewDirs
    <3>3. x < tableslen => NewTables[x] = tables[x]
      BY <2>1, <2>3, <2>6, Found
    <3>. QED  BY <2>2, <3>2, <3>3
  <2>. QED  BY <2>5, <2>6
<1>. QED  BY <1>1, <1>2

\* The first free table of the directory set_next chooses comes at most right
\* after the last table there is.
LEMMA NoGap ==
  ASSUME Inv, NewWord = Bits, NEW d \in 0 .. dirslen - 1, NewDirs[d] # Bits,
         d = currdir \/ \A e \in 0 .. d - 1 : NewDirs[e] = Bits
  PROVE  /\ FirstUnset(NewDirs[d]) \in Bits \ NewDirs[d]
         /\ d * ENTSIZ + FirstUnset(NewDirs[d]) <= tableslen
<1> DEFINE u == FirstUnset(NewDirs[d])
<1>1. NewDirs[d] \in SUBSET Bits  BY NewSummary
<1>2. /\ u \in Bits \ NewDirs[d]
      /\ \A c \in Bits : c < u => c \in NewDirs[d]
  BY <1>1, FirstUnsetBit
<1>. HIDE DEF u
<1>3. d \in Nat /\ u \in Nat /\ tableslen \in Nat /\ ENTSIZ \in Nat \ {0}
  BY <1>2, BitsetAssumption DEF Bits, Inv, TypeOK
<1>4. d * ENTSIZ \in Nat  BY <1>3
<1>5. CASE u > 0
  <2>1. u - 1 \in Bits /\ u - 1 < u  BY <1>2, <1>3, <1>5 DEF Bits
  <2>2. u - 1 \in NewDirs[d]  BY <1>2, <2>1
  <2>3. d * ENTSIZ + (u - 1) < tableslen  BY <2>1, <2>2, NewSummary
  <2>. QED  BY <1>2, <1>3, <1>4, <2>3 DEF u
<1>6. CASE u = 0 /\ d = currdir
  <2>1. currtable = d * ENTSIZ + SlotOf(currtable) /\ SlotOf(currtable) \in Nat
    BY <1>6, Found DEF Bits
  <2>2. currtable < tableslen  BY DEF Inv, RoomAhead
  <2>. QED  BY <1>2, <1>3, <1>4, <1>6, <2>1, <2>2 DEF u
<1>7. CASE u = 0 /\ d = 0
  BY <1>2, <1>3, <1>7 DEF u
<1>8. CASE u = 0 /\ d > 0 /\ \A e \in 0 .. d - 1 : NewDirs[e] = Bits
  <2>1. d - 1 \in 0 .. dirslen - 1 /\ d - 1 \in 0 .. d - 1
    BY <1>3, <1>8 DEF Inv, TypeOK
  <2>1a. NewDirs[d - 1] = Bits  BY <1>8, <2>1
  <2>2. ENTSIZ - 1 \in Bits  BY <1>3 DEF Bits
  <2>3. (d - 1) * ENTSIZ + (ENTSIZ - 1) < tableslen
    BY <2>1, <2>1a, <2>2, NewSummary
  <2>4. (d - 1) * ENTSIZ + (ENTSIZ - 1) = d * ENTSIZ - 1  BY <1>3
  <2>. QED  BY <1>2, <1>3, <1>4, <1>8, <2>3, <2>4 DEF u
<1>. QED  BY <1>3, <1>5, <1>6, <1>7, <1>8

\* The directory entry that unset clears exists and is the table's.
LEMMA DirEntry ==
  ASSUME Inv, NEW t \in 0 .. tableslen - 1
  PROVE  /\ DirOf(t) \in 0 .. dirslen - 1
         /\ SlotOf(t) \in Bits
         /\ t = DirOf(t) * ENTSIZ + SlotOf(t)
<1>1. /\ t \in Nat /\ tableslen \in Nat /\ dirslen \in Nat
      /\ dirslen * ENTSIZ \in Nat /\ tableslen <= dirslen * ENTSIZ
  BY Found, BitsetAssumption DEF Inv, TypeOK
<1>2. /\ DirOf(t) \in Nat
      /\ SlotOf(t) \in Bits
      /\ t = DirOf(t) * ENTSIZ + SlotOf(t)
  BY <1>1, DivMod
<1>3. DirOf(t) * ENTSIZ \in Nat /\ SlotOf(t) \in Nat
  BY <1>2, BitsetAssumption DEF Bits
<1>4. ~(dirslen < DirOf(t))
  <2>1. SUFFICES ASSUME dirslen < DirOf(t) PROVE FALSE  OBVIOUS
  <2>2. dirslen * ENTSIZ + ENTSIZ <= DirOf(t) * ENTSIZ
    BY <1>1, <1>2, <2>1, MulMono
  <2>3. ENTSIZ \in Nat  BY BitsetAssumption
  <2>. QED  BY <1>1, <1>2, <1>3, <2>2, <2>3
<1>5. dirslen # DirOf(t)
  BY <1>1, <1>2, <1>3
<1>. QED  BY <1>1, <1>2, <1>4, <1>5

\* When set_next makes new directories, every table it has is full.
LEMMA AllFull ==
  ASSUME Inv, MakeDirs
  PROVE  /\ dirslen * ENTSIZ \in Nat
         /\ tableslen = dirslen * ENTSIZ
         /\ \A t \in 0 .. tableslen - 1 : NewTables[t] = Bits
<1>1. NewWord = Bits /\ \A d \in 0 .. dirslen - 1 : NewDirs[d] = Bits
  BY DEF MakeDirs
<1>2. /\ dirslen \in Nat \ {0} /\ tableslen \in Nat /\ ENTSIZ \in Nat \ {0}
      /\ dirslen * ENTSIZ \in Nat /\ (dirslen - 1) * ENTSIZ \in Nat
  BY BitsetAssumption DEF Inv, TypeOK
<1>3. tableslen = dirslen * ENTSIZ
  <2>1. ENTSIZ - 1 \in Bits /\ dirslen - 1 \in 0 .. dirslen - 1
    BY <1>2 DEF Bits
  <2>2. (dirslen - 1) * ENTSIZ + (ENTSIZ - 1) < tableslen
    BY <1>1, <2>1, NewSummary
  <2>3. (dirslen - 1) * ENTSIZ = dirslen * ENTSIZ - ENTSIZ  BY <1>2
  <2>4. tableslen <= dirslen * ENTSIZ  BY Found
  <2>. QED  BY <1>2, <2>2, <2>3, <2>4
<1>4. ASSUME NEW t \in 0 .. tableslen - 1 PROVE NewTables[t] = Bits
  <2>1. /\ DirOf(t) \in 0 .. dirslen - 1 /\ SlotOf(t) \in Bits
        /\ t = DirOf(t) * ENTSIZ + SlotOf(t)
    BY DirEntry
  <2>. QED  BY <1>1, <2>1, NewSummary
<1>. QED  BY <1>2, <1>3, <1>4

-----------------------------------------------------------------------------
(* One lemma per action: it preserves the invariant.                       *)

LEMMA InitInv == Init => Inv
<1> SUFFICES ASSUME Init PROVE Inv  OBVIOUS
<1>1. /\ tableslen = InitTables /\ InitTables \in Nat \ {0}
      /\ tables = [t \in 0 .. InitTables - 1 |-> {}]
      /\ dirslen = 1 /\ dirs = [d \in 0 .. 0 |-> {}]
  BY BitsetAssumption DEF Init
<1>2. {} # Bits /\ {} \in SUBSET Bits
  <2>1. 0 \in Bits  BY BitsetAssumption DEF Bits
  <2>. QED  BY <2>1
<1>3. SummaryExact
  <2>1. SUFFICES ASSUME NEW d \in 0 .. dirslen - 1, NEW s \in Bits
                 PROVE  /\ s \notin dirs[d]
                        /\ ~(d * ENTSIZ + s < tableslen /\ tables[d * ENTSIZ + s] = Bits)
    BY DEF SummaryExact
  <2>2. d * ENTSIZ + s \in Nat /\ d \in 0 .. 0  BY <1>1, DirOfSlot
  <2>. QED  BY <1>1, <1>2, <2>2
<1>3a. TypeOK
  <2>1. tableslen \in Nat \ {0} /\ tables \in [0 .. tableslen - 1 -> SUBSET Bits]
    BY <1>1, <1>2
  <2>2. dirslen \in Nat \ {0} /\ dirs \in [0 .. dirslen - 1 -> SUBSET Bits]
    BY <1>1, <1>2
  <2>3. it \in [tableidx : Nat, table : SUBSET Bits]
    BY <1>2 DEF Init
  <2>. QED  BY <2>1, <2>2, <2>3 DEF Init, TypeOK
<1>4. RoomAhead
  <2>1. 0 \in Bits  BY BitsetAssumption DEF Bits
  <2>2. 0 * ENTSIZ + 0 = 0  BY BitsetAssumption
  <2>3. DirOf(0) = 0  BY <2>1, <2>2, DirOfSlot
  <2>4. tables[0] = {}  BY <1>1
  <2>. QED  BY <1>1, <1>2, <2>3, <2>4 DEF Init, RoomAhead
<1>5. Growth
  <2>1. 1 * ENTSIZ = ENTSIZ  BY BitsetAssumption
  <2>. QED  BY <2>1, FirstDirectory DEF Growth, Init
<1>6. WalkInv  BY DEF WalkInv, Init
<1>. QED  BY <1>3, <1>3a, <1>4, <1>5, <1>6 DEF Inv

\* The id set_next returns is a natural number.
LEMMA NewIdNat ==
  ASSUME Inv
  PROVE  IdOf(currtable, NewBit) \in Nat
BY Found, BitsetAssumption DEF IdOf, Bits, Inv, TypeOK

LEMMA SetNextInv ==
  ASSUME Inv, SetNext
  PROVE  Inv'
<1>1. ~iterating /\ UNCHANGED walk /\ last' \in Nat
  BY NewIdNat DEF SetNext
<1>2. ASSUME StayInTable PROVE Inv'
  <2>1. /\ tables' \in [0 .. tableslen - 1 -> SUBSET Bits]
        /\ tables'[currtable] # Bits
        /\ \A t \in 0 .. tableslen - 1 : t # currtable => tables'[t] = tables[t]
    BY <1>2, Found DEF StayInTable
  <2>2. UNCHANGED <<tableslen, currtable, dirs, dirslen, currdir>>
    BY <1>2 DEF StayInTable
  <2>3. SummaryExact'
    <3>1. SUFFICES ASSUME NEW d \in 0 .. dirslen - 1, NEW s \in Bits
                   PROVE  s \in dirs[d] <=> /\ d * ENTSIZ + s < tableslen
                                           /\ tables'[d * ENTSIZ + s] = Bits
      BY <2>2 DEF SummaryExact
    <3>2. d * ENTSIZ + s \in Nat  BY DirOfSlot
    <3>3. tableslen \in Nat /\ tables[currtable] # Bits
      BY DEF Inv, TypeOK, RoomAhead
    <3>. QED  BY <2>1, <3>2, <3>3 DEF Inv, SummaryExact
  <2>. QED  BY <1>1, <2>1, <2>2, <2>3
            DEF Inv, TypeOK, RoomAhead, Growth, WalkInv, walk
<1>3. ASSUME StayInDir PROVE Inv'
  <2>1. /\ NewWord = Bits
        /\ NewDirs[currdir] # Bits
        /\ dirs' = NewDirs
        /\ dirslen' = dirslen
        /\ MoveTo(currdir, currdir * ENTSIZ + FirstUnset(NewDirs[currdir]))
    BY <1>3 DEF StayInDir, FirstFreeTable
  <2>2. currdir \in 0 .. dirslen - 1  BY Found
  <2>. QED  BY <1>1, <2>1, <2>2, NewSummary, NoGap, Move DEF Inv, TypeOK, Growth
<1>4. ASSUME MoveToFreeDir PROVE Inv'
  <2>1. /\ NewWord = Bits
        /\ dirs' = NewDirs
        /\ dirslen' = dirslen
    BY <1>4 DEF MoveToFreeDir
  <2>2. PICK d \in 0 .. dirslen - 1 :
          /\ NewDirs[d] # Bits
          /\ \A e \in 0 .. d - 1 : NewDirs[e] = Bits
          /\ MoveTo(d, d * ENTSIZ + FirstUnset(NewDirs[d]))
    BY <1>4 DEF MoveToFreeDir, FirstFreeTable
  <2>. QED  BY <1>1, <2>1, <2>2, NewSummary, NoGap, Move DEF Inv, TypeOK, Growth
<1>5. ASSUME MakeDirs PROVE Inv'
  <2>1. /\ NewWord = Bits
        /\ \A d \in 0 .. dirslen - 1 : NewDirs[d] = Bits
        /\ dirs' = [d \in 0 .. 2 * dirslen - 1 |->
                       IF d < dirslen THEN NewDirs[d] ELSE {}]
        /\ dirslen' = 2 * dirslen
        /\ MoveTo(dirslen, dirslen * ENTSIZ)
    BY <1>5 DEF MakeDirs
  <2>2. /\ dirslen \in Nat \ {0} /\ tableslen \in Nat /\ ENTSIZ \in Nat \ {0}
        /\ dirslen * ENTSIZ \in Nat /\ (dirslen - 1) * ENTSIZ \in Nat
    BY BitsetAssumption DEF Inv, TypeOK
  <2>3. tableslen = dirslen * ENTSIZ  BY <1>5, AllFull
  <2>4. /\ dirslen' \in Nat \ {0}
        /\ dirs' \in [0 .. dirslen' - 1 -> SUBSET Bits]
        /\ dirslen \in 0 .. dirslen' - 1
        /\ dirs'[dirslen] = {}
    <3>1. NewDirs \in [0 .. dirslen - 1 -> SUBSET Bits]  BY <2>1, NewSummary
    <3>. QED  BY ONLY <2>1, <2>2, <3>1
  <2>5. dirslen' * ENTSIZ \in Doublings(tableslen)
    <3>1. 2 * (dirslen * ENTSIZ) \in Doublings(tableslen)
      BY <2>2, DoublingsTwice DEF Inv, Growth
    <3>2. dirslen' * ENTSIZ = 2 * (dirslen * ENTSIZ)  BY <2>1, <2>2
    <3>. QED  BY <3>1, <3>2
  <2>6. ASSUME NEW e \in 0 .. dirslen' - 1, NEW s \in Bits
        PROVE  s \in dirs'[e] <=> /\ e * ENTSIZ + s < tableslen
                                 /\ NewTables[e * ENTSIZ + s] = Bits
    <3>1. CASE e < dirslen
      <4>1. e \in 0 .. dirslen - 1 /\ dirs'[e] = NewDirs[e]
        BY <2>1, <2>2, <3>1
      <4>. QED  BY <2>1, <4>1, NewSummary
    <3>2. CASE ~(e < dirslen)
      <4>1. dirs'[e] = {}  BY <2>1, <2>2, <3>2
      <4>2. e \in Nat /\ e * ENTSIZ \in Nat /\ s \in Nat
        BY <2>2 DEF Bits
      <4>3. dirslen * ENTSIZ <= e * ENTSIZ
        <5>1. CASE e = dirslen  BY <5>1, <2>2
        <5>2. CASE dirslen < e
          <6>1. dirslen * ENTSIZ + ENTSIZ <= e * ENTSIZ
            BY <2>2, <4>2, <5>2, MulMono
          <6>. QED  BY <2>2, <4>2, <6>1
        <5>. QED  BY <2>2, <3>2, <4>2, <5>1, <5>2
      <4>4. ~(e * ENTSIZ + s < tableslen)  BY <2>2, <2>3, <4>2, <4>3
      <4>. QED  BY <4>1, <4>4
    <3>. QED  BY <3>1, <3>2
  <2>7. 0 \in Bits /\ 0 \notin dirs'[dirslen]
    BY <2>2, <2>4 DEF Bits
  <2>8. dirslen * ENTSIZ + 0 = dirslen * ENTSIZ  BY <2>2
  <2>9. /\ MoveTo(dirslen, dirslen * ENTSIZ + 0)
        /\ dirslen * ENTSIZ + 0 <= tableslen
    BY <2>1, <2>2, <2>3, <2>8
  <2>. QED  BY <1>1, <2>1, <2>4, <2>5, <2>6, <2>7, <2>9, Move
<1>. QED  BY <1>2, <1>3, <1>4, <1>5 DEF SetNext

\* unset clears a bit, and with it the directory's claim that the table is full.
LEMMA UnsetInv ==
  ASSUME Inv, NEW t \in Nat, NEW b \in Bits, Unset(t, b)
  PROVE  Inv'
<1> DEFINE D == DirOf(t)
           S == SlotOf(t)
<1>1. /\ t \in 0 .. tableslen - 1
      /\ tables' = [tables EXCEPT ![t] = @ \ {b}]
      /\ dirs' = [dirs EXCEPT ![D] = @ \ {S}]
      /\ UNCHANGED <<tableslen, currtable, dirslen, currdir, walk, last>>
  BY DEF Unset, Inv, TypeOK
<1>2. /\ D \in 0 .. dirslen - 1
      /\ S \in Bits
      /\ t = D * ENTSIZ + S
  BY <1>1, DirEntry
<1>3. /\ tables \in [0 .. tableslen - 1 -> SUBSET Bits]
      /\ dirs \in [0 .. dirslen - 1 -> SUBSET Bits]
      /\ tableslen \in Nat
  BY DEF Inv, TypeOK
<1>4. /\ tables' \in [0 .. tableslen - 1 -> SUBSET Bits]
      /\ dirs' \in [0 .. dirslen - 1 -> SUBSET Bits]
  BY <1>1, <1>3
<1>5. tables'[t] # Bits /\ \A x \in 0 .. tableslen - 1 : x # t => tables'[x] = tables[x]
  BY <1>1, <1>3
<1>6. SummaryExact'
  <2>1. SUFFICES ASSUME NEW d \in 0 .. dirslen - 1, NEW s \in Bits
                 PROVE  s \in dirs'[d] <=> /\ d * ENTSIZ + s < tableslen
                                          /\ tables'[d * ENTSIZ + s] = Bits
    BY <1>1 DEF SummaryExact
  <2>2. PICK x \in Nat : x = d * ENTSIZ + s  BY DirOfSlot
  <2>3. s \in dirs[d] <=> x < tableslen /\ tables[x] = Bits
    BY <2>2 DEF Inv, SummaryExact
  <2>4. CASE x = t
    <3>1. d = D /\ s = S  BY <1>2, <2>2, <2>4, Split
    <3>. QED  BY <1>1, <1>3, <1>5, <2>2, <2>4, <3>1
  <2>5. CASE x # t
    <3>1. ~(d = D /\ s = S)  BY <1>2, <2>2, <2>5
    <3>2. s \in dirs'[d] <=> s \in dirs[d]  BY <1>1, <1>2, <1>3, <3>1
    <3>3. x < tableslen => tables'[x] = tables[x]
      BY <1>3, <1>5, <2>5
    <3>. QED  BY <2>2, <2>3, <3>2, <3>3
  <2>. QED  BY <2>4, <2>5
<1>7. RoomAhead'
  <2>1. currtable \in 0 .. tableslen - 1 /\ tables[currtable] # Bits
    BY DEF Inv, TypeOK, RoomAhead
  <2>. QED  BY <1>1, <1>5, <2>1 DEF Inv, RoomAhead
<1>. QED  BY <1>1, <1>4, <1>6, <1>7 DEF Inv, TypeOK, Growth, WalkInv, walk

\* The walk's actions leave the pool alone; what they return is a bit of the
\* word in hand.
LEMMA PoolUnchanged ==
  ASSUME Inv, UNCHANGED pool, TypeOK', WalkInv'
  PROVE  Inv'
BY DEF Inv, pool, SummaryExact, RoomAhead, Growth

LEMMA IteratorInitInv ==
  ASSUME Inv, NEW t \in Nat, NEW b \in Bits, IteratorInitFrom(t, b)
  PROVE  Inv'
<1>1. IdOf(t, b) \in Nat  BY BitsetAssumption DEF IdOf, Bits
<1>2. t < tableslen => FirstWord(t, b) \in SUBSET Bits
  BY DEF FirstWord, Inv, TypeOK
<1>3. TypeOK'
  BY <1>1, <1>2 DEF IteratorInitFrom, Inv, TypeOK, pool
<1>4. WalkInv'  BY DEF IteratorInitFrom, WalkInv
<1>. QED  BY <1>3, <1>4, PoolUnchanged DEF IteratorInitFrom

\* What an iterator step returns.
LEMMA IteratorStep ==
  ASSUME Inv, IteratorNext
  PROVE  \E t \in it.tableidx .. tableslen - 1, word \in SUBSET Bits :
           /\ word = IF t = it.tableidx THEN it.table ELSE tables[t]
           /\ t \in Nat
           /\ t # it.tableidx => it.table = {}
           /\ \A u \in it.tableidx + 1 .. t - 1 : tables[u] = {}
           /\ FirstSet(word) \in word
           /\ \A c \in word : FirstSet(word) <= c
           /\ last' = IdOf(t, FirstSet(word))
           /\ it' = [tableidx |-> t, table |-> word \ {FirstSet(word)}]
<1>1. /\ it.tableidx \in Nat /\ it.table \in SUBSET Bits
      /\ tableslen \in Nat
      /\ tables \in [0 .. tableslen - 1 -> SUBSET Bits]
  BY DEF Inv, TypeOK
<1>2. PICK t \in it.tableidx .. tableslen - 1 :
        LET word == IF t = it.tableidx THEN it.table ELSE tables[t]
        IN /\ word # {}
           /\ t # it.tableidx => it.table = {}
           /\ \A u \in it.tableidx + 1 .. t - 1 : tables[u] = {}
           /\ last' = IdOf(t, FirstSet(word))
           /\ it' = [tableidx |-> t, table |-> word \ {FirstSet(word)}]
  BY DEF IteratorNext
<1> DEFINE w == IF t = it.tableidx THEN it.table ELSE tables[t]
<1>3. w \in SUBSET Bits /\ t \in Nat /\ w # {}
  BY <1>1, <1>2
<1>4. w \in SUBSET Nat  BY <1>3, BitsetAssumption DEF Bits
<1>5. FirstSet(w) \in w /\ \A c \in w : FirstSet(w) <= c
  BY <1>3, <1>4, LowestExists DEF FirstSet
<1>. QED  BY <1>2, <1>3, <1>5

LEMMA IteratorNextInv ==
  ASSUME Inv, IteratorNext
  PROVE  Inv'
<1>1. PICK t \in it.tableidx .. tableslen - 1, word \in SUBSET Bits :
           /\ t \in Nat
           /\ FirstSet(word) \in word
           /\ \A c \in word : FirstSet(word) <= c
           /\ last' = IdOf(t, FirstSet(word))
           /\ it' = [tableidx |-> t, table |-> word \ {FirstSet(word)}]
  BY IteratorStep
<1>2. UNCHANGED <<pool, iterating, start>>  BY DEF IteratorNext
<1> DEFINE f == FirstSet(word)
<1>2a. /\ f \in Nat /\ f \in Bits /\ last' = t * ENTSIZ + f
       /\ \A c \in word : c \in Nat /\ f <= c
       /\ ENTSIZ \in Nat
  <2>1. ENTSIZ \in Nat /\ \A c \in Bits : c \in Nat
    BY BitsetAssumption DEF Bits
  <2>2. f \in Bits /\ \A c \in word : c \in Bits /\ f <= c  BY <1>1
  <2>3. last' = t * ENTSIZ + f  BY <1>1 DEF IdOf
  <2>. QED  BY <2>1, <2>2, <2>3
<1>3. last' \in Nat  BY <1>1, <1>2a
<1>4. TypeOK'  BY <1>1, <1>2, <1>3 DEF Inv, TypeOK, pool
<1>5. WalkInv'
  <2>1. it'.tableidx = t /\ it'.table = word \ {f}
    BY <1>1
  <2>2. \A c \in it'.table : f < c
    BY <1>2a, <2>1
  <2>. QED  BY <1>2a, <2>1, <2>2 DEF WalkInv, IdOf
<1>. QED  BY <1>2, <1>4, <1>5, PoolUnchanged

LEMMA IteratorEndInv ==
  ASSUME Inv, IteratorEnd
  PROVE  Inv'
<1>1. TypeOK'  BY DEF IteratorEnd, Inv, TypeOK, pool
<1>2. WalkInv'  BY DEF IteratorEnd, WalkInv
<1>. QED  BY <1>1, <1>2, PoolUnchanged DEF IteratorEnd

-----------------------------------------------------------------------------
\* The invariant holds in every reachable state.
THEOREM Invariance == Spec => []Inv
<1>1. Inv /\ UNCHANGED vars => Inv'
  <2> SUFFICES ASSUME Inv, UNCHANGED vars PROVE Inv'  OBVIOUS
  <2>1. UNCHANGED pool /\ UNCHANGED walk /\ UNCHANGED last  BY DEF vars
  <2>2. TypeOK' /\ WalkInv'  BY <2>1 DEF Inv, TypeOK, WalkInv, pool, walk
  <2>. QED  BY <2>1, <2>2, PoolUnchanged
<1>2. Inv /\ Next => Inv'
  <2>1. \A t \in 0 .. MaxTables : t \in Nat  BY BitsetAssumption
  <2>. QED  BY <2>1, SetNextInv, UnsetInv, IteratorInitInv, IteratorNextInv,
               IteratorEndInv DEF Next
<1>. QED  BY <1>1, <1>2, InitInv, PTL DEF Spec

\* The arrays are as long as their length fields say.
THEOREM TypeCorrect == Spec => []TypeOK
BY Invariance, PTL DEF Inv

\* The directories always tell exactly which tables are full.
THEOREM SummaryCorrect == Spec => []SummaryExact
BY Invariance, PTL DEF Inv

\* set_next always starts from a table that exists and has room.
THEOREM RoomCorrect == Spec => []RoomAhead
BY Invariance, PTL DEF Inv

\* unset never indexes past the directories.
THEOREM CoverCorrect == Spec => []DirsCoverTables
<1>1. Inv => DirsCoverTables  BY Found DEF DirsCoverTables
<1>. QED  BY <1>1, Invariance, PTL

-----------------------------------------------------------------------------
(* Refinement of IdPool.  Used and Pending are unions over tables; the     *)
(* proofs speak of (table, bit) pairs instead.                             *)

Held(x, c) == x < tableslen /\ c \in tables[x]

Ahead(x, c) == \/ x = it.tableidx /\ c \in it.table
               \/ x > it.tableidx /\ Held(x, c)

\* Ids are ordered like their (table, bit) pairs.
LEMMA IdOrder ==
  ASSUME NEW t \in Nat, NEW x \in Nat, NEW b \in Bits, NEW c \in Bits
  PROVE  /\ IdOf(t, b) \in Nat /\ IdOf(x, c) \in Nat
         /\ IdOf(t, b) = IdOf(x, c) => t = x /\ b = c
         /\ t < x => IdOf(t, b) < IdOf(x, c)
         /\ t = x => (IdOf(t, b) <= IdOf(x, c) <=> b <= c)
<1>1. /\ ENTSIZ \in Nat /\ b \in Nat /\ c \in Nat /\ b < ENTSIZ
      /\ t * ENTSIZ \in Nat /\ x * ENTSIZ \in Nat
  BY BitsetAssumption DEF Bits
<1>2. t < x => t * ENTSIZ + ENTSIZ <= x * ENTSIZ  BY MulMono
<1>3. IdOf(t, b) = IdOf(x, c) => t = x /\ b = c  BY Split DEF IdOf
<1>. QED  BY <1>1, <1>2, <1>3 DEF IdOf

LEMMA UsedHeld ==
  TypeOK => \A id : id \in Used <=>
              \E x \in Nat, c \in Bits : Held(x, c) /\ id = IdOf(x, c)
<1> SUFFICES ASSUME TypeOK, NEW id
             PROVE  id \in Used <=>
                      \E x \in Nat, c \in Bits : Held(x, c) /\ id = IdOf(x, c)
  OBVIOUS
<1>1. /\ tables \in [0 .. tableslen - 1 -> SUBSET Bits]
      /\ tableslen \in Nat
  BY DEF TypeOK
<1>2. id \in Used <=> \E t \in 0 .. tableslen - 1 : \E b \in tables[t] : id = IdOf(t, b)
  BY DEF Used, Ids
<1>. QED  BY <1>1, <1>2 DEF Held

LEMMA PendingAhead ==
  TypeOK /\ iterating =>
    \A id : id \in Pending <=>
      \E x \in Nat, c \in Bits : Ahead(x, c) /\ id = IdOf(x, c)
<1> SUFFICES ASSUME TypeOK, iterating, NEW id
             PROVE  id \in Pending <=>
                      \E x \in Nat, c \in Bits : Ahead(x, c) /\ id = IdOf(x, c)
  OBVIOUS
<1>1. /\ tables \in [0 .. tableslen - 1 -> SUBSET Bits]
      /\ tableslen \in Nat /\ it.tableidx \in Nat /\ it.table \in SUBSET Bits
  BY DEF TypeOK
<1>2. id \in Pending <=>
        \/ \E b \in it.table : id = IdOf(it.tableidx, b)
        \/ \E t \in it.tableidx + 1 .. tableslen - 1 :
             \E b \in tables[t] : id = IdOf(t, b)
  BY DEF Pending, Ids
<1>. QED  BY <1>1, <1>2 DEF Ahead, Held

\* The least element is unique.
LEMMA LeastIs ==
  ASSUME NEW S \in SUBSET Nat, NEW m \in S, \A c \in S : m <= c
  PROVE  Pool!Least(S) = m
<1>1. \A n \in S : (\A c \in S : n <= c) => n = m
  <2>1. \A n \in S : n \in Nat  OBVIOUS
  <2>. QED  BY <2>1
<1>2. Pool!Least(S) \in S /\ \A c \in S : Pool!Least(S) <= c
  BY DEF Pool!Least
<1>. QED  BY <1>1, <1>2

\* The tables after set_next: one new bit, and no other.
LEMMA SetNextTables ==
  ASSUME Inv, SetNext
  PROVE  /\ currtable \in Nat /\ NewBit \in Bits /\ ~Held(currtable, NewBit)
         /\ \A x \in Nat, c \in Bits :
              Held(x, c)' <=> Held(x, c) \/ (x = currtable /\ c = NewBit)
<1>1. /\ tableslen \in Nat /\ currtable \in 0 .. tableslen - 1
      /\ tables \in [0 .. tableslen - 1 -> SUBSET Bits]
      /\ NewTables \in [0 .. tableslen - 1 -> SUBSET Bits]
      /\ NewTables[currtable] = tables[currtable] \cup {NewBit}
      /\ \A t \in 0 .. tableslen - 1 : t # currtable => NewTables[t] = tables[t]
      /\ NewBit \in Bits \ tables[currtable]
  BY Found DEF Inv, TypeOK, RoomAhead, NewWord
<1>2. \A x \in 0 .. tableslen - 1, c \in Bits :
        c \in NewTables[x] <=> c \in tables[x] \/ (x = currtable /\ c = NewBit)
  BY <1>1
<1>3. /\ tableslen' \in Nat /\ tableslen <= tableslen'
      /\ \A x \in 0 .. tableslen' - 1 :
           tables'[x] = IF x < tableslen THEN NewTables[x] ELSE {}
  <2>1. ASSUME NEW t, ExpandTables(t)
        PROVE  /\ tableslen' \in Nat /\ tableslen <= tableslen'
               /\ \A x \in 0 .. tableslen' - 1 :
                    tables'[x] = IF x < tableslen THEN NewTables[x] ELSE {}
    <3>1. CASE t >= tableslen
      <4>1. /\ tableslen' = 2 * tableslen
            /\ tables' = [i \in 0 .. 2 * tableslen - 1 |->
                             IF i < tableslen THEN NewTables[i] ELSE {}]
        BY <2>1, <3>1 DEF ExpandTables
      <4>2. 2 * tableslen \in Nat /\ tableslen <= 2 * tableslen  BY <1>1
      <4>. QED  BY <4>1, <4>2
    <3>2. CASE ~(t >= tableslen)
      <4>1. tableslen' = tableslen /\ tables' = NewTables
        BY <2>1, <3>2 DEF ExpandTables
      <4>2. \A x \in 0 .. tableslen - 1 : x < tableslen  BY <1>1
      <4>. QED  BY <1>1, <4>1, <4>2
    <3>. QED  BY <3>1, <3>2
  <2>2. CASE StayInTable  BY <1>1, <2>2 DEF StayInTable
  <2>3. CASE StayInDir \/ MoveToFreeDir \/ MakeDirs
    BY <2>1, <2>3 DEF StayInDir, MoveToFreeDir, MakeDirs, MoveTo
  <2>. QED  BY <2>2, <2>3 DEF SetNext
<1>4. ASSUME NEW x \in Nat, NEW c \in Bits
      PROVE  Held(x, c)' <=> Held(x, c) \/ (x = currtable /\ c = NewBit)
  <2>0. PICK n \in Nat, m \in Nat : n = tableslen /\ m = tableslen'
    BY <1>1, <1>3
  <2>0a. n <= m  BY <1>3, <2>0
  <2>1. Held(x, c)' <=> x < tableslen' /\ c \in tables'[x]  BY DEF Held
  <2>2. CASE x < tableslen
    <3>1. x \in 0 .. tableslen - 1 /\ x \in 0 .. tableslen' - 1 /\ x < tableslen'
      <4>1. x < n  BY <2>0, <2>2
      <4>2. x \in 0 .. n - 1 /\ x \in 0 .. m - 1 /\ x < m
        BY ONLY <2>0a, <4>1, x \in Nat, n \in Nat, m \in Nat
      <4>. QED  BY <2>0, <4>2
    <3>2. tables'[x] = NewTables[x]  BY <1>3, <2>2, <3>1
    <3>. QED  BY <1>2, <2>1, <2>2, <3>1, <3>2 DEF Held
  <2>3. CASE ~(x < tableslen)
    <3>1. x # currtable  BY <1>1, <2>3
    <3>2. x < tableslen' => tables'[x] = {}
      <4>1. x < m => x \in 0 .. m - 1  OBVIOUS
      <4>. QED  BY <1>3, <2>0, <2>3, <4>1
    <3>. QED  BY <2>1, <2>3, <3>1, <3>2 DEF Held
  <2>. QED  BY <2>2, <2>3
<1>5. currtable \in Nat /\ NewBit \in Bits /\ ~Held(currtable, NewBit)
  BY <1>1 DEF Held
<1>. QED  BY <1>4, <1>5

\* set_next hands out an id nobody holds.
LEMMA SetNextTakes ==
  ASSUME Inv, Inv', SetNext
  PROVE  Pool!Take
<1>1. ~iterating /\ UNCHANGED walk /\ last' = IdOf(currtable, NewBit)
  BY DEF SetNext
<1>2. currtable \in Nat /\ NewBit \in Bits /\ ~Held(currtable, NewBit)
  BY SetNextTables
<1>3. last' \in Nat  BY <1>1, <1>2, IdOrder
<1>4. \A id : id \in Used <=>
        \E x \in Nat, c \in Bits : Held(x, c) /\ id = IdOf(x, c)
  BY UsedHeld DEF Inv
<1>5. \A id : id \in Used' <=>
        \E x \in Nat, c \in Bits : Held(x, c)' /\ id = IdOf(x, c)
  <2>1. (TypeOK => \A id : id \in Used <=>
           \E x \in Nat, c \in Bits : Held(x, c) /\ id = IdOf(x, c))'
    BY UsedHeld, PTL
  <2>. QED  BY <2>1 DEF Inv, IdOf
<1>6. last' \notin Used
  BY <1>1, <1>2, <1>4, IdOrder
<1>7. Used' = Used \cup {last'}
  <2>1. \A id : id \in Used' <=> id \in Used \/ id = IdOf(currtable, NewBit)
    BY <1>2, <1>4, <1>5, SetNextTables
  <2>. QED  BY <1>1, <2>1
<1>8. UNCHANGED Pending  BY <1>1 DEF Pending, walk
<1>. QED  BY <1>1, <1>3, <1>6, <1>7, <1>8 DEF Pool!Take, walk

\* unset gives back its id; inside a walk, the one just visited.
LEMMA UnsetReleases ==
  ASSUME Inv, Inv', NEW t \in Nat, NEW b \in Bits, Unset(t, b)
  PROVE  Pool!Release
<1>1. /\ t < tableslen
      /\ tables' = [tables EXCEPT ![t] = @ \ {b}]
      /\ UNCHANGED <<tableslen, walk, last>>
      /\ iterating => last = IdOf(t, b)
  BY DEF Unset
<1>2. \A x \in Nat, c \in Bits : Held(x, c)' <=> Held(x, c) /\ ~(x = t /\ c = b)
  BY <1>1 DEF Held, Inv, TypeOK
<1>3. \A id : id \in Used <=>
        \E x \in Nat, c \in Bits : Held(x, c) /\ id = IdOf(x, c)
  BY UsedHeld DEF Inv
<1>4. \A id : id \in Used' <=>
        \E x \in Nat, c \in Bits : Held(x, c)' /\ id = IdOf(x, c)
  <2>1. (TypeOK => \A id : id \in Used <=>
           \E x \in Nat, c \in Bits : Held(x, c) /\ id = IdOf(x, c))'
    BY UsedHeld, PTL
  <2>. QED  BY <2>1 DEF Inv, IdOf
<1>5. \A id \in Used' : id \in Used
  BY <1>2, <1>3, <1>4
<1>6. \A id \in Used : id \notin Used' => id = IdOf(t, b)
  BY <1>2, <1>3, <1>4
<1>7. UNCHANGED Pending
  <2>1. CASE ~iterating  BY <1>1, <2>1 DEF Pending, walk
  <2>2. CASE iterating
    <3>1. PICK e \in Bits : last = IdOf(it.tableidx, e)
      <4>1. last \in Nat /\ last # NoId
        BY <1>1, <2>2, IdOrder, BitsetAssumption
      <4>. QED  BY <2>2, <4>1 DEF Inv, WalkInv
    <3>2. it.tableidx \in Nat  BY DEF Inv, TypeOK
    <3>3. t = it.tableidx  BY <1>1, <2>2, <3>1, <3>2, IdOrder
    <3>4. \A x \in it.tableidx + 1 .. tableslen - 1 : tables'[x] = tables[x]
      BY <1>1, <3>2, <3>3 DEF Inv, TypeOK
    <3>5. UNCHANGED UNION {Ids(x) : x \in it.tableidx + 1 .. tableslen - 1}
      BY <1>1, <3>4 DEF Ids, IdOf, walk
    <3>. QED  BY <1>1, <2>2, <3>5 DEF Pending, IdOf, walk
  <2>. QED  BY <2>1, <2>2
<1>. QED  BY <1>1, <1>5, <1>6, <1>7 DEF Pool!Release, walk

\* A walk begins with exactly the ids in use from its start on.
LEMMA IteratorInitBegins ==
  ASSUME Inv, Inv', NEW t \in Nat, NEW b \in Bits, IteratorInitFrom(t, b)
  PROVE  Pool!Begin
<1>1. /\ ~iterating /\ iterating' = TRUE
      /\ start' = IdOf(t, b)
      /\ it' = [tableidx |-> t, table |-> IF t < tableslen THEN FirstWord(t, b) ELSE {}]
      /\ last' = NoId
      /\ UNCHANGED pool
  BY DEF IteratorInitFrom
<1>2. start' \in Nat  BY <1>1, IdOrder
<1>3. UNCHANGED Used  BY <1>1 DEF Used, Ids, IdOf, pool
<1>4. \A id : id \in Used <=>
        \E x \in Nat, c \in Bits : Held(x, c) /\ id = IdOf(x, c)
  BY UsedHeld DEF Inv
<1>5. \A id : id \in Pending' <=>
        \E x \in Nat, c \in Bits : Ahead(x, c)' /\ id = IdOf(x, c)
  <2>1. (TypeOK /\ iterating => \A id : id \in Pending <=>
           \E x \in Nat, c \in Bits : Ahead(x, c) /\ id = IdOf(x, c))'
    BY PendingAhead, PTL
  <2>. QED  BY <1>1, <2>1 DEF Inv, IdOf
<1>6. ASSUME NEW x \in Nat, NEW c \in Bits
      PROVE  Ahead(x, c)' <=> Held(x, c) /\ IdOf(x, c) >= start'
  <2>1. Held(x, c)' <=> Held(x, c)  BY <1>1 DEF Held, pool
  <2>2. CASE x = t
    <3>1. Ahead(x, c)' <=> t < tableslen /\ c \in FirstWord(t, b)
      BY <1>1, <2>2 DEF Ahead
    <3>2. c \in FirstWord(t, b) <=> c \in tables[t] /\ b <= c
      BY BitsetAssumption DEF FirstWord, Bits
    <3>3. b <= c <=> IdOf(t, b) <= IdOf(x, c)  BY <2>2, IdOrder
    <3>. QED  BY <1>1, <2>2, <3>1, <3>2, <3>3, IdOrder DEF Held
  <2>3. CASE x > t
    <3>1. IdOf(t, b) < IdOf(x, c)  BY <2>3, IdOrder
    <3>2. Ahead(x, c)' <=> Held(x, c)  BY <1>1, <2>1, <2>3 DEF Ahead
    <3>. QED  BY <1>1, <3>1, <3>2, IdOrder
  <2>4. CASE x < t
    <3>1. IdOf(x, c) < IdOf(t, b)  BY <2>4, IdOrder
    <3>2. ~Ahead(x, c)'  BY <1>1, <2>4 DEF Ahead
    <3>. QED  BY <1>1, <3>1, <3>2, IdOrder
  <2>. QED  BY <2>2, <2>3, <2>4
<1>7. Pending' = {id \in Used : id >= start'}
  BY <1>4, <1>5, <1>6
<1>. QED  BY <1>1, <1>2, <1>3, <1>7 DEF Pool!Begin

\* A step of the walk visits the least id not visited yet.
LEMMA IteratorNextVisits ==
  ASSUME Inv, Inv', IteratorNext
  PROVE  Pool!Visit
<1>1. PICK t \in it.tableidx .. tableslen - 1, word \in SUBSET Bits :
           /\ word = IF t = it.tableidx THEN it.table ELSE tables[t]
           /\ t \in Nat
           /\ t # it.tableidx => it.table = {}
           /\ \A u \in it.tableidx + 1 .. t - 1 : tables[u] = {}
           /\ FirstSet(word) \in word
           /\ \A c \in word : FirstSet(word) <= c
           /\ last' = IdOf(t, FirstSet(word))
           /\ it' = [tableidx |-> t, table |-> word \ {FirstSet(word)}]
  BY IteratorStep
<1> DEFINE f == FirstSet(word)
<1>2. iterating /\ iterating' /\ UNCHANGED <<pool, start>>
  BY DEF IteratorNext
<1>3. /\ f \in Bits /\ it.tableidx \in Nat /\ tableslen \in Nat
      /\ it.tableidx <= t /\ t < tableslen
  BY <1>1 DEF Inv, TypeOK
<1>4. UNCHANGED Used  BY <1>2 DEF Used, Ids, IdOf, pool
<1>5. \A id : id \in Pending <=>
        \E x \in Nat, c \in Bits : Ahead(x, c) /\ id = IdOf(x, c)
  BY <1>2, PendingAhead DEF Inv
<1>6. \A id : id \in Pending' <=>
        \E x \in Nat, c \in Bits : Ahead(x, c)' /\ id = IdOf(x, c)
  <2>1. (TypeOK /\ iterating => \A id : id \in Pending <=>
           \E x \in Nat, c \in Bits : Ahead(x, c) /\ id = IdOf(x, c))'
    BY PendingAhead, PTL
  <2>. QED  BY <1>2, <2>1 DEF Inv, IdOf
<1>7. ASSUME NEW x \in Nat, NEW c \in Bits
      PROVE  /\ Ahead(x, c) <=> (x = t /\ c \in word) \/ (x > t /\ Held(x, c))
             /\ Ahead(x, c)' <=> Ahead(x, c) /\ ~(x = t /\ c = f)
  <2>1. Held(x, c)' <=> Held(x, c)  BY <1>2 DEF Held, pool
  <2>2. Ahead(x, c) <=> (x = t /\ c \in word) \/ (x > t /\ Held(x, c))
    <3>1. CASE t = it.tableidx  BY <1>1, <3>1 DEF Ahead
    <3>2. CASE t # it.tableidx
      <4>1. it.tableidx < t /\ it.table = {} /\ word = tables[t]
        BY <1>1, <1>3, <3>2
      <4>2. CASE x < t
        <5>1. x > it.tableidx => tables[x] = {}
          BY <1>1, <1>3, <4>2
        <5>. QED  BY <1>3, <4>1, <4>2, <5>1 DEF Ahead, Held
      <4>3. CASE x = t  BY <1>3, <4>1, <4>3 DEF Ahead, Held
      <4>4. CASE x > t  BY <1>3, <4>1, <4>4 DEF Ahead
      <4>. QED  BY <1>3, <4>2, <4>3, <4>4
    <3>. QED  BY <3>1, <3>2
  <2>3. Ahead(x, c)' <=> (x = t /\ c \in word \ {f}) \/ (x > t /\ Held(x, c))
    BY <1>1, <2>1 DEF Ahead
  <2>. QED  BY <1>3, <2>2, <2>3
<1>8. Ahead(t, f)  BY <1>1, <1>3, <1>7
<1>9. last' \in Pending  BY <1>1, <1>3, <1>5, <1>8
<1>10. ASSUME NEW id \in Pending PROVE id \in Nat /\ last' <= id
  <2>1. PICK x \in Nat, c \in Bits : Ahead(x, c) /\ id = IdOf(x, c)  BY <1>5
  <2>2. (x = t /\ c \in word) \/ x > t  BY <1>7, <2>1
  <2>3. x = t /\ c \in word => f <= c  BY <1>1
  <2>. QED  BY <1>1, <1>3, <2>1, <2>2, <2>3, IdOrder
<1>11. last' = Pool!Least(Pending)
  <2>1. Pending \in SUBSET Nat  BY <1>10
  <2>. QED  BY <1>9, <1>10, <2>1, LeastIs
<1>12. Pending' = Pending \ {last'}
  <2>1. \A id \in Pending' : id \in Pending /\ id # last'
    BY <1>1, <1>3, <1>5, <1>6, <1>7, IdOrder
  <2>2. \A id \in Pending : id # last' => id \in Pending'
    BY <1>1, <1>5, <1>6, <1>7
  <2>. QED  BY <2>1, <2>2
<1>. QED  BY <1>2, <1>4, <1>9, <1>11, <1>12 DEF Pool!Visit

\* The walk ends when nothing is left to visit.
LEMMA IteratorEndEnds ==
  ASSUME Inv, Inv', IteratorEnd
  PROVE  Pool!End
<1>1. /\ iterating /\ iterating' = FALSE /\ start' = 0
      /\ it.table = {}
      /\ \A u \in it.tableidx + 1 .. tableslen - 1 : tables[u] = {}
      /\ UNCHANGED <<pool, last>>
  BY DEF IteratorEnd
<1>2. Pending = {}  BY <1>1 DEF Pending, Ids
<1>3. Pending' = {}  BY <1>1 DEF Pending
<1>4. UNCHANGED Used  BY <1>1 DEF Used, Ids, IdOf, pool
<1>. QED  BY <1>1, <1>2, <1>3, <1>4 DEF Pool!End

\* The directories double only when every id they cover is in use.
THEOREM GrowthCorrect == Spec => GrowsOnlyWhenFull
<1> DEFINE Full == dirslen' # dirslen =>
                     \A t \in 0 .. dirslen * ENTSIZ - 1 :
                       t < tableslen' /\ tables'[t] = Bits
<1>1. Inv /\ [Next]_vars => [Full]_vars
  <2> SUFFICES ASSUME Inv, Next, dirslen' # dirslen,
                      NEW t \in 0 .. dirslen * ENTSIZ - 1
               PROVE  t < tableslen' /\ tables'[t] = Bits
    OBVIOUS
  <2>1. MakeDirs
    BY DEF Next, SetNext, StayInTable, StayInDir, MoveToFreeDir, Unset,
           IteratorInitFrom, IteratorNext, IteratorEnd, pool
  <2> DEFINE T == dirslen * ENTSIZ
  <2>2. T \in Nat /\ tableslen = T /\ \A x \in 0 .. tableslen - 1 : NewTables[x] = Bits
    BY <2>1, AllFull
  <2>3. ExpandTables(T)  BY <2>1 DEF MakeDirs, MoveTo
  <2>4. tableslen \in Nat \ {0} /\ NewTables \in [0 .. tableslen - 1 -> SUBSET Bits]
    BY Found DEF Inv, TypeOK
  <2>. HIDE DEF T
  <2>5. T <= tableslen /\ ~(T < tableslen)  BY <2>2
  <2>6. \A x \in Nat : x < tableslen' /\ tables'[x] = Bits
                     <=> x < tableslen /\ NewTables[x] = Bits
    BY <2>2, <2>3, <2>4, <2>5, Expanded
  <2>7. t \in 0 .. tableslen - 1 /\ t \in Nat /\ t < tableslen
    BY <2>2 DEF T
  <2>. QED  BY <2>2, <2>6, <2>7
<1>. QED  BY <1>1, Invariance, PTL DEF Spec, GrowsOnlyWhenFull

\* Every behaviour of the bitmap is a behaviour of the pool.
THEOREM Refinement == Spec => ImplementsIdPool
<1>1. Init => Pool!Init
  <2>1. Init => Used = {}  BY BitsetAssumption DEF Init, Used, Ids
  <2>2. Init => Pending = {}  BY DEF Init, Pending
  <2>. QED  BY <2>1, <2>2 DEF Init, Pool!Init
<1>2. Inv /\ Inv' /\ [Next]_vars => [Pool!Next]_Pool!vars
  <2> SUFFICES ASSUME Inv, Inv', [Next]_vars PROVE [Pool!Next]_Pool!vars
    OBVIOUS
  <2>1. CASE UNCHANGED vars
    BY <2>1 DEF vars, pool, walk, Pool!vars, Used, Pending, Ids, IdOf
  <2>2. CASE SetNext
    BY <2>2, SetNextTakes DEF Pool!Next
  <2>3. ASSUME NEW t \in 0 .. MaxTables, NEW b \in Bits,
               Unset(t, b) \/ IteratorInitFrom(t, b)
        PROVE  Pool!Next
    <3>1. t \in Nat  BY BitsetAssumption
    <3>. QED  BY <2>3, <3>1, UnsetReleases, IteratorInitBegins DEF Pool!Next
  <2>4. CASE IteratorNext  BY <2>4, IteratorNextVisits DEF Pool!Next
  <2>5. CASE IteratorEnd  BY <2>5, IteratorEndEnds DEF Pool!Next
  <2>. QED  BY <2>1, <2>2, <2>3, <2>4, <2>5 DEF Next
<1>. QED  BY <1>1, <1>2, Invariance, PTL DEF Spec, Pool!Spec, ImplementsIdPool
=============================================================================
