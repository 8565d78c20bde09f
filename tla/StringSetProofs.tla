-------------------------- MODULE StringSetProofs ---------------------------
(***************************************************************************)
(* Proofs about StringSet, for every hash function, any number of strings  *)
(* and every even size of a new table.                                     *)
(***************************************************************************)
EXTENDS StringSet, TLAPS, FiniteSetTheorems, WellFoundedInduction

-----------------------------------------------------------------------------
(* Arithmetic of probes *)

\* Dividing n * q + k by n leaves k.
LEMMA Remainder ==
  ASSUME NEW n \in Nat \ {0}, NEW q \in Nat, NEW k \in 0 .. n - 1
  PROVE  (n * q + k) % n = k
<1> DEFINE x == n * q + k
           d == x \div n
           r == x % n
<1>1. n * q \in Nat /\ x \in Nat
  OBVIOUS
<1>2. d \in Nat /\ r \in 0 .. n - 1 /\ x = n * d + r
  BY <1>1
<1> HIDE DEF d, r
<1>3. ASSUME NEW a \in Nat, NEW b \in Nat, a < b
      PROVE  n * a + n <= n * b
  <2> DEFINE c == b - a - 1
  <2>1. c \in Nat /\ b = a + 1 + c
    BY <1>3
  <2> HIDE DEF c
  <2>2. n * b = n * a + n + n * c
    BY <2>1
  <2>3. n * c \in Nat /\ n * a \in Nat
    BY <2>1
  <2> QED
    BY <2>2, <2>3
<1>4. n * d \in Nat
  BY <1>2
<1>5. ~(d < q) /\ ~(q < d)
  <2>1. d < q => n * d + n <= n * q
    BY <1>2, <1>3
  <2>2. q < d => n * q + n <= n * d
    BY <1>2, <1>3
  <2> QED
    BY ONLY <1>1, <1>2, <1>4, <2>1, <2>2, n \in Nat \ {0}, k \in 0 .. n - 1
<1>6. d = q
  BY <1>2, <1>5
<1>7. r = k
  BY <1>1, <1>2, <1>6
<1> QED
  BY <1>7 DEF r

\* From any home, n probes reach every one of n slots.
LEMMA Onto ==
  ASSUME NEW n \in Nat \ {0}, NEW h \in Nat, NEW k \in 0 .. n - 1
  PROVE  \E i \in 0 .. n - 1 : (h + i) % n = k
<1> DEFINE q == h \div n
           r == h % n
<1>1. q \in Nat /\ r \in 0 .. n - 1 /\ h = n * q + r
  OBVIOUS
<1> HIDE DEF q, r
<1>2. CASE r <= k
  <2>1. k - r \in 0 .. n - 1 /\ h + (k - r) = n * q + k
    BY <1>1, <1>2
  <2>2. (h + (k - r)) % n = k
    BY <1>1, <2>1, Remainder
  <2> QED
    BY <2>1, <2>2
<1>3. CASE k < r
  <2>1. n * q \in Nat
    BY <1>1
  <2>2. k - r + n \in 0 .. n - 1 /\ h + (k - r + n) = n * q + n + k
    BY <1>1, <1>3, <2>1
  <2>3. n * (q + 1) = n * q + n /\ q + 1 \in Nat
    BY <1>1
  <2>4. h + (k - r + n) = n * (q + 1) + k
    BY <2>2, <2>3
  <2>5. (h + (k - r + n)) % n = k
    BY <2>3, <2>4, Remainder
  <2> QED
    BY <2>2, <2>5
<1> QED
  BY <1>1, <1>2, <1>3

\* Every set of natural numbers that is not empty has a least element.
LEMMA LeastExists ==
  ASSUME NEW S \in SUBSET Nat, S # {}
  PROVE  \E i \in S : \A j \in S : i <= j
<1>1. PICK x \in S : \A y \in S : ~(<<y, x>> \in OpToRel(<, Nat))
  BY NatLessThanWellFounded, WFMin
<1>2. ASSUME NEW y \in S, y < x
      PROVE  FALSE
  BY <1>1, <1>2 DEF OpToRel
<1> QED
  BY <1>2

-----------------------------------------------------------------------------
(* The inductive invariant *)

\* How full the table is, although grow forgets to count: each doubling leaves
\* half a new table's slots out.
Fill ==
  /\ size \in Nat \ {0} /\ size % 2 = 0
  /\ todo = Null => /\ 2 * Cardinality(Taken) + Size = 2 * len + size
                    /\ 2 * len <= size
  /\ todo # Null => /\ 2 * (Cardinality(Taken) + Cardinality(Waiting)) + Size = size
                    /\ len = 0
                    /\ from <= size \div 2

\* Strings that wait to be moved are in one place only.
NoTwoPlaces ==
  /\ \A i, j \in Waiting : oldkeys[i] = oldkeys[j] => i = j
  /\ \A i \in Taken, j \in Waiting : keys[i] # oldkeys[j]

\* The numbers given out are those before next.
Numbers ==
  /\ IsFiniteSet(Stored) /\ next = Cardinality(Stored) + 1
  /\ \A i \in Taken : vals[i] \in 1 .. next - 1
  /\ \A i \in Waiting : oldvals[i] \in 1 .. next - 1

Inv == TypeOK /\ Fill /\ KeysFound /\ NoTwoPlaces /\ Numbers

-----------------------------------------------------------------------------
(* Searching *)

LEMMA SlotRange ==
  ASSUME TypeOK, size # 0, NEW s \in Strings, NEW i \in Nat
  PROVE  Slot(s, i) \in 0 .. size - 1
<1>1. Hash[s] \in Nat /\ size \in Nat \ {0}
  BY StringSetAssumption DEF TypeOK
<1> QED
  BY <1>1 DEF Slot

\* The search for s ends at its first stop.
LEMMA FindStops ==
  ASSUME TypeOK, size # 0, NEW s \in Strings, Stops(s) # {}
  PROVE  \E i \in Stops(s) : /\ Find(s) = Slot(s, i)
                             /\ \A j \in Stops(s) : i <= j
                             /\ Find(s) \in 0 .. size - 1
                             /\ keys[Find(s)] \in {s, Null}
<1>1. Stops(s) \in SUBSET Nat
  BY DEF Stops, TypeOK
<1>2. \E i \in Stops(s) : \A j \in Stops(s) : i <= j
  BY <1>1, LeastExists
<1> DEFINE first == CHOOSE i \in Stops(s) : \A j \in Stops(s) : i <= j
<1>3. first \in Stops(s) /\ \A j \in Stops(s) : first <= j
  BY <1>2
<1>4. Find(s) = Slot(s, first)
  BY DEF Find
<1>5. Slot(s, first) \in 0 .. size - 1
  BY <1>1, <1>3, SlotRange
<1>6. keys[Slot(s, first)] \in {s, Null}
  BY <1>3 DEF Stops
<1> QED
  BY <1>3, <1>4, <1>5, <1>6

LEMMA FindStopsNext ==
  ASSUME NEW s \in Strings
  PROVE  (TypeOK /\ size # 0 /\ Stops(s) # {} =>
            \E i \in Stops(s) : Find(s) = Slot(s, i) /\ \A j \in Stops(s) : i <= j)'
<1>1. TypeOK /\ size # 0 /\ Stops(s) # {} =>
        \E i \in Stops(s) : Find(s) = Slot(s, i) /\ \A j \in Stops(s) : i <= j
  BY FindStops
<1> QED
  BY <1>1, PTL

LEMMA TakenFinite ==
  ASSUME TypeOK
  PROVE  /\ IsFiniteSet(Taken) /\ Cardinality(Taken) \in Nat
         /\ IsFiniteSet(Waiting) /\ Cardinality(Waiting) \in Nat
<1>1. IsFiniteSet(0 .. size - 1) /\ IsFiniteSet(0 .. (size \div 2) - 1)
  BY FS_Interval DEF TypeOK
<1>2. Taken \subseteq 0 .. size - 1
  BY DEF TypeOK, Table, Taken
<1>3. Waiting \subseteq 0 .. (size \div 2) - 1
  BY DEF TypeOK, Table, Waiting, NoTable
<1> QED
  BY <1>1, <1>2, <1>3, FS_Subset, FS_CardinalityType

\* There is always room.
LEMMA Room ==
  ASSUME TypeOK, Fill
  PROVE  /\ 2 * Cardinality(Taken) <= 2 * size - Size
         /\ \A s \in Strings : Free(s) # {} /\ Stops(s) # {}
<1>1. Cardinality(Taken) \in Nat /\ Cardinality(Waiting) \in Nat
  BY TakenFinite
<1>2. size \in Nat \ {0} /\ Size \in Nat \ {0} /\ len \in Nat
  BY StringSetAssumption DEF TypeOK, Fill
<1>3. 2 * Cardinality(Taken) <= 2 * size - Size
  BY <1>1, <1>2 DEF Fill
<1>4. \E k \in 0 .. size - 1 : keys[k] = Null
  <2> SUFFICES ASSUME \A k \in 0 .. size - 1 : keys[k] # Null PROVE FALSE
    OBVIOUS
  <2>1. Taken = 0 .. size - 1
    BY DEF Taken, TypeOK, Table
  <2>2. Cardinality(Taken) = size
    BY <1>2, <2>1, FS_Interval
  <2> QED
    BY <1>2, <1>3, <2>2
<1>5. ASSUME NEW s \in Strings PROVE Free(s) # {} /\ Stops(s) # {}
  <2>1. PICK k \in 0 .. size - 1 : keys[k] = Null
    BY <1>4
  <2>2. Hash[s] \in Nat
    BY StringSetAssumption
  <2>3. PICK i \in 0 .. size - 1 : (Hash[s] + i) % size = k
    BY <1>2, <2>2, Onto
  <2> QED
    BY <2>1, <2>3 DEF Free, Stops, Slot
<1> QED
  BY <1>3, <1>5

\* A string in the table is found, one that is not ends at an empty slot.
LEMMA Search ==
  ASSUME Inv, NEW s \in Strings
  PROVE  /\ Find(s) \in 0 .. size - 1
         /\ keys[Find(s)] = s \/ keys[Find(s)] = Null
         /\ keys[Find(s)] = s <=> \E i \in Taken : keys[i] = s
         /\ \A i \in Taken : keys[i] = s => i = Find(s)
<1>1. Find(s) \in 0 .. size - 1 /\ keys[Find(s)] \in {s, Null}
  BY Room, FindStops DEF Inv, Fill
<1>2. \A i \in Taken : keys[i] = s => i = Find(s)
  BY DEF Inv, KeysFound
<1>3. keys[Find(s)] = s => Find(s) \in Taken
  BY <1>1, StringSetAssumption DEF Taken, Inv, TypeOK, Table
<1> QED
  BY <1>1, <1>2, <1>3

\* The first empty slot is where the search for a string ends that is not there.
LEMMA FreeIsFind ==
  ASSUME Inv, NEW s \in Strings, keys[Find(s)] = Null
  PROVE  FirstFree(s) = Find(s)
<1>1. PICK i \in Stops(s) : Find(s) = Slot(s, i) /\ \A j \in Stops(s) : i <= j
  BY Room, FindStops DEF Inv, Fill
<1>2. Free(s) \subseteq Stops(s) /\ i \in Free(s) /\ Stops(s) \subseteq Nat
  BY <1>1 DEF Free, Stops, Inv, TypeOK
<1>3. (CHOOSE k \in Free(s) : \A j \in Free(s) : k <= j) = i
  <2>1. \A k \in Free(s) : (\A j \in Free(s) : k <= j) => k = i
    BY <1>1, <1>2
  <2>2. \A j \in Free(s) : i <= j
    BY <1>1, <1>2
  <2> QED
    BY <1>2, <2>1, <2>2
<1> QED
  BY <1>1, <1>3 DEF FirstFree

\* A string put where the search for it ends is found there, and the others are
\* found where they were: the slot was nobody's stop but an empty one's.
LEMMA PutIn ==
  ASSUME Inv, NEW s \in Strings, keys[Find(s)] = Null,
         keys' = [keys EXCEPT ![Find(s)] = s], size' = size,
         TypeOK', \A t \in Strings : Stops(t)' # {}
  PROVE  /\ Taken' = Taken \cup {Find(s)} /\ Find(s) \notin Taken
         /\ KeysFound'
         /\ \A i \in Taken : keys'[i] = keys[i]
<1> PICK slot \in 0 .. size - 1 : slot = Find(s)
  BY Search
<1>1. /\ keys'[slot] = s
      /\ \A i \in 0 .. size - 1 : i # slot => keys'[i] = keys[i]
      /\ DOMAIN keys' = DOMAIN keys /\ DOMAIN keys = 0 .. size - 1
  BY DEF Inv, TypeOK, Table
<1>2. Taken' = Taken \cup {slot} /\ slot \notin Taken
  BY <1>1, StringSetAssumption DEF Taken
<1>3. \A i \in Taken : keys'[i] = keys[i]
  BY <1>1, <1>2 DEF Taken
<1>4. size # 0 /\ size' # 0
  BY DEF Inv, Fill
<1>5. ASSUME NEW t \in Strings
      PROVE  \E i \in Stops(t)' : /\ Find(t)' = Slot(t, i)'
                                  /\ \A j \in Stops(t)' : i <= j
  BY <1>4, FindStopsNext
<1>6. ASSUME NEW k \in Taken'
      PROVE  Find(keys[k])' = k
  <2> PICK t \in Strings : t = keys'[k]
    BY <1>1, <1>6 DEF TypeOK, Table, Taken
  <2>1. PICK i \in Stops(t)' : /\ Find(t)' = Slot(t, i)'
                               /\ \A j \in Stops(t)' : i <= j
    BY <1>5
  <2>2. \A j \in Nat : Slot(t, j)' = Slot(t, j)
    BY DEF Slot
  <2>3. i \in Nat /\ Stops(t) \subseteq Nat /\ Stops(t)' \subseteq Nat
    BY DEF Stops, Inv, TypeOK
  <2>4. PICK i0 \in Stops(t) : /\ Find(t) = Slot(t, i0)
                               /\ \A j \in Stops(t) : i0 <= j
    BY <1>4, Room, FindStops DEF Inv
  <2>5. CASE k = slot
    <3>1. t = s
      BY <1>1, <2>5
    <3>2. Slot(t, i0) = slot
      BY <2>4, <3>1
    <3>3. i0 \in Stops(t)'
      BY <1>1, <2>2, <2>3, <3>1, <3>2 DEF Stops
    <3>4. i \in Stops(t)
      <4>1. Slot(t, i) \in 0 .. size - 1
        BY <1>4, <2>3, SlotRange DEF Inv
      <4>2. keys'[Slot(t, i)] \in {t, Null} /\ i \in 0 .. size - 1
        BY <2>1, <2>2, <2>3 DEF Stops
      <4>3. CASE Slot(t, i) = slot
        BY <4>2, <4>3 DEF Stops
      <4>4. CASE Slot(t, i) # slot
        BY <1>1, <4>1, <4>2, <4>4 DEF Stops
      <4> QED
        BY <4>3, <4>4
    <3>5. i = i0
      BY <2>1, <2>3, <2>4, <3>3, <3>4
    <3> QED
      BY <2>1, <2>2, <2>3, <2>5, <3>2, <3>5
  <2>6. CASE k # slot
    <3>1. k \in Taken /\ t = keys[k]
      BY <1>1, <1>2, <1>6, <2>6 DEF Taken
    <3>2. Slot(t, i0) = k
      BY <2>4, <3>1 DEF Inv, KeysFound
    <3>3. t # s
      BY <3>1, Search, StringSetAssumption
    <3>4. i0 \in Stops(t)'
      BY <1>1, <2>2, <2>3, <2>6, <3>1, <3>2 DEF Stops, Taken
    <3>5. i \in Stops(t)
      <4>1. Slot(t, i) \in 0 .. size - 1
        BY <1>4, <2>3, SlotRange DEF Inv
      <4>2. keys'[Slot(t, i)] \in {t, Null} /\ i \in 0 .. size - 1
        BY <2>1, <2>2, <2>3 DEF Stops
      <4>3. Slot(t, i) # slot
        BY <1>1, <3>3, <4>2, StringSetAssumption
      <4> QED
        BY <1>1, <4>1, <4>2, <4>3 DEF Stops
    <3>6. i = i0
      BY <2>1, <2>3, <2>4, <3>4, <3>5
    <3> QED
      BY <2>1, <2>2, <2>3, <3>2, <3>6
  <2> QED
    BY <2>5, <2>6
<1>7. KeysFound'
  BY <1>6 DEF KeysFound
<1> QED
  BY <1>2, <1>3, <1>7

-----------------------------------------------------------------------------
(* The steps keep the invariant *)

LEMMA RoomNext == (TypeOK /\ Fill => \A s \in Strings : Stops(s) # {})'
<1>1. TypeOK /\ Fill => \A s \in Strings : Stops(s) # {}
  BY Room
<1> QED
  BY <1>1, PTL

\* The slots in use after a string is put where the search for it ends.
LEMMA PutTaken ==
  ASSUME Inv, NEW s \in Strings, keys[Find(s)] = Null,
         keys' = [keys EXCEPT ![Find(s)] = s]
  PROVE  /\ Taken' = Taken \cup {Find(s)} /\ Find(s) \notin Taken
         /\ Cardinality(Taken') = Cardinality(Taken) + 1
         /\ {keys'[i] : i \in Taken'} = {keys[i] : i \in Taken} \cup {s}
<1> PICK slot \in 0 .. size - 1 : slot = Find(s)
  BY Search
<1>1. /\ keys'[slot] = s
      /\ \A i \in 0 .. size - 1 : i # slot => keys'[i] = keys[i]
      /\ DOMAIN keys' = DOMAIN keys /\ DOMAIN keys = 0 .. size - 1
  BY DEF Inv, TypeOK, Table
<1>2. Taken' = Taken \cup {slot} /\ slot \notin Taken
  BY <1>1, StringSetAssumption DEF Taken
<1>3. Cardinality(Taken') = Cardinality(Taken) + 1
  BY <1>2, TakenFinite, FS_AddElement DEF Inv
<1>4. {keys'[i] : i \in Taken'} = {keys[i] : i \in Taken} \cup {s}
  BY <1>1, <1>2 DEF Taken
<1> QED
  BY <1>2, <1>3, <1>4

LEMMA InitInv == Init => Inv
<1> SUFFICES ASSUME Init PROVE Inv
  OBVIOUS
<1>1. Size \in Nat \ {0} /\ Size % 2 = 0
  BY StringSetAssumption
<1>2. TypeOK
  BY <1>1 DEF Init, TypeOK, Table
<1>3. Taken = {} /\ Waiting = {} /\ Stored = {}
  BY DEF Init, Taken, Waiting, Stored, NoTable
<1>4. Cardinality({}) = 0 /\ IsFiniteSet({})
  BY FS_EmptySet
<1>5. Fill
  BY <1>1, <1>3, <1>4 DEF Init, Fill
<1> QED
  BY <1>2, <1>3, <1>4, <1>5 DEF Init, Inv, KeysFound, NoTwoPlaces, Numbers

\* put's loop, in a table with room and nothing left to move.
LEMMA InsertInv ==
  ASSUME Inv, NEW s \in Strings, Insert(s), size' = size, todo' = Null, TypeOK',
         Waiting = {}, Waiting' = {},
         2 * Cardinality(Taken) + Size = 2 * len + size, len < size \div 2
  PROVE  /\ Inv'
         /\ \/ UNCHANGED <<keys, vals>> /\ s \in Stored /\ answer' = vals[Find(s)]
               /\ keys[Find(s)] = s
            \/ /\ s \notin Stored /\ Stored' = Stored \cup {s} /\ answer' = next
               /\ Find(s) \notin Taken /\ Taken' = Taken \cup {Find(s)}
               /\ keys'[Find(s)] = s /\ vals'[Find(s)] = next
               /\ \A i \in Taken : keys'[i] = keys[i] /\ vals'[i] = vals[i]
<1> USE DEF Inv
<1> DEFINE slot == Find(s)
<1>1. /\ slot \in 0 .. size - 1
      /\ keys[slot] = s <=> \E i \in Taken : keys[i] = s
  BY Search
<1>2. Stored = {keys[i] : i \in Taken} /\ Stored' = {keys'[i] : i \in Taken'}
  BY DEF Stored
<1>3. keys[slot] = s <=> s \in Stored
  BY <1>1, <1>2
<1>4. NoTwoPlaces'
  BY DEF NoTwoPlaces
<1>5. size \in Nat \ {0} /\ size % 2 = 0 /\ len \in Nat /\ Cardinality(Taken) \in Nat
  BY TakenFinite DEF TypeOK, Fill
<1>6. CASE keys[slot] = s /\ answer' = vals[slot] /\ UNCHANGED <<keys, vals, len, next>>
  <2>1. Taken' = Taken
    BY <1>6 DEF Taken
  <2>2. Fill'
    BY <1>5, <1>6, <2>1 DEF Fill
  <2>3. \A t : Find(t)' = Find(t)
    BY <1>6 DEF Find, Stops, Slot
  <2>4. KeysFound'
    BY <1>6, <2>1, <2>3 DEF KeysFound
  <2>5. Numbers'
    BY <1>2, <1>6, <2>1 DEF Numbers
  <2> QED
    BY <1>3, <1>4, <1>6, <2>2, <2>4, <2>5
<1>7. CASE /\ keys[slot] = Null
           /\ keys' = [keys EXCEPT ![slot] = s]
           /\ vals' = [vals EXCEPT ![slot] = next]
           /\ len' = len + 1 /\ next' = next + 1 /\ answer' = next
  <2>1. /\ Taken' = Taken \cup {slot} /\ slot \notin Taken
        /\ Cardinality(Taken') = Cardinality(Taken) + 1
        /\ Stored' = Stored \cup {s}
    BY <1>2, <1>7, PutTaken
  <2>2. Fill'
    BY <1>5, <1>7, <2>1, StringSetAssumption DEF Fill
  <2>3. \A t \in Strings : Stops(t)' # {}
    BY <2>2, RoomNext
  <2>4. KeysFound' /\ \A i \in Taken : keys'[i] = keys[i]
    BY <1>7, <2>3, PutIn
  <2>5. s \notin Stored
    BY <1>3, <1>7, StringSetAssumption
  <2>6. /\ vals'[slot] = next /\ keys'[slot] = s
        /\ \A i \in Taken : vals'[i] = vals[i]
    BY <1>1, <1>7, <2>1 DEF TypeOK, Table
  <2>7. Numbers'
    <3>1. /\ IsFiniteSet(Stored') /\ Cardinality(Stored') = Cardinality(Stored) + 1
          /\ Cardinality(Stored) \in Nat
      BY <2>1, <2>5, FS_AddElement, FS_CardinalityType DEF Numbers
    <3>2. \A i \in Taken' : vals'[i] \in 1 .. next' - 1
      BY <1>7, <2>1, <2>6, <3>1 DEF Numbers
    <3> QED
      BY <1>7, <3>1, <3>2 DEF Numbers
  <2> QED
    BY <1>4, <1>7, <2>1, <2>2, <2>4, <2>5, <2>6, <2>7
<1> QED
  BY <1>6, <1>7 DEF Insert

\* The types after put's loop.
LEMMA InsertTypes ==
  ASSUME Inv, NEW s \in Strings, Insert(s), size' = size
  PROVE  /\ len' \in Nat /\ next' \in Nat /\ answer' \in Nat
         /\ Table(keys, vals, size)'
<1> USE DEF Inv
<1> PICK slot \in 0 .. size - 1 : slot = Find(s)
  BY Search
<1>1. /\ keys \in [0 .. size - 1 -> Strings \cup {Null}] /\ vals \in [0 .. size - 1 -> Nat]
      /\ len \in Nat /\ next \in Nat
  BY DEF TypeOK, Table
<1>2. CASE /\ keys[slot] = s /\ answer' = vals[slot]
           /\ UNCHANGED <<keys, vals, len, next>>
  BY <1>1, <1>2 DEF Table
<1>3. CASE /\ keys' = [keys EXCEPT ![slot] = s]
           /\ vals' = [vals EXCEPT ![slot] = next]
           /\ len' = len + 1 /\ next' = next + 1 /\ answer' = next
  <2>1. keys' \in [0 .. size - 1 -> Strings \cup {Null}]
    BY <1>1, <1>3
  <2>2. vals' \in [0 .. size - 1 -> Nat]
    BY <1>1, <1>3
  <2> QED
    BY <1>1, <1>3, <2>1, <2>2 DEF Table
<1> QED
  BY <1>2, <1>3 DEF Insert

LEMMA PutInv == ASSUME Inv, NEW s \in Strings, Put(s) PROVE Inv'
<1> USE DEF Inv
<1>1. Waiting = {} /\ Waiting' = {}
  BY DEF Put, TypeOK, Waiting, NoTable
<1>2. TypeOK'
  BY InsertTypes DEF Put, TypeOK
<1>3. 2 * Cardinality(Taken) + Size = 2 * len + size /\ len < size \div 2
  BY DEF Put, Crowded, Fill, TypeOK
<1> QED
  BY <1>1, <1>2, <1>3, InsertInv DEF Put

LEMMA PutGrownReady ==
  ASSUME Inv, PutGrown
  PROVE  /\ todo \in Strings /\ Insert(todo) /\ size' = size /\ todo' = Null
         /\ TypeOK' /\ Waiting = {} /\ Waiting' = {}
         /\ 2 * Cardinality(Taken) + Size = 2 * len + size /\ len < size \div 2
<1> USE DEF Inv
<1>1. todo \in Strings /\ todo # Null
  BY DEF PutGrown, TypeOK
<1>2. DOMAIN oldkeys = 0 .. (size \div 2) - 1 /\ size \in Nat \ {0} /\ size % 2 = 0
  BY <1>1 DEF TypeOK, Table, Fill
<1>3. Waiting = {}
  BY <1>1, <1>2 DEF PutGrown, TypeOK, Waiting
<1>4. Waiting' = {}
  BY DEF PutGrown, Waiting, NoTable
<1>5. Cardinality(Waiting) = 0 /\ Cardinality(Taken) \in Nat
  BY <1>3, TakenFinite, FS_EmptySet
<1>6. TypeOK'
  BY <1>1, InsertTypes DEF PutGrown, TypeOK
<1> QED
  BY <1>1, <1>2, <1>3, <1>4, <1>5, <1>6, StringSetAssumption DEF PutGrown, Fill

LEMMA PutGrownInv == Inv /\ PutGrown => Inv'
BY PutGrownReady, InsertInv

LEMMA GrowPlaces ==
  ASSUME Inv, NEW s \in Strings, Grow(s)
  PROVE  /\ Taken' = {} /\ Waiting' = Taken /\ Waiting = {}
         /\ Stored' = Stored
<1> USE DEF Inv
<1>1. Taken' = {}
  BY DEF Grow, Taken
<1>2. Waiting = {}
  BY DEF Grow, TypeOK, Waiting, NoTable
<1>3. Waiting' = Taken
  BY DEF Grow, Waiting, Taken, TypeOK, Table
<1>4. Stored' = Stored
  BY <1>1, <1>2, <1>3 DEF Stored, Grow
<1> QED
  BY <1>1, <1>2, <1>3, <1>4

LEMMA GrowInv == ASSUME Inv, NEW s \in Strings, Grow(s) PROVE Inv'
<1> USE DEF Inv
<1>1. /\ Taken' = {} /\ Waiting' = Taken /\ Waiting = {}
      /\ Stored' = Stored
  BY GrowPlaces
<1>2. size \in Nat \ {0} /\ size % 2 = 0 /\ len \in Nat /\ Cardinality(Taken) \in Nat
  BY TakenFinite DEF TypeOK, Fill
<1>3. s # Null /\ todo' = s /\ size' = 2 * size /\ (2 * size) \div 2 = size
  BY <1>2, StringSetAssumption DEF Grow
<1>4. TypeOK'
  BY <1>2, <1>3 DEF Grow, TypeOK, Table
<1>5. Fill'
  <2>1. Cardinality(Taken') = 0
    BY <1>1, FS_EmptySet
  <2>2. 2 * Cardinality(Taken) + Size = 2 * size
    BY <1>2, StringSetAssumption DEF Grow, Crowded, Fill
  <2> QED
    BY <1>1, <1>2, <1>3, <2>1, <2>2 DEF Grow, Fill
<1>6. KeysFound'
  BY <1>1 DEF KeysFound
<1>7. NoTwoPlaces'
  <2>1. \A i, j \in Taken : keys[i] = keys[j] => i = j
    BY DEF KeysFound
  <2> QED
    BY <1>1, <2>1 DEF NoTwoPlaces, Grow
<1>8. Numbers'
  BY <1>1 DEF Numbers, Grow
<1> QED
  BY <1>4, <1>5, <1>6, <1>7, <1>8

\* What one turn of grow's loop moves.
LEMMA MovePlaces ==
  ASSUME Inv, Move, NEW s, s = oldkeys[from]
  PROVE  /\ Stored' = Stored
         /\ s = Null => Taken' = Taken /\ Waiting' = Waiting
         /\ s # Null =>
              /\ s \in Strings /\ from \in Waiting
              /\ Waiting' = Waiting \ {from}
              /\ keys[Find(s)] = Null /\ Find(s) \notin Taken
              /\ Taken' = Taken \cup {Find(s)}
              /\ Cardinality(Taken') = Cardinality(Taken) + 1
              /\ keys'[Find(s)] = s /\ vals'[Find(s)] = oldvals[from]
              /\ \A i \in Taken : keys'[i] = keys[i] /\ vals'[i] = vals[i]
<1> USE DEF Inv
<1>0. /\ todo # Null /\ from \in DOMAIN oldkeys /\ from' = from + 1
      /\ UNCHANGED <<len, size, next, oldkeys, oldvals, todo, answer>>
      /\ DOMAIN oldkeys = 0 .. (size \div 2) - 1 /\ size \in Nat
      /\ oldkeys \in [0 .. (size \div 2) - 1 -> Strings \cup {Null}] /\ from \in Nat
  BY DEF Move, TypeOK, Table
<1>1. CASE s = Null
  <2>1. UNCHANGED <<keys, vals>>
    BY <1>1 DEF Move
  <2>2. Waiting' = Waiting
    <3>1. ASSUME NEW i \in DOMAIN oldkeys, oldkeys[i] # Null
          PROVE  from <= i <=> from + 1 <= i
      <4>1. i # from
        BY <1>1, <3>1, s = oldkeys[from]
      <4>2. i \in Int /\ from \in Int
        BY <1>0
      <4> QED
        BY ONLY <4>1, <4>2
    <3> QED
      BY <1>0, <3>1 DEF Waiting
  <2> QED
    BY <1>0, <1>1, <2>1, <2>2 DEF Taken, Stored
<1>2. CASE s # Null
  <2>1. s \in Strings /\ from \in Waiting
    BY <1>0, <1>2 DEF Waiting
  <2>2. Waiting' = Waiting \ {from}
    BY <1>0 DEF Waiting
  <2>3. keys[Find(s)] = Null
    BY <2>1, Search DEF NoTwoPlaces
  <2>4. /\ keys' = [keys EXCEPT ![Find(s)] = s]
        /\ vals' = [vals EXCEPT ![Find(s)] = oldvals[from]]
    BY <1>2, <2>1, <2>3, FreeIsFind DEF Move
  <2>5. /\ Taken' = Taken \cup {Find(s)} /\ Find(s) \notin Taken
        /\ Cardinality(Taken') = Cardinality(Taken) + 1
        /\ {keys'[i] : i \in Taken'} = {keys[i] : i \in Taken} \cup {s}
    BY <2>1, <2>3, <2>4, PutTaken
  <2>6. /\ keys'[Find(s)] = s /\ vals'[Find(s)] = oldvals[from]
        /\ \A i \in Taken : keys'[i] = keys[i] /\ vals'[i] = vals[i]
    <3>1. Find(s) \in 0 .. size - 1
      BY <2>1, Search
    <3> QED
      BY <2>4, <2>5, <3>1 DEF TypeOK, Table, Taken
  <2>7. {oldkeys'[i] : i \in Waiting'} \cup {s} = {oldkeys[i] : i \in Waiting}
    BY <1>0, <2>1, <2>2
  <2>8. Stored' = Stored
    BY <2>5, <2>7 DEF Stored
  <2> QED
    BY <1>2, <2>1, <2>2, <2>3, <2>5, <2>6, <2>8
<1> QED
  BY <1>1, <1>2

LEMMA MoveInv == Inv /\ Move => Inv'
<1> SUFFICES ASSUME Inv, Move PROVE Inv'
  OBVIOUS
<1> USE DEF Inv
<1> PICK s : s = oldkeys[from]
  OBVIOUS
<1>0. /\ todo # Null /\ from \in DOMAIN oldkeys /\ from' = from + 1
      /\ UNCHANGED <<len, size, next, oldkeys, oldvals, todo, answer>>
      /\ DOMAIN oldkeys = 0 .. (size \div 2) - 1 /\ size \in Nat
      /\ oldvals \in [0 .. (size \div 2) - 1 -> Nat] /\ from \in Nat
  BY DEF Move, TypeOK, Table
<1>1. CASE s = Null
  <2>1. UNCHANGED <<keys, vals>>
    BY <1>1 DEF Move
  <2>2. Taken' = Taken /\ Waiting' = Waiting /\ Stored' = Stored
    BY <1>1, MovePlaces
  <2>3. TypeOK'
    BY <1>0, <2>1 DEF TypeOK, Table
  <2>4. Fill'
    BY <1>0, <2>2 DEF Fill
  <2>5. \A t : Find(t)' = Find(t)
    BY <1>0, <2>1 DEF Find, Stops, Slot
  <2> QED
    BY <1>0, <2>1, <2>2, <2>3, <2>4, <2>5 DEF KeysFound, NoTwoPlaces, Numbers
<1>2. CASE s # Null
  <2>1. /\ s \in Strings /\ from \in Waiting
        /\ Waiting' = Waiting \ {from} /\ Stored' = Stored
        /\ keys[Find(s)] = Null /\ Find(s) \notin Taken
        /\ Taken' = Taken \cup {Find(s)}
        /\ Cardinality(Taken') = Cardinality(Taken) + 1
        /\ keys'[Find(s)] = s /\ vals'[Find(s)] = oldvals[from]
        /\ \A i \in Taken : keys'[i] = keys[i] /\ vals'[i] = vals[i]
    BY <1>2, MovePlaces
  <2>2. /\ keys' = [keys EXCEPT ![Find(s)] = s]
        /\ vals' = [vals EXCEPT ![Find(s)] = oldvals[from]]
    BY <1>2, <2>1, FreeIsFind DEF Move
  <2>3. TypeOK'
    <3> PICK slot : slot = Find(s)
      OBVIOUS
    <3>1. keys' \in [0 .. size - 1 -> Strings \cup {Null}]
      BY <2>1, <2>2 DEF TypeOK, Table
    <3>2. oldvals[from] \in Nat
      BY <1>0
    <3>3. vals' \in [0 .. size - 1 -> Nat]
      BY <2>2, <3>2 DEF TypeOK, Table
    <3>4. from' \in Nat
      BY <1>0
    <3> QED
      BY <1>0, <3>1, <3>3, <3>4 DEF TypeOK, Table
  <2>4. Fill'
    <3>1. /\ Cardinality(Waiting') = Cardinality(Waiting) - 1
          /\ Cardinality(Waiting) \in Nat /\ Cardinality(Taken) \in Nat
      BY <2>1, TakenFinite, FS_RemoveElement
    <3>2. from' <= size' \div 2
      BY <1>0
    <3> QED
      BY <1>0, <2>1, <3>1, <3>2 DEF Fill
  <2>5. \A t \in Strings : Stops(t)' # {}
    BY <2>3, <2>4, RoomNext
  <2>6. KeysFound'
    BY <1>0, <2>1, <2>2, <2>3, <2>5, PutIn
  <2>7. NoTwoPlaces'
    BY <1>0, <2>1 DEF NoTwoPlaces
  <2>8. Numbers'
    BY <1>0, <2>1 DEF Numbers
  <2> QED
    BY <2>3, <2>4, <2>6, <2>7, <2>8
<1> QED
  BY <1>1, <1>2

LEMMA GetInv == ASSUME Inv, NEW s \in Strings, Get(s) PROVE Inv'
<1> USE DEF Inv
<1>1. Find(s) \in 0 .. size - 1
  BY Search
<1>2. TypeOK'
  BY <1>1 DEF Get, TypeOK, Table
<1>3. Taken' = Taken /\ Waiting' = Waiting /\ Stored' = Stored
  BY DEF Get, Taken, Waiting, Stored
<1>4. \A t : Find(t)' = Find(t)
  BY DEF Get, Find, Stops, Slot
<1> QED
  BY <1>2, <1>3, <1>4 DEF Get, Fill, KeysFound, NoTwoPlaces, Numbers

LEMMA StutterInv == Inv /\ UNCHANGED vars => Inv'
<1> SUFFICES ASSUME Inv, UNCHANGED vars PROVE Inv'
  OBVIOUS
<1>1. Taken' = Taken /\ Waiting' = Waiting /\ Stored' = Stored
  BY DEF vars, Taken, Waiting, Stored
<1>2. \A t : Find(t)' = Find(t)
  BY DEF vars, Find, Stops, Slot
<1> QED
  BY <1>1, <1>2 DEF Inv, vars, TypeOK, Table, Fill, KeysFound, NoTwoPlaces, Numbers

LEMMA NextInv == Inv /\ [Next]_vars => Inv'
BY PutInv, GrowInv, GetInv, MoveInv, PutGrownInv, StutterInv DEF Next

LEMMA Invariance == Spec => []Inv
BY InitInv, NextInv, PTL DEF Spec

\* Every state of the program is of the declared types.
THEOREM TypeCorrect == Spec => []TypeOK
BY Invariance, PTL DEF Inv

\* No search runs for ever (the loops of strset.c:36, 76, 99 and 115), although
\* grow does not count what it moves: half as many slots as a new table has are
\* always empty.
THEOREM SearchesEnd == Spec => []ProbesEnd
<1>1. Inv => ProbesEnd
  BY Room DEF Inv, ProbesEnd
<1> QED
  BY <1>1, Invariance, PTL

\* Every string is found where it is, so that no string gets a second number.
THEOREM KeysAreFound == Spec => []KeysFound
BY Invariance, PTL DEF Inv

-----------------------------------------------------------------------------
(* The table implements the numbering *)

\* The number of a string is the one next to it, in either table.
LEMMA NumberIs ==
  ASSUME Inv, NEW t
  PROVE  /\ \A i \in Taken : keys[i] = t => NumberOf(t) = vals[i]
         /\ \A i \in Waiting : oldkeys[i] = t => NumberOf(t) = oldvals[i]
<1> USE DEF Inv
<1> DEFINE Its(n) == \/ \E i \in Taken : keys[i] = t /\ vals[i] = n
                     \/ \E i \in Waiting : oldkeys[i] = t /\ oldvals[i] = n
<1>1. \A i, j \in Taken : keys[i] = keys[j] => i = j
  BY DEF KeysFound
<1>2. 1 .. next - 1 \subseteq 1 .. next
  BY DEF TypeOK
<1>3. ASSUME NEW i \in Taken, keys[i] = t PROVE NumberOf(t) = vals[i]
  <2>1. vals[i] \in 1 .. next /\ Its(vals[i])
    BY <1>2, <1>3 DEF Numbers
  <2>2. \A n : Its(n) => n = vals[i]
    BY <1>1, <1>3 DEF NoTwoPlaces
  <2> HIDE DEF Its
  <2>3. NumberOf(t) = CHOOSE n \in 1 .. next : Its(n)
    BY DEF NumberOf, Its
  <2> QED
    BY <2>1, <2>2, <2>3
<1>4. ASSUME NEW i \in Waiting, oldkeys[i] = t PROVE NumberOf(t) = oldvals[i]
  <2>1. oldvals[i] \in 1 .. next /\ Its(oldvals[i])
    BY <1>2, <1>4 DEF Numbers
  <2>2. \A n : Its(n) => n = oldvals[i]
    BY <1>4 DEF NoTwoPlaces
  <2> HIDE DEF Its
  <2>3. NumberOf(t) = CHOOSE n \in 1 .. next : Its(n)
    BY DEF NumberOf, Its
  <2> QED
    BY <2>1, <2>2, <2>3
<1> QED
  BY <1>3, <1>4

LEMMA NumberIsNext ==
  ASSUME NEW t
  PROVE  (Inv => /\ \A i \in Taken : keys[i] = t => NumberOf(t) = vals[i]
                 /\ \A i \in Waiting : oldkeys[i] = t => NumberOf(t) = oldvals[i])'
<1>1. Inv => /\ \A i \in Taken : keys[i] = t => NumberOf(t) = vals[i]
             /\ \A i \in Waiting : oldkeys[i] = t => NumberOf(t) = oldvals[i]
  BY NumberIs
<1> QED
  BY <1>1, PTL

\* What put does, in a table with room: a string that is there is answered with
\* its number, a new one gets the next.
LEMMA InsertNumbers ==
  ASSUME Inv, NEW s \in Strings, Insert(s), size' = size, todo' = Null, TypeOK',
         Waiting = {}, Waiting' = {},
         2 * Cardinality(Taken) + Size = 2 * len + size, len < size \div 2
  PROVE  Numbering!Put(s)
<1>1. Inv'
  BY InsertInv
<1>2. next = Cardinality(Stored) + 1
  BY DEF Inv, Numbers
<1>3. Stored = {keys[i] : i \in Taken}
  BY DEF Stored
<1>4. ASSUME UNCHANGED <<keys, vals>>, s \in Stored, answer' = vals[Find(s)],
             keys[Find(s)] = s
      PROVE  Numbering!Put(s)
  <2>1. Taken' = Taken
    BY <1>4 DEF Taken
  <2>2. Stored' = Stored
    BY <1>3, <1>4, <2>1 DEF Stored
  <2>3. \A t \in Stored : NumberOf(t)' = NumberOf(t)
    BY <1>1, <1>3, <1>4, <2>1, NumberIs, NumberIsNext
  <2>4. answer' = NumberOf(s)
    BY <1>3, <1>4, NumberIs, Search
  <2> QED
    BY <1>4, <2>2, <2>3, <2>4 DEF Numbering!Put, Numbering!Known
<1>5. ASSUME s \notin Stored, Stored' = Stored \cup {s}, answer' = next,
             Find(s) \notin Taken, Taken' = Taken \cup {Find(s)},
             keys'[Find(s)] = s, vals'[Find(s)] = next,
             \A i \in Taken : keys'[i] = keys[i] /\ vals'[i] = vals[i]
      PROVE  Numbering!Put(s)
  <2>1. \A t \in Stored : NumberOf(t)' = NumberOf(t)
    BY <1>1, <1>3, <1>5, NumberIs, NumberIsNext
  <2>2. NumberOf(s)' = next
    BY <1>1, <1>5, NumberIsNext
  <2>3. Numbering!Cardinality(Stored) = Cardinality(Stored)
    BY Zenon DEF Numbering!Cardinality, Numbering!IsFiniteSet, Cardinality, IsFiniteSet
  <2> QED
    BY <1>2, <1>5, <2>1, <2>2, <2>3 DEF Numbering!Put, Numbering!Known
<1> QED
  BY <1>4, <1>5, InsertInv

\* Nothing is renumbered while the table grows.
LEMMA GrowNumbers ==
  ASSUME Inv, NEW s \in Strings, Grow(s)
  PROVE  UNCHANGED Numbering!vars
<1>1. Inv'
  BY GrowInv
<1>2. /\ Taken' = {} /\ Waiting' = Taken /\ Waiting = {} /\ Stored' = Stored
      /\ oldkeys' = keys /\ oldvals' = vals /\ answer' = answer
  BY GrowPlaces DEF Grow
<1>3. \A t \in Stored : NumberOf(t)' = NumberOf(t)
  BY <1>1, <1>2, NumberIs, NumberIsNext DEF Stored
<1> QED
  BY <1>2, <1>3 DEF Numbering!vars

LEMMA MoveNumbers ==
  ASSUME Inv, Move
  PROVE  UNCHANGED Numbering!vars
<1>1. Inv'
  BY MoveInv
<1> PICK s : s = oldkeys[from]
  OBVIOUS
<1>2. /\ UNCHANGED <<oldkeys, oldvals, answer>> /\ Stored' = Stored
  BY MovePlaces DEF Move
<1>3. CASE s = Null
  <2>1. Taken' = Taken /\ Waiting' = Waiting /\ UNCHANGED <<keys, vals>>
    BY <1>3, MovePlaces DEF Move
  <2>2. \A t \in Stored : NumberOf(t)' = NumberOf(t)
    BY <1>1, <1>2, <2>1, NumberIs, NumberIsNext DEF Stored
  <2> QED
    BY <1>2, <2>2 DEF Numbering!vars
<1>4. CASE s # Null
  <2>1. /\ s \in Strings /\ from \in Waiting /\ Waiting' = Waiting \ {from}
        /\ Taken' = Taken \cup {Find(s)}
        /\ keys'[Find(s)] = s /\ vals'[Find(s)] = oldvals[from]
        /\ \A i \in Taken : keys'[i] = keys[i] /\ vals'[i] = vals[i]
    BY <1>4, MovePlaces
  <2>2. NumberOf(s)' = NumberOf(s)
    BY <1>1, <2>1, NumberIs, NumberIsNext
  <2>3. ASSUME NEW t \in Stored PROVE NumberOf(t)' = NumberOf(t)
    <3>1. CASE \E i \in Taken : keys[i] = t
      BY <1>1, <2>1, <3>1, NumberIs, NumberIsNext
    <3>2. CASE \E i \in Waiting : oldkeys[i] = t
      BY <1>1, <1>2, <2>1, <2>2, <3>2, NumberIs, NumberIsNext
    <3> QED
      BY <3>1, <3>2 DEF Stored
  <2> QED
    BY <1>2, <2>3 DEF Numbering!vars
<1> QED
  BY <1>3, <1>4

LEMMA GetNumbers ==
  ASSUME Inv, NEW s \in Strings, Get(s)
  PROVE  Numbering!Get(s)
<1>1. Inv'
  BY GetInv
<1>2. /\ Waiting = {} /\ Waiting' = {} /\ Taken' = Taken /\ Stored' = Stored
      /\ UNCHANGED <<keys, vals>>
  BY DEF Get, Inv, TypeOK, Waiting, NoTable, Taken, Stored
<1>3. Stored = {keys[i] : i \in Taken}
  BY <1>2 DEF Stored
<1>4. \A t \in Stored : NumberOf(t)' = NumberOf(t)
  BY <1>1, <1>2, <1>3, NumberIs, NumberIsNext
<1>5. answer' = IF s \in Stored THEN NumberOf(s) ELSE 0
  <2>1. keys[Find(s)] = s <=> s \in Stored
    BY <1>3, Search
  <2>2. s \in Stored => NumberOf(s) = vals[Find(s)]
    BY <1>3, Search, NumberIs
  <2> QED
    BY <2>1, <2>2 DEF Get
<1> QED
  BY <1>2, <1>4, <1>5 DEF Numbering!Get, Numbering!Known

LEMMA StutterNumbers == Inv /\ UNCHANGED vars => UNCHANGED Numbering!vars
<1> SUFFICES ASSUME Inv, UNCHANGED vars PROVE UNCHANGED Numbering!vars
  OBVIOUS
<1>1. Inv'
  BY StutterInv
<1>2. /\ Taken' = Taken /\ Waiting' = Waiting /\ Stored' = Stored
      /\ UNCHANGED <<keys, vals, oldkeys, oldvals, answer>>
  BY DEF vars, Taken, Waiting, Stored
<1>3. \A t \in Stored : NumberOf(t)' = NumberOf(t)
  BY <1>1, <1>2, NumberIs, NumberIsNext DEF Stored
<1> QED
  BY <1>2, <1>3 DEF Numbering!vars

\* The table of lib/strset.c gives each string a number, the first one 1 and
\* each new one the next, and the string keeps it, whatever the hashes are and
\* however often the table grows.
THEOREM Refinement == Spec => ImplementsInterning
<1>1. Init => Numbering!Init
  <2> SUFFICES ASSUME Init PROVE Numbering!Init
    OBVIOUS
  <2>1. Stored = {}
    BY DEF Init, Stored, Taken, Waiting, NoTable
  <2> QED
    BY <2>1 DEF Init, Numbering!Init
<1>2. Inv /\ [Next]_vars => [Numbering!Next]_(Numbering!vars)
  <2> SUFFICES ASSUME Inv, [Next]_vars PROVE [Numbering!Next]_(Numbering!vars)
    OBVIOUS
  <2>1. ASSUME NEW s \in Strings, Put(s) PROVE Numbering!Put(s)
    <3>1. /\ Waiting = {} /\ Waiting' = {} /\ Insert(s) /\ size' = size /\ todo' = Null
      BY <2>1 DEF Put, Inv, TypeOK, Waiting, NoTable
    <3>2. 2 * Cardinality(Taken) + Size = 2 * len + size /\ len < size \div 2
      BY <2>1 DEF Put, Crowded, Inv, Fill, TypeOK
    <3>3. TypeOK'
      BY <2>1, PutInv DEF Inv
    <3> QED
      BY <3>1, <3>2, <3>3, InsertNumbers
  <2>2. ASSUME PutGrown PROVE Numbering!Put(todo) /\ todo \in Strings
    BY <2>2, PutGrownReady, InsertNumbers
  <2> QED
    BY <2>1, <2>2, GrowNumbers, MoveNumbers, GetNumbers, StutterNumbers
       DEF Next, Numbering!Next
<1> QED
  BY <1>1, <1>2, Invariance, PTL DEF Spec, ImplementsInterning, Numbering!Spec

=============================================================================
