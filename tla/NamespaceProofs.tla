-------------------------- MODULE NamespaceProofs ---------------------------
(***************************************************************************)
(* Proofs about Namespace, for every set of keys, any number of namespaces *)
(* and every size of a new table.  The first half holds whatever is set    *)
(* and deleted; the second, that the tables implement the maps, when no    *)
(* key is deleted, which is what the tombstones make necessary.            *)
(***************************************************************************)
EXTENDS Namespace, TLAPS, FiniteSetTheorems, WellFoundedInduction

-----------------------------------------------------------------------------
(* Arithmetic of probes *)

\* Dividing n * q + k by n leaves k.
LEMMA Remainder ==
  ASSUME NEW n \in Nat \ {0}, NEW q \in Nat, NEW k \in 0 .. n - 1
  PROVE  (n * q + k) % n = k
<1> DEFINE x == n * q + k
           d == x \div n
           r == x % n
<1>1. n * q \in Nat /\ x \in Nat
  OBVIOUS
<1>2. d \in Nat /\ r \in 0 .. n - 1 /\ x = n * d + r
  BY <1>1
<1> HIDE DEF d, r
<1>3. ASSUME NEW a \in Nat, NEW b \in Nat, a < b
      PROVE  n * a + n <= n * b
  <2> DEFINE c == b - a - 1
  <2>1. c \in Nat /\ b = a + 1 + c
    BY <1>3
  <2> HIDE DEF c
  <2>2. n * b = n * a + n + n * c
    BY <2>1
  <2>3. n * c \in Nat /\ n * a \in Nat
    BY <2>1
  <2> QED
    BY <2>2, <2>3
<1>4. n * d \in Nat
  BY <1>2
<1>5. ~(d < q) /\ ~(q < d)
  <2>1. d < q => n * d + n <= n * q
    BY <1>2, <1>3
  <2>2. q < d => n * q + n <= n * d
    BY <1>2, <1>3
  <2> QED
    BY ONLY <1>1, <1>2, <1>4, <2>1, <2>2, n \in Nat \ {0}, k \in 0 .. n - 1
<1>6. d = q
  BY <1>2, <1>5
<1>7. r = k
  BY <1>1, <1>2, <1>6
<1> QED
  BY <1>7 DEF r

\* From any home, n probes reach every one of n slots.
LEMMA Onto ==
  ASSUME NEW n \in Nat \ {0}, NEW h \in Nat, NEW k \in 0 .. n - 1
  PROVE  \E i \in 0 .. n - 1 : (h + i) % n = k
<1> DEFINE q == h \div n
           r == h % n
<1>1. q \in Nat /\ r \in 0 .. n - 1 /\ h = n * q + r
  OBVIOUS
<1> HIDE DEF q, r
<1>2. CASE r <= k
  <2>1. k - r \in 0 .. n - 1 /\ h + (k - r) = n * q + k
    BY <1>1, <1>2
  <2>2. (h + (k - r)) % n = k
    BY <1>1, <2>1, Remainder
  <2> QED
    BY <2>1, <2>2
<1>3. CASE k < r
  <2>1. n * q \in Nat
    BY <1>1
  <2>2. k - r + n \in 0 .. n - 1 /\ h + (k - r + n) = n * q + n + k
    BY <1>1, <1>3, <2>1
  <2>3. n * (q + 1) = n * q + n /\ q + 1 \in Nat
    BY <1>1
  <2>4. h + (k - r + n) = n * (q + 1) + k
    BY <2>2, <2>3
  <2>5. (h + (k - r + n)) % n = k
    BY <2>3, <2>4, Remainder
  <2> QED
    BY <2>2, <2>5
<1> QED
  BY <1>1, <1>2, <1>3

\* Every set of natural numbers that is not empty has a least element.
LEMMA LeastExists ==
  ASSUME NEW A \in SUBSET Nat, A # {}
  PROVE  \E i \in A : \A j \in A : i <= j
<1>1. PICK x \in A : \A y \in A : ~(<<y, x>> \in OpToRel(<, Nat))
  BY NatLessThanWellFounded, WFMin
<1>2. ASSUME NEW y \in A, y < x
      PROVE  FALSE
  BY <1>1, <1>2 DEF OpToRel
<1> QED
  BY <1>2

-----------------------------------------------------------------------------
(* Probing a table *)

\* A table of the declared types that is at most half full.
Sound(t) == Table(t) /\ HalfEmpty(t)

LEMMA TakenFinite ==
  ASSUME NEW t, Table(t)
  PROVE  Taken(t) \subseteq 0 .. t.size - 1 /\ IsFiniteSet(Taken(t))
         /\ Cardinality(Taken(t)) \in Nat
<1>1. IsFiniteSet(0 .. t.size - 1)
  BY FS_Interval DEF Table
<1>2. Taken(t) \subseteq 0 .. t.size - 1
  BY DEF Table, Taken
<1> QED
  BY <1>1, <1>2, FS_Subset, FS_CardinalityType

LEMMA HasEmpty ==
  ASSUME NEW t, Sound(t), t.size # 0
  PROVE  \E k \in 0 .. t.size - 1 : t.keys[k] = Empty
<1> SUFFICES ASSUME \A k \in 0 .. t.size - 1 : t.keys[k] # Empty PROVE FALSE
  OBVIOUS
<1>1. Taken(t) = 0 .. t.size - 1 /\ t.size \in Nat /\ t.len \in Nat
  BY DEF Sound, Table, Taken
<1>2. Cardinality(Taken(t)) = t.size
  BY <1>1, FS_Interval
<1> QED
  BY <1>1, <1>2 DEF Sound, HalfEmpty

LEMMA HashRange ==
  ASSUME NEW t, Table(t), t.size # 0, NEW key \in Keys, NEW i \in Nat
  PROVE  Hash(t, key, i) \in 0 .. t.size - 1
<1>1. key \in Nat /\ t.size \in Nat \ {0}
  BY NamespaceAssumption DEF Keys, Table
<1> QED
  BY <1>1 DEF Hash

\* A search that an empty slot stops has an end.
LEMMA ProbeEnds ==
  ASSUME NEW t, Sound(t), t.size # 0, NEW key \in Keys, NEW stops, Empty \in stops
  PROVE  /\ \E i \in 0 .. t.size - 1 : EndsAt(t, key, i, stops)
                                       /\ Probe(t, key, stops) = Hash(t, key, i)
         /\ Probe(t, key, stops) \in 0 .. t.size - 1
         /\ t.keys[Probe(t, key, stops)] \in stops
<1>1. key \in Nat /\ t.size \in Nat \ {0}
  BY NamespaceAssumption DEF Keys, Sound, Table
<1>2. PICK k \in 0 .. t.size - 1 : t.keys[k] = Empty
  BY HasEmpty
<1>3. PICK i \in 0 .. t.size - 1 : (key + i) % t.size = k
  BY <1>1, Onto
<1> DEFINE A == {j \in 0 .. t.size - 1 : t.keys[Hash(t, key, j)] \in stops}
<1>4. i \in A
  BY <1>2, <1>3 DEF Hash
<1>5. A \in SUBSET Nat /\ A # {}
  BY <1>1, <1>4
<1>6. PICK first \in A : \A j \in A : first <= j
  BY <1>5, LeastExists
<1>7. EndsAt(t, key, first, stops)
  <2>1. ASSUME NEW j \in 0 .. first - 1 PROVE t.keys[Hash(t, key, j)] \notin stops
    <3>1. j \in 0 .. t.size - 1 /\ j < first
      BY <1>1, <1>6
    <3>2. j \notin A
      BY <1>1, <1>6, <3>1
    <3> QED
      BY <3>1, <3>2
  <2> QED
    BY <1>6, <2>1 DEF EndsAt
<1> DEFINE end == CHOOSE j \in 0 .. t.size - 1 : EndsAt(t, key, j, stops)
<1>8. end \in 0 .. t.size - 1 /\ EndsAt(t, key, end, stops)
  BY <1>6, <1>7
<1>9. Probe(t, key, stops) = Hash(t, key, end)
  BY DEF Probe
<1>10. Hash(t, key, end) \in 0 .. t.size - 1
  BY <1>1, <1>8, HashRange DEF Sound
<1> QED
  BY <1>8, <1>9, <1>10 DEF EndsAt

\* It has only one.
LEMMA ProbeIs ==
  ASSUME NEW t, NEW key, NEW stops, t.size \in Nat,
         NEW i \in 0 .. t.size - 1, EndsAt(t, key, i, stops)
  PROVE  Probe(t, key, stops) = Hash(t, key, i)
<1>1. ASSUME NEW j \in 0 .. t.size - 1, EndsAt(t, key, j, stops) PROVE i = j
  <2>1. i < j => i \in 0 .. j - 1
    OBVIOUS
  <2>2. j < i => j \in 0 .. i - 1
    OBVIOUS
  <2>3. ~(i < j) /\ ~(j < i)
    BY <1>1, <2>1, <2>2 DEF EndsAt
  <2> QED
    BY <2>3
<1> DEFINE end == CHOOSE j \in 0 .. t.size - 1 : EndsAt(t, key, j, stops)
<1>2. end \in 0 .. t.size - 1 /\ EndsAt(t, key, end, stops)
  OBVIOUS
<1>3. end = i
  BY <1>1, <1>2
<1> QED
  BY <1>3 DEF Probe

-----------------------------------------------------------------------------
(* Changing a table *)

\* What Put leaves alone.
LEMMA PutParts ==
  ASSUME NEW t, Table(t), NEW slot \in 0 .. t.size - 1, NEW key \in Keys \cup {Tombstone},
         NEW id \in AnyId, NEW len, NEW u, u = Put(t, slot, key, id, len)
  PROVE  /\ u.size = t.size /\ u.len = len
         /\ u.keys \in [0 .. t.size - 1 -> Keys \cup {Empty, Tombstone}]
         /\ u.vals \in [0 .. t.size - 1 -> AnyId]
         /\ u.keys[slot] = key /\ u.vals[slot] = id
         /\ \A i \in 0 .. t.size - 1 :
              i # slot => u.keys[i] = t.keys[i] /\ u.vals[i] = t.vals[i]
         /\ Taken(u) = Taken(t) \cup {slot}
         /\ Cardinality(Taken(u)) =
              IF t.keys[slot] = Empty THEN Cardinality(Taken(t)) + 1
              ELSE Cardinality(Taken(t))
<1>1. /\ u.size = t.size /\ u.len = len
      /\ u.keys = [t.keys EXCEPT ![slot] = key]
      /\ u.vals = [t.vals EXCEPT ![slot] = id]
  BY DEF Put
<1>2. /\ t.keys \in [0 .. t.size - 1 -> Keys \cup {Empty, Tombstone}]
      /\ t.vals \in [0 .. t.size - 1 -> AnyId]
  BY DEF Table
<1>3. key # Empty
  BY NamespaceAssumption DEF Keys, Empty, Tombstone
<1>4. /\ u.keys \in [0 .. t.size - 1 -> Keys \cup {Empty, Tombstone}]
      /\ u.vals \in [0 .. t.size - 1 -> AnyId]
      /\ u.keys[slot] = key /\ u.vals[slot] = id
      /\ \A i \in 0 .. t.size - 1 :
           i # slot => u.keys[i] = t.keys[i] /\ u.vals[i] = t.vals[i]
  <2>1. /\ u.keys \in [0 .. t.size - 1 -> Keys \cup {Empty, Tombstone}]
        /\ u.keys[slot] = key
        /\ \A i \in 0 .. t.size - 1 : i # slot => u.keys[i] = t.keys[i]
    BY ONLY <1>1, <1>2, slot \in 0 .. t.size - 1, key \in Keys \cup {Tombstone}
  <2>2. /\ u.vals \in [0 .. t.size - 1 -> AnyId] /\ u.vals[slot] = id
        /\ \A i \in 0 .. t.size - 1 : i # slot => u.vals[i] = t.vals[i]
    BY ONLY <1>1, <1>2, slot \in 0 .. t.size - 1, id \in AnyId
  <2> QED
    BY <2>1, <2>2
<1>5. Taken(u) = Taken(t) \cup {slot}
  BY <1>2, <1>3, <1>4 DEF Taken
<1>6. slot \in Taken(t) <=> t.keys[slot] # Empty
  BY <1>2 DEF Taken
<1>7. Cardinality(Taken(u)) = IF t.keys[slot] = Empty THEN Cardinality(Taken(t)) + 1
                              ELSE Cardinality(Taken(t))
  BY <1>5, <1>6, TakenFinite, FS_AddElement
<1> QED
  BY <1>1, <1>4, <1>5, <1>7

\* A table stays at most half full when a key is put in a slot that len accounts for.
LEMMA PutSound ==
  ASSUME NEW t, Sound(t), NEW slot \in 0 .. t.size - 1, NEW key \in Keys \cup {Tombstone},
         NEW id \in AnyId, NEW len,
         len = IF t.keys[slot] = Empty THEN t.len + 1 ELSE t.len,
         2 * len <= t.size
  PROVE  Sound(Put(t, slot, key, id, len))
<1> PICK u : u = Put(t, slot, key, id, len)
  OBVIOUS
<1>1. t.size \in Nat /\ t.len \in Nat /\ Cardinality(Taken(t)) = t.len
  BY DEF Sound, Table, HalfEmpty
<1>2. len \in 0 .. t.size
  BY <1>1
<1>3. Table(t)
  BY DEF Sound
<1>4. /\ u.size = t.size /\ u.len = len
      /\ u.keys \in [0 .. t.size - 1 -> Keys \cup {Empty, Tombstone}]
      /\ u.vals \in [0 .. t.size - 1 -> AnyId]
      /\ Cardinality(Taken(u)) =
           IF t.keys[slot] = Empty THEN Cardinality(Taken(t)) + 1
           ELSE Cardinality(Taken(t))
  BY ONLY <1>3, PutParts, u = Put(t, slot, key, id, len), slot \in 0 .. t.size - 1,
          key \in Keys \cup {Tombstone}, id \in AnyId
<1>5. Table(u)
  BY <1>1, <1>2, <1>4 DEF Table
<1>6. HalfEmpty(u)
  BY <1>1, <1>4 DEF HalfEmpty
<1> QED
  BY <1>5, <1>6 DEF Sound

LEMMA NewSound ==
  ASSUME NEW size \in Nat
  PROVE  /\ Sound(NewTable(size)) /\ NewTable(size).size = size /\ NewTable(size).len = 0
         /\ \A i \in 0 .. size - 1 : NewTable(size).keys[i] = Empty
<1> PICK t : t = NewTable(size)
  OBVIOUS
<1>1. /\ t.size = size /\ t.len = 0
      /\ t.keys = [i \in 0 .. size - 1 |-> Empty] /\ t.vals = [i \in 0 .. size - 1 |-> 0]
  BY DEF NewTable
<1>2. Table(t)
  BY <1>1 DEF Table, AnyId
<1>3. Taken(t) = {}
  BY <1>1 DEF Taken
<1>4. Cardinality(Taken(t)) = 0
  BY <1>3, FS_EmptySet
<1> QED
  BY <1>1, <1>2, <1>4 DEF Sound, HalfEmpty

LEMMA InsertSound ==
  ASSUME NEW t, Sound(t), t.size # 0, 2 * (t.len + 1) <= t.size,
         NEW key \in Keys, NEW id \in AnyId
  PROVE  Sound(Insert(t, key, id)) /\ Insert(t, key, id).size = t.size
<1> PICK slot : slot = Probe(t, key, {Tombstone, key, Empty})
  OBVIOUS
<1> PICK len : len = IF t.keys[slot] = Empty THEN t.len + 1 ELSE t.len
  OBVIOUS
<1>1. slot \in 0 .. t.size - 1
  BY ProbeEnds
<1>2. 2 * len <= t.size
  BY DEF Sound, Table
<1>3. Insert(t, key, id) = Put(t, slot, key, id, len)
  BY DEF Insert
<1>4. Sound(Put(t, slot, key, id, len))
  BY <1>1, <1>2, PutSound
<1>5. Put(t, slot, key, id, len).size = t.size
  BY DEF Put
<1> QED
  BY <1>3, <1>4, <1>5

LEMMA RehashSound ==
  ASSUME NEW t, Sound(t), t.size # 0, 2 * (t.len + 1) <= t.size,
         NEW key \in Keys, NEW id \in AnyId
  PROVE  /\ Sound(Rehash(t, key, id)) /\ Rehash(t, key, id).size = t.size
         /\ Rehash(t, key, id).len = t.len + 1
<1> PICK slot : slot = Probe(t, key, {Empty})
  OBVIOUS
<1>1. slot \in 0 .. t.size - 1 /\ t.keys[slot] = Empty
  BY ProbeEnds
<1>2. key \notin {Empty, Tombstone}
  BY NamespaceAssumption DEF Keys, Empty, Tombstone
<1>3. Rehash(t, key, id) = Put(t, slot, key, id, t.len + 1)
  BY <1>2 DEF Rehash
<1>4. Sound(Put(t, slot, key, id, t.len + 1))
  BY <1>1, PutSound
<1>5. /\ Put(t, slot, key, id, t.len + 1).size = t.size
      /\ Put(t, slot, key, id, t.len + 1).len = t.len + 1
  BY DEF Put
<1> QED
  BY <1>3, <1>4, <1>5

LEMMA DeleteSound ==
  ASSUME NEW t, Sound(t), NEW key \in Keys
  PROVE  Sound(Delete(t, key)) /\ Delete(t, key).size = t.size
<1> PICK slot : slot = Probe(t, key, {key, Empty})
  OBVIOUS
<1>1. CASE t.size = 0 \/ t.keys[slot] # key
  <2>1. Delete(t, key) = t
    BY <1>1 DEF Delete
  <2> QED
    BY <2>1
<1>2. CASE t.size # 0 /\ t.keys[slot] = key
  <2>1. slot \in 0 .. t.size - 1
    BY <1>2, ProbeEnds
  <2>2. key # Empty
    BY NamespaceAssumption DEF Keys, Empty
  <2>3. t.vals[slot] \in AnyId /\ 2 * t.len <= t.size
    BY <2>1 DEF Sound, Table, HalfEmpty
  <2>4. Delete(t, key) = Put(t, slot, Tombstone, t.vals[slot], t.len)
    BY <1>2 DEF Delete
  <2>5. Sound(Put(t, slot, Tombstone, t.vals[slot], t.len))
    BY <1>2, <2>1, <2>2, <2>3, PutSound
  <2>6. Put(t, slot, Tombstone, t.vals[slot], t.len).size = t.size
    BY DEF Put
  <2> QED
    BY <2>4, <2>5, <2>6
<1> QED
  BY <1>1, <1>2

-----------------------------------------------------------------------------
(* Whatever is set and deleted: types, and an end of every search *)

\* The slots grow has moved.
Moved == {i \in Taken(tables[todo.ns]) : i < from}

\* While a table grows, the new one has twice its size and holds no more than has
\* been moved: what is in use in the old one fits twice.
Growth ==
  Growing =>
    /\ todo.ns \in Spaces /\ todo.key \in Keys /\ todo.id \in Ids[todo.key] \ {0}
    /\ tables[todo.ns].size # 0 /\ grown.size = 2 * tables[todo.ns].size
    /\ from <= tables[todo.ns].size
    /\ grown.len <= Cardinality(Moved)

Inv ==
  /\ TypeOK /\ ProbesEnd /\ Growth
  /\ DOMAIN tables = Spaces /\ \A s \in Spaces : tables[s].size # 1

LEMMA SpacesAre ==
  /\ \E n \in Nat : Spaces = 1 .. n
  /\ Spaces \subseteq Nat \ {0}
BY NamespaceAssumption DEF Spaces

LEMMA GreatestExists ==
  ASSUME NEW A \in SUBSET Spaces, A # {}
  PROVE  \E s \in A : \A r \in A : r <= s
<1>1. PICK n \in Nat : Spaces = 1 .. n
  BY SpacesAre
<1> DEFINE B == {n - s : s \in A}
<1>2. B \in SUBSET Nat /\ B # {}
  <2>1. \A s \in A : n - s \in Nat
    BY <1>1
  <2> QED
    BY <2>1
<1>3. PICK b \in B : \A c \in B : b <= c
  BY <1>2, LeastExists
<1>4. PICK s \in A : b = n - s
  OBVIOUS
<1>5. ASSUME NEW r \in A PROVE r <= s
  <2>1. n - s <= n - r
    BY <1>3, <1>4
  <2> QED
    BY <1>1, <2>1
<1> QED
  BY <1>5

\* The walk up the parents ends at a namespace that has the key, or at none.
LEMMA OwnerIs ==
  ASSUME NEW ns, NEW key
  PROVE  \/ Owner(ns, key) = 0
         \/ Owner(ns, key) \in Spaces /\ Find(tables[Owner(ns, key)], key) # 0
<1> DEFINE own == {s \in Spaces : s \in Line[ns] /\ Find(tables[s], key) # 0}
<1>1. CASE own = {}
  BY <1>1 DEF Owner
<1>2. CASE own # {}
  <2>1. \E s \in own : \A r \in own : r <= s
    BY <1>2, GreatestExists
  <2>2. Owner(ns, key) = CHOOSE s \in own : \A r \in own : r <= s
    BY <1>2 DEF Owner
  <2>3. Owner(ns, key) \in own
    BY <2>1, <2>2
  <2> QED
    BY <2>3
<1> QED
  BY <1>1, <1>2

LEMMA FindType ==
  ASSUME NEW t, Sound(t), NEW key \in Keys
  PROVE  Find(t, key) \in AnyId
<1> PICK slot : slot = Probe(t, key, {Empty, Tombstone, key})
  OBVIOUS
<1>1. CASE t.size = 0 \/ t.keys[slot] # key
  BY <1>1 DEF Find, AnyId
<1>2. CASE t.size # 0 /\ t.keys[slot] = key
  <2>1. slot \in 0 .. t.size - 1
    BY <1>2, ProbeEnds
  <2>2. t.vals[slot] \in AnyId
    BY <2>1 DEF Sound, Table
  <2>3. Find(t, key) = t.vals[slot]
    BY <1>2 DEF Find
  <2> QED
    BY <2>2, <2>3
<1> QED
  BY <1>1, <1>2

LEMMA InitInv == Init => Inv
<1> SUFFICES ASSUME Init PROVE Inv
  OBVIOUS
<1>1. Sound(NewTable(0)) /\ NewTable(0).size = 0
  BY NewSound
<1>2. \A s \in Spaces : tables[s] = NewTable(0)
  BY DEF Init
<1>3. NoBinding \in [ns : Nat, key : Nat, id : Nat]
  BY DEF NoBinding
<1>4. TypeOK /\ ProbesEnd
  BY <1>1, <1>2, <1>3 DEF Init, TypeOK, ProbesEnd, Sound, AnyId
<1>5. Growth
  BY DEF Init, Growth, Growing
<1> QED
  BY <1>1, <1>2, <1>4, <1>5 DEF Init, Inv

\* A table is replaced by a sound one.
LEMMA StoreInv ==
  ASSUME Inv, ~Growing, NEW ns \in Spaces, NEW t, Sound(t), t.size # 1, Store(ns, t)
  PROVE  Inv'
<1>1. /\ tables' = [tables EXCEPT ![ns] = t] /\ answer' = 0
      /\ UNCHANGED <<grown, from, todo>>
  BY DEF Store
<1>2. /\ DOMAIN tables' = Spaces /\ tables'[ns] = t
      /\ \A s \in Spaces : s # ns => tables'[s] = tables[s]
  BY <1>1 DEF Inv
<1>3. Growth'
  BY <1>1 DEF Growth, Growing
<1>4. TypeOK'
  BY <1>1, <1>2 DEF Inv, TypeOK, Sound, AnyId
<1>5. ProbesEnd'
  BY <1>1, <1>2 DEF Inv, ProbesEnd, Sound
<1> QED
  BY <1>2, <1>3, <1>4, <1>5 DEF Inv

LEMMA SetInv ==
  ASSUME Inv, NEW ns \in Spaces, NEW key \in Keys, NEW id \in Ids[key] \cup {0}, Set(ns, key, id)
  PROVE  Inv'
<1> PICK t : t = tables[ns]
  OBVIOUS
<1>0. /\ ~Growing /\ Sound(t) /\ t.size # 1 /\ id \in AnyId
      /\ t.size \in Nat /\ t.len \in Nat
  <2>1. ~Growing /\ Table(t) /\ HalfEmpty(t) /\ t.size # 1
    BY DEF Set, Inv, TypeOK, ProbesEnd
  <2>2. id \in AnyId
    BY DEF AnyId, Keys
  <2> QED
    BY <2>1, <2>2 DEF Sound, Table
<1>1. CASE id = 0 /\ Store(ns, Delete(t, key))
  BY <1>0, <1>1, DeleteSound, StoreInv
<1>2. CASE id # 0 /\ ~Crowded(t) /\ Store(ns, Insert(Allocated(t), key, id))
  <2> PICK u : u = Allocated(t)
    OBVIOUS
  <2>1. Sound(u) /\ u.size # 0 /\ u.size # 1 /\ 2 * (u.len + 1) <= u.size
    <3>1. CASE t.size = 0
      BY <3>1, NewSound, NamespaceAssumption DEF Allocated
    <3>2. CASE t.size # 0
      <4>1. t.len < t.size \div 2
        BY <1>0, <1>2, <3>2 DEF Crowded
      <4> QED
        BY <1>0, <3>2, <4>1 DEF Allocated
    <3> QED
      BY <3>1, <3>2
  <2>2. Sound(Insert(u, key, id)) /\ Insert(u, key, id).size # 1
    BY <1>0, <2>1, InsertSound
  <2> QED
    BY <1>0, <1>2, <2>2, StoreInv
<1>3. CASE /\ id # 0 /\ Crowded(t)
           /\ grown' = NewTable(2 * t.size) /\ from' = 0
           /\ todo' = [ns |-> ns, key |-> key, id |-> id]
           /\ UNCHANGED <<tables, answer>>
  <2>1. t.size # 0
    BY <1>3 DEF Crowded
  <2>2. 2 * t.size \in Nat
    BY <1>0
  <2>3. Sound(grown') /\ grown'.size = 2 * t.size /\ grown'.len = 0
    BY <1>3, <2>2, NewSound
  <2>4. ns \in Nat /\ key \in Nat /\ id \in Nat
    BY NamespaceAssumption, SpacesAre DEF Keys
  <2>5. todo' \in [ns : Nat, key : Nat, id : Nat] /\ todo'.ns = ns /\ todo'.key = key
        /\ todo'.id = id
    BY <1>3, <2>4
  <2>6. TypeOK' /\ ProbesEnd'
    BY <1>3, <2>3, <2>5 DEF Inv, TypeOK, ProbesEnd, Sound
  <2>7. Moved' = {}
    <3>1. Taken(t) \subseteq Nat
      BY <1>0, TakenFinite DEF Sound
    <3>2. Moved' = {i \in Taken(t) : i < 0}
      BY <1>3, <2>5 DEF Moved
    <3> QED
      BY <3>1, <3>2
  <2>8. Cardinality(Moved') = 0
    BY <2>7, FS_EmptySet
  <2>9. Growth'
    BY <1>0, <1>3, <2>1, <2>3, <2>5, <2>8 DEF Growth
  <2> QED
    BY <1>3, <2>6, <2>9 DEF Inv
<1> QED
  BY <1>1, <1>2, <1>3 DEF Set

LEMMA GetInv ==
  ASSUME Inv, NEW ns \in Spaces, NEW key \in Keys, Get(ns, key)
  PROVE  Inv'
<1>1. UNCHANGED <<tables, grown, from, todo>>
  BY DEF Get
<1>2. answer' \in AnyId
  <2> PICK s : s = Owner(ns, key)
    OBVIOUS
  <2>1. CASE s = 0
    BY <2>1 DEF Get, AnyId
  <2>2. CASE s # 0
    <3>1. s \in Spaces
      BY <2>2, OwnerIs
    <3>2. Sound(tables[s])
      BY <3>1 DEF Inv, TypeOK, ProbesEnd, Sound
    <3> QED
      BY <2>2, <3>2, FindType DEF Get
  <2> QED
    BY <2>1, <2>2
<1> QED
  BY <1>1, <1>2 DEF Inv, TypeOK, ProbesEnd, Growth, Growing, Moved

LEMMA ReplaceInv ==
  ASSUME Inv, NEW ns \in Spaces, NEW key \in Keys, NEW id \in Ids[key], Replace(ns, key, id)
  PROVE  Inv'
<1>1. CASE id = 0 /\ Set(ns, key, 0)
  BY <1>1, SetInv
<1>2. CASE Owner(ns, key) # 0 /\ Set(Owner(ns, key), key, id)
  BY <1>2, OwnerIs, SetInv
<1>3. CASE answer' = -1 /\ UNCHANGED <<tables, grown, from, todo>>
  BY <1>3 DEF Inv, TypeOK, ProbesEnd, Growth, Growing, Moved
<1> QED
  BY <1>1, <1>2, <1>3 DEF Replace

\* The binding that set made room for, and the table it makes room in.
LEMMA GrowthFacts ==
  ASSUME Inv, Growing, NEW t, t = tables[todo.ns]
  PROVE  /\ todo.ns \in Spaces /\ todo.key \in Keys /\ todo.id \in Ids[todo.key] \ {0}
         /\ Sound(t) /\ Sound(grown) /\ t.size \in Nat \ {0, 1}
         /\ t.len \in Nat /\ 2 * t.len <= t.size
         /\ grown.size = 2 * t.size /\ grown.len \in Nat
         /\ from \in Nat /\ from <= t.size
         /\ Moved = {i \in Taken(t) : i < from} /\ IsFiniteSet(Moved)
         /\ Cardinality(Moved) \in Nat /\ grown.len <= Cardinality(Moved)
         /\ Cardinality(Moved) <= t.len
<1>1. todo.ns \in Spaces
  BY DEF Inv, Growth
<1>2. Sound(t) /\ Sound(grown) /\ t.size \in Nat \ {0, 1} /\ from \in Nat
  BY <1>1 DEF Inv, TypeOK, ProbesEnd, Growth, Sound, Table
<1>3. t.len \in Nat /\ 2 * t.len <= t.size /\ grown.len \in Nat
  BY <1>2 DEF Sound, Table, HalfEmpty
<1>4. Moved = {i \in Taken(t) : i < from}
  BY DEF Moved
<1>5. Table(t)
  BY <1>2 DEF Sound
<1>6. IsFiniteSet(Taken(t)) /\ Moved \subseteq Taken(t)
  BY <1>4, <1>5, TakenFinite
<1>7. IsFiniteSet(Moved) /\ Cardinality(Moved) \in Nat /\ Cardinality(Moved) <= t.len
  BY <1>2, <1>6, FS_Subset, FS_CardinalityType DEF Sound, HalfEmpty
<1> QED
  BY <1>1, <1>2, <1>3, <1>4, <1>7 DEF Inv, Growth

\* One turn of grow's loop: what is in use in the slot is new among what has moved.
LEMMA MoveParts ==
  ASSUME Inv, Move, NEW t, t = tables[todo.ns], NEW key, key = t.keys[from]
  PROVE  /\ from \in 0 .. t.size - 1
         /\ key \in Keys \cup {Empty, Tombstone} /\ t.vals[from] \in AnyId
         /\ key = Empty => Moved' = Moved
         /\ key # Empty =>
              /\ from \in Taken(t) /\ Moved' = Moved \cup {from}
              /\ Cardinality(Moved') = Cardinality(Moved) + 1
              /\ grown.size # 0 /\ 2 * (grown.len + 1) <= grown.size
<1>1. /\ Growing /\ from < t.size /\ from' = from + 1 /\ UNCHANGED <<tables, todo>>
  BY DEF Move
<1>2. /\ Sound(t) /\ t.size \in Nat \ {0, 1} /\ t.len \in Nat /\ 2 * t.len <= t.size
      /\ grown.size = 2 * t.size /\ grown.len \in Nat /\ from \in Nat
      /\ Moved = {i \in Taken(t) : i < from} /\ IsFiniteSet(Moved)
      /\ Cardinality(Moved) \in Nat /\ grown.len <= Cardinality(Moved)
  BY <1>1, GrowthFacts
<1>3. from \in 0 .. t.size - 1
  BY <1>1, <1>2
<1>4. /\ key \in Keys \cup {Empty, Tombstone} /\ t.vals[from] \in AnyId
      /\ DOMAIN t.keys = 0 .. t.size - 1
  BY <1>2, <1>3 DEF Sound, Table
<1>5. Moved' = {i \in Taken(t) : i < from + 1}
  BY <1>1 DEF Moved
<1>6. Taken(t) \subseteq Nat
  BY <1>2, TakenFinite DEF Sound
<1>7. \A i \in Nat : i < from + 1 <=> i < from \/ i = from
  BY <1>2
<1>8. ASSUME key = Empty PROVE Moved' = Moved
  <2>1. from \notin Taken(t)
    BY <1>8 DEF Taken
  <2> QED
    BY <1>2, <1>5, <1>6, <1>7, <2>1
<1>9. ASSUME key # Empty
      PROVE  /\ from \in Taken(t) /\ Moved' = Moved \cup {from}
             /\ Cardinality(Moved') = Cardinality(Moved) + 1
             /\ grown.size # 0 /\ 2 * (grown.len + 1) <= grown.size
  <2>1. from \in Taken(t)
    BY <1>3, <1>4, <1>9 DEF Taken
  <2>2. Moved' = Moved \cup {from} /\ from \notin Moved
    BY <1>2, <1>5, <1>6, <1>7, <2>1
  <2>3. Cardinality(Moved') = Cardinality(Moved) + 1
    BY <1>2, <2>2, FS_AddElement
  <2>4. IsFiniteSet(Taken(t)) /\ Cardinality(Taken(t)) = t.len
    BY <1>2, TakenFinite DEF Sound, HalfEmpty
  <2>5. Moved' \subseteq Taken(t)
    BY <1>5
  <2>6. Cardinality(Moved') <= t.len
    BY <2>4, <2>5, FS_Subset
  <2>7. grown.size # 0 /\ 2 * (grown.len + 1) <= grown.size
    BY <1>2, <2>3, <2>6
  <2> QED
    BY <2>1, <2>2, <2>3, <2>7
<1> QED
  BY <1>3, <1>4, <1>8, <1>9

LEMMA MoveInv == Inv /\ Move => Inv'
<1> SUFFICES ASSUME Inv, Move PROVE Inv'
  OBVIOUS
<1> PICK t : t = tables[todo.ns]
  OBVIOUS
<1> PICK key : key = t.keys[from]
  OBVIOUS
<1> PICK id : id = t.vals[from]
  OBVIOUS
<1>1. /\ Growing /\ from < t.size /\ grown' = Rehash(grown, key, id) /\ from' = from + 1
      /\ UNCHANGED <<tables, todo, answer>>
  BY DEF Move
<1>2. /\ todo.ns \in Spaces /\ todo.key \in Keys /\ todo.id \in Ids[todo.key] \ {0}
      /\ Sound(grown) /\ t.size \in Nat \ {0, 1} /\ from \in Nat
      /\ grown.size = 2 * t.size /\ grown.len \in Nat
      /\ Cardinality(Moved) \in Nat /\ grown.len <= Cardinality(Moved)
  BY <1>1, GrowthFacts
<1>3. /\ key \in Keys \cup {Empty, Tombstone} /\ id \in AnyId
      /\ key = Empty => Moved' = Moved
      /\ key # Empty => /\ Cardinality(Moved') = Cardinality(Moved) + 1
                        /\ grown.size # 0 /\ 2 * (grown.len + 1) <= grown.size
  BY MoveParts
<1>4. /\ Sound(grown') /\ grown'.size = grown.size
      /\ grown'.len <= Cardinality(Moved')
  <2>1. CASE key = Empty
    <3>1. grown' = grown
      BY <1>1, <2>1 DEF Rehash
    <3> QED
      BY <1>2, <1>3, <2>1, <3>1
  <2>2. CASE key = Tombstone
    <3>1. grown' = grown /\ key # Empty
      BY <1>1, <2>2 DEF Rehash, Empty, Tombstone
    <3> QED
      BY <1>2, <1>3, <3>1
  <2>3. CASE key \in Keys
    <3>1. key # Empty
      BY <2>3, NamespaceAssumption DEF Keys, Empty
    <3>2. /\ Sound(grown') /\ grown'.size = grown.size /\ grown'.len = grown.len + 1
      BY <1>1, <1>2, <1>3, <2>3, <3>1, RehashSound
    <3> QED
      BY <1>2, <1>3, <3>1, <3>2
  <2> QED
    BY <1>3, <2>1, <2>2, <2>3
<1>5. TypeOK' /\ ProbesEnd'
  BY <1>1, <1>2, <1>4 DEF Inv, TypeOK, ProbesEnd, Sound
<1>6. Growth'
  BY <1>1, <1>2, <1>4 DEF Growth
<1> QED
  BY <1>1, <1>5, <1>6 DEF Inv

\* The table that has grown has room for the key that is set.
LEMMA RoomInGrown ==
  ASSUME Inv, SetGrown, NEW t, t = tables[todo.ns]
  PROVE  /\ grown.size # 0 /\ 2 * (grown.len + 1) <= grown.size
         /\ Sound(Insert(grown, todo.key, todo.id))
         /\ Insert(grown, todo.key, todo.id).size = 2 * t.size
<1> PICK key \in Keys : key = todo.key
  BY GrowthFacts DEF SetGrown
<1> PICK id \in Ids[key] : id = todo.id
  BY GrowthFacts DEF SetGrown
<1>1. /\ Sound(grown) /\ t.size \in Nat \ {0, 1}
      /\ t.len \in Nat /\ 2 * t.len <= t.size
      /\ grown.size = 2 * t.size /\ grown.len \in Nat
      /\ Cardinality(Moved) \in Nat /\ grown.len <= Cardinality(Moved)
      /\ Cardinality(Moved) <= t.len
  BY GrowthFacts DEF SetGrown
<1>2. grown.size # 0 /\ 2 * (grown.len + 1) <= grown.size
  BY <1>1
<1>3. id \in AnyId
  BY DEF AnyId, Keys
<1>4. Sound(Insert(grown, key, id)) /\ Insert(grown, key, id).size = grown.size
  BY <1>1, <1>2, <1>3, InsertSound
<1> QED
  BY <1>1, <1>2, <1>4

LEMMA SetGrownInv == Inv /\ SetGrown => Inv'
<1> SUFFICES ASSUME Inv, SetGrown PROVE Inv'
  OBVIOUS
<1> PICK ns : ns = todo.ns
  OBVIOUS
<1> PICK u : u = Insert(grown, todo.key, todo.id)
  OBVIOUS
<1>1. /\ Growing /\ tables' = [tables EXCEPT ![ns] = u]
      /\ grown' = NewTable(0) /\ from' = 0 /\ todo' = NoBinding /\ answer' = 0
  BY DEF SetGrown
<1>2. ns \in Spaces /\ tables[ns].size \in Nat
  BY <1>1, GrowthFacts
<1>3. Sound(u) /\ u.size = 2 * tables[ns].size
  BY RoomInGrown
<1>4. u.size # 1
  BY <1>2, <1>3
<1>5. /\ DOMAIN tables' = Spaces /\ tables'[ns] = u
      /\ \A s \in Spaces : s # ns => tables'[s] = tables[s]
  BY <1>1, <1>2 DEF Inv
<1>6. Sound(grown')
  BY <1>1, NewSound
<1>7. NoBinding \in [ns : Nat, key : Nat, id : Nat]
  BY DEF NoBinding
<1>8. TypeOK'
  BY <1>1, <1>3, <1>5, <1>6, <1>7 DEF Inv, TypeOK, Sound, AnyId
<1>9. ProbesEnd'
  BY <1>3, <1>5, <1>6 DEF Inv, ProbesEnd, Sound
<1>10. Growth'
  BY <1>1 DEF Growth, Growing
<1> QED
  BY <1>4, <1>5, <1>8, <1>9, <1>10 DEF Inv

LEMMA NextInv == Inv /\ [Next]_vars => Inv'
<1> SUFFICES ASSUME Inv, [Next]_vars PROVE Inv'
  OBVIOUS
<1>1. CASE UNCHANGED vars
  BY <1>1 DEF vars, Inv, TypeOK, ProbesEnd, Growth, Growing, Moved
<1>2. CASE Next
  BY <1>2, GetInv, SetInv, ReplaceInv, MoveInv, SetGrownInv DEF Next
<1> QED
  BY <1>1, <1>2

LEMMA Invariance == Spec => []Inv
BY InitInv, NextInv, PTL DEF Spec

\* Every state of the tables is of the declared types.
THEOREM TypeCorrect == Spec => []TypeOK
BY Invariance, PTL DEF Inv

\* Whatever is set, replaced and deleted, at least half of every table is empty and
\* len counts the rest, tombstones too, so that no search of namespace.c:27, 49, 68
\* or 94 runs for ever, not even in the table that grow is filling.
THEOREM SearchesEnd == Spec => []ProbesEnd
BY Invariance, PTL DEF Inv

-----------------------------------------------------------------------------
(* When no key is deleted: every key is found *)

\* Setting a key to 0 deletes it.
NoDelete == \A key \in Keys : 0 \notin Ids[key]

\* A table without tombstones in which every key is the one its search finds.
Clean(t) ==
  /\ Sound(t) /\ Found(t)
  /\ \A i \in Taken(t) : t.keys[i] # Tombstone /\ t.vals[i] # 0

\* What get answers is the value next to the key.
LEMMA FindIs ==
  ASSUME NEW t, Clean(t), NEW key \in Keys
  PROVE  /\ \A i \in Taken(t) : t.keys[i] = key => /\ Find(t, key) = t.vals[i]
                                                   /\ Find(t, key) # 0
                                                   /\ Probe(t, key, {Empty, Tombstone, key}) = i
         /\ (\A i \in Taken(t) : t.keys[i] # key) => Find(t, key) = 0
<1> PICK slot : slot = Probe(t, key, {Empty, Tombstone, key})
  OBVIOUS
<1>1. key \notin {Empty, Tombstone}
  BY NamespaceAssumption DEF Keys, Empty, Tombstone
<1>2. t.size \in Nat /\ DOMAIN t.keys = 0 .. t.size - 1
  BY DEF Clean, Sound, Table
<1>3. ASSUME NEW i \in Taken(t), t.keys[i] = key
      PROVE  Find(t, key) = t.vals[i] /\ Find(t, key) # 0 /\ slot = i
  <2>1. i \in 0 .. t.size - 1
    BY <1>2 DEF Taken
  <2>2. slot = i /\ t.size # 0
    <3>1. Probe(t, t.keys[i], {Empty, Tombstone, t.keys[i]}) = i
      BY <1>1, <1>2, <1>3, <2>1 DEF Clean, Found
    <3>2. t.size # 0
      BY <1>2, <2>1
    <3> QED
      BY ONLY <1>3, <3>1, <3>2, slot = Probe(t, key, {Empty, Tombstone, key})
  <2>3. Find(t, key) = t.vals[i]
    BY <1>3, <2>2 DEF Find
  <2> QED
    BY <2>2, <2>3 DEF Clean
<1>4. ASSUME \A i \in Taken(t) : t.keys[i] # key
      PROVE  Find(t, key) = 0
  <2>1. CASE t.size = 0
    BY <2>1 DEF Find
  <2>2. CASE t.size # 0
    <3>1. slot \in 0 .. t.size - 1
      BY <2>2, ProbeEnds DEF Clean
    <3>2. t.keys[slot] # key
      BY <1>1, <1>2, <1>4, <3>1 DEF Taken
    <3> QED
      BY <3>2 DEF Find
  <2> QED
    BY <2>1, <2>2
<1> QED
  BY <1>3, <1>4

\* set binds its key, in the one slot where get looks for it, and no other.
LEMMA InsertClean ==
  ASSUME NEW t, Clean(t), t.size # 0, 2 * (t.len + 1) <= t.size,
         NEW key \in Keys, NEW id \in AnyId \ {0},
         NEW u, u = Insert(t, key, id)
  PROVE  /\ Clean(u)
         /\ \A k \in Keys : Find(u, k) = IF k = key THEN id ELSE Find(t, k)
<1> DEFINE Ends(k) == {Empty, Tombstone, k}
<1> PICK slot : slot = Probe(t, key, Ends(key))
  OBVIOUS
<1> PICK len : len = IF t.keys[slot] = Empty THEN t.len + 1 ELSE t.len
  OBVIOUS
<1>1. Sound(t) /\ Sound(u) /\ Table(t)
  BY InsertSound DEF Clean, Sound
<1>2. \A k \in Keys : k \notin {Empty, Tombstone}
  BY NamespaceAssumption DEF Keys, Empty, Tombstone
<1>3. t.size \in Nat /\ DOMAIN t.keys = 0 .. t.size - 1
  BY <1>1 DEF Table
<1>4. /\ slot \in 0 .. t.size - 1 /\ t.keys[slot] \in Ends(key)
      /\ \E i \in 0 .. t.size - 1 : EndsAt(t, key, i, Ends(key)) /\ slot = Hash(t, key, i)
  BY <1>1, ProbeEnds
<1>5. t.keys[slot] \in {Empty, key}
  BY <1>3, <1>4 DEF Clean, Taken, Empty, Tombstone
<1>6. u = Put(t, slot, key, id, len)
  <2>1. Ends(key) = {Tombstone, key, Empty}
    OBVIOUS
  <2> QED
    BY <2>1 DEF Insert
<1>7. /\ u.size = t.size /\ u.keys[slot] = key /\ u.vals[slot] = id
      /\ \A i \in 0 .. t.size - 1 :
           i # slot => u.keys[i] = t.keys[i] /\ u.vals[i] = t.vals[i]
      /\ Taken(u) = Taken(t) \cup {slot} /\ DOMAIN u.keys = 0 .. t.size - 1
  BY ONLY <1>1, <1>4, <1>6, PutParts, key \in Keys, id \in AnyId
<1>8. \A k, i : Hash(u, k, i) = Hash(t, k, i)
  BY <1>7 DEF Hash
<1>9. \A k \in Keys, i \in Nat : Hash(t, k, i) \in 0 .. t.size - 1
  BY <1>1, HashRange
<1>10. ASSUME NEW j \in 0 .. t.size - 1, u.keys[j] \notin {Empty, Tombstone}
       PROVE  Probe(u, u.keys[j], Ends(u.keys[j])) = j
  <2>1. CASE j = slot
    <3>1. PICK i \in 0 .. t.size - 1 : EndsAt(t, key, i, Ends(key)) /\ slot = Hash(t, key, i)
      BY <1>4
    <3>2. ASSUME NEW h \in 0 .. i - 1 PROVE u.keys[Hash(u, key, h)] \notin Ends(key)
      <4>1. t.keys[Hash(t, key, h)] \notin Ends(key)
        BY <3>1 DEF EndsAt
      <4>2. Hash(t, key, h) # slot
        BY <1>4, <4>1
      <4>3. u.keys[Hash(t, key, h)] = t.keys[Hash(t, key, h)]
        <5>1. Hash(t, key, h) \in 0 .. t.size - 1
          BY <1>3, <1>9
        <5> QED
          BY ONLY <1>7, <4>2, <5>1
      <4> QED
        BY <1>8, <4>1, <4>3
    <3>3. EndsAt(u, key, i, Ends(key))
      BY <1>7, <1>8, <3>1, <3>2 DEF EndsAt
    <3>4. Probe(u, key, Ends(key)) = Hash(u, key, i)
      BY <1>3, <1>7, <3>3, ProbeIs
    <3> QED
      BY <1>7, <1>8, <2>1, <3>1, <3>4
  <2>2. CASE j # slot
    <3> PICK k : k = u.keys[j]
      OBVIOUS
    <3>1. k = t.keys[j] /\ k \in Keys /\ j \in Taken(t)
      BY <1>1, <1>3, <1>7, <1>10, <2>2 DEF Table, Taken
    <3>2. Probe(t, k, Ends(k)) = j
      BY <3>1, FindIs
    <3>3. k # key
      BY <2>2, <3>2
    <3>4. PICK i \in 0 .. t.size - 1 : EndsAt(t, k, i, Ends(k)) /\ j = Hash(t, k, i)
      BY <1>1, <3>1, <3>2, ProbeEnds
    <3>5. ASSUME NEW h \in 0 .. i - 1 PROVE u.keys[Hash(u, k, h)] \notin Ends(k)
      <4>1. t.keys[Hash(t, k, h)] \notin Ends(k)
        BY <3>4 DEF EndsAt
      <4>2. CASE Hash(t, k, h) = slot
        BY <1>2, <1>7, <1>8, <3>3, <4>2
      <4>3. CASE Hash(t, k, h) # slot
        <5>1. u.keys[Hash(t, k, h)] = t.keys[Hash(t, k, h)]
          <6>1. Hash(t, k, h) \in 0 .. t.size - 1
            <7>1. k \in Keys /\ h \in Nat
              BY <1>3, <3>1
            <7> QED
              BY ONLY <1>9, <7>1
          <6> QED
            BY ONLY <1>7, <4>3, <6>1
        <5> QED
          BY <1>8, <4>1, <5>1
      <4> QED
        BY <4>2, <4>3
    <3>6. EndsAt(u, k, i, Ends(k))
      BY <1>8, <3>4, <3>5 DEF EndsAt
    <3>7. Probe(u, k, Ends(k)) = Hash(u, k, i)
      BY <1>3, <1>7, <3>6, ProbeIs
    <3> QED
      BY <1>8, <3>4, <3>7
  <2> QED
    BY <2>1, <2>2
<1>11. \A i \in Taken(u) : u.keys[i] # Tombstone /\ u.vals[i] # 0
  <2>1. \A i \in Taken(t) : t.keys[i] # Tombstone /\ t.vals[i] # 0 /\ i \in 0 .. t.size - 1
    BY <1>3 DEF Clean, Taken
  <2> QED
    BY <1>2, <1>7, <2>1
<1>12. Clean(u)
  BY <1>1, <1>7, <1>10, <1>11 DEF Clean, Found
<1>13. ASSUME NEW k \in Keys
       PROVE  Find(u, k) = IF k = key THEN id ELSE Find(t, k)
  <2>1. CASE k = key
    <3>1. slot \in Taken(u)
      BY <1>7
    <3>2. Find(u, key) = u.vals[slot]
      BY ONLY <1>7, <1>12, <3>1, FindIs, key \in Keys
    <3> QED
      BY <1>7, <2>1, <3>2
  <2>2. CASE k # key /\ \E i \in Taken(t) : t.keys[i] = k
    <3>1. PICK i \in Taken(t) : t.keys[i] = k
      BY <2>2
    <3>2. i # slot
      BY <1>2, <1>5, <2>2, <3>1
    <3>3. i \in Taken(u) /\ u.keys[i] = k /\ u.vals[i] = t.vals[i]
      BY <1>3, <1>7, <3>1, <3>2 DEF Taken
    <3>4. Find(u, k) = u.vals[i]
      BY ONLY <1>12, <3>3, FindIs, k \in Keys
    <3>5. Find(t, k) = t.vals[i]
      BY ONLY <3>1, FindIs, k \in Keys, Clean(t)
    <3> QED
      BY <2>2, <3>3, <3>4, <3>5
  <2>3. CASE k # key /\ \A i \in Taken(t) : t.keys[i] # k
    <3>1. \A i \in Taken(u) : u.keys[i] # k
      BY <1>3, <1>7, <2>3 DEF Taken
    <3>2. Find(u, k) = 0
      BY <1>12, <3>1, FindIs
    <3>3. Find(t, k) = 0
      BY <2>3, FindIs
    <3> QED
      BY <2>3, <3>2, <3>3
  <2> QED
    BY <2>1, <2>2, <2>3
<1> QED
  BY <1>12, <1>13

\* grow, which compares no keys, puts a key that is new where set would.
LEMMA RehashIsInsert ==
  ASSUME NEW t, Clean(t), t.size # 0, NEW key \in Keys, NEW id, Find(t, key) = 0
  PROVE  Rehash(t, key, id) = Insert(t, key, id)
<1> PICK slot : slot = Probe(t, key, {Tombstone, key, Empty})
  OBVIOUS
<1>1. key \notin {Empty, Tombstone}
  BY NamespaceAssumption DEF Keys, Empty, Tombstone
<1>2. Sound(t) /\ t.size \in Nat /\ DOMAIN t.keys = 0 .. t.size - 1
  BY DEF Clean, Sound, Table
<1>3. PICK i \in 0 .. t.size - 1 :
        EndsAt(t, key, i, {Tombstone, key, Empty}) /\ slot = Hash(t, key, i)
  BY <1>2, ProbeEnds
<1>4. slot \in 0 .. t.size - 1 /\ t.keys[slot] \in {Tombstone, key, Empty}
  BY <1>2, ProbeEnds
<1>5. t.keys[slot] = Empty
  <2> SUFFICES ASSUME t.keys[slot] # Empty PROVE FALSE
    OBVIOUS
  <2>1. slot \in Taken(t)
    BY <1>2, <1>4 DEF Taken
  <2>2. t.keys[slot] = key
    BY <1>4, <2>1 DEF Clean
  <2> QED
    BY <2>1, <2>2, FindIs
<1>6. EndsAt(t, key, i, {Empty})
  BY <1>3, <1>5 DEF EndsAt
<1>7. Probe(t, key, {Empty}) = slot
  BY <1>2, <1>3, <1>6, ProbeIs
<1> QED
  BY <1>1, <1>5, <1>7 DEF Rehash, Insert

\* What get finds in the table that grows is what has been moved.
Transfer ==
  Growing =>
    \A k \in Keys :
      Find(grown, k) =
        IF \E i \in Moved : tables[todo.ns].keys[i] = k THEN Find(tables[todo.ns], k) ELSE 0

CleanInv ==
  /\ Inv /\ Transfer
  /\ Clean(grown) /\ \A s \in Spaces : Clean(tables[s])

LEMMA NewClean ==
  ASSUME NEW size \in Nat
  PROVE  Clean(NewTable(size)) /\ \A k \in Keys : Find(NewTable(size), k) = 0
<1> PICK t : t = NewTable(size)
  OBVIOUS
<1>1. Sound(t) /\ t.size = size /\ \A i \in 0 .. size - 1 : t.keys[i] = Empty
  BY NewSound
<1>2. DOMAIN t.keys = 0 .. size - 1
  BY DEF NewTable
<1>3. Taken(t) = {}
  BY <1>1, <1>2 DEF Taken
<1>4. Clean(t)
  BY <1>1, <1>2, <1>3 DEF Clean, Found
<1>5. \A k \in Keys : Find(t, k) = 0
  BY <1>3, <1>4, FindIs
<1> QED
  BY <1>4, <1>5

LEMMA InitClean == Init => CleanInv
<1> SUFFICES ASSUME Init PROVE CleanInv
  OBVIOUS
<1>1. Clean(NewTable(0))
  BY NewClean
<1>2. \A s \in Spaces : tables[s] = NewTable(0)
  BY DEF Init
<1>3. Transfer
  BY DEF Init, Transfer, Growing
<1> QED
  BY <1>1, <1>2, <1>3, InitInv DEF Init, CleanInv

\* set binds its key, in a table that has room.
LEMMA SetClean ==
  ASSUME CleanInv, NEW ns \in Spaces, NEW key \in Keys, NEW id \in Ids[key], id # 0,
         NEW u, u = Insert(Allocated(tables[ns]), key, id), ~Crowded(tables[ns])
  PROVE  /\ Clean(u)
         /\ \A k \in Keys : Find(u, k) = IF k = key THEN id ELSE Find(tables[ns], k)
<1> PICK t : t = tables[ns]
  OBVIOUS
<1> PICK v : v = Allocated(t)
  OBVIOUS
<1>1. Clean(t) /\ id \in AnyId \ {0} /\ t.size \in Nat /\ t.len \in Nat
  BY DEF CleanInv, Clean, Sound, Table, AnyId, Keys
<1>2. Clean(v) /\ v.size # 0 /\ 2 * (v.len + 1) <= v.size
      /\ \A k \in Keys : Find(v, k) = Find(t, k)
  <2>1. CASE t.size = 0
    <3>1. v = NewTable(Size) /\ Size \in Nat \ {0, 1}
      BY <2>1, NamespaceAssumption DEF Allocated
    <3>2. v.size = Size /\ v.len = 0
      BY <3>1, NewSound
    <3>3. \A k \in Keys : Find(t, k) = 0
      BY <2>1 DEF Find
    <3> QED
      BY <3>1, <3>2, <3>3, NewClean
  <2>2. CASE t.size # 0
    <3>1. t.len < t.size \div 2
      BY <1>1, <2>2 DEF Crowded
    <3>2. v = t
      BY <2>2 DEF Allocated
    <3> QED
      BY <1>1, <2>2, <3>1, <3>2
  <2> QED
    BY <2>1, <2>2
<1>3. u = Insert(v, key, id)
  OBVIOUS
<1>4. Clean(u) /\ \A k \in Keys : Find(u, k) = IF k = key THEN id ELSE Find(v, k)
  BY ONLY <1>1, <1>2, <1>3, InsertClean, key \in Keys
<1> QED
  BY <1>2, <1>4

\* One turn of grow's loop.
LEMMA MoveClean ==
  ASSUME CleanInv, Move
  PROVE  Clean(grown') /\ Transfer'
<1> PICK t : t = tables[todo.ns]
  OBVIOUS
<1> PICK key : key = t.keys[from]
  OBVIOUS
<1> PICK id : id = t.vals[from]
  OBVIOUS
<1>1. /\ Growing /\ grown' = Rehash(grown, key, id) /\ UNCHANGED <<tables, todo>>
  BY DEF Move
<1>2. todo.ns \in Spaces /\ Clean(t) /\ Clean(grown) /\ from \in Nat
      /\ Moved = {i \in Taken(t) : i < from}
  BY <1>1, GrowthFacts DEF CleanInv
<1>3. /\ key \in Keys \cup {Empty, Tombstone} /\ id \in AnyId
      /\ key = Empty => Moved' = Moved
      /\ key # Empty => /\ from \in Taken(t) /\ Moved' = Moved \cup {from}
                        /\ grown.size # 0 /\ 2 * (grown.len + 1) <= grown.size
  BY MoveParts DEF CleanInv
<1>4. \A k \in Keys : Find(grown, k) =
        IF \E i \in Moved : t.keys[i] = k THEN Find(t, k) ELSE 0
  BY <1>1 DEF CleanInv, Transfer
<1>5. Transfer' <=> \A k \in Keys : Find(grown', k) =
        IF \E i \in Moved' : t.keys[i] = k THEN Find(t, k) ELSE 0
  BY <1>1 DEF Transfer, Growing
<1>6. CASE key = Empty
  <2>1. grown' = grown
    BY <1>1, <1>6 DEF Rehash
  <2> QED
    BY <1>2, <1>3, <1>4, <1>5, <1>6, <2>1
<1>7. CASE key # Empty
  <2>1. key \in Keys /\ id # 0 /\ from \in Taken(t)
    BY <1>2, <1>3, <1>7 DEF Clean
  <2>2. ASSUME NEW i \in Taken(t), t.keys[i] = key PROVE i = from
    <3>1. Probe(t, key, {Empty, Tombstone, key}) = i
      BY ONLY <1>2, <2>1, <2>2, FindIs
    <3>2. Probe(t, key, {Empty, Tombstone, key}) = from
      BY ONLY <1>2, <2>1, FindIs, key = t.keys[from]
    <3> QED
      BY ONLY <3>1, <3>2
  <2>3. \A i \in Moved : t.keys[i] # key
    BY <1>2, <2>2
  <2>4. Find(grown, key) = 0
    BY <1>4, <2>1, <2>3
  <2>5. grown' = Insert(grown, key, id)
    BY <1>1, <1>2, <1>3, <1>7, <2>1, <2>4, RehashIsInsert
  <2>6. /\ Clean(grown')
        /\ \A k \in Keys : Find(grown', k) = IF k = key THEN id ELSE Find(grown, k)
    BY <1>2, <1>3, <1>7, <2>1, <2>5, InsertClean
  <2>7. Find(t, key) = id
    BY <1>2, <2>1, FindIs
  <2>8. \A k \in Keys : (\E i \in Moved' : t.keys[i] = k)
                          <=> (k = key \/ \E i \in Moved : t.keys[i] = k)
    BY <1>3, <1>7
  <2>9. \A k \in Keys : Find(grown', k) =
          IF \E i \in Moved' : t.keys[i] = k THEN Find(t, k) ELSE 0
    BY <1>4, <2>6, <2>7, <2>8
  <2> QED
    BY <1>5, <2>6, <2>9
<1> QED
  BY <1>6, <1>7

\* When grow is over nothing is lost, and set binds its key.
LEMMA SetGrownClean ==
  ASSUME CleanInv, SetGrown, NEW u, u = Insert(grown, todo.key, todo.id)
  PROVE  /\ Clean(u)
         /\ \A k \in Keys :
              Find(u, k) = IF k = todo.key THEN todo.id ELSE Find(tables[todo.ns], k)
<1> PICK t : t = tables[todo.ns]
  OBVIOUS
<1> PICK key : key = todo.key
  OBVIOUS
<1> PICK id : id = todo.id
  OBVIOUS
<1>1. /\ Growing /\ from = t.size
  BY DEF SetGrown
<1>2. /\ todo.ns \in Spaces /\ key \in Keys /\ id \in AnyId \ {0} /\ Clean(t) /\ Clean(grown)
      /\ Moved = {i \in Taken(t) : i < from} /\ t.size \in Nat
  BY <1>1, GrowthFacts DEF CleanInv, AnyId, Keys
<1>3. Moved = Taken(t)
  <2>1. \A i \in Taken(t) : i \in 0 .. t.size - 1
    BY <1>2, TakenFinite DEF Clean, Sound
  <2> QED
    BY <1>1, <1>2, <2>1
<1>4. \A k \in Keys : Find(grown, k) = Find(t, k)
  <2>1. \A k \in Keys : Find(grown, k) =
          IF \E i \in Moved : t.keys[i] = k THEN Find(t, k) ELSE 0
    BY <1>1 DEF CleanInv, Transfer
  <2>2. ASSUME NEW k \in Keys PROVE Find(grown, k) = Find(t, k)
    <3>1. (\A i \in Taken(t) : t.keys[i] # k) => Find(t, k) = 0
      BY ONLY <1>2, FindIs, k \in Keys
    <3> QED
      BY <1>3, <2>1, <3>1
  <2> QED
    BY <2>2
<1>5. grown.size # 0 /\ 2 * (grown.len + 1) <= grown.size
  BY RoomInGrown DEF CleanInv
<1>6. Clean(u) /\ \A k \in Keys : Find(u, k) = IF k = key THEN id ELSE Find(grown, k)
  BY <1>2, <1>5, InsertClean
<1> QED
  BY <1>4, <1>6

\* The tables after one of them is replaced.
LEMMA Replaced ==
  ASSUME Inv, NEW ns \in Spaces, NEW u, tables' = [tables EXCEPT ![ns] = u]
  PROVE  /\ tables'[ns] = u
         /\ \A s \in Spaces : s # ns => tables'[s] = tables[s]
BY DEF Inv

LEMMA SetCleanInv ==
  ASSUME CleanInv, NEW ns \in Spaces, NEW key \in Keys, NEW id \in Ids[key], id # 0,
         Set(ns, key, id)
  PROVE  Clean(grown)' /\ Transfer' /\ \A s \in Spaces : Clean(tables[s])'
<1>1. Inv /\ ~Growing
  BY DEF CleanInv, Set
<1>2. CASE ~Crowded(tables[ns]) /\ Store(ns, Insert(Allocated(tables[ns]), key, id))
  <2> PICK u : u = Insert(Allocated(tables[ns]), key, id)
    OBVIOUS
  <2>1. tables' = [tables EXCEPT ![ns] = u] /\ UNCHANGED <<grown, from, todo>>
    BY <1>2 DEF Store
  <2>2. Clean(u)
    BY <1>2, SetClean
  <2>3. \A s \in Spaces : Clean(tables[s])'
    BY <1>1, <2>1, <2>2, Replaced DEF CleanInv
  <2>4. Transfer'
    BY <1>1, <2>1 DEF Transfer, Growing
  <2> QED
    BY <2>1, <2>3, <2>4 DEF CleanInv
<1>3. CASE /\ Crowded(tables[ns]) /\ grown' = NewTable(2 * tables[ns].size) /\ from' = 0
           /\ todo' = [ns |-> ns, key |-> key, id |-> id]
           /\ UNCHANGED <<tables, answer>>
  <2> PICK t : t = tables[ns]
    OBVIOUS
  <2>1. Clean(t) /\ 2 * t.size \in Nat
    BY DEF CleanInv, Clean, Sound, Table
  <2>2. Clean(grown') /\ \A k \in Keys : Find(grown', k) = 0
    BY <1>3, <2>1, NewClean
  <2>3. Moved' = {}
    <3>1. Taken(t) \subseteq Nat
      BY <2>1, TakenFinite DEF Clean, Sound
    <3>2. Moved' = {i \in Taken(t) : i < 0}
      BY <1>3 DEF Moved
    <3> QED
      BY <3>1, <3>2
  <2>4. Transfer'
    BY <2>2, <2>3 DEF Transfer
  <2> QED
    BY <1>3, <2>2, <2>4 DEF CleanInv
<1> QED
  BY <1>2, <1>3 DEF Set

LEMMA SetGrownCleanInv ==
  ASSUME CleanInv, SetGrown
  PROVE  Clean(grown)' /\ Transfer' /\ \A s \in Spaces : Clean(tables[s])'
<1> PICK ns : ns = todo.ns
  OBVIOUS
<1> PICK u : u = Insert(grown, todo.key, todo.id)
  OBVIOUS
<1>1. /\ Inv /\ Growing /\ tables' = [tables EXCEPT ![ns] = u]
      /\ grown' = NewTable(0) /\ todo' = NoBinding
  BY DEF SetGrown, CleanInv
<1>2. ns \in Spaces
  BY <1>1, GrowthFacts
<1>3. Clean(u)
  BY SetGrownClean
<1>4. \A s \in Spaces : Clean(tables[s])'
  BY <1>1, <1>2, <1>3, Replaced DEF CleanInv
<1>5. Transfer'
  BY <1>1 DEF Transfer, Growing
<1> QED
  BY <1>1, <1>4, <1>5, NewClean

LEMMA SameClean ==
  ASSUME CleanInv, UNCHANGED <<tables, grown, from, todo>>
  PROVE  Clean(grown)' /\ Transfer' /\ \A s \in Spaces : Clean(tables[s])'
<1>1. Moved' = Moved
  BY DEF Moved
<1> QED
  BY <1>1 DEF CleanInv, Transfer, Growing

LEMMA NextClean ==
  ASSUME NoDelete, CleanInv, [Next]_vars
  PROVE  CleanInv'
<1>1. Inv'
  BY NextInv DEF CleanInv
<1> SUFFICES Clean(grown)' /\ Transfer' /\ \A s \in Spaces : Clean(tables[s])'
  BY <1>1 DEF CleanInv
<1>2. CASE UNCHANGED vars
  BY <1>2, SameClean DEF vars
<1>3. ASSUME NEW ns \in Spaces, NEW key \in Keys, Get(ns, key)
      PROVE  UNCHANGED <<tables, grown, from, todo>>
  BY <1>3 DEF Get
<1>4. ASSUME NEW ns \in Spaces, NEW key \in Keys, NEW id \in Ids[key], Set(ns, key, id)
      PROVE  Clean(grown)' /\ Transfer' /\ \A s \in Spaces : Clean(tables[s])'
  BY <1>4, SetCleanInv DEF NoDelete
<1>5. ASSUME NEW ns \in Spaces, NEW key \in Keys, NEW id \in Ids[key], Replace(ns, key, id)
      PROVE  Clean(grown)' /\ Transfer' /\ \A s \in Spaces : Clean(tables[s])'
  <2>1. id # 0
    BY DEF NoDelete
  <2>2. CASE Owner(ns, key) # 0 /\ Set(Owner(ns, key), key, id)
    BY <1>4, <2>2, OwnerIs
  <2>3. CASE answer' = -1 /\ UNCHANGED <<tables, grown, from, todo>>
    BY <2>3, SameClean
  <2> QED
    BY <1>5, <2>1, <2>2, <2>3 DEF Replace
<1>6. CASE Move
  <2>1. UNCHANGED tables
    BY <1>6 DEF Move
  <2> QED
    BY <1>6, <2>1, MoveClean DEF CleanInv
<1>7. CASE SetGrown
  BY <1>7, SetGrownCleanInv
<1> QED
  BY <1>2, <1>3, <1>4, <1>5, <1>6, <1>7, SameClean DEF Next

LEMMA CleanInvariance == ASSUME NoDelete PROVE Spec => []CleanInv
<1>1. CleanInv /\ [Next]_vars => CleanInv'
  BY NextClean
<1> QED
  BY <1>1, InitClean, PTL DEF Spec

\* As long as no key is deleted, every key of a table is the one its search finds,
\* however the keys collide, wrap around and are rehashed: a tombstone is all that
\* can hide one (namespace.c:97).
THEOREM KeysAreFound == ASSUME NoDelete PROVE Spec => []KeysFound
<1>1. CleanInv => KeysFound
  BY DEF CleanInv, Clean, KeysFound
<1> QED
  BY <1>1, CleanInvariance, PTL

-----------------------------------------------------------------------------
(* When no key is deleted: the tables implement the maps *)

LEMMA OwnerSame ==
  ASSUME NEW ns \in Spaces, NEW key \in Keys
  PROVE  S!Owner(ns, key) = Owner(ns, key)
<1>1. S!Line = Line
  BY DEF S!Line, Line, S!Spaces, Spaces
<1>2. \A s \in Spaces : key \in DOMAIN Maps[s] <=> Find(tables[s], key) # 0
  BY DEF Maps, Map
<1>3. {s \in S!Spaces : s \in S!Line[ns] /\ key \in DOMAIN Maps[s]}
        = {s \in Spaces : s \in Line[ns] /\ Find(tables[s], key) # 0}
  BY <1>1, <1>2 DEF S!Spaces, Spaces
<1> DEFINE Nearest(A) == IF A = {} THEN 0 ELSE CHOOSE s \in A : \A r \in A : r <= s
<1>4. Owner(ns, key) = Nearest({s \in Spaces : s \in Line[ns] /\ Find(tables[s], key) # 0})
  BY DEF Owner
<1>5. S!Owner(ns, key) =
        Nearest({s \in S!Spaces : s \in S!Line[ns] /\ key \in DOMAIN Maps[s]})
  BY DEF S!Owner
<1> HIDE DEF Nearest
<1> QED
  BY ONLY <1>3, <1>4, <1>5

\* Setting a key in a table sets it in its map.
LEMMA BindIs ==
  ASSUME NEW t, NEW u, NEW key \in Keys, NEW id, id # 0,
         \A k \in Keys : Find(u, k) = IF k = key THEN id ELSE Find(t, k)
  PROVE  Map(u) = S!Bind(Map(t), key, id)
<1>1. DOMAIN Map(u) = DOMAIN Map(t) \cup {key}
  BY DEF Map
<1>2. DOMAIN S!Bind(Map(t), key, id) = DOMAIN Map(t) \cup {key}
  BY DEF S!Bind
<1>3. ASSUME NEW k \in DOMAIN Map(t) \cup {key}
      PROVE  Map(u)[k] = S!Bind(Map(t), key, id)[k]
  <2>1. Map(u)[k] = Find(u, k) /\ k \in Keys
    BY <1>1, <1>3 DEF Map
  <2>2. S!Bind(Map(t), key, id)[k] = IF k = key THEN id ELSE Map(t)[k]
    BY <1>3 DEF S!Bind
  <2>3. k # key => Map(t)[k] = Find(t, k)
    BY <1>3 DEF Map
  <2> QED
    BY <2>1, <2>2, <2>3
<1>4. /\ Map(u) = [k \in DOMAIN Map(u) |-> Map(u)[k]]
      /\ S!Bind(Map(t), key, id) =
           [k \in DOMAIN S!Bind(Map(t), key, id) |-> S!Bind(Map(t), key, id)[k]]
  BY DEF Map, S!Bind
<1> QED
  BY <1>1, <1>2, <1>3, <1>4

LEMMA SetMaps ==
  ASSUME CleanInv, NEW ns \in Spaces, NEW key \in Keys, NEW id, id # 0, NEW u,
         tables' = [tables EXCEPT ![ns] = u], answer' = 0,
         \A k \in Keys : Find(u, k) = IF k = key THEN id ELSE Find(tables[ns], k)
  PROVE  S!Set(ns, key, id)
<1>1. /\ tables'[ns] = u /\ \A s \in Spaces : s # ns => tables'[s] = tables[s]
  BY Replaced DEF CleanInv
<1>2. Map(u) = S!Bind(Map(tables[ns]), key, id)
  BY BindIs
<1>3. Maps' = [s \in Spaces |-> Map(tables'[s])]
  BY DEF Maps
<1>4. Maps[ns] = Map(tables[ns])
  BY DEF Maps
<1>5. Maps' = [Maps EXCEPT ![ns] = Map(u)]
  <2>1. ASSUME NEW s \in Spaces
        PROVE  Map(tables'[s]) = IF s = ns THEN Map(u) ELSE Map(tables[s])
    BY <1>1
  <2> QED
    BY <1>3, <2>1 DEF Maps
<1> QED
  BY <1>2, <1>4, <1>5 DEF S!Set

LEMMA SetImplements ==
  ASSUME CleanInv, NEW ns \in Spaces, NEW key \in Keys, NEW id \in Ids[key], id # 0,
         Set(ns, key, id)
  PROVE  S!Set(ns, key, id) \/ UNCHANGED S!vars
<1>1. CASE ~Crowded(tables[ns]) /\ Store(ns, Insert(Allocated(tables[ns]), key, id))
  <2> PICK u : u = Insert(Allocated(tables[ns]), key, id)
    OBVIOUS
  <2>1. tables' = [tables EXCEPT ![ns] = u] /\ answer' = 0
    BY <1>1 DEF Store
  <2>2. \A k \in Keys : Find(u, k) = IF k = key THEN id ELSE Find(tables[ns], k)
    BY <1>1, SetClean
  <2> QED
    BY <2>1, <2>2, SetMaps
<1>2. CASE UNCHANGED <<tables, answer>>
  BY <1>2 DEF S!vars, Maps
<1> QED
  BY <1>1, <1>2 DEF Set

\* The tables of lib/vm/namespace.c implement the maps the interpreter is written
\* for, with their parents, for every order of sets, replacements and look-ups and
\* while the tables grow, as long as no key is deleted.
THEOREM Refinement == ASSUME NoDelete PROVE Spec => ImplementsScopes
<1>1. Init => S!Init
  <2> SUFFICES ASSUME Init PROVE S!Init
    OBVIOUS
  <2>1. \A s \in Spaces : Map(tables[s]) = [k \in {} |-> 0]
    <3>1. ASSUME NEW s \in Spaces, NEW k \in Keys PROVE Find(tables[s], k) = 0
      BY DEF Init, Find, NewTable
    <3> QED
      BY <3>1 DEF Map
  <2> QED
    BY <2>1 DEF Init, Maps, S!Init, S!Spaces, Spaces
<1>2. CleanInv /\ [Next]_vars => [S!Next]_(S!vars)
  <2> SUFFICES ASSUME CleanInv, [Next]_vars PROVE S!Next \/ UNCHANGED S!vars
    OBVIOUS
  <2>1. CASE UNCHANGED vars
    BY <2>1 DEF vars, S!vars, Maps
  <2>2. ASSUME NEW ns \in Spaces, NEW key \in Keys, Get(ns, key)
        PROVE  S!Get(ns, key)
    <3>1. UNCHANGED Maps
      BY <2>2 DEF Get, Maps
    <3>2. Owner(ns, key) # 0 =>
            Maps[Owner(ns, key)][key] = Find(tables[Owner(ns, key)], key)
      BY OwnerIs DEF Maps, Map
    <3>3. S!Owner(ns, key) = Owner(ns, key)
      BY OwnerSame
    <3> QED
      BY <2>2, <3>1, <3>2, <3>3 DEF Get, S!Get
  <2>3. ASSUME NEW ns \in Spaces, NEW key \in Keys, NEW id \in Ids[key], Set(ns, key, id)
        PROVE  S!Set(ns, key, id) \/ UNCHANGED S!vars
    BY <2>3, SetImplements DEF NoDelete
  <2>4. ASSUME NEW ns \in Spaces, NEW key \in Keys, NEW id \in Ids[key], Replace(ns, key, id)
        PROVE  S!Replace(ns, key, id) \/ UNCHANGED S!vars
    <3>1. id # 0
      BY DEF NoDelete
    <3>2. S!Owner(ns, key) = Owner(ns, key)
      BY OwnerSame
    <3>3. CASE Owner(ns, key) # 0 /\ Set(Owner(ns, key), key, id)
      <4>1. Owner(ns, key) \in Spaces
        BY <3>3, OwnerIs
      <4>2. S!Set(Owner(ns, key), key, id) \/ UNCHANGED S!vars
        BY <2>3, <3>3, <4>1
      <4> QED
        BY <3>1, <3>2, <3>3, <4>2 DEF S!Replace
    <3>4. CASE Owner(ns, key) = 0 /\ answer' = -1 /\ UNCHANGED tables
      <4>1. UNCHANGED Maps
        BY <3>4 DEF Maps
      <4> QED
        BY <3>1, <3>2, <3>4, <4>1 DEF S!Replace
    <3> QED
      BY <2>4, <3>1, <3>3, <3>4 DEF Replace
  <2>5. CASE Move
    BY <2>5 DEF Move, S!vars, Maps
  <2>6. ASSUME SetGrown
        PROVE  /\ todo.ns \in Spaces /\ todo.key \in Keys /\ todo.id \in Ids[todo.key]
               /\ S!Set(todo.ns, todo.key, todo.id)
    <3> PICK u : u = Insert(grown, todo.key, todo.id)
      OBVIOUS
    <3>1. /\ todo.ns \in Spaces /\ todo.key \in Keys /\ todo.id \in Ids[todo.key] \ {0}
      BY <2>6, GrowthFacts DEF SetGrown, CleanInv
    <3>2. tables' = [tables EXCEPT ![todo.ns] = u] /\ answer' = 0
      BY <2>6 DEF SetGrown
    <3>3. \A k \in Keys :
            Find(u, k) = IF k = todo.key THEN todo.id ELSE Find(tables[todo.ns], k)
      BY <2>6, SetGrownClean
    <3> QED
      BY <3>1, <3>2, <3>3, SetMaps
  <2>7. S!Spaces = Spaces /\ S!Keys = Keys
    BY DEF S!Spaces, Spaces, S!Keys, Keys
  <2> QED
    BY <2>1, <2>2, <2>3, <2>4, <2>5, <2>6, <2>7 DEF Next, S!Next
<1> QED
  BY <1>1, <1>2, CleanInvariance, PTL DEF Spec, ImplementsScopes, S!Spec

=============================================================================
