----------------------------- MODULE Namespace ------------------------------
(***************************************************************************)
(* lib/vm/namespace.c: a namespace is a hash table with open addressing    *)
(* and linear probing, allocated when the first key is set and doubled     *)
(* when half of its slots have been used.  A deleted key leaves a          *)
(* tombstone.  The probes have no bound of their own: they rely on an      *)
(* empty slot, and on the slots between a key's home and the key.          *)
(***************************************************************************)
EXTENDS Integers, Sequences, FiniteSets

CONSTANTS Ids, Parent,        \* as in Scopes
          Size,               \* the size of a new table (16)
          MaxSize             \* bound: no table grows beyond it

Empty == 0
Tombstone == -1               \* ~0 in the code

ASSUME NamespaceAssumption ==
  /\ Size \in Nat \ {0, 1} /\ MaxSize \in Nat
  /\ DOMAIN Ids \subseteq Nat \ {0}
  /\ \A key \in DOMAIN Ids : Ids[key] \subseteq Nat
  /\ Parent \in Seq(Nat) /\ \A s \in DOMAIN Parent : Parent[s] < s

VARIABLES tables,   \* each namespace's hash table, v->ns.ns
          grown,    \* the table that grow is filling, newns
          from,     \* the slot of the old one it looks at
          todo,     \* the binding that set made room for, or NoBinding
          answer    \* what the last operation returned

vars == <<tables, grown, from, todo, answer>>

Spaces == DOMAIN Parent
Keys == DOMAIN Ids

-----------------------------------------------------------------------------
(* struct gil_vm_namespace: data's first half holds the keys, its second   *)
(* half their values.  Size 0 stands for a null pointer, no table yet.     *)

\* alloc
NewTable(size) ==
  [size |-> size, len |-> 0, keys |-> [i \in 0 .. size - 1 |-> Empty],
   vals |-> [i \in 0 .. size - 1 |-> 0]]

\* The slot of the i-th probe; mask is size - 1 and size a power of two.
Hash(t, key, i) == (key + i) % t.size

\* The i-th probe is the first to meet one of the stops; and its slot.
EndsAt(t, key, i, stops) ==
  /\ t.keys[Hash(t, key, i)] \in stops
  /\ \A j \in 0 .. i - 1 : t.keys[Hash(t, key, j)] \notin stops
Probe(t, key, stops) ==
  Hash(t, key, CHOOSE i \in 0 .. t.size - 1 : EndsAt(t, key, i, stops))

\* Mutant: the two halves of data are swapped.
SwappedPut(t, slot, key, id, len) ==
  [size |-> t.size, len |-> len, keys |-> [t.keys EXCEPT ![slot] = id],
   vals |-> [t.vals EXCEPT ![slot] = key]]

Put(t, slot, key, id, len) ==
  [size |-> t.size, len |-> len, keys |-> [t.keys EXCEPT ![slot] = key],
   vals |-> [t.vals EXCEPT ![slot] = id]]

\* Mutant: a key that is set again is put in the next empty slot.
AppendTo(t, key, id) == Put(t, Probe(t, key, {Empty, Tombstone}), key, id, t.len + 1)

\* set, in a table with room.
Insert(t, key, id) ==
  LET slot == Probe(t, key, {Tombstone, key, Empty})
  IN Put(t, slot, key, id, IF t.keys[slot] = Empty THEN t.len + 1 ELSE t.len)

\* del
Delete(t, key) ==
  LET slot == Probe(t, key, {key, Empty})
  IN IF t.size = 0 \/ t.keys[slot] # key THEN t
     ELSE Put(t, slot, Tombstone, t.vals[slot], t.len)

\* get: 0 when the probe meets an empty slot or a tombstone first.
Find(t, key) ==
  LET slot == Probe(t, key, {Empty, Tombstone, key})
  IN IF t.size = 0 \/ t.keys[slot] # key THEN 0 ELSE t.vals[slot]

\* grow, for one slot of the old table: what is in use there goes to the first empty
\* slot of the new one.
Rehash(t, key, id) ==
  IF key \in {Empty, Tombstone} THEN t
  ELSE Put(t, Probe(t, key, {Empty}), key, id, t.len + 1)

\* Mutant: a table grows only when it is full.
FullOnly(t) == t.size # 0 /\ t.len >= t.size

\* set asks for more room, whether or not the key is new.
Crowded(t) == t.size # 0 /\ t.len >= t.size \div 2

-----------------------------------------------------------------------------
(* The functions the interpreter calls. *)

\* A namespace and its ancestors, who have lower numbers.
Line[s \in Spaces] == {s} \cup (IF Parent[s] = 0 THEN {} ELSE Line[Parent[s]])

\* Mutant: the parents are not asked.
OwnOnly(ns, key) == IF Find(tables[ns], key) # 0 THEN ns ELSE 0

\* The namespace gil_vm_namespace_get and _replace end at: the nearest from ns
\* on that has the key, 0 if there is none.
Owner(ns, key) ==
  LET own == {s \in Spaces : s \in Line[ns] /\ Find(tables[s], key) # 0}
  IN IF own = {} THEN 0 ELSE CHOOSE s \in own : \A r \in own : r <= s

NoBinding == [ns |-> 0, key |-> 0, id |-> 0]
Growing == todo # NoBinding

Init ==
  /\ tables = [s \in Spaces |-> NewTable(0)]
  /\ grown = NewTable(0) /\ from = 0 /\ todo = NoBinding
  /\ answer = 0

\* gil_vm_namespace_get
Get(ns, key) ==
  /\ ~Growing
  /\ answer' = IF Owner(ns, key) = 0 THEN 0 ELSE Find(tables[Owner(ns, key)], key)
  /\ UNCHANGED <<tables, grown, from, todo>>

\* gil_vm_namespace_set, but for a table that grows.
Store(ns, t) ==
  /\ tables' = [tables EXCEPT ![ns] = t] /\ answer' = 0
  /\ UNCHANGED <<grown, from, todo>>

\* The table of a namespace that is set, allocated if there is none.
Allocated(t) == IF t.size = 0 THEN NewTable(Size) ELSE t

Set(ns, key, id) ==
  /\ ~Growing
  /\ \/ id = 0 /\ Store(ns, Delete(tables[ns], key))
     \/ /\ id # 0 /\ ~Crowded(tables[ns])
        /\ Store(ns, Insert(Allocated(tables[ns]), key, id))
     \/ /\ id # 0 /\ Crowded(tables[ns]) /\ 2 * tables[ns].size <= MaxSize
        /\ grown' = NewTable(2 * tables[ns].size) /\ from' = 0
        /\ todo' = [ns |-> ns, key |-> key, id |-> id]
        /\ UNCHANGED <<tables, answer>>

\* One turn of grow's loop, and set when it is over.
Move ==
  /\ Growing /\ from < tables[todo.ns].size
  /\ LET t == tables[todo.ns] IN grown' = Rehash(grown, t.keys[from], t.vals[from])
  /\ from' = from + 1
  /\ UNCHANGED <<tables, todo, answer>>

SetGrown ==
  /\ Growing /\ from = tables[todo.ns].size
  /\ tables' = [tables EXCEPT ![todo.ns] = Insert(grown, todo.key, todo.id)]
  /\ grown' = NewTable(0) /\ from' = 0 /\ todo' = NoBinding
  /\ answer' = 0

\* gil_vm_namespace_replace
Replace(ns, key, id) ==
  \/ id = 0 /\ Set(ns, key, 0)
  \/ id # 0 /\ Owner(ns, key) # 0 /\ Set(Owner(ns, key), key, id)
  \/ /\ id # 0 /\ Owner(ns, key) = 0 /\ ~Growing
     /\ answer' = -1
     /\ UNCHANGED <<tables, grown, from, todo>>

Next ==
  \/ \E ns \in Spaces, key \in Keys :
       \/ Get(ns, key)
       \/ \E id \in Ids[key] : Set(ns, key, id) \/ Replace(ns, key, id)
  \/ Move \/ SetGrown

Spec == Init /\ [][Next]_vars

-----------------------------------------------------------------------------
(* Properties *)

AnyId == {0} \cup UNION {Ids[key] : key \in Keys}

Table(t) ==
  /\ t.size \in Nat /\ t.len \in 0 .. t.size
  /\ t.keys \in [0 .. t.size - 1 -> Keys \cup {Empty, Tombstone}]
  /\ t.vals \in [0 .. t.size - 1 -> AnyId]

TypeOK ==
  /\ \A s \in Spaces : Table(tables[s])
  /\ Table(grown) /\ from \in Nat
  /\ todo \in [ns : Nat, key : Nat, id : Nat]
  /\ answer \in AnyId \cup {-1}

Taken(t) == {i \in DOMAIN t.keys : t.keys[i] # Empty}

\* At least half of a table is empty, and len, which decides when it grows, counts
\* every slot that is not, tombstones too.
HalfEmpty(t) == Cardinality(Taken(t)) = t.len /\ 2 * t.len <= t.size

\* No probe runs for ever (namespace.c:27, 49, 68, 94: loops that only an empty
\* slot or the key ends), whatever is set and deleted, and not while a table grows.
ProbesEnd == HalfEmpty(grown) /\ \A s \in Spaces : HalfEmpty(tables[s])

\* Every key in a table is the one its probe finds: no second copy of it, and
\* between its home and its slot nothing that ends the search (vm.c:737-765 would
\* read an old value or none).
Found(t) ==
  \A i \in DOMAIN t.keys :
    t.keys[i] \notin {Empty, Tombstone} =>
      Probe(t, t.keys[i], {Empty, Tombstone, t.keys[i]}) = i

KeysFound == Found(grown) /\ \A s \in Spaces : Found(tables[s])

\* The tables implement the maps the interpreter is written for.
Map(t) == [k \in {k \in Keys : Find(t, k) # 0} |-> Find(t, k)]
Maps == [s \in Spaces |-> Map(tables[s])]

S == INSTANCE Scopes WITH maps <- Maps

\* Whatever is set, replaced and looked up, in whatever order and while the
\* tables grow, the answers and the bindings are those of the maps.
ImplementsScopes == S!Spec

\* test/src/namespace.t.c:30-38, "handles a whole bunch of values": a key keeps its
\* value while others are set.  A step changes what is found of one key of one
\* namespace, the one that is set or deleted.
OthersStay ==
  [][ \E s \in Spaces, key \in Keys :
        \A r \in Spaces, k \in Keys :
          Find(tables'[r], k) = Find(tables[r], k) \/ <<r, k>> = <<s, key>> ]_vars

\* The same test sets 500 keys in a table of 16 slots (namespace.t.c:30-38): a table
\* that grows keeps the value of every key that is found in it, but for the key that
\* is set.
GrowthKeeps ==
  [][ Growing =>
        \A s \in Spaces, key \in Keys :
          Find(tables[s], key) # 0 =>
            \/ Find(tables'[s], key) = Find(tables[s], key)
            \/ <<s, key>> = <<todo.ns, todo.key>> ]_vars
=============================================================================
