----------------------------- MODULE StringSet ------------------------------
(***************************************************************************)
(* lib/strset.c: a hash table with open addressing that gives each string  *)
(* a number.  It is doubled when len reaches half of its size; but grow    *)
(* sets len to 0 and does not count the strings it moves, so that a table  *)
(* gets fuller than half, and fuller with each doubling.  The probes have  *)
(* no bound of their own: they end at an empty slot or at the string.      *)
(* Growing is a loop of its own here, one slot of the old table at a time. *)
(***************************************************************************)
EXTENDS Integers, FiniteSets

CONSTANTS Strings,
          Null,        \* an empty slot's key
          Hash,        \* a string's hash
          Size,        \* the size of a new table (16)
          MaxSize      \* bound: no table grows beyond it

ASSUME StringSetAssumption ==
  /\ Null \notin Strings
  /\ Hash \in [Strings -> Nat]
  /\ Size \in Nat \ {0} /\ Size % 2 = 0
  /\ MaxSize \in Nat

VARIABLES keys, vals, len, size, next,     \* struct gil_strset
          oldkeys, oldvals,                \* the arrays grow is moving
          from,                            \* the slot of oldkeys it looks at
          todo,                            \* the string put made room for, or Null
          answer                           \* what the last operation returned

vars == <<keys, vals, len, size, next, oldkeys, oldvals, from, todo, answer>>

-----------------------------------------------------------------------------
(* Probing *)

\* The slot of the i-th probe for s; mask is size - 1 and size a power of two.
Slot(s, i) == (Hash[s] + i) % size

\* The probes at which the search for s may end.
Stops(s) == {i \in 0 .. size - 1 : keys[Slot(s, i)] \in {s, Null}}

\* Where it ends.
Find(s) == Slot(s, CHOOSE i \in Stops(s) : \A j \in Stops(s) : i <= j)

\* grow does not compare keys: what it moves goes to the first empty slot.
Free(s) == {i \in 0 .. size - 1 : keys[Slot(s, i)] = Null}
FirstFree(s) == Slot(s, CHOOSE i \in Free(s) : \A j \in Free(s) : i <= j)

\* The slots in use, and those grow has still to move.
Taken == {i \in DOMAIN keys : keys[i] # Null}
Waiting == {i \in DOMAIN oldkeys : from <= i /\ oldkeys[i] # Null}

-----------------------------------------------------------------------------
(* Operations *)

NoTable == [i \in {} |-> Null]

Init ==
  /\ size = Size /\ len = 0 /\ next = 1
  /\ keys = [i \in 0 .. Size - 1 |-> Null]
  /\ vals = [i \in 0 .. Size - 1 |-> 0]
  /\ oldkeys = NoTable /\ oldvals = NoTable /\ from = 0
  /\ todo = Null
  /\ answer = 0

\* Mutant: a new string is given the number of strings since the last growth.
CountsFromLen(s) ==
  LET slot == Find(s)
  IN \/ /\ keys[slot] = s
        /\ answer' = vals[slot]
        /\ UNCHANGED <<keys, vals, len, next>>
     \/ /\ keys[slot] = Null
        /\ keys' = [keys EXCEPT ![slot] = s]
        /\ vals' = [vals EXCEPT ![slot] = len + 1]
        /\ len' = len + 1
        /\ next' = next + 1
        /\ answer' = len + 1

\* The loop of gil_strset_put, in a table that has room.
Insert(s) ==
  LET slot == Find(s)
  IN \/ /\ keys[slot] = s
        /\ answer' = vals[slot]
        /\ UNCHANGED <<keys, vals, len, next>>
     \/ /\ keys[slot] = Null
        /\ keys' = [keys EXCEPT ![slot] = s]
        /\ vals' = [vals EXCEPT ![slot] = next]
        /\ len' = len + 1
        /\ next' = next + 1
        /\ answer' = next

\* Mutant: a table is doubled only when it is full.
FullOnly == len >= size

\* put asks for more room, whether or not the string is new.
Crowded == len >= size \div 2

Put(s) ==
  /\ todo = Null /\ ~Crowded
  /\ Insert(s)
  /\ UNCHANGED <<size, oldkeys, oldvals, from, todo>>

\* Mutant: the arrays keep their size.
GrowsSize(s) ==
  /\ todo = Null /\ Crowded
  /\ 2 * size <= MaxSize
  /\ todo' = s
  /\ oldkeys' = keys /\ oldvals' = vals /\ from' = 0
  /\ size' = 2 * size /\ len' = 0
  /\ keys' = [i \in 0 .. size - 1 |-> Null]
  /\ vals' = [i \in 0 .. size - 1 |-> 0]
  /\ UNCHANGED <<next, answer>>

\* grow, until its loop.
Grow(s) ==
  /\ todo = Null /\ Crowded
  /\ 2 * size <= MaxSize
  /\ todo' = s
  /\ oldkeys' = keys /\ oldvals' = vals /\ from' = 0
  /\ size' = 2 * size /\ len' = 0
  /\ keys' = [i \in 0 .. 2 * size - 1 |-> Null]
  /\ vals' = [i \in 0 .. 2 * size - 1 |-> 0]
  /\ UNCHANGED <<next, answer>>

\* Mutant: a string goes where it was.
MoveAlong ==
  /\ todo # Null /\ from \in DOMAIN oldkeys
  /\ keys' = [keys EXCEPT ![from] = oldkeys[from]]
  /\ vals' = [vals EXCEPT ![from] = oldvals[from]]
  /\ from' = from + 1
  /\ UNCHANGED <<len, size, next, oldkeys, oldvals, todo, answer>>

\* One turn of it.
Move ==
  /\ todo # Null /\ from \in DOMAIN oldkeys
  /\ LET s == oldkeys[from]
     IN \/ s = Null /\ UNCHANGED <<keys, vals>>
        \/ /\ s # Null
           /\ keys' = [keys EXCEPT ![FirstFree(s)] = s]
           /\ vals' = [vals EXCEPT ![FirstFree(s)] = oldvals[from]]
  /\ from' = from + 1
  /\ UNCHANGED <<len, size, next, oldkeys, oldvals, todo, answer>>

\* grow returns to put.
PutGrown ==
  /\ todo # Null /\ from \notin DOMAIN oldkeys
  /\ Insert(todo)
  /\ todo' = Null
  /\ oldkeys' = NoTable /\ oldvals' = NoTable /\ from' = 0
  /\ UNCHANGED size

\* gil_strset_get
Get(s) ==
  /\ todo = Null
  /\ answer' = IF keys[Find(s)] = s THEN vals[Find(s)] ELSE 0
  /\ UNCHANGED <<keys, vals, len, size, next, oldkeys, oldvals, from, todo>>

Next ==
  \/ \E s \in Strings : Put(s) \/ Grow(s) \/ Get(s)
  \/ Move \/ PutGrown

Spec == Init /\ [][Next]_vars

-----------------------------------------------------------------------------
(* Properties *)

\* A table's arrays.
Table(ks, vs, n) ==
  /\ ks \in [0 .. n - 1 -> Strings \cup {Null}]
  /\ vs \in [0 .. n - 1 -> Nat]

TypeOK ==
  /\ size \in Nat /\ len \in Nat /\ next \in Nat /\ from \in Nat /\ answer \in Nat
  /\ Table(keys, vals, size)
  /\ todo \in Strings \cup {Null}
  /\ IF todo = Null THEN oldkeys = NoTable /\ oldvals = NoTable
     ELSE Table(oldkeys, oldvals, size \div 2)

\* However full the table gets, no search runs for ever (strset.c:36, 76, 99,
\* 115: loops that only an empty slot or the string ends), not while the table
\* grows either: half as many slots as a new table has are always empty.
ProbesEnd ==
  /\ \A s \in Strings : Free(s) # {}
  /\ 2 * Cardinality(Taken) <= 2 * size - Size

\* Every string is where the search for it ends: nobody has two numbers, and no
\* string hides another one.
KeysFound == \A i \in Taken : Find(keys[i]) = i

\* The strings that have been put, and each one's number, wherever grow has it.
Stored == {keys[i] : i \in Taken} \cup {oldkeys[i] : i \in Waiting}
NumberOf(s) ==
  CHOOSE n \in 1 .. next :
    \/ \E i \in Taken : keys[i] = s /\ vals[i] = n
    \/ \E i \in Waiting : oldkeys[i] = s /\ oldvals[i] = n

\* The table implements the numbering: strings keep their numbers through every
\* growth, and the numbers have no gaps (gen.c:381 uses them as indices).
Numbering == INSTANCE Interning WITH numbers <- [s \in Stored |-> NumberOf(s)]
ImplementsInterning == Numbering!Spec
=============================================================================
