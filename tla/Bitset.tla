------------------------------- MODULE Bitset -------------------------------
(***************************************************************************)
(* lib/bitset.c: the two-level bitmap that allocates value ids.  A bit of  *)
(* a table stands for an id; a bit of a directory says that the table it   *)
(* stands for is full.  A machine word is the set of its bits that are 1,  *)
(* so ~0 is Bits and 0 is {}.  Ids are split into a table index and a bit  *)
(* as the code does with / and %.                                          *)
(***************************************************************************)
EXTENDS Integers

CONSTANTS ENTSIZ,      \* bits in a gil_bitset_entry (64)
          InitTables,  \* tables allocated by gil_bitset_init (4)
          MaxTables,   \* bound: no id is taken once currtable reaches it
          NoId

\* The code has ENTSIZ = 64 = 16 * 4: the first directory covers a power of
\* two times the tables there are at first.
ASSUME BitsetAssumption ==
  /\ ENTSIZ \in Nat \ {0}
  /\ InitTables \in Nat \ {0}
  /\ \E k \in {1, 2, 4, 8, 16, 32, 64} : ENTSIZ = InitTables * k
  /\ MaxTables \in Nat
  /\ NoId \notin Nat

VARIABLES tables, tableslen, currtable,   \* struct gil_bitset
          dirs, dirslen, currdir,
          it,                             \* struct gil_bitset_iterator
          iterating, start,               \* a caller walks the ids from start
          last                            \* the id last returned

pool == <<tables, tableslen, currtable, dirs, dirslen, currdir>>
walk == <<it, iterating, start>>
vars == <<pool, walk, last>>

Bits == 0 .. ENTSIZ - 1

Lowest(S) == CHOOSE b \in S : \A c \in S : b <= c
FirstSet(word) == Lowest(word)
FirstUnset(word) == Lowest(Bits \ word)

DirOf(t) == t \div ENTSIZ
BadSlotOf(t) == t            \* mutant: the dir bit is not taken modulo ENTSIZ
SlotOf(t) == t % ENTSIZ
IdOf(t, b) == t * ENTSIZ + b

Init ==
  /\ tableslen = InitTables
  /\ tables = [t \in 0 .. InitTables - 1 |-> {}]
  /\ currtable = 0
  /\ dirslen = 1
  /\ dirs = [d \in 0 .. 0 |-> {}]
  /\ currdir = 0
  /\ it = [tableidx |-> 0, table |-> {}]
  /\ iterating = FALSE
  /\ start = 0
  /\ last = NoId

-----------------------------------------------------------------------------
(* gil_bitset_set_next, one disjunct per way through the function.         *)

\* Lines 71-74: the lowest unset bit of the current table.
NewBit == FirstUnset(tables[currtable])
NewWord == tables[currtable] \cup {NewBit}
NewTables == [tables EXCEPT ![currtable] = NewWord]

\* Line 83: the current directory after the current table became full.
NewDirs == [dirs EXCEPT ![currdir] = @ \cup {SlotOf(currtable)}]

\* expand_tables: make table t exist.  The loop doubles until it does; t is
\* at most tableslen (RoomAhead keeps it below afterwards), so once is enough.
ExpandTables(t) ==
  IF t >= tableslen
  THEN /\ tableslen' = 2 * tableslen
       /\ tables' = [i \in 0 .. 2 * tableslen - 1 |->
                       IF i < tableslen THEN NewTables[i] ELSE {}]
  ELSE /\ tableslen' = tableslen
       /\ tables' = NewTables

\* Make table t of directory d the current one.
MoveTo(d, t) == currdir' = d /\ currtable' = t /\ ExpandTables(t)

BadFirstFreeTable(d) == FirstUnset(NewDirs[d])  \* mutant: directory 0's table
FirstFreeTable(d) == d * ENTSIZ + FirstUnset(NewDirs[d])

StayInTable ==
  /\ NewWord # Bits
  /\ tables' = NewTables
  /\ UNCHANGED <<tableslen, currtable, dirs, dirslen, currdir>>

StayInDir ==
  /\ NewWord = Bits
  /\ NewDirs[currdir] # Bits
  /\ dirs' = NewDirs
  /\ MoveTo(currdir, FirstFreeTable(currdir))
  /\ UNCHANGED dirslen

MoveToFreeDir ==
  /\ NewWord = Bits
  /\ NewDirs[currdir] = Bits
  /\ dirs' = NewDirs
  /\ \E d \in 0 .. dirslen - 1 :
       /\ NewDirs[d] # Bits
       /\ \A e \in 0 .. d - 1 : NewDirs[e] = Bits
       /\ MoveTo(d, FirstFreeTable(d))
  /\ UNCHANGED dirslen

BadMakeDirs ==           \* mutant: does not look for a directory with space
  /\ NewWord = Bits
  /\ NewDirs[currdir] = Bits
  /\ dirs' = [d \in 0 .. 2 * dirslen - 1 |->
                IF d < dirslen THEN NewDirs[d] ELSE {}]
  /\ dirslen' = 2 * dirslen
  /\ MoveTo(dirslen, dirslen * ENTSIZ)

SmallMakeDirs ==         \* mutant: room for one more directory, no doubling
  /\ NewWord = Bits
  /\ \A d \in 0 .. dirslen - 1 : NewDirs[d] = Bits
  /\ dirs' = [d \in 0 .. dirslen |-> IF d < dirslen THEN NewDirs[d] ELSE {}]
  /\ dirslen' = dirslen + 1
  /\ MoveTo(dirslen, dirslen * ENTSIZ)

MakeDirs ==
  /\ NewWord = Bits
  /\ \A d \in 0 .. dirslen - 1 : NewDirs[d] = Bits
  /\ dirs' = [d \in 0 .. 2 * dirslen - 1 |->
                IF d < dirslen THEN NewDirs[d] ELSE {}]
  /\ dirslen' = 2 * dirslen
  /\ MoveTo(dirslen, dirslen * ENTSIZ)

\* alloc_val never runs inside a walk: gc_sweep and gil_vm_free allocate
\* nothing.
SetNext ==
  /\ ~iterating
  /\ currtable < MaxTables
  /\ last' = IdOf(currtable, NewBit)
  /\ StayInTable \/ StayInDir \/ MoveToFreeDir \/ MakeDirs
  /\ UNCHANGED walk

-----------------------------------------------------------------------------
\* gil_bitset_unset of the id IdOf(t, b).  Inside a walk the callers
\* (gc_sweep, gil_vm_free) unset only the id they have just been given.
BadUnset(t, b) ==        \* mutant: leaves the directory bit set
  /\ iterating => last = IdOf(t, b)
  /\ t < tableslen
  /\ tables' = [tables EXCEPT ![t] = @ \ {b}]
  /\ UNCHANGED <<tableslen, currtable, dirs, dirslen, currdir, walk, last>>

Unset(t, b) ==
  /\ iterating => last = IdOf(t, b)
  /\ t < tableslen
  /\ tables' = [tables EXCEPT ![t] = @ \ {b}]
  /\ dirs' = [dirs EXCEPT ![DirOf(t)] = @ \ {SlotOf(t)}]
  /\ UNCHANGED <<tableslen, currtable, dirslen, currdir, walk, last>>

\* gil_bitset_iterator_init_from, and gil_bitset_iterator_init as start = 0.
\* The bits of the first word below the start are masked out.
BadFirstWord(t, b) == {c \in tables[t] : c > b}  \* mutant: masks start itself
FirstWord(t, b) == {c \in tables[t] : c >= b}

IteratorInitFrom(t, b) ==
  /\ ~iterating
  /\ iterating' = TRUE
  /\ start' = IdOf(t, b)
  /\ it' = [tableidx |-> t,
            table |-> IF t < tableslen THEN FirstWord(t, b) ELSE {}]
  /\ last' = NoId
  /\ UNCHANGED pool

\* gil_bitset_iterator_next: the next id of the word in hand, or of the next
\* table that is not empty.  The word is a copy, so ids that are unset behind
\* the iterator do not disturb it.
IteratorNext ==
  /\ iterating
  /\ \E t \in it.tableidx .. tableslen - 1 :
       LET word == IF t = it.tableidx THEN it.table ELSE tables[t]
       IN /\ word # {}
          /\ t # it.tableidx => it.table = {}
          /\ \A u \in it.tableidx + 1 .. t - 1 : tables[u] = {}
          /\ last' = IdOf(t, FirstSet(word))
          /\ it' = [tableidx |-> t, table |-> word \ {FirstSet(word)}]
  /\ UNCHANGED <<pool, iterating, start>>

\* gil_bitset_iterator_next returning 0; the iterator, a local of the caller,
\* then goes out of scope.
IteratorEnd ==
  /\ iterating
  /\ it.table = {}
  /\ \A u \in it.tableidx + 1 .. tableslen - 1 : tables[u] = {}
  /\ iterating' = FALSE
  /\ it' = [tableidx |-> 0, table |-> {}]
  /\ start' = 0
  /\ UNCHANGED <<pool, last>>

Next ==
  \/ SetNext
  \/ \E t \in 0 .. MaxTables, b \in Bits : Unset(t, b)
  \/ \E t \in 0 .. MaxTables, b \in Bits : IteratorInitFrom(t, b)
  \/ IteratorNext
  \/ IteratorEnd

Spec == Init /\ [][Next]_vars

-----------------------------------------------------------------------------
\* Every field has its type: arrays as long as their length fields say.
TypeOK ==
  /\ tableslen \in Nat \ {0}
  /\ tables \in [0 .. tableslen - 1 -> SUBSET Bits]
  /\ currtable \in Nat
  /\ dirslen \in Nat \ {0}
  /\ dirs \in [0 .. dirslen - 1 -> SUBSET Bits]
  /\ currdir \in Nat
  /\ it \in [tableidx : Nat, table : SUBSET Bits]
  /\ iterating \in BOOLEAN
  /\ start \in Nat
  /\ last \in Nat \cup {NoId}

\* The directories and the tables agree: a directory bit is set exactly when
\* its table exists and is full.  set_next trusts the directories to find
\* free tables, unset has to keep them right.
SummaryExact ==
  \A d \in 0 .. dirslen - 1, s \in Bits :
    s \in dirs[d] <=> /\ d * ENTSIZ + s < tableslen
                     /\ tables[d * ENTSIZ + s] = Bits

\* Between two calls the current table exists, is the current directory's and
\* has a free bit: set_next (line 72) takes its first unset bit unchecked.
RoomAhead ==
  /\ currtable < tableslen
  /\ tables[currtable] # Bits
  /\ DirOf(currtable) = currdir

\* Every table has a directory: unset (line 127) checks the table index and
\* then uses the directory index unchecked.
DirsCoverTables == tableslen <= dirslen * ENTSIZ

Ids(t) == {IdOf(t, b) : b \in tables[t]}
Used == UNION {Ids(t) : t \in 0 .. tableslen - 1}
Pending ==
  IF iterating
  THEN {IdOf(it.tableidx, b) : b \in it.table} \cup
       UNION {Ids(t) : t \in it.tableidx + 1 .. tableslen - 1}
  ELSE {}

\* set_next makes a new directory only when every id below it is in use: the
\* bitmap never grows past a free id it has lost track of.
GrowsOnlyWhenFull ==
  [][dirslen' # dirslen =>
       \A t \in 0 .. dirslen * ENTSIZ - 1 :
         t < tableslen' /\ tables'[t] = Bits]_vars

\* The bitmap implements the pool: set_next returns an id nobody holds, unset
\* gives back exactly its id, and a walk visits exactly the ids in use from
\* its start on, each once and in ascending order, although the walk unsets
\* ids as it goes.
Pool == INSTANCE IdPool WITH used <- Used, walking <- iterating,
                             pending <- Pending
ImplementsIdPool == Pool!Spec
=============================================================================
