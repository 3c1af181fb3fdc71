---------------------------- MODULE TrieNodeTable -----------------------------
(***************************************************************************)
(* The inside of a trie node: two bitsets tell which bytes have a value    *)
(* and which have a child, and a table holds the entries.  A table of less *)
(* than 256 slots is a hash table with linear probing over few neighbours  *)
(* and no tombstones; one that has no room for a byte is replaced by a     *)
(* larger one, at last by a plain array of 256.  The operations are those  *)
(* that Trie calls, with what it knows of the node when it calls them.     *)
(***************************************************************************)
EXTENDS Integers, FiniteSets, FiniteSetsExt

CONSTANTS
    Keys,       \* the bytes used
    Values,     \* the values stored
    Long,       \* bound: the bytes that longer strings begin with
    Stems,      \* bound: addresses that strings of this node are stored at
    Nil,        \* no value, no stem, no slot
    Lost,       \* an entry that probing does not reach
    Root        \* TRUE for the root, which is made with 256 slots

ASSUME KeysAssumption == Keys \subseteq 0 .. 255 /\ Long \subseteq Keys /\ Nil \notin 0 .. 255

VARIABLES
    capacity,       \* slots of the table
    table,          \* the entries present, by slot
    valuePresence,  \* the words of a bitset
    childPresence,  \* the words of a bitset
    strings         \* addresses of the stems stored

vars == <<capacity, table, valuePresence, childPresence, strings>>

Entries == [value : Values \cup {Nil}, child : BOOLEAN, stem : Stems \cup {Nil}]

-----------------------------------------------------------------------------
(* Bitsets of four words; a word is the set of its bits that are one.     *)

WordBits == 64
Words == 0 .. 3

NoBits == [w \in Words |-> {}]

Get(bits, i) == i % WordBits \in bits[i \div WordBits]

Set(bits, i) == [bits EXCEPT ![i \div WordBits] = @ \cup {i % WordBits}]

Clear(bits, i) == [bits EXCEPT ![i \div WordBits] = @ \ {i % WordBits}]

\* mutant: the mask of the first word stays for the later ones.
FromWordMasked(bits, from, mask) ==
    LET full == {w \in from .. 3 : bits[w] \ mask # {}}
    IN  IF full = {} THEN Nil ELSE Min(full) * WordBits + Min(bits[Min(full)] \ mask)

\* The first word not empty, with the bits of mask taken from word `from`.
FromWord(bits, from, mask) ==
    LET left == [w \in from .. 3 |-> IF w = from THEN bits[w] \ mask ELSE bits[w]]
        full == {w \in from .. 3 : left[w] # {}}
    IN  IF full = {} THEN Nil ELSE Min(full) * WordBits + Min(left[Min(full)])

FirstSet(bits) == FromWord(bits, 0, {})

NextSetOrThis(bits, i) == FromWord(bits, i \div WordBits, 0 .. (i % WordBits) - 1)

NextSet(bits, i) == FromWord(bits, i \div WordBits, 0 .. i % WordBits)

LastSet(bits) ==
    LET full == {w \in Words : bits[w] # {}}
    IN  IF full = {} THEN Nil ELSE Max(full) * WordBits + Max(bits[Max(full)])

\* The nearer of two answers, either of which may be missing.
Nearer(a, b) == IF a = Nil THEN b ELSE IF b = Nil THEN a ELSE Min({a, b})

Presence(k) == Get(childPresence, k) \/ Get(valuePresence, k)

PresenceFirstSet == Nearer(FirstSet(childPresence), FirstSet(valuePresence))

PresenceNextSet(k) == Nearer(NextSet(childPresence, k), NextSet(valuePresence, k))

PresenceNextSetOrThis(k) ==
    Nearer(NextSetOrThis(childPresence, k), NextSetOrThis(valuePresence, k))

PresenceLastSet ==
    LET a == LastSet(childPresence)
        b == LastSet(valuePresence)
    IN  IF a = Nil THEN b ELSE IF b = Nil THEN a ELSE Max({a, b})

-----------------------------------------------------------------------------
(* The hash table.                                                        *)

MaxHashNeighbors(cap) ==
    CASE cap \in {8, 128} -> 2
      [] cap \in {16, 32} -> 3
      [] cap = 64         -> 4

\* A table grows to the next of these.
Capacities == {8, 16, 32, 64, 128, 256}

Hash(k, cap) == (101 * k) % cap

\* The slot tried after i others.
Probe(k, cap, i) == (Hash(k, cap) + i) % cap

\* The first slot tried that is empty or holds the key, Nil when none is.
Stop(t, cap, k) ==
    LET stops == {i \in 0 .. MaxHashNeighbors(cap) - 1 :
                    Probe(k, cap, i) \in DOMAIN t => t[Probe(k, cap, i)].key = k}
    IN  IF stops = {} THEN Nil ELSE Probe(k, cap, Min(stops))

HashFind(t, cap, k) ==
    LET slot == Stop(t, cap, k)
    IN  IF slot \in DOMAIN t THEN slot ELSE Nil

Stored(t, slot, k, data) ==
    [s \in DOMAIN t \cup {slot} |-> IF s = slot THEN [key |-> k, data |-> data] ELSE t[s]]

\* Whether the key was put into the table; a key that is there is not.
HashInsert(t, cap, k, data) ==
    LET slot == Stop(t, cap, k)
        free == slot # Nil /\ slot \notin DOMAIN t
    IN  [done |-> free, table |-> IF free THEN Stored(t, slot, k, data) ELSE t]

Without(t, slot) == [s \in DOMAIN t \ {slot} |-> t[s]]

Distance(a, b) == IF a > b THEN a - b ELSE b - a

\* Order of slots on the ring: a is before b along the shorter way.
LessPos(a, b, cap) == IF Distance(a, b) > cap \div 2 THEN a > b ELSE a < b

\* mutant: every later entry of the cluster moves into the hole.
MovesAlways(i, hole, home, local, cap) == i # local

\* An entry in slot i with the hash local fills the hole that an entry with
\* the hash home leaves, if probing for it passes the hole.
Moves(i, hole, home, local, cap) ==
    LET x == IF LessPos(home, hole, cap) THEN hole ELSE home
    IN  i # local /\ ~ LessPos(x, local, cap)

\* One round of the repair: the entry in slot `at` is left, or moves to the hole.
RestoreRound(r, cap) ==
    LET local == Hash(r.table[r.at].key, cap)
        next == (r.at + 1) % cap
    IN  IF r.limit = 0 \/ r.at \notin DOMAIN r.table THEN r
        ELSE IF Moves(r.at, r.hole, r.home, local, cap)
        THEN [table |-> [r.table EXCEPT ![r.hole] = r.table[r.at]], hole |-> r.at,
              home |-> local, at |-> next, limit |-> MaxHashNeighbors(cap) - 1]
        ELSE [r EXCEPT !.at = next, !.limit = @ - 1]

(* A move brings its entry nearer to its home, so there are fewer than     *)
(* neighbours times entries, each followed by as many rounds as neighbours. *)
RestoreOnErase(t, cap, slot, home) ==
    LET After[n \in Nat] ==
            IF n = 0 THEN [table |-> t, hole |-> slot, home |-> home,
                           at |-> (slot + 1) % cap, limit |-> MaxHashNeighbors(cap)]
            ELSE RestoreRound(After[n - 1], cap)
        last == After[Cardinality(DOMAIN t) * MaxHashNeighbors(cap) * MaxHashNeighbors(cap)]
    IN  Without(last.table, last.hole)

HashErase(t, cap, k) ==
    LET slot == HashFind(t, cap, k)
    IN  IF slot = Nil THEN t
        ELSE RestoreOnErase(t, cap, slot, Hash(k, cap))

-----------------------------------------------------------------------------
(* The container behind a node, by its capacity: the hash table or the    *)
(* array, which has no presence of its own.                               *)

ArrayInsert(t, k, data) == [done |-> TRUE, table |-> Stored(t, k, k, data)]

ArrayFind(k) == IF Presence(k) THEN k ELSE Nil

InsertInto(t, cap, k, data) ==
    IF cap < 256 THEN HashInsert(t, cap, k, data) ELSE ArrayInsert(t, k, data)

Find(k) == IF capacity < 256 THEN HashFind(table, capacity, k) ELSE ArrayFind(k)

EraseFrom(t, k) == IF capacity < 256 THEN HashErase(t, capacity, k) ELSE Without(t, k)

\* The entries are put into a table of cap slots, in the order of the bytes.
Refilled(cap) ==
    LET Put(r) == LET put == InsertInto(r.table, cap, r.at, table[Find(r.at)].data)
                  IN  IF ~ r.done \/ r.at = Nil THEN r
                      ELSE [at |-> PresenceNextSet(r.at), done |-> put.done, table |-> put.table]
        After[n \in Nat] ==
            IF n = 0 THEN [at |-> PresenceFirstSet, done |-> TRUE, table |-> [s \in {} |-> Nil]]
            ELSE Put(After[n - 1])
    IN  After[Cardinality(DOMAIN table)]

\* The table is as it is, or a larger one with every entry.
Grown(cap) == IF cap = capacity THEN [done |-> TRUE, table |-> table] ELSE Refilled(cap)

\* The first table that takes every entry and the new one.
InsertGrowing(k, data) ==
    LET put(cap) == InsertInto(Grown(cap).table, cap, k, data)
        fits == {cap \in Capacities : cap >= capacity /\ Grown(cap).done /\ put(cap).done}
    IN  [capacity |-> Min(fits), table |-> put(Min(fits)).table]

-----------------------------------------------------------------------------
NodeSize == IF Root THEN 256 ELSE 8

Init ==
    /\ capacity = NodeSize
    /\ table = [s \in {} |-> Nil]
    /\ valuePresence = NoBits
    /\ childPresence = NoBits
    /\ strings = {}

Data(k) == table[Find(k)].data

Update(k, data) == [table EXCEPT ![Find(k)].data = data]

\* A stem is stored, or the entry has none.
StemChoice(stem, free) == stem = Nil \/ stem \in free

\* A byte without an entry gets a value, and the rest of the string as stem.
Insert(k, v, stem) ==
    /\ ~ Presence(k)
    /\ StemChoice(stem, Stems \ strings)
    /\ LET to == InsertGrowing(k, [value |-> v, child |-> FALSE, stem |-> stem])
       IN  capacity' = to.capacity /\ table' = to.table
    /\ valuePresence' = Set(valuePresence, k)
    /\ strings' = strings \cup ({stem} \ {Nil})
    /\ UNCHANGED childPresence

\* The value goes; the entry and its stem stay while there is a child.
Erase(k) ==
    /\ Get(valuePresence, k)
    /\ valuePresence' = Clear(valuePresence, k)
    /\ IF Get(childPresence, k)
       THEN /\ table' = Update(k, [Data(k) EXCEPT !.value = Nil])
            /\ UNCHANGED strings
       ELSE /\ table' = EraseFrom(table, k)
            /\ strings' = strings \ {Data(k).stem}
    /\ UNCHANGED <<capacity, childPresence>>

\* The string goes on in a new node.
SetChild(k) ==
    /\ Get(valuePresence, k)
    /\ ~ Get(childPresence, k)
    /\ table' = Update(k, [Data(k) EXCEPT !.child = TRUE])
    /\ childPresence' = Set(childPresence, k)
    /\ UNCHANGED <<capacity, valuePresence, strings>>

\* The child was removed; the stem of an entry that goes stays stored.
RemoveChild(k) ==
    /\ Get(childPresence, k)
    /\ childPresence' = Clear(childPresence, k)
    /\ table' = IF Get(valuePresence, k) THEN Update(k, [Data(k) EXCEPT !.child = FALSE])
                ELSE EraseFrom(table, k)
    /\ UNCHANGED <<capacity, valuePresence, strings>>

\* A value for a byte whose entry has no stem, or another value.
SetValue(k, v) ==
    /\ Presence(k)
    /\ Get(valuePresence, k) \/ Data(k).stem = Nil
    /\ table' = Update(k, [Data(k) EXCEPT !.value = v])
    /\ valuePresence' = Set(valuePresence, k)
    /\ UNCHANGED <<capacity, childPresence, strings>>

\* The entry splits in its stem: what follows moves to a new node, which
\* becomes the child; what is before stays, as a new string.
MoveTo(k, left) ==
    /\ Presence(k)
    /\ Data(k).stem # Nil
    /\ StemChoice(left, (Stems \ strings) \cup {Data(k).stem})
    /\ table' = Update(k, [value |-> Nil, child |-> TRUE, stem |-> left])
    /\ childPresence' = Set(childPresence, k)
    /\ valuePresence' = Clear(valuePresence, k)
    /\ strings' = (strings \ {Data(k).stem}) \cup ({left} \ {Nil})
    /\ UNCHANGED capacity

\* The stems of the entries present, found by walking the bytes.
StemsMet ==
    LET From[k \in 0 .. 255 \cup {Nil}] ==
            IF k = Nil THEN {} ELSE {Data(k).stem} \cup From[PresenceNextSet(k)]
    IN  From[PresenceFirstSet]

\* Everything in the node goes and the node with it; a next one is new.
EraseAll ==
    /\ PresenceFirstSet # Nil
    /\ capacity' = NodeSize
    /\ table' = [s \in {} |-> Nil]
    /\ valuePresence' = NoBits
    /\ childPresence' = NoBits
    /\ strings' = strings \ StemsMet

NodeStep ==
    \/ EraseAll
    \/ \E k \in Keys :
        \/ \E v \in Values, stem \in Stems \cup {Nil} :
            (k \notin Long => stem = Nil) /\ Insert(k, v, stem)
        \/ Erase(k)
        \/ k \in Long /\ SetChild(k)
        \/ RemoveChild(k)
        \/ \E v \in Values : SetValue(k, v)
        \/ \E left \in Stems \cup {Nil} : k \in Long /\ MoveTo(k, left)

Spec == Init /\ [][NodeStep]_vars

-----------------------------------------------------------------------------
(* What a reader gets for a byte: its entry, whether its value and child  *)
(* are those the bits tell of, or something that is no entry at all when  *)
(* probing does not reach it.                                             *)
Lookup(k) ==
    LET slot == Find(k)
    IN  IF ~ Presence(k) THEN Nil ELSE IF slot = Nil THEN Lost ELSE table[slot].data

Map == INSTANCE KeyMap WITH map <- [k \in Keys |-> Lookup(k)], Absent <- Nil

(* Hashing, the repair of clusters on erase and the growth of the table   *)
(* are invisible: the node is a map, and a step on one byte leaves what   *)
(* is found for every other byte alone.                                   *)
NodeIsMap == Map!Spec

(* The walk over the bytes, first to last, meets those present in their   *)
(* order and no other, from wherever it is entered.                       *)
WalkInOrder ==
    LET present == {k \in Keys : Presence(k)}
        After(k) == {n \in present : n > k}
        LeastOf(S) == IF S = {} THEN Nil ELSE Min(S)
    IN  /\ PresenceFirstSet = LeastOf(present)
        /\ PresenceLastSet = (IF present = {} THEN Nil ELSE Max(present))
        /\ \A k \in Keys : /\ PresenceNextSet(k) = LeastOf(After(k))
                           /\ PresenceNextSetOrThis(k) = LeastOf(After(k) \cup ({k} \cap present))
===============================================================================
