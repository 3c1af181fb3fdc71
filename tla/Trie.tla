-------------------------------- MODULE Trie --------------------------------
(***************************************************************************)
(* The trie of op/trie/Trie.h: nodes (op/trie/TrieNode.h) whose entries    *)
(* carry a stem, a child and a value, the calls that restructure them, and *)
(* the navigation that reads them.  A call runs in one transaction of the  *)
(* segment manager (TransactionalMemory), so it is one step here.          *)
(*                                                                         *)
(* A node is [version, entry], entry a function on the atoms present in    *)
(* the node; an entry without child and value does not exist.  An entry    *)
(* [stem, child, value] stands for the atom that selects it followed by    *)
(* its stem.  _nodes_allocated is the number of allocated nodes.  Payloads *)
(* are opaque values; the hash table inside a node is abstracted to the    *)
(* function it implements, the string and heap managers to the stem and    *)
(* the value they store.                                                   *)
(***************************************************************************)
EXTENDS Integers, SequencesExt

CONSTANTS Atom,        \* bytes, a set of naturals
          Key,         \* non-empty sequences of atoms used as keys
          Query,       \* the ones used as prefixes and bounds
          Value,       \* payloads
          None,        \* no payload
          MaxNode,     \* bound on the nodes the segment has room for
          VersionMod   \* modulus of node_version_t

ASSUME TrieAssumption ==
    /\ Atom \subseteq Nat
    /\ Key \subseteq Seq(Atom) \ {<< >>}
    /\ Query \subseteq Seq(Atom) \ {<< >>}
    /\ None \notin Value
    /\ MaxNode \in Nat \ {0}
    /\ VersionMod \in Nat \ {0}

VARIABLES node,     \* the allocated nodes, a function on their addresses
          count,    \* TrieHeader::_count
          thrown    \* the last call ended in an exception

vars == <<node, count, thrown>>

Nil  == 0
Root == 1
Addr == 1..MaxNode

EmptyNode == [version |-> 0, entry |-> << >>]

TypeOK ==
    /\ Root \in DOMAIN node
    /\ DOMAIN node \subseteq Addr
    /\ \A a \in DOMAIN node :
          /\ node[a].version \in 0..VersionMod - 1
          /\ DOMAIN node[a].entry \subseteq Atom
          /\ \A c \in DOMAIN node[a].entry :
                /\ node[a].entry[c] \in [stem : Seq(Atom),
                                         child : DOMAIN node \cup {Nil},
                                         value : Value \cup {None}]
                /\ node[a].entry[c].child # Nil \/ node[a].entry[c].value # None
    /\ count \in Nat
    /\ thrown \in BOOLEAN

\* create_new: an empty root.
Init == /\ node = [a \in {Root} |-> EmptyNode]
        /\ count = 0
        /\ thrown = FALSE

-----------------------------------------------------------------------------
(* Positions and iterators.  A position is an entry of a node together with *)
(* the text it adds to the key: its atom and the part of the stem that was  *)
(* followed.  An iterator is the sequence of positions from the root; the   *)
(* empty one is end().  The operators take the nodes t they work on.        *)

End == << >>

\* The entry a position stands on.
Here(t, p) == t[p.addr].entry[p.text[1]]

Position(t, a, c, stem) ==
    LET e == t[a].entry[c]
    IN  [addr |-> a, text |-> <<c>> \o stem, version |-> t[a].version,
         has_child |-> e.child # Nil, has_data |-> e.value # None]

Load(t, a, c) == Position(t, a, c, t[a].entry[c].stem)

KeyAt(i) == FlattenSeq([n \in DOMAIN i |-> i[n].text])

\* TrieNode's first() and last(), by which a way down goes.
Outermost(side, atoms) == IF side = "first" THEN Min(atoms) ELSE Max(atoms)

\* Down from node a by the first (or last) entries to the first terminal one.
Descend(t, i, a, side) ==
    LET Path[b \in {d \in DOMAIN t : t[d].entry # << >>}] ==
            LET p == Load(t, b, Outermost(side, DOMAIN t[b].entry))
            IN  IF p.has_data THEN <<p>> ELSE <<p>> \o Path[Here(t, p).child]
    IN  i \o Path[a]

\* Replaces the last position by p, and goes on down when p has no data.
Settle(t, i, p) ==
    IF p.has_data THEN Append(Front(i), p)
                  ELSE Descend(t, Append(Front(i), p), Here(t, p).child, "first")

Greater(t, p) == {c \in DOMAIN t[p.addr].entry : c > p.text[1]}

\* next_sibling: right of the deepest position that has an entry to its right.
NextSibling(t, i) ==
    LET open == {n \in DOMAIN i : Greater(t, i[n]) # {}}
        n    == Max(open)
    IN  IF open = {} THEN End
        ELSE Settle(t, SubSeq(i, 1, n),
                    Load(t, i[n].addr, Min(Greater(t, i[n]))))

\* mutant: _next never goes down
NextOfNoDescent(t, i) == NextSibling(t, i)

\* _next: down into the child where there is one, else as next_sibling.
NextOf(t, i) ==
    IF i # End /\ Last(i).has_child THEN Descend(t, i, Here(t, Last(i)).child, "first")
                                    ELSE NextSibling(t, i)

Begin(t) == IF t[Root].entry = << >> THEN End ELSE Descend(t, End, Root, "first")

ChildOf(t, i, side) ==
    IF i # End /\ Last(i).has_child
    THEN Descend(t, i, Here(t, Last(i)).child, side) ELSE End

FirstChild(t, i) == ChildOf(t, i, "first")

\* mutant: last_child navigates by first()
LastChildByFirst(t, i) == ChildOf(t, i, "first")

LastChild(t, i) == ChildOf(t, i, "last")

-----------------------------------------------------------------------------
(* How far a string leads. *)

\* The number of leading atoms that s and r share.
Shared(s, r) == Len(LongestCommonPrefix({s, r}))

\* How entry e compares with the string `rest` behind its atom, after the `at`
\* atoms its stem shares with it.
Compare(e, rest, at) ==
    CASE at < Len(e.stem) /\ at = Len(rest) -> "string_end"
      [] at < Len(e.stem) /\ at # Len(rest) -> "unequals"
      [] at = Len(e.stem) /\ at # Len(rest) -> "stem_end"
      [] OTHER -> IF e.value = None THEN "string_end" ELSE "equals"

\* mismatch: follows s from node a; the positions passed, what is left of s,
\* and how the last position compares with s.
Mismatch(t, a, s) ==
    LET From[b \in DOMAIN t] ==
          [n \in 1..Len(s) |->
            LET rest == SubSeq(s, n + 1, Len(s))
                e    == t[b].entry[s[n]]
                at   == Shared(e.stem, rest)
                cmp  == Compare(e, rest, at)
                p    == Position(t, b, s[n], SubSeq(e.stem, 1, at))
                deep == From[e.child][n + at + 1]
            IN  IF s[n] \notin DOMAIN t[b].entry
                THEN [result |-> "no_entry", rest |-> rest,
                      path |-> <<[addr |-> b, text |-> <<s[n]>>, version |-> t[b].version,
                                  has_child |-> FALSE, has_data |-> FALSE]>>]
                ELSE IF cmp = "stem_end" /\ e.child # Nil
                THEN [deep EXCEPT !.path = <<p>> \o @]
                ELSE [result |-> cmp, rest |-> SubSeq(rest, at + 1, Len(rest)),
                      path |-> <<p>>]]
    IN  From[a][1]

Find(t, k) == LET m == Mismatch(t, Root, k)
              IN  IF m.result = "equals" THEN m.path ELSE End

\* prefixed_begin: the first key that starts with s.
PrefixedBegin(t, s) ==
    LET m == Mismatch(t, Root, s)
        p == Last(m.path)
    IN  IF m.rest # << >> THEN End
        ELSE CASE m.result = "equals"     -> m.path
               [] m.result = "string_end" -> Settle(t, m.path, Load(t, p.addr, p.text[1]))
               [] OTHER                   -> End

\* lower_bound_impl after the mismatch m below iterator i: whether the string
\* was met exactly, and where the iterator is left.  When the node has no entry
\* for the atom looked for, a greater entry without data is followed by another
\* way down from the same node, not from the child of that entry.
BoundAfter(t, i, m) ==
    LET it == i \o m.path
        p  == Last(it)
        GE == {c \in DOMAIN t[p.addr].entry : c >= p.text[1]}
        q  == Load(t, p.addr, Min(GE))
    IN  [ok |-> m.result = "equals",
         it |-> CASE m.result = "equals"     -> it
                  [] m.result = "string_end" -> Settle(t, it, Load(t, p.addr, p.text[1]))
                  [] m.result = "no_entry"   ->
                        IF GE = {} THEN NextSibling(t, Front(it))
                        ELSE IF q.has_data THEN Append(Front(it), q)
                        ELSE Descend(t, Append(Front(it), q), p.addr, "first")
                  [] OTHER                   -> NextOf(t, it)]

\* lower_bound_impl of s below iterator i.
Bound(t, i, s) ==
    IF i = End THEN BoundAfter(t, i, Mismatch(t, Root, s))
    ELSE IF Last(i).has_child
    THEN BoundAfter(t, i, Mismatch(t, Here(t, Last(i)).child, s))
    ELSE [ok |-> FALSE, it |-> NextOf(t, i)]

LowerBound(t, s) == Bound(t, End, s).it

-----------------------------------------------------------------------------
(* Insertion. *)

\* The function f with x at c.
Put(f, c, x) == [d \in DOMAIN f \cup {c} |-> IF d = c THEN x ELSE f[d]]

\* Entry c of node a becomes e; the node's version grows by `bump`.
SetEntry(t, a, c, e, bump) ==
    [t EXCEPT ![a] = [version |-> (@.version + bump) % VersionMod,
                      entry   |-> Put(@.entry, c, e)]]

HasRoom(t) == DOMAIN t # Addr
NewNode(t) == Min(Addr \ DOMAIN t)

\* What move_from_entry leaves in an entry whose stem is cut after `at` atoms,
\* and the node it moves the rest to.

\* mutant: the entry keeps one atom too many
CutLong(e, at, n) == [stem |-> SubSeq(e.stem, 1, at + 1), child |-> n, value |-> None]

Cut(e, at, n) == [stem |-> SubSeq(e.stem, 1, at), child |-> n, value |-> None]

Moved(e, at) == Put(<< >>, e.stem[at + 1], [e EXCEPT !.stem = SubSeq(@, at + 2, Len(@))])

\* The entries f with a new one for the string s.
Leaf(f, s, v) == Put(f, Head(s), [stem |-> Tail(s), child |-> Nil, value |-> v])

\* insert_impl of value v where the mismatch m of the key with the trie shows
\* the key is absent.
Place(m, v) ==
    LET p  == Last(m.path)
        a  == p.addr
        c  == p.text[1]
        at == Len(p.text) - 1
        e  == Here(node, p)
        n  == NewNode(node)
    IN  \/ /\ m.result = "no_entry"
           /\ node' = SetEntry(node, a, c, [stem |-> m.rest, child |-> Nil, value |-> v], 1)
        \/ /\ m.result = "stem_end"
           /\ HasRoom(node)
           /\ node' = Put(SetEntry(node, a, c, [e EXCEPT !.child = n], 1), n,
                          [version |-> 1 % VersionMod, entry |-> Leaf(<< >>, m.rest, v)])
        \/ /\ m.result = "unequals"
           /\ HasRoom(node)
           /\ node' = Put(SetEntry(node, a, c, Cut(e, at, n), 1), n,
                          [version |-> 2 % VersionMod,
                           entry   |-> Leaf(Moved(e, at), m.rest, v)])
        \/ /\ m.result = "string_end"
           /\ at < Len(e.stem)
           /\ HasRoom(node)
           /\ node' = Put(SetEntry(node, a, c, [Cut(e, at, n) EXCEPT !.value = v], 2), n,
                          [version |-> 1 % VersionMod, entry |-> Moved(e, at)])
        \/ /\ m.result = "string_end"
           /\ e.stem = << >>
           /\ node' = SetEntry(node, a, c, [e EXCEPT !.value = v], 1)

\* The key ends with the stem of an entry that has no value: insert asks
\* move_from_entry to cut the stem after its last atom, which throws
\* std::out_of_range once the new node is allocated.
Clash(m) ==
    LET p == Last(m.path)
        e == Here(node, p)
    IN  /\ m.result = "string_end"
        /\ e.stem # << >>
        /\ Len(p.text) - 1 = Len(e.stem)
        /\ HasRoom(node)

\* set_raw_factory_value on the entry the mismatch m ended on.
Reassign(m, v) ==
    LET p == Last(m.path)
    IN  node' = SetEntry(node, p.addr, p.text[1], [Here(node, p) EXCEPT !.value = v], 1)

Insert(k, v) ==
    LET m == Mismatch(node, Root, k)
    IN  \/ /\ m.result = "equals"
           /\ thrown' = FALSE
           /\ UNCHANGED <<node, count>>
        \/ /\ Place(m, v)
           /\ count' = count + 1
           /\ thrown' = FALSE
        \/ /\ Clash(m)        \* the guard rolls back
           /\ thrown' = TRUE
           /\ UNCHANGED <<node, count>>

\* prefixed_insert and upsert close with a guard that commits: the node a
\* Clash has allocated stays, and nothing refers to it.
Leak(m) == /\ Clash(m)
           /\ node' = Put(node, NewNode(node), EmptyNode)
           /\ thrown' = TRUE
           /\ UNCHANGED count

\* prefixed_insert below an iterator on a prefix of k (end() included).
PrefixedInsert(k, v) ==
    LET m == Mismatch(node, Root, k)
    IN  \/ /\ m.result = "equals"
           /\ thrown' = FALSE
           /\ UNCHANGED <<node, count>>
        \/ /\ Place(m, v)
           /\ count' = count + 1
           /\ thrown' = FALSE
        \/ Leak(m)

Upsert(k, v) ==
    LET m == Mismatch(node, Root, k)
    IN  \/ /\ m.result = "equals"
           /\ Reassign(m, v)
           /\ thrown' = FALSE
           /\ UNCHANGED count
        \/ /\ Place(m, v)
           /\ count' = count + 1
           /\ thrown' = FALSE
        \/ Leak(m)

\* update at find(k).
Update(k, v) ==
    LET m == Mismatch(node, Root, k)
    IN  /\ m.result = "equals"
        /\ Reassign(m, v)
        /\ thrown' = FALSE
        /\ UNCHANGED count

-----------------------------------------------------------------------------
(* Erasure, on states s = [node, count]; it yields the next state and the  *)
(* iterator the call leaves behind, [node, count, it].                     *)

\* mutant: the nodes are not deallocated
FreeNone(t, S) == t

\* remove_node of the nodes S.
Free(t, S) == Restrict(t, DOMAIN t \ S)

\* The child of entry c in node a is dropped, or its value; an entry left
\* with neither goes.
Without(t, a, c, e, bump) ==
    IF e.child = Nil /\ e.value = None
    THEN [t EXCEPT ![a] = [version |-> (@.version + bump) % VersionMod,
                           entry   |-> Restrict(@.entry, DOMAIN @.entry \ {c})]]
    ELSE SetEntry(t, a, c, e, bump)

\* mutant: an emptied node is not freed
EraseAtNoClimb(s, i) ==
    LET p == Last(i)
    IN  [node  |-> Without(s.node, p.addr, p.text[1], [Here(s.node, p) EXCEPT !.value = None], 1),
         count |-> s.count - 1,
         it    |-> NextOf(s.node, i)]

\* erase_impl at iterator i: a node emptied on the way up is freed and its
\* parent loses the child; the first node that keeps an entry ends the climb.
EraseAt(s, i) ==
    LET t == s.node
        depth == Len(i)
        \* the node of level n is freed
        Freed[n \in 1..depth] ==
            /\ i[n].addr # Root
            /\ DOMAIN t[i[n].addr].entry = {i[n].text[1]}
            /\ IF n = depth THEN Here(t, i[n]).child = Nil
                            ELSE Freed[n + 1] /\ Here(t, i[n]).value = None
        stays == {n \in 1..depth : ~Freed[n]}
        n     == Max(stays)
        e     == Here(t, i[n])
        kept  == Free(t, {i[m].addr : m \in n + 1..depth})
    IN  [node  |-> IF n = depth
                   THEN Without(t, i[n].addr, i[n].text[1], [e EXCEPT !.value = None], 1)
                   ELSE Without(kept, i[n].addr, i[n].text[1], [e EXCEPT !.child = Nil], 2),
         count |-> s.count - 1,
         it    |-> NextOf(t, i)]

\* The nodes of the subtree of node a.
Subtree(t, a) ==
    LET Under[b \in DOMAIN t] ==
            {b} \cup UNION {Under[t[b].entry[c].child] :
                               c \in {d \in DOMAIN t[b].entry : t[b].entry[d].child # Nil}}
    IN  Under[a]

\* mutant: entries are counted, not values
TerminalsByEntry(t, S) == MapThenSumSet(LAMBDA a : Cardinality(DOMAIN t[a].entry), S)

Terminals(t, S) == MapThenSumSet(
    LAMBDA a : Cardinality({c \in DOMAIN t[a].entry : t[a].entry[c].value # None}), S)

\* prefixed_erase_all at iterator i.  With children below, the iterator that
\* erase_impl returns, on the next key, loses its own way down: it is patched
\* as if it still stood on the erased prefix.
PrefixedEraseAt(s, i, erase_prefix) ==
    LET p    == Last(i)
        e    == Here(s.node, p)
        gone == Subtree(s.node, e.child)
        cut  == [node  |-> Without(Free(s.node, gone), p.addr, p.text[1],
                                   [e EXCEPT !.child = Nil], 1),
                 count |-> s.count - Terminals(s.node, gone)]
        here == Append(Front(i), [p EXCEPT !.has_child = FALSE])
        r    == IF erase_prefix /\ p.has_data THEN EraseAt(cut, here)
                ELSE [node |-> cut.node, count |-> cut.count, it |-> here]
    IN  IF erase_prefix /\ ~p.has_child THEN EraseAt(s, i)
        ELSE IF r.it = End THEN r
        ELSE [r EXCEPT !.it = Append(Front(@), [Last(@) EXCEPT
                 !.has_child = FALSE,
                 !.version   = cut.node[p.addr].version])]

\* prefixed_key_erase_all: from lower_bound(q), erases the subtree of each key
\* that starts with q and passes over those that q starts with.
KeyErased(q) ==
    LET Step(r) ==
            LET k == KeyAt(r.it)
            IN  CASE r.it # End /\ IsPrefix(q, k)       -> PrefixedEraseAt(r, r.it, TRUE)
                  [] r.it # End /\ IsStrictPrefix(k, q) -> [r EXCEPT !.it = NextOf(r.node, @)]
                  [] OTHER -> [r EXCEPT !.it = End]
        After[n \in Nat] ==
            IF n = 0
            THEN [node |-> node, count |-> count, it |-> LowerBound(node, q)]
            ELSE Step(After[n - 1])
    IN  After[count + 1]

Becomes(r) == /\ node' = r.node
              /\ count' = r.count
              /\ thrown' = FALSE

State == [node |-> node, count |-> count]

\* erase at find(k).
Erase(k) == LET i == Find(node, k)
            IN  i # End /\ Becomes(EraseAt(State, i))

\* prefixed_erase_all at find(k); keeping the prefix asserts that it has children.
PrefixedEraseAll(k, erase_prefix) ==
    LET i == Find(node, k)
    IN  /\ i # End
        /\ erase_prefix \/ Last(i).has_child
        /\ Becomes(PrefixedEraseAt(State, i, erase_prefix))

PrefixedKeyEraseAll(q) == Becomes(KeyErased(q))

Next == \/ \E k \in Key, v \in Value : \/ Insert(k, v)
                                     \/ PrefixedInsert(k, v)
                                     \/ Upsert(k, v)
                                     \/ Update(k, v)
        \/ \E k \in Key : \/ Erase(k)
                          \/ \E erase_prefix \in BOOLEAN : PrefixedEraseAll(k, erase_prefix)
        \/ \E q \in Query : PrefixedKeyEraseAll(q)

Spec == Init /\ [][Next]_vars

-----------------------------------------------------------------------------
(* Properties. *)

\* The keys a tree holds, with their values: one pair for each way from node a
\* down to a value.
Pairs(t, a) ==
    LET Below[b \in DOMAIN t] ==
            UNION {LET e  == t[b].entry[c]
                       k  == <<c>> \o e.stem
                   IN  (IF e.value = None THEN {} ELSE {<<k, e.value>>})
                       \cup (IF e.child = Nil THEN {}
                             ELSE {<<k \o x[1], x[2]>> : x \in Below[e.child]}) :
                   c \in DOMAIN t[b].entry}
    IN  Below[a]

KeysOf(t) == {x[1] : x \in Pairs(t, Root)}

Contents == LET P == Pairs(node, Root)
            IN  [k \in {x[1] : x \in P} |-> (CHOOSE x \in P : x[1] = k)[2]]

\* The lexicographic order of keys.
Before(s, t) == LET n == Shared(s, t)
                IN  \/ IsStrictPrefix(s, t)
                    \/ n < Len(s) /\ n < Len(t) /\ s[n + 1] < t[n + 1]

\* The key at an iterator that should stand on the least key of S.
Least(S) == IF S = {} THEN << >> ELSE CHOOSE k \in S : \A l \in S \ {k} : Before(k, l)
Greatest(S) == IF S = {} THEN << >> ELSE CHOOSE k \in S : \A l \in S \ {k} : Before(l, k)

\* Every call but prefixed_key_erase_all does to the keys and values what the
\* call of the map does, however many nodes it splits, frees or reuses, and
\* a call that throws does nothing (Trie.h insert_impl, erase_impl,
\* prefixed_erase_all).
Abstract == INSTANCE OrderedMap WITH map <- Contents
ImplementsMap ==
    /\ Abstract!Init
    /\ [][Abstract!Next \/ \E q \in Query : PrefixedKeyEraseAll(q)]_Contents

\* TrieHeader::_count, which every call changes by its own arithmetic, is the
\* number of values reachable from the root.
CountIsSize == count = Cardinality(Pairs(node, Root))

\* The nodes a walk from the root comes to.
Reachable ==
    LET Children(a) == {node[a].entry[c].child : c \in DOMAIN node[a].entry} \ {Nil}
        Walk[n \in Nat] == IF n = 0 THEN {Root}
                           ELSE Walk[n - 1] \cup UNION {Children(a) : a \in Walk[n - 1]}
    IN  Walk[MaxNode]

\* The reachable nodes form a tree without empty nodes: each is the child of
\* one entry, and only the root may have no entry (enter_deep_until_terminal
\* asserts it).
TreeShape ==
    LET refs(a) == {r \in Reachable \X Atom : /\ r[2] \in DOMAIN node[r[1]].entry
                                             /\ node[r[1]].entry[r[2]].child = a}
    IN  \A a \in Reachable \ {Root} : /\ Cardinality(refs(a)) = 1
                                     /\ node[a].entry # << >>

Lost == DOMAIN node \ Reachable

\* A call that returns leaves no node behind that the root does not lead to;
\* one that throws may (the guards of prefixed_insert and upsert commit).
NoNodeLost == [][Lost' # Lost => thrown']_vars

\* begin and next visit exactly the keys, in order; next_sibling passes over
\* the keys below the one it leaves (the table above next_sibling in Trie.h).
NextInOrder ==
    LET K == DOMAIN Contents
    IN  /\ KeyAt(Begin(node)) = Least(K)
        /\ \A k \in K :
              LET i == Find(node, k)
              IN  /\ KeyAt(i) = k
                  /\ KeyAt(NextOf(node, i)) = Least({l \in K : Before(k, l)})
                  /\ KeyAt(NextSibling(node, i)) =
                        Least({l \in K : Before(k, l) /\ ~IsPrefix(k, l)})

\* prefixed_begin stands on the least key with the prefix, first_child and
\* last_child on the outermost immediate children of a key.
PrefixNavigation ==
    LET K == DOMAIN Contents
        below(k) == {l \in K : IsStrictPrefix(k, l)}
        children(k) == {l \in below(k) : \A m \in below(k) : ~IsStrictPrefix(m, l)}
    IN  /\ \A q \in Query :
              KeyAt(PrefixedBegin(node, q)) = Least({k \in K : IsPrefix(q, k)})
        /\ \A k \in K :
              /\ KeyAt(FirstChild(node, Find(node, k))) = Least(children(k))
              /\ KeyAt(LastChild(node, Find(node, k))) = Greatest(children(k))

\* The three that follow are what comments promise and the code does not do: no
\* run checks them, the README tells the counterexamples.

\* What the comment above insert says: the key is inserted, or the iterator
\* points to the key that already exists; no call ends in an exception.
CallsSucceed == ~thrown

\* What the comment above lower_bound says: the first key that is not less
\* than the one looked for.
LowerBoundIsLeast ==
    \A q \in Query :
        KeyAt(LowerBound(node, q)) = Least({k \in DOMAIN Contents : ~Before(k, q)})

\* What the comment above prefixed_key_erase_all says: all that starts with
\* the prefix is removed, and no more.
KeyEraseIsExact ==
    \A q \in Query :
        KeysOf(KeyErased(q).node) = {k \in DOMAIN Contents : ~IsPrefix(q, k)}

=============================================================================
