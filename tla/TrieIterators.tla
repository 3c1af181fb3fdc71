--------------------------- MODULE TrieIterators ---------------------------
(***************************************************************************)
(* An iterator that a program keeps while the trie changes under it.  The  *)
(* trie and the iterator carry a version each; a position also remembers   *)
(* the version of its node.  A call that takes an iterator first syncs it  *)
(* (sync_iterator): it keeps the positions whose nodes are unchanged and   *)
(* looks the rest of the key up again below them.  Every call here commits *)
(* or throws; transactions that group calls and roll them back are left    *)
(* out.                                                                    *)
(***************************************************************************)
EXTENDS Trie

CONSTANTS MaxTrieVersion   \* bound on the edits of a behaviour

VARIABLES trie_version,   \* Trie::_version
          cursor          \* the iterator kept by the program

itervars == <<vars, trie_version, cursor>>

IteratorsInit == /\ Init
                 /\ trie_version = 0
                 /\ cursor = [it |-> End, version |-> 0, origin |-> "search"]

-----------------------------------------------------------------------------
(* sync_iterator. *)

\* mutant: only the node the iterator stands in is looked at
OutdatedDeepest(it) == {n \in DOMAIN it \cap {Len(it)} :
                           \/ it[n].addr \notin DOMAIN node
                           \/ node[it[n].addr].version # it[n].version}

\* The levels whose node is not the one the iterator has seen.
Outdated(it) == {n \in DOMAIN it : \/ it[n].addr \notin DOMAIN node
                                   \/ node[it[n].addr].version # it[n].version}

\* Positions from level n on are looked up again.
SyncFrom(it, n) ==
    IF it[n].addr \notin DOMAIN node
    THEN [ok |-> FALSE, it |-> End]
    ELSE Bound(node, SubSeq(it, 1, n - 1), KeyAt(SubSeq(it, n, Len(it))))

\* Whether iterator i still stands on its key, and the iterator that sync leaves.
Sync(i) ==
    IF i.version = trie_version \/ Outdated(i.it) = {}
    THEN [ok |-> TRUE, it |-> i.it]
    ELSE SyncFrom(i.it, Min(Outdated(i.it)))

\* Room for the versions that one more call adds.
Bounded == /\ trie_version < MaxTrieVersion
           /\ \A a \in DOMAIN node : node[a].version + 3 < VersionMod

\* mutant: erasing leaves the trie's version alone
AgedByInsert == trie_version' = IF count' > count THEN trie_version + 1 ELSE trie_version

\* Every call that adds or removes a key moves the trie's version on; update
\* does not.
Aged == trie_version' = IF count' = count THEN trie_version ELSE trie_version + 1

\* A call of somebody else.
Call == /\ Bounded
        /\ Next
        /\ Aged
        /\ UNCHANGED cursor

\* The program keeps an iterator.  Two kinds are kept and not used further: one
\* that insert returned for a key below a former leaf (SyncFindsInserted says
\* why), and what a failed sync or the patch of prefixed_erase_all left.
Keep(it, version, origin) == cursor' = [it |-> it, version |-> version, origin |-> origin]

Usable == cursor.it # End /\ cursor.origin = "search"

\* find(k)
Hold(k) == /\ Find(node, k) # End
           /\ Keep(Find(node, k), trie_version, "search")
           /\ UNCHANGED <<vars, trie_version>>

\* The iterator insert returns for the absent key whose mismatch was m: the
\* position that mismatch ended on, and for a new node the position in it.
\* Where the new node hangs below a leaf ("stem_end"), the leaf's position is
\* given the new version, and is not told that it has a child now.
InsertedIterator(m) ==
    LET p    == Last(m.path)
        up   == [p EXCEPT !.has_child = m.result # "stem_end", !.version = node'[p.addr].version]
        n    == node'[p.addr].entry[p.text[1]].child
        leaf == [addr |-> n, text |-> m.rest, version |-> node'[n].version,
                 has_child |-> FALSE, has_data |-> TRUE]
    IN  CASE m.result = "no_entry" ->
               Append(Front(m.path), [p EXCEPT !.text = @ \o m.rest, !.has_data = TRUE,
                                               !.version = node'[p.addr].version])
          [] m.result = "string_end" -> Append(Front(m.path), [up EXCEPT !.has_data = TRUE])
          [] OTHER -> Front(m.path) \o <<up, leaf>>

\* insert that keeps the iterator it returns.  It starts as end(), version 0,
\* and is given the trie's version only where unconditional_insert runs.
InsertHold(k, v) ==
    LET m == Mismatch(node, Root, k)
    IN  /\ Bounded
        /\ Insert(k, v)
        /\ Aged
        /\ \/ /\ m.result = "equals"
              /\ Keep(m.path, 0, "search")
           \/ /\ count' # count
              /\ Keep(InsertedIterator(m),
                      IF m.result = "string_end" THEN 0 ELSE trie_version',
                      IF m.result = "stem_end" THEN "insert" ELSE "search")

\* mutant: the iterator is checked, and then used as it was
AdvanceUnsynced ==
    /\ Usable
    /\ \E s \in {Sync(cursor)} :
        IF s.ok THEN Keep(NextOf(node, cursor.it), trie_version, "search")
                ELSE Keep(s.it, trie_version, "left")
    /\ UNCHANGED <<vars, trie_version>>

\* next: a key that is gone leaves the iterator where the search for it ended.
Advance ==
    /\ Usable
    /\ \E s \in {Sync(cursor)} :
        IF s.ok THEN Keep(NextOf(node, s.it), trie_version, "search")
                ELSE Keep(s.it, trie_version, "left")
    /\ UNCHANGED <<vars, trie_version>>

\* update through the iterator.
UpdateHeld(v) ==
    /\ Bounded
    /\ Usable
    /\ \E s \in {Sync(cursor)} :
        /\ s.ok
        /\ LET p == Last(s.it)
           IN  /\ node' = SetEntry(node, p.addr, p.text[1],
                                   [Here(node, p) EXCEPT !.value = v], 1)
               /\ Keep(Append(Front(s.it), [p EXCEPT !.version = node'[p.addr].version]),
                       trie_version, "search")
    /\ thrown' = FALSE
    /\ UNCHANGED <<count, trie_version>>

\* erase through the iterator; the one it returns, on the next key, still has
\* the versions from before.
EraseHeld ==
    /\ Bounded
    /\ Usable
    /\ \E s \in {Sync(cursor)} :
        /\ s.ok
        /\ \E r \in {EraseAt(State, s.it)} :
              Becomes(r) /\ Keep(r.it, trie_version, "search")
    /\ Aged

\* prefixed_erase_all through the iterator, which moves to the next key and is
\* given the new version.
PrefixedEraseHeld ==
    /\ Bounded
    /\ Usable
    /\ \E s \in {Sync(cursor)} :
        /\ s.ok
        /\ \E r \in {PrefixedEraseAt(State, s.it, TRUE)} :
              /\ Becomes(r)
              /\ Aged
              /\ IF Last(s.it).has_child THEN Keep(r.it, trie_version', "left")
                                         ELSE Keep(r.it, trie_version, "search")

IteratorsNext ==
    \/ Call
    \/ \E k \in Key : Hold(k) \/ \E v \in Value : InsertHold(k, v)
    \/ \E v \in Value : UpdateHeld(v)
    \/ Advance \/ EraseHeld \/ PrefixedEraseHeld

IteratorsSpec == IteratorsInit /\ [][IteratorsNext]_itervars

-----------------------------------------------------------------------------
(* Properties. *)

\* What the use of an iterator depends on.
Where(i) == [n \in DOMAIN i |-> <<i[n].addr, i[n].text, i[n].has_child,
                                 (n = Len(i)) => i[n].has_data>>]

\* Syncing finds the key again wherever edits have moved it, keeps its flags
\* right, and reports it gone exactly when it is (the contract above
\* sync_iterator): the versions of the nodes never make an iterator pass that
\* stands elsewhere, although freed nodes start again at version 0.
SyncFindsKey ==
    Usable =>
        \E s \in {Sync(cursor)}, f \in {Find(node, KeyAt(cursor.it))} :
            /\ s.ok <=> (f # End)
            /\ s.ok => Where(s.it) = Where(f)

\* What the comment above sync_iterator says, of an iterator that insert
\* returned for a key below a former leaf: sync fails only where the entry was
\* erased.  No run checks it: the code does otherwise, see the README.
SyncFindsInserted ==
    cursor.origin = "insert" /\ Find(node, KeyAt(cursor.it)) # End => Sync(cursor).ok

\* sync_iterator tests for a node that has been freed ("iterator so old"), but
\* it reads memory the node no longer owns to do so; some node above it has
\* changed first, so the test is never reached with a freed node.
FreedNodeNeverRead ==
    Usable /\ cursor.version # trie_version /\ Outdated(cursor.it) # {}
        => cursor.it[Min(Outdated(cursor.it))].addr \in DOMAIN node

\* next from a key that is still there goes to the next key there is now,
\* whatever was inserted or erased since the iterator was obtained.
NextSeesEdits ==
    [][Usable /\ Sync(cursor).ok /\ Advance
        => KeyAt(cursor'.it) =
               Least({l \in KeysOf(node) : Before(KeyAt(cursor.it), l)})]_itervars

=============================================================================
