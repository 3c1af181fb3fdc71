----------------------------- MODULE OrderedMap -----------------------------
(***************************************************************************)
(* What the trie promises to its users: a map from keys to values.  A key  *)
(* is a non-empty sequence of atoms; which keys a call may name is the     *)
(* parameter Key.  Trie implements this module call by call, its nodes,    *)
(* stems and iterators hidden.                                             *)
(***************************************************************************)
EXTENDS SequencesExt

CONSTANTS Key,     \* the keys callers use
          Value    \* the values they store

VARIABLE map       \* the stored pairs, a function on the present keys

Init == map = << >>

\* insert of an absent key.
Put(k, v) == /\ k \notin DOMAIN map
             /\ map' = [l \in DOMAIN map \cup {k} |-> IF l = k THEN v ELSE map[l]]

\* update, or upsert of a present key.
Assign(k, v) == /\ k \in DOMAIN map
                /\ map' = [map EXCEPT ![k] = v]

\* erase.
Delete(k) == /\ k \in DOMAIN map
             /\ map' = Restrict(map, DOMAIN map \ {k})

\* prefixed_erase_all: every key under k, and k itself when `inclusive`.
DeleteUnder(k, inclusive) ==
    /\ k \in DOMAIN map
    /\ map' = RestrictDomain(map, LAMBDA l : ~IsStrictPrefix(k, l)
                                             /\ (inclusive => l # k))

Next == \E k \in Key :
            \/ \E v \in Value : Put(k, v) \/ Assign(k, v)
            \/ Delete(k)
            \/ \E inclusive \in BOOLEAN : DeleteUnder(k, inclusive)

Spec == Init /\ [][Next]_map
=============================================================================
