-------------------------------- MODULE KeyMap --------------------------------
(***************************************************************************)
(* What a node of the trie promises: a map from the bytes that it knows to *)
(* their entries.  A step changes the entry of at most one byte, or drops  *)
(* the whole node.                                                         *)
(***************************************************************************)
CONSTANTS
    Keys,       \* bytes
    Entries,    \* what a byte can be mapped to
    Absent      \* not an entry

VARIABLE map

Init == \A k \in Keys : map[k] = Absent

Others(k) == \A o \in Keys \ {k} : map'[o] = map[o]

Put(k) == Others(k) /\ map'[k] \in Entries

Remove(k) == Others(k) /\ map'[k] = Absent

Drop == \A k \in Keys : map'[k] = Absent

Next == Drop \/ \E k \in Keys : Put(k) \/ Remove(k)

Spec == Init /\ [][Next]_map
===============================================================================
