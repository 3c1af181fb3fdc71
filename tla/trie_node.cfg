\* A node of the trie from 8 slots to 256.
CONSTANTS
    Keys <- MCKeys
    Long <- MCLong
    Values = {1}
    Stems = {s1, s2}
    Nil = Nil
    Lost = Lost
    Root = FALSE
SPECIFICATION Spec
INVARIANTS
    WalkInOrder
PROPERTY NodeIsMap
