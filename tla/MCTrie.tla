------------------------------- MODULE MCTrie -------------------------------
(* Keys that share stems of length one and two, end inside one another's    *)
(* stems and diverge at each of their atoms.                                *)
EXTENDS Trie

MCAtom  == {1, 2}
MCKey   == {<<1>>, <<1, 1>>, <<1, 1, 1>>, <<1, 1, 2>>, <<1, 2, 1>>, <<2, 1, 1>>}
MCQuery == MCKey \cup {<<2>>, <<1, 2>>, <<1, 2, 2>>, <<2, 2>>}
=============================================================================
