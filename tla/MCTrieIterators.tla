--------------------------- MODULE MCTrieIterators ---------------------------
(* Keys that share a stem, end inside it and hang below one another.         *)
EXTENDS TrieIterators

MCAtom == {1, 2}
MCKey  == {<<1, 1>>, <<1, 1, 1>>, <<1, 1, 2>>}
==============================================================================
