--------------------------- MODULE MCTrieNodeTable ----------------------------
\* Six bytes that collide in every hash table, across its end: the others
\* hash to the last slot of a table of 64 and of smaller ones, 0 to the first.
EXTENDS TrieNodeTable

MCKeys == {0, 19, 64, 83, 147, 211}
MCLong == {19}
===============================================================================
