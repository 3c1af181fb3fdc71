------------------------------ MODULE TrieProofs ------------------------------
(***************************************************************************)
(* Theorems about Trie: whatever keys, values and nodes there are, the     *)
(* calls of the trie keep its nodes a tree, lose no node, and keep the     *)
(* count of its values.                                                    *)
(*                                                                         *)
(* The invariant is TrieInv.  It says of all nodes, reachable or not, that *)
(* no entry is void, that an entry's child is a node with entries, that a  *)
(* node is the child of one entry, that a node with entries hangs in the   *)
(* tree, that a rank falls along every way down, and that the count is     *)
(* the number of entries with a value.  What is reachable from the root    *)
(* follows from it.  TreeShape by itself is not inductive: it admits an    *)
(* entry that leads back to the root, which an erasure by prefix would     *)
(* free, and says nothing of void entries.                                 *)
(*                                                                         *)
(* Two kinds of step remain once what a call finds is known: a subtree is  *)
(* dropped below an entry (Trimmed), or an entry is cut by a new node      *)
(* (Grafted); both keep a tree.  What a call finds is known from the       *)
(* recursions of the model, each solved by CommonLemmas' FixedPoint along  *)
(* the rank: Mismatch leads along a way of the tree (Led), Descend ends on *)
(* a value, Subtree is what is under a node, Terminals counts its values.  *)
(* prefixed_key_erase_all goes on with the iterator an erasure leaves; so  *)
(* the iterators that part from an erased way still sit on a value.        *)
(***************************************************************************)
EXTENDS Trie, CommonLemmas

-----------------------------------------------------------------------------
(* Sequences, and the key along a sequence of positions.                   *)

\* A flattened sequence grows with its members.
LEMMA Members ==
  ASSUME NEW T, NEW x \in Seq(T)
  PROVE  /\ Len(x) \in Nat /\ DOMAIN x = 1 .. Len(x) /\ \A i \in 1 .. Len(x) : x[i] \in T
         /\ x # <<>> <=> Len(x) # 0
         /\ x \in [1 .. Len(x) -> T]
OBVIOUS

\* A sequence with one more member.
LEMMA Appended ==
  ASSUME NEW T, NEW x \in Seq(T), NEW y \in T
  PROVE  /\ Append(x, y) \in Seq(T) /\ Append(x, y) # <<>> /\ Len(Append(x, y)) = Len(x) + 1
         /\ Append(x, y)[Len(x) + 1] = y /\ \A i \in 1 .. Len(x) : Append(x, y)[i] = x[i]
OBVIOUS

\* Sequences join to a sequence.
LEMMA Joined ==
  ASSUME NEW S, NEW x \in Seq(S), NEW y \in Seq(S)
  PROVE  x \o y \in Seq(S)
OBVIOUS

\* f joins the members of x one after the other.
Flattens(V, x, f) ==
  /\ f \in [1 .. Len(x) -> V] /\ FlattenSeq(x) = f[Len(x)] /\ f[1] = x[1]
  /\ \A i \in 2 .. Len(x) : f[i] = f[i - 1] \o x[i]
Flattening(V, x) == \E f : Flattens(V, x, f)

\* Sequences of the same length and members are the same.
LEMMA SameSequence ==
  ASSUME NEW T, NEW x \in Seq(T), NEW y \in Seq(T), Len(x) = Len(y),
         \A n \in 1 .. Len(x) : x[n] = y[n]
  PROVE  x = y
OBVIOUS

\* Part of a sequence.
LEMMA Part ==
  ASSUME NEW T, NEW x \in Seq(T), NEW m \in Nat, NEW n \in Nat, n <= Len(x), 0 < m, m <= n + 1
  PROVE  /\ SubSeq(x, m, n) \in Seq(T) /\ Len(SubSeq(x, m, n)) = n - m + 1
         /\ \A i \in 1 .. n - m + 1 : SubSeq(x, m, n)[i] = x[m + i - 1]
OBVIOUS

\* A sequence up to a place.
LEMMA FirstPart ==
  ASSUME NEW T, NEW x \in Seq(T), NEW n \in Nat, n <= Len(x)
  PROVE  /\ SubSeq(x, 1, n) \in Seq(T) /\ Len(SubSeq(x, 1, n)) = n
         /\ \A i \in 1 .. n : SubSeq(x, 1, n)[i] = x[i]
OBVIOUS

\* FlattenSeq is computed by joining one member after the other.
LEMMA Flattened ==
  ASSUME NEW S, NEW V, V = Seq(S), NEW x \in Seq(V), x # <<>>
  PROVE  Flattening(V, x)
<1> DEFINE D == 1 .. Len(x)
           Eq(f) == [i \in D |-> IF i = 1 THEN x[i] ELSE f[i - 1] \o x[i]]
           H == [f \in [D -> V] |-> Eq(f)]
           rank == [i \in D |-> i]
<1>0. Len(x) \in Nat \ {0} /\ \A i \in D : x[i] \in V
  BY Members
<1>1. \A f \in [D -> V] : Eq(f) \in [D -> V]
  <2>1. \A a, b \in V : a \o b \in V
    BY Joined
  <2> QED
    BY <1>0, <2>1
<1>2. H \in [[D -> V] -> [D -> V]] /\ rank \in [D -> Nat] /\ V # {}
  <2>1. <<>> \in V
    <3>1. <<>> \in Seq(S)
      OBVIOUS
    <3> QED
      BY <3>1
  <2> HIDE DEF Eq
  <2> QED
    BY <1>1, <2>1
<1>3. Upward(D, V, rank, H)
  <2>1. ASSUME NEW f \in [D -> V], NEW g \in [D -> V], NEW b \in D,
               \A c \in D : rank[c] < rank[b] => f[c] = g[c]
        PROVE  H[f][b] = H[g][b]
    <3>1. b = 1 \/ (b - 1 \in D /\ rank[b - 1] < rank[b])
      OBVIOUS
    <3>2. H[f] = Eq(f) /\ H[g] = Eq(g)
      OBVIOUS
    <3>3. Eq(f)[b] = Eq(g)[b]
      BY <2>1, <3>1
    <3> QED
      BY <3>2, <3>3
  <2> HIDE DEF H, rank, D
  <2> QED
    BY <2>1 DEF Upward
<1>4. \E f \in [D -> V] : f = Eq(f)
  <2>1. Solvable(D, V, H)
    <3>1. Recursion(D, V, rank, H)
      <4> HIDE DEF H, D, rank
      <4> QED
        BY <1>2, <1>3 DEF Recursion
    <3> HIDE DEF H, D, rank
    <3> QED
      BY <3>1, FixedPoint
  <2> HIDE DEF Eq
  <2> QED
    BY <2>1 DEF Solvable
<1> DEFINE F == CHOOSE f : f = Eq(f)
<1>5. F = Eq(F)
  <2> HIDE DEF Eq
  <2> QED
    BY <1>4
<1>6. FlattenSeq(x) = F[Len(x)]
  BY DEF FlattenSeq
<1>7. F[1] = x[1] /\ \A i \in 2 .. Len(x) : F[i] = F[i - 1] \o x[i]
  <2>1. \A i \in D : F[i] = IF i = 1 THEN x[i] ELSE F[i - 1] \o x[i]
    <3> HIDE DEF F
    <3> QED
      BY <1>5
  <2>2. 1 \in D /\ \A i \in 2 .. Len(x) : i \in D /\ i # 1
    BY <1>0
  <2> HIDE DEF F, D
  <2> QED
    BY <2>1, <2>2
<1>8. \A i \in D : F[i] \in V
  <2> DEFINE P == {i \in D : F[i] \in V}
  <2> HIDE DEF F
  <2>1. ASSUME NEW b \in D, \A c \in D : rank[c] < rank[b] => c \in P PROVE b \in P
    <3>1. b = 1 \/ (b \in 2 .. Len(x) /\ b - 1 \in D /\ rank[b - 1] < rank[b])
      OBVIOUS
    <3>2. x[b] \in V
      BY <1>0
    <3>3. CASE b = 1
      BY <1>7, <3>2, <3>3
    <3>4. CASE b # 1
      <4>1. F[b - 1] \in V
        BY <2>1, <3>1, <3>4
      <4>2. F[b] = F[b - 1] \o x[b]
        BY <1>7, <3>1, <3>4
      <4> QED
        BY <3>2, <4>1, <4>2, Joined
    <3> QED
      BY <3>3, <3>4
  <2>2. P = D
    <3>1. P \in SUBSET D
      OBVIOUS
    <3>2. Inductive(D, rank, P)
      <4> HIDE DEF P, D, rank
      <4> QED
        BY <1>2, <2>1, <3>1 DEF Inductive
    <3> HIDE DEF P, D, rank
    <3> QED
      BY <3>2, ByRank
  <2> QED
    BY <2>2
<1>9. F \in [D -> V]
  <2>1. F = [i \in D |-> F[i]]
    <3> HIDE DEF F
    <3> QED
      BY <1>5
  <2> HIDE DEF F
  <2> QED
    BY <1>8, <2>1
<1> QED
  <2> HIDE DEF F
  <2> QED
    BY <1>6, <1>7, <1>9 DEF Flattens, Flattening

\* What FlattenAppend is about, and what it says.
Parts(S, V, x, y) == V = Seq(S) /\ x \in Seq(V) /\ y \in V

FlattenGrows(V, x, y) ==
  /\ FlattenSeq(x) \in V /\ FlattenSeq(Append(x, y)) \in V
  /\ FlattenSeq(Append(x, y)) = IF x = <<>> THEN y ELSE FlattenSeq(x) \o y
  /\ x = <<>> => FlattenSeq(x) = <<>>

\* A flattened sequence grows with its members.
LEMMA FlattenAppend ==
  ASSUME NEW S, NEW V, NEW x, NEW y, Parts(S, V, x, y)
  PROVE  FlattenGrows(V, x, y)
<1>p. V = Seq(S) /\ x \in Seq(V) /\ y \in V
  BY DEF Parts
<1> USE <1>p
<1> DEFINE z == Append(x, y)
<1>1. z \in Seq(V) /\ z # <<>> /\ Len(z) = Len(x) + 1 /\ z[Len(z)] = y
      /\ \A i \in 1 .. Len(x) : z[i] = x[i]
  <2>2. /\ z \in Seq(V) /\ z # <<>> /\ Len(z) = Len(x) + 1 /\ z[Len(x) + 1] = y
        /\ \A i \in 1 .. Len(x) : z[i] = x[i]
    BY Appended
  <2> HIDE DEF z
  <2> QED
    BY <2>2
<1>2. PICK g : Flattens(V, z, g)
  <2> HIDE DEF z
  <2> QED
    BY <1>1, Flattened DEF Flattening
<1>0. Len(x) \in Nat /\ (x = <<>> <=> Len(x) = 0)
  BY Members
<1>3. CASE x = <<>>
  <2>1. Len(x) = 0 /\ Len(z) = 1
    <3> HIDE DEF z
    <3> QED
      BY <1>0, <1>1, <1>3
  <2>2. FlattenSeq(x) = x
    BY <2>1 DEF FlattenSeq
  <2>3. <<>> \in V
    OBVIOUS
  <2>4. FlattenSeq(z) = y
    <3> HIDE DEF z
    <3> QED
      BY <1>1, <1>2, <2>1 DEF Flattens
  <2> QED
    BY <1>3, <2>2, <2>3, <2>4 DEF FlattenGrows
<1>4. CASE x # <<>>
  <2>1. PICK f : Flattens(V, x, f)
    BY <1>4, Flattened DEF Flattening
  <2>2. Len(x) \in Nat \ {0}
    BY <1>0, <1>4
  <2> DEFINE D == 1 .. Len(x)
             rank == [i \in D |-> i]
             P == {i \in D : f[i] = g[i]}
  <2>3. ASSUME NEW b \in D, \A c \in D : rank[c] < rank[b] => c \in P PROVE b \in P
    <3>1. b = 1 \/ (b \in 2 .. Len(x) /\ b - 1 \in D /\ rank[b - 1] < rank[b])
      OBVIOUS
    <3>2. b \in 2 .. Len(x) => b \in 2 .. Len(z)
      <4> HIDE DEF z
      <4> QED
        BY <1>1, <2>2
    <3>3. z[b] = x[b]
      <4> HIDE DEF z
      <4> QED
        BY <1>1
    <3>4. CASE b = 1
      <4> HIDE DEF z
      <4> QED
        BY <1>2, <2>1, <3>3, <3>4 DEF Flattens
    <3>5. CASE b # 1
      <4>1. f[b - 1] = g[b - 1]
        BY <2>3, <3>1, <3>5
      <4> HIDE DEF z, rank
      <4> QED
        BY <1>2, <2>1, <3>1, <3>2, <3>3, <3>5, <4>1 DEF Flattens
    <3> QED
      BY <3>4, <3>5
  <2>4. P = D
    <3>1. P \in SUBSET D /\ rank \in [D -> Nat]
      OBVIOUS
    <3>2. Inductive(D, rank, P)
      <4> HIDE DEF P, D, rank
      <4> QED
        BY <2>3, <3>1 DEF Inductive
    <3> HIDE DEF P, D, rank
    <3> QED
      BY <3>2, ByRank
  <2>5. f[Len(x)] = g[Len(x)]
    BY <2>2, <2>4
  <2>6. Len(z) \in 2 .. Len(z) /\ Len(z) - 1 = Len(x)
    <3> HIDE DEF z
    <3> QED
      BY <1>1, <2>2
  <2>7. FlattenSeq(z) = FlattenSeq(x) \o y
    <3> HIDE DEF z
    <3> QED
      BY <1>1, <1>2, <2>1, <2>5, <2>6, ZenonT(90) DEF Flattens
  <2>8. FlattenSeq(x) \in V
    <3>1. f[Len(x)] \in V /\ FlattenSeq(x) = f[Len(x)]
      <4>1. Len(x) \in 1 .. Len(x) /\ f \in [1 .. Len(x) -> V]
        BY <2>1, <2>2 DEF Flattens
      <4>2. FlattenSeq(x) = f[Len(x)]
        BY <2>1 DEF Flattens
      <4> QED
        BY <4>1, <4>2
    <3> QED
      BY <3>1
  <2> QED
    BY <1>4, <2>7, <2>8 DEF FlattenGrows
<1> QED
  BY <1>3, <1>4

\* A position: where it is, the text it adds, what the iterator remembers of it.
PosT == [addr : Addr, text : Seq(Atom), version : Nat, has_child : BOOLEAN, has_data : BOOLEAN]

\* The texts of the positions of an iterator.
Texts(i) == [n \in DOMAIN i |-> i[n].text]

\* The key an iterator spells grows by the text of each position.
LEMMA KeyGrows ==
  ASSUME NEW i \in Seq(PosT), NEW p \in PosT
  PROVE  /\ KeyAt(i) \in Seq(Atom) /\ KeyAt(<<>>) = <<>>
         /\ KeyAt(Append(i, p)) = KeyAt(i) \o p.text
<1> DEFINE V == Seq(Atom)
<1>1. p.text \in V /\ \A n \in 1 .. Len(i) : i[n].text \in V
  <2>1. \A q \in PosT : q.text \in V
    BY DEF PosT
  <2>2. \A n \in 1 .. Len(i) : i[n] \in PosT
    BY Members
  <2> QED
    BY <2>1, <2>2
<1>2. Texts(i) \in Seq(V) /\ Len(Texts(i)) = Len(i)
  <2> HIDE DEF V
  <2>1. DOMAIN i = 1 .. Len(i) /\ Len(i) \in Nat
    BY Members
  <2> QED
    BY <1>1, <2>1 DEF Texts
<1>3. Texts(Append(i, p)) = Append(Texts(i), p.text)
  <2>1. /\ Append(i, p) \in Seq(PosT) /\ Len(Append(i, p)) = Len(i) + 1
        /\ Append(i, p)[Len(i) + 1] = p /\ \A n \in 1 .. Len(i) : Append(i, p)[n] = i[n]
    BY Appended
  <2>2. /\ Append(Texts(i), p.text) \in Seq(V) /\ Len(Append(Texts(i), p.text)) = Len(i) + 1
        /\ Append(Texts(i), p.text)[Len(i) + 1] = p.text
        /\ \A n \in 1 .. Len(i) : Append(Texts(i), p.text)[n] = Texts(i)[n]
    <3> HIDE DEF V
    <3> QED
      BY <1>1, <1>2, Appended
  <2>3. DOMAIN Append(i, p) = 1 .. (Len(i) + 1) /\ Len(i) \in Nat /\ DOMAIN i = 1 .. Len(i)
    BY <2>1, Members
  <2>4. \A n \in 1 .. (Len(i) + 1) : Texts(Append(i, p))[n] = Append(Texts(i), p.text)[n]
    <3>1. \A n \in 1 .. Len(i) : Texts(i)[n] = i[n].text
      BY <2>3 DEF Texts
    <3>2. \A n \in 1 .. (Len(i) + 1) : Texts(Append(i, p))[n] = Append(i, p)[n].text
      BY <2>3 DEF Texts
    <3>3. \A n \in 1 .. (Len(i) + 1) : n \in 1 .. Len(i) \/ n = Len(i) + 1
      BY <2>3
    <3> HIDE DEF V
    <3> QED
      BY <2>1, <2>2, <3>1, <3>2, <3>3
  <2>5. Texts(Append(i, p)) \in [1 .. (Len(i) + 1) -> V]
    <3>1. \A n \in 1 .. (Len(i) + 1) : Append(i, p)[n].text \in V
      <4>1. \A n \in 1 .. (Len(i) + 1) : n \in 1 .. Len(i) \/ n = Len(i) + 1
        BY <2>3
      <4> HIDE DEF V
      <4> QED
        BY <1>1, <2>1, <4>1
    <3> HIDE DEF V
    <3> QED
      BY <2>3, <3>1 DEF Texts
  <2>6. Append(Texts(i), p.text) \in [1 .. (Len(i) + 1) -> V]
    <3> HIDE DEF V
    <3> QED
      BY <2>2, Members
  <2> HIDE DEF V
  <2> QED
    BY <2>4, <2>5, <2>6
<1>4. /\ FlattenSeq(Texts(i)) \in V
      /\ FlattenSeq(Append(Texts(i), p.text)) =
           IF Texts(i) = <<>> THEN p.text ELSE FlattenSeq(Texts(i)) \o p.text
      /\ Texts(i) = <<>> => FlattenSeq(Texts(i)) = <<>>
  <2>1. V = Seq(Atom)
    OBVIOUS
  <2>2. Parts(Atom, V, Texts(i), p.text)
    BY <1>1, <1>2 DEF Parts
  <2> HIDE DEF V
  <2>3. FlattenGrows(V, Texts(i), p.text)
    BY <2>2, FlattenAppend, Zenon
  <2> QED
    BY <2>3 DEF FlattenGrows
<1>5. Texts(<<>>) = <<>> /\ FlattenSeq(<<>>) = <<>>
  <2>1. DOMAIN <<>> = {} /\ Len(<<>>) = 0
    OBVIOUS
  <2>2. Texts(<<>>) = [n \in {} |-> <<>>[n].text]
    BY <2>1 DEF Texts
  <2>3. [n \in {} |-> <<>>[n].text] = <<>>
    OBVIOUS
  <2> QED
    BY <2>1, <2>2, <2>3 DEF FlattenSeq
<1>6. KeyAt(i) = FlattenSeq(Texts(i)) /\ KeyAt(<<>>) = FlattenSeq(Texts(<<>>))
      /\ KeyAt(Append(i, p)) = FlattenSeq(Texts(Append(i, p)))
  BY DEF KeyAt, Texts
<1>7. CASE Texts(i) = <<>>
  <2>1. KeyAt(i) = <<>> /\ <<>> \o p.text = p.text
    BY <1>1, <1>4, <1>6, <1>7
  <2> QED
    BY <1>3, <1>4, <1>5, <1>6, <1>7, <2>1
<1>8. CASE Texts(i) # <<>>
  BY <1>3, <1>4, <1>5, <1>6, <1>8
<1> QED
  BY <1>7, <1>8

\* The last member of a sequence, and what comes before.
LEMMA FrontLast ==
  ASSUME NEW T, NEW x \in Seq(T), x # <<>>
  PROVE  /\ Front(x) \in Seq(T) /\ Last(x) \in T /\ x = Append(Front(x), Last(x))
         /\ Len(Front(x)) = Len(x) - 1 /\ Len(x) \in Nat \ {0}
         /\ Last(x) = x[Len(x)] /\ \A n \in 1 .. Len(x) - 1 : Front(x)[n] = x[n]
<1>1. Len(x) \in Nat \ {0} /\ Len(x) - 1 \in Nat /\ x[Len(x)] \in T
  OBVIOUS
<1>2. /\ SubSeq(x, 1, Len(x) - 1) \in Seq(T) /\ Len(SubSeq(x, 1, Len(x) - 1)) = Len(x) - 1
      /\ \A n \in 1 .. Len(x) - 1 : SubSeq(x, 1, Len(x) - 1)[n] = x[n]
  <2>1. Len(x) - 1 <= Len(x)
    BY <1>1
  <2> QED
    BY <1>1, <2>1, FirstPart
<1> DEFINE f == SubSeq(x, 1, Len(x) - 1)
<1>3. x = Append(f, x[Len(x)])
  <2>1. /\ Append(f, x[Len(x)]) \in Seq(T) /\ Len(Append(f, x[Len(x)])) = Len(x)
        /\ Append(f, x[Len(x)])[Len(x)] = x[Len(x)]
        /\ \A n \in 1 .. Len(x) - 1 : Append(f, x[Len(x)])[n] = x[n]
    <3> HIDE DEF f
    <3>1. f \in Seq(T) /\ Len(f) = Len(x) - 1
      BY <1>2 DEF f
    <3>2. Len(f) + 1 = Len(x)
      BY <1>1, <3>1
    <3> QED
      BY <1>1, <1>2, <3>1, <3>2, Appended DEF f
  <2>3. \A n \in 1 .. Len(x) : Append(f, x[Len(x)])[n] = x[n]
    <3>1. \A n \in 1 .. Len(x) : n = Len(x) \/ n \in 1 .. Len(x) - 1
      BY <1>1
    <3> HIDE DEF f
    <3> QED
      BY <2>1, <3>1
  <2> HIDE DEF f
  <2> QED
    BY <2>1, <2>3, SameSequence
<1> QED
  BY <1>1, <1>2, <1>3 DEF Front, Last

\* Front and last of a sequence just appended to.
LEMMA AppendFrontLast ==
  ASSUME NEW T, NEW x \in Seq(T), NEW y \in T
  PROVE  Front(Append(x, y)) = x /\ Last(Append(x, y)) = y
<1>1. /\ Append(x, y) \in Seq(T) /\ Len(Append(x, y)) = Len(x) + 1 /\ Len(x) \in Nat
      /\ Append(x, y)[Len(x) + 1] = y /\ \A i \in 1 .. Len(x) : Append(x, y)[i] = x[i]
  BY Appended, Members
<1>2. Front(Append(x, y)) = SubSeq(Append(x, y), 1, Len(x))
  BY <1>1 DEF Front
<1>3. SubSeq(Append(x, y), 1, Len(x)) = x
  OBVIOUS
<1> QED
  BY <1>1, <1>2, <1>3 DEF Last

\* Joining sequences is associative.
LEMMA Associative ==
  ASSUME NEW T, NEW x \in Seq(T), NEW y \in Seq(T), NEW z \in Seq(T)
  PROVE  (x \o y) \o z = x \o (y \o z)
BY SMTT(60)

\* Appending is joining with a sequence of one member.
LEMMA AppendIsJoin ==
  ASSUME NEW T, NEW x \in Seq(T), NEW y \in Seq(T), NEW z \in T
  PROVE  /\ x \o Append(y, z) = Append(x \o y, z) /\ Append(x, z) = x \o <<z>> /\ <<z>> \in Seq(T)
         /\ Append(x, z) \o y = x \o (<<z>> \o y)
         /\ <<>> \o x = x /\ x \o <<>> = x
BY SMTT(60)

\* The same from the other end.
LEMMA KeyFront ==
  ASSUME NEW p \in PosT, NEW j \in Seq(PosT)
  PROVE  <<p>> \o j \in Seq(PosT) /\ KeyAt(<<p>> \o j) = p.text \o KeyAt(j)
<1> DEFINE T == {n \in Nat : \A i \in Seq(PosT) : Len(i) = n => KeyAt(<<p>> \o i) = p.text \o KeyAt(i)}
<1>0. p.text \in Seq(Atom)
  BY DEF PosT
<1>1. 0 \in T
  <2>1. SUFFICES ASSUME NEW i \in Seq(PosT), Len(i) = 0 PROVE KeyAt(<<p>> \o i) = p.text \o KeyAt(i)
    OBVIOUS
  <2>2. i = <<>>
    BY <2>1, Members
  <2>3. <<p>> \o <<>> = Append(<<>>, p) /\ <<>> \in Seq(PosT)
    OBVIOUS
  <2>4. KeyAt(Append(<<>>, p)) = KeyAt(<<>>) \o p.text /\ KeyAt(<<>>) = <<>>
    BY <2>3, KeyGrows
  <2>5. p.text \o <<>> = p.text /\ <<>> \o p.text = p.text
    BY <1>0
  <2> QED
    BY <2>2, <2>3, <2>4, <2>5
<1>2. ASSUME NEW n \in T PROVE n + 1 \in T
  <2>1. SUFFICES ASSUME NEW i \in Seq(PosT), Len(i) = n + 1
                 PROVE  KeyAt(<<p>> \o i) = p.text \o KeyAt(i)
    BY SMTT(60)
  <2>2. PICK h, q : h = Front(i) /\ q = Last(i)
    OBVIOUS
  <2>3. h \in Seq(PosT) /\ q \in PosT /\ i = Append(h, q) /\ Len(h) = n
    <3>1. i # <<>> /\ n \in Nat
      BY <2>1, Members
    <3> HIDE DEF T
    <3> QED
      BY <2>1, <2>2, <3>1, FrontLast, SMTT(60)
  <2>4. <<p>> \in Seq(PosT)
    OBVIOUS
  <2>5. <<p>> \o Append(h, q) = Append(<<p>> \o h, q) /\ <<p>> \o h \in Seq(PosT)
    BY <2>3, <2>4, AppendIsJoin, Joined, SMTT(60)
  <2>6. KeyAt(Append(<<p>> \o h, q)) = KeyAt(<<p>> \o h) \o q.text
    BY <2>3, <2>5, KeyGrows
  <2>7. KeyAt(<<p>> \o h) = p.text \o KeyAt(h)
    BY <2>3
  <2>8. KeyAt(Append(h, q)) = KeyAt(h) \o q.text /\ KeyAt(h) \in Seq(Atom)
    BY <2>3, KeyGrows
  <2>9. (p.text \o KeyAt(h)) \o q.text = p.text \o (KeyAt(h) \o q.text)
    <3>1. q.text \in Seq(Atom)
      BY <2>3 DEF PosT
    <3>2. KeyAt(h) \in Seq(Atom)
      BY <2>8
    <3> HIDE DEF T
    <3>3. ASSUME NEW a \in Seq(Atom), NEW b \in Seq(Atom), NEW c \in Seq(Atom)
          PROVE  (a \o b) \o c = a \o (b \o c)
      BY Associative, SMTT(60)
    <3> QED
      BY <1>0, <3>1, <3>2, <3>3
  <2> HIDE DEF T
  <2> QED
    BY <2>3, <2>5, <2>6, <2>7, <2>8, <2>9
<1>3. T = Nat
  <2>1. T \in SUBSET Nat
    OBVIOUS
  <2> HIDE DEF T
  <2> QED
    BY <1>1, <1>2, <2>1, NatSet
<1>4. Len(j) \in Nat
  OBVIOUS
<1>5. KeyAt(<<p>> \o j) = p.text \o KeyAt(j)
  BY <1>3, <1>4
<1>6. <<p>> \o j \in Seq(PosT)
  OBVIOUS
<1> QED
  BY <1>5, <1>6

\* What two strings share.
LEMMA SharedIs ==
  ASSUME NEW s \in Seq(Atom), NEW r \in Seq(Atom)
  PROVE  /\ Shared(s, r) \in Nat /\ Shared(s, r) <= Len(s) /\ Shared(s, r) <= Len(r)
         /\ \A n \in 1 .. Shared(s, r) : s[n] = r[n]
         /\ Shared(s, r) < Len(s) /\ Shared(s, r) < Len(r) =>
              s[Shared(s, r) + 1] # r[Shared(s, r) + 1]
<1> DEFINE C == CommonPrefixes({s, r})
           Both(l) == l <= Len(s) /\ l <= Len(r) /\ \A n \in 1 .. l : s[n] = r[n]
<1>0. Len(s) \in Nat /\ Len(r) \in Nat
  BY Members
<1>1. \A l \in Nat : Both(l) => SubSeq(s, 1, l) = SubSeq(r, 1, l)
  <2>1. SUFFICES ASSUME NEW l \in Nat, Both(l) PROVE SubSeq(s, 1, l) = SubSeq(r, 1, l)
    OBVIOUS
  <2>2. /\ SubSeq(s, 1, l) \in Seq(Atom) /\ Len(SubSeq(s, 1, l)) = l
        /\ \A i \in 1 .. l : SubSeq(s, 1, l)[i] = s[i]
    BY <2>1, FirstPart
  <2>3. /\ SubSeq(r, 1, l) \in Seq(Atom) /\ Len(SubSeq(r, 1, l)) = l
        /\ \A i \in 1 .. l : SubSeq(r, 1, l)[i] = r[i]
    BY <2>1, FirstPart
  <2> QED
    BY <2>1, <2>2, <2>3, SameSequence
<1>2. \A l \in Nat : l <= Len(s) /\ l <= Len(r) /\ SubSeq(s, 1, l) = SubSeq(r, 1, l) => Both(l)
  BY FirstPart
<1>3. \A l \in Nat : Both(l) => SubSeq(s, 1, l) \in C
  <2>1. SUFFICES ASSUME NEW l \in Nat, Both(l) PROVE SubSeq(s, 1, l) \in C
    OBVIOUS
  <2>2. SubSeq(s, 1, l) \in Prefixes(s)
    BY <1>0, <2>1 DEF Prefixes
  <2>3. /\ SubSeq(s, 1, l) \in Seq(Atom) /\ Len(SubSeq(s, 1, l)) = l
    BY <2>1, FirstPart
  <2>4. SubSeq(SubSeq(s, 1, l), 1, l) = SubSeq(s, 1, l)
    <3> DEFINE x == SubSeq(s, 1, l)
    <3>1. /\ SubSeq(x, 1, l) \in Seq(Atom) /\ Len(SubSeq(x, 1, l)) = l
          /\ \A i \in 1 .. l : SubSeq(x, 1, l)[i] = x[i]
      <4> HIDE DEF x
      <4> QED
        BY <2>3, FirstPart DEF x
    <3> HIDE DEF x
    <3> QED
      BY <2>3, <3>1, SameSequence DEF x
  <2>5. IsPrefix(SubSeq(s, 1, l), s) /\ IsPrefix(SubSeq(s, 1, l), r)
    BY <1>1, <2>1, <2>3, <2>4 DEF IsPrefix
  <2> QED
    BY <2>2, <2>5 DEF CommonPrefixes
<1>4. \A x \in C : \E l \in Nat : Both(l) /\ x = SubSeq(s, 1, l) /\ Len(x) = l
  <2>1. SUFFICES ASSUME NEW x \in C PROVE \E l \in Nat : Both(l) /\ x = SubSeq(s, 1, l) /\ Len(x) = l
    OBVIOUS
  <2>2. IsPrefix(x, s) /\ IsPrefix(x, r) /\ (x \in Prefixes(s) \/ x \in Prefixes(r))
    BY DEF CommonPrefixes
  <2>3. \E l \in Nat : Len(x) = l /\ x = SubSeq(x, 1, l)
    <3>1. ASSUME NEW q \in Seq(Atom), x \in Prefixes(q) PROVE \E l \in Nat : Len(x) = l /\ x = SubSeq(x, 1, l)
      <4>1. PICK l \in 0 .. Len(q) : x = SubSeq(q, 1, l)
        BY <3>1 DEF Prefixes
      <4>2. Len(q) \in Nat /\ l \in Nat /\ l <= Len(q)
        BY <4>1, Members
      <4>3. x \in Seq(Atom) /\ Len(x) = l
        BY <4>1, <4>2, FirstPart
      <4>4. SubSeq(x, 1, l) = x
        <5>1. /\ SubSeq(x, 1, l) \in Seq(Atom) /\ Len(SubSeq(x, 1, l)) = l
              /\ \A i \in 1 .. l : SubSeq(x, 1, l)[i] = x[i]
          BY <4>2, <4>3, FirstPart
        <5> QED
          BY <4>3, <5>1, SameSequence
      <4> QED
        BY <4>2, <4>3, <4>4
    <3> QED
      BY <2>2, <3>1
  <2>4. PICK l \in Nat : Len(x) = l /\ x = SubSeq(x, 1, l)
    BY <2>3
  <2>5. l <= Len(s) /\ l <= Len(r) /\ x = SubSeq(s, 1, l) /\ x = SubSeq(r, 1, l)
    BY <2>2, <2>4 DEF IsPrefix
  <2> QED
    BY <1>2, <2>4, <2>5
<1> DEFINE L == {Len(x) : x \in C}
<1>5. PICK m \in L : \A k \in L : k <= m
  <2>1. L \in SUBSET Nat /\ \A k \in L : k <= Len(s)
    BY <1>4
  <2>2. L # {}
    <3>1. Both(0)
      BY <1>0
    <3> HIDE DEF Both, C
    <3> QED
      BY <1>3, <3>1
  <2> HIDE DEF L
  <2> QED
    BY <1>0, <2>1, <2>2, GreatestNat
<1> DEFINE z == LongestCommonPrefix({s, r})
<1>6. z \in C /\ \A x \in C : Len(x) <= Len(z)
  <2>1. \E y \in C : \A x \in C : Len(x) <= Len(y)
    <3> HIDE DEF C
    <3> QED
      BY <1>5
  <2>2. z = CHOOSE y \in C : \A x \in C : Len(x) <= Len(y)
    BY DEF LongestCommonPrefix
  <2> HIDE DEF z, C
  <2> QED
    BY <2>1, <2>2
<1>7. PICK l \in Nat : Both(l) /\ z = SubSeq(s, 1, l) /\ Len(z) = l
  <2> HIDE DEF z, C, Both
  <2> QED
    BY <1>4, <1>6
<1>8. l < Len(s) /\ l < Len(r) => s[l + 1] # r[l + 1]
  <2>1. SUFFICES ASSUME l < Len(s), l < Len(r), s[l + 1] = r[l + 1] PROVE FALSE
    OBVIOUS
  <2>2. Both(l + 1) /\ l + 1 \in Nat
    <3>1. \A n \in 1 .. l + 1 : n \in 1 .. l \/ n = l + 1
      OBVIOUS
    <3> HIDE DEF z
    <3> QED
      BY <1>0, <1>7, <2>1, <3>1
  <2>3. SubSeq(s, 1, l + 1) \in C
    <3> HIDE DEF Both, C
    <3> QED
      BY <1>3, <2>2
  <2>4. Len(SubSeq(s, 1, l + 1)) = l + 1
    BY <2>2, FirstPart
  <2>5. l + 1 <= l
    <3> HIDE DEF C, z
    <3> QED
      BY <1>6, <1>7, <2>3, <2>4
  <2> QED
    BY <2>5
<1>9. Shared(s, r) = l
  BY <1>7 DEF Shared
<1> HIDE DEF z
<1> QED
  BY <1>7, <1>8, <1>9

-----------------------------------------------------------------------------
(* Trees.                                                                  *)

\* The types: an entry, a node, a set of nodes at their addresses.
EntryT == [stem : Seq(Atom), child : Addr \cup {Nil}, value : Value \cup {None}]
NodeT == [version : 0 .. VersionMod - 1, entry : UNION {[A -> EntryT] : A \in SUBSET Atom}]
Nodes(t) == DOMAIN t \in SUBSET Addr /\ Root \in DOMAIN t /\ t \in [DOMAIN t -> NodeT]

\* Entry c of node a is there; its child; an entry with neither child nor value;
\* a node that is the root or some entry's child.
Slot(t, a, c) == a \in DOMAIN t /\ c \in DOMAIN t[a].entry
Child(t, a, c) == t[a].entry[c].child
Void(e) == e.child = Nil /\ e.value = None
Attached(t, b) == b = Root \/ \E a \in Addr, c \in Atom : Slot(t, a, c) /\ Child(t, a, c) = b

\* No entry is void, and a child is a node with entries.
Linked(t) == \A a \in Addr, c \in Atom : Slot(t, a, c) =>
               /\ ~Void(t[a].entry[c])
               /\ Child(t, a, c) # Nil => /\ Child(t, a, c) \in DOMAIN t \ {Root}
                                          /\ DOMAIN t[Child(t, a, c)].entry # {}
\* A node is the child of one entry.
OneParent(t) == \A a, b \in Addr, c, d \in Atom :
                  /\ Slot(t, a, c) /\ Slot(t, b, d)
                  /\ Child(t, a, c) = Child(t, b, d) /\ Child(t, a, c) # Nil
                  => a = b /\ c = d
\* What has entries hangs in the tree.
Rooted(t) == \A b \in DOMAIN t : DOMAIN t[b].entry # {} => Attached(t, b)
\* No way down comes back.
Descends(t, rank) == \A a \in Addr, c \in Atom :
                       Slot(t, a, c) /\ Child(t, a, c) # Nil => rank[Child(t, a, c)] < rank[a]
Ranked(t) == \E rank \in [DOMAIN t -> Nat] : Descends(t, rank)

Tree(t) == Nodes(t) /\ Linked(t) /\ OneParent(t) /\ Rooted(t) /\ Ranked(t)

\* The nodes no entry refers to.
Loose(t) == {b \in DOMAIN t : ~Attached(t, b)}

\* What there is in the nodes of a tree, part by part.
LEMMA NodeTypes ==
  ASSUME NEW t, Nodes(t)
  PROVE  /\ Root \in DOMAIN t /\ DOMAIN t \in SUBSET Addr /\ DOMAIN t \in SUBSET Nat /\ Nil \notin DOMAIN t
         /\ \A a \in DOMAIN t :
              /\ t[a] \in NodeT /\ t[a].version \in 0 .. VersionMod - 1
              /\ DOMAIN t[a].entry \in SUBSET Atom
              /\ t[a].entry \in [DOMAIN t[a].entry -> EntryT]
              /\ \A c \in DOMAIN t[a].entry : t[a].entry[c] \in EntryT
         /\ \A a, c : Slot(t, a, c) => a \in Addr /\ c \in Atom /\ t[a].entry[c] \in EntryT
<1>1. /\ Root \in DOMAIN t /\ DOMAIN t \in SUBSET Addr /\ \A a \in DOMAIN t : t[a] \in NodeT
  BY DEF Nodes
<1>2. ASSUME NEW x \in NodeT
      PROVE  /\ x.version \in 0 .. VersionMod - 1
             /\ DOMAIN x.entry \in SUBSET Atom
             /\ x.entry \in [DOMAIN x.entry -> EntryT]
  <2>1. x.version \in 0 .. VersionMod - 1 /\ x.entry \in UNION {[A -> EntryT] : A \in SUBSET Atom}
    BY DEF NodeT
  <2>2. PICK A \in SUBSET Atom : x.entry \in [A -> EntryT]
    BY <2>1
  <2> QED
    BY <2>1, <2>2
<1>3. Addr \in SUBSET Nat /\ Nil \notin Addr
  BY DEF Addr, Nil
<1>4. \A a \in DOMAIN t :
              /\ t[a] \in NodeT /\ t[a].version \in 0 .. VersionMod - 1
              /\ DOMAIN t[a].entry \in SUBSET Atom
              /\ t[a].entry \in [DOMAIN t[a].entry -> EntryT]
  BY <1>1, <1>2
<1>5. \A a \in DOMAIN t : \A c \in DOMAIN t[a].entry : t[a].entry[c] \in EntryT
  BY <1>4
<1> QED
  BY <1>1, <1>3, <1>4, <1>5 DEF Slot

\* What there is in an entry.
LEMMA EntryTypes ==
  ASSUME NEW e \in EntryT
  PROVE  e.stem \in Seq(Atom) /\ e.child \in Addr \cup {Nil} /\ e.value \in Value \cup {None}
BY DEF EntryT

\* Dropping the subtree S below entry c of node a, or changing the entry.
Closed(t, a, c, S) == \A b \in Addr, d \in Atom : Slot(t, b, d) =>
                        /\ b \in S => Child(t, b, d) \in S \cup {Nil}
                        /\ Child(t, b, d) \in S => b \in S \/ (b = a /\ d = c)
Elsewhere(t, u, a, c) ==
  /\ \A b \in DOMAIN t \cap DOMAIN u : b # a => u[b].entry = t[b].entry
  /\ \A d \in Atom : d # c => /\ Slot(u, a, d) <=> Slot(t, a, d)
                              /\ Slot(t, a, d) => u[a].entry[d] = t[a].entry[d]
Trimmed(t, u, a, c, S) ==
  /\ a \in DOMAIN t /\ c \in Atom /\ Attached(t, a)
  /\ S \in SUBSET (DOMAIN t \ {a, Root}) /\ (\A b \in S : Attached(t, b)) /\ Closed(t, a, c, S)
  /\ Nodes(u) /\ DOMAIN u = DOMAIN t \ S /\ Elsewhere(t, u, a, c)
  /\ Slot(u, a, c) => /\ ~Void(u[a].entry[c])
                      /\ Child(u, a, c) # Nil => Slot(t, a, c) /\ Child(t, a, c) = Child(u, a, c)
                                                 /\ Child(u, a, c) \notin S
  /\ Slot(t, a, c) => \/ Slot(u, a, c) /\ Child(u, a, c) = Child(t, a, c)
                      \/ Child(t, a, c) \in S \cup {Nil}
  /\ a = Root \/ DOMAIN u[a].entry # {}

\* A tree with a subtree dropped, or an entry changed, is a tree, and has the
\* same loose nodes.
LEMMA TrimKeepsTree ==
  ASSUME NEW t, NEW u, NEW a, NEW c, NEW S, Tree(t), Trimmed(t, u, a, c, S)
  PROVE  Tree(u) /\ Loose(u) = Loose(t)
<1>0. /\ a \in DOMAIN t /\ a \in DOMAIN u /\ c \in Atom /\ Attached(t, a) /\ DOMAIN u = DOMAIN t \ S
      /\ S \in SUBSET (DOMAIN t \ {a, Root}) /\ (\A b \in S : Attached(t, b))
      /\ Nodes(t) /\ Nodes(u) /\ DOMAIN t \in SUBSET Addr /\ Nil \notin DOMAIN t /\ Root \in DOMAIN u
  BY NodeTypes DEF Trimmed, Tree
<1>1. ASSUME NEW b \in Addr, NEW d \in Atom, Slot(u, b, d)
      PROVE  /\ ~Void(u[b].entry[d])
             /\ Child(u, b, d) # Nil => /\ Slot(t, b, d) /\ Child(t, b, d) = Child(u, b, d)
                                        /\ Child(u, b, d) \in DOMAIN u \ {Root}
  <2>1. CASE b = a /\ d = c
    BY <1>0, <1>1, <2>1, SMTT(60) DEF Trimmed, Tree, Linked
  <2>2. CASE ~(b = a /\ d = c)
    <3>1. Slot(t, b, d) /\ u[b].entry[d] = t[b].entry[d] /\ b \notin S
      BY <1>0, <1>1, <2>2, SMTT(60) DEF Trimmed, Elsewhere, Slot
    <3>2. Child(u, b, d) # Nil => Child(t, b, d) \in DOMAIN t \ {Root} /\ Child(t, b, d) \notin S
      BY <1>0, <2>2, <3>1 DEF Trimmed, Closed, Tree, Linked, Child
    <3> QED
      BY <1>0, <3>1, <3>2 DEF Tree, Linked, Child
  <2> QED
    BY <2>1, <2>2
<1>2. ASSUME NEW b \in Addr, NEW d \in Atom, Slot(t, b, d), Child(t, b, d) \in DOMAIN u
      PROVE  Slot(u, b, d) /\ Child(u, b, d) = Child(t, b, d)
  <2>1. CASE b = a /\ d = c
    BY <1>0, <1>2, <2>1 DEF Trimmed
  <2>2. CASE ~(b = a /\ d = c)
    <3>1. b \notin S
      BY <1>0, <1>2 DEF Trimmed, Closed
    <3> QED
      BY <1>0, <1>2, <2>2, <3>1 DEF Trimmed, Elsewhere, Slot, Child
  <2> QED
    BY <2>1, <2>2
<1>3. \A b \in DOMAIN u : Attached(u, b) <=> Attached(t, b)
  <2>1. SUFFICES ASSUME NEW b \in DOMAIN u PROVE Attached(u, b) <=> Attached(t, b)
    OBVIOUS
  <2>2. b # Nil
    BY <1>0
  <2> QED
    BY <1>1, <1>2, <2>2 DEF Attached
<1>4. \A b \in DOMAIN u : DOMAIN t[b].entry # {} => b = Root \/ DOMAIN u[b].entry # {}
  BY <1>0 DEF Trimmed, Elsewhere
<1>5. Linked(u)
  <2>1. SUFFICES ASSUME NEW b \in Addr, NEW d \in Atom, Slot(u, b, d), Child(u, b, d) # Nil
                 PROVE  DOMAIN u[Child(u, b, d)].entry # {}
    BY <1>1 DEF Linked
  <2>2. Slot(t, b, d) /\ Child(t, b, d) = Child(u, b, d) /\ Child(u, b, d) \in DOMAIN u \ {Root}
    BY <1>1, <2>1
  <2>3. DOMAIN t[Child(u, b, d)].entry # {}
    BY <2>1, <2>2 DEF Tree, Linked
  <2> QED
    BY <1>4, <2>2, <2>3
<1>6. OneParent(u)
  BY <1>1 DEF OneParent, Tree
<1>7. Rooted(u)
  <2>1. SUFFICES ASSUME NEW b \in DOMAIN u, DOMAIN u[b].entry # {} PROVE Attached(t, b)
    BY <1>3 DEF Rooted
  <2>2. CASE b = a
    BY <1>0, <2>2
  <2>3. CASE b # a
    BY <1>0, <2>1, <2>3 DEF Trimmed, Elsewhere, Tree, Rooted
  <2> QED
    BY <2>2, <2>3
<1>8. Ranked(u)
  <2>1. PICK rank \in [DOMAIN t -> Nat] : Descends(t, rank)
    BY DEF Tree, Ranked
  <2> DEFINE r == [b \in DOMAIN u |-> rank[b]]
  <2>2. r \in [DOMAIN u -> Nat]
    BY <1>0
  <2>3. Descends(u, r)
    <3>1. SUFFICES ASSUME NEW b \in Addr, NEW d \in Atom, Slot(u, b, d), Child(u, b, d) # Nil
                   PROVE  r[Child(u, b, d)] < r[b]
      BY DEF Descends
    <3>2. Slot(t, b, d) /\ Child(t, b, d) = Child(u, b, d) /\ Child(u, b, d) \in DOMAIN u
      BY <1>1, <3>1
    <3>3. rank[Child(u, b, d)] < rank[b] /\ b \in DOMAIN u
      BY <2>1, <3>1, <3>2 DEF Descends, Slot
    <3> QED
      BY <3>2, <3>3
  <2> QED
    BY <2>2, <2>3 DEF Ranked
<1>9. Loose(u) = Loose(t)
  BY <1>0, <1>3 DEF Loose
<1> QED
  BY <1>0, <1>5, <1>6, <1>7, <1>8, <1>9 DEF Tree

\* Cutting entry c of node a: the new node n takes what was below.
Grafted(t, u, a, c, n) ==
  /\ Slot(t, a, c) /\ Attached(t, a) /\ n \in Addr \ DOMAIN t
  /\ Nodes(u) /\ DOMAIN u = DOMAIN t \cup {n} /\ Elsewhere(t, u, a, c)
  /\ Slot(u, a, c) /\ Child(u, a, c) = n
  /\ DOMAIN u[n].entry # {}
  /\ \A d \in DOMAIN u[n].entry : ~Void(u[n].entry[d]) /\ Child(u, n, d) \in {Nil, Child(t, a, c)}
  /\ Child(t, a, c) # Nil => \E d \in DOMAIN u[n].entry : Child(u, n, d) = Child(t, a, c)
  /\ \A d, x \in DOMAIN u[n].entry : Child(u, n, d) # Nil /\ Child(u, n, x) # Nil => d = x

\* A tree with an entry cut in two is a tree, and has the same loose nodes.
LEMMA GraftKeepsTree ==
  ASSUME NEW t, NEW u, NEW a, NEW c, NEW n, Tree(t), Grafted(t, u, a, c, n)
  PROVE  Tree(u) /\ Loose(u) = Loose(t)
<1>0. /\ Nodes(t) /\ Nodes(u) /\ DOMAIN t \in SUBSET Addr /\ Nil \notin DOMAIN u /\ Root \in DOMAIN t
      /\ a \in DOMAIN t /\ a \in Addr /\ c \in Atom /\ n \in Addr \ DOMAIN t /\ n # Root /\ n # Nil
      /\ DOMAIN u = DOMAIN t \cup {n} /\ Slot(t, a, c) /\ Slot(u, a, c) /\ Child(u, a, c) = n
      /\ \A b, d : Slot(u, b, d) => b \in Addr /\ d \in Atom
  BY NodeTypes DEF Grafted, Tree, Slot
<1>1. \A b \in Addr, d \in Atom :
        Slot(u, b, d) => \/ b = a /\ d = c
                         \/ b = n
                         \/ b # n /\ Slot(t, b, d) /\ u[b].entry[d] = t[b].entry[d] /\ ~(b = a /\ d = c)
  BY <1>0 DEF Grafted, Elsewhere, Slot
<1>2. \A b \in Addr, d \in Atom :
        Slot(t, b, d) => /\ b # n /\ Slot(u, b, d)
                         /\ ~(b = a /\ d = c) => u[b].entry[d] = t[b].entry[d]
  BY <1>0 DEF Grafted, Elsewhere, Slot
<1>3. \A b \in Addr, d \in Atom : Slot(t, b, d) => Child(t, b, d) \in DOMAIN t \cup {Nil}
  BY DEF Tree, Linked
<1>4. \A b \in DOMAIN t : Attached(u, b) <=> Attached(t, b)
  <2>1. SUFFICES ASSUME NEW b \in DOMAIN t, b # Root PROVE Attached(u, b) <=> Attached(t, b)
    BY DEF Attached
  <2>2. b # n /\ b # Nil
    BY <1>0
  <2>3. ASSUME NEW x \in Addr, NEW d \in Atom, Slot(u, x, d), Child(u, x, d) = b PROVE Attached(t, b)
    <3>1. CASE x = n
      <4>1. Child(t, a, c) = b
        BY <1>0, <2>2, <2>3, <3>1 DEF Grafted, Slot
      <4> QED
        BY <1>0, <4>1 DEF Attached
    <3>2. CASE x # n
      BY <1>0, <1>1, <2>2, <2>3, <3>2 DEF Attached, Child
    <3> QED
      BY <3>1, <3>2
  <2>4. ASSUME NEW x \in Addr, NEW d \in Atom, Slot(t, x, d), Child(t, x, d) = b PROVE Attached(u, b)
    <3>1. CASE x = a /\ d = c
      <4>1. PICK y \in DOMAIN u[n].entry : Child(u, n, y) = b
        BY <2>2, <2>4, <3>1 DEF Grafted
      <4>2. Slot(u, n, y) /\ y \in Atom
        BY <1>0, <4>1 DEF Slot
      <4> QED
        BY <1>0, <4>1, <4>2 DEF Attached
    <3>2. CASE ~(x = a /\ d = c)
      BY <1>2, <2>4, <3>2 DEF Attached, Child
    <3> QED
      BY <3>1, <3>2
  <2> QED
    BY <2>1, <2>3, <2>4 DEF Attached
<1>5. Attached(u, n)
  BY <1>0 DEF Attached
<1>6. \A b \in DOMAIN t : DOMAIN t[b].entry # {} => DOMAIN u[b].entry # {}
  BY <1>0, <1>2 DEF Grafted, Elsewhere, Slot
<1>7. Linked(u)
  <2>1. SUFFICES ASSUME NEW b \in Addr, NEW d \in Atom, Slot(u, b, d)
                 PROVE  /\ ~Void(u[b].entry[d])
                        /\ Child(u, b, d) # Nil => /\ Child(u, b, d) \in DOMAIN u \ {Root}
                                                   /\ DOMAIN u[Child(u, b, d)].entry # {}
    BY DEF Linked
  <2>2. \A x \in Addr, y \in Atom : Slot(t, x, y) /\ Child(t, x, y) # Nil =>
           /\ Child(t, x, y) \in DOMAIN u \ {Root} /\ DOMAIN u[Child(t, x, y)].entry # {}
    BY <1>0, <1>6, SMTT(60) DEF Tree, Linked
  <2>3. CASE b = a /\ d = c
    BY <1>0, <2>3 DEF Grafted, Void, Child
  <2>4. CASE b = n
    <3>1. d \in DOMAIN u[n].entry
      BY <2>1, <2>4 DEF Slot
    <3>2. ~Void(u[n].entry[d]) /\ Child(u, n, d) \in {Nil, Child(t, a, c)}
      BY <3>1, SMTT(60) DEF Grafted
    <3> QED
      BY <1>0, <2>2, <2>4, <3>2
  <2>5. CASE b # n /\ Slot(t, b, d) /\ u[b].entry[d] = t[b].entry[d] /\ ~(b = a /\ d = c)
    BY <2>2, <2>5 DEF Tree, Linked, Child
  <2> QED
    BY <1>1, <2>1, <2>3, <2>4, <2>5
<1>8. OneParent(u)
  <2>1. SUFFICES ASSUME NEW b \in Addr, NEW d \in Atom, NEW x \in Addr, NEW y \in Atom,
                        Slot(u, b, d), Slot(u, x, y), Child(u, b, d) = Child(u, x, y), Child(u, b, d) # Nil
                 PROVE  b = x /\ d = y
    BY DEF OneParent
  <2>2. ASSUME NEW p \in Addr, NEW q \in Atom, Slot(u, p, q), Child(u, p, q) # Nil
        PROVE  \/ p = a /\ q = c /\ Child(u, p, q) = n
               \/ p = n /\ Child(u, p, q) = Child(t, a, c) /\ Child(t, a, c) \in DOMAIN t
               \/ /\ p # n /\ ~(p = a /\ q = c) /\ Slot(t, p, q)
                  /\ Child(u, p, q) = Child(t, p, q) /\ Child(t, p, q) \in DOMAIN t
    <3>1. CASE p = a /\ q = c
      BY <1>0, <3>1
    <3>2. CASE p = n
      <4>1. q \in DOMAIN u[n].entry
        BY <2>2, <3>2 DEF Slot
      <4>2. Child(u, n, q) \in {Nil, Child(t, a, c)}
        BY <4>1 DEF Grafted
      <4> QED
        BY <1>0, <1>3, <2>2, <3>2, <4>2
    <3>3. CASE p # n /\ Slot(t, p, q) /\ u[p].entry[q] = t[p].entry[q] /\ ~(p = a /\ q = c)
      BY <1>3, <2>2, <3>3 DEF Child
    <3> QED
      BY <1>1, <2>2, <3>1, <3>2, <3>3
  <2>3. CASE b = n /\ x = n
    BY <2>1, <2>3 DEF Grafted, Slot
  <2>4. CASE b # n \/ x # n
    BY <1>0, <2>1, <2>2, <2>4 DEF Tree, OneParent
  <2> QED
    BY <2>3, <2>4
<1>9. Rooted(u)
  <2>1. SUFFICES ASSUME NEW b \in DOMAIN t, DOMAIN u[b].entry # {} PROVE Attached(t, b)
    BY <1>0, <1>4, <1>5 DEF Rooted
  <2>2. CASE b = a
    BY <2>2 DEF Grafted
  <2>3. CASE b # a
    BY <1>0, <2>1, <2>3 DEF Grafted, Elsewhere, Tree, Rooted
  <2> QED
    BY <2>2, <2>3
<1>10. Ranked(u)
  <2>1. PICK rank \in [DOMAIN t -> Nat] : Descends(t, rank)
    BY DEF Tree, Ranked
  <2> DEFINE r == [b \in DOMAIN u |-> IF b = n THEN 2 * rank[a] ELSE 2 * rank[b] + 1]
  <2>2. r \in [DOMAIN u -> Nat]
    BY <1>0
  <2>3. Descends(u, r)
    <3>1. SUFFICES ASSUME NEW b \in Addr, NEW d \in Atom, Slot(u, b, d), Child(u, b, d) # Nil
                   PROVE  r[Child(u, b, d)] < r[b]
      BY DEF Descends
    <3>2. \A x \in DOMAIN t : r[x] = 2 * rank[x] + 1 /\ rank[x] \in Nat
      BY <1>0
    <3>3. r[n] = 2 * rank[a]
      BY <1>0
    <3>4. CASE b = a /\ d = c
      <4>1. r[a] = 2 * rank[a] + 1 /\ rank[a] \in Nat
        BY <1>0, <3>2
      <4> QED
        BY <1>0, <3>3, <3>4, <4>1
    <3>5. CASE b = n
      <4>1. Child(u, n, d) = Child(t, a, c)
        BY <3>1, <3>5 DEF Grafted, Slot
      <4>2. Child(t, a, c) \in DOMAIN t /\ rank[Child(t, a, c)] < rank[a]
        BY <1>0, <1>3, <2>1, <3>1, <3>5, <4>1 DEF Descends
      <4>3. r[Child(t, a, c)] = 2 * rank[Child(t, a, c)] + 1 /\ rank[Child(t, a, c)] \in Nat /\ rank[a] \in Nat
        BY <1>0, <3>2, <4>2
      <4>4. PICK m \in Nat, k \in Nat : m = rank[Child(t, a, c)] /\ k = rank[a] /\ m < k
        BY <4>2, <4>3
      <4>5. 2 * m + 1 < 2 * k
        BY <4>4
      <4> HIDE DEF r
      <4> QED
        BY <3>3, <3>5, <4>1, <4>3, <4>4, <4>5
    <3>6. CASE b # n /\ Slot(t, b, d) /\ u[b].entry[d] = t[b].entry[d] /\ ~(b = a /\ d = c)
      <4>1. Child(u, b, d) = Child(t, b, d) /\ b \in DOMAIN t
        BY <3>6 DEF Child, Slot
      <4>2. Child(t, b, d) \in DOMAIN t /\ rank[Child(t, b, d)] < rank[b]
        BY <1>3, <2>1, <3>1, <3>6, <4>1 DEF Descends
      <4> HIDE DEF r
      <4> QED
        BY <3>2, <4>1, <4>2
    <3> HIDE DEF r
    <3> QED
      BY <1>1, <3>1, <3>4, <3>5, <3>6
  <2> HIDE DEF r
  <2> QED
    BY <2>2, <2>3 DEF Ranked
<1>11. Loose(u) = Loose(t)
  BY <1>0, <1>4, <1>5 DEF Loose
<1> QED
  BY <1>0, <1>7, <1>8, <1>9, <1>10, <1>11 DEF Tree

\* A node that nothing refers to changes no tree.
LEMMA LeakKeepsTree ==
  ASSUME NEW t, NEW u, NEW n, Tree(t), n \in Addr \ DOMAIN t, Nodes(u), DOMAIN u = DOMAIN t \cup {n},
         \A b \in DOMAIN t : u[b] = t[b], DOMAIN u[n].entry = {}
  PROVE  Tree(u)
<1>0. Nodes(t) /\ DOMAIN t \in SUBSET Addr /\ \A b \in Addr, d \in Atom : Slot(u, b, d) <=> Slot(t, b, d)
  BY NodeTypes DEF Slot, Tree
<1>1. \A b \in Addr, d \in Atom : Slot(t, b, d) => u[b].entry[d] = t[b].entry[d] /\ Child(u, b, d) = Child(t, b, d)
  BY DEF Slot, Child
<1>2. Linked(u)
  <2>1. \A b \in Addr, d \in Atom : Slot(t, b, d) =>
          /\ ~Void(t[b].entry[d])
          /\ Child(t, b, d) # Nil => /\ Child(t, b, d) \in DOMAIN t \ {Root}
                                     /\ DOMAIN t[Child(t, b, d)].entry # {}
    BY DEF Tree, Linked
  <2> QED
    BY <1>0, <1>1, <2>1 DEF Linked
<1>3. OneParent(u)
  BY <1>0, <1>1 DEF OneParent, Tree
<1>4. Rooted(u)
  <2>1. \A b \in DOMAIN t : DOMAIN t[b].entry # {} => Attached(t, b)
    BY DEF Tree, Rooted
  <2>2. \A b : Attached(t, b) => Attached(u, b)
    BY <1>0, <1>1 DEF Attached
  <2> QED
    BY <2>1, <2>2 DEF Rooted
<1>5. Ranked(u)
  <2>1. PICK rank \in [DOMAIN t -> Nat] : Descends(t, rank)
    BY DEF Tree, Ranked
  <2> DEFINE r == [b \in DOMAIN u |-> IF b = n THEN 0 ELSE rank[b]]
  <2>2. r \in [DOMAIN u -> Nat]
    OBVIOUS
  <2>3. Descends(u, r)
    <3>1. SUFFICES ASSUME NEW b \in Addr, NEW d \in Atom, Slot(u, b, d), Child(u, b, d) # Nil
                   PROVE  r[Child(u, b, d)] < r[b]
      BY DEF Descends
    <3>2. Slot(t, b, d) /\ Child(u, b, d) = Child(t, b, d) /\ b \in DOMAIN t /\ Child(t, b, d) \in DOMAIN t
      BY <1>0, <1>1, <3>1 DEF Tree, Linked, Slot
    <3>3. rank[Child(t, b, d)] < rank[b]
      BY <2>1, <3>1, <3>2 DEF Descends
    <3> QED
      BY <3>2, <3>3
  <2> HIDE DEF r
  <2> QED
    BY <2>2, <2>3 DEF Ranked
<1> QED
  BY <1>2, <1>3, <1>4, <1>5 DEF Tree

-----------------------------------------------------------------------------
(* How far a string leads.                                                 *)

\* Two sequences joined.
LEMMA JoinIs ==
  ASSUME NEW T, NEW x \in Seq(T), NEW y \in Seq(T)
  PROVE  /\ x \o y \in Seq(T) /\ Len(x \o y) = Len(x) + Len(y) /\ Len(x) \in Nat /\ Len(y) \in Nat
         /\ \A n \in 1 .. Len(x) : (x \o y)[n] = x[n]
         /\ \A n \in 1 .. Len(y) : (x \o y)[Len(x) + n] = y[n]
         /\ y # <<>> => Last(x \o y) = Last(y) /\ x \o y # <<>>
BY DEF Last

\* Parts that fit make up the sequence.
LEMMA Parted ==
  ASSUME NEW T, NEW x \in Seq(T), NEW y \in Seq(T), NEW z \in Seq(T), NEW m \in Nat, m <= Len(x),
         Len(y) = m, \A i \in 1 .. m : y[i] = x[i],
         Len(z) = Len(x) - m, \A i \in 1 .. Len(x) - m : z[i] = x[m + i]
  PROVE  y \o z = x
<1>1. /\ y \o z \in Seq(T) /\ Len(y \o z) = Len(y) + Len(z) /\ Len(x) \in Nat
      /\ \A i \in 1 .. Len(y) : (y \o z)[i] = y[i]
      /\ \A i \in 1 .. Len(z) : (y \o z)[Len(y) + i] = z[i]
  <2>1. Len(x) \in Nat
    BY Members
  <2>2. /\ y \o z \in Seq(T) /\ Len(y \o z) = Len(y) + Len(z) /\ Len(y) \in Nat /\ Len(z) \in Nat
        /\ \A i \in 1 .. Len(y) : (y \o z)[i] = y[i]
        /\ \A i \in 1 .. Len(z) : (y \o z)[Len(y) + i] = z[i]
    BY JoinIs, SMTT(60)
  <2> QED
    BY <2>1, <2>2
<1>2. PICK w \in Seq(T) : w = y \o z
  BY <1>1
<1>3. /\ Len(w) = Len(x) /\ (\A i \in 1 .. m : w[i] = x[i])
      /\ \A i \in 1 .. Len(x) - m : w[m + i] = x[m + i]
  BY <1>1, <1>2
<1>4. \A i \in 1 .. Len(x) : w[i] = x[i]
  <2>1. SUFFICES ASSUME NEW i \in 1 .. Len(x) PROVE w[i] = x[i]
    OBVIOUS
  <2>2. CASE i <= m
    BY <1>3, <2>2
  <2>3. CASE i > m
    <3>1. PICK k \in Nat : k = i - m
      BY <2>3
    <3>2. i = m + k /\ k \in 1 .. Len(x) - m
      BY <1>1, <2>3, <3>1
    <3> QED
      BY <1>3, <3>2
  <2> QED
    BY <1>1, <2>2, <2>3
<1> QED
  BY <1>2, <1>3, <1>4, SameSequence

\* A sequence is what it is up to a place, and what it is after.
LEMMA Split ==
  ASSUME NEW T, NEW x \in Seq(T), NEW m \in Nat, m <= Len(x)
  PROVE  /\ SubSeq(x, 1, m) \in Seq(T) /\ SubSeq(x, m + 1, Len(x)) \in Seq(T)
         /\ SubSeq(x, 1, m) \o SubSeq(x, m + 1, Len(x)) = x
         /\ Len(SubSeq(x, m + 1, Len(x))) = Len(x) - m
         /\ m < Len(x) => SubSeq(x, m + 1, Len(x))[1] = x[m + 1]
<1>1. /\ SubSeq(x, 1, m) \in Seq(T) /\ Len(SubSeq(x, 1, m)) = m
      /\ \A i \in 1 .. m : SubSeq(x, 1, m)[i] = x[i]
  BY FirstPart
<1>2. /\ SubSeq(x, m + 1, Len(x)) \in Seq(T) /\ Len(SubSeq(x, m + 1, Len(x))) = Len(x) - m
      /\ \A i \in 1 .. Len(x) - m : SubSeq(x, m + 1, Len(x))[i] = x[m + i]
      /\ Len(x) \in Nat
  OBVIOUS
<1>3. SubSeq(x, 1, m) \o SubSeq(x, m + 1, Len(x)) = x
  <2> DEFINE y == SubSeq(x, 1, m)
             z == SubSeq(x, m + 1, Len(x))
  <2>1. /\ y \in Seq(T) /\ Len(y) = m /\ \A i \in 1 .. m : y[i] = x[i]
        /\ z \in Seq(T) /\ Len(z) = Len(x) - m /\ \A i \in 1 .. Len(x) - m : z[i] = x[m + i]
    BY <1>1, <1>2
  <2> HIDE DEF y, z
  <2>2. y \o z = x
    BY <2>1, Parted, ZenonT(90)
  <2> QED
    BY <2>2 DEF y, z
<1>4. m < Len(x) => SubSeq(x, m + 1, Len(x))[1] = x[m + 1]
  <2>1. m < Len(x) => 1 \in 1 .. Len(x) - m
    BY <1>2
  <2> QED
    BY <1>2, <2>1
<1> QED
  BY <1>1, <1>2, <1>3, <1>4

\* The member at a place and the sequence after it.
LEMMA HeadAndRest ==
  ASSUME NEW T, NEW x \in Seq(T), NEW n \in 1 .. Len(x)
  PROVE  /\ x[n] \in T /\ SubSeq(x, n + 1, Len(x)) \in Seq(T)
         /\ Len(SubSeq(x, n + 1, Len(x))) = Len(x) - n
         /\ <<x[n]>> \o SubSeq(x, n + 1, Len(x)) = SubSeq(x, n, Len(x))
<1>1. /\ x[n] \in T /\ SubSeq(x, n + 1, Len(x)) \in Seq(T)
      /\ Len(SubSeq(x, n + 1, Len(x))) = Len(x) - n
      /\ SubSeq(x, n, Len(x)) \in Seq(T) /\ Len(SubSeq(x, n, Len(x))) = Len(x) - n + 1
  OBVIOUS
<1>2. /\ \A i \in 1 .. Len(x) - n : SubSeq(x, n + 1, Len(x))[i] = x[n + i]
      /\ \A i \in 1 .. Len(x) - n + 1 : SubSeq(x, n, Len(x))[i] = x[n + i - 1]
  BY SMTT(60)
<1>3. PICK y \in Seq(T) : y = SubSeq(x, n + 1, Len(x))
  BY <1>1
<1>4. /\ <<x[n]>> \o y \in Seq(T) /\ Len(<<x[n]>> \o y) = Len(x) - n + 1
      /\ (<<x[n]>> \o y)[1] = x[n] /\ \A i \in 1 .. Len(y) : (<<x[n]>> \o y)[i + 1] = y[i]
  BY <1>1, <1>3
<1>5. \A i \in 1 .. Len(x) - n + 1 : (<<x[n]>> \o y)[i] = SubSeq(x, n, Len(x))[i]
  <2>1. SUFFICES ASSUME NEW i \in 1 .. Len(x) - n + 1 PROVE (<<x[n]>> \o y)[i] = x[n + i - 1]
    BY <1>2
  <2>2. CASE i = 1
    BY <1>4, <2>2
  <2>3. CASE i # 1
    <3>1. i - 1 \in 1 .. Len(y) /\ i - 1 \in 1 .. Len(x) - n
      BY <1>1, <1>3, <2>3
    <3>2. PICK k \in Nat : k = i - 1
      BY <3>1
    <3>3. i = k + 1 /\ n + i - 1 = n + k /\ k \in 1 .. Len(y) /\ k \in 1 .. Len(x) - n
      BY <3>1, <3>2
    <3>4. (<<x[n]>> \o y)[k + 1] = y[k] /\ y[k] = x[n + k]
      BY <1>2, <1>3, <1>4, <3>3
    <3> QED
      BY <3>3, <3>4
  <2> QED
    BY <2>2, <2>3
<1> QED
  BY <1>1, <1>3, <1>4, <1>5, SameSequence, SMTT(60)

\* The rest of the rest of a sequence.
LEMMA RestOfRest ==
  ASSUME NEW T, NEW x \in Seq(T), NEW n \in 1 .. Len(x), NEW m \in Nat, m < Len(x) - n
  PROVE  LET r == SubSeq(x, n + 1, Len(x))
         IN  SubSeq(r, m + 1, Len(r)) = SubSeq(x, n + m + 1, Len(x)) /\ n + m + 1 \in 1 .. Len(x)
OBVIOUS

\* What is left of the string, and what Compare says of it.
Left(rest, at) == SubSeq(rest, at + 1, Len(rest))

Compared(e, rest, at) ==
  /\ at \in Nat /\ at <= Len(e.stem) /\ at <= Len(rest)
  /\ Left(rest, at) \in Seq(Atom) /\ SubSeq(e.stem, 1, at) \in Seq(Atom)
  /\ Len(SubSeq(e.stem, 1, at)) = at /\ SubSeq(e.stem, 1, at) \o Left(rest, at) = rest
  /\ Left(rest, at) # <<>> /\ at < Len(e.stem) => Left(rest, at)[1] # e.stem[at + 1]
  /\ Left(rest, at) # <<>> <=> at < Len(rest)
  /\ Compare(e, rest, at) \in {"string_end", "unequals", "stem_end", "equals"}
  /\ Compare(e, rest, at) = "string_end" =>
       Left(rest, at) = <<>> /\ (at < Len(e.stem) \/ (at = Len(e.stem) /\ e.value = None))
  /\ Compare(e, rest, at) = "unequals" => Left(rest, at) # <<>> /\ at < Len(e.stem)
  /\ Compare(e, rest, at) = "stem_end" => Left(rest, at) # <<>> /\ at = Len(e.stem)
  /\ Compare(e, rest, at) = "equals" => Left(rest, at) = <<>> /\ at = Len(e.stem) /\ e.value # None

\* What the comparison of a stem with a string says of both (Trie::mismatch).
LEMMA CompareIs ==
  ASSUME NEW e \in EntryT, NEW rest \in Seq(Atom)
  PROVE  Compared(e, rest, Shared(e.stem, rest))
<1>1. PICK at : at = Shared(e.stem, rest)
  OBVIOUS
<1>2. PICK stem \in Seq(Atom) : stem = e.stem
  BY EntryTypes
<1>3. /\ at \in Nat /\ at <= Len(stem) /\ at <= Len(rest) /\ Len(stem) \in Nat /\ Len(rest) \in Nat
      /\ \A n \in 1 .. at : stem[n] = rest[n]
      /\ at < Len(stem) /\ at < Len(rest) => stem[at + 1] # rest[at + 1]
  BY <1>1, <1>2, SharedIs, Members
<1>4. /\ SubSeq(rest, 1, at) \in Seq(Atom) /\ Left(rest, at) \in Seq(Atom)
      /\ SubSeq(rest, 1, at) \o Left(rest, at) = rest
      /\ Len(Left(rest, at)) = Len(rest) - at
      /\ at < Len(rest) => Left(rest, at)[1] = rest[at + 1]
  BY <1>3, Split DEF Left
<1>5. SubSeq(stem, 1, at) = SubSeq(rest, 1, at) /\ Len(SubSeq(stem, 1, at)) = at
      /\ SubSeq(stem, 1, at) \in Seq(Atom)
  <2>1. /\ SubSeq(stem, 1, at) \in Seq(Atom) /\ Len(SubSeq(stem, 1, at)) = at
        /\ \A i \in 1 .. at : SubSeq(stem, 1, at)[i] = stem[i]
    BY <1>3, FirstPart
  <2>2. /\ Len(SubSeq(rest, 1, at)) = at
        /\ \A i \in 1 .. at : SubSeq(rest, 1, at)[i] = rest[i]
    BY <1>3, FirstPart
  <2> QED
    BY <1>3, <1>4, <2>1, <2>2, SameSequence
<1>6. Left(rest, at) # <<>> <=> at < Len(rest)
  BY <1>3, <1>4, Members
<1>7. /\ Compare(e, rest, at) \in {"string_end", "unequals", "stem_end", "equals"}
      /\ Compare(e, rest, at) = "string_end" =>
           at = Len(rest) /\ (at < Len(stem) \/ (at = Len(stem) /\ e.value = None))
      /\ Compare(e, rest, at) = "unequals" => at < Len(rest) /\ at < Len(stem)
      /\ Compare(e, rest, at) = "stem_end" => at < Len(rest) /\ at = Len(stem)
      /\ Compare(e, rest, at) = "equals" => at = Len(rest) /\ at = Len(stem) /\ e.value # None
  <2>1. CASE at < Len(stem) /\ at = Len(rest)
    BY <1>2, <1>3, <2>1 DEF Compare
  <2>2. CASE at < Len(stem) /\ at < Len(rest)
    BY <1>2, <1>3, <2>2 DEF Compare
  <2>3. CASE at = Len(stem) /\ at < Len(rest)
    BY <1>2, <1>3, <2>3 DEF Compare
  <2>4. CASE at = Len(stem) /\ at = Len(rest)
    BY <1>2, <1>3, <2>4 DEF Compare
  <2> QED
    BY <1>3, <2>1, <2>2, <2>3, <2>4
<1>8. SubSeq(stem, 1, at) \o Left(rest, at) = rest
  BY <1>4, <1>5
<1>9. Left(rest, at) # <<>> /\ at < Len(stem) => Left(rest, at)[1] # stem[at + 1]
  BY <1>3, <1>4, <1>6
<1>10. Left(rest, at) = <<>> <=> at = Len(rest)
  BY <1>3, <1>6
<1> QED
  BY <1>1, <1>2, <1>3, <1>4, <1>5, <1>6, <1>7, <1>8, <1>9, <1>10 DEF Compared

\* A way down from node a: each position but the last on an entry whose child is
\* the node of the next one.
OnSlot(t, p) == Slot(t, p.addr, p.text[1])
Way(t, a, i) ==
  /\ i \in Seq(PosT) /\ i # <<>> /\ i[1].addr = a
  /\ \A n \in 1 .. Len(i) : i[n].addr \in DOMAIN t /\ i[n].text # <<>>
  /\ \A n \in 1 .. Len(i) - 1 : OnSlot(t, i[n]) /\ Here(t, i[n]).child = i[n + 1].addr

\* A sequence of one member.
LEMMA Single ==
  ASSUME NEW T, NEW x \in T
  PROVE  <<x>> \in Seq(T) /\ Len(<<x>>) = 1 /\ <<x>>[1] = x /\ Last(<<x>>) = x /\ <<x>> # <<>>
         /\ Front(<<x>>) = <<>>
BY DEF Last, Front

\* Ways join when the last entry of the first leads to the node of the second.
LEMMA WayJoin ==
  ASSUME NEW t, NEW a, NEW b, NEW i, NEW j, Way(t, a, i), OnSlot(t, Last(i)),
         Here(t, Last(i)).child = b, Way(t, b, j)
  PROVE  Way(t, a, i \o j) /\ Last(i \o j) = Last(j) /\ Len(i \o j) = Len(i) + Len(j)
<1>1. i \in Seq(PosT) /\ i # <<>> /\ j \in Seq(PosT) /\ j # <<>> /\ i[1].addr = a /\ j[1].addr = b
  BY DEF Way
<1>2. /\ i \o j \in Seq(PosT) /\ Len(i \o j) = Len(i) + Len(j)
      /\ Len(i) \in Nat \ {0} /\ Len(j) \in Nat \ {0}
      /\ \A n \in 1 .. Len(i) : (i \o j)[n] = i[n]
      /\ \A n \in 1 .. Len(j) : (i \o j)[Len(i) + n] = j[n]
      /\ Last(i \o j) = Last(j) /\ i \o j # <<>>
  BY <1>1, JoinIs, Members
<1>3. Last(i) = i[Len(i)]
  BY DEF Last
<1>4. ASSUME NEW n \in 1 .. Len(i) + Len(j)
      PROVE  (i \o j)[n].addr \in DOMAIN t /\ (i \o j)[n].text # <<>>
  <2>1. CASE n \in 1 .. Len(i)
    BY <1>2, <2>1 DEF Way
  <2>2. CASE n \notin 1 .. Len(i)
    <3>1. n - Len(i) \in 1 .. Len(j) /\ n = Len(i) + (n - Len(i))
      BY <1>2, <2>2
    <3> QED
      BY <1>2, <3>1 DEF Way
  <2> QED
    BY <2>1, <2>2
<1>5. ASSUME NEW n \in 1 .. Len(i) + Len(j) - 1
      PROVE  OnSlot(t, (i \o j)[n]) /\ Here(t, (i \o j)[n]).child = (i \o j)[n + 1].addr
  <2>1. CASE n \in 1 .. Len(i) - 1
    <3>1. n \in 1 .. Len(i) /\ n + 1 \in 1 .. Len(i)
      BY <1>2, <2>1
    <3> QED
      BY <1>2, <2>1, <3>1 DEF Way
  <2>2. CASE n = Len(i)
    <3>1. n \in 1 .. Len(i) /\ 1 \in 1 .. Len(j)
      BY <1>2, <2>2
    <3> QED
      BY <1>1, <1>2, <1>3, <2>2, <3>1
  <2>3. CASE n \notin 1 .. Len(i)
    <3>1. n - Len(i) \in 1 .. Len(j) - 1 /\ n - Len(i) \in 1 .. Len(j)
          /\ n - Len(i) + 1 \in 1 .. Len(j) /\ n = Len(i) + (n - Len(i))
          /\ n + 1 = Len(i) + (n - Len(i) + 1)
      BY <1>2, <2>3
    <3>2. PICK k : k = n - Len(i)
      OBVIOUS
    <3> QED
      BY <1>2, <3>1, <3>2 DEF Way
  <2> QED
    BY <1>2, <2>1, <2>2, <2>3
<1>6. (i \o j)[1].addr = a
  BY <1>1, <1>2
<1> QED
  BY <1>2, <1>4, <1>5, <1>6, SMTT(60) DEF Way

\* One position is a way.
LEMMA WayOne ==
  ASSUME NEW t, NEW p \in PosT, p.addr \in DOMAIN t, p.text # <<>>
  PROVE  Way(t, p.addr, <<p>>) /\ Last(<<p>>) = p /\ Len(<<p>>) = 1
<1>1. <<p>> \in Seq(PosT) /\ Len(<<p>>) = 1 /\ <<p>>[1] = p /\ <<p>> # <<>> /\ Last(<<p>>) = p
  BY Single
<1> QED
  BY <1>1 DEF Way

\* An atom put before a text.
LEMMA TextIs ==
  ASSUME NEW T, NEW c \in T, NEW x \in Seq(T)
  PROVE  /\ <<c>> \o x \in Seq(T) /\ <<c>> \o x # <<>> /\ (<<c>> \o x)[1] = c
         /\ Len(<<c>> \o x) = Len(x) + 1 /\ <<c>> \in Seq(T)
OBVIOUS

\* A position made from entry c of node a, with a stem.
PositionIs(t, a, c, stem, p) ==
  /\ p \in PosT /\ p.addr = a /\ p.text = <<c>> \o stem /\ p.text # <<>> /\ p.text[1] = c
  /\ Len(p.text) = Len(stem) + 1 /\ p.version = t[a].version
  /\ p.has_child <=> Child(t, a, c) # Nil
  /\ p.has_data <=> t[a].entry[c].value # None

\* A position made from an entry.
LEMMA Placed ==
  ASSUME NEW t, NEW a, NEW c, NEW stem \in Seq(Atom), Nodes(t), Slot(t, a, c)
  PROVE  PositionIs(t, a, c, stem, Position(t, a, c, stem))
<1>1. /\ a \in Addr /\ c \in Atom /\ t[a].version \in Nat
      /\ <<c>> \o stem \in Seq(Atom) /\ <<c>> \o stem # <<>> /\ (<<c>> \o stem)[1] = c
      /\ Len(<<c>> \o stem) = Len(stem) + 1
  <2>1. a \in Addr /\ c \in Atom /\ t[a].version \in 0 .. VersionMod - 1
    BY NodeTypes DEF Slot
  <2> QED
    BY <2>1, TextIs
<1>2. PICK x, h, d : x = <<c>> \o stem /\ h = (t[a].entry[c].child # Nil) /\ d = (t[a].entry[c].value # None)
  OBVIOUS
<1>3. h \in BOOLEAN /\ d \in BOOLEAN
  BY <1>2
<1>4. Position(t, a, c, stem) = [addr |-> a, text |-> x, version |-> t[a].version, has_child |-> h, has_data |-> d]
  BY <1>2 DEF Position
<1>5. Position(t, a, c, stem) \in PosT
  BY <1>1, <1>2, <1>3, <1>4 DEF PosT
<1>6. /\ Position(t, a, c, stem).has_child = h /\ Position(t, a, c, stem).has_data = d
      /\ Position(t, a, c, stem).addr = a /\ Position(t, a, c, stem).text = x
      /\ Position(t, a, c, stem).version = t[a].version
  BY <1>4
<1>7. h <=> Child(t, a, c) # Nil
  BY <1>2 DEF Child
<1>8. d <=> t[a].entry[c].value # None
  BY <1>2
<1>9. PICK p : p = Position(t, a, c, stem)
  OBVIOUS
<1>10. p \in PosT /\ p.has_child = h /\ p.has_data = d /\ p.addr = a /\ p.text = x /\ p.version = t[a].version
  BY <1>5, <1>6, <1>9
<1>11. PositionIs(t, a, c, stem, p)
  BY <1>1, <1>2, <1>7, <1>8, <1>10, Zenon DEF PositionIs
<1> QED
  BY <1>9, <1>11

\* The types of what mismatch returns.
ResultT == {"no_entry", "string_end", "unequals", "stem_end", "equals"}
MismatchT == [result : ResultT, rest : Seq(Atom), path : Seq(PosT)]

\* Texts join in any order.
LEMMA TextJoins ==
  ASSUME NEW x \in Seq(Atom), NEW y \in Seq(Atom), NEW z \in Seq(Atom)
  PROVE  (x \o y) \o z = x \o (y \o z)
BY Associative, SMTT(60)

\* The parts of a string, joined in another order.
LEMMA TextStitch ==
  ASSUME NEW h \in Seq(Atom), NEW stem \in Seq(Atom), NEW k \in Seq(Atom), NEW r \in Seq(Atom)
  PROVE  ((h \o stem) \o k) \o r = h \o (stem \o (k \o r))
<1>1. PICK x \in Seq(Atom) : x = h \o stem
  BY Joined
<1>2. PICK y \in Seq(Atom) : y = k \o r
  BY Joined
<1>3. (x \o k) \o r = x \o y
  BY <1>2, TextJoins, ZenonT(90)
<1>4. (h \o stem) \o y = h \o (stem \o y)
  BY TextJoins, ZenonT(90)
<1> QED
  BY <1>1, <1>2, <1>3, <1>4

\* What the result of a mismatch says of the position it ends on.
Outcome(t, m) ==
  LET p  == Last(m.path)
      e  == Here(t, p)
      at == Len(p.text) - 1
  IN  /\ m.result = "no_entry" => ~OnSlot(t, p) /\ at = 0 /\ ~p.has_child /\ ~p.has_data
      /\ m.result # "no_entry" => /\ OnSlot(t, p) /\ at \in 0 .. Len(e.stem)
                                  /\ p.has_child <=> e.child # Nil
                                  /\ p.has_data <=> e.value # None
      /\ m.result = "string_end" => /\ m.rest = <<>>
                                    /\ at < Len(e.stem) \/ (at = Len(e.stem) /\ e.value = None)
      /\ m.result = "unequals" => m.rest # <<>> /\ at < Len(e.stem) /\ m.rest[1] # e.stem[at + 1]
      /\ m.result = "stem_end" => m.rest # <<>> /\ at = Len(e.stem) /\ e.child = Nil
      /\ m.result = "equals" => m.rest = <<>> /\ at = Len(e.stem) /\ e.value # None

\* A way from node a and what is left of the string x.
Led(t, a, x, m) ==
  /\ m \in MismatchT /\ Way(t, a, m.path) /\ Outcome(t, m)
  /\ KeyAt(m.path) \o m.rest = x

\* The outcome when the node has no entry for the atom.
Missing(t, b, c, rest) ==
  [result |-> "no_entry", rest |-> rest,
   path |-> <<[addr |-> b, text |-> <<c>>, version |-> t[b].version, has_child |-> FALSE, has_data |-> FALSE]>>]

\* The key of one position.
LEMMA KeyOne ==
  ASSUME NEW p \in PosT
  PROVE  KeyAt(<<p>>) = p.text /\ <<p>> \in Seq(PosT)
<1>1. <<>> \in Seq(PosT) /\ Append(<<>>, p) = <<p>> /\ p.text \in Seq(Atom)
  BY DEF PosT
<1>2. KeyAt(Append(<<>>, p)) = KeyAt(<<>>) \o p.text /\ KeyAt(<<>>) = <<>>
  BY <1>1, KeyGrows
<1> QED
  BY <1>1, <1>2, SMTT(60)

\* The node has no entry for the next atom.
LEMMA MissingLeads ==
  ASSUME NEW t, NEW b \in DOMAIN t, NEW c \in Atom, NEW rest \in Seq(Atom), Nodes(t), ~Slot(t, b, c)
  PROVE  Led(t, b, <<c>> \o rest, Missing(t, b, c, rest))
<1>1. PICK p : p = [addr |-> b, text |-> <<c>>, version |-> t[b].version, has_child |-> FALSE, has_data |-> FALSE]
  OBVIOUS
<1>2. /\ b \in Addr /\ t[b].version \in Nat /\ <<c>> \in Seq(Atom) /\ <<c>> # <<>> /\ <<c>>[1] = c /\ Len(<<c>>) = 1
  <2>1. b \in Addr /\ t[b].version \in 0 .. VersionMod - 1
    BY NodeTypes
  <2> QED
    BY <2>1
<1>3. p \in PosT /\ p.addr = b /\ p.text = <<c>> /\ p.has_child = FALSE /\ p.has_data = FALSE
  BY <1>1, <1>2 DEF PosT
<1>4. PICK m : m = Missing(t, b, c, rest)
  OBVIOUS
<1>5. m = [result |-> "no_entry", rest |-> rest, path |-> <<p>>]
  BY <1>1, <1>4 DEF Missing
<1>6. KeyAt(<<p>>) = p.text /\ <<p>> \in Seq(PosT)
  BY <1>3, KeyOne
<1>7. m \in MismatchT /\ m.path = <<p>> /\ m.rest = rest /\ m.result = "no_entry"
  BY <1>5, <1>6 DEF MismatchT, ResultT
<1>8. Way(t, b, <<p>>) /\ Last(<<p>>) = p
  BY <1>2, <1>3, WayOne, Zenon
<1>9. Outcome(t, m)
  BY <1>2, <1>3, <1>7, <1>8 DEF Outcome, OnSlot
<1> QED
  BY <1>3, <1>4, <1>6, <1>7, <1>8, <1>9 DEF Led

\* The string ends, or the entry leads no further.
LEMMA MetLeads ==
  ASSUME NEW t, NEW b, NEW c, NEW rest \in Seq(Atom), NEW at, NEW p, Nodes(t), Slot(t, b, c),
         at = Shared(t[b].entry[c].stem, rest),
         p = Position(t, b, c, SubSeq(t[b].entry[c].stem, 1, at)),
         ~(Compare(t[b].entry[c], rest, at) = "stem_end" /\ Child(t, b, c) # Nil)
  PROVE  Led(t, b, <<c>> \o rest, [result |-> Compare(t[b].entry[c], rest, at),
                                   rest |-> Left(rest, at), path |-> <<p>>])
<1>1. PICK e : e = t[b].entry[c]
  OBVIOUS
<1>2. e \in EntryT /\ b \in DOMAIN t /\ c \in Atom
  BY <1>1, NodeTypes DEF Slot
<1>3. Compared(e, rest, at)
  BY <1>1, <1>2, CompareIs
<1>4. PICK stem : stem = SubSeq(e.stem, 1, at)
  OBVIOUS
<1>5. stem \in Seq(Atom) /\ Len(stem) = at /\ at \in Nat /\ at <= Len(e.stem) /\ stem \o Left(rest, at) = rest
      /\ Left(rest, at) \in Seq(Atom)
  BY <1>3, <1>4, ZenonT(40) DEF Compared
<1>6. PositionIs(t, b, c, stem, p)
  BY <1>1, <1>4, <1>5, Placed, ZenonT(40)
<1>7. /\ p \in PosT /\ p.addr = b /\ p.text # <<>> /\ p.text[1] = c /\ p.text = <<c>> \o stem
      /\ Len(p.text) = at + 1
      /\ p.has_child <=> e.child # Nil
      /\ p.has_data <=> e.value # None
  BY <1>1, <1>5, <1>6, Zenon DEF PositionIs, Child
<1>8. PICK cmp, left : cmp = Compare(e, rest, at) /\ left = Left(rest, at)
  OBVIOUS
<1>9. PICK m : m = [result |-> cmp, rest |-> left, path |-> <<p>>]
  OBVIOUS
<1>10. KeyAt(<<p>>) = p.text /\ <<p>> \in Seq(PosT) /\ Way(t, b, <<p>>) /\ Last(<<p>>) = p
  BY <1>2, <1>7, KeyOne, WayOne, ZenonT(90)
<1>11. cmp \in ResultT /\ cmp # "no_entry"
  BY <1>3, <1>8, ZenonT(40) DEF Compared, ResultT
<1>12. m \in MismatchT /\ m.path = <<p>> /\ m.rest = left /\ m.result = cmp
  BY <1>5, <1>8, <1>9, <1>10, <1>11 DEF MismatchT
<1>13. OnSlot(t, p) /\ Here(t, p) = e /\ Len(p.text) - 1 = at
  <2>1. OnSlot(t, p) /\ Here(t, p) = e
    BY <1>1, <1>7, ZenonT(40) DEF OnSlot, Here
  <2>2. Len(p.text) = at + 1 /\ at \in Nat
    BY <1>5, <1>7, Zenon
  <2>3. Len(p.text) - 1 = at
    BY <2>2
  <2> QED
    BY <2>1, <2>3, Zenon
<1>14. Outcome(t, m)
  <2>1. Last(m.path) = p /\ Here(t, p) = e /\ Len(p.text) - 1 = at /\ m.rest = left /\ m.result = cmp
    BY <1>10, <1>12, <1>13, SMTT(60)
  <2>2. at \in 0 .. Len(e.stem)
    <3>1. Len(e.stem) \in Nat
      BY <1>2, EntryTypes, Members, Zenon
    <3> QED
      BY <1>5, <3>1
  <2>3. /\ cmp = "string_end" => left = <<>> /\ (at < Len(e.stem) \/ (at = Len(e.stem) /\ e.value = None))
        /\ cmp = "unequals" => left # <<>> /\ at < Len(e.stem) /\ left[1] # e.stem[at + 1]
        /\ cmp = "stem_end" => left # <<>> /\ at = Len(e.stem) /\ e.child = Nil
        /\ cmp = "equals" => left = <<>> /\ at = Len(e.stem) /\ e.value # None
    BY <1>1, <1>3, <1>8, ZenonT(40) DEF Compared, Child
  <2> QED
    BY <1>7, <1>11, <1>13, <2>1, <2>2, <2>3, ZenonT(90) DEF Outcome
<1>15. (<<c>> \o stem) \o left = <<c>> \o rest
  <2>1. <<c>> \in Seq(Atom)
    BY <1>2, Single, ZenonT(90)
  <2>2. (<<c>> \o stem) \o Left(rest, at) = <<c>> \o (stem \o Left(rest, at))
    BY <1>5, <2>1, TextJoins
  <2> QED
    BY <1>5, <1>8, <2>2, Zenon
<1> QED
  BY <1>1, <1>7, <1>8, <1>9, <1>10, <1>12, <1>14, <1>15, ZenonT(90) DEF Led

\* The entry leads on: what the node below makes of the string.
Onward(p, d) == [d EXCEPT !.path = <<p>> \o @]

\* What is put before the path of a mismatch.
LEMMA OnwardType ==
  ASSUME NEW p \in PosT, NEW d \in MismatchT
  PROVE  /\ Onward(p, d) \in MismatchT /\ Onward(p, d).path = <<p>> \o d.path
         /\ Onward(p, d).rest = d.rest /\ Onward(p, d).result = d.result
<1>1. d.path \in Seq(PosT) /\ <<p>> \o d.path \in Seq(PosT)
  <2>1. d.path \in Seq(PosT)
    BY DEF MismatchT
  <2> QED
    BY <2>1, KeyFront
<1>2. PICK y : y = <<p>> \o d.path
  BY Zenon
<1>3. Onward(p, d) = [d EXCEPT !.path = y]
  BY <1>2 DEF Onward
<1> QED
  BY <1>1, <1>2, <1>3 DEF MismatchT

\* The mismatch of a string, from that of what is left of it at the next node.
LEMMA OnwardLeads ==
  ASSUME NEW t, NEW b, NEW c, NEW rest \in Seq(Atom), NEW at, NEW p, NEW d, Nodes(t), Slot(t, b, c),
         at = Shared(t[b].entry[c].stem, rest),
         p = Position(t, b, c, SubSeq(t[b].entry[c].stem, 1, at)),
         Led(t, Child(t, b, c), Left(rest, at), d)
  PROVE  Led(t, b, <<c>> \o rest, Onward(p, d))
<1>1. PICK e : e = t[b].entry[c]
  OBVIOUS
<1>2. e \in EntryT /\ b \in DOMAIN t /\ c \in Atom
  BY <1>1, NodeTypes DEF Slot
<1>3. Compared(e, rest, at)
  BY <1>1, <1>2, CompareIs
<1>4. PICK stem : stem = SubSeq(e.stem, 1, at)
  BY ZenonT(40)
<1>5. stem \in Seq(Atom) /\ stem \o Left(rest, at) = rest /\ Left(rest, at) \in Seq(Atom)
  BY <1>3, <1>4, Zenon DEF Compared
<1>6. /\ p \in PosT /\ p.addr = b /\ p.text # <<>> /\ p.text[1] = c /\ p.text = <<c>> \o stem
  <2>1. PositionIs(t, b, c, stem, p)
    BY <1>1, <1>4, <1>5, Placed
  <2> QED
    BY <2>1, ZenonT(90) DEF PositionIs
<1>7. d \in MismatchT /\ Way(t, Child(t, b, c), d.path) /\ Outcome(t, d) /\ KeyAt(d.path) \o d.rest = Left(rest, at)
      /\ d.path \in Seq(PosT) /\ d.rest \in Seq(Atom)
  BY DEF Led, MismatchT
<1>8. /\ Onward(p, d) \in MismatchT /\ Onward(p, d).path = <<p>> \o d.path
      /\ Onward(p, d).rest = d.rest /\ Onward(p, d).result = d.result
  BY <1>6, <1>7, OnwardType, Zenon
<1>9. Way(t, b, <<p>> \o d.path) /\ Last(<<p>> \o d.path) = Last(d.path)
  <2>1. Way(t, b, <<p>>) /\ Last(<<p>>) = p
    BY <1>2, <1>6, WayOne, Zenon
  <2>2. OnSlot(t, p) /\ Here(t, p).child = Child(t, b, c)
    BY <1>6, ZenonT(90) DEF OnSlot, Here, Child
  <2>3. OnSlot(t, Last(<<p>>)) /\ Here(t, Last(<<p>>)).child = Child(t, b, c)
    BY <2>1, <2>2
  <2>4. PICK i : i = <<p>>
    OBVIOUS
  <2>5. Way(t, b, i) /\ OnSlot(t, Last(i)) /\ Here(t, Last(i)).child = Child(t, b, c)
    BY <2>1, <2>3, <2>4
  <2>6. Way(t, b, i \o d.path) /\ Last(i \o d.path) = Last(d.path) /\ Len(i \o d.path) = Len(i) + Len(d.path)
    <3>1. PICK j, x : j = d.path /\ x = Child(t, b, c)
      BY SMTT(60)
    <3>2. Way(t, x, j) /\ Way(t, b, i) /\ OnSlot(t, Last(i)) /\ Here(t, Last(i)).child = x
      BY <1>7, <2>5, <3>1
    <3>3. Way(t, b, i \o j) /\ Last(i \o j) = Last(j) /\ Len(i \o j) = Len(i) + Len(j)
      BY <3>2, WayJoin
    <3> QED
      BY <3>1, <3>3
  <2> QED
    BY <2>4, <2>6
<1>10. Outcome(t, Onward(p, d))
  BY <1>7, <1>8, <1>9, ZenonT(40) DEF Outcome
<1>11. KeyAt(<<p>> \o d.path) \o d.rest = <<c>> \o rest
  <2>1. KeyAt(<<p>> \o d.path) = p.text \o KeyAt(d.path) /\ KeyAt(d.path) \in Seq(Atom)
    BY <1>6, <1>7, KeyFront, KeyGrows, Zenon
  <2>2. p.text \in Seq(Atom) /\ <<c>> \in Seq(Atom)
    <3>1. p.text \in Seq(Atom)
      BY <1>6, Zenon DEF PosT
    <3> QED
      BY <1>2, <3>1, Single, Zenon
  <2>3. PICK h, k, r : h = <<c>> /\ k = KeyAt(d.path) /\ r = d.rest
    BY Zenon
  <2>4. h \in Seq(Atom) /\ k \in Seq(Atom) /\ r \in Seq(Atom)
    BY <1>7, <2>1, <2>2, <2>3, Zenon
  <2>5. ((h \o stem) \o k) \o r = h \o (stem \o (k \o r))
    <3>1. stem \in Seq(Atom)
      BY <1>5
    <3>2. PICK hs : hs = h \o stem
      OBVIOUS
    <3>3. PICK kr : kr = k \o r
      OBVIOUS
    <3>4. hs \in Seq(Atom) /\ kr \in Seq(Atom)
      BY <2>4, <3>1, <3>2, <3>3, Joined
    <3>5. (hs \o k) \o r = hs \o (k \o r)
      BY <2>4, <3>4, TextJoins, ZenonT(90)
    <3>6. (h \o stem) \o kr = h \o (stem \o kr)
      <4>1. h \in Seq(Atom)
        BY <2>4
      <4>2. kr \in Seq(Atom)
        BY <3>4, Zenon
      <4> QED
        BY <3>1, <4>1, <4>2, TextJoins
    <3> QED
      BY <3>2, <3>3, <3>5, <3>6, SMTT(60)
  <2> QED
    BY <1>5, <1>6, <1>7, <2>1, <2>3, <2>5, Zenon
<1> QED
  BY <1>8, <1>9, <1>10, <1>11, Zenon DEF Led

\* What the nodes make of s, when f is what the nodes below make of it.
Deeper(t, s, f) ==
  [b \in DOMAIN t |-> [n \in 1..Len(s) |->
            LET rest == SubSeq(s, n + 1, Len(s))
                e    == t[b].entry[s[n]]
                at   == Shared(e.stem, rest)
                cmp  == Compare(e, rest, at)
                p    == Position(t, b, s[n], SubSeq(e.stem, 1, at))
                deep == f[e.child][n + at + 1]
            IN  IF s[n] \notin DOMAIN t[b].entry
                THEN [result |-> "no_entry", rest |-> rest,
                      path |-> <<[addr |-> b, text |-> <<s[n]>>, version |-> t[b].version,
                                  has_child |-> FALSE, has_data |-> FALSE]>>]
                ELSE IF cmp = "stem_end" /\ e.child # Nil
                THEN [deep EXCEPT !.path = <<p>> \o @]
                ELSE [result |-> cmp, rest |-> SubSeq(rest, at + 1, Len(rest)),
                      path |-> <<p>>]]]

\* The same, the parts named: r is the outcome of the string from its n-th atom on.
Goes(t, s, f, b, n, r) ==
  LET rest == SubSeq(s, n + 1, Len(s))
      e    == t[b].entry[s[n]]
      at   == Shared(e.stem, rest)
      p    == Position(t, b, s[n], SubSeq(e.stem, 1, at))
  IN  \/ ~Slot(t, b, s[n]) /\ r = Missing(t, b, s[n], rest)
      \/ /\ Slot(t, b, s[n]) /\ Compare(e, rest, at) = "stem_end" /\ Child(t, b, s[n]) # Nil
         /\ r = Onward(p, f[Child(t, b, s[n])][n + at + 1])
      \/ /\ Slot(t, b, s[n]) /\ ~(Compare(e, rest, at) = "stem_end" /\ Child(t, b, s[n]) # Nil)
         /\ r = [result |-> Compare(e, rest, at), rest |-> Left(rest, at), path |-> <<p>>]

\* One step of the recursion goes one of three ways.
LEMMA DeeperGoes ==
  ASSUME NEW t, NEW s, NEW f, NEW b \in DOMAIN t, NEW n \in 1 .. Len(s)
  PROVE  Goes(t, s, f, b, n, Deeper(t, s, f)[b][n])
BY ZenonT(40) DEF Goes, Deeper, Missing, Onward, Left, Slot, Child

\* The recursion is a function of the node and of the place in the string.
LEMMA DeeperShape ==
  ASSUME NEW t, NEW s, NEW f
  PROVE  /\ Deeper(t, s, f) = [b \in DOMAIN t |-> Deeper(t, s, f)[b]]
         /\ \A b \in DOMAIN t : Deeper(t, s, f)[b] = [n \in 1 .. Len(s) |-> Deeper(t, s, f)[b][n]]
BY ZenonT(90) DEF Deeper

\* Mismatch is the least solution of the recursion.
LEMMA MismatchIs ==
  ASSUME NEW t, NEW a, NEW s
  PROVE  Mismatch(t, a, s) = (CHOOSE f : f = Deeper(t, s, f))[a][1]
BY DEF Mismatch, Deeper

\* One step of the way.
LEMMA GoesOn ==
  ASSUME NEW t, NEW s \in Seq(Atom), NEW f, NEW b \in DOMAIN t, NEW n \in 1 .. Len(s), NEW r,
         Nodes(t), Linked(t), Goes(t, s, f, b, n, r)
  PROVE  /\ (\A a \in DOMAIN t, k \in 1 .. Len(s) : f[a][k] \in MismatchT) => r \in MismatchT
         /\ (Slot(t, b, s[n]) /\ Child(t, b, s[n]) # Nil =>
              \A k \in 1 .. Len(s) : Led(t, Child(t, b, s[n]), SubSeq(s, k, Len(s)), f[Child(t, b, s[n])][k]))
            => Led(t, b, SubSeq(s, n, Len(s)), r)
         /\ \A g, q : /\ Goes(t, s, g, b, n, q)
                      /\ Slot(t, b, s[n]) /\ Child(t, b, s[n]) # Nil =>
                           \A k \in 1 .. Len(s) : f[Child(t, b, s[n])][k] = g[Child(t, b, s[n])][k]
                      => q = r
<1> DEFINE rest == SubSeq(s, n + 1, Len(s))
           e    == t[b].entry[s[n]]
           at   == Shared(e.stem, rest)
           p    == Position(t, b, s[n], SubSeq(e.stem, 1, at))
           x    == Child(t, b, s[n])
<1>1. /\ s[n] \in Atom /\ rest \in Seq(Atom) /\ Len(rest) = Len(s) - n
      /\ <<s[n]>> \o rest = SubSeq(s, n, Len(s)) /\ Len(s) \in Nat
  BY HeadAndRest, Members
<1>2. CASE ~Slot(t, b, s[n])
  <2>1. r = Missing(t, b, s[n], rest)
    BY <1>2 DEF Goes
  <2>2. Led(t, b, <<s[n]>> \o rest, r)
    <3> HIDE DEF rest
    <3> QED
      BY <1>1, <1>2, <2>1, MissingLeads
  <2>3. r \in MismatchT
    BY <2>2 DEF Led
  <2>4. ASSUME NEW g, NEW q, Goes(t, s, g, b, n, q) PROVE q = r
    BY <1>2, <2>1, <2>4 DEF Goes
  <2> HIDE DEF rest, x
  <2> QED
    BY <1>1, <1>2, <2>2, <2>3, <2>4
<1>3. CASE Slot(t, b, s[n]) /\ ~(Compare(e, rest, at) = "stem_end" /\ x # Nil)
  <2>1. r = [result |-> Compare(e, rest, at), rest |-> Left(rest, at), path |-> <<p>>]
    BY <1>3 DEF Goes
  <2>2. Led(t, b, <<s[n]>> \o rest, r)
    <3>1. PICK rr, aa, pp : rr = rest /\ aa = at /\ pp = p
      OBVIOUS
    <3>2. /\ aa = Shared(t[b].entry[s[n]].stem, rr) /\ rr \in Seq(Atom)
          /\ pp = Position(t, b, s[n], SubSeq(t[b].entry[s[n]].stem, 1, aa))
          /\ ~(Compare(t[b].entry[s[n]], rr, aa) = "stem_end" /\ Child(t, b, s[n]) # Nil)
          /\ r = [result |-> Compare(t[b].entry[s[n]], rr, aa), rest |-> Left(rr, aa), path |-> <<pp>>]
      BY <1>1, <1>3, <2>1, <3>1
    <3> HIDE DEF rest, e, at, p, x
    <3>3. Led(t, b, <<s[n]>> \o rr, [result |-> Compare(t[b].entry[s[n]], rr, aa),
                                   rest |-> Left(rr, aa), path |-> <<pp>>])
      BY <1>3, <3>2, MetLeads
    <3> QED
      BY <3>1, <3>2, <3>3
  <2>3. r \in MismatchT
    BY <2>2 DEF Led
  <2>4. ASSUME NEW g, NEW q, Goes(t, s, g, b, n, q) PROVE q = r
    BY <1>3, <2>1, <2>4 DEF Goes
  <2> HIDE DEF rest, x
  <2> QED
    BY <1>1, <2>2, <2>3, <2>4
<1>4. CASE Slot(t, b, s[n]) /\ Compare(e, rest, at) = "stem_end" /\ x # Nil
  <2>1. r = Onward(p, f[x][n + at + 1])
    BY <1>4 DEF Goes
  <2>2. e \in EntryT /\ x \in DOMAIN t
    <3>1. b \in Addr
      BY NodeTypes
    <3> QED
      BY <1>1, <1>4, <3>1, NodeTypes DEF Linked
  <2>3. Compared(e, rest, at)
    <3>1. \A y : y = rest => y \in Seq(Atom)
      BY <1>1
    <3> HIDE DEF rest, e
    <3>2. Compared(e, rest, Shared(e.stem, rest))
      BY <2>2, <3>1, CompareIs
    <3> QED
      BY <3>2
  <2>4. at \in Nat /\ at < Len(rest) /\ Left(rest, at) \in Seq(Atom) /\ SubSeq(e.stem, 1, at) \in Seq(Atom)
    <3> HIDE DEF rest, e, at, x
    <3> QED
      BY <1>4, <2>3 DEF Compared
  <2>5. n + at + 1 \in 1 .. Len(s) /\ Left(rest, at) = SubSeq(s, n + at + 1, Len(s))
    <3>1. PICK k : k = at
      OBVIOUS
    <3>2. k \in Nat /\ k < Len(s) - n
      <4> HIDE DEF at, rest
      <4> QED
        BY <1>1, <2>4, <3>1
    <3>3. /\ SubSeq(SubSeq(s, n + 1, Len(s)), k + 1, Len(SubSeq(s, n + 1, Len(s)))) = SubSeq(s, n + k + 1, Len(s))
          /\ n + k + 1 \in 1 .. Len(s)
      BY <3>2, RestOfRest, SMTT(60)
    <3> HIDE DEF at
    <3> QED
      BY <3>1, <3>3 DEF Left
  <2>6. p \in PosT
    <3>1. PositionIs(t, b, s[n], SubSeq(e.stem, 1, at), p)
      <4>1. PICK y : y = SubSeq(e.stem, 1, at)
        OBVIOUS
      <4>2. y \in Seq(Atom)
        <5> HIDE DEF e, at, rest
        <5> QED
          BY <2>4, <4>1
      <4>3. PositionIs(t, b, s[n], y, Position(t, b, s[n], y))
        BY <1>4, <4>2, Placed
      <4> QED
        BY <4>1, <4>3
    <3> HIDE DEF p
    <3> QED
      BY <3>1 DEF PositionIs
  <2>7. (\A a \in DOMAIN t, k \in 1 .. Len(s) : f[a][k] \in MismatchT) => r \in MismatchT
    <3> HIDE DEF p, x, at, e, rest
    <3> QED
      BY <2>1, <2>2, <2>5, <2>6, OnwardType
  <2>8. ASSUME \A k \in 1 .. Len(s) : Led(t, x, SubSeq(s, k, Len(s)), f[x][k])
        PROVE  Led(t, b, SubSeq(s, n, Len(s)), r)
    <3>1. PICK d : d = f[x][n + at + 1]
      OBVIOUS
    <3>2. Led(t, x, Left(rest, at), d)
      <4> HIDE DEF p, x, at, e, rest
      <4> QED
        BY <2>5, <2>8, <3>1
    <3>3. PICK rr, aa, pp : rr = rest /\ aa = at /\ pp = p
      OBVIOUS
    <3>4. /\ aa = Shared(t[b].entry[s[n]].stem, rr) /\ rr \in Seq(Atom)
          /\ pp = Position(t, b, s[n], SubSeq(t[b].entry[s[n]].stem, 1, aa))
          /\ Led(t, Child(t, b, s[n]), Left(rr, aa), d)
      BY <1>1, <3>2, <3>3
    <3> HIDE DEF rest, e, at, p, x
    <3>5. Led(t, b, <<s[n]>> \o rr, Onward(pp, d))
      BY <1>4, <3>4, OnwardLeads
    <3> QED
      BY <1>1, <2>1, <3>1, <3>3, <3>5
  <2>9. ASSUME NEW g, NEW q, Goes(t, s, g, b, n, q), \A k \in 1 .. Len(s) : f[x][k] = g[x][k]
        PROVE  q = r
    <3>1. q = Onward(p, g[x][n + at + 1])
      BY <1>4, <2>9 DEF Goes
    <3> HIDE DEF rest, e, at, p, x
    <3> QED
      BY <2>1, <2>5, <2>9, <3>1
  <2> HIDE DEF rest, e, at, p
  <2> QED
    BY <1>4, <2>7, <2>8, <2>9
<1> QED
  BY <1>2, <1>3, <1>4

Solves(t, s, f) ==
  \A b \in DOMAIN t, n \in 1 .. Len(s) : Goes(t, s, f, b, n, f[b][n]) /\ Led(t, b, SubSeq(s, n, Len(s)), f[b][n])

\* mismatch is its recursion's solution.
LEMMA MismatchSolved ==
  ASSUME NEW t, NEW s \in Seq(Atom) \ {<<>>}, Tree(t)
  PROVE  \E f : Solves(t, s, f) /\ \A a : Mismatch(t, a, s) = f[a][1]
<1> DEFINE N == 1 .. Len(s)
           D == DOMAIN t
           V == [N -> MismatchT]
           H == [f \in [D -> V] |-> Deeper(t, s, f)]
<1>0. Nodes(t) /\ Linked(t) /\ Len(s) \in Nat \ {0} /\ 1 \in N /\ s \in Seq(Atom)
  BY Members DEF Tree
<1>1. PICK rank \in [D -> Nat] : Descends(t, rank)
  BY DEF Tree, Ranked
<1>2. ASSUME NEW b \in D, NEW n \in N, Slot(t, b, s[n]), Child(t, b, s[n]) # Nil
      PROVE  Child(t, b, s[n]) \in D /\ rank[Child(t, b, s[n])] < rank[b]
  <2>1. b \in Addr /\ s[n] \in Atom
    BY <1>0, <1>2, NodeTypes DEF Slot
  <2> QED
    BY <1>0, <1>1, <1>2, <2>1 DEF Linked, Descends
<1>3. \A f \in [D -> V] : Deeper(t, s, f) \in [D -> V]
  <2>1. SUFFICES ASSUME NEW f \in [D -> V] PROVE Deeper(t, s, f) \in [D -> V]
    OBVIOUS
  <2>2. \A x \in D, k \in N : f[x][k] \in MismatchT
    OBVIOUS
  <2>3. ASSUME NEW b \in D, NEW n \in N PROVE Deeper(t, s, f)[b][n] \in MismatchT
    <3>1. Goes(t, s, f, b, n, Deeper(t, s, f)[b][n])
      BY DeeperGoes
    <3> QED
      BY <1>0, <2>2, <3>1, GoesOn
  <2>4. /\ Deeper(t, s, f) = [b \in D |-> Deeper(t, s, f)[b]]
        /\ \A b \in D : Deeper(t, s, f)[b] = [n \in N |-> Deeper(t, s, f)[b][n]]
    BY DeeperShape
  <2>5. \A b \in D : Deeper(t, s, f)[b] \in V
    <3> HIDE DEF N
    <3> QED
      BY <2>3, <2>4
  <2> HIDE DEF V, D, N
  <2> QED
    BY <2>4, <2>5
<1>4. Upward(D, V, rank, H)
  <2>1. ASSUME NEW f \in [D -> V], NEW g \in [D -> V], NEW b \in D,
               \A c \in D : rank[c] < rank[b] => f[c] = g[c]
        PROVE  H[f][b] = H[g][b]
    <3>1. H[f] = Deeper(t, s, f) /\ H[g] = Deeper(t, s, g)
      OBVIOUS
    <3>2. ASSUME NEW n \in N PROVE Deeper(t, s, g)[b][n] = Deeper(t, s, f)[b][n]
      <4>1. Goes(t, s, f, b, n, Deeper(t, s, f)[b][n]) /\ Goes(t, s, g, b, n, Deeper(t, s, g)[b][n])
        BY DeeperGoes
      <4>2. Slot(t, b, s[n]) /\ Child(t, b, s[n]) # Nil =>
               \A k \in N : f[Child(t, b, s[n])][k] = g[Child(t, b, s[n])][k]
        BY <1>2, <2>1
      <4> HIDE DEF H, V
      <4> QED
        BY <1>0, <4>1, <4>2, GoesOn
    <3>3. Deeper(t, s, f)[b] = [n \in N |-> Deeper(t, s, f)[b][n]]
          /\ Deeper(t, s, g)[b] = [n \in N |-> Deeper(t, s, g)[b][n]]
      BY DeeperShape
    <3>4. [n \in N |-> Deeper(t, s, f)[b][n]] = [n \in N |-> Deeper(t, s, g)[b][n]]
      BY <3>2
    <3> HIDE DEF H, V, N
    <3> QED
      BY <3>1, <3>3, <3>4
  <2> HIDE DEF H, D, V
  <2> QED
    BY <2>1 DEF Upward
<1>5. \E f \in [D -> V] : f = Deeper(t, s, f)
  <2>1. V # {}
    <3>1. \E y : y \in MismatchT
      <4>1. [result |-> "equals", rest |-> <<>>, path |-> <<>>] \in MismatchT
        BY DEF MismatchT, ResultT
      <4> QED
        BY <4>1
    <3>2. PICK y \in MismatchT : TRUE
      BY <3>1
    <3>3. [n \in N |-> y] \in V
      OBVIOUS
    <3> QED
      BY <3>3
  <2>2. H \in [[D -> V] -> [D -> V]]
    <3> HIDE DEF V, D
    <3> QED
      BY <1>3
  <2>3. Solvable(D, V, H)
    <3>1. Recursion(D, V, rank, H)
      <4> HIDE DEF H, D, V
      <4> QED
        BY <1>1, <1>4, <2>1, <2>2 DEF Recursion
    <3> HIDE DEF H, D, V
    <3> QED
      BY <3>1, FixedPoint
  <2> HIDE DEF V, D
  <2> QED
    BY <2>3 DEF Solvable
<1> DEFINE F == CHOOSE f : f = Deeper(t, s, f)
<1>6. F = Deeper(t, s, F)
  BY <1>5
<1>7. \A b \in D, n \in N : Goes(t, s, F, b, n, F[b][n])
  <2> HIDE DEF F
  <2>1. \A b \in D, n \in N : Goes(t, s, F, b, n, Deeper(t, s, F)[b][n])
    BY DeeperGoes
  <2>2. \A b \in D, n \in N : Deeper(t, s, F)[b][n] = F[b][n]
    BY <1>6
  <2> QED
    BY <2>1, <2>2
<1> DEFINE P == {b \in D : \A n \in N : Led(t, b, SubSeq(s, n, Len(s)), F[b][n])}
<1>8. P = D
  <2> HIDE DEF F
  <2>1. ASSUME NEW b \in D, \A c \in D : rank[c] < rank[b] => c \in P PROVE b \in P
    <3>1. SUFFICES ASSUME NEW n \in N PROVE Led(t, b, SubSeq(s, n, Len(s)), F[b][n])
      OBVIOUS
    <3>2. Slot(t, b, s[n]) /\ Child(t, b, s[n]) # Nil =>
            \A k \in N : Led(t, Child(t, b, s[n]), SubSeq(s, k, Len(s)), F[Child(t, b, s[n])][k])
      BY <1>2, <2>1
    <3>3. Goes(t, s, F, b, n, F[b][n])
      BY <1>7
    <3> HIDE DEF P
    <3> QED
      BY <1>0, <3>2, <3>3, GoesOn
  <2>2. P \in SUBSET D
    OBVIOUS
  <2>3. Inductive(D, rank, P)
    <3> HIDE DEF P, D
    <3> QED
      BY <1>1, <2>1, <2>2 DEF Inductive
  <2> HIDE DEF P, D
  <2> QED
    BY <2>3, ByRank
<1>9. Solves(t, s, F)
  <2>1. \A b \in D, n \in N : Led(t, b, SubSeq(s, n, Len(s)), F[b][n])
    BY <1>8
  <2> HIDE DEF F
  <2> QED
    BY <1>7, <2>1 DEF Solves
<1>10. \A a : Mismatch(t, a, s) = F[a][1]
  BY MismatchIs
<1> HIDE DEF F
<1> QED
  BY <1>9, <1>10

\* Whatever the tree and the string, mismatch returns a way down the tree, whose
\* key and the rest of the string are the string, and the outcome says how it
\* ends (Trie::mismatch).
LEMMA MismatchLeads ==
  ASSUME NEW t, NEW a \in DOMAIN t, NEW s \in Seq(Atom) \ {<<>>}, Tree(t)
  PROVE  Led(t, a, s, Mismatch(t, a, s))
<1>1. PICK f : Solves(t, s, f) /\ \A b : Mismatch(t, b, s) = f[b][1]
  BY MismatchSolved
<1>2. 1 \in 1 .. Len(s) /\ SubSeq(s, 1, Len(s)) = s
  BY Members
<1>3. Led(t, a, SubSeq(s, 1, Len(s)), f[a][1])
  BY <1>1, <1>2 DEF Solves
<1> QED
  BY <1>1, <1>2, <1>3

-----------------------------------------------------------------------------
(* Insertion.                                                              *)

\* What Put does.
Puts(D, T, f, c, x) ==
  /\ Put(f, c, x) \in [D \cup {c} -> T] /\ Put(f, c, x)[c] = x
  /\ \A d \in D : d # c => Put(f, c, x)[d] = f[d]

\* A function with one place put.
LEMMA PutIs ==
  ASSUME NEW D, NEW T, NEW f \in [D -> T], NEW c, NEW x \in T
  PROVE  Puts(D, T, f, c, x)
BY DEF Put, Puts

\* A node is made of a version and typed entries.
LEMMA MakeNode ==
  ASSUME NEW v \in 0 .. VersionMod - 1, NEW A \in SUBSET Atom, NEW f \in [A -> EntryT]
  PROVE  [version |-> v, entry |-> f] \in NodeT
<1>2. f \in UNION {[B -> EntryT] : B \in SUBSET Atom}
  OBVIOUS
<1> QED
  BY <1>2 DEF NodeT

\* Versions wrap around.
LEMMA ModIs ==
  ASSUME NEW n \in Nat
  PROVE  n % VersionMod \in 0 .. VersionMod - 1
BY TrieAssumption

\* Entry c of node a is e now, and all else is as it was.
Updated(t, u, a, c, e) ==
  /\ Nodes(u) /\ DOMAIN u = DOMAIN t
  /\ \A b \in DOMAIN t : b # a => u[b] = t[b]
  /\ DOMAIN u[a].entry = DOMAIN t[a].entry \cup {c} /\ u[a].entry[c] = e
  /\ \A d \in DOMAIN t[a].entry : d # c => u[a].entry[d] = t[a].entry[d]

\* SetEntry changes one entry of one node.
LEMMA SetEntryIs ==
  ASSUME NEW t, NEW a \in DOMAIN t, NEW c \in Atom, NEW e \in EntryT, NEW bump \in Nat, Nodes(t)
  PROVE  Updated(t, SetEntry(t, a, c, e, bump), a, c, e)
<1> DEFINE f == Put(t[a].entry, c, e)
           x == [version |-> (t[a].version + bump) % VersionMod, entry |-> f]
           u == SetEntry(t, a, c, e, bump)
<1>0. DOMAIN t \in SUBSET Addr /\ Root \in DOMAIN t /\ t \in [DOMAIN t -> NodeT]
  BY DEF Nodes
<1>1. t[a].version + bump \in Nat /\ DOMAIN t[a].entry \in SUBSET Atom
      /\ \A d \in DOMAIN t[a].entry : t[a].entry[d] \in EntryT
  <2>1. t[a].version \in 0 .. VersionMod - 1 /\ DOMAIN t[a].entry \in SUBSET Atom
        /\ \A d \in DOMAIN t[a].entry : t[a].entry[d] \in EntryT
    BY NodeTypes
  <2> QED
    BY <2>1
<1>2. /\ f \in [DOMAIN t[a].entry \cup {c} -> EntryT] /\ f[c] = e
      /\ \A d \in DOMAIN t[a].entry : d # c => f[d] = t[a].entry[d]
  <2>1. t[a].entry \in [DOMAIN t[a].entry -> EntryT]
    BY NodeTypes
  <2>2. Puts(DOMAIN t[a].entry, EntryT, t[a].entry, c, e)
    BY <2>1, PutIs
  <2> QED
    BY <2>2 DEF Puts
<1>3. x \in NodeT
  <2>1. (t[a].version + bump) % VersionMod \in 0 .. VersionMod - 1
    BY <1>1, ModIs
  <2>2. DOMAIN t[a].entry \cup {c} \in SUBSET Atom
    BY <1>1
  <2> HIDE DEF f
  <2> QED
    BY <1>2, <2>1, <2>2, MakeNode
<1>4. u = [t EXCEPT ![a] = x]
  BY DEF SetEntry
<1> HIDE DEF x, u
<1>5. u \in [DOMAIN t -> NodeT] /\ u[a] = x /\ \A b \in DOMAIN t : b # a => u[b] = t[b]
  BY <1>0, <1>3, <1>4
<1>6. u[a].entry = f
  BY <1>5 DEF x
<1>7. Nodes(u) /\ DOMAIN u = DOMAIN t
  BY <1>0, <1>5 DEF Nodes
<1> HIDE DEF f
<1>8. Updated(t, u, a, c, e)
  BY <1>2, <1>5, <1>6, <1>7 DEF Updated
<1> QED
  BY <1>8 DEF u

\* A node more.
Grown(t, u, n, x) ==
  /\ Nodes(u) /\ DOMAIN u = DOMAIN t \cup {n} /\ u[n] = x
  /\ \A b \in DOMAIN t : u[b] = t[b]

\* A tree with one more node.
LEMMA GrownIs ==
  ASSUME NEW t, NEW n \in Addr \ DOMAIN t, NEW x \in NodeT, Nodes(t)
  PROVE  Grown(t, Put(t, n, x), n, x)
<1>1. Put(t, n, x) \in [DOMAIN t \cup {n} -> NodeT] /\ Put(t, n, x)[n] = x
      /\ \A b \in DOMAIN t : Put(t, n, x)[b] = t[b]
  <2>1. t \in [DOMAIN t -> NodeT] /\ \A b \in DOMAIN t : b # n
    BY DEF Nodes
  <2>2. Puts(DOMAIN t, NodeT, t, n, x)
    BY <2>1, PutIs
  <2> QED
    BY <2>1, <2>2 DEF Puts
<1>2. PICK u : u = Put(t, n, x)
  OBVIOUS
<1> QED
  BY <1>1, <1>2 DEF Grown, Nodes

\* The nodes on a way from the root hang in the tree.
LEMMA WayAttached ==
  ASSUME NEW t, NEW i, Nodes(t), Way(t, Root, i)
  PROVE  \A n \in 1 .. Len(i) : i[n].addr \in DOMAIN t /\ Attached(t, i[n].addr)
<1>1. SUFFICES ASSUME NEW n \in 1 .. Len(i) PROVE i[n].addr \in DOMAIN t /\ Attached(t, i[n].addr)
  OBVIOUS
<1>2. i[n].addr \in DOMAIN t /\ i[1].addr = Root /\ Len(i) \in Nat
  BY Members DEF Way
<1>3. CASE n = 1
  BY <1>2, <1>3 DEF Attached
<1>4. CASE n # 1
  <2>1. PICK m : m = n - 1
    OBVIOUS
  <2>2. m \in 1 .. Len(i) - 1 /\ n = m + 1
    BY <1>2, <1>4, <2>1
  <2>3. OnSlot(t, i[m]) /\ Here(t, i[m]).child = i[n].addr
    BY <2>2 DEF Way
  <2>4. Slot(t, i[m].addr, i[m].text[1]) /\ Child(t, i[m].addr, i[m].text[1]) = i[n].addr
    BY <2>3 DEF OnSlot, Here, Child
  <2>5. i[m].addr \in Addr /\ i[m].text[1] \in Atom
    BY <2>4, NodeTypes
  <2> QED
    BY <1>2, <2>4, <2>5 DEF Attached
<1> QED
  BY <1>3, <1>4

\* The values of a tree, at the entries that have one.
Vals(t) == {x \in Addr \X Atom : Slot(t, x[1], x[2]) /\ t[x[1]].entry[x[2]].value # None}
\* A tree, and the number of its values.
Whole(t, k) == Tree(t) /\ IsFiniteSet(Vals(t)) /\ k = Cardinality(Vals(t))

\* Membership in Vals.
LEMMA ValIs ==
  ASSUME NEW t, NEW a \in Addr, NEW c \in Atom
  PROVE  <<a, c>> \in Vals(t) <=> Slot(t, a, c) /\ t[a].entry[c].value # None
BY DEF Vals

\* Two sets of entries are compared entry by entry.
LEMMA SamePairs ==
  ASSUME NEW X \in SUBSET (Addr \X Atom), NEW Y \in SUBSET (Addr \X Atom),
         \A a \in Addr, c \in Atom : <<a, c>> \in X <=> <<a, c>> \in Y
  PROVE  X = Y
<1>1. \A x \in Addr \X Atom : x = <<x[1], x[2]>> /\ x[1] \in Addr /\ x[2] \in Atom
  OBVIOUS
<1>2. \A x \in Addr \X Atom : x \in X <=> x \in Y
  BY <1>1
<1> QED
  BY <1>2

\* T has one member more than S.
OneMore(S, T) == IsFiniteSet(T) /\ Cardinality(T) = Cardinality(S) + 1

\* A finite set with one more member.
LEMMA AddOne ==
  ASSUME NEW S, IsFiniteSet(S), NEW y, y \notin S
  PROVE  OneMore(S, S \cup {y})
BY FS_AddElement DEF OneMore

\* A finite set with a member replaced and another added.
LEMMA MoveAndAdd ==
  ASSUME NEW S, IsFiniteSet(S), NEW x \in S, NEW y, NEW z, y \notin S, z \notin S, y # z
  PROVE  OneMore(S, ((S \ {x}) \cup {y}) \cup {z})
<1>1. IsFiniteSet(S \ {x}) /\ Cardinality(S \ {x}) = Cardinality(S) - 1 /\ Cardinality(S) \in Nat
  BY FS_RemoveElement, FS_CardinalityType
<1>2. PICK A : A = S \ {x}
  OBVIOUS
<1>3. y \notin A /\ IsFiniteSet(A) /\ Cardinality(A) = Cardinality(S) - 1
  BY <1>1, <1>2
<1>4. IsFiniteSet(A \cup {y}) /\ Cardinality(A \cup {y}) = Cardinality(S)
  BY <1>1, <1>3, FS_AddElement
<1>5. PICK B : B = A \cup {y}
  OBVIOUS
<1>6. z \notin B /\ IsFiniteSet(B) /\ Cardinality(B) = Cardinality(S)
  BY <1>2, <1>4, <1>5
<1>7. IsFiniteSet(B \cup {z}) /\ Cardinality(B \cup {z}) = Cardinality(S) + 1
  BY <1>1, <1>6, FS_AddElement
<1> QED
  BY <1>2, <1>5, <1>7 DEF OneMore

\* What SetEntry leaves as it was.
LEMMA UpdatedElsewhere ==
  ASSUME NEW t, NEW u, NEW a \in DOMAIN t, NEW c \in Atom, NEW e, Updated(t, u, a, c, e)
  PROVE  Elsewhere(t, u, a, c) /\ Slot(u, a, c) /\ u[a].entry[c] = e
BY DEF Updated, Elsewhere, Slot

\* The values after entry c of node a became e.
ValsPut(t, a, c, e) == IF e.value # None THEN Vals(t) \cup {<<a, c>>} ELSE Vals(t) \ {<<a, c>>}

\* An entry changed, its child kept.
LEMMA Retouched ==
  ASSUME NEW t, NEW a \in DOMAIN t, NEW c \in Atom, NEW e \in EntryT, NEW bump \in Nat,
         Tree(t), Attached(t, a), ~Void(e), NEW u, u = SetEntry(t, a, c, e, bump),
         Slot(t, a, c) => e.child = Child(t, a, c), ~Slot(t, a, c) => e.child = Nil
  PROVE  Tree(u) /\ Loose(u) = Loose(t) /\ Vals(u) = ValsPut(t, a, c, e)
<1>0. Nodes(t) /\ Nodes(u) /\ a \in Addr /\ Updated(t, u, a, c, e) /\ DOMAIN u = DOMAIN t
  <2>1. Nodes(t)
    BY DEF Tree
  <2>2. Updated(t, u, a, c, e)
    BY <2>1, SetEntryIs
  <2> QED
    BY <2>1, <2>2, NodeTypes DEF Updated
<1>1. Elsewhere(t, u, a, c) /\ Slot(u, a, c) /\ u[a].entry[c] = e
  BY <1>0, UpdatedElsewhere
<1>2. Trimmed(t, u, a, c, {})
  <2>1. Closed(t, a, c, {})
    <3>1. \A b \in Addr, d \in Atom : Slot(t, b, d) => Child(t, b, d) \notin {}
      OBVIOUS
    <3> QED
      BY DEF Closed
  <2>2. DOMAIN u[a].entry # {}
    BY <1>1 DEF Slot
  <2>3. Slot(t, a, c) => Child(u, a, c) = Child(t, a, c)
    BY <1>1 DEF Child
  <2>4. Child(u, a, c) # Nil => Slot(t, a, c) /\ Child(t, a, c) = Child(u, a, c)
    BY <1>1 DEF Child
  <2> QED
    BY <1>0, <1>1, <2>1, <2>2, <2>3, <2>4 DEF Trimmed
<1>3. Tree(u) /\ Loose(u) = Loose(t)
  BY <1>2, TrimKeepsTree
<1>4. ASSUME NEW b \in Addr, NEW d \in Atom
      PROVE  <<b, d>> \in Vals(u) <=> <<b, d>> \in ValsPut(t, a, c, e)
  <2>1. <<b, d>> \in Vals(u) <=> Slot(u, b, d) /\ u[b].entry[d].value # None
    BY ValIs
  <2>2. <<b, d>> \in Vals(t) <=> Slot(t, b, d) /\ t[b].entry[d].value # None
    BY ValIs
  <2>3. CASE b = a /\ d = c
    BY <1>1, <2>1, <2>3 DEF ValsPut
  <2>4. CASE ~(b = a /\ d = c)
    <3>1. /\ Slot(u, b, d) <=> Slot(t, b, d)
          /\ Slot(t, b, d) => u[b].entry[d] = t[b].entry[d]
      BY <1>0, <1>1, <2>4 DEF Elsewhere, Slot
    <3>2. <<b, d>> # <<a, c>>
      BY <2>4
    <3> QED
      BY <2>1, <2>2, <3>1, <3>2 DEF ValsPut
  <2> QED
    BY <2>3, <2>4
<1>5. Vals(u) \in SUBSET (Addr \X Atom) /\ ValsPut(t, a, c, e) \in SUBSET (Addr \X Atom)
  <2>1. Vals(u) \in SUBSET (Addr \X Atom) /\ Vals(t) \in SUBSET (Addr \X Atom)
    BY DEF Vals
  <2>2. <<a, c>> \in Addr \X Atom
    BY <1>0
  <2> QED
    BY <2>1, <2>2 DEF ValsPut
<1>6. PICK X, Y : X = Vals(u) /\ Y = ValsPut(t, a, c, e)
  OBVIOUS
<1>7. X = Y
  BY <1>4, <1>5, <1>6, SamePairs, SMTT(60)
<1> QED
  BY <1>3, <1>6, <1>7

\* What a new node below entry c of node a must have, that had the child d0.
Takes(f, d0) ==
  /\ DOMAIN f # {}
  /\ \A d \in DOMAIN f : ~Void(f[d]) /\ f[d].child \in {Nil, d0}
  /\ d0 # Nil => \E d \in DOMAIN f : f[d].child = d0
  /\ \A d, x \in DOMAIN f : f[d].child # Nil /\ f[x].child # Nil => d = x

\* The values in a new node n, and the tree with an entry cut.
NewVals(n, f) == {x \in {n} \X DOMAIN f : f[x[2]].value # None}

Grafts(t, u, a, c, e, n, x) ==
  Tree(u) /\ Loose(u) = Loose(t) /\ Vals(u) = ValsPut(t, a, c, e) \cup NewVals(n, x.entry)

\* An entry cut, a new node below it.
LEMMA Grafting ==
  ASSUME NEW t, NEW a, NEW c, NEW e \in EntryT, NEW bump \in Nat, NEW n \in Addr \ DOMAIN t,
         NEW x \in NodeT, Tree(t), Attached(t, a), Slot(t, a, c), e.child = n,
         Takes(x.entry, Child(t, a, c)), NEW u, u = Put(SetEntry(t, a, c, e, bump), n, x)
  PROVE  Grafts(t, u, a, c, e, n, x)
<1>0. Nodes(t) /\ a \in DOMAIN t /\ a \in Addr /\ c \in Atom
  BY NodeTypes DEF Slot, Tree
<1>1. PICK w : w = SetEntry(t, a, c, e, bump)
  OBVIOUS
<1>2. Updated(t, w, a, c, e) /\ Nodes(w) /\ DOMAIN w = DOMAIN t
  BY <1>0, <1>1, SetEntryIs DEF Updated
<1>3. Grown(w, u, n, x)
  BY <1>1, <1>2, GrownIs
<1>4. Nodes(u) /\ DOMAIN u = DOMAIN t \cup {n} /\ u[n] = x /\ \A b \in DOMAIN t : u[b] = w[b]
  BY <1>2, <1>3 DEF Grown
<1>5. Elsewhere(t, w, a, c) /\ Slot(w, a, c) /\ w[a].entry[c] = e
  BY <1>0, <1>2, UpdatedElsewhere
<1>6. Elsewhere(t, u, a, c) /\ Slot(u, a, c) /\ u[a].entry[c] = e
  BY <1>0, <1>2, <1>4, <1>5 DEF Elsewhere, Slot
<1>7. Grafted(t, u, a, c, n)
  <2>1. Child(u, a, c) = n
    BY <1>6 DEF Child
  <2>2. /\ DOMAIN u[n].entry # {}
        /\ \A d \in DOMAIN u[n].entry : ~Void(u[n].entry[d]) /\ Child(u, n, d) \in {Nil, Child(t, a, c)}
        /\ Child(t, a, c) # Nil => \E d \in DOMAIN u[n].entry : Child(u, n, d) = Child(t, a, c)
        /\ \A d, y \in DOMAIN u[n].entry : Child(u, n, d) # Nil /\ Child(u, n, y) # Nil => d = y
    <3>1. PICK f : f = x.entry
      OBVIOUS
    <3>2. u[n].entry = f /\ \A d : Child(u, n, d) = f[d].child
      BY <1>4, <3>1 DEF Child
    <3>3. PICK d0 : d0 = Child(t, a, c)
      OBVIOUS
    <3>4. Takes(f, d0)
      BY <3>1, <3>3
    <3> QED
      BY <3>2, <3>3, <3>4 DEF Takes
  <2> QED
    BY <1>4, <1>6, <2>1, <2>2 DEF Grafted
<1>8. Tree(u) /\ Loose(u) = Loose(t)
  BY <1>7, GraftKeepsTree
<1>9. x.entry \in [DOMAIN x.entry -> EntryT] /\ DOMAIN x.entry \in SUBSET Atom
  <2>1. u[n].entry \in [DOMAIN u[n].entry -> EntryT] /\ DOMAIN u[n].entry \in SUBSET Atom
    BY <1>4, NodeTypes
  <2> QED
    BY <1>4, <2>1
<1>10. ASSUME NEW b \in Addr, NEW d \in Atom
      PROVE  <<b, d>> \in Vals(u) <=> <<b, d>> \in ValsPut(t, a, c, e) \cup NewVals(n, x.entry)
  <2>1. <<b, d>> \in Vals(u) <=> Slot(u, b, d) /\ u[b].entry[d].value # None
    BY ValIs
  <2>2. <<b, d>> \in Vals(t) <=> Slot(t, b, d) /\ t[b].entry[d].value # None
    BY ValIs
  <2>3. <<b, d>> \in NewVals(n, x.entry) <=> b = n /\ d \in DOMAIN x.entry /\ x.entry[d].value # None
    BY DEF NewVals
  <2>4. CASE b = a /\ d = c
    <3>1. b # n
      BY <1>0, <2>4
    <3> QED
      BY <1>6, <2>1, <2>3, <2>4, <3>1 DEF ValsPut
  <2>5. CASE b = n
    <3>1. <<b, d>> # <<a, c>> /\ ~Slot(t, b, d)
      BY <1>0, <2>5 DEF Slot
    <3>2. <<b, d>> \notin ValsPut(t, a, c, e)
      BY <2>2, <3>1 DEF ValsPut
    <3>3. Slot(u, b, d) <=> d \in DOMAIN x.entry
      BY <1>4, <2>5 DEF Slot
    <3>4. u[b].entry = x.entry
      BY <1>4, <2>5
    <3> QED
      BY <2>1, <2>3, <2>5, <3>2, <3>3, <3>4
  <2>6. CASE ~(b = a /\ d = c) /\ b # n
    <3>1. /\ Slot(u, b, d) <=> Slot(t, b, d)
          /\ Slot(t, b, d) => u[b].entry[d] = t[b].entry[d]
      BY <1>0, <1>4, <1>6, <2>6 DEF Elsewhere, Slot
    <3>2. <<b, d>> # <<a, c>>
      BY <2>6
    <3> QED
      BY <2>1, <2>2, <2>3, <2>6, <3>1, <3>2 DEF ValsPut
  <2> QED
    BY <2>4, <2>5, <2>6
<1>11. Vals(u) \in SUBSET (Addr \X Atom) /\ ValsPut(t, a, c, e) \cup NewVals(n, x.entry) \in SUBSET (Addr \X Atom)
  <2>1. Vals(u) \in SUBSET (Addr \X Atom) /\ Vals(t) \in SUBSET (Addr \X Atom)
    BY DEF Vals
  <2>2. <<a, c>> \in Addr \X Atom
    BY <1>0
  <2>3. NewVals(n, x.entry) \in SUBSET (Addr \X Atom)
    BY <1>9 DEF NewVals
  <2> QED
    BY <2>1, <2>2, <2>3 DEF ValsPut
<1> QED
  BY <1>8, <1>10, <1>11, SamePairs DEF Grafts

\* The tree has one more value.
Edited(t, u, k) == Whole(u, k + 1) /\ Loose(u) = Loose(t)

\* Where a mismatch from the root ends.
Ends(t, m, p) ==
  /\ p = Last(m.path) /\ p \in PosT /\ p.addr \in DOMAIN t /\ p.addr \in Addr /\ Attached(t, p.addr)
  /\ p.text # <<>> /\ p.text[1] \in Atom /\ m.rest \in Seq(Atom) /\ m.path \in Seq(PosT) /\ m.path # <<>>
  /\ Way(t, Root, m.path)
  /\ OnSlot(t, p) => Here(t, p) \in EntryT /\ ~Void(Here(t, p))
                     /\ Here(t, p).child = Child(t, p.addr, p.text[1])
                     /\ Here(t, p) = t[p.addr].entry[p.text[1]]
                     /\ Slot(t, p.addr, p.text[1])

\* The position a mismatch from the root ends on.
LEMMA LedEnds ==
  ASSUME NEW t, NEW s, NEW m, Tree(t), Led(t, Root, s, m)
  PROVE  Ends(t, m, Last(m.path))
<1>1. m \in MismatchT /\ Way(t, Root, m.path)
  BY DEF Led
<1>2. m.rest \in Seq(Atom) /\ m.path \in Seq(PosT) /\ m.path # <<>>
  BY <1>1 DEF MismatchT, Way
<1>3. PICK p : p = Last(m.path)
  OBVIOUS
<1>4. PICK n : n = Len(m.path)
  OBVIOUS
<1>5. p \in PosT /\ n \in 1 .. Len(m.path) /\ p = m.path[n]
  <2>1. p \in PosT /\ p = m.path[Len(m.path)] /\ Len(m.path) \in Nat \ {0}
    BY <1>2, <1>3, FrontLast
  <2> QED
    BY <1>4, <2>1
<1>6. Nodes(t) /\ Linked(t)
  BY DEF Tree
<1>7. p.addr \in DOMAIN t /\ Attached(t, p.addr) /\ p.text # <<>>
  BY <1>1, <1>5, <1>6, WayAttached DEF Way
<1>8. p.text[1] \in Atom /\ p.addr \in Addr
  <2>1. p.text \in Seq(Atom) /\ p.addr \in Addr
    BY <1>5 DEF PosT
  <2> QED
    BY <1>7, <2>1
<1>9. ASSUME OnSlot(t, p)
      PROVE  Here(t, p) \in EntryT /\ ~Void(Here(t, p))
             /\ Here(t, p).child = Child(t, p.addr, p.text[1])
             /\ Here(t, p) = t[p.addr].entry[p.text[1]]
             /\ Slot(t, p.addr, p.text[1])
  <2>1. PICK a, c : a = p.addr /\ c = p.text[1]
    OBVIOUS
  <2>2. Slot(t, a, c) /\ a \in Addr /\ c \in Atom
    BY <1>8, <1>9, <2>1 DEF OnSlot
  <2>3. t[a].entry[c] \in EntryT /\ ~Void(t[a].entry[c])
    BY <1>6, <2>2, NodeTypes DEF Linked
  <2>4. Here(t, p) = t[a].entry[c] /\ Child(t, a, c) = t[a].entry[c].child
    BY <2>1 DEF Here, Child
  <2> QED
    BY <2>1, <2>2, <2>3, <2>4
<1> QED
  BY <1>1, <1>2, <1>3, <1>7, <1>8, <1>5, <1>9 DEF Ends

\* One more value, and the count with it.
LEMMA MoreVals ==
  ASSUME NEW t, NEW k, NEW u, Whole(t, k), Tree(u), OneMore(Vals(t), Vals(u)), Loose(u) = Loose(t)
  PROVE  Edited(t, u, k)
BY DEF Whole, OneMore, Edited

\* The atom is new to the node.
LEMMA PlaceNoEntry ==
  ASSUME NEW t, NEW k, Whole(t, k), NEW s, NEW m, Led(t, Root, s, m), NEW p, p = Last(m.path),
         NEW v \in Value, m.result = "no_entry", NEW u,
         u = SetEntry(t, p.addr, p.text[1], [stem |-> m.rest, child |-> Nil, value |-> v], 1)
  PROVE  Edited(t, u, k)
<1>1. PICK a, c, e : a = p.addr /\ c = p.text[1] /\ e = [stem |-> m.rest, child |-> Nil, value |-> v]
  OBVIOUS
<1>2. Tree(t) /\ IsFiniteSet(Vals(t))
  BY DEF Whole
<1>3. Ends(t, m, p)
  BY <1>2, LedEnds
<1>4. a \in DOMAIN t /\ a \in Addr /\ Attached(t, a) /\ c \in Atom /\ m.rest \in Seq(Atom)
  BY <1>1, <1>3 DEF Ends
<1>5. ~Slot(t, a, c)
  <2>1. Outcome(t, m)
    BY DEF Led
  <2>2. ~OnSlot(t, p)
    BY <2>1 DEF Outcome
  <2> QED
    BY <1>1, <2>2 DEF OnSlot
<1>6. e \in EntryT /\ e.child = Nil /\ e.value # None
  <2>1. v # None
    BY TrieAssumption
  <2> QED
    BY <1>1, <1>4, <2>1 DEF EntryT
<1>7. ~Void(e) /\ u = SetEntry(t, a, c, e, 1)
  BY <1>1, <1>6 DEF Void
<1>8. Tree(u) /\ Loose(u) = Loose(t) /\ Vals(u) = ValsPut(t, a, c, e)
  BY <1>2, <1>4, <1>5, <1>6, <1>7, Retouched
<1>9. Vals(u) = Vals(t) \cup {<<a, c>>} /\ <<a, c>> \notin Vals(t)
  BY <1>4, <1>5, <1>6, <1>8, ValIs DEF ValsPut
<1>10. OneMore(Vals(t), Vals(u))
  BY <1>2, <1>9, AddOne
<1> QED
  BY <1>8, <1>10, MoreVals

\* The entry gets a value.
LEMMA PlaceValue ==
  ASSUME NEW t, NEW k, Whole(t, k), NEW s, NEW m, Led(t, Root, s, m), NEW p, p = Last(m.path),
         NEW v \in Value, OnSlot(t, p), Here(t, p).value = None, NEW u,
         u = SetEntry(t, p.addr, p.text[1], [Here(t, p) EXCEPT !.value = v], 1)
  PROVE  Edited(t, u, k)
<1>1. PICK a, c, e, d : /\ a = p.addr /\ c = p.text[1] /\ d = Here(t, p) /\ e = [d EXCEPT !.value = v]
  OBVIOUS
<1>2. Tree(t) /\ IsFiniteSet(Vals(t))
  BY DEF Whole
<1>3. Ends(t, m, p)
  BY <1>2, LedEnds
<1>4. a \in DOMAIN t /\ a \in Addr /\ Attached(t, a) /\ c \in Atom /\ d \in EntryT
      /\ Slot(t, a, c) /\ d = t[a].entry[c] /\ d.child = Child(t, a, c)
  BY <1>1, <1>3, Zenon DEF Ends
<1>6. e \in EntryT /\ e.child = d.child /\ e.value # None
  <2>1. v # None
    BY TrieAssumption
  <2> QED
    BY <1>1, <1>4, <2>1, Zenon DEF EntryT
<1>7. ~Void(e) /\ u = SetEntry(t, a, c, e, 1)
  BY <1>1, <1>6 DEF Void
<1>8. Tree(u) /\ Loose(u) = Loose(t) /\ Vals(u) = ValsPut(t, a, c, e)
  BY <1>2, <1>4, <1>6, <1>7, Retouched
<1>9. Vals(u) = Vals(t) \cup {<<a, c>>} /\ <<a, c>> \notin Vals(t)
  <2>1. Vals(u) = Vals(t) \cup {<<a, c>>}
    BY <1>6, <1>8, Zenon DEF ValsPut
  <2>2. t[a].entry[c].value = None
    BY <1>1, <1>4, Zenon
  <2> QED
    BY <1>4, <2>1, <2>2, ValIs
<1>10. OneMore(Vals(t), Vals(u))
  BY <1>2, <1>9, AddOne
<1> QED
  BY <1>8, <1>10, MoreVals

\* A function of one place.
PutAlone(T, f, c, x) == f \in [{c} -> T] /\ f[c] = x

\* The empty function with one place put.
LEMMA EmptyPut ==
  ASSUME NEW T, NEW c, NEW x \in T
  PROVE  PutAlone(T, Put(<<>>, c, x), c, x)
<1>1. <<>> \in [{} -> T]
  OBVIOUS
<1>2. Puts({}, T, <<>>, c, x)
  BY <1>1, PutIs
<1>3. {} \cup {c} = {c}
  OBVIOUS
<1> QED
  BY <1>2, <1>3 DEF Puts, PutAlone

\* The entry for the end of a key.
LeafEntry(s, v) == [stem |-> Tail(s), child |-> Nil, value |-> v]

\* The entry made for the end of a key.
LEMMA LeafIs ==
  ASSUME NEW s \in Seq(Atom), s # <<>>, NEW v \in Value
  PROVE  /\ Head(s) \in Atom /\ Head(s) = s[1] /\ LeafEntry(s, v) \in EntryT
         /\ LeafEntry(s, v).child = Nil /\ LeafEntry(s, v).value # None
<1>1. Head(s) \in Atom /\ Head(s) = s[1] /\ Tail(s) \in Seq(Atom)
  OBVIOUS
<1>2. v # None
  BY TrieAssumption
<1>3. PICK x : x = Tail(s)
  OBVIOUS
<1>4. LeafEntry(s, v) = [stem |-> x, child |-> Nil, value |-> v]
  BY <1>3 DEF LeafEntry
<1> QED
  BY <1>1, <1>2, <1>3, <1>4 DEF EntryT

\* The entry that keeps the end of a stem.
RestEntry(e, at) == [e EXCEPT !.stem = SubSeq(@, at + 2, Len(@))]

\* The entry that keeps the end of a stem.
LEMMA RestIs ==
  ASSUME NEW e \in EntryT, NEW at \in Nat, at < Len(e.stem)
  PROVE  /\ e.stem[at + 1] \in Atom /\ RestEntry(e, at) \in EntryT
         /\ RestEntry(e, at).child = e.child /\ RestEntry(e, at).value = e.value
         /\ SubSeq(e.stem, 1, at) \in Seq(Atom)
<1>1. PICK x : x = e.stem
  OBVIOUS
<1>2. x \in Seq(Atom) /\ at < Len(x) /\ Len(x) \in Nat
  BY <1>1, EntryTypes, Members
<1>3. x[at + 1] \in Atom
  <2>1. at + 1 \in 1 .. Len(x)
    BY <1>2
  <2> QED
    BY <1>2, <2>1
<1>4. SubSeq(x, at + 2, Len(x)) \in Seq(Atom) /\ SubSeq(x, 1, at) \in Seq(Atom)
  BY <1>2
<1>5. PICK y : y = SubSeq(x, at + 2, Len(x))
  OBVIOUS
<1>6. RestEntry(e, at) = [e EXCEPT !.stem = y]
  BY <1>1, <1>5 DEF RestEntry
<1>7. /\ [e EXCEPT !.stem = y] \in EntryT
      /\ [e EXCEPT !.stem = y].child = e.child /\ [e EXCEPT !.stem = y].value = e.value
  BY <1>4, <1>5 DEF EntryT
<1> QED
  BY <1>1, <1>3, <1>4, <1>6, <1>7

\* The new node of each way to place a key, and what it takes over.
LEMMA OneTakes ==
  ASSUME NEW f, NEW c, DOMAIN f = {c}, NEW x, f[c] = x, ~Void(x), NEW d0, x.child = d0
  PROVE  Takes(f, d0)
BY DEF Takes

\* Both entries of the new node of a parting.
LEMMA TwoTake ==
  ASSUME NEW f, NEW b, NEW c, b # c, DOMAIN f = {b, c}, ~Void(f[b]), ~Void(f[c]), NEW d0, f[b].child = d0,
         f[c].child = Nil
  PROVE  Takes(f, d0)
BY DEF Takes

\* NewNode is a free address.
LEMMA NewNodeIs ==
  ASSUME NEW t, Nodes(t), HasRoom(t)
  PROVE  NewNode(t) \in Addr \ DOMAIN t
<1>1. Addr \ DOMAIN t # {} /\ Addr \ DOMAIN t \in SUBSET Nat
  <2>1. Addr \in SUBSET Nat
    BY DEF Addr
  <2>2. DOMAIN t \in SUBSET Addr /\ DOMAIN t # Addr
    BY DEF HasRoom, Nodes
  <2> QED
    BY <2>1, <2>2
<1>2. PICK m \in Addr \ DOMAIN t : \A k \in Addr \ DOMAIN t : m <= k
  BY <1>1, LeastNat
<1> QED
  BY <1>2 DEF NewNode, Min

\* The key goes on where the entry ends.
LEMMA PlaceStemEnd ==
  ASSUME NEW t, NEW k, Whole(t, k), NEW s, NEW m, Led(t, Root, s, m), NEW p, p = Last(m.path),
         NEW v \in Value, m.result = "stem_end", HasRoom(t), NEW n, n = NewNode(t), NEW u,
         u = Put(SetEntry(t, p.addr, p.text[1], [Here(t, p) EXCEPT !.child = n], 1), n,
                 [version |-> 1 % VersionMod, entry |-> Leaf(<<>>, m.rest, v)])
  PROVE  Edited(t, u, k)
<1>1. PICK a, c, e, d, f, x : /\ a = p.addr /\ c = p.text[1] /\ d = Here(t, p) /\ e = [d EXCEPT !.child = n]
                              /\ f = Leaf(<<>>, m.rest, v) /\ x = [version |-> 1 % VersionMod, entry |-> f]
  OBVIOUS
<1>2. Tree(t) /\ IsFiniteSet(Vals(t)) /\ Nodes(t)
  BY DEF Whole, Tree
<1>3. Ends(t, m, p)
  BY <1>2, LedEnds
<1>4. OnSlot(t, p) /\ m.rest # <<>> /\ d.child = Nil
  <2>1. Outcome(t, m)
    BY DEF Led
  <2> QED
    BY <1>1, <2>1 DEF Outcome
<1>5. a \in DOMAIN t /\ a \in Addr /\ Attached(t, a) /\ c \in Atom /\ d \in EntryT /\ m.rest \in Seq(Atom)
      /\ Slot(t, a, c) /\ d = t[a].entry[c] /\ d.child = Child(t, a, c)
  BY <1>1, <1>3, <1>4 DEF Ends
<1>6. n \in Addr \ DOMAIN t
  BY <1>2, NewNodeIs, Zenon
<1>7. e \in EntryT /\ e.child = n /\ e.value = d.value
  BY <1>1, <1>5, <1>6, Zenon DEF EntryT
<1>8. PICK r, l : r = Head(m.rest) /\ l = LeafEntry(m.rest, v)
  OBVIOUS
<1>9. r \in Atom /\ l \in EntryT /\ l.child = Nil /\ l.value # None
  BY <1>4, <1>5, <1>8, LeafIs
<1>10. f = Put(<<>>, r, l)
  BY <1>1, <1>8 DEF Leaf, LeafEntry
<1>11. f \in [{r} -> EntryT] /\ f[r] = l
  BY <1>9, <1>10, EmptyPut DEF PutAlone
<1>12. x \in NodeT /\ x.entry = f
  <2>1. 1 % VersionMod \in 0 .. VersionMod - 1
    BY ModIs
  <2>2. {r} \in SUBSET Atom
    BY <1>9
  <2> QED
    BY <1>1, <1>11, <2>1, <2>2, MakeNode
<1>13. Takes(x.entry, Child(t, a, c))
  <2>1. ~Void(l) /\ DOMAIN f = {r}
    BY <1>9, <1>11 DEF Void
  <2>2. Child(t, a, c) = Nil
    BY <1>4, <1>5
  <2> QED
    BY <1>9, <1>11, <1>12, <2>1, <2>2, OneTakes
<1>14. u = Put(SetEntry(t, a, c, e, 1), n, x)
  BY <1>1
<1>15. Tree(u) /\ Loose(u) = Loose(t) /\ Vals(u) = ValsPut(t, a, c, e) \cup NewVals(n, x.entry)
  <2>1. Grafts(t, u, a, c, e, n, x)
    BY <1>2, <1>5, <1>6, <1>7, <1>12, <1>13, <1>14, Grafting
  <2> QED
    BY <2>1 DEF Grafts
<1>16. NewVals(n, x.entry) = {<<n, r>>}
  BY <1>9, <1>11, <1>12 DEF NewVals
<1>17. ValsPut(t, a, c, e) = Vals(t)
  <2>1. <<a, c>> \in Vals(t) <=> e.value # None
    BY <1>5, <1>7, ValIs
  <2> QED
    BY <2>1 DEF ValsPut
<1>18. <<n, r>> \notin Vals(t)
  BY <1>6, <1>9, ValIs DEF Slot
<1>19. OneMore(Vals(t), Vals(u))
  <2>1. Vals(u) = Vals(t) \cup {<<n, r>>}
    BY <1>15, <1>16, <1>17
  <2> QED
    BY <1>2, <1>18, <2>1, AddOne
<1> QED
  BY <1>15, <1>19, MoreVals

\* The key parts from the stem.
LEMMA PlaceUnequals ==
  ASSUME NEW t, NEW k, Whole(t, k), NEW s, NEW m, Led(t, Root, s, m), NEW p, p = Last(m.path),
         NEW v \in Value, m.result = "unequals", HasRoom(t), NEW n, n = NewNode(t), NEW at, at = Len(p.text) - 1,
         NEW u,
         u = Put(SetEntry(t, p.addr, p.text[1], Cut(Here(t, p), at, n), 1), n,
                 [version |-> 2 % VersionMod, entry |-> Leaf(Moved(Here(t, p), at), m.rest, v)])
  PROVE  Edited(t, u, k)
<1>1. PICK a, c, e, d, g, f, x : /\ a = p.addr /\ c = p.text[1] /\ d = Here(t, p) /\ e = Cut(d, at, n)
                              /\ g = Moved(d, at)
                              /\ f = Leaf(g, m.rest, v) /\ x = [version |-> 2 % VersionMod, entry |-> f]
  OBVIOUS
<1>2. Tree(t) /\ IsFiniteSet(Vals(t)) /\ Nodes(t)
  BY DEF Whole, Tree
<1>3. Ends(t, m, p)
  BY <1>2, LedEnds
<1>4. OnSlot(t, p) /\ m.rest # <<>> /\ at \in Nat /\ at < Len(d.stem) /\ m.rest[1] # d.stem[at + 1]
  <2>1. Outcome(t, m)
    BY DEF Led
  <2> QED
    BY <1>1, <2>1 DEF Outcome
<1>5. a \in DOMAIN t /\ a \in Addr /\ Attached(t, a) /\ c \in Atom /\ d \in EntryT /\ m.rest \in Seq(Atom)
      /\ Slot(t, a, c) /\ d = t[a].entry[c] /\ d.child = Child(t, a, c) /\ ~Void(d)
  BY <1>1, <1>3, <1>4 DEF Ends
<1>6. n \in Addr \ DOMAIN t
  BY <1>2, NewNodeIs
<1>8. PICK r, l : r = Head(m.rest) /\ l = LeafEntry(m.rest, v)
  OBVIOUS
<1>9. r \in Atom /\ l \in EntryT /\ l.child = Nil /\ l.value # None /\ r = m.rest[1]
  BY <1>4, <1>5, <1>8, LeafIs
<1>20. PICK q, z : q = d.stem[at + 1] /\ z = RestEntry(d, at)
  OBVIOUS
<1>21. q \in Atom /\ z \in EntryT /\ z.child = d.child /\ z.value = d.value /\ SubSeq(d.stem, 1, at) \in Seq(Atom)
  BY <1>4, <1>5, <1>20, RestIs
<1>7. e \in EntryT /\ e.child = n /\ e.value = None
  BY <1>1, <1>6, <1>21 DEF EntryT, Cut
<1>22. g \in [{q} -> EntryT] /\ g[q] = z
  <2>1. g = Put(<<>>, q, z)
    BY <1>1, <1>20 DEF Moved, RestEntry
  <2>2. PutAlone(EntryT, Put(<<>>, q, z), q, z)
    BY <1>21, EmptyPut
  <2> QED
    BY <2>1, <2>2, SMTT(60) DEF PutAlone
<1>10. f = Put(g, r, l)
  BY <1>1, <1>8 DEF Leaf, LeafEntry
<1>11. f \in [{q, r} -> EntryT] /\ f[r] = l /\ f[q] = z /\ q # r
  <2>1. Puts({q}, EntryT, g, r, l)
    BY <1>9, <1>22, PutIs
  <2>2. q # r /\ {q} \cup {r} = {q, r}
    BY <1>4, <1>9, <1>20
  <2> QED
    BY <1>10, <1>22, <2>1, <2>2 DEF Puts
<1>12. x \in NodeT /\ x.entry = f
  <2>1. 2 % VersionMod \in 0 .. VersionMod - 1
    BY ModIs
  <2>2. {q, r} \in SUBSET Atom
    BY <1>9, <1>21
  <2> QED
    BY <1>1, <1>11, <2>1, <2>2, MakeNode
<1>13. Takes(x.entry, Child(t, a, c))
  <2>1. ~Void(l) /\ ~Void(z) /\ DOMAIN f = {q, r}
    BY <1>5, <1>9, <1>11, <1>21 DEF Void
  <2>2. f[q].child = Child(t, a, c) /\ f[r].child = Nil /\ ~Void(f[q]) /\ ~Void(f[r])
    BY <1>5, <1>9, <1>11, <1>21, <2>1
  <2> QED
    BY <1>11, <1>12, <2>1, <2>2, TwoTake
<1>14. u = Put(SetEntry(t, a, c, e, 1), n, x)
  BY <1>1
<1>15. Tree(u) /\ Loose(u) = Loose(t) /\ Vals(u) = ValsPut(t, a, c, e) \cup NewVals(n, x.entry)
  <2>1. Grafts(t, u, a, c, e, n, x)
    BY <1>2, <1>5, <1>6, <1>7, <1>12, <1>13, <1>14, Grafting
  <2> QED
    BY <2>1 DEF Grafts
<1>16. NewVals(n, x.entry) = IF d.value # None THEN {<<n, q>>, <<n, r>>} ELSE {<<n, r>>}
  <2>1. \A y : y \in NewVals(n, x.entry) <=> (y = <<n, r>> \/ (y = <<n, q>> /\ d.value # None))
    BY <1>9, <1>11, <1>12, <1>21 DEF NewVals
  <2> QED
    BY <2>1
<1>17. ValsPut(t, a, c, e) = Vals(t) \ {<<a, c>>}
  BY <1>7 DEF ValsPut
<1>18. <<n, r>> \notin Vals(t) /\ <<n, q>> \notin Vals(t) /\ (<<a, c>> \in Vals(t) <=> d.value # None)
  BY <1>5, <1>6, <1>9, <1>21, ValIs DEF Slot
<1>19. OneMore(Vals(t), Vals(u))
  <2>1. CASE d.value # None
    <3>1. <<n, q>> # <<n, r>>
      BY <1>11
    <3>2. PICK y, w, h : y = <<n, q>> /\ w = <<n, r>> /\ h = <<a, c>>
      OBVIOUS
    <3>3. y \notin Vals(t) /\ w \notin Vals(t) /\ y # w /\ h \in Vals(t)
      BY <1>18, <2>1, <3>1, <3>2
    <3>4. Vals(u) = ((Vals(t) \ {h}) \cup {y}) \cup {w}
      BY <1>15, <1>16, <1>17, <2>1, <3>2
    <3>5. OneMore(Vals(t), ((Vals(t) \ {h}) \cup {y}) \cup {w})
      BY <1>2, <3>3, MoveAndAdd
    <3> QED
      BY <3>4, <3>5
  <2>2. CASE d.value = None
    <3>1. Vals(u) = Vals(t) \cup {<<n, r>>}
      BY <1>15, <1>16, <1>17, <1>18, <2>2
    <3> QED
      BY <1>2, <1>18, <3>1, AddOne
  <2> QED
    BY <2>1, <2>2
<1> QED
  BY <1>15, <1>19, MoreVals

\* The key ends inside the stem.
LEMMA PlaceStringEnd ==
  ASSUME NEW t, NEW k, Whole(t, k), NEW s, NEW m, Led(t, Root, s, m), NEW p, p = Last(m.path),
         NEW v \in Value, m.result = "string_end", HasRoom(t), NEW n, n = NewNode(t), NEW at, at = Len(p.text) - 1,
         at < Len(Here(t, p).stem), NEW u,
         u = Put(SetEntry(t, p.addr, p.text[1], [Cut(Here(t, p), at, n) EXCEPT !.value = v], 2), n,
                 [version |-> 1 % VersionMod, entry |-> Moved(Here(t, p), at)])
  PROVE  Edited(t, u, k)
<1>1. PICK a, c, e, d, g, x : /\ a = p.addr /\ c = p.text[1] /\ d = Here(t, p)
                              /\ e = [Cut(d, at, n) EXCEPT !.value = v]
                              /\ g = Moved(d, at) /\ x = [version |-> 1 % VersionMod, entry |-> g]
  OBVIOUS
<1>2. Tree(t) /\ IsFiniteSet(Vals(t)) /\ Nodes(t)
  BY DEF Whole, Tree
<1>3. Ends(t, m, p)
  BY <1>2, LedEnds
<1>4. OnSlot(t, p) /\ at \in Nat /\ at < Len(d.stem)
  <2>1. Outcome(t, m)
    BY DEF Led
  <2> QED
    BY <1>1, <2>1 DEF Outcome
<1>5. a \in DOMAIN t /\ a \in Addr /\ Attached(t, a) /\ c \in Atom /\ d \in EntryT
      /\ Slot(t, a, c) /\ d = t[a].entry[c] /\ d.child = Child(t, a, c) /\ ~Void(d)
  BY <1>1, <1>3, <1>4 DEF Ends
<1>6. n \in Addr \ DOMAIN t
  BY <1>2, NewNodeIs
<1>20. PICK q, z : q = d.stem[at + 1] /\ z = RestEntry(d, at)
  OBVIOUS
<1>21. q \in Atom /\ z \in EntryT /\ z.child = d.child /\ z.value = d.value /\ SubSeq(d.stem, 1, at) \in Seq(Atom)
  BY <1>4, <1>5, <1>20, RestIs
<1>7. e \in EntryT /\ e.child = n /\ e.value # None
  <2>1. v # None
    BY TrieAssumption
  <2>2. e = [stem |-> SubSeq(d.stem, 1, at), child |-> n, value |-> v]
    BY <1>1 DEF Cut
  <2> QED
    BY <1>6, <1>21, <2>1, <2>2 DEF EntryT
<1>11. g \in [{q} -> EntryT] /\ g[q] = z
  <2>1. g = Put(<<>>, q, z)
    BY <1>1, <1>20 DEF Moved, RestEntry
  <2>2. PutAlone(EntryT, Put(<<>>, q, z), q, z)
    BY <1>21, EmptyPut
  <2> QED
    BY <2>1, <2>2 DEF PutAlone
<1>12. x \in NodeT /\ x.entry = g
  <2>1. 1 % VersionMod \in 0 .. VersionMod - 1
    BY ModIs
  <2>2. {q} \in SUBSET Atom
    BY <1>21
  <2> QED
    BY <1>1, <1>11, <2>1, <2>2, MakeNode
<1>13. Takes(x.entry, Child(t, a, c))
  <2>1. ~Void(z) /\ DOMAIN g = {q}
    BY <1>5, <1>11, <1>21 DEF Void
  <2> QED
    BY <1>5, <1>11, <1>12, <1>21, <2>1, OneTakes
<1>14. u = Put(SetEntry(t, a, c, e, 2), n, x)
  BY <1>1
<1>15. Tree(u) /\ Loose(u) = Loose(t) /\ Vals(u) = ValsPut(t, a, c, e) \cup NewVals(n, x.entry)
  <2>1. Grafts(t, u, a, c, e, n, x)
    BY <1>2, <1>5, <1>6, <1>7, <1>12, <1>13, <1>14, Grafting
  <2> QED
    BY <2>1 DEF Grafts
<1>16. NewVals(n, x.entry) = IF d.value # None THEN {<<n, q>>} ELSE {}
  BY <1>11, <1>12, <1>21 DEF NewVals
<1>17. ValsPut(t, a, c, e) = Vals(t) \cup {<<a, c>>}
  BY <1>7 DEF ValsPut
<1>18. <<n, q>> \notin Vals(t) /\ (<<a, c>> \in Vals(t) <=> d.value # None)
  BY <1>5, <1>6, <1>21, ValIs DEF Slot
<1>19. OneMore(Vals(t), Vals(u))
  <2>1. CASE d.value # None
    <3>1. Vals(u) = Vals(t) \cup {<<n, q>>}
      BY <1>15, <1>16, <1>17, <1>18, <2>1
    <3> QED
      BY <1>2, <1>18, <3>1, AddOne
  <2>2. CASE d.value = None
    <3>1. Vals(u) = Vals(t) \cup {<<a, c>>} /\ <<a, c>> \notin Vals(t)
      BY <1>15, <1>16, <1>17, <1>18, <2>2
    <3> QED
      BY <1>2, <3>1, AddOne
  <2> QED
    BY <2>1, <2>2
<1> QED
  BY <1>15, <1>19, MoreVals

\* The tree has as many values as before.
Kept(t, u, k) == Whole(u, k) /\ Loose(u) = Loose(t)

\* The keys that a call may be given.
Text == Seq(Atom) \ {<<>>}

\* The mismatch of a key from the root.
LEMMA RootLeads ==
  ASSUME NEW t, Tree(t), NEW s \in Text
  PROVE  Led(t, Root, s, Mismatch(t, Root, s))
<1>1. Root \in DOMAIN t /\ s \in Seq(Atom) /\ s # <<>>
  BY DEF Tree, Nodes, Text
<1> QED
  BY <1>1, MismatchLeads

\* Placing a key makes one more value, and a tree of a tree.
LEMMA PlaceKeeps ==
  ASSUME Whole(node, count), NEW k \in Text, NEW v \in Value,
         Place(Mismatch(node, Root, k), v)
  PROVE  Edited(node, node', count)
<1> DEFINE m == Mismatch(node, Root, k)
           p == Last(m.path)
<1>1. Led(node, Root, k, m)
  BY RootLeads DEF Whole
<1>3. Outcome(node, m)
  BY <1>1 DEF Led
<1>4. CASE /\ m.result = "no_entry"
           /\ node' = SetEntry(node, p.addr, p.text[1], [stem |-> m.rest, child |-> Nil, value |-> v], 1)
  BY <1>1, <1>4, PlaceNoEntry
<1>5. CASE /\ m.result = "stem_end" /\ HasRoom(node)
           /\ node' = Put(SetEntry(node, p.addr, p.text[1], [Here(node, p) EXCEPT !.child = NewNode(node)], 1),
                          NewNode(node),
                          [version |-> 1 % VersionMod, entry |-> Leaf(<< >>, m.rest, v)])
  <2>1. PICK n, u : /\ n = NewNode(node)
                    /\ u = Put(SetEntry(node, p.addr, p.text[1], [Here(node, p) EXCEPT !.child = n], 1), n,
                               [version |-> 1 % VersionMod, entry |-> Leaf(<< >>, m.rest, v)])
    OBVIOUS
  <2>2. Edited(node, u, count)
    BY <1>1, <1>5, <2>1, PlaceStemEnd
  <2> QED
    BY <1>5, <2>1, <2>2
<1>6. CASE /\ m.result = "unequals" /\ HasRoom(node)
           /\ node' = Put(SetEntry(node, p.addr, p.text[1], Cut(Here(node, p), Len(p.text) - 1, NewNode(node)), 1),
                          NewNode(node),
                          [version |-> 2 % VersionMod,
                           entry   |-> Leaf(Moved(Here(node, p), Len(p.text) - 1), m.rest, v)])
  <2>1. PICK n, at, u : /\ n = NewNode(node) /\ at = Len(p.text) - 1
                    /\ u = Put(SetEntry(node, p.addr, p.text[1], Cut(Here(node, p), at, n), 1), n,
                               [version |-> 2 % VersionMod, entry |-> Leaf(Moved(Here(node, p), at), m.rest, v)])
    OBVIOUS
  <2>2. Edited(node, u, count)
    BY <1>1, <1>6, <2>1, PlaceUnequals
  <2> QED
    BY <1>6, <2>1, <2>2
<1>7. CASE /\ m.result = "string_end" /\ Len(p.text) - 1 < Len(Here(node, p).stem) /\ HasRoom(node)
           /\ node' = Put(SetEntry(node, p.addr, p.text[1],
                                   [Cut(Here(node, p), Len(p.text) - 1, NewNode(node)) EXCEPT !.value = v], 2),
                          NewNode(node),
                          [version |-> 1 % VersionMod, entry |-> Moved(Here(node, p), Len(p.text) - 1)])
  <2>1. PICK n, at, u : /\ n = NewNode(node) /\ at = Len(p.text) - 1
                    /\ u = Put(SetEntry(node, p.addr, p.text[1], [Cut(Here(node, p), at, n) EXCEPT !.value = v], 2), n,
                               [version |-> 1 % VersionMod, entry |-> Moved(Here(node, p), at)])
    OBVIOUS
  <2>2. Edited(node, u, count)
    BY <1>1, <1>7, <2>1, PlaceStringEnd
  <2> QED
    BY <1>7, <2>1, <2>2
<1>8. CASE /\ m.result = "string_end" /\ Here(node, p).stem = << >>
           /\ node' = SetEntry(node, p.addr, p.text[1], [Here(node, p) EXCEPT !.value = v], 1)
  <2>1. OnSlot(node, p) /\ Here(node, p).value = None
    <3>1. /\ OnSlot(node, p) /\ Len(p.text) - 1 \in 0 .. Len(Here(node, p).stem)
          /\ \/ Len(p.text) - 1 < Len(Here(node, p).stem)
             \/ Len(p.text) - 1 = Len(Here(node, p).stem) /\ Here(node, p).value = None
      BY <1>3, <1>8 DEF Outcome
    <3>2. Len(Here(node, p).stem) = 0
      BY <1>8
    <3>3. PICK at, l, h : at = Len(p.text) - 1 /\ l = Len(Here(node, p).stem) /\ h = Here(node, p).value
      OBVIOUS
    <3>4. at \in 0 .. l /\ (at < l \/ (at = l /\ h = None)) /\ l = 0
      BY <3>1, <3>2, <3>3
    <3>5. h = None
      BY <3>4
    <3> QED
      BY <3>1, <3>3, <3>5
  <2> QED
    BY <1>1, <1>8, <2>1, PlaceValue
<1>9. \/ m.result = "no_entry" \/ m.result = "stem_end" \/ m.result = "unequals" \/ m.result = "string_end"
  BY DEF Place
<1> USE DEF Place
<1>10. CASE m.result = "no_entry"
  BY <1>4, <1>10, ZenonT(20)
<1>11. CASE m.result = "stem_end"
  BY <1>5, <1>11, ZenonT(20)
<1>12. CASE m.result = "unequals"
  BY <1>6, <1>12, ZenonT(20)
<1>13. CASE m.result = "string_end"
  BY <1>7, <1>8, <1>13, ZenonT(20)
<1> QED
  BY <1>9, <1>10, <1>11, <1>12, <1>13

\* Assigning a new value keeps the tree and the number of its values.
LEMMA ReassignKeeps ==
  ASSUME Whole(node, count), NEW k \in Text, NEW v \in Value,
         Mismatch(node, Root, k).result = "equals", Reassign(Mismatch(node, Root, k), v)
  PROVE  Kept(node, node', count)
<1>0. PICK m : m = Mismatch(node, Root, k)
  OBVIOUS
<1>1. Led(node, Root, k, m) /\ Tree(node) /\ m.result = "equals"
  BY <1>0, RootLeads DEF Whole
<1>2. PICK p, a, c, d, e : p = Last(m.path) /\ a = p.addr /\ c = p.text[1] /\ d = Here(node, p)
                           /\ e = [d EXCEPT !.value = v]
  OBVIOUS
<1>3. Ends(node, m, p)
  BY <1>1, <1>2, LedEnds
<1>4. OnSlot(node, p) /\ d.value # None
  <2>1. Outcome(node, m)
    BY <1>1 DEF Led
  <2> QED
    BY <1>1, <1>2, <2>1 DEF Outcome
<1>5. a \in DOMAIN node /\ a \in Addr /\ Attached(node, a) /\ c \in Atom /\ d \in EntryT
      /\ Slot(node, a, c) /\ d = node[a].entry[c] /\ d.child = Child(node, a, c)
  BY <1>2, <1>3, <1>4, Zenon DEF Ends
<1>6. e \in EntryT /\ e.child = d.child /\ e.value # None
  <2>1. v # None
    BY TrieAssumption
  <2> QED
    BY <1>2, <1>5, <2>1, Zenon DEF EntryT
<1>7. PICK u : u = SetEntry(node, a, c, e, 1)
  OBVIOUS
<1>8. node' = u
  BY <1>0, <1>2, <1>7 DEF Reassign
<1>9. ~Void(e)
  BY <1>6 DEF Void
<1>10. Tree(u) /\ Loose(u) = Loose(node) /\ Vals(u) = ValsPut(node, a, c, e)
  BY <1>1, <1>5, <1>6, <1>7, <1>9, Retouched
<1>11. Vals(u) = Vals(node)
  <2>1. <<a, c>> \in Vals(node)
    BY <1>4, <1>5, ValIs
  <2> QED
    BY <1>6, <1>10, <2>1 DEF ValsPut
<1> QED
  BY <1>8, <1>10, <1>11 DEF Kept, Whole

\* A call that fails between two of its steps leaves a node that nothing refers to.
LEMMA LeakKeeps ==
  ASSUME Whole(node, count), NEW k, Leak(Mismatch(node, Root, k))
  PROVE  /\ Whole(node', count) /\ thrown' = TRUE /\ count' = count
         /\ Vals(node') = Vals(node)
         /\ \A b, d : Slot(node', b, d) => b \in DOMAIN node /\ node'[b] = node[b]
<1>1. Tree(node) /\ Nodes(node) /\ IsFiniteSet(Vals(node)) /\ count = Cardinality(Vals(node))
  BY DEF Whole, Tree
<1>2. PICK n, u : n = NewNode(node) /\ u = Put(node, n, EmptyNode)
  OBVIOUS
<1>3. node' = u /\ thrown' = TRUE /\ count' = count /\ HasRoom(node)
  BY <1>2 DEF Leak, Clash
<1>4. n \in Addr \ DOMAIN node
  BY <1>1, <1>2, <1>3, NewNodeIs
<1>5. EmptyNode \in NodeT /\ DOMAIN EmptyNode.entry = {}
  <2>1. 0 \in 0 .. VersionMod - 1
    BY TrieAssumption
  <2>2. <<>> \in [{} -> EntryT] /\ {} \in SUBSET Atom /\ DOMAIN <<>> = {}
    OBVIOUS
  <2> QED
    BY <2>1, <2>2, MakeNode DEF EmptyNode
<1>6. Grown(node, u, n, EmptyNode)
  BY <1>1, <1>2, <1>4, <1>5, GrownIs
<1>7. Nodes(u) /\ DOMAIN u = DOMAIN node \cup {n} /\ u[n] = EmptyNode /\ \A b \in DOMAIN node : u[b] = node[b]
  BY <1>6 DEF Grown
<1>8. Tree(u)
  BY <1>1, <1>4, <1>5, <1>7, LeakKeepsTree
<1>9. ASSUME NEW b \in Addr, NEW d \in Atom
      PROVE  <<b, d>> \in Vals(u) <=> <<b, d>> \in Vals(node)
  <2>1. /\ <<b, d>> \in Vals(u) <=> Slot(u, b, d) /\ u[b].entry[d].value # None
        /\ <<b, d>> \in Vals(node) <=> Slot(node, b, d) /\ node[b].entry[d].value # None
    BY ValIs
  <2> QED
    BY <1>4, <1>5, <1>7, <2>1 DEF Slot
<1>10. Vals(u) \in SUBSET (Addr \X Atom) /\ Vals(node) \in SUBSET (Addr \X Atom)
  BY DEF Vals
<1>11. Vals(u) = Vals(node)
  BY <1>9, <1>10, SamePairs
<1>12. \A b, d : Slot(u, b, d) => b \in DOMAIN node /\ u[b] = node[b]
  BY <1>5, <1>7 DEF Slot
<1> QED
  BY <1>1, <1>3, <1>8, <1>11, <1>12 DEF Whole

\* What every step keeps.
TrieInv == Whole(node, count) /\ thrown \in BOOLEAN
Good == TrieInv' /\ (Loose(node)' # Loose(node) => thrown')

\* The calls that insert or update keep the invariant.
LEMMA Inserting ==
  ASSUME TrieInv, NEW k \in Text, NEW v \in Value,
         Insert(k, v) \/ PrefixedInsert(k, v) \/ Upsert(k, v) \/ Update(k, v)
  PROVE  Good
<1>1. Whole(node, count) /\ count \in Nat
  BY FS_CardinalityType DEF TrieInv, Whole
<1> DEFINE m == Mismatch(node, Root, k)
<1>3. CASE thrown' = FALSE /\ UNCHANGED <<node, count>>
  BY <1>1, <1>3 DEF Good, TrieInv
<1>4. CASE thrown' = TRUE /\ UNCHANGED <<node, count>>
  BY <1>1, <1>4 DEF Good, TrieInv
<1>5. CASE Place(m, v) /\ count' = count + 1 /\ thrown' = FALSE
  <2>1. Edited(node, node', count)
    BY <1>1, <1>5, PlaceKeeps
  <2> QED
    BY <1>5, <2>1 DEF Good, TrieInv, Edited
<1>6. CASE m.result = "equals" /\ Reassign(m, v) /\ thrown' = FALSE /\ UNCHANGED count
  <2>1. Kept(node, node', count)
    BY <1>1, <1>6, ReassignKeeps
  <2> QED
    BY <1>6, <2>1 DEF Good, TrieInv, Kept
<1>7. CASE Leak(m)
  <2>1. Whole(node', count) /\ thrown' = TRUE /\ count' = count
    BY <1>1, <1>7, LeakKeeps
  <2> QED
    BY <2>1 DEF Good, TrieInv
<1>8. CASE Insert(k, v)
  BY <1>3, <1>4, <1>5, <1>8 DEF Insert
<1>9. CASE PrefixedInsert(k, v)
  BY <1>3, <1>5, <1>7, <1>9 DEF PrefixedInsert
<1>10. CASE Upsert(k, v)
  BY <1>5, <1>6, <1>7, <1>10 DEF Upsert
<1>11. CASE Update(k, v)
  BY <1>6, <1>11 DEF Update
<1> QED
  BY <1>8, <1>9, <1>10, <1>11

-----------------------------------------------------------------------------
(* Iterators.                                                              *)

\* An iterator stands on an entry, and sits on one that has a value.
Stands(t, i) == Way(t, Root, i) /\ OnSlot(t, Last(i))
Valued(t, p) == p.has_data /\ Here(t, p).value # None /\ (p.has_child => Here(t, p).child # Nil)
Sits(t, i) == Stands(t, i) /\ Valued(t, Last(i))

\* What there is at each position of an iterator that stands.
Steps(t, i) ==
  /\ i \in Seq(PosT) /\ i # <<>> /\ Len(i) \in Nat \ {0} /\ Last(i) = i[Len(i)] /\ i[1].addr = Root
  /\ \A m \in 1 .. Len(i) : /\ i[m] \in PosT /\ OnSlot(t, i[m]) /\ Slot(t, i[m].addr, i[m].text[1])
                            /\ i[m].addr \in DOMAIN t /\ i[m].addr \in Addr /\ i[m].text[1] \in Atom
                            /\ i[m].text # <<>> /\ Attached(t, i[m].addr)
                            /\ Here(t, i[m]) = t[i[m].addr].entry[i[m].text[1]] /\ Here(t, i[m]) \in EntryT
                            /\ Here(t, i[m]).child = Child(t, i[m].addr, i[m].text[1])
                            /\ ~Void(Here(t, i[m]))
  /\ \A m \in 1 .. Len(i) - 1 : Child(t, i[m].addr, i[m].text[1]) = i[m + 1].addr

\* What an iterator stands on, position by position.
LEMMA StandsSteps ==
  ASSUME NEW t, NEW i, Tree(t), Stands(t, i)
  PROVE  Steps(t, i)
<1>1. Nodes(t) /\ Linked(t) /\ Way(t, Root, i) /\ OnSlot(t, Last(i))
  BY DEF Tree, Stands
<1>2. i \in Seq(PosT) /\ i # <<>> /\ i[1].addr = Root
  BY <1>1 DEF Way
<1>3. Len(i) \in Nat \ {0} /\ \A m \in 1 .. Len(i) : i[m] \in PosT
  BY <1>2, Members
<1>4. Last(i) = i[Len(i)]
  BY DEF Last
<1>5. \A m \in 1 .. Len(i) : OnSlot(t, i[m]) /\ i[m].addr \in DOMAIN t /\ i[m].text # <<>>
  <2>1. SUFFICES ASSUME NEW m \in 1 .. Len(i) PROVE OnSlot(t, i[m]) /\ i[m].addr \in DOMAIN t /\ i[m].text # <<>>
    OBVIOUS
  <2>2. m = Len(i) \/ m \in 1 .. Len(i) - 1
    BY <1>3
  <2> QED
    BY <1>1, <1>4, <2>2 DEF Way
<1>6. \A m \in 1 .. Len(i) : Attached(t, i[m].addr)
  BY <1>1, WayAttached, SMTT(60)
<1>7. ASSUME NEW m \in 1 .. Len(i)
      PROVE  /\ Slot(t, i[m].addr, i[m].text[1]) /\ i[m].addr \in Addr /\ i[m].text[1] \in Atom
             /\ Here(t, i[m]) = t[i[m].addr].entry[i[m].text[1]] /\ Here(t, i[m]) \in EntryT
             /\ Here(t, i[m]).child = Child(t, i[m].addr, i[m].text[1])
             /\ ~Void(Here(t, i[m]))
  <2>1. PICK a, c : a = i[m].addr /\ c = i[m].text[1]
    OBVIOUS
  <2>2. Slot(t, a, c)
    BY <1>5, <2>1 DEF OnSlot
  <2>3. a \in Addr /\ c \in Atom /\ t[a].entry[c] \in EntryT /\ ~Void(t[a].entry[c])
    BY <1>1, <2>2, NodeTypes DEF Linked
  <2>4. Here(t, i[m]) = t[a].entry[c] /\ Child(t, a, c) = t[a].entry[c].child
    BY <2>1 DEF Here, Child
  <2> QED
    BY <2>1, <2>2, <2>3, <2>4
<1>8. \A m \in 1 .. Len(i) - 1 : Child(t, i[m].addr, i[m].text[1]) = i[m + 1].addr
  <2>1. SUFFICES ASSUME NEW m \in 1 .. Len(i) - 1 PROVE Child(t, i[m].addr, i[m].text[1]) = i[m + 1].addr
    OBVIOUS
  <2>2. Here(t, i[m]).child = i[m + 1].addr
    BY <1>1 DEF Way
  <2> QED
    BY <2>2 DEF Here, Child
<1> QED
  BY <1>2, <1>3, <1>4, <1>5, <1>6, <1>7, <1>8 DEF Steps

\* Two iterators that come to the same node came the same way.
SameWay(i, j, l, m) ==
  l = m /\ \A x \in 1 .. l - 1 : i[x].addr = j[x].addr /\ i[x].text[1] = j[x].text[1]

\* There is only one way to a node.
LEMMA WaysAgree ==
  ASSUME NEW t, NEW i, NEW j, Tree(t), Stands(t, i), Stands(t, j)
  PROVE  \A l \in 1 .. Len(i), m \in 1 .. Len(j) : i[l].addr = j[m].addr => SameWay(i, j, l, m)
<1> DEFINE T == {n \in Nat : n + 1 <= Len(i) =>
                   \A m \in 1 .. Len(j) : i[n + 1].addr = j[m].addr => SameWay(i, j, n + 1, m)}
<1>0. Steps(t, i) /\ Steps(t, j) /\ Linked(t) /\ OneParent(t) /\ Nodes(t)
  BY StandsSteps DEF Tree
<1>a. Len(i) \in Nat \ {0} /\ Len(j) \in Nat \ {0} /\ i[1].addr = Root /\ j[1].addr = Root
  BY <1>0 DEF Steps
<1>b. ASSUME NEW x, Steps(t, x), NEW m \in 1 .. Len(x) - 1, Len(x) \in Nat \ {0}
      PROVE  /\ Slot(t, x[m].addr, x[m].text[1]) /\ x[m].addr \in Addr /\ x[m].text[1] \in Atom
             /\ Child(t, x[m].addr, x[m].text[1]) = x[m + 1].addr
             /\ x[m + 1].addr # Root /\ x[m + 1].addr # Nil
  <2>1. m \in 1 .. Len(x) /\ m + 1 \in 1 .. Len(x)
    BY <1>b
  <2>2. PICK a, c, d : a = x[m].addr /\ c = x[m].text[1] /\ d = x[m + 1].addr
    OBVIOUS
  <2>3. Slot(t, a, c) /\ a \in Addr /\ c \in Atom /\ Child(t, a, c) = d /\ d \in DOMAIN t
    BY <1>b, <2>1, <2>2 DEF Steps
  <2>4. d # Nil
    BY <1>0, <2>3, NodeTypes
  <2>5. d # Root
    BY <1>0, <2>3, <2>4 DEF Linked
  <2> QED
    BY <2>2, <2>3, <2>4, <2>5
<1>1. 0 \in T
  <2>1. SUFFICES ASSUME NEW m \in 1 .. Len(j), j[m].addr = Root PROVE SameWay(i, j, 1, m)
    BY <1>a
  <2>2. CASE m = 1
    BY <2>2 DEF SameWay
  <2>3. CASE m # 1
    <3>1. PICK k : k = m - 1
      OBVIOUS
    <3>2. k \in 1 .. Len(j) - 1 /\ m = k + 1
      BY <1>a, <2>3, <3>1
    <3> QED
      BY <1>0, <1>a, <1>b, <2>1, <3>2
  <2> QED
    BY <2>2, <2>3
<1>2. ASSUME NEW n \in T PROVE n + 1 \in T
  <2>0. n \in Nat
    OBVIOUS
  <2>1. SUFFICES ASSUME n + 2 <= Len(i), NEW m \in 1 .. Len(j), i[n + 2].addr = j[m].addr
                 PROVE  SameWay(i, j, n + 2, m)
    BY <2>0
  <2>2. n + 1 \in 1 .. Len(i) - 1 /\ n + 1 \in 1 .. Len(i)
    BY <1>a, <2>0, <2>1
  <2>3. /\ Slot(t, i[n + 1].addr, i[n + 1].text[1]) /\ i[n + 1].addr \in Addr /\ i[n + 1].text[1] \in Atom
        /\ Child(t, i[n + 1].addr, i[n + 1].text[1]) = i[n + 2].addr
        /\ i[n + 2].addr # Root /\ i[n + 2].addr # Nil
    <3>1. PICK k : k = n + 1
      OBVIOUS
    <3>2. n + 2 = k + 1
      BY <2>0, <3>1
    <3> QED
      BY <1>0, <1>a, <1>b, <2>2, <3>1, <3>2
  <2>4. m # 1
    BY <1>a, <2>1, <2>3
  <2>5. PICK k : k = m - 1
    OBVIOUS
  <2>6. k \in 1 .. Len(j) - 1 /\ m = k + 1 /\ k \in 1 .. Len(j)
    BY <1>a, <2>4, <2>5
  <2>7. /\ Slot(t, j[k].addr, j[k].text[1]) /\ j[k].addr \in Addr /\ j[k].text[1] \in Atom
        /\ Child(t, j[k].addr, j[k].text[1]) = j[m].addr
    BY <1>0, <1>a, <1>b, <2>6
  <2>8. i[n + 1].addr = j[k].addr /\ i[n + 1].text[1] = j[k].text[1]
    BY <1>0, <2>1, <2>3, <2>7 DEF OneParent
  <2>9. SameWay(i, j, n + 1, k)
    <3>1. n + 1 <= Len(i) => \A y \in 1 .. Len(j) : i[n + 1].addr = j[y].addr => SameWay(i, j, n + 1, y)
      OBVIOUS
    <3>2. n + 1 <= Len(i)
      BY <2>2
    <3> QED
      BY <2>6, <2>8, <3>1, <3>2
  <2>10. n + 1 = k /\ \A x \in 1 .. n : i[x].addr = j[x].addr /\ i[x].text[1] = j[x].text[1]
    <3>1. (n + 1) - 1 = n
      BY <2>0
    <3> QED
      BY <2>9, <3>1 DEF SameWay
  <2>11. n + 2 = m /\ (n + 2) - 1 = n + 1
    BY <2>0, <2>6, <2>10
  <2>12. ASSUME NEW x \in 1 .. n + 1 PROVE i[x].addr = j[x].addr /\ i[x].text[1] = j[x].text[1]
    <3>1. x \in 1 .. n \/ x = n + 1
      BY <2>0
    <3> QED
      BY <2>8, <2>10, <3>1
  <2> QED
    BY <2>11, <2>12 DEF SameWay
<1>3. T = Nat
  <2>1. T \in SUBSET Nat
    OBVIOUS
  <2> HIDE DEF T
  <2> QED
    BY <1>1, <1>2, <2>1, NatSet
<1>4. SUFFICES ASSUME NEW l \in 1 .. Len(i), NEW m \in 1 .. Len(j), i[l].addr = j[m].addr
               PROVE  SameWay(i, j, l, m)
  OBVIOUS
<1>5. PICK n \in Nat : l = n + 1 /\ n + 1 <= Len(i)
  <2>1. l - 1 \in Nat /\ l = (l - 1) + 1 /\ l <= Len(i)
    BY <1>a
  <2> QED
    BY <2>1
<1>6. n \in T
  BY <1>3
<1> QED
  BY <1>4, <1>5, <1>6

\* The first positions of an iterator that stands.
StandsTo(t, i, n, j) == Stands(t, j) /\ Len(j) = n /\ Last(j) = i[n] /\ \A m \in 1 .. n : j[m] = i[m]

\* An iterator that stands on an entry stood on each entry of its way.
LEMMA StandsPart ==
  ASSUME NEW t, NEW i, NEW n \in 1 .. Len(i), Tree(t), Stands(t, i), NEW j, j = SubSeq(i, 1, n)
  PROVE  StandsTo(t, i, n, j)
<1>1. Steps(t, i)
  BY StandsSteps
<1>2. i \in Seq(PosT) /\ Len(i) \in Nat \ {0} /\ n \in Nat \ {0} /\ n <= Len(i)
  BY <1>1 DEF Steps
<1>3. j \in Seq(PosT) /\ Len(j) = n /\ \A m \in 1 .. n : j[m] = i[m]
  BY <1>2, FirstPart
<1>4. j # <<>> /\ Last(j) = i[n] /\ j[1].addr = Root
  <2>1. Last(j) = j[Len(j)] /\ j # <<>> /\ 1 \in 1 .. n
    BY <1>2, <1>3, Members DEF Last
  <2> QED
    BY <1>1, <1>3, <2>1 DEF Steps
<1>5. Way(t, Root, j)
  <2>1. ASSUME NEW m \in 1 .. n PROVE j[m].addr \in DOMAIN t /\ j[m].text # <<>>
    <3>1. m \in 1 .. Len(i)
      BY <1>2
    <3> QED
      BY <1>1, <1>3, <3>1 DEF Steps
  <2>2. ASSUME NEW m \in 1 .. n - 1 PROVE OnSlot(t, j[m]) /\ Here(t, j[m]).child = j[m + 1].addr
    <3>1. m \in 1 .. Len(i) /\ m \in 1 .. Len(i) - 1 /\ m \in 1 .. n /\ m + 1 \in 1 .. n
      BY <1>2
    <3> QED
      BY <1>1, <1>3, <3>1 DEF Steps
  <2> QED
    BY <1>3, <1>4, <2>1, <2>2 DEF Way
<1> QED
  BY <1>1, <1>3, <1>4, <1>5 DEF Steps, Stands, StandsTo

\* The last position of a way replaced by another one of the same node.
Turned(t, i, p, j) ==
  /\ Way(t, Root, j) /\ Len(j) = Len(i) /\ Last(j) = p /\ (\A m \in 1 .. Len(i) - 1 : j[m] = i[m])
  /\ Front(i) \in Seq(PosT) /\ KeyAt(j) = KeyAt(Front(i)) \o p.text /\ Front(j) = Front(i)

\* A way whose last position is replaced.
LEMMA Replaced ==
  ASSUME NEW t, NEW i, Way(t, Root, i), NEW p \in PosT, p.addr = Last(i).addr, p.text # <<>>,
         NEW j, j = Append(Front(i), p)
  PROVE  Turned(t, i, p, j)
<1>1. i \in Seq(PosT) /\ i # <<>>
  BY DEF Way
<1>2. /\ Front(i) \in Seq(PosT) /\ Len(Front(i)) = Len(i) - 1 /\ Len(i) \in Nat \ {0}
      /\ Last(i) = i[Len(i)] /\ \A n \in 1 .. Len(i) - 1 : Front(i)[n] = i[n]
  BY <1>1, FrontLast
<1>3. PICK f : f = Front(i)
  OBVIOUS
<1>4. /\ j \in Seq(PosT) /\ j # <<>> /\ Len(j) = Len(f) + 1
      /\ j[Len(f) + 1] = p /\ \A n \in 1 .. Len(f) : j[n] = f[n]
  BY <1>2, <1>3, Appended
<1>5. Len(f) + 1 = Len(i) /\ Len(f) = Len(i) - 1
  BY <1>2, <1>3
<1>6. Len(j) = Len(i) /\ j[Len(i)] = p /\ \A m \in 1 .. Len(i) - 1 : j[m] = i[m]
  BY <1>2, <1>3, <1>4, <1>5
<1>7. Last(j) = p /\ Front(j) = f
  BY <1>2, <1>3, AppendFrontLast
<1>8. KeyAt(j) = KeyAt(f) \o p.text
  BY <1>2, <1>3, KeyGrows
<1>9. Way(t, Root, j)
  <2>1. j[1].addr = Root
    <3>1. Len(i) = 1 \/ 1 \in 1 .. Len(i) - 1
      BY <1>2
    <3> QED
      BY <1>2, <1>6, <3>1 DEF Way
  <2>2. ASSUME NEW m \in 1 .. Len(j) PROVE j[m].addr \in DOMAIN t /\ j[m].text # <<>>
    <3>1. m \in 1 .. Len(i) /\ (m = Len(i) \/ m \in 1 .. Len(i) - 1)
      BY <1>2, <1>6
    <3> QED
      BY <1>2, <1>6, <3>1 DEF Way
  <2>3. ASSUME NEW m \in 1 .. Len(j) - 1 PROVE OnSlot(t, j[m]) /\ Here(t, j[m]).child = j[m + 1].addr
    <3>1. m \in 1 .. Len(i) - 1 /\ (m + 1 = Len(i) \/ m + 1 \in 1 .. Len(i) - 1)
      BY <1>2, <1>6
    <3>2. j[m] = i[m] /\ j[m + 1].addr = i[m + 1].addr
      BY <1>2, <1>6, <3>1
    <3> QED
      BY <3>1, <3>2 DEF Way
  <2> QED
    BY <1>4, <2>1, <2>2, <2>3 DEF Way
<1> QED
  BY <1>2, <1>3, <1>6, <1>7, <1>8, <1>9 DEF Turned

\* A position loaded from an entry.
LoadIs(t, a, c, p) ==
  /\ p \in PosT /\ p.addr = a /\ p.text # <<>> /\ p.text[1] = c /\ OnSlot(t, p)
  /\ Here(t, p) = t[a].entry[c] /\ Here(t, p).child = Child(t, a, c)
  /\ p.has_child <=> Child(t, a, c) # Nil
  /\ p.has_data <=> t[a].entry[c].value # None

\* What load_iterator takes from an entry.
LEMMA Loaded ==
  ASSUME NEW t, NEW a, NEW c, Nodes(t), Slot(t, a, c)
  PROVE  LoadIs(t, a, c, Load(t, a, c))
<1>1. PICK stem : stem = t[a].entry[c].stem
  OBVIOUS
<1>2. stem \in Seq(Atom)
  BY <1>1, NodeTypes, EntryTypes
<1>3. PICK p : p = Position(t, a, c, stem)
  OBVIOUS
<1>4. PositionIs(t, a, c, stem, p)
  BY <1>2, <1>3, Placed
<1>5. p.addr = a /\ p.text[1] = c
  BY <1>4 DEF PositionIs
<1>6. OnSlot(t, p) /\ Here(t, p) = t[a].entry[c] /\ Here(t, p).child = Child(t, a, c)
  BY <1>5 DEF OnSlot, Here, Child
<1>7. LoadIs(t, a, c, p)
  BY <1>4, <1>6 DEF PositionIs, LoadIs
<1> QED
  BY <1>1, <1>3, <1>7 DEF Load

\* A function without a domain.
LEMMA EmptyEntry ==
  ASSUME NEW T, NEW f, f \in [DOMAIN f -> T]
  PROVE  f = <<>> <=> DOMAIN f = {}
<1>1. DOMAIN f = {} => f = <<>>
  OBVIOUS
<1>2. DOMAIN <<>> = {}
  OBVIOUS
<1> QED
  BY <1>1, <1>2

\* The nodes with entries.
Full(t) == {d \in DOMAIN t : t[d].entry # <<>>}

\* Membership in Full.
LEMMA FullIs ==
  ASSUME NEW t, Nodes(t)
  PROVE  \A b : b \in Full(t) <=> b \in DOMAIN t /\ DOMAIN t[b].entry # {}
<1>1. ASSUME NEW b \in DOMAIN t PROVE t[b].entry = <<>> <=> DOMAIN t[b].entry = {}
  <2>1. t[b].entry \in [DOMAIN t[b].entry -> EntryT]
    BY NodeTypes
  <2> QED
    BY <2>1, EmptyEntry
<1> QED
  BY <1>1 DEF Full

\* The atom of the first entry.
Foremost(t, b) == Outermost("first", DOMAIN t[b].entry)

\* A node with entries has a first one.
LEMMA ForemostIs ==
  ASSUME NEW t, Nodes(t), NEW b \in Full(t)
  PROVE  Slot(t, b, Foremost(t, b))
<1>1. b \in DOMAIN t /\ DOMAIN t[b].entry # {} /\ DOMAIN t[b].entry \in SUBSET Nat
  <2>1. b \in DOMAIN t /\ DOMAIN t[b].entry # {}
    BY FullIs
  <2>2. DOMAIN t[b].entry \in SUBSET Atom
    BY <2>1, NodeTypes
  <2> QED
    BY <2>1, <2>2, TrieAssumption
<1>2. PICK A : A = DOMAIN t[b].entry
  OBVIOUS
<1>3. \E m \in A : \A k \in A : m <= k
  BY <1>1, <1>2, LeastNat
<1>4. Min(A) \in A
  BY <1>3 DEF Min
<1> QED
  BY <1>1, <1>2, <1>4 DEF Foremost, Outermost, Slot

\* The positions that lead down from node b, given those that lead down from
\* its children.
Downward(t, f) ==
  [b \in Full(t) |->
     LET p == Load(t, b, Outermost("first", DOMAIN t[b].entry))
     IN  IF p.has_data THEN <<p>> ELSE <<p>> \o f[Here(t, p).child]]

\* A way down to a value.
LeadsDown(t, b, w) == Way(t, b, w) /\ OnSlot(t, Last(w)) /\ Valued(t, Last(w))

\* Descend is the least solution of the recursion.
LEMMA DescendIs ==
  ASSUME NEW t, NEW i, NEW a
  PROVE  Descend(t, i, a, "first") = i \o (CHOOSE f : f = Downward(t, f))[a]
BY DEF Descend, Downward, Full

\* One step down.
LEMMA DownwardStep ==
  ASSUME NEW t, Tree(t), NEW b \in Full(t), NEW f
  PROVE  \E p : /\ LoadIs(t, b, Foremost(t, b), p)
                /\ p.has_data => Downward(t, f)[b] = <<p>>
                /\ ~p.has_data => /\ Downward(t, f)[b] = <<p>> \o f[Child(t, b, Foremost(t, b))]
                                  /\ Child(t, b, Foremost(t, b)) \in Full(t)
<1>0. Nodes(t) /\ Linked(t)
  BY DEF Tree
<1>1. PICK c : c = Foremost(t, b)
  OBVIOUS
<1>2. Slot(t, b, c)
  BY <1>0, <1>1, ForemostIs
<1>3. PICK p : p = Load(t, b, c)
  OBVIOUS
<1>4. LoadIs(t, b, c, p)
  BY <1>0, <1>2, <1>3, Loaded
<1>5. Downward(t, f)[b] = IF p.has_data THEN <<p>> ELSE <<p>> \o f[Here(t, p).child]
  BY <1>1, <1>3 DEF Downward, Foremost
<1>6. ASSUME ~p.has_data PROVE Child(t, b, c) \in Full(t)
  <2>1. b \in Addr /\ c \in Atom
    BY <1>0, <1>2, NodeTypes
  <2>2. ~Void(t[b].entry[c]) /\ t[b].entry[c].value = None
    BY <1>0, <1>2, <1>4, <1>6, <2>1 DEF Linked, LoadIs
  <2>3. Child(t, b, c) # Nil
    BY <2>2 DEF Void, Child
  <2> QED
    BY <1>0, <1>2, <2>1, <2>3, FullIs DEF Linked
<1> QED
  BY <1>1, <1>4, <1>5, <1>6 DEF LoadIs

\* From every node with entries the first entries lead down to a value.
LEMMA DescendLeads ==
  ASSUME NEW t, Tree(t), NEW a \in Full(t)
  PROVE  \E w : LeadsDown(t, a, w) /\ \A i : Descend(t, i, a, "first") = i \o w
<1> DEFINE D == Full(t)
           V == Seq(PosT)
           H == [f \in [D -> V] |-> Downward(t, f)]
<1>0. Nodes(t) /\ Linked(t) /\ D \in SUBSET DOMAIN t
  BY DEF Tree, Full
<1>1. PICK rank \in [DOMAIN t -> Nat] : Descends(t, rank)
  BY DEF Tree, Ranked
<1>2. PICK r \in [D -> Nat] : \A b \in D : r[b] = rank[b]
  <2>1. [b \in D |-> rank[b]] \in [D -> Nat]
    BY <1>0
  <2> QED
    BY <2>1
<1>3. ASSUME NEW b \in D, Child(t, b, Foremost(t, b)) \in D
      PROVE  r[Child(t, b, Foremost(t, b))] < r[b]
  <2>1. PICK c, d : c = Foremost(t, b) /\ d = Child(t, b, c)
    OBVIOUS
  <2>2. Slot(t, b, c) /\ d \in DOMAIN t
    BY <1>0, <1>3, <2>1, ForemostIs
  <2>3. b \in Addr /\ c \in Atom /\ d # Nil
    BY <1>0, <2>2, NodeTypes
  <2>4. rank[d] < rank[b]
    BY <1>1, <2>1, <2>2, <2>3 DEF Descends
  <2> QED
    BY <1>2, <1>3, <2>1, <2>4
<1>4. \A f \in [D -> V] : Downward(t, f) \in [D -> V]
  <2>1. SUFFICES ASSUME NEW f \in [D -> V] PROVE Downward(t, f) \in [D -> V]
    OBVIOUS
  <2>2. ASSUME NEW b \in D PROVE Downward(t, f)[b] \in V
    <3>1. PICK p : /\ LoadIs(t, b, Foremost(t, b), p)
                   /\ p.has_data => Downward(t, f)[b] = <<p>>
                   /\ ~p.has_data => /\ Downward(t, f)[b] = <<p>> \o f[Child(t, b, Foremost(t, b))]
                                     /\ Child(t, b, Foremost(t, b)) \in Full(t)
      BY DownwardStep
    <3>2. p \in PosT /\ <<p>> \in Seq(PosT)
      BY <3>1 DEF LoadIs
    <3>3. CASE p.has_data
      BY <3>1, <3>2, <3>3
    <3>4. CASE ~p.has_data
      <4>1. PICK x : x = f[Child(t, b, Foremost(t, b))]
        OBVIOUS
      <4>2. x \in Seq(PosT)
        BY <3>1, <3>4, <4>1
      <4>3. <<p>> \o x \in Seq(PosT)
        BY <3>2, <4>2, Joined
      <4> QED
        BY <3>1, <3>4, <4>1, <4>3
    <3> QED
      BY <3>3, <3>4
  <2>3. Downward(t, f) = [b \in D |-> Downward(t, f)[b]]
    BY DEF Downward
  <2> HIDE DEF D, V
  <2> QED
    BY <2>2, <2>3
<1>5. Upward(D, V, r, H)
  <2>1. ASSUME NEW f \in [D -> V], NEW g \in [D -> V], NEW b \in D, \A c \in D : r[c] < r[b] => f[c] = g[c]
        PROVE  H[f][b] = H[g][b]
    <3>1. H[f] = Downward(t, f) /\ H[g] = Downward(t, g)
      OBVIOUS
    <3>2. PICK p : /\ LoadIs(t, b, Foremost(t, b), p)
                   /\ p.has_data => Downward(t, f)[b] = <<p>>
                   /\ ~p.has_data => /\ Downward(t, f)[b] = <<p>> \o f[Child(t, b, Foremost(t, b))]
                                     /\ Child(t, b, Foremost(t, b)) \in Full(t)
      BY DownwardStep
    <3>3. Child(t, b, Foremost(t, b)) \in D => f[Child(t, b, Foremost(t, b))] = g[Child(t, b, Foremost(t, b))]
      BY <1>3, <2>1
    <3>4. Downward(t, f)[b] = Downward(t, g)[b]
      <4>1. PICK q : q = Load(t, b, Foremost(t, b))
        OBVIOUS
      <4>2. LoadIs(t, b, Foremost(t, b), q)
        BY <1>0, <4>1, ForemostIs, Loaded
      <4>3. \A e : Downward(t, e)[b] = IF q.has_data THEN <<q>> ELSE <<q>> \o e[Here(t, q).child]
        BY <4>1 DEF Downward, Foremost
      <4>4. Here(t, q).child = Child(t, b, Foremost(t, b)) /\ (q.has_data <=> p.has_data)
        BY <3>2, <4>2 DEF LoadIs
      <4> QED
        BY <3>2, <3>3, <4>3, <4>4
    <3> HIDE DEF H
    <3> QED
      BY <3>1, <3>4
  <2> HIDE DEF H, D, V
  <2> QED
    BY <2>1 DEF Upward
<1>6. \E f \in [D -> V] : f = Downward(t, f)
  <2>1. V # {} /\ H \in [[D -> V] -> [D -> V]]
    <3>1. <<>> \in V
      OBVIOUS
    <3> HIDE DEF V, D
    <3> QED
      BY <1>4, <3>1
  <2>2. Recursion(D, V, r, H)
    <3> HIDE DEF H, D, V
    <3> QED
      BY <1>2, <1>5, <2>1 DEF Recursion
  <2>3. Solvable(D, V, H)
    <3> HIDE DEF H, D, V
    <3> QED
      BY <2>2, FixedPoint
  <2> HIDE DEF V, D
  <2> QED
    BY <2>3 DEF Solvable
<1> DEFINE F == CHOOSE f : f = Downward(t, f)
<1>7. F = Downward(t, F)
  BY <1>6
<1> DEFINE P == {b \in D : LeadsDown(t, b, F[b])}
<1>8. P = D
  <2> HIDE DEF F
  <2>1. ASSUME NEW b \in D, \A c \in D : r[c] < r[b] => c \in P PROVE b \in P
    <3>1. PICK p : /\ LoadIs(t, b, Foremost(t, b), p)
                   /\ p.has_data => Downward(t, F)[b] = <<p>>
                   /\ ~p.has_data => /\ Downward(t, F)[b] = <<p>> \o F[Child(t, b, Foremost(t, b))]
                                     /\ Child(t, b, Foremost(t, b)) \in Full(t)
      BY DownwardStep
    <3>2. p \in PosT /\ p.addr = b /\ b \in DOMAIN t /\ p.text # <<>> /\ OnSlot(t, p)
          /\ Here(t, p).child = Child(t, b, Foremost(t, b))
      BY <1>0, <3>1 DEF LoadIs
    <3>3. Way(t, b, <<p>>) /\ Last(<<p>>) = p
      BY <3>2, WayOne
    <3>4. CASE p.has_data
      <4>1. Valued(t, p)
        BY <3>1, <3>4 DEF Valued, LoadIs
      <4>2. F[b] = <<p>>
        BY <1>7, <3>1, <3>4
      <4> QED
        BY <3>2, <3>3, <4>1, <4>2 DEF LeadsDown
    <3>5. CASE ~p.has_data
      <4>1. PICK d : d = Child(t, b, Foremost(t, b))
        OBVIOUS
      <4>2. d \in D /\ r[d] < r[b]
        BY <1>3, <3>1, <3>5, <4>1
      <4>3. LeadsDown(t, d, F[d])
        BY <2>1, <4>2
      <4>4. F[b] = <<p>> \o F[d]
        BY <1>7, <3>1, <3>5, <4>1
      <4>5. PICK i, j : i = <<p>> /\ j = F[d]
        OBVIOUS
      <4>6. Way(t, b, i) /\ OnSlot(t, Last(i)) /\ Here(t, Last(i)).child = d /\ Way(t, d, j)
        BY <3>2, <3>3, <4>1, <4>3, <4>5 DEF LeadsDown
      <4>7. Way(t, b, i \o j) /\ Last(i \o j) = Last(j)
        BY <4>6, WayJoin
      <4> QED
        BY <4>3, <4>4, <4>5, <4>7 DEF LeadsDown
    <3> QED
      BY <3>4, <3>5
  <2>2. P \in SUBSET D
    OBVIOUS
  <2>3. Inductive(D, r, P)
    <3> HIDE DEF P, D
    <3> QED
      BY <1>2, <2>1, <2>2 DEF Inductive
  <2> HIDE DEF P, D
  <2> QED
    BY <2>3, ByRank
<1>9. LeadsDown(t, a, F[a])
  <2> HIDE DEF F
  <2> QED
    BY <1>8
<1>10. \A i : Descend(t, i, a, "first") = i \o F[a]
  BY DescendIs
<1> HIDE DEF F
<1> QED
  BY <1>9, <1>10

\* Iterator j goes on from i, whose positions it keeps.
Extends(t, i, j) == Sits(t, j) /\ Len(i) <= Len(j) /\ \A m \in 1 .. Len(i) : j[m] = i[m]

\* Going down from an entry ends on a value.
LEMMA DescendSits ==
  ASSUME NEW t, Tree(t), NEW i, Stands(t, i), NEW d, d = Here(t, Last(i)).child, d # Nil
  PROVE  Extends(t, i, Descend(t, i, d, "first"))
<1>0. Nodes(t) /\ Linked(t) /\ Steps(t, i) /\ Way(t, Root, i) /\ OnSlot(t, Last(i))
  BY StandsSteps DEF Tree, Stands
<1>1. d \in Full(t)
  <2>1. PICK a, c, n : n = Len(i) /\ a = i[n].addr /\ c = i[n].text[1]
    OBVIOUS
  <2>2. n \in 1 .. Len(i) /\ Last(i) = i[n]
    BY <1>0, <2>1 DEF Steps
  <2>3. Slot(t, a, c) /\ a \in Addr /\ c \in Atom /\ d = Child(t, a, c)
    BY <1>0, <2>1, <2>2 DEF Steps
  <2>4. d \in DOMAIN t /\ DOMAIN t[d].entry # {}
    BY <1>0, <2>3 DEF Linked
  <2> QED
    BY <1>0, <2>4, FullIs
<1>2. PICK w : LeadsDown(t, d, w) /\ \A x : Descend(t, x, d, "first") = x \o w
  BY <1>1, DescendLeads
<1>3. Way(t, d, w) /\ OnSlot(t, Last(w)) /\ Valued(t, Last(w))
  BY <1>2 DEF LeadsDown
<1>4. Way(t, Root, i \o w) /\ Last(i \o w) = Last(w) /\ Len(i \o w) = Len(i) + Len(w)
  BY <1>0, <1>3, WayJoin
<1>5. i \in Seq(PosT) /\ w \in Seq(PosT)
  BY <1>0, <1>3 DEF Way
<1>6. Len(i) \in Nat /\ Len(w) \in Nat /\ \A m \in 1 .. Len(i) : (i \o w)[m] = i[m]
  BY <1>5, JoinIs
<1>7. PICK j : j = i \o w
  OBVIOUS
<1>8. Sits(t, j)
  BY <1>3, <1>4, <1>7 DEF Sits, Stands
<1>9. Extends(t, i, j)
  BY <1>4, <1>6, <1>7, <1>8 DEF Extends
<1> QED
  BY <1>2, <1>7, <1>9

\* Iterator j goes another way than i from the node of the k-th position on.
Settled(t, i, p, j) ==
  Sits(t, j) /\ Len(i) <= Len(j) /\ j[Len(i)] = p /\ \A m \in 1 .. Len(i) - 1 : j[m] = i[m]

\* An iterator settled on an entry sits on the first value from there.
LEMMA SettleSits ==
  ASSUME NEW t, Tree(t), NEW i, Way(t, Root, i), NEW c, NEW p, LoadIs(t, Last(i).addr, c, p)
  PROVE  Settled(t, i, p, Settle(t, i, p))
<1>0. Nodes(t) /\ Linked(t) /\ p \in PosT /\ p.addr = Last(i).addr /\ p.text # <<>> /\ OnSlot(t, p)
  BY DEF LoadIs, Tree
<1>1. PICK x : x = Append(Front(i), p)
  OBVIOUS
<1>2. Way(t, Root, x) /\ Len(x) = Len(i) /\ Last(x) = p /\ (\A m \in 1 .. Len(i) - 1 : x[m] = i[m])
  <2>1. Turned(t, i, p, x)
    BY <1>0, <1>1, Replaced
  <2> QED
    BY <2>1 DEF Turned
<1>3. Stands(t, x)
  BY <1>0, <1>2 DEF Stands
<1>4. Steps(t, x)
  BY <1>3, StandsSteps
<1>5. x[Len(i)] = p /\ Len(i) \in Nat \ {0}
  BY <1>2, <1>4 DEF Steps
<1>6. CASE p.has_data
  <2>1. Valued(t, p)
    BY <1>6 DEF Valued, LoadIs
  <2>2. Settled(t, i, p, x)
    BY <1>2, <1>3, <1>5, <2>1 DEF Settled, Sits
  <2> QED
    BY <1>1, <1>6, <2>2 DEF Settle
<1>7. CASE ~p.has_data
  <2>1. PICK d : d = Here(t, p).child
    OBVIOUS
  <2>2. d # Nil
    <3>1. Here(t, p).value = None
      BY <1>7 DEF LoadIs
    <3>2. ~Void(Here(t, p))
      <4>1. PICK n : n = Len(x)
        OBVIOUS
      <4>2. n \in 1 .. Len(x) /\ x[n] = p
        BY <1>2, <1>4, <4>1 DEF Steps
      <4> QED
        BY <1>4, <4>2 DEF Steps
    <3> QED
      BY <2>1, <3>1, <3>2 DEF Void
  <2>3. Extends(t, x, Descend(t, x, d, "first"))
    BY <1>2, <1>3, <2>1, <2>2, DescendSits
  <2>4. PICK j : j = Descend(t, x, d, "first")
    OBVIOUS
  <2>5. Settle(t, i, p) = j
    BY <1>1, <1>7, <2>1, <2>4 DEF Settle
  <2>6. Settled(t, i, p, j)
    <3>1. Sits(t, j) /\ Len(x) <= Len(j) /\ \A m \in 1 .. Len(i) : j[m] = x[m]
      BY <1>2, <2>3, <2>4 DEF Extends
    <3>2. j[Len(i)] = p /\ \A m \in 1 .. Len(i) - 1 : j[m] = i[m]
      BY <1>2, <1>5, <3>1
    <3> QED
      BY <1>2, <3>1, <3>2 DEF Settled
  <2> QED
    BY <2>5, <2>6
<1> QED
  BY <1>6, <1>7

\* Iterator j parts from i at the k-th position.
PartsAt(t, i, j, k) ==
  /\ Sits(t, j) /\ k \in 1 .. Len(i) /\ k <= Len(j) /\ \A m \in 1 .. k - 1 : j[m] = i[m]
  /\ j[k].addr = i[k].addr /\ j[k].text[1] # i[k].text[1]
\* The end, or an iterator that parts from i.
Parting(t, i, j) == j = End \/ \E k \in 1 .. Len(i) : PartsAt(t, i, j, k)

\* The next sibling parts from the way of the iterator.
LEMMA NextSiblingParts ==
  ASSUME NEW t, Tree(t), NEW i, Stands(t, i)
  PROVE  Parting(t, i, NextSibling(t, i))
<1>0. Nodes(t) /\ Steps(t, i)
  BY StandsSteps DEF Tree
<1>1. i \in Seq(PosT) /\ Len(i) \in Nat \ {0} /\ DOMAIN i = 1 .. Len(i)
  BY <1>0, Members DEF Steps
<1> DEFINE open == {n \in DOMAIN i : Greater(t, i[n]) # {}}
<1>2. CASE open = {}
  <2>1. NextSibling(t, i) = End
    BY <1>2 DEF NextSibling
  <2> QED
    BY <2>1 DEF Parting
<1>3. CASE open # {}
  <2>1. open \in SUBSET Nat /\ \A x \in open : x <= Len(i)
    BY <1>1
  <2>2. \E m \in open : \A x \in open : x <= m
    <3> HIDE DEF open
    <3> QED
      BY <1>1, <1>3, <2>1, GreatestNat
  <2>3. PICK k : k = Max(open)
    OBVIOUS
  <2>4. k \in open
    <3>1. \A x, m \in open : x <= m <=> m >= x
      BY <2>1
    <3> HIDE DEF open
    <3> QED
      BY <2>2, <2>3, <3>1 DEF Max
  <2>5. k \in 1 .. Len(i) /\ Greater(t, i[k]) # {}
    BY <1>1, <2>4
  <2>6. PICK a, G, c : a = i[k].addr /\ G = Greater(t, i[k]) /\ c = Min(G)
    OBVIOUS
  <2>7. a \in DOMAIN t /\ G \in SUBSET DOMAIN t[a].entry /\ DOMAIN t[a].entry \in SUBSET Nat
    <3>1. a \in DOMAIN t
      BY <1>0, <2>5, <2>6 DEF Steps
    <3>2. DOMAIN t[a].entry \in SUBSET Atom
      BY <1>0, <3>1, NodeTypes
    <3> QED
      BY <2>6, <3>1, <3>2, TrieAssumption DEF Greater
  <2>8. c \in G
    <3>1. \E m \in G : \A x \in G : m <= x
      BY <2>5, <2>6, <2>7, LeastNat
    <3> QED
      BY <2>6, <3>1 DEF Min
  <2>9. Slot(t, a, c) /\ c # i[k].text[1]
    <3>1. c > i[k].text[1] /\ c \in Nat /\ i[k].text[1] \in Nat
      <4>1. i[k].text[1] \in Atom
        BY <1>0, <2>5 DEF Steps
      <4> QED
        BY <2>6, <2>7, <2>8, <4>1, TrieAssumption DEF Greater
    <3> QED
      BY <2>7, <2>8, <3>1 DEF Slot
  <2>10. PICK x, p : x = SubSeq(i, 1, k) /\ p = Load(t, a, c)
    OBVIOUS
  <2>11. Stands(t, x) /\ Len(x) = k /\ Last(x) = i[k] /\ \A m \in 1 .. k : x[m] = i[m]
    <3>1. StandsTo(t, i, k, x)
      BY <2>5, <2>10, StandsPart
    <3> QED
      BY <3>1 DEF StandsTo
  <2>12. LoadIs(t, Last(x).addr, c, p)
    BY <1>0, <2>6, <2>9, <2>10, <2>11, Loaded
  <2>13. PICK j : j = Settle(t, x, p)
    OBVIOUS
  <2>14. Settled(t, x, p, j)
    BY <2>11, <2>12, <2>13, SettleSits DEF Stands
  <2>15. NextSibling(t, i) = j
    BY <1>3, <2>3, <2>6, <2>10, <2>13 DEF NextSibling
  <2>16. PartsAt(t, i, j, k)
    <3>1. Sits(t, j) /\ k <= Len(j) /\ j[k] = p /\ \A m \in 1 .. k - 1 : j[m] = x[m]
      BY <2>11, <2>14 DEF Settled
    <3>2. \A m \in 1 .. k - 1 : j[m] = i[m]
      BY <1>1, <2>5, <2>11, <3>1
    <3>3. p.addr = i[k].addr /\ p.text[1] = c
      BY <2>11, <2>12 DEF LoadIs
    <3> QED
      BY <2>5, <2>9, <3>1, <3>2, <3>3 DEF PartsAt
  <2> QED
    BY <2>5, <2>15, <2>16 DEF Parting
<1> QED
  BY <1>2, <1>3

\* The next key is End or one that an iterator sits on.
LEMMA NextSits ==
  ASSUME NEW t, Tree(t), NEW i, Sits(t, i) \/ (Stands(t, i) /\ (Last(i).has_child => Here(t, Last(i)).child # Nil))
  PROVE  NextOf(t, i) = End \/ Sits(t, NextOf(t, i))
<1>1. Stands(t, i) /\ (Last(i).has_child => Here(t, Last(i)).child # Nil)
  BY DEF Sits, Valued
<1>2. CASE i # End /\ Last(i).has_child
  <2>1. PICK d : d = Here(t, Last(i)).child
    OBVIOUS
  <2>2. Extends(t, i, Descend(t, i, d, "first"))
    BY <1>1, <1>2, <2>1, DescendSits
  <2> QED
    BY <1>2, <2>1, <2>2 DEF NextOf, Extends
<1>3. CASE ~(i # End /\ Last(i).has_child)
  <2>1. Parting(t, i, NextSibling(t, i))
    BY <1>1, NextSiblingParts
  <2> QED
    BY <1>3, <2>1 DEF NextOf, Parting, PartsAt
<1> QED
  BY <1>2, <1>3

\* One position up.
LEMMA FrontStands ==
  ASSUME NEW t, NEW i, Way(t, Root, i), Len(i) > 1
  PROVE  Stands(t, Front(i))
<1>1. i \in Seq(PosT) /\ i # <<>>
  BY DEF Way
<1>2. PICK f : f = Front(i)
  OBVIOUS
<1>3. /\ f \in Seq(PosT) /\ Len(f) = Len(i) - 1 /\ Len(i) \in Nat \ {0}
      /\ \A n \in 1 .. Len(i) - 1 : f[n] = i[n]
  BY <1>1, <1>2, FrontLast
<1>4. PICK n : n = Len(i) - 1
  OBVIOUS
<1>5. n \in 1 .. Len(i) - 1 /\ n \in Nat /\ 1 \in 1 .. Len(i) - 1
  BY <1>3, <1>4
<1>6. f # <<>> /\ Last(f) = i[n] /\ f[1].addr = Root
  <2>1. Last(f) = f[Len(f)]
    BY DEF Last
  <2>2. f # <<>>
    BY <1>3, <1>4, <1>5, Members
  <2> QED
    BY <1>3, <1>4, <1>5, <2>1, <2>2 DEF Way
<1>7. OnSlot(t, Last(f))
  BY <1>5, <1>6 DEF Way
<1>8. ASSUME NEW m \in 1 .. Len(f) PROVE f[m].addr \in DOMAIN t /\ f[m].text # <<>>
  <2>1. m \in 1 .. Len(i) /\ m \in 1 .. Len(i) - 1
    BY <1>3
  <2> QED
    BY <1>3, <2>1 DEF Way
<1>9. ASSUME NEW m \in 1 .. Len(f) - 1 PROVE OnSlot(t, f[m]) /\ Here(t, f[m]).child = f[m + 1].addr
  <2>1. m \in 1 .. Len(i) - 1 /\ m + 1 \in 1 .. Len(i) - 1
    BY <1>3
  <2> QED
    BY <1>3, <2>1 DEF Way
<1>10. Stands(t, f)
  BY <1>3, <1>6, <1>7, <1>8, <1>9 DEF Way, Stands
<1> QED
  BY <1>2, <1>10

\* The key of two ways on end starts with that of the first.
LEMMA KeyStarts ==
  ASSUME NEW i \in Seq(PosT), NEW j \in Seq(PosT)
  PROVE  /\ KeyAt(i) \in Seq(Atom) /\ KeyAt(i \o j) \in Seq(Atom) /\ Len(KeyAt(i)) <= Len(KeyAt(i \o j))
         /\ \A n \in 1 .. Len(KeyAt(i)) : KeyAt(i \o j)[n] = KeyAt(i)[n]
<1> DEFINE Starts(w) == /\ Len(KeyAt(i)) <= Len(KeyAt(i \o w))
                        /\ \A n \in 1 .. Len(KeyAt(i)) : KeyAt(i \o w)[n] = KeyAt(i)[n]
           T == {n \in Nat : \A w \in Seq(PosT) : Len(w) = n => Starts(w)}
<1>0. \A x \in Seq(PosT) : KeyAt(x) \in Seq(Atom) /\ Len(KeyAt(x)) \in Nat
  <2>1. SUFFICES ASSUME NEW x \in Seq(PosT) PROVE KeyAt(x) \in Seq(Atom) /\ Len(KeyAt(x)) \in Nat
    OBVIOUS
  <2>2. \E p : p \in PosT
    <3>1. [addr |-> Root, text |-> <<>>, version |-> 0, has_child |-> FALSE, has_data |-> FALSE] \in PosT
      BY TrieAssumption DEF PosT, Root, Addr
    <3> QED
      BY <3>1
  <2>3. KeyAt(x) \in Seq(Atom)
    BY <2>2, KeyGrows
  <2> QED
    BY <2>3, Members
<1>1. 0 \in T
  <2>1. SUFFICES ASSUME NEW w \in Seq(PosT), Len(w) = 0 PROVE Starts(w)
    OBVIOUS
  <2>2. i \o w = i
    <3>1. w = <<>>
      BY <2>1, Members
    <3> QED
      BY <3>1, AppendIsJoin
  <2> QED
    BY <1>0, <2>2
<1>2. ASSUME NEW n \in T PROVE n + 1 \in T
  <2>0. n \in Nat /\ \A w \in Seq(PosT) : Len(w) = n => Starts(w)
    <3> HIDE DEF Starts
    <3> QED
      OBVIOUS
  <2>1. SUFFICES ASSUME NEW w \in Seq(PosT), Len(w) = n + 1 PROVE Starts(w)
    <3> HIDE DEF Starts
    <3> QED
      BY <2>0
  <2>2. PICK f, p : f = Front(w) /\ p = Last(w)
    OBVIOUS
  <2>3. w # <<>> /\ n \in Nat
    BY <2>0, <2>1, Members
  <2>4. f \in Seq(PosT) /\ p \in PosT /\ w = Append(f, p) /\ Len(f) = n
    <3>1. f \in Seq(PosT) /\ p \in PosT /\ w = Append(f, p) /\ Len(f) = Len(w) - 1
      BY <2>2, <2>3, FrontLast
    <3> QED
      BY <2>1, <2>3, <3>1
  <2>5. Starts(f)
    <3> HIDE DEF Starts
    <3> QED
      BY <2>0, <2>4
  <2>6. PICK x : x = i \o f
    OBVIOUS
  <2>7. x \in Seq(PosT) /\ i \o w = Append(x, p)
    BY <2>4, <2>6, AppendIsJoin, Joined, SMTT(60)
  <2>8. PICK k, l, e : k = KeyAt(i) /\ l = KeyAt(x) /\ e = p.text
    OBVIOUS
  <2>9. k \in Seq(Atom) /\ l \in Seq(Atom) /\ e \in Seq(Atom)
    <3>1. e \in Seq(Atom)
      BY <2>4, <2>8 DEF PosT
    <3> QED
      BY <1>0, <2>7, <2>8, <3>1
  <2>10. KeyAt(i \o w) = l \o e
    BY <2>4, <2>7, <2>8, KeyGrows
  <2>11. Len(l \o e) = Len(l) + Len(e) /\ Len(l) \in Nat /\ Len(e) \in Nat /\ Len(k) \in Nat
         /\ \A m \in 1 .. Len(l) : (l \o e)[m] = l[m]
    BY <2>9, JoinIs, Members
  <2>12. Len(k) <= Len(l) /\ \A m \in 1 .. Len(k) : l[m] = k[m]
    BY <2>5, <2>6, <2>8
  <2>13. Len(k) <= Len(l \o e) /\ \A m \in 1 .. Len(k) : (l \o e)[m] = k[m]
    BY <2>11, <2>12
  <2> QED
    BY <2>8, <2>10, <2>13
<1>3. T = Nat
  <2>1. T \in SUBSET Nat
    OBVIOUS
  <2> HIDE DEF T
  <2> QED
    BY <1>1, <1>2, <2>1, NatSet
<1>4. Len(j) \in Nat /\ i \o j \in Seq(PosT)
  BY Members, Joined
<1>5. Starts(j)
  BY <1>3, <1>4
<1> QED
  BY <1>0, <1>4, <1>5

\* Two texts that differ at a place of both.
Differ(s, r) == \E n \in 1 .. Len(s) : n <= Len(r) /\ s[n] # r[n]
\* The key of i neither starts with q nor begins it.
Astray(q, i) == ~IsPrefix(q, KeyAt(i)) /\ ~IsStrictPrefix(KeyAt(i), q)

\* A prefix, atom by atom.
LEMMA PrefixAgrees ==
  ASSUME NEW s \in Seq(Atom), NEW r \in Seq(Atom), IsPrefix(s, r)
  PROVE  Len(s) <= Len(r) /\ \A n \in 1 .. Len(s) : s[n] = r[n]
<1>1. Len(s) <= Len(r) /\ SubSeq(s, 1, Len(s)) = SubSeq(r, 1, Len(s)) /\ Len(s) \in Nat
  BY DEF IsPrefix
<1>2. /\ \A i \in 1 .. Len(s) : SubSeq(r, 1, Len(s))[i] = r[i]
      /\ \A i \in 1 .. Len(s) : SubSeq(s, 1, Len(s))[i] = s[i]
  BY <1>1, FirstPart
<1> QED
  BY <1>1, <1>2

\* Texts that differ are no prefixes of each other.
LEMMA DifferAstray ==
  ASSUME NEW s \in Seq(Atom), NEW r \in Seq(Atom), Differ(s, r)
  PROVE  ~IsPrefix(s, r) /\ ~IsStrictPrefix(r, s)
<1>1. PICK n \in 1 .. Len(s) : n <= Len(r) /\ s[n] # r[n]
  BY DEF Differ
<1>2. Len(s) \in Nat /\ Len(r) \in Nat /\ n \in 1 .. Len(r)
  BY <1>1, Members
<1>3. ~IsPrefix(s, r)
  BY <1>1, PrefixAgrees
<1>4. ~IsPrefix(r, s)
  BY <1>1, <1>2, PrefixAgrees
<1> QED
  BY <1>3, <1>4 DEF IsStrictPrefix

\* Where prefixed_key_erase_all's iterator may be.
Aimed(t, q, i) == i = End \/ Sits(t, i) \/ Astray(q, i)

\* A node without the atom looked for, and the entry taken in its place.
LEMMA MissedAstray ==
  ASSUME NEW t, Tree(t), NEW s \in Text, NEW m, Led(t, Root, s, m), m.result = "no_entry",
         NEW p, p = Last(m.path), NEW c, Slot(t, p.addr, c), NEW e, LoadIs(t, p.addr, c, e), NEW x,
         x = Append(Front(m.path), e), NEW w \in Seq(PosT)
  PROVE  Astray(s, x \o w)
<1>1. /\ m.path \in Seq(PosT) /\ m.path # <<>> /\ m.rest \in Seq(Atom) /\ Way(t, Root, m.path)
      /\ p \in PosT /\ p.text[1] \in Atom
  BY LedEnds DEF Ends
<1>2. KeyAt(m.path) \o m.rest = s /\ ~OnSlot(t, p) /\ Len(p.text) - 1 = 0
  BY DEF Led, Outcome
<1>3. e \in PosT /\ e.addr = Last(m.path).addr /\ e.text # <<>> /\ e.text[1] = c
  BY DEF LoadIs
<1>4. Turned(t, m.path, e, x)
  BY <1>1, <1>3, Replaced
<1>5. PICK f, k, g, h : f = Front(m.path) /\ k = KeyAt(f) /\ g = p.text /\ h = e.text
  OBVIOUS
<1>6. f \in Seq(PosT) /\ KeyAt(x) = k \o h /\ x \in Seq(PosT) /\ m.path = Append(f, p)
  <2>1. m.path = Append(Front(m.path), Last(m.path))
    BY <1>1, FrontLast
  <2> QED
    BY <1>4, <1>5, <2>1 DEF Turned, Way
<1>7. KeyAt(m.path) = k \o g /\ k \in Seq(Atom)
  BY <1>1, <1>5, <1>6, KeyGrows
<1>8. g \in Seq(Atom) /\ h \in Seq(Atom) /\ Len(g) = 1 /\ h # <<>> /\ g[1] # h[1]
  <2>1. g \in Seq(Atom) /\ h \in Seq(Atom)
    BY <1>1, <1>3, <1>5 DEF PosT
  <2>2. Len(g) \in Nat
    BY <2>1, Members
  <2>3. p.text[1] # c
    BY <1>2 DEF OnSlot
  <2> QED
    BY <1>2, <1>3, <1>5, <2>1, <2>2, <2>3
<1>9. PICK n : n = Len(k) + 1
  OBVIOUS
<1>10. /\ Len(k \o g) = Len(k) + 1 /\ Len(k) \in Nat /\ (k \o g)[Len(k) + 1] = g[1]
       /\ k \o g \in Seq(Atom)
  <2>1. Len(k \o g) = Len(k) + Len(g) /\ Len(k) \in Nat /\ \A i \in 1 .. Len(g) : (k \o g)[Len(k) + i] = g[i]
        /\ k \o g \in Seq(Atom)
    BY <1>7, <1>8, JoinIs, ZenonT(90)
  <2> QED
    BY <1>8, <2>1
<1>11. n <= Len(k \o h) /\ (k \o h)[n] = h[1] /\ k \o h \in Seq(Atom)
  <2>1. Len(k \o h) = Len(k) + Len(h) /\ Len(k) \in Nat /\ \A i \in 1 .. Len(h) : (k \o h)[Len(k) + i] = h[i]
        /\ k \o h \in Seq(Atom) /\ Len(h) \in Nat
    BY <1>7, <1>8, JoinIs
  <2>2. Len(h) # 0
    BY <1>8, Members
  <2>3. 1 \in 1 .. Len(h)
    BY <2>1, <2>2
  <2> QED
    BY <1>9, <2>1, <2>3
<1>12. s \in Seq(Atom) /\ n \in 1 .. Len(s) /\ s[n] = g[1]
  <2>1. s = (k \o g) \o m.rest
    BY <1>2, <1>7
  <2>2. PICK y : y = k \o g
    OBVIOUS
  <2>3. /\ Len(y \o m.rest) = Len(y) + Len(m.rest) /\ Len(y) \in Nat /\ Len(m.rest) \in Nat
        /\ \A i \in 1 .. Len(y) : (y \o m.rest)[i] = y[i]
        /\ y \o m.rest \in Seq(Atom)
    BY <1>1, <1>10, <2>2, JoinIs
  <2>4. n \in 1 .. Len(y) /\ y[n] = g[1]
    BY <1>9, <1>10, <2>2
  <2>5. PICK r, o : r = y \o m.rest /\ o = Len(m.rest)
    OBVIOUS
  <2>6. Len(r) = Len(y) + o /\ Len(y) \in Nat /\ o \in Nat /\ r[n] = y[n] /\ r \in Seq(Atom)
    BY <2>3, <2>4, <2>5
  <2>7. n \in 1 .. Len(r)
    BY <2>4, <2>6
  <2> QED
    BY <2>1, <2>2, <2>4, <2>5, <2>6, <2>7
<1>13. KeyAt(x \o w) \in Seq(Atom) /\ n <= Len(KeyAt(x \o w)) /\ KeyAt(x \o w)[n] = h[1]
  <2>1. /\ KeyAt(x) \in Seq(Atom) /\ KeyAt(x \o w) \in Seq(Atom) /\ Len(KeyAt(x)) <= Len(KeyAt(x \o w))
        /\ \A i \in 1 .. Len(KeyAt(x)) : KeyAt(x \o w)[i] = KeyAt(x)[i]
    BY <1>6, KeyStarts
  <2>2. PICK y, z : y = KeyAt(x) /\ z = KeyAt(x \o w)
    OBVIOUS
  <2>3. y = k \o h /\ y \in Seq(Atom) /\ z \in Seq(Atom) /\ Len(y) <= Len(z) /\ \A i \in 1 .. Len(y) : z[i] = y[i]
    BY <1>6, <2>1, <2>2
  <2>4. Len(y) \in Nat /\ Len(z) \in Nat /\ n \in Nat \ {0} /\ n <= Len(y) /\ y[n] = h[1]
    BY <1>9, <1>10, <1>11, <2>3, Members
  <2>5. n \in 1 .. Len(y)
    BY <2>4
  <2> QED
    BY <2>2, <2>3, <2>4, <2>5
<1>14. Differ(s, KeyAt(x \o w))
  BY <1>8, <1>12, <1>13 DEF Differ
<1> QED
  BY <1>12, <1>13, <1>14, DifferAstray DEF Astray

\* lower_bound returns the end, an iterator that sits on a value, or one that
\* has nothing to do with the prefix.
LEMMA LowerBoundAims ==
  ASSUME NEW t, Tree(t), NEW s \in Text
  PROVE  Aimed(t, s, LowerBound(t, s))
<1>0. Nodes(t) /\ Linked(t)
  BY DEF Tree
<1>1. PICK m : m = Mismatch(t, Root, s)
  OBVIOUS
<1>2. Led(t, Root, s, m)
  BY <1>1, RootLeads
<1>3. PICK p, i : p = Last(m.path) /\ i = m.path
  OBVIOUS
<1>4. Ends(t, m, p)
  BY <1>2, <1>3, LedEnds
<1>5. i \in Seq(PosT) /\ i # <<>> /\ Way(t, Root, i) /\ p = Last(i) /\ End \o i = i /\ p \in PosT
  <2>1. i \in Seq(PosT) /\ <<>> \o i = i
    BY <1>3, <1>4, AppendIsJoin DEF Ends
  <2> QED
    BY <1>3, <1>4, <2>1 DEF End, Ends
<1>6. Outcome(t, m) /\ m.result \in ResultT
  BY <1>2 DEF Led, MismatchT
<1>7. LowerBound(t, s) = BoundAfter(t, End, m).it
  BY <1>1 DEF LowerBound, Bound
<1>8. CASE m.result = "equals"
  <2>1. LowerBound(t, s) = i
    BY <1>3, <1>5, <1>7, <1>8 DEF BoundAfter
  <2>2. OnSlot(t, p) /\ Valued(t, p)
    BY <1>3, <1>6, <1>8 DEF Outcome, Valued
  <2> QED
    BY <1>5, <2>1, <2>2 DEF Aimed, Sits, Stands
<1>9. CASE m.result = "string_end"
  <2>1. PICK a, c, e : a = p.addr /\ c = p.text[1] /\ e = Load(t, a, c)
    OBVIOUS
  <2>2. OnSlot(t, p) /\ Slot(t, a, c)
    BY <1>3, <1>6, <1>9, <2>1 DEF Outcome, OnSlot
  <2>3. LoadIs(t, Last(i).addr, c, e)
    BY <1>0, <1>5, <2>1, <2>2, Loaded
  <2>4. Settled(t, i, e, Settle(t, i, e))
    BY <1>5, <2>3, SettleSits
  <2>5. LowerBound(t, s) = Settle(t, i, e)
    BY <1>3, <1>5, <1>7, <1>9, <2>1 DEF BoundAfter
  <2> QED
    BY <2>4, <2>5 DEF Aimed, Settled
<1>10. CASE m.result = "no_entry"
  <2>1. PICK a, GE, c, e : a = p.addr /\ GE = {x \in DOMAIN t[a].entry : x >= p.text[1]}
                           /\ c = Min(GE) /\ e = Load(t, a, c)
    OBVIOUS
  <2>2. LowerBound(t, s) = IF GE = {} THEN NextSibling(t, Front(i))
                           ELSE IF e.has_data THEN Append(Front(i), e)
                           ELSE Descend(t, Append(Front(i), e), a, "first")
    BY <1>3, <1>5, <1>7, <1>10, <2>1 DEF BoundAfter
  <2>3. CASE GE = {}
    <3>1. CASE Len(i) > 1
      <4>1. Stands(t, Front(i))
        BY <1>5, <3>1, FrontStands
      <4>2. Parting(t, Front(i), NextSibling(t, Front(i)))
        BY <4>1, NextSiblingParts
      <4> QED
        BY <2>2, <2>3, <4>2 DEF Parting, PartsAt, Aimed
    <3>2. CASE ~(Len(i) > 1)
      <4>1. Front(i) \in Seq(PosT) /\ Len(Front(i)) = Len(i) - 1 /\ Len(i) \in Nat \ {0}
        BY <1>5, FrontLast
      <4>2. Len(Front(i)) = 0
        BY <3>2, <4>1
      <4>3. DOMAIN Front(i) = {}
        BY <4>1, <4>2
      <4>4. NextSibling(t, Front(i)) = End
        BY <4>3 DEF NextSibling
      <4> QED
        BY <2>2, <2>3, <4>4 DEF Aimed
    <3> QED
      BY <3>1, <3>2
  <2>4. CASE GE # {}
    <3>1. a \in DOMAIN t /\ DOMAIN t[a].entry \in SUBSET Nat
      <4>1. a \in DOMAIN t
        BY <1>4, <2>1 DEF Ends
      <4>2. DOMAIN t[a].entry \in SUBSET Atom
        BY <1>0, <4>1, NodeTypes
      <4> QED
        BY <4>1, <4>2, TrieAssumption
    <3>2. c \in GE
      <4>1. GE \in SUBSET Nat
        BY <2>1, <3>1
      <4>2. \E x \in GE : \A y \in GE : x <= y
        BY <2>4, <4>1, LeastNat
      <4> QED
        BY <2>1, <4>2 DEF Min
    <3>3. Slot(t, a, c) /\ a \in Full(t)
      <4>1. c \in DOMAIN t[a].entry
        BY <2>1, <3>2
      <4> QED
        BY <1>0, <3>1, <4>1, FullIs DEF Slot
    <3>4. LoadIs(t, a, c, e) /\ LoadIs(t, Last(i).addr, c, e)
      BY <1>0, <1>5, <2>1, <3>3, Loaded
    <3>5. PICK x : x = Append(Front(i), e)
      OBVIOUS
    <3>6. CASE e.has_data
      <4>1. e \in PosT /\ e.addr = Last(i).addr /\ e.text # <<>> /\ OnSlot(t, e) /\ Valued(t, e)
        BY <3>4, <3>6 DEF LoadIs, Valued
      <4>2. Turned(t, i, e, x)
        BY <1>5, <3>5, <4>1, Replaced
      <4> QED
        BY <2>2, <2>4, <3>5, <3>6, <4>1, <4>2 DEF Turned, Sits, Stands, Aimed
    <3>7. CASE ~e.has_data
      <4>1. PICK w : LeadsDown(t, a, w) /\ \A y : Descend(t, y, a, "first") = y \o w
        BY <3>3, DescendLeads
      <4>2. w \in Seq(PosT)
        BY <4>1 DEF LeadsDown, Way
      <4>3. x = Append(Front(m.path), e)
        BY <1>3, <3>5
      <4>4. Slot(t, p.addr, c) /\ LoadIs(t, p.addr, c, e)
        BY <2>1, <3>3, <3>4
      <4>5. Astray(s, x \o w)
        BY <1>2, <1>3, <1>10, <4>2, <4>3, <4>4, MissedAstray
      <4> QED
        BY <2>2, <2>4, <3>5, <3>7, <4>1, <4>5 DEF Aimed
    <3> QED
      BY <3>6, <3>7
  <2> QED
    BY <2>3, <2>4
<1>11. CASE m.result \in {"unequals", "stem_end"}
  <2>1. LowerBound(t, s) = NextOf(t, i)
    BY <1>3, <1>5, <1>7, <1>11 DEF BoundAfter
  <2>2. Stands(t, i) /\ (Last(i).has_child => Here(t, Last(i)).child # Nil)
    BY <1>3, <1>5, <1>6, <1>11 DEF Outcome, Stands
  <2> QED
    BY <2>1, <2>2, NextSits DEF Aimed
<1> QED
  BY <1>6, <1>8, <1>9, <1>10, <1>11 DEF ResultT

-----------------------------------------------------------------------------
(* Erasure.                                                                *)

\* What Without makes of a node: entry c is e, or gone when e is void.
Reset(t, u, a, c, e) ==
  /\ Nodes(u) /\ DOMAIN u = DOMAIN t
  /\ \A b \in DOMAIN t : b # a => u[b] = t[b]
  /\ \A d \in Atom : d # c => /\ Slot(u, a, d) <=> Slot(t, a, d)
                              /\ Slot(t, a, d) => u[a].entry[d] = t[a].entry[d]
  /\ Slot(u, a, c) <=> ~Void(e)
  /\ ~Void(e) => u[a].entry[c] = e

\* Without changes one entry of one node.
LEMMA WithoutIs ==
  ASSUME NEW t, NEW a \in DOMAIN t, NEW c \in Atom, NEW e \in EntryT, NEW bump \in Nat, Nodes(t)
  PROVE  Reset(t, Without(t, a, c, e, bump), a, c, e)
<1>0. DOMAIN t \in SUBSET Addr /\ Root \in DOMAIN t /\ t \in [DOMAIN t -> NodeT]
  BY DEF Nodes
<1>1. CASE ~Void(e)
  <2>1. PICK u : u = SetEntry(t, a, c, e, bump)
    OBVIOUS
  <2>2. Updated(t, u, a, c, e)
    BY <2>1, SetEntryIs
  <2>3. Without(t, a, c, e, bump) = u
    BY <1>1, <2>1 DEF Without, Void
  <2>4. Reset(t, u, a, c, e)
    BY <1>1, <2>2 DEF Updated, Reset, Slot
  <2> QED
    BY <2>3, <2>4
<1>2. CASE Void(e)
  <2> DEFINE g == t[a].entry
             A == DOMAIN g \ {c}
             f == Restrict(g, A)
             x == [version |-> (t[a].version + bump) % VersionMod, entry |-> f]
  <2>1. t[a].version \in 0 .. VersionMod - 1 /\ DOMAIN g \in SUBSET Atom /\ g \in [DOMAIN g -> EntryT]
    BY NodeTypes
  <2>2. f \in [A -> EntryT] /\ A \in SUBSET Atom /\ \A d \in A : f[d] = g[d]
    BY <2>1 DEF Restrict
  <2>3. (t[a].version + bump) % VersionMod \in 0 .. VersionMod - 1
    <3>1. t[a].version + bump \in Nat
      BY <2>1
    <3> QED
      BY <3>1, ModIs
  <2>4. x \in NodeT /\ x.entry = f
    <3> HIDE DEF f, A
    <3> QED
      BY <2>2, <2>3, MakeNode
  <2>5. PICK u : u = Without(t, a, c, e, bump)
    OBVIOUS
  <2>6. u = [t EXCEPT ![a] = x]
    BY <1>2, <2>5 DEF Without, Void
  <2> HIDE DEF x
  <2>7. u \in [DOMAIN t -> NodeT] /\ u[a] = x /\ \A b \in DOMAIN t : b # a => u[b] = t[b]
    BY <1>0, <2>4, <2>6
  <2>8. Nodes(u) /\ DOMAIN u = DOMAIN t
    BY <1>0, <2>7 DEF Nodes
  <2>9. u[a].entry = f
    BY <2>4, <2>7
  <2>10. \A d : Slot(u, a, d) <=> Slot(t, a, d) /\ d # c
    <3>1. \A d : d \in DOMAIN f <=> d \in DOMAIN g /\ d # c
      BY <2>2
    <3> HIDE DEF f
    <3> QED
      BY <2>8, <2>9, <3>1 DEF Slot
  <2>11. \A d : Slot(u, a, d) => u[a].entry[d] = t[a].entry[d]
    <3>1. \A d : d \in DOMAIN g /\ d # c => f[d] = g[d]
      BY <2>2
    <3> HIDE DEF f
    <3> QED
      BY <2>9, <2>10, <3>1 DEF Slot
  <2>12. Reset(t, u, a, c, e)
    BY <1>2, <2>7, <2>8, <2>10, <2>11 DEF Reset
  <2> QED
    BY <2>5, <2>12
<1> QED
  BY <1>1, <1>2

\* What is left when the nodes S are freed.
Freed(t, u, S) == Nodes(u) /\ DOMAIN u = DOMAIN t \ S /\ \A b \in DOMAIN u : u[b] = t[b]

\* Free drops nodes.
LEMMA FreeIs ==
  ASSUME NEW t, NEW S, S \in SUBSET (DOMAIN t \ {Root}), Nodes(t)
  PROVE  Freed(t, Free(t, S), S) /\ (S = {} => Free(t, S) = t)
<1>1. DOMAIN t \in SUBSET Addr /\ Root \in DOMAIN t /\ t \in [DOMAIN t -> NodeT]
  BY DEF Nodes
<1>2. PICK u : u = Free(t, S)
  OBVIOUS
<1>3. u \in [DOMAIN t \ S -> NodeT] /\ \A b \in DOMAIN t \ S : u[b] = t[b]
  BY <1>1, <1>2 DEF Free, Restrict
<1>4. Nodes(u) /\ DOMAIN u = DOMAIN t \ S
  BY <1>1, <1>3 DEF Nodes
<1>5. S = {} => u = t
  BY <1>1, <1>3
<1> QED
  BY <1>2, <1>3, <1>4, <1>5 DEF Freed

\* The nodes S below entry c of node a are freed, and the entry becomes e.
Cuts(t, a, c, e, S) ==
  /\ a \in DOMAIN t /\ Attached(t, a) /\ Slot(t, a, c) /\ e \in EntryT
  /\ S \in SUBSET (DOMAIN t \ {a, Root}) /\ (\A b \in S : Attached(t, b)) /\ Closed(t, a, c, S)
  /\ e.child # Nil => e.child = Child(t, a, c) /\ e.child \notin S
  /\ Child(t, a, c) \in S \cup {Nil, e.child}
  /\ a = Root \/ ~Void(e) \/ DOMAIN t[a].entry # {c}
\* The values that are left, and what is left of the tree.
ValsCut(t, a, c, e, S) ==
  {x \in Vals(t) : x[1] \notin S /\ x # <<a, c>>} \cup (IF e.value # None THEN {<<a, c>>} ELSE {})
Trims(t, u, a, c, e, S) ==
  /\ Tree(u) /\ Loose(u) = Loose(t) /\ Vals(u) = ValsCut(t, a, c, e, S)
  /\ DOMAIN u = DOMAIN t \ S /\ Elsewhere(t, u, a, c)
  /\ Slot(u, a, c) <=> ~Void(e)
  /\ ~Void(e) => u[a].entry[c] = e

\* Freeing what is below an entry, and changing the entry, keeps a tree.
LEMMA Trimming ==
  ASSUME NEW t, NEW a, NEW c, NEW e, NEW S, NEW bump \in Nat, Tree(t), Cuts(t, a, c, e, S),
         NEW u, u = Without(Free(t, S), a, c, e, bump)
  PROVE  Trims(t, u, a, c, e, S)
<1>0. /\ a \in DOMAIN t /\ Attached(t, a) /\ Slot(t, a, c) /\ e \in EntryT /\ a \in Addr /\ c \in Atom
      /\ S \in SUBSET (DOMAIN t \ {a, Root}) /\ (\A b \in S : Attached(t, b)) /\ Closed(t, a, c, S)
      /\ Nodes(t) /\ DOMAIN t \in SUBSET Addr
  BY NodeTypes DEF Cuts, Tree
<1>1. PICK w : w = Free(t, S)
  OBVIOUS
<1>2. Nodes(w) /\ DOMAIN w = DOMAIN t \ S /\ \A b \in DOMAIN w : w[b] = t[b]
  BY <1>0, <1>1, FreeIs DEF Freed
<1>3. a \in DOMAIN w /\ w[a] = t[a]
  BY <1>0, <1>2
<1>4. Reset(w, u, a, c, e)
  BY <1>0, <1>1, <1>2, <1>3, WithoutIs
<1>5. Nodes(u) /\ DOMAIN u = DOMAIN t \ S
  BY <1>2, <1>4 DEF Reset
<1>6. Elsewhere(t, u, a, c)
  <2>1. \A b \in DOMAIN t \cap DOMAIN u : b # a => u[b].entry = t[b].entry
    BY <1>2, <1>4 DEF Reset
  <2>2. \A d : Slot(w, a, d) <=> Slot(t, a, d)
    BY <1>0, <1>3 DEF Slot
  <2> QED
    BY <1>3, <1>4, <2>1, <2>2 DEF Reset, Elsewhere
<1>7. (Slot(u, a, c) <=> ~Void(e)) /\ (~Void(e) => u[a].entry[c] = e)
  BY <1>4 DEF Reset
<1>8. Trimmed(t, u, a, c, S)
  <2>1. Slot(u, a, c) => /\ ~Void(u[a].entry[c])
                         /\ Child(u, a, c) # Nil => Slot(t, a, c) /\ Child(t, a, c) = Child(u, a, c)
                                                    /\ Child(u, a, c) \notin S
    BY <1>7 DEF Cuts, Child
  <2>2. \/ Slot(u, a, c) /\ Child(u, a, c) = Child(t, a, c)
        \/ Child(t, a, c) \in S \cup {Nil}
    <3>1. CASE Child(t, a, c) \in S \cup {Nil}
      BY <3>1
    <3>2. CASE Child(t, a, c) = e.child /\ e.child # Nil
      BY <1>7, <3>2 DEF Void, Child
    <3> QED
      BY <3>1, <3>2 DEF Cuts
  <2>3. a = Root \/ DOMAIN u[a].entry # {}
    <3>1. CASE ~Void(e)
      BY <1>7, <3>1 DEF Slot
    <3>2. CASE DOMAIN t[a].entry # {c}
      <4>1. PICK d \in DOMAIN t[a].entry : d # c
        BY <1>0, <3>2 DEF Slot
      <4>2. Slot(t, a, d) /\ d \in Atom
        BY <1>0, <4>1, NodeTypes DEF Slot
      <4> QED
        BY <1>6, <4>1, <4>2 DEF Elsewhere, Slot
    <3> QED
      BY <3>1, <3>2 DEF Cuts
  <2> QED
    BY <1>0, <1>5, <1>6, <2>1, <2>2, <2>3 DEF Trimmed
<1>9. Tree(u) /\ Loose(u) = Loose(t)
  BY <1>8, TrimKeepsTree
<1>10. ASSUME NEW b \in Addr, NEW d \in Atom
       PROVE  <<b, d>> \in Vals(u) <=> <<b, d>> \in ValsCut(t, a, c, e, S)
  <2>1. /\ <<b, d>> \in Vals(u) <=> Slot(u, b, d) /\ u[b].entry[d].value # None
        /\ <<b, d>> \in Vals(t) <=> Slot(t, b, d) /\ t[b].entry[d].value # None
    BY ValIs
  <2>2. CASE b = a /\ d = c
    <3>1. <<b, d>> \in ValsCut(t, a, c, e, S) <=> e.value # None
      BY <2>2 DEF ValsCut
    <3> QED
      BY <1>7, <2>1, <2>2, <3>1 DEF Void
  <2>3. CASE ~(b = a /\ d = c)
    <3>1. PICK y : y = <<b, d>>
      OBVIOUS
    <3>2. y # <<a, c>> /\ y[1] = b
      BY <2>3, <3>1
    <3>3. y \in ValsCut(t, a, c, e, S) <=> y \in Vals(t) /\ b \notin S
      BY <3>2 DEF ValsCut
    <3>4. CASE b \in S
      BY <1>5, <2>1, <3>1, <3>3, <3>4 DEF Slot
    <3>5. CASE b \notin S
      <4>1. /\ Slot(u, b, d) <=> Slot(t, b, d)
            /\ Slot(t, b, d) => u[b].entry[d] = t[b].entry[d]
        BY <1>5, <1>6, <2>3, <3>5 DEF Elsewhere, Slot
      <4> QED
        BY <2>1, <3>1, <3>3, <3>5, <4>1
    <3> QED
      BY <3>4, <3>5
  <2> QED
    BY <2>2, <2>3
<1>11. Vals(u) \in SUBSET (Addr \X Atom) /\ ValsCut(t, a, c, e, S) \in SUBSET (Addr \X Atom)
  <2>1. Vals(u) \in SUBSET (Addr \X Atom) /\ Vals(t) \in SUBSET (Addr \X Atom)
    BY DEF Vals
  <2>2. <<a, c>> \in Addr \X Atom
    BY <1>0
  <2>3. {x \in Vals(t) : x[1] \notin S /\ x # <<a, c>>} \in SUBSET (Addr \X Atom)
    BY <2>1
  <2> QED
    BY <2>1, <2>2, <2>3 DEF ValsCut
<1>12. Vals(u) = ValsCut(t, a, c, e, S)
  BY <1>10, <1>11, SamePairs, SMTT(60)
<1> QED
  BY <1>5, <1>6, <1>7, <1>9, <1>12 DEF Trims

\* A node that position p of the climb empties, the deepest one or not.
Emptied(t, p, deepest) ==
  /\ p.addr # Root
  /\ DOMAIN t[p.addr].entry = {p.text[1]}
  /\ IF deepest THEN Here(t, p).child = Nil ELSE Here(t, p).value = None

\* The climb, level by level: which nodes it empties.
Climbing(t, i, f) ==
  [n \in 1..Len(i) |->
     /\ i[n].addr # Root
     /\ DOMAIN t[i[n].addr].entry = {i[n].text[1]}
     /\ IF n = Len(i) THEN Here(t, i[n]).child = Nil
                      ELSE f[n + 1] /\ Here(t, i[n]).value = None]

\* The level at which a climb ends.
ClimbEnds(t, i, n) ==
  /\ n \in 1 .. Len(i)
  /\ \A m \in n + 1 .. Len(i) : Emptied(t, i[m], m = Len(i))
  /\ \/ i[n].addr = Root
     \/ DOMAIN t[i[n].addr].entry # {i[n].text[1]}
     \/ n = Len(i) /\ Here(t, i[n]).child # Nil
     \/ n < Len(i) /\ Here(t, i[n]).value # None

\* Where the climb of an erasure ends.
LEMMA ClimbFacts ==
  ASSUME NEW t, NEW i, Len(i) \in Nat \ {0}, i[1].addr = Root, NEW f, f = Climbing(t, i, f)
  PROVE  ClimbEnds(t, i, Max({n \in 1 .. Len(i) : ~f[n]}))
<1> DEFINE stays == {n \in 1 .. Len(i) : ~f[n]}
<1>1. ASSUME NEW n \in 1 .. Len(i)
      PROVE  f[n] <=> /\ i[n].addr # Root
                      /\ DOMAIN t[i[n].addr].entry = {i[n].text[1]}
                      /\ IF n = Len(i) THEN Here(t, i[n]).child = Nil
                                       ELSE f[n + 1] /\ Here(t, i[n]).value = None
  <2>1. f[n] = Climbing(t, i, f)[n]
    OBVIOUS
  <2>2. Climbing(t, i, f)[n] <=>
                      /\ i[n].addr # Root
                      /\ DOMAIN t[i[n].addr].entry = {i[n].text[1]}
                      /\ IF n = Len(i) THEN Here(t, i[n]).child = Nil
                                       ELSE f[n + 1] /\ Here(t, i[n]).value = None
    BY DEF Climbing
  <2> QED
    BY <2>1, <2>2
<1>2. 1 \in stays
  <2>1. 1 \in 1 .. Len(i)
    OBVIOUS
  <2> QED
    BY <1>1, <2>1
<1>3. stays \in SUBSET Nat /\ \A x \in stays : x <= Len(i)
  OBVIOUS
<1>4. PICK n : n = Max(stays)
  OBVIOUS
<1>5. n \in stays /\ \A x \in stays : x <= n
  <2>1. \E m \in stays : \A x \in stays : x <= m
    <3> HIDE DEF stays
    <3> QED
      BY <1>2, <1>3, GreatestNat
  <2>2. \A x, m \in stays : x <= m <=> m >= x
    BY <1>3
  <2> HIDE DEF stays
  <2> QED
    BY <1>4, <2>1, <2>2 DEF Max
<1>6. n \in 1 .. Len(i) /\ ~f[n] /\ \A m \in n + 1 .. Len(i) : f[m]
  <2>1. n \in 1 .. Len(i) /\ ~f[n]
    BY <1>5
  <2>2. ASSUME NEW m \in n + 1 .. Len(i) PROVE f[m]
    <3>1. m \in 1 .. Len(i) /\ ~(m <= n)
      BY <2>1
    <3> QED
      BY <1>5, <3>1
  <2> QED
    BY <2>1, <2>2
<1>7. ASSUME NEW m \in n + 1 .. Len(i) PROVE Emptied(t, i[m], m = Len(i))
  <2>1. m \in 1 .. Len(i) /\ f[m]
    BY <1>6
  <2> QED
    BY <1>1, <2>1 DEF Emptied
<1>8. n < Len(i) => f[n + 1]
  BY <1>6
<1>9. n = Len(i) \/ n < Len(i)
  BY <1>6
<1>10. ClimbEnds(t, i, n)
  BY <1>1, <1>6, <1>7, <1>8, <1>9 DEF ClimbEnds
<1> QED
  BY <1>4, <1>10

\* The climb is computed level by level, from the last one.
LEMMA ClimbIs ==
  ASSUME NEW t, NEW i, Len(i) \in Nat \ {0}
  PROVE  \E f : f = Climbing(t, i, f)
<1> DEFINE E(m) == Emptied(t, i[m], m = Len(i))
           f == [n \in 1 .. Len(i) |-> \A m \in n .. Len(i) : E(m)]
<1>1. ASSUME NEW n \in 1 .. Len(i) PROVE f[n] = Climbing(t, i, f)[n]
  <2>1. Climbing(t, i, f)[n] = (/\ i[n].addr # Root
                                /\ DOMAIN t[i[n].addr].entry = {i[n].text[1]}
                                /\ IF n = Len(i) THEN Here(t, i[n]).child = Nil
                                                 ELSE f[n + 1] /\ Here(t, i[n]).value = None)
    <3> HIDE DEF f
    <3> QED
      BY DEF Climbing
  <2>2. CASE n = Len(i)
    <3>1. f[n] = (\A m \in n .. Len(i) : E(m))
      OBVIOUS
    <3>2. (\A m \in n .. Len(i) : E(m)) <=> E(n)
      <4> HIDE DEF E
      <4>1. n .. Len(i) = {n}
        BY <2>2
      <4> QED
        BY <4>1
    <3>3. E(n) <=> (/\ i[n].addr # Root
                    /\ DOMAIN t[i[n].addr].entry = {i[n].text[1]}
                    /\ Here(t, i[n]).child = Nil)
      BY <2>2 DEF Emptied
    <3> HIDE DEF E, f
    <3> QED
      BY <2>1, <2>2, <3>1, <3>2, <3>3
  <2>3. CASE n # Len(i)
    <3>0. n + 1 \in 1 .. Len(i) /\ n .. Len(i) = {n} \cup (n + 1 .. Len(i))
      BY <2>3
    <3>1. f[n] = (\A m \in n .. Len(i) : E(m)) /\ f[n + 1] = (\A m \in n + 1 .. Len(i) : E(m))
      BY <3>0
    <3>2. (\A m \in n .. Len(i) : E(m)) <=> (E(n) /\ \A m \in n + 1 .. Len(i) : E(m))
      <4> HIDE DEF E
      <4> QED
        BY <3>0
    <3>3. E(n) <=> (/\ i[n].addr # Root
                    /\ DOMAIN t[i[n].addr].entry = {i[n].text[1]}
                    /\ Here(t, i[n]).value = None)
      BY <2>3 DEF Emptied
    <3> HIDE DEF E, f
    <3> QED
      BY <2>1, <2>3, <3>1, <3>2, <3>3
  <2> QED
    BY <2>2, <2>3
<1>2. f = Climbing(t, i, f)
  <2>1. f = [n \in 1 .. Len(i) |-> f[n]] /\ Climbing(t, i, f) = [n \in 1 .. Len(i) |-> Climbing(t, i, f)[n]]
    <3>1. f = [n \in 1 .. Len(i) |-> f[n]]
      OBVIOUS
    <3>2. Climbing(t, i, f) = [n \in 1 .. Len(i) |-> Climbing(t, i, f)[n]]
      <4> HIDE DEF f
      <4> QED
        BY DEF Climbing
    <3> QED
      BY <3>1, <3>2
  <2> HIDE DEF f
  <2> QED
    BY <1>1, <2>1
<1> QED
  BY <1>2

\* What an erasure does to the nodes: the climb ends at level n.
EraseNodes(t, i, n) ==
  IF n = Len(i)
  THEN Without(t, i[n].addr, i[n].text[1], [Here(t, i[n]) EXCEPT !.value = None], 1)
  ELSE Without(Free(t, {i[m].addr : m \in n + 1 .. Len(i)}), i[n].addr, i[n].text[1],
               [Here(t, i[n]) EXCEPT !.child = Nil], 2)

\* What an erasure returns, its parts named.
LEMMA EraseAtIs ==
  ASSUME NEW s, NEW i, Len(i) \in Nat \ {0}, i[1].addr = Root, NEW r, r = EraseAt(s, i)
  PROVE  /\ r.count = s.count - 1 /\ r.it = NextOf(s.node, i)
         /\ \E n : ClimbEnds(s.node, i, n) /\ r.node = EraseNodes(s.node, i, n)
<1> DEFINE t == s.node
           F == CHOOSE f : f = Climbing(t, i, f)
           n == Max({m \in 1 .. Len(i) : ~F[m]})
<1>2. F = Climbing(t, i, F)
  BY ClimbIs
<1>3. ClimbEnds(t, i, n)
  <2> HIDE DEF F
  <2> QED
    BY <1>2, ClimbFacts, Zenon
<1>4. r = [node  |-> EraseNodes(t, i, n), count |-> s.count - 1, it |-> NextOf(t, i)]
  BY Zenon DEF EraseAt, EraseNodes, Climbing
<1> HIDE DEF n
<1> QED
  BY <1>3, <1>4

\* The nodes that a climb which ends at level n frees.
Below(i, n) == {i[m].addr : m \in n + 1 .. Len(i)}

\* The entry of level n is left without its value, or without its child.
Spared(t, i, n) == IF n = Len(i) THEN [Here(t, i[n]) EXCEPT !.value = None]
                                 ELSE [Here(t, i[n]) EXCEPT !.child = Nil]

\* The entry the climb ends on.
LEMMA SparedIs ==
  ASSUME NEW t, NEW i, NEW n, Here(t, i[n]) \in EntryT
  PROVE  /\ Spared(t, i, n) \in EntryT /\ Spared(t, i, n).stem = Here(t, i[n]).stem
         /\ n = Len(i) => Spared(t, i, n).child = Here(t, i[n]).child /\ Spared(t, i, n).value = None
         /\ n # Len(i) => Spared(t, i, n).child = Nil /\ Spared(t, i, n).value = Here(t, i[n]).value
<1>1. PICK h, v : h = Here(t, i[n]) /\ v = None
  OBVIOUS
<1>2. Nil \in Addr \cup {Nil} /\ None \in Value \cup {None}
  OBVIOUS
<1>3. [h EXCEPT !.value = None] \in EntryT /\ [h EXCEPT !.child = Nil] \in EntryT
  BY <1>1, <1>2 DEF EntryT
<1>4. /\ [h EXCEPT !.value = None].child = h.child /\ [h EXCEPT !.value = None].value = None
      /\ [h EXCEPT !.child = Nil].child = Nil /\ [h EXCEPT !.child = Nil].value = h.value
      /\ [h EXCEPT !.value = None].stem = h.stem /\ [h EXCEPT !.child = Nil].stem = h.stem
  BY <1>1 DEF EntryT
<1>5. Spared(t, i, n) = IF n = Len(i) THEN [h EXCEPT !.value = None] ELSE [h EXCEPT !.child = Nil]
  BY <1>1 DEF Spared
<1> QED
  BY <1>1, <1>3, <1>4, <1>5

\* The climb frees a subtree.
LEMMA EraseCuts ==
  ASSUME NEW t, NEW i, NEW n, Tree(t), Stands(t, i), ClimbEnds(t, i, n)
  PROVE  Cuts(t, i[n].addr, i[n].text[1], Spared(t, i, n), Below(i, n))
<1>0. Steps(t, i) /\ Nodes(t) /\ OneParent(t) /\ n \in 1 .. Len(i) /\ Len(i) \in Nat \ {0}
  BY StandsSteps DEF Tree, Steps, ClimbEnds
<1>1. PICK a, c, e, h, S : a = i[n].addr /\ c = i[n].text[1] /\ e = Spared(t, i, n) /\ h = Here(t, i[n]) /\ S = Below(i, n)
  OBVIOUS
<1>2. /\ a \in DOMAIN t /\ a \in Addr /\ c \in Atom /\ Attached(t, a) /\ Slot(t, a, c) /\ h \in EntryT
      /\ h.child = Child(t, a, c) /\ ~Void(h)
  BY <1>0, <1>1 DEF Steps
<1>3. /\ e \in EntryT
      /\ n = Len(i) => e.child = h.child /\ e.value = None
      /\ n # Len(i) => e.child = Nil /\ e.value = h.value
  BY <1>1, <1>2, SparedIs
<1>4. \A m \in n + 1 .. Len(i) : m \in 1 .. Len(i) /\ m - 1 \in 1 .. Len(i) - 1 /\ m \in Nat /\ m # n
  BY <1>0
<1>5. \A b : b \in S <=> \E m \in n + 1 .. Len(i) : b = i[m].addr
  BY <1>1 DEF Below
<1>6. S \in SUBSET (DOMAIN t \ {a, Root}) /\ \A b \in S : Attached(t, b)
  <2>1. SUFFICES ASSUME NEW m \in n + 1 .. Len(i)
                 PROVE  i[m].addr \in DOMAIN t /\ i[m].addr # a /\ i[m].addr # Root /\ Attached(t, i[m].addr)
    BY <1>5
  <2>2. m \in 1 .. Len(i) /\ m # n
    BY <1>4
  <2>3. i[m].addr # Root
    BY DEF ClimbEnds, Emptied
  <2>4. i[m].addr # a
    <3>1. i[m].addr = i[n].addr => SameWay(i, i, m, n)
      BY <1>0, <2>2, WaysAgree
    <3> QED
      BY <1>1, <2>2, <3>1 DEF SameWay
  <2> QED
    BY <1>0, <2>2, <2>3, <2>4 DEF Steps
<1>7. Closed(t, a, c, S)
  <2>1. SUFFICES ASSUME NEW b \in Addr, NEW d \in Atom, Slot(t, b, d)
                 PROVE  /\ b \in S => Child(t, b, d) \in S \cup {Nil}
                        /\ Child(t, b, d) \in S => b \in S \/ (b = a /\ d = c)
    BY DEF Closed
  <2>2. ASSUME b \in S PROVE Child(t, b, d) \in S \cup {Nil}
    <3>1. PICK m \in n + 1 .. Len(i) : b = i[m].addr
      BY <1>5, <2>2
    <3>2. m \in 1 .. Len(i) /\ Emptied(t, i[m], m = Len(i))
      BY <1>4 DEF ClimbEnds
    <3>3. d = i[m].text[1]
      BY <2>1, <3>1, <3>2 DEF Emptied, Slot
    <3>4. CASE m = Len(i)
      BY <1>0, <3>1, <3>2, <3>3, <3>4 DEF Emptied, Steps
    <3>5. CASE m # Len(i)
      <4>1. m \in 1 .. Len(i) - 1 /\ m + 1 \in n + 1 .. Len(i)
        BY <1>0, <3>2, <3>5
      <4>2. Child(t, b, d) = i[m + 1].addr
        BY <1>0, <3>1, <3>3, <4>1 DEF Steps
      <4> QED
        BY <1>5, <4>1, <4>2
    <3> QED
      BY <3>4, <3>5
  <2>3. ASSUME Child(t, b, d) \in S PROVE b \in S \/ (b = a /\ d = c)
    <3>1. PICK m \in n + 1 .. Len(i) : Child(t, b, d) = i[m].addr
      BY <1>5, <2>3
    <3>2. PICK l : l = m - 1
      OBVIOUS
    <3>3. l \in 1 .. Len(i) - 1 /\ l \in 1 .. Len(i) /\ m = l + 1 /\ (l = n \/ l \in n + 1 .. Len(i))
      BY <1>0, <3>2
    <3>4. /\ Child(t, i[l].addr, i[l].text[1]) = i[m].addr /\ Slot(t, i[l].addr, i[l].text[1])
          /\ i[l].addr \in Addr /\ i[l].text[1] \in Atom
      BY <1>0, <3>3 DEF Steps
    <3>5. i[m].addr # Nil
      <4>1. i[m].addr \in DOMAIN t
        BY <1>0, <1>4 DEF Steps
      <4> QED
        BY <1>0, <4>1, NodeTypes
    <3>6. b = i[l].addr /\ d = i[l].text[1]
      BY <1>0, <2>1, <3>1, <3>4, <3>5 DEF OneParent
    <3> QED
      BY <1>1, <1>5, <3>3, <3>6
  <2> QED
    BY <2>2, <2>3
<1>8. CASE n = Len(i)
  <2>1. S = {}
    BY <1>0, <1>5, <1>8
  <2>2. a = Root \/ ~Void(e) \/ DOMAIN t[a].entry # {c}
    BY <1>1, <1>3, <1>8 DEF ClimbEnds, Void
  <2>3. Cuts(t, a, c, e, S)
    BY <1>2, <1>3, <1>6, <1>7, <1>8, <2>1, <2>2 DEF Cuts
  <2> QED
    BY <1>1, <2>3
<1>9. CASE n # Len(i)
  <2>1. n \in 1 .. Len(i) - 1 /\ n + 1 \in n + 1 .. Len(i)
    BY <1>0, <1>9
  <2>2. Child(t, a, c) = i[n + 1].addr
    BY <1>0, <1>1, <2>1 DEF Steps
  <2>3. Child(t, a, c) \in S
    BY <1>5, <2>1, <2>2
  <2>4. a = Root \/ ~Void(e) \/ DOMAIN t[a].entry # {c}
    BY <1>1, <1>3, <1>9 DEF ClimbEnds, Void
  <2>5. Cuts(t, a, c, e, S)
    BY <1>2, <1>3, <1>6, <1>7, <1>9, <2>3, <2>4 DEF Cuts
  <2> QED
    BY <1>1, <2>5
<1> QED
  BY <1>8, <1>9, SMTT(60)

\* The value of the last position, and no other, goes.
LastSlot(i) == <<i[Len(i)].addr, i[Len(i)].text[1]>>

\* The erased value is the only one to go.
LEMMA EraseVals ==
  ASSUME NEW t, NEW i, NEW n, Tree(t), Stands(t, i), ClimbEnds(t, i, n), Here(t, Last(i)).value # None
  PROVE  /\ ValsCut(t, i[n].addr, i[n].text[1], Spared(t, i, n), Below(i, n)) = Vals(t) \ {LastSlot(i)}
         /\ LastSlot(i) \in Vals(t)
<1>0. Steps(t, i) /\ n \in 1 .. Len(i) /\ Len(i) \in Nat \ {0}
  BY StandsSteps DEF Steps, ClimbEnds
<1>1. PICK a, c, e, h, S : a = i[n].addr /\ c = i[n].text[1] /\ e = Spared(t, i, n) /\ h = Here(t, i[n]) /\ S = Below(i, n)
  OBVIOUS
<1>2. a \in Addr /\ c \in Atom /\ Slot(t, a, c) /\ h \in EntryT /\ h = t[a].entry[c]
  BY <1>0, <1>1 DEF Steps
<1>3. /\ e \in EntryT
      /\ n = Len(i) => e.child = h.child /\ e.value = None
      /\ n # Len(i) => e.child = Nil /\ e.value = h.value
  <2>1. h \in EntryT
    BY <1>2
  <2> QED
    BY <1>1, <2>1, SparedIs
<1>4. PICK L, b, d : L = Len(i) /\ b = i[L].addr /\ d = i[L].text[1]
  OBVIOUS
<1>5. L \in 1 .. Len(i) /\ Last(i) = i[L] /\ LastSlot(i) = <<b, d>>
  BY <1>0, <1>4 DEF Steps, LastSlot
<1>6. <<b, d>> \in Vals(t)
  <2>1. b \in Addr /\ d \in Atom /\ Slot(t, b, d) /\ Here(t, i[L]) = t[b].entry[d]
    BY <1>0, <1>4, <1>5 DEF Steps
  <2> QED
    BY <1>5, <2>1, ValIs
<1>7. <<a, c>> \in Vals(t) <=> h.value # None
  BY <1>2, ValIs
<1>8. \A x \in Addr : x \in S <=> \E m \in n + 1 .. Len(i) : x = i[m].addr
  BY <1>1 DEF Below
<1>9. CASE n = Len(i)
  <2>1. \A x \in Addr : x \notin S
    BY <1>0, <1>8, <1>9
  <2>2. a = b /\ c = d /\ e.value = None
    BY <1>1, <1>3, <1>4, <1>9
  <2>3. \A x \in Vals(t) : x[1] \in Addr
    BY DEF Vals
  <2>4. ValsCut(t, a, c, e, S) = Vals(t) \ {<<b, d>>}
    BY <2>1, <2>2, <2>3 DEF ValsCut
  <2> QED
    BY <1>1, <1>5, <1>6, <2>4
<1>10. CASE n # Len(i)
  <2>1. ASSUME NEW x \in Addr, NEW y \in Atom, <<x, y>> \in Vals(t)
        PROVE  x \in S <=> x = b /\ y = d
    <3>1. Slot(t, x, y) /\ t[x].entry[y].value # None
      BY <2>1, ValIs
    <3>2. ASSUME x \in S PROVE x = b /\ y = d
      <4>1. PICK m \in n + 1 .. Len(i) : x = i[m].addr
        BY <1>8, <3>2
      <4>2. Emptied(t, i[m], m = Len(i)) /\ m \in 1 .. Len(i)
        BY <1>0 DEF ClimbEnds
      <4>3. y = i[m].text[1]
        BY <3>1, <4>1, <4>2 DEF Emptied, Slot
      <4>4. Here(t, i[m]) = t[x].entry[y]
        BY <4>1, <4>3 DEF Here
      <4>5. m = Len(i)
        BY <3>1, <4>2, <4>4 DEF Emptied
      <4> QED
        BY <1>4, <4>1, <4>3, <4>5
    <3>3. b \in S
      <4>1. L \in n + 1 .. Len(i) /\ b \in Addr
        BY <1>0, <1>4, <1>10 DEF Steps
      <4> QED
        BY <1>4, <1>8, <4>1
    <3> QED
      BY <3>2, <3>3
  <2>2. <<a, c>> # <<b, d>>
    <3>1. a = b => SameWay(i, i, n, L)
      BY <1>0, <1>1, <1>4, <1>5, WaysAgree
    <3> QED
      BY <1>4, <1>10, <3>1 DEF SameWay
  <2>3. PICK v, w : v = <<a, c>> /\ w = <<b, d>>
    OBVIOUS
  <2>4. \A x \in Vals(t) : x[1] \in S <=> x = w
    <3>1. \A x \in Vals(t) : x[1] \in Addr /\ x[2] \in Atom /\ x = <<x[1], x[2]>>
      BY DEF Vals
    <3> QED
      BY <2>1, <2>3, <3>1
  <2>5. ValsCut(t, a, c, e, S) = {x \in Vals(t) : x[1] \notin S /\ x # v} \cup (IF h.value # None THEN {v} ELSE {})
    BY <1>3, <1>10, <2>3 DEF ValsCut
  <2>6. ValsCut(t, a, c, e, S) = Vals(t) \ {w}
    BY <1>7, <2>2, <2>3, <2>4, <2>5
  <2> QED
    BY <1>1, <1>5, <1>6, <2>3, <2>6
<1> QED
  BY <1>9, <1>10, SMTT(60)

\* An iterator sits as before when its way avoids what has changed.
Avoids(j, a, c, S) == \A m \in 1 .. Len(j) : j[m].addr \notin S /\ ~(j[m].addr = a /\ j[m].text[1] = c)

\* An iterator whose way has not changed still sits.
LEMMA Survives ==
  ASSUME NEW t, NEW u, NEW a, NEW c, NEW S, NEW j, Tree(t), DOMAIN u = DOMAIN t \ S, Elsewhere(t, u, a, c),
         Sits(t, j), Avoids(j, a, c, S)
  PROVE  Sits(u, j)
<1>0. Steps(t, j) /\ Way(t, Root, j) /\ Valued(t, Last(j))
  BY StandsSteps DEF Sits, Stands
<1>1. \A m \in 1 .. Len(j) : OnSlot(u, j[m]) /\ Here(u, j[m]) = Here(t, j[m]) /\ j[m].addr \in DOMAIN u
  <2>1. SUFFICES ASSUME NEW m \in 1 .. Len(j)
                 PROVE  OnSlot(u, j[m]) /\ Here(u, j[m]) = Here(t, j[m]) /\ j[m].addr \in DOMAIN u
    OBVIOUS
  <2>2. PICK b, d : b = j[m].addr /\ d = j[m].text[1]
    OBVIOUS
  <2>3. b \in DOMAIN t /\ d \in Atom /\ Slot(t, b, d) /\ b \notin S /\ ~(b = a /\ d = c)
    BY <1>0, <2>2 DEF Steps, Avoids
  <2>4. b \in DOMAIN u
    BY <2>3
  <2>5. CASE b = a
    <3>1. d # c
      BY <2>3, <2>5
    <3>2. Slot(u, b, d) /\ u[b].entry[d] = t[b].entry[d]
      BY <2>3, <2>5, <3>1 DEF Elsewhere
    <3> QED
      BY <2>2, <2>4, <3>2 DEF OnSlot, Here
  <2>6. CASE b # a
    <3>1. u[b].entry = t[b].entry
      BY <2>3, <2>4, <2>6 DEF Elsewhere
    <3>2. Slot(u, b, d) /\ u[b].entry[d] = t[b].entry[d]
      BY <2>3, <2>4, <3>1 DEF Slot
    <3> QED
      BY <2>2, <2>4, <3>2 DEF OnSlot, Here
  <2> QED
    BY <2>5, <2>6
<1>2. Len(j) \in Nat \ {0} /\ Last(j) = j[Len(j)]
  BY <1>0 DEF Steps
<1>3. Way(u, Root, j)
  <2>1. \A m \in 1 .. Len(j) - 1 : m \in 1 .. Len(j)
    BY <1>2
  <2>2. \A m \in 1 .. Len(j) - 1 : OnSlot(u, j[m]) /\ Here(u, j[m]).child = j[m + 1].addr
    BY <1>0, <1>1, <2>1 DEF Way
  <2> QED
    BY <1>0, <1>1, <2>2 DEF Way
<1>4. OnSlot(u, Last(j)) /\ Here(u, Last(j)) = Here(t, Last(j))
  BY <1>1, <1>2
<1> QED
  BY <1>0, <1>3, <1>4 DEF Sits, Stands, Valued

\* One that parts from the way of the climb does.
LEMMA PartingAvoids ==
  ASSUME NEW t, NEW i, NEW n, NEW j, NEW k, Tree(t), Stands(t, i), ClimbEnds(t, i, n), PartsAt(t, i, j, k)
  PROVE  Avoids(j, i[n].addr, i[n].text[1], Below(i, n))
<1>0. /\ Steps(t, i) /\ Steps(t, j) /\ n \in 1 .. Len(i) /\ Len(i) \in Nat \ {0} /\ Len(j) \in Nat \ {0}
      /\ k \in 1 .. Len(i) /\ k \in 1 .. Len(j) /\ Stands(t, j)
      /\ j[k].addr = i[k].addr /\ j[k].text[1] # i[k].text[1]
  <2>1. Stands(t, j)
    BY DEF PartsAt, Sits
  <2>2. Steps(t, i) /\ Steps(t, j)
    BY <2>1, StandsSteps
  <2> QED
    BY <2>1, <2>2 DEF Steps, ClimbEnds, PartsAt
<1>1. k <= n
  <2>1. SUFFICES ASSUME k \in n + 1 .. Len(i) PROVE FALSE
    BY <1>0
  <2>2. DOMAIN t[i[k].addr].entry = {i[k].text[1]}
    BY <2>1 DEF ClimbEnds, Emptied
  <2>3. Slot(t, j[k].addr, j[k].text[1])
    BY <1>0 DEF Steps
  <2> QED
    BY <1>0, <2>2, <2>3 DEF Slot
<1>2. \A l \in 1 .. Len(i), m \in 1 .. Len(j) : i[l].addr = j[m].addr => SameWay(i, j, l, m)
  BY <1>0, WaysAgree
<1>3. SUFFICES ASSUME NEW m \in 1 .. Len(j)
               PROVE  j[m].addr \notin Below(i, n) /\ ~(j[m].addr = i[n].addr /\ j[m].text[1] = i[n].text[1])
  BY DEF Avoids
<1>4. j[m].addr \notin Below(i, n)
  <2>1. SUFFICES ASSUME NEW l \in n + 1 .. Len(i), j[m].addr = i[l].addr PROVE FALSE
    BY DEF Below
  <2>2. l \in 1 .. Len(i) /\ k \in 1 .. l - 1
    BY <1>0, <1>1
  <2>3. SameWay(i, j, l, m)
    BY <1>2, <2>1, <2>2
  <2> QED
    BY <1>0, <2>2, <2>3 DEF SameWay
<1>5. ~(j[m].addr = i[n].addr /\ j[m].text[1] = i[n].text[1])
  <2>1. SUFFICES ASSUME j[m].addr = i[n].addr, j[m].text[1] = i[n].text[1] PROVE FALSE
    OBVIOUS
  <2>2. SameWay(i, j, n, m)
    BY <1>0, <1>2, <2>1
  <2>3. n = m
    BY <2>2 DEF SameWay
  <2>4. CASE k = n
    BY <1>0, <2>1, <2>3, <2>4
  <2>5. CASE k # n
    <3>1. k \in 1 .. n - 1
      BY <1>0, <1>1, <2>5
    <3> QED
      BY <1>0, <2>2, <3>1 DEF SameWay
  <2> QED
    BY <2>4, <2>5
<1> QED
  BY <1>4, <1>5, SMTT(60)

\* What is left when the value at iterator i is erased.
Erased(t, k, i, r) ==
  /\ Whole(r.node, k - 1) /\ Loose(r.node) = Loose(t) /\ r.count = k - 1 /\ r.it = NextOf(t, i)
  /\ \A j : Parting(t, i, j) => j = End \/ Sits(r.node, j)

\* What an erasure does to the nodes keeps the tree.
LEMMA EraseNodesTrims ==
  ASSUME NEW t, NEW i, NEW n, Tree(t), Stands(t, i), ClimbEnds(t, i, n)
  PROVE  Trims(t, EraseNodes(t, i, n), i[n].addr, i[n].text[1], Spared(t, i, n), Below(i, n))
<1>1. Cuts(t, i[n].addr, i[n].text[1], Spared(t, i, n), Below(i, n))
  BY EraseCuts
<1>2. n \in 1 .. Len(i) /\ Len(i) \in Nat
  <2>1. Steps(t, i)
    BY StandsSteps
  <2> QED
    BY <2>1 DEF Steps, ClimbEnds
<1>3. PICK bump \in Nat : bump = IF n = Len(i) THEN 1 ELSE 2
  OBVIOUS
<1>4. EraseNodes(t, i, n) = Without(Free(t, Below(i, n)), i[n].addr, i[n].text[1], Spared(t, i, n), bump)
  <2>1. CASE n = Len(i)
    <3>1. Below(i, n) = {}
      BY <1>2, <2>1 DEF Below
    <3>2. Free(t, Below(i, n)) = t
      BY <3>1, FreeIs DEF Tree
    <3> QED
      BY <1>3, <2>1, <3>2 DEF EraseNodes, Spared
  <2>2. CASE n # Len(i)
    BY <1>3, <2>2 DEF EraseNodes, Spared, Below
  <2> QED
    BY <2>1, <2>2
<1> QED
  BY <1>1, <1>4, Trimming

\* A finite set with one member less.
LEMMA RemoveOne ==
  ASSUME NEW S, IsFiniteSet(S), NEW x \in S
  PROVE  IsFiniteSet(S \ {x}) /\ Cardinality(S \ {x}) = Cardinality(S) - 1
BY FS_RemoveElement

\* An erasure takes one value from the tree, and one from the count; and every
\* iterator that parted from the erased one still sits.
LEMMA EraseKeeps ==
  ASSUME NEW s, NEW t, t = s.node, Whole(t, s.count), NEW i, Stands(t, i), Here(t, Last(i)).value # None,
         NEW r, r = EraseAt(s, i)
  PROVE  Erased(t, s.count, i, r)
<1>1. Tree(t) /\ IsFiniteSet(Vals(t)) /\ s.count = Cardinality(Vals(t))
  BY DEF Whole
<1>2. Len(i) \in Nat \ {0} /\ i[1].addr = Root
  <2>1. Steps(t, i)
    BY <1>1, StandsSteps
  <2> QED
    BY <2>1 DEF Steps
<1>3. r.count = s.count - 1 /\ r.it = NextOf(t, i) /\ \E n : ClimbEnds(t, i, n) /\ r.node = EraseNodes(t, i, n)
  BY <1>2, EraseAtIs
<1>4. PICK n : ClimbEnds(t, i, n) /\ r.node = EraseNodes(t, i, n)
  BY <1>3
<1>5. PICK u : u = r.node
  OBVIOUS
<1>6. Trims(t, u, i[n].addr, i[n].text[1], Spared(t, i, n), Below(i, n))
  BY <1>1, <1>4, <1>5, EraseNodesTrims
<1>7. Tree(u) /\ Loose(u) = Loose(t) /\ DOMAIN u = DOMAIN t \ Below(i, n) /\ Elsewhere(t, u, i[n].addr, i[n].text[1])
  BY <1>6 DEF Trims
<1>8. Vals(u) = Vals(t) \ {LastSlot(i)} /\ LastSlot(i) \in Vals(t)
  <2>1. Vals(u) = ValsCut(t, i[n].addr, i[n].text[1], Spared(t, i, n), Below(i, n))
    BY <1>6 DEF Trims
  <2> QED
    BY <1>1, <1>4, <2>1, EraseVals
<1>9. Whole(u, s.count - 1)
  <2>1. IsFiniteSet(Vals(u)) /\ Cardinality(Vals(u)) = s.count - 1
    BY <1>1, <1>8, RemoveOne
  <2> QED
    BY <1>7, <2>1 DEF Whole
<1>10. ASSUME NEW j, Parting(t, i, j), j # End PROVE Sits(u, j)
  <2>1. PICK k : PartsAt(t, i, j, k)
    BY <1>10 DEF Parting
  <2>2. Avoids(j, i[n].addr, i[n].text[1], Below(i, n))
    BY <1>1, <1>4, <2>1, PartingAvoids
  <2>3. Sits(t, j)
    BY <2>1 DEF PartsAt
  <2> QED
    BY <1>1, <1>7, <2>2, <2>3, Survives
<1> QED
  BY <1>3, <1>5, <1>7, <1>9, <1>10 DEF Erased

\* The nodes under node b, given those under its children.
Unders(t, f) ==
  [b \in DOMAIN t |->
     {b} \cup UNION {f[t[b].entry[c].child] :
                        c \in {d \in DOMAIN t[b].entry : t[b].entry[d].child # Nil}}]

\* Subtree is the least solution of the recursion.
LEMMA SubtreeIs ==
  ASSUME NEW t, NEW a
  PROVE  Subtree(t, a) = (CHOOSE f : f = Unders(t, f))[a]
BY DEF Subtree, Unders

\* Membership in one step of the recursion.
LEMMA UnderIs ==
  ASSUME NEW t, Nodes(t), NEW f, NEW b \in DOMAIN t
  PROVE  \A x : x \in Unders(t, f)[b] <=>
           x = b \/ \E c \in Atom : Slot(t, b, c) /\ Child(t, b, c) # Nil /\ x \in f[Child(t, b, c)]
<1>1. DOMAIN t[b].entry \in SUBSET Atom
  BY NodeTypes
<1>2. Unders(t, f)[b] = {b} \cup UNION {f[t[b].entry[c].child] :
                        c \in {d \in DOMAIN t[b].entry : t[b].entry[d].child # Nil}}
  BY DEF Unders
<1> QED
  BY <1>1, <1>2 DEF Slot, Child

\* What is under node b: all its ways down lead to, and nothing else.
Branch(t, rank, b, S) ==
  /\ b \in S /\ S \in SUBSET DOMAIN t
  /\ \A x \in S : x = b \/ rank[x] < rank[b]
  /\ \A x \in S : x # b => \E y \in S, d \in Atom : Slot(t, y, d) /\ Child(t, y, d) = x
  /\ \A y \in S, d \in Atom : Slot(t, y, d) => Child(t, y, d) \in S \cup {Nil}

\* The subtree of a node from those of its children.
LEMMA BranchGrows ==
  ASSUME NEW t, Tree(t), NEW rank \in [DOMAIN t -> Nat], Descends(t, rank), NEW f, NEW b \in DOMAIN t,
         \A c \in Atom : Slot(t, b, c) /\ Child(t, b, c) # Nil =>
            Branch(t, rank, Child(t, b, c), f[Child(t, b, c)]),
         NEW S, S = Unders(t, f)[b]
  PROVE  Branch(t, rank, b, S)
<1>0. Nodes(t) /\ Linked(t) /\ b \in Addr
  BY NodeTypes DEF Tree
<1>1. \A x : x \in S <=>
        x = b \/ \E c \in Atom : Slot(t, b, c) /\ Child(t, b, c) # Nil /\ x \in f[Child(t, b, c)]
  BY <1>0, UnderIs
<1>2. ASSUME NEW c \in Atom, Slot(t, b, c), Child(t, b, c) # Nil, NEW k, k = Child(t, b, c)
      PROVE  /\ Branch(t, rank, k, f[k]) /\ rank[k] < rank[b] /\ f[k] \in SUBSET S /\ k \in S
             /\ k \in DOMAIN t
  <2>1. Branch(t, rank, k, f[k])
    BY <1>2
  <2>2. rank[k] < rank[b]
    BY <1>0, <1>2 DEF Descends
  <2>3. \A x \in f[k] : x \in S
    BY <1>1, <1>2
  <2> QED
    BY <2>1, <2>2, <2>3 DEF Branch
<1>3. S \in SUBSET DOMAIN t
  BY <1>1, <1>2 DEF Branch
<1>4. ASSUME NEW x \in S, x # b PROVE rank[x] < rank[b]
  <2>1. PICK k, c : c \in Atom /\ Slot(t, b, c) /\ k = Child(t, b, c) /\ k # Nil /\ x \in f[k]
    BY <1>1, <1>4
  <2>2. Branch(t, rank, k, f[k]) /\ rank[k] < rank[b] /\ k \in DOMAIN t
    BY <1>2, <2>1
  <2>3. x = k \/ rank[x] < rank[k]
    BY <2>1, <2>2 DEF Branch
  <2>4. x \in DOMAIN t
    BY <1>3
  <2> QED
    BY <2>2, <2>3, <2>4
<1>5. ASSUME NEW x \in S, x # b PROVE \E y \in S, d \in Atom : Slot(t, y, d) /\ Child(t, y, d) = x
  <2>1. PICK k, c : c \in Atom /\ Slot(t, b, c) /\ k = Child(t, b, c) /\ k # Nil /\ x \in f[k]
    BY <1>1, <1>5
  <2>2. Branch(t, rank, k, f[k]) /\ f[k] \in SUBSET S
    BY <1>2, <2>1
  <2>3. CASE x = k
    BY <1>1, <2>1, <2>3
  <2>4. CASE x # k
    BY <2>1, <2>2, <2>4 DEF Branch
  <2> QED
    BY <2>3, <2>4
<1>6. ASSUME NEW y \in S, NEW d \in Atom, Slot(t, y, d) PROVE Child(t, y, d) \in S \cup {Nil}
  <2>1. CASE y = b
    BY <1>2, <1>6, <2>1
  <2>2. CASE y # b
    <3>1. PICK k, c : c \in Atom /\ Slot(t, b, c) /\ k = Child(t, b, c) /\ k # Nil /\ y \in f[k]
      BY <1>1, <2>2
    <3>2. Branch(t, rank, k, f[k]) /\ f[k] \in SUBSET S
      BY <1>2, <3>1
    <3> QED
      BY <1>6, <3>1, <3>2 DEF Branch
  <2> QED
    BY <2>1, <2>2
<1> QED
  BY <1>1, <1>3, <1>4, <1>5, <1>6 DEF Branch

\* The recursion of Subtree has a solution.
LEMMA UndersSolved ==
  ASSUME NEW t, Tree(t), NEW rank \in [DOMAIN t -> Nat], Descends(t, rank)
  PROVE  \E f : f = Unders(t, f)
<1> DEFINE D == DOMAIN t
           V == SUBSET D
           H == [f \in [D -> V] |-> Unders(t, f)]
<1>0. Nodes(t) /\ Linked(t)
  BY DEF Tree
<1>1. ASSUME NEW b \in D, NEW c \in Atom, Slot(t, b, c), Child(t, b, c) # Nil
      PROVE  Child(t, b, c) \in D /\ rank[Child(t, b, c)] < rank[b]
  <2>1. b \in Addr
    BY <1>0, NodeTypes
  <2> QED
    BY <1>0, <1>1, <2>1 DEF Linked, Descends
<1>2. \A f \in [D -> V] : Unders(t, f) \in [D -> V]
  <2>1. SUFFICES ASSUME NEW f \in [D -> V] PROVE Unders(t, f) \in [D -> V]
    OBVIOUS
  <2>2. ASSUME NEW b \in D PROVE Unders(t, f)[b] \in V
    <3>1. \A x \in Unders(t, f)[b] : x \in D
      BY <1>0, <1>1, UnderIs
    <3> QED
      BY <3>1
  <2>3. Unders(t, f) = [b \in D |-> Unders(t, f)[b]]
    BY DEF Unders
  <2> HIDE DEF D, V
  <2> QED
    BY <2>2, <2>3
<1>3. Upward(D, V, rank, H)
  <2>1. ASSUME NEW f \in [D -> V], NEW g \in [D -> V], NEW b \in D, \A c \in D : rank[c] < rank[b] => f[c] = g[c]
        PROVE  H[f][b] = H[g][b]
    <3>1. H[f] = Unders(t, f) /\ H[g] = Unders(t, g)
      OBVIOUS
    <3>2. \A c \in Atom : Slot(t, b, c) /\ Child(t, b, c) # Nil => f[Child(t, b, c)] = g[Child(t, b, c)]
      BY <1>1, <2>1
    <3>3. PICK S, T : S = Unders(t, f)[b] /\ T = Unders(t, g)[b]
      OBVIOUS
    <3>4. /\ \A x : x \in S <=>
               x = b \/ \E c \in Atom : Slot(t, b, c) /\ Child(t, b, c) # Nil /\ x \in f[Child(t, b, c)]
          /\ \A x : x \in T <=>
               x = b \/ \E c \in Atom : Slot(t, b, c) /\ Child(t, b, c) # Nil /\ x \in g[Child(t, b, c)]
      BY <1>0, <3>3, UnderIs
    <3>5. \A x : x \in S <=> x \in T
      BY <3>2, <3>4
    <3>6. S = T
      BY <3>5
    <3> HIDE DEF H
    <3> QED
      BY <3>1, <3>3, <3>6
  <2> HIDE DEF H, D, V
  <2> QED
    BY <2>1 DEF Upward
<1>4. \E f \in [D -> V] : f = Unders(t, f)
  <2>1. V # {} /\ H \in [[D -> V] -> [D -> V]]
    <3>1. {} \in V
      OBVIOUS
    <3> HIDE DEF V, D
    <3> QED
      BY <1>2, <3>1
  <2>2. Recursion(D, V, rank, H)
    <3> HIDE DEF H, V
    <3> QED
      BY <1>3, <2>1 DEF Recursion
  <2>3. Solvable(D, V, H)
    <3> HIDE DEF H, D, V
    <3> QED
      BY <2>2, FixedPoint
  <2> HIDE DEF V, D
  <2> QED
    BY <2>3 DEF Solvable
<1> HIDE DEF D, V
<1> QED
  BY <1>4

\* Subtree is exactly what is under a node.
LEMMA SubtreeBranches ==
  ASSUME NEW t, Tree(t), NEW rank \in [DOMAIN t -> Nat], Descends(t, rank), NEW a \in DOMAIN t
  PROVE  Branch(t, rank, a, Subtree(t, a))
<1> DEFINE D == DOMAIN t
<1>0. Nodes(t) /\ Linked(t)
  BY DEF Tree
<1>1. ASSUME NEW b \in D, NEW c \in Atom, Slot(t, b, c), Child(t, b, c) # Nil
      PROVE  Child(t, b, c) \in D /\ rank[Child(t, b, c)] < rank[b]
  <2>1. b \in Addr
    BY <1>0, NodeTypes
  <2> QED
    BY <1>0, <1>1, <2>1 DEF Linked, Descends
<1>4. \E f : f = Unders(t, f)
  BY UndersSolved
<1> DEFINE F == CHOOSE f : f = Unders(t, f)
<1>5. F = Unders(t, F)
  BY <1>4
<1> DEFINE P == {b \in D : Branch(t, rank, b, F[b])}
<1>6. P = D
  <2> HIDE DEF F
  <2>1. ASSUME NEW b \in D, \A c \in D : rank[c] < rank[b] => c \in P PROVE b \in P
    <3>1. \A c \in Atom : Slot(t, b, c) /\ Child(t, b, c) # Nil =>
            Branch(t, rank, Child(t, b, c), F[Child(t, b, c)])
      BY <1>1, <2>1
    <3>2. F[b] = Unders(t, F)[b]
      BY <1>5
    <3>3. Branch(t, rank, b, F[b])
      BY <3>1, <3>2, BranchGrows
    <3> QED
      BY <3>3
  <2>2. P \in SUBSET D
    OBVIOUS
  <2>3. Inductive(D, rank, P)
    <3> HIDE DEF P
    <3> QED
      BY <2>1, <2>2 DEF Inductive
  <2> HIDE DEF P, D
  <2> QED
    BY <2>3, ByRank
<1>7. Branch(t, rank, a, F[a])
  <2> HIDE DEF F
  <2> QED
    BY <1>6
<1>8. Subtree(t, a) = F[a]
  BY SubtreeIs
<1> HIDE DEF F
<1> QED
  BY <1>7, <1>8

\* Membership in a subtree.
LEMMA SubtreeSteps ==
  ASSUME NEW t, Tree(t), NEW b \in DOMAIN t
  PROVE  /\ Subtree(t, b) \in SUBSET DOMAIN t
         /\ \A x : x \in Subtree(t, b) <=>
              x = b \/ \E c \in Atom : Slot(t, b, c) /\ Child(t, b, c) # Nil /\ x \in Subtree(t, Child(t, b, c))
<1>1. PICK rank \in [DOMAIN t -> Nat] : Descends(t, rank)
  BY DEF Tree, Ranked
<1>2. \E f : f = Unders(t, f)
  BY <1>1, UndersSolved
<1> DEFINE F == CHOOSE f : f = Unders(t, f)
<1>3. F = Unders(t, F)
  BY <1>2
<1>4. \A d : Subtree(t, d) = F[d]
  BY SubtreeIs
<1>5. Subtree(t, b) \in SUBSET DOMAIN t
  BY <1>1, SubtreeBranches DEF Branch
<1> HIDE DEF F
<1>6. \A x : x \in Unders(t, F)[b] <=>
        x = b \/ \E c \in Atom : Slot(t, b, c) /\ Child(t, b, c) # Nil /\ x \in F[Child(t, b, c)]
  BY UnderIs DEF Tree
<1> QED
  BY <1>3, <1>4, <1>5, <1>6

\* The subtree below an entry can be cut off, when the entry keeps its value.
LEMMA SubtreeCuts ==
  ASSUME NEW t, Tree(t), NEW a, NEW c, Slot(t, a, c), Attached(t, a), Child(t, a, c) # Nil,
         NEW e \in EntryT, e.child = Nil, e.value # None, NEW S, S = Subtree(t, Child(t, a, c))
  PROVE  Cuts(t, a, c, e, S)
<1>0. Nodes(t) /\ Linked(t) /\ OneParent(t) /\ a \in Addr /\ c \in Atom /\ a \in DOMAIN t
  BY NodeTypes DEF Tree, Slot
<1>1. PICK rank \in [DOMAIN t -> Nat] : Descends(t, rank)
  BY DEF Tree, Ranked
<1>2. PICK k : k = Child(t, a, c)
  OBVIOUS
<1>3. k \in DOMAIN t \ {Root} /\ rank[k] < rank[a] /\ k # Nil
  BY <1>0, <1>1, <1>2 DEF Linked, Descends
<1>4. Branch(t, rank, k, S)
  BY <1>1, <1>2, <1>3, SubtreeBranches
<1>5. \A y : y \in S => y \in Addr
  BY <1>0, <1>4, NodeTypes DEF Branch
<1>6. S \in SUBSET (DOMAIN t \ {a, Root}) /\ \A b \in S : Attached(t, b)
  <2>1. SUFFICES ASSUME NEW x \in S PROVE x \in DOMAIN t /\ x # a /\ x # Root /\ Attached(t, x)
    OBVIOUS
  <2>2. x \in DOMAIN t /\ (x = k \/ rank[x] < rank[k])
    BY <1>4 DEF Branch
  <2>3. rank[x] < rank[a]
    BY <1>0, <1>3, <2>2
  <2>4. \E y \in Addr, d \in Atom : Slot(t, y, d) /\ Child(t, y, d) = x
    <3>1. CASE x = k
      BY <1>0, <1>2, <3>1
    <3>2. CASE x # k
      BY <1>4, <1>5, <3>2 DEF Branch
    <3> QED
      BY <3>1, <3>2
  <2>5. x # Nil
    BY <1>0, <2>2, NodeTypes
  <2>6. x # Root
    BY <1>0, <2>4, <2>5 DEF Linked
  <2> QED
    BY <1>0, <2>2, <2>3, <2>4, <2>6 DEF Attached
<1>7. Closed(t, a, c, S)
  <2>1. SUFFICES ASSUME NEW b \in Addr, NEW d \in Atom, Slot(t, b, d)
                 PROVE  /\ b \in S => Child(t, b, d) \in S \cup {Nil}
                        /\ Child(t, b, d) \in S => b \in S \/ (b = a /\ d = c)
    BY DEF Closed
  <2>2. b \in S => Child(t, b, d) \in S \cup {Nil}
    BY <1>4, <2>1 DEF Branch
  <2>3. ASSUME Child(t, b, d) \in S PROVE b \in S \/ (b = a /\ d = c)
    <3>1. Child(t, b, d) # Nil
      BY <1>0, <1>6, <2>3, NodeTypes
    <3>2. CASE Child(t, b, d) = k
      BY <1>0, <1>2, <2>1, <3>1, <3>2 DEF OneParent
    <3>3. CASE Child(t, b, d) # k
      <4>1. PICK y \in S, x \in Atom : Slot(t, y, x) /\ Child(t, y, x) = Child(t, b, d)
        BY <1>4, <2>3, <3>3 DEF Branch
      <4>2. y = b
        BY <1>0, <1>5, <2>1, <3>1, <4>1 DEF OneParent
      <4> QED
        BY <4>1, <4>2
    <3> QED
      BY <3>2, <3>3
  <2> QED
    BY <2>2, <2>3
<1>8. Child(t, a, c) \in S \cup {Nil, e.child}
  BY <1>2, <1>4 DEF Branch
<1>9. ~Void(e)
  BY DEF Void
<1> QED
  BY <1>0, <1>6, <1>7, <1>8, <1>9 DEF Cuts

\* The values that the nodes S hold.
ValsIn(t, S) == {x \in Vals(t) : x[1] \in S}
\* The values in node a.
Counted(t, a) == Cardinality({c \in DOMAIN t[a].entry : t[a].entry[c].value # None})

\* The values of one node.
LEMMA CountedIs ==
  ASSUME NEW t, Nodes(t), IsFiniteSet(Vals(t)), NEW a \in DOMAIN t
  PROVE  Counted(t, a) = Cardinality(ValsIn(t, {a})) /\ Counted(t, a) \in Nat
<1> DEFINE C == {c \in DOMAIN t[a].entry : t[a].entry[c].value # None}
           X == ValsIn(t, {a})
           f == [x \in X |-> x[2]]
<1>1. IsFiniteSet(X)
  <2>1. X \in SUBSET Vals(t)
    BY DEF ValsIn
  <2> QED
    BY <2>1, FS_Subset
<1>2. \A x \in X : x = <<a, x[2]>> /\ x[2] \in C
  BY DEF ValsIn, Vals, Slot
<1>3. \A c \in C : <<a, c>> \in X
  <2>1. SUFFICES ASSUME NEW c \in C PROVE <<a, c>> \in X
    OBVIOUS
  <2>2. a \in Addr /\ c \in Atom /\ Slot(t, a, c) /\ t[a].entry[c].value # None
    BY NodeTypes DEF Slot
  <2>3. <<a, c>> \in Vals(t)
    BY <2>2, ValIs
  <2> QED
    BY <2>3 DEF ValsIn
<1>4. f \in Bijection(X, C)
  <2>1. f \in [X -> C]
    BY <1>2
  <2>2. \A x, y \in X : f[x] = f[y] => x = y
    <3> HIDE DEF X, C
    <3> QED
      BY <1>2
  <2>3. \A c \in C : \E x \in X : f[x] = c
    <3> HIDE DEF X, C
    <3> QED
      BY <1>3
  <2> HIDE DEF f, X, C
  <2> QED
    BY <2>1, <2>2, <2>3 DEF Bijection, Injection, Surjection, IsInjective
<1>5. ExistsBijection(X, C)
  BY <1>4 DEF ExistsBijection
<1>6. Cardinality(C) = Cardinality(X) /\ IsFiniteSet(C)
  <2> HIDE DEF X, C
  <2> QED
    BY <1>1, <1>5, FS_Bijection
<1>7. Cardinality(C) \in Nat
  <2> HIDE DEF C
  <2> QED
    BY <1>6, FS_CardinalityType
<1> QED
  BY <1>6, <1>7 DEF Counted

\* The sums over the subsets of S, given those of the smaller ones.
Sums(t, S, f) ==
  [s \in SUBSET S |-> IF s = {} THEN 0
                      ELSE LET x == CHOOSE y \in s : TRUE IN Counted(t, x) + f[s \ {x}]]

\* Terminals is the least solution of the recursion.
LEMMA TerminalsAre ==
  ASSUME NEW t, NEW S
  PROVE  Terminals(t, S) = (CHOOSE f : f = Sums(t, S, f))[S]
BY DEF Terminals, MapThenSumSet, MapThenFoldSet, Sums, Counted

\* The member the sum takes first.
OneOf(s) == CHOOSE y \in s : TRUE

\* v is the sum over s, given those over smaller sets.
Summed(t, f, s, v) ==
  /\ s = {} => v = 0
  /\ s # {} => v = Counted(t, OneOf(s)) + f[s \ {OneOf(s)}]

\* One step of the sum.
LEMMA SumsStep ==
  ASSUME NEW t, NEW S, NEW f, NEW s \in SUBSET S
  PROVE  Summed(t, f, s, Sums(t, S, f)[s])
BY DEF Sums, OneOf, Summed

\* What the nodes of s hold, one of them apart.
LEMMA ApartFrom ==
  ASSUME NEW t, Nodes(t), IsFiniteSet(Vals(t)), NEW s \in SUBSET DOMAIN t, NEW x \in s
  PROVE  Cardinality(ValsIn(t, s)) = Counted(t, x) + Cardinality(ValsIn(t, s \ {x}))
<1>1. PICK X, Y : X = ValsIn(t, {x}) /\ Y = ValsIn(t, s \ {x})
  OBVIOUS
<1>2. ValsIn(t, s) = X \cup Y /\ X \cap Y = {}
  BY <1>1 DEF ValsIn
<1>3. IsFiniteSet(X) /\ IsFiniteSet(Y)
  <2>1. X \in SUBSET Vals(t) /\ Y \in SUBSET Vals(t)
    BY <1>1 DEF ValsIn
  <2> QED
    BY <2>1, FS_Subset
<1>4. Cardinality(X) \in Nat /\ Cardinality(Y) \in Nat
  BY <1>3, FS_CardinalityType
<1>5. Cardinality(X \cup Y) = Cardinality(X) + Cardinality(Y)
  <2>1. Cardinality(X \cup Y) = Cardinality(X) + Cardinality(Y) - Cardinality(X \cap Y)
    BY <1>3, FS_Union
  <2>2. Cardinality(X \cap Y) = 0
    BY <1>2, FS_EmptySet
  <2> QED
    BY <1>4, <2>1, <2>2
<1>6. Counted(t, x) = Cardinality(X)
  BY <1>1, CountedIs
<1> QED
  BY <1>1, <1>2, <1>5, <1>6

\* Terminals counts the values that the nodes hold.
LEMMA TerminalsIs ==
  ASSUME NEW t, Nodes(t), IsFiniteSet(Vals(t)), NEW S \in SUBSET DOMAIN t
  PROVE  Terminals(t, S) = Cardinality(ValsIn(t, S))
<1> DEFINE D == SUBSET S
           V == Nat
           H == [f \in [D -> V] |-> Sums(t, S, f)]
           rank == [s \in D |-> Cardinality(s)]
<1>0. IsFiniteSet(S)
  <2>1. IsFiniteSet(1 .. MaxNode)
    <3>1. 1 \in Int /\ MaxNode \in Int
      BY TrieAssumption
    <3> QED
      BY <3>1, FS_Interval
  <2>2. S \in SUBSET (1 .. MaxNode)
    BY DEF Nodes, Addr
  <2> QED
    BY <2>1, <2>2, FS_Subset
<1>1. \A s \in D : /\ IsFiniteSet(s) /\ rank[s] = Cardinality(s) /\ rank[s] \in Nat
                   /\ s # {} => OneOf(s) \in s /\ s \ {OneOf(s)} \in D /\ rank[s \ {OneOf(s)}] < rank[s]
  <2>1. SUFFICES ASSUME NEW s \in D
                 PROVE  /\ IsFiniteSet(s) /\ rank[s] = Cardinality(s) /\ rank[s] \in Nat
                        /\ s # {} => OneOf(s) \in s /\ s \ {OneOf(s)} \in D /\ rank[s \ {OneOf(s)}] < rank[s]
    OBVIOUS
  <2>2. IsFiniteSet(s)
    BY <1>0, FS_Subset
  <2>3. Cardinality(s) \in Nat
    BY <2>2, FS_CardinalityType
  <2>4. ASSUME s # {} PROVE OneOf(s) \in s /\ s \ {OneOf(s)} \in D /\ rank[s \ {OneOf(s)}] < rank[s]
    <3>1. PICK x : x = OneOf(s)
      OBVIOUS
    <3>2. x \in s
      BY <2>4, <3>1 DEF OneOf
    <3>3. Cardinality(s \ {x}) = Cardinality(s) - 1
      BY <2>2, <3>2, FS_RemoveElement
    <3>4. s \ {x} \in D
      OBVIOUS
    <3>5. rank[s \ {x}] = Cardinality(s \ {x}) /\ rank[s] = Cardinality(s)
      BY <3>4
    <3> HIDE DEF rank
    <3> QED
      BY <2>3, <3>1, <3>2, <3>3, <3>4, <3>5
  <2> QED
    BY <2>2, <2>3, <2>4
<1>2. rank \in [D -> Nat]
  BY <1>1
<1> HIDE DEF rank
<1>3. \A s \in D : s # {} => OneOf(s) \in S /\ OneOf(s) \in DOMAIN t
  BY <1>1
<1>4. \A f \in [D -> V] : Sums(t, S, f) \in [D -> V]
  <2>1. SUFFICES ASSUME NEW f \in [D -> V] PROVE Sums(t, S, f) \in [D -> V]
    OBVIOUS
  <2>2. ASSUME NEW s \in D PROVE Sums(t, S, f)[s] \in V
    <3>0. Summed(t, f, s, Sums(t, S, f)[s])
      BY SumsStep
    <3>1. CASE s = {}
      BY <3>0, <3>1 DEF Summed
    <3>2. CASE s # {}
      <4>1. Counted(t, OneOf(s)) \in Nat
        BY <1>3, <3>2, CountedIs
      <4>2. f[s \ {OneOf(s)}] \in Nat
        BY <1>1, <3>2
      <4> QED
        BY <3>0, <3>2, <4>1, <4>2 DEF Summed
    <3> QED
      BY <3>1, <3>2
  <2>3. Sums(t, S, f) = [s \in D |-> Sums(t, S, f)[s]]
    BY DEF Sums
  <2> HIDE DEF D, V
  <2> QED
    BY <2>2, <2>3
<1>5. Upward(D, V, rank, H)
  <2>1. ASSUME NEW f \in [D -> V], NEW g \in [D -> V], NEW b \in D, \A c \in D : rank[c] < rank[b] => f[c] = g[c]
        PROVE  H[f][b] = H[g][b]
    <3>1. H[f] = Sums(t, S, f) /\ H[g] = Sums(t, S, g)
      OBVIOUS
    <3>0. Summed(t, f, b, Sums(t, S, f)[b]) /\ Summed(t, g, b, Sums(t, S, g)[b])
      BY SumsStep
    <3>2. CASE b = {}
      <4>1. Sums(t, S, f)[b] = 0 /\ Sums(t, S, g)[b] = 0
        BY <3>0, <3>2 DEF Summed
      <4> HIDE DEF H
      <4> QED
        BY <3>1, <4>1
    <3>3. CASE b # {}
      <4>1. f[b \ {OneOf(b)}] = g[b \ {OneOf(b)}]
        BY <1>1, <2>1, <3>3
      <4>2. /\ Sums(t, S, f)[b] = Counted(t, OneOf(b)) + f[b \ {OneOf(b)}]
            /\ Sums(t, S, g)[b] = Counted(t, OneOf(b)) + g[b \ {OneOf(b)}]
        BY <3>0, <3>3 DEF Summed
      <4> HIDE DEF H
      <4> QED
        BY <3>1, <4>1, <4>2
    <3> QED
      BY <3>2, <3>3
  <2> HIDE DEF H, D, V
  <2> QED
    BY <2>1 DEF Upward
<1>6. \E f \in [D -> V] : f = Sums(t, S, f)
  <2>1. V # {} /\ H \in [[D -> V] -> [D -> V]]
    <3>1. 0 \in V
      OBVIOUS
    <3> HIDE DEF V, D
    <3> QED
      BY <1>4, <3>1
  <2>2. Recursion(D, V, rank, H)
    <3> HIDE DEF H, D, V
    <3> QED
      BY <1>2, <1>5, <2>1 DEF Recursion
  <2>3. Solvable(D, V, H)
    <3> HIDE DEF H, D, V
    <3> QED
      BY <2>2, FixedPoint
  <2> HIDE DEF V, D
  <2> QED
    BY <2>3 DEF Solvable
<1> DEFINE F == CHOOSE f : f = Sums(t, S, f)
<1>7. F = Sums(t, S, F)
  BY <1>6
<1> DEFINE P == {s \in D : F[s] = Cardinality(ValsIn(t, s))}
<1>8. P = D
  <2> HIDE DEF F
  <2>1. ASSUME NEW s \in D, \A c \in D : rank[c] < rank[s] => c \in P PROVE s \in P
    <3>0. Summed(t, F, s, F[s])
      <4>1. Summed(t, F, s, Sums(t, S, F)[s])
        BY SumsStep
      <4> QED
        BY <1>7, <4>1
    <3>1. CASE s = {}
      <4>1. ValsIn(t, s) = {}
        BY <3>1 DEF ValsIn
      <4>2. F[s] = 0 /\ Cardinality(ValsIn(t, s)) = 0
        BY <3>0, <3>1, <4>1, FS_EmptySet DEF Summed
      <4> QED
        BY <4>2
    <3>2. CASE s # {}
      <4>1. PICK x : x = OneOf(s)
        OBVIOUS
      <4>2. F[s] = Counted(t, x) + F[s \ {x}]
        BY <3>0, <3>2, <4>1 DEF Summed
      <4>3. F[s \ {x}] = Cardinality(ValsIn(t, s \ {x}))
        BY <1>1, <2>1, <3>2, <4>1
      <4>4. s \in SUBSET DOMAIN t /\ x \in s
        BY <1>1, <3>2, <4>1
      <4>5. Cardinality(ValsIn(t, s)) = Counted(t, x) + Cardinality(ValsIn(t, s \ {x}))
        BY <4>4, ApartFrom
      <4> QED
        BY <4>2, <4>3, <4>5
    <3> QED
      BY <3>1, <3>2
  <2>2. P \in SUBSET D
    OBVIOUS
  <2>3. Inductive(D, rank, P)
    <3> HIDE DEF P, D
    <3> QED
      BY <1>2, <2>1, <2>2 DEF Inductive
  <2> HIDE DEF P, D
  <2> QED
    BY <2>3, ByRank
<1>9. F[S] = Cardinality(ValsIn(t, S))
  <2>1. S \in D
    OBVIOUS
  <2> HIDE DEF F, D
  <2> QED
    BY <1>8, <2>1
<1>10. Terminals(t, S) = F[S]
  BY TerminalsAre
<1> HIDE DEF F
<1> QED
  BY <1>9, <1>10

\* The way to an entry does not come by the nodes below the entry.
LEMMA OffTheWay ==
  ASSUME NEW t, Tree(t), NEW i, Stands(t, i), NEW a, NEW c, a = Last(i).addr, c = Last(i).text[1],
         NEW e, NEW S, Cuts(t, a, c, e, S)
  PROVE  \A m \in 1 .. Len(i) : i[m].addr \notin S /\ (m # Len(i) => i[m].addr # a)
<1>0. Steps(t, i) /\ Closed(t, a, c, S) /\ S \in SUBSET (DOMAIN t \ {a, Root}) /\ Len(i) \in Nat \ {0}
  BY StandsSteps DEF Cuts, Steps
<1>1. \A l \in 1 .. Len(i), m \in 1 .. Len(i) : i[l].addr = i[m].addr => l = m
  BY WaysAgree DEF SameWay
<1>2. Last(i) = i[Len(i)] /\ i[1].addr = Root
  BY <1>0 DEF Steps
<1>3. \A m \in 1 .. Len(i) : m # Len(i) => i[m].addr # a
  BY <1>0, <1>1, <1>2
<1> DEFINE M == {m \in 1 .. Len(i) : i[m].addr \in S}
<1>4. M = {}
  <2>1. SUFFICES ASSUME M # {} PROVE FALSE
    OBVIOUS
  <2>2. M \in SUBSET Nat
    OBVIOUS
  <2>3. PICK m \in M : \A k \in M : m <= k
    <3> HIDE DEF M
    <3> QED
      BY <2>1, <2>2, LeastNat
  <2>4. m \in 1 .. Len(i) /\ i[m].addr \in S /\ m # 1
    BY <1>0, <1>2
  <2>5. PICK l : l = m - 1
    OBVIOUS
  <2>6. l \in 1 .. Len(i) - 1 /\ l \in 1 .. Len(i) /\ m = l + 1 /\ l # Len(i)
    BY <1>0, <2>4, <2>5
  <2>7. Slot(t, i[l].addr, i[l].text[1]) /\ Child(t, i[l].addr, i[l].text[1]) = i[m].addr
        /\ i[l].addr \in Addr /\ i[l].text[1] \in Atom
    BY <1>0, <2>6 DEF Steps
  <2>8. i[l].addr \in S \/ i[l].addr = a
    BY <1>0, <2>4, <2>7 DEF Closed
  <2>9. l \in M
    BY <1>3, <2>6, <2>8
  <2>10. ~(m <= l)
    BY <2>4, <2>6
  <2> QED
    BY <2>3, <2>9, <2>10
<1> QED
  BY <1>3, <1>4, SMTT(60)

\* So an iterator still stands on an entry when what is below it is cut off.
StandsOn(u, i, e) == Stands(u, i) /\ Here(u, Last(i)) = e

\* An iterator on the entry above what was cut off still stands.
LEMMA StandsAfter ==
  ASSUME NEW t, Tree(t), NEW i, Stands(t, i), NEW a, NEW c, a = Last(i).addr, c = Last(i).text[1],
         NEW e, NEW S, Cuts(t, a, c, e, S), NEW u, Trims(t, u, a, c, e, S), ~Void(e)
  PROVE  StandsOn(u, i, e)
<1>0. Steps(t, i) /\ DOMAIN u = DOMAIN t \ S /\ Elsewhere(t, u, a, c) /\ Slot(u, a, c) /\ u[a].entry[c] = e
      /\ Way(t, Root, i) /\ Len(i) \in Nat \ {0} /\ Last(i) = i[Len(i)]
  BY StandsSteps DEF Trims, Steps, Stands
<1>1. \A m \in 1 .. Len(i) : i[m].addr \notin S /\ (m # Len(i) => i[m].addr # a)
  BY OffTheWay
<1>2. \A m \in 1 .. Len(i) : i[m].addr \in DOMAIN u
  BY <1>0, <1>1 DEF Steps
<1>3. \A m \in 1 .. Len(i) - 1 : OnSlot(u, i[m]) /\ Here(u, i[m]).child = i[m + 1].addr
  <2>1. SUFFICES ASSUME NEW m \in 1 .. Len(i) - 1
                 PROVE  OnSlot(u, i[m]) /\ Here(u, i[m]).child = i[m + 1].addr
    OBVIOUS
  <2>2. m \in 1 .. Len(i) /\ m # Len(i)
    BY <1>0
  <2>3. PICK b, d : b = i[m].addr /\ d = i[m].text[1]
    OBVIOUS
  <2>4. b \in DOMAIN t /\ b \in DOMAIN u /\ b # a /\ Slot(t, b, d) /\ Child(t, b, d) = i[m + 1].addr
    BY <1>0, <1>1, <1>2, <2>2, <2>3, SMTT(60) DEF Steps
  <2>5. u[b].entry = t[b].entry
    BY <1>0, <2>4 DEF Elsewhere
  <2> QED
    BY <2>3, <2>4, <2>5 DEF OnSlot, Here, Slot, Child
<1>4. Way(u, Root, i)
  BY <1>0, <1>2, <1>3 DEF Way
<1>5. OnSlot(u, Last(i)) /\ Here(u, Last(i)) = e
  BY <1>0 DEF OnSlot, Here
<1> QED
  BY <1>4, <1>5, SMTT(60) DEF Stands, StandsOn

\* An iterator whose last position is patched.
Patch(j, w) == Append(Front(j), [Last(j) EXCEPT !.has_child = FALSE, !.version = w])

\* A patched iterator sits as before.
LEMMA PatchSits ==
  ASSUME NEW t, NEW j, Sits(t, j), NEW w \in Nat
  PROVE  Sits(t, Patch(j, w))
<1>0. Way(t, Root, j) /\ OnSlot(t, Last(j)) /\ Valued(t, Last(j))
  BY DEF Sits, Stands
<1>1. j \in Seq(PosT) /\ j # <<>> /\ Last(j) = j[Len(j)] /\ Len(j) \in 1 .. Len(j)
  <2>1. j \in Seq(PosT) /\ j # <<>>
    BY <1>0 DEF Way
  <2>2. Last(j) = j[Len(j)] /\ Len(j) \in Nat \ {0}
    BY <2>1, FrontLast
  <2> QED
    BY <2>1, <2>2
<1>2. PICK p, q : p = Last(j) /\ q = [p EXCEPT !.has_child = FALSE, !.version = w]
  OBVIOUS
<1>3. p \in PosT /\ p.text # <<>>
  <2>1. p \in PosT
    BY <1>1, <1>2, FrontLast
  <2> QED
    BY <1>0, <1>1, <1>2, <2>1 DEF Way
<1>4. q \in PosT /\ q.addr = p.addr /\ q.text = p.text /\ q.has_child = FALSE /\ q.has_data = p.has_data
  BY <1>2, <1>3 DEF PosT
<1>5. PICK x : x = Append(Front(j), q)
  OBVIOUS
<1>6. Turned(t, j, q, x)
  BY <1>0, <1>2, <1>3, <1>4, <1>5, Replaced
<1>7. Way(t, Root, x) /\ Last(x) = q
  BY <1>6 DEF Turned
<1>8. OnSlot(t, q) /\ Here(t, q) = Here(t, p)
  BY <1>0, <1>2, <1>4 DEF OnSlot, Here
<1>9. Valued(t, q)
  BY <1>0, <1>2, <1>4, <1>8 DEF Valued
<1>10. Sits(t, x)
  BY <1>7, <1>8, <1>9 DEF Sits, Stands
<1> QED
  BY <1>2, <1>5, <1>10 DEF Patch

\* What prefixed_erase_all leaves once the subtree is cut off, and the iterator
\* it goes on with.
CutOff(s, i) ==
  [node  |-> Without(Free(s.node, Subtree(s.node, Here(s.node, Last(i)).child)), Last(i).addr, Last(i).text[1],
                     [Here(s.node, Last(i)) EXCEPT !.child = Nil], 1),
   count |-> s.count - Terminals(s.node, Subtree(s.node, Here(s.node, Last(i)).child))]
\* The iterator whose entry has lost its child.
Bare(i) == Append(Front(i), [Last(i) EXCEPT !.has_child = FALSE])

\* The patch of what prefixed_erase_all returns.
Rested(r, w) == IF r.it = End THEN r ELSE [r EXCEPT !.it = Patch(r.it, w)]

\* What prefixed_erase_all returns, its parts named.
LEMMA PrefixedEraseAtIs ==
  ASSUME NEW s, NEW i, NEW ep
  PROVE  PrefixedEraseAt(s, i, ep) =
           IF ep /\ ~Last(i).has_child THEN EraseAt(s, i)
           ELSE Rested(IF ep /\ Last(i).has_data THEN EraseAt(CutOff(s, i), Bare(i))
                       ELSE [node |-> CutOff(s, i).node, count |-> CutOff(s, i).count, it |-> Bare(i)],
                       CutOff(s, i).node[Last(i).addr].version)
BY DEF PrefixedEraseAt, CutOff, Bare, Rested, Patch

\* A finite set less a part of it.
LEMMA Complement ==
  ASSUME NEW S, IsFiniteSet(S), NEW T \in SUBSET S
  PROVE  IsFiniteSet(S \ T) /\ Cardinality(S \ T) = Cardinality(S) - Cardinality(T)
<1>1. S \cap T = T
  OBVIOUS
<1> QED
  BY <1>1, FS_Difference

\* The tree u is whole, and iterator i is still on its value.
CutKept(t, i, u, k) == Whole(u, k) /\ Loose(u) = Loose(t) /\ Stands(u, i) /\ Here(u, Last(i)).value # None

\* Cutting off a subtree takes its values from the count.
LEMMA CutOffKeeps ==
  ASSUME NEW s, NEW t, t = s.node, Whole(t, s.count), NEW i, Stands(t, i), Here(t, Last(i)).child # Nil,
         Here(t, Last(i)).value # None
  PROVE  CutKept(t, i, CutOff(s, i).node, CutOff(s, i).count)
<1>0. Tree(t) /\ Nodes(t) /\ IsFiniteSet(Vals(t)) /\ s.count = Cardinality(Vals(t)) /\ Steps(t, i)
  BY StandsSteps DEF Whole, Tree
<1>1. PICK a, c, h, k, S, e : /\ a = Last(i).addr /\ c = Last(i).text[1] /\ h = Here(t, Last(i)) /\ k = h.child
                              /\ S = Subtree(t, k) /\ e = [h EXCEPT !.child = Nil]
  OBVIOUS
<1>2. /\ Slot(t, a, c) /\ Attached(t, a) /\ Child(t, a, c) = k /\ h \in EntryT /\ k # Nil /\ h.value # None
      /\ h = t[a].entry[c] /\ a \in Addr /\ c \in Atom /\ a \in DOMAIN t
  <2>1. Len(i) \in 1 .. Len(i) /\ Last(i) = i[Len(i)]
    BY <1>0 DEF Steps
  <2> QED
    BY <1>0, <1>1, <2>1, SMTT(60) DEF Steps
<1>3. e \in EntryT /\ e.child = Nil /\ e.value = h.value
  BY <1>1, <1>2, ZenonT(40) DEF EntryT
<1>4. Cuts(t, a, c, e, S)
  BY <1>0, <1>1, <1>2, <1>3, SubtreeCuts, Zenon
<1>5. PICK u : u = Without(Free(t, S), a, c, e, 1)
  OBVIOUS
<1>6. Trims(t, u, a, c, e, S)
  BY <1>0, <1>4, <1>5, Trimming
<1>7. CutOff(s, i).node = u /\ CutOff(s, i).count = s.count - Terminals(t, S)
  BY <1>1, <1>5 DEF CutOff
<1>8. ~Void(e)
  BY <1>2, <1>3 DEF Void
<1>9. Stands(u, i) /\ Here(u, Last(i)) = e
  <2>1. StandsOn(u, i, e)
    BY <1>0, <1>1, <1>4, <1>6, <1>8, StandsAfter
  <2> QED
    BY <2>1 DEF StandsOn
<1>10. S \in SUBSET DOMAIN t /\ a \notin S
  BY <1>4 DEF Cuts
<1>11. Terminals(t, S) = Cardinality(ValsIn(t, S))
  BY <1>0, <1>10, TerminalsIs
<1>12. Vals(u) = Vals(t) \ ValsIn(t, S)
  <2>1. Vals(u) = {x \in Vals(t) : x[1] \notin S /\ x # <<a, c>>} \cup {<<a, c>>}
    BY <1>2, <1>3, <1>6 DEF Trims, ValsCut
  <2>2. <<a, c>> \in Vals(t)
    BY <1>2, ValIs
  <2>3. \A x : x \in Vals(u) <=> x \in Vals(t) /\ x[1] \notin S
    BY <1>10, <2>1, <2>2
  <2> QED
    BY <2>3 DEF ValsIn
<1>13. Whole(u, s.count - Terminals(t, S))
  <2>1. ValsIn(t, S) \in SUBSET Vals(t)
    BY DEF ValsIn
  <2>2. IsFiniteSet(Vals(u)) /\ Cardinality(Vals(u)) = s.count - Terminals(t, S)
    BY <1>0, <1>11, <1>12, <2>1, Complement
  <2>3. Tree(u)
    BY <1>6 DEF Trims
  <2> QED
    BY <2>2, <2>3 DEF Whole
<1>14. Loose(u) = Loose(t)
  BY <1>6, Zenon DEF Trims
<1> QED
  BY <1>2, <1>3, <1>7, <1>9, <1>13, <1>14 DEF CutKept

\* The call with its parts named.
IsState(r) == r = [node |-> r.node, count |-> r.count, it |-> r.it]

\* An erasure returns nodes, a count and an iterator.
LEMMA EraseAtState ==
  ASSUME NEW s, NEW i
  PROVE  IsState(EraseAt(s, i))
BY Zenon DEF IsState, EraseAt

\* The patch touches the iterator only.
LEMMA RestedIs ==
  ASSUME NEW r, IsState(r), NEW w
  PROVE  Rested(r, w).node = r.node /\ Rested(r, w).count = r.count
         /\ Rested(r, w).it = IF r.it = End THEN End ELSE Patch(r.it, w)
BY DEF IsState, Rested

\* Whole again, and the iterator at its end or on an entry with a value.
PrefixErased(t, ep, r) ==
  Whole(r.node, r.count) /\ Loose(r.node) = Loose(t) /\ (ep => r.it = End \/ Sits(r.node, r.it))

\* An erasure by prefix leaves a whole tree, and an iterator that sits or is at
\* its end when the prefix itself is erased.
LEMMA PrefixedEraseKeeps ==
  ASSUME NEW s, NEW t, t = s.node, Whole(t, s.count), NEW i, Sits(t, i), NEW ep \in BOOLEAN,
         ep \/ Last(i).has_child, NEW r, r = PrefixedEraseAt(s, i, ep)
  PROVE  PrefixErased(t, ep, r)
<1>0. Tree(t) /\ Stands(t, i) /\ Valued(t, Last(i)) /\ i \in Seq(PosT) /\ i # <<>> /\ Way(t, Root, i)
  BY DEF Whole, Sits, Stands, Way
<1>1. CASE ~Last(i).has_child
  <2>1. r = EraseAt(s, i)
    BY <1>1, PrefixedEraseAtIs
  <2>2. Erased(t, s.count, i, r)
    BY <1>0, <2>1, EraseKeeps DEF Valued
  <2>3. r.it = NextSibling(t, i)
    BY <1>1, <2>2 DEF Erased, NextOf
  <2>4. Parting(t, i, NextSibling(t, i))
    BY <1>0, NextSiblingParts
  <2> QED
    BY <2>2, <2>3, <2>4 DEF Erased, PrefixErased
<1>2. CASE Last(i).has_child
  <2>1. PICK z : z = CutOff(s, i)
    OBVIOUS
  <2>2. PICK u : u = z.node
    OBVIOUS
  <2>3. Whole(u, z.count) /\ Loose(u) = Loose(t) /\ Stands(u, i) /\ Here(u, Last(i)).value # None
    BY <1>0, <1>2, <2>1, <2>2, CutOffKeeps DEF CutKept, Valued
  <2>4. PICK p, q, x : p = Last(i) /\ q = [p EXCEPT !.has_child = FALSE] /\ x = Append(Front(i), q)
    OBVIOUS
  <2>5. p \in PosT /\ p.text # <<>>
    <3>1. p \in PosT /\ Len(i) \in Nat \ {0} /\ Last(i) = i[Len(i)]
      BY <1>0, <2>4, FrontLast
    <3>2. Len(i) \in 1 .. Len(i)
      BY <3>1
    <3> QED
      BY <1>0, <2>4, <3>1, <3>2 DEF Way
  <2>6. q \in PosT /\ q.addr = p.addr /\ q.text = p.text /\ q.has_child = FALSE
    BY <2>4, <2>5 DEF PosT
  <2>7. Turned(u, i, q, x)
    BY <2>3, <2>4, <2>5, <2>6, Replaced DEF Stands
  <2>8. Stands(u, x) /\ Last(x) = q /\ Here(u, Last(x)).value # None /\ x = Bare(i)
    BY <2>3, <2>4, <2>6, <2>7 DEF Turned, Stands, OnSlot, Here, Bare
  <2>9. PICK w : w = u[p.addr].version
    OBVIOUS
  <2>10. w \in Nat
    <3>1. Nodes(u) /\ p.addr \in DOMAIN u
      <4>1. Nodes(u) /\ Slot(u, p.addr, p.text[1])
        BY <2>3, <2>4 DEF Whole, Tree, Stands, OnSlot
      <4> QED
        BY <4>1 DEF Slot
    <3>2. w \in 0 .. VersionMod - 1
      BY <2>9, <3>1, NodeTypes
    <3> QED
      BY <3>2
  <2>11. CASE ep
    <3>1. p.has_data
      BY <1>0, <2>4 DEF Valued
    <3>2. PICK v : v = EraseAt(z, x)
      OBVIOUS
    <3>3. r = Rested(v, w)
      BY <1>2, <2>1, <2>2, <2>4, <2>8, <2>9, <2>11, <3>1, <3>2, PrefixedEraseAtIs
    <3>4. Erased(u, z.count, x, v)
      BY <2>2, <2>3, <2>8, <3>2, EraseKeeps
    <3>5. v.it = NextSibling(u, x)
      BY <2>6, <2>8, <3>4 DEF Erased, NextOf
    <3>6. Parting(u, x, NextSibling(u, x))
      BY <2>3, <2>8, NextSiblingParts DEF Whole
    <3>7. v.it = End \/ Sits(v.node, v.it)
      BY <3>4, <3>5, <3>6 DEF Erased
    <3>8. IsState(v)
      BY <3>2, EraseAtState
    <3>9. r.node = v.node /\ r.count = v.count /\ r.it = IF v.it = End THEN End ELSE Patch(v.it, w)
      BY <3>3, <3>8, RestedIs
    <3>10. r.it = End \/ Sits(r.node, r.it)
      <4>1. CASE v.it = End
        BY <3>9, <4>1
      <4>2. CASE v.it # End
        <5>1. Sits(v.node, Patch(v.it, w))
          BY <2>10, <3>7, <4>2, PatchSits
        <5> QED
          BY <3>9, <4>2, <5>1
      <4> QED
        BY <4>1, <4>2
    <3> QED
      BY <2>3, <3>4, <3>9, <3>10 DEF Erased, PrefixErased
  <2>12. CASE ~ep
    <3>1. PICK v : v = [node |-> u, count |-> z.count, it |-> x]
      OBVIOUS
    <3>2. r = Rested(v, w)
      BY <2>1, <2>2, <2>4, <2>8, <2>9, <2>12, <3>1, PrefixedEraseAtIs
    <3>3. IsState(v) /\ v.node = u /\ v.count = z.count
      BY <3>1 DEF IsState
    <3>4. r.node = u /\ r.count = z.count
      BY <3>2, <3>3, RestedIs
    <3> QED
      BY <2>3, <2>12, <3>4 DEF PrefixErased
  <2> QED
    BY <2>11, <2>12
<1> QED
  BY <1>1, <1>2

\* One round of prefixed_key_erase_all, and the rounds given those before.
Stepping(q, r) ==
  LET k == KeyAt(r.it)
  IN  CASE r.it # End /\ IsPrefix(q, k)       -> PrefixedEraseAt(r, r.it, TRUE)
        [] r.it # End /\ IsStrictPrefix(k, q) -> [r EXCEPT !.it = NextOf(r.node, @)]
        [] OTHER -> [r EXCEPT !.it = End]
\* The rounds, and the state they start from.
Rounds(s, q, f) == [n \in Nat |-> IF n = 0 THEN s ELSE Stepping(q, f[n - 1])]
Outset(q) == [node |-> node, count |-> count, it |-> LowerBound(node, q)]

\* KeyErased is what the rounds come to.
LEMMA KeyErasedIs ==
  ASSUME NEW q
  PROVE  KeyErased(q) = (CHOOSE f : f = Rounds(Outset(q), q, f))[count + 1]
BY DEF KeyErased, Rounds, Stepping, Outset

\* An erasure by prefix returns nodes, a count and an iterator.
LEMMA PrefixedEraseState ==
  ASSUME NEW s, NEW i, NEW ep
  PROVE  IsState(PrefixedEraseAt(s, i, ep))
<1>1. \A r, w : IsState(r) => IsState(Rested(r, w))
  BY DEF IsState, Rested
<1>2. \A u, k, j : IsState([node |-> u, count |-> k, it |-> j])
  BY DEF IsState
<1>3. IsState(EraseAt(s, i)) /\ IsState(EraseAt(CutOff(s, i), Bare(i)))
  BY EraseAtState
<1> QED
  BY <1>1, <1>2, <1>3, PrefixedEraseAtIs

\* A state on the way, and one after a round.
Keeps(q, L, r) == IsState(r) /\ Whole(r.node, r.count) /\ Loose(r.node) = L /\ Aimed(r.node, q, r.it)
Rounded(L, r) == IsState(r) /\ Whole(r.node, r.count) /\ Loose(r.node) = L /\ (r.it = End \/ Sits(r.node, r.it))

\* A prefix does not start with what it begins.
LEMMA NoPrefixBack ==
  ASSUME NEW s \in Seq(Atom), NEW r \in Seq(Atom), IsPrefix(s, r)
  PROVE  ~IsStrictPrefix(r, s)
<1>1. SUFFICES ASSUME IsPrefix(r, s) PROVE r = s
  BY DEF IsStrictPrefix
<1>2. Len(s) <= Len(r) /\ \A n \in 1 .. Len(s) : s[n] = r[n]
  BY PrefixAgrees
<1>3. Len(r) <= Len(s)
  BY <1>1, PrefixAgrees
<1>4. Len(r) = Len(s)
  BY <1>2, <1>3
<1> QED
  BY <1>2, <1>4, SameSequence

\* A round leaves a whole tree, and the iterator at its end or on a value.
LEMMA RoundKeeps ==
  ASSUME NEW q \in Text, NEW L, NEW r, Keeps(q, L, r)
  PROVE  Rounded(L, Stepping(q, r))
<1>0. IsState(r) /\ Whole(r.node, r.count) /\ Loose(r.node) = L /\ Aimed(r.node, q, r.it)
  BY DEF Keeps
<1>1. PICK t, i, k : t = r.node /\ i = r.it /\ k = KeyAt(i)
  OBVIOUS
<1>2. \A j : /\ [r EXCEPT !.it = j].node = t /\ [r EXCEPT !.it = j].count = r.count
             /\ [r EXCEPT !.it = j].it = j /\ IsState([r EXCEPT !.it = j])
  BY <1>0, <1>1 DEF IsState
<1>3. CASE i # End /\ IsPrefix(q, k)
  <2>1. Sits(t, i)
    BY <1>0, <1>1, <1>3 DEF Aimed, Astray
  <2>2. PICK x : x = PrefixedEraseAt(r, i, TRUE)
    OBVIOUS
  <2>3. PrefixErased(t, TRUE, x)
    BY <1>0, <1>1, <2>1, <2>2, PrefixedEraseKeeps
  <2>4. IsState(x)
    BY <2>2, PrefixedEraseState
  <2>5. Stepping(q, r) = x
    <3>1. k \in Seq(Atom) /\ q \in Seq(Atom)
      BY <1>1, <2>1, KeyStarts DEF Text, Sits, Stands, Way
    <3>2. ~IsStrictPrefix(k, q)
      BY <1>3, <3>1, NoPrefixBack
    <3> QED
      BY <1>1, <1>3, <2>2, <3>2 DEF Stepping
  <2> QED
    BY <1>0, <1>1, <2>3, <2>4, <2>5 DEF PrefixErased, Rounded
<1>4. CASE i # End /\ ~IsPrefix(q, k) /\ IsStrictPrefix(k, q)
  <2>1. Sits(t, i)
    BY <1>0, <1>1, <1>4 DEF Aimed, Astray
  <2>2. NextOf(t, i) = End \/ Sits(t, NextOf(t, i))
    BY <1>0, <1>1, <2>1, NextSits DEF Whole
  <2>3. PICK j : j = NextOf(t, i)
    OBVIOUS
  <2>4. Stepping(q, r) = [r EXCEPT !.it = j]
    BY <1>1, <1>4, <2>3 DEF Stepping
  <2> QED
    BY <1>0, <1>1, <1>2, <2>2, <2>3, <2>4 DEF Rounded
<1>5. CASE ~(i # End /\ IsPrefix(q, k)) /\ ~(i # End /\ IsStrictPrefix(k, q))
  <2>1. Stepping(q, r) = [r EXCEPT !.it = End]
    BY <1>1, <1>5 DEF Stepping
  <2> QED
    BY <1>0, <1>1, <1>2, <2>1 DEF Rounded
<1> QED
  BY <1>3, <1>4, <1>5

\* The set such states are in.
NodeSets == UNION {[A -> NodeT] : A \in SUBSET Addr}
States(q, L, i) == {r \in [node : NodeSets, count : Nat, it : Seq(PosT) \cup {i}] : Keeps(q, L, r)}

\* The types of a whole tree.
LEMMA WholeTypes ==
  ASSUME NEW t, NEW k, Whole(t, k)
  PROVE  t \in NodeSets /\ k \in Nat
<1>1. DOMAIN t \in SUBSET Addr /\ t \in [DOMAIN t -> NodeT]
  BY DEF Whole, Tree, Nodes
<1>2. k \in Nat
  BY FS_CardinalityType DEF Whole
<1> QED
  BY <1>1, <1>2 DEF NodeSets

\* After a round the state is again one of those considered.
LEMMA RoundedState ==
  ASSUME NEW q, NEW L, NEW i, NEW r, Rounded(L, r)
  PROVE  r \in States(q, L, i)
<1>1. IsState(r) /\ Whole(r.node, r.count) /\ Loose(r.node) = L /\ (r.it = End \/ Sits(r.node, r.it))
  BY DEF Rounded
<1>2. r.node \in NodeSets /\ r.count \in Nat
  BY <1>1, WholeTypes
<1>3. r.it \in Seq(PosT)
  <2>1. <<>> \in Seq(PosT)
    OBVIOUS
  <2> QED
    BY <1>1, <2>1 DEF End, Sits, Stands, Way
<1>4. Keeps(q, L, r)
  BY <1>1 DEF Keeps, Aimed
<1>5. [node |-> r.node, count |-> r.count, it |-> r.it] \in [node : NodeSets, count : Nat, it : Seq(PosT) \cup {i}]
  BY <1>2, <1>3
<1> QED
  BY <1>1, <1>4, <1>5 DEF States, IsState

\* Rounds of erasures leave a whole tree.
LEMMA KeyErasedKeeps ==
  ASSUME Whole(node, count), NEW q \in Text, NEW r, r = KeyErased(q)
  PROVE  Whole(r.node, r.count) /\ Loose(r.node) = Loose(node)
<1> DEFINE L == Loose(node)
           s == Outset(q)
           D == Nat
           V == States(q, L, s.it)
           H == [f \in [D -> V] |-> Rounds(s, q, f)]
           rank == [n \in D |-> n]
<1>0. Tree(node) /\ count \in Nat
  BY WholeTypes DEF Whole
<1>1. s \in V /\ s.node = node /\ s.count = count
  <2>1. s.node = node /\ s.count = count /\ s.it = LowerBound(node, q) /\ IsState(s)
    BY DEF Outset, IsState
  <2>2. Aimed(node, q, s.it)
    BY <1>0, <2>1, LowerBoundAims
  <2>3. Keeps(q, L, s)
    BY <2>1, <2>2 DEF Keeps
  <2>4. node \in NodeSets /\ count \in Nat
    BY WholeTypes
  <2>5. s \in [node : NodeSets, count : Nat, it : Seq(PosT) \cup {s.it}]
    <3> HIDE DEF s
    <3> QED
      BY <2>1, <2>4 DEF IsState
  <2> HIDE DEF L, s
  <2> QED
    BY <2>1, <2>3, <2>5 DEF States
<1> HIDE DEF s, L
<1>2. \A x \in V : Stepping(q, x) \in V
  <2>1. SUFFICES ASSUME NEW x \in V PROVE Stepping(q, x) \in V
    OBVIOUS
  <2>2. Keeps(q, L, x)
    BY DEF States
  <2>3. Rounded(L, Stepping(q, x))
    BY <2>2, RoundKeeps
  <2> QED
    BY <2>3, RoundedState
<1> HIDE DEF V
<1>3. \A n \in Nat : n = 0 \/ (n - 1 \in Nat /\ n - 1 < n)
  OBVIOUS
<1>4. \A f \in [D -> V] : Rounds(s, q, f) \in [D -> V]
  BY <1>1, <1>2, <1>3 DEF Rounds
<1>5. Upward(D, V, rank, H)
  <2>1. ASSUME NEW f \in [D -> V], NEW g \in [D -> V], NEW b \in D, \A c \in D : rank[c] < rank[b] => f[c] = g[c]
        PROVE  H[f][b] = H[g][b]
    <3>1. H[f] = Rounds(s, q, f) /\ H[g] = Rounds(s, q, g)
      OBVIOUS
    <3>2. b = 0 \/ f[b - 1] = g[b - 1]
      BY <1>3, <2>1
    <3>3. Rounds(s, q, f)[b] = Rounds(s, q, g)[b]
      BY <3>2 DEF Rounds
    <3> HIDE DEF H
    <3> QED
      BY <3>1, <3>3
  <2> HIDE DEF H, D, rank
  <2> QED
    BY <2>1 DEF Upward
<1>6. \E f \in [D -> V] : f = Rounds(s, q, f)
  <2>1. V # {} /\ H \in [[D -> V] -> [D -> V]]
    BY <1>1, <1>4
  <2>2. rank \in [D -> Nat]
    OBVIOUS
  <2>3. Recursion(D, V, rank, H)
    <3> HIDE DEF H, D, rank
    <3> QED
      BY <1>5, <2>1, <2>2 DEF Recursion
  <2>4. Solvable(D, V, H)
    <3> HIDE DEF H, D, rank
    <3> QED
      BY <2>3, FixedPoint
  <2> HIDE DEF D
  <2> QED
    BY <2>4 DEF Solvable
<1> DEFINE F == CHOOSE f : f = Rounds(s, q, f)
<1>7. F = Rounds(s, q, F)
  BY <1>6
<1> DEFINE T == {n \in Nat : F[n] \in V}
<1>8. T = Nat
  <2> HIDE DEF F
  <2>1. 0 \in T
    <3>1. Rounds(s, q, F)[0] = s
      BY DEF Rounds
    <3>2. F[0] = s
      BY <1>7, <3>1
    <3> QED
      BY <1>1, <3>2
  <2>2. ASSUME NEW n \in T PROVE n + 1 \in T
    <3>1. n + 1 \in Nat /\ n + 1 # 0 /\ (n + 1) - 1 = n
      OBVIOUS
    <3>2. Rounds(s, q, F)[n + 1] = Stepping(q, F[n])
      BY <3>1 DEF Rounds
    <3>3. F[n + 1] = Stepping(q, F[n])
      BY <1>7, <3>2
    <3> QED
      BY <1>2, <3>1, <3>3
  <2>3. T \in SUBSET Nat
    OBVIOUS
  <2> HIDE DEF T
  <2> QED
    BY <2>1, <2>2, <2>3, NatSet
<1>9. F[count + 1] \in V
  <2>1. count + 1 \in Nat
    BY <1>0
  <2> HIDE DEF F
  <2> QED
    BY <1>8, <2>1
<1>10. r = F[count + 1]
  BY KeyErasedIs DEF s
<1> HIDE DEF F
<1>11. Keeps(q, L, r)
  BY <1>9, <1>10 DEF V, States
<1> QED
  BY <1>11 DEF Keeps, L

\* An iterator that find returns sits on the key.
LEMMA FindSits ==
  ASSUME NEW t, Tree(t), NEW k \in Text
  PROVE  Find(t, k) = End \/ Sits(t, Find(t, k))
<1>1. Led(t, Root, k, Mismatch(t, Root, k))
  BY RootLeads
<1>2. PICK m : m = Mismatch(t, Root, k)
  OBVIOUS
<1>3. Way(t, Root, m.path) /\ Outcome(t, m)
  BY <1>1, <1>2 DEF Led
<1>4. CASE m.result = "equals"
  <2>1. OnSlot(t, Last(m.path)) /\ Valued(t, Last(m.path))
    BY <1>3, <1>4 DEF Outcome, Valued
  <2> QED
    BY <1>2, <1>3, <1>4, <2>1 DEF Find, Sits, Stands
<1>5. CASE m.result # "equals"
  BY <1>2, <1>5 DEF Find
<1> QED
  BY <1>4, <1>5

\* A call that takes over a whole result keeps the invariant.
LEMMA Becoming ==
  ASSUME TrieInv, NEW r, Becomes(r), Whole(r.node, r.count), Loose(r.node) = Loose(node)
  PROVE  Good
<1>1. node' = r.node /\ count' = r.count /\ thrown' = FALSE
  BY DEF Becomes
<1>2. Whole(node', count')
  BY <1>1
<1>3. Loose(node') = Loose(node)
  BY <1>1
<1> QED
  BY <1>1, <1>2, <1>3 DEF Good, TrieInv

\* erase and prefixed_erase_all keep the invariant.
LEMMA Erasing ==
  ASSUME TrieInv, NEW k \in Text, Erase(k) \/ \E ep \in BOOLEAN : PrefixedEraseAll(k, ep)
  PROVE  Good
<1>1. Whole(node, count) /\ Tree(node) /\ State.node = node /\ State.count = count
  BY DEF TrieInv, Whole, State
<1>2. PICK i : i = Find(node, k)
  OBVIOUS
<1>3. i = End \/ Sits(node, i)
  BY <1>1, <1>2, FindSits
<1>4. CASE Erase(k)
  <2>1. PICK r : r = EraseAt(State, i)
    OBVIOUS
  <2>2. i # End /\ Becomes(r)
    BY <1>2, <1>4, <2>1 DEF Erase
  <2>3. Stands(node, i) /\ Here(node, Last(i)).value # None
    BY <1>3, <2>2 DEF Sits, Valued
  <2>4. Erased(node, count, i, r)
    BY <1>1, <2>1, <2>3, EraseKeeps
  <2>5. Whole(r.node, r.count) /\ Loose(r.node) = Loose(node)
    BY <2>4 DEF Erased
  <2> QED
    BY <2>2, <2>5, Becoming
<1>5. ASSUME NEW ep \in BOOLEAN, PrefixedEraseAll(k, ep) PROVE Good
  <2>1. PICK r : r = PrefixedEraseAt(State, i, ep)
    OBVIOUS
  <2>2. i # End /\ (ep \/ Last(i).has_child) /\ Becomes(r)
    BY <1>2, <1>5, <2>1 DEF PrefixedEraseAll
  <2>3. PrefixErased(node, ep, r)
    BY <1>1, <1>3, <2>1, <2>2, PrefixedEraseKeeps
  <2>4. Whole(r.node, r.count) /\ Loose(r.node) = Loose(node)
    BY <2>3 DEF PrefixErased
  <2> QED
    BY <2>2, <2>4, Becoming
<1> QED
  BY <1>4, <1>5

\* prefixed_key_erase_all keeps the invariant.
LEMMA KeyErasing ==
  ASSUME TrieInv, NEW q \in Text, PrefixedKeyEraseAll(q)
  PROVE  Good
<1>1. PICK r : r = KeyErased(q)
  OBVIOUS
<1>2. Becomes(r)
  BY <1>1 DEF PrefixedKeyEraseAll
<1>3. Whole(r.node, r.count) /\ Loose(r.node) = Loose(node)
  BY <1>1, KeyErasedKeeps DEF TrieInv
<1> QED
  BY <1>2, <1>3, Becoming

\* Every step of the trie keeps the invariant.
LEMMA TrieStep ==
  ASSUME TrieInv, [Next]_vars
  PROVE  Good
<1>1. Key \in SUBSET Text /\ Query \in SUBSET Text
  BY TrieAssumption DEF Text
<1>2. ASSUME NEW k \in Key, NEW v \in Value,
             Insert(k, v) \/ PrefixedInsert(k, v) \/ Upsert(k, v) \/ Update(k, v)
      PROVE  Good
  BY <1>1, <1>2, Inserting
<1>3. ASSUME NEW k \in Key, Erase(k) \/ \E ep \in BOOLEAN : PrefixedEraseAll(k, ep)
      PROVE  Good
  BY <1>1, <1>3, Erasing
<1>4. ASSUME NEW q \in Query, PrefixedKeyEraseAll(q) PROVE Good
  BY <1>1, <1>4, KeyErasing
<1>5. CASE UNCHANGED vars
  <2>1. node' = node /\ count' = count /\ thrown' = thrown
    BY <1>5 DEF vars
  <2>2. Whole(node', count') /\ Loose(node') = Loose(node) /\ thrown' \in BOOLEAN
    BY <2>1 DEF TrieInv
  <2> QED
    BY <2>2 DEF Good, TrieInv
<1> QED
  BY <1>2, <1>3, <1>4, <1>5 DEF Next

\* The trie starts with an empty root, and with the invariant.
LEMMA TrieInit ==
  ASSUME Init
  PROVE  TrieInv
<1>1. node = [a \in {Root} |-> EmptyNode] /\ count = 0 /\ thrown = FALSE
  BY DEF Init
<1>2. DOMAIN node = {Root} /\ node[Root] = EmptyNode /\ DOMAIN node[Root].entry = {}
  <2>1. DOMAIN EmptyNode.entry = {}
    <3>1. EmptyNode.entry = <<>>
      BY DEF EmptyNode
    <3>2. DOMAIN <<>> = {}
      OBVIOUS
    <3> QED
      BY <3>1, <3>2
  <2> QED
    BY <1>1, <2>1
<1>3. \A a, c : ~Slot(node, a, c)
  BY <1>2 DEF Slot
<1>4. EmptyNode \in NodeT
  <2>1. 0 \in 0 .. VersionMod - 1
    BY TrieAssumption
  <2>2. {} \in SUBSET Atom /\ <<>> \in [{} -> EntryT]
    <3>1. DOMAIN <<>> = {}
      OBVIOUS
    <3> QED
      BY <3>1
  <2>3. PICK f : f = <<>> /\ f \in [{} -> EntryT]
    BY <2>2
  <2>4. [version |-> 0, entry |-> f] \in NodeT
    BY <2>1, <2>2, <2>3, MakeNode
  <2> QED
    BY <2>3, <2>4 DEF EmptyNode
<1>5. Root \in Addr
  BY TrieAssumption DEF Root, Addr
<1>6. Nodes(node)
  <2>1. node \in [{Root} -> NodeT]
    BY <1>1, <1>4
  <2> QED
    BY <1>2, <1>5, <2>1 DEF Nodes
<1>7. Linked(node) /\ OneParent(node)
  BY <1>3 DEF Linked, OneParent
<1>8. Rooted(node)
  BY <1>2 DEF Rooted
<1>9. Ranked(node)
  <2>1. [a \in DOMAIN node |-> 0] \in [DOMAIN node -> Nat]
    OBVIOUS
  <2>2. \A rank \in [DOMAIN node -> Nat] : Descends(node, rank)
    BY <1>3 DEF Descends
  <2> QED
    BY <2>1, <2>2 DEF Ranked
<1>10. Vals(node) = {}
  BY <1>3 DEF Vals
<1>11. IsFiniteSet(Vals(node)) /\ Cardinality(Vals(node)) = 0
  BY <1>10, FS_EmptySet
<1> QED
  BY <1>1, <1>6, <1>7, <1>8, <1>9, <1>11 DEF TrieInv, Whole, Tree

\* The invariant of the trie.
THEOREM TrieKeeps == Spec => []TrieInv
<1>1. TrieInv /\ [Next]_vars => TrieInv'
  BY TrieStep DEF Good
<1> QED
  BY <1>1, TrieInit, PTL DEF Spec

\* The invariant gives the types.
LEMMA TypesFollow ==
  ASSUME TrieInv
  PROVE  TypeOK
<1>0. Nodes(node) /\ Linked(node) /\ count \in Nat /\ thrown \in BOOLEAN
  BY WholeTypes DEF TrieInv, Whole, Tree
<1>1. ASSUME NEW a \in DOMAIN node
      PROVE  node[a].version \in 0..VersionMod - 1 /\ DOMAIN node[a].entry \subseteq Atom
  BY <1>0, NodeTypes
<1>2. ASSUME NEW a \in DOMAIN node, NEW c \in DOMAIN node[a].entry
      PROVE  /\ node[a].entry[c] \in [stem : Seq(Atom), child : DOMAIN node \cup {Nil}, value : Value \cup {None}]
             /\ node[a].entry[c].child # Nil \/ node[a].entry[c].value # None
  <2>1. PICK e : e = node[a].entry[c]
    OBVIOUS
  <2>2. Slot(node, a, c) /\ a \in Addr /\ c \in Atom /\ e \in EntryT
    BY <1>0, <2>1, NodeTypes DEF Slot
  <2>3. ~Void(e) /\ e.child \in DOMAIN node \cup {Nil}
    BY <1>0, <2>1, <2>2 DEF Linked, Child
  <2>4. e \in [stem : Seq(Atom), child : DOMAIN node \cup {Nil}, value : Value \cup {None}]
    BY <2>2, <2>3 DEF EntryT
  <2> QED
    BY <2>1, <2>3, <2>4 DEF Void
<1>3. Root \in DOMAIN node /\ DOMAIN node \subseteq Addr
  BY <1>0, NodeTypes
<1> QED
  BY <1>0, <1>1, <1>2, <1>3 DEF TypeOK

\* The nodes, the count and the flag keep their types, whatever is inserted,
\* updated and erased.
THEOREM TrieTypes == Spec => []TypeOK
BY TrieKeeps, TypesFollow, PTL

-----------------------------------------------------------------------------
(* What the root leads to.                                                 *)

\* The children of a node, and the nodes a walk comes to in each round given
\* those of the rounds before.
Kids(t, a) == {t[a].entry[c].child : c \in DOMAIN t[a].entry} \ {Nil}
\* The walk from the root.
Walking(t, f) == [n \in Nat |-> IF n = 0 THEN {Root} ELSE f[n - 1] \cup UNION {Kids(t, a) : a \in f[n - 1]}]

\* Reachable is what the walk comes to.
LEMMA ReachableIs ==
  Reachable = (CHOOSE f : f = Walking(node, f))[MaxNode]
BY DEF Reachable, Walking, Kids

\* Membership in Kids.
LEMMA KidsAre ==
  ASSUME NEW t, Nodes(t), NEW a \in DOMAIN t
  PROVE  \A x : x \in Kids(t, a) <=> x # Nil /\ \E c \in Atom : Slot(t, a, c) /\ Child(t, a, c) = x
<1>1. DOMAIN t[a].entry \in SUBSET Atom
  BY NodeTypes
<1> QED
  BY <1>1 DEF Kids, Slot, Child

\* The nodes of a round: the ones before and their children.
Walks(t, W) ==
  /\ W[0] = {Root}
  /\ \A n \in Nat : /\ W[n] \in SUBSET DOMAIN t
                    /\ W[n + 1] = W[n] \cup UNION {Kids(t, a) : a \in W[n]}

\* The walk goes on from round to round.
LEMMA WalkIs ==
  ASSUME Tree(node)
  PROVE  \E W : Walks(node, W) /\ Reachable = W[MaxNode]
<1> DEFINE t == node
           D == Nat
           V == SUBSET DOMAIN t
           H == [f \in [D -> V] |-> Walking(t, f)]
           rank == [n \in D |-> n]
<1>0. Nodes(t) /\ Linked(t) /\ Root \in DOMAIN t
  BY NodeTypes DEF Tree
<1>1. \A a \in DOMAIN t : Kids(t, a) \in V
  <2>1. SUFFICES ASSUME NEW a \in DOMAIN t, NEW x \in Kids(t, a) PROVE x \in DOMAIN t
    OBVIOUS
  <2>2. PICK c \in Atom : x # Nil /\ Slot(t, a, c) /\ Child(t, a, c) = x
    BY <1>0, KidsAre
  <2>3. a \in Addr
    BY <1>0, NodeTypes
  <2> QED
    BY <1>0, <2>2, <2>3 DEF Linked
<1>2. \A S \in V : S \cup UNION {Kids(t, a) : a \in S} \in V
  BY <1>1
<1> HIDE DEF t
<1>3. \A n \in Nat : n = 0 \/ (n - 1 \in Nat /\ n - 1 < n)
  OBVIOUS
<1>4. \A f \in [D -> V] : Walking(t, f) \in [D -> V]
  <2>1. SUFFICES ASSUME NEW f \in [D -> V] PROVE Walking(t, f) \in [D -> V]
    OBVIOUS
  <2>2. ASSUME NEW n \in Nat PROVE Walking(t, f)[n] \in V
    <3>1. CASE n = 0
      BY <1>0, <3>1 DEF Walking
    <3>2. CASE n # 0
      <4>1. f[n - 1] \in V
        BY <1>3, <3>2
      <4>2. f[n - 1] \cup UNION {Kids(t, a) : a \in f[n - 1]} \in V
        BY <1>2, <4>1
      <4>3. Walking(t, f)[n] = f[n - 1] \cup UNION {Kids(t, a) : a \in f[n - 1]}
        BY <3>2 DEF Walking
      <4> QED
        BY <4>2, <4>3
    <3> QED
      BY <3>1, <3>2
  <2>3. Walking(t, f) = [n \in D |-> Walking(t, f)[n]]
    BY DEF Walking
  <2> HIDE DEF V
  <2> QED
    BY <2>2, <2>3
<1>5. Upward(D, V, rank, H)
  <2>1. ASSUME NEW f \in [D -> V], NEW g \in [D -> V], NEW b \in D, \A c \in D : rank[c] < rank[b] => f[c] = g[c]
        PROVE  H[f][b] = H[g][b]
    <3>1. H[f] = Walking(t, f) /\ H[g] = Walking(t, g)
      OBVIOUS
    <3>2. b = 0 \/ f[b - 1] = g[b - 1]
      BY <1>3, <2>1
    <3>3. Walking(t, f)[b] = Walking(t, g)[b]
      BY <3>2 DEF Walking
    <3> HIDE DEF H
    <3> QED
      BY <3>1, <3>3
  <2> HIDE DEF H, D, V, rank
  <2> QED
    BY <2>1 DEF Upward
<1>6. \E f \in [D -> V] : f = Walking(t, f)
  <2>1. V # {} /\ H \in [[D -> V] -> [D -> V]]
    <3>1. {} \in V
      OBVIOUS
    <3> HIDE DEF V
    <3> QED
      BY <1>4, <3>1
  <2>2. rank \in [D -> Nat]
    OBVIOUS
  <2>3. Recursion(D, V, rank, H)
    <3> HIDE DEF H, D, V, rank
    <3> QED
      BY <1>5, <2>1, <2>2 DEF Recursion
  <2>4. Solvable(D, V, H)
    <3> HIDE DEF H, D, V, rank
    <3> QED
      BY <2>3, FixedPoint
  <2> HIDE DEF D, V
  <2> QED
    BY <2>4 DEF Solvable
<1> DEFINE F == CHOOSE f : f = Walking(t, f)
<1>7. F = Walking(t, F)
  BY <1>6
<1>8. Reachable = F[MaxNode]
  BY ReachableIs DEF t
<1> HIDE DEF F
<1>9. F[0] = {Root} /\ \A n \in Nat : F[n + 1] = F[n] \cup UNION {Kids(t, a) : a \in F[n]}
  <2>1. Walking(t, F)[0] = {Root}
    BY DEF Walking
  <2>2. ASSUME NEW n \in Nat PROVE Walking(t, F)[n + 1] = F[n] \cup UNION {Kids(t, a) : a \in F[n]}
    <3>1. n + 1 \in Nat /\ n + 1 # 0 /\ (n + 1) - 1 = n
      OBVIOUS
    <3> QED
      BY <3>1 DEF Walking
  <2> QED
    BY <1>7, <2>1, <2>2
<1> DEFINE T == {n \in Nat : F[n] \in V}
<1>10. T = Nat
  <2>1. 0 \in T
    BY <1>0, <1>9
  <2>2. ASSUME NEW n \in T PROVE n + 1 \in T
    <3>1. n \in Nat /\ n + 1 \in Nat /\ F[n] \in V
      OBVIOUS
    <3>2. F[n + 1] \in V
      BY <1>2, <1>9, <3>1
    <3> QED
      BY <3>1, <3>2
  <2>3. T \in SUBSET Nat
    OBVIOUS
  <2> HIDE DEF T
  <2> QED
    BY <2>1, <2>2, <2>3, NatSet
<1>11. Walks(t, F)
  BY <1>9, <1>10 DEF Walks
<1> QED
  BY <1>8, <1>11 DEF t

\* A set of nodes no way leads out of.
Shut(t, S) == \A a \in S, c \in Atom : Slot(t, a, c) => Child(t, a, c) \in S \cup {Nil}

\* After as many rounds as there are nodes, the walk has come to an end.
LEMMA WalkEnds ==
  ASSUME NEW t, Nodes(t), NEW W, Walks(t, W)
  PROVE  Shut(t, W[MaxNode])
<1>0. /\ IsFiniteSet(DOMAIN t) /\ Cardinality(DOMAIN t) <= MaxNode /\ MaxNode \in Nat
      /\ Cardinality(DOMAIN t) \in Nat
  <2>1. 1 \in Int /\ MaxNode \in Int /\ MaxNode \in Nat /\ ~(1 > MaxNode) /\ MaxNode - 1 + 1 = MaxNode
    BY TrieAssumption
  <2>2. IsFiniteSet(1 .. MaxNode) /\ Cardinality(1 .. MaxNode) = MaxNode
    BY <2>1, FS_Interval
  <2>3. DOMAIN t \in SUBSET (1 .. MaxNode)
    BY DEF Nodes, Addr
  <2>4. IsFiniteSet(DOMAIN t) /\ Cardinality(DOMAIN t) <= Cardinality(1 .. MaxNode)
    BY <2>2, <2>3, FS_Subset
  <2> QED
    BY <2>1, <2>2, <2>4, FS_CardinalityType
<1>1. \A n \in Nat : W[n] \in SUBSET DOMAIN t /\ W[n + 1] = W[n] \cup UNION {Kids(t, a) : a \in W[n]}
  BY DEF Walks
<1>2. \A n \in Nat : IsFiniteSet(W[n]) /\ Cardinality(W[n]) <= Cardinality(DOMAIN t) /\ Cardinality(W[n]) \in Nat
  <2>1. \A n \in Nat : IsFiniteSet(W[n]) /\ Cardinality(W[n]) <= Cardinality(DOMAIN t)
    BY <1>0, <1>1, FS_Subset
  <2> QED
    BY <2>1, FS_CardinalityType
<1> DEFINE T == {n \in Nat : Shut(t, W[n]) \/ Cardinality(W[n]) >= n + 1}
<1>3. T = Nat
  <2>1. 0 \in T
    <3>1. Cardinality({Root}) = 1
      BY FS_Singleton
    <3>2. W[0] = {Root}
      BY DEF Walks
    <3> QED
      BY <3>1, <3>2
  <2>2. ASSUME NEW n \in T PROVE n + 1 \in T
    <3>1. n \in Nat /\ n + 1 \in Nat
      OBVIOUS
    <3>2. PICK X, Y : X = W[n] /\ Y = W[n + 1]
      OBVIOUS
    <3>3. X \in SUBSET DOMAIN t /\ \A y : y \in Y <=> y \in X \/ \E a \in X : y \in Kids(t, a)
      BY <1>1, <3>1, <3>2
    <3>4. CASE Shut(t, X)
      <4>1. \A a \in X : Kids(t, a) \in SUBSET X
        <5>1. SUFFICES ASSUME NEW a \in X, NEW y \in Kids(t, a) PROVE y \in X
          OBVIOUS
        <5>2. a \in DOMAIN t
          BY <3>3
        <5>3. PICK c \in Atom : y # Nil /\ Slot(t, a, c) /\ Child(t, a, c) = y
          BY <5>2, KidsAre
        <5> QED
          BY <3>4, <5>3 DEF Shut
      <4>2. X = Y
        BY <3>3, <4>1
      <4> QED
        BY <3>1, <3>2, <3>4, <4>2
    <3>5. CASE ~Shut(t, X)
      <4>1. PICK a \in X, c \in Atom : Slot(t, a, c) /\ Child(t, a, c) \notin X \cup {Nil}
        BY <3>5 DEF Shut
      <4>2. PICK y : y = Child(t, a, c)
        OBVIOUS
      <4>3. y \in Kids(t, a)
        BY <3>3, <4>1, <4>2, KidsAre
      <4>4. X \cup {y} \in SUBSET Y /\ y \notin X
        BY <3>3, <4>1, <4>2, <4>3
      <4>5. Cardinality(X \cup {y}) = Cardinality(X) + 1 /\ Cardinality(X) \in Nat
        <5>1. IsFiniteSet(X) /\ Cardinality(X) \in Nat
          BY <1>2, <3>1, <3>2
        <5>2. Cardinality(X \cup {y}) = Cardinality(X) + 1
          BY <4>4, <5>1, FS_AddElement
        <5> QED
          BY <5>1, <5>2
      <4>6. Cardinality(X \cup {y}) <= Cardinality(Y) /\ Cardinality(Y) \in Nat
        BY <1>2, <3>1, <3>2, <4>4, FS_Subset
      <4>7. Cardinality(X) >= n + 1
        BY <3>2, <3>5
      <4>8. Cardinality(Y) >= (n + 1) + 1
        BY <3>1, <4>5, <4>6, <4>7
      <4> QED
        BY <3>1, <3>2, <4>8
    <3> QED
      BY <3>4, <3>5
  <2>3. T \in SUBSET Nat
    OBVIOUS
  <2> HIDE DEF T
  <2> QED
    BY <2>1, <2>2, <2>3, NatSet
<1>4. Shut(t, W[MaxNode]) \/ Cardinality(W[MaxNode]) >= MaxNode + 1
  BY <1>0, <1>3
<1> QED
  BY <1>0, <1>2, <1>4

\* What the walk comes to hangs in the tree.
LEMMA WalkAttached ==
  ASSUME NEW t, Nodes(t), NEW W, Walks(t, W), NEW n \in Nat
  PROVE  \A x \in W[n] : x \in DOMAIN t /\ Attached(t, x)
<1>0. \A m \in Nat : W[m] \in SUBSET DOMAIN t /\ W[m + 1] = W[m] \cup UNION {Kids(t, a) : a \in W[m]}
  BY DEF Walks
<1> DEFINE T == {m \in Nat : \A x \in W[m] : Attached(t, x)}
<1>1. T = Nat
  <2>1. 0 \in T
    BY DEF Walks, Attached
  <2>2. ASSUME NEW m \in T PROVE m + 1 \in T
    <3>1. m \in Nat /\ m + 1 \in Nat /\ \A x \in W[m] : Attached(t, x)
      OBVIOUS
    <3>2. ASSUME NEW x \in W[m + 1] PROVE Attached(t, x)
      <4>1. CASE x \in W[m]
        BY <3>1, <4>1
      <4>2. CASE x \notin W[m]
        <5>1. PICK a \in W[m] : x \in Kids(t, a)
          BY <1>0, <3>1, <3>2, <4>2
        <5>2. a \in DOMAIN t
          BY <1>0, <3>1
        <5>3. \E c \in Atom : Slot(t, a, c) /\ Child(t, a, c) = x
          BY <5>1, <5>2, KidsAre
        <5>4. a \in Addr
          BY <5>2, NodeTypes
        <5> QED
          BY <5>3, <5>4 DEF Attached
      <4> QED
        BY <4>1, <4>2
    <3> QED
      BY <3>1, <3>2
  <2>3. T \in SUBSET Nat
    OBVIOUS
  <2> HIDE DEF T
  <2> QED
    BY <2>1, <2>2, <2>3, NatSet
<1>2. n \in T
  BY <1>1
<1> QED
  BY <1>0, <1>2

\* The walk keeps the root.
LEMMA RootStays ==
  ASSUME NEW t, NEW W, Walks(t, W), NEW n \in Nat
  PROVE  Root \in W[n]
<1> DEFINE T == {m \in Nat : Root \in W[m]}
<1>1. T = Nat
  <2>1. 0 \in T
    BY DEF Walks
  <2>2. ASSUME NEW m \in T PROVE m + 1 \in T
    BY DEF Walks
  <2>3. T \in SUBSET Nat
    OBVIOUS
  <2> HIDE DEF T
  <2> QED
    BY <2>1, <2>2, <2>3, NatSet
<1> QED
  BY <1>1

\* The nodes that are higher than x.
Above(t, rank, x) == {y \in DOMAIN t : rank[x] < rank[y]}

\* What hangs in the tree is in every set that holds the root and is shut.
LEMMA AttachedInside ==
  ASSUME NEW t, Tree(t), NEW S \in SUBSET DOMAIN t, Root \in S, Shut(t, S)
  PROVE  \A x \in DOMAIN t : Attached(t, x) => x \in S
<1>0. Nodes(t) /\ Linked(t) /\ Rooted(t)
  BY DEF Tree
<1>1. PICK rank \in [DOMAIN t -> Nat] : Descends(t, rank)
  BY DEF Tree, Ranked
<1>2. IsFiniteSet(DOMAIN t)
  <2>1. 1 \in Int /\ MaxNode \in Int
    BY TrieAssumption
  <2>2. IsFiniteSet(1 .. MaxNode)
    BY <2>1, FS_Interval
  <2>3. DOMAIN t \in SUBSET (1 .. MaxNode)
    BY <1>0 DEF Nodes, Addr
  <2> QED
    BY <2>2, <2>3, FS_Subset
<1>3. \A x \in DOMAIN t : IsFiniteSet(Above(t, rank, x)) /\ Cardinality(Above(t, rank, x)) \in Nat
  <2>1. SUFFICES ASSUME NEW x \in DOMAIN t
                 PROVE  IsFiniteSet(Above(t, rank, x)) /\ Cardinality(Above(t, rank, x)) \in Nat
    OBVIOUS
  <2>2. Above(t, rank, x) \in SUBSET DOMAIN t
    BY DEF Above
  <2>3. IsFiniteSet(Above(t, rank, x))
    BY <1>2, <2>2, FS_Subset
  <2> QED
    BY <2>3, FS_CardinalityType
<1>4. ASSUME NEW x \in DOMAIN t, NEW y \in DOMAIN t, rank[x] < rank[y]
      PROVE  Cardinality(Above(t, rank, y)) < Cardinality(Above(t, rank, x))
  <2>1. PICK X, Y : X = Above(t, rank, x) /\ Y = Above(t, rank, y)
    OBVIOUS
  <2>2. Y \in SUBSET X /\ y \in X /\ y \notin Y
    <3>1. rank[x] \in Nat /\ rank[y] \in Nat /\ ~(rank[y] < rank[y])
      OBVIOUS
    <3>2. \A z \in DOMAIN t : rank[z] \in Nat
      OBVIOUS
    <3> QED
      BY <1>4, <2>1, <3>1, <3>2 DEF Above
  <2>3. IsFiniteSet(X) /\ Cardinality(X) \in Nat /\ Cardinality(Y) \in Nat
    BY <1>3, <2>1
  <2>4. Cardinality(Y) <= Cardinality(X) /\ (Cardinality(X) = Cardinality(Y) => X = Y)
    BY <2>2, <2>3, FS_Subset
  <2> QED
    BY <2>1, <2>2, <2>3, <2>4
<1> DEFINE P == {x \in DOMAIN t : Attached(t, x) => x \in S}
           high == [x \in DOMAIN t |-> Cardinality(Above(t, rank, x))]
<1>5. high \in [DOMAIN t -> Nat]
  BY <1>3
<1>6. ASSUME NEW x \in DOMAIN t, \A y \in DOMAIN t : high[y] < high[x] => y \in P
      PROVE  x \in P
  <2>1. SUFFICES ASSUME Attached(t, x), x # Root PROVE x \in S
    OBVIOUS
  <2>2. PICK a \in Addr, c \in Atom : Slot(t, a, c) /\ Child(t, a, c) = x
    BY <2>1 DEF Attached
  <2>3. a \in DOMAIN t /\ DOMAIN t[a].entry # {}
    BY <2>2 DEF Slot
  <2>4. Attached(t, a)
    BY <1>0, <2>3 DEF Rooted
  <2>5. x # Nil
    BY <1>0, NodeTypes
  <2>6. rank[x] < rank[a]
    BY <1>1, <2>2, <2>5 DEF Descends
  <2>7. high[a] < high[x]
    BY <1>4, <2>3, <2>6
  <2>8. a \in S
    BY <1>6, <2>3, <2>4, <2>7
  <2>9. x \in S \cup {Nil}
    BY <2>2, <2>8 DEF Shut
  <2> QED
    BY <2>5, <2>9
<1>7. Inductive(DOMAIN t, high, P)
  <2>1. P \in SUBSET DOMAIN t
    OBVIOUS
  <2> HIDE DEF P, high
  <2> QED
    BY <1>5, <1>6, <2>1 DEF Inductive
<1>8. P = DOMAIN t
  <2> HIDE DEF P, high
  <2> QED
    BY <1>7, ByRank
<1> QED
  BY <1>8

\* The root leads to exactly the nodes that hang in the tree.
LEMMA ReachableAttached ==
  ASSUME Tree(node)
  PROVE  Reachable \in SUBSET DOMAIN node /\ \A x \in DOMAIN node : x \in Reachable <=> Attached(node, x)
<1>1. PICK W : Walks(node, W) /\ Reachable = W[MaxNode]
  BY WalkIs
<1>2. Nodes(node) /\ MaxNode \in Nat
  BY TrieAssumption DEF Tree
<1>3. \A x \in Reachable : x \in DOMAIN node /\ Attached(node, x)
  BY <1>1, <1>2, WalkAttached
<1>4. Reachable \in SUBSET DOMAIN node
  BY <1>3
<1>5. Root \in Reachable /\ Shut(node, Reachable)
  BY <1>1, <1>2, RootStays, WalkEnds
<1>6. \A x \in DOMAIN node : Attached(node, x) => x \in Reachable
  BY <1>4, <1>5, AttachedInside
<1> QED
  BY <1>3, <1>4, <1>6

\* The invariant gives the shape TreeShape states.
LEMMA ShapeFollows ==
  ASSUME TrieInv
  PROVE  TreeShape
<1>0. Tree(node) /\ Nodes(node) /\ Linked(node) /\ OneParent(node) /\ Rooted(node)
  BY DEF TrieInv, Whole, Tree
<1>1. Reachable \in SUBSET DOMAIN node /\ \A x \in DOMAIN node : x \in Reachable <=> Attached(node, x)
  BY <1>0, ReachableAttached
<1> DEFINE refs(a) == {r \in Reachable \X Atom : /\ r[2] \in DOMAIN node[r[1]].entry
                                                 /\ node[r[1]].entry[r[2]].child = a}
<1>2. ASSUME NEW a \in Reachable \ {Root} PROVE Cardinality(refs(a)) = 1 /\ node[a].entry # <<>>
  <2>1. a \in DOMAIN node /\ Attached(node, a) /\ a # Nil
    BY <1>0, <1>1, NodeTypes
  <2>2. PICK b \in Addr, c \in Atom : Slot(node, b, c) /\ Child(node, b, c) = a
    BY <1>2, <2>1 DEF Attached
  <2>3. b \in Reachable
    <3>1. b \in DOMAIN node /\ DOMAIN node[b].entry # {}
      BY <2>2 DEF Slot
    <3>2. Attached(node, b)
      BY <1>0, <3>1 DEF Rooted
    <3> QED
      BY <1>1, <3>1, <3>2
  <2>4. \A x \in Reachable, y \in Atom :
          y \in DOMAIN node[x].entry /\ node[x].entry[y].child = a <=> x = b /\ y = c
    <3>1. SUFFICES ASSUME NEW x \in Reachable, NEW y \in Atom
                   PROVE  Slot(node, x, y) /\ Child(node, x, y) = a <=> x = b /\ y = c
      BY <1>1 DEF Slot, Child
    <3>2. x \in Addr
      BY <1>0, <1>1, NodeTypes
    <3> QED
      BY <1>0, <2>1, <2>2, <3>2 DEF OneParent
  <2>5. refs(a) = {<<b, c>>}
    <3>1. \A r \in Reachable \X Atom : r = <<r[1], r[2]>> /\ r[1] \in Reachable /\ r[2] \in Atom
      OBVIOUS
    <3>2. <<b, c>> \in Reachable \X Atom
      BY <2>3
    <3>3. <<b, c>> \in refs(a)
      BY <2>3, <2>4, <3>2
    <3>4. \A r \in refs(a) : r = <<b, c>>
      BY <2>4, <3>1
    <3> QED
      BY <3>3, <3>4
  <2>6. Cardinality(refs(a)) = 1
    BY <2>5, FS_Singleton
  <2>7. DOMAIN node[a].entry # {}
    BY <1>0, <2>1, <2>2 DEF Linked
  <2>8. node[a].entry # <<>>
    BY <2>7
  <2> QED
    BY <2>6, <2>8
<1> QED
  BY <1>2 DEF TreeShape

LostIsLoose == Lost = Loose(node)

\* The nodes that are lost are those no entry refers to.
LEMMA LostAreLoose ==
  ASSUME TrieInv
  PROVE  LostIsLoose
<1>1. Reachable \in SUBSET DOMAIN node /\ \A x \in DOMAIN node : x \in Reachable <=> Attached(node, x)
  BY ReachableAttached DEF TrieInv, Whole
<1> QED
  BY <1>1 DEF LostIsLoose, Lost, Loose

\* The reachable nodes form a tree without empty nodes, whatever is inserted and erased.
THEOREM NodesFormATree == Spec => []TreeShape
BY TrieKeeps, ShapeFollows, PTL

\* A call that returns leaves no node behind.
THEOREM NodesAreKept == Spec => NoNodeLost
<1>1. TrieInv => LostIsLoose
  BY LostAreLoose
<1>2. TrieInv /\ [Next]_vars => Good
  BY TrieStep
<1>3. LostIsLoose /\ LostIsLoose' /\ Good => [Lost' # Lost => thrown']_vars
  BY DEF LostIsLoose, Good
<1> QED
  BY <1>1, <1>2, <1>3, TrieKeeps, PTL DEF NoNodeLost, Spec

=============================================================================
