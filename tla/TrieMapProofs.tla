----------------------------- MODULE TrieMapProofs -----------------------------
(***************************************************************************)
(* More theorems about Trie: its calls count the pairs right, and do to    *)
(* its keys and values what the calls of OrderedMap do.                    *)
(*                                                                         *)
(* A node is labelled with the text its way from the root spells           *)
(* (Labelled), so that each entry spells a key (Spell).  No two entries    *)
(* spell the same (SpellOnce), and an entry whose key starts               *)
(* another's lies above it (SlotLeads): the pairs are the values with the  *)
(* keys they spell (PairsAre), as many as there are values.  An insertion  *)
(* adds one pair (Gains), wherever it cuts a stem; a new value changes one *)
(* (Changes); an erasure prunes the tree (Prunes) and drops the pairs of   *)
(* the keys it names, and no more (Drops).                                 *)
(***************************************************************************)
EXTENDS TrieProofs

-----------------------------------------------------------------------------
(* The keys a tree spells.                                                 *)

\* A number that grows along every way down.
Climbs(t, high) == \A a \in Addr, c \in Atom :
                     Slot(t, a, c) /\ Child(t, a, c) # Nil => high[a] < high[Child(t, a, c)]

\* There is one: how many nodes are higher.
LEMMA ClimbsExist ==
  ASSUME NEW t, Tree(t)
  PROVE  \E high \in [DOMAIN t -> Nat] : Climbs(t, high)
<1>0. Nodes(t) /\ Linked(t) /\ Rooted(t)
  BY DEF Tree
<1>1. PICK rank \in [DOMAIN t -> Nat] : Descends(t, rank)
  BY DEF Tree, Ranked
<1>2. IsFiniteSet(DOMAIN t)
  <2>1. 1 \in Int /\ MaxNode \in Int
    BY TrieAssumption
  <2>2. IsFiniteSet(1 .. MaxNode)
    BY <2>1, FS_Interval
  <2>3. DOMAIN t \in SUBSET (1 .. MaxNode)
    BY <1>0 DEF Nodes, Addr
  <2> QED
    BY <2>2, <2>3, FS_Subset
<1>3. \A x \in DOMAIN t : IsFiniteSet(Above(t, rank, x)) /\ Cardinality(Above(t, rank, x)) \in Nat
  <2>1. SUFFICES ASSUME NEW x \in DOMAIN t
                 PROVE  IsFiniteSet(Above(t, rank, x)) /\ Cardinality(Above(t, rank, x)) \in Nat
    OBVIOUS
  <2>2. Above(t, rank, x) \in SUBSET DOMAIN t
    BY DEF Above
  <2>3. IsFiniteSet(Above(t, rank, x))
    BY <1>2, <2>2, FS_Subset
  <2> QED
    BY <2>3, FS_CardinalityType
<1>4. ASSUME NEW x \in DOMAIN t, NEW y \in DOMAIN t, rank[x] < rank[y]
      PROVE  Cardinality(Above(t, rank, y)) < Cardinality(Above(t, rank, x))
  <2>1. PICK X, Y : X = Above(t, rank, x) /\ Y = Above(t, rank, y)
    OBVIOUS
  <2>2. Y \in SUBSET X /\ y \in X /\ y \notin Y
    <3>1. rank[x] \in Nat /\ rank[y] \in Nat /\ ~(rank[y] < rank[y])
      OBVIOUS
    <3>2. \A z \in DOMAIN t : rank[z] \in Nat
      OBVIOUS
    <3> QED
      BY <1>4, <2>1, <3>1, <3>2 DEF Above
  <2>3. IsFiniteSet(X) /\ Cardinality(X) \in Nat /\ Cardinality(Y) \in Nat
    BY <1>3, <2>1
  <2>4. Cardinality(Y) <= Cardinality(X) /\ (Cardinality(X) = Cardinality(Y) => X = Y)
    BY <2>2, <2>3, FS_Subset
  <2> QED
    BY <2>1, <2>2, <2>3, <2>4
<1> DEFINE high == [x \in DOMAIN t |-> Cardinality(Above(t, rank, x))]
<1>5. high \in [DOMAIN t -> Nat]
  BY <1>3
<1>6. ASSUME NEW a \in Addr, NEW c \in Atom, Slot(t, a, c), Child(t, a, c) # Nil
      PROVE  high[a] < high[Child(t, a, c)]
  <2>1. a \in DOMAIN t /\ Child(t, a, c) \in DOMAIN t /\ rank[Child(t, a, c)] < rank[a]
    BY <1>0, <1>1, <1>6 DEF Linked, Descends, Slot
  <2>2. PICK b \in DOMAIN t : b = Child(t, a, c)
    BY <2>1
  <2>3. Cardinality(Above(t, rank, a)) < Cardinality(Above(t, rank, b))
    BY <1>4, <2>1, <2>2
  <2> QED
    BY <2>1, <2>2, <2>3
<1> HIDE DEF high
<1> QED
  BY <1>5, <1>6, SMTT(60) DEF Climbs

\* What an entry adds to a key, and the key that a value at it has, when the
\* nodes are labelled with the texts on the way to them.
Adds(t, a, c) == <<c>> \o t[a].entry[c].stem
Labelled(t, pre) ==
  /\ pre \in [DOMAIN t -> Seq(Atom)] /\ pre[Root] = <<>>
  /\ \A a \in Addr, c \in Atom : Slot(t, a, c) /\ Child(t, a, c) # Nil =>
       pre[Child(t, a, c)] = pre[a] \o Adds(t, a, c)

\* The entry that leads to a node, and the labels given those further up.
Parent(t, x) == CHOOSE p \in Addr \X Atom : Slot(t, p[1], p[2]) /\ Child(t, p[1], p[2]) = x
Labels(t, f) ==
  [x \in DOMAIN t |-> IF x # Root /\ Attached(t, x)
                      THEN f[Parent(t, x)[1]] \o Adds(t, Parent(t, x)[1], Parent(t, x)[2])
                      ELSE <<>>]

\* What an entry adds to the key is a text that starts with its atom.
LEMMA AddsIs ==
  ASSUME NEW t, Nodes(t), NEW a, NEW c, Slot(t, a, c)
  PROVE  /\ Adds(t, a, c) \in Seq(Atom) /\ Adds(t, a, c) # <<>> /\ Adds(t, a, c)[1] = c /\ c \in Atom
         /\ t[a].entry[c].stem \in Seq(Atom) /\ Len(Adds(t, a, c)) = Len(t[a].entry[c].stem) + 1
         /\ t[a].entry[c] \in EntryT
<1>1. c \in Atom /\ t[a].entry[c] \in EntryT
  BY NodeTypes
<1>2. t[a].entry[c].stem \in Seq(Atom)
  BY <1>1, EntryTypes
<1> QED
  BY <1>1, <1>2, TextIs DEF Adds

\* The label of a node follows from its parent's.
LEMMA LabelStep ==
  ASSUME NEW t, Tree(t), NEW x \in DOMAIN t, x # Root, Attached(t, x)
  PROVE  \E a \in Addr, c \in Atom :
           /\ Slot(t, a, c) /\ Child(t, a, c) = x /\ x # Nil /\ a \in DOMAIN t
           /\ \A f : Labels(t, f)[x] = f[a] \o Adds(t, a, c)
<1>1. \E p \in Addr \X Atom : Slot(t, p[1], p[2]) /\ Child(t, p[1], p[2]) = x
  <2>1. PICK a \in Addr, c \in Atom : Slot(t, a, c) /\ Child(t, a, c) = x
    BY DEF Attached
  <2>2. <<a, c>> \in Addr \X Atom /\ <<a, c>>[1] = a /\ <<a, c>>[2] = c
    OBVIOUS
  <2> QED
    BY <2>1, <2>2
<1>2. PICK p : p = Parent(t, x)
  OBVIOUS
<1>3. p \in Addr \X Atom /\ Slot(t, p[1], p[2]) /\ Child(t, p[1], p[2]) = x
  BY <1>1, <1>2 DEF Parent
<1>4. p[1] \in Addr /\ p[2] \in Atom
  BY <1>3
<1>5. x # Nil /\ p[1] \in DOMAIN t
  BY <1>3, NodeTypes, SMTT(60) DEF Tree, Slot
<1>6. \A f : Labels(t, f)[x] = f[p[1]] \o Adds(t, p[1], p[2])
  BY <1>2 DEF Labels
<1> QED
  BY <1>3, <1>4, <1>5, <1>6

\* There are labels.
LEMMA LabelsExist ==
  ASSUME NEW t, Tree(t)
  PROVE  \E pre : Labelled(t, pre)
<1> DEFINE D == DOMAIN t
           V == Seq(Atom)
           H == [f \in [D -> V] |-> Labels(t, f)]
<1>0. Nodes(t) /\ Linked(t) /\ OneParent(t) /\ Root \in D
  BY NodeTypes DEF Tree
<1>1. PICK high \in [D -> Nat] : Climbs(t, high)
  BY ClimbsExist
<1>2. ASSUME NEW f \in [D -> V] PROVE Labels(t, f) \in [D -> V]
  <2>1. ASSUME NEW x \in D PROVE Labels(t, f)[x] \in V
    <3>1. CASE x # Root /\ Attached(t, x)
      <4>1. PICK a \in Addr, c \in Atom : /\ Slot(t, a, c) /\ a \in DOMAIN t
                                          /\ Labels(t, f)[x] = f[a] \o Adds(t, a, c)
        BY <3>1, LabelStep, ZenonT(90)
      <4>2. f[a] \in V /\ Adds(t, a, c) \in V
        BY <1>0, <4>1, AddsIs
      <4> QED
        BY <4>1, <4>2, Joined
    <3>2. CASE ~(x # Root /\ Attached(t, x))
      <4>1. Labels(t, f)[x] = <<>>
        BY <3>2 DEF Labels
      <4> QED
        BY <4>1
    <3> QED
      BY <3>1, <3>2
  <2>2. Labels(t, f) = [x \in D |-> Labels(t, f)[x]]
    BY DEF Labels
  <2> HIDE DEF D, V
  <2> QED
    BY <2>1, <2>2
<1>3. Upward(D, V, high, H)
  <2>1. ASSUME NEW f \in [D -> V], NEW g \in [D -> V], NEW x \in D, \A y \in D : high[y] < high[x] => f[y] = g[y]
        PROVE  H[f][x] = H[g][x]
    <3>1. H[f] = Labels(t, f) /\ H[g] = Labels(t, g)
      OBVIOUS
    <3>2. Labels(t, f)[x] = Labels(t, g)[x]
      <4>1. CASE x # Root /\ Attached(t, x)
        <5>1. PICK a \in Addr, c \in Atom :
                /\ Slot(t, a, c) /\ Child(t, a, c) = x /\ x # Nil /\ a \in DOMAIN t
                /\ Labels(t, f)[x] = f[a] \o Adds(t, a, c)
                /\ Labels(t, g)[x] = g[a] \o Adds(t, a, c)
          BY <4>1, LabelStep, ZenonT(90)
        <5>2. high[a] < high[x]
          BY <1>1, <5>1 DEF Climbs
        <5> QED
          BY <2>1, <5>1, <5>2
      <4>2. CASE ~(x # Root /\ Attached(t, x))
        BY <4>2 DEF Labels
      <4> QED
        BY <4>1, <4>2
    <3> HIDE DEF H
    <3> QED
      BY <3>1, <3>2
  <2> HIDE DEF H, D, V
  <2> QED
    BY <2>1 DEF Upward
<1>4. PICK pre \in [D -> V] : pre = Labels(t, pre)
  <2>1. V # {} /\ H \in [[D -> V] -> [D -> V]]
    <3>1. <<>> \in V
      OBVIOUS
    <3> HIDE DEF V, D
    <3> QED
      BY <1>2, <3>1
  <2>2. Recursion(D, V, high, H)
    <3> HIDE DEF H, V
    <3> QED
      BY <1>1, <1>3, <2>1 DEF Recursion
  <2>3. Solvable(D, V, H)
    <3> HIDE DEF H, D, V
    <3> QED
      BY <2>2, FixedPoint
  <2> HIDE DEF V, D
  <2> QED
    BY <2>3 DEF Solvable
<1>5. pre[Root] = <<>>
  <2>1. Labels(t, pre)[Root] = <<>>
    BY <1>0 DEF Labels
  <2> QED
    BY <1>4, <2>1
<1>6. ASSUME NEW a \in Addr, NEW c \in Atom, Slot(t, a, c), Child(t, a, c) # Nil
      PROVE  pre[Child(t, a, c)] = pre[a] \o Adds(t, a, c)
  <2>1. PICK x : x = Child(t, a, c)
    OBVIOUS
  <2>2. x \in DOMAIN t /\ x # Root /\ Attached(t, x)
    BY <1>0, <1>6, <2>1 DEF Linked, Attached
  <2>3. PICK b \in Addr, d \in Atom : /\ Slot(t, b, d) /\ Child(t, b, d) = x
                                      /\ Labels(t, pre)[x] = pre[b] \o Adds(t, b, d)
    BY <2>2, LabelStep, ZenonT(90)
  <2>4. a = b /\ c = d
    BY <1>0, <1>6, <2>1, <2>3 DEF OneParent
  <2> QED
    BY <1>4, <2>1, <2>3, <2>4
<1> QED
  BY <1>4, <1>5, <1>6 DEF Labelled

\* What joins to the same, after the same, is the same.
LEMMA Cancel ==
  ASSUME NEW T, NEW x \in Seq(T), NEW y \in Seq(T), NEW z \in Seq(T), x \o y = x \o z
  PROVE  y = z
<1>1. /\ Len(x \o y) = Len(x) + Len(y) /\ Len(x) \in Nat /\ Len(y) \in Nat
      /\ \A n \in 1 .. Len(y) : (x \o y)[Len(x) + n] = y[n]
  BY JoinIs
<1>2. /\ Len(x \o z) = Len(x) + Len(z) /\ Len(z) \in Nat
      /\ \A n \in 1 .. Len(z) : (x \o z)[Len(x) + n] = z[n]
  BY JoinIs
<1>3. Len(y) = Len(z)
  BY <1>1, <1>2
<1>4. ASSUME NEW n \in 1 .. Len(y) PROVE y[n] = z[n]
  BY <1>1, <1>2, <1>3
<1> QED
  BY <1>3, <1>4, SameSequence

\* The key of a value at entry c of node a.
Spell(t, pre, a, c) == pre[a] \o Adds(t, a, c)
Valuable(t, a, c) == Slot(t, a, c) /\ t[a].entry[c].value # None

\* What the key of an entry is.
LEMMA SpellIs ==
  ASSUME NEW t, Nodes(t), NEW pre, Labelled(t, pre), NEW a, NEW c, Slot(t, a, c)
  PROVE  /\ pre[a] \in Seq(Atom) /\ Spell(t, pre, a, c) \in Seq(Atom) /\ Spell(t, pre, a, c) # <<>>
         /\ Spell(t, pre, a, c) = pre[a] \o Adds(t, a, c)
         /\ Child(t, a, c) # Nil => pre[Child(t, a, c)] = Spell(t, pre, a, c)
<1>1. pre[a] \in Seq(Atom)
  BY DEF Labelled, Slot
<1>2. Adds(t, a, c) \in Seq(Atom) /\ Adds(t, a, c) # <<>> /\ a \in Addr /\ c \in Atom
  BY AddsIs, NodeTypes, SMTT(60)
<1>3. pre[a] \o Adds(t, a, c) \in Seq(Atom) /\ pre[a] \o Adds(t, a, c) # <<>>
  BY <1>1, <1>2, JoinIs
<1>4. Child(t, a, c) # Nil => pre[Child(t, a, c)] = pre[a] \o Adds(t, a, c)
  BY <1>2 DEF Labelled
<1> QED
  BY <1>1, <1>3, <1>4 DEF Spell

\* Text s begins text r.
Starts(s, r) == \E k \in Seq(Atom) : r = s \o k

\* The label of a node under another starts with that one's.
LEMMA UnderSpells ==
  ASSUME NEW t, Tree(t), NEW pre, Labelled(t, pre), NEW u \in DOMAIN t, NEW v \in Subtree(t, u)
  PROVE  Starts(pre[u], pre[v])
<1>0. Nodes(t) /\ Linked(t)
  BY DEF Tree
<1>1. PICK rank \in [DOMAIN t -> Nat] : Descends(t, rank)
  BY DEF Tree, Ranked
<1> DEFINE P == {b \in DOMAIN t : \A x \in Subtree(t, b) : Starts(pre[b], pre[x])}
<1>2. ASSUME NEW b \in DOMAIN t, \A d \in DOMAIN t : rank[d] < rank[b] => d \in P PROVE b \in P
  <2>1. SUFFICES ASSUME NEW x \in Subtree(t, b) PROVE Starts(pre[b], pre[x])
    OBVIOUS
  <2>2. pre[b] \in Seq(Atom) /\ b \in Addr
    BY <1>0, NodeTypes DEF Labelled
  <2>3. CASE x = b
    <3>1. <<>> \in Seq(Atom) /\ pre[b] \o <<>> = pre[b]
      BY <2>2
    <3> QED
      BY <2>3, <3>1 DEF Starts
  <2>4. CASE x # b
    <3>1. PICK c \in Atom : Slot(t, b, c) /\ Child(t, b, c) # Nil /\ x \in Subtree(t, Child(t, b, c))
      BY <2>4, SubtreeSteps
    <3>2. PICK d : d = Child(t, b, c)
      OBVIOUS
    <3>3. d \in DOMAIN t /\ rank[d] < rank[b]
      BY <1>0, <1>1, <2>2, <3>1, <3>2 DEF Linked, Descends
    <3>4. PICK k \in Seq(Atom) : pre[x] = pre[d] \o k
      BY <1>2, <3>1, <3>2, <3>3 DEF Starts
    <3>5. pre[d] = pre[b] \o Adds(t, b, c) /\ Adds(t, b, c) \in Seq(Atom)
      BY <1>0, <2>2, <3>1, <3>2, AddsIs DEF Labelled
    <3>6. pre[x] = pre[b] \o (Adds(t, b, c) \o k) /\ Adds(t, b, c) \o k \in Seq(Atom)
      <4>1. PICK m \in Seq(Atom) : m = Adds(t, b, c)
        BY <3>5
      <4>2. (pre[b] \o m) \o k = pre[b] \o (m \o k) /\ m \o k \in Seq(Atom)
        BY <2>2, TextJoins, Joined
      <4> QED
        BY <3>4, <3>5, <4>1, <4>2
    <3> QED
      BY <3>6 DEF Starts
  <2> QED
    BY <2>3, <2>4
<1>3. P \in SUBSET DOMAIN t
  OBVIOUS
<1>4. Inductive(DOMAIN t, rank, P)
  <2> HIDE DEF P
  <2> QED
    BY <1>2, <1>3 DEF Inductive
<1>5. P = DOMAIN t
  <2> HIDE DEF P
  <2> QED
    BY <1>4, ByRank
<1> QED
  BY <1>5

\* The pairs below node b, given those below its children.
Belows(t, f) ==
  [b \in DOMAIN t |->
            UNION {LET e  == t[b].entry[c]
                       k  == <<c>> \o e.stem
                   IN  (IF e.value = None THEN {} ELSE {<<k, e.value>>})
                       \cup (IF e.child = Nil THEN {}
                             ELSE {<<k \o x[1], x[2]>> : x \in f[e.child]}) :
                   c \in DOMAIN t[b].entry}]

\* The recursion of Pairs.
LEMMA PairsIs ==
  ASSUME NEW t, NEW a
  PROVE  Pairs(t, a) = (CHOOSE f : f = Belows(t, f))[a]
BY DEF Pairs, Belows

\* One step of the recursion: x is the pair of an entry, or one from below it.
PairOf(t, f, b, c, x) ==
  \/ t[b].entry[c].value # None /\ x = <<Adds(t, b, c), t[b].entry[c].value>>
  \/ Child(t, b, c) # Nil /\ \E y \in f[Child(t, b, c)] : x = <<Adds(t, b, c) \o y[1], y[2]>>

\* The pairs of a node: its own values, and those of its children.
LEMMA BelowIs ==
  ASSUME NEW t, Nodes(t), NEW f, NEW b \in DOMAIN t
  PROVE  \A x : x \in Belows(t, f)[b] <=> \E c \in Atom : Slot(t, b, c) /\ PairOf(t, f, b, c, x)
<1> DEFINE G(c) == (IF t[b].entry[c].value = None THEN {} ELSE {<<Adds(t, b, c), t[b].entry[c].value>>})
                   \cup (IF t[b].entry[c].child = Nil THEN {}
                         ELSE {<<Adds(t, b, c) \o x[1], x[2]>> : x \in f[t[b].entry[c].child]})
<1>1. Belows(t, f)[b] = UNION {G(c) : c \in DOMAIN t[b].entry}
  BY DEF Belows, Adds
<1>2. \A c, x : x \in G(c) <=> PairOf(t, f, b, c, x)
  BY DEF PairOf, Child
<1> HIDE DEF G
<1>3. \A x : x \in Belows(t, f)[b] <=> \E c \in DOMAIN t[b].entry : x \in G(c)
  BY <1>1
<1>4. DOMAIN t[b].entry \in SUBSET Atom
  BY NodeTypes
<1> QED
  BY <1>2, <1>3, <1>4, SMTT(60) DEF Slot

\* That recursion has a solution.
LEMMA BelowsSolved ==
  ASSUME NEW t, Tree(t)
  PROVE  \E f \in [DOMAIN t -> SUBSET (Seq(Atom) \X Value)] : f = Belows(t, f)
<1> DEFINE D == DOMAIN t
           V == SUBSET (Seq(Atom) \X Value)
           H == [f \in [D -> V] |-> Belows(t, f)]
<1>0. Nodes(t) /\ Linked(t)
  BY DEF Tree
<1>1. PICK rank \in [D -> Nat] : Descends(t, rank)
  BY DEF Tree, Ranked
<1>2. ASSUME NEW b \in D, NEW c \in Atom, Slot(t, b, c)
      PROVE  /\ Child(t, b, c) # Nil => Child(t, b, c) \in D /\ rank[Child(t, b, c)] < rank[b]
             /\ Adds(t, b, c) \in Seq(Atom) /\ t[b].entry[c].value \in Value \cup {None}
  <2>1. b \in Addr
    BY <1>0, NodeTypes
  <2>2. Adds(t, b, c) \in Seq(Atom) /\ t[b].entry[c] \in EntryT
    BY <1>0, <1>2, AddsIs
  <2>3. t[b].entry[c].value \in Value \cup {None}
    BY <2>2, EntryTypes
  <2> QED
    BY <1>0, <1>1, <1>2, <2>1, <2>2, <2>3 DEF Linked, Descends
<1>3. ASSUME NEW f \in [D -> V] PROVE Belows(t, f) \in [D -> V]
  <2>1. ASSUME NEW b \in D PROVE Belows(t, f)[b] \in V
    <3>1. ASSUME NEW x \in Belows(t, f)[b] PROVE x \in Seq(Atom) \X Value
      <4>1. PICK c \in Atom : Slot(t, b, c) /\ PairOf(t, f, b, c, x)
        BY <1>0, <3>1, BelowIs
      <4>2. CASE t[b].entry[c].value # None /\ x = <<Adds(t, b, c), t[b].entry[c].value>>
        BY <1>2, <4>1, <4>2
      <4>3. CASE Child(t, b, c) # Nil /\ \E y \in f[Child(t, b, c)] : x = <<Adds(t, b, c) \o y[1], y[2]>>
        <5>1. PICK y \in f[Child(t, b, c)] : x = <<Adds(t, b, c) \o y[1], y[2]>>
          BY <4>3
        <5>2. Child(t, b, c) \in D
          BY <1>2, <4>1, <4>3
        <5>3. y \in Seq(Atom) \X Value
          BY <5>2
        <5>4. y[1] \in Seq(Atom) /\ y[2] \in Value /\ Adds(t, b, c) \in Seq(Atom)
          BY <1>2, <4>1, <5>3
        <5>5. Adds(t, b, c) \o y[1] \in Seq(Atom)
          BY <5>4, Joined, SMTT(60)
        <5> QED
          BY <5>1, <5>4, <5>5
      <4> QED
        BY <4>1, <4>2, <4>3 DEF PairOf
    <3> QED
      BY <3>1
  <2>2. Belows(t, f) = [b \in D |-> Belows(t, f)[b]]
    BY DEF Belows
  <2> HIDE DEF D, V
  <2> QED
    BY <2>1, <2>2
<1>4. Upward(D, V, rank, H)
  <2>1. ASSUME NEW f \in [D -> V], NEW g \in [D -> V], NEW b \in D, \A d \in D : rank[d] < rank[b] => f[d] = g[d]
        PROVE  H[f][b] = H[g][b]
    <3>1. H[f] = Belows(t, f) /\ H[g] = Belows(t, g)
      OBVIOUS
    <3>2. \A c \in Atom : Slot(t, b, c) /\ Child(t, b, c) # Nil => f[Child(t, b, c)] = g[Child(t, b, c)]
      BY <1>2, <2>1
    <3>3. \A x : \A c \in Atom : Slot(t, b, c) => (PairOf(t, f, b, c, x) <=> PairOf(t, g, b, c, x))
      BY <3>2 DEF PairOf
    <3>4. PICK S, T : S = Belows(t, f)[b] /\ T = Belows(t, g)[b]
      OBVIOUS
    <3>5. /\ \A x : x \in S <=> \E c \in Atom : Slot(t, b, c) /\ PairOf(t, f, b, c, x)
          /\ \A x : x \in T <=> \E c \in Atom : Slot(t, b, c) /\ PairOf(t, g, b, c, x)
      BY <1>0, <3>4, BelowIs
    <3>6. \A x : x \in S <=> x \in T
      BY <3>3, <3>5
    <3>7. S = T
      <4>1. /\ S \in V /\ T \in V
        BY <1>3, <3>4
      <4> QED
        BY <3>6, <4>1
    <3> HIDE DEF H
    <3> QED
      BY <3>1, <3>4, <3>7
  <2> HIDE DEF H, D, V
  <2> QED
    BY <2>1 DEF Upward
<1>5. V # {} /\ H \in [[D -> V] -> [D -> V]]
  <2>1. {} \in V
    OBVIOUS
  <2> HIDE DEF V, D
  <2> QED
    BY <1>3, <2>1
<1>6. Recursion(D, V, rank, H)
  <2> HIDE DEF H, V
  <2> QED
    BY <1>1, <1>4, <1>5 DEF Recursion
<1>7. Solvable(D, V, H)
  <2> HIDE DEF H, D, V
  <2> QED
    BY <1>6, FixedPoint
<1>8. \E f \in [D -> V] : f = Belows(t, f)
  <2> HIDE DEF V, D
  <2> QED
    BY <1>7 DEF Solvable
<1> QED
  BY <1>8

\* All that hangs in the tree is under the root.
LEMMA UnderRoot ==
  ASSUME NEW t, Tree(t), NEW a, NEW c, Slot(t, a, c)
  PROVE  a \in Subtree(t, Root)
<1>0. Nodes(t) /\ Rooted(t) /\ Root \in DOMAIN t /\ a \in DOMAIN t
  BY NodeTypes DEF Tree, Slot
<1>1. PICK rank \in [DOMAIN t -> Nat] : Descends(t, rank)
  BY DEF Tree, Ranked
<1>2. Branch(t, rank, Root, Subtree(t, Root))
  BY <1>0, <1>1, SubtreeBranches
<1>3. Root \in Subtree(t, Root) /\ Subtree(t, Root) \in SUBSET DOMAIN t /\ Shut(t, Subtree(t, Root))
  BY <1>2 DEF Branch, Shut
<1>4. Attached(t, a)
  BY <1>0 DEF Rooted, Slot
<1> QED
  BY <1>0, <1>3, <1>4, AttachedInside

\* A pair below node b is that of a value under it.
Held(t, pre, b, x) ==
  \E a \in Addr, c \in Atom : /\ Valuable(t, a, c) /\ a \in Subtree(t, b)
                              /\ Spell(t, pre, a, c) = pre[b] \o x[1] /\ x[2] = t[a].entry[c].value

\* The pairs of a node are the values held under it, when they are so for its children.
LEMMA OneHeld ==
  ASSUME NEW t, Tree(t), NEW pre, Labelled(t, pre), NEW f, NEW b \in DOMAIN t, NEW x \in Seq(Atom) \X Value,
         \A c \in Atom : Slot(t, b, c) /\ Child(t, b, c) # Nil =>
           f[Child(t, b, c)] \in SUBSET (Seq(Atom) \X Value) /\
           \A y \in Seq(Atom) \X Value : y \in f[Child(t, b, c)] <=> Held(t, pre, Child(t, b, c), y)
  PROVE  (\E c \in Atom : Slot(t, b, c) /\ PairOf(t, f, b, c, x)) <=> Held(t, pre, b, x)
<1>0. Nodes(t) /\ Linked(t) /\ b \in Addr /\ pre[b] \in Seq(Atom) /\ x[1] \in Seq(Atom) /\ x[2] \in Value /\ x = <<x[1], x[2]>>
  BY NodeTypes DEF Tree, Labelled
<1>1. ASSUME NEW c \in Atom, Slot(t, b, c), PairOf(t, f, b, c, x) PROVE Held(t, pre, b, x)
  <2>1. CASE t[b].entry[c].value # None /\ x = <<Adds(t, b, c), t[b].entry[c].value>>
    <3>1. b \in Subtree(t, b)
      BY SubtreeSteps
    <3>2. x[1] = Adds(t, b, c) /\ x[2] = t[b].entry[c].value
      BY <2>1
    <3> QED
      BY <1>0, <1>1, <2>1, <3>1, <3>2 DEF Held, Valuable, Spell
  <2>2. CASE Child(t, b, c) # Nil /\ \E y \in f[Child(t, b, c)] : x = <<Adds(t, b, c) \o y[1], y[2]>>
    <3>1. PICK d : d = Child(t, b, c)
      OBVIOUS
    <3>2. PICK y \in f[d] : x = <<Adds(t, b, c) \o y[1], y[2]>>
      BY <2>2, <3>1
    <3>3. y \in Seq(Atom) \X Value /\ Held(t, pre, d, y)
      BY <1>1, <2>2, <3>1, <3>2
    <3>4. PICK a \in Addr, e \in Atom : /\ Valuable(t, a, e) /\ a \in Subtree(t, d)
                                        /\ Spell(t, pre, a, e) = pre[d] \o y[1] /\ y[2] = t[a].entry[e].value
      BY <3>3 DEF Held
    <3>5. a \in Subtree(t, b)
      BY <1>1, <2>2, <3>1, <3>4, SubtreeSteps
    <3>6. PICK m : m = Adds(t, b, c)
      OBVIOUS
    <3>7. m \in Seq(Atom) /\ pre[d] = pre[b] \o m /\ y[1] \in Seq(Atom)
      BY <1>0, <1>1, <2>2, <3>1, <3>3, <3>6, AddsIs DEF Labelled
    <3>8. (pre[b] \o m) \o y[1] = pre[b] \o (m \o y[1])
      BY <1>0, <3>7, TextJoins
    <3>9. x[1] = m \o y[1] /\ x[2] = y[2]
      BY <3>2, <3>6
    <3>10. Spell(t, pre, a, e) = pre[b] \o x[1] /\ x[2] = t[a].entry[e].value
      BY <3>4, <3>7, <3>8, <3>9
    <3> QED
      BY <3>4, <3>5, <3>10 DEF Held
  <2> QED
    BY <1>1, <2>1, <2>2, SMTT(60) DEF PairOf
<1>2. ASSUME Held(t, pre, b, x) PROVE \E c \in Atom : Slot(t, b, c) /\ PairOf(t, f, b, c, x)
  <2>1. PICK a \in Addr, e \in Atom : /\ Valuable(t, a, e) /\ a \in Subtree(t, b)
                                      /\ Spell(t, pre, a, e) = pre[b] \o x[1] /\ x[2] = t[a].entry[e].value
    BY <1>2 DEF Held
  <2>2. Slot(t, a, e) /\ Spell(t, pre, a, e) = pre[a] \o Adds(t, a, e) /\ Adds(t, a, e) \in Seq(Atom) /\ pre[a] \in Seq(Atom)
    <3>1. Slot(t, a, e) /\ Nodes(t)
      BY <1>0, <2>1 DEF Valuable
    <3>2. Adds(t, a, e) \in Seq(Atom)
      BY <3>1, AddsIs
    <3> QED
      BY <3>1, <3>2, SpellIs
  <2>3. CASE a = b
    <3>1. Adds(t, b, e) = x[1]
      BY <1>0, <2>1, <2>2, <2>3, Cancel
    <3>2. x = <<Adds(t, b, e), t[b].entry[e].value>>
      BY <1>0, <2>1, <2>3, <3>1
    <3> QED
      BY <2>1, <2>3, <3>2 DEF PairOf, Valuable
  <2>4. CASE a # b
    <3>1. PICK c \in Atom : Slot(t, b, c) /\ Child(t, b, c) # Nil /\ a \in Subtree(t, Child(t, b, c))
      BY <2>1, <2>4, SubtreeSteps
    <3>2. PICK d : d = Child(t, b, c)
      OBVIOUS
    <3>3. d \in DOMAIN t
      BY <1>0, <3>1, <3>2 DEF Linked
    <3>4. PICK k \in Seq(Atom) : pre[a] = pre[d] \o k
      <4>0. a \in Subtree(t, d)
        BY <3>1, <3>2
      <4>1. Starts(pre[d], pre[a])
        BY <3>3, <4>0, UnderSpells
      <4> QED
        BY <4>1 DEF Starts
    <3>5. PICK m, n : m = Adds(t, b, c) /\ n = Adds(t, a, e)
      OBVIOUS
    <3>6. m \in Seq(Atom) /\ n \in Seq(Atom) /\ pre[d] = pre[b] \o m /\ pre[d] \in Seq(Atom)
      BY <1>0, <2>2, <3>1, <3>2, <3>3, <3>5, AddsIs DEF Labelled
    <3>7. PICK y : y = k \o n
      OBVIOUS
    <3>8. y \in Seq(Atom)
      BY <3>6, <3>7, Joined
    <3>9. Spell(t, pre, a, e) = pre[d] \o y
      <4>1. (pre[d] \o k) \o n = pre[d] \o (k \o n)
        BY <3>6, TextJoins, ZenonT(90)
      <4> QED
        BY <2>2, <3>4, <3>5, <3>7, <4>1
    <3>10. x[1] = m \o y
      <4>1. (pre[b] \o m) \o y = pre[b] \o (m \o y) /\ m \o y \in Seq(Atom)
        BY <1>0, <3>6, <3>8, TextJoins, Joined, ZenonT(90)
      <4>2. pre[b] \o x[1] = pre[b] \o (m \o y)
        BY <2>1, <3>6, <3>9, <4>1
      <4> QED
        BY <1>0, <4>1, <4>2, Cancel
    <3>11. PICK z : z = <<y, x[2]>>
      OBVIOUS
    <3>12. z \in Seq(Atom) \X Value /\ z[1] = y /\ z[2] = x[2]
      BY <1>0, <3>8, <3>11
    <3>13. Held(t, pre, d, z)
      BY <2>1, <3>1, <3>2, <3>9, <3>12, ZenonT(90) DEF Held
    <3>14. z \in f[d]
      BY <3>1, <3>2, <3>12, <3>13
    <3>15. x = <<m \o z[1], z[2]>>
      BY <1>0, <3>10, <3>12
    <3> QED
      BY <3>1, <3>2, <3>5, <3>14, <3>15 DEF PairOf
  <2> QED
    BY <2>3, <2>4
<1> QED
  BY <1>1, <1>2

\* The pairs of a tree: the keys of its values, with the values.
Keyed(t, pre) == {<<Spell(t, pre, p[1], p[2]), t[p[1]].entry[p[2]].value>> : p \in Vals(t)}

\* What is in Keyed.
LEMMA KeyedIs ==
  ASSUME NEW t, Nodes(t), NEW pre
  PROVE  \A x : x \in Keyed(t, pre) <=>
           \E a \in Addr, c \in Atom : Valuable(t, a, c) /\ x = <<Spell(t, pre, a, c), t[a].entry[c].value>>
<1>1. ASSUME NEW x \in Keyed(t, pre)
      PROVE \E a \in Addr, c \in Atom : Valuable(t, a, c) /\ x = <<Spell(t, pre, a, c), t[a].entry[c].value>>
  <2>1. PICK p \in Vals(t) : x = <<Spell(t, pre, p[1], p[2]), t[p[1]].entry[p[2]].value>>
    BY DEF Keyed
  <2>2. p[1] \in Addr /\ p[2] \in Atom /\ Valuable(t, p[1], p[2])
    BY DEF Vals, Valuable
  <2> QED
    BY <2>1, <2>2
<1>2. ASSUME NEW x, NEW a \in Addr, NEW c \in Atom, Valuable(t, a, c),
             x = <<Spell(t, pre, a, c), t[a].entry[c].value>>
      PROVE  x \in Keyed(t, pre)
  <2>1. PICK p : p = <<a, c>>
    OBVIOUS
  <2>2. p[1] = a /\ p[2] = c /\ p \in Vals(t)
    BY <1>2, <2>1, ValIs DEF Valuable
  <2> QED
    BY <1>2, <2>2 DEF Keyed
<1> QED
  BY <1>1, <1>2

\* The pairs under the root are the values of the tree with the keys they spell.
LEMMA PairsAre ==
  ASSUME NEW t, Tree(t), NEW pre, Labelled(t, pre)
  PROVE  Pairs(t, Root) = Keyed(t, pre)
<1>0. Nodes(t) /\ Linked(t) /\ Root \in DOMAIN t /\ Root \in Addr
  BY NodeTypes DEF Tree
<1>1. PICK rank \in [DOMAIN t -> Nat] : Descends(t, rank)
  BY DEF Tree, Ranked
<1> DEFINE F == CHOOSE f : f = Belows(t, f)
           D == DOMAIN t
           W == Seq(Atom) \X Value
<1>2. F = Belows(t, F)
  BY BelowsSolved
<1>3. Pairs(t, Root) = F[Root]
  BY PairsIs
<1> HIDE DEF F
<1> DEFINE P == {b \in D : F[b] \in SUBSET W /\ \A x \in W : x \in F[b] <=> Held(t, pre, b, x)}
<1>4. ASSUME NEW b \in D, \A d \in D : rank[d] < rank[b] => d \in P PROVE b \in P
  <2>1. b \in Addr /\ \A c \in Atom : Slot(t, b, c) /\ Child(t, b, c) # Nil => Child(t, b, c) \in P
    BY <1>0, <1>1, <1>4, NodeTypes DEF Linked, Descends
  <2>2. \A x : x \in F[b] <=> \E c \in Atom : Slot(t, b, c) /\ PairOf(t, F, b, c, x)
    BY <1>0, <1>2, BelowIs
  <2>3. F[b] \in SUBSET W
    <3>1. ASSUME NEW x \in F[b] PROVE x \in W
      <4>1. PICK c \in Atom : Slot(t, b, c) /\ PairOf(t, F, b, c, x)
        BY <2>2, <3>1
      <4>2. Adds(t, b, c) \in Seq(Atom) /\ t[b].entry[c].value \in Value \cup {None}
        BY <1>0, <4>1, AddsIs, EntryTypes
      <4>3. CASE t[b].entry[c].value # None /\ x = <<Adds(t, b, c), t[b].entry[c].value>>
        BY <4>2, <4>3
      <4>4. CASE Child(t, b, c) # Nil /\ \E y \in F[Child(t, b, c)] : x = <<Adds(t, b, c) \o y[1], y[2]>>
        <5>1. PICK y \in F[Child(t, b, c)] : x = <<Adds(t, b, c) \o y[1], y[2]>>
          BY <4>4
        <5>2. y \in W
          BY <2>1, <4>1, <4>4
        <5>3. y[1] \in Seq(Atom) /\ y[2] \in Value
          BY <5>2
        <5>4. Adds(t, b, c) \o y[1] \in Seq(Atom)
          BY <4>2, <5>3, Joined
        <5> QED
          BY <5>1, <5>3, <5>4
      <4> QED
        BY <4>1, <4>3, <4>4 DEF PairOf
    <3> QED
      BY <3>1
  <2>4. ASSUME NEW x \in W PROVE x \in F[b] <=> Held(t, pre, b, x)
    <3>1. \A c \in Atom : Slot(t, b, c) /\ Child(t, b, c) # Nil =>
            F[Child(t, b, c)] \in SUBSET (Seq(Atom) \X Value) /\
            \A y \in Seq(Atom) \X Value : y \in F[Child(t, b, c)] <=> Held(t, pre, Child(t, b, c), y)
      BY <2>1
    <3>2. x \in Seq(Atom) \X Value
      OBVIOUS
    <3>3. (\E c \in Atom : Slot(t, b, c) /\ PairOf(t, F, b, c, x)) <=> Held(t, pre, b, x)
      <4> HIDE DEF W, P
      <4> QED
        BY <3>1, <3>2, OneHeld
    <3> QED
      BY <2>2, <3>3
  <2> QED
    BY <2>3, <2>4
<1>5. P \in SUBSET D
  OBVIOUS
<1>6. Inductive(D, rank, P)
  <2> HIDE DEF P
  <2> QED
    BY <1>1, <1>4, <1>5 DEF Inductive
<1>7. P = D
  <2> HIDE DEF P, D
  <2> QED
    BY <1>6, ByRank
<1>8. F[Root] \in SUBSET W /\ \A x \in W : x \in F[Root] <=> Held(t, pre, Root, x)
  BY <1>0, <1>7
<1>9. ASSUME NEW x PROVE x \in Keyed(t, pre) <=> x \in W /\ Held(t, pre, Root, x)
  <2>1. x \in Keyed(t, pre) <=>
          \E a \in Addr, c \in Atom : Valuable(t, a, c) /\ x = <<Spell(t, pre, a, c), t[a].entry[c].value>>
    BY <1>0, KeyedIs
  <2>2. ASSUME NEW a \in Addr, NEW c \in Atom, Valuable(t, a, c), NEW k, k = Spell(t, pre, a, c),
               NEW v, v = t[a].entry[c].value
        PROVE  a \in Subtree(t, Root) /\ k \in Seq(Atom) /\ v \in Value /\ k = pre[Root] \o k
    <3>1. a \in Subtree(t, Root) /\ k \in Seq(Atom)
      BY <1>0, <2>2, UnderRoot, SpellIs DEF Valuable
    <3>2. v \in Value
      BY <1>0, <2>2, AddsIs, EntryTypes DEF Valuable
    <3>3. pre[Root] \o k = k
      BY <3>1 DEF Labelled
    <3> QED
      BY <3>1, <3>2, <3>3
  <2>3. ASSUME NEW a \in Addr, NEW c \in Atom, Valuable(t, a, c), x = <<Spell(t, pre, a, c), t[a].entry[c].value>>
        PROVE  x \in W /\ Held(t, pre, Root, x)
    <3>1. PICK k, v : k = Spell(t, pre, a, c) /\ v = t[a].entry[c].value
      OBVIOUS
    <3>2. a \in Subtree(t, Root) /\ k \in Seq(Atom) /\ v \in Value /\ k = pre[Root] \o k
      BY <2>2, <2>3, <3>1
    <3>3. x \in W /\ x[1] = k /\ x[2] = v
      BY <2>3, <3>1, <3>2
    <3> QED
      BY <2>3, <3>1, <3>2, <3>3 DEF Held
  <2>4. ASSUME x \in W, Held(t, pre, Root, x)
        PROVE  \E a \in Addr, c \in Atom : Valuable(t, a, c) /\ x = <<Spell(t, pre, a, c), t[a].entry[c].value>>
    <3>1. PICK a \in Addr, c \in Atom : /\ Valuable(t, a, c) /\ Spell(t, pre, a, c) = pre[Root] \o x[1]
                                        /\ x[2] = t[a].entry[c].value
      BY <2>4 DEF Held
    <3>2. x[1] \in Seq(Atom) /\ x = <<x[1], x[2]>>
      BY <2>4
    <3>3. pre[Root] \o x[1] = x[1]
      BY <3>2 DEF Labelled
    <3> QED
      BY <3>1, <3>2, <3>3
  <2> QED
    BY <2>1, <2>3, <2>4
<1>10. ASSUME NEW x PROVE x \in F[Root] <=> x \in Keyed(t, pre)
  BY <1>8, <1>9
<1> HIDE DEF P, W, D
<1> QED
  BY <1>3, <1>10

\* Node b is below entry c of node a.
Beneath(t, a, c, b) == Child(t, a, c) # Nil /\ b \in Subtree(t, Child(t, a, c))

\* A slot of the subtree of u is entered through entry e of u: what it spells goes on with k.
Enters(t, pre, u, a, c, e, k) ==
  /\ e \in Atom /\ Slot(t, u, e) /\ k \in Seq(Atom)
  /\ Spell(t, pre, a, c) = pre[u] \o (Adds(t, u, e) \o k)
  /\ \/ a = u /\ c = e /\ k = <<>>
     \/ a # u /\ Beneath(t, u, e, a) /\ k # <<>>

\* The way to an entry under node u starts with an entry of u.
LEMMA EntersBy ==
  ASSUME NEW t, Tree(t), NEW pre, Labelled(t, pre), NEW u \in DOMAIN t, NEW a \in Subtree(t, u), NEW c, Slot(t, a, c)
  PROVE  \E e, k : Enters(t, pre, u, a, c, e, k)
<1>0. Nodes(t) /\ Linked(t) /\ a \in Addr /\ c \in Atom /\ u \in Addr /\ pre[u] \in Seq(Atom)
  BY NodeTypes DEF Tree, Labelled
<1>1. /\ pre[a] \in Seq(Atom) /\ Spell(t, pre, a, c) = pre[a] \o Adds(t, a, c)
  BY <1>0, SpellIs
<1>2. Adds(t, a, c) \in Seq(Atom) /\ Adds(t, a, c) # <<>>
  BY <1>0, AddsIs
<1>3. CASE a = u
  <2>1. PICK m : m = Adds(t, a, c)
    OBVIOUS
  <2>2. m \o <<>> = m /\ <<>> \in Seq(Atom)
    BY <1>2, <2>1
  <2>3. Enters(t, pre, u, a, c, c, <<>>)
    BY <1>0, <1>1, <1>3, <2>1, <2>2 DEF Enters
  <2> QED
    BY <2>3
<1>4. CASE a # u
  <2>1. PICK e \in Atom : Slot(t, u, e) /\ Child(t, u, e) # Nil /\ a \in Subtree(t, Child(t, u, e))
    BY <1>4, SubtreeSteps
  <2>2. PICK d : d = Child(t, u, e)
    OBVIOUS
  <2>3. d \in DOMAIN t /\ a \in Subtree(t, d)
    BY <1>0, <2>1, <2>2 DEF Linked
  <2>4. Starts(pre[d], pre[a])
    BY <2>3, UnderSpells
  <2>5. PICK k \in Seq(Atom) : pre[a] = pre[d] \o k
    BY <2>4 DEF Starts
  <2>6. PICK m, n : m = Adds(t, u, e) /\ n = Adds(t, a, c)
    OBVIOUS
  <2>7. m \in Seq(Atom) /\ n \in Seq(Atom) /\ n # <<>>
    BY <1>0, <1>2, <2>1, <2>6, AddsIs
  <2>8. pre[d] = pre[u] \o m /\ pre[d] \in Seq(Atom)
    BY <1>0, <2>1, <2>2, <2>3, <2>6 DEF Labelled
  <2>9. k \o n \in Seq(Atom) /\ k \o n # <<>>
    BY <2>7, JoinIs
  <2>10. ((pre[u] \o m) \o k) \o n = pre[u] \o (m \o (k \o n))
    <3>1. pre[u] \o m \in Seq(Atom)
      BY <2>8
    <3>2. ((pre[u] \o m) \o k) \o n = (pre[u] \o m) \o (k \o n)
      BY <2>7, <3>1, TextJoins
    <3>3. (pre[u] \o m) \o (k \o n) = pre[u] \o (m \o (k \o n))
      BY <1>0, <2>7, <2>9, TextJoins, ZenonT(90)
    <3> QED
      BY <3>2, <3>3
  <2>11. Spell(t, pre, a, c) = pre[u] \o (Adds(t, u, e) \o (k \o n))
    BY <1>1, <2>5, <2>6, <2>8, <2>10
  <2>12. Beneath(t, u, e, a)
    BY <2>1 DEF Beneath
  <2>13. Enters(t, pre, u, a, c, e, k \o n)
    BY <1>4, <2>1, <2>9, <2>11, <2>12 DEF Enters
  <2> QED
    BY <2>13
<1> QED
  BY <1>3, <1>4

\* Texts that start with c and with d, one of which starts with the other.
LEMMA HeadsMeet ==
  ASSUME NEW x \in Seq(Atom), x # <<>>, NEW y \in Seq(Atom), y # <<>>, NEW k \in Seq(Atom), NEW l \in Seq(Atom),
         NEW z \in Seq(Atom), (x \o k) \o z = y \o l
  PROVE  x[1] = y[1]
<1>1. Len(x) \in Nat /\ Len(y) \in Nat /\ 1 \in 1 .. Len(x) /\ 1 \in 1 .. Len(y)
  OBVIOUS
<1>2. (x \o k) \in Seq(Atom) /\ (x \o k)[1] = x[1] /\ 1 \in 1 .. Len(x \o k)
  <2>1. Len(x \o k) = Len(x) + Len(k) /\ Len(k) \in Nat
    BY JoinIs
  <2> QED
    BY <1>1, <2>1, JoinIs
<1>3. ((x \o k) \o z)[1] = x[1]
  <2>1. PICK w \in Seq(Atom) : w = x \o k
    BY <1>2
  <2>2. (w \o z)[1] = w[1]
    BY <1>2, <2>1, JoinIs
  <2> QED
    BY <1>2, <2>1, <2>2
<1>4. (y \o l)[1] = y[1]
  BY <1>1, JoinIs
<1> QED
  BY <1>3, <1>4

\* A slot that spells a prefix of what another spells is that slot, or leads to it.
Leads(t, pre, a, c, b, d) ==
  Starts(Spell(t, pre, a, c), Spell(t, pre, b, d)) => (a = b /\ c = d) \/ Beneath(t, a, c, b)

\* An entry whose key starts another's lies above it, when that holds under the children.
LEMMA LeadsFrom ==
  ASSUME NEW t, Tree(t), NEW pre, Labelled(t, pre), NEW u \in DOMAIN t,
         NEW a \in Subtree(t, u), NEW b \in Subtree(t, u), NEW c, NEW d, Slot(t, a, c), Slot(t, b, d),
         \A e \in Atom : Slot(t, u, e) /\ Child(t, u, e) # Nil
                           /\ a \in Subtree(t, Child(t, u, e)) /\ b \in Subtree(t, Child(t, u, e)) =>
                         Leads(t, pre, a, c, b, d)
  PROVE  Leads(t, pre, a, c, b, d)
<1>0. Nodes(t) /\ u \in Addr /\ pre[u] \in Seq(Atom)
  BY NodeTypes DEF Tree, Labelled
<1>1. SUFFICES ASSUME Starts(Spell(t, pre, a, c), Spell(t, pre, b, d))
               PROVE  (a = b /\ c = d) \/ Beneath(t, a, c, b)
  BY DEF Leads
<1>2. PICK z \in Seq(Atom) : Spell(t, pre, b, d) = Spell(t, pre, a, c) \o z
  BY <1>1 DEF Starts
<1>3. PICK e, k : Enters(t, pre, u, a, c, e, k)
  BY EntersBy
<1>4. PICK f, l : Enters(t, pre, u, b, d, f, l)
  BY EntersBy
<1>5. PICK m, n : m = Adds(t, u, e) /\ n = Adds(t, u, f)
  OBVIOUS
<1>6. /\ m \in Seq(Atom) /\ m # <<>> /\ m[1] = e /\ k \in Seq(Atom)
      /\ n \in Seq(Atom) /\ n # <<>> /\ n[1] = f /\ l \in Seq(Atom)
  BY <1>0, <1>3, <1>4, <1>5, AddsIs, SMTT(60) DEF Enters
<1>7. pre[u] \o (n \o l) = (pre[u] \o (m \o k)) \o z
  BY <1>2, <1>3, <1>4, <1>5 DEF Enters
<1>8. m \o k \in Seq(Atom) /\ n \o l \in Seq(Atom) /\ (m \o k) \o z \in Seq(Atom) /\ k \o z \in Seq(Atom)
  BY <1>6, Joined
<1>9. n \o l = (m \o k) \o z
  <2>1. (pre[u] \o (m \o k)) \o z = pre[u] \o ((m \o k) \o z)
    BY <1>0, <1>8, TextJoins, ZenonT(90)
  <2> QED
    BY <1>0, <1>7, <1>8, <2>1, Cancel
<1>10. e = f
  BY <1>6, <1>9, HeadsMeet
<1>11. l = k \o z
  <2>1. (m \o k) \o z = m \o (k \o z)
    BY <1>6, TextJoins, ZenonT(90)
  <2>2. m \o l = m \o (k \o z)
    BY <1>5, <1>9, <1>10, <2>1
  <2> QED
    BY <1>6, <1>8, <2>2, Cancel
<1>12. CASE a = u
  <2>1. c = e
    BY <1>3, <1>12 DEF Enters
  <2>2. (b = u /\ d = f) \/ Beneath(t, u, f, b)
    BY <1>4 DEF Enters
  <2> QED
    BY <1>10, <1>12, <2>1, <2>2
<1>13. CASE a # u
  <2>1. Beneath(t, u, e, a) /\ k # <<>> /\ e \in Atom /\ Slot(t, u, e)
    BY <1>3, <1>13 DEF Enters
  <2>2. l # <<>>
    BY <1>6, <1>11, <2>1, JoinIs
  <2>3. Beneath(t, u, e, b)
    BY <1>4, <1>10, <2>2 DEF Enters
  <2>4. Leads(t, pre, a, c, b, d)
    BY <2>1, <2>3 DEF Beneath
  <2> QED
    BY <1>1, <2>4 DEF Leads
<1> QED
  BY <1>12, <1>13

\* An entry whose key starts another's lies above it.
LEMMA SlotLeads ==
  ASSUME NEW t, Tree(t), NEW pre, Labelled(t, pre), NEW a0, NEW b0, NEW c0, NEW d0, Slot(t, a0, c0), Slot(t, b0, d0)
  PROVE  Leads(t, pre, a0, c0, b0, d0)
<1>0. Nodes(t) /\ Linked(t) /\ Root \in DOMAIN t
  BY NodeTypes DEF Tree
<1>1. PICK rank \in [DOMAIN t -> Nat] : Descends(t, rank)
  BY DEF Tree, Ranked
<1> DEFINE P == {u \in DOMAIN t : \A a \in Subtree(t, u), b \in Subtree(t, u), c, d \in Atom :
                                     Slot(t, a, c) /\ Slot(t, b, d) => Leads(t, pre, a, c, b, d)}
<1>2. ASSUME NEW u \in DOMAIN t, \A v \in DOMAIN t : rank[v] < rank[u] => v \in P PROVE u \in P
  <2>1. SUFFICES ASSUME NEW a \in Subtree(t, u), NEW b \in Subtree(t, u), NEW c \in Atom, NEW d \in Atom,
                        Slot(t, a, c), Slot(t, b, d)
                 PROVE  Leads(t, pre, a, c, b, d)
    OBVIOUS
  <2>2. ASSUME NEW e \in Atom, Slot(t, u, e), Child(t, u, e) # Nil,
               a \in Subtree(t, Child(t, u, e)), b \in Subtree(t, Child(t, u, e))
        PROVE  Leads(t, pre, a, c, b, d)
    <3>1. PICK v : v = Child(t, u, e)
      OBVIOUS
    <3>2. v \in DOMAIN t /\ rank[v] < rank[u]
      BY <1>0, <1>1, <2>2, <3>1, NodeTypes DEF Linked, Descends
    <3>3. v \in P
      BY <1>2, <3>2
    <3> QED
      BY <2>1, <2>2, <3>1, <3>3
  <2> HIDE DEF P
  <2> QED
    BY <2>1, <2>2, LeadsFrom
<1>3. P \in SUBSET DOMAIN t
  OBVIOUS
<1>4. Inductive(DOMAIN t, rank, P)
  <2> HIDE DEF P
  <2> QED
    BY <1>2, <1>3 DEF Inductive
<1>5. P = DOMAIN t
  <2> HIDE DEF P
  <2> QED
    BY <1>4, ByRank
<1>6. a0 \in Subtree(t, Root) /\ b0 \in Subtree(t, Root) /\ c0 \in Atom /\ d0 \in Atom
  BY <1>0, UnderRoot, NodeTypes
<1> QED
  BY <1>0, <1>5, <1>6

\* Two slots that spell the same are one.
LEMMA SpellOnce ==
  ASSUME NEW t, Tree(t), NEW pre, Labelled(t, pre), NEW a, NEW b, NEW c, NEW d, Slot(t, a, c), Slot(t, b, d),
         Spell(t, pre, a, c) = Spell(t, pre, b, d)
  PROVE  a = b /\ c = d
<1>0. Nodes(t) /\ Linked(t) /\ a \in Addr /\ c \in Atom
  BY NodeTypes DEF Tree
<1>1. Spell(t, pre, a, c) \in Seq(Atom)
  BY <1>0, SpellIs
<1>2. Starts(Spell(t, pre, a, c), Spell(t, pre, b, d))
  <2>1. PICK s \in Seq(Atom) : s = Spell(t, pre, a, c)
    BY <1>1
  <2>2. <<>> \in Seq(Atom) /\ s = s \o <<>>
    OBVIOUS
  <2> QED
    BY <2>1, <2>2 DEF Starts
<1>3. (a = b /\ c = d) \/ Beneath(t, a, c, b)
  BY <1>2, SlotLeads DEF Leads
<1>4. ASSUME Beneath(t, a, c, b) PROVE FALSE
  <2>1. PICK u : u = Child(t, a, c)
    OBVIOUS
  <2>2. u \in DOMAIN t /\ b \in Subtree(t, u)
    BY <1>0, <1>4, <2>1 DEF Beneath, Linked
  <2>3. PICK e, k : Enters(t, pre, u, b, d, e, k)
    BY <2>2, EntersBy
  <2>4. PICK s, m : s = Spell(t, pre, a, c) /\ m = Adds(t, u, e) \o k
    OBVIOUS
  <2>5. s \in Seq(Atom) /\ pre[u] = s
    BY <1>0, <1>1, <1>4, <2>1, <2>4, SpellIs DEF Beneath
  <2>6. m \in Seq(Atom) /\ m # <<>>
    <3>1. Adds(t, u, e) \in Seq(Atom) /\ Adds(t, u, e) # <<>> /\ k \in Seq(Atom)
      BY <1>0, <2>3, AddsIs DEF Enters
    <3> QED
      BY <2>4, <3>1, JoinIs
  <2>7. s = s \o m
    BY <2>3, <2>4, <2>5 DEF Enters
  <2>8. s \o <<>> = s \o m /\ <<>> \in Seq(Atom)
    BY <2>5, <2>7
  <2> QED
    BY <2>5, <2>6, <2>8, Cancel
<1> QED
  BY <1>3, <1>4

\* No two values have the same key, so the map has as many pairs as the trie has values.
LEMMA KeyedCount ==
  ASSUME NEW t, Tree(t), NEW pre, Labelled(t, pre), IsFiniteSet(Vals(t))
  PROVE  Cardinality(Keyed(t, pre)) = Cardinality(Vals(t))
<1> DEFINE g == [p \in Vals(t) |-> <<Spell(t, pre, p[1], p[2]), t[p[1]].entry[p[2]].value>>]
           S == Vals(t)
           K == Keyed(t, pre)
<1>1. K = {g[p] : p \in S}
  BY DEF Keyed
<1>2. ASSUME NEW p \in S, NEW q \in S, g[p] = g[q] PROVE p = q
  <2>1. PICK a, c, b, d : p = <<a, c>> /\ q = <<b, d>> /\ a = p[1] /\ c = p[2] /\ b = q[1] /\ d = q[2]
    BY DEF Vals
  <2>2. Slot(t, a, c) /\ Slot(t, b, d)
    BY <2>1 DEF Vals
  <2>3. Spell(t, pre, a, c) = Spell(t, pre, b, d)
    BY <1>2, <2>1
  <2>4. a = b /\ c = d
    BY <2>2, <2>3, SpellOnce
  <2> QED
    BY <2>1, <2>4, SMTT(60)
<1>3. g \in Bijection(S, K)
  <2>1. g \in [S -> K]
    BY <1>1
  <2> HIDE DEF g, S, K
  <2>2. g \in Injection(S, K)
    BY <1>2, <2>1 DEF Injection, IsInjective
  <2>3. g \in Surjection(S, K)
    BY <1>1, <2>1 DEF Surjection
  <2> QED
    BY <2>2, <2>3 DEF Bijection
<1> HIDE DEF g, K
<1>4. Cardinality(S) = Cardinality(K)
  BY <1>3, FS_Bijection DEF ExistsBijection
<1> QED
  BY <1>4 DEF K

\* The invariant gives what CountIsSize states.
LEMMA SizeFollows ==
  TrieInv => CountIsSize
<1>1. SUFFICES ASSUME TrieInv PROVE count = Cardinality(Pairs(node, Root))
  BY DEF CountIsSize
<1>2. PICK t : t = node
  OBVIOUS
<1>3. Tree(t) /\ IsFiniteSet(Vals(t)) /\ count = Cardinality(Vals(t))
  BY <1>1, <1>2 DEF TrieInv, Whole
<1>4. PICK pre : Labelled(t, pre)
  BY <1>3, LabelsExist
<1>5. Pairs(t, Root) = Keyed(t, pre) /\ Cardinality(Keyed(t, pre)) = Cardinality(Vals(t))
  BY <1>3, <1>4, PairsAre, KeyedCount
<1> QED
  BY <1>2, <1>3, <1>5

\* The size told is the number of pairs there are.
THEOREM SizeIsTold == Spec => []CountIsSize
BY TrieKeeps, SizeFollows, PTL

-----------------------------------------------------------------------------
(* Pairs as a map.                                                         *)

\* A map given by its pairs.
Graph(K) == /\ \A x \in K : x = <<x[1], x[2]>>
            /\ \A x \in K, y \in K : x[1] = y[1] => x = y
MapOf(K) == [k \in {x[1] : x \in K} |-> (CHOOSE x \in K : x[1] = k)[2]]

\* The contents are the map of the pairs, now and after a step.
LEMMA ContentsIs ==
  Contents = MapOf(Pairs(node, Root))
BY DEF Contents, MapOf

\* What the map of a graph is.
LEMMA MapIs ==
  ASSUME NEW K, Graph(K)
  PROVE  /\ \A k : k \in DOMAIN MapOf(K) <=> \E x \in K : x[1] = k
         /\ \A x \in K : MapOf(K)[x[1]] = x[2]
         /\ MapOf(K) = [k \in DOMAIN MapOf(K) |-> MapOf(K)[k]]
<1>1. \A k : k \in DOMAIN MapOf(K) <=> \E x \in K : x[1] = k
  BY DEF MapOf
<1>2. ASSUME NEW x \in K PROVE MapOf(K)[x[1]] = x[2]
  <2>1. MapOf(K)[x[1]] = (CHOOSE y \in K : y[1] = x[1])[2]
    BY DEF MapOf
  <2>2. (CHOOSE y \in K : y[1] = x[1]) = x
    BY DEF Graph
  <2> QED
    BY <2>1, <2>2
<1>3. MapOf(K) = [k \in DOMAIN MapOf(K) |-> MapOf(K)[k]]
  BY DEF MapOf
<1> QED
  BY <1>1, <1>2, <1>3

\* A function is the map of the pairs it agrees with.
LEMMA MapEquals ==
  ASSUME NEW K, Graph(K), NEW f, f = [k \in DOMAIN f |-> f[k]],
         \A k : k \in DOMAIN f <=> \E x \in K : x[1] = k,
         \A x \in K : f[x[1]] = x[2]
  PROVE  f = MapOf(K)
<1>1. DOMAIN f = DOMAIN MapOf(K)
  <2>1. \A k : k \in DOMAIN f <=> k \in DOMAIN MapOf(K)
    BY MapIs
  <2> QED
    BY <2>1
<1>2. ASSUME NEW k \in DOMAIN f PROVE f[k] = MapOf(K)[k]
  <2>1. PICK x \in K : x[1] = k
    OBVIOUS
  <2> QED
    BY <2>1, MapIs
<1>3. MapOf(K) = [k \in DOMAIN MapOf(K) |-> MapOf(K)[k]]
  BY MapIs
<1> QED
  BY <1>1, <1>2, <1>3

\* A pair is added.
LEMMA MapPut ==
  ASSUME NEW K, Graph(K), NEW k, NEW v, \A x \in K : x[1] # k
  PROVE  /\ Graph(K \cup {<<k, v>>}) /\ k \notin DOMAIN MapOf(K)
         /\ MapOf(K \cup {<<k, v>>}) = [l \in DOMAIN MapOf(K) \cup {k} |-> IF l = k THEN v ELSE MapOf(K)[l]]
<1> DEFINE L == K \cup {<<k, v>>}
           f == [l \in DOMAIN MapOf(K) \cup {k} |-> IF l = k THEN v ELSE MapOf(K)[l]]
<1>1. Graph(L)
  BY DEF Graph
<1>2. k \notin DOMAIN MapOf(K)
  BY MapIs
<1>3. f = [l \in DOMAIN MapOf(K) \cup {k} |-> IF l = k THEN v ELSE MapOf(K)[l]]
  OBVIOUS
<1>4. f = [l \in DOMAIN f |-> f[l]]
  BY <1>3
<1>5. ASSUME NEW l PROVE l \in DOMAIN f <=> \E x \in L : x[1] = l
  <2>1. l \in DOMAIN f <=> l = k \/ l \in DOMAIN MapOf(K)
    BY <1>3
  <2>2. l \in DOMAIN MapOf(K) <=> \E x \in K : x[1] = l
    BY MapIs
  <2>3. \A x : x \in L <=> x \in K \/ x = <<k, v>>
    OBVIOUS
  <2>4. (\E x \in L : x[1] = l) <=> (\E x \in K : x[1] = l) \/ l = k
    <3>1. <<k, v>>[1] = k
      OBVIOUS
    <3> HIDE DEF L, f
    <3> QED
      BY <2>3, <3>1
  <2> HIDE DEF f, L
  <2> QED
    BY <2>1, <2>2, <2>4
<1>6. ASSUME NEW x \in L PROVE f[x[1]] = x[2]
  <2>1. CASE x \in K
    <3>1. x[1] # k /\ x[1] \in DOMAIN MapOf(K) /\ MapOf(K)[x[1]] = x[2]
      BY <2>1, MapIs
    <3> QED
      BY <1>3, <3>1
  <2>2. CASE x = <<k, v>>
    <3>1. x[1] = k /\ x[2] = v
      BY <2>2
    <3> HIDE DEF f
    <3> QED
      BY <1>3, <3>1
  <2> QED
    BY <2>1, <2>2
<1> HIDE DEF L, f
<1>7. f = MapOf(L)
  BY <1>1, <1>4, <1>5, <1>6, MapEquals
<1> QED
  BY <1>1, <1>2, <1>7 DEF L, f

\* The value of a key changes.
LEMMA MapAssign ==
  ASSUME NEW K, Graph(K), NEW k, NEW v, NEW y \in K, y[1] = k, NEW L,
         L = {x \in K : x[1] # k} \cup {<<k, v>>}
  PROVE  Graph(L) /\ k \in DOMAIN MapOf(K) /\ MapOf(L) = [MapOf(K) EXCEPT ![k] = v]
<1> DEFINE f == [MapOf(K) EXCEPT ![k] = v]
<1>1. Graph(L)
  BY DEF Graph
<1>2. k \in DOMAIN MapOf(K)
  BY MapIs
<1>3. f = [l \in DOMAIN MapOf(K) |-> IF l = k THEN v ELSE MapOf(K)[l]]
  BY MapIs
<1>4. f = [l \in DOMAIN f |-> f[l]] /\ DOMAIN f = DOMAIN MapOf(K)
  BY <1>3
<1>5. ASSUME NEW l PROVE l \in DOMAIN f <=> \E x \in L : x[1] = l
  <2>1. l \in DOMAIN MapOf(K) <=> \E x \in K : x[1] = l
    BY MapIs
  <2> HIDE DEF f
  <2>2. CASE l = k
    <3>1. <<k, v>> \in L /\ <<k, v>>[1] = k
      OBVIOUS
    <3> QED
      BY <1>2, <1>4, <2>2, <3>1
  <2>3. CASE l # k
    BY <1>4, <2>1, <2>3
  <2> QED
    BY <2>2, <2>3
<1>6. ASSUME NEW x \in L PROVE f[x[1]] = x[2]
  <2>1. CASE x \in K /\ x[1] # k
    <3>1. x[1] \in DOMAIN MapOf(K) /\ MapOf(K)[x[1]] = x[2]
      BY <2>1, MapIs
    <3> QED
      BY <1>3, <2>1, <3>1
  <2>2. CASE x = <<k, v>>
    <3>1. x[1] = k /\ x[2] = v
      BY <2>2
    <3> HIDE DEF f
    <3> QED
      BY <1>2, <1>3, <3>1
  <2> QED
    BY <2>1, <2>2
<1> HIDE DEF f
<1>7. f = MapOf(L)
  BY <1>1, <1>4, <1>5, <1>6, MapEquals
<1> QED
  BY <1>1, <1>2, <1>7 DEF f

\* Pairs are taken away.
LEMMA MapRestrict ==
  ASSUME NEW K, Graph(K), NEW S, NEW L, L = {x \in K : x[1] \in S}, S \in SUBSET DOMAIN MapOf(K)
  PROVE  Graph(L) /\ MapOf(L) = Restrict(MapOf(K), S)
<1> DEFINE f == Restrict(MapOf(K), S)
<1>1. Graph(L)
  BY DEF Graph
<1>2. f = [l \in S |-> MapOf(K)[l]]
  BY DEF Restrict
<1>3. f = [l \in DOMAIN f |-> f[l]] /\ DOMAIN f = S
  BY <1>2
<1> HIDE DEF f
<1>4. ASSUME NEW l PROVE l \in DOMAIN f <=> \E x \in L : x[1] = l
  <2>1. l \in DOMAIN MapOf(K) <=> \E x \in K : x[1] = l
    BY MapIs
  <2> QED
    BY <1>3, <2>1
<1>5. ASSUME NEW x \in L PROVE f[x[1]] = x[2]
  BY <1>2, MapIs
<1>6. f = MapOf(L)
  BY <1>1, <1>3, <1>4, <1>5, MapEquals
<1> QED
  BY <1>1, <1>6 DEF f

-----------------------------------------------------------------------------
(* What a search spells.                                                   *)

\* The string is the label of the node where the search ends, what was followed
\* of the entry there, and the rest.
Spelled(t, pre, b, x, m) ==
  LET p == Last(m.path)
  IN  /\ p.addr \in DOMAIN t /\ p.text \in Seq(Atom) /\ m.rest \in Seq(Atom)
      /\ pre[b] \o x = pre[p.addr] \o (p.text \o m.rest)
      /\ OnSlot(t, p) => p.text = <<p.text[1]>> \o SubSeq(Here(t, p).stem, 1, Len(p.text) - 1)

\* One node of the search: no entry, an entry met, an entry passed.
LEMMA MissingSpells ==
  ASSUME NEW t, NEW pre, NEW b \in DOMAIN t, NEW c \in Atom, NEW rest \in Seq(Atom), ~Slot(t, b, c)
  PROVE  Spelled(t, pre, b, <<c>> \o rest, Missing(t, b, c, rest))
<1>1. PICK p : p = [addr |-> b, text |-> <<c>>, version |-> t[b].version, has_child |-> FALSE, has_data |-> FALSE]
  OBVIOUS
<1>2. PICK m : m = Missing(t, b, c, rest)
  OBVIOUS
<1>3. m.rest = rest /\ Last(m.path) = p
  BY <1>1, <1>2 DEF Missing, Last
<1>4. p.addr = b /\ p.text = <<c>> /\ <<c>> \in Seq(Atom) /\ p.text[1] = c
  BY <1>1
<1>5. ~OnSlot(t, p)
  BY <1>4 DEF OnSlot
<1>6. Spelled(t, pre, b, <<c>> \o rest, m)
  BY <1>3, <1>4, <1>5, SMTT(60) DEF Spelled
<1> QED
  BY <1>2, <1>6

LEMMA MetSpells ==
  ASSUME NEW t, NEW pre, NEW b, NEW c, NEW rest \in Seq(Atom), NEW at, NEW p, NEW cmp, Nodes(t), Slot(t, b, c),
         at = Shared(t[b].entry[c].stem, rest),
         p = Position(t, b, c, SubSeq(t[b].entry[c].stem, 1, at))
  PROVE  Spelled(t, pre, b, <<c>> \o rest, [result |-> cmp, rest |-> Left(rest, at), path |-> <<p>>])
<1>1. PICK e : e = t[b].entry[c]
  OBVIOUS
<1>2. e \in EntryT /\ b \in DOMAIN t /\ c \in Atom
  BY <1>1, NodeTypes DEF Slot
<1>3. Compared(e, rest, at)
  BY <1>1, <1>2, CompareIs
<1>4. PICK stem, left : stem = SubSeq(e.stem, 1, at) /\ left = Left(rest, at)
  BY ZenonT(40)
<1>5. stem \in Seq(Atom) /\ Len(stem) = at /\ at \in Nat /\ stem \o left = rest /\ left \in Seq(Atom)
  BY <1>3, <1>4, Zenon DEF Compared
<1>6. /\ p.addr = b /\ p.text[1] = c /\ p.text = <<c>> \o stem /\ Len(p.text) = at + 1
  <2>1. PositionIs(t, b, c, stem, p)
    BY <1>1, <1>4, <1>5, Placed
  <2> QED
    BY <1>5, <2>1, ZenonT(90) DEF PositionIs
<1>7. PICK m : m = [result |-> cmp, rest |-> left, path |-> <<p>>]
  OBVIOUS
<1>8. m.rest = left /\ Last(m.path) = p
  BY <1>7 DEF Last
<1>9. (<<c>> \o stem) \o left = <<c>> \o rest /\ <<c>> \o stem \in Seq(Atom)
  <2>1. <<c>> \in Seq(Atom)
    BY <1>2, Single
  <2>2. (<<c>> \o stem) \o left = <<c>> \o (stem \o left)
    BY <1>5, <2>1, TextJoins, ZenonT(90)
  <2> QED
    BY <1>2, <1>5, <2>2, TextIs
<1>10. OnSlot(t, p) => p.text = <<p.text[1]>> \o SubSeq(Here(t, p).stem, 1, Len(p.text) - 1)
  <2>1. Here(t, p) = e
    BY <1>1, <1>6, Zenon DEF Here
  <2>2. Len(p.text) - 1 = at
    <3>1. PICK l : l = Len(p.text)
      BY Zenon
    <3>2. l = at + 1 /\ at \in Nat
      BY <1>5, <1>6, <3>1, Zenon
    <3>3. l - 1 = at
      BY <3>2
    <3> QED
      BY <3>1, <3>3
  <2> QED
    BY <1>4, <1>6, <2>1, <2>2, Zenon
<1>11. Spelled(t, pre, b, <<c>> \o rest, m)
  BY <1>2, <1>5, <1>6, <1>8, <1>9, <1>10, Zenon DEF Spelled
<1> QED
  BY <1>4, <1>7, <1>11

LEMMA OnwardSpells ==
  ASSUME NEW t, NEW pre, NEW b, NEW c, NEW rest \in Seq(Atom), NEW at, NEW p, NEW d, Nodes(t), Labelled(t, pre),
         Slot(t, b, c), Child(t, b, c) # Nil,
         at = Shared(t[b].entry[c].stem, rest), Compare(t[b].entry[c], rest, at) = "stem_end",
         p = Position(t, b, c, SubSeq(t[b].entry[c].stem, 1, at)),
         d \in MismatchT, d.path # <<>>, Spelled(t, pre, Child(t, b, c), Left(rest, at), d)
  PROVE  Spelled(t, pre, b, <<c>> \o rest, Onward(p, d))
<1>1. PICK e : e = t[b].entry[c]
  OBVIOUS
<1>2. e \in EntryT /\ b \in DOMAIN t /\ c \in Atom /\ b \in Addr /\ e.stem \in Seq(Atom)
  <2>1. e \in EntryT /\ b \in DOMAIN t /\ c \in Atom /\ b \in Addr
    BY <1>1, NodeTypes DEF Slot
  <2> QED
    BY <2>1, EntryTypes
<1>3. Compared(e, rest, at)
  BY <1>1, <1>2, CompareIs
<1>4. PICK stem, left : stem = SubSeq(e.stem, 1, at) /\ left = Left(rest, at)
  BY Zenon
<1>5. stem \in Seq(Atom) /\ Len(stem) = at /\ at \in Nat /\ stem \o left = rest /\ left \in Seq(Atom) /\ at = Len(e.stem)
  BY <1>1, <1>3, <1>4, Zenon DEF Compared
<1>6. stem = e.stem
  BY <1>2, <1>4, <1>5
<1>7. p \in PosT
  <2>1. PositionIs(t, b, c, stem, p)
    BY <1>1, <1>4, <1>5, Placed, ZenonT(40)
  <2> QED
    BY <2>1, ZenonT(40) DEF PositionIs
<1>8. /\ Onward(p, d).path = <<p>> \o d.path /\ Onward(p, d).rest = d.rest /\ d.path \in Seq(PosT)
  BY <1>7, OnwardType, ZenonT(90) DEF MismatchT
<1>9. Last(Onward(p, d).path) = Last(d.path)
  <2>1. <<p>> \in Seq(PosT)
    BY <1>7
  <2>2. PICK i, j : i = <<p>> /\ j = d.path
    OBVIOUS
  <2>3. i \in Seq(PosT) /\ j \in Seq(PosT) /\ j # <<>>
    BY <1>8, <2>1, <2>2
  <2>4. Last(i \o j) = Last(j)
    BY <2>3, JoinIs, SMTT(60)
  <2> QED
    BY <1>8, <2>2, <2>4
<1>10. pre[b] \o (<<c>> \o rest) = pre[Child(t, b, c)] \o left
  <2>1. PICK m : m = <<c>> \o stem
    OBVIOUS
  <2>2. pre[Child(t, b, c)] = pre[b] \o m /\ pre[b] \in Seq(Atom) /\ m \in Seq(Atom)
    BY <1>1, <1>2, <1>6, <2>1, TextIs, ZenonT(90) DEF Labelled, Adds
  <2>3. m \o left = <<c>> \o rest
    <3>1. <<c>> \in Seq(Atom)
      BY <1>2, Single
    <3>2. (<<c>> \o stem) \o left = <<c>> \o (stem \o left)
      BY <1>5, <3>1, TextJoins, ZenonT(90)
    <3> QED
      BY <1>5, <2>1, <3>2
  <2>4. (pre[b] \o m) \o left = pre[b] \o (m \o left)
    BY <1>5, <2>2, TextJoins, ZenonT(90)
  <2> QED
    BY <2>2, <2>3, <2>4
<1>11. PICK q, r : q = Last(d.path) /\ r = d.rest
  BY Zenon
<1>12. /\ q.addr \in DOMAIN t /\ q.text \in Seq(Atom) /\ r \in Seq(Atom)
       /\ pre[Child(t, b, c)] \o left = pre[q.addr] \o (q.text \o r)
       /\ OnSlot(t, q) => q.text = <<q.text[1]>> \o SubSeq(Here(t, q).stem, 1, Len(q.text) - 1)
  BY <1>4, <1>11, Zenon DEF Spelled
<1>13. PICK m : m = Onward(p, d)
  BY Zenon
<1>14. Last(m.path) = q /\ m.rest = r
  BY <1>8, <1>9, <1>11, <1>13, ZenonT(40)
<1>15. Spelled(t, pre, b, <<c>> \o rest, m)
  BY <1>10, <1>12, <1>14, Zenon DEF Spelled
<1> QED
  BY <1>13, <1>15

\* The path of a search and what is left spell the string looked for.
LEMMA MismatchSpells ==
  ASSUME NEW t, NEW pre, Tree(t), Labelled(t, pre), NEW a \in DOMAIN t, NEW s \in Seq(Atom) \ {<<>>}
  PROVE  Spelled(t, pre, a, s, Mismatch(t, a, s))
<1> DEFINE N == 1 .. Len(s)
<1>0. Nodes(t) /\ Linked(t) /\ 1 \in N /\ s \in Seq(Atom) /\ SubSeq(s, 1, Len(s)) = s
  BY Members DEF Tree
<1>1. PICK rank \in [DOMAIN t -> Nat] : Descends(t, rank)
  BY DEF Tree, Ranked
<1>2. PICK f : Solves(t, s, f) /\ \A b : Mismatch(t, b, s) = f[b][1]
  BY MismatchSolved
<1> DEFINE P == {b \in DOMAIN t : \A n \in N : Spelled(t, pre, b, SubSeq(s, n, Len(s)), f[b][n])}
<1>3. ASSUME NEW b \in DOMAIN t, \A d \in DOMAIN t : rank[d] < rank[b] => d \in P, NEW n \in N
      PROVE  Spelled(t, pre, b, SubSeq(s, n, Len(s)), f[b][n])
  <2>1. PICK c, rest, at, p, r : /\ c = s[n] /\ rest = SubSeq(s, n + 1, Len(s))
                                 /\ at = Shared(t[b].entry[c].stem, rest)
                                 /\ p = Position(t, b, c, SubSeq(t[b].entry[c].stem, 1, at)) /\ r = f[b][n]
    BY Zenon
  <2>2. /\ c \in Atom /\ rest \in Seq(Atom) /\ Len(rest) = Len(s) - n /\ Len(s) \in Nat
        /\ <<c>> \o rest = SubSeq(s, n, Len(s))
    BY <1>0, <2>1, HeadAndRest, Members, ZenonT(90)
  <2>3. \/ ~Slot(t, b, c) /\ r = Missing(t, b, c, rest)
        \/ /\ Slot(t, b, c) /\ Compare(t[b].entry[c], rest, at) = "stem_end" /\ Child(t, b, c) # Nil
           /\ r = Onward(p, f[Child(t, b, c)][n + at + 1])
        \/ /\ Slot(t, b, c)
           /\ r = [result |-> Compare(t[b].entry[c], rest, at), rest |-> Left(rest, at), path |-> <<p>>]
    BY <1>2, <2>1 DEF Solves, Goes
  <2>4. CASE ~Slot(t, b, c) /\ r = Missing(t, b, c, rest)
    BY <2>1, <2>2, <2>4, MissingSpells
  <2>5. CASE /\ Slot(t, b, c)
             /\ r = [result |-> Compare(t[b].entry[c], rest, at), rest |-> Left(rest, at), path |-> <<p>>]
    <3>1. PICK cmp : cmp = Compare(t[b].entry[c], rest, at)
      OBVIOUS
    <3>2. Spelled(t, pre, b, <<c>> \o rest, [result |-> cmp, rest |-> Left(rest, at), path |-> <<p>>])
      BY <1>0, <2>1, <2>2, <2>5, MetSpells, ZenonT(90)
    <3> QED
      BY <2>1, <2>2, <2>5, <3>1, <3>2
  <2>6. CASE /\ Slot(t, b, c) /\ Compare(t[b].entry[c], rest, at) = "stem_end" /\ Child(t, b, c) # Nil
             /\ r = Onward(p, f[Child(t, b, c)][n + at + 1])
    <3>1. PICK x, e, k : x = Child(t, b, c) /\ e = t[b].entry[c] /\ k = n + at + 1
      OBVIOUS
    <3>2. x \in DOMAIN t /\ rank[x] < rank[b] /\ e \in EntryT
      <4>1. b \in Addr /\ e \in EntryT
        BY <1>0, <2>6, <3>1, NodeTypes
      <4> QED
        BY <1>0, <1>1, <2>2, <2>6, <3>1, <4>1 DEF Linked, Descends
    <3>3. Compared(e, rest, at)
      BY <2>1, <2>2, <3>1, <3>2, CompareIs
    <3>4. at \in Nat /\ at < Len(rest)
      BY <2>6, <3>1, <3>3 DEF Compared
    <3>5. k \in N /\ Left(rest, at) = SubSeq(s, k, Len(s))
      <4>1. at < Len(s) - n
        BY <2>2, <3>4
      <4>2. /\ SubSeq(SubSeq(s, n + 1, Len(s)), at + 1, Len(SubSeq(s, n + 1, Len(s)))) = SubSeq(s, n + at + 1, Len(s))
            /\ n + at + 1 \in 1 .. Len(s)
        BY <1>0, <3>4, <4>1, RestOfRest
      <4> QED
        BY <2>1, <3>1, <4>2 DEF Left
    <3>6. PICK d : d = f[x][k]
      OBVIOUS
    <3>7. Led(t, x, Left(rest, at), d)
      BY <1>2, <3>2, <3>5, <3>6 DEF Solves
    <3>8. d \in MismatchT /\ d.path # <<>>
      BY <3>7 DEF Led, Way
    <3>9. Spelled(t, pre, x, Left(rest, at), d)
      BY <1>3, <3>2, <3>5, <3>6, Zenon
    <3>10. Spelled(t, pre, b, <<c>> \o rest, Onward(p, d))
      BY <1>0, <2>1, <2>2, <2>6, <3>1, <3>8, <3>9, OnwardSpells, ZenonT(90)
    <3> QED
      BY <2>1, <2>2, <2>6, <3>1, <3>6, <3>10, Zenon
  <2> QED
    BY <2>3, <2>4, <2>5, <2>6
<1>4. P \in SUBSET DOMAIN t
  OBVIOUS
<1>5. Inductive(DOMAIN t, rank, P)
  <2>1. ASSUME NEW b \in DOMAIN t, \A d \in DOMAIN t : rank[d] < rank[b] => d \in P PROVE b \in P
    BY <1>3, <2>1
  <2> HIDE DEF P
  <2> QED
    BY <2>1, <1>4 DEF Inductive
<1>6. P = DOMAIN t
  <2> HIDE DEF P
  <2> QED
    BY <1>5, ByRank
<1>7. Spelled(t, pre, a, SubSeq(s, 1, Len(s)), f[a][1])
  BY <1>0, <1>6
<1> QED
  BY <1>0, <1>2, <1>7

\* What is spelled from a node on is spelled under it.
LEMMA UnderKey ==
  ASSUME NEW t, Tree(t), NEW pre, Labelled(t, pre), NEW b \in DOMAIN t, Attached(t, b), NEW a, NEW c, Slot(t, a, c),
         NEW y \in Seq(Atom), y # <<>>, Spell(t, pre, a, c) = pre[b] \o y
  PROVE  a \in Subtree(t, b)
<1>0. Nodes(t) /\ pre[b] \in Seq(Atom)
  BY DEF Tree, Labelled
<1>1. CASE b = Root
  BY <1>1, UnderRoot
<1>2. CASE b # Root
  <2>1. PICK a1 \in Addr, c1 \in Atom : Slot(t, a1, c1) /\ Child(t, a1, c1) = b
    BY <1>2 DEF Attached
  <2>2. b # Nil
    BY <1>0, NodeTypes
  <2>3. Spell(t, pre, a1, c1) = pre[b]
    BY <1>0, <2>1, <2>2, SpellIs
  <2>4. Starts(Spell(t, pre, a1, c1), Spell(t, pre, a, c))
    BY <2>3 DEF Starts
  <2>5. (a1 = a /\ c1 = c) \/ Beneath(t, a1, c1, a)
    BY <2>1, <2>4, SlotLeads DEF Leads
  <2>6. ~(a1 = a /\ c1 = c)
    <3>1. ASSUME a1 = a /\ c1 = c PROVE FALSE
      <4>1. pre[b] \o <<>> = pre[b] \o y /\ <<>> \in Seq(Atom)
        BY <1>0, <2>3, <3>1
      <4> QED
        BY <1>0, <4>1, Cancel
    <3> QED
      BY <3>1
  <2> QED
    BY <2>1, <2>5, <2>6 DEF Beneath
<1> QED
  BY <1>1, <1>2

\* What is left of a stem and what goes on behind it.
GoesBehind(x, k, r, at) ==
  /\ at = Len(x) => k = r
  /\ at < Len(x) => r # <<>> /\ r[1] = x[at + 1]

\* What follows a part of a stem starts as the stem goes on.
LEMMA StemParts ==
  ASSUME NEW x \in Seq(Atom), NEW k \in Seq(Atom), NEW r \in Seq(Atom), NEW at \in 0 .. Len(x),
         NEW h, h = SubSeq(x, 1, at), x \o k = h \o r
  PROVE  GoesBehind(x, k, r, at)
<1>0. Len(x) \in Nat /\ at \in Nat
  BY Members
<1>1. SUFFICES (at = Len(x) => k = r) /\ (at < Len(x) => r # <<>> /\ r[1] = x[at + 1])
  BY DEF GoesBehind
<1>2. h \in Seq(Atom) /\ Len(h) = at
  BY <1>0
<1>3. CASE at = Len(x)
  <2>1. h = x
    BY <1>0, <1>3
  <2>2. x \o k = x \o r
    BY <2>1
  <2>3. k = r
    BY <2>2, Cancel
  <2> QED
    BY <1>3, <2>3
<1>4. CASE at < Len(x)
  <2>1. Len(x \o k) = Len(x) + Len(k) /\ Len(k) \in Nat /\ \A n \in 1 .. Len(x) : (x \o k)[n] = x[n]
    BY JoinIs
  <2>2. Len(h \o r) = Len(h) + Len(r) /\ Len(r) \in Nat /\ \A n \in 1 .. Len(r) : (h \o r)[Len(h) + n] = r[n]
    BY <1>2, JoinIs
  <2>3. x \o k = h \o r
    OBVIOUS
  <2>4. Len(r) >= 1
    <3>1. PICK i, j, l : i = Len(x) /\ j = Len(k) /\ l = Len(r)
      OBVIOUS
    <3>2. i + j = at + l /\ i \in Nat /\ j \in Nat /\ l \in Nat
      BY <1>0, <1>2, <2>1, <2>2, <2>3, <3>1
    <3>3. l >= 1
      BY <1>0, <1>4, <3>1, <3>2
    <3> QED
      BY <3>1, <3>3
  <2>5. r # <<>>
    BY <2>4
  <2>6. 1 \in 1 .. Len(r) /\ at + 1 \in 1 .. Len(x)
    BY <1>0, <1>4, <2>2, <2>4
  <2>7. (h \o r)[at + 1] = r[1] /\ (x \o k)[at + 1] = x[at + 1]
    BY <1>2, <2>1, <2>2, <2>6
  <2> QED
    BY <1>4, <2>3, <2>5, <2>7
<1> QED
  BY <1>0, <1>3, <1>4

\* A search from the root, and what it has of a key.
Sought(t, pre, s, m, p) ==
  /\ p = Last(m.path) /\ Ends(t, m, p) /\ Outcome(t, m) /\ m \in MismatchT
  /\ pre[p.addr] \in Seq(Atom) /\ p.text \in Seq(Atom) /\ m.rest \in Seq(Atom) /\ s \in Seq(Atom)
  /\ s = pre[p.addr] \o (p.text \o m.rest)
  /\ OnSlot(t, p) => p.text = <<p.text[1]>> \o SubSeq(Here(t, p).stem, 1, Len(p.text) - 1)

\* All that is known of a search from the root.
LEMMA SearchFinds ==
  ASSUME NEW t, Tree(t), NEW pre, Labelled(t, pre), NEW s \in Text
  PROVE  Sought(t, pre, s, Mismatch(t, Root, s), Last(Mismatch(t, Root, s).path))
<1>1. PICK m, p : m = Mismatch(t, Root, s) /\ p = Last(m.path)
  OBVIOUS
<1>2. Led(t, Root, s, m)
  BY <1>1, RootLeads
<1>3. Ends(t, m, p) /\ Outcome(t, m) /\ m \in MismatchT
  BY <1>1, <1>2, LedEnds DEF Led
<1>4. Root \in DOMAIN t /\ s \in Seq(Atom) \ {<<>>}
  BY DEF Tree, Nodes, Text
<1>5. Spelled(t, pre, Root, s, m)
  BY <1>1, <1>4, MismatchSpells
<1>6. pre[Root] \o s = s
  BY <1>4 DEF Labelled
<1>7. Sought(t, pre, s, m, p)
  BY <1>1, <1>3, <1>4, <1>5, <1>6, Zenon DEF Sought, Spelled, Labelled
<1> QED
  BY <1>1, <1>7

\* The entry that the search ends on spells the key when it was followed to its end.
LEMMA FollowedSpells ==
  ASSUME NEW t, Tree(t), NEW pre, Labelled(t, pre), NEW s, NEW m, NEW p, Sought(t, pre, s, m, p),
         OnSlot(t, p), Len(p.text) - 1 = Len(Here(t, p).stem)
  PROVE  Spell(t, pre, p.addr, p.text[1]) \o m.rest = s
<1>1. PICK a, c, e : a = p.addr /\ c = p.text[1] /\ e = Here(t, p)
  OBVIOUS
<1>2. e = t[a].entry[c] /\ e.stem \in Seq(Atom) /\ Slot(t, a, c)
  <2>1. e \in EntryT /\ e = t[a].entry[c] /\ Slot(t, a, c)
    BY <1>1 DEF Sought, Ends
  <2> QED
    BY <2>1, EntryTypes, ZenonT(90)
<1>3. SubSeq(e.stem, 1, Len(e.stem)) = e.stem
  BY <1>2, SMTT(60)
<1>4. p.text = <<c>> \o e.stem
  BY <1>1, <1>3 DEF Sought
<1>5. p.text = Adds(t, a, c)
  BY <1>2, <1>4 DEF Adds
<1>6. (pre[a] \o p.text) \o m.rest = pre[a] \o (p.text \o m.rest)
  <2>1. PICK x, y, z : x = pre[a] /\ y = p.text /\ z = m.rest
    BY SMTT(60)
  <2>2. x \in Seq(Atom) /\ y \in Seq(Atom) /\ z \in Seq(Atom)
    BY <1>1, <2>1 DEF Sought
  <2>3. (x \o y) \o z = x \o (y \o z)
    BY <2>2, TextJoins
  <2> QED
    BY <2>1, <2>3
<1> QED
  BY <1>1, <1>5, <1>6, Zenon DEF Sought, Spell

\* An entry that spells the key is the one that the search ends on.
LEMMA FoundThere ==
  ASSUME NEW t, Tree(t), NEW pre, Labelled(t, pre), NEW s, NEW m, NEW p, Sought(t, pre, s, m, p),
         NEW a, NEW c, Slot(t, a, c), Spell(t, pre, a, c) = s
  PROVE  /\ OnSlot(t, p) /\ Len(p.text) - 1 = Len(Here(t, p).stem) /\ m.rest = <<>>
         /\ a = p.addr /\ c = p.text[1]
<1>0. Nodes(t)
  BY DEF Tree
<1>1. PICK b, d, x, r : b = p.addr /\ d = p.text[1] /\ x = p.text /\ r = m.rest
  BY ZenonT(90)
<1>2. /\ b \in DOMAIN t /\ Attached(t, b) /\ x \in Seq(Atom) /\ x # <<>> /\ x[1] = d /\ d \in Atom
      /\ r \in Seq(Atom) /\ s = pre[b] \o (x \o r) /\ pre[b] \in Seq(Atom)
  BY <1>1 DEF Sought, Ends
<1>3. x \o r \in Seq(Atom) /\ x \o r # <<>>
  <2>1. PICK l : l = Len(x)
    OBVIOUS
  <2>2. Len(x \o r) = Len(x) + Len(r) /\ Len(x) \in Nat /\ Len(r) \in Nat /\ Len(x) # 0 /\ x \o r \in Seq(Atom)
    BY <1>2, JoinIs
  <2>3. Len(x \o r) # 0
    BY <2>2
  <2> QED
    BY <2>2, <2>3
<1>4. a \in Subtree(t, b)
  BY <1>2, <1>3, UnderKey
<1>5. PICK e, k : Enters(t, pre, b, a, c, e, k)
  BY <1>2, <1>4, EntersBy
<1>6. PICK n : n = Adds(t, b, e)
  OBVIOUS
<1>7. n \in Seq(Atom) /\ n # <<>> /\ n[1] = e /\ k \in Seq(Atom) /\ Slot(t, b, e) /\ n = <<e>> \o t[b].entry[e].stem
      /\ t[b].entry[e].stem \in Seq(Atom)
  <2>1. k \in Seq(Atom) /\ Slot(t, b, e)
    BY <1>5 DEF Enters
  <2>2. n \in Seq(Atom) /\ n # <<>> /\ n[1] = e /\ t[b].entry[e].stem \in Seq(Atom)
    BY <1>0, <1>6, <2>1, AddsIs
  <2> QED
    BY <1>6, <2>1, <2>2 DEF Adds
<1>8. n \o k = x \o r
  <2>1. pre[b] \o (n \o k) = pre[b] \o (x \o r)
    BY <1>2, <1>5, <1>6 DEF Enters
  <2>2. n \o k \in Seq(Atom)
    BY <1>7, Joined
  <2> QED
    BY <1>2, <1>3, <2>1, <2>2, Cancel
<1>9. e = d
  <2>1. (x \o r) \o <<>> = n \o k /\ <<>> \in Seq(Atom)
    BY <1>3, <1>8
  <2> QED
    BY <1>2, <1>7, <2>1, HeadsMeet, SMTT(60)
<1>10. OnSlot(t, p)
  BY <1>1, <1>7, <1>9, Zenon DEF OnSlot
<1>11. PICK stem, at : stem = Here(t, p).stem /\ at = Len(x) - 1
  BY Zenon
<1>12. stem \in Seq(Atom) /\ n = <<d>> \o stem /\ at \in 0 .. Len(stem) /\ x = <<d>> \o SubSeq(stem, 1, at)
  <2>1. Here(t, p) = t[b].entry[d]
    BY <1>1 DEF Here
  <2>2. at \in 0 .. Len(stem)
    <3>1. m.result # "no_entry"
      BY <1>10 DEF Sought, Outcome
    <3> QED
      BY <1>1, <1>11, <3>1, ZenonT(90) DEF Sought, Outcome
  <2> QED
    BY <1>1, <1>7, <1>9, <1>10, <1>11, <2>1, <2>2, Zenon DEF Sought
<1>13. PICK h : h = SubSeq(stem, 1, at)
  OBVIOUS
<1>14. h \in Seq(Atom) /\ <<d>> \in Seq(Atom)
  <2>1. Len(stem) \in Nat
    BY <1>12, Members
  <2> QED
    BY <1>2, <1>12, <1>13, <2>1
<1>15. stem \o k = h \o r
  <2>1. (<<d>> \o stem) \o k = <<d>> \o (stem \o k) /\ stem \o k \in Seq(Atom)
    <3>1. stem \in Seq(Atom) /\ k \in Seq(Atom) /\ <<d>> \in Seq(Atom)
      BY <1>7, <1>12, <1>14, Zenon
    <3>2. stem \o k \in Seq(Atom)
      BY <3>1, Joined
    <3>3. (<<d>> \o stem) \o k = <<d>> \o (stem \o k)
      BY <3>1, TextJoins, ZenonT(90)
    <3> QED
      BY <3>2, <3>3
  <2>2. (<<d>> \o h) \o r = <<d>> \o (h \o r) /\ h \o r \in Seq(Atom)
    BY <1>2, <1>14, TextJoins, Joined, SMTT(60)
  <2>3. <<d>> \o (stem \o k) = <<d>> \o (h \o r)
    BY <1>8, <1>12, <1>13, <2>1, <2>2
  <2> QED
    BY <1>14, <2>1, <2>2, <2>3, Cancel
<1>16. /\ at = Len(stem) => k = r
       /\ at < Len(stem) => r # <<>> /\ r[1] = stem[at + 1]
  <2>2. stem \in Seq(Atom) /\ k \in Seq(Atom) /\ r \in Seq(Atom) /\ at \in 0 .. Len(stem)
    BY <1>2, <1>7, <1>12
  <2>3. GoesBehind(stem, k, r, at)
    BY <1>13, <1>15, <2>2, StemParts
  <2> QED
    BY <2>3 DEF GoesBehind
<1>17. PICK y : y = m.result
  OBVIOUS
<1>18. /\ y \in ResultT /\ y # "no_entry"
       /\ y = "string_end" => r = <<>> /\ (at < Len(stem) \/ at = Len(stem))
       /\ y = "unequals" => r # <<>> /\ at < Len(stem) /\ r[1] # stem[at + 1]
       /\ y = "stem_end" => r # <<>> /\ at = Len(stem) /\ Child(t, b, d) = Nil
       /\ y = "equals" => r = <<>> /\ at = Len(stem)
  <2>1. y \in ResultT
    <3>1. m \in MismatchT
      BY ZenonT(90) DEF Sought
    <3> QED
      BY <1>17, <3>1 DEF MismatchT
  <2>2. Here(t, p).child = Child(t, b, d)
    BY <1>1, <1>10 DEF Sought, Ends
  <2> QED
    BY <1>1, <1>10, <1>11, <1>17, <2>1, <2>2 DEF Sought, Outcome
<1>19. y # "unequals"
  BY <1>16, <1>18
<1>20. y # "stem_end"
  <2>1. ASSUME y = "stem_end" PROVE FALSE
    <3>1. k # <<>> /\ Child(t, b, d) = Nil
      BY <1>16, <1>18, <2>1
    <3>2. Beneath(t, b, d, a)
      BY <1>5, <1>9, <3>1 DEF Enters
    <3> QED
      BY <3>1, <3>2 DEF Beneath
  <2> QED
    BY <2>1
<1>21. r = <<>> /\ at = Len(stem)
  <2>1. y \in {"string_end", "equals"}
    BY <1>18, <1>19, <1>20 DEF ResultT
  <2> QED
    BY <1>16, <1>18, <2>1
<1>22. a = b /\ c = d
  <2>1. k = <<>>
    BY <1>16, <1>21
  <2> QED
    BY <1>5, <1>9, <2>1 DEF Enters
<1> QED
  BY <1>1, <1>10, <1>11, <1>21, <1>22

\* The pair of a value, and the pairs of all values but that of entry c of node a.
Pair(t, pre, b, d) == <<Spell(t, pre, b, d), t[b].entry[d].value>>
Others(t, pre, a, c, x) ==
  \E b \in Addr, d \in Atom : Valuable(t, b, d) /\ ~(b = a /\ d = c) /\ x = Pair(t, pre, b, d)

\* The pairs are those of one entry and of the others.
LEMMA KeyedOthers ==
  ASSUME NEW t, Nodes(t), NEW pre, NEW a, NEW c, NEW x
  PROVE  x \in Keyed(t, pre) <=> Others(t, pre, a, c, x) \/ (Valuable(t, a, c) /\ x = Pair(t, pre, a, c))
<1>1. x \in Keyed(t, pre) <=> \E b \in Addr, d \in Atom : Valuable(t, b, d) /\ x = Pair(t, pre, b, d)
  BY KeyedIs DEF Pair
<1>2. Valuable(t, a, c) => a \in Addr /\ c \in Atom
  BY NodeTypes DEF Valuable, Slot
<1> QED
  BY <1>1, <1>2 DEF Others

\* Two trees whose nodes have the same labels, and the same entries but for entry c of node a.
Alike(t, pre, u, q, a, c) ==
  /\ Elsewhere(t, u, a, c) /\ a \in DOMAIN t /\ a \in DOMAIN u
  /\ \A b \in DOMAIN t \cap DOMAIN u : q[b] = pre[b]

\* Elsewhere nothing has changed.
LEMMA AlikeEntries ==
  ASSUME NEW t, NEW pre, NEW u, NEW q, NEW a, NEW c, Alike(t, pre, u, q, a, c),
         NEW b \in DOMAIN t \cap DOMAIN u, NEW d \in Atom, ~(b = a /\ d = c)
  PROVE  /\ Slot(u, b, d) <=> Slot(t, b, d)
         /\ Slot(t, b, d) => /\ u[b].entry[d] = t[b].entry[d] /\ Child(u, b, d) = Child(t, b, d)
                             /\ Adds(u, b, d) = Adds(t, b, d) /\ q[b] = pre[b]
         /\ Valuable(u, b, d) <=> Valuable(t, b, d)
         /\ Valuable(t, b, d) => Pair(u, q, b, d) = Pair(t, pre, b, d)
<1>1. Slot(u, b, d) <=> Slot(t, b, d)
  BY DEF Alike, Elsewhere, Slot
<1>2. Slot(t, b, d) => u[b].entry[d] = t[b].entry[d]
  BY DEF Alike, Elsewhere, Slot
<1>3. q[b] = pre[b]
  BY DEF Alike
<1>4. Slot(t, b, d) => Child(u, b, d) = Child(t, b, d) /\ Adds(u, b, d) = Adds(t, b, d)
  BY <1>2 DEF Child, Adds
<1>5. Valuable(u, b, d) <=> Valuable(t, b, d)
  BY <1>1, <1>2 DEF Valuable
<1>6. Valuable(t, b, d) => Pair(u, q, b, d) = Pair(t, pre, b, d)
  BY <1>2, <1>3, <1>4 DEF Valuable, Pair, Spell
<1> QED
  BY <1>1, <1>2, <1>3, <1>4, <1>5, <1>6

Rewritten(t, pre, u, a, c, e, k) ==
  /\ Labelled(u, pre)
  /\ \A x : x \in Keyed(u, pre) <=> Others(t, pre, a, c, x) \/ (e.value # None /\ x = <<k, e.value>>)

\* An entry written anew that leads where it led, by the same text.
LEMMA UpdatedKeyed ==
  ASSUME NEW t, Nodes(t), Linked(t), NEW pre, Labelled(t, pre), NEW a \in DOMAIN t, NEW c \in Atom, NEW e \in EntryT,
         NEW u, Updated(t, u, a, c, e),
         Slot(t, a, c) => e.child = Child(t, a, c) /\ e.stem = t[a].entry[c].stem, ~Slot(t, a, c) => e.child = Nil,
         NEW k, k = pre[a] \o (<<c>> \o e.stem)
  PROVE  Rewritten(t, pre, u, a, c, e, k)
<1>0. /\ Nodes(u) /\ DOMAIN u = DOMAIN t /\ Slot(u, a, c) /\ u[a].entry[c] = e /\ Elsewhere(t, u, a, c)
      /\ a \in Addr
  BY UpdatedElsewhere, NodeTypes, ZenonT(90) DEF Updated
<1>1. Alike(t, pre, u, pre, a, c)
  BY <1>0 DEF Alike
<1>2. Child(u, a, c) = e.child /\ Adds(u, a, c) = <<c>> \o e.stem
  BY <1>0 DEF Child, Adds
<1>3. ASSUME NEW b \in Addr, NEW d \in Atom, Slot(u, b, d), Child(u, b, d) # Nil
      PROVE  pre[Child(u, b, d)] = pre[b] \o Adds(u, b, d)
  <2>1. CASE b = a /\ d = c
    <3>1. Slot(t, a, c) /\ Child(t, a, c) = e.child /\ e.child # Nil /\ Adds(t, a, c) = <<c>> \o e.stem
      BY <1>2, <1>3, <2>1 DEF Adds
    <3>2. pre[Child(t, a, c)] = pre[a] \o Adds(t, a, c)
      BY <1>0, <3>1 DEF Labelled
    <3> QED
      BY <1>2, <2>1, <3>1, <3>2
  <2>2. CASE ~(b = a /\ d = c)
    <3>1. b \in DOMAIN t \cap DOMAIN u
      BY <1>0, <1>3 DEF Slot
    <3>2. Slot(t, b, d) /\ Child(u, b, d) = Child(t, b, d) /\ Adds(u, b, d) = Adds(t, b, d)
      BY <1>1, <1>3, <2>2, <3>1, AlikeEntries
    <3> QED
      BY <1>3, <3>2 DEF Labelled
  <2> QED
    BY <2>1, <2>2
<1>4. Labelled(u, pre)
  BY <1>0, <1>3 DEF Labelled
<1>5. Pair(u, pre, a, c) = <<k, e.value>> /\ (Valuable(u, a, c) <=> e.value # None)
  BY <1>0, <1>2 DEF Pair, Spell, Valuable
<1>6. \A x : Others(u, pre, a, c, x) <=> Others(t, pre, a, c, x)
  <2>1. ASSUME NEW b \in Addr, NEW d \in Atom, ~(b = a /\ d = c)
        PROVE  /\ Valuable(u, b, d) <=> Valuable(t, b, d)
               /\ Valuable(t, b, d) => Pair(u, pre, b, d) = Pair(t, pre, b, d)
    <3>1. CASE b \in DOMAIN t
      <4>1. b \in DOMAIN t \cap DOMAIN u
        BY <1>0, <3>1
      <4> QED
        BY <1>1, <2>1, <4>1, AlikeEntries
    <3>2. CASE b \notin DOMAIN t
      BY <1>0, <3>2 DEF Valuable, Slot
    <3> QED
      BY <3>1, <3>2
  <2> QED
    BY <2>1 DEF Others
<1>7. \A x : x \in Keyed(u, pre) <=> Others(t, pre, a, c, x) \/ (e.value # None /\ x = <<k, e.value>>)
  <2>1. \A x : x \in Keyed(u, pre) <=> Others(u, pre, a, c, x) \/ (Valuable(u, a, c) /\ x = Pair(u, pre, a, c))
    BY <1>0, KeyedOthers
  <2> QED
    BY <1>5, <1>6, <2>1
<1> QED
  BY <1>4, <1>7 DEF Rewritten

\* What a new node below the entry takes over goes on where the entry was cut.
Continues(t, a, c, e, f) ==
  \A d \in DOMAIN f : f[d].child # Nil => f[d].child = Child(t, a, c)
                                          /\ Adds(t, a, c) = (<<c>> \o e.stem) \o (<<d>> \o f[d].stem)
Added(k, f, x) == \E d \in DOMAIN f : f[d].value # None /\ x = <<k \o (<<d>> \o f[d].stem), f[d].value>>
GraftsKeys(t, pre, u, a, c, e, k, f) ==
  \E q : /\ Labelled(u, q)
         /\ \A x : x \in Keyed(u, q) <=> \/ Others(t, pre, a, c, x) \/ (e.value # None /\ x = <<k, e.value>>)
                                         \/ Added(k, f, x)

\* The pairs once a new node hangs below an entry.
LEMMA GraftedKeyed ==
  ASSUME NEW t, Nodes(t), Linked(t), NEW pre, Labelled(t, pre), NEW a, NEW c, Slot(t, a, c), NEW e \in EntryT,
         NEW n \in Addr \ DOMAIN t, e.child = n, NEW bump \in Nat, NEW y \in NodeT,
         NEW u, u = Put(SetEntry(t, a, c, e, bump), n, y),
         NEW f, f = y.entry, Continues(t, a, c, e, f), NEW k, k = pre[a] \o (<<c>> \o e.stem)
  PROVE  GraftsKeys(t, pre, u, a, c, e, k, f)
<1>0. a \in DOMAIN t /\ a \in Addr /\ c \in Atom /\ a # n /\ Root \in DOMAIN t
  BY NodeTypes DEF Slot
<1>1. PICK w : w = SetEntry(t, a, c, e, bump)
  OBVIOUS
<1>2. Updated(t, w, a, c, e) /\ Nodes(w) /\ DOMAIN w = DOMAIN t
  BY <1>0, <1>1, SetEntryIs DEF Updated
<1>3. Nodes(u) /\ DOMAIN u = DOMAIN t \cup {n} /\ u[n] = y /\ \A b \in DOMAIN t : u[b] = w[b]
  <2>1. n \in Addr \ DOMAIN w /\ u = Put(w, n, y)
    BY <1>1, <1>2
  <2>2. Grown(w, u, n, y)
    BY <1>2, <2>1, GrownIs
  <2> QED
    BY <1>2, <2>2 DEF Grown
<1>4. Elsewhere(t, w, a, c) /\ Slot(w, a, c) /\ w[a].entry[c] = e
  BY <1>0, <1>2, UpdatedElsewhere
<1>5. Elsewhere(t, u, a, c) /\ Slot(u, a, c) /\ u[a].entry[c] = e
  BY <1>0, <1>2, <1>3, <1>4 DEF Elsewhere, Slot
<1>6. k \in Seq(Atom)
  <2>1. pre[a] \in Seq(Atom) /\ e.stem \in Seq(Atom)
    BY <1>0, EntryTypes DEF Labelled
  <2>2. <<c>> \o e.stem \in Seq(Atom)
    BY <1>0, <2>1, TextIs
  <2> QED
    BY <2>1, <2>2, Joined
<1> DEFINE q == [b \in DOMAIN u |-> IF b = n THEN k ELSE pre[b]]
<1>7. q[n] = k /\ \A b \in DOMAIN t : q[b] = pre[b]
  BY <1>3
<1>8. q \in [DOMAIN u -> Seq(Atom)] /\ q[Root] = <<>>
  <2>1. \A b \in DOMAIN t : pre[b] \in Seq(Atom)
    BY DEF Labelled
  <2>2. q \in [DOMAIN u -> Seq(Atom)]
    BY <1>3, <1>6, <2>1, SMTT(60)
  <2>3. q[Root] = pre[Root] /\ pre[Root] = <<>>
    BY <1>0, <1>7 DEF Labelled
  <2> QED
    BY <2>2, <2>3
<1> HIDE DEF q
<1>9. Alike(t, pre, u, q, a, c)
  BY <1>0, <1>3, <1>5, <1>7 DEF Alike
<1>10. Child(u, a, c) = n /\ Adds(u, a, c) = <<c>> \o e.stem
  BY <1>5 DEF Child, Adds
<1>11. u[n].entry = f /\ (\A d : Slot(u, n, d) <=> d \in DOMAIN f) /\ \A d : Child(u, n, d) = f[d].child
  BY <1>3 DEF Slot, Child
<1>12. ASSUME NEW b \in Addr, NEW d \in Atom, Slot(u, b, d), Child(u, b, d) # Nil
       PROVE  q[Child(u, b, d)] = q[b] \o Adds(u, b, d)
  <2>1. CASE b = a /\ d = c
    BY <1>0, <1>7, <1>10, <2>1
  <2>2. CASE b # n /\ ~(b = a /\ d = c)
    <3>1. b \in DOMAIN t \cap DOMAIN u
      BY <1>3, <1>12, <2>2 DEF Slot
    <3>2. Slot(t, b, d) /\ Child(u, b, d) = Child(t, b, d) /\ Adds(u, b, d) = Adds(t, b, d) /\ q[b] = pre[b]
      BY <1>9, <1>12, <2>2, <3>1, AlikeEntries
    <3>3. Child(t, b, d) \in DOMAIN t
      BY <1>12, <3>2 DEF Linked
    <3>4. pre[Child(t, b, d)] = pre[b] \o Adds(t, b, d)
      BY <1>12, <3>2, ZenonT(90) DEF Labelled
    <3> QED
      BY <1>7, <3>2, <3>3, <3>4
  <2>3. CASE b = n
    <3>1. PICK z, s, r : z = Child(t, a, c) /\ s = <<c>> \o e.stem /\ r = <<d>> \o f[d].stem
      OBVIOUS
    <3>2. d \in DOMAIN f /\ f[d].child = z /\ z # Nil /\ Adds(t, a, c) = s \o r /\ Child(u, b, d) = z
      BY <1>11, <1>12, <2>3, <3>1 DEF Continues
    <3>3. Adds(u, b, d) = r
      BY <1>11, <2>3, <3>1 DEF Adds
    <3>4. z \in DOMAIN t /\ pre[z] = pre[a] \o (s \o r)
      BY <1>0, <3>1, <3>2, ZenonT(90) DEF Linked, Labelled
    <3>5. pre[a] \in Seq(Atom) /\ s \in Seq(Atom) /\ r \in Seq(Atom)
      <4>1. Adds(u, b, d) \in Seq(Atom)
        BY <1>3, <1>12, AddsIs
      <4>2. e.stem \in Seq(Atom) /\ pre[a] \in Seq(Atom)
        BY <1>0, EntryTypes DEF Labelled
      <4> QED
        BY <1>0, <3>1, <3>3, <4>1, <4>2, TextIs
    <3>6. (pre[a] \o s) \o r = pre[a] \o (s \o r)
      BY <3>5, TextJoins, ZenonT(90)
    <3> QED
      BY <1>7, <2>3, <3>1, <3>2, <3>3, <3>4, <3>6
  <2> QED
    BY <2>1, <2>2, <2>3
<1>13. Labelled(u, q)
  BY <1>8, <1>12 DEF Labelled
<1>14. Pair(u, q, a, c) = <<k, e.value>> /\ (Valuable(u, a, c) <=> e.value # None)
  BY <1>0, <1>5, <1>7, <1>10 DEF Pair, Spell, Valuable
<1>15. \A d : Valuable(u, n, d) => d \in DOMAIN f /\ f[d].value # None /\ Pair(u, q, n, d) = <<k \o (<<d>> \o f[d].stem), f[d].value>>
  BY <1>7, <1>11 DEF Valuable, Pair, Spell, Adds
<1>16. \A d \in DOMAIN f : /\ d \in Atom
                           /\ f[d].value # None => Valuable(u, n, d)
                           /\ Pair(u, q, n, d) = <<k \o (<<d>> \o f[d].stem), f[d].value>>
  <2>1. DOMAIN f \in SUBSET Atom
    BY <1>3, <1>11, NodeTypes
  <2> QED
    BY <1>7, <1>11, <2>1 DEF Valuable, Pair, Spell, Adds
<1>17. ASSUME NEW x PROVE Others(u, q, a, c, x) <=> Others(t, pre, a, c, x) \/ Added(k, f, x)
  <2>1. ASSUME NEW b \in Addr, NEW d \in Atom, b # n, ~(b = a /\ d = c)
        PROVE  /\ Valuable(u, b, d) <=> Valuable(t, b, d)
               /\ Valuable(t, b, d) => Pair(u, q, b, d) = Pair(t, pre, b, d)
    <3>1. CASE b \in DOMAIN t
      <4>1. b \in DOMAIN t \cap DOMAIN u
        BY <1>3, <3>1
      <4> QED
        BY <1>9, <2>1, <4>1, AlikeEntries
    <3>2. CASE b \notin DOMAIN t
      BY <1>3, <2>1, <3>2 DEF Valuable, Slot
    <3> QED
      BY <3>1, <3>2
  <2>2. \A b, d : Valuable(t, b, d) => b # n
    BY DEF Valuable, Slot
  <2>3. ASSUME NEW b \in Addr, NEW d \in Atom, Valuable(u, b, d), ~(b = a /\ d = c), x = Pair(u, q, b, d)
        PROVE  Others(t, pre, a, c, x) \/ Added(k, f, x)
    <3>1. CASE b = n
      BY <1>15, <2>3, <3>1 DEF Added
    <3>2. CASE b # n
      BY <2>1, <2>3, <3>2 DEF Others
    <3> QED
      BY <3>1, <3>2, SMTT(60)
  <2>4. ASSUME NEW b \in Addr, NEW d \in Atom, Valuable(t, b, d), ~(b = a /\ d = c), x = Pair(t, pre, b, d)
        PROVE  Others(u, q, a, c, x)
    BY <2>1, <2>2, <2>4 DEF Others
  <2>5. ASSUME Added(k, f, x) PROVE Others(u, q, a, c, x)
    <3>1. PICK d \in DOMAIN f : f[d].value # None /\ x = <<k \o (<<d>> \o f[d].stem), f[d].value>>
      BY <2>5 DEF Added
    <3>2. Valuable(u, n, d) /\ x = Pair(u, q, n, d) /\ d \in Atom /\ n \in Addr /\ n # a
      BY <1>0, <1>16, <3>1
    <3> QED
      BY <3>2, SMTT(60) DEF Others
  <2> QED
    BY <2>3, <2>4, <2>5 DEF Others
<1>18. \A x : x \in Keyed(u, q) <=> \/ Others(t, pre, a, c, x) \/ (e.value # None /\ x = <<k, e.value>>)
                                    \/ Added(k, f, x)
  <2>1. \A x : x \in Keyed(u, q) <=> Others(u, q, a, c, x) \/ (Valuable(u, a, c) /\ x = Pair(u, q, a, c))
    BY <1>3, KeyedOthers
  <2> QED
    BY <1>14, <1>17, <2>1
<1> QED
  BY <1>13, <1>18 DEF GraftsKeys

-----------------------------------------------------------------------------
(* What the calls do to the pairs.                                         *)

\* A pair more; a pair with another value; the pairs with keys in a set left.
Gains(t, u, k, v) ==
  Pairs(u, Root) = Pairs(t, Root) \cup {<<k, v>>} /\ \A x \in Pairs(t, Root) : x[1] # k
Changes(t, u, k, v) ==
  /\ Pairs(u, Root) = {x \in Pairs(t, Root) : x[1] # k} \cup {<<k, v>>}
  /\ \E x \in Pairs(t, Root) : x[1] = k

\* The others have other keys.
LEMMA OthersDiffer ==
  ASSUME NEW t, Tree(t), NEW pre, Labelled(t, pre), NEW a, NEW c, Slot(t, a, c), NEW x
  PROVE  Others(t, pre, a, c, x) <=> x \in Keyed(t, pre) /\ x[1] # Spell(t, pre, a, c)
<1>0. Nodes(t)
  BY DEF Tree
<1>1. x \in Keyed(t, pre) <=> Others(t, pre, a, c, x) \/ (Valuable(t, a, c) /\ x = Pair(t, pre, a, c))
  BY <1>0, KeyedOthers
<1>2. ASSUME Others(t, pre, a, c, x) PROVE x[1] # Spell(t, pre, a, c)
  <2>1. PICK b \in Addr, d \in Atom : Valuable(t, b, d) /\ ~(b = a /\ d = c) /\ x = Pair(t, pre, b, d)
    BY <1>2 DEF Others
  <2>2. x[1] = Spell(t, pre, b, d) /\ Slot(t, b, d)
    BY <2>1 DEF Pair, Valuable
  <2>3. Spell(t, pre, a, c) = Spell(t, pre, b, d) => a = b /\ c = d
    BY <2>2, SpellOnce
  <2> QED
    BY <2>1, <2>2, <2>3
<1>3. Pair(t, pre, a, c)[1] = Spell(t, pre, a, c)
  BY DEF Pair
<1> QED
  BY <1>1, <1>2, <1>3

\* A search that fails looked for a key no pair has; one that succeeds ends on its value.
LEMMA AbsentKey ==
  ASSUME NEW t, Tree(t), NEW pre, Labelled(t, pre), NEW s, NEW m, NEW p, Sought(t, pre, s, m, p),
         m.result # "equals"
  PROVE  \A x \in Keyed(t, pre) : x[1] # s
<1>1. SUFFICES ASSUME NEW x \in Keyed(t, pre), x[1] = s PROVE FALSE
  OBVIOUS
<1>2. PICK a \in Addr, c \in Atom : Valuable(t, a, c) /\ x = Pair(t, pre, a, c)
  BY KeyedIs DEF Tree, Pair
<1>3. Slot(t, a, c) /\ Spell(t, pre, a, c) = s /\ t[a].entry[c].value # None
  BY <1>1, <1>2 DEF Pair, Valuable
<1>4. /\ OnSlot(t, p) /\ Len(p.text) - 1 = Len(Here(t, p).stem) /\ m.rest = <<>>
      /\ a = p.addr /\ c = p.text[1]
  BY <1>3, FoundThere
<1>5. PICK at, l, y, h, r : at = Len(p.text) - 1 /\ l = Len(Here(t, p).stem) /\ y = m.result /\ h = Here(t, p) /\ r = m.rest
  OBVIOUS
<1>6. /\ y \in ResultT /\ y # "no_entry"
      /\ y = "string_end" => at < l \/ (at = l /\ h.value = None)
      /\ y = "unequals" => r # <<>>
      /\ y = "stem_end" => r # <<>>
  BY <1>4, <1>5 DEF Sought, Outcome, MismatchT
<1>7. h.value # None
  BY <1>3, <1>4, <1>5 DEF Here
<1>8. at = l /\ r = <<>> /\ y # "equals" /\ l \in Nat
  <2>1. h \in EntryT
    BY <1>4, <1>5 DEF Sought, Ends
  <2>2. h.stem \in Seq(Atom)
    BY <2>1, EntryTypes
  <2>3. l \in Nat
    BY <1>5, <2>2, Members
  <2> QED
    BY <1>4, <1>5, <2>3, ZenonT(90)
<1> QED
  BY <1>6, <1>7, <1>8 DEF ResultT

LEMMA PresentKey ==
  ASSUME NEW t, Tree(t), NEW pre, Labelled(t, pre), NEW s, NEW m, NEW p, Sought(t, pre, s, m, p),
         m.result = "equals"
  PROVE  Valuable(t, p.addr, p.text[1]) /\ Spell(t, pre, p.addr, p.text[1]) = s
<1>1. OnSlot(t, p) /\ Len(p.text) - 1 = Len(Here(t, p).stem) /\ m.rest = <<>> /\ Here(t, p).value # None
  BY DEF Sought, Outcome
<1>2. Spell(t, pre, p.addr, p.text[1]) \o m.rest = s
  BY <1>1, FollowedSpells
<1>3. Slot(t, p.addr, p.text[1])
  BY <1>1 DEF OnSlot
<1>4. Spell(t, pre, p.addr, p.text[1]) \in Seq(Atom)
  BY <1>3, SpellIs DEF Tree
<1>5. Spell(t, pre, p.addr, p.text[1]) \o <<>> = Spell(t, pre, p.addr, p.text[1])
  BY <1>4
<1> QED
  BY <1>1, <1>2, <1>3, <1>5, SMTT(60) DEF Valuable, Here

\* From the pairs told one by one to the sets.
LEMMA GainsBy ==
  ASSUME NEW t, Tree(t), NEW pre, Labelled(t, pre), NEW u, Tree(u), NEW q, Labelled(u, q), NEW k, NEW v,
         \A x \in Keyed(t, pre) : x[1] # k,
         \A x : x \in Keyed(u, q) <=> x \in Keyed(t, pre) \/ x = <<k, v>>
  PROVE  Gains(t, u, k, v)
<1>1. PICK S, T : S = Keyed(t, pre) /\ T = Keyed(u, q)
  OBVIOUS
<1>2. Pairs(t, Root) = S /\ Pairs(u, Root) = T
  BY <1>1, PairsAre
<1>3. T = S \cup {<<k, v>>}
  BY <1>1
<1> QED
  BY <1>1, <1>2, <1>3 DEF Gains

\* A new value for a key that is there.
LEMMA ReassignChanges ==
  ASSUME NEW t, Tree(t), NEW s \in Text, NEW m, m = Mismatch(t, Root, s), NEW p, p = Last(m.path),
         m.result = "equals", NEW v \in Value,
         NEW u, Tree(u), u = SetEntry(t, p.addr, p.text[1], [Here(t, p) EXCEPT !.value = v], 1)
  PROVE  Changes(t, u, s, v)
<1>0. Nodes(t) /\ Linked(t)
  BY DEF Tree
<1>1. PICK pre : Labelled(t, pre)
  BY LabelsExist
<1>2. Sought(t, pre, s, m, p)
  BY <1>1, SearchFinds
<1>3. PICK a, c, d, e : a = p.addr /\ c = p.text[1] /\ d = Here(t, p) /\ e = [d EXCEPT !.value = v]
  OBVIOUS
<1>4. Valuable(t, a, c) /\ Spell(t, pre, a, c) = s
  BY <1>1, <1>2, <1>3, PresentKey
<1>5. Slot(t, a, c) /\ a \in DOMAIN t /\ c \in Atom /\ d = t[a].entry[c] /\ d \in EntryT
  <2>1. OnSlot(t, p)
    BY <1>3, <1>4, Zenon DEF Valuable, OnSlot
  <2> QED
    BY <1>2, <1>3, <2>1, Zenon DEF Sought, Ends
<1>6. e \in EntryT /\ e.child = d.child /\ e.stem = d.stem /\ e.value = v /\ v # None
  BY <1>3, <1>5, TrieAssumption, ZenonT(40) DEF EntryT
<1>7. Updated(t, u, a, c, e)
  BY <1>0, <1>3, <1>5, <1>6, SetEntryIs, Zenon
<1>8. PICK k : k = pre[a] \o (<<c>> \o e.stem)
  OBVIOUS
<1>9. k = s
  BY <1>4, <1>5, <1>6, <1>8 DEF Spell, Adds
<1>10. /\ Labelled(u, pre)
       /\ \A x : x \in Keyed(u, pre) <=> Others(t, pre, a, c, x) \/ (e.value # None /\ x = <<k, e.value>>)
  <2>1. e.child = Child(t, a, c) /\ e.stem = t[a].entry[c].stem
    BY <1>5, <1>6, SMTT(60) DEF Child
  <2>2. Rewritten(t, pre, u, a, c, e, k)
    BY <1>0, <1>1, <1>5, <1>6, <1>7, <1>8, <2>1, UpdatedKeyed
  <2> QED
    BY <2>2 DEF Rewritten
<1>11. PICK S, T : S = Keyed(t, pre) /\ T = Keyed(u, pre)
  OBVIOUS
<1>12. Pairs(t, Root) = S /\ Pairs(u, Root) = T
  BY <1>1, <1>10, <1>11, PairsAre
<1>13. \A x : Others(t, pre, a, c, x) <=> x \in S /\ x[1] # s
  BY <1>1, <1>4, <1>5, <1>11, OthersDiffer
<1>14. \A x : x \in T <=> (x \in S /\ x[1] # s) \/ x = <<s, v>>
  BY <1>6, <1>9, <1>10, <1>11, <1>13
<1>15. T = {x \in S : x[1] # s} \cup {<<s, v>>}
  BY <1>14
<1>16. \E x \in S : x[1] = s
  <2>1. Pair(t, pre, a, c) \in S
    BY <1>0, <1>4, <1>11, KeyedOthers
  <2>2. Pair(t, pre, a, c)[1] = s
    BY <1>4 DEF Pair
  <2> QED
    BY <2>1, <2>2
<1> QED
  BY <1>12, <1>15, <1>16 DEF Changes

\* An entry written with the value gains it when there was none.
LEMMA EntryGains ==
  ASSUME NEW t, Tree(t), NEW pre, Labelled(t, pre), NEW s, NEW a \in DOMAIN t, NEW c \in Atom, NEW e \in EntryT,
         NEW u, Tree(u), u = SetEntry(t, a, c, e, 1), NEW v, e.value = v, v # None,
         Slot(t, a, c) => /\ e.child = Child(t, a, c) /\ e.stem = t[a].entry[c].stem
                          /\ t[a].entry[c].value = None,
         ~Slot(t, a, c) => e.child = Nil,
         s = pre[a] \o (<<c>> \o e.stem), \A x \in Keyed(t, pre) : x[1] # s
  PROVE  Gains(t, u, s, v)
<1>0. Nodes(t) /\ Linked(t)
  BY DEF Tree
<1>1. Updated(t, u, a, c, e)
  BY <1>0, SetEntryIs
<1>2. /\ Labelled(u, pre)
      /\ \A x : x \in Keyed(u, pre) <=> Others(t, pre, a, c, x) \/ (e.value # None /\ x = <<s, e.value>>)
  <2>1. Rewritten(t, pre, u, a, c, e, s)
    BY <1>0, <1>1, UpdatedKeyed
  <2> QED
    BY <2>1 DEF Rewritten
<1>3. ~Valuable(t, a, c)
  BY DEF Valuable
<1>4. \A x : x \in Keyed(t, pre) <=> Others(t, pre, a, c, x) \/ (Valuable(t, a, c) /\ x = Pair(t, pre, a, c))
  BY <1>0, KeyedOthers
<1>5. \A x : x \in Keyed(u, pre) <=> x \in Keyed(t, pre) \/ x = <<s, v>>
  BY <1>2, <1>3, <1>4
<1> QED
  BY <1>2, <1>5, GainsBy

\* The five ways an absent key is placed, one after the other: a new entry,
LEMMA NoEntryGains ==
  ASSUME NEW t, Tree(t), NEW s \in Text, NEW m, m = Mismatch(t, Root, s), NEW p, p = Last(m.path),
         m.result = "no_entry", NEW v \in Value,
         NEW u, Tree(u), u = SetEntry(t, p.addr, p.text[1], [stem |-> m.rest, child |-> Nil, value |-> v], 1)
  PROVE  Gains(t, u, s, v)
<1>1. PICK pre : Labelled(t, pre)
  BY LabelsExist
<1>2. Sought(t, pre, s, m, p)
  BY <1>1, SearchFinds
<1>3. PICK a, c, x, r, e : a = p.addr /\ c = p.text[1] /\ x = p.text /\ r = m.rest
                           /\ e = [stem |-> r, child |-> Nil, value |-> v]
  BY Zenon
<1>4. /\ a \in DOMAIN t /\ c \in Atom /\ x \in Seq(Atom) /\ x # <<>> /\ x[1] = c /\ r \in Seq(Atom)
      /\ s = pre[a] \o (x \o r)
  BY <1>2, <1>3, ZenonT(40) DEF Sought, Ends
<1>5. ~OnSlot(t, p) /\ Len(x) - 1 = 0
  BY <1>2, <1>3, ZenonT(40) DEF Sought, Outcome
<1>6. x = <<c>> /\ ~Slot(t, a, c)
  <2>1. Len(x) = 1
    <3>1. Len(x) \in Nat
      BY <1>4, Members
    <3> QED
      BY <1>5, <3>1
  <2>2. x = <<c>>
    BY <1>4, <2>1
  <2> QED
    BY <1>3, <1>4, <1>5, <2>2, Zenon DEF OnSlot
<1>7. e \in EntryT /\ e.child = Nil /\ e.value = v /\ v # None /\ e.stem = r
  BY <1>3, <1>4, TrieAssumption, Zenon DEF EntryT
<1>8. \A y \in Keyed(t, pre) : y[1] # s
  BY <1>1, <1>2, AbsentKey
<1>9. s = pre[a] \o (<<c>> \o e.stem)
  BY <1>4, <1>6, <1>7
<1>10. u = SetEntry(t, a, c, e, 1)
  BY <1>3, ZenonT(90)
<1> QED
  BY <1>1, <1>4, <1>6, <1>7, <1>8, <1>9, <1>10, EntryGains

\* a value for an entry that had none,
LEMMA ValueGains ==
  ASSUME NEW t, Tree(t), NEW s \in Text, NEW m, m = Mismatch(t, Root, s), NEW p, p = Last(m.path),
         m.result = "string_end", Here(t, p).stem = <<>>, NEW v \in Value,
         NEW u, Tree(u), u = SetEntry(t, p.addr, p.text[1], [Here(t, p) EXCEPT !.value = v], 1)
  PROVE  Gains(t, u, s, v)
<1>1. PICK pre : Labelled(t, pre)
  BY LabelsExist
<1>2. Sought(t, pre, s, m, p)
  BY <1>1, SearchFinds
<1>3. PICK a, c, x, r, d, e : a = p.addr /\ c = p.text[1] /\ x = p.text /\ r = m.rest
                           /\ d = Here(t, p) /\ e = [d EXCEPT !.value = v]
  OBVIOUS
<1>4. PICK at : at = Len(x) - 1
  BY Zenon
<1>5. OnSlot(t, p) /\ at \in 0 .. Len(d.stem) /\ r = <<>> /\ (at < Len(d.stem) \/ (at = Len(d.stem) /\ d.value = None))
  BY <1>2, <1>3, <1>4, Zenon DEF Sought, Outcome
<1>6. Len(d.stem) = 0
  BY <1>3
<1>7. at = Len(d.stem) /\ d.value = None
  BY <1>5, <1>6
<1>8. /\ a \in DOMAIN t /\ c \in Atom /\ Slot(t, a, c) /\ d = t[a].entry[c] /\ d \in EntryT
  BY <1>2, <1>3, <1>5, Zenon DEF Sought, Ends
<1>9. Spell(t, pre, a, c) = s
  <2>1. Spell(t, pre, a, c) \o r = s
    BY <1>1, <1>2, <1>3, <1>4, <1>5, <1>7, FollowedSpells
  <2>2. Spell(t, pre, a, c) \in Seq(Atom)
    BY <1>1, <1>8, SpellIs DEF Tree
  <2>3. Spell(t, pre, a, c) \o <<>> = Spell(t, pre, a, c)
    BY <2>2
  <2> QED
    BY <1>5, <2>1, <2>3
<1>10. e \in EntryT /\ e.child = d.child /\ e.stem = d.stem /\ e.value = v /\ v # None
  BY <1>3, <1>8, TrieAssumption, ZenonT(90) DEF EntryT
<1>11. s = pre[a] \o (<<c>> \o e.stem)
  BY <1>8, <1>9, <1>10 DEF Spell, Adds
<1>12. \A y \in Keyed(t, pre) : y[1] # s
  BY <1>1, <1>2, AbsentKey
<1>13. e.child = Child(t, a, c) /\ e.stem = t[a].entry[c].stem /\ t[a].entry[c].value = None
  BY <1>7, <1>8, <1>10 DEF Child
<1>14. u = SetEntry(t, a, c, e, 1)
  BY <1>3
<1> QED
  BY <1>1, <1>8, <1>10, <1>11, <1>12, <1>13, <1>14, EntryGains

\* The nodes that an insertion makes.
LeafNode(f, s, v) ==
  /\ f \in [{s[1]} -> EntryT] /\ s[1] \in Atom
  /\ f[s[1]].child = Nil /\ f[s[1]].value = v /\ <<s[1]>> \o f[s[1]].stem = s

\* What the entries of a new node are.
LEMMA LeafNodeIs ==
  ASSUME NEW s \in Seq(Atom), s # <<>>, NEW v \in Value, NEW f, f = Leaf(<<>>, s, v)
  PROVE  LeafNode(f, s, v)
<1>1. PICK r, l : r = Head(s) /\ l = LeafEntry(s, v)
  OBVIOUS
<1>2. r \in Atom /\ l \in EntryT /\ r = s[1]
  BY <1>1, LeafIs
<1>3. f = Put(<<>>, r, l)
  BY <1>1 DEF Leaf, LeafEntry
<1>4. f \in [{r} -> EntryT] /\ f[r] = l
  <2>1. PutAlone(EntryT, f, r, l)
    BY <1>2, <1>3, EmptyPut
  <2> QED
    BY <2>1 DEF PutAlone
<1>5. l.child = Nil /\ l.value = v /\ l.stem = Tail(s)
  BY <1>1 DEF LeafEntry
<1>6. <<s[1]>> \o Tail(s) = s
  BY SMTT(60)
<1> QED
  BY <1>2, <1>4, <1>5, <1>6, Zenon DEF LeafNode

MovedNode(g, d, at) ==
  LET q == d.stem[at + 1]
  IN  /\ g \in [{q} -> EntryT] /\ q \in Atom
      /\ g[q].child = d.child /\ g[q].value = d.value
      /\ SubSeq(d.stem, 1, at) \o (<<q>> \o g[q].stem) = d.stem

LEMMA MovedNodeIs ==
  ASSUME NEW d \in EntryT, NEW at \in Nat, at < Len(d.stem), NEW g, g = Moved(d, at)
  PROVE  MovedNode(g, d, at)
<1>1. PICK q, z, x : q = d.stem[at + 1] /\ z = RestEntry(d, at) /\ x = d.stem
  OBVIOUS
<1>2. q \in Atom /\ z \in EntryT /\ z.child = d.child /\ z.value = d.value
  BY <1>1, RestIs
<1>3. g = Put(<<>>, q, z)
  BY <1>1 DEF Moved, RestEntry
<1>4. g \in [{q} -> EntryT] /\ g[q] = z
  <2>1. PutAlone(EntryT, g, q, z)
    BY <1>2, <1>3, EmptyPut
  <2> QED
    BY <2>1 DEF PutAlone
<1>5. z.stem = SubSeq(x, at + 2, Len(x))
  BY <1>1 DEF RestEntry, EntryT
<1>6. x \in Seq(Atom) /\ Len(x) \in Nat
  BY <1>1, EntryTypes, Members
<1>7. SubSeq(x, 1, at) \o (<<q>> \o SubSeq(x, at + 2, Len(x))) = x
  <2>1. PICK n : n = at + 1
    OBVIOUS
  <2>2. n \in 1 .. Len(x) /\ n + 1 = at + 2 /\ at <= Len(x)
    BY <1>1, <1>6, <2>1
  <2>3. <<x[n]>> \o SubSeq(x, n + 1, Len(x)) = SubSeq(x, n, Len(x))
    BY <1>6, <2>2, HeadAndRest
  <2>4. SubSeq(x, 1, at) \o SubSeq(x, at + 1, Len(x)) = x
    BY <1>6, <2>2, Split
  <2> QED
    BY <1>1, <2>1, <2>2, <2>3, <2>4
<1> QED
  BY <1>1, <1>2, <1>4, <1>5, <1>7 DEF MovedNode

\* Both in one node.
ForkNode(f, g, d, at, s, v) ==
  LET q == d.stem[at + 1]
  IN  f \in [{q, s[1]} -> EntryT] /\ f[q] = g[q] /\ q # s[1] /\ f[s[1]] = Leaf(<<>>, s, v)[s[1]]

LEMMA ForkNodeIs ==
  ASSUME NEW d \in EntryT, NEW at \in Nat, at < Len(d.stem), NEW g, g = Moved(d, at),
         NEW s \in Seq(Atom), s # <<>>, NEW v \in Value, s[1] # d.stem[at + 1], NEW f, f = Leaf(g, s, v)
  PROVE  ForkNode(f, g, d, at, s, v)
<1>1. PICK r, l, q : r = Head(s) /\ l = LeafEntry(s, v) /\ q = d.stem[at + 1]
  OBVIOUS
<1>2. r \in Atom /\ l \in EntryT /\ r = s[1] /\ q # r
  BY <1>1, LeafIs, SMTT(60)
<1>3. g \in [{q} -> EntryT]
  <2>1. MovedNode(g, d, at)
    BY MovedNodeIs
  <2> QED
    BY <1>1, <2>1 DEF MovedNode
<1>4. f = Put(g, r, l) /\ Leaf(<<>>, s, v) = Put(<<>>, r, l)
  BY <1>1 DEF Leaf, LeafEntry
<1>5. f \in [{q} \cup {r} -> EntryT] /\ f[r] = l /\ f[q] = g[q]
  <2>1. Puts({q}, EntryT, g, r, l)
    BY <1>2, <1>3, PutIs
  <2> QED
    BY <1>2, <1>4, <2>1 DEF Puts
<1>6. Leaf(<<>>, s, v)[r] = l
  <2>1. PutAlone(EntryT, Put(<<>>, r, l), r, l)
    BY <1>2, EmptyPut
  <2> QED
    BY <1>4, <2>1 DEF PutAlone
<1>7. {q} \cup {r} = {q, r}
  OBVIOUS
<1> QED
  BY <1>1, <1>2, <1>5, <1>6, <1>7 DEF ForkNode

\* From what a graft keeps to the pair it adds.
LEMMA GraftGains ==
  ASSUME NEW t, Tree(t), NEW pre, Labelled(t, pre), NEW a, NEW c, Slot(t, a, c), NEW e, NEW k, NEW f,
         NEW u, Tree(u), GraftsKeys(t, pre, u, a, c, e, k, f), NEW s, NEW v,
         \A x \in Keyed(t, pre) : x[1] # s,
         \A x : (e.value # None /\ x = <<k, e.value>>) \/ Added(k, f, x) <=>
                (Valuable(t, a, c) /\ x = Pair(t, pre, a, c)) \/ x = <<s, v>>
  PROVE  Gains(t, u, s, v)
<1>1. PICK q : /\ Labelled(u, q)
               /\ \A x : x \in Keyed(u, q) <=> \/ Others(t, pre, a, c, x) \/ (e.value # None /\ x = <<k, e.value>>)
                                               \/ Added(k, f, x)
  BY DEF GraftsKeys
<1>2. \A x : x \in Keyed(t, pre) <=> Others(t, pre, a, c, x) \/ (Valuable(t, a, c) /\ x = Pair(t, pre, a, c))
  BY KeyedOthers DEF Tree
<1>3. \A x : x \in Keyed(u, q) <=> x \in Keyed(t, pre) \/ x = <<s, v>>
  BY <1>1, <1>2
<1> QED
  BY <1>1, <1>3, GainsBy

\* a new node below a stem,
LEMMA StemEndGains ==
  ASSUME NEW t, Tree(t), NEW s \in Text, NEW m, m = Mismatch(t, Root, s), NEW p, p = Last(m.path),
         m.result = "stem_end", HasRoom(t), NEW n, n = NewNode(t), NEW v \in Value, NEW u, Tree(u),
         u = Put(SetEntry(t, p.addr, p.text[1], [Here(t, p) EXCEPT !.child = n], 1), n,
                 [version |-> 1 % VersionMod, entry |-> Leaf(<<>>, m.rest, v)])
  PROVE  Gains(t, u, s, v)
<1>0. Nodes(t) /\ Linked(t)
  BY DEF Tree
<1>1. PICK pre : Labelled(t, pre)
  BY LabelsExist
<1>2. Sought(t, pre, s, m, p)
  BY <1>1, SearchFinds
<1>3. PICK a, c, r, d, e, f, y : /\ a = p.addr /\ c = p.text[1] /\ r = m.rest /\ d = Here(t, p)
                                 /\ e = [d EXCEPT !.child = n] /\ f = Leaf(<<>>, r, v)
                                 /\ y = [version |-> 1 % VersionMod, entry |-> f]
  BY Zenon
<1>4. OnSlot(t, p) /\ Len(p.text) - 1 = Len(d.stem) /\ r # <<>> /\ r \in Seq(Atom)
  BY <1>2, <1>3, ZenonT(40) DEF Sought, Outcome
<1>5. Slot(t, a, c) /\ d = t[a].entry[c] /\ d \in EntryT
  BY <1>2, <1>3, <1>4, Zenon DEF Sought, Ends
<1>6. n \in Addr \ DOMAIN t
  BY <1>0, NewNodeIs, Zenon
<1>7. e \in EntryT /\ e.child = n /\ e.stem = d.stem /\ e.value = d.value
  BY <1>3, <1>5, <1>6, Zenon DEF EntryT
<1>8. LeafNode(f, r, v)
  BY <1>3, <1>4, LeafNodeIs
<1>9. PICK h, l : h = r[1] /\ l = f[h]
  OBVIOUS
<1>10. f \in [{h} -> EntryT] /\ h \in Atom /\ f[h] = l /\ l.child = Nil /\ l.value = v /\ <<h>> \o l.stem = r /\ v # None
  BY <1>8, <1>9, TrieAssumption DEF LeafNode
<1>11. y \in NodeT /\ y.entry = f
  <2>1. 1 % VersionMod \in 0 .. VersionMod - 1
    BY ModIs
  <2>2. {h} \in SUBSET Atom
    BY <1>10
  <2> QED
    BY <1>3, <1>10, <2>1, <2>2, MakeNode
<1>12. Continues(t, a, c, e, f)
  BY <1>10 DEF Continues
<1>13. PICK k : k = pre[a] \o (<<c>> \o e.stem)
  OBVIOUS
<1>14. u = Put(SetEntry(t, a, c, e, 1), n, y)
  BY <1>3
<1>15. GraftsKeys(t, pre, u, a, c, e, k, f)
  BY <1>0, <1>1, <1>5, <1>6, <1>7, <1>11, <1>12, <1>13, <1>14, GraftedKeyed
<1>16. k = Spell(t, pre, a, c) /\ k \o r = s
  <2>1. k = Spell(t, pre, a, c)
    BY <1>5, <1>7, <1>13, SMTT(60) DEF Spell, Adds
  <2>2. Spell(t, pre, a, c) \o r = s
    BY <1>1, <1>2, <1>3, <1>4, FollowedSpells
  <2> QED
    BY <2>1, <2>2, SMTT(60)
<1>17. ASSUME NEW x
       PROVE  (e.value # None /\ x = <<k, e.value>>) \/ Added(k, f, x) <=>
                (Valuable(t, a, c) /\ x = Pair(t, pre, a, c)) \/ x = <<s, v>>
  <2>1. Added(k, f, x) <=> x = <<s, v>>
    BY <1>10, <1>16 DEF Added
  <2>2. (e.value # None /\ x = <<k, e.value>>) <=> (Valuable(t, a, c) /\ x = Pair(t, pre, a, c))
    BY <1>5, <1>7, <1>16 DEF Valuable, Pair
  <2> QED
    BY <2>1, <2>2
<1>18. \A x \in Keyed(t, pre) : x[1] # s
  BY <1>1, <1>2, AbsentKey
<1> QED
  BY <1>1, <1>5, <1>15, <1>17, <1>18, GraftGains

CutInTwo(t, pre, a, c, h, y) ==
  Adds(t, a, c) = h \o y /\ Spell(t, pre, a, c) = (pre[a] \o h) \o y

\* A stem cut after at atoms, and what the entry spells with the part behind the cut.
LEMMA CutSpells ==
  ASSUME NEW t, Nodes(t), NEW pre, Labelled(t, pre), NEW a, NEW c, Slot(t, a, c), NEW d, d = t[a].entry[c],
         NEW at \in Nat, at < Len(d.stem), NEW g, MovedNode(g, d, at), NEW q, q = d.stem[at + 1],
         NEW h, h = <<c>> \o SubSeq(d.stem, 1, at)
  PROVE  CutInTwo(t, pre, a, c, h, <<q>> \o g[q].stem)
<1>1. PICK x, w, y : x = SubSeq(d.stem, 1, at) /\ w = g[q].stem /\ y = <<q>> \o w
  OBVIOUS
<1>2. d \in EntryT /\ c \in Atom /\ d.stem \in Seq(Atom)
  <2>1. d \in EntryT /\ c \in Atom
    BY NodeTypes DEF Slot
  <2> QED
    BY <2>1, EntryTypes
<1>3. x \in Seq(Atom) /\ <<c>> \in Seq(Atom)
  <2>1. PICK z : z = d.stem
    OBVIOUS
  <2>2. z \in Seq(Atom) /\ Len(z) \in Nat /\ at < Len(z)
    BY <1>2, <2>1, Members
  <2>3. SubSeq(z, 1, at) \in Seq(Atom)
    BY <2>2
  <2>4. <<c>> \in Seq(Atom)
    BY <1>2
  <2> QED
    BY <1>1, <2>1, <2>3, <2>4, Zenon
<1>4. y \in Seq(Atom) /\ x \o y = d.stem
  <2>1. g[q] \in EntryT /\ q \in Atom
    BY ZenonT(40) DEF MovedNode
  <2>2. w \in Seq(Atom)
    BY <1>1, <2>1, EntryTypes, ZenonT(40)
  <2>3. y \in Seq(Atom)
    BY <1>1, <2>1, <2>2, TextIs, ZenonT(40)
  <2>4. x \o y = d.stem
    BY <1>1, Zenon DEF MovedNode
  <2> QED
    BY <2>3, <2>4, Zenon
<1>5. (<<c>> \o x) \o y = <<c>> \o (x \o y) /\ <<c>> \o x \in Seq(Atom)
  BY <1>3, <1>4, TextJoins, Joined, Zenon
<1>6. Adds(t, a, c) = h \o y
  BY <1>1, <1>4, <1>5, Zenon DEF Adds
<1>7. (pre[a] \o h) \o y = pre[a] \o (h \o y)
  <2>1. pre[a] \in Seq(Atom) /\ h \in Seq(Atom)
    BY <1>1, <1>5, Zenon DEF Labelled, Slot
  <2> QED
    BY <1>4, <2>1, TextJoins, ZenonT(90)
<1>8. CutInTwo(t, pre, a, c, h, y)
  BY <1>6, <1>7 DEF Spell, CutInTwo
<1> QED
  BY <1>1, <1>8, ZenonT(90)

\* a stem cut where the key parts from it,
LEMMA UnequalsGains ==
  ASSUME NEW t, Tree(t), NEW s \in Text, NEW m, m = Mismatch(t, Root, s), NEW p, p = Last(m.path),
         m.result = "unequals", HasRoom(t), NEW n, n = NewNode(t), NEW at, at = Len(p.text) - 1,
         NEW v \in Value, NEW u, Tree(u),
         u = Put(SetEntry(t, p.addr, p.text[1], Cut(Here(t, p), at, n), 1), n,
                 [version |-> 2 % VersionMod, entry |-> Leaf(Moved(Here(t, p), at), m.rest, v)])
  PROVE  Gains(t, u, s, v)
<1>0. Nodes(t) /\ Linked(t)
  BY DEF Tree
<1>1. PICK pre : Labelled(t, pre)
  BY LabelsExist
<1>2. Sought(t, pre, s, m, p)
  BY <1>1, SearchFinds
<1>3. PICK a, c, r, d, e, g, f, y : /\ a = p.addr /\ c = p.text[1] /\ r = m.rest /\ d = Here(t, p)
                                 /\ e = Cut(d, at, n) /\ g = Moved(d, at) /\ f = Leaf(g, r, v)
                                 /\ y = [version |-> 2 % VersionMod, entry |-> f]
  OBVIOUS
<1>4. OnSlot(t, p) /\ at \in Nat /\ at < Len(d.stem) /\ r # <<>> /\ r \in Seq(Atom) /\ r[1] # d.stem[at + 1]
  <2>1. Outcome(t, m) /\ r \in Seq(Atom)
    BY <1>2, <1>3, Zenon DEF Sought
  <2>2. OnSlot(t, p) /\ at \in 0 .. Len(d.stem) /\ at < Len(d.stem) /\ r # <<>> /\ r[1] # d.stem[at + 1]
    BY <1>3, <2>1, Zenon DEF Outcome
  <2> QED
    BY <2>1, <2>2
<1>5. Slot(t, a, c) /\ d = t[a].entry[c] /\ d \in EntryT /\ d.child = Child(t, a, c) /\ pre[a] \in Seq(Atom)
  BY <1>2, <1>3, <1>4, Zenon DEF Sought, Ends
<1>6. n \in Addr \ DOMAIN t
  BY <1>0, NewNodeIs, SMTT(60)
<1>7. e \in EntryT /\ e.child = n /\ e.stem = SubSeq(d.stem, 1, at) /\ e.value = None
  <2>1. SubSeq(d.stem, 1, at) \in Seq(Atom)
    BY <1>4, <1>5, RestIs
  <2> QED
    BY <1>3, <1>6, <2>1, SMTT(60) DEF EntryT, Cut
<1>8. MovedNode(g, d, at) /\ LeafNode(Leaf(<<>>, r, v), r, v) /\ ForkNode(f, g, d, at, r, v)
  <2>1. MovedNode(g, d, at)
    BY <1>3, <1>4, <1>5, MovedNodeIs, Zenon
  <2>2. LeafNode(Leaf(<<>>, r, v), r, v)
    BY <1>4, LeafNodeIs, Zenon
  <2>3. ForkNode(f, g, d, at, r, v)
    BY <1>3, <1>4, <1>5, ForkNodeIs, Zenon
  <2> QED
    BY <2>1, <2>2, <2>3
<1>9. PICK h, l, q, z : h = r[1] /\ l = f[h] /\ q = d.stem[at + 1] /\ z = g[q]
  BY Zenon
<1>10. /\ f \in [{q, h} -> EntryT] /\ h \in Atom /\ f[h] = l /\ l.child = Nil /\ l.value = v /\ <<h>> \o l.stem = r
       /\ q # h /\ q \in Atom /\ f[q] = z /\ z.child = d.child /\ z.value = d.value /\ v # None /\ l \in EntryT
  BY <1>8, <1>9, TrieAssumption, Zenon DEF LeafNode, MovedNode, ForkNode
<1>11. y \in NodeT /\ y.entry = f
  <2>1. 2 % VersionMod \in 0 .. VersionMod - 1
    BY ModIs
  <2>2. {q, h} \in SUBSET Atom
    BY <1>10
  <2> QED
    BY <1>3, <1>10, <2>1, <2>2, MakeNode
<1>12. PICK b : b = <<c>> \o e.stem
  BY Zenon
<1>13. Adds(t, a, c) = b \o (<<q>> \o z.stem) /\ Spell(t, pre, a, c) = (pre[a] \o b) \o (<<q>> \o z.stem)
  <2>1. b = <<c>> \o SubSeq(d.stem, 1, at)
    BY <1>7, <1>12, Zenon
  <2>2. CutInTwo(t, pre, a, c, b, <<q>> \o g[q].stem)
    BY <1>0, <1>1, <1>4, <1>5, <1>8, <1>9, <2>1, CutSpells, ZenonT(90)
  <2> QED
    BY <1>9, <2>2, Zenon DEF CutInTwo
<1>14. Continues(t, a, c, e, f)
  BY <1>5, <1>10, <1>12, <1>13 DEF Continues
<1>15. PICK k : k = pre[a] \o b
  OBVIOUS
<1>16. u = Put(SetEntry(t, a, c, e, 1), n, y)
  BY <1>3
<1>17. GraftsKeys(t, pre, u, a, c, e, k, f)
  BY <1>0, <1>1, <1>5, <1>6, <1>7, <1>11, <1>12, <1>14, <1>15, <1>16, GraftedKeyed, ZenonT(90)
<1>18. k \o r = s
  <2>1. p.text = b /\ b \in Seq(Atom) /\ s = pre[a] \o (b \o r)
    BY <1>2, <1>3, <1>4, <1>7, <1>12, Zenon DEF Sought
  <2>2. (pre[a] \o b) \o r = pre[a] \o (b \o r)
    BY <1>4, <1>5, <2>1, TextJoins, ZenonT(90)
  <2> QED
    BY <1>15, <2>1, <2>2, Zenon
<1>19. ASSUME NEW x
       PROVE  (e.value # None /\ x = <<k, e.value>>) \/ Added(k, f, x) <=>
                (Valuable(t, a, c) /\ x = Pair(t, pre, a, c)) \/ x = <<s, v>>
  <2>1. k \o (<<h>> \o l.stem) = s
    BY <1>10, <1>18
  <2>2. k \o (<<q>> \o z.stem) = Spell(t, pre, a, c)
    BY <1>13, <1>15
  <2>3. Added(k, f, x) <=> x = <<s, v>> \/ (d.value # None /\ x = <<Spell(t, pre, a, c), d.value>>)
    <3>1. \A w \in DOMAIN f : w = h \/ w = q
      BY <1>10
    <3>2. h \in DOMAIN f /\ q \in DOMAIN f /\ f[h] = l /\ f[q] = z /\ l.value = v /\ z.value = d.value /\ v # None
      BY <1>10
    <3> QED
      BY <2>1, <2>2, <3>1, <3>2 DEF Added
  <2>4. (d.value # None /\ x = <<Spell(t, pre, a, c), d.value>>) <=> (Valuable(t, a, c) /\ x = Pair(t, pre, a, c))
    BY <1>5 DEF Valuable, Pair
  <2> QED
    BY <1>7, <2>3, <2>4
<1>20. \A x \in Keyed(t, pre) : x[1] # s
  BY <1>1, <1>2, AbsentKey
<1> QED
  BY <1>1, <1>5, <1>17, <1>19, <1>20, GraftGains, SMTT(60)

\* a stem cut where the key ends.
LEMMA StringEndGains ==
  ASSUME NEW t, Tree(t), NEW s \in Text, NEW m, m = Mismatch(t, Root, s), NEW p, p = Last(m.path),
         m.result = "string_end", HasRoom(t), NEW n, n = NewNode(t), NEW at, at = Len(p.text) - 1,
         at < Len(Here(t, p).stem), NEW v \in Value, NEW u, Tree(u),
         u = Put(SetEntry(t, p.addr, p.text[1], [Cut(Here(t, p), at, n) EXCEPT !.value = v], 2), n,
                 [version |-> 1 % VersionMod, entry |-> Moved(Here(t, p), at)])
  PROVE  Gains(t, u, s, v)
<1>0. Nodes(t) /\ Linked(t)
  BY DEF Tree
<1>1. PICK pre : Labelled(t, pre)
  BY LabelsExist
<1>2. Sought(t, pre, s, m, p)
  BY <1>1, SearchFinds
<1>3. PICK a, c, r, d, e, g, y : /\ a = p.addr /\ c = p.text[1] /\ r = m.rest /\ d = Here(t, p)
                                 /\ e = [Cut(d, at, n) EXCEPT !.value = v] /\ g = Moved(d, at)
                                 /\ y = [version |-> 1 % VersionMod, entry |-> g]
  OBVIOUS
<1>4. OnSlot(t, p) /\ at \in Nat /\ at < Len(d.stem) /\ r = <<>>
  <2>1. Outcome(t, m)
    BY <1>2, Zenon DEF Sought
  <2>2. OnSlot(t, p) /\ at \in 0 .. Len(d.stem) /\ r = <<>>
    BY <1>3, <2>1, Zenon DEF Outcome
  <2> QED
    BY <1>3, <2>2
<1>5. Slot(t, a, c) /\ d = t[a].entry[c] /\ d \in EntryT /\ d.child = Child(t, a, c) /\ pre[a] \in Seq(Atom)
  BY <1>2, <1>3, <1>4, Zenon DEF Sought, Ends
<1>6. n \in Addr \ DOMAIN t
  BY <1>0, NewNodeIs
<1>7. e \in EntryT /\ e.child = n /\ e.stem = SubSeq(d.stem, 1, at) /\ e.value = v /\ v # None
  <2>1. SubSeq(d.stem, 1, at) \in Seq(Atom)
    BY <1>4, <1>5, RestIs
  <2>2. e = [stem |-> SubSeq(d.stem, 1, at), child |-> n, value |-> v]
    BY <1>3, Zenon DEF Cut
  <2> QED
    BY <1>6, <2>1, <2>2, TrieAssumption DEF EntryT
<1>8. MovedNode(g, d, at)
  BY <1>3, <1>4, <1>5, MovedNodeIs, Zenon
<1>9. PICK q, z : q = d.stem[at + 1] /\ z = g[q]
  BY Zenon
<1>10. g \in [{q} -> EntryT] /\ q \in Atom /\ g[q] = z /\ z.child = d.child /\ z.value = d.value
  BY <1>8, <1>9, Zenon DEF MovedNode
<1>11. y \in NodeT /\ y.entry = g
  <2>1. 1 % VersionMod \in 0 .. VersionMod - 1
    BY ModIs
  <2>2. {q} \in SUBSET Atom
    BY <1>10
  <2> QED
    BY <1>3, <1>10, <2>1, <2>2, MakeNode
<1>12. PICK b : b = <<c>> \o e.stem
  BY Zenon
<1>13. Adds(t, a, c) = b \o (<<q>> \o z.stem) /\ Spell(t, pre, a, c) = (pre[a] \o b) \o (<<q>> \o z.stem)
  <2>1. b = <<c>> \o SubSeq(d.stem, 1, at)
    BY <1>7, <1>12, Zenon
  <2>2. CutInTwo(t, pre, a, c, b, <<q>> \o g[q].stem)
    BY <1>0, <1>1, <1>4, <1>5, <1>8, <1>9, <2>1, CutSpells, ZenonT(90)
  <2> QED
    BY <1>9, <2>2, Zenon DEF CutInTwo
<1>14. Continues(t, a, c, e, g)
  BY <1>5, <1>10, <1>12, <1>13 DEF Continues
<1>15. PICK k : k = pre[a] \o b
  OBVIOUS
<1>16. u = Put(SetEntry(t, a, c, e, 2), n, y)
  BY <1>3
<1>17. GraftsKeys(t, pre, u, a, c, e, k, g)
  BY <1>0, <1>1, <1>5, <1>6, <1>7, <1>11, <1>12, <1>14, <1>15, <1>16, GraftedKeyed, ZenonT(90)
<1>18. k = s
  <2>1. p.text = b /\ b \in Seq(Atom) /\ s = pre[a] \o (b \o r)
    BY <1>2, <1>3, <1>4, <1>7, <1>12, Zenon DEF Sought
  <2>2. b \o r = b
    BY <1>4, <2>1
  <2> QED
    BY <1>15, <2>1, <2>2, Zenon
<1>19. ASSUME NEW x
       PROVE  (e.value # None /\ x = <<k, e.value>>) \/ Added(k, g, x) <=>
                (Valuable(t, a, c) /\ x = Pair(t, pre, a, c)) \/ x = <<s, v>>
  <2>2. k \o (<<q>> \o z.stem) = Spell(t, pre, a, c)
    BY <1>13, <1>15
  <2>3. Added(k, g, x) <=> d.value # None /\ x = <<Spell(t, pre, a, c), d.value>>
    BY <1>10, <2>2 DEF Added
  <2>4. (d.value # None /\ x = <<Spell(t, pre, a, c), d.value>>) <=> (Valuable(t, a, c) /\ x = Pair(t, pre, a, c))
    BY <1>5 DEF Valuable, Pair
  <2> QED
    BY <1>7, <1>18, <2>3, <2>4
<1>20. \A x \in Keyed(t, pre) : x[1] # s
  BY <1>1, <1>2, AbsentKey
<1> QED
  BY <1>1, <1>5, <1>17, <1>19, <1>20, GraftGains, SMTT(60)

\* A key is placed: the pair is gained.
LEMMA PlaceGains ==
  ASSUME Tree(node), Tree(node'), NEW k \in Text, NEW v \in Value, Place(Mismatch(node, Root, k), v)
  PROVE  Gains(node, node', k, v)
<1> DEFINE m == Mismatch(node, Root, k)
           p == Last(m.path)
<1>4. CASE /\ m.result = "no_entry"
           /\ node' = SetEntry(node, p.addr, p.text[1], [stem |-> m.rest, child |-> Nil, value |-> v], 1)
  BY <1>4, NoEntryGains
<1>5. CASE /\ m.result = "stem_end" /\ HasRoom(node)
           /\ node' = Put(SetEntry(node, p.addr, p.text[1], [Here(node, p) EXCEPT !.child = NewNode(node)], 1),
                          NewNode(node),
                          [version |-> 1 % VersionMod, entry |-> Leaf(<< >>, m.rest, v)])
  <2>1. PICK n, u : /\ n = NewNode(node)
                    /\ u = Put(SetEntry(node, p.addr, p.text[1], [Here(node, p) EXCEPT !.child = n], 1), n,
                               [version |-> 1 % VersionMod, entry |-> Leaf(<< >>, m.rest, v)])
    OBVIOUS
  <2>2. u = node' /\ Tree(u)
    BY <1>5, <2>1
  <2>3. Gains(node, u, k, v)
    BY <1>5, <2>1, <2>2, StemEndGains
  <2> QED
    BY <2>2, <2>3
<1>6. CASE /\ m.result = "unequals" /\ HasRoom(node)
           /\ node' = Put(SetEntry(node, p.addr, p.text[1], Cut(Here(node, p), Len(p.text) - 1, NewNode(node)), 1),
                          NewNode(node),
                          [version |-> 2 % VersionMod,
                           entry   |-> Leaf(Moved(Here(node, p), Len(p.text) - 1), m.rest, v)])
  <2>1. PICK n, at, u : /\ n = NewNode(node) /\ at = Len(p.text) - 1
                    /\ u = Put(SetEntry(node, p.addr, p.text[1], Cut(Here(node, p), at, n), 1), n,
                               [version |-> 2 % VersionMod, entry |-> Leaf(Moved(Here(node, p), at), m.rest, v)])
    BY SMTT(60)
  <2>2. u = node' /\ Tree(u)
    BY <1>6, <2>1
  <2>3. Gains(node, u, k, v)
    BY <1>6, <2>1, <2>2, UnequalsGains
  <2> QED
    BY <2>2, <2>3
<1>7. CASE /\ m.result = "string_end" /\ Len(p.text) - 1 < Len(Here(node, p).stem) /\ HasRoom(node)
           /\ node' = Put(SetEntry(node, p.addr, p.text[1],
                                   [Cut(Here(node, p), Len(p.text) - 1, NewNode(node)) EXCEPT !.value = v], 2),
                          NewNode(node),
                          [version |-> 1 % VersionMod, entry |-> Moved(Here(node, p), Len(p.text) - 1)])
  <2>1. PICK n, at, u : /\ n = NewNode(node) /\ at = Len(p.text) - 1
                    /\ u = Put(SetEntry(node, p.addr, p.text[1], [Cut(Here(node, p), at, n) EXCEPT !.value = v], 2), n,
                               [version |-> 1 % VersionMod, entry |-> Moved(Here(node, p), at)])
    OBVIOUS
  <2>2. u = node' /\ Tree(u)
    BY <1>7, <2>1
  <2>3. Gains(node, u, k, v)
    BY <1>7, <2>1, <2>2, StringEndGains
  <2> QED
    BY <2>2, <2>3
<1>8. CASE /\ m.result = "string_end" /\ Here(node, p).stem = << >>
           /\ node' = SetEntry(node, p.addr, p.text[1], [Here(node, p) EXCEPT !.value = v], 1)
  BY <1>8, ValueGains
<1>9. \/ m.result = "no_entry" \/ m.result = "stem_end" \/ m.result = "unequals" \/ m.result = "string_end"
  BY DEF Place
<1> USE DEF Place
<1>10. CASE m.result = "no_entry"
  BY <1>4, <1>10, ZenonT(20)
<1>11. CASE m.result = "stem_end"
  BY <1>5, <1>11, ZenonT(20)
<1>12. CASE m.result = "unequals"
  BY <1>6, <1>12, ZenonT(20)
<1>13. CASE m.result = "string_end"
  BY <1>7, <1>8, <1>13, ZenonT(20)
<1> QED
  BY <1>9, <1>10, <1>11, <1>12, <1>13

\* A value given anew changes one pair.
LEMMA ReassignGives ==
  ASSUME Tree(node), Tree(node'), NEW k \in Text, NEW v \in Value,
         Mismatch(node, Root, k).result = "equals", Reassign(Mismatch(node, Root, k), v)
  PROVE  Changes(node, node', k, v)
<1>1. PICK m, p : m = Mismatch(node, Root, k) /\ p = Last(m.path)
  OBVIOUS
<1>2. PICK u : u = SetEntry(node, p.addr, p.text[1], [Here(node, p) EXCEPT !.value = v], 1)
  OBVIOUS
<1>3. node' = u
  BY <1>1, <1>2 DEF Reassign
<1>4. Changes(node, u, k, v)
  BY <1>1, <1>2, <1>3, ReassignChanges, SMTT(60)
<1> QED
  BY <1>3, <1>4

-----------------------------------------------------------------------------
(* Calls that take pairs away.                                             *)

\* Every entry of u is one of t, that may have lost its child or its value.
Prunes(t, u) ==
  \A b \in Addr, d \in Atom : Slot(u, b, d) =>
    /\ Slot(t, b, d) /\ u[b].entry[d].stem = t[b].entry[d].stem
    /\ Child(u, b, d) \in {Nil, Child(t, b, d)}
    /\ u[b].entry[d].value \in {None, t[b].entry[d].value}

\* Pruning a pruned tree prunes it.
LEMMA PrunesTwice ==
  ASSUME NEW t, NEW u, NEW w, Prunes(t, u), Prunes(u, w)
  PROVE  Prunes(t, w)
<1>1. SUFFICES ASSUME NEW b \in Addr, NEW d \in Atom, Slot(w, b, d)
               PROVE  /\ Slot(t, b, d) /\ w[b].entry[d].stem = t[b].entry[d].stem
                      /\ Child(w, b, d) \in {Nil, Child(t, b, d)}
                      /\ w[b].entry[d].value \in {None, t[b].entry[d].value}
  BY SMTT(60) DEF Prunes
<1>2. /\ Slot(u, b, d) /\ w[b].entry[d].stem = u[b].entry[d].stem
      /\ Child(w, b, d) \in {Nil, Child(u, b, d)}
      /\ w[b].entry[d].value \in {None, u[b].entry[d].value}
  BY <1>1, SMTT(60) DEF Prunes
<1>3. /\ Slot(t, b, d) /\ u[b].entry[d].stem = t[b].entry[d].stem
      /\ Child(u, b, d) \in {Nil, Child(t, b, d)}
      /\ u[b].entry[d].value \in {None, t[b].entry[d].value}
  BY <1>2 DEF Prunes
<1> QED
  BY <1>2, <1>3, SMTT(60)

\* The pairs of the values S.
PairsOf(t, pre, S) == {Pair(t, pre, w[1], w[2]) : w \in S}

\* The pairs that are left are those of the values left.
LEMMA PrunedPairs ==
  ASSUME NEW t, Tree(t), NEW pre, Labelled(t, pre), NEW u, Tree(u), Prunes(t, u)
  PROVE  Pairs(u, Root) = PairsOf(t, pre, Vals(u)) /\ Vals(u) \in SUBSET Vals(t)
<1>0. Nodes(t) /\ Nodes(u) /\ Linked(u) /\ Linked(t) /\ Root \in DOMAIN t /\ Root \in DOMAIN u /\ None \notin Value
  BY NodeTypes, TrieAssumption DEF Tree
<1> DEFINE q == [b \in DOMAIN u |-> IF b \in DOMAIN t THEN pre[b] ELSE <<>>]
<1>1. q \in [DOMAIN u -> Seq(Atom)] /\ q[Root] = <<>> /\ \A b \in DOMAIN u \cap DOMAIN t : q[b] = pre[b]
  <2>1. \A b \in DOMAIN t : pre[b] \in Seq(Atom)
    BY DEF Labelled
  <2>2. <<>> \in Seq(Atom) /\ pre[Root] = <<>>
    BY SMTT(60) DEF Labelled
  <2> QED
    BY <1>0, <2>1, <2>2
<1> HIDE DEF q
<1>2. ASSUME NEW b \in Addr, NEW d \in Atom, Slot(u, b, d)
      PROVE  /\ Slot(t, b, d) /\ Adds(u, b, d) = Adds(t, b, d) /\ q[b] = pre[b]
             /\ Spell(u, q, b, d) = Spell(t, pre, b, d)
  <2>1. Slot(t, b, d) /\ u[b].entry[d].stem = t[b].entry[d].stem
    BY <1>2 DEF Prunes
  <2>2. b \in DOMAIN u \cap DOMAIN t
    BY <1>2, <2>1 DEF Slot
  <2> QED
    BY <1>1, <2>1, <2>2 DEF Adds, Spell
<1>3. ASSUME NEW b \in Addr, NEW d \in Atom, Slot(u, b, d), Child(u, b, d) # Nil
      PROVE  q[Child(u, b, d)] = q[b] \o Adds(u, b, d)
  <2>1. PICK x : x = Child(u, b, d)
    OBVIOUS
  <2>2. x = Child(t, b, d) /\ Slot(t, b, d)
    BY <1>3, <2>1 DEF Prunes
  <2>3. x \in DOMAIN u /\ x \in DOMAIN t
    BY <1>0, <1>3, <2>1, <2>2 DEF Linked
  <2>4. pre[x] = pre[b] \o Adds(t, b, d)
    BY <1>3, <2>1, <2>2 DEF Labelled
  <2> QED
    BY <1>1, <1>2, <1>3, <2>1, <2>3, <2>4
<1>4. Labelled(u, q)
  BY <1>1, <1>3 DEF Labelled
<1>5. Pairs(u, Root) = Keyed(u, q)
  BY <1>4, PairsAre
<1>6. ASSUME NEW w \in Vals(u)
      PROVE  w \in Vals(t) /\ <<Spell(u, q, w[1], w[2]), u[w[1]].entry[w[2]].value>> = Pair(t, pre, w[1], w[2])
  <2>1. w \in Addr \X Atom /\ w[1] \in Addr /\ w[2] \in Atom /\ Slot(u, w[1], w[2])
        /\ u[w[1]].entry[w[2]].value # None
    BY DEF Vals
  <2>2. Slot(t, w[1], w[2]) /\ u[w[1]].entry[w[2]].value = t[w[1]].entry[w[2]].value
    BY <2>1 DEF Prunes
  <2>3. w \in Vals(t)
    BY <2>1, <2>2 DEF Vals
  <2>4. Spell(u, q, w[1], w[2]) = Spell(t, pre, w[1], w[2])
    BY <1>2, <2>1
  <2> QED
    BY <2>2, <2>3, <2>4 DEF Pair
<1>7. Keyed(u, q) = PairsOf(t, pre, Vals(u))
  BY <1>6 DEF Keyed, PairsOf
<1> QED
  BY <1>5, <1>6, <1>7

\* What is left after the values X are gone, when these are the ones whose keys are of B.
LEMMA PairsLeft ==
  ASSUME NEW t, Tree(t), NEW pre, Labelled(t, pre), NEW u, Tree(u), Prunes(t, u), NEW X, Vals(u) = Vals(t) \ X,
         NEW B, \A w \in Vals(t) : w \in X <=> Spell(t, pre, w[1], w[2]) \in B
  PROVE  Pairs(u, Root) = {x \in Pairs(t, Root) : x[1] \notin B}
<1>1. Pairs(u, Root) = PairsOf(t, pre, Vals(u))
  BY PrunedPairs
<1>2. Pairs(t, Root) = PairsOf(t, pre, Vals(t))
  <2>1. Pairs(t, Root) = Keyed(t, pre)
    BY PairsAre
  <2> QED
    BY <2>1 DEF Keyed, PairsOf, Pair
<1>3. \A w : Pair(t, pre, w[1], w[2])[1] = Spell(t, pre, w[1], w[2])
  BY DEF Pair
<1>4. PairsOf(t, pre, Vals(u)) = {x \in PairsOf(t, pre, Vals(t)) : x[1] \notin B}
  <2>1. ASSUME NEW x \in PairsOf(t, pre, Vals(u)) PROVE x \in PairsOf(t, pre, Vals(t)) /\ x[1] \notin B
    <3>1. PICK w \in Vals(u) : x = Pair(t, pre, w[1], w[2])
      BY DEF PairsOf
    <3>2. w \in Vals(t) /\ w \notin X
      OBVIOUS
    <3> QED
      BY <1>3, <3>1, <3>2 DEF PairsOf
  <2>2. ASSUME NEW x \in PairsOf(t, pre, Vals(t)), x[1] \notin B PROVE x \in PairsOf(t, pre, Vals(u))
    <3>1. PICK w \in Vals(t) : x = Pair(t, pre, w[1], w[2])
      BY DEF PairsOf
    <3>2. w \in Vals(u)
      BY <1>3, <2>2, <3>1, SMTT(60)
    <3> QED
      BY <3>1, <3>2 DEF PairsOf
  <2> QED
    BY <2>1, <2>2
<1> QED
  BY <1>1, <1>2, <1>4

\* Trimming prunes.
LEMMA TrimPrunes ==
  ASSUME NEW t, Tree(t), NEW a, NEW c, NEW e, NEW S, Cuts(t, a, c, e, S), NEW u, Trims(t, u, a, c, e, S),
         e.stem = t[a].entry[c].stem, e.value \in {None, t[a].entry[c].value}
  PROVE  Prunes(t, u)
<1>0. /\ Slot(t, a, c) /\ e.child \in {Nil, Child(t, a, c)}
      /\ DOMAIN u = DOMAIN t \ S /\ Elsewhere(t, u, a, c)
      /\ Slot(u, a, c) => u[a].entry[c] = e
  BY DEF Cuts, Trims
<1>1. SUFFICES ASSUME NEW b \in Addr, NEW d \in Atom, Slot(u, b, d)
               PROVE  /\ Slot(t, b, d) /\ u[b].entry[d].stem = t[b].entry[d].stem
                      /\ Child(u, b, d) \in {Nil, Child(t, b, d)}
                      /\ u[b].entry[d].value \in {None, t[b].entry[d].value}
  BY SMTT(60) DEF Prunes
<1>2. CASE b = a /\ d = c
  BY <1>0, <1>1, <1>2 DEF Child
<1>3. CASE b = a /\ d # c
  <2>1. Slot(t, b, d) /\ u[b].entry[d] = t[b].entry[d]
    BY <1>0, <1>1, <1>3 DEF Elsewhere
  <2> QED
    BY <2>1 DEF Child
<1>4. CASE b # a
  <2>1. b \in DOMAIN t \cap DOMAIN u
    BY <1>0, <1>1 DEF Slot
  <2>2. u[b].entry = t[b].entry
    BY <1>0, <1>4, <2>1 DEF Elsewhere
  <2> QED
    BY <1>1, <2>1, <2>2 DEF Child, Slot
<1> QED
  BY <1>2, <1>3, <1>4

\* A node that is left behind holds no pair.
LEMMA LeakSame ==
  ASSUME Whole(node, count), NEW k, Leak(Mismatch(node, Root, k))
  PROVE  Pairs(node', Root) = Pairs(node, Root)
<1>1. Whole(node', count) /\ Vals(node') = Vals(node) /\ \A b, d : Slot(node', b, d) => b \in DOMAIN node /\ node'[b] = node[b]
  BY LeakKeeps
<1>2. Tree(node) /\ Tree(node')
  BY <1>1 DEF Whole
<1>3. PICK t, u : t = node /\ u = node'
  OBVIOUS
<1>4. Prunes(t, u)
  BY <1>1, <1>3 DEF Prunes, Slot, Child
<1>5. PICK pre : Labelled(t, pre)
  BY <1>2, <1>3, LabelsExist
<1>6. \A w \in Vals(t) : w \in {} <=> Spell(t, pre, w[1], w[2]) \in {}
  OBVIOUS
<1>7. Vals(u) = Vals(t) \ {} /\ Tree(t) /\ Tree(u)
  BY <1>1, <1>2, <1>3
<1>8. Pairs(u, Root) = {x \in Pairs(t, Root) : x[1] \notin {}}
  <2>1. PICK X, B : X = {} /\ B = {}
    OBVIOUS
  <2>2. Vals(u) = Vals(t) \ X /\ \A w \in Vals(t) : w \in X <=> Spell(t, pre, w[1], w[2]) \in B
    BY <1>7, <2>1
  <2>3. Pairs(u, Root) = {x \in Pairs(t, Root) : x[1] \notin B}
    BY <1>4, <1>5, <1>7, <2>2, PairsLeft
  <2> QED
    BY <2>1, <2>3
<1> QED
  BY <1>3, <1>8

\* The value at the iterator is lost, and no other.
Loses(t, u, X) == Prunes(t, u) /\ Vals(u) = Vals(t) \ X

\* erase loses the value at the iterator.
LEMMA EraseLoses ==
  ASSUME NEW s, NEW t, t = s.node, Tree(t), NEW i, Stands(t, i), Here(t, Last(i)).value # None,
         NEW r, r = EraseAt(s, i)
  PROVE  Loses(t, r.node, {LastSlot(i)})
<1>1. Steps(t, i)
  BY StandsSteps
<1>2. Len(i) \in Nat \ {0} /\ i[1].addr = Root
  BY <1>1 DEF Steps
<1>3. \E n : ClimbEnds(t, i, n) /\ r.node = EraseNodes(t, i, n)
  BY <1>2, EraseAtIs
<1>4. PICK n : ClimbEnds(t, i, n) /\ r.node = EraseNodes(t, i, n)
  BY <1>3
<1>5. PICK u, a, c, e, S : u = r.node /\ a = i[n].addr /\ c = i[n].text[1] /\ e = Spared(t, i, n) /\ S = Below(i, n)
  OBVIOUS
<1>6. Trims(t, u, a, c, e, S) /\ Cuts(t, a, c, e, S)
  BY <1>4, <1>5, EraseNodesTrims, EraseCuts
<1>7. n \in 1 .. Len(i)
  BY <1>4 DEF ClimbEnds
<1>8. Here(t, i[n]) \in EntryT /\ Here(t, i[n]) = t[a].entry[c]
  BY <1>1, <1>5, <1>7, ZenonT(90) DEF Steps
<1>9. /\ e.stem = Here(t, i[n]).stem
      /\ n = Len(i) => e.value = None
      /\ n # Len(i) => e.value = Here(t, i[n]).value
  BY <1>5, <1>8, SparedIs
<1>10. Prunes(t, u)
  BY <1>6, <1>8, <1>9, TrimPrunes
<1>11. Vals(u) = Vals(t) \ {LastSlot(i)}
  <2>1. Vals(u) = ValsCut(t, i[n].addr, i[n].text[1], Spared(t, i, n), Below(i, n))
    BY <1>5, <1>6 DEF Trims
  <2> QED
    BY <1>4, <2>1, EraseVals
<1> QED
  BY <1>5, <1>10, <1>11 DEF Loses

\* The values below an entry.
BeneathVals(t, p) == {w \in Vals(t) : Beneath(t, p.addr, p.text[1], w[1])}

\* The cut below an entry loses the values beneath.
LEMMA CutOffLoses ==
  ASSUME NEW s, NEW t, t = s.node, Tree(t), NEW i, Stands(t, i), Here(t, Last(i)).child # Nil,
         Here(t, Last(i)).value # None
  PROVE  Loses(t, CutOff(s, i).node, BeneathVals(t, Last(i)))
<1>0. Nodes(t) /\ Steps(t, i)
  BY StandsSteps DEF Tree
<1>1. PICK a, c, h, k, S, e : /\ a = Last(i).addr /\ c = Last(i).text[1] /\ h = Here(t, Last(i)) /\ k = h.child
                              /\ S = Subtree(t, k) /\ e = [h EXCEPT !.child = Nil]
  OBVIOUS
<1>2. /\ Slot(t, a, c) /\ Attached(t, a) /\ Child(t, a, c) = k /\ h \in EntryT /\ k # Nil /\ h.value # None
      /\ h = t[a].entry[c] /\ a \in Addr /\ c \in Atom /\ a \in DOMAIN t
  <2>1. Len(i) \in 1 .. Len(i) /\ Last(i) = i[Len(i)]
    BY <1>0 DEF Steps
  <2> QED
    BY <1>0, <1>1, <2>1, SMTT(60) DEF Steps
<1>3. e \in EntryT /\ e.child = Nil /\ e.value = h.value /\ e.stem = h.stem
  BY <1>1, <1>2, ZenonT(40) DEF EntryT
<1>4. Cuts(t, a, c, e, S)
  BY <1>0, <1>1, <1>2, <1>3, SubtreeCuts, Zenon
<1>5. PICK u : u = Without(Free(t, S), a, c, e, 1)
  OBVIOUS
<1>6. Trims(t, u, a, c, e, S)
  BY <1>0, <1>4, <1>5, Trimming
<1>7. CutOff(s, i).node = u
  BY <1>1, <1>5 DEF CutOff
<1>8. Prunes(t, u)
  BY <1>2, <1>3, <1>4, <1>6, TrimPrunes
<1>9. Vals(u) = Vals(t) \ BeneathVals(t, Last(i))
  <2>1. Vals(u) = {x \in Vals(t) : x[1] \notin S /\ x # <<a, c>>} \cup {<<a, c>>}
    BY <1>2, <1>3, <1>6 DEF Trims, ValsCut
  <2>2. <<a, c>> \in Vals(t)
    BY <1>2, ValIs
  <2>3. S \in SUBSET DOMAIN t /\ a \notin S
    BY <1>4 DEF Cuts
  <2>4. \A x : x \in Vals(u) <=> x \in Vals(t) /\ x[1] \notin S
    BY <2>1, <2>2, <2>3
  <2>5. \A x : Beneath(t, a, c, x[1]) <=> x[1] \in S
    BY <1>1, <1>2, Zenon DEF Beneath
  <2>6. \A x : x \in BeneathVals(t, Last(i)) <=> x \in Vals(t) /\ x[1] \in S
    BY <1>1, <2>5 DEF BeneathVals
  <2> QED
    BY <2>4, <2>6
<1> QED
  BY <1>7, <1>8, <1>9 DEF Loses

Gone(t, i, ep) == BeneathVals(t, Last(i)) \cup (IF ep THEN {LastSlot(i)} ELSE {})

\* prefixed_erase_all loses the values beneath, and the one at the iterator when told to.
LEMMA PrefixedLoses ==
  ASSUME NEW s, NEW t, t = s.node, Whole(t, s.count), NEW i, Sits(t, i), NEW ep \in BOOLEAN,
         Last(i).has_child <=> Here(t, Last(i)).child # Nil,
         ep \/ Last(i).has_child, NEW r, r = PrefixedEraseAt(s, i, ep)
  PROVE  Loses(t, r.node, Gone(t, i, ep))
<1>0. Tree(t) /\ Stands(t, i) /\ Valued(t, Last(i)) /\ Steps(t, i) /\ Way(t, Root, i)
  BY StandsSteps DEF Whole, Sits, Stands
<1>1. CASE ~Last(i).has_child
  <2>1. r = EraseAt(s, i)
    BY <1>1, PrefixedEraseAtIs
  <2>2. Loses(t, r.node, {LastSlot(i)})
    BY <1>0, <2>1, EraseLoses DEF Valued
  <2>3. Child(t, Last(i).addr, Last(i).text[1]) = Nil
    BY <1>1 DEF Here, Child
  <2>4. BeneathVals(t, Last(i)) = {}
    BY <2>3 DEF BeneathVals, Beneath
  <2>5. Gone(t, i, ep) = {LastSlot(i)}
    BY <1>1, <2>4 DEF Gone
  <2> QED
    BY <2>2, <2>5
<1>2. CASE Last(i).has_child
  <2>1. PICK z : z = CutOff(s, i)
    OBVIOUS
  <2>2. PICK u : u = z.node
    OBVIOUS
  <2>3. Whole(u, z.count) /\ Stands(u, i) /\ Here(u, Last(i)).value # None
    BY <1>0, <1>2, <2>1, <2>2, CutOffKeeps DEF CutKept, Valued
  <2>4. Loses(t, u, BeneathVals(t, Last(i)))
    BY <1>0, <1>2, <2>1, <2>2, CutOffLoses DEF Valued
  <2>5. PICK w : w = u[Last(i).addr].version
    OBVIOUS
  <2>6. CASE ep
    <3>1. PICK p, q, x : p = Last(i) /\ q = [p EXCEPT !.has_child = FALSE] /\ x = Append(Front(i), q)
      OBVIOUS
    <3>2. p \in PosT /\ p.text # <<>> /\ i \in Seq(PosT) /\ i # <<>>
      <4>1. Last(i) = i[Len(i)] /\ Len(i) \in 1 .. Len(i) /\ i \in Seq(PosT) /\ i # <<>>
        BY <1>0 DEF Steps
      <4> QED
        BY <1>0, <3>1, <4>1, SMTT(60) DEF Steps
    <3>3. q \in PosT /\ q.addr = p.addr /\ q.text = p.text
      BY <3>1, <3>2 DEF PosT
    <3>4. Turned(u, i, q, x)
      BY <2>3, <3>1, <3>2, <3>3, Replaced DEF Stands
    <3>5. Stands(u, x) /\ Last(x) = q /\ Here(u, Last(x)).value # None /\ x = Bare(i)
      BY <2>3, <3>1, <3>3, <3>4 DEF Turned, Stands, OnSlot, Here, Bare
    <3>6. PICK v : v = EraseAt(z, x)
      OBVIOUS
    <3>7. r = Rested(v, w)
      <4>1. Last(i).has_data
        BY <1>0 DEF Valued
      <4> QED
        BY <1>2, <2>1, <2>2, <2>5, <2>6, <3>5, <3>6, <4>1, PrefixedEraseAtIs
    <3>8. Loses(u, v.node, {LastSlot(x)})
      BY <2>2, <2>3, <3>5, <3>6, EraseLoses DEF Whole
    <3>9. r.node = v.node
      <4>1. IsState(v)
        BY <3>6, EraseAtState
      <4> QED
        BY <3>7, <4>1, RestedIs
    <3>10. LastSlot(x) = LastSlot(i)
      <4>1. Steps(u, x) /\ Steps(t, i)
        BY <1>0, <2>3, <3>5, StandsSteps, SMTT(60) DEF Whole
      <4>2. Last(x) = x[Len(x)] /\ Last(i) = i[Len(i)]
        BY <4>1 DEF Steps
      <4> QED
        BY <3>1, <3>3, <3>5, <4>2 DEF LastSlot
    <3>11. Prunes(t, v.node)
      BY <2>4, <3>8, PrunesTwice DEF Loses
    <3>12. Vals(v.node) = Vals(t) \ Gone(t, i, ep)
      BY <2>4, <2>6, <3>8, <3>10 DEF Loses, Gone
    <3> QED
      BY <3>9, <3>11, <3>12 DEF Loses
  <2>7. CASE ~ep
    <3>1. PICK v, x : v = [node |-> u, count |-> z.count, it |-> x] /\ x = Bare(i)
      OBVIOUS
    <3>2. r = Rested(v, w)
      BY <1>2, <2>1, <2>2, <2>5, <2>7, <3>1, PrefixedEraseAtIs
    <3>3. IsState(v) /\ v.node = u
      BY <3>1 DEF IsState
    <3>4. r.node = u
      BY <3>2, <3>3, RestedIs
    <3>5. Gone(t, i, ep) = BeneathVals(t, Last(i))
      BY <2>7 DEF Gone
    <3> QED
      BY <2>4, <3>4, <3>5
  <2> QED
    BY <2>6, <2>7
<1> QED
  BY <1>1, <1>2

\* A strict prefix is followed by something.
LEMMA PrefixStarts ==
  ASSUME NEW s \in Seq(Atom), NEW r \in Seq(Atom)
  PROVE  IsStrictPrefix(s, r) <=> Starts(s, r) /\ s # r
<1>0. Len(s) \in Nat /\ Len(r) \in Nat /\ SubSeq(s, 1, Len(s)) = s
  <2>1. Len(s) \in Nat /\ Len(s) <= Len(s) /\ Len(r) \in Nat
    OBVIOUS
  <2>2. SubSeq(s, 1, Len(s)) \in Seq(Atom) /\ Len(SubSeq(s, 1, Len(s))) = Len(s)
        /\ \A n \in 1 .. Len(s) : SubSeq(s, 1, Len(s))[n] = s[n]
    BY <2>1
  <2> QED
    BY <2>1, <2>2
<1>1. ASSUME IsStrictPrefix(s, r) PROVE Starts(s, r) /\ s # r
  <2>1. Len(s) <= Len(r) /\ s = SubSeq(r, 1, Len(s)) /\ s # r
    BY <1>0, <1>1 DEF IsStrictPrefix, IsPrefix
  <2>2. /\ SubSeq(r, Len(s) + 1, Len(r)) \in Seq(Atom)
        /\ SubSeq(r, 1, Len(s)) \o SubSeq(r, Len(s) + 1, Len(r)) = r
    BY <1>0, <2>1, Split
  <2> QED
    BY <2>1, <2>2 DEF Starts
<1>2. ASSUME Starts(s, r), s # r PROVE IsStrictPrefix(s, r)
  <2>1. PICK k \in Seq(Atom) : r = s \o k
    BY <1>2 DEF Starts
  <2>2. /\ Len(r) = Len(s) + Len(k) /\ Len(k) \in Nat
        /\ \A n \in 1 .. Len(s) : r[n] = s[n]
    BY <2>1, JoinIs
  <2>3. Len(s) <= Len(r)
    BY <1>0, <2>2
  <2>4. SubSeq(r, 1, Len(s)) \in Seq(Atom) /\ Len(SubSeq(r, 1, Len(s))) = Len(s)
        /\ \A n \in 1 .. Len(s) : SubSeq(r, 1, Len(s))[n] = r[n]
    BY <1>0, <2>3
  <2>5. PICK h : h = SubSeq(r, 1, Len(s))
    OBVIOUS
  <2>6. h = s
    BY <1>0, <2>2, <2>4, <2>5
  <2> QED
    BY <1>0, <1>2, <2>3, <2>5, <2>6 DEF IsStrictPrefix, IsPrefix
<1> QED
  BY <1>1, <1>2

\* Beneath an entry are the keys that continue its own.
LEMMA BelowKey ==
  ASSUME NEW t, Tree(t), NEW pre, Labelled(t, pre), NEW a, NEW c, Slot(t, a, c), NEW b, NEW d, Slot(t, b, d)
  PROVE  Beneath(t, a, c, b) <=> IsStrictPrefix(Spell(t, pre, a, c), Spell(t, pre, b, d))
<1>0. Nodes(t) /\ Linked(t) /\ a \in Addr /\ c \in Atom /\ b \in Addr /\ d \in Atom
  BY NodeTypes DEF Tree
<1>1. PICK x, y : x = Spell(t, pre, a, c) /\ y = Spell(t, pre, b, d)
  OBVIOUS
<1>2. x \in Seq(Atom) /\ y \in Seq(Atom)
  BY <1>0, <1>1, SpellIs
<1>3. IsStrictPrefix(x, y) <=> Starts(x, y) /\ x # y
  BY <1>2, PrefixStarts
<1>4. ASSUME Beneath(t, a, c, b) PROVE Starts(x, y) /\ x # y
  <2>1. PICK u : u = Child(t, a, c) /\ u # Nil /\ b \in Subtree(t, u)
    BY <1>4 DEF Beneath
  <2>2. u \in DOMAIN t
    BY <1>0, <2>1 DEF Linked
  <2>3. pre[u] = x
    BY <1>0, <1>1, <2>1, SpellIs
  <2>4. PICK e, k : Enters(t, pre, u, b, d, e, k)
    BY <2>1, <2>2, EntersBy
  <2>5. e \in Atom /\ Slot(t, u, e) /\ k \in Seq(Atom) /\ y = x \o (Adds(t, u, e) \o k)
    BY <1>1, <2>3, <2>4 DEF Enters
  <2>6. PICK w : w = Adds(t, u, e)
    OBVIOUS
  <2>7. w \in Seq(Atom) /\ w # <<>>
    BY <1>0, <2>5, <2>6, AddsIs
  <2>8. PICK z : z = w \o k
    OBVIOUS
  <2>9. z \in Seq(Atom) /\ Len(z) = Len(w) + Len(k) /\ Len(w) \in Nat /\ Len(k) \in Nat
    BY <2>5, <2>7, <2>8, JoinIs
  <2>10. y = x \o z /\ Len(y) = Len(x) + Len(z) /\ Len(x) \in Nat
    BY <1>2, <2>5, <2>6, <2>8, <2>9, JoinIs
  <2>11. Len(w) > 0
    BY <2>7
  <2>12. Len(y) > Len(x)
    BY <2>9, <2>10, <2>11
  <2>13. Starts(x, y)
    BY <2>9, <2>10 DEF Starts
  <2>14. x # y
    <3>1. Len(x) # Len(y)
      BY <2>9, <2>10, <2>12
    <3> QED
      BY <3>1, Zenon
  <2> QED
    BY <2>13, <2>14
<1>5. ASSUME Starts(x, y), x # y PROVE Beneath(t, a, c, b)
  <2>1. Leads(t, pre, a, c, b, d)
    BY SlotLeads
  <2>2. (a = b /\ c = d) \/ Beneath(t, a, c, b)
    BY <1>1, <1>5, <2>1 DEF Leads
  <2> QED
    BY <1>1, <1>5, <2>2
<1> QED
  BY <1>1, <1>3, <1>4, <1>5

\* What find stands on.
Found(t, pre, k, i) ==
  /\ Sits(t, i) /\ LastSlot(i) = <<Last(i).addr, Last(i).text[1]>>
  /\ Valuable(t, Last(i).addr, Last(i).text[1]) /\ Spell(t, pre, Last(i).addr, Last(i).text[1]) = k
  /\ Last(i).has_child <=> Here(t, Last(i)).child # Nil

\* find stands on the value of the key.
LEMMA FindFinds ==
  ASSUME NEW t, Tree(t), NEW pre, Labelled(t, pre), NEW k \in Text, NEW i, i = Find(t, k), i # End
  PROVE  Found(t, pre, k, i)
<1>1. PICK m, p : m = Mismatch(t, Root, k) /\ p = Last(m.path)
  OBVIOUS
<1>2. m.result = "equals" /\ i = m.path
  BY <1>1 DEF Find
<1>3. Sought(t, pre, k, m, p)
  BY <1>1, SearchFinds
<1>4. Valuable(t, p.addr, p.text[1]) /\ Spell(t, pre, p.addr, p.text[1]) = k
  BY <1>2, <1>3, PresentKey
<1>5. p.has_child <=> Here(t, p).child # Nil
  BY <1>1, <1>2, <1>3, Zenon DEF Sought, Outcome
<1>6. Sits(t, i)
  BY FindSits
<1>7. LastSlot(i) = <<Last(i).addr, Last(i).text[1]>>
  BY DEF LastSlot, Last
<1> QED
  BY <1>1, <1>2, <1>4, <1>5, <1>6, <1>7 DEF Found

\* The pairs that are left when those with the keys B go.
Drops(t, u, B) == Pairs(u, Root) = {x \in Pairs(t, Root) : x[1] \notin B}

\* The keys a call of prefixed_erase_all takes.
Under(k, ep) == {l \in Text : IsStrictPrefix(k, l) \/ (ep /\ l = k)}

\* erase drops the pair of its key, prefixed_erase_all the pairs of the keys under it.
LEMMA EraseDrops ==
  ASSUME NEW s, NEW t, t = s.node, Tree(t), NEW k \in Text, NEW i, i = Find(t, k), i # End,
         NEW r, r = EraseAt(s, i), Tree(r.node)
  PROVE  Drops(t, r.node, {k})
<1>1. PICK pre : Labelled(t, pre)
  BY LabelsExist
<1>2. Found(t, pre, k, i)
  BY <1>1, FindFinds
<1>3. PICK a, c : a = Last(i).addr /\ c = Last(i).text[1]
  BY SMTT(60)
<1>4. /\ Stands(t, i) /\ Here(t, Last(i)).value # None /\ LastSlot(i) = <<a, c>>
      /\ Slot(t, a, c) /\ Spell(t, pre, a, c) = k
  BY <1>2, <1>3 DEF Found, Sits, Valued, Valuable
<1>5. Loses(t, r.node, {LastSlot(i)})
  BY <1>4, EraseLoses
<1>6. PICK X, B : X = {LastSlot(i)} /\ B = {k}
  OBVIOUS
<1>7. Prunes(t, r.node) /\ Vals(r.node) = Vals(t) \ X
  BY <1>5, <1>6 DEF Loses
<1>8. ASSUME NEW w \in Vals(t) PROVE w \in X <=> Spell(t, pre, w[1], w[2]) \in B
  <2>1. w = <<w[1], w[2]>> /\ Slot(t, w[1], w[2])
    BY DEF Vals
  <2>2. w \in X <=> w[1] = a /\ w[2] = c
    BY <1>4, <1>6, <2>1
  <2>3. Spell(t, pre, w[1], w[2]) = Spell(t, pre, a, c) => w[1] = a /\ w[2] = c
    BY <1>1, <1>4, <2>1, SpellOnce
  <2> QED
    BY <1>4, <1>6, <2>2, <2>3
<1>9. Pairs(r.node, Root) = {x \in Pairs(t, Root) : x[1] \notin B}
  <2>1. PICK u : u = r.node
    OBVIOUS
  <2>2. Tree(u) /\ Prunes(t, u) /\ Vals(u) = Vals(t) \ X
    BY <1>7, <2>1
  <2>3. Pairs(u, Root) = {x \in Pairs(t, Root) : x[1] \notin B}
    BY <1>1, <1>8, <2>2, PairsLeft
  <2> QED
    BY <2>1, <2>3
<1> QED
  BY <1>6, <1>9 DEF Drops

LEMMA PrefixedDrops ==
  ASSUME NEW s, NEW t, t = s.node, Whole(t, s.count), NEW k \in Text, NEW i, i = Find(t, k), i # End,
         NEW ep \in BOOLEAN, ep \/ Last(i).has_child, NEW r, r = PrefixedEraseAt(s, i, ep), Tree(r.node)
  PROVE  Drops(t, r.node, Under(k, ep))
<1>0. Tree(t)
  BY DEF Whole
<1>1. PICK pre : Labelled(t, pre)
  BY <1>0, LabelsExist
<1>2. Found(t, pre, k, i)
  BY <1>0, <1>1, FindFinds
<1>3. PICK p, a, c : p = Last(i) /\ a = p.addr /\ c = p.text[1]
  BY SMTT(60)
<1>4. /\ Sits(t, i) /\ LastSlot(i) = <<a, c>> /\ Slot(t, a, c) /\ Spell(t, pre, a, c) = k
      /\ Last(i).has_child <=> Here(t, Last(i)).child # Nil
  BY <1>2, <1>3 DEF Found, Valuable
<1>5. Loses(t, r.node, Gone(t, i, ep))
  BY <1>4, PrefixedLoses
<1>6. PICK X, B : X = Gone(t, i, ep) /\ B = Under(k, ep)
  OBVIOUS
<1>7. Prunes(t, r.node) /\ Vals(r.node) = Vals(t) \ X
  BY <1>5, <1>6 DEF Loses
<1>8. ASSUME NEW w \in Vals(t) PROVE w \in X <=> Spell(t, pre, w[1], w[2]) \in B
  <2>1. w = <<w[1], w[2]>> /\ Slot(t, w[1], w[2])
    BY DEF Vals
  <2>2. PICK l : l = Spell(t, pre, w[1], w[2])
    OBVIOUS
  <2>3. l \in Text
    BY <1>0, <1>1, <2>1, <2>2, SpellIs DEF Tree, Text
  <2>4. w \in X <=> Beneath(t, a, c, w[1]) \/ (ep /\ w[1] = a /\ w[2] = c)
    <3>1. w \in BeneathVals(t, p) <=> Beneath(t, a, c, w[1])
      BY <1>3 DEF BeneathVals
    <3>2. w \in (IF ep THEN {LastSlot(i)} ELSE {}) <=> ep /\ w[1] = a /\ w[2] = c
      BY <1>4, <2>1
    <3> QED
      BY <1>3, <1>6, <3>1, <3>2 DEF Gone
  <2>5. Beneath(t, a, c, w[1]) <=> IsStrictPrefix(k, l)
    BY <1>0, <1>1, <1>4, <2>1, <2>2, BelowKey
  <2>6. l = k <=> w[1] = a /\ w[2] = c
    <3>1. Spell(t, pre, w[1], w[2]) = Spell(t, pre, a, c) => w[1] = a /\ w[2] = c
      BY <1>0, <1>1, <1>4, <2>1, SpellOnce
    <3> QED
      BY <1>4, <2>2, <3>1
  <2>7. l \in B <=> IsStrictPrefix(k, l) \/ (ep /\ l = k)
    BY <1>6, <2>3 DEF Under
  <2> QED
    BY <2>2, <2>4, <2>5, <2>6, <2>7
<1>9. Pairs(r.node, Root) = {x \in Pairs(t, Root) : x[1] \notin B}
  BY <1>0, <1>1, <1>7, <1>8, PairsLeft, SMTT(60)
<1> QED
  BY <1>6, <1>9 DEF Drops

-----------------------------------------------------------------------------
(* The map of OrderedMap.                                                  *)

\* The pairs of a tree as a map on texts.
TextMap(K) == Graph(K) /\ \A x \in K : x[1] \in Text

\* The pairs of a tree are a map on texts.
LEMMA PairsMap ==
  ASSUME NEW t, Tree(t)
  PROVE  TextMap(Pairs(t, Root))
<1>0. Nodes(t)
  BY DEF Tree
<1>1. PICK pre : Labelled(t, pre)
  BY LabelsExist
<1>2. PICK K : K = Keyed(t, pre) /\ K = Pairs(t, Root)
  BY <1>1, PairsAre
<1>3. ASSUME NEW x \in K
      PROVE  \E a \in Addr, c \in Atom : Slot(t, a, c) /\ x = <<Spell(t, pre, a, c), t[a].entry[c].value>>
  <2>1. x \in Keyed(t, pre)
    BY <1>2
  <2>2. PICK a \in Addr, c \in Atom : Valuable(t, a, c) /\ x = <<Spell(t, pre, a, c), t[a].entry[c].value>>
    BY <1>0, <2>1, KeyedIs
  <2> QED
    BY <2>2 DEF Valuable
<1>4. ASSUME NEW x \in K PROVE x = <<x[1], x[2]>> /\ x[1] \in Text
  <2>1. PICK a \in Addr, c \in Atom : Slot(t, a, c) /\ x = <<Spell(t, pre, a, c), t[a].entry[c].value>>
    BY <1>3
  <2>2. Spell(t, pre, a, c) \in Text
    BY <1>0, <1>1, <2>1, SpellIs DEF Text
  <2>3. PICK k, v : k = Spell(t, pre, a, c) /\ v = t[a].entry[c].value
    OBVIOUS
  <2>4. x = <<k, v>> /\ k \in Text
    BY <2>1, <2>2, <2>3
  <2> QED
    BY <2>4
<1>5. ASSUME NEW x \in K, NEW y \in K, x[1] = y[1] PROVE x = y
  <2>1. PICK a \in Addr, c \in Atom : Slot(t, a, c) /\ x = <<Spell(t, pre, a, c), t[a].entry[c].value>>
    BY <1>3
  <2>2. PICK b \in Addr, d \in Atom : Slot(t, b, d) /\ y = <<Spell(t, pre, b, d), t[b].entry[d].value>>
    BY <1>3
  <2>3. Spell(t, pre, a, c) = Spell(t, pre, b, d)
    BY <1>5, <2>1, <2>2
  <2>4. a = b /\ c = d
    BY <1>1, <2>1, <2>2, <2>3, SpellOnce
  <2> QED
    BY <2>1, <2>2, <2>4
<1> QED
  BY <1>2, <1>4, <1>5 DEF TextMap, Graph

\* What find stands on is stored.
LEMMA FindStored ==
  ASSUME NEW t, Tree(t), NEW k \in Text, Find(t, k) # End
  PROVE  k \in DOMAIN MapOf(Pairs(t, Root))
<1>0. Nodes(t)
  BY DEF Tree
<1>1. PICK pre : Labelled(t, pre)
  BY LabelsExist
<1>2. PICK i, a, c : i = Find(t, k) /\ a = Last(i).addr /\ c = Last(i).text[1]
  OBVIOUS
<1>3. Valuable(t, a, c) /\ Spell(t, pre, a, c) = k
  <2>1. Found(t, pre, k, i)
    BY <1>1, <1>2, FindFinds
  <2> QED
    BY <1>2, <2>1 DEF Found
<1>4. a \in Addr /\ c \in Atom
  BY <1>0, <1>3, NodeTypes DEF Valuable
<1>5. PICK x : x = <<Spell(t, pre, a, c), t[a].entry[c].value>>
  OBVIOUS
<1>6. x \in Keyed(t, pre)
  BY <1>0, <1>3, <1>4, <1>5, KeyedIs
<1>7. x \in Pairs(t, Root) /\ x[1] = k
  BY <1>1, <1>3, <1>5, <1>6, PairsAre
<1>8. Graph(Pairs(t, Root))
  BY PairsMap DEF TextMap
<1>9. PICK K : K = Pairs(t, Root)
  OBVIOUS
<1> QED
  BY <1>7, <1>8, <1>9, MapIs

\* The map that is left.
LEMMA DropsMap ==
  ASSUME NEW t, Tree(t), NEW u, NEW B, Drops(t, u, B)
  PROVE  MapOf(Pairs(u, Root)) = Restrict(MapOf(Pairs(t, Root)), DOMAIN MapOf(Pairs(t, Root)) \ B)
<1>1. PICK K, L, D : K = Pairs(t, Root) /\ L = Pairs(u, Root) /\ D = DOMAIN MapOf(K)
  OBVIOUS
<1>2. Graph(K)
  BY <1>1, PairsMap DEF TextMap
<1>3. L = {x \in K : x[1] \notin B}
  BY <1>1 DEF Drops
<1>4. \A x \in K : x[1] \in D
  BY <1>1, <1>2, MapIs
<1>5. PICK S : S = D \ B
  OBVIOUS
<1>6. L = {x \in K : x[1] \in S}
  BY <1>3, <1>4, <1>5
<1>7. S \in SUBSET DOMAIN MapOf(K)
  BY <1>1, <1>5
<1>8. MapOf(L) = Restrict(MapOf(K), S)
  BY <1>2, <1>6, <1>7, MapRestrict
<1> QED
  BY <1>1, <1>5, <1>8

LEMMA ContentsNext ==
  Contents' = MapOf(Pairs(node', Root))
BY DEF Contents, MapOf

\* What the pairs gain, change or lose is a call of the map.
LEMMA PutAbstract ==
  ASSUME Tree(node), NEW k \in Key, NEW v \in Value, Gains(node, node', k, v)
  PROVE  Abstract!Put(k, v)
<1>1. PICK K, L : K = Pairs(node, Root) /\ L = Pairs(node', Root)
  OBVIOUS
<1>2. Graph(K)
  BY <1>1, PairsMap DEF TextMap
<1>3. L = K \cup {<<k, v>>} /\ \A x \in K : x[1] # k
  BY <1>1 DEF Gains
<1>4. k \notin DOMAIN MapOf(K) /\ MapOf(L) = [l \in DOMAIN MapOf(K) \cup {k} |-> IF l = k THEN v ELSE MapOf(K)[l]]
  BY <1>2, <1>3, MapPut
<1>5. Contents = MapOf(K) /\ Contents' = MapOf(L)
  BY <1>1, ContentsIs, ContentsNext
<1> QED
  BY <1>4, <1>5 DEF Abstract!Put

LEMMA AssignAbstract ==
  ASSUME Tree(node), NEW k \in Key, NEW v \in Value, Changes(node, node', k, v)
  PROVE  Abstract!Assign(k, v)
<1>1. PICK K, L : K = Pairs(node, Root) /\ L = Pairs(node', Root)
  OBVIOUS
<1>2. Graph(K)
  BY <1>1, PairsMap DEF TextMap
<1>3. L = {x \in K : x[1] # k} \cup {<<k, v>>} /\ \E x \in K : x[1] = k
  BY <1>1 DEF Changes
<1>4. k \in DOMAIN MapOf(K) /\ MapOf(L) = [MapOf(K) EXCEPT ![k] = v]
  BY <1>2, <1>3, MapAssign
<1>5. Contents = MapOf(K) /\ Contents' = MapOf(L)
  BY <1>1, ContentsIs, ContentsNext
<1> QED
  BY <1>4, <1>5 DEF Abstract!Assign

LEMMA DeleteAbstract ==
  ASSUME Tree(node), NEW k \in Key, Find(node, k) # End, Drops(node, node', {k})
  PROVE  Abstract!Delete(k)
<1>0. k \in Text
  BY TrieAssumption DEF Text
<1>1. PICK K, L : K = Pairs(node, Root) /\ L = Pairs(node', Root)
  OBVIOUS
<1>2. k \in DOMAIN MapOf(K)
  BY <1>0, <1>1, FindStored
<1>3. MapOf(L) = Restrict(MapOf(K), DOMAIN MapOf(K) \ {k})
  BY <1>1, DropsMap
<1>5. Contents = MapOf(K) /\ Contents' = MapOf(L)
  BY <1>1, ContentsIs, ContentsNext
<1> QED
  BY <1>2, <1>3, <1>5 DEF Abstract!Delete, Abstract!Restrict, Restrict

LEMMA DeleteUnderAbstract ==
  ASSUME Tree(node), NEW k \in Key, Find(node, k) # End, NEW ep \in BOOLEAN, Drops(node, node', Under(k, ep))
  PROVE  Abstract!DeleteUnder(k, ep)
<1>0. k \in Text
  BY TrieAssumption DEF Text
<1>1. PICK K, L, D : K = Pairs(node, Root) /\ L = Pairs(node', Root) /\ D = DOMAIN MapOf(K)
  OBVIOUS
<1>2. k \in D
  BY <1>0, <1>1, FindStored
<1>3. MapOf(L) = Restrict(MapOf(K), D \ Under(k, ep))
  BY <1>1, DropsMap
<1>4. D \in SUBSET Text
  <2>1. TextMap(K)
    BY <1>1, PairsMap
  <2>2. \A l \in D : \E x \in K : x[1] = l
    BY <1>1, <2>1, MapIs DEF TextMap
  <2> QED
    BY <2>1, <2>2 DEF TextMap
<1>5. D \ Under(k, ep) = {l \in D : ~IsStrictPrefix(k, l) /\ (ep => l # k)}
  BY <1>4 DEF Under
<1>6. Contents = MapOf(K) /\ Contents' = MapOf(L)
  BY <1>1, ContentsIs, ContentsNext
<1>7. k \in DOMAIN Contents
  BY <1>1, <1>2, <1>6
<1>8. Contents' = Restrict(Contents, {l \in DOMAIN Contents : ~IsStrictPrefix(k, l) /\ (ep => l # k)})
  BY <1>1, <1>3, <1>5, <1>6
<1> QED
  BY <1>7, <1>8 DEF Abstract!DeleteUnder, Abstract!RestrictDomain, Abstract!Restrict, Restrict,
                    Abstract!IsStrictPrefix, IsStrictPrefix, Abstract!IsPrefix, IsPrefix

\* What a step does to the map.
MapStep == Abstract!Next \/ (\E q \in Query : PrefixedKeyEraseAll(q)) \/ Contents' = Contents

\* Call by call: the step of the map each makes.
LEMMA SameContents ==
  ASSUME Pairs(node', Root) = Pairs(node, Root)
  PROVE  MapStep
BY ContentsIs, ContentsNext DEF MapStep

LEMMA PlaceMaps ==
  ASSUME TrieInv, Tree(node'), NEW k \in Key, NEW v \in Value, Place(Mismatch(node, Root, k), v)
  PROVE  MapStep
<1>1. k \in Text /\ Tree(node)
  BY TrieAssumption DEF Text, TrieInv, Whole
<1>2. Gains(node, node', k, v)
  BY <1>1, PlaceGains
<1>3. Abstract!Put(k, v)
  BY <1>1, <1>2, PutAbstract
<1> QED
  BY <1>3 DEF MapStep, Abstract!Next

LEMMA ReassignMaps ==
  ASSUME TrieInv, Tree(node'), NEW k \in Key, NEW v \in Value,
         Mismatch(node, Root, k).result = "equals", Reassign(Mismatch(node, Root, k), v)
  PROVE  MapStep
<1>1. k \in Text /\ Tree(node)
  BY TrieAssumption DEF Text, TrieInv, Whole
<1>2. Changes(node, node', k, v)
  BY <1>1, ReassignGives
<1>3. Abstract!Assign(k, v)
  BY <1>1, <1>2, AssignAbstract
<1> QED
  BY <1>3 DEF MapStep, Abstract!Next

LEMMA LeakMaps ==
  ASSUME TrieInv, NEW k \in Key, Leak(Mismatch(node, Root, k))
  PROVE  MapStep
<1>1. Whole(node, count)
  BY DEF TrieInv
<1>2. Pairs(node', Root) = Pairs(node, Root)
  BY <1>1, LeakSame
<1> QED
  BY <1>2, SameContents

LEMMA EraseMaps ==
  ASSUME TrieInv, Tree(node'), NEW k \in Key, Erase(k)
  PROVE  MapStep
<1>1. k \in Text /\ Tree(node)
  BY TrieAssumption DEF Text, TrieInv, Whole
<1>2. PICK s, t, i, r : s = State /\ t = node /\ i = Find(node, k) /\ r = EraseAt(s, i)
  OBVIOUS
<1>3. i # End /\ node' = r.node /\ t = s.node
  BY <1>2 DEF Erase, Becomes, State
<1>4. Drops(t, r.node, {k})
  <2>1. Tree(t) /\ Tree(r.node) /\ i = Find(t, k)
    BY <1>1, <1>2, <1>3
  <2> QED
    BY <1>1, <1>2, <1>3, <2>1, EraseDrops
<1>5. Find(node, k) # End /\ Drops(node, node', {k})
  BY <1>2, <1>3, <1>4
<1>6. Abstract!Delete(k)
  BY <1>1, <1>5, DeleteAbstract
<1> QED
  BY <1>6 DEF MapStep, Abstract!Next

LEMMA PrefixedMaps ==
  ASSUME TrieInv, Tree(node'), NEW k \in Key, NEW ep \in BOOLEAN, PrefixedEraseAll(k, ep)
  PROVE  MapStep
<1>1. k \in Text /\ Tree(node) /\ Whole(node, count)
  BY TrieAssumption DEF Text, TrieInv, Whole
<1>2. PICK s, t, i, r : s = State /\ t = node /\ i = Find(node, k) /\ r = PrefixedEraseAt(s, i, ep)
  OBVIOUS
<1>3. i # End /\ node' = r.node /\ t = s.node /\ s.count = count /\ (ep \/ Last(i).has_child)
  BY <1>2 DEF PrefixedEraseAll, Becomes, State
<1>4. Drops(t, r.node, Under(k, ep))
  <2>1. Whole(t, s.count) /\ Tree(r.node) /\ i = Find(t, k)
    BY <1>1, <1>2, <1>3
  <2> QED
    BY <1>1, <1>2, <1>3, <2>1, PrefixedDrops
<1>5. Find(node, k) # End /\ Drops(node, node', Under(k, ep))
  BY <1>2, <1>3, <1>4
<1>6. Abstract!DeleteUnder(k, ep)
  BY <1>1, <1>5, DeleteUnderAbstract
<1> QED
  BY <1>6 DEF MapStep, Abstract!Next

LEMMA InsertionMaps ==
  ASSUME TrieInv, Tree(node'), NEW k \in Key, NEW v \in Value,
         Insert(k, v) \/ PrefixedInsert(k, v) \/ Upsert(k, v) \/ Update(k, v)
  PROVE  MapStep
<1>1. CASE node' = node
  <2>1. Pairs(node', Root) = Pairs(node, Root)
    BY <1>1
  <2> QED
    BY <2>1, SameContents
<1>2. CASE Place(Mismatch(node, Root, k), v)
  BY <1>2, PlaceMaps
<1>3. CASE Leak(Mismatch(node, Root, k))
  BY <1>3, LeakMaps
<1>4. CASE Mismatch(node, Root, k).result = "equals" /\ Reassign(Mismatch(node, Root, k), v)
  BY <1>4, ReassignMaps
<1>5. \/ node' = node \/ Place(Mismatch(node, Root, k), v) \/ Leak(Mismatch(node, Root, k))
      \/ Mismatch(node, Root, k).result = "equals" /\ Reassign(Mismatch(node, Root, k), v)
  BY DEF Insert, PrefixedInsert, Upsert, Update
<1> QED
  BY <1>1, <1>2, <1>3, <1>4, <1>5

\* Every step is a call of the map, prefixed_key_erase_all, or leaves the map alone.
LEMMA TrieMaps ==
  ASSUME TrieInv, TrieInv', [Next]_vars
  PROVE  MapStep
<1>0. Tree(node')
  BY DEF TrieInv, Whole
<1>1. ASSUME NEW k \in Key, NEW v \in Value,
             Insert(k, v) \/ PrefixedInsert(k, v) \/ Upsert(k, v) \/ Update(k, v)
      PROVE  MapStep
  BY <1>0, <1>1, InsertionMaps
<1>2. ASSUME NEW k \in Key, Erase(k) PROVE MapStep
  BY <1>0, <1>2, EraseMaps
<1>3. ASSUME NEW k \in Key, NEW ep \in BOOLEAN, PrefixedEraseAll(k, ep) PROVE MapStep
  BY <1>0, <1>3, PrefixedMaps
<1>4. ASSUME NEW q \in Query, PrefixedKeyEraseAll(q) PROVE MapStep
  BY <1>4 DEF MapStep
<1>5. CASE UNCHANGED vars
  <2>1. Pairs(node', Root) = Pairs(node, Root)
    BY <1>5 DEF vars
  <2> QED
    BY <2>1, SameContents
<1>6. CASE Next
  BY <1>1, <1>2, <1>3, <1>4, <1>6 DEF Next
<1> QED
  BY <1>5, <1>6

\* A new trie is the empty map.
LEMMA InitMaps ==
  ASSUME Init
  PROVE  Abstract!Init
<1>1. Tree(node) /\ Nodes(node)
  BY TrieInit DEF TrieInv, Whole, Tree
<1>2. PICK pre : Labelled(node, pre)
  BY <1>1, LabelsExist
<1>3. \A a, c : ~Slot(node, a, c)
  BY DEF Init, EmptyNode, Slot
<1>4. Keyed(node, pre) = {}
  <2>1. \A x : x \notin Keyed(node, pre)
    BY <1>1, <1>3, KeyedIs DEF Valuable
  <2> QED
    BY <2>1
<1>5. Pairs(node, Root) = {}
  BY <1>1, <1>2, <1>4, PairsAre
<1>6. PICK K : K = Pairs(node, Root)
  OBVIOUS
<1>7. Contents = MapOf(K) /\ K = {}
  BY <1>5, <1>6, ContentsIs
<1>8. Contents = <<>>
  BY <1>7 DEF MapOf
<1> QED
  BY <1>8 DEF Abstract!Init

\* The trie does to its keys and values what the calls of the map do.
THEOREM TrieIsAMap == Spec => ImplementsMap
<1>1. Init => Abstract!Init
  BY InitMaps
<1>2. TrieInv /\ TrieInv' /\ [Next]_vars => [Abstract!Next \/ \E q \in Query : PrefixedKeyEraseAll(q)]_Contents
  BY TrieMaps DEF MapStep
<1> QED
  BY <1>1, <1>2, TrieKeeps, PTL DEF ImplementsMap, Spec

=============================================================================
