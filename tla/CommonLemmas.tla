----------------------------- MODULE CommonLemmas -----------------------------
(***************************************************************************)
(* What several proofs need of numbers and finite sets: the least and the  *)
(* greatest element of a set of numbers, induction over the numbers of a   *)
(* set, the members of a finite set that are where a function says, the    *)
(* members of a sequence that stand at given positions, and functions      *)
(* defined from their values at places of a lower rank.                    *)
(***************************************************************************)
EXTENDS Integers, Sequences, FiniteSets, Selection, TLAPS, FiniteSetTheorems,
        FunctionTheorems, WellFoundedInduction

(* Numbers.                                                                *)

\* Every set of numbers that is not empty has a least element.
LEMMA LeastNat ==
  ASSUME NEW T \in SUBSET Nat, T # {}
  PROVE  \E m \in T : \A k \in T : m <= k
<1> DEFINE R == OpToRel(<, Nat)
<1>1. IsWellFoundedOn(R, Nat)
  BY NatLessThanWellFounded
<1>2. \E m \in T : \A k \in T : <<k, m>> \notin R
  <2> HIDE DEF R
  <2> QED
    BY <1>1, WFMin
<1>3. \A k, m \in Nat : <<k, m>> \notin R => m <= k
  BY DEF OpToRel
<1> QED
  BY <1>2, <1>3

\* One that has a bound has a greatest element.
LEMMA GreatestNat ==
  ASSUME NEW T \in SUBSET Nat, T # {}, NEW n \in Nat, \A k \in T : k <= n
  PROVE  \E m \in T : \A k \in T : k <= m
<1> DEFINE U == {i \in Nat : \E k \in T : i = n - k}
<1>1. U \in SUBSET Nat /\ U # {}
  <2>1. PICK k \in T : TRUE
    OBVIOUS
  <2>2. n - k \in Nat
    OBVIOUS
  <2> QED
    BY <2>2
<1>2. PICK u \in U : \A v \in U : u <= v
  <2> HIDE DEF U
  <2> QED
    BY <1>1, LeastNat
<1>3. PICK m \in T : u = n - m
  OBVIOUS
<1>4. \A k \in T : n - m <= n - k
  BY <1>2, <1>3
<1> QED
  BY <1>4

\* Induction: a set of numbers with 0 and, with each number, its successor, has
\* them all.
LEMMA NatSet ==
  ASSUME NEW T \in SUBSET Nat, 0 \in T, \A n \in T : n + 1 \in T
  PROVE  T = Nat
<1>1. CASE Nat \ T # {}
  <2>1. PICK m \in Nat \ T : \A k \in Nat \ T : m <= k
    BY <1>1, LeastNat
  <2>2. m - 1 \in Nat /\ m - 1 \in T
    BY <2>1
  <2> QED
    BY <2>1, <2>2
<1> QED
  BY <1>1

-----------------------------------------------------------------------------
(* Counting.                                                               *)

\* The number of members of S that f sends into P.
Tally(S, f, P) == Cardinality({x \in S : f[x] \in P})

LEMMA CountBounds ==
  ASSUME NEW S, IsFiniteSet(S), NEW f, NEW P
  PROVE  /\ IsFiniteSet({x \in S : f[x] \in P})
         /\ Tally(S, f, P) \in Nat /\ Tally(S, f, P) <= Cardinality(S)
         /\ Tally(S, f, P) = 0 <=> \A x \in S : f[x] \notin P
<1>1. /\ IsFiniteSet({x \in S : f[x] \in P})
      /\ Cardinality({x \in S : f[x] \in P}) <= Cardinality(S)
  BY FS_Subset
<1>2. Cardinality({x \in S : f[x] \in P}) \in Nat
  BY <1>1, FS_CardinalityType
<1>3. Cardinality({x \in S : f[x] \in P}) = 0 <=> {x \in S : f[x] \in P} = {}
  BY <1>1, FS_EmptySet
<1> QED
  BY <1>1, <1>2, <1>3 DEF Tally

\* What the count becomes when the value of x does.
CountAfter(S, f, g, x, P) ==
  Tally(S, f, P) - (IF f[x] \in P THEN 1 ELSE 0) + (IF g[x] \in P THEN 1 ELSE 0)

\* One member moves.
LEMMA CountMoved ==
  ASSUME NEW S, IsFiniteSet(S), NEW f, NEW g,
         NEW x \in S, \A y \in S \ {x} : g[y] = f[y], NEW P
  PROVE  Tally(S, g, P) = CountAfter(S, f, g, x, P)
<1> DEFINE F == {y \in S : f[y] \in P}
           G == {y \in S : g[y] \in P}
<1>1. IsFiniteSet(F) /\ Cardinality(F) \in Nat
  BY CountBounds DEF Tally
<1>2. IsFiniteSet(F \ {x}) /\ Cardinality(F \ {x}) = IF x \in F THEN Cardinality(F) - 1
                                                              ELSE Cardinality(F)
  BY <1>1, FS_RemoveElement
<1>3. G = IF g[x] \in P THEN (F \ {x}) \cup {x} ELSE F \ {x}
  OBVIOUS
<1>4. Cardinality((F \ {x}) \cup {x}) = Cardinality(F \ {x}) + 1
  <2> HIDE DEF F
  <2> QED
    BY <1>2, FS_AddElement
<1>5. x \in F <=> f[x] \in P
  OBVIOUS
<1>6. Cardinality(G) = Cardinality(F) - (IF f[x] \in P THEN 1 ELSE 0)
                                      + (IF g[x] \in P THEN 1 ELSE 0)
  <2> HIDE DEF F, G
  <2> QED
    BY <1>1, <1>2, <1>3, <1>4, <1>5
<1> QED
  BY <1>6 DEF Tally, CountAfter

\* Nothing moves into or out of what is counted.
LEMMA CountKept ==
  ASSUME NEW S, NEW f, NEW g, NEW P, \A x \in S : f[x] \in P <=> g[x] \in P
  PROVE  Tally(S, g, P) = Tally(S, f, P)
<1>1. {x \in S : f[x] \in P} = {x \in S : g[x] \in P}
  OBVIOUS
<1> QED
  BY <1>1 DEF Tally

\* A sequence that repeats nothing is no longer than the set it is over.
LEMMA DistinctLength ==
  ASSUME NEW S, IsFiniteSet(S), NEW s \in Seq(S),
         \A i, j \in DOMAIN s : s[i] = s[j] => i = j
  PROVE  Len(s) <= Cardinality(S)
<1>1. s \in Injection(1 .. Len(s), S)
  BY DEF Injection, IsInjective
<1>2. Cardinality(1 .. Len(s)) <= Cardinality(S)
  BY <1>1, FS_Injection
<1>3. Cardinality(1 .. Len(s)) = Len(s)
  <2>1. PICK n \in Nat : n = Len(s)
    OBVIOUS
  <2>2. Cardinality(1 .. n) = n
    BY FS_Interval
  <2> QED
    BY <2>1, <2>2, Zenon
<1> QED
  BY <1>2, <1>3

-----------------------------------------------------------------------------
(* Selection.                                                              *)

\* The k-th of a finite set of positions is there, is another for each k, and
\* every position is the k-th for some k.
LEMMA PlaceIsThere ==
  ASSUME NEW I \in SUBSET Nat, IsFiniteSet(I)
  PROVE  /\ Cardinality(I) \in Nat
         /\ \A k \in 1 .. Cardinality(I) : Nth(I, k) \in I
         /\ \A k, l \in 1 .. Cardinality(I) : k < l => Nth(I, k) < Nth(I, l)
         /\ \A i \in I : \E k \in 1 .. Cardinality(I) : Nth(I, k) = i
<1> DEFINE below(i) == {j \in I : j <= i}
           rank == [i \in I |-> Cardinality(below(i))]
<1>1. Cardinality(I) \in Nat
  BY FS_CardinalityType
<1>2. \A i \in I : IsFiniteSet(below(i)) /\ Cardinality(below(i)) \in 1 .. Cardinality(I)
  <2>1. SUFFICES ASSUME NEW i \in I
                 PROVE  IsFiniteSet(below(i)) /\ Cardinality(below(i)) \in 1 .. Cardinality(I)
    OBVIOUS
  <2>2. below(i) \in SUBSET I /\ i \in below(i)
    OBVIOUS
  <2> HIDE DEF below
  <2>3. IsFiniteSet(below(i)) /\ Cardinality(below(i)) <= Cardinality(I)
    BY <2>2, FS_Subset
  <2>4. Cardinality(below(i)) \in Nat /\ Cardinality(below(i)) # 0
    BY <2>2, <2>3, FS_CardinalityType, FS_EmptySet
  <2> QED
    BY <1>1, <2>3, <2>4
<1>3. \A i, j \in I : i < j => Cardinality(below(i)) < Cardinality(below(j))
  <2>1. SUFFICES ASSUME NEW i \in I, NEW j \in I, i < j
                 PROVE  Cardinality(below(i)) < Cardinality(below(j))
    OBVIOUS
  <2>2. below(i) \in SUBSET below(j) /\ below(i) # below(j)
    <3>1. j \in below(j) /\ j \notin below(i)
      BY <2>1
    <3>2. \A k \in I : k <= i => k <= j
      BY <2>1
    <3> QED
      BY <3>1, <3>2
  <2>3. IsFiniteSet(below(j)) /\ Cardinality(below(j)) \in Nat /\ Cardinality(below(i)) \in Nat
    BY <1>2, FS_CardinalityType
  <2> HIDE DEF below
  <2> QED
    BY <2>2, <2>3, FS_Subset
<1>4. rank \in Injection(I, 1 .. Cardinality(I))
  <2>1. \A i, j \in I : rank[i] = rank[j] => i = j
    <3>1. SUFFICES ASSUME NEW i \in I, NEW j \in I, rank[i] = rank[j], i # j PROVE FALSE
      OBVIOUS
    <3>2. i < j \/ j < i
      BY <3>1
    <3>3. Cardinality(below(i)) \in Nat /\ Cardinality(below(j)) \in Nat
      BY <1>2, FS_CardinalityType
    <3>4. Cardinality(below(i)) = Cardinality(below(j))
      BY <3>1
    <3> HIDE DEF below, rank
    <3> QED
      BY <1>3, <3>2, <3>3, <3>4
  <2>2. rank \in [I -> 1 .. Cardinality(I)]
    BY <1>2
  <2> HIDE DEF rank
  <2> QED
    BY <2>1, <2>2 DEF Injection, IsInjective
<1>5. rank \in Surjection(I, 1 .. Cardinality(I))
  <2>1. IsFiniteSet(1 .. Cardinality(I)) /\ Cardinality(1 .. Cardinality(I)) = Cardinality(I)
    BY <1>1, FS_Interval
  <2> HIDE DEF rank
  <2> QED
    BY <1>4, <2>1, FS_Injection
<1>6. \A k \in 1 .. Cardinality(I) : Nth(I, k) \in I /\ Cardinality(below(Nth(I, k))) = k
  <2>1. SUFFICES ASSUME NEW k \in 1 .. Cardinality(I)
                 PROVE  Nth(I, k) \in I /\ Cardinality(below(Nth(I, k))) = k
    OBVIOUS
  <2>2. \E i \in I : rank[i] = k
    <3> HIDE DEF rank
    <3> QED
      BY <1>5 DEF Surjection
  <2>3. \E i \in I : Cardinality({j \in I : j <= i}) = k
    BY <2>2
  <2> QED
    BY <2>3 DEF Nth
<1>7. \A i \in I : Cardinality(below(i)) \in 1 .. Cardinality(I) /\ Nth(I, Cardinality(below(i))) = i
  <2>1. SUFFICES ASSUME NEW i \in I PROVE Nth(I, Cardinality(below(i))) = i
    BY <1>2
  <2>2. Cardinality(below(i)) \in 1 .. Cardinality(I)
    BY <1>2
  <2>3. PICK p : p = Nth(I, Cardinality(below(i)))
    OBVIOUS
  <2>4. p \in I /\ Cardinality(below(p)) = Cardinality(below(i))
    BY <1>6, <2>2, <2>3
  <2>5. rank[p] = rank[i]
    BY <2>4
  <2>6. p = i
    <3> HIDE DEF rank, below
    <3> QED
      BY <1>4, <2>4, <2>5 DEF Injection, IsInjective
  <2> QED
    BY <2>3, <2>6
<1>8. \A k, l \in 1 .. Cardinality(I) : k < l => Nth(I, k) < Nth(I, l)
  <2>1. SUFFICES ASSUME NEW k \in 1 .. Cardinality(I), NEW l \in 1 .. Cardinality(I), k < l
                 PROVE  Nth(I, k) < Nth(I, l)
    OBVIOUS
  <2>2. PICK i \in I, j \in I : /\ i = Nth(I, k) /\ j = Nth(I, l)
                                /\ Cardinality(below(i)) = k /\ Cardinality(below(j)) = l
    BY <1>6
  <2>3. ~(j < i) /\ j # i
    <3> HIDE DEF below
    <3> QED
      BY <1>3, <2>1, <2>2
  <2>4. i < j
    BY <2>3
  <2> QED
    BY <2>2, <2>4
<1> QED
  <2> HIDE DEF below
  <2> QED
    BY <1>1, <1>6, <1>7, <1>8

\* A selection is a sequence of the members selected, each from a position of its
\* own and none forgotten.
LEMMA PickedMembers ==
  ASSUME NEW S, NEW s \in Seq(S), NEW I \in SUBSET DOMAIN s
  PROVE  /\ Picked(s, I) \in Seq(S)
         /\ Len(Picked(s, I)) = Cardinality(I) /\ Cardinality(I) \in Nat
         /\ \A k \in DOMAIN Picked(s, I) : Nth(I, k) \in I /\ Picked(s, I)[k] = s[Nth(I, k)]
         /\ \A k, l \in DOMAIN Picked(s, I) : k < l => Nth(I, k) < Nth(I, l)
         /\ \A i \in I : \E k \in DOMAIN Picked(s, I) : Nth(I, k) = i
<1>1. I \in SUBSET Nat /\ IsFiniteSet(I)
  <2>1. IsFiniteSet(1 .. Len(s)) /\ I \in SUBSET (1 .. Len(s))
    <3>1. 1 \in Int /\ Len(s) \in Int
      OBVIOUS
    <3>2. IsFiniteSet(1 .. Len(s))
      BY <3>1, FS_Interval
    <3> QED
      BY <3>2
  <2> QED
    BY <2>1, FS_Subset
<1>2. DOMAIN Picked(s, I) = 1 .. Cardinality(I)
  BY DEF Picked
<1>3. Cardinality(I) \in Nat /\ \A k \in 1 .. Cardinality(I) : Nth(I, k) \in I
  BY <1>1, PlaceIsThere
<1>4. \A k \in 1 .. Cardinality(I) : Picked(s, I)[k] = s[Nth(I, k)] /\ s[Nth(I, k)] \in S
  BY <1>3 DEF Picked
<1>5. Picked(s, I) \in Seq(S)
  BY <1>3, <1>4 DEF Picked
<1>6. Len(Picked(s, I)) = Cardinality(I)
  BY <1>2, <1>3, <1>5
<1> QED
  BY <1>1, <1>2, <1>3, <1>4, <1>5, <1>6, PlaceIsThere

-----------------------------------------------------------------------------
(* Recursion: what is defined from the values at places of a lower rank.   *)

\* A set with each place below which it has all, has all.
Inductive(D, rank, P) ==
  /\ rank \in [D -> Nat] /\ P \in SUBSET D
  /\ \A b \in D : (\A c \in D : rank[c] < rank[b] => c \in P) => b \in P

LEMMA ByRank ==
  ASSUME NEW D, NEW rank, NEW P, Inductive(D, rank, P)
  PROVE  P = D
<1>0. /\ rank \in [D -> Nat] /\ P \in SUBSET D
      /\ \A b \in D : (\A c \in D : rank[c] < rank[b] => c \in P) => b \in P
  BY DEF Inductive
<1> DEFINE R == {rank[b] : b \in D \ P}
<1>1. CASE R = {}
  <2>1. D \ P = {}
    BY <1>1
  <2> QED
    BY <1>0, <2>1
<1>2. CASE R # {}
  <2>1. R \in SUBSET Nat
    BY <1>0
  <2>2. PICK r \in R : \A k \in R : r <= k
    <3> HIDE DEF R
    <3> QED
      BY <1>2, <2>1, LeastNat
  <2>3. PICK b \in D \ P : rank[b] = r
    OBVIOUS
  <2>4. \A c \in D : rank[c] < rank[b] => c \in P
    <3>1. SUFFICES ASSUME NEW c \in D, rank[c] < rank[b], c \notin P PROVE FALSE
      OBVIOUS
    <3>2. rank[c] \in R
      BY <3>1
    <3>3. r <= rank[c] /\ rank[c] \in Nat /\ r \in Nat
      BY <2>1, <2>2, <3>2
    <3> QED
      BY <2>3, <3>1, <3>3
  <2> QED
    BY <1>0, <2>3, <2>4
<1> QED
  BY <1>0, <1>1, <1>2

\* Such a definition has a solution: H[f] is what it makes of the values f.
Solved(D, rank, H, g, k) == \A b \in D : rank[b] <= k => H[g][b] = g[b]
Upward(D, V, rank, H) ==
  \A f, g \in [D -> V], b \in D :
    (\A c \in D : rank[c] < rank[b] => f[c] = g[c]) => H[f][b] = H[g][b]

Recursion(D, V, rank, H) ==
  V # {} /\ rank \in [D -> Nat] /\ H \in [[D -> V] -> [D -> V]] /\ Upward(D, V, rank, H)
Solvable(D, V, H) == \E f \in [D -> V] : H[f] = f

LEMMA FixedPoint ==
  ASSUME NEW D, NEW V, NEW rank, NEW H, Recursion(D, V, rank, H)
  PROVE  Solvable(D, V, H)
<1>0. V # {} /\ rank \in [D -> Nat] /\ H \in [[D -> V] -> [D -> V]] /\ Upward(D, V, rank, H)
  BY DEF Recursion
<1>1. \A k \in Nat : \E g \in [D -> V] : Solved(D, rank, H, g, k)
  <2> DEFINE T == {k \in Nat : \E g \in [D -> V] : Solved(D, rank, H, g, k)}
  <2>1. 0 \in T
    <3>1. PICK v \in V : TRUE
      BY <1>0
    <3>2. [b \in D |-> v] \in [D -> V]
      OBVIOUS
    <3>3. PICK f \in [D -> V] : TRUE
      BY <3>2
    <3>4. H[f] \in [D -> V]
      BY <1>0, <3>3
    <3>5. Solved(D, rank, H, H[f], 0)
      BY <1>0, <3>3, <3>4, SMTT(60) DEF Solved, Upward
    <3> QED
      BY <3>4, <3>5
  <2>2. ASSUME NEW k \in T PROVE k + 1 \in T
    <3>1. PICK g \in [D -> V] : Solved(D, rank, H, g, k)
      OBVIOUS
    <3>2. H[g] \in [D -> V] /\ k \in Nat
      BY <1>0
    <3>3. Solved(D, rank, H, H[g], k + 1)
      <4>1. SUFFICES ASSUME NEW b \in D, rank[b] <= k + 1 PROVE H[H[g]][b] = H[g][b]
        BY DEF Solved
      <4>2. \A c \in D : rank[c] < rank[b] => H[g][c] = g[c]
        BY <1>0, <3>1, <3>2, <4>1 DEF Solved
      <4> QED
        BY <1>0, <3>2, <4>2 DEF Upward
    <3> QED
      BY <3>2, <3>3
  <2>3. T \in SUBSET Nat
    OBVIOUS
  <2>4. T = Nat
    <3> HIDE DEF T
    <3> QED
      BY <2>1, <2>2, <2>3, NatSet
  <2> QED
    BY <2>4
<1>2. ASSUME NEW k \in Nat, NEW f \in [D -> V], NEW g \in [D -> V],
             Solved(D, rank, H, f, k), Solved(D, rank, H, g, k)
      PROVE  \A b \in D : rank[b] <= k => f[b] = g[b]
  <2> DEFINE P == {b \in D : rank[b] <= k => f[b] = g[b]}
  <2>1. ASSUME NEW b \in D, \A c \in D : rank[c] < rank[b] => c \in P PROVE b \in P
    <3>1. SUFFICES ASSUME rank[b] <= k PROVE f[b] = g[b]
      OBVIOUS
    <3>2. \A c \in D : rank[c] < rank[b] => f[c] = g[c]
      BY <1>0, <2>1, <3>1
    <3>3. H[f][b] = H[g][b]
      BY <1>0, <3>2 DEF Upward
    <3> QED
      BY <1>2, <3>1, <3>3 DEF Solved
  <2>2. P = D
    <3>1. P \in SUBSET D
      OBVIOUS
    <3>2. Inductive(D, rank, P)
      <4> HIDE DEF P
      <4> QED
        BY <1>0, <2>1, <3>1 DEF Inductive
    <3> HIDE DEF P
    <3> QED
      BY <3>2, ByRank
  <2> QED
    BY <2>2
<1> DEFINE pick(k) == CHOOSE g \in [D -> V] : Solved(D, rank, H, g, k)
           f == [b \in D |-> pick(rank[b])[b]]
<1>3. \A k \in Nat : pick(k) \in [D -> V] /\ Solved(D, rank, H, pick(k), k)
  BY <1>1
<1> HIDE DEF pick
<1>4. f \in [D -> V]
  BY <1>0, <1>3
<1>5. ASSUME NEW b \in D PROVE H[f][b] = f[b]
  <2>1. \A c \in D : rank[c] <= rank[b] => f[c] = pick(rank[b])[c]
    <3>1. SUFFICES ASSUME NEW c \in D, rank[c] <= rank[b]
                   PROVE  pick(rank[c])[c] = pick(rank[b])[c]
      OBVIOUS
    <3>2. Solved(D, rank, H, pick(rank[b]), rank[c])
      BY <1>0, <1>3, <3>1 DEF Solved
    <3>3. rank[c] \in Nat /\ rank[b] \in Nat
      BY <1>0
    <3> QED
      BY <1>2, <1>3, <3>2, <3>3
  <2>2. rank[b] \in Nat /\ pick(rank[b]) \in [D -> V]
    BY <1>0, <1>3
  <2>3. H[f][b] = H[pick(rank[b])][b]
    <3> HIDE DEF f
    <3> QED
      BY <1>0, <1>4, <2>1, <2>2, SMTT(60) DEF Upward
  <2> HIDE DEF f
  <2> QED
    BY <1>3, <2>1, <2>2, <2>3 DEF Solved
<1>6. H[f] = f
  <2>1. H[f] \in [D -> V]
    BY <1>0, <1>4
  <2> HIDE DEF f
  <2> QED
    BY <1>4, <1>5, <2>1
<1> QED
  BY <1>4, <1>6 DEF Solvable

=============================================================================
