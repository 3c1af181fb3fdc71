------------------------- MODULE TrieNodeTableProofs --------------------------
(***************************************************************************)
(* Theorems about TrieNodeTable, for every set of bytes.                   *)
(*                                                                         *)
(* The walk over the bytes depends on the bitsets alone.  Of a bitset the  *)
(* proof needs which numbers it has (Has), and that FromWord finds the     *)
(* least of those that are left from a word on.                            *)
(***************************************************************************)
EXTENDS TrieNodeTable, CommonLemmas

USE DEF WordBits, Words

BitsT == [Words -> SUBSET (0 .. 63)]

\* The numbers in a bitset.
Has(bits) == {i \in 0 .. 255 : Get(bits, i)}

\* Only the bytes used are ever set.
BitsOK ==
  /\ valuePresence \in BitsT /\ childPresence \in BitsT
  /\ Has(valuePresence) \subseteq Keys /\ Has(childPresence) \subseteq Keys

\* A number and the place of its bit.
LEMMA BitPlace ==
  /\ \A i \in 0 .. 255 : i \div 64 \in Words /\ i % 64 \in 0 .. 63 /\ (i \div 64) * 64 + (i % 64) = i
  /\ \A w \in Words, b \in 0 .. 63 :
       w * 64 + b \in 0 .. 255 /\ (w * 64 + b) \div 64 = w /\ (w * 64 + b) % 64 = b
<1>1. \A i \in 0 .. 255 : i \div 64 \in Words /\ i % 64 \in 0 .. 63 /\ (i \div 64) * 64 + (i % 64) = i
  OBVIOUS
<1>2. ASSUME NEW w \in Words, NEW b \in 0 .. 63
      PROVE  w * 64 + b \in 0 .. 255 /\ (w * 64 + b) \div 64 = w /\ (w * 64 + b) % 64 = b
  <2>1. w = 0 \/ w = 1 \/ w = 2 \/ w = 3
    OBVIOUS
  <2> QED
    BY <2>1
<1> QED
  BY <1>1, <1>2

\* The earlier of two words has the smaller numbers.
LEMMA WordsOrdered ==
  ASSUME NEW w \in Words, NEW b \in 0 .. 63, NEW x \in Words, NEW c \in 0 .. 63
  PROVE  w * 64 + b <= x * 64 + c <=> w < x \/ (w = x /\ b <= c)
OBVIOUS

\* Setting and clearing.
LEMMA SetHas ==
  ASSUME NEW bits \in BitsT, NEW k \in 0 .. 255
  PROVE  Set(bits, k) \in BitsT /\ Has(Set(bits, k)) = Has(bits) \cup {k}
<1>1. Set(bits, k) \in BitsT
  BY BitPlace DEF Set, BitsT
<1>2. \A i \in 0 .. 255 : Get(Set(bits, k), i) <=> Get(bits, i) \/ i = k
  BY BitPlace DEF Set, Get, BitsT
<1> QED
  BY <1>1, <1>2 DEF Has

LEMMA ClearHas ==
  ASSUME NEW bits \in BitsT, NEW k \in 0 .. 255
  PROVE  Clear(bits, k) \in BitsT /\ Has(Clear(bits, k)) = Has(bits) \ {k}
<1>1. Clear(bits, k) \in BitsT
  BY BitPlace DEF Clear, BitsT
<1>2. \A i \in 0 .. 255 : Get(Clear(bits, k), i) <=> Get(bits, i) /\ i # k
  BY BitPlace DEF Clear, Get, BitsT
<1> QED
  BY <1>1, <1>2, SMTT(60) DEF Has

\* A set of bytes that is not empty has a least and a greatest one, and they are
\* what the operators say.
LEMMA Outmost ==
  ASSUME NEW S \in SUBSET (0 .. 255), S # {}
  PROVE  /\ Min(S) \in S /\ \A x \in S : Min(S) <= x
         /\ Max(S) \in S /\ \A x \in S : x <= Max(S)
<1>1. \E m \in S : \A k \in S : m <= k
  BY LeastNat
<1>2. \E m \in S : \A k \in S : k <= m
  <2>1. S \in SUBSET Nat /\ 255 \in Nat /\ \A k \in S : k <= 255
    OBVIOUS
  <2> QED
    BY <2>1, GreatestNat, ZenonT(90)
<1> QED
  BY <1>1, <1>2 DEF Min, Max

\* What is said of the least of a set says which one it is.
LeastOf(S) == IF S = {} THEN Nil ELSE Min(S)
GreatestOf(S) == IF S = {} THEN Nil ELSE Max(S)

LEMMA LeastIs ==
  ASSUME NEW S \in SUBSET (0 .. 255), NEW m \in S, \A x \in S : m <= x
  PROVE  LeastOf(S) = m
<1>1. Min(S) \in S /\ Min(S) <= m /\ m <= Min(S)
  BY Outmost, ZenonT(90)
<1>2. \A x, y \in 0 .. 255 : x <= y /\ y <= x => x = y
  OBVIOUS
<1>3. Min(S) = m
  BY <1>1, <1>2, ZenonT(90)
<1> QED
  BY <1>3 DEF LeastOf

LEMMA GreatestIs ==
  ASSUME NEW S \in SUBSET (0 .. 255), NEW m \in S, \A x \in S : x <= m
  PROVE  GreatestOf(S) = m
<1>1. Max(S) \in S /\ Max(S) <= m /\ m <= Max(S)
  BY Outmost, ZenonT(90)
<1>2. \A x, y \in 0 .. 255 : x <= y /\ y <= x => x = y
  OBVIOUS
<1>3. Max(S) = m
  BY <1>1, <1>2, ZenonT(90)
<1> QED
  BY <1>3 DEF GreatestOf

\* The walk through the words finds the least number that is left.
LEMMA FromWordLeast ==
  ASSUME NEW bits \in BitsT, NEW from \in Words, NEW mask \in SUBSET (0 .. 63)
  PROVE  FromWord(bits, from, mask) =
           LeastOf({i \in Has(bits) : /\ from * 64 <= i
                                      /\ i < from * 64 + 64 => i % 64 \notin mask})
<1> DEFINE left == [w \in from .. 3 |-> IF w = from THEN bits[w] \ mask ELSE bits[w]]
           full == {w \in from .. 3 : left[w] # {}}
           S == {i \in Has(bits) : from * 64 <= i /\ (i < from * 64 + 64 => i % 64 \notin mask)}
<1>1. \A w \in from .. 3 : w \in Words /\ left[w] \in SUBSET (0 .. 63)
  BY DEF BitsT
<1>2. \A w \in from .. 3 : \A b \in left[w] : w * 64 + b \in S
  BY <1>1, BitPlace, SMTT(60) DEF Has, Get
<1>3. \A i \in S : i \div 64 \in from .. 3 /\ i % 64 \in left[i \div 64]
  <2>1. SUFFICES ASSUME NEW i \in S PROVE i \div 64 \in from .. 3 /\ i % 64 \in left[i \div 64]
    OBVIOUS
  <2>2. i \in 0 .. 255 /\ i % 64 \in bits[i \div 64] /\ from * 64 <= i
        /\ (i < from * 64 + 64 => i % 64 \notin mask)
    BY DEF Has, Get
  <2>3. i \div 64 \in Words /\ i = (i \div 64) * 64 + (i % 64) /\ i % 64 \in 0 .. 63
    BY <2>2, BitPlace
  <2>4. i \div 64 \in from .. 3
    BY <2>2, <2>3
  <2>5. i \div 64 = from => i < from * 64 + 64
    BY <2>3
  <2> QED
    BY <2>2, <2>4, <2>5
<1>4. FromWord(bits, from, mask) = IF full = {} THEN Nil ELSE Min(full) * 64 + Min(left[Min(full)])
  BY DEF FromWord
<1>5. CASE full = {}
  <2>1. S = {}
    BY <1>3, <1>5, ZenonT(90)
  <2> QED
    BY <1>4, <1>5, <2>1 DEF LeastOf
<1>6. CASE full # {}
  <2>1. full \in SUBSET (0 .. 255)
    OBVIOUS
  <2>2. PICK w : w = Min(full)
    OBVIOUS
  <2>3. w \in full /\ \A x \in full : w <= x
    <3> HIDE DEF full
    <3> QED
      BY <1>6, <2>1, <2>2, Outmost
  <2>4. left[w] \in SUBSET (0 .. 255) /\ left[w] \in SUBSET (0 .. 63) /\ left[w] # {}
    BY <1>1, <2>3
  <2>5. PICK b : b = Min(left[w])
    OBVIOUS
  <2>6. b \in left[w] /\ \A x \in left[w] : b <= x
    <3> HIDE DEF left
    <3> QED
      BY <2>4, <2>5, Outmost
  <2>7. w * 64 + b \in S
    BY <1>2, <2>3, <2>6
  <2>8. \A i \in S : w * 64 + b <= i
    <3>1. SUFFICES ASSUME NEW i \in S PROVE w * 64 + b <= i
      OBVIOUS
    <3>2. i \div 64 \in full /\ i % 64 \in left[i \div 64] /\ i \in 0 .. 255
      BY <1>3 DEF Has
    <3>3. w <= i \div 64 /\ w \in Words
      BY <1>1, <2>3, <3>2
    <3>4. i = (i \div 64) * 64 + (i % 64) /\ i % 64 \in 0 .. 63 /\ i \div 64 \in Words
      BY <3>2, BitPlace
    <3>5. b \in 0 .. 63
      BY <2>4, <2>6, ZenonT(90)
    <3>6. w = i \div 64 => b <= i % 64
      BY <2>6, <3>2
    <3>7. w < i \div 64 \/ w = i \div 64
      BY <3>3, <3>4
    <3>8. w * 64 + b <= (i \div 64) * 64 + (i % 64)
      BY <3>3, <3>4, <3>5, <3>6, <3>7, WordsOrdered
    <3> QED
      BY <3>4, <3>8
  <2>9. S \in SUBSET (0 .. 255)
    BY DEF Has
  <2>10. FromWord(bits, from, mask) = w * 64 + b
    <3> HIDE DEF left, full
    <3> QED
      BY <1>4, <1>6, <2>2, <2>5
  <2>11. LeastOf(S) = w * 64 + b
    <3> HIDE DEF S, left, full
    <3> QED
      BY <2>7, <2>8, <2>9, LeastIs
  <2> QED
    BY <2>10, <2>11
<1> QED
  BY <1>5, <1>6

\* What each of the walks finds in a bitset.
LEMMA FirstSetLeast ==
  ASSUME NEW bits \in BitsT
  PROVE  FirstSet(bits) = LeastOf(Has(bits))
<1>1. {i \in Has(bits) : 0 * 64 <= i /\ (i < 0 * 64 + 64 => i % 64 \notin {})} = Has(bits)
  BY DEF Has
<1> QED
  BY <1>1, FromWordLeast DEF FirstSet

LEMMA NextSetLeast ==
  ASSUME NEW bits \in BitsT, NEW k \in 0 .. 255
  PROVE  /\ NextSet(bits, k) = LeastOf({i \in Has(bits) : i > k})
         /\ NextSetOrThis(bits, k) = LeastOf({i \in Has(bits) : i >= k})
<1>1. k \div 64 \in Words /\ k % 64 \in 0 .. 63 /\ (k \div 64) * 64 + (k % 64) = k
  BY BitPlace
<1>2. 0 .. k % 64 \in SUBSET (0 .. 63) /\ 0 .. (k % 64) - 1 \in SUBSET (0 .. 63)
  BY <1>1
<1>3. \A i \in 0 .. 255 : (/\ (k \div 64) * 64 <= i
                           /\ i < (k \div 64) * 64 + 64 => i % 64 \notin 0 .. k % 64) <=> i > k
  BY <1>1, BitPlace
<1>4. \A i \in 0 .. 255 : (/\ (k \div 64) * 64 <= i
                           /\ i < (k \div 64) * 64 + 64 => i % 64 \notin 0 .. (k % 64) - 1) <=> i >= k
  BY <1>1, BitPlace
<1>5. Has(bits) \subseteq 0 .. 255
  BY DEF Has
<1>6. {i \in Has(bits) : (k \div 64) * 64 <= i /\ (i < (k \div 64) * 64 + 64 => i % 64 \notin 0 .. k % 64)}
         = {i \in Has(bits) : i > k}
  BY <1>3, <1>5, SMTT(60)
<1>7. {i \in Has(bits) : (k \div 64) * 64 <= i /\ (i < (k \div 64) * 64 + 64 => i % 64 \notin 0 .. (k % 64) - 1)}
         = {i \in Has(bits) : i >= k}
  BY <1>4, <1>5, SMTT(60)
<1>8. NextSet(bits, k) = LeastOf({i \in Has(bits) : i > k})
  BY <1>1, <1>2, <1>6, FromWordLeast, SMTT(60) DEF NextSet
<1>9. NextSetOrThis(bits, k) = LeastOf({i \in Has(bits) : i >= k})
  <2>1. NextSetOrThis(bits, k) = FromWord(bits, k \div 64, 0 .. (k % 64) - 1)
    BY DEF NextSetOrThis
  <2>2. FromWord(bits, k \div 64, 0 .. (k % 64) - 1) =
          LeastOf({i \in Has(bits) : /\ (k \div 64) * 64 <= i
                                     /\ i < (k \div 64) * 64 + 64 => i % 64 \notin 0 .. (k % 64) - 1})
    BY <1>1, <1>2, FromWordLeast, SMTT(60)
  <2> QED
    BY <1>7, <2>1, <2>2
<1> QED
  BY <1>8, <1>9

LEMMA LastSetGreatest ==
  ASSUME NEW bits \in BitsT
  PROVE  LastSet(bits) = GreatestOf(Has(bits))
<1> DEFINE full == {w \in Words : bits[w] # {}}
<1>1. \A w \in Words : bits[w] \in SUBSET (0 .. 63) /\ \A b \in bits[w] : w * 64 + b \in Has(bits)
  BY BitPlace DEF Has, Get, BitsT
<1>2. \A i \in Has(bits) : i \div 64 \in full /\ i % 64 \in bits[i \div 64] /\ i \in 0 .. 255
  BY BitPlace DEF Has, Get
<1>3. LastSet(bits) = IF full = {} THEN Nil ELSE Max(full) * 64 + Max(bits[Max(full)])
  BY DEF LastSet
<1>4. CASE full = {}
  <2>1. Has(bits) = {}
    BY <1>2, <1>4
  <2> QED
    BY <1>3, <1>4, <2>1 DEF GreatestOf
<1>5. CASE full # {}
  <2>1. full \in SUBSET (0 .. 255)
    OBVIOUS
  <2>2. PICK w : w = Max(full)
    OBVIOUS
  <2>3. w \in full /\ \A x \in full : x <= w
    <3> HIDE DEF full
    <3> QED
      BY <1>5, <2>1, <2>2, Outmost
  <2>4. bits[w] \in SUBSET (0 .. 255) /\ bits[w] \in SUBSET (0 .. 63) /\ bits[w] # {} /\ w \in Words
    BY <1>1, <2>3
  <2>5. PICK b : b = Max(bits[w])
    OBVIOUS
  <2>6. b \in bits[w] /\ \A x \in bits[w] : x <= b
    BY <2>4, <2>5, Outmost
  <2>7. w * 64 + b \in Has(bits)
    BY <1>1, <2>4, <2>6
  <2>8. \A i \in Has(bits) : i <= w * 64 + b
    <3>1. SUFFICES ASSUME NEW i \in Has(bits) PROVE i <= w * 64 + b
      OBVIOUS
    <3>2. i \div 64 \in full /\ i % 64 \in bits[i \div 64] /\ i \in 0 .. 255
      BY <1>2
    <3>3. i \div 64 <= w
      BY <2>3, <3>2
    <3>4. i = (i \div 64) * 64 + (i % 64) /\ i % 64 \in 0 .. 63 /\ i \div 64 \in Words
      BY <3>2, BitPlace
    <3>5. b \in 0 .. 63
      BY <2>4, <2>6
    <3>6. w = i \div 64 => i % 64 <= b
      BY <2>6, <3>2
    <3>7. i \div 64 < w \/ w = i \div 64
      BY <2>4, <3>3, <3>4
    <3>8. (i \div 64) * 64 + (i % 64) <= w * 64 + b
      BY <2>4, <3>4, <3>5, <3>6, <3>7, WordsOrdered
    <3> QED
      BY <3>4, <3>8
  <2>9. Has(bits) \in SUBSET (0 .. 255)
    BY DEF Has
  <2>10. LastSet(bits) = w * 64 + b
    <3> HIDE DEF full
    <3> QED
      BY <1>3, <1>5, <2>2, <2>5
  <2> HIDE DEF full
  <2> QED
    BY <2>7, <2>8, <2>9, <2>10, GreatestIs
<1> QED
  BY <1>4, <1>5

\* Of two walks, the nearer answer is the least of both sets.
LEMMA NearerLeast ==
  ASSUME NEW S \in SUBSET (0 .. 255), NEW T \in SUBSET (0 .. 255)
  PROVE  Nearer(LeastOf(S), LeastOf(T)) = LeastOf(S \cup T)
<1>1. CASE S = {}
  BY <1>1 DEF Nearer, LeastOf
<1>2. CASE S # {} /\ T = {}
  <2>1. Min(S) \in 0 .. 255
    BY <1>2, Outmost, ZenonT(90)
  <2>3. Min(S) # Nil
    BY <2>1, KeysAssumption
  <2>2. S \cup T = S
    BY <1>2
  <2> QED
    BY <1>2, <2>3, <2>2 DEF Nearer, LeastOf
<1>3. CASE S # {} /\ T # {}
  <2>1. PICK s, t : s = Min(S) /\ t = Min(T)
    OBVIOUS
  <2>2. s \in S /\ t \in T /\ (\A x \in S : s <= x) /\ (\A x \in T : t <= x)
    BY <1>3, <2>1, Outmost
  <2>3. s # Nil /\ t # Nil
    BY <2>2, KeysAssumption, SMTT(60)
  <2>4. Nearer(s, t) = Min({s, t})
    BY <2>3 DEF Nearer
  <2>5. {s, t} \in SUBSET (0 .. 255) /\ {s, t} # {}
    BY <2>2
  <2>6. PICK m : m = Min({s, t})
    OBVIOUS
  <2>7. m \in {s, t} /\ m <= s /\ m <= t
    BY <2>5, <2>6, Outmost, SMTT(60)
  <2>8. m \in S \cup T /\ \A x \in S \cup T : m <= x
    BY <2>2, <2>7
  <2>9. LeastOf(S \cup T) = m
    BY <2>8, LeastIs
  <2>10. LeastOf(S) = s /\ LeastOf(T) = t
    BY <1>3, <2>1, ZenonT(90) DEF LeastOf
  <2> QED
    BY <2>4, <2>6, <2>9, <2>10
<1> QED
  BY <1>1, <1>2, <1>3

\* The walk over both bitsets.
LEMMA BitsWalk == BitsOK => WalkInOrder
<1>1. SUFFICES ASSUME BitsOK PROVE WalkInOrder
  OBVIOUS
<1> DEFINE C == Has(childPresence)
           V == Has(valuePresence)
           present == {k \in Keys : Presence(k)}
           After(k) == {n \in present : n > k}
<1>2. C \in SUBSET (0 .. 255) /\ V \in SUBSET (0 .. 255) /\ childPresence \in BitsT
      /\ valuePresence \in BitsT
  BY <1>1, SMTT(60) DEF BitsOK, Has
<1>3. present = C \cup V
  BY <1>1, KeysAssumption, ZenonT(90) DEF BitsOK, Has, Presence
<1>4. PresenceFirstSet = LeastOf(present)
  <2> HIDE DEF C, V, present
  <2> QED
    BY <1>2, <1>3, FirstSetLeast, NearerLeast, SMTT(60) DEF PresenceFirstSet, C, V
<1>5. PresenceLastSet = GreatestOf(present)
  <2>1. PresenceLastSet = LET a == GreatestOf(C)
                              b == GreatestOf(V)
                          IN  IF a = Nil THEN b ELSE IF b = Nil THEN a ELSE Max({a, b})
    BY <1>2, LastSetGreatest DEF PresenceLastSet
  <2> HIDE DEF C, V, present
  <2>2. CASE C = {}
    BY <1>3, <2>1, <2>2 DEF GreatestOf
  <2>3. CASE C # {} /\ V = {}
    <3>3. Max(C) \in 0 .. 255
      BY <1>2, <2>3, Outmost, ZenonT(90)
    <3>1. Max(C) # Nil
      BY <3>3, KeysAssumption
    <3>2. present = C
      BY <1>3, <2>3
    <3> QED
      BY <2>1, <2>3, <3>1, <3>2 DEF GreatestOf
  <2>4. CASE C # {} /\ V # {}
    <3>1. PICK s, t : s = Max(C) /\ t = Max(V)
      OBVIOUS
    <3>2. s \in C /\ t \in V /\ (\A x \in C : x <= s) /\ (\A x \in V : x <= t)
      BY <1>2, <2>4, <3>1, Outmost
    <3>3. s # Nil /\ t # Nil
      BY <1>2, <3>2, KeysAssumption, SMTT(60)
    <3>4. PresenceLastSet = Max({s, t})
      BY <2>1, <2>4, <3>1, <3>3 DEF GreatestOf
    <3>5. {s, t} \in SUBSET (0 .. 255) /\ {s, t} # {}
      BY <1>2, <3>2
    <3>6. PICK m : m = Max({s, t})
      OBVIOUS
    <3>7. m \in {s, t} /\ s <= m /\ t <= m
      BY <3>5, <3>6, Outmost, SMTT(60)
    <3>8. m \in present /\ \A x \in present : x <= m
      BY <1>2, <1>3, <3>2, <3>7
    <3> QED
      BY <1>2, <1>3, <3>4, <3>6, <3>8, GreatestIs, ZenonT(90)
  <2> QED
    BY <2>2, <2>3, <2>4
<1>6. \A k \in Keys : PresenceNextSet(k) = LeastOf(After(k))
  <2>1. SUFFICES ASSUME NEW k \in Keys PROVE PresenceNextSet(k) = LeastOf(After(k))
    OBVIOUS
  <2>2. k \in 0 .. 255
    BY KeysAssumption
  <2>3. After(k) = {i \in C : i > k} \cup {i \in V : i > k}
    BY <1>3
  <2>4. {i \in C : i > k} \in SUBSET (0 .. 255) /\ {i \in V : i > k} \in SUBSET (0 .. 255)
    <3> HIDE DEF C, V
    <3> QED
      BY <1>2, ZenonT(90)
  <2>5. PresenceNextSet(k) = Nearer(LeastOf({i \in C : i > k}), LeastOf({i \in V : i > k}))
    BY <1>2, <2>2, NextSetLeast, ZenonT(90) DEF PresenceNextSet
  <2> HIDE DEF C, V, present
  <2> QED
    BY <2>3, <2>4, <2>5, NearerLeast, SMTT(60)
<1>7. \A k \in Keys : PresenceNextSetOrThis(k) = LeastOf(After(k) \cup ({k} \cap present))
  <2>1. SUFFICES ASSUME NEW k \in Keys
                 PROVE PresenceNextSetOrThis(k) = LeastOf(After(k) \cup ({k} \cap present))
    OBVIOUS
  <2>2. k \in 0 .. 255
    BY KeysAssumption
  <2>3. After(k) \cup ({k} \cap present) = {i \in C : i >= k} \cup {i \in V : i >= k}
    <3> HIDE DEF C, V, present
    <3>1. \A i \in C \cup V : i >= k <=> i > k \/ i = k
      BY <1>2, <2>2
    <3> QED
      BY <1>3, <3>1
  <2>4. {i \in C : i >= k} \in SUBSET (0 .. 255) /\ {i \in V : i >= k} \in SUBSET (0 .. 255)
    <3> HIDE DEF C, V
    <3> QED
      BY <1>2, ZenonT(90)
  <2>5. PresenceNextSetOrThis(k) = Nearer(LeastOf({i \in C : i >= k}), LeastOf({i \in V : i >= k}))
    BY <1>2, <2>2, NextSetLeast, ZenonT(90) DEF PresenceNextSetOrThis
  <2> HIDE DEF C, V, present
  <2> QED
    BY <2>3, <2>4, <2>5, NearerLeast, SMTT(60)
<1> QED
  BY <1>4, <1>5, <1>6, <1>7 DEF WalkInOrder, LeastOf, GreatestOf

\* Nothing but the bytes used is set, by any operation.
LEMMA BitsStep == BitsOK /\ [NodeStep]_vars => BitsOK'
<1>1. SUFFICES ASSUME BitsOK, [NodeStep]_vars PROVE BitsOK'
  OBVIOUS
<1>2. NoBits \in BitsT /\ Has(NoBits) = {}
  BY BitPlace DEF NoBits, BitsT, Has, Get
<1>3. \A k \in Keys : k \in 0 .. 255
  BY KeysAssumption
<1>4. \A k \in Keys, bits \in BitsT : Has(bits) \subseteq Keys =>
        /\ Set(bits, k) \in BitsT /\ Has(Set(bits, k)) \subseteq Keys
        /\ Clear(bits, k) \in BitsT /\ Has(Clear(bits, k)) \subseteq Keys
  <2>1. SUFFICES ASSUME NEW k \in Keys, NEW bits \in BitsT, Has(bits) \subseteq Keys
                 PROVE  /\ Set(bits, k) \in BitsT /\ Has(Set(bits, k)) \subseteq Keys
                        /\ Clear(bits, k) \in BitsT /\ Has(Clear(bits, k)) \subseteq Keys
    OBVIOUS
  <2>2. k \in 0 .. 255
    BY <1>3
  <2>3. Set(bits, k) \in BitsT /\ Has(Set(bits, k)) = Has(bits) \cup {k}
    BY <2>2, SetHas, Zenon
  <2>4. Clear(bits, k) \in BitsT /\ Has(Clear(bits, k)) = Has(bits) \ {k}
    BY <2>2, ClearHas, Zenon
  <2> QED
    BY <2>1, <2>3, <2>4, Zenon
<1>5. CASE EraseAll
  BY <1>2, <1>5 DEF EraseAll, BitsOK
<1>6. ASSUME NEW k \in Keys, NEW v, NEW stem, Insert(k, v, stem) PROVE BitsOK'
  BY <1>1, <1>4, <1>6 DEF Insert, BitsOK
<1>7. ASSUME NEW k \in Keys, Erase(k) PROVE BitsOK'
  BY <1>1, <1>4, <1>7 DEF Erase, BitsOK
<1>8. ASSUME NEW k \in Keys, SetChild(k) PROVE BitsOK'
  BY <1>1, <1>4, <1>8 DEF SetChild, BitsOK
<1>9. ASSUME NEW k \in Keys, RemoveChild(k) PROVE BitsOK'
  BY <1>1, <1>4, <1>9 DEF RemoveChild, BitsOK
<1>10. ASSUME NEW k \in Keys, NEW v, SetValue(k, v) PROVE BitsOK'
  BY <1>1, <1>4, <1>10 DEF SetValue, BitsOK
<1>11. ASSUME NEW k \in Keys, NEW left, MoveTo(k, left) PROVE BitsOK'
  BY <1>1, <1>4, <1>11 DEF MoveTo, BitsOK
<1>12. CASE UNCHANGED vars
  BY <1>1, <1>12 DEF vars, BitsOK
<1> QED
  BY <1>1, <1>5, <1>6, <1>7, <1>8, <1>9, <1>10, <1>11, <1>12 DEF NodeStep

\* The walk over the bytes of a node, by four words of bits for the values and
\* four for the children, meets those present in their order and no other.
THEOREM WalksAreInOrder == Spec => []WalkInOrder
<1>1. NoBits \in BitsT /\ Has(NoBits) = {}
  BY BitPlace DEF NoBits, BitsT, Has, Get
<1>2. Init => BitsOK
  BY <1>1 DEF Init, BitsOK
<1> QED
  BY <1>2, BitsStep, BitsWalk, PTL DEF Spec

===============================================================================
