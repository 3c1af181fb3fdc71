------------------------------ MODULE FileProofs ------------------------------
(***************************************************************************)
(* Theorems about the files: the append-only log, the skip list on it and  *)
(* the fixed slot of the segments.                                         *)
(***************************************************************************)
EXTENDS Storage, SkipList, CommonLemmas, SequenceTheorems

-----------------------------------------------------------------------------
(***************************************************************************)
(* The log.  The sizes in the file link the entries in the order of their  *)
(* allocation, and a walk meets them all.                                  *)
(*                                                                         *)
(* What the lock protects is one record, so that most lemmas are about     *)
(* what an operation returns for it.  Segs says how the segments that are  *)
(* mapped, asked for, counted by the header and in the file bound each     *)
(* other; Linked says how the entries follow each other.  An entry comes   *)
(* after all those before it (Before), so that the size that an            *)
(* allocation stores is that of no older entry but the last.               *)
(***************************************************************************)

Address == Nat \X Nat
Sizes == UNION {[D -> Nat] : D \in SUBSET Address}
LogT == [first : Address, end : Address, last : Address, count : Nat, file : Nat,
         size : Sizes, sized : Nat, mapped : SUBSET Nat, queue : SUBSET Nat, jobs : Nat,
         made : Seq(Address)]

Segs(l) ==
  /\ 1 <= l.count /\ l.count <= l.file /\ l.sized <= l.file
  /\ l.sized = 0 => l.mapped = {} /\ l.queue = {} /\ l.count = 1
  /\ l.sized # 0 => l.count <= l.sized
  /\ \A i \in l.mapped : i < l.count
  /\ \A i \in l.queue : i <= l.sized

\* The first address comes before the second.
Before(a, b) == a[1] < b[1] \/ (a[1] = b[1] /\ a[2] < b[2])

Linked(l) ==
  /\ l.first = <<0, HeaderSize>> /\ l.end[2] < LogSegmentSize
  /\ \A i \in DOMAIN l.made :
       /\ l.made[i] \in DOMAIN l.size /\ l.made[i][1] < l.count
       /\ l.made[i] = IF i = 1 THEN l.first ELSE After(l.made[i - 1], l.size[l.made[i - 1]])
       /\ Before(l.made[i], l.end)
  /\ \A i, j \in DOMAIN l.made : i < j => Before(l.made[i], l.made[j])
  /\ l.made = <<>> => l.end = l.first
  /\ l.made # <<>> => /\ l.last = l.made[Len(l.made)] /\ l.last[1] = l.end[1]
                      /\ l.size[l.last] = l.end[2] - l.last[2]

-----------------------------------------------------------------------------
(* Segments.                                                               *)

\* More segments, and nothing else.
Grown(l, r) ==
  /\ r.first = l.first /\ r.end = l.end /\ r.last = l.last /\ r.size = l.size /\ r.made = l.made
  /\ l.count <= r.count

LEMMA EnsuredIs ==
  ASSUME NEW l \in LogT, Segs(l), NEW index \in Nat, NEW hint
  PROVE  /\ Ensured(l, index, hint) \in LogT /\ Segs(Ensured(l, index, hint))
         /\ Grown(l, Ensured(l, index, hint)) /\ index < Ensured(l, index, hint).count
<1> DEFINE sized == IF index >= l.sized THEN index + 1 ELSE l.sized
           fresh == index \notin l.mapped
           ahead == IF hint = "query_next" THEN {index + 1} \ (l.mapped \cup l.queue) ELSE {}
           r == Ensured(l, index, hint)
<1>1. Cardinality(ahead) \in Nat /\ ahead \in SUBSET {index + 1}
  <2>1. IsFiniteSet({index + 1}) /\ ahead \in SUBSET {index + 1}
    BY FS_Singleton
  <2> HIDE DEF ahead
  <2>2. IsFiniteSet(ahead)
    BY <2>1, FS_Subset
  <2> QED
    BY <2>1, <2>2, FS_CardinalityType
<1>2. /\ l.count \in Nat /\ l.file \in Nat /\ l.sized \in Nat /\ l.jobs \in Nat
      /\ l.mapped \in SUBSET Nat /\ l.queue \in SUBSET Nat
  BY DEF LogT
<1>3. /\ sized \in Nat /\ sized > index /\ sized >= l.sized
      /\ l.jobs + Cardinality(ahead) \in Nat /\ l.queue \cup ahead \in SUBSET Nat
      /\ l.mapped \cup {index} \in SUBSET Nat
  <2>1. l.jobs + Cardinality(ahead) \in Nat /\ ahead \in SUBSET Nat
    <3> HIDE DEF ahead
    <3> QED
      BY <1>1, <1>2
  <2> HIDE DEF ahead
  <2>2. sized \in Nat /\ sized > index /\ sized >= l.sized
    BY <1>2
  <2>3. l.queue \cup ahead \in SUBSET Nat /\ l.mapped \cup {index} \in SUBSET Nat
    BY <1>2, <2>1
  <2> QED
    BY <2>1, <2>2, <2>3
<1>4. r = [l EXCEPT !.sized = sized,
               !.file = IF index >= l.sized THEN sized ELSE l.file,
               !.mapped = l.mapped \cup {index},
               !.count = IF fresh /\ index > 0 THEN sized ELSE l.count,
               !.queue = l.queue \cup ahead,
               !.jobs = l.jobs + Cardinality(ahead)]
  BY DEF Ensured
<1> HIDE DEF ahead, r
<1>5. /\ r \in LogT /\ r.sized = sized /\ r.file = (IF index >= l.sized THEN sized ELSE l.file)
      /\ r.mapped = l.mapped \cup {index}
      /\ r.count = (IF fresh /\ index > 0 THEN sized ELSE l.count)
      /\ r.queue = l.queue \cup ahead
      /\ r.first = l.first /\ r.end = l.end /\ r.last = l.last /\ r.size = l.size /\ r.made = l.made
  <2> HIDE DEF sized
  <2> QED
    BY <1>2, <1>3, <1>4, ZenonT(90) DEF LogT
<1>6. /\ l.count <= r.count /\ index < r.count /\ 1 <= r.count /\ r.count <= r.file
      /\ r.sized <= r.file /\ r.sized # 0 /\ r.count <= r.sized
  BY <1>2, <1>3, <1>5 DEF Segs
<1>7. \A i \in r.mapped : i < r.count
  BY <1>2, <1>5, <1>6, SMTT(60) DEF Segs, LogT
<1>8. \A i \in r.queue : i <= r.sized
  BY <1>1, <1>2, <1>3, <1>5 DEF Segs
<1> QED
  BY <1>5, <1>6, <1>7, <1>8 DEF Segs, Grown, r

LEMMA TouchedIs ==
  ASSUME NEW l \in LogT, Segs(l), NEW address \in Address, NEW bytes
  PROVE  /\ Touched(l, address, bytes) \in LogT /\ Segs(Touched(l, address, bytes))
         /\ Grown(l, Touched(l, address, bytes)) /\ address[1] < Touched(l, address, bytes).count
<1>1. PICK hint : Touched(l, address, bytes) = Ensured(l, address[1], hint)
  BY DEF Touched
<1>2. address[1] \in Nat
  BY DEF Address
<1> QED
  BY <1>1, <1>2, EnsuredIs

\* The task of the thread pool.
LEMMA AllEnsuredIs ==
  ASSUME NEW l \in LogT, Segs(l)
  PROVE  /\ AllEnsured(l, l.queue) \in LogT /\ Segs(AllEnsured(l, l.queue))
         /\ Grown(l, AllEnsured(l, l.queue)) /\ AllEnsured(l, l.queue).jobs = l.jobs
<1> DEFINE all == {l.sized} \cup {i + 1 : i \in l.queue}
           sized == Max(all)
           old == l.queue \subseteq l.mapped \cup {0}
           r == AllEnsured(l, l.queue)
<1>1. /\ l.count \in Nat /\ l.file \in Nat /\ l.sized \in Nat /\ l.jobs \in Nat
      /\ l.mapped \in SUBSET Nat /\ l.queue \in SUBSET Nat
  BY DEF LogT
<1>2. sized \in all /\ \A i \in all : sized >= i
  <2>1. all \in SUBSET Nat /\ all # {} /\ l.sized + 1 \in Nat /\ \A i \in all : i <= l.sized + 1
    BY <1>1 DEF Segs
  <2> HIDE DEF all
  <2>2. \E m \in all : \A k \in all : k <= m
    BY <2>1, GreatestNat
  <2>3. \E m \in all : \A k \in all : m >= k
    BY <2>1, <2>2
  <2> QED
    BY <2>3 DEF Max
<1>3. sized \in Nat /\ sized >= l.sized /\ \A i \in l.queue : i < sized
  <2> HIDE DEF sized
  <2> QED
    BY <1>1, <1>2, SMTT(60)
<1>4. r = [l EXCEPT !.sized = sized, !.file = IF sized > l.sized THEN sized ELSE l.file,
               !.mapped = l.mapped \cup l.queue, !.count = IF old THEN l.count ELSE sized]
  BY DEF AllEnsured
<1> HIDE DEF sized, r
<1>5. /\ r \in LogT /\ r.sized = sized /\ r.file = (IF sized > l.sized THEN sized ELSE l.file)
      /\ r.mapped = l.mapped \cup l.queue /\ r.count = (IF old THEN l.count ELSE sized)
      /\ r.queue = l.queue /\ r.jobs = l.jobs
      /\ r.first = l.first /\ r.end = l.end /\ r.last = l.last /\ r.size = l.size /\ r.made = l.made
  BY <1>1, <1>3, <1>4, ZenonT(90) DEF LogT
<1>6. CASE l.sized = 0
  <2>1. l.queue = {} /\ l.mapped = {} /\ l.count = 1
    BY <1>6 DEF Segs
  <2>2. sized = 0 /\ old
    <3>1. all = {0}
      BY <1>6, <2>1
    <3> QED
      BY <1>2, <2>1, <3>1
  <2> QED
    BY <1>5, <1>6, <2>1, <2>2 DEF Segs, Grown, r
<1>7. CASE l.sized # 0
  <2>1. /\ l.count <= r.count /\ 1 <= r.count /\ r.count <= r.file /\ r.sized <= r.file
        /\ r.sized # 0 /\ r.count <= r.sized
    BY <1>1, <1>3, <1>5, <1>7 DEF Segs
  <2>2. \A i \in r.mapped : i < r.count
    BY <1>1, <1>3, <1>5 DEF Segs
  <2>3. \A i \in r.queue : i <= r.sized
    BY <1>1, <1>3, <1>5
  <2> QED
    BY <1>5, <2>1, <2>2, <2>3 DEF Segs, Grown, r
<1> QED
  BY <1>6, <1>7

LEMMA LinkedKept ==
  ASSUME NEW l \in LogT, NEW r \in LogT, Linked(l), Grown(l, r)
  PROVE  Linked(r)
<1>1. l.count \in Nat /\ r.count \in Nat /\ l.made \in Seq(Address)
  BY DEF LogT
<1>2. \A i \in DOMAIN l.made : l.made[i][1] \in Nat
  BY <1>1 DEF Address
<1> QED
  BY <1>1, <1>2, SMTT(60) DEF Linked, Grown


-----------------------------------------------------------------------------
(* Allocation.                                                             *)

\* An entry fits behind the header.
LEMMA RealSizeIs ==
  ASSUME NEW bytes \in EntryBytes
  PROVE  RealSize(bytes) \in Nat /\ RealSize(bytes) >= 1 /\ HeaderSize + RealSize(bytes) < LogSegmentSize
<1>1. /\ HeaderSize + EntryHead + bytes + LogAlignment <= LogSegmentSize
      /\ bytes \in Nat \ {0} /\ LogAlignment \in Nat \ {0} /\ EntryHead \in Nat \ {0}
      /\ HeaderSize \in Nat \ {0} /\ LogSegmentSize \in Nat \ {0}
  BY LogAssumption
<1>2. EntryAligned(bytes) \in Nat /\ EntryAligned(bytes) <= bytes + LogAlignment - 1
  <2> DEFINE q == (bytes + LogAlignment - 1) \div LogAlignment
  <2>1. q \in Nat /\ q * LogAlignment <= bytes + LogAlignment - 1 /\ q * LogAlignment \in Nat
    <3>1. \A x \in Nat, d \in Nat \ {0} : x \div d \in Nat /\ (x \div d) * d <= x
      <4>1. ASSUME NEW x \in Nat, NEW d \in Nat \ {0} PROVE x \div d \in Nat /\ (x \div d) * d <= x
        BY Z3
      <4> QED
        BY <4>1
    <3>2. bytes + LogAlignment - 1 \in Nat
      BY <1>1
    <3>3. q \in Nat /\ q * LogAlignment <= bytes + LogAlignment - 1
      BY <1>1, <3>1, <3>2
    <3>4. \A x \in Nat, d \in Nat : x * d \in Nat
      OBVIOUS
    <3> QED
      BY <1>1, <3>3, <3>4
  <2> HIDE DEF q
  <2> QED
    BY <2>1 DEF EntryAligned, q
<1> QED
  BY <1>1, <1>2 DEF RealSize


LEMMA SizedIs ==
  ASSUME NEW l \in LogT, NEW address \in Address, NEW n \in Nat
  PROVE  LET r == Sized(l, address, n)
         IN  /\ r \in LogT /\ r.size[address] = n /\ DOMAIN r.size = DOMAIN l.size \cup {address}
             /\ \A a \in DOMAIN l.size \ {address} : r.size[a] = l.size[a]
             /\ r.first = l.first /\ r.end = l.end /\ r.last = l.last /\ r.count = l.count
             /\ r.file = l.file /\ r.sized = l.sized /\ r.mapped = l.mapped /\ r.queue = l.queue
             /\ r.made = l.made
<1> DEFINE size == [a \in DOMAIN l.size \cup {address} |-> IF a = address THEN n ELSE l.size[a]]
<1>1. l.size \in Sizes
  BY DEF LogT
<1>2. PICK D \in SUBSET Address : l.size \in [D -> Nat]
  BY <1>1 DEF Sizes
<1>3. size \in [D \cup {address} -> Nat] /\ D \cup {address} \in SUBSET Address
  BY <1>2
<1>4. size \in Sizes
  <2> HIDE DEF size
  <2> QED
    BY <1>3 DEF Sizes
<1>5. /\ size[address] = n /\ DOMAIN size = DOMAIN l.size \cup {address}
      /\ \A a \in DOMAIN l.size \ {address} : size[a] = l.size[a]
  OBVIOUS
<1>6. Sized(l, address, n) = [l EXCEPT !.size = size]
  BY DEF Sized
<1> HIDE DEF size
<1> QED
  BY <1>4, <1>5, <1>6, ZenonT(90) DEF LogT

\* A place for an entry, behind those that are there.
Ready(l, real) ==
  /\ l.first = <<0, HeaderSize>> /\ l.end[2] < LogSegmentSize
  /\ l.last[1] = l.end[1] /\ l.end[2] = l.last[2] + real
  /\ \A i \in DOMAIN l.made :
       /\ l.made[i] \in DOMAIN l.size /\ l.made[i][1] < l.count
       /\ l.made[i] = IF i = 1 THEN l.first ELSE After(l.made[i - 1], l.size[l.made[i - 1]])
       /\ Before(l.made[i], l.last)
  /\ \A i, j \in DOMAIN l.made : i < j => Before(l.made[i], l.made[j])
  /\ l.last = IF l.made = <<>> THEN l.first
              ELSE After(l.made[Len(l.made)], l.size[l.made[Len(l.made)]])

\* The entry takes its place.
Settled(l, real) ==
  [Sized(Touched(l, l.last, real), l.last, real) EXCEPT !.made = Append(@, l.last)]

LEMMA SettledIs ==
  ASSUME NEW l \in LogT, Segs(l), NEW real \in Nat, real >= 1, Ready(l, real)
  PROVE  /\ Settled(l, real) \in LogT /\ Segs(Settled(l, real)) /\ Linked(Settled(l, real))
         /\ Settled(l, real).made = Append(l.made, l.last) /\ Settled(l, real).end = l.end
<1> DEFINE u == Touched(l, l.last, real)
           v == Sized(u, l.last, real)
           r == Settled(l, real)
           n == Len(l.made)
<1>1. /\ l.last \in Address /\ l.made \in Seq(Address) /\ l.end \in Address /\ n \in Nat
      /\ l.count \in Nat /\ DOMAIN l.made = 1 .. n
  BY DEF LogT
<1>2. u \in LogT /\ Segs(u) /\ Grown(l, u) /\ l.last[1] < u.count
  BY <1>1, TouchedIs
<1> HIDE DEF u
<1>3. /\ v \in LogT /\ v.size[l.last] = real /\ DOMAIN v.size = DOMAIN u.size \cup {l.last}
      /\ \A a \in DOMAIN u.size \ {l.last} : v.size[a] = u.size[a]
      /\ v.first = u.first /\ v.end = u.end /\ v.last = u.last /\ v.count = u.count
      /\ v.file = u.file /\ v.sized = u.sized /\ v.mapped = u.mapped /\ v.queue = u.queue
      /\ v.made = u.made
  BY <1>1, <1>2, SizedIs, ZenonT(90)
<1> HIDE DEF v
<1>4. r = [v EXCEPT !.made = Append(v.made, l.last)] /\ Append(v.made, l.last) \in Seq(Address)
  BY <1>1, <1>2, <1>3 DEF Settled, u, v, Grown
<1> HIDE DEF r
<1>5. /\ r \in LogT /\ r.made = Append(l.made, l.last)
      /\ r.size = v.size /\ r.first = l.first /\ r.end = l.end /\ r.last = l.last
      /\ r.count = u.count /\ r.file = u.file /\ r.sized = u.sized /\ r.mapped = u.mapped
      /\ r.queue = u.queue
  <2>1. v.made = l.made /\ v.first = l.first /\ v.end = l.end /\ v.last = l.last
    BY <1>2, <1>3 DEF Grown
  <2> QED
    BY <1>3, <1>4, <2>1 DEF LogT
<1>6. Segs(r)
  BY <1>2, <1>5 DEF Segs
<1>7. /\ r.made \in Seq(Address) /\ Len(r.made) = n + 1 /\ DOMAIN r.made = 1 .. n + 1
      /\ \A i \in 1 .. n : r.made[i] = l.made[i] /\ l.made[i] \in Address
      /\ r.made[n + 1] = l.last
  BY <1>1, <1>5
<1>8. \A i \in 1 .. n : l.made[i] # l.last /\ l.made[i] \in DOMAIN l.size
                        /\ r.size[l.made[i]] = l.size[l.made[i]] /\ r.size[l.last] = real
  <2>1. \A a \in Address : ~Before(a, a)
    BY DEF Before, Address
  <2>2. u.size = l.size
    BY <1>2, SMTT(60) DEF Grown
  <2>3. ASSUME NEW i \in 1 .. n PROVE l.made[i] # l.last /\ l.made[i] \in DOMAIN l.size
    BY <1>1, <2>1, <2>3 DEF Ready
  <2> QED
    BY <1>3, <1>5, <2>2, <2>3
<1>9. Linked(r)
  <2>1. /\ r.first = <<0, HeaderSize>> /\ r.end[2] < LogSegmentSize
        /\ r.made # <<>> /\ r.last = r.made[Len(r.made)] /\ r.last[1] = r.end[1]
    BY <1>5, <1>7, SMTT(60) DEF Ready
  <2>2. r.size[r.last] = real /\ r.size[r.last] = r.end[2] - r.last[2] /\ l.last[2] \in Nat
    <3>1. r.size[r.last] = real
      BY <1>3, <1>5, SMTT(60)
    <3>2. l.end[2] \in Nat /\ l.last[2] \in Nat /\ l.end[2] = l.last[2] + real
      BY <1>1, SMTT(60) DEF Ready, Address
    <3> QED
      BY <1>5, <3>1, <3>2
  <2>3. Before(l.last, l.end)
    BY <1>1, <2>2 DEF Ready, Before, Address
  <2>4. \A a, b, c \in Address : Before(a, b) /\ Before(b, c) => Before(a, c)
    BY SMTT(60) DEF Before, Address
  <2>5. ASSUME NEW i \in 1 .. n
        PROVE  /\ r.made[i] \in DOMAIN r.size /\ r.made[i][1] < r.count /\ Before(r.made[i], r.end)
               /\ r.made[i] = IF i = 1 THEN r.first ELSE After(r.made[i - 1], r.size[r.made[i - 1]])
    <3>1. /\ l.made[i] \in DOMAIN l.size /\ l.made[i][1] < l.count /\ Before(l.made[i], l.last)
          /\ l.made[i] = IF i = 1 THEN l.first ELSE After(l.made[i - 1], l.size[l.made[i - 1]])
      BY <1>1 DEF Ready
    <3>2. i # 1 => i - 1 \in 1 .. n /\ r.made[i - 1] = l.made[i - 1]
                   /\ r.size[l.made[i - 1]] = l.size[l.made[i - 1]]
      BY <1>1, <1>7, <1>8, SMTT(60)
    <3>3. DOMAIN l.size \subseteq DOMAIN r.size /\ l.count <= r.count /\ r.count \in Nat
      BY <1>2, <1>3, <1>5 DEF Grown, LogT
    <3>4. r.made[i] = l.made[i] /\ l.made[i] \in Address /\ l.made[i][1] \in Nat
      BY <1>7 DEF Address
    <3>5. Before(r.made[i], r.end)
      BY <1>1, <1>5, <2>3, <2>4, <3>1, <3>4
    <3> QED
      BY <1>1, <1>5, <3>1, <3>2, <3>3, <3>4, <3>5, SMTT(60)
  <2>6. /\ r.made[n + 1] \in DOMAIN r.size /\ r.made[n + 1][1] < r.count /\ Before(r.made[n + 1], r.end)
        /\ r.made[n + 1] = IF n + 1 = 1 THEN r.first
                           ELSE After(r.made[n + 1 - 1], r.size[r.made[n + 1 - 1]])
    <3>1. r.made[n + 1] \in DOMAIN r.size /\ r.made[n + 1][1] < r.count /\ Before(r.made[n + 1], r.end)
      BY <1>2, <1>3, <1>5, <1>7, <2>3, SMTT(60)
    <3>2. CASE n = 0
      <4>1. l.made = <<>>
        BY <1>1, <3>2, SMTT(60)
      <4> QED
        BY <1>5, <1>7, <3>1, <3>2, <4>1 DEF Ready
    <3>3. CASE n # 0
      <4>1. l.made # <<>> /\ n + 1 - 1 = n /\ n \in 1 .. n
        BY <1>1, <3>3
      <4>2. l.last = After(l.made[n], l.size[l.made[n]])
        BY <4>1 DEF Ready
      <4> QED
        BY <1>7, <1>8, <3>1, <3>3, <4>1, <4>2, SMTT(60)
    <3> QED
      BY <3>2, <3>3
  <2>7. ASSUME NEW i \in DOMAIN r.made, NEW j \in DOMAIN r.made, i < j PROVE Before(r.made[i], r.made[j])
    <3>1. i \in 1 .. n
      BY <1>1, <1>7, <2>7
    <3>2. CASE j = n + 1
      BY <1>1, <1>7, <3>1, <3>2 DEF Ready
    <3>3. CASE j \in 1 .. n
      BY <1>1, <1>7, <2>7, <3>1, <3>3 DEF Ready
    <3> QED
      BY <1>1, <1>7, <3>2, <3>3, SMTT(60)
  <2>8. \A i \in DOMAIN r.made : i \in 1 .. n \/ i = n + 1
    BY <1>1, <1>7, SMTT(60)
  <2>9. \A i \in DOMAIN r.made :
          /\ r.made[i] \in DOMAIN r.size /\ r.made[i][1] < r.count
          /\ r.made[i] = IF i = 1 THEN r.first ELSE After(r.made[i - 1], r.size[r.made[i - 1]])
          /\ Before(r.made[i], r.end)
    BY <2>5, <2>6, <2>8, SMTT(60)
  <2>10. /\ r.made = <<>> => r.end = r.first
         /\ r.made # <<>> => /\ r.last = r.made[Len(r.made)] /\ r.last[1] = r.end[1]
                             /\ r.size[r.last] = r.end[2] - r.last[2]
    BY <2>1, <2>2
  <2>11. \A i, j \in DOMAIN r.made : i < j => Before(r.made[i], r.made[j])
    BY <2>7
  <2> QED
    BY <2>1, <2>9, <2>10, <2>11 DEF Linked
<1> QED
  BY <1>5, <1>6, <1>9 DEF r


\* An entry that fits in its segment.
LEMMA BehindIs ==
  ASSUME NEW l \in LogT, Segs(l), Linked(l), NEW real \in Nat, real >= 1,
         l.end[2] + real < LogSegmentSize
  PROVE  /\ Behind(l, real) \in LogT /\ Segs(Behind(l, real)) /\ Ready(Behind(l, real), real)
         /\ Behind(l, real).made = l.made /\ Behind(l, real).last = l.end
<1> DEFINE r == Behind(l, real)
           end == <<l.end[1], l.end[2] + real>>
           n == Len(l.made)
<1>1. /\ l.last \in Address /\ l.made \in Seq(Address) /\ l.end \in Address /\ n \in Nat
      /\ l.end[1] \in Nat /\ l.end[2] \in Nat /\ l.end = <<l.end[1], l.end[2]>>
      /\ l.last = <<l.last[1], l.last[2]>> /\ l.last[2] \in Nat
  BY SMTT(60) DEF LogT, Address
<1>2. end \in Address /\ end[1] = l.end[1] /\ end[2] = l.end[2] + real
  BY <1>1, SMTT(60) DEF Address
<1>3. r = [l EXCEPT !.last = l.end, !.end = end]
  BY DEF Behind
<1> HIDE DEF r, end
<1>4. /\ r \in LogT /\ r.last = l.end /\ r.end = end /\ r.made = l.made /\ r.size = l.size
      /\ r.first = l.first /\ r.count = l.count /\ r.file = l.file /\ r.sized = l.sized
      /\ r.mapped = l.mapped /\ r.queue = l.queue
  BY <1>1, <1>2, <1>3 DEF LogT
<1>5. Segs(r)
  BY <1>4 DEF Segs
<1>6. l.made # <<>> => l.end = After(l.made[n], l.size[l.made[n]])
  <2>1. CASE l.made # <<>>
    <3>1. l.last = l.made[n] /\ l.last[1] = l.end[1] /\ l.size[l.last] = l.end[2] - l.last[2]
      BY <2>1 DEF Linked
    <3>2. l.last[2] + (l.end[2] - l.last[2]) = l.end[2] /\ ~(l.end[2] >= LogSegmentSize)
      <4>1. LogSegmentSize \in Nat
        BY LogAssumption
      <4> QED
        BY <1>1, <4>1, SMTT(60) DEF Linked
    <3> QED
      BY <1>1, <3>1, <3>2 DEF After
  <2> QED
    BY <2>1
<1>7. Ready(r, real)
  BY <1>2, <1>4, <1>6 DEF Ready, Linked
<1> QED
  BY <1>4, <1>5, <1>7 DEF r

\* One that opens a segment: the last entry takes the rest of its own.
LEMMA RolledIs ==
  ASSUME NEW l \in LogT, Segs(l), Linked(l), NEW real \in Nat, real >= 1, real < LogSegmentSize,
         l.made # <<>>
  PROVE  /\ Rolled(l, real) \in LogT /\ Segs(Rolled(l, real)) /\ Ready(Rolled(l, real), real)
         /\ Rolled(l, real).made = l.made
<1> DEFINE u == Touched(l, l.last, EntryHead)
           rest == LogSegmentSize - l.end[2]
           next == l.end[1] + 1
           r == Rolled(l, real)
           n == Len(l.made)
<1>1. /\ l.last \in Address /\ l.made \in Seq(Address) /\ l.end \in Address /\ n \in Nat
      /\ l.end[1] \in Nat /\ l.end[2] \in Nat /\ n \in DOMAIN l.made
      /\ l.last[1] \in Nat /\ l.last[2] \in Nat /\ DOMAIN l.made = 1 .. n
      /\ LogSegmentSize \in Nat
  <2>1. /\ l.last \in Address /\ l.made \in Seq(Address) /\ l.end \in Address
        /\ LogSegmentSize \in Nat
    BY LogAssumption DEF LogT
  <2>2. n \in Nat /\ DOMAIN l.made = 1 .. n /\ n \in DOMAIN l.made
    BY <2>1
  <2>3. l.end[1] \in Nat /\ l.end[2] \in Nat /\ l.last[1] \in Nat /\ l.last[2] \in Nat
    BY <2>1 DEF Address
  <2> QED
    BY <2>1, <2>2, <2>3
<1>2. /\ l.last = l.made[n] /\ l.last \in DOMAIN l.size /\ l.last[1] = l.end[1]
      /\ l.size[l.last] = l.end[2] - l.last[2] /\ l.last[2] < l.end[2]
  <2>1. l.made # <<>>
    BY <1>1
  <2>2. l.last = l.made[n] /\ l.last[1] = l.end[1] /\ l.size[l.last] = l.end[2] - l.last[2]
    BY <2>1 DEF Linked
  <2>3. l.made[n] \in DOMAIN l.size /\ Before(l.made[n], l.end)
    BY <1>1 DEF Linked
  <2>4. Before(l.last, l.end)
    BY <2>2, <2>3
  <2>5. l.last[2] < l.end[2]
    BY <1>1, <2>2, <2>4 DEF Before
  <2> QED
    BY <2>2, <2>3, <2>5
<1>3. PICK m \in Nat : m = SizeAt(l, l.last) + rest /\ m = LogSegmentSize - l.last[2]
  <2>1. SizeAt(l, l.last) + rest = LogSegmentSize - l.last[2] /\ SizeAt(l, l.last) + rest \in Nat
    BY <1>1, <1>2, SMTT(60) DEF SizeAt, Linked
  <2> QED
    BY <2>1
<1> DEFINE v == Sized(u, l.last, m)
<1>4. u \in LogT /\ Segs(u) /\ Grown(l, u) /\ l.last \in Address
  BY <1>1, TouchedIs
<1> HIDE DEF u, rest
<1>5. /\ v \in LogT /\ v.size[l.last] = m
      /\ DOMAIN v.size = DOMAIN u.size \cup {l.last}
      /\ \A a \in DOMAIN u.size \ {l.last} : v.size[a] = u.size[a]
      /\ v.first = u.first /\ v.end = u.end /\ v.last = u.last /\ v.count = u.count
      /\ v.file = u.file /\ v.sized = u.sized /\ v.mapped = u.mapped /\ v.queue = u.queue
      /\ v.made = u.made
  BY <1>4, SizedIs, SMTT(60)
<1>6. r = [v EXCEPT !.end = <<next, real>>, !.last = <<next, 0>>]
  BY <1>3 DEF Rolled, u, rest
<1>7. <<next, real>> \in Address /\ <<next, 0>> \in Address
  BY <1>1, SMTT(60) DEF Address
<1> HIDE DEF v, r
<1>8. /\ r \in LogT /\ r.last = <<next, 0>> /\ r.end = <<next, real>> /\ r.made = l.made
      /\ r.size = v.size /\ r.first = l.first /\ r.count = u.count /\ r.file = u.file
      /\ r.sized = u.sized /\ r.mapped = u.mapped /\ r.queue = u.queue
  BY <1>4, <1>5, <1>6, <1>7 DEF LogT, Grown
<1>9. Segs(r)
  BY <1>4, <1>8 DEF Segs
<1>10. r.last = After(l.last, r.size[l.last])
  <2>1. l.last[2] + (LogSegmentSize - l.last[2]) >= LogSegmentSize
    BY <1>1
  <2> QED
    BY <1>2, <1>3, <1>5, <1>8, <2>1 DEF After
<1>11. \A i \in 1 .. n : i < n => r.size[l.made[i]] = l.size[l.made[i]]
  <2>1. \A a \in Address : ~Before(a, a)
    BY DEF Before, Address
  <2>2. u.size = l.size
    BY <1>4 DEF Grown
  <2>3. ASSUME NEW i \in 1 .. n, i < n PROVE l.made[i] # l.last /\ l.made[i] \in DOMAIN l.size
    BY <1>1, <1>2, <2>1, <2>3, ZenonT(90) DEF Linked
  <2> QED
    BY <1>5, <1>8, <2>2, <2>3
<1>12. Ready(r, real)
  <2>1. /\ r.first = <<0, HeaderSize>> /\ r.end[2] < LogSegmentSize /\ r.last[1] = r.end[1]
        /\ r.end[2] = r.last[2] + real
    BY <1>1, <1>8, SMTT(60) DEF Linked
  <2>2. ASSUME NEW i \in 1 .. n
        PROVE  /\ r.made[i] \in DOMAIN r.size /\ r.made[i][1] < r.count
               /\ r.made[i] = IF i = 1 THEN r.first ELSE After(r.made[i - 1], r.size[r.made[i - 1]])
               /\ Before(r.made[i], r.last)
    <3>1. /\ l.made[i] \in DOMAIN l.size /\ l.made[i][1] < l.count /\ Before(l.made[i], l.end)
          /\ l.made[i] = IF i = 1 THEN l.first ELSE After(l.made[i - 1], l.size[l.made[i - 1]])
          /\ l.made[i] \in Address
      BY <1>1, SMTT(60) DEF Linked
    <3>2. i # 1 => i - 1 \in 1 .. n /\ i - 1 < n /\ r.size[l.made[i - 1]] = l.size[l.made[i - 1]]
      BY <1>1, <1>11
    <3>3. DOMAIN l.size \subseteq DOMAIN r.size /\ l.count <= r.count /\ r.count \in Nat /\ l.count \in Nat
      BY <1>4, <1>5, <1>8, SMTT(60) DEF Grown, LogT
    <3>4. l.made[i][1] \in Nat
      BY <3>1, SMTT(60) DEF Address
    <3>5. Before(l.made[i], r.last)
      BY <1>1, <1>8, <3>1, <3>4, SMTT(60) DEF Before
    <3> QED
      BY <1>8, <3>1, <3>2, <3>3, <3>4, <3>5
  <2>3. \A i, j \in DOMAIN r.made : i < j => Before(r.made[i], r.made[j])
    BY <1>8 DEF Linked
  <2>4. r.last = IF r.made = <<>> THEN r.first ELSE After(r.made[Len(r.made)], r.size[r.made[Len(r.made)]])
    BY <1>2, <1>8, <1>10
  <2> QED
    BY <1>1, <1>8, <2>1, <2>2, <2>3, <2>4 DEF Ready
<1> QED
  BY <1>8, <1>9, <1>12 DEF r

\* The address at which a walk that has met k entries stands.
NextAt(l, k) == IF k < Len(l.made) THEN l.made[k + 1] ELSE l.end

LEMMA AllocatedIs ==
  ASSUME NEW l \in LogT, Segs(l), Linked(l), NEW bytes \in EntryBytes
  PROVE  LET r == Allocated(l, bytes)
         IN  /\ r \in LogT /\ Segs(r) /\ Linked(r)
             /\ Len(r.made) = Len(l.made) + 1 /\ \A i \in DOMAIN l.made : r.made[i] = l.made[i]
             /\ ~Rolls(l, bytes) => \A k \in 0 .. Len(l.made) : NextAt(r, k) = NextAt(l, k)
<1> DEFINE real == RealSize(bytes)
           base == Touched(l, <<0, 0>>, HeaderSize)
           placed == IF Rolls(l, bytes) THEN Rolled(base, real) ELSE Behind(base, real)
           r == Allocated(l, bytes)
<1>1. real \in Nat /\ real >= 1 /\ HeaderSize + real < LogSegmentSize /\ real < LogSegmentSize
      /\ HeaderSize \in Nat /\ LogSegmentSize \in Nat
  BY RealSizeIs, LogAssumption
<1>2. Rolls(l, bytes) <=> l.end[2] + real >= LogSegmentSize
  BY DEF Rolls
<1> HIDE DEF real
<1>3. base \in LogT /\ Segs(base) /\ Grown(l, base) /\ Linked(base)
  <2>1. <<0, 0>> \in Address
    BY DEF Address
  <2>2. base \in LogT /\ Segs(base) /\ Grown(l, base)
    BY <2>1, TouchedIs
  <2> HIDE DEF base
  <2> QED
    BY <2>2, LinkedKept
<1>4. base.made = l.made /\ base.end = l.end /\ l.end[2] \in Nat /\ l.made \in Seq(Address)
      /\ l.end \in Address
  BY <1>3 DEF Grown, LogT, Address
<1>5. r = Settled(placed, real)
  BY DEF Allocated, Settled, real
<1> HIDE DEF base, r
<1>6. CASE ~Rolls(l, bytes)
  <2>1. /\ placed \in LogT /\ Segs(placed) /\ Ready(placed, real)
        /\ placed.made = l.made /\ placed.last = l.end
    BY <1>1, <1>2, <1>3, <1>4, <1>6, BehindIs, SMTT(60)
  <2> HIDE DEF placed
  <2>2. r \in LogT /\ Segs(r) /\ Linked(r) /\ r.made = Append(l.made, l.end)
    BY <1>1, <1>5, <2>1, SettledIs
  <2>3. Len(r.made) = Len(l.made) + 1 /\ (\A i \in DOMAIN l.made : r.made[i] = l.made[i])
        /\ r.made[Len(l.made) + 1] = l.end /\ Len(l.made) \in Nat /\ DOMAIN l.made = 1 .. Len(l.made)
    BY <1>4, <2>2
  <2>4. ASSUME NEW k \in 0 .. Len(l.made) PROVE NextAt(r, k) = NextAt(l, k)
    <3>1. CASE k = Len(l.made)
      BY <2>3, <3>1 DEF NextAt
    <3>2. CASE k < Len(l.made)
      BY <2>3, <3>2, SMTT(60) DEF NextAt
    <3> QED
      BY <2>3, <3>1, <3>2
  <2> QED
    BY <2>2, <2>3, <2>4 DEF r
<1>7. CASE Rolls(l, bytes)
  <2>1. l.made # <<>>
    <3>1. l.made = <<>> => l.end[2] = HeaderSize
      BY DEF Linked
    <3> QED
      BY <1>1, <1>2, <1>7, <3>1
  <2>2. /\ placed \in LogT /\ Segs(placed) /\ Ready(placed, real) /\ placed.made = l.made
    BY <1>1, <1>3, <1>4, <1>7, <2>1, RolledIs
  <2> HIDE DEF placed
  <2>3. r \in LogT /\ Segs(r) /\ Linked(r) /\ r.made = Append(l.made, placed.last)
    BY <1>1, <1>5, <2>2, SettledIs
  <2>4. Len(r.made) = Len(l.made) + 1 /\ \A i \in DOMAIN l.made : r.made[i] = l.made[i]
    <3>1. placed.last \in Address
      BY <2>2 DEF LogT
    <3> QED
      BY <1>4, <2>3, <3>1
  <2> QED
    BY <1>7, <2>3, <2>4 DEF r
<1> QED
  BY <1>6, <1>7


-----------------------------------------------------------------------------
(* Walks.                                                                  *)

WalkT == [pc : {"idle", "look", "add", "over"}, at : Address, end : Address,
          seen : Seq(Address), past : Nat, quit : BOOLEAN]

LogType == log \in LogT /\ walk \in [LogReader -> WalkT]

\* The entries of a log are sound, and so are its segments.
LogInv == LogType /\ Segs(log) /\ Linked(log)

\* A walk has met the first entries, in their order; it stands at the next one,
\* or at the end, and the end it remembers is not behind it.
OnTheWay(w, l) ==
  /\ Len(w.seen) <= Len(l.made) /\ \A i \in 1 .. Len(w.seen) : w.seen[i] = l.made[i]
  /\ w.past <= Len(l.made)
  /\ w.pc = "look" => w.at = NextAt(l, Len(w.seen))
  /\ w.pc = "add" => w.seen # <<>> /\ w.at = l.made[Len(w.seen)]
  /\ w.pc \in {"look", "add"} => \E m \in Len(w.seen) .. Len(l.made) : w.end = NextAt(l, m)
  /\ w.pc = "over" /\ ~w.quit => w.past <= Len(w.seen)

WalkOK(r) == IF walk[r].pc = "idle" THEN walk[r].seen = <<>> ELSE OnTheWay(walk[r], log)

WalkInv == LogInv /\ \A r \in LogReader : WalkOK(r)

LEMMA NoWalkIs == NoWalk \in WalkT /\ NoWalk.pc = "idle" /\ NoWalk.seen = <<>>
<1>1. <<0, 0>> \in Address /\ <<>> \in Seq(Address)
  BY DEF Address
<1> QED
  BY <1>1 DEF NoWalk, WalkT

LEMMA InitLog == LogInit => WalkInv
<1> SUFFICES ASSUME LogInit PROVE WalkInv
  OBVIOUS
<1>1. HeaderSize \in Nat /\ HeaderSize < LogSegmentSize /\ <<0, HeaderSize>> \in Address
  BY LogAssumption DEF Address
<1>2. <<>> \in Sizes
  <2>1. <<>> \in [{} -> Nat]
    OBVIOUS
  <2>2. {} \in SUBSET Address
    OBVIOUS
  <2> QED
    BY <2>1, <2>2 DEF Sizes
<1>3. NewLog \in LogT
  BY <1>1, <1>2 DEF NewLog, LogT
<1>4. Segs(NewLog) /\ Linked(NewLog)
  BY <1>1 DEF NewLog, Segs, Linked
<1>5. walk \in [LogReader -> WalkT] /\ \A r \in LogReader : WalkOK(r)
  BY NoWalkIs DEF LogInit, WalkOK
<1> QED
  BY <1>3, <1>4, <1>5 DEF LogInit, WalkInv, LogInv, LogType

\* More segments leave a walk where it is.
LEMMA GrownWalk ==
  ASSUME NEW w, NEW l, NEW r, OnTheWay(w, l), Grown(l, r)
  PROVE  OnTheWay(w, r)
BY DEF OnTheWay, Grown, NextAt


LEMMA AfterIs ==
  ASSUME NEW a \in Address, NEW n \in Nat
  PROVE  After(a, n) \in Address /\ After(a, n)[1] \in Nat
BY DEF After, Address

LEMMA SizeAtIs ==
  ASSUME NEW l \in LogT, NEW a
  PROVE  SizeAt(l, a) \in Nat
<1>1. PICK D \in SUBSET Address : l.size \in [D -> Nat]
  BY DEF LogT, Sizes
<1> QED
  BY <1>1 DEF SizeAt

\* The walk's first look takes the lock and touches the header.
LEMMA StartIs ==
  ASSUME NEW l \in LogT, Segs(l), Linked(l)
  PROVE  LET r == Ensured(Touched(l, <<0, 0>>, HeaderSize), l.first[1], "no")
         IN  r \in LogT /\ Segs(r) /\ Linked(r) /\ Grown(l, r)
<1> DEFINE u == Touched(l, <<0, 0>>, HeaderSize)
           r == Ensured(u, l.first[1], "no")
<1>1. <<0, 0>> \in Address /\ l.first[1] \in Nat
  BY DEF Address, LogT
<1>2. u \in LogT /\ Segs(u) /\ Grown(l, u)
  BY <1>1, TouchedIs
<1> HIDE DEF u
<1>3. r \in LogT /\ Segs(r) /\ Grown(u, r)
  BY <1>1, <1>2, EnsuredIs
<1> HIDE DEF r
<1>4. Grown(l, r)
  <2>1. l.count \in Nat /\ u.count \in Nat /\ r.count \in Nat
    BY <1>2, <1>3 DEF LogT
  <2> QED
    BY <1>2, <1>3, <2>1 DEF Grown
<1> QED
  BY <1>3, <1>4, LinkedKept DEF r, u

LEMMA OpenedIs ==
  ASSUME NEW l \in LogT, Segs(l), Linked(l)
  PROVE  OpenedLog(l) \in LogT /\ Segs(OpenedLog(l)) /\ Grown(l, OpenedLog(l))
<1> DEFINE r == OpenedLog(l)
<1>1. /\ l.count \in Nat /\ 1 <= l.count /\ l.count <= l.file
      /\ {0} \in SUBSET Nat /\ {} \in SUBSET Nat
  BY DEF LogT, Segs
<1>2. r = [l EXCEPT !.sized = l.count, !.mapped = {0}, !.queue = {}, !.jobs = 0]
  BY DEF OpenedLog
<1> HIDE DEF r
<1>3. /\ r \in LogT /\ r.sized = l.count /\ r.mapped = {0} /\ r.queue = {}
      /\ r.first = l.first /\ r.end = l.end /\ r.last = l.last /\ r.size = l.size /\ r.made = l.made
      /\ r.count = l.count /\ r.file = l.file
  BY <1>1, <1>2 DEF LogT
<1>4. Segs(r) /\ Grown(l, r)
  BY <1>1, <1>3 DEF Segs, Grown
<1> QED
  BY <1>3, <1>4 DEF r

\* What a step makes of the log, and of the walks that it does not move.
LEMMA LogSteps ==
  ASSUME LogInv, [LogNext]_logVars
  PROVE  /\ LogInv'
         /\ Grown(log, log') \/ (walk' = walk /\ \E bytes \in EntryBytes : Construct(bytes))
<1>1. log \in LogT /\ Segs(log) /\ Linked(log) /\ walk \in [LogReader -> WalkT] /\ log.count \in Nat
  BY DEF LogInv, LogType, LogT
<1>2. Grown(log, log)
  BY <1>1 DEF Grown
<1>3. ASSUME NEW bytes \in EntryBytes, Construct(bytes)
      PROVE  LogInv' /\ walk' = walk
  <2>1. log' = Allocated(log, bytes) /\ walk' = walk
    BY <1>3 DEF Construct
  <2> QED
    BY <1>1, <2>1, AllocatedIs DEF LogInv, LogType
<1>4. ASSUME FetchAhead PROVE LogInv' /\ Grown(log, log')
  <2> DEFINE all == AllEnsured(log, log.queue)
  <2>1. /\ log.jobs > 0 /\ log' = [all EXCEPT !.jobs = @ - 1] /\ walk' = walk
    BY <1>4 DEF FetchAhead
  <2>2. all \in LogT /\ Segs(all) /\ Grown(log, all) /\ all.jobs = log.jobs
    BY <1>1, AllEnsuredIs
  <2> HIDE DEF all
  <2>3. all.jobs - 1 \in Nat
    BY <1>1, <2>1, <2>2 DEF LogT
  <2>4. /\ log' \in LogT /\ log'.first = all.first /\ log'.end = all.end /\ log'.last = all.last
        /\ log'.size = all.size /\ log'.made = all.made /\ log'.count = all.count
        /\ log'.file = all.file /\ log'.sized = all.sized /\ log'.mapped = all.mapped
        /\ log'.queue = all.queue
    BY <2>1, <2>2, <2>3 DEF LogT
  <2>5. Segs(log') /\ Grown(log, log')
    BY <2>2, <2>4 DEF Segs, Grown
  <2> QED
    BY <1>1, <2>1, <2>4, <2>5, LinkedKept DEF LogInv, LogType
<1>5. ASSUME Reopen PROVE LogInv' /\ Grown(log, log')
  <2>1. log' = OpenedLog(log) /\ walk' = walk
    BY <1>5 DEF Reopen
  <2> QED
    BY <1>1, <2>1, OpenedIs, LinkedKept DEF LogInv, LogType
<1>6. ASSUME NEW r \in LogReader, WalkStarts(r) PROVE LogInv' /\ Grown(log, log')
  <2>1. log' = Ensured(Touched(log, <<0, 0>>, HeaderSize), log.first[1], "no")
    BY <1>6 DEF WalkStarts
  <2>2. log' \in LogT /\ Segs(log') /\ Linked(log') /\ Grown(log, log')
    BY <1>1, <2>1, StartIs
  <2>3. walk' \in [LogReader -> WalkT]
    <3>1. log.first \in Address /\ log.end \in Address /\ Len(log.made) \in Nat
      BY <1>1 DEF LogT
    <3>2. [NoWalk EXCEPT !.pc = "look", !.at = log.first, !.end = log.end,
                         !.past = Len(log.made)] \in WalkT
      BY <3>1, NoWalkIs DEF WalkT
    <3> QED
      BY <1>1, <1>6, <3>2 DEF WalkStarts
  <2> QED
    BY <2>2, <2>3 DEF LogInv, LogType
<1>7. ASSUME NEW r \in LogReader, WalkEnds(r) \/ WalkVisits(r) \/ WalkReturns(r)
      PROVE  LogInv' /\ Grown(log, log')
  <2>1. walk[r] \in WalkT /\ log.end \in Address /\ log' = log
    BY <1>1, <1>7 DEF LogT, WalkEnds, WalkVisits, WalkReturns
  <2>2. walk' \in [LogReader -> WalkT]
    <3>1. CASE WalkEnds(r)
      BY <1>1, <2>1, <3>1 DEF WalkEnds, WalkT
    <3>2. CASE WalkReturns(r)
      BY <1>1, <3>2, NoWalkIs DEF WalkReturns
    <3>3. CASE WalkVisits(r)
      <4>1. PICK more \in BOOLEAN :
              walk' = [walk EXCEPT
                ![r].end = IF walk[r].at = walk[r].end THEN log.end ELSE @,
                ![r].seen = Append(@, walk[r].at),
                ![r].pc = IF more THEN "add" ELSE "over",
                ![r].quit = ~more]
        BY <3>3 DEF WalkVisits
      <4>2. /\ (IF walk[r].at = walk[r].end THEN log.end ELSE walk[r].end) \in Address
            /\ Append(walk[r].seen, walk[r].at) \in Seq(Address)
        BY <2>1 DEF WalkT
      <4> QED
        BY <1>1, <2>1, <4>1, <4>2, SMTT(60) DEF WalkT
    <3> QED
      BY <1>7, <3>1, <3>2, <3>3
  <2> QED
    BY <1>1, <1>2, <2>1, <2>2 DEF LogInv, LogType
<1>8. ASSUME NEW r \in LogReader, WalkAdvances(r) PROVE LogInv' /\ Grown(log, log')
  <2> DEFINE next == After(walk[r].at, SizeAt(log, walk[r].at))
  <2>1. walk[r] \in WalkT /\ walk[r].at \in Address
    BY <1>1 DEF WalkT
  <2>2. next \in Address /\ next[1] \in Nat
    BY <1>1, <2>1, SizeAtIs, AfterIs
  <2>3. /\ walk' = [walk EXCEPT ![r].at = next, ![r].pc = "look"]
        /\ log' = Ensured(log, next[1], "no") \/ log' = log
    BY <1>8 DEF WalkAdvances
  <2> HIDE DEF next
  <2>4. log' \in LogT /\ Segs(log') /\ Grown(log, log')
    BY <1>1, <1>2, <2>2, <2>3, EnsuredIs
  <2>5. walk' \in [LogReader -> WalkT]
    BY <1>1, <2>1, <2>2, <2>3 DEF WalkT
  <2> QED
    BY <1>1, <2>4, <2>5, LinkedKept DEF LogInv, LogType
<1>9. CASE UNCHANGED logVars
  BY <1>1, <1>2, <1>9 DEF logVars, LogInv, LogType
<1> QED
  BY <1>3, <1>4, <1>5, <1>6, <1>7, <1>8, <1>9 DEF LogNext


\* An append that opens no segment leaves a walk where it is, too.
LEMMA AllocatedWalk ==
  ASSUME NEW l \in LogT, Segs(l), Linked(l), NEW bytes \in EntryBytes, ~Rolls(l, bytes),
         NEW w \in WalkT, OnTheWay(w, l)
  PROVE  OnTheWay(w, Allocated(l, bytes))
<1> DEFINE r == Allocated(l, bytes)
           k == Len(w.seen)
           n == Len(l.made)
<1>1. /\ Len(r.made) = n + 1 /\ \A i \in DOMAIN l.made : r.made[i] = l.made[i]
      /\ \A m \in 0 .. n : NextAt(r, m) = NextAt(l, m)
  BY AllocatedIs
<1> HIDE DEF r
<1>2. k \in Nat /\ n \in Nat /\ k <= n /\ DOMAIN l.made = 1 .. n /\ w.past \in Nat /\ w.past <= n
      /\ w.seen \in Seq(Address) /\ k \in 0 .. n
  BY DEF OnTheWay, LogT, WalkT
<1>3. \A i \in 1 .. k : w.seen[i] = r.made[i]
  <2>1. \A i \in 1 .. k : i \in DOMAIN l.made
    BY <1>2
  <2>2. \A i \in 1 .. k : w.seen[i] = l.made[i]
    BY Zenon DEF OnTheWay
  <2> QED
    BY <1>1, <2>1, <2>2, Zenon
<1>4. w.pc = "look" => w.at = NextAt(r, k)
  BY <1>1, <1>2 DEF OnTheWay
<1>5. w.pc = "add" => w.seen # <<>> /\ w.at = r.made[k]
  BY <1>1, <1>2, SMTT(60) DEF OnTheWay
<1>6. w.pc \in {"look", "add"} => \E m \in k .. Len(r.made) : w.end = NextAt(r, m)
  <2>1. CASE w.pc \in {"look", "add"}
    <3>1. PICK m \in k .. n : w.end = NextAt(l, m)
      BY <2>1 DEF OnTheWay
    <3>2. m \in 0 .. n /\ m \in k .. Len(r.made)
      BY <1>1, <1>2
    <3> QED
      BY <1>1, <3>1, <3>2
  <2> QED
    BY <2>1
<1>7. k <= Len(r.made) /\ w.past <= Len(r.made)
  BY <1>1, <1>2
<1> QED
  BY <1>3, <1>4, <1>5, <1>6, <1>7 DEF OnTheWay, r

\* A walk's own steps.
LEMMA WalkStep ==
  ASSUME WalkInv, LogInv', NEW r \in LogReader, Grown(log, log'),
         WalkStarts(r) \/ WalkEnds(r) \/ WalkVisits(r) \/ WalkAdvances(r) \/ WalkReturns(r)
  PROVE  WalkInv'
<1> DEFINE w == walk[r]
           k == Len(w.seen)
           n == Len(log.made)
<1>1. /\ log \in LogT /\ Linked(log) /\ walk \in [LogReader -> WalkT] /\ w \in WalkT
      /\ log.made \in Seq(Address) /\ n \in Nat /\ w.seen \in Seq(Address) /\ k \in Nat
      /\ w.at \in Address /\ w.end \in Address /\ log.end \in Address /\ log.first \in Address
  <2>1. log \in LogT /\ Linked(log) /\ walk \in [LogReader -> WalkT] /\ w \in WalkT
    BY DEF WalkInv, LogInv, LogType
  <2>2. log.made \in Seq(Address) /\ log.end \in Address /\ log.first \in Address
    BY <2>1 DEF LogT
  <2>3. w.seen \in Seq(Address) /\ w.at \in Address /\ w.end \in Address
    BY <2>1 DEF WalkT
  <2>4. n \in Nat /\ k \in Nat
    BY <2>2, <2>3, SMTT(60)
  <2> QED
    BY <2>1, <2>2, <2>3, <2>4
<1>2. /\ \A u \in LogReader \ {r} : walk'[u] = walk[u]
  BY <1>1 DEF WalkStarts, WalkEnds, WalkVisits, WalkAdvances, WalkReturns
<1>3. \A u \in LogReader \ {r} : WalkOK(u)'
  BY <1>2, GrownWalk DEF WalkInv, WalkOK
<1>4. SUFFICES WalkOK(r)'
  BY <1>3 DEF WalkInv
<1>5. SUFFICES \/ walk'[r].pc = "idle" /\ walk'[r].seen = <<>>
               \/ walk'[r].pc # "idle" /\ OnTheWay(walk'[r], log)
  BY GrownWalk DEF WalkOK
<1>6. w.pc # "idle" => OnTheWay(w, log)
  BY DEF WalkInv, WalkOK
<1>7. CASE WalkReturns(r)
  BY <1>1, <1>7, NoWalkIs DEF WalkReturns
<1>8. CASE WalkStarts(r)
  <2>1. walk'[r] = [NoWalk EXCEPT !.pc = "look", !.at = log.first, !.end = log.end, !.past = n]
    BY <1>1, <1>8 DEF WalkStarts
  <2>2. /\ walk'[r].pc = "look" /\ walk'[r].at = log.first /\ walk'[r].end = log.end
        /\ walk'[r].past = n /\ walk'[r].seen = <<>>
    BY <2>1 DEF NoWalk
  <2>3. log.first = NextAt(log, 0) /\ log.end = NextAt(log, n) /\ 0 \in 0 .. n /\ n \in 0 .. n
    BY <1>1 DEF Linked, NextAt
  <2> QED
    BY <1>1, <2>2, <2>3 DEF OnTheWay
<1>9. CASE WalkEnds(r)
  <2>1. /\ w.pc = "look" /\ w.at = log.end /\ walk'[r] = [w EXCEPT !.pc = "over"]
    BY <1>1, <1>9 DEF WalkEnds
  <2>2. walk'[r].pc = "over" /\ walk'[r].seen = w.seen /\ walk'[r].past = w.past
    BY <1>1, <2>1 DEF WalkT
  <2>3. k = n
    <3>1. w.at = NextAt(log, k) /\ k <= n
      BY <1>6, <2>1 DEF OnTheWay
    <3>2. ~Before(log.end, log.end)
      BY <1>1, SMTT(60) DEF Before, Address
    <3>3. k < n => Before(log.made[k + 1], log.end)
      BY <1>1 DEF Linked
    <3> QED
      BY <1>1, <2>1, <3>1, <3>2, <3>3 DEF NextAt
  <2> QED
    BY <1>6, <2>1, <2>2, <2>3 DEF OnTheWay
<1>10. CASE WalkVisits(r)
  <2>1. PICK more \in BOOLEAN :
          walk' = [walk EXCEPT
            ![r].end = IF walk[r].at = walk[r].end THEN log.end ELSE @,
            ![r].seen = Append(@, walk[r].at),
            ![r].pc = IF more THEN "add" ELSE "over",
            ![r].quit = ~more]
    BY <1>10, ZenonT(90) DEF WalkVisits
  <2>2. w.pc = "look" /\ (w.at = w.end => w.at # log.end)
    BY <1>10 DEF WalkVisits
  <2>3. /\ walk'[r].end = (IF w.at = w.end THEN log.end ELSE w.end)
        /\ walk'[r].seen = Append(w.seen, w.at) /\ walk'[r].pc = (IF more THEN "add" ELSE "over")
        /\ walk'[r].quit = ~more /\ walk'[r].past = w.past /\ walk'[r].at = w.at
    BY <1>1, <2>1 DEF WalkT
  <2>4. PICK m \in k .. n : w.end = NextAt(log, m)
    BY <1>6, <2>2 DEF OnTheWay
  <2>5. w.at = NextAt(log, k) /\ k <= n /\ (\A i \in 1 .. k : w.seen[i] = log.made[i]) /\ w.past <= n
    BY <1>6, <2>2 DEF OnTheWay
  <2>6. k < n /\ w.at = log.made[k + 1]
    <3>1. CASE w.at = w.end
      BY <1>1, <2>2, <2>5, <3>1 DEF NextAt
    <3>2. CASE w.at # w.end
      BY <1>1, <2>4, <2>5, <3>2 DEF NextAt
    <3> QED
      BY <3>1, <3>2
  <2>7. \E j \in k + 1 .. n : walk'[r].end = NextAt(log, j)
    <3>1. CASE w.at = w.end
      <4>1. n \in k + 1 .. n /\ walk'[r].end = NextAt(log, n)
        BY <1>1, <2>3, <2>6, <3>1 DEF NextAt
      <4> QED
        BY <4>1
    <3>2. CASE w.at # w.end
      <4>1. m \in k + 1 .. n /\ walk'[r].end = NextAt(log, m)
        BY <1>1, <2>3, <2>4, <2>5, <3>2
      <4> QED
        BY <4>1
    <3> QED
      BY <3>1, <3>2
  <2>8. /\ Len(walk'[r].seen) = k + 1 /\ walk'[r].seen # <<>>
        /\ \A i \in 1 .. k + 1 : walk'[r].seen[i] = log.made[i]
    BY <1>1, <2>3, <2>5, <2>6, SMTT(60)
  <2>9. walk'[r].pc \in {"add", "over"} /\ (walk'[r].pc = "over" => walk'[r].quit)
    BY <2>3
  <2>10. Len(walk'[r].seen) <= n /\ walk'[r].past <= n /\ walk'[r].at = log.made[Len(walk'[r].seen)]
    BY <1>1, <2>3, <2>5, <2>6, <2>8
  <2> QED
    BY <2>7, <2>8, <2>9, <2>10, SMTT(60) DEF OnTheWay
<1>11. CASE WalkAdvances(r)
  <2> DEFINE next == After(walk[r].at, SizeAt(log, walk[r].at))
  <2>1. w.pc = "add" /\ walk'[r] = [w EXCEPT !.at = next, !.pc = "look"]
    BY <1>1, <1>11 DEF WalkAdvances
  <2>2. /\ k # 0 /\ k <= n /\ w.at = log.made[k] /\ w.past <= n
        /\ \A i \in 1 .. k : w.seen[i] = log.made[i]
        /\ \E m \in k .. n : w.end = NextAt(log, m)
    BY <1>1, <1>6, <2>1 DEF OnTheWay
  <2>3. w.at \in DOMAIN log.size /\ next = After(log.made[k], log.size[log.made[k]])
    BY <1>1, <2>2 DEF Linked, SizeAt
  <2>4. next = NextAt(log, k)
    <3>1. CASE k < n
      <4>1. k + 1 \in DOMAIN log.made /\ k + 1 # 1 /\ k + 1 - 1 = k
        BY <1>1, <2>2, <3>1
      <4>2. \A i \in DOMAIN log.made :
              i # 1 => log.made[i] = After(log.made[i - 1], log.size[log.made[i - 1]])
        BY <1>1 DEF Linked
      <4>3. PICK j \in DOMAIN log.made : j = k + 1
        BY <4>1
      <4>4. j # 1 /\ j - 1 = k
        BY <1>1, <2>2, <4>3
      <4>5. log.made[j] = After(log.made[k], log.size[log.made[k]])
        BY <4>2, <4>4
      <4> QED
        BY <2>3, <3>1, <4>3, <4>5 DEF NextAt
    <3>2. CASE k = n
      <4>1. /\ log.made # <<>> /\ log.last = log.made[n] /\ log.last[1] = log.end[1]
            /\ log.size[log.last] = log.end[2] - log.last[2] /\ log.end[2] < LogSegmentSize
        BY <1>1, <2>2, <3>2 DEF Linked
      <4>2. /\ log.last \in Address /\ log.last[2] + (log.end[2] - log.last[2]) = log.end[2]
            /\ ~(log.end[2] >= LogSegmentSize) /\ log.end = <<log.end[1], log.end[2]>>
        <5>1. LogSegmentSize \in Nat /\ log.last \in Address
          BY <1>1, LogAssumption DEF LogT
        <5>2. /\ log.end[1] \in Nat /\ log.end[2] \in Nat /\ log.last[2] \in Nat
              /\ log.end = <<log.end[1], log.end[2]>>
          BY <1>1, <5>1, SMTT(60) DEF Address
        <5>3. log.last[2] + (log.end[2] - log.last[2]) = log.end[2]
          BY <5>2
        <5>4. ~(log.end[2] >= LogSegmentSize)
          BY <4>1, <5>1, <5>2
        <5> QED
          BY <5>1, <5>2, <5>3, <5>4
      <4> QED
        BY <2>3, <3>2, <4>1, <4>2 DEF NextAt, After
    <3> QED
      BY <1>1, <2>2, <3>1, <3>2
  <2> HIDE DEF next
  <2>5. /\ walk'[r].pc = "look" /\ walk'[r].at = next /\ walk'[r].seen = w.seen
        /\ walk'[r].end = w.end /\ walk'[r].past = w.past
    BY <1>1, <2>1 DEF WalkT
  <2> QED
    BY <2>2, <2>4, <2>5 DEF OnTheWay
<1> QED
  BY <1>7, <1>8, <1>9, <1>10, <1>11

LEMMA WalkSteps ==
  ASSUME ~RollsUnderWalk, WalkInv, [LogNext]_logVars
  PROVE  WalkInv'
<1>1. LogInv' /\ (Grown(log, log') \/ (walk' = walk /\ \E bytes \in EntryBytes : Construct(bytes)))
  BY LogSteps DEF WalkInv
<1>2. ASSUME NEW bytes \in EntryBytes, Construct(bytes) PROVE WalkInv'
  <2>1. walk' = walk /\ log' = Allocated(log, bytes) /\ (Rolls(log, bytes) => Walking = {})
    BY <1>2 DEF Construct, HasRoom
  <2>2. log \in LogT /\ Segs(log) /\ Linked(log)
    BY DEF WalkInv, LogInv, LogType
  <2>3. ASSUME NEW r \in LogReader PROVE WalkOK(r)'
    <3>1. WalkOK(r) /\ walk[r] \in WalkT
      BY DEF WalkInv, LogInv, LogType
    <3>2. CASE walk[r].pc = "idle"
      BY <2>1, <3>1, <3>2 DEF WalkOK
    <3>3. CASE walk[r].pc # "idle"
      <4>1. ~Rolls(log, bytes)
        BY <2>1, <3>3 DEF Walking
      <4> QED
        BY <2>1, <2>2, <3>1, <3>3, <4>1, AllocatedWalk DEF WalkOK
    <3> QED
      BY <3>2, <3>3
  <2> QED
    BY <1>1, <2>3 DEF WalkInv
<1>3. ASSUME walk' = walk, Grown(log, log') PROVE WalkInv'
  BY <1>1, <1>3, GrownWalk DEF WalkInv, WalkOK
<1>4. CASE ~\E bytes \in EntryBytes : Construct(bytes)
  <2>1. Grown(log, log')
    BY <1>1, <1>4
  <2>2. CASE FetchAhead \/ Reopen \/ UNCHANGED logVars
    BY <1>3, <2>1, <2>2 DEF FetchAhead, Reopen, logVars
  <2>3. CASE \E r \in LogReader : \/ WalkStarts(r) \/ WalkEnds(r) \/ WalkVisits(r)
                                  \/ WalkAdvances(r) \/ WalkReturns(r)
    BY <1>1, <2>1, <2>3, WalkStep
  <2> QED
    BY <1>4, <2>2, <2>3 DEF LogNext
<1> QED
  BY <1>2, <1>4

-----------------------------------------------------------------------------
(* The theorems.                                                           *)

\* The sizes in the file lead from the first entry through all of them to the end
\* (AppendOnlyLog::allocate, ensure_segment and open), whatever segments were
\* opened, fetched ahead by the thread pool, or found again.
THEOREM EntriesAreLinked == LogSpec => []EntriesLink
<1>1. LogInit => LogInv
  BY InitLog DEF WalkInv
<1>2. LogInv /\ [LogNext]_logVars => LogInv'
  BY LogSteps
<1>3. LogInv => EntriesLink
  <2> SUFFICES ASSUME LogInv PROVE EntriesLink
    OBVIOUS
  <2>1. log \in LogT /\ Segs(log) /\ Linked(log) /\ log.made \in Seq(Address)
    BY DEF LogInv, LogType, LogT
  <2>2. log.made # <<>> => log.last = Last(log.made) /\ log.end = After(log.last, log.size[log.last])
    <3>1. CASE log.made # <<>>
      <4>1. /\ log.last = log.made[Len(log.made)] /\ log.last[1] = log.end[1]
            /\ log.size[log.last] = log.end[2] - log.last[2] /\ log.end[2] < LogSegmentSize
        BY <2>1, <3>1 DEF Linked
      <4>2. /\ log.last \in Address /\ log.last[2] + (log.end[2] - log.last[2]) = log.end[2]
            /\ ~(log.end[2] >= LogSegmentSize) /\ log.end = <<log.end[1], log.end[2]>>
        <5>1. LogSegmentSize \in Nat /\ log.last \in Address /\ log.end \in Address
          BY <2>1, LogAssumption DEF LogT
        <5> QED
          BY <4>1, <5>1, SMTT(60) DEF Address
      <4> QED
        BY <4>1, <4>2 DEF After, Last
    <3> QED
      BY <3>1
  <2> QED
    BY <2>1, <2>2, SMTT(60) DEF EntriesLink, Segs, Linked
<1> QED
  BY <1>1, <1>2, <1>3, PTL DEF LogSpec

\* A walk (AppendOnlyLog::for_each) meets the entries in the order of their
\* allocation and ends only after all that were there when it began, for any
\* number of threads that walk and append, as long as no append opens a segment
\* while a thread walks: with one that does, the walk goes wrong.
THEOREM WalksMeetAll ==
  ASSUME ~RollsUnderWalk
  PROVE  LogSpec => []WalkMeetsAll
<1>1. WalkInv /\ [LogNext]_logVars => WalkInv'
  BY WalkSteps
<1>2. WalkInv => WalkMeetsAll
  <2> SUFFICES ASSUME WalkInv, NEW r \in LogReader
               PROVE  /\ IsPrefix(walk[r].seen, log.made)
                      /\ walk[r].pc = "over" /\ ~walk[r].quit => walk[r].past <= Len(walk[r].seen)
    BY DEF WalkMeetsAll
  <2>1. WalkOK(r) /\ walk[r] \in WalkT /\ walk[r].seen \in Seq(Address) /\ log.made \in Seq(Address)
    BY DEF WalkInv, LogInv, LogType, WalkT, LogT
  <2>2. /\ Len(walk[r].seen) <= Len(log.made)
        /\ \A i \in 1 .. Len(walk[r].seen) : walk[r].seen[i] = log.made[i]
    BY <2>1 DEF WalkOK, OnTheWay
  <2>3. SubSeq(walk[r].seen, 1, Len(walk[r].seen)) = SubSeq(log.made, 1, Len(walk[r].seen))
    BY <2>1, <2>2
  <2>4. IsPrefix(walk[r].seen, log.made)
    BY <2>2, <2>3 DEF IsPrefix
  <2> QED
    BY <2>1, <2>4 DEF WalkOK, OnTheWay
<1> QED
  BY <1>1, <1>2, InitLog, PTL DEF LogSpec

-----------------------------------------------------------------------------
(***************************************************************************)
(* The skip list.  Searches meet its history, for any number of writers    *)
(* and searches, any keys and hashes and any number of locks, as long as   *)
(* no queued search is started again while it runs.                        *)
(*                                                                         *)
(* The buckets are in a chain by their order (Linkage), and what they hold *)
(* is in the order of the history, bucket by bucket (Holds).  Locks leave  *)
(* one writer in the header and one at the last bucket (Writing), so that  *)
(* no bucket but the last ever changes.  Of a search, Covered says where   *)
(* an item is that it has still to meet: in a bucket that it has not come  *)
(* to, or in one of its queue; or it has come too late, after the search   *)
(* has read the end of the chain, and then after all that it meets.        *)
(***************************************************************************)

NilOr(S) == S \cup {NilAddress}

BucketT == [order : Nat, items : Seq(Nat), index : SUBSET Range(Hash), next : NilOr(Address)]
ListT == [start : NilOr(Address), last : NilOr(Address), size : Nat,
          bucket : UNION {[D -> BucketT] : D \in SUBSET Address}]
WriterT == [pc : {"idle", "header", "bucket", "grow", "swap", "put"},
            key : NilOr(Key), bucket : NilOr(Address)]
SearchT == [mode : {"none", "size"} \cup Modes,
            pc : {"idle", "look", "take", "step", "wait", "size", "drop", "join", "over"},
            query : NilOr(Query), at : NilOr(Address), met : Seq(Int), past : Nat,
            quit : BOOLEAN, feed : {"none", "look", "push", "try", "end"},
            queue : Seq(Address), done : BOOLEAN]

SkipType ==
  /\ list \in ListT /\ history \in Seq(Key)
  /\ writer \in [Writer -> WriterT] /\ search \in [Searcher -> SearchT]

Buckets(l) == DOMAIN l.bucket
Order(l, a) == l.bucket[a].order
Items(l, a) == l.bucket[a].items
In(l, i, a) == \E j \in DOMAIN Items(l, a) : Items(l, a)[j] = i

\* Before the list is made, nobody is inside a call.
Unmade ==
  /\ list = NoList /\ history = <<>>
  /\ \A w \in Writer : writer[w].pc = "idle"
  /\ \A s \in Searcher : search[s] = NoSearch

\* The buckets are linked in their order.
Linkage(l) ==
  /\ l.start \in Buckets(l) /\ Order(l, l.start) = 0
  /\ l.last \in Buckets(l) /\ Order(l, l.last) = l.size - 1
  /\ l.bucket[l.last].next = NilAddress
  /\ \A a \in Buckets(l) : Order(l, a) < l.size
  /\ \A a, b \in Buckets(l) : Order(l, a) = Order(l, b) => a = b
  /\ \A a \in Buckets(l) \ {l.last} :
       /\ l.bucket[a].next \in Buckets(l)
       /\ Order(l, l.bucket[a].next) = Order(l, a) + 1

\* The buckets hold the history, in its order, and their indexes know it.
Holds(l, h) ==
  /\ \A i \in DOMAIN h : \E a \in Buckets(l) : In(l, i, a) /\ Hash[h[i]] \in l.bucket[a].index
  /\ \A a \in Buckets(l) : \A j \in DOMAIN Items(l, a) : Items(l, a)[j] \in DOMAIN h
  /\ \A a \in Buckets(l) : \A j, k \in DOMAIN Items(l, a) :
       j < k => Items(l, a)[j] < Items(l, a)[k]
  /\ \A a, b \in Buckets(l) : Order(l, a) < Order(l, b) =>
       \A i, k \in DOMAIN h : In(l, i, a) /\ In(l, k, b) => i < k

\* A bucket is an entry of the log.
Stored == \A a \in Buckets(list) : \E i \in DOMAIN log.made : log.made[i] = a

\* One writer at most has the header, and one at most is at the end of the chain.
InHeader(w) == writer[w].pc \in {"bucket", "grow", "swap"}
AtLast(w) == writer[w].pc \in {"grow", "swap", "put"}
Writing ==
  /\ \A w, u \in Writer : InHeader(w) /\ InHeader(u) => w = u
  /\ \A w, u \in Writer : AtLast(w) /\ AtLast(u) => w = u
  /\ \A w \in Writer : /\ writer[w].pc # "idle" => writer[w].key \in Key
                       /\ writer[w].pc \in {"grow", "put"} => writer[w].bucket = list.last
                       /\ writer[w].pc = "swap" => writer[w].bucket \in Buckets(list)

Made == Linkage(list) /\ Holds(list, history) /\ Stored /\ Writing

\* What a search has met, and where it and its producer are.
Found(r, i) == \E j \in DOMAIN r.met : r.met[j] = i
Queued(r, a) == \E q \in DOMAIN r.queue : r.queue[q] = a
Matching(h, query) == {i \in DOMAIN h : query = "all" \/ h[i] = query}

Placed(l, h, r) ==
  /\ r.at = NilAddress \/ r.at \in Buckets(l)
  /\ \A q \in DOMAIN r.queue : r.queue[q] \in Buckets(l)
  /\ \A p, q \in DOMAIN r.queue : p < q => Order(l, r.queue[p]) < Order(l, r.queue[q])
  /\ r.at # NilAddress => \A q \in DOMAIN r.queue : Order(l, r.queue[q]) < Order(l, r.at)
  /\ r.query \in Query /\ r.past <= Len(h)

Phase(r) ==
  /\ r.mode = "callback" => r.pc \in {"look", "over"}
  /\ r.mode = "lazy" => r.pc \in {"look", "take", "step", "over"}
  /\ r.mode = "queued" => r.pc \in {"wait", "drop", "join", "over"}
  /\ r.mode # "queued" => r.queue = <<>> /\ r.feed = "none"
  /\ r.pc \in {"take", "step"} \/ r.feed \in {"push", "try"} => r.at # NilAddress
  /\ r.pc \in {"drop", "join"} => r.quit
  /\ r.quit => r.pc \in {"drop", "join", "over"}
  /\ r.done /\ ~r.quit => r.query = "none" \/ r.at = NilAddress
  /\ r.pc = "over" /\ ~r.quit => r.query = "none" \/ (r.at = NilAddress /\ r.queue = <<>>)

\* What was met is in the order of the history, with no match left out on the way.
MetInOrder(h, r) ==
  /\ \A j \in DOMAIN r.met : r.met[j] \in DOMAIN h
  /\ \A j, k \in DOMAIN r.met : j < k => r.met[j] < r.met[k]
  /\ r.mode # "lazy" =>
       \A i \in Matching(h, r.query), j \in DOMAIN r.met : i <= r.met[j] => Found(r, i)

\* It comes before all that is still to be met.
MetBefore(l, r) ==
  \A j \in DOMAIN r.met, a \in Buckets(l) : In(l, r.met[j], a) =>
    /\ r.at # NilAddress => Order(l, a) < Order(l, r.at) \/ (r.pc = "step" /\ a = r.at)
    /\ \A q \in DOMAIN r.queue : Order(l, a) < Order(l, r.queue[q])

Late(l, r, i, a) ==
  /\ r.at = NilAddress /\ i > r.past /\ \A j \in DOMAIN r.met : r.met[j] < i
  /\ \A q \in DOMAIN r.queue : Order(l, r.queue[q]) < Order(l, a)

Ahead(l, r, a) ==
  /\ r.at # NilAddress
  /\ Order(l, r.at) < Order(l, a) \/ (a = r.at /\ r.pc # "step")

Covered(l, h, r) ==
  \A i \in Matching(h, r.query) :
    \/ Found(r, i)
    \/ r.mode = "lazy" /\ i > r.past
    \/ \E a \in Buckets(l) : In(l, i, a) /\ (Ahead(l, r, a) \/ Queued(r, a) \/ Late(l, r, i, a))

SearchOK(l, h, r) ==
  r.mode \in Modes => /\ Placed(l, h, r) /\ Phase(r) /\ MetInOrder(h, r)
                      /\ ~r.quit => MetBefore(l, r) /\ Covered(l, h, r)

\* A thread that asks for the size has no producer.
Aside(r) == r.mode \notin Modes => r.feed = "none" /\ r.pc \in {"idle", "size", "over"}

SkipInv ==
  /\ SkipType /\ LogInv
  /\ Unmade \/ (Made /\ \A s \in Searcher : SearchOK(list, history, search[s]) /\ Aside(search[s]))

-----------------------------------------------------------------------------
(* Buckets.                                                                *)

LEMMA TypesOfList ==
  ASSUME NEW l \in ListT
  PROVE  /\ \A a \in Buckets(l) : l.bucket[a] \in BucketT /\ a \in Address /\ a # NilAddress
         /\ l.size \in Nat
<1>1. PICK D \in SUBSET Address : l.bucket \in [D -> BucketT]
  BY DEF ListT
<1>2. \A a \in Address : a # NilAddress
  BY DEF Address, NilAddress
<1> QED
  BY <1>1, <1>2 DEF ListT, Buckets

LEMMA TypesOfBucket ==
  ASSUME NEW l \in ListT, NEW a \in Buckets(l)
  PROVE  /\ Order(l, a) \in Nat /\ Items(l, a) \in Seq(Nat) /\ a # NilAddress
         /\ l.bucket[a].next \in NilOr(Address)
  BY TypesOfList DEF BucketT, Order, Items

\* An item is in one bucket.
LEMMA OneBucket ==
  ASSUME NEW l \in ListT, NEW h \in Seq(Key), Linkage(l), Holds(l, h),
         NEW a \in Buckets(l), NEW b \in Buckets(l), NEW i \in DOMAIN h, In(l, i, a), In(l, i, b)
  PROVE  a = b
<1>1. Order(l, a) \in Nat /\ Order(l, b) \in Nat /\ i \in Nat
  BY TypesOfBucket
<1>2. ~(Order(l, a) < Order(l, b)) /\ ~(Order(l, b) < Order(l, a))
  BY <1>1 DEF Holds
<1> QED
  BY <1>1, <1>2 DEF Linkage

\* The next bucket is the first one of those behind.
LEMMA NextIs ==
  ASSUME NEW l \in ListT, Linkage(l), NEW a \in Buckets(l)
  PROVE  LET n == l.bucket[a].next
         IN  /\ n = NilAddress \/ (n \in Buckets(l) /\ Order(l, a) < Order(l, n))
             /\ \A b \in Buckets(l) : Order(l, a) < Order(l, b) =>
                  /\ n # NilAddress
                  /\ Order(l, n) < Order(l, b) \/ b = n
<1>1. /\ \A b \in Buckets(l) : Order(l, b) \in Nat /\ b # NilAddress
      /\ l.size \in Nat
  BY TypesOfBucket, TypesOfList
<1>2. CASE a = l.last
  BY <1>1, <1>2 DEF Linkage
<1>3. CASE a # l.last
  <2>1. l.bucket[a].next \in Buckets(l) /\ Order(l, l.bucket[a].next) = Order(l, a) + 1
    BY <1>3 DEF Linkage
  <2>2. \A b \in Buckets(l) : Order(l, b) = Order(l, l.bucket[a].next) => b = l.bucket[a].next
    BY <2>1 DEF Linkage
  <2> QED
    BY <1>1, <2>1, <2>2
<1> QED
  BY <1>2, <1>3

\* A bucket whose index does not know the query has no match; an impossible
\* query has none at all.
NoMatch(l, h, query, a) == \A i \in Matching(h, query) : ~In(l, i, a)

LEMMA VerdictIs ==
  ASSUME list \in ListT, history \in Seq(Key), Linkage(list), Holds(list, history),
         NEW a \in Buckets(list), NEW query \in Query
  PROVE  /\ Verdict(a, query) = "stop" => query = "none"
         /\ Verdict(a, query) \in {"stop", "next"} => NoMatch(list, history, query, a)
         /\ query = "none" => Matching(history, query) = {}
<1>1. query \in Key \cup {"all", "none"} /\ "none" \notin Key
  BY SkipAssumption
<1>2. Verdict(a, query) = "stop" => query = "none"
  BY DEF Verdict
<1>3. query = "none" => Matching(history, query) = {}
  BY <1>1 DEF Matching
<1>4. ASSUME Verdict(a, query) = "next", NEW i \in Matching(history, query), In(list, i, a)
      PROVE  FALSE
  <2>1. query # "all" /\ query # "none" /\ Hash[query] \notin list.bucket[a].index
    BY <1>4 DEF Verdict, Bucket
  <2>2. i \in DOMAIN history /\ history[i] = query
    BY <2>1 DEF Matching
  <2>3. PICK b \in Buckets(list) : In(list, i, b) /\ Hash[history[i]] \in list.bucket[b].index
    BY <2>2 DEF Holds
  <2>4. a = b
    BY <1>4, <2>2, <2>3, OneBucket
  <2> QED
    BY <2>1, <2>2, <2>3, <2>4
<1> QED
  BY <1>2, <1>3, <1>4 DEF NoMatch

-----------------------------------------------------------------------------
(* What a search meets.                                                    *)

LEMMA TypesOfSearch ==
  ASSUME NEW r \in SearchT
  PROVE  /\ r.met \in Seq(Int) /\ r.past \in Nat /\ r.quit \in BOOLEAN /\ r.done \in BOOLEAN
         /\ r.queue \in Seq(Address) /\ r.at \in NilOr(Address) /\ r.query \in NilOr(Query)
  BY DEF SearchT

\* With the first items of a bucket.
Met(l, r, a, n) == r.met \o SubSeq(Items(l, a), 1, n)

Follows(l, r, a) ==
  \A j \in DOMAIN r.met, b \in Buckets(l) : In(l, r.met[j], b) => Order(l, b) < Order(l, a)

MetMore(l, h, r, a, n) ==
  LET m == Met(l, r, a, n)
  IN  /\ m \in Seq(Int)
      /\ \A j \in DOMAIN m : m[j] \in DOMAIN h
      /\ \A j, k \in DOMAIN m : j < k => m[j] < m[k]
      /\ \A i : (\E j \in DOMAIN m : m[j] = i) <=> (Found(r, i) \/ \E k \in 1 .. n : Items(l, a)[k] = i)

\* All that it has still to meet is in that bucket or behind it.
Ends(l, h, r, a) ==
  \A i \in Matching(h, r.query) :
    Found(r, i) \/ \E b \in Buckets(l) : In(l, i, b) /\ (b = a \/ Order(l, a) < Order(l, b))

NoGap(l, h, r, a, n) ==
  \A i \in Matching(h, r.query), j \in DOMAIN Met(l, r, a, n) :
    i <= Met(l, r, a, n)[j] => \E k \in DOMAIN Met(l, r, a, n) : Met(l, r, a, n)[k] = i

\* It takes the first items of a bucket that comes after all it met.
LEMMA Takes ==
  ASSUME NEW l \in ListT, NEW h \in Seq(Key), Linkage(l), Holds(l, h),
         NEW r \in SearchT, MetInOrder(h, r), NEW a \in Buckets(l), NEW n \in 0 .. Len(Items(l, a)),
         Follows(l, r, a)
  PROVE  MetMore(l, h, r, a, n)
<1> DEFINE it == Items(l, a)
           t == SubSeq(it, 1, n)
           m == r.met \o t
           z == Len(r.met)
<1>1. it \in Seq(Nat) /\ r.met \in Seq(Int) /\ n \in Nat /\ n <= Len(it) /\ z \in Nat
  BY TypesOfBucket, TypesOfSearch
<1>2. t \in Seq(Int) /\ Len(t) = n /\ \A k \in 1 .. n : t[k] = it[k] /\ k \in DOMAIN it
  <2>1. t \in Seq(Nat) /\ Len(t) = n /\ \A k \in 1 .. n : t[k] = it[k] /\ k \in DOMAIN it
    BY <1>1, SMTT(60)
  <2> QED
    BY <2>1
<1> HIDE DEF t
<1>3. /\ m \in Seq(Int) /\ Len(m) = z + n /\ DOMAIN m = 1 .. z + n
      /\ \A j \in 1 .. z : m[j] = r.met[j]
      /\ \A k \in 1 .. n : m[z + k] = t[k]
  <2>1. m \in Seq(Int) /\ Len(m) = z + n /\ DOMAIN m = 1 .. z + n
    <3>1. \A u, v \in Seq(Int) : /\ u \o v \in Seq(Int) /\ Len(u \o v) = Len(u) + Len(v)
                                /\ DOMAIN (u \o v) = 1 .. Len(u) + Len(v)
      OBVIOUS
    <3> QED
      BY <1>1, <1>2, <3>1
  <2>2. \A j \in 1 .. z + n : m[j] = IF j <= z THEN r.met[j] ELSE t[j - z]
    BY <1>1, <1>2
  <2> HIDE DEF m, z
  <2>3. \A k \in 1 .. n : z + k \in 1 .. z + n /\ ~(z + k <= z) /\ (z + k) - z = k
    BY <1>1
  <2>4. \A j \in 1 .. z : j \in 1 .. z + n /\ j <= z
    BY <1>1
  <2> QED
    BY <2>1, <2>2, <2>3, <2>4
<1> HIDE DEF m, z
<1>4. \A j \in DOMAIN m : j \in 1 .. z \/ \E k \in 1 .. n : j = z + k
  <2>1. ASSUME NEW j \in DOMAIN m, j \notin 1 .. z PROVE \E k \in 1 .. n : j = z + k
    <3>1. j - z \in 1 .. n /\ j = z + (j - z)
      BY <1>1, <1>3, <2>1, SMTT(60)
    <3> QED
      BY <3>1
  <2> QED
    BY <2>1
<1>5. DOMAIN r.met = 1 .. z
  BY <1>1 DEF z
<1>6. \A j \in 1 .. z : m[j] = r.met[j] /\ m[j] \in DOMAIN h
  BY <1>3, <1>5 DEF MetInOrder
<1>7. \A k \in 1 .. n : m[z + k] = it[k] /\ it[k] \in DOMAIN h /\ In(l, it[k], a) /\ z + k \in DOMAIN m
  <2>1. \A k \in 1 .. n : z + k \in 1 .. z + n
    BY <1>1
  <2> QED
    BY <1>2, <1>3, <2>1 DEF Holds, In
<1>8. \A j \in 1 .. z, k \in 1 .. n : m[j] < m[z + k]
  <2> SUFFICES ASSUME NEW j \in 1 .. z, NEW k \in 1 .. n PROVE m[j] < m[z + k]
    OBVIOUS
  <2>1. PICK b \in Buckets(l) : In(l, r.met[j], b)
    BY <1>6 DEF Holds
  <2>2. Order(l, b) < Order(l, a)
    BY <1>5, <2>1 DEF Follows
  <2> QED
    BY <1>6, <1>7, <2>1, <2>2 DEF Holds
<1>9. ASSUME NEW j \in DOMAIN m, NEW k \in DOMAIN m, j < k PROVE m[j] < m[k]
  <2>1. CASE k \in 1 .. z
    <3>1. j \in 1 .. z
      BY <1>1, <1>3, <1>9, <2>1
    <3> QED
      BY <1>3, <1>5, <1>9, <2>1, <3>1 DEF MetInOrder
  <2>2. CASE j \in 1 .. z /\ k \notin 1 .. z
    BY <1>4, <1>8, <2>2
  <2>3. CASE j \notin 1 .. z /\ k \notin 1 .. z
    <3>1. PICK p \in 1 .. n, q \in 1 .. n : j = z + p /\ k = z + q
      BY <1>4, <2>3
    <3>2. p < q /\ p \in DOMAIN it /\ q \in DOMAIN it
      BY <1>1, <1>2, <1>9, <3>1
    <3> QED
      BY <1>7, <3>1, <3>2 DEF Holds
  <2> QED
    BY <1>1, <1>3, <1>9, <2>1, <2>2, <2>3
<1>10. \A i : (\E j \in DOMAIN m : m[j] = i) <=> (Found(r, i) \/ \E k \in 1 .. n : it[k] = i)
  <2>1. \A j \in 1 .. z : j \in DOMAIN m
    BY <1>1, <1>3
  <2> QED
    BY <1>4, <1>5, <1>6, <1>7, <2>1, SMTT(60) DEF Found
<1>11. \A j \in DOMAIN m : m[j] \in DOMAIN h
  BY <1>4, <1>6, <1>7
<1> QED
  BY <1>3, <1>9, <1>10, <1>11 DEF m, t, Met, MetMore

\* If what it has still to meet does not come before that bucket, no match is
\* left out.
LEMMA TakenInOrder ==
  ASSUME NEW l \in ListT, NEW h \in Seq(Key), Linkage(l), Holds(l, h),
         NEW r \in SearchT, MetInOrder(h, r), NEW a \in Buckets(l), NEW n \in 0 .. Len(Items(l, a)),
         r.mode # "lazy", MetMore(l, h, r, a, n), Ends(l, h, r, a)
  PROVE  NoGap(l, h, r, a, n)
<1> DEFINE it == Items(l, a)
           m == Met(l, r, a, n)
<1>0. /\ m \in Seq(Int)
      /\ \A i : (\E j \in DOMAIN m : m[j] = i) <=> (Found(r, i) \/ \E k \in 1 .. n : it[k] = i)
  BY DEF MetMore
<1> SUFFICES ASSUME NEW i \in Matching(h, r.query), NEW j \in DOMAIN m, i <= m[j], ~Found(r, i)
             PROVE  \E k \in 1 .. n : it[k] = i
  BY <1>0 DEF NoGap
<1>1. ~Found(r, m[j]) /\ i \in DOMAIN h /\ m[j] \in Int
  BY <1>0 DEF MetInOrder, Matching, Found
<1>2. PICK k \in 1 .. n : it[k] = m[j]
  BY <1>0, <1>1
<1>3. it \in Seq(Nat) /\ n \in Nat /\ n <= Len(it) /\ DOMAIN it = 1 .. Len(it) /\ k \in DOMAIN it
  BY TypesOfBucket
<1>4. m[j] \in DOMAIN h /\ In(l, m[j], a)
  BY <1>2, <1>3 DEF Holds, In
<1>5. PICK b \in Buckets(l) : In(l, i, b) /\ (b = a \/ Order(l, a) < Order(l, b))
  BY DEF Ends
<1>6. b = a
  <2>1. i \in Int /\ m[j] \in Int /\ ~(m[j] < i)
    BY <1>1
  <2> QED
    BY <1>1, <1>4, <1>5, <2>1 DEF Holds
<1>7. PICK p \in DOMAIN it : it[p] = i
  BY <1>5, <1>6 DEF In
<1>8. p <= k
  <2>1. k < p => it[k] < it[p]
    BY <1>3 DEF Holds
  <2> QED
    BY <1>1, <1>2, <1>3, <1>7, <2>1
<1> QED
  BY <1>3, <1>7, <1>8

-----------------------------------------------------------------------------
(* The steps of a search with a callback and of a lazy range.              *)

Searching(l, h, r) ==
  /\ Linkage(l) /\ Holds(l, h) /\ r.mode \in Modes /\ SearchOK(l, h, r)

LEMMA VisitKeeps ==
  ASSUME NEW l \in ListT, NEW h \in Seq(Key), NEW r \in SearchT, Searching(l, h, r),
         r.mode = "callback", r.pc = "look", r.at # NilAddress,
         NEW n \in 0 .. Len(Items(l, r.at)), NEW stop \in BOOLEAN, NEW quit \in BOOLEAN,
         stop => r.query = "none",
         ~quit => NoMatch(l, h, r.query, r.at) \/ n = Len(Items(l, r.at)),
         NEW x, x = [r EXCEPT !.met = Met(l, r, r.at, n),
                              !.at = l.bucket[r.at].next, !.quit = quit,
                              !.pc = IF stop \/ quit THEN "over" ELSE "look"]
  PROVE  x \in SearchT /\ SearchOK(l, h, x)
<1> DEFINE a == r.at
           m == Met(l, r, a, n)
           next == l.bucket[a].next
<1>1. /\ Placed(l, h, r) /\ Phase(r) /\ MetInOrder(h, r) /\ ~r.quit /\ MetBefore(l, r)
      /\ Covered(l, h, r) /\ Linkage(l) /\ Holds(l, h) /\ a \in Buckets(l)
      /\ r.queue = <<>> /\ r.feed = "none"
  BY DEF Searching, SearchOK, Phase, Placed
<1>2. Follows(l, r, a)
  BY <1>1 DEF MetBefore, Follows
<1>3. MetMore(l, h, r, a, n)
  BY <1>1, <1>2, Takes
<1>4. Ends(l, h, r, a)
  BY <1>1 DEF Covered, Ahead, Queued, Late, Ends
<1>5. NoGap(l, h, r, a, n)
  BY <1>1, <1>3, <1>4, TakenInOrder
<1>14. m \in Seq(Int)
  BY <1>3 DEF MetMore
<1> HIDE DEF m
<1>6. /\ next = NilAddress \/ (next \in Buckets(l) /\ Order(l, a) < Order(l, next))
      /\ next \in NilOr(Address)
      /\ \A b \in Buckets(l) : Order(l, a) < Order(l, b) =>
           /\ next # NilAddress
           /\ Order(l, next) < Order(l, b) \/ b = next
  BY <1>1, NextIs, TypesOfBucket
<1> HIDE DEF next
<1>7. /\ x \in SearchT /\ x.mode = "callback" /\ x.pc = (IF stop \/ quit THEN "over" ELSE "look")
      /\ x.met = m /\ x.at = next /\ x.quit = quit /\ x.query = r.query /\ x.past = r.past
      /\ x.queue = <<>> /\ x.feed = "none" /\ x.done = r.done
  <2>1. x = [r EXCEPT !.met = m, !.at = next, !.quit = quit,
                      !.pc = IF stop \/ quit THEN "over" ELSE "look"]
    BY DEF m, next
  <2> QED
    BY <1>1, <1>14, <1>6, <2>1, ZenonT(90) DEF SearchT
<1> DEFINE K(i) == \E k \in 1 .. n : Items(l, a)[k] = i
<1>13. /\ DOMAIN x.met = DOMAIN m /\ \A i : Found(x, i) <=> \E j \in DOMAIN m : m[j] = i
       /\ \A i : Found(x, i) <=> (Found(r, i) \/ K(i))
  <2>1. DOMAIN x.met = DOMAIN m /\ \A i : Found(x, i) <=> \E j \in DOMAIN m : m[j] = i
    BY <1>7 DEF Found
  <2> QED
    BY <1>3, <2>1 DEF MetMore, m
<1> HIDE DEF K
<1>8. Placed(l, h, x)
  BY <1>1, <1>6, <1>7 DEF Placed
<1>9. Phase(x)
  <2>1. x.done /\ ~x.quit => x.query = "none" \/ x.at = NilAddress
    BY <1>1, <1>7 DEF Phase
  <2> QED
    BY <1>7, <2>1 DEF Phase
<1>10. MetInOrder(h, x)
  BY <1>3, <1>5, <1>7, <1>13 DEF MetInOrder, MetMore, NoGap, m
<1>11. ASSUME ~quit PROVE MetBefore(l, x)
  <2> SUFFICES ASSUME NEW j \in DOMAIN m, NEW b \in Buckets(l), In(l, m[j], b), next # NilAddress
               PROVE  Order(l, b) < Order(l, next)
    BY <1>7 DEF MetBefore
  <2>1. Order(l, a) \in Nat /\ Order(l, b) \in Nat /\ Order(l, next) \in Nat /\ Order(l, a) < Order(l, next)
    BY <1>1, <1>6, TypesOfBucket
  <2>2. CASE Found(r, m[j])
    BY <1>2, <2>1, <2>2 DEF Found, Follows
  <2>3. CASE ~Found(r, m[j])
    <3>1. PICK k \in 1 .. n : Items(l, a)[k] = m[j]
      BY <1>3, <2>3 DEF MetMore, m
    <3>2. k \in DOMAIN Items(l, a)
      BY <1>1, TypesOfBucket
    <3>3. b = a
      BY <1>1, <1>3, <3>1, <3>2, OneBucket, SMTT(60) DEF In, MetMore, m
    <3> QED
      BY <2>1, <3>3
  <2> QED
    BY <2>2, <2>3
<1>12. ASSUME ~quit PROVE Covered(l, h, x)
  <2> SUFFICES ASSUME NEW i \in Matching(h, r.query), ~Found(x, i)
               PROVE  \E b \in Buckets(l) : In(l, i, b) /\ Ahead(l, x, b)
    BY <1>7 DEF Covered
  <2>1. ~Found(r, i)
    BY <1>13
  <2>2. PICK b \in Buckets(l) : In(l, i, b) /\ (b = a \/ Order(l, a) < Order(l, b))
    BY <1>4, <2>1 DEF Ends
  <2>3. b # a
    <3>1. CASE NoMatch(l, h, r.query, a)
      BY <2>2, <3>1 DEF NoMatch
    <3>2. CASE n = Len(Items(l, a))
      <4>1. DOMAIN Items(l, a) = 1 .. n
        BY <1>1, <3>2, TypesOfBucket
      <4> QED
        BY <1>13, <2>2, <4>1 DEF In, K
    <3> QED
      BY <1>12, <3>1, <3>2
  <2>4. Ahead(l, x, b)
    BY <1>6, <1>7, <2>2, <2>3 DEF Ahead
  <2> QED
    BY <2>2, <2>4
<1> QED
  BY <1>7, <1>8, <1>9, <1>10, <1>11, <1>12 DEF SearchOK

LEMMA LazyLookKeeps ==
  ASSUME NEW l \in ListT, NEW h \in Seq(Key), NEW r \in SearchT, Searching(l, h, r),
         r.mode = "lazy", r.pc = "look", r.at # NilAddress,
         NEW x \in SearchT, x.pc \in {"over", "step", "take"},
         x.mode = r.mode, x.query = r.query, x.at = r.at, x.met = r.met, x.past = r.past,
         x.quit = r.quit, x.feed = r.feed, x.queue = r.queue, x.done = r.done,
         x.pc = "over" => r.query = "none",
         x.pc # "take" => NoMatch(l, h, r.query, r.at)
  PROVE  SearchOK(l, h, x)
<1>1. /\ Placed(l, h, r) /\ Phase(r) /\ MetInOrder(h, r) /\ ~r.quit /\ MetBefore(l, r)
      /\ Covered(l, h, r) /\ Linkage(l) /\ Holds(l, h) /\ r.at \in Buckets(l)
      /\ r.queue = <<>> /\ r.feed = "none"
  BY DEF Searching, SearchOK, Phase, Placed
<1>2. Placed(l, h, x) /\ Phase(x)
  BY <1>1 DEF Placed, Phase
<1>3. MetInOrder(h, x)
  BY <1>1 DEF MetInOrder
<1>4. MetBefore(l, x)
  BY <1>1 DEF MetBefore
<1>5. Covered(l, h, x)
  <2> SUFFICES ASSUME NEW i \in Matching(h, r.query), ~Found(x, i), ~(i > x.past)
               PROVE  \E b \in Buckets(l) : In(l, i, b) /\ Ahead(l, x, b)
    BY DEF Covered
  <2>1. ~Found(r, i)
    BY DEF Found
  <2>2. PICK b \in Buckets(l) : In(l, i, b) /\ (Ahead(l, r, b) \/ Queued(r, b) \/ Late(l, r, i, b))
    BY <1>1, <2>1 DEF Covered
  <2>3. Ahead(l, r, b)
    BY <1>1, <2>2 DEF Queued, Late
  <2>4. b = r.at => x.pc = "take"
    BY <2>2 DEF NoMatch
  <2> QED
    BY <2>2, <2>3, <2>4 DEF Ahead
<1> QED
  BY <1>2, <1>3, <1>4, <1>5 DEF SearchOK

LEMMA LazyTakeKeeps ==
  ASSUME NEW l \in ListT, NEW h \in Seq(Key), NEW r \in SearchT, Searching(l, h, r),
         r.mode = "lazy", r.pc = "take",
         NEW x \in SearchT, x.pc = "step", x.met = Met(l, r, r.at, Len(Items(l, r.at))),
         x.mode = r.mode, x.query = r.query, x.at = r.at, x.past = r.past,
         x.quit = r.quit, x.feed = r.feed, x.queue = r.queue, x.done = r.done
  PROVE  SearchOK(l, h, x)
<1> DEFINE a == r.at
           n == Len(Items(l, a))
           K(i) == \E k \in 1 .. n : Items(l, a)[k] = i
<1>1. /\ Placed(l, h, r) /\ Phase(r) /\ MetInOrder(h, r) /\ ~r.quit /\ MetBefore(l, r)
      /\ Covered(l, h, r) /\ Linkage(l) /\ Holds(l, h) /\ a \in Buckets(l) /\ a # NilAddress
      /\ r.queue = <<>> /\ r.feed = "none"
  BY DEF Searching, SearchOK, Phase, Placed
<1>2. Follows(l, r, a)
  BY <1>1 DEF MetBefore, Follows
<1>3. n \in 0 .. n /\ DOMAIN Items(l, a) = 1 .. n
  BY <1>1, TypesOfBucket
<1>4. MetMore(l, h, r, a, n)
  BY <1>1, <1>2, <1>3, Takes
<1>5. \A i : Found(x, i) <=> (Found(r, i) \/ K(i))
  <2>1. \A i : Found(x, i) <=> \E j \in DOMAIN Met(l, r, a, n) : Met(l, r, a, n)[j] = i
    BY DEF Found
  <2> QED
    BY <1>4, <2>1 DEF MetMore
<1>6. Placed(l, h, x) /\ Phase(x)
  BY <1>1 DEF Placed, Phase
<1>7. MetInOrder(h, x)
  BY <1>4 DEF MetInOrder, MetMore
<1>8. MetBefore(l, x)
  <2> SUFFICES ASSUME NEW j \in DOMAIN x.met, NEW b \in Buckets(l), In(l, x.met[j], b)
               PROVE  Order(l, b) < Order(l, a) \/ b = a
    BY <1>1 DEF MetBefore
  <2>1. Found(x, x.met[j]) /\ x.met[j] \in DOMAIN h
    BY <1>7 DEF Found, MetInOrder
  <2>2. CASE Found(r, x.met[j])
    BY <1>2, <2>2 DEF Found, Follows
  <2>3. CASE K(x.met[j])
    <3>1. In(l, x.met[j], a)
      BY <1>3, <2>3 DEF In
    <3> QED
      BY <1>1, <2>1, <3>1, OneBucket
  <2> QED
    BY <1>5, <2>1, <2>2, <2>3
<1>9. Covered(l, h, x)
  <2> SUFFICES ASSUME NEW i \in Matching(h, r.query), ~Found(x, i), ~(i > x.past)
               PROVE  \E b \in Buckets(l) : In(l, i, b) /\ Ahead(l, x, b)
    BY DEF Covered
  <2>1. ~Found(r, i) /\ ~K(i)
    BY <1>5
  <2>2. PICK b \in Buckets(l) : In(l, i, b) /\ (Ahead(l, r, b) \/ Queued(r, b) \/ Late(l, r, i, b))
    BY <1>1, <2>1 DEF Covered
  <2>3. Ahead(l, r, b)
    BY <1>1, <2>2 DEF Queued, Late
  <2>4. b # r.at
    BY <1>3, <2>1, <2>2 DEF In
  <2> QED
    BY <2>2, <2>3, <2>4 DEF Ahead
<1> QED
  BY <1>6, <1>7, <1>8, <1>9 DEF SearchOK

LEMMA LazyStepKeeps ==
  ASSUME NEW l \in ListT, NEW h \in Seq(Key), NEW r \in SearchT, Searching(l, h, r),
         r.mode = "lazy", r.pc = "step",
         NEW x \in SearchT, x.pc = "look", x.at = l.bucket[r.at].next,
         x.mode = r.mode, x.query = r.query, x.met = r.met, x.past = r.past,
         x.quit = r.quit, x.feed = r.feed, x.queue = r.queue, x.done = r.done
  PROVE  SearchOK(l, h, x)
<1> DEFINE a == r.at
           next == l.bucket[a].next
<1>1. /\ Placed(l, h, r) /\ Phase(r) /\ MetInOrder(h, r) /\ ~r.quit /\ MetBefore(l, r)
      /\ Covered(l, h, r) /\ Linkage(l) /\ Holds(l, h) /\ a \in Buckets(l) /\ a # NilAddress
      /\ r.queue = <<>> /\ r.feed = "none"
  BY DEF Searching, SearchOK, Phase, Placed
<1>2. /\ next = NilAddress \/ (next \in Buckets(l) /\ Order(l, a) < Order(l, next))
      /\ \A b \in Buckets(l) : Order(l, a) < Order(l, b) =>
           /\ next # NilAddress
           /\ Order(l, next) < Order(l, b) \/ b = next
      /\ \A b \in Buckets(l) : Order(l, b) \in Nat
  BY <1>1, NextIs, TypesOfBucket
<1> HIDE DEF next
<1>3. x.at = next
  BY DEF next
<1>4. Placed(l, h, x) /\ Phase(x)
  BY <1>1, <1>2, <1>3 DEF Placed, Phase
<1>5. MetInOrder(h, x)
  BY <1>1 DEF MetInOrder
<1>6. MetBefore(l, x)
  <2> SUFFICES ASSUME NEW j \in DOMAIN r.met, NEW b \in Buckets(l), In(l, r.met[j], b), next # NilAddress
               PROVE  Order(l, b) < Order(l, next)
    BY <1>1, <1>3 DEF MetBefore
  <2>1. Order(l, b) < Order(l, a) \/ b = a
    BY <1>1 DEF MetBefore
  <2> QED
    BY <1>1, <1>2, <2>1
<1>7. Covered(l, h, x)
  <2> SUFFICES ASSUME NEW i \in Matching(h, r.query), ~Found(x, i), ~(i > x.past)
               PROVE  \E b \in Buckets(l) : In(l, i, b) /\ Ahead(l, x, b)
    BY DEF Covered
  <2>1. ~Found(r, i)
    BY DEF Found
  <2>2. PICK b \in Buckets(l) : In(l, i, b) /\ (Ahead(l, r, b) \/ Queued(r, b) \/ Late(l, r, i, b))
    BY <1>1, <2>1 DEF Covered
  <2>3. Order(l, a) < Order(l, b)
    BY <1>1, <2>2 DEF Queued, Late, Ahead
  <2> QED
    BY <1>2, <1>3, <2>2, <2>3 DEF Ahead
<1> QED
  BY <1>4, <1>5, <1>6, <1>7 DEF SearchOK

LEMMA EndKeeps ==
  ASSUME NEW l \in ListT, NEW h \in Seq(Key), NEW r \in SearchT, Searching(l, h, r),
         r.mode \in {"callback", "lazy"}, r.pc = "look", r.at = NilAddress,
         NEW x \in SearchT, x.pc = "over",
         x.mode = r.mode, x.query = r.query, x.at = r.at, x.met = r.met, x.past = r.past,
         x.quit = r.quit, x.feed = r.feed, x.queue = r.queue, x.done = r.done
  PROVE  SearchOK(l, h, x)
<1>1. /\ Placed(l, h, r) /\ Phase(r) /\ MetInOrder(h, r) /\ ~r.quit /\ MetBefore(l, r)
      /\ Covered(l, h, r) /\ r.queue = <<>> /\ r.feed = "none"
  BY DEF Searching, SearchOK, Phase, Placed
<1>2. Placed(l, h, x) /\ Phase(x)
  BY <1>1 DEF Placed, Phase
<1>3. MetInOrder(h, x) /\ MetBefore(l, x)
  BY <1>1 DEF MetInOrder, MetBefore, Found
<1>4. Covered(l, h, x)
  BY <1>1 DEF Covered, Found, Ahead, Queued, Late
<1> QED
  BY <1>2, <1>3, <1>4 DEF SearchOK

-----------------------------------------------------------------------------
(* The steps of a queued search and of its producer.                       *)

\* The producer reads a bucket, or the end of the chain, and says at most that
\* nothing is left; or it gives its bucket to the queue again.
LEMMA FeedKeeps ==
  ASSUME NEW l \in ListT, NEW h \in Seq(Key), NEW r \in SearchT, Searching(l, h, r),
         r.mode = "queued",
         NEW x \in SearchT, x.pc = r.pc, x.at = r.at, x.done \in {r.done, TRUE},
         x.mode = r.mode, x.query = r.query, x.met = r.met, x.past = r.past,
         x.quit = r.quit, x.queue = r.queue,
         x.feed \in {"push", "try"} => r.at # NilAddress,
         x.done # r.done => r.query = "none" \/ r.at = NilAddress
  PROVE  SearchOK(l, h, x)
<1>1. Placed(l, h, r) /\ Phase(r) /\ MetInOrder(h, r)
  BY DEF Searching, SearchOK
<1>2. Placed(l, h, x)
  BY <1>1 DEF Placed
<1>3. Phase(x)
  <2>1. x.done /\ ~x.quit => x.query = "none" \/ x.at = NilAddress
    BY <1>1 DEF Phase
  <2> QED
    BY <1>1, <2>1 DEF Phase
<1>4. MetInOrder(h, x)
  BY <1>1 DEF MetInOrder, Found
<1>5. ASSUME ~r.quit PROVE MetBefore(l, x) /\ Covered(l, h, x)
  <2>1. MetBefore(l, r) /\ Covered(l, h, r)
    BY <1>5 DEF Searching, SearchOK
  <2> QED
    BY <2>1 DEF MetBefore, Covered, Found, Ahead, Queued, Late
<1> QED
  BY <1>2, <1>3, <1>4, <1>5 DEF SearchOK

\* It goes on to the next bucket: this one has no match, or is in the queue now,
\* or the search does not ask any more.
LEMMA FeedNextKeeps ==
  ASSUME NEW l \in ListT, NEW h \in Seq(Key), NEW r \in SearchT, Searching(l, h, r),
         r.mode = "queued", r.at # NilAddress,
         NEW x \in SearchT, x.pc = r.pc, x.at = l.bucket[r.at].next, x.done = r.done,
         x.mode = r.mode, x.query = r.query, x.met = r.met, x.past = r.past,
         x.quit = r.quit, x.queue \in {r.queue, Append(r.queue, r.at)}, x.feed = "look",
         \/ x.queue = Append(r.queue, r.at)
         \/ NoMatch(l, h, r.query, r.at)
         \/ r.done /\ (r.query = "none" => Matching(h, r.query) = {})
  PROVE  SearchOK(l, h, x)
<1> DEFINE a == r.at
           next == l.bucket[a].next
<1>1. /\ Placed(l, h, r) /\ Phase(r) /\ MetInOrder(h, r)
      /\ Linkage(l) /\ Holds(l, h) /\ a \in Buckets(l)
      /\ r.queue \in Seq(Address) /\ a \in Address /\ a # NilAddress
  BY TypesOfSearch, TypesOfList DEF Searching, SearchOK, Phase, Placed
<1>2. /\ next = NilAddress \/ (next \in Buckets(l) /\ Order(l, a) < Order(l, next))
      /\ \A b \in Buckets(l) : Order(l, a) < Order(l, b) =>
           /\ next # NilAddress
           /\ Order(l, next) < Order(l, b) \/ b = next
      /\ \A b \in Buckets(l) : Order(l, b) \in Nat
  BY <1>1, NextIs, TypesOfBucket
<1> HIDE DEF next
<1>3. x.at = next
  BY DEF next
\* the queue, which may have got the bucket
<1>4. /\ \A q \in DOMAIN r.queue : q \in DOMAIN x.queue /\ x.queue[q] = r.queue[q]
      /\ \A q \in DOMAIN x.queue :
           \/ q \in DOMAIN r.queue /\ x.queue[q] = r.queue[q]
           \/ x.queue[q] = a /\ \A p \in DOMAIN x.queue : p < q => p \in DOMAIN r.queue
      /\ x.queue = Append(r.queue, a) => \E q \in DOMAIN x.queue : x.queue[q] = a
  <2>1. CASE x.queue = r.queue
    <3>1. r.queue # Append(r.queue, a)
      BY <1>1
    <3> QED
      BY <2>1, <3>1
  <2>2. CASE x.queue = Append(r.queue, a)
    <3>1. /\ DOMAIN r.queue = 1 .. Len(r.queue) /\ DOMAIN x.queue = 1 .. Len(r.queue) + 1
          /\ x.queue[Len(r.queue) + 1] = a /\ \A q \in 1 .. Len(r.queue) : x.queue[q] = r.queue[q]
          /\ Len(r.queue) \in Nat
      BY <1>1, <2>2
    <3>2. \A q \in 1 .. Len(r.queue) + 1 :
            q \in 1 .. Len(r.queue) \/ (q = Len(r.queue) + 1 /\ \A p \in 1 .. q : p < q => p \in 1 .. Len(r.queue))
      BY <3>1
    <3>3. \A q \in DOMAIN r.queue : q \in DOMAIN x.queue /\ x.queue[q] = r.queue[q]
      BY <3>1
    <3>4. Len(r.queue) + 1 \in DOMAIN x.queue
      BY <3>1
    <3>5. ASSUME NEW q \in DOMAIN x.queue, q \notin DOMAIN r.queue
          PROVE  x.queue[q] = a /\ \A p \in DOMAIN x.queue : p < q => p \in DOMAIN r.queue
      BY <3>1, <3>5
    <3> QED
      BY <3>1, <3>3, <3>4, <3>5
  <2> QED
    BY <2>1, <2>2
<1>5. Placed(l, h, x)
  <2>1. \A q \in DOMAIN x.queue : x.queue[q] \in Buckets(l) /\ (Order(l, x.queue[q]) < Order(l, a) \/ x.queue[q] = a)
    BY <1>1, <1>4 DEF Placed
  <2>2. ASSUME NEW p \in DOMAIN x.queue, NEW q \in DOMAIN x.queue, p < q
        PROVE  Order(l, x.queue[p]) < Order(l, x.queue[q])
    <3>1. CASE q \in DOMAIN r.queue /\ x.queue[q] = r.queue[q]
      <4>1. p \in DOMAIN r.queue
        <5>1. DOMAIN r.queue = 1 .. Len(r.queue) /\ Len(r.queue) \in Nat
          BY <1>1
        <5>2. x.queue \in Seq(Address)
          BY TypesOfSearch
        <5> QED
          BY <2>2, <3>1, <5>1, <5>2, SMTT(60)
      <4> QED
        BY <1>1, <1>4, <2>2, <3>1, <4>1 DEF Placed
    <3>2. CASE x.queue[q] = a /\ \A k \in DOMAIN x.queue : k < q => k \in DOMAIN r.queue
      <4>1. p \in DOMAIN r.queue
        BY <2>2, <3>2
      <4> QED
        BY <1>1, <1>4, <3>2, <4>1 DEF Placed
    <3> QED
      BY <1>4, <3>1, <3>2
  <2>3. x.at # NilAddress => \A q \in DOMAIN x.queue : Order(l, x.queue[q]) < Order(l, x.at)
    BY <1>1, <1>2, <1>3, <2>1
  <2> QED
    BY <1>1, <1>2, <1>3, <2>1, <2>2, <2>3 DEF Placed
<1>6. Phase(x)
  <2>1. ~r.quit /\ (r.done \/ r.pc = "over") => r.query = "none"
    BY <1>1 DEF Phase
  <2> QED
    BY <1>1, <2>1 DEF Phase
<1>7. MetInOrder(h, x)
  BY <1>1 DEF MetInOrder, Found
<1>8. ASSUME ~r.quit PROVE MetBefore(l, x) /\ Covered(l, h, x)
  <2>1. MetBefore(l, r) /\ Covered(l, h, r) /\ r.pc # "step"
    BY <1>1, <1>8 DEF Searching, SearchOK, Phase
  <2>2. MetBefore(l, x)
    <3> SUFFICES ASSUME NEW j \in DOMAIN r.met, NEW b \in Buckets(l), In(l, r.met[j], b)
                 PROVE  /\ x.at # NilAddress => Order(l, b) < Order(l, x.at)
                        /\ \A q \in DOMAIN x.queue : Order(l, b) < Order(l, x.queue[q])
      BY <2>1 DEF MetBefore
    <3>1. Order(l, b) < Order(l, a) /\ \A q \in DOMAIN r.queue : Order(l, b) < Order(l, r.queue[q])
      BY <1>1, <2>1 DEF MetBefore
    <3> QED
      BY <1>1, <1>2, <1>3, <1>4, <3>1
  <2>3. Covered(l, h, x)
    <3> SUFFICES ASSUME NEW i \in Matching(h, r.query), ~Found(x, i)
                 PROVE  \E b \in Buckets(l) : In(l, i, b) /\ (Ahead(l, x, b) \/ Queued(x, b))
      BY DEF Covered
    <3>1. ~Found(r, i)
      BY DEF Found
    <3>2. PICK b \in Buckets(l) : In(l, i, b) /\ (Ahead(l, r, b) \/ Queued(r, b) \/ Late(l, r, i, b))
      BY <2>1, <3>1 DEF Covered
    <3>3. CASE Queued(r, b)
      BY <1>4, <3>2, <3>3 DEF Queued
    <3>4. CASE Ahead(l, r, b) /\ b # a
      BY <1>2, <1>3, <2>1, <3>2, <3>4 DEF Ahead
    <3>5. CASE b = a
      <4>1. ~NoMatch(l, h, r.query, a)
        BY <3>2, <3>5 DEF NoMatch
      <4>2. ~(r.done /\ (r.query = "none" => Matching(h, r.query) = {}))
        <5>1. r.done => r.query = "none"
          BY <1>1, <1>8 DEF Phase
        <5> QED
          BY <5>1
      <4>3. x.queue = Append(r.queue, a)
        BY <4>1, <4>2
      <4> QED
        BY <1>4, <3>2, <3>5, <4>3 DEF Queued
    <3> QED
      BY <1>1, <3>2, <3>3, <3>4, <3>5 DEF Late, Ahead
  <2> QED
    BY <2>2, <2>3
<1> QED
  BY <1>5, <1>6, <1>7, <1>8 DEF SearchOK

LEMMA ConsumeKeeps ==
  ASSUME NEW l \in ListT, NEW h \in Seq(Key), NEW r \in SearchT, Searching(l, h, r),
         r.mode = "queued", r.pc = "wait", r.queue # <<>>,
         NEW x \in SearchT, x.pc = "wait", x.queue = Tail(r.queue),
         x.met = Met(l, r, Head(r.queue), Len(Items(l, Head(r.queue)))),
         x.mode = r.mode, x.query = r.query, x.at = r.at, x.past = r.past,
         x.quit = r.quit, x.feed = r.feed, x.done = r.done
  PROVE  SearchOK(l, h, x)
<1> DEFINE a == Head(r.queue)
           n == Len(Items(l, a))
           K(i) == \E k \in 1 .. n : Items(l, a)[k] = i
<1>1. /\ Placed(l, h, r) /\ Phase(r) /\ MetInOrder(h, r) /\ ~r.quit /\ MetBefore(l, r)
      /\ Covered(l, h, r) /\ Linkage(l) /\ Holds(l, h) /\ r.queue \in Seq(Address)
  BY TypesOfSearch DEF Searching, SearchOK, Phase
<1>2. /\ 1 \in DOMAIN r.queue /\ r.queue[1] = a
      /\ \A q \in DOMAIN x.queue : q + 1 \in DOMAIN r.queue /\ x.queue[q] = r.queue[q + 1] /\ 1 < q + 1
      /\ \A q \in DOMAIN r.queue : q = 1 \/ \E p \in DOMAIN x.queue : x.queue[p] = r.queue[q]
      /\ DOMAIN x.queue \subseteq Nat
  <2> DEFINE z == Len(r.queue)
  <2>1. z \in Nat /\ z >= 1 /\ DOMAIN r.queue = 1 .. z /\ r.queue[1] = a
    BY <1>1
  <2>2. DOMAIN x.queue = 1 .. z - 1 /\ \A q \in 1 .. z - 1 : x.queue[q] = r.queue[q + 1]
    BY <1>1
  <2> HIDE DEF z, a
  <2>3. \A q \in 1 .. z : q = 1 \/ (q - 1 \in 1 .. z - 1 /\ (q - 1) + 1 = q)
    BY <2>1
  <2>4. \A q \in 1 .. z - 1 : q + 1 \in 1 .. z /\ 1 < q + 1
    BY <2>1
  <2>5. \A q \in 1 .. z : q = 1 \/ x.queue[q - 1] = r.queue[q]
    BY <2>2, <2>3
  <2> QED
    BY <2>1, <2>2, <2>3, <2>4, <2>5
<1>3. /\ a \in Buckets(l)
      /\ \A q \in DOMAIN x.queue : x.queue[q] \in Buckets(l) /\ Order(l, a) < Order(l, x.queue[q])
      /\ r.at # NilAddress => r.at \in Buckets(l) /\ Order(l, a) < Order(l, r.at)
      /\ \A b \in Buckets(l) : Order(l, b) \in Nat
  BY <1>1, <1>2, TypesOfBucket DEF Placed
<1> HIDE DEF a
<1>4. n \in 0 .. n /\ DOMAIN Items(l, a) = 1 .. n
  BY <1>3, TypesOfBucket
<1>5. Follows(l, r, a)
  BY <1>1, <1>2 DEF MetBefore, Follows
<1>6. MetMore(l, h, r, a, n)
  BY <1>1, <1>3, <1>4, <1>5, Takes
<1>7. ASSUME NEW i \in Matching(h, r.query), ~Found(r, i)
      PROVE  \E b \in Buckets(l) :
               /\ In(l, i, b) /\ (b = a \/ Order(l, a) < Order(l, b))
               /\ b = a \/ Ahead(l, r, b) \/ Queued(x, b)
                  \/ (Late(l, r, i, b) /\ Order(l, a) < Order(l, b))
  <2>1. PICK b \in Buckets(l) : In(l, i, b) /\ (Ahead(l, r, b) \/ Queued(r, b) \/ Late(l, r, i, b))
    BY <1>1, <1>7 DEF Covered
  <2>2. CASE Ahead(l, r, b)
    BY <1>3, <2>1, <2>2 DEF Ahead
  <2>3. CASE Queued(r, b)
    BY <1>2, <1>3, <2>1, <2>3 DEF Queued
  <2>4. CASE Late(l, r, i, b)
    BY <1>2, <2>1, <2>4 DEF Late
  <2> QED
    BY <2>1, <2>2, <2>3, <2>4
<1>8. NoGap(l, h, r, a, n)
  <2>1. Ends(l, h, r, a)
    BY <1>7 DEF Ends
  <2> QED
    BY <1>1, <1>3, <1>4, <1>6, <2>1, TakenInOrder
<1>9. x.met = Met(l, r, a, n)
  BY DEF a
<1>10. \A i : Found(x, i) <=> (Found(r, i) \/ K(i))
  <2>1. \A i : Found(x, i) <=> \E j \in DOMAIN Met(l, r, a, n) : Met(l, r, a, n)[j] = i
    BY <1>9 DEF Found
  <2> QED
    BY <1>6, <2>1 DEF MetMore
<1>11. Placed(l, h, x)
  <2>1. \A p, q \in DOMAIN x.queue : p < q => Order(l, x.queue[p]) < Order(l, x.queue[q])
    <3>1. ASSUME NEW p \in DOMAIN x.queue, NEW q \in DOMAIN x.queue, p < q
          PROVE  Order(l, x.queue[p]) < Order(l, x.queue[q])
      <4>1. p + 1 < q + 1
        BY <1>2, <3>1
      <4> QED
        BY <1>1, <1>2, <4>1 DEF Placed
    <3> QED
      BY <3>1
  <2>2. x.at # NilAddress => \A q \in DOMAIN x.queue : Order(l, x.queue[q]) < Order(l, x.at)
    BY <1>1, <1>2 DEF Placed
  <2> QED
    BY <1>1, <1>3, <2>1, <2>2 DEF Placed
<1>12. Phase(x)
  BY <1>1 DEF Phase
<1>13. MetInOrder(h, x)
  BY <1>6, <1>8, <1>9, <1>10 DEF MetInOrder, MetMore, NoGap, Found
<1>14. ASSUME NEW j \in DOMAIN x.met, NEW b \in Buckets(l), In(l, x.met[j], b)
       PROVE  Order(l, b) < Order(l, a) \/ b = a
  <2>1. Found(x, x.met[j]) /\ x.met[j] \in DOMAIN h
    BY <1>13 DEF Found, MetInOrder
  <2>2. CASE Found(r, x.met[j])
    BY <1>5, <1>14, <2>2 DEF Found, Follows
  <2>3. CASE K(x.met[j])
    <3>1. In(l, x.met[j], a)
      BY <1>4, <2>3 DEF In
    <3> QED
      BY <1>1, <1>3, <1>14, <2>1, <3>1, OneBucket
  <2> QED
    BY <1>10, <2>1, <2>2, <2>3
<1>15. MetBefore(l, x)
  BY <1>3, <1>14, SMTT(60) DEF MetBefore
<1>16. Covered(l, h, x)
  <2> SUFFICES ASSUME NEW i \in Matching(h, r.query), ~Found(x, i)
               PROVE  \E b \in Buckets(l) : In(l, i, b) /\ (Ahead(l, x, b) \/ Queued(x, b) \/ Late(l, x, i, b))
    BY DEF Covered
  <2>1. ~Found(r, i) /\ ~K(i) /\ i \in DOMAIN h
    BY <1>10 DEF Matching
  <2>2. PICK b \in Buckets(l) :
               /\ In(l, i, b) /\ (b = a \/ Order(l, a) < Order(l, b))
               /\ b = a \/ Ahead(l, r, b) \/ Queued(x, b)
                  \/ (Late(l, r, i, b) /\ Order(l, a) < Order(l, b))
    BY <1>7, <2>1
  <2>3. b # a
    BY <1>4, <2>1, <2>2 DEF In
  <2>4. ASSUME Late(l, r, i, b), Order(l, a) < Order(l, b) PROVE Late(l, x, i, b)
    <3>1. \A q \in DOMAIN x.queue : Order(l, x.queue[q]) < Order(l, b)
      BY <1>2, <2>4 DEF Late
    <3>2. \A j \in DOMAIN x.met : x.met[j] < i
      <4> SUFFICES ASSUME NEW j \in DOMAIN x.met PROVE x.met[j] < i
        OBVIOUS
      <4>1. x.met[j] \in DOMAIN h /\ Found(x, x.met[j])
        BY <1>13 DEF MetInOrder, Found
      <4>2. PICK c \in Buckets(l) : In(l, x.met[j], c)
        BY <1>1, <4>1 DEF Holds
      <4>3. Order(l, c) < Order(l, b)
        BY <1>3, <1>14, <2>2, <2>4, <4>2
      <4> QED
        BY <1>1, <2>1, <2>2, <4>1, <4>2, <4>3 DEF Holds
    <3> QED
      BY <2>4, <3>1, <3>2 DEF Late
  <2> QED
    BY <2>2, <2>3, <2>4 DEF Ahead
<1> QED
  BY <1>11, <1>12, <1>13, <1>15, <1>16 DEF SearchOK

\* It ends, or is given up.
LEMMA QueuedKeeps ==
  ASSUME NEW l \in ListT, NEW h \in Seq(Key), NEW r \in SearchT, Searching(l, h, r),
         r.mode = "queued",
         NEW x \in SearchT, x.pc \in {"drop", "join", "over"},
         x.mode = r.mode, x.query = r.query, x.at = r.at, x.met = r.met, x.past = r.past,
         x.feed = r.feed, x.queue \in {r.queue, <<>>},
         \/ x.quit = TRUE
         \/ x.pc = "over" /\ x.quit = r.quit /\ x.done = r.done /\ r.done /\ r.queue = <<>>
  PROVE  SearchOK(l, h, x)
<1>1. Placed(l, h, r) /\ Phase(r) /\ MetInOrder(h, r)
  BY DEF Searching, SearchOK
<1>2. Placed(l, h, x)
  <2>1. DOMAIN x.queue \subseteq DOMAIN r.queue /\ \A q \in DOMAIN x.queue : x.queue[q] = r.queue[q]
    OBVIOUS
  <2> QED
    BY <1>1, <2>1 DEF Placed
<1>3. Phase(x)
  BY <1>1 DEF Phase
<1>4. MetInOrder(h, x)
  BY <1>1 DEF MetInOrder, Found
<1>5. ASSUME ~x.quit PROVE MetBefore(l, x) /\ Covered(l, h, x)
  <2>1. MetBefore(l, r) /\ Covered(l, h, r) /\ x.queue = r.queue /\ r.pc # "step"
    BY <1>1, <1>5 DEF Searching, SearchOK, Phase
  <2> QED
    BY <2>1 DEF MetBefore, Covered, Found, Ahead, Queued, Late
<1> QED
  BY <1>2, <1>3, <1>4, <1>5 DEF SearchOK

LEMMA BeginKeeps ==
  ASSUME NEW l \in ListT, NEW h \in Seq(Key), Linkage(l), Holds(l, h),
         NEW x \in SearchT, x.mode \in Modes, x.pc = IF x.mode = "queued" THEN "wait" ELSE "look",
         x.feed = IF x.mode = "queued" THEN "look" ELSE "none",
         x.query \in Query, x.at = l.start, x.met = <<>>, x.past = Len(h), x.quit = FALSE,
         x.queue = <<>>, x.done = FALSE
  PROVE  SearchOK(l, h, x)
<1>1. l.start \in Buckets(l) /\ Order(l, l.start) = 0 /\ l.start # NilAddress /\ Len(h) \in Nat
  BY TypesOfBucket DEF Linkage
<1>2. Placed(l, h, x) /\ Phase(x)
  BY <1>1 DEF Placed, Phase, Modes
<1>3. MetInOrder(h, x) /\ MetBefore(l, x)
  BY DEF MetInOrder, MetBefore
<1>4. Covered(l, h, x)
  <2> SUFFICES ASSUME NEW i \in DOMAIN h
               PROVE  \E b \in Buckets(l) : In(l, i, b) /\ Ahead(l, x, b)
    BY DEF Covered, Matching
  <2>1. PICK b \in Buckets(l) : In(l, i, b)
    BY DEF Holds
  <2>2. Order(l, b) \in Nat
    BY TypesOfBucket
  <2>3. b = l.start \/ 0 < Order(l, b)
    BY <1>1, <2>2, SMTT(60) DEF Linkage
  <2> QED
    BY <1>1, <2>1, <2>3 DEF Ahead
<1> QED
  BY <1>2, <1>3, <1>4 DEF SearchOK

-----------------------------------------------------------------------------
(* What the writers do to the list, and what it means to the searches.     *)

\* The list with an item more, the last of the history, in its last bucket.
PutIn(l, m, h, g) ==
  /\ l \in ListT /\ m \in ListT /\ h \in Seq(Key) /\ g \in Seq(Key)
  /\ Len(g) = Len(h) + 1 /\ \A i \in DOMAIN h : i \in DOMAIN g /\ g[i] = h[i]
  /\ Buckets(m) = Buckets(l) /\ m.start = l.start /\ m.last = l.last /\ m.size = l.size
  /\ \A a \in Buckets(l) :
       /\ Order(m, a) = Order(l, a) /\ m.bucket[a].next = l.bucket[a].next
       /\ l.bucket[a].index \subseteq m.bucket[a].index
       /\ Items(m, a) = IF a = l.last THEN Append(Items(l, a), Len(g)) ELSE Items(l, a)
  /\ Hash[g[Len(g)]] \in m.bucket[l.last].index

LEMMA PutIs ==
  ASSUME NEW l \in ListT, Linkage(l), NEW h \in Seq(Key), NEW key \in Key,
         NEW m, m = [l EXCEPT !.bucket[l.last] = Added(@, Len(h) + 1, key)]
  PROVE  PutIn(l, m, h, Append(h, key))
<1> DEFINE old == l.bucket[l.last]
           new == Added(old, Len(h) + 1, key)
           all == [l.bucket EXCEPT ![l.last] = new]
           g == Append(h, key)
<1>1. l.last \in Buckets(l) /\ old \in BucketT /\ Len(h) + 1 \in Nat /\ Hash[key] \in Range(Hash)
  BY TypesOfList, SkipAssumption DEF Linkage, Range
<1>2. /\ new \in BucketT /\ new.order = old.order /\ new.next = old.next
      /\ new.items = Append(old.items, Len(h) + 1) /\ new.index = old.index \cup {Hash[key]}
  <2>1. /\ old.items \in Seq(Nat) /\ old.index \in SUBSET Range(Hash)
        /\ old.order \in Nat /\ old.next \in NilOr(Address)
    BY <1>1 DEF BucketT
  <2>2. Append(old.items, Len(h) + 1) \in Seq(Nat) /\ old.index \cup {Hash[key]} \in SUBSET Range(Hash)
    BY <1>1, <2>1
  <2>3. new = [old EXCEPT !.items = Append(old.items, Len(h) + 1), !.index = old.index \cup {Hash[key]}]
    BY DEF Added
  <2> HIDE DEF new, old
  <2> QED
    BY <1>1, <2>1, <2>2, <2>3 DEF BucketT
<1> HIDE DEF new
<1>3. PICK D \in SUBSET Address : l.bucket \in [D -> BucketT]
  BY DEF ListT
<1>4. all \in [D -> BucketT] /\ all[l.last] = new /\ \A a \in D \ {l.last} : all[a] = l.bucket[a]
  BY <1>1, <1>2, <1>3 DEF Buckets
<1>5. m = [l EXCEPT !.bucket = all]
  BY DEF new
<1> HIDE DEF all
<1>6. m \in ListT /\ m.bucket = all /\ m.start = l.start /\ m.last = l.last /\ m.size = l.size
  BY <1>3, <1>4, <1>5 DEF ListT
<1>7. /\ g \in Seq(Key) /\ Len(g) = Len(h) + 1 /\ g[Len(h) + 1] = key
      /\ \A i \in DOMAIN h : i \in DOMAIN g /\ g[i] = h[i]
  OBVIOUS
<1> HIDE DEF g
<1>8. D = Buckets(l) /\ D = Buckets(m)
  BY <1>3, <1>4, <1>6 DEF Buckets
<1> HIDE DEF old
<1>9. \A a \in Buckets(l) :
       /\ Order(m, a) = Order(l, a) /\ m.bucket[a].next = l.bucket[a].next
       /\ l.bucket[a].index \subseteq m.bucket[a].index
       /\ Items(m, a) = IF a = l.last THEN Append(Items(l, a), Len(g)) ELSE Items(l, a)
  <2>1. ASSUME NEW a \in Buckets(l), a = l.last
        PROVE  /\ Order(m, a) = Order(l, a) /\ m.bucket[a].next = l.bucket[a].next
               /\ l.bucket[a].index \subseteq m.bucket[a].index
               /\ Items(m, a) = Append(Items(l, a), Len(g))
    BY <1>2, <1>4, <1>6, <1>7, <2>1 DEF Order, Items, old
  <2>2. ASSUME NEW a \in Buckets(l), a # l.last
        PROVE  m.bucket[a] = l.bucket[a]
    BY <1>4, <1>6, <1>8, <2>2
  <2>3. ASSUME NEW a \in Buckets(l), a # l.last
        PROVE  /\ Order(m, a) = Order(l, a) /\ m.bucket[a].next = l.bucket[a].next
               /\ l.bucket[a].index \subseteq m.bucket[a].index
               /\ Items(m, a) = Items(l, a)
    BY <2>2, <2>3 DEF Order, Items
  <2> QED
    BY <2>1, <2>3, SMTT(60)
<1>10. Hash[g[Len(g)]] \in m.bucket[l.last].index
  BY <1>2, <1>4, <1>6, <1>7
<1> QED
  BY <1>6, <1>7, <1>8, <1>9, <1>10 DEF PutIn, g

\* The new item is in the last bucket, the others are where they were.
LEMMA PutPlaces ==
  ASSUME NEW l, NEW m, NEW h, NEW g, PutIn(l, m, h, g), Holds(l, h), NEW a \in Buckets(l)
  PROVE  /\ \A i \in DOMAIN h : In(m, i, a) <=> In(l, i, a)
         /\ In(m, Len(g), a) <=> a = l.last
         /\ \A i : In(m, i, a) => In(l, i, a) \/ (a = l.last /\ i = Len(g))
         /\ DOMAIN g = 1 .. Len(h) + 1 /\ DOMAIN h = 1 .. Len(h) /\ Len(g) = Len(h) + 1 /\ Len(h) \in Nat
         /\ Len(g) \notin DOMAIN h
<1>1. /\ Items(l, a) \in Seq(Nat) /\ DOMAIN h = 1 .. Len(h) /\ Len(g) = Len(h) + 1 /\ Len(h) \in Nat
      /\ DOMAIN g = 1 .. Len(h) + 1
  BY TypesOfBucket DEF PutIn
<1>2. Items(m, a) = IF a = l.last THEN Append(Items(l, a), Len(g)) ELSE Items(l, a)
  BY DEF PutIn
<1>3. Len(g) \notin DOMAIN h
  BY <1>1
<1>4. ~In(l, Len(g), a)
  BY <1>3 DEF In, Holds
<1>5. CASE a # l.last
  BY <1>1, <1>2, <1>3, <1>4, <1>5 DEF In
<1>6. CASE a = l.last
  <2> DEFINE s == Items(l, a)
  <2>1. /\ DOMAIN s = 1 .. Len(s) /\ Len(s) \in Nat /\ DOMAIN Items(m, a) = 1 .. Len(s) + 1
        /\ Items(m, a)[Len(s) + 1] = Len(g) /\ \A j \in 1 .. Len(s) : Items(m, a)[j] = s[j]
    BY <1>1, <1>2, <1>6
  <2>2. /\ \A j \in 1 .. Len(s) : j \in DOMAIN Items(m, a)
        /\ Len(s) + 1 \in DOMAIN Items(m, a)
        /\ \A j \in DOMAIN Items(m, a) : j \in 1 .. Len(s) \/ j = Len(s) + 1
    BY <2>1
  <2>3. \A i : In(m, i, a) <=> In(l, i, a) \/ i = Len(g)
    BY <2>1, <2>2 DEF In
  <2> QED
    BY <1>1, <1>3, <1>6, <2>3
<1> QED
  BY <1>5, <1>6

LEMMA PutList ==
  ASSUME NEW l, NEW m, NEW h, NEW g, PutIn(l, m, h, g), Linkage(l), Holds(l, h)
  PROVE  Linkage(m) /\ Holds(m, g)
<1>1. Linkage(m)
  BY DEF PutIn, Linkage
<1>2. /\ l \in ListT /\ m \in ListT /\ Buckets(m) = Buckets(l) /\ l.last \in Buckets(l)
      /\ \A a \in Buckets(l) : Order(m, a) = Order(l, a) /\ Order(l, a) \in Nat
      /\ \A a \in Buckets(l) : Order(l, a) <= Order(l, l.last)
      /\ DOMAIN g = 1 .. Len(h) + 1 /\ DOMAIN h = 1 .. Len(h) /\ Len(g) = Len(h) + 1 /\ Len(h) \in Nat
  <2>1. l \in ListT /\ m \in ListT /\ Buckets(m) = Buckets(l) /\ l.last \in Buckets(l) /\ l.size \in Nat
    BY TypesOfList DEF PutIn, Linkage
  <2>2. \A a \in Buckets(l) : Order(m, a) = Order(l, a) /\ Order(l, a) \in Nat
    BY <2>1, TypesOfBucket DEF PutIn
  <2>3. \A a \in Buckets(l) : Order(l, a) < l.size /\ Order(l, l.last) = l.size - 1
    BY DEF Linkage
  <2> QED
    BY <2>1, <2>2, <2>3, PutPlaces
<1>3. \A i \in DOMAIN g : \E a \in Buckets(m) : In(m, i, a) /\ Hash[g[i]] \in m.bucket[a].index
  <2>1. CASE TRUE
    <3>1. ASSUME NEW i \in DOMAIN h
          PROVE  \E a \in Buckets(m) : In(m, i, a) /\ Hash[g[i]] \in m.bucket[a].index
      <4>1. PICK a \in Buckets(l) : In(l, i, a) /\ Hash[h[i]] \in l.bucket[a].index
        BY DEF Holds
      <4>2. In(m, i, a) /\ g[i] = h[i] /\ l.bucket[a].index \subseteq m.bucket[a].index
        <5>1. In(m, i, a)
          BY <4>1, PutPlaces, Zenon
        <5>2. g[i] = h[i] /\ l.bucket[a].index \subseteq m.bucket[a].index
          BY Zenon DEF PutIn
        <5> QED
          BY <5>1, <5>2
      <4> QED
        BY <1>2, <4>1, <4>2
    <3>2. In(m, Len(g), l.last) /\ Hash[g[Len(g)]] \in m.bucket[l.last].index
      BY <1>2, PutPlaces DEF PutIn
    <3> QED
      BY <1>2, <3>1, <3>2
  <2> QED
    BY <2>1
<1>4. ASSUME NEW a \in Buckets(m), NEW j \in DOMAIN Items(m, a)
      PROVE  Items(m, a)[j] \in DOMAIN g
  <2>1. In(m, Items(m, a)[j], a)
    BY DEF In
  <2>2. In(l, Items(m, a)[j], a) \/ Items(m, a)[j] = Len(g)
    BY <1>2, <2>1, PutPlaces
  <2>3. In(l, Items(m, a)[j], a) => Items(m, a)[j] \in DOMAIN h
    BY <1>2 DEF In, Holds
  <2> QED
    BY <1>2, <2>2, <2>3
<1>5. ASSUME NEW a \in Buckets(m), NEW j \in DOMAIN Items(m, a), NEW k \in DOMAIN Items(m, a), j < k
      PROVE  Items(m, a)[j] < Items(m, a)[k]
  <2> DEFINE s == Items(l, a)
  <2>1. s \in Seq(Nat) /\ DOMAIN s = 1 .. Len(s) /\ Len(s) \in Nat
    BY <1>2, TypesOfBucket
  <2>2. Items(m, a) = IF a = l.last THEN Append(s, Len(g)) ELSE s
    BY <1>2 DEF PutIn
  <2>3. CASE k \in DOMAIN s
    <3>1. j \in DOMAIN s /\ Items(m, a)[j] = s[j] /\ Items(m, a)[k] = s[k]
      BY <1>5, <2>1, <2>2, <2>3
    <3> QED
      BY <1>2, <1>5, <2>3, <3>1 DEF Holds
  <2>4. CASE k \notin DOMAIN s
    <3>1. k = Len(s) + 1 /\ Items(m, a)[k] = Len(g) /\ j \in DOMAIN s /\ Items(m, a)[j] = s[j]
      BY <1>5, <2>1, <2>2, <2>4
    <3>2. s[j] \in DOMAIN h
      BY <1>2, <3>1 DEF Holds
    <3> QED
      BY <1>2, <3>1, <3>2
  <2> QED
    BY <2>3, <2>4
<1>6. ASSUME NEW a \in Buckets(m), NEW b \in Buckets(m), Order(m, a) < Order(m, b),
             NEW i \in DOMAIN g, NEW k \in DOMAIN g, In(m, i, a), In(m, k, b)
      PROVE  i < k
  <2>1. a # l.last
    BY <1>2, <1>6
  <2>2. In(l, i, a) /\ i \in DOMAIN h
    <3>1. In(l, i, a)
      BY <1>2, <1>6, <2>1, PutPlaces
    <3> QED
      BY <1>2, <3>1 DEF In, Holds
  <2>3. CASE k \in DOMAIN h
    <3>1. In(l, k, b) /\ a \in Buckets(l) /\ b \in Buckets(l) /\ Order(l, a) < Order(l, b)
      BY <1>2, <1>6, <2>3, PutPlaces
    <3> QED
      BY <2>2, <2>3, <3>1 DEF Holds
  <2>4. CASE k \notin DOMAIN h
    BY <1>2, <2>2, <2>4
  <2> QED
    BY <2>3, <2>4
<1> QED
  BY <1>1, <1>3, <1>4, <1>5, <1>6 DEF Holds

LEMMA PutSearch ==
  ASSUME NEW l, NEW m, NEW h, NEW g, PutIn(l, m, h, g), NEW r \in SearchT,
         Linkage(l), Holds(l, h), SearchOK(l, h, r)
  PROVE  SearchOK(m, g, r)
<1> SUFFICES ASSUME r.mode \in Modes
             PROVE  /\ Placed(m, g, r) /\ Phase(r) /\ MetInOrder(g, r)
                    /\ ~r.quit => MetBefore(m, r) /\ Covered(m, g, r)
  BY DEF SearchOK
<1>1. /\ Placed(l, h, r) /\ Phase(r) /\ MetInOrder(h, r)
      /\ ~r.quit => MetBefore(l, r) /\ Covered(l, h, r)
  BY DEF SearchOK
<1>2. /\ l \in ListT /\ m \in ListT /\ Buckets(m) = Buckets(l) /\ l.last \in Buckets(l)
      /\ \A a \in Buckets(l) : Order(m, a) = Order(l, a) /\ Order(l, a) \in Nat
      /\ \A a \in Buckets(l) : Order(l, a) < Order(l, l.last) \/ a = l.last
      /\ DOMAIN g = 1 .. Len(h) + 1 /\ DOMAIN h = 1 .. Len(h) /\ Len(g) = Len(h) + 1 /\ Len(h) \in Nat
      /\ \A i \in DOMAIN h : i \in DOMAIN g /\ g[i] = h[i] /\ i < Len(g)
      /\ r.past \in Nat
  <2>1. l \in ListT /\ m \in ListT /\ Buckets(m) = Buckets(l) /\ l.last \in Buckets(l) /\ l.size \in Nat
    BY TypesOfList DEF PutIn, Linkage
  <2>2. \A a \in Buckets(l) : Order(m, a) = Order(l, a) /\ Order(l, a) \in Nat
    BY <2>1, TypesOfBucket DEF PutIn
  <2>3. \A a \in Buckets(l) : Order(l, a) < l.size /\ Order(l, l.last) = l.size - 1
    BY DEF Linkage
  <2>4. \A a \in Buckets(l) : Order(l, a) = Order(l, l.last) => a = l.last
    BY <2>1 DEF Linkage
  <2>5. DOMAIN g = 1 .. Len(h) + 1 /\ DOMAIN h = 1 .. Len(h) /\ Len(g) = Len(h) + 1 /\ Len(h) \in Nat
    BY <2>1, PutPlaces
  <2>6. \A i \in DOMAIN h : i \in DOMAIN g /\ g[i] = h[i] /\ i < Len(g)
    <3>1. \A i \in DOMAIN h : i < Len(g)
      BY <2>5
    <3> QED
      BY <3>1 DEF PutIn
  <2> QED
    BY <2>1, <2>2, <2>3, <2>4, <2>5, <2>6, TypesOfSearch
<1>3. Placed(m, g, r)
  <2>1. r.past <= Len(g)
    BY <1>1, <1>2 DEF Placed
  <2>2. \A q \in DOMAIN r.queue : r.queue[q] \in Buckets(l)
    BY <1>1 DEF Placed
  <2> QED
    BY <1>1, <1>2, <2>1, <2>2 DEF Placed
<1>4. \A j \in DOMAIN r.met : r.met[j] \in DOMAIN h
  BY <1>1 DEF MetInOrder
<1>5. MetInOrder(g, r)
  <2>1. \A i \in Matching(g, r.query), j \in DOMAIN r.met : i <= r.met[j] => i \in Matching(h, r.query)
    <3>1. \A i \in DOMAIN g, k \in DOMAIN h : i <= k => i \in DOMAIN h
      BY <1>2
    <3> QED
      BY <1>2, <1>4, <3>1 DEF Matching
  <2> QED
    BY <1>1, <1>2, <1>4, <2>1 DEF MetInOrder
<1>6. ASSUME ~r.quit PROVE MetBefore(m, r)
  <2>1. \A j \in DOMAIN r.met, a \in Buckets(l) : In(m, r.met[j], a) => In(l, r.met[j], a)
    BY <1>2, <1>4, PutPlaces
  <2>2. \A q \in DOMAIN r.queue : r.queue[q] \in Buckets(l)
    BY <1>1 DEF Placed
  <2>3. r.at = NilAddress \/ r.at \in Buckets(l)
    BY <1>1 DEF Placed
  <2> QED
    BY <1>1, <1>2, <1>6, <2>1, <2>2, <2>3 DEF MetBefore
<1>7. ASSUME ~r.quit PROVE Covered(m, g, r)
  <2> SUFFICES ASSUME NEW i \in Matching(g, r.query), ~Found(r, i), ~(r.mode = "lazy" /\ i > r.past)
               PROVE  \E b \in Buckets(m) : In(m, i, b) /\ (Ahead(m, r, b) \/ Queued(r, b) \/ Late(m, r, i, b))
    BY DEF Covered
  <2>1. \A q \in DOMAIN r.queue : r.queue[q] \in Buckets(l)
    BY <1>1 DEF Placed
  <2>2. r.at = NilAddress \/ r.at \in Buckets(l)
    BY <1>1 DEF Placed
  <2>3. CASE i \in DOMAIN h
    <3>1. i \in Matching(h, r.query)
      BY <1>2, <2>3 DEF Matching
    <3>2. PICK b \in Buckets(l) : In(l, i, b) /\ (Ahead(l, r, b) \/ Queued(r, b) \/ Late(l, r, i, b))
      BY <1>1, <1>7, <3>1 DEF Covered
    <3>3. In(m, i, b)
      BY <2>3, <3>2, PutPlaces
    <3>4. Ahead(l, r, b) => Ahead(m, r, b)
      BY <1>2, <2>2 DEF Ahead
    <3>5. Late(l, r, i, b) => Late(m, r, i, b)
      BY <1>2, <2>1 DEF Late
    <3> QED
      BY <1>2, <3>2, <3>3, <3>4, <3>5
  <2>4. CASE i \notin DOMAIN h
    <3>1. i = Len(g)
      BY <1>2, <2>4 DEF Matching
    <3>2. In(m, i, l.last)
      BY <1>2, <3>1, PutPlaces
    <3>3. i > r.past
      BY <1>1, <1>2, <3>1 DEF Placed
    <3>4. CASE r.at # NilAddress
      <4>1. Order(l, r.at) < Order(l, l.last) \/ r.at = l.last
        BY <1>2, <2>2, <3>4
      <4>2. r.mode # "lazy" => r.pc # "step"
        BY <1>1 DEF Phase, Modes
      <4>3. Ahead(m, r, l.last)
        BY <1>2, <2>2, <3>3, <3>4, <4>1, <4>2 DEF Ahead
      <4> QED
        BY <1>2, <3>2, <4>3
    <3>5. CASE r.at = NilAddress /\ ~Queued(r, l.last)
      <4>1. \A q \in DOMAIN r.queue : Order(m, r.queue[q]) < Order(m, l.last)
        BY <1>2, <2>1, <3>5 DEF Queued
      <4>2. \A j \in DOMAIN r.met : r.met[j] < i
        BY <1>2, <1>4, <3>1
      <4>3. Late(m, r, i, l.last)
        BY <3>3, <3>5, <4>1, <4>2, SMTT(60) DEF Late
      <4> QED
        BY <1>2, <3>2, <4>3
    <3> QED
      BY <1>2, <3>2, <3>4, <3>5
  <2> QED
    BY <2>3, <2>4
<1> QED
  BY <1>1, <1>3, <1>5, <1>6, <1>7

\* The list with a bucket more, empty, behind the last one.
GrownBy(l, m, n) ==
  /\ l \in ListT /\ m \in ListT /\ n \notin Buckets(l)
  /\ Buckets(m) = Buckets(l) \cup {n} /\ m.start = l.start /\ m.last = n /\ m.size = l.size + 1
  /\ \A a \in Buckets(l) :
       /\ Order(m, a) = Order(l, a) /\ Items(m, a) = Items(l, a)
       /\ m.bucket[a].index = l.bucket[a].index
       /\ m.bucket[a].next = IF a = l.last THEN n ELSE l.bucket[a].next
  /\ Order(m, n) = l.size /\ Items(m, n) = <<>> /\ m.bucket[n].next = NilAddress

LEMMA GrowIs ==
  ASSUME NEW l \in ListT, Linkage(l), NEW n \in Address, n \notin Buckets(l),
         NEW m, m = [l EXCEPT !.last = n, !.size = @ + 1,
                       !.bucket = [a \in DOMAIN @ \cup {n} |->
                                     IF a = n THEN NewBucket(l.size)
                                     ELSE IF a = l.last THEN [@[a] EXCEPT !.next = n]
                                     ELSE @[a]]]
  PROVE  GrownBy(l, m, n)
<1> DEFINE new == NewBucket(l.size)
           old == [l.bucket[l.last] EXCEPT !.next = n]
           all == [a \in DOMAIN l.bucket \cup {n} |->
                     IF a = n THEN new ELSE IF a = l.last THEN old ELSE l.bucket[a]]
<1>1. l.last \in Buckets(l) /\ l.bucket[l.last] \in BucketT /\ l.size \in Nat /\ l.size + 1 \in Nat
  BY TypesOfList DEF Linkage
<1>2. PICK D \in SUBSET Address : l.bucket \in [D -> BucketT]
  BY DEF ListT
<1>3. /\ new \in BucketT /\ new.order = l.size /\ new.items = <<>> /\ new.next = NilAddress
  <2>1. new = [order |-> l.size, items |-> <<>>, index |-> {}, next |-> NilAddress]
    BY DEF NewBucket
  <2>2. <<>> \in Seq(Nat) /\ {} \in SUBSET Range(Hash) /\ NilAddress \in NilOr(Address)
    BY DEF NilOr
  <2> HIDE DEF new
  <2> QED
    BY <1>1, <2>1, <2>2 DEF BucketT
<1> HIDE DEF new
<1>4. /\ old \in BucketT /\ old.order = l.bucket[l.last].order /\ old.items = l.bucket[l.last].items
      /\ old.index = l.bucket[l.last].index /\ old.next = n
  <2>1. n \in NilOr(Address)
    BY DEF NilOr
  <2> QED
    BY <1>1, <2>1 DEF BucketT
<1> HIDE DEF old
<1>5. /\ all \in [D \cup {n} -> BucketT] /\ D \cup {n} \in SUBSET Address /\ D = Buckets(l)
      /\ all[n] = new /\ all[l.last] = old
      /\ \A a \in D : a # l.last => all[a] = l.bucket[a]
  BY <1>1, <1>2, <1>3, <1>4 DEF Buckets
<1>6. m = [l EXCEPT !.last = n, !.size = l.size + 1, !.bucket = all]
  BY DEF new, old
<1> HIDE DEF all
<1>7. /\ m \in ListT /\ m.bucket = all /\ m.start = l.start /\ m.last = n /\ m.size = l.size + 1
  <2>1. n \in NilOr(Address)
    BY DEF NilOr
  <2>2. all \in UNION {[E -> BucketT] : E \in SUBSET Address}
    BY <1>5
  <2> QED
    BY <1>1, <1>6, <2>1, <2>2 DEF ListT
<1>8. Buckets(m) = Buckets(l) \cup {n}
  BY <1>5, <1>7 DEF Buckets
<1>9. Order(m, n) = l.size /\ Items(m, n) = <<>> /\ m.bucket[n].next = NilAddress
  BY <1>3, <1>5, <1>7 DEF Order, Items
<1>10. ASSUME NEW a \in Buckets(l)
       PROVE  /\ Order(m, a) = Order(l, a) /\ Items(m, a) = Items(l, a)
              /\ m.bucket[a].index = l.bucket[a].index
              /\ m.bucket[a].next = IF a = l.last THEN n ELSE l.bucket[a].next
  <2>1. CASE a = l.last
    BY <1>4, <1>5, <1>7, <2>1 DEF Order, Items
  <2>2. CASE a # l.last
    <3>1. m.bucket[a] = l.bucket[a]
      BY <1>5, <1>7, <2>2
    <3> QED
      BY <2>2, <3>1 DEF Order, Items
  <2> QED
    BY <2>1, <2>2
<1> QED
  BY <1>7, <1>8, <1>9, <1>10 DEF GrownBy

LEMMA GrowPlaces ==
  ASSUME NEW l, NEW m, NEW n, GrownBy(l, m, n), NEW i, NEW a \in Buckets(m)
  PROVE  In(m, i, a) <=> a \in Buckets(l) /\ In(l, i, a)
<1>1. CASE a = n
  <2>1. DOMAIN Items(m, a) = {} /\ a \notin Buckets(l)
    BY <1>1 DEF GrownBy
  <2> QED
    BY <2>1 DEF In
<1>2. CASE a # n
  BY <1>2 DEF GrownBy, In
<1> QED
  BY <1>1, <1>2

LEMMA GrowList ==
  ASSUME NEW l, NEW m, NEW n, GrownBy(l, m, n), NEW h, Linkage(l), Holds(l, h)
  PROVE  Linkage(m) /\ Holds(m, h)
<1>1. /\ l \in ListT /\ m \in ListT /\ n \notin Buckets(l) /\ Buckets(m) = Buckets(l) \cup {n}
      /\ m.start = l.start /\ m.last = n /\ m.size = l.size + 1 /\ l.size \in Nat
      /\ \A a \in Buckets(l) : Order(m, a) = Order(l, a) /\ Order(l, a) \in Nat /\ Order(l, a) < l.size
      /\ Order(m, n) = l.size
      /\ l.last \in Buckets(l) /\ l.start \in Buckets(l)
  BY TypesOfList, TypesOfBucket DEF GrownBy, Linkage
<1>2. Linkage(m)
  <2>1. m.start \in Buckets(m) /\ Order(m, m.start) = 0 /\ m.last \in Buckets(m) /\ Order(m, m.last) = m.size - 1
    BY <1>1 DEF Linkage
  <2>2. m.bucket[m.last].next = NilAddress
    BY <1>1 DEF GrownBy
  <2>3. \A a \in Buckets(m) : Order(m, a) < m.size
    BY <1>1
  <2>4. \A a, b \in Buckets(m) : Order(m, a) = Order(m, b) => a = b
    <3>1. \A a, b \in Buckets(l) : Order(m, a) = Order(m, b) => a = b
      BY <1>1 DEF Linkage
    <3>2. \A a \in Buckets(l) : Order(m, a) < Order(m, n) /\ Order(m, a) \in Nat
      BY <1>1
    <3>3. \A a \in Buckets(l) : Order(m, a) # Order(m, n)
      BY <1>1, <3>2
    <3> QED
      BY <1>1, <3>1, <3>3
  <2>5. ASSUME NEW a \in Buckets(m) \ {m.last}
        PROVE  m.bucket[a].next \in Buckets(m) /\ Order(m, m.bucket[a].next) = Order(m, a) + 1
    <3>0. a \in Buckets(l)
      BY <1>1
    <3>1. CASE a = l.last
      <4>1. m.bucket[a].next = n /\ Order(l, l.last) = l.size - 1
        BY <3>0, <3>1 DEF GrownBy, Linkage
      <4> QED
        BY <1>1, <3>1, <4>1
    <3>2. CASE a # l.last
      <4>1. m.bucket[a].next = l.bucket[a].next
        BY <3>0, <3>2 DEF GrownBy
      <4> QED
        BY <1>1, <3>0, <3>2, <4>1 DEF Linkage
    <3> QED
      BY <3>1, <3>2
  <2> QED
    BY <2>1, <2>2, <2>3, <2>4, <2>5 DEF Linkage
<1>3. \A i \in DOMAIN h : \E a \in Buckets(m) : In(m, i, a) /\ Hash[h[i]] \in m.bucket[a].index
  <2> SUFFICES ASSUME NEW i \in DOMAIN h
               PROVE  \E a \in Buckets(m) : In(m, i, a) /\ Hash[h[i]] \in m.bucket[a].index
    OBVIOUS
  <2>1. PICK a \in Buckets(l) : In(l, i, a) /\ Hash[h[i]] \in l.bucket[a].index
    BY DEF Holds
  <2>2. a \in Buckets(m) /\ In(m, i, a) /\ m.bucket[a].index = l.bucket[a].index
    <3>1. a \in Buckets(m) /\ m.bucket[a].index = l.bucket[a].index
      BY <1>1 DEF GrownBy
    <3> QED
      BY <2>1, <3>1, GrowPlaces
  <2> QED
    BY <2>1, <2>2
<1>4. \A a \in Buckets(m) : a = n \/ (a \in Buckets(l) /\ Items(m, a) = Items(l, a))
  BY <1>1 DEF GrownBy
<1>5. DOMAIN Items(m, n) = {}
  BY DEF GrownBy
<1>6. ASSUME NEW a \in Buckets(m), NEW j \in DOMAIN Items(m, a)
      PROVE  /\ Items(m, a)[j] \in DOMAIN h
             /\ \A k \in DOMAIN Items(m, a) : j < k => Items(m, a)[j] < Items(m, a)[k]
  BY <1>4, <1>5, <1>6 DEF Holds
<1>7. ASSUME NEW a \in Buckets(m), NEW b \in Buckets(m), Order(m, a) < Order(m, b),
             NEW i \in DOMAIN h, NEW k \in DOMAIN h, In(m, i, a), In(m, k, b)
      PROVE  i < k
  <2>1. a \in Buckets(l) /\ b \in Buckets(l) /\ In(l, i, a) /\ In(l, k, b)
    BY <1>7, GrowPlaces
  <2> QED
    BY <1>1, <1>7, <2>1 DEF Holds
<1> QED
  BY <1>2, <1>3, <1>6, <1>7 DEF Holds

LEMMA GrowSearch ==
  ASSUME NEW l, NEW m, NEW n, GrownBy(l, m, n), NEW h, NEW r \in SearchT, SearchOK(l, h, r)
  PROVE  SearchOK(m, h, r)
<1> SUFFICES ASSUME r.mode \in Modes
             PROVE  /\ Placed(m, h, r) /\ Phase(r) /\ MetInOrder(h, r)
                    /\ ~r.quit => MetBefore(m, r) /\ Covered(m, h, r)
  BY DEF SearchOK
<1>1. /\ Placed(l, h, r) /\ Phase(r) /\ MetInOrder(h, r)
      /\ ~r.quit => MetBefore(l, r) /\ Covered(l, h, r)
  BY DEF SearchOK
<1>2. /\ Buckets(m) = Buckets(l) \cup {n}
      /\ \A a \in Buckets(l) : Order(m, a) = Order(l, a) /\ a \in Buckets(m)
      /\ \A i, a : a \in Buckets(m) => (In(m, i, a) <=> a \in Buckets(l) /\ In(l, i, a))
  BY GrowPlaces DEF GrownBy
<1>3. /\ \A q \in DOMAIN r.queue : r.queue[q] \in Buckets(l)
      /\ r.at = NilAddress \/ r.at \in Buckets(l)
  BY <1>1 DEF Placed
<1>4. Placed(m, h, r)
  BY <1>1, <1>2, <1>3 DEF Placed
<1>5. ASSUME ~r.quit PROVE MetBefore(m, r)
  BY <1>1, <1>2, <1>3, <1>5 DEF MetBefore
<1>6. ASSUME ~r.quit PROVE Covered(m, h, r)
  <2> SUFFICES ASSUME NEW i \in Matching(h, r.query), ~Found(r, i), ~(r.mode = "lazy" /\ i > r.past)
               PROVE  \E b \in Buckets(m) : In(m, i, b) /\ (Ahead(m, r, b) \/ Queued(r, b) \/ Late(m, r, i, b))
    BY DEF Covered
  <2>1. PICK b \in Buckets(l) : In(l, i, b) /\ (Ahead(l, r, b) \/ Queued(r, b) \/ Late(l, r, i, b))
    BY <1>1, <1>6 DEF Covered
  <2>2. In(m, i, b) /\ b \in Buckets(m)
    BY <1>2, <2>1
  <2>3. Ahead(l, r, b) => Ahead(m, r, b)
    BY <1>2, <1>3 DEF Ahead
  <2>4. Late(l, r, i, b) => Late(m, r, i, b)
    BY <1>2, <1>3 DEF Late
  <2> QED
    BY <2>1, <2>2, <2>3, <2>4
<1> QED
  BY <1>1, <1>4, <1>5, <1>6

-----------------------------------------------------------------------------
(* The steps.                                                              *)

LEMMA NoListIs == NoList \in ListT /\ Buckets(NoList) = {} /\ NoSearch \in SearchT /\ NoWriter \in WriterT
<1>1. <<>> \in UNION {[D -> BucketT] : D \in SUBSET Address} /\ DOMAIN <<>> = {}
  <2>1. <<>> \in [{} -> BucketT] /\ {} \in SUBSET Address
    OBVIOUS
  <2> QED
    BY <2>1
<1>2. \A S : NilAddress \in NilOr(S)
  BY DEF NilOr
<1>3. NoList \in ListT /\ Buckets(NoList) = {}
  BY <1>1, <1>2 DEF NoList, ListT, Buckets
<1>4. <<>> \in Seq(Int) /\ <<>> \in Seq(Address)
  OBVIOUS
<1> QED
  BY <1>2, <1>3, <1>4 DEF NoSearch, SearchT, NoWriter, WriterT

LEMMA InitSkip == LogInit /\ SkipInit => SkipInv
<1> SUFFICES ASSUME LogInit, SkipInit PROVE SkipInv
  OBVIOUS
<1>1. LogInv
  BY InitLog DEF WalkInv
<1>2. SkipType
  BY NoListIs DEF SkipInit, SkipType
<1>3. Unmade
  BY DEF SkipInit, Unmade, NoWriter
<1> QED
  BY <1>1, <1>2, <1>3 DEF SkipInv

LEMMA MadeOrNot ==
  ASSUME SkipInv
  PROVE  /\ Unmade <=> list = NoList
         /\ list # NoList => Made /\ \A s \in Searcher : SearchOK(list, history, search[s]) /\ Aside(search[s])
<1>1. Linkage(list) => list # NoList
  BY NoListIs DEF Linkage
<1> QED
  BY <1>1 DEF SkipInv, Unmade, Made

LEMMA CreateStep ==
  ASSUME SkipInv, CreateList
  PROVE  SkipInv'
<1> DEFINE k == Allocated(log, BucketBytes)
           l == Allocated(k, ListHeaderBytes)
           first == l.made[Len(l.made) - 1]
<1>1. /\ Unmade /\ SkipType /\ LogInv /\ log \in LogT /\ Segs(log) /\ Linked(log)
      /\ BucketBytes \in EntryBytes /\ ListHeaderBytes \in EntryBytes
  BY MadeOrNot, SkipAssumption DEF CreateList, SkipInv, LogInv, LogType
<1>2. k \in LogT /\ Segs(k) /\ Linked(k) /\ Len(k.made) = Len(log.made) + 1
  BY <1>1, AllocatedIs
<1> HIDE DEF k
<1>3. l \in LogT /\ Segs(l) /\ Linked(l) /\ Len(l.made) = Len(k.made) + 1
  BY <1>1, <1>2, AllocatedIs
<1> HIDE DEF l
<1>4. first \in Address /\ \E i \in DOMAIN l.made : l.made[i] = first
  <2>1. l.made \in Seq(Address) /\ log.made \in Seq(Address) /\ Len(log.made) \in Nat
    BY <1>1, <1>3 DEF LogT
  <2>2. Len(l.made) - 1 \in DOMAIN l.made
    BY <1>2, <1>3, <2>1
  <2> QED
    BY <2>1, <2>2
<1> HIDE DEF first
<1>5. /\ log' = l /\ UNCHANGED <<walk, reopened, writer, search, history>>
      /\ list' = [start |-> first, last |-> first, size |-> 1,
                  bucket |-> [a \in {first} |-> NewBucket(0)]]
  BY DEF CreateList, k, l, first
<1>6. LogInv'
  BY <1>1, <1>3, <1>5 DEF LogInv, LogType
<1>7. /\ list' \in ListT /\ list'.start = first /\ list'.last = first /\ list'.size = 1
      /\ list'.bucket = [a \in {first} |-> NewBucket(0)]
  <2>1. NewBucket(0) \in BucketT
    <3>1. <<>> \in Seq(Nat) /\ {} \in SUBSET Range(Hash) /\ NilAddress \in NilOr(Address)
      BY DEF NilOr
    <3> QED
      BY <3>1 DEF NewBucket, BucketT
  <2>2. [a \in {first} |-> NewBucket(0)] \in [{first} -> BucketT] /\ {first} \in SUBSET Address
    BY <1>4, <2>1
  <2>3. [a \in {first} |-> NewBucket(0)] \in UNION {[D -> BucketT] : D \in SUBSET Address}
    BY <2>2
  <2>4. first \in NilOr(Address)
    BY <1>4 DEF NilOr
  <2> QED
    BY <1>5, <2>3, <2>4 DEF ListT
<1>8. /\ Buckets(list') = {first} /\ Order(list', first) = 0 /\ Items(list', first) = <<>>
      /\ list'.bucket[first].next = NilAddress
  BY <1>7 DEF Buckets, Order, Items, NewBucket
<1>9. history' = <<>> /\ DOMAIN Items(list', first) = {} /\ DOMAIN history' = {}
  BY <1>1, <1>5, <1>8 DEF Unmade
<1>10. Linkage(list') /\ Holds(list', history')
  <2>1. Linkage(list')
    BY <1>7, <1>8 DEF Linkage
  <2>2. Holds(list', history')
    BY <1>8, <1>9 DEF Holds
  <2> QED
    BY <2>1, <2>2
<1>11. Stored'
  BY <1>4, <1>5, <1>8 DEF Stored
<1>12. Writing'
  BY <1>1, <1>5 DEF Writing, InHeader, AtLast, Unmade
<1>13. \A s \in Searcher : SearchOK(list, history, search[s])' /\ Aside(search[s])'
  <2>1. \A s \in Searcher : search'[s].mode = "none" /\ search'[s].feed = "none" /\ search'[s].pc = "idle"
    BY <1>1, <1>5 DEF Unmade, NoSearch
  <2> QED
    BY <2>1 DEF SearchOK, Aside, Modes
<1>14. SkipType'
  BY <1>1, <1>5, <1>7 DEF SkipType
<1> QED
  BY <1>6, <1>10, <1>11, <1>12, <1>13, <1>14 DEF SkipInv, Made

\* A step of a writer that takes a lock.
LEMMA LockStep ==
  ASSUME SkipInv, NEW w \in Writer,
         \/ \E k \in Key : Emplace(w, k)
         \/ TakeHeader(w) \/ TakeLast(w) \/ TakeNew(w)
  PROVE  SkipInv'
<1>1. list # NoList
  BY MadeOrNot DEF Emplace, TakeHeader, TakeLast, TakeNew, Unmade
<1>2. /\ SkipType /\ LogInv /\ Made /\ Linkage(list) /\ Writing /\ list.last \in Buckets(list)
      /\ \A s \in Searcher : SearchOK(list, history, search[s]) /\ Aside(search[s])
      /\ writer \in [Writer -> WriterT] /\ list.last \in NilOr(Address)
  BY <1>1, MadeOrNot DEF SkipInv, SkipType, Made, Linkage, ListT
<1>3. UNCHANGED <<logVars, list, search, history>>
  BY DEF Emplace, TakeHeader, TakeLast, TakeNew
<1>4. LogInv' /\ Stored' /\ Linkage(list') /\ Holds(list', history')
      /\ \A s \in Searcher : SearchOK(list, history, search[s])' /\ Aside(search[s])'
  BY <1>2, <1>3 DEF LogInv, LogType, logVars, Stored, Made
<1> SUFFICES writer' \in [Writer -> WriterT] /\ Writing'
  BY <1>2, <1>3, <1>4 DEF SkipInv, Made, SkipType
<1>5. ASSUME NEW k \in Key, Emplace(w, k)
      PROVE  writer' \in [Writer -> WriterT] /\ Writing'
  <2>1. /\ [NoWriter EXCEPT !.pc = "header", !.key = k] \in WriterT
        /\ [NoWriter EXCEPT !.pc = "header", !.key = k].pc = "header"
        /\ [NoWriter EXCEPT !.pc = "header", !.key = k].key = k
    BY NoListIs DEF WriterT, NilOr
  <2>2. writer' = [writer EXCEPT ![w] = [NoWriter EXCEPT !.pc = "header", !.key = k]]
    BY <1>5 DEF Emplace
  <2>3. /\ writer' \in [Writer -> WriterT] /\ writer'[w].pc = "header" /\ writer'[w].key = k
        /\ \A u \in Writer : u # w => writer'[u] = writer[u]
    BY <1>2, <2>1, <2>2
  <2> QED
    BY <1>2, <1>3, <2>3 DEF Writing, InHeader, AtLast
<1>6. ASSUME TakeHeader(w)
      PROVE  writer' \in [Writer -> WriterT] /\ Writing'
  <2>1. /\ writer' \in [Writer -> WriterT] /\ writer'[w].pc = "bucket" /\ writer'[w].key = writer[w].key
        /\ \A u \in Writer : u # w => writer'[u] = writer[u]
        /\ writer[w].pc = "header" /\ \A u \in Writer : ~InHeader(u)
    BY <1>2, <1>6 DEF TakeHeader, WriterT, HeaderWritten, InHeader
  <2> QED
    BY <1>2, <1>3, <2>1 DEF Writing, InHeader, AtLast
<1>7. ASSUME MayWrite(list.last), NEW u \in Writer, AtLast(u)
      PROVE  writer[u].pc = "swap" /\ writer[u].bucket # list.last
  BY <1>2, <1>7 DEF MayWrite, Written, AtLast, Writing
<1>8. ASSUME TakeLast(w)
      PROVE  writer' \in [Writer -> WriterT] /\ Writing'
  <2>1. /\ writer' \in [Writer -> WriterT] /\ writer'[w].pc \in {"put", "grow"}
        /\ writer'[w].key = writer[w].key /\ writer'[w].bucket = list.last
        /\ \A u \in Writer : u # w => writer'[u] = writer[u]
        /\ writer[w].pc = "bucket"
    BY <1>2, <1>8 DEF TakeLast, WriterT
  <2>2. \A u \in Writer : ~AtLast(u)
    <3> SUFFICES ASSUME NEW u \in Writer, AtLast(u) PROVE FALSE
      OBVIOUS
    <3>1. writer[u].pc = "swap"
      BY <1>7, <1>8 DEF TakeLast
    <3>2. u = w
      BY <1>2, <2>1, <3>1 DEF Writing, InHeader
    <3> QED
      BY <2>1, <3>1, <3>2
  <2> QED
    BY <1>2, <1>3, <2>1, <2>2 DEF Writing, InHeader, AtLast
<1>9. ASSUME TakeNew(w)
      PROVE  writer' \in [Writer -> WriterT] /\ Writing'
  <2>1. /\ writer' \in [Writer -> WriterT] /\ writer'[w].pc = "put"
        /\ writer'[w].key = writer[w].key /\ writer'[w].bucket = list.last
        /\ \A u \in Writer : u # w => writer'[u] = writer[u]
        /\ writer[w].pc = "swap"
    BY <1>2, <1>9 DEF TakeNew, WriterT
  <2> QED
    BY <1>2, <1>3, <2>1 DEF Writing, InHeader, AtLast
<1> QED
  BY <1>5, <1>6, <1>8, <1>9, SMTT(60)

LEMMA GrowStep ==
  ASSUME SkipInv, NEW w \in Writer, Grow(w)
  PROVE  SkipInv'
<1> DEFINE n == Last(log'.made)
<1>1. list # NoList /\ writer[w].pc = "grow"
  BY MadeOrNot DEF Grow, Unmade
<1>2. /\ SkipType /\ LogInv /\ Made /\ Linkage(list) /\ Holds(list, history) /\ Stored /\ Writing
      /\ \A s \in Searcher : SearchOK(list, history, search[s]) /\ Aside(search[s])
      /\ writer \in [Writer -> WriterT] /\ list \in ListT
      /\ log \in LogT /\ Segs(log) /\ Linked(log) /\ BucketBytes \in EntryBytes
  BY <1>1, MadeOrNot, SkipAssumption DEF SkipInv, SkipType, Made, LogInv, LogType
<1>3. /\ log' = Allocated(log, BucketBytes) /\ UNCHANGED <<walk, reopened, search, history>>
      /\ writer' = [writer EXCEPT ![w].pc = "swap"]
  BY DEF Grow
<1>4. /\ log' \in LogT /\ Segs(log') /\ Linked(log') /\ Len(log'.made) = Len(log.made) + 1
      /\ \A i \in DOMAIN log.made : log'.made[i] = log.made[i]
  BY <1>2, <1>3, AllocatedIs
<1>5. /\ log.made \in Seq(Address) /\ log'.made \in Seq(Address)
      /\ DOMAIN log.made = 1 .. Len(log.made) /\ DOMAIN log'.made = 1 .. Len(log.made) + 1
      /\ Len(log.made) \in Nat /\ n = log'.made[Len(log.made) + 1] /\ n \in Address
  <2>1. log.made \in Seq(Address) /\ log'.made \in Seq(Address)
    BY <1>2, <1>4 DEF LogT
  <2>2. n = log'.made[Len(log.made) + 1]
    BY <1>4 DEF Last
  <2> HIDE DEF n
  <2> QED
    BY <1>4, <2>1, <2>2
<1> HIDE DEF n
<1>6. n \notin Buckets(list)
  <2> SUFFICES ASSUME n \in Buckets(list) PROVE FALSE
    OBVIOUS
  <2>1. PICK i \in DOMAIN log.made : log.made[i] = n
    BY <1>2 DEF Stored
  <2>2. Before(n, n)
    <3>1. /\ i \in DOMAIN log'.made /\ Len(log.made) + 1 \in DOMAIN log'.made /\ i < Len(log.made) + 1
          /\ log'.made[i] = n
      BY <1>4, <1>5, <2>1
    <3> QED
      BY <1>4, <1>5, <3>1, ZenonT(90) DEF Linked
  <2> QED
    <3>1. \A a \in Address : ~Before(a, a)
      BY DEF Before, Address
    <3> QED
      BY <1>5, <2>2, <3>1
<1>7. GrownBy(list, list', n)
  <2>1. writer[w].bucket = list.last
    BY <1>1, <1>2 DEF Writing
  <2>2. list' = [list EXCEPT
         !.last = n, !.size = @ + 1,
         !.bucket = [a \in DOMAIN @ \cup {n} |->
                       IF a = n THEN NewBucket(list.size)
                       ELSE IF a = list.last THEN [@[a] EXCEPT !.next = n]
                       ELSE @[a]]]
    BY <2>1 DEF Grow, n
  <2> QED
    BY <1>2, <1>5, <1>6, <2>2, GrowIs
<1>8. Linkage(list') /\ Holds(list', history')
  BY <1>2, <1>3, <1>7, GrowList
<1>9. \A s \in Searcher : SearchOK(list', history', search'[s]) /\ Aside(search'[s])
  BY <1>2, <1>3, <1>7, GrowSearch DEF SkipType
<1>10. Stored'
  <2>1. n \in {log'.made[i] : i \in DOMAIN log'.made} /\ \A i \in DOMAIN log.made : i \in DOMAIN log'.made
    BY <1>5
  <2> QED
    BY <1>2, <1>4, <1>7, <2>1 DEF Stored, GrownBy
<1>11. Writing' /\ writer' \in [Writer -> WriterT]
  <2>1. /\ writer' \in [Writer -> WriterT] /\ writer'[w].pc = "swap"
        /\ writer'[w].key = writer[w].key /\ writer'[w].bucket = list.last
        /\ \A u \in Writer : u # w => writer'[u] = writer[u]
    BY <1>1, <1>2, <1>3 DEF WriterT, Writing
  <2>2. Buckets(list) \subseteq Buckets(list') /\ list.last \in Buckets(list)
    BY <1>2, <1>7 DEF GrownBy, Linkage
  <2>3. \A u \in Writer : u # w => ~AtLast(u) /\ ~InHeader(u)
    BY <1>1, <1>2 DEF Writing, AtLast, InHeader
  <2> QED
    BY <1>1, <1>2, <2>1, <2>2, <2>3 DEF Writing, AtLast, InHeader
<1>12. LogInv'
  BY <1>2, <1>3, <1>4 DEF LogInv, LogType
<1>13. SkipType'
  BY <1>2, <1>3, <1>7, <1>11 DEF SkipType, GrownBy
<1> QED
  BY <1>8, <1>9, <1>10, <1>11, <1>12, <1>13 DEF SkipInv, Made

LEMMA PutStep ==
  ASSUME SkipInv, NEW w \in Writer, Put(w)
  PROVE  SkipInv'
<1>1. list # NoList /\ writer[w].pc = "put"
  BY MadeOrNot DEF Put, Unmade
<1>2. /\ SkipType /\ LogInv /\ Made /\ Linkage(list) /\ Holds(list, history) /\ Stored /\ Writing
      /\ \A s \in Searcher : SearchOK(list, history, search[s]) /\ Aside(search[s])
      /\ writer \in [Writer -> WriterT] /\ list \in ListT /\ history \in Seq(Key)
      /\ writer[w].key \in Key /\ writer[w].bucket = list.last
  BY <1>1, MadeOrNot DEF SkipInv, SkipType, Made, Writing
<1>3. /\ history' = Append(history, writer[w].key) /\ Len(history') = Len(history) + 1
      /\ list' = [list EXCEPT !.bucket[list.last] = Added(@, Len(history) + 1, writer[w].key)]
      /\ writer' = [writer EXCEPT ![w] = NoWriter] /\ UNCHANGED <<logVars, search>>
  BY <1>2 DEF Put
<1>4. PutIn(list, list', history, history')
  BY <1>2, <1>3, PutIs
<1>5. Linkage(list') /\ Holds(list', history')
  BY <1>2, <1>4, PutList
<1>6. \A s \in Searcher : SearchOK(list', history', search'[s]) /\ Aside(search'[s])
  BY <1>2, <1>3, <1>4, PutSearch DEF SkipType
<1>7. Stored' /\ LogInv'
  BY <1>2, <1>3, <1>4 DEF Stored, LogInv, LogType, logVars, PutIn
<1>8. Writing' /\ writer' \in [Writer -> WriterT]
  <2>1. /\ writer' \in [Writer -> WriterT] /\ writer'[w].pc = "idle"
        /\ \A u \in Writer : u # w => writer'[u] = writer[u]
    BY <1>2, <1>3, NoListIs DEF NoWriter
  <2>2. list'.last = list.last /\ Buckets(list') = Buckets(list)
    BY <1>4 DEF PutIn
  <2> QED
    BY <1>2, <2>1, <2>2 DEF Writing, AtLast, InHeader
<1>9. SkipType'
  BY <1>2, <1>3, <1>4, <1>8 DEF SkipType, PutIn
<1> QED
  BY <1>5, <1>6, <1>7, <1>8, <1>9 DEF SkipInv, Made

LEMMA FetchStep ==
  ASSUME SkipInv, Fetch
  PROVE  SkipInv'
<1>1. LogInv /\ FetchAhead /\ UNCHANGED skipVars
  BY DEF SkipInv, Fetch
<1>2. LogInv' /\ Grown(log, log')
  <2>1. LogNext
    BY <1>1 DEF LogNext
  <2>2. LogInv'
    BY <1>1, <2>1, LogSteps
  <2>3. Grown(log, log')
    <3>1. log \in LogT /\ Segs(log)
      BY <1>1 DEF LogInv, LogType
    <3>2. AllEnsured(log, log.queue) \in LogT /\ Grown(log, AllEnsured(log, log.queue))
      BY <3>1, AllEnsuredIs
    <3>3. log' = [AllEnsured(log, log.queue) EXCEPT !.jobs = @ - 1]
      BY <1>1 DEF FetchAhead
    <3> QED
      BY <3>2, <3>3 DEF Grown, LogT
  <2> QED
    BY <2>2, <2>3
<1> QED
  BY <1>1, <1>2 DEF SkipInv, SkipType, Unmade, Made, Stored, Writing, InHeader, AtLast, skipVars, Grown

\* A step of one search.
LEMMA SearchMoves ==
  ASSUME SkipInv, list # NoList, NEW s \in Searcher,
         UNCHANGED <<logVars, list, writer, history>>,
         search' = [search EXCEPT ![s] = search'[s]],
         search'[s] \in SearchT, SearchOK(list, history, search'[s]), Aside(search'[s])
  PROVE  SkipInv'
<1>1. /\ SkipType /\ LogInv /\ Made
      /\ \A t \in Searcher : SearchOK(list, history, search[t]) /\ Aside(search[t])
      /\ search \in [Searcher -> SearchT]
  BY MadeOrNot DEF SkipInv, SkipType
<1>2. search' \in [Searcher -> SearchT] /\ \A t \in Searcher : t # s => search'[t] = search[t]
  BY <1>1
<1>3. SkipType' /\ LogInv' /\ Made'
  BY <1>1, <1>2 DEF SkipType, LogInv, LogType, logVars, Made, Stored, Writing, InHeader, AtLast
<1>4. \A t \in Searcher : SearchOK(list', history', search'[t]) /\ Aside(search'[t])
  BY <1>1, <1>2
<1> QED
  BY <1>3, <1>4 DEF SkipInv

LEMMA Searches ==
  ASSUME SkipInv, NEW s \in Searcher, search[s].mode \in Modes
  PROVE  /\ list # NoList /\ search[s] \in SearchT /\ Searching(list, history, search[s])
         /\ list \in ListT /\ history \in Seq(Key) /\ search \in [Searcher -> SearchT]
         /\ search[s].at # NilAddress => search[s].at \in Buckets(list)
         /\ \A q \in DOMAIN search[s].queue : search[s].queue[q] \in Buckets(list)
         /\ search[s].query \in Query
<1>1. list # NoList
  BY MadeOrNot DEF Unmade, NoSearch, Modes
<1>2. Made /\ SearchOK(list, history, search[s])
  BY <1>1, MadeOrNot
<1>3. Placed(list, history, search[s])
  BY <1>2 DEF SearchOK
<1> QED
  BY <1>1, <1>2, <1>3 DEF SkipInv, SkipType, Made, Searching, Placed

LEMMA BeginStep ==
  ASSUME SkipInv, NEW s \in Searcher, SearchBegins(s)
  PROVE  SkipInv'
<1> DEFINE x == search'[s]
<1>1. list # NoList /\ UNCHANGED <<logVars, list, writer, history>>
  BY DEF SearchBegins, Begin, AskSize
<1>2. /\ list \in ListT /\ history \in Seq(Key) /\ search \in [Searcher -> SearchT] /\ Made
      /\ list.start \in NilOr(Address) /\ Len(history) \in Nat
  BY <1>1, MadeOrNot DEF SkipInv, SkipType, ListT
<1>3. ASSUME NEW mode \in Modes, NEW query \in Query, Begin(s, mode, query)
      PROVE  SkipInv'
  <2> DEFINE y == [NoSearch EXCEPT !.mode = mode, !.query = query, !.at = list.start,
                        !.past = Len(history),
                        !.pc = IF mode = "queued" THEN "wait" ELSE "look",
                        !.feed = IF mode = "queued" THEN "look" ELSE "none"]
  <2>1. /\ y \in SearchT /\ y.mode = mode /\ y.query = query /\ y.at = list.start
        /\ y.past = Len(history) /\ y.pc = (IF mode = "queued" THEN "wait" ELSE "look")
        /\ y.feed = (IF mode = "queued" THEN "look" ELSE "none")
        /\ y.met = <<>> /\ y.quit = FALSE /\ y.queue = <<>> /\ y.done = FALSE
    <3>1. query \in NilOr(Query)
      BY DEF NilOr
    <3> DEFINE pc == IF mode = "queued" THEN "wait" ELSE "look"
               feed == IF mode = "queued" THEN "look" ELSE "none"
    <3>4. pc \in {"wait", "look"} /\ feed \in {"look", "none"}
      OBVIOUS
    <3>5. y = [NoSearch EXCEPT !.mode = mode, !.query = query, !.at = list.start,
                               !.past = Len(history), !.pc = pc, !.feed = feed]
      OBVIOUS
    <3> HIDE DEF y, pc, feed
    <3>2. /\ y.mode = mode /\ y.pc = pc /\ y.query = query /\ y.at = list.start /\ y.met = <<>>
          /\ y.past = Len(history) /\ y.quit = FALSE /\ y.feed = feed /\ y.queue = <<>>
          /\ y.done = FALSE /\ y \in SearchT
      BY <1>2, <3>1, <3>4, <3>5, NoListIs, ZenonT(90) DEF NoSearch, SearchT
    <3> QED
      BY <3>2 DEF pc, feed
  <2>2. search' = [search EXCEPT ![s] = y]
    BY <1>3 DEF Begin, NoSearch
  <2> HIDE DEF y
  <2>3. x = y /\ search' = [search EXCEPT ![s] = x]
    BY <1>2, <2>2
  <2>4. SearchOK(list, history, y)
    BY <1>2, <2>1, BeginKeeps DEF Made
  <2>5. Aside(y)
    BY <2>1 DEF Aside
  <2> QED
    BY <1>1, <2>1, <2>3, <2>4, <2>5, SearchMoves
<1>4. ASSUME AskSize(s) PROVE SkipInv'
  <2> DEFINE y == [NoSearch EXCEPT !.mode = "size", !.pc = "size", !.past = Len(history)]
  <2>1. y \in SearchT /\ y.mode = "size" /\ y.pc = "size" /\ y.feed = "none"
    BY <1>2, NoListIs DEF SearchT, NoSearch
  <2>2. search' = [search EXCEPT ![s] = y]
    BY <1>4 DEF AskSize
  <2> HIDE DEF y
  <2>3. x = y /\ search' = [search EXCEPT ![s] = x]
    BY <1>2, <2>2
  <2>4. SearchOK(list, history, y) /\ Aside(y)
    BY <2>1 DEF SearchOK, Modes, Aside
  <2> QED
    BY <1>1, <2>1, <2>3, <2>4, SearchMoves
<1> QED
  BY <1>3, <1>4 DEF SearchBegins

LEMMA SizeStep ==
  ASSUME SkipInv, NEW s \in Searcher, TellSize(s)
  PROVE  SkipInv'
<1> DEFINE x == search'[s]
<1>1. search[s].pc = "size" /\ UNCHANGED <<logVars, list, writer, history>>
  BY DEF TellSize
<1>2. list # NoList
  BY <1>1, MadeOrNot DEF Unmade, NoSearch
<1>3. /\ list \in ListT /\ search \in [Searcher -> SearchT] /\ Made
      /\ SearchOK(list, history, search[s]) /\ Aside(search[s]) /\ list.last \in Buckets(list)
  BY <1>2, MadeOrNot DEF SkipInv, SkipType, Made, Linkage
<1>4. search[s].mode \notin Modes
  BY <1>1, <1>3 DEF SearchOK, Phase, Modes
<1>5. Size \in Int
  <2>1. Items(list, list.last) \in Seq(Nat) /\ list.size - 1 \in Int /\ BucketCapacity \in Nat
    BY <1>3, TypesOfBucket, TypesOfList, SkipAssumption
  <2>2. Len(Items(list, list.last)) \in Nat
    BY <2>1
  <2>3. \A i, j \in Int : i * j \in Int
    OBVIOUS
  <2>4. (list.size - 1) * BucketCapacity \in Int
    BY <2>1, <2>3
  <2> QED
    BY <2>2, <2>4, SMTT(60) DEF Size, Items, Bucket
<1>6. /\ x = [search[s] EXCEPT !.met = <<Size>>, !.pc = "over"]
      /\ search' = [search EXCEPT ![s] = x]
  BY <1>3 DEF TellSize
<1> HIDE DEF x
<1>7. x \in SearchT /\ x.mode = search[s].mode /\ x.feed = search[s].feed /\ x.pc = "over"
  <2>1. <<Size>> \in Seq(Int)
    BY <1>5
  <2> QED
    BY <1>3, <1>6, <2>1, ZenonT(90) DEF SearchT
<1>8. SearchOK(list, history, x) /\ Aside(x)
  BY <1>3, <1>4, <1>7 DEF SearchOK, Aside
<1> QED
  BY <1>1, <1>2, <1>6, <1>7, <1>8, SearchMoves DEF x

LEMMA VisitStep ==
  ASSUME SkipInv, NEW s \in Searcher, VisitBucket(s)
  PROVE  SkipInv'
<1> DEFINE r == search[s]
           x == search'[s]
           a == r.at
           verdict == Verdict(a, r.query)
           items == IF verdict \in {"worth", "not_sure"} THEN Items(list, a) ELSE <<>>
<1>1. /\ r.mode = "callback" /\ r.pc = "look" /\ a # NilAddress
      /\ UNCHANGED <<logVars, list, writer, history>>
  BY DEF VisitBucket
<1>2. /\ list # NoList /\ r \in SearchT /\ Searching(list, history, r)
      /\ list \in ListT /\ history \in Seq(Key) /\ search \in [Searcher -> SearchT]
      /\ a \in Buckets(list) /\ r.query \in Query /\ Linkage(list) /\ Holds(list, history)
  BY <1>1, Searches DEF Modes, Searching
<1>3. /\ verdict = "stop" => r.query = "none"
      /\ verdict \in {"stop", "next"} => NoMatch(list, history, r.query, a)
      /\ verdict \in {"stop", "next", "worth", "not_sure"}
  <2>1. verdict \in {"stop", "next", "worth", "not_sure"}
    <3>1. PICK query : query = r.query
      OBVIOUS
    <3>2. Verdict(a, query) \in {"stop", "next", "worth", "not_sure"}
      BY Zenon DEF Verdict
    <3> QED
      BY <3>1, <3>2, Zenon
  <2> HIDE DEF a
  <2> QED
    BY <1>2, <2>1, VerdictIs
<1>4. PICK n \in 0 .. Len(items) :
        search' = [search EXCEPT
            ![s].met = @ \o SubSeq(items, 1, n),
            ![s].at = list.bucket[a].next,
            ![s].quit = n < Len(items),
            ![s].pc = IF verdict = "stop" \/ n < Len(items) THEN "over" ELSE @]
  BY DEF VisitBucket, Bucket, Items
<1>5. /\ n \in 0 .. Len(Items(list, a)) /\ SubSeq(items, 1, n) = SubSeq(Items(list, a), 1, n)
      /\ ~(n < Len(items)) => NoMatch(list, history, r.query, a) \/ n = Len(Items(list, a))
  <2>1. Items(list, a) \in Seq(Nat)
    BY <1>2, TypesOfBucket
  <2>2. CASE verdict \in {"worth", "not_sure"}
    <3>1. items = Items(list, a)
      BY <2>2
    <3> HIDE DEF items
    <3> QED
      BY <2>1, <3>1
  <2>3. CASE verdict \notin {"worth", "not_sure"}
    <3>1. items = <<>>
      BY <2>3
    <3> HIDE DEF items
    <3>2. n = 0
      BY <3>1
    <3>3. SubSeq(items, 1, n) = <<>> /\ SubSeq(Items(list, a), 1, n) = <<>> /\ n \in 0 .. Len(Items(list, a))
      BY <2>1, <3>1, <3>2, SMTT(60)
    <3> QED
      BY <1>3, <2>3, <3>3
  <2> QED
    BY <2>2, <2>3
<1> DEFINE stop == verdict = "stop"
           quit == n < Len(items)
           y == [r EXCEPT !.met = Met(list, r, a, n), !.at = list.bucket[a].next, !.quit = quit,
                          !.pc = IF stop \/ quit THEN "over" ELSE "look"]
<1>6. x = y /\ search' = [search EXCEPT ![s] = y]
  BY <1>1, <1>2, <1>4, <1>5, ZenonT(90) DEF Met
<1>7. stop \in BOOLEAN /\ quit \in BOOLEAN /\ (stop => r.query = "none")
      /\ (~quit => NoMatch(list, history, r.query, a) \/ n = Len(Items(list, a)))
  BY <1>3, <1>5
<1> HIDE DEF stop, quit, items, verdict
<1>8. y \in SearchT /\ SearchOK(list, history, y)
  BY <1>1, <1>2, <1>5, <1>7, VisitKeeps, ZenonT(90)
<1>9. y.mode = r.mode
  BY <1>2 DEF SearchT
<1> HIDE DEF y, x
<1>10. Aside(x)
  BY <1>1, <1>6, <1>9 DEF Aside, Modes
<1> QED
  BY <1>1, <1>2, <1>6, <1>8, <1>10, SearchMoves DEF x

LEMMA LazySteps ==
  ASSUME SkipInv, NEW s \in Searcher, LazyLook(s) \/ LazyTake(s) \/ LazyStep(s) \/ SearchEnds(s)
  PROVE  SkipInv'
<1> DEFINE r == search[s]
           x == search'[s]
           a == r.at
<1>1. /\ r.mode \in {"callback", "lazy"} /\ r.pc \in {"look", "take", "step"}
      /\ UNCHANGED <<logVars, list, writer, history>>
  BY DEF LazyLook, LazyTake, LazyStep, SearchEnds
<1>2. /\ list # NoList /\ r \in SearchT /\ Searching(list, history, r)
      /\ list \in ListT /\ history \in Seq(Key) /\ search \in [Searcher -> SearchT]
      /\ a # NilAddress => a \in Buckets(list)
      /\ r.query \in Query /\ Linkage(list) /\ Holds(list, history)
  BY <1>1, Searches DEF Modes, Searching
<1>3. SUFFICES /\ search' = [search EXCEPT ![s] = search'[s]]
               /\ x \in SearchT /\ SearchOK(list, history, x) /\ x.mode = r.mode
  BY <1>1, <1>2, SearchMoves DEF Aside, Modes
<1>4. CASE LazyLook(s)
  <2> DEFINE verdict == Verdict(a, r.query)
             pc == CASE verdict = "stop" -> "over" [] verdict = "next" -> "step" [] OTHER -> "take"
  <2>1. r.mode = "lazy" /\ r.pc = "look" /\ a # NilAddress /\ search' = [search EXCEPT ![s].pc = pc]
    BY <1>4 DEF LazyLook
  <2>2. /\ pc \in {"over", "step", "take"} /\ (pc = "over" => r.query = "none")
        /\ (pc # "take" => NoMatch(list, history, r.query, a))
    <3>1. /\ verdict = "stop" => r.query = "none"
          /\ verdict \in {"stop", "next"} => NoMatch(list, history, r.query, a)
      BY <1>2, <2>1, VerdictIs
    <3> QED
      BY <3>1
  <2> HIDE DEF pc
  <2>3. /\ search' = [search EXCEPT ![s] = x] /\ x = [r EXCEPT !.pc = pc]
    BY <1>2, <2>1
  <2> HIDE DEF x
  <2>4. /\ x \in SearchT /\ x.pc = pc
        /\ x.mode = r.mode /\ x.query = r.query /\ x.at = r.at /\ x.met = r.met /\ x.past = r.past
        /\ x.quit = r.quit /\ x.feed = r.feed /\ x.queue = r.queue /\ x.done = r.done
    BY <1>2, <2>2, <2>3 DEF SearchT
  <2>5. SearchOK(list, history, x)
    BY <1>2, <2>1, <2>2, <2>4, LazyLookKeeps
  <2> QED
    BY <2>3, <2>4, <2>5 DEF x
<1>5. CASE LazyTake(s)
  <2>1. /\ r.mode = "lazy" /\ r.pc = "take"
        /\ search' = [search EXCEPT ![s].met = @ \o Items(list, a), ![s].pc = "step"]
    BY <1>5 DEF LazyTake, Items, Bucket
  <2>2. a # NilAddress
    BY <1>2, <2>1 DEF Searching, SearchOK, Phase, Modes
  <2>3. Items(list, a) \in Seq(Nat)
    BY <1>2, <2>2, TypesOfBucket
  <2>4. Met(list, r, a, Len(Items(list, a))) = r.met \o Items(list, a)
    <3>1. SubSeq(Items(list, a), 1, Len(Items(list, a))) = Items(list, a)
      BY <2>3
    <3> QED
      BY <3>1 DEF Met
  <2>5. r.met \o Items(list, a) \in Seq(Int)
    <3>1. r.met \in Seq(Int) /\ Items(list, a) \in Seq(Int)
      BY <1>2, <2>3, TypesOfSearch
    <3> QED
      BY <3>1
  <2>6. /\ search' = [search EXCEPT ![s] = x]
        /\ x = [r EXCEPT !.met = r.met \o Items(list, a), !.pc = "step"]
    BY <1>2, <2>1
  <2> HIDE DEF x
  <2>7. /\ x \in SearchT /\ x.pc = "step" /\ x.met = Met(list, r, a, Len(Items(list, a)))
        /\ x.mode = r.mode /\ x.query = r.query /\ x.at = r.at /\ x.past = r.past
        /\ x.quit = r.quit /\ x.feed = r.feed /\ x.queue = r.queue /\ x.done = r.done
    BY <1>2, <2>4, <2>5, <2>6 DEF SearchT
  <2>8. SearchOK(list, history, x)
    BY <1>2, <2>1, <2>7, LazyTakeKeeps
  <2> QED
    BY <2>6, <2>7, <2>8 DEF x
<1>6. CASE LazyStep(s)
  <2>1. /\ r.mode = "lazy" /\ r.pc = "step"
        /\ search' = [search EXCEPT ![s].at = list.bucket[a].next, ![s].pc = "look"]
    BY <1>6 DEF LazyStep, Bucket
  <2>2. a # NilAddress
    BY <1>2, <2>1 DEF Searching, SearchOK, Phase, Modes
  <2>3. list.bucket[a].next \in NilOr(Address)
    BY <1>2, <2>2, TypesOfBucket
  <2>4. /\ search' = [search EXCEPT ![s] = x]
        /\ x = [r EXCEPT !.at = list.bucket[a].next, !.pc = "look"]
    BY <1>2, <2>1
  <2> HIDE DEF x
  <2>5. /\ x \in SearchT /\ x.pc = "look" /\ x.at = list.bucket[a].next
        /\ x.mode = r.mode /\ x.query = r.query /\ x.met = r.met /\ x.past = r.past
        /\ x.quit = r.quit /\ x.feed = r.feed /\ x.queue = r.queue /\ x.done = r.done
    BY <1>2, <2>3, <2>4 DEF SearchT
  <2>6. SearchOK(list, history, x)
    BY <1>2, <2>1, <2>5, LazyStepKeeps
  <2> QED
    BY <2>4, <2>5, <2>6 DEF x
<1>7. CASE SearchEnds(s)
  <2>1. r.pc = "look" /\ a = NilAddress /\ search' = [search EXCEPT ![s].pc = "over"]
    BY <1>7 DEF SearchEnds
  <2>2. /\ search' = [search EXCEPT ![s] = x] /\ x = [r EXCEPT !.pc = "over"]
    BY <1>2, <2>1
  <2> HIDE DEF x
  <2>3. /\ x \in SearchT /\ x.pc = "over"
        /\ x.mode = r.mode /\ x.query = r.query /\ x.at = r.at /\ x.met = r.met /\ x.past = r.past
        /\ x.quit = r.quit /\ x.feed = r.feed /\ x.queue = r.queue /\ x.done = r.done
    BY <1>2, <2>2 DEF SearchT
  <2>4. SearchOK(list, history, x)
    BY <1>1, <1>2, <2>1, <2>3, EndKeeps
  <2> QED
    BY <2>2, <2>3, <2>4 DEF x
<1> QED
  BY <1>4, <1>5, <1>6, <1>7

LEMMA ProducerSteps ==
  ASSUME SkipInv, NEW s \in Searcher, ProducerStep(s)
  PROVE  SkipInv'
<1> DEFINE r == search[s]
           x == search'[s]
           a == r.at
<1>1. r.feed \in {"look", "push", "try"} /\ UNCHANGED <<logVars, list, writer, history>>
  BY DEF ProducerStep, Produce, ProducerAsks, ProducerTries
<1>2. r.mode = "queued"
  <2>1. list # NoList
    BY <1>1, MadeOrNot DEF Unmade, NoSearch
  <2>2. SearchOK(list, history, r) /\ Aside(r)
    BY <2>1, MadeOrNot
  <2> QED
    BY <1>1, <2>2 DEF SearchOK, Phase, Aside
<1>3. /\ list # NoList /\ r \in SearchT /\ Searching(list, history, r)
      /\ list \in ListT /\ history \in Seq(Key) /\ search \in [Searcher -> SearchT]
      /\ a # NilAddress => a \in Buckets(list)
      /\ r.query \in Query /\ Linkage(list) /\ Holds(list, history) /\ Phase(r)
  BY <1>2, Searches DEF Modes, Searching, SearchOK
<1>4. SUFFICES /\ search' = [search EXCEPT ![s] = search'[s]]
               /\ x \in SearchT /\ SearchOK(list, history, x) /\ x.mode = r.mode
  BY <1>1, <1>2, <1>3, SearchMoves DEF Aside, Modes
<1>5. a # NilAddress => list.bucket[a].next \in NilOr(Address)
  BY <1>3, TypesOfBucket
<1>6. r.query = "none" => Matching(history, r.query) = {}
  <2>1. "none" \notin Key
    BY SkipAssumption
  <2> QED
    BY <1>3, <2>1 DEF Matching
<1>7. CASE Produce(s)
  <2> DEFINE verdict == IF a = NilAddress THEN "stop" ELSE Verdict(a, r.query)
             feed == CASE verdict = "stop" -> "end" [] verdict = "next" -> "look" [] OTHER -> "push"
             at == IF verdict = "next" THEN list.bucket[a].next ELSE a
             done == r.done \/ verdict = "stop"
  <2>1. /\ search' = [search EXCEPT ![s].feed = feed, ![s].at = at, ![s].done = done]
        /\ r.feed = "look"
    BY <1>7 DEF Produce, Bucket
  <2>2. /\ a # NilAddress /\ verdict = "stop" => r.query = "none"
        /\ verdict = "next" => a # NilAddress /\ NoMatch(list, history, r.query, a)
        /\ verdict # "stop" => a # NilAddress
    <3>1. CASE a = NilAddress
      BY <3>1
    <3>2. CASE a # NilAddress
      <4>1. verdict = Verdict(a, r.query)
        BY <3>2
      <4> HIDE DEF verdict, a
      <4> QED
        BY <1>3, <3>2, <4>1, VerdictIs
    <3> QED
      BY <3>1, <3>2
  <2> HIDE DEF verdict
  <2>3. done \in BOOLEAN /\ feed \in {"end", "look", "push"} /\ at \in NilOr(Address)
    <3>1. r.done \in BOOLEAN /\ r.at \in NilOr(Address)
      BY <1>3, TypesOfSearch
    <3> QED
      BY <1>5, <2>2, <3>1
  <2>4. /\ search' = [search EXCEPT ![s] = x]
        /\ x = [r EXCEPT !.feed = feed, !.at = at, !.done = done]
    BY <1>3, <2>1
  <2> HIDE DEF x, feed, at, done
  <2>5. /\ x \in SearchT /\ x.feed = feed /\ x.at = at /\ x.done = done
        /\ x.mode = r.mode /\ x.pc = r.pc /\ x.query = r.query /\ x.met = r.met /\ x.past = r.past
        /\ x.quit = r.quit /\ x.queue = r.queue
    BY <1>3, <2>3, <2>4 DEF SearchT
  <2>6. CASE verdict = "next"
    <3>1. feed = "look" /\ at = list.bucket[a].next /\ x.done = r.done
      <4>1. done = r.done
        BY <1>3, <2>6, TypesOfSearch DEF done
      <4> QED
        BY <2>5, <2>6, <4>1 DEF feed, at
    <3> QED
      BY <1>2, <1>3, <2>2, <2>4, <2>5, <2>6, <3>1, FeedNextKeeps, ZenonT(90) DEF x
  <2>7. CASE verdict # "next"
    <3>1. /\ at = a /\ (feed \in {"push", "try"} => a # NilAddress)
          /\ done \in {r.done, TRUE} /\ (done # r.done => r.query = "none" \/ a = NilAddress)
      <4>1. verdict = "stop" => done = TRUE
        BY DEF done
      <4>2. verdict # "stop" => done = r.done
        BY <1>3, TypesOfSearch DEF done
      <4>3. at = a /\ (feed \in {"push", "try"} => a # NilAddress)
        BY <2>2, <2>7 DEF feed, at
      <4> QED
        BY <2>2, <4>1, <4>2, <4>3
    <3>2. SearchOK(list, history, x)
      BY <1>2, <1>3, <2>5, <3>1, FeedKeeps
    <3> QED
      BY <2>4, <2>5, <3>2 DEF x
  <2> QED
    BY <2>6, <2>7
<1>8. CASE ProducerAsks(s)
  <2>1. a # NilAddress /\ r.feed = "push"
    BY <1>3, <1>8 DEF ProducerAsks, Phase
  <2>2. CASE r.done
    <3>1. search' = [search EXCEPT ![s].feed = "look", ![s].at = list.bucket[a].next]
      BY <1>8, <2>2 DEF ProducerAsks, Bucket
    <3>2. /\ search' = [search EXCEPT ![s] = x] /\ x = [r EXCEPT !.feed = "look", !.at = list.bucket[a].next]
      BY <1>3, <3>1
    <3> HIDE DEF x
    <3>3. /\ x \in SearchT /\ x.feed = "look" /\ x.at = list.bucket[a].next /\ x.done = r.done
          /\ x.mode = r.mode /\ x.pc = r.pc /\ x.query = r.query /\ x.met = r.met /\ x.past = r.past
          /\ x.quit = r.quit /\ x.queue = r.queue
      BY <1>3, <1>5, <2>1, <3>2 DEF SearchT
    <3>4. SearchOK(list, history, x)
      BY <1>2, <1>3, <1>6, <2>1, <2>2, <3>3, FeedNextKeeps
    <3> QED
      BY <3>2, <3>3, <3>4 DEF x
  <2>3. CASE ~r.done
    <3>1. search' = [search EXCEPT ![s].feed = "try", ![s].at = a]
      BY <1>8, <2>3 DEF ProducerAsks
    <3>2. /\ search' = [search EXCEPT ![s] = x] /\ x = [r EXCEPT !.feed = "try", !.at = a]
      BY <1>3, <3>1
    <3> HIDE DEF x
    <3>3. /\ x \in SearchT /\ x.feed = "try" /\ x.at = a /\ x.done = r.done
          /\ x.mode = r.mode /\ x.pc = r.pc /\ x.query = r.query /\ x.met = r.met /\ x.past = r.past
          /\ x.quit = r.quit /\ x.queue = r.queue
      BY <1>3, <3>2 DEF SearchT
    <3>4. SearchOK(list, history, x)
      BY <1>2, <1>3, <2>1, <3>3, FeedKeeps
    <3> QED
      BY <3>2, <3>3, <3>4 DEF x
  <2> QED
    BY <2>2, <2>3
<1>9. CASE ProducerTries(s)
  <2>1. a # NilAddress /\ r.feed = "try"
    BY <1>3, <1>9 DEF ProducerTries, Phase
  <2>2. CASE Len(r.queue) < QueueSize
    <3>1. search' = [search EXCEPT ![s].queue = Append(r.queue, a), ![s].at = list.bucket[a].next,
                                   ![s].feed = "look"]
      BY <1>9, <2>2 DEF ProducerTries, Bucket
    <3>2. /\ search' = [search EXCEPT ![s] = x]
          /\ x = [r EXCEPT !.queue = Append(r.queue, a), !.at = list.bucket[a].next, !.feed = "look"]
      BY <1>3, <3>1
    <3> HIDE DEF x
    <3>3. Append(r.queue, a) \in Seq(Address)
      <4>1. a \in Address /\ r.queue \in Seq(Address)
        BY <1>3, <2>1, TypesOfList, TypesOfSearch
      <4> QED
        BY <4>1
    <3>4. /\ x \in SearchT /\ x.feed = "look" /\ x.at = list.bucket[a].next /\ x.done = r.done
          /\ x.mode = r.mode /\ x.pc = r.pc /\ x.query = r.query /\ x.met = r.met /\ x.past = r.past
          /\ x.quit = r.quit /\ x.queue = Append(r.queue, a)
      BY <1>3, <1>5, <2>1, <3>2, <3>3 DEF SearchT
    <3>5. SearchOK(list, history, x)
      BY <1>2, <1>3, <2>1, <3>4, FeedNextKeeps
    <3> QED
      BY <3>2, <3>4, <3>5 DEF x
  <2>3. CASE ~(Len(r.queue) < QueueSize)
    <3>1. search' = [search EXCEPT ![s].queue = r.queue, ![s].at = a, ![s].feed = "push"]
      BY <1>9, <2>3 DEF ProducerTries
    <3>2. /\ search' = [search EXCEPT ![s] = x] /\ x = [r EXCEPT !.queue = r.queue, !.at = a, !.feed = "push"]
      BY <1>3, <3>1
    <3> HIDE DEF x
    <3>3. /\ x \in SearchT /\ x.feed = "push" /\ x.at = a /\ x.done = r.done
          /\ x.mode = r.mode /\ x.pc = r.pc /\ x.query = r.query /\ x.met = r.met /\ x.past = r.past
          /\ x.quit = r.quit /\ x.queue = r.queue
      BY <1>3, <3>2 DEF SearchT
    <3>4. SearchOK(list, history, x)
      BY <1>2, <1>3, <2>1, <3>3, FeedKeeps
    <3> QED
      BY <3>2, <3>3, <3>4 DEF x
  <2> QED
    BY <2>2, <2>3
<1> QED
  BY <1>7, <1>8, <1>9 DEF ProducerStep

LEMMA ConsumerSteps ==
  ASSUME ~Restarts, SkipInv, NEW s \in Searcher,
         Consume(s) \/ QueuedEnds(s) \/ Halt(s) \/ Drain(s) \/ Join(s)
  PROVE  SkipInv'
<1> DEFINE r == search[s]
           x == search'[s]
<1>1. /\ r.pc \in {"wait", "restart", "drop", "again", "join"}
      /\ UNCHANGED <<logVars, list, writer, history>>
  BY DEF Consume, QueuedEnds, Halt, Drain, Join
<1>2. r.mode = "queued" /\ r.pc \in {"wait", "drop", "join"}
  <2>1. list # NoList
    BY <1>1, MadeOrNot DEF Unmade, NoSearch
  <2>2. SearchOK(list, history, r) /\ Aside(r)
    BY <2>1, MadeOrNot
  <2> QED
    BY <1>1, <2>2 DEF SearchOK, Phase, Aside, Modes
<1>3. /\ list # NoList /\ r \in SearchT /\ Searching(list, history, r)
      /\ list \in ListT /\ history \in Seq(Key) /\ search \in [Searcher -> SearchT]
      /\ \A q \in DOMAIN r.queue : r.queue[q] \in Buckets(list)
      /\ Linkage(list) /\ Holds(list, history) /\ Phase(r) /\ r.queue \in Seq(Address)
  BY <1>2, Searches, TypesOfSearch DEF Modes, Searching, SearchOK
<1>4. SUFFICES /\ search' = [search EXCEPT ![s] = search'[s]]
               /\ x \in SearchT /\ SearchOK(list, history, x) /\ x.mode = r.mode
  BY <1>1, <1>2, <1>3, SearchMoves, SMTT(60) DEF Aside, Modes
<1>5. CASE Consume(s)
  <2> DEFINE a == Head(r.queue)
  <2>1. /\ r.pc = "wait" /\ r.queue # <<>>
        /\ search' = [search EXCEPT ![s].met = @ \o Items(list, a), ![s].queue = Tail(r.queue)]
    BY <1>5 DEF Consume, Items, Bucket
  <2>2. a \in Buckets(list)
    <3>1. 1 \in DOMAIN r.queue /\ r.queue[1] = a
      BY <1>3, <2>1
    <3> QED
      BY <1>3, <3>1
  <2>3. Items(list, a) \in Seq(Nat) /\ Tail(r.queue) \in Seq(Address)
    BY <1>3, <2>1, <2>2, TypesOfBucket
  <2>4. Met(list, r, a, Len(Items(list, a))) = r.met \o Items(list, a)
    <3>1. SubSeq(Items(list, a), 1, Len(Items(list, a))) = Items(list, a)
      BY <2>3
    <3> QED
      BY <3>1 DEF Met
  <2>5. r.met \o Items(list, a) \in Seq(Int)
    <3>1. r.met \in Seq(Int) /\ Items(list, a) \in Seq(Int)
      BY <1>3, <2>3, TypesOfSearch
    <3> QED
      BY <3>1
  <2>6. /\ search' = [search EXCEPT ![s] = x]
        /\ x = [r EXCEPT !.met = r.met \o Items(list, a), !.queue = Tail(r.queue)]
    BY <1>3, <2>1
  <2> HIDE DEF x
  <2>7. /\ x \in SearchT /\ x.pc = r.pc /\ x.met = Met(list, r, a, Len(Items(list, a)))
        /\ x.mode = r.mode /\ x.query = r.query /\ x.at = r.at /\ x.past = r.past
        /\ x.quit = r.quit /\ x.feed = r.feed /\ x.queue = Tail(r.queue) /\ x.done = r.done
    BY <1>3, <2>3, <2>4, <2>5, <2>6 DEF SearchT
  <2>8. SearchOK(list, history, x)
    BY <1>2, <1>3, <2>1, <2>7, ConsumeKeeps
  <2> QED
    BY <2>6, <2>7, <2>8, SMTT(60) DEF x
<1>6. ASSUME QueuedEnds(s) \/ Halt(s) \/ Drain(s) \/ Join(s)
      PROVE  \E pc \in {"drop", "join", "over"}, queue \in {r.queue, <<>>}, done, quit \in BOOLEAN :
               /\ search' = [search EXCEPT ![s] = [r EXCEPT !.pc = pc, !.queue = queue, !.done = done,
                                                            !.quit = quit]]
               /\ \/ quit = TRUE
                  \/ pc = "over" /\ quit = r.quit /\ done = r.done /\ r.done /\ r.queue = <<>>
  <2>0. r.done \in BOOLEAN /\ r.quit \in BOOLEAN
    BY <1>3, TypesOfSearch
  <2>1. CASE QueuedEnds(s)
    <3>1. search' = [search EXCEPT ![s] = [r EXCEPT !.pc = "over"]] /\ r.queue = <<>> /\ r.done
      BY <1>3, <2>1 DEF QueuedEnds
    <3>2. [r EXCEPT !.pc = "over"] = [r EXCEPT !.pc = "over", !.queue = r.queue, !.done = r.done, !.quit = r.quit]
      BY <1>3 DEF SearchT
    <3> QED
      BY <2>0, <3>1, <3>2
  <2>2. CASE Halt(s)
    <3>1. search' = [search EXCEPT ![s] = [r EXCEPT !.done = TRUE, !.quit = TRUE, !.pc = "drop"]]
      BY <1>3, <2>2 DEF Halt
    <3>2. [r EXCEPT !.done = TRUE, !.quit = TRUE, !.pc = "drop"]
            = [r EXCEPT !.pc = "drop", !.queue = r.queue, !.done = TRUE, !.quit = TRUE]
      BY <1>3 DEF SearchT
    <3> QED
      BY <3>1, <3>2
  <2>3. CASE Drain(s)
    <3>1. r.quit = TRUE /\ r.pc = "drop"
      BY <1>2, <1>3, <2>0, <2>3 DEF Phase, Drain
    <3>2. search' = [search EXCEPT ![s] = [r EXCEPT !.queue = <<>>, !.pc = "join"]]
      BY <1>3, <2>3, <3>1 DEF Drain
    <3>3. [r EXCEPT !.queue = <<>>, !.pc = "join"]
            = [r EXCEPT !.pc = "join", !.queue = <<>>, !.done = r.done, !.quit = TRUE]
      BY <1>3, <3>1 DEF SearchT
    <3> QED
      BY <2>0, <3>2, <3>3
  <2>4. CASE Join(s)
    <3>1. r.quit = TRUE /\ r.pc = "join"
      BY <1>2, <1>3, <2>0, <2>4 DEF Phase, Join
    <3>2. search' = [search EXCEPT ![s] = [r EXCEPT !.pc = "over"]]
      BY <1>3, <2>4, <3>1 DEF Join
    <3>3. [r EXCEPT !.pc = "over"]
            = [r EXCEPT !.pc = "over", !.queue = r.queue, !.done = r.done, !.quit = TRUE]
      BY <1>3, <3>1 DEF SearchT
    <3> QED
      BY <2>0, <3>2, <3>3
  <2> QED
    BY <1>6, <2>1, <2>2, <2>3, <2>4
<1>7. CASE QueuedEnds(s) \/ Halt(s) \/ Drain(s) \/ Join(s)
  <2>1. PICK pc \in {"drop", "join", "over"}, queue \in {r.queue, <<>>}, done \in BOOLEAN, quit \in BOOLEAN :
               /\ search' = [search EXCEPT ![s] = [r EXCEPT !.pc = pc, !.queue = queue, !.done = done,
                                                            !.quit = quit]]
               /\ \/ quit = TRUE
                  \/ pc = "over" /\ quit = r.quit /\ done = r.done /\ r.done /\ r.queue = <<>>
    BY <1>6, <1>7
  <2>2. /\ search' = [search EXCEPT ![s] = x]
        /\ x = [r EXCEPT !.pc = pc, !.queue = queue, !.done = done, !.quit = quit]
    BY <1>3, <2>1
  <2> HIDE DEF x
  <2>3. /\ x \in SearchT /\ x.pc = pc /\ x.queue = queue /\ x.done = done /\ x.quit = quit
        /\ x.mode = r.mode /\ x.query = r.query /\ x.at = r.at /\ x.met = r.met /\ x.past = r.past
        /\ x.feed = r.feed
    <3>1. queue \in Seq(Address)
      <4>1. <<>> \in Seq(Address)
        OBVIOUS
      <4> QED
        BY <1>3, <2>1, <4>1
    <3> QED
      BY <1>3, <2>2, <3>1, ZenonT(90) DEF SearchT
  <2>4. SearchOK(list, history, x)
    BY <1>2, <1>3, <2>1, <2>3, QueuedKeeps
  <2> QED
    BY <2>2, <2>3, <2>4 DEF x
<1> QED
  BY <1>5, <1>7

\* What a search meets is what the history says.
LEMMA InvMeets == SkipInv => SearchesMeetHistory
<1> SUFFICES ASSUME SkipInv, NEW s \in Searcher, search[s].mode \in Modes
             PROVE  LET met == search[s].met
                        found == ToSet(met)
                    IN /\ \A i, j \in DOMAIN met : i < j => met[i] < met[j]
                       /\ search[s].mode # "lazy" =>
                            \A i \in Matches(search[s].query) :
                              (met # <<>> /\ i <= Last(met)) => i \in found
                       /\ (search[s].pc = "over" /\ ~search[s].quit) =>
                            \A i \in Matches(search[s].query) : i <= search[s].past => i \in found
  BY DEF SearchesMeetHistory
<1> DEFINE r == search[s]
<1>1. /\ r \in SearchT /\ Searching(list, history, r) /\ SearchOK(list, history, r)
      /\ r.met \in Seq(Int) /\ r.query \in Query /\ r.past \in Nat /\ history \in Seq(Key)
  BY Searches, TypesOfSearch DEF Searching
<1>2. Matches(r.query) = Matching(history, r.query)
  BY DEF Matches, Matching
<1>3. \A i : Found(r, i) => i \in ToSet(r.met)
  BY DEF Found, ToSet
<1>4. MetInOrder(history, r) /\ Phase(r)
  BY <1>1 DEF SearchOK
<1>5. r.met # <<>> => Len(r.met) \in DOMAIN r.met /\ Last(r.met) = r.met[Len(r.met)]
  BY <1>1 DEF Last
<1>6. r.mode # "lazy" => \A i \in Matches(r.query) : (r.met # <<>> /\ i <= Last(r.met)) => i \in ToSet(r.met)
  BY <1>2, <1>3, <1>4, <1>5 DEF MetInOrder
<1>7. ASSUME r.pc = "over", ~r.quit, NEW i \in Matches(r.query), i <= r.past
      PROVE  i \in ToSet(r.met)
  <2>1. Matching(history, "none") = {}
    <3>1. "none" \notin Key
      BY SkipAssumption
    <3> QED
      BY <1>1, <3>1 DEF Matching
  <2>2. r.at = NilAddress /\ r.queue = <<>>
    BY <1>2, <1>4, <1>7, <2>1 DEF Phase
  <2>3. Covered(list, history, r)
    BY <1>1, <1>7 DEF SearchOK
  <2>4. i \in Nat
    BY <1>1 DEF Matches
  <2> QED
    BY <1>1, <1>2, <1>3, <1>7, <2>2, <2>3, <2>4 DEF Covered, Ahead, Queued, Late
<1> QED
  BY <1>4, <1>6, <1>7 DEF MetInOrder

\* A search of the skip list (for_each, indexed_for_each, and the ranges of
\* LogSkipList) meets its items in the order of the history, none twice, and
\* every match that was there when it began unless it is made to stop, for any
\* number of threads that add and search, keys, hashes and locks, while buckets
\* are filled and linked under it.  A queued search that is started again while
\* its producer runs is left out: the producer may add a bucket to the queue
\* that was just emptied.
THEOREM SearchesMeet ==
  ASSUME ~Restarts
  PROVE  SkipSpec => []SearchesMeetHistory
<1>1. LogInit /\ SkipInit => SkipInv
  BY InitSkip
<1>2. SkipInv /\ [SkipNext]_<<skipVars, logVars>> => SkipInv'
  <2> SUFFICES ASSUME SkipInv, [SkipNext]_<<skipVars, logVars>> PROVE SkipInv'
    OBVIOUS
  <2>1. CASE CreateList
    BY <2>1, CreateStep
  <2>2. ASSUME NEW w \in Writer, (\E k \in Key : Emplace(w, k)) \/ EmplaceStep(w) PROVE SkipInv'
    BY <2>2, LockStep, GrowStep, PutStep DEF EmplaceStep
  <2>3. ASSUME NEW s \in Searcher, SearchBegins(s) \/ Halt(s) \/ SearchStep(s) \/ ProducerStep(s)
        PROVE  SkipInv'
    BY <2>3, BeginStep, VisitStep, LazySteps, ProducerSteps, ConsumerSteps, SizeStep DEF SearchStep
  <2>4. CASE Fetch
    BY <2>4, FetchStep
  <2>5. CASE UNCHANGED <<skipVars, logVars>>
    BY <2>5 DEF SkipInv, SkipType, LogInv, LogType, Unmade, Made, Stored, Writing, InHeader, AtLast,
                skipVars, logVars
  <2> QED
    BY <2>1, <2>2, <2>3, <2>4, <2>5 DEF SkipNext
<1> QED
  BY <1>1, <1>2, InvMeets, PTL DEF SkipSpec

-----------------------------------------------------------------------------
(***************************************************************************)
(* The fixed slot.  Runs of free entries and nodes share the entries of    *)
(* the segments between them, and the header counts both.                  *)
(*                                                                         *)
(* What a call does depends on the chain of the runs: Runs walks it, and   *)
(* what it meets is what the proofs speak of (InRuns).  FixedOK is the     *)
(* part of the invariant that is about one header; the first lemmas say    *)
(* that a header with one run more, one entry less or one run less is      *)
(* whole, and the calls of the slot make one of those.  Of the heap it     *)
(* matters only which segments have a header in it (Heads).                *)
(***************************************************************************)

\* Entry k of segment s.
Entry(s, k) == Shift(<<s, BlocksBegin(s, Layout(s).fixed)>>, EntrySize * k)

\* The entries of the segments of S.
Entries(S) == {Entry(s, k) : s \in S, k \in 0 .. Capacity - 1}

\* Headers of runs, and of the slot.
RunT == [next : (Int \X Int) \cup {Nil}, adjacent : Nat]
FixedT == [next : (Int \X Int) \cup {Nil}, inFree : Int, inAlloc : Int,
           run : UNION {[D -> RunT] : D \in SUBSET (Int \X Int)}]

\* The entries from k on, m of them and one.
Span(s, k, m) == {Entry(s, j) : j \in k .. k + m}

\* A header of the slot with these runs.
Slot(f, next, run) ==
  /\ f = [next |-> next, inFree |-> f.inFree, inAlloc |-> f.inAlloc, run |-> run]
  /\ f.inFree \in Int /\ f.inAlloc \in Int

\* The runs when the last entry of one is gone.
Shorter(run, a) == [run EXCEPT ![a].adjacent = @ - 1]

\* The runs are those of q, first to last.
InRuns(fixed, q) ==
  /\ q \in Seq(DOMAIN fixed.run)
  /\ \A i, j \in DOMAIN q : q[i] = q[j] => i = j
  /\ \A a \in DOMAIN fixed.run : \E i \in DOMAIN q : q[i] = a
  /\ fixed.next = IF q = <<>> THEN Nil ELSE q[1]
  /\ \A i \in DOMAIN q : fixed.run[q[i]].next = IF i = Len(q) THEN Nil ELSE q[i + 1]

\* The entries of the runs.
FreeOf(fixed) == UNION {RunEntries(fixed, a) : a \in DOMAIN fixed.run}

\* No entry is in two runs.
Apart(fixed) == \A a, b \in DOMAIN fixed.run : a # b => RunEntries(fixed, a) \cap RunEntries(fixed, b) = {}

\* The runs are a chain; each lies in the entries of one segment, and they are apart.
RunsOK(fixed, S) ==
  /\ fixed \in FixedT
  /\ \E q : InRuns(fixed, q)
  /\ \A a \in DOMAIN fixed.run : \E s \in S, k \in Nat :
        a = Entry(s, k) /\ k + fixed.run[a].adjacent < Capacity
  /\ Apart(fixed)

\* Runs and nodes share the entries between them, and the header counts both.
FixedOK(fixed, S, nodes) ==
  /\ RunsOK(fixed, S)
  /\ FreeOf(fixed) \cup nodes = Entries(S)
  /\ FreeOf(fixed) \cap nodes = {}
  /\ fixed.inFree = Cardinality(FreeOf(fixed)) /\ fixed.inAlloc = Cardinality(nodes)

-----------------------------------------------------------------------------
\* What the runs are, as a function.
RunsFrom(fixed, f) ==
  [a \in DOMAIN fixed.run \cup {Nil} |-> IF a = Nil THEN <<>> ELSE <<a>> \o f[fixed.run[a].next]]

\* The fields of a header.
LEMMA FixedTyped ==
  ASSUME NEW fixed \in FixedT
  PROVE  /\ fixed.next \in (Int \X Int) \cup {Nil} /\ fixed.inFree \in Int /\ fixed.inAlloc \in Int
         /\ DOMAIN fixed.run \in SUBSET (Int \X Int)
         /\ fixed.run = [a \in DOMAIN fixed.run |-> fixed.run[a]]
         /\ \A a \in DOMAIN fixed.run : fixed.run[a] \in RunT /\ fixed.run[a].adjacent \in Nat
         /\ Nil \notin DOMAIN fixed.run
<1>1. PICK D \in SUBSET (Int \X Int) : fixed.run \in [D -> RunT]
  BY DEF FixedT
<1>2. /\ DOMAIN fixed.run = D
      /\ \A a \in D : fixed.run[a] \in RunT
  BY <1>1
<1>3. \A a \in D : fixed.run[a].adjacent \in Nat
  BY <1>2 DEF RunT
<1> QED
  BY <1>1, <1>2, <1>3, NilAssumption DEF FixedT

\* A header is the record of its fields.
LEMMA FixedRecord ==
  ASSUME NEW fixed \in FixedT
  PROVE  fixed = [next |-> fixed.next, inFree |-> fixed.inFree, inAlloc |-> fixed.inAlloc, run |-> fixed.run]
BY DEF FixedT

\* A header with these runs is a header.
LEMMA SlotIs ==
  ASSUME NEW f, NEW next, NEW run, Slot(f, next, run), next \in (Int \X Int) \cup {Nil},
         NEW D \in SUBSET (Int \X Int), run \in [D -> RunT]
  PROVE  f \in FixedT /\ f.next = next /\ f.run = run
<1>1. f = [next |-> next, inFree |-> f.inFree, inAlloc |-> f.inAlloc, run |-> run]
  BY DEF Slot
<1>2. f.next = next /\ f.run = run
  BY <1>1
<1>3. run \in UNION {[C -> RunT] : C \in SUBSET (Int \X Int)}
  OBVIOUS
<1> QED
  BY <1>1, <1>2, <1>3 DEF FixedT, Slot

\* The fields of a header with these runs.
LEMMA SlotFields ==
  ASSUME NEW f, NEW next, NEW run, Slot(f, next, run)
  PROVE  f.next = next /\ f.run = run
BY DEF Slot

\* The rest of a sequence, one element less at a time.
LEMMA SeqFrom ==
  ASSUME NEW S, NEW q \in Seq(S)
  PROVE  /\ SubSeq(q, Len(q) + 1, Len(q)) = <<>> /\ SubSeq(q, 1, Len(q)) = q
         /\ \A i \in 1 .. Len(q) : SubSeq(q, i, Len(q)) = <<q[i]>> \o SubSeq(q, i + 1, Len(q))
<1>1. Len(q) \in Nat
  OBVIOUS
<1>2. SubSeq(q, Len(q) + 1, Len(q)) = <<>>
  BY <1>1, SubSeqEmpty
<1>3. SubSeq(q, 1, Len(q)) = q
  BY SubSeqFull
<1>4. ASSUME NEW i \in 1 .. Len(q)
      PROVE  SubSeq(q, i, Len(q)) = <<q[i]>> \o SubSeq(q, i + 1, Len(q))
  <2>1. Len(q) \in i .. Len(q)
    BY <1>1
  <2> QED
    BY <2>1, SubSeqRecursiveFirst
<1> QED
  BY <1>2, <1>3, <1>4

\* The walk along the headers of the runs (Runs) meets those of the chain in their order.
LEMMA RunsAre ==
  ASSUME NEW fixed \in FixedT, NEW q, InRuns(fixed, q)
  PROVE  Runs(fixed) = q
<1> DEFINE D == DOMAIN fixed.run \cup {Nil}
           n == Len(q)
           from == CHOOSE f : f = RunsFrom(fixed, f)
           at(a) == CHOOSE i \in 1 .. n : q[i] = a
           rest(i) == SubSeq(q, i, n)
           g == [a \in D |-> IF a = Nil THEN <<>> ELSE rest(at(a))]
           next(i) == IF i = n + 1 THEN Nil ELSE q[i]
<1>0. /\ q \in Seq(DOMAIN fixed.run) /\ n \in Nat /\ DOMAIN q = 1 .. n
      /\ \A i, j \in 1 .. n : q[i] = q[j] => i = j
      /\ \A a \in DOMAIN fixed.run : \E i \in 1 .. n : q[i] = a
      /\ fixed.next = next(1)
      /\ \A i \in 1 .. n : fixed.run[q[i]].next = next(i + 1)
      /\ Nil \notin DOMAIN fixed.run
  <2>1. q \in Seq(DOMAIN fixed.run) /\ Nil \notin DOMAIN fixed.run
    BY FixedTyped DEF InRuns
  <2>2. n \in Nat /\ DOMAIN q = 1 .. n /\ (q = <<>> <=> n = 0)
    BY <2>1
  <2>3. fixed.next = next(1)
    BY <2>2 DEF InRuns
  <2>4. \A i \in 1 .. n : fixed.run[q[i]].next = next(i + 1)
    BY <2>2 DEF InRuns
  <2> QED
    BY <2>1, <2>2, <2>3, <2>4 DEF InRuns
<1>1. Runs(fixed) = from[fixed.next]
  BY DEF Runs, RunsFrom
<1>2. \A i \in 1 .. n : q[i] \in DOMAIN fixed.run /\ at(q[i]) = i /\ q[i] # Nil
  BY <1>0
<1>3. /\ rest(n + 1) = <<>> /\ rest(1) = q
      /\ \A i \in 1 .. n : rest(i) = <<q[i]>> \o rest(i + 1)
  BY <1>0, SeqFrom
<1>4. \A i \in 1 .. n + 1 : g[next(i)] = rest(i) /\ next(i) \in D
  <2> SUFFICES ASSUME NEW i \in 1 .. n + 1 PROVE g[next(i)] = rest(i) /\ next(i) \in D
    OBVIOUS
  <2>0. \A a \in D : g[a] = IF a = Nil THEN <<>> ELSE rest(at(a))
    OBVIOUS
  <2> HIDE DEF g, rest, at
  <2>1. CASE i = n + 1
    BY <1>3, <2>0, <2>1
  <2>2. CASE i # n + 1
    <3>1. i \in 1 .. n
      BY <1>0, <2>2
    <3> QED
      BY <1>2, <2>0, <2>2, <3>1
  <2> QED
    BY <2>1, <2>2
<1>5. g = RunsFrom(fixed, g)
  <2>0. /\ \A a \in D : g[a] = IF a = Nil THEN <<>> ELSE rest(at(a))
        /\ g = [a \in D |-> g[a]]
    OBVIOUS
  <2> HIDE DEF g, rest
  <2>1. ASSUME NEW a \in D, a # Nil PROVE g[a] = <<a>> \o g[fixed.run[a].next]
    <3>1. PICK i \in 1 .. n : q[i] = a
      BY <1>0, <2>1
    <3>2. at(a) = i
      BY <1>2, <3>1
    <3>3. fixed.run[a].next = next(i + 1) /\ i + 1 \in 1 .. n + 1
      BY <1>0, <3>1, SMTT(60)
    <3>4. g[fixed.run[a].next] = rest(i + 1)
      BY <1>4, <3>3
    <3> HIDE DEF at, next
    <3> QED
      BY <1>3, <2>0, <2>1, <3>1, <3>2, <3>4
  <2>2. ASSUME NEW a \in D PROVE g[a] = IF a = Nil THEN <<>> ELSE <<a>> \o g[fixed.run[a].next]
    BY <2>0, <2>1
  <2> QED
    BY <2>0, <2>2, ZenonT(90) DEF RunsFrom
<1> HIDE DEF g
<1>6. from = RunsFrom(fixed, from)
  BY <1>5
<1> HIDE DEF from
<1>7. \A a \in D : from[a] = IF a = Nil THEN <<>> ELSE <<a>> \o from[fixed.run[a].next]
  <2>1. ASSUME NEW a \in D PROVE RunsFrom(fixed, from)[a] = IF a = Nil THEN <<>> ELSE <<a>> \o from[fixed.run[a].next]
    BY DEF RunsFrom
  <2> QED
    BY <1>6, <2>1
<1> DEFINE T == {m \in Nat : m <= n => from[next(n + 1 - m)] = rest(n + 1 - m)}
<1>8. T = Nat
  <2> HIDE DEF rest
  <2>1. 0 \in T
    <3>1. n + 1 - 0 = n + 1 /\ next(n + 1) = Nil
      BY <1>0
    <3>2. from[next(n + 1)] = rest(n + 1)
      BY <1>3, <1>7, <3>1
    <3> QED
      BY <3>1, <3>2
  <2>2. ASSUME NEW m \in T PROVE m + 1 \in T
    <3>0. m \in Nat /\ (m <= n => from[next(n + 1 - m)] = rest(n + 1 - m))
      OBVIOUS
    <3> HIDE DEF T
    <3>1. ASSUME m + 1 <= n PROVE from[next(n + 1 - (m + 1))] = rest(n + 1 - (m + 1))
      <4>0. n \in Nat /\ m \in Nat /\ m + 1 <= n
        BY <1>0, <3>0, <3>1
      <4> HIDE DEF n
      <4>1. PICK i \in 1 .. n : i = n - m
        BY <4>0
      <4>2. i + 1 = n + 1 - m /\ n + 1 - (m + 1) = i /\ m <= n
        BY <4>0, <4>1
      <4>3. from[next(i + 1)] = rest(i + 1)
        BY <3>0, <4>2
      <4>4. next(i) = q[i]
        BY <1>0
      <4>5. from[q[i]] = <<q[i]>> \o from[next(i + 1)]
        <5>1. q[i] \in D /\ q[i] # Nil /\ fixed.run[q[i]].next = next(i + 1)
          BY <1>0, <1>2
        <5> HIDE DEF next
        <5> QED
          BY <1>7, <5>1
      <4> QED
        BY <1>3, <4>2, <4>3, <4>4, <4>5
    <3> QED
      BY <3>0, <3>1 DEF T
  <2> QED
    <3> HIDE DEF T
    <3>1. T \in SUBSET Nat
      BY DEF T
    <3> QED
      BY <2>1, <2>2, <3>1, NatSet
<1>9. from[next(1)] = rest(1)
  <2>1. n \in T
    <3> HIDE DEF T
    <3> QED
      BY <1>0, <1>8
  <2>2. n + 1 - n = 1 /\ n <= n
    BY <1>0
  <2> HIDE DEF rest, next
  <2> QED
    BY <2>1, <2>2
<1> QED
  BY <1>0, <1>1, <1>3, <1>9

-----------------------------------------------------------------------------
(* The entries.                                                            *)

\* Distances between entries grow with the number of entries.
LEMMA Steps ==
  ASSUME NEW i \in Nat, NEW j \in Nat
  PROVE  /\ EntrySize * i \in Nat /\ (EntrySize * i = EntrySize * j => i = j)
         /\ EntrySize * (i + j) = EntrySize * i + EntrySize * j
         /\ i <= j => EntrySize * i <= EntrySize * j
<1>1. EntrySize \in Nat /\ EntrySize >= 16
  BY CapacityAssumption
<1>2. ASSUME NEW k \in Nat, NEW l \in Nat, k < l PROVE EntrySize * k < EntrySize * l
  <2>1. EntrySize * l = EntrySize * k + EntrySize * (l - k)
    BY <1>1
  <2>2. EntrySize * (l - k) > 0
    BY <1>1, <1>2
  <2>3. EntrySize * l \in Nat /\ EntrySize * k \in Nat /\ EntrySize * (l - k) \in Int
    BY <1>1
  <2> QED
    BY <2>1, <2>2, <2>3
<1>3. EntrySize * i = EntrySize * j => i = j
  <2>1. i < j => EntrySize * i < EntrySize * j
    BY <1>2
  <2>2. j < i => EntrySize * j < EntrySize * i
    BY <1>2
  <2>3. EntrySize * i \in Nat /\ EntrySize * j \in Nat
    BY <1>1
  <2> QED
    BY <2>1, <2>2, <2>3
<1>4. i <= j => EntrySize * i <= EntrySize * j
  <2>1. EntrySize * i \in Nat /\ EntrySize * j \in Nat
    BY <1>1
  <2> QED
    BY <1>2, <2>1
<1> QED
  BY <1>1, <1>3, <1>4

\* Where the slots of a segment begin: those of the first one are after the address table.
LEMMA LayoutIs ==
  ASSUME NEW s \in Nat
  PROVE  /\ BlocksBegin(s, Layout(s).fixed) = IF s = 0 THEN 80 ELSE 32
         /\ Layout(s).fixed = IF s = 0 THEN 64 ELSE 32
         /\ Layout(s).heap = (IF s = 0 THEN 80 ELSE 32) + EntrySize * Capacity
<1>1. EntrySize * Capacity \in Nat
  BY Steps, CapacityAssumption
<1>2. AddressTableBytes = 16
  BY DEF AddressTableBytes, Aligned, AlignOn
<1>3. Layout(s).fixed = IF s = 0 THEN 64 ELSE 32
  BY <1>2 DEF Layout, SegmentHeaderBytes, ResidenceBytes
<1>4. AlignOn(64, 8) = 64 /\ AlignOn(32, 8) = 32
  BY DEF AlignOn
<1>5. BlocksBegin(s, Layout(s).fixed) = IF s = 0 THEN 80 ELSE 32
  BY <1>3, <1>4 DEF BlocksBegin, ZeroHeaderOffset, ZeroHeaderBytes
<1>6. FixedByteSize(s, Layout(s).fixed) = (IF s = 0 THEN 16 ELSE 0) + EntrySize * Capacity
  BY <1>1, <1>3, <1>4 DEF FixedByteSize, ZeroHeaderBytes
<1>7. Layout(s).heap = Layout(s).fixed + FixedByteSize(s, Layout(s).fixed)
  BY DEF Layout
<1> QED
  BY <1>1, <1>3, <1>5, <1>6, <1>7

\* The address of an entry, the entries after it, and that no two have one address.
LEMMA EntryIs ==
  ASSUME NEW s \in Nat, NEW k \in Nat
  PROVE  /\ Entry(s, k) \in Int \X Int /\ Entry(s, k)[1] = s
         /\ Entry(s, k)[2] = (IF s = 0 THEN 80 ELSE 32) + EntrySize * k
         /\ Entry(s, 0) = <<s, BlocksBegin(s, Layout(s).fixed)>>
         /\ \A j \in Nat : Shift(Entry(s, k), EntrySize * j) = Entry(s, k + j)
         /\ \A t \in Nat, j \in Nat : Entry(s, k) = Entry(t, j) => s = t /\ k = j
<1> DEFINE B(t) == IF t = 0 THEN 80 ELSE 32
<1>1. \A t \in Nat, j \in Nat : Entry(t, j) = <<t, B(t) + EntrySize * j>>
  BY LayoutIs DEF Entry, Shift
<1>2. EntrySize * k \in Nat /\ B(s) \in Nat /\ EntrySize * 0 = 0
  BY Steps, CapacityAssumption
<1>3. Entry(s, k) \in Int \X Int /\ Entry(s, k)[1] = s /\ Entry(s, k)[2] = B(s) + EntrySize * k
  BY <1>1, <1>2
<1>4. Entry(s, 0) = <<s, BlocksBegin(s, Layout(s).fixed)>>
  <2>1. BlocksBegin(s, Layout(s).fixed) = B(s)
    BY LayoutIs
  <2>2. Entry(s, 0) = <<s, B(s) + EntrySize * 0>>
    BY <1>1
  <2>3. B(s) + EntrySize * 0 = B(s)
    BY <1>2
  <2> HIDE DEF B
  <2> QED
    BY <2>1, <2>2, <2>3
<1>5. ASSUME NEW j \in Nat PROVE Shift(Entry(s, k), EntrySize * j) = Entry(s, k + j)
  <2>1. EntrySize * (k + j) = EntrySize * k + EntrySize * j /\ EntrySize * j \in Nat /\ k + j \in Nat
    BY Steps
  <2>2. Entry(s, k + j) = <<s, B(s) + EntrySize * (k + j)>>
    BY <1>1, <2>1
  <2> QED
    BY <1>1, <1>2, <2>1, <2>2 DEF Shift
<1>6. ASSUME NEW t \in Nat, NEW j \in Nat, Entry(s, k) = Entry(t, j) PROVE s = t /\ k = j
  <2>1. s = t /\ B(s) + EntrySize * k = B(t) + EntrySize * j
    BY <1>1, <1>6
  <2>2. EntrySize * k = EntrySize * j
    <3>1. EntrySize * j \in Nat
      BY Steps
    <3> QED
      BY <1>2, <2>1, <3>1
  <2> QED
    BY <2>1, <2>2, Steps
<1> QED
  BY <1>3, <1>4, <1>5, <1>6

\* A segment has Capacity entries, several no more than that each.
LEMMA EntriesCount ==
  ASSUME NEW n \in Nat, NEW S \in SUBSET (0 .. n - 1)
  PROVE  IsFiniteSet(Entries(S)) /\ Cardinality(Entries(S)) <= n * Capacity
<1> DEFINE K == 0 .. Capacity - 1
           E(p) == Entry(p[1], p[2])
<1>1. IsFiniteSet(S) /\ Cardinality(S) <= n /\ Cardinality(S) \in Nat
  <2>1. IsFiniteSet(0 .. n - 1) /\ Cardinality(0 .. n - 1) = n
    BY FS_Interval
  <2> QED
    BY <2>1, FS_Subset, FS_CardinalityType, ZenonT(90)
<1>2. IsFiniteSet(K) /\ Cardinality(K) = Capacity
  BY FS_Interval, CapacityAssumption
<1>3. IsFiniteSet(S \X K) /\ Cardinality(S \X K) = Cardinality(S) * Capacity
  BY <1>1, <1>2, FS_Product
<1>4. Entries(S) = {E(p) : p \in S \X K}
  <2>1. ASSUME NEW s \in S, NEW k \in K PROVE \E p \in S \X K : Entry(s, k) = E(p)
    <3>1. <<s, k>> \in S \X K /\ <<s, k>>[1] = s /\ <<s, k>>[2] = k
      OBVIOUS
    <3> QED
      BY <3>1
  <2>2. ASSUME NEW p \in S \X K PROVE p[1] \in S /\ p[2] \in K
    OBVIOUS
  <2>3. Entries(S) = {Entry(s, k) : s \in S, k \in K}
    BY DEF Entries
  <2>4. ASSUME NEW x \in Entries(S) PROVE x \in {E(p) : p \in S \X K}
    <3>1. PICK s \in S, k \in K : x = Entry(s, k)
      BY <2>3
    <3>2. PICK p \in S \X K : Entry(s, k) = E(p)
      BY <2>1
    <3> HIDE DEF E
    <3> QED
      BY <3>1, <3>2
  <2>5. ASSUME NEW x \in {E(p) : p \in S \X K} PROVE x \in Entries(S)
    <3>1. PICK p \in S \X K : x = E(p)
      OBVIOUS
    <3> QED
      BY <2>2, <2>3, <3>1
  <2> QED
    BY <2>4, <2>5
<1> HIDE DEF E
<1>5. IsFiniteSet({E(p) : p \in S \X K}) /\ Cardinality({E(p) : p \in S \X K}) <= Cardinality(S \X K)
  <2>1. \E f : f \in Surjection(S \X K, {E(p) : p \in S \X K})
    <3>1. [p \in S \X K |-> E(p)] \in Surjection(S \X K, {E(p) : p \in S \X K})
      BY DEF Surjection
    <3> QED
      BY <3>1
  <2> QED
    BY <1>3, <2>1, FS_Surjection
<1>6. Cardinality(S) * Capacity <= n * Capacity
  BY <1>1, CapacityAssumption
<1>7. Cardinality({E(p) : p \in S \X K}) \in Nat
  BY <1>5, FS_CardinalityType
<1> QED
  BY <1>1, <1>3, <1>4, <1>5, <1>6, <1>7, CapacityAssumption

\* A run of entries: as many as it says.
LEMMA RunIs ==
  ASSUME NEW fixed \in FixedT, NEW a \in DOMAIN fixed.run,
         NEW s \in Nat, NEW k \in Nat, a = Entry(s, k)
  PROVE  /\ RunEntries(fixed, a) = {Entry(s, j) : j \in k .. k + fixed.run[a].adjacent}
         /\ a \in RunEntries(fixed, a)
         /\ IsFiniteSet(RunEntries(fixed, a))
         /\ Cardinality(RunEntries(fixed, a)) = fixed.run[a].adjacent + 1
<1> DEFINE n == fixed.run[a].adjacent
           I == k .. k + n
           f == [j \in I |-> Entry(s, j)]
<1>0. n \in Nat
  BY FixedTyped
<1>1. RunEntries(fixed, a) = {Shift(a, EntrySize * j) : j \in 0 .. n}
  BY DEF RunEntries
<1> HIDE DEF n
<1>2. \A j \in 0 .. n : Shift(a, EntrySize * j) = Entry(s, k + j)
  BY <1>0, EntryIs
<1>3. RunEntries(fixed, a) = {Entry(s, j) : j \in I}
  <2>1. {Shift(a, EntrySize * j) : j \in 0 .. n} = {Entry(s, k + j) : j \in 0 .. n}
    BY <1>2
  <2>2. \A j \in I : j - k \in 0 .. n /\ k + (j - k) = j
    BY <1>0
  <2>3. \A j \in 0 .. n : k + j \in I
    BY <1>0
  <2> QED
    BY <1>1, <2>1, <2>2, <2>3
<1>4. f \in Bijection(I, {Entry(s, j) : j \in I})
  <2>1. ASSUME NEW i \in I, NEW j \in I, Entry(s, i) = Entry(s, j) PROVE i = j
    <3>1. i \in Nat /\ j \in Nat
      BY <1>0
    <3> QED
      BY <2>1, <3>1, EntryIs
  <2> QED
    BY <2>1 DEF Bijection, Injection, Surjection, IsInjective
<1>5. IsFiniteSet(I) /\ Cardinality(I) = n + 1
  BY <1>0, FS_Interval
<1>6. ExistsBijection(I, {Entry(s, j) : j \in I})
  BY <1>4 DEF ExistsBijection
<1>7. IsFiniteSet({Entry(s, j) : j \in I}) /\ Cardinality({Entry(s, j) : j \in I}) = n + 1
  BY <1>5, <1>6, FS_Bijection
<1> QED
  BY <1>0, <1>3, <1>7 DEF n

-----------------------------------------------------------------------------
(* The slot's own check adds up the runs.                                  *)

\* The sum over a set of places, as a function.
RunSums(fixed, q, f) ==
  [s \in SUBSET DOMAIN q |->
     IF s = {} THEN 0
     ELSE LET x == CHOOSE y \in s : TRUE IN f[s \ {x}] + 1 + fixed.run[q[x]].adjacent]

\* The sum that the integrity check of the slot makes is the number of free entries.
LEMMA SumOfRuns ==
  ASSUME NEW fixed, NEW S \in SUBSET Nat, NEW n, FixedOK(fixed, S, n), NEW q, InRuns(fixed, q)
  PROVE  FoldSeq(LAMBDA a, k : k + 1 + fixed.run[a].adjacent, 0, q) = Cardinality(FreeOf(fixed))
<1> DEFINE D == SUBSET DOMAIN q
           Es(s) == UNION {RunEntries(fixed, q[i]) : i \in s}
           one(s) == CHOOSE y \in s : TRUE
           g == [s \in D |-> Cardinality(Es(s))]
           F == CHOOSE f : f = RunSums(fixed, q, f)
<1>0. /\ fixed \in FixedT /\ q \in Seq(DOMAIN fixed.run) /\ IsFiniteSet(DOMAIN q)
      /\ \A i, j \in DOMAIN q : q[i] = q[j] => i = j
      /\ \A a \in DOMAIN fixed.run : \E i \in DOMAIN q : q[i] = a
  <2>1. fixed \in FixedT /\ q \in Seq(DOMAIN fixed.run)
    BY DEF FixedOK, RunsOK, InRuns
  <2>2. IsFiniteSet(DOMAIN q)
    BY <2>1, FS_Interval
  <2> QED
    BY <2>1, <2>2 DEF InRuns
<1>1. \A i \in DOMAIN q : /\ q[i] \in DOMAIN fixed.run /\ fixed.run[q[i]].adjacent \in Nat
                          /\ IsFiniteSet(RunEntries(fixed, q[i]))
                          /\ Cardinality(RunEntries(fixed, q[i])) = fixed.run[q[i]].adjacent + 1
  <2>1. ASSUME NEW i \in DOMAIN q
        PROVE  /\ q[i] \in DOMAIN fixed.run /\ fixed.run[q[i]].adjacent \in Nat
               /\ IsFiniteSet(RunEntries(fixed, q[i]))
               /\ Cardinality(RunEntries(fixed, q[i])) = fixed.run[q[i]].adjacent + 1
    <3>1. q[i] \in DOMAIN fixed.run
      BY <1>0
    <3>2. PICK s \in S, k \in Nat : q[i] = Entry(s, k)
      BY <3>1 DEF FixedOK, RunsOK
    <3>3. s \in Nat
      OBVIOUS
    <3>4. fixed.run[q[i]].adjacent \in Nat
      BY <1>0, <3>1, FixedTyped
    <3> QED
      BY <1>0, <3>1, <3>2, <3>3, <3>4, RunIs
  <2> QED
    BY <2>1
<1>2. \A s \in D : IsFiniteSet(s) /\ IsFiniteSet(Es(s))
  <2>1. ASSUME NEW s \in D PROVE IsFiniteSet(s) /\ IsFiniteSet(Es(s))
    <3>1. IsFiniteSet(s)
      BY <1>0, FS_Subset
    <3> DEFINE R == [i \in s |-> RunEntries(fixed, q[i])]
    <3>2. R \in Surjection(s, {RunEntries(fixed, q[i]) : i \in s})
      BY DEF Surjection
    <3>3. IsFiniteSet({RunEntries(fixed, q[i]) : i \in s})
      BY <3>1, <3>2, FS_Surjection
    <3>4. \A T \in {RunEntries(fixed, q[i]) : i \in s} : IsFiniteSet(T)
      BY <1>1
    <3> QED
      BY <3>1, <3>3, <3>4, FS_UNION
  <2> QED
    BY <2>1
<1>3. ASSUME NEW s \in D, NEW x \in s
      PROVE  Cardinality(Es(s)) = Cardinality(Es(s \ {x})) + 1 + fixed.run[q[x]].adjacent
  <2> DEFINE X == RunEntries(fixed, q[x])
             Y == Es(s \ {x})
  <2>1. Es(s) = Y \cup X
    OBVIOUS
  <2>2. Y \cap X = {}
    <3>1. SUFFICES ASSUME NEW i \in s \ {x} PROVE RunEntries(fixed, q[i]) \cap X = {}
      OBVIOUS
    <3>2. i \in DOMAIN q /\ x \in DOMAIN q /\ q[i] # q[x]
      BY <1>0
    <3> QED
      BY <1>1, <3>2 DEF FixedOK, RunsOK, Apart
  <2>3. IsFiniteSet(Y) /\ IsFiniteSet(X) /\ Cardinality(X) = fixed.run[q[x]].adjacent + 1
    <3>1. s \ {x} \in D
      OBVIOUS
    <3> QED
      BY <1>1, <1>2, <3>1
  <2> HIDE DEF X, Y, Es
  <2>4. Cardinality(Es(s)) = Cardinality(Y) + Cardinality(X) - Cardinality(Y \cap X)
    BY <2>1, <2>3, FS_Union
  <2>5. Cardinality(Y \cap X) = 0 /\ Cardinality(Y) \in Nat
    BY <2>2, <2>3, FS_EmptySet, FS_CardinalityType
  <2>6. fixed.run[q[x]].adjacent \in Nat
    BY <1>1
  <2> QED
    BY <2>3, <2>4, <2>5, <2>6 DEF Y
<1>4. Cardinality(Es({})) = 0
  <2>1. Es({}) = {}
    OBVIOUS
  <2> QED
    BY <2>1, FS_EmptySet
<1> HIDE DEF Es
<1>5. g = RunSums(fixed, q, g)
  <2>1. ASSUME NEW s \in D
        PROVE  g[s] = IF s = {} THEN 0 ELSE g[s \ {one(s)}] + 1 + fixed.run[q[one(s)]].adjacent
    <3>1. CASE s = {}
      BY <1>4, <3>1
    <3>2. CASE s # {}
      <4>1. one(s) \in s
        BY <3>2
      <4> HIDE DEF one
      <4>2. s \ {one(s)} \in D
        OBVIOUS
      <4> QED
        BY <1>3, <3>2, <4>1, <4>2
    <3> QED
      BY <3>1, <3>2
  <2>2. g = [s \in D |-> g[s]]
    OBVIOUS
  <2> HIDE DEF g
  <2> QED
    BY <2>1, <2>2 DEF RunSums
<1> HIDE DEF g
<1>6. F = RunSums(fixed, q, F)
  BY <1>5
<1> HIDE DEF F
<1>7. \A s \in D : F[s] = IF s = {} THEN 0 ELSE F[s \ {one(s)}] + 1 + fixed.run[q[one(s)]].adjacent
  <2>1. ASSUME NEW s \in D
        PROVE  RunSums(fixed, q, F)[s] = IF s = {} THEN 0 ELSE F[s \ {one(s)}] + 1 + fixed.run[q[one(s)]].adjacent
    BY DEF RunSums
  <2> QED
    BY <1>6, <2>1
<1> DEFINE T == {m \in Nat : \A s \in D : Cardinality(s) = m => F[s] = Cardinality(Es(s))}
<1>8. T = Nat
  <2>1. 0 \in T
    <3>1. ASSUME NEW s \in D, Cardinality(s) = 0 PROVE F[s] = Cardinality(Es(s))
      <4>1. s = {}
        BY <1>2, <3>1, FS_EmptySet
      <4> QED
        BY <1>4, <1>7, <4>1
    <3> QED
      BY <3>1
  <2>2. ASSUME NEW m \in T PROVE m + 1 \in T
    <3>0. m \in Nat /\ \A s \in D : Cardinality(s) = m => F[s] = Cardinality(Es(s))
      OBVIOUS
    <3>1. ASSUME NEW s \in D, Cardinality(s) = m + 1 PROVE F[s] = Cardinality(Es(s))
      <4>1. s # {}
        <5>1. Cardinality(s) # 0
          BY <3>0, <3>1
        <5> QED
          BY <5>1, FS_EmptySet
      <4>2. PICK x \in s : x = one(s)
        BY <4>1
      <4> HIDE DEF one, T
      <4>3. s \ {x} \in D /\ Cardinality(s \ {x}) = m
        <5>1. s \ {x} \in D /\ IsFiniteSet(s)
          BY <1>2
        <5>2. Cardinality(s \ {x}) = Cardinality(s) - 1
          BY <4>2, <5>1, FS_RemoveElement
        <5> QED
          BY <3>0, <3>1, <5>1, <5>2
      <4>4. F[s] = F[s \ {x}] + 1 + fixed.run[q[x]].adjacent
        BY <1>7, <4>1, <4>2
      <4> QED
        BY <1>3, <3>0, <4>3, <4>4
    <3> QED
      BY <3>0, <3>1
  <2> HIDE DEF T
  <2>3. T \in SUBSET Nat
    BY DEF T
  <2> QED
    BY <2>1, <2>2, <2>3, NatSet
<1>9. F[DOMAIN q] = Cardinality(Es(DOMAIN q))
  <2>1. DOMAIN q \in D /\ Cardinality(DOMAIN q) \in Nat
    BY <1>0, FS_CardinalityType
  <2>2. Cardinality(DOMAIN q) \in T
    <3> HIDE DEF T
    <3> QED
      BY <1>8, <2>1
  <2> QED
    BY <2>1, <2>2
<1>10. Es(DOMAIN q) = FreeOf(fixed)
  <2>1. {RunEntries(fixed, q[i]) : i \in DOMAIN q} = {RunEntries(fixed, a) : a \in DOMAIN fixed.run}
    BY <1>0, <1>1
  <2> QED
    BY <2>1 DEF Es, FreeOf
<1>11. FoldSeq(LAMBDA a, k : k + 1 + fixed.run[a].adjacent, 0, q) = F[DOMAIN q]
  BY DEF F, FoldSeq, FoldFunction, FoldFunctionOnSet, MapThenFoldSet, RunSums
<1> QED
  BY <1>9, <1>10, <1>11

\* What the invariant says of a slot, in the words of FixedWhole.
LEMMA FixedIsWhole ==
  ASSUME NEW n \in Nat, NEW S \in SUBSET (0 .. n - 1), NEW fixed, NEW nodes, FixedOK(fixed, S, nodes)
  PROVE  /\ FixedCheck(fixed, n)
         /\ FreeEntries(fixed) \cup nodes = Entries(S) /\ FreeEntries(fixed) \cap nodes = {}
         /\ fixed.inFree = Cardinality(FreeEntries(fixed)) /\ fixed.inAlloc = Cardinality(nodes)
<1>1. PICK q : InRuns(fixed, q)
  BY DEF FixedOK, RunsOK
<1>2. Runs(fixed) = q
  BY <1>1, RunsAre DEF FixedOK, RunsOK
<1>3. Range(q) = DOMAIN fixed.run
  <2>1. q \in Seq(DOMAIN fixed.run) /\ \A a \in DOMAIN fixed.run : \E i \in DOMAIN q : q[i] = a
    BY <1>1 DEF InRuns
  <2> QED
    BY <2>1 DEF Range
<1>4. FreeEntries(fixed) = FreeOf(fixed)
  BY <1>2, <1>3 DEF FreeEntries, FreeOf
<1>5. \A a \in DOMAIN fixed.run : fixed.run[a].adjacent + 1 <= Capacity
  <2>1. ASSUME NEW a \in DOMAIN fixed.run PROVE fixed.run[a].adjacent + 1 <= Capacity
    <3>1. PICK k \in Nat : k + fixed.run[a].adjacent < Capacity
      BY DEF FixedOK, RunsOK
    <3>2. fixed.run[a].adjacent \in Nat
      BY FixedTyped DEF FixedOK, RunsOK
    <3> QED
      BY <3>1, <3>2, CapacityAssumption
  <2> QED
    BY <2>1
<1>6. Cardinality(FreeOf(fixed)) <= n * Capacity
  <2>1. FreeOf(fixed) \in SUBSET Entries(S)
    BY DEF FixedOK, RunsOK
  <2>2. IsFiniteSet(Entries(S)) /\ Cardinality(Entries(S)) <= n * Capacity
    BY EntriesCount
  <2>3. /\ Cardinality(FreeOf(fixed)) <= Cardinality(Entries(S))
        /\ IsFiniteSet(FreeOf(fixed)) /\ Cardinality(Entries(S)) \in Nat
    BY <2>1, <2>2, FS_Subset, FS_CardinalityType
  <2>4. Cardinality(FreeOf(fixed)) \in Nat /\ n * Capacity \in Nat
    BY <2>3, FS_CardinalityType, CapacityAssumption
  <2> QED
    BY <2>2, <2>3, <2>4
<1>7. S \in SUBSET Nat
  OBVIOUS
<1>8. FoldSeq(LAMBDA a, k : k + 1 + fixed.run[a].adjacent, 0, q) = Cardinality(FreeOf(fixed))
  BY <1>1, <1>7, SumOfRuns
<1>9. FixedCheck(fixed, n)
  BY <1>2, <1>3, <1>5, <1>6, <1>8 DEF FixedCheck
<1> QED
  BY <1>4, <1>9 DEF FixedOK, RunsOK

-----------------------------------------------------------------------------
(* What the calls do to the runs.                                          *)

\* A run put before the others.
LEMMA RunPut ==
  ASSUME NEW S \in SUBSET Nat, NEW R \in SUBSET S, NEW fixed, RunsOK(fixed, R),
         NEW s \in S, NEW k \in Nat, NEW m \in Nat, k + m < Capacity,
         Span(s, k, m) \cap FreeOf(fixed) = {},
         NEW f, Slot(f, Entry(s, k), With(fixed.run, Entry(s, k), [next |-> fixed.next, adjacent |-> m]))
  PROVE  RunsOK(f, S) /\ FreeOf(f) = FreeOf(fixed) \cup Span(s, k, m)
<1> DEFINE a == Entry(s, k)
           E == {Entry(s, j) : j \in k .. k + m}
           D == DOMAIN fixed.run
           new == [next |-> fixed.next, adjacent |-> m]
<1>0. fixed \in FixedT /\ s \in Nat /\ a \in Int \X Int /\ a \in E /\ D \in SUBSET (Int \X Int)
  <2>1. k \in k .. k + m
    OBVIOUS
  <2>2. s \in Nat
    OBVIOUS
  <2>3. fixed \in FixedT
    BY DEF RunsOK
  <2> QED
    BY <2>1, <2>2, <2>3, EntryIs, FixedTyped
<1>1. /\ f.next = a
      /\ f.run = With(fixed.run, a, new)
  BY SlotFields
<1> HIDE DEF a
<1>2. /\ DOMAIN f.run = D \cup {a} /\ f.run[a] = new
      /\ \A b \in D \ {a} : f.run[b] = fixed.run[b]
      /\ f.run = [b \in D \cup {a} |-> f.run[b]]
  <2> HIDE DEF new
  <2> QED
    BY <1>1 DEF With
<1>3. new \in RunT /\ new.adjacent = m /\ new.next = fixed.next
  BY <1>0, FixedTyped DEF RunT
<1>4. f \in FixedT
  <2>1. \A b \in D \cup {a} : f.run[b] \in RunT
    BY <1>0, <1>2, <1>3, FixedTyped
  <2>2. f.run \in [D \cup {a} -> RunT] /\ D \cup {a} \in SUBSET (Int \X Int)
    BY <1>0, <1>2, <2>1
  <2>3. a \in (Int \X Int) \cup {Nil} /\ Slot(f, a, f.run)
    BY <1>0, <1>1 DEF a
  <2> QED
    BY <2>2, <2>3, SlotIs
<1>5. RunEntries(f, a) = E
  <2>1. a \in DOMAIN f.run /\ f.run[a].adjacent = m
    BY <1>2, <1>3
  <2>2. RunEntries(f, a) = {Entry(s, j) : j \in k .. k + f.run[a].adjacent}
    BY <1>0, <1>4, <2>1, RunIs DEF a
  <2> QED
    BY <2>1, <2>2
<1>6. \A b \in D : \E t \in R, j \in Nat : b = Entry(t, j) /\ j + fixed.run[b].adjacent < Capacity
  BY DEF RunsOK
<1>14. E \cap FreeOf(fixed) = {}
  BY DEF Span
<1>7. \A b \in D : b \in RunEntries(fixed, b) /\ RunEntries(fixed, b) \in SUBSET FreeOf(fixed)
  <2>1. ASSUME NEW b \in D PROVE b \in RunEntries(fixed, b)
    <3>1. PICK t \in R, j \in Nat : b = Entry(t, j)
      BY <1>6
    <3>2. t \in Nat
      OBVIOUS
    <3> QED
      BY <1>0, <3>1, <3>2, RunIs
  <2> QED
    BY <2>1 DEF FreeOf
<1>8. a \notin D
  BY <1>0, <1>7, <1>14
<1>9. \A b \in D : b # a /\ f.run[b] = fixed.run[b] /\ RunEntries(f, b) = RunEntries(fixed, b)
  BY <1>2, <1>8 DEF RunEntries
<1>10. FreeOf(f) = FreeOf(fixed) \cup E
  <2>1. FreeOf(f) = (UNION {RunEntries(f, b) : b \in D}) \cup RunEntries(f, a)
    BY <1>2 DEF FreeOf
  <2>2. {RunEntries(f, b) : b \in D} = {RunEntries(fixed, b) : b \in D}
    BY <1>9
  <2> QED
    BY <1>5, <2>1, <2>2 DEF FreeOf
<1>11. Apart(f)
  <2>1. ASSUME NEW b \in D, NEW c \in D, b # c PROVE RunEntries(f, b) \cap RunEntries(f, c) = {}
    BY <1>9, <2>1 DEF RunsOK, Apart
  <2>2. ASSUME NEW b \in D PROVE RunEntries(f, b) \cap E = {}
    BY <1>7, <1>9, <1>14
  <2> QED
    BY <1>2, <1>5, <2>1, <2>2 DEF Apart
<1>12. \A b \in DOMAIN f.run : \E t \in S, j \in Nat : b = Entry(t, j) /\ j + f.run[b].adjacent < Capacity
  <2>1. ASSUME NEW b \in D PROVE \E t \in S, j \in Nat : b = Entry(t, j) /\ j + f.run[b].adjacent < Capacity
    BY <1>6, <1>9
  <2>2. a = Entry(s, k) /\ k + f.run[a].adjacent < Capacity
    BY <1>2, <1>3 DEF a
  <2> QED
    BY <1>2, <2>1, <2>2
<1>13. \E p : InRuns(f, p)
  <2>1. PICK q : InRuns(fixed, q)
    BY SMTT(60) DEF RunsOK
  <2> DEFINE n == Len(q)
             p == <<a>> \o q
  <2>2. /\ q \in Seq(D) /\ n \in Nat /\ DOMAIN q = 1 .. n /\ Len(q) = n
        /\ \A x \in 1 .. n : q[x] \in D
        /\ \A x, y \in 1 .. n : q[x] = q[y] => x = y
        /\ \A b \in D : \E x \in 1 .. n : q[x] = b
        /\ fixed.next = IF q = <<>> THEN Nil ELSE q[1]
        /\ \A x \in 1 .. n : fixed.run[q[x]].next = IF x = n THEN Nil ELSE q[x + 1]
    <3>1. q \in Seq(D) /\ n \in Nat /\ DOMAIN q = 1 .. n
      BY <2>1 DEF InRuns
    <3>2. \A x \in 1 .. n : q[x] \in D
      BY <3>1
    <3> QED
      BY <2>1, <3>1, <3>2 DEF InRuns
  <2> HIDE DEF n, D
  <2>3. /\ p \in Seq(D \cup {a}) /\ Len(p) = n + 1 /\ DOMAIN p = 1 .. n + 1 /\ p[1] = a
        /\ \A x \in 2 .. n + 1 : p[x] = q[x - 1]
        /\ p # <<>>
    <3>1. <<a>> \in Seq(D \cup {a}) /\ q \in Seq(D \cup {a})
      BY <2>2
    <3> QED
      BY <2>2, <3>1
  <2> HIDE DEF p
  <2>4. \A x, y \in DOMAIN p : p[x] = p[y] => x = y
    <3>1. ASSUME NEW x \in 1 .. n + 1, NEW y \in 1 .. n + 1, p[x] = p[y] PROVE x = y
      <4>1. \A z \in 2 .. n + 1 : z - 1 \in 1 .. n /\ q[z - 1] \in D
        BY <2>2
      <4>2. CASE x = 1 \/ y = 1
        BY <1>8, <2>2, <2>3, <3>1, <4>1, <4>2
      <4>3. CASE x # 1 /\ y # 1
        <5>1. x \in 2 .. n + 1 /\ y \in 2 .. n + 1
          BY <2>2, <4>3
        <5>2. x - 1 = y - 1
          BY <2>2, <2>3, <3>1, <4>1, <5>1
        <5> QED
          BY <5>1, <5>2
      <4> QED
        BY <4>2, <4>3
    <3> QED
      BY <2>3, <3>1
  <2>5. \A b \in D \cup {a} : \E x \in DOMAIN p : p[x] = b
    <3>1. ASSUME NEW b \in D PROVE \E x \in 1 .. n + 1 : p[x] = b
      <4>1. PICK x \in 1 .. n : q[x] = b
        BY <2>2
      <4>2. x + 1 \in 2 .. n + 1 /\ (x + 1) - 1 = x /\ x + 1 \in 1 .. n + 1
        BY <2>2
      <4> QED
        BY <2>3, <4>1, <4>2
    <3>2. 1 \in 1 .. n + 1
      BY <2>2
    <3> QED
      BY <2>3, <3>1, <3>2
  <2>6. \A x \in DOMAIN p : f.run[p[x]].next = IF x = Len(p) THEN Nil ELSE p[x + 1]
    <3>1. CASE n = 0
      <4>1. q = <<>>
        BY <2>2, <3>1
      <4> QED
        BY <1>2, <1>3, <2>2, <2>3, <3>1, <4>1
    <3>2. CASE n # 0
      <4>1. f.run[p[1]].next = q[1] /\ p[2] = q[1] /\ 1 # n + 1
        <5>1. q # <<>> /\ 2 \in 2 .. n + 1 /\ 2 - 1 = 1
          BY <2>2, <3>2
        <5> QED
          <6>1. f.run[p[1]].next = q[1]
            BY <1>2, <1>3, <2>2, <2>3, <5>1
          <6>2. p[2] = q[1] /\ 1 # n + 1
            BY <2>2, <2>3, <3>2, <5>1
          <6> QED
            BY <6>1, <6>2
      <4>2. ASSUME NEW x \in 2 .. n + 1 PROVE f.run[p[x]].next = IF x = n + 1 THEN Nil ELSE p[x + 1]
        <5>1. p[x] = q[x - 1] /\ x - 1 \in 1 .. n /\ q[x - 1] \in D
          BY <2>2, <2>3
        <5>2. f.run[p[x]].next = IF x - 1 = n THEN Nil ELSE q[(x - 1) + 1]
          <6>1. f.run[p[x]] = fixed.run[q[x - 1]]
            BY <1>9, <5>1
          <6> QED
            BY <2>2, <5>1, <6>1
        <5>3. CASE x = n + 1
          BY <2>2, <5>2, <5>3
        <5>4. CASE x # n + 1
          <6>1. x + 1 \in 2 .. n + 1 /\ (x + 1) - 1 = (x - 1) + 1 /\ x - 1 # n
            BY <2>2, <5>4
          <6> QED
            BY <2>3, <5>2, <5>4, <6>1
        <5> QED
          BY <5>3, <5>4
      <4> QED
        <5>1. ASSUME NEW x \in 1 .. n + 1, x # 1 PROVE x \in 2 .. n + 1
          BY <2>2, <5>1
        <5>2. 1 + 1 = 2
          OBVIOUS
        <5> QED
          BY <2>3, <4>1, <4>2, <5>1, <5>2
    <3> QED
      BY <3>1, <3>2
  <2>7. InRuns(f, p)
    BY <1>1, <1>2, <2>3, <2>4, <2>5, <2>6 DEF InRuns
  <2> QED
    BY <2>7
<1> QED
  BY <1>4, <1>10, <1>11, <1>12, <1>13 DEF RunsOK, Span

\* The last entry of the first run.
LEMMA RunShorter ==
  ASSUME NEW S \in SUBSET Nat, NEW fixed, RunsOK(fixed, S), NEW a \in DOMAIN fixed.run,
         fixed.run[a].adjacent > 0, NEW f,
         Slot(f, fixed.next, Shorter(fixed.run, a))
  PROVE  /\ RunsOK(f, S)
         /\ FreeOf(f) = FreeOf(fixed) \ {Shift(a, EntrySize * fixed.run[a].adjacent)}
         /\ FreeOf(fixed) = FreeOf(f) \cup {Shift(a, EntrySize * fixed.run[a].adjacent)}
<1> DEFINE D == DOMAIN fixed.run
           m == fixed.run[a].adjacent
           at == Shift(a, EntrySize * m)
<1>0. fixed \in FixedT /\ m \in Nat /\ m > 0 /\ a \in D
  BY FixedTyped DEF RunsOK
<1>1. PICK s \in S, k \in Nat : a = Entry(s, k) /\ k + m < Capacity
  BY DEF RunsOK
<1>2. s \in Nat
  OBVIOUS
<1>3. /\ f.next = fixed.next /\ f.run = [fixed.run EXCEPT ![a].adjacent = m - 1]
      /\ f.run = Shorter(fixed.run, a)
  BY SlotFields DEF Shorter
<1>4. /\ DOMAIN f.run = D /\ f.run[a] = [next |-> fixed.run[a].next, adjacent |-> m - 1]
      /\ \A b \in D \ {a} : f.run[b] = fixed.run[b]
      /\ f.run = [b \in D |-> f.run[b]]
      /\ \A b \in D : f.run[b].next = fixed.run[b].next
  <2>1. fixed.run = [b \in D |-> fixed.run[b]] /\ fixed.run[a] \in RunT
    BY <1>0, FixedTyped
  <2>2. fixed.run[a] = [next |-> fixed.run[a].next, adjacent |-> m]
    BY <2>1 DEF RunT
  <2>3. [fixed.run[a] EXCEPT !.adjacent = m - 1] = [next |-> fixed.run[a].next, adjacent |-> m - 1]
    BY <2>2
  <2>4. f.run = [b \in D |-> IF b = a THEN [next |-> fixed.run[a].next, adjacent |-> m - 1] ELSE fixed.run[b]]
    BY <1>0, <1>3, <2>1, <2>3
  <2> QED
    BY <1>0, <2>4
<1>5. f \in FixedT
  <2>1. \A b \in D : f.run[b] \in RunT
    <3>1. f.run[a] \in RunT
      <4>0. fixed.run[a] \in RunT
        BY <1>0, FixedTyped
      <4>1. fixed.run[a].next \in (Int \X Int) \cup {Nil} /\ m - 1 \in Nat
        BY <1>0, <4>0 DEF RunT
      <4> QED
        BY <1>4, <4>1 DEF RunT
    <3>2. \A b \in D \ {a} : f.run[b] \in RunT
      BY <1>0, <1>4, FixedTyped
    <3> QED
      BY <3>1, <3>2
  <2>2. f.run \in [D -> RunT]
    BY <1>4, <2>1
  <2>3. D \in SUBSET (Int \X Int) /\ f.next \in (Int \X Int) \cup {Nil}
    BY <1>0, <1>3, FixedTyped
  <2>4. Slot(f, f.next, f.run)
    BY <1>3
  <2> QED
    BY <2>2, <2>3, <2>4, SlotIs
<1>6. at = Entry(s, k + m)
  <2>1. \A j \in Nat : Shift(Entry(s, k), EntrySize * j) = Entry(s, k + j)
    BY <1>2, EntryIs
  <2> QED
    BY <1>0, <1>1, <2>1
<1>7. /\ RunEntries(fixed, a) = {Entry(s, j) : j \in k .. k + m}
      /\ RunEntries(f, a) = {Entry(s, j) : j \in k .. k + (m - 1)}
  <2>1. RunEntries(fixed, a) = {Entry(s, j) : j \in k .. k + m}
    BY <1>0, <1>1, <1>2, RunIs
  <2>2. a \in DOMAIN f.run /\ f.run[a].adjacent = m - 1
    BY <1>0, <1>4
  <2>3. RunEntries(f, a) = {Entry(s, j) : j \in k .. k + f.run[a].adjacent}
    <3>1. ASSUME NEW g \in FixedT, a \in DOMAIN g.run
          PROVE  RunEntries(g, a) = {Entry(s, j) : j \in k .. k + g.run[a].adjacent}
      BY <1>1, <1>2, <3>1, RunIs
    <3> QED
      BY <1>5, <2>2, <3>1
  <2> QED
    BY <2>1, <2>2, <2>3
<1>8. RunEntries(f, a) = RunEntries(fixed, a) \ {at} /\ at \in RunEntries(fixed, a)
  <2>1. \A j \in k .. k + m : Entry(s, j) = Entry(s, k + m) => j = k + m
    <3>1. ASSUME NEW j \in k .. k + m, Entry(s, j) = Entry(s, k + m) PROVE j = k + m
      <4>1. j \in Nat /\ k + m \in Nat
        BY <1>0
      <4> QED
        <5> HIDE DEF m, at
        <5> QED
          BY <1>2, <3>1, <4>1, EntryIs
    <3> QED
      BY <3>1
  <2>2. /\ k + m \in k .. k + m
        /\ \A j \in k .. k + m : j # k + m => j \in k .. k + (m - 1)
        /\ \A j \in k .. k + (m - 1) : j # k + m /\ j \in k .. k + m
    BY <1>0
  <2> HIDE DEF m, at
  <2>3. ASSUME NEW x \in RunEntries(f, a) PROVE x \in RunEntries(fixed, a) \ {at}
    <3>1. PICK j \in k .. k + (m - 1) : x = Entry(s, j)
      BY <1>7
    <3> QED
      BY <1>6, <1>7, <2>1, <2>2, <3>1
  <2>4. ASSUME NEW x \in RunEntries(fixed, a) \ {at} PROVE x \in RunEntries(f, a)
    <3>1. PICK j \in k .. k + m : x = Entry(s, j)
      BY <1>7
    <3> QED
      BY <1>6, <1>7, <2>1, <2>2, <3>1
  <2>5. at \in RunEntries(fixed, a)
    BY <1>6, <1>7, <2>2
  <2> QED
    BY <2>3, <2>4, <2>5
<1>9. \A b \in D : b # a => RunEntries(f, b) = RunEntries(fixed, b)
  BY <1>4 DEF RunEntries
<1>10. \A b, c \in D : b # c => RunEntries(fixed, b) \cap RunEntries(fixed, c) = {}
  BY DEF RunsOK, Apart
<1> HIDE DEF at, m
<1>11. Apart(f)
  <2>1. \A b \in D : RunEntries(f, b) \in SUBSET RunEntries(fixed, b)
    BY <1>8, <1>9
  <2> QED
    BY <1>4, <1>10, <2>1 DEF Apart
<1>12. FreeOf(f) = FreeOf(fixed) \ {at} /\ at \in FreeOf(fixed)
  <2>1. ASSUME NEW x PROVE x \in FreeOf(f) <=> x \in FreeOf(fixed) \ {at}
    <3>1. x \in FreeOf(f) <=> \E b \in D : x \in RunEntries(f, b)
      BY <1>4 DEF FreeOf
    <3>2. x \in FreeOf(fixed) <=> \E b \in D : x \in RunEntries(fixed, b)
      BY DEF FreeOf
    <3>3. \A b \in D : b # a => at \notin RunEntries(fixed, b)
      BY <1>0, <1>8, <1>10
    <3>4. \A b \in D : x \in RunEntries(f, b) <=> x \in RunEntries(fixed, b) /\ x # at
      BY <1>8, <1>9, <3>3
    <3> QED
      BY <3>1, <3>2, <3>4
  <2> QED
    BY <1>0, <1>8, <2>1 DEF FreeOf
<1>13. \A b \in DOMAIN f.run : \E t \in S, j \in Nat : b = Entry(t, j) /\ j + f.run[b].adjacent < Capacity
  <2>1. a = Entry(s, k) /\ k + f.run[a].adjacent < Capacity
    BY <1>0, <1>1, <1>4, CapacityAssumption
  <2>2. ASSUME NEW b \in D, b # a PROVE \E t \in S, j \in Nat : b = Entry(t, j) /\ j + f.run[b].adjacent < Capacity
    BY <1>4, <2>2 DEF RunsOK
  <2> QED
    BY <1>4, <2>1, <2>2
<1>14. \E q : InRuns(f, q)
  <2>1. PICK q : InRuns(fixed, q)
    BY DEF RunsOK
  <2>2. \A j \in DOMAIN q : q[j] \in D
    BY <2>1 DEF InRuns
  <2>3. InRuns(f, q)
    BY <1>3, <1>4, <2>1, <2>2 DEF InRuns
  <2> QED
    BY <2>3
<1> QED
  BY <1>5, <1>11, <1>12, <1>13, <1>14 DEF RunsOK, at, m

\* The first run, when it is one entry.
LEMMA RunGone ==
  ASSUME NEW S \in SUBSET Nat, NEW fixed, RunsOK(fixed, S), fixed.next # Nil,
         fixed.run[fixed.next].adjacent = 0, NEW f,
         Slot(f, fixed.run[fixed.next].next, Restrict(fixed.run, DOMAIN fixed.run \ {fixed.next}))
  PROVE  RunsOK(f, S) /\ FreeOf(f) = FreeOf(fixed) \ {fixed.next} /\ fixed.next \in FreeOf(fixed)
<1> DEFINE a == fixed.next
           D == DOMAIN fixed.run
           E == D \ {a}
<1>0. fixed \in FixedT /\ D \in SUBSET (Int \X Int)
  BY FixedTyped DEF RunsOK
<1>1. PICK q : InRuns(fixed, q)
  BY DEF RunsOK
<1> DEFINE n == Len(q)
<1>2. /\ q \in Seq(D) /\ n \in Nat /\ DOMAIN q = 1 .. n /\ Len(q) = n
      /\ \A x \in 1 .. n : q[x] \in D
      /\ \A x, y \in 1 .. n : q[x] = q[y] => x = y
      /\ \A b \in D : \E x \in 1 .. n : q[x] = b
      /\ \A x \in 1 .. n : fixed.run[q[x]].next = IF x = n THEN Nil ELSE q[x + 1]
      /\ q # <<>> /\ n > 0 /\ a = q[1]
  <2>1. q \in Seq(D) /\ n \in Nat /\ DOMAIN q = 1 .. n
    BY <1>1 DEF InRuns
  <2>2. \A x \in 1 .. n : q[x] \in D
    BY <2>1
  <2>3. q # <<>> /\ a = q[1]
    BY <1>1 DEF InRuns
  <2>4. n > 0
    BY <2>1, <2>3
  <2> QED
    BY <1>1, <2>1, <2>2, <2>3, <2>4, ZenonT(90) DEF InRuns
<1> HIDE DEF n, D
<1>3. a \in D /\ 1 \in 1 .. n
  BY <1>2
<1>4. f.next = fixed.run[a].next /\ f.run = [b \in E |-> fixed.run[b]]
  BY SlotFields DEF Restrict, D
<1>5. DOMAIN f.run = E /\ \A b \in E : f.run[b] = fixed.run[b]
  BY <1>4
<1>6. f \in FixedT
  <2>1. \A b \in D : fixed.run[b] \in RunT
    BY <1>0, FixedTyped DEF D
  <2>2. f.run \in [E -> RunT]
    BY <1>4, <2>1
  <2>3. E \in SUBSET (Int \X Int) /\ f.next \in (Int \X Int) \cup {Nil}
    <3>1. fixed.run[a].next \in (Int \X Int) \cup {Nil}
      BY <1>3, <2>1 DEF RunT
    <3> QED
      BY <1>0, <1>4, <3>1
  <2>4. Slot(f, f.next, f.run)
    BY SlotFields
  <2> QED
    BY <2>2, <2>3, <2>4, SlotIs
<1>7. \A b \in E : RunEntries(f, b) = RunEntries(fixed, b)
  BY <1>5 DEF RunEntries
<1>8. \A b, c \in D : b # c => RunEntries(fixed, b) \cap RunEntries(fixed, c) = {}
  BY DEF RunsOK, Apart, D
<1>9. Apart(f)
  BY <1>5, <1>7, <1>8 DEF Apart
<1>10. RunEntries(fixed, a) = {a}
  <2>1. PICK s \in S, k \in Nat : a = Entry(s, k)
    BY <1>3 DEF RunsOK, D
  <2>2. s \in Nat
    OBVIOUS
  <2>3. RunEntries(fixed, a) = {Entry(s, j) : j \in k .. k + fixed.run[a].adjacent}
    BY <1>0, <1>3, <2>1, <2>2, RunIs, SMTT(60) DEF D
  <2>4. \A j : j \in k .. k + 0 <=> j = k
    OBVIOUS
  <2> QED
    BY <2>1, <2>3, <2>4
<1> HIDE DEF a
<1>11. FreeOf(f) = FreeOf(fixed) \ {a} /\ a \in FreeOf(fixed)
  <2>1. ASSUME NEW x PROVE x \in FreeOf(f) <=> x \in FreeOf(fixed) \ {a}
    <3>1. x \in FreeOf(f) <=> \E b \in E : x \in RunEntries(fixed, b)
      BY <1>5, <1>7 DEF FreeOf
    <3>2. x \in FreeOf(fixed) <=> \E b \in D : x \in RunEntries(fixed, b)
      BY DEF FreeOf, D
    <3>3. \A b \in E : a \notin RunEntries(fixed, b)
      BY <1>3, <1>8, <1>10
    <3>4. x \in RunEntries(fixed, a) <=> x = a
      BY <1>10
    <3> QED
      BY <1>3, <3>1, <3>2, <3>3, <3>4
  <2>2. a \in FreeOf(fixed)
    BY <1>3, <1>10 DEF FreeOf, D
  <2> QED
    BY <2>1, <2>2
<1>12. \A b \in DOMAIN f.run : \E t \in S, j \in Nat : b = Entry(t, j) /\ j + f.run[b].adjacent < Capacity
  BY <1>5 DEF RunsOK, D
<1> DEFINE p == Tail(q)
<1>13. InRuns(f, p)
  <2>1. /\ p \in Seq(D) /\ Len(p) = n - 1 /\ DOMAIN p = 1 .. n - 1
        /\ \A x \in 1 .. n - 1 : p[x] = q[x + 1]
    <3>1. p \in Seq(D) /\ Len(p) = n - 1 /\ \A x \in 1 .. Len(p) : p[x] = q[x + 1]
      BY <1>2, HeadTailProperties
    <3> QED
      BY <3>1
  <2> HIDE DEF p
  <2>2. \A x \in 1 .. n - 1 : x + 1 \in 1 .. n /\ x + 1 # 1
    BY <1>2
  <2>3. \A x \in 1 .. n - 1 : p[x] \in E
    BY <1>2, <1>3, <2>1, <2>2
  <2>4. p \in Seq(E)
    <3>1. p = [x \in 1 .. n - 1 |-> p[x]] /\ n - 1 \in Nat
      BY <1>2, <2>1
    <3>2. p \in [1 .. n - 1 -> E]
      BY <2>3, <3>1
    <3> QED
      BY <3>1, <3>2
  <2>5. \A x, y \in 1 .. n - 1 : p[x] = p[y] => x = y
    BY <1>2, <2>1, <2>2
  <2>6. ASSUME NEW b \in E PROVE \E x \in 1 .. n - 1 : p[x] = b
    <3>1. PICK y \in 1 .. n : q[y] = b
      BY <1>2
    <3>2. y # 1
      BY <1>2, <3>1
    <3>3. y - 1 \in 1 .. n - 1 /\ (y - 1) + 1 = y
      BY <1>2, <3>2
    <3> QED
      BY <2>1, <3>1, <3>3
  <2>7. f.next = IF p = <<>> THEN Nil ELSE p[1]
    <3>1. f.next = IF 1 = n THEN Nil ELSE q[1 + 1]
      BY <1>2, <1>3, <1>4
    <3>2. p = <<>> <=> n = 1
      BY <1>2, <2>1
    <3>3. n # 1 => p[1] = q[1 + 1]
      <4>1. n # 1 => 1 \in 1 .. n - 1
        BY <1>2
      <4> QED
        BY <2>1, <4>1
    <3> QED
      BY <3>1, <3>2, <3>3
  <2>8. ASSUME NEW x \in 1 .. n - 1 PROVE f.run[p[x]].next = IF x = n - 1 THEN Nil ELSE p[x + 1]
    <3>1. f.run[p[x]].next = IF x + 1 = n THEN Nil ELSE q[(x + 1) + 1]
      <4>1. p[x] = q[x + 1] /\ x + 1 \in 1 .. n /\ f.run[p[x]] = fixed.run[p[x]]
        BY <1>5, <2>1, <2>2, <2>3
      <4> QED
        BY <1>2, <4>1
    <3>2. x = n - 1 <=> x + 1 = n
      BY <1>2
    <3>3. x # n - 1 => x + 1 \in 1 .. n - 1
      BY <1>2
    <3> QED
      BY <2>1, <3>1, <3>2, <3>3
  <2> QED
    <3>1. \A x \in DOMAIN p : f.run[p[x]].next = IF x = Len(p) THEN Nil ELSE p[x + 1]
      BY <2>1, <2>8
    <3>2. \A x, y \in DOMAIN p : p[x] = p[y] => x = y
      BY <2>1, <2>5
    <3>3. \A b \in DOMAIN f.run : \E x \in DOMAIN p : p[x] = b
      BY <1>5, <2>1, <2>6
    <3> QED
      BY <1>5, <2>4, <2>7, <3>1, <3>2, <3>3 DEF InRuns
<1> QED
  BY <1>6, <1>9, <1>11, <1>12, <1>13 DEF RunsOK, a

-----------------------------------------------------------------------------
\* An entry is taken.
LEMMA TakeKeeps ==
  ASSUME NEW m \in Nat, NEW S \in SUBSET (0 .. m - 1), NEW fixed, NEW nodes,
         FixedOK(fixed, S, nodes), fixed.next # Nil
  PROVE  FixedOK(TakeEntry(fixed).fixed, S, nodes \cup {TakeEntry(fixed).at})
<1> DEFINE a == fixed.next
           at == TakeEntry(fixed).at
           f == TakeEntry(fixed).fixed
           Free == FreeOf(fixed)
<1>0. S \in SUBSET Nat /\ RunsOK(fixed, S) /\ fixed \in FixedT
  BY DEF FixedOK, RunsOK
<1>1. a \in DOMAIN fixed.run
  <2>1. PICK q : InRuns(fixed, q)
    BY <1>0 DEF RunsOK
  <2>2. q \in Seq(DOMAIN fixed.run) /\ q # <<>> /\ a = q[1]
    BY <2>1 DEF InRuns
  <2> QED
    BY <2>2
<1>2. fixed.run[a].adjacent \in Nat /\ fixed.inFree \in Int /\ fixed.inAlloc \in Int
  BY <1>0, <1>1, FixedTyped
<1>3. /\ RunsOK(f, S) /\ FreeOf(f) = Free \ {at} /\ at \in Free
      /\ f.inFree = fixed.inFree - 1 /\ f.inAlloc = fixed.inAlloc + 1
  <2>0. fixed = [next |-> a, inFree |-> fixed.inFree, inAlloc |-> fixed.inAlloc, run |-> fixed.run]
    BY <1>0, FixedRecord
  <2>1. CASE fixed.run[a].adjacent > 0
    <3>1. /\ at = Shift(a, EntrySize * fixed.run[a].adjacent)
          /\ f = [fixed EXCEPT !.run[a].adjacent = @ - 1, !.inFree = @ - 1, !.inAlloc = @ + 1]
      BY <2>1 DEF TakeEntry
    <3> HIDE DEF f, at
    <3>2. f = [next |-> a, inFree |-> fixed.inFree - 1, inAlloc |-> fixed.inAlloc + 1,
               run |-> [fixed.run EXCEPT ![a].adjacent = @ - 1]]
      BY <2>0, <3>1
    <3>3. /\ f.inFree = fixed.inFree - 1 /\ f.inAlloc = fixed.inAlloc + 1
          /\ Slot(f, a, Shorter(fixed.run, a))
      BY <1>2, <3>2 DEF Slot, Shorter
    <3> QED
      <4>1. ASSUME NEW b \in DOMAIN fixed.run, fixed.run[b].adjacent > 0, NEW g,
                   Slot(g, fixed.next, Shorter(fixed.run, b))
            PROVE  /\ RunsOK(g, S)
                   /\ FreeOf(g) = FreeOf(fixed) \ {Shift(b, EntrySize * fixed.run[b].adjacent)}
                   /\ FreeOf(fixed) = FreeOf(g) \cup {Shift(b, EntrySize * fixed.run[b].adjacent)}
        BY <1>0, <4>1, RunShorter
      <4>2. /\ RunsOK(f, S)
            /\ FreeOf(f) = FreeOf(fixed) \ {Shift(a, EntrySize * fixed.run[a].adjacent)}
            /\ FreeOf(fixed) = FreeOf(f) \cup {Shift(a, EntrySize * fixed.run[a].adjacent)}
        BY <1>1, <2>1, <3>3, <4>1
      <4> QED
        BY <3>1, <3>3, <4>2
  <2>2. CASE fixed.run[a].adjacent = 0
    <3>1. ~(fixed.run[a].adjacent > 0)
      BY <2>2
    <3>2. /\ at = a
          /\ f = [fixed EXCEPT !.next = fixed.run[a].next, !.run = Restrict(@, DOMAIN @ \ {a}),
                              !.inFree = @ - 1, !.inAlloc = @ + 1]
      BY <3>1 DEF TakeEntry
    <3> HIDE DEF f, at
    <3>3. f = [next |-> fixed.run[a].next, inFree |-> fixed.inFree - 1, inAlloc |-> fixed.inAlloc + 1,
               run |-> Restrict(fixed.run, DOMAIN fixed.run \ {a})]
      BY <2>0, <3>2
    <3>4. /\ f.inFree = fixed.inFree - 1 /\ f.inAlloc = fixed.inAlloc + 1
          /\ Slot(f, fixed.run[a].next, Restrict(fixed.run, DOMAIN fixed.run \ {a}))
      BY <1>2, <3>3 DEF Slot
    <3> QED
      BY <1>0, <2>2, <3>2, <3>4, RunGone
  <2> QED
    BY <1>2, <2>1, <2>2
<1> HIDE DEF f, at
<1>4. IsFiniteSet(Free) /\ IsFiniteSet(nodes) /\ at \notin nodes
  <2>1. Free \in SUBSET Entries(S) /\ nodes \in SUBSET Entries(S) /\ Free \cap nodes = {}
    BY DEF FixedOK
  <2> QED
    BY <1>3, <2>1, EntriesCount, FS_Subset
<1>5. Cardinality(FreeOf(f)) = Cardinality(Free) - 1 /\ Cardinality(nodes \cup {at}) = Cardinality(nodes) + 1
  BY <1>3, <1>4, FS_AddElement, FS_RemoveElement, ZenonT(90)
<1>6. FreeOf(f) \cup (nodes \cup {at}) = Entries(S) /\ FreeOf(f) \cap (nodes \cup {at}) = {}
  BY <1>3 DEF FixedOK
<1>7. FixedOK(f, S, nodes \cup {at})
  BY <1>3, <1>5, <1>6 DEF FixedOK
<1> QED
  BY <1>7 DEF f, at

\* An entry is given back.
LEMMA GiveKeeps ==
  ASSUME NEW m \in Nat, NEW S \in SUBSET (0 .. m - 1), NEW fixed, NEW nodes,
         FixedOK(fixed, S, nodes), NEW a \in nodes
  PROVE  FixedOK(FixedDeallocate(fixed, a), S, nodes \ {a})
<1> DEFINE f == FixedDeallocate(fixed, a)
           Free == FreeOf(fixed)
<1>0. /\ S \in SUBSET Nat /\ RunsOK(fixed, S) /\ fixed \in FixedT
      /\ Free \cup nodes = Entries(S) /\ Free \cap nodes = {}
      /\ fixed.inFree \in Int /\ fixed.inAlloc \in Int
  <2>1. S \in SUBSET Nat
    OBVIOUS
  <2>2. RunsOK(fixed, S) /\ fixed \in FixedT
    BY DEF FixedOK, RunsOK
  <2> QED
    BY <2>1, <2>2, FixedTyped DEF FixedOK
<1>1. PICK s \in S, k \in 0 .. Capacity - 1 : a = Entry(s, k)
  BY <1>0 DEF Entries
<1>2. k \in Nat /\ k + 0 < Capacity /\ \A j : j \in k .. k + 0 <=> j = k
  BY CapacityAssumption
<1>3. Span(s, k, 0) = {a}
  BY <1>1, <1>2 DEF Span
<1>4. Span(s, k, 0) \cap Free = {}
  BY <1>0, <1>3
<1>5. f = [fixed EXCEPT !.next = a, !.inFree = @ + 1, !.inAlloc = @ - 1,
                        !.run = With(@, a, [next |-> fixed.next, adjacent |-> 0])]
  BY DEF FixedDeallocate
<1> HIDE DEF f
<1>6. f = [next |-> a, inFree |-> fixed.inFree + 1, inAlloc |-> fixed.inAlloc - 1,
           run |-> With(fixed.run, a, [next |-> fixed.next, adjacent |-> 0])]
  <2>1. fixed = [next |-> fixed.next, inFree |-> fixed.inFree, inAlloc |-> fixed.inAlloc, run |-> fixed.run]
    BY <1>0, FixedRecord
  <2> QED
    BY <1>5, <2>1
<1>7. /\ f.inFree = fixed.inFree + 1 /\ f.inAlloc = fixed.inAlloc - 1
      /\ Slot(f, a, With(fixed.run, a, [next |-> fixed.next, adjacent |-> 0]))
  BY <1>0, <1>6 DEF Slot
<1>8. RunsOK(f, S) /\ FreeOf(f) = Free \cup {a}
  <2>1. S \in SUBSET S /\ 0 \in Nat
    OBVIOUS
  <2>2. RunsOK(f, S) /\ FreeOf(f) = Free \cup Span(s, k, 0)
    BY <1>0, <1>1, <1>2, <1>4, <1>7, <2>1, RunPut
  <2> QED
    BY <1>3, <2>2
<1>9. IsFiniteSet(Free) /\ IsFiniteSet(nodes) /\ a \notin Free
  <2>1. Free \in SUBSET Entries(S) /\ nodes \in SUBSET Entries(S)
    BY <1>0
  <2> QED
    BY <1>0, <2>1, EntriesCount, FS_Subset
<1>10. Cardinality(FreeOf(f)) = Cardinality(Free) + 1 /\ Cardinality(nodes \ {a}) = Cardinality(nodes) - 1
  BY <1>8, <1>9, FS_AddElement, FS_RemoveElement, ZenonT(90)
<1>11. FreeOf(f) \cup (nodes \ {a}) = Entries(S) /\ FreeOf(f) \cap (nodes \ {a}) = {}
  BY <1>0, <1>8
<1>12. FixedOK(f, S, nodes \ {a})
  BY <1>7, <1>8, <1>10, <1>11 DEF FixedOK
<1> QED
  BY <1>12 DEF f

\* A segment is added.
LEMMA SegmentKeeps ==
  ASSUME NEW m \in Nat, NEW S \in SUBSET (0 .. m - 1), NEW fixed, NEW nodes,
         FixedOK(fixed, S, nodes)
  PROVE  /\ FixedOK(FixedOnNewSegment(fixed, m, Layout(m).fixed), S \cup {m}, nodes)
         /\ FixedOnNewSegment(fixed, m, Layout(m).fixed).next # Nil
<1> DEFINE f == FixedOnNewSegment(fixed, m, Layout(m).fixed)
           Free == FreeOf(fixed)
           E == Span(m, 0, Capacity - 1)
           R == S \cup {m}
<1>0. /\ S \in SUBSET Nat /\ R \in SUBSET Nat /\ m \notin S /\ RunsOK(fixed, S) /\ fixed \in FixedT
      /\ Free \cup nodes = Entries(S) /\ Free \cap nodes = {}
      /\ fixed.inFree \in Int /\ fixed.inAlloc \in Int
  <2>1. S \in SUBSET Nat /\ R \in SUBSET Nat /\ m \notin S
    OBVIOUS
  <2>2. RunsOK(fixed, S) /\ fixed \in FixedT
    BY DEF FixedOK, RunsOK
  <2> QED
    BY <2>1, <2>2, FixedTyped DEF FixedOK
<1>1. Capacity - 1 \in Nat /\ 0 + (Capacity - 1) < Capacity /\ 0 + (Capacity - 1) = Capacity - 1
      /\ fixed.inFree + Capacity \in Int
  BY <1>0, CapacityAssumption
<1>2. Entries(R) = Entries(S) \cup E /\ Entries(S) \cap E = {}
  <2>1. Entries(R) = Entries(S) \cup E
    BY <1>1 DEF Entries, Span
  <2>2. ASSUME NEW s \in S, NEW k \in 0 .. Capacity - 1, NEW j \in 0 .. Capacity - 1 PROVE Entry(s, k) # Entry(m, j)
    <3>1. k \in Nat /\ j \in Nat /\ s \in Nat /\ s # m
      BY <1>0, <1>1
    <3> QED
      BY <3>1, EntryIs
  <2>3. Entries(S) \cap E = {}
    BY <1>1, <2>2 DEF Entries, Span
  <2> QED
    BY <2>1, <2>3
<1>3. E \cap Free = {}
  BY <1>0, <1>2
<1>4. f = [fixed EXCEPT !.next = Entry(m, 0), !.inFree = @ + Capacity,
                        !.run = With(@, Entry(m, 0), [next |-> fixed.next, adjacent |-> Capacity - 1])]
  <2>1. Entry(m, 0) = <<m, BlocksBegin(m, Layout(m).fixed)>>
    BY EntryIs
  <2> QED
    BY <2>1 DEF FixedOnNewSegment
<1> HIDE DEF f
<1>5. f = [next |-> Entry(m, 0), inFree |-> fixed.inFree + Capacity, inAlloc |-> fixed.inAlloc,
           run |-> With(fixed.run, Entry(m, 0), [next |-> fixed.next, adjacent |-> Capacity - 1])]
  <2>1. fixed = [next |-> fixed.next, inFree |-> fixed.inFree, inAlloc |-> fixed.inAlloc, run |-> fixed.run]
    BY <1>0, FixedRecord
  <2> QED
    BY <1>4, <2>1
<1>13. /\ f.inFree = fixed.inFree + Capacity /\ f.inAlloc = fixed.inAlloc /\ f.next = Entry(m, 0)
       /\ Slot(f, Entry(m, 0), With(fixed.run, Entry(m, 0), [next |-> fixed.next, adjacent |-> Capacity - 1]))
  BY <1>0, <1>1, <1>5 DEF Slot
<1>6. RunsOK(f, R) /\ FreeOf(f) = Free \cup E
  <2>1. S \in SUBSET R /\ m \in R /\ 0 \in Nat
    OBVIOUS
  <2> HIDE DEF R
  <2>2. PICK c \in Nat : c = Capacity - 1
    BY <1>1
  <2>3. /\ 0 + c < Capacity /\ Span(m, 0, c) \cap FreeOf(fixed) = {}
        /\ Slot(f, Entry(m, 0), With(fixed.run, Entry(m, 0), [next |-> fixed.next, adjacent |-> c]))
    BY <1>1, <1>3, <1>13, <2>2
  <2>4. PICK z \in Nat : z = 0
    BY <2>1
  <2>5. /\ z + c < Capacity /\ Span(m, z, c) \cap FreeOf(fixed) = {}
        /\ Slot(f, Entry(m, z), With(fixed.run, Entry(m, z), [next |-> fixed.next, adjacent |-> c]))
    BY <2>3, <2>4
  <2>6. ASSUME NEW Q \in SUBSET Nat, S \in SUBSET Q, m \in Q, NEW g,
               Slot(g, Entry(m, z), With(fixed.run, Entry(m, z), [next |-> fixed.next, adjacent |-> c]))
        PROVE  RunsOK(g, Q) /\ FreeOf(g) = FreeOf(fixed) \cup Span(m, z, c)
    BY <1>0, <2>5, <2>6, RunPut
  <2>7. RunsOK(f, R) /\ FreeOf(f) = FreeOf(fixed) \cup Span(m, z, c)
    BY <1>0, <2>1, <2>5, <2>6
  <2> QED
    BY <2>2, <2>4, <2>7
<1>7. IsFiniteSet(E) /\ Cardinality(E) = Capacity
  <2> DEFINE I == 0 .. 0 + (Capacity - 1)
             e == [j \in I |-> Entry(m, j)]
  <2>1. e \in Bijection(I, E)
    <3>1. ASSUME NEW i \in I, NEW j \in I, Entry(m, i) = Entry(m, j) PROVE i = j
      <4>1. i \in Nat /\ j \in Nat
        BY <1>1
      <4> QED
        BY <3>1, <4>1, EntryIs
    <3> QED
      BY <3>1 DEF Bijection, Injection, Surjection, IsInjective, Span
  <2>2. IsFiniteSet(I) /\ Cardinality(I) = Capacity
    BY <1>1, FS_Interval, CapacityAssumption
  <2>3. ExistsBijection(I, E)
    BY <2>1 DEF ExistsBijection
  <2> QED
    BY <2>2, <2>3, FS_Bijection
<1>8. IsFiniteSet(Free) /\ Cardinality(Free) \in Nat
  <2>1. Free \in SUBSET Entries(S)
    BY <1>0
  <2> QED
    BY <2>1, EntriesCount, FS_Subset, FS_CardinalityType
<1>9. Cardinality(FreeOf(f)) = Cardinality(Free) + Capacity
  <2> HIDE DEF E
  <2>1. Cardinality(Free \cup E) = Cardinality(Free) + Cardinality(E) - Cardinality(Free \cap E)
    BY <1>7, <1>8, FS_Union
  <2>2. Cardinality(Free \cap E) = 0
    BY <1>3, FS_EmptySet
  <2> QED
    BY <1>6, <1>7, <1>8, <2>1, <2>2, CapacityAssumption
<1>10. FreeOf(f) \cup nodes = Entries(R) /\ FreeOf(f) \cap nodes = {}
  BY <1>0, <1>2, <1>6
<1>11. FixedOK(f, R, nodes)
  BY <1>6, <1>9, <1>10, <1>13 DEF FixedOK
<1>12. f.next # Nil
  BY <1>13, EntryIs, NilAssumption
<1> QED
  BY <1>11, <1>12 DEF f

-----------------------------------------------------------------------------
(* The calls of the heap change no segment but the new one.                *)

\* A heap is the record of its fields.
HeapRecord(h) == h = [field \in {"entry", "block", "head"} |-> h[field]]

\* A heap with headers in the segments of S.
Heads(h, S) == HeapRecord(h) /\ DOMAIN h.head = S

\* Insert keeps the segment headers.
LEMMA InsertHeads ==
  ASSUME NEW h, NEW S, Heads(h, S), NEW a
  PROVE  Heads(Insert(h, a), S)
<1>1. ASSUME NEW i, NEW chain, NEW place PROVE Heads(Link(h, a, i, chain, place), S)
  <2> DEFINE freed == [h EXCEPT !.block[a].free = TRUE]
             L == Link(h, a, i, chain, place)
  <2>1. \/ L = freed
        \/ L = [freed EXCEPT !.entry[i] = a, !.block[a].next = Nil]
        \/ L = [freed EXCEPT !.entry[i] = a, !.block[a].next = chain[1]]
        \/ L = [freed EXCEPT !.block[a].next = chain[place],
                             !.block[chain[place - 1]] = Overwritten(@, a)]
    BY DEF Link
  <2>2. Heads(freed, S)
    BY DEF Heads, HeapRecord
  <2> HIDE DEF freed, L
  <2>3. ASSUME NEW f, Heads(f, S), NEW x PROVE Heads([f EXCEPT !.entry[i] = a, !.block[a].next = x], S)
    BY <2>3 DEF Heads, HeapRecord
  <2>4. ASSUME NEW f, Heads(f, S), NEW x, NEW y
        PROVE  Heads([f EXCEPT !.block[a].next = x, !.block[y] = Overwritten(@, a)], S)
    BY <2>4 DEF Heads, HeapRecord
  <2>5. Heads([freed EXCEPT !.entry[i] = a, !.block[a].next = Nil], S)
    BY <2>2, <2>3
  <2>7. Heads([freed EXCEPT !.entry[i] = a, !.block[a].next = chain[1]], S)
    BY <2>2, <2>3
  <2>8. Heads([freed EXCEPT !.block[a].next = chain[place],
                           !.block[chain[place - 1]] = Overwritten(@, a)], S)
    BY <2>2, <2>4
  <2>6. Heads(L, S)
    BY <2>1, <2>2, <2>5, <2>7, <2>8
  <2> QED
    BY <2>6 DEF L
<1> QED
  BY <1>1 DEF Insert

\* PullNotLess keeps the segment headers.
LEMMA PullHeads ==
  ASSUME NEW h, NEW S, Heads(h, S), NEW size
  PROVE  Heads(PullNotLess(h, size).heap, S)
<1>1. ASSUME NEW i, NEW chain, NEW place PROVE Heads(Unlink(h, i, chain, place).heap, S)
  <2> DEFINE taken == [h EXCEPT !.block[chain[place]].free = FALSE, !.block[chain[place]].next = Nil]
             after == h.block[chain[place]].next
             L == Unlink(h, i, chain, place).heap
  <2>1. \/ L = [taken EXCEPT !.entry[i] = after]
        \/ L = [taken EXCEPT !.block[chain[place - 1]].next = after]
    BY DEF Unlink
  <2>2. Heads(taken, S)
    BY DEF Heads, HeapRecord
  <2> HIDE DEF taken, L, after
  <2>3. Heads(L, S)
    BY <2>1, <2>2 DEF Heads, HeapRecord
  <2> QED
    BY <2>3 DEF L
<1> QED
  BY <1>1 DEF PullNotLess, PullFromBucket

\* Charge keeps the segment headers.
LEMMA ChargeHeads ==
  ASSUME NEW got, NEW S, Heads(got.heap, S), NEW deposit
  PROVE  Heads(Charge(got, deposit).heap, S)
<1>1. Charge(got, deposit).heap = [got.heap EXCEPT !.head[got.at[1]].size = @ - deposit]
  BY DEF Charge
<1> QED
  BY <1>1 DEF Heads, HeapRecord

\* SplitBlock keeps the segment headers.
LEMMA SplitHeads ==
  ASSUME NEW h, NEW S, Heads(h, S), NEW a, NEW size
  PROVE  Heads(SplitBlock(h, a, size).heap, S)
<1> DEFINE rest == h.block[a].size - size - HeaderBytes
           b == [h EXCEPT !.block[a].size = rest, !.block[a].free = TRUE]
           kept == Insert(b, a)
           L == SplitBlock(h, a, size).heap
<1>1. L = [kept EXCEPT !.block = With(@, Shift(a, rest + HeaderBytes), Block(size, FALSE))]
  BY DEF SplitBlock
<1> HIDE DEF rest, L
<1>2. Heads(b, S)
  BY DEF Heads, HeapRecord
<1> HIDE DEF b
<1>3. Heads(kept, S)
  BY <1>2, InsertHeads
<1> HIDE DEF kept
<1>4. Heads(L, S)
  BY <1>1, <1>3 DEF Heads, HeapRecord
<1> QED
  BY <1>4 DEF L

\* Allocate keeps the segment headers.
LEMMA AllocateHeads ==
  ASSUME NEW h, NEW S, Heads(h, S), NEW size
  PROVE  Heads(Allocate(h, size).heap, S)
<1> DEFINE p == PullNotLess(h, size)
           found == p.heap.block[p.at].size
<1>1. Heads(p.heap, S)
  BY PullHeads
<1> HIDE DEF p
<1>2. Heads(SplitBlock(p.heap, p.at, size).heap, S)
  BY <1>1, SplitHeads
<1>3. Heads(Charge(p, found).heap, S)
  BY <1>1, ChargeHeads
<1>4. Heads(Charge(SplitBlock(p.heap, p.at, size), size + HeaderBytes).heap, S)
  BY <1>2, ChargeHeads
<1>5. Heads(TakeFrom(p, found, size).heap, S)
  BY <1>3, <1>4 DEF TakeFrom
<1> QED
  BY <1>5 DEF Allocate, p

\* Deallocate keeps the segment headers.
LEMMA DeallocateHeads ==
  ASSUME NEW h, NEW S, Heads(h, S), NEW at
  PROVE  Heads(Deallocate(h, at), S)
<1> DEFINE a == HeaderAddr(at)
           f == Insert(h, a)
           L == Deallocate(h, at)
<1>1. L = [f EXCEPT !.head[a[1]].size = @ + h.block[a].size]
  BY DEF Deallocate
<1>2. Heads(f, S)
  BY InsertHeads
<1> HIDE DEF f, a, L
<1>3. Heads(L, S)
  BY <1>1, <1>2 DEF Heads, HeapRecord
<1> QED
  BY <1>3 DEF L

\* A new segment has a header, and the others keep theirs.
LEMMA SegmentHeads ==
  ASSUME NEW h, NEW S, Heads(h, S), NEW s, NEW start
  PROVE  Heads(HeapOnNewSegment(h, s, start), S \cup {s})
<1> DEFINE first == <<s, FirstBlockOffset(s, start)>>
           size == SegmentSize - HeaderBytes - first[2]
           b == [h EXCEPT !.head = With(@, s, [total |-> size, size |-> size]),
                          !.block = With(@, first, Block(size, TRUE))]
<1>1. HeapOnNewSegment(h, s, start) = Insert(b, first)
  BY DEF HeapOnNewSegment
<1> HIDE DEF first, size
<1>2. HeapRecord(b) /\ b.head = With(h.head, s, [total |-> size, size |-> size])
  BY DEF Heads, HeapRecord
<1> HIDE DEF b
<1>3. Heads(b, S \cup {s})
  BY <1>2 DEF With, Heads
<1> QED
  BY <1>1, <1>3, InsertHeads

-----------------------------------------------------------------------------
(* What a transaction sees.                                                *)

\* The slots of a file of n segments.
ContentOK(c, n) ==
  /\ c = [heap |-> c.heap, fixed |-> c.fixed, strings |-> c.strings, nodes |-> c.nodes]
  /\ \E S \in SUBSET (0 .. n - 1) : Heads(c.heap, S) /\ FixedOK(c.fixed, S, c.nodes)

\* What is whole in a file is whole in a longer one.
LEMMA ContentGrows ==
  ASSUME NEW n \in Nat, NEW c, ContentOK(c, n)
  PROVE  ContentOK(c, n + 1)
<1>1. \A S \in SUBSET (0 .. n - 1) : S \in SUBSET (0 .. (n + 1) - 1)
  OBVIOUS
<1> QED
  BY <1>1 DEF ContentOK

\* With a new segment the slots are whole, and the fixed slot has a free run.
LEMMA SegmentContent ==
  ASSUME NEW n \in Nat, NEW c, ContentOK(c, n)
  PROVE  ContentOK(SlotsOnNewSegment(c, n), n + 1) /\ SlotsOnNewSegment(c, n).fixed.next # Nil
<1>1. PICK S \in SUBSET (0 .. n - 1) : Heads(c.heap, S) /\ FixedOK(c.fixed, S, c.nodes)
  BY DEF ContentOK
<1> DEFINE f == FixedOnNewSegment(c.fixed, n, Layout(n).fixed)
           h == HeapOnNewSegment(c.heap, n, Layout(n).heap)
           d == SlotsOnNewSegment(c, n)
<1>2. d = [c EXCEPT !.fixed = f, !.heap = h]
  BY DEF SlotsOnNewSegment
<1>3. FixedOK(f, S \cup {n}, c.nodes) /\ f.next # Nil
  BY <1>1, SegmentKeeps
<1>4. Heads(h, S \cup {n})
  BY <1>1, SegmentHeads
<1>5. S \cup {n} \in SUBSET (0 .. (n + 1) - 1)
  OBVIOUS
<1> HIDE DEF f, h, d
<1>6. c = [heap |-> c.heap, fixed |-> c.fixed, strings |-> c.strings, nodes |-> c.nodes]
  BY DEF ContentOK
<1>7. d = [heap |-> h, fixed |-> f, strings |-> c.strings, nodes |-> c.nodes]
  BY <1>2, <1>6
<1>8. d.heap = h /\ d.fixed = f /\ d.nodes = c.nodes /\ d.strings = c.strings
  BY <1>7
<1>9. d = [heap |-> d.heap, fixed |-> d.fixed, strings |-> d.strings, nodes |-> d.nodes]
  BY <1>7, <1>8
<1>10. ContentOK(d, n + 1)
  BY <1>3, <1>4, <1>5, <1>8, <1>9 DEF ContentOK
<1> QED
  BY <1>3, <1>8, <1>10 DEF d

\* What the heap does to a content.
LEMMA HeapContent ==
  ASSUME NEW n \in Nat, NEW c, ContentOK(c, n), NEW h, NEW strings,
         \A S : Heads(c.heap, S) => Heads(h, S)
  PROVE  ContentOK([c EXCEPT !.heap = h, !.strings = strings], n)
<1> DEFINE d == [c EXCEPT !.heap = h, !.strings = strings]
<1>0. d = [c EXCEPT !.heap = h, !.strings = strings]
  OBVIOUS
<1> HIDE DEF d
<1>1. c = [heap |-> c.heap, fixed |-> c.fixed, strings |-> c.strings, nodes |-> c.nodes]
  BY DEF ContentOK
<1>2. d = [heap |-> h, fixed |-> c.fixed, strings |-> strings, nodes |-> c.nodes]
  BY <1>0, <1>1
<1>3. d.heap = h /\ d.fixed = c.fixed /\ d.nodes = c.nodes /\ d.strings = strings
  BY <1>2
<1>4. d = [heap |-> d.heap, fixed |-> d.fixed, strings |-> d.strings, nodes |-> d.nodes]
  BY <1>2, <1>3
<1>5. ContentOK(d, n)
  BY <1>3, <1>4 DEF ContentOK
<1> QED
  BY <1>5 DEF d

\* What the fixed slot does to a content.
LEMMA FixedContent ==
  ASSUME NEW n \in Nat, NEW c, ContentOK(c, n), NEW f, NEW nodes,
         \A S \in SUBSET (0 .. n - 1) : FixedOK(c.fixed, S, c.nodes) => FixedOK(f, S, nodes)
  PROVE  ContentOK([c EXCEPT !.fixed = f, !.nodes = nodes], n)
<1> DEFINE d == [c EXCEPT !.fixed = f, !.nodes = nodes]
<1>0. d = [c EXCEPT !.fixed = f, !.nodes = nodes]
  OBVIOUS
<1> HIDE DEF d
<1>1. c = [heap |-> c.heap, fixed |-> c.fixed, strings |-> c.strings, nodes |-> c.nodes]
  BY DEF ContentOK
<1>2. d = [heap |-> c.heap, fixed |-> f, strings |-> c.strings, nodes |-> nodes]
  BY <1>0, <1>1
<1>3. d.heap = c.heap /\ d.fixed = f /\ d.nodes = nodes /\ d.strings = c.strings
  BY <1>2
<1>4. d = [heap |-> d.heap, fixed |-> d.fixed, strings |-> d.strings, nodes |-> d.nodes]
  BY <1>2, <1>3
<1>5. ContentOK(d, n)
  BY <1>3, <1>4 DEF ContentOK
<1> QED
  BY <1>5 DEF d

-----------------------------------------------------------------------------
(* The nodes asked for, one after the other.                               *)

\* What TakeNodes has after one more, given what it had.
TakeNext(was) ==
  LET dry   == was.content.fixed.next = Nil
      ready == IF dry /\ ~was.grown THEN SlotsOnNewSegment(was.content, file) ELSE was.content
      got   == TakeEntry(ready.fixed)
  IN  IF was.failed \/ ready.fixed.next = Nil THEN [was EXCEPT !.failed = TRUE]
      ELSE [content |-> [ready EXCEPT !.fixed = got.fixed, !.nodes = @ \cup {got.at}],
            grown   |-> was.grown \/ dry,
            failed  |-> FALSE]

\* Before the first node.
NoneTaken(content) == [content |-> content, grown |-> FALSE, failed |-> FALSE]

\* As a function of the number of nodes.
TakeAll(content, n, f) == [k \in 0 .. n |-> IF k = 0 THEN NoneTaken(content) ELSE TakeNext(f[k - 1])]

\* Such a function is there: one for n is extended to n + 1.
LEMMA TakeAllSolved ==
  ASSUME NEW content, NEW n \in Nat
  PROVE  \E f : f = TakeAll(content, n, f)
<1> DEFINE T == {m \in Nat : \E f : f = TakeAll(content, m, f)}
<1>1. 0 \in T
  <2> DEFINE g == [k \in 0 .. 0 |-> NoneTaken(content)]
  <2>1. g = TakeAll(content, 0, g)
    BY DEF TakeAll
  <2> QED
    BY <2>1
<1>2. ASSUME NEW m \in T PROVE m + 1 \in T
  <2>1. PICK f : f = TakeAll(content, m, f)
    OBVIOUS
  <2>2. m \in Nat /\ m + 1 \in Nat
    OBVIOUS
  <2> HIDE DEF T
  <2> DEFINE g == [k \in 0 .. m + 1 |-> IF k = m + 1 THEN TakeNext(f[m]) ELSE f[k]]
  <2>3. \A k \in 0 .. m : f[k] = IF k = 0 THEN NoneTaken(content) ELSE TakeNext(f[k - 1])
    <3>1. \A k \in 0 .. m : TakeAll(content, m, f)[k] = IF k = 0 THEN NoneTaken(content) ELSE TakeNext(f[k - 1])
      BY DEF TakeAll
    <3> QED
      BY <2>1, <3>1
  <2>4. ASSUME NEW k \in 0 .. m + 1 PROVE g[k] = IF k = 0 THEN NoneTaken(content) ELSE TakeNext(g[k - 1])
    <3>1. CASE k = m + 1
      <4>1. k - 1 = m /\ m \in 0 .. m + 1 /\ m # m + 1 /\ k # 0
        BY <2>2, <3>1
      <4>2. g[m] = f[m] /\ g[k] = TakeNext(f[m])
        BY <3>1, <4>1
      <4> HIDE DEF g
      <4> QED
        BY <4>1, <4>2
    <3>2. CASE k # m + 1
      <4>1. k \in 0 .. m /\ (k # 0 => k - 1 \in 0 .. m + 1 /\ k - 1 # m + 1)
        BY <2>2, <3>2
      <4>2. g[k] = f[k] /\ (k # 0 => g[k - 1] = f[k - 1])
        BY <3>2, <4>1
      <4> HIDE DEF g
      <4> QED
        BY <2>3, <4>1, <4>2
    <3> QED
      BY <3>1, <3>2
  <2>5. g = [k \in 0 .. m + 1 |-> g[k]]
    OBVIOUS
  <2> HIDE DEF g
  <2>6. g = TakeAll(content, m + 1, g)
    BY <2>4, <2>5 DEF TakeAll
  <2> QED
    BY <2>2, <2>6 DEF T
<1> HIDE DEF T
<1>3. T \in SUBSET Nat
  BY DEF T
<1>4. T = Nat
  BY <1>1, <1>2, <1>3, NatSet
<1> QED
  BY <1>4 DEF T

\* What is taken is whole, in the file it needs.
TakenOK(t) ==
  /\ t = [content |-> t.content, grown |-> t.grown, failed |-> t.failed]
  /\ t.grown \in BOOLEAN /\ t.failed \in BOOLEAN
  /\ ContentOK(t.content, IF t.grown THEN file + 1 ELSE file)

\* One more node leaves the slots whole.
LEMMA TakeNextKeeps ==
  ASSUME file \in Nat, NEW was, TakenOK(was)
  PROVE  TakenOK(TakeNext(was))
<1> DEFINE dry == was.content.fixed.next = Nil
           grown == was.grown \/ dry
           ready == IF dry /\ ~was.grown THEN SlotsOnNewSegment(was.content, file) ELSE was.content
           got == TakeEntry(ready.fixed)
           new == [ready EXCEPT !.fixed = got.fixed, !.nodes = @ \cup {got.at}]
           n == IF grown THEN file + 1 ELSE file
<1>0. /\ was = [content |-> was.content, grown |-> was.grown, failed |-> was.failed]
      /\ was.grown \in BOOLEAN /\ was.failed \in BOOLEAN
      /\ ContentOK(was.content, IF was.grown THEN file + 1 ELSE file)
  BY DEF TakenOK
<1>1. CASE was.failed \/ ready.fixed.next = Nil
  <2>1. TakeNext(was) = [was EXCEPT !.failed = TRUE]
    BY <1>1 DEF TakeNext
  <2>2. TakeNext(was) = [content |-> was.content, grown |-> was.grown, failed |-> TRUE]
    BY <1>0, <2>1
  <2>3. /\ TakeNext(was).content = was.content /\ TakeNext(was).grown = was.grown
        /\ TakeNext(was).failed = TRUE
    BY <2>2
  <2> QED
    BY <1>0, <2>2, <2>3 DEF TakenOK
<1>2. CASE ~(was.failed \/ ready.fixed.next = Nil)
  <2>1. TakeNext(was) = [content |-> new, grown |-> grown, failed |-> FALSE]
    BY <1>2 DEF TakeNext
  <2>2. n \in Nat /\ ContentOK(ready, n)
    <3>1. CASE dry /\ ~was.grown
      BY <1>0, <3>1, SegmentContent
    <3>2. CASE ~(dry /\ ~was.grown)
      <4>1. ready = was.content
        BY <3>2
      <4>2. CASE was.grown
        BY <1>0, <4>1, <4>2
      <4>3. CASE ~was.grown
        <5>1. ~dry
          BY <3>2, <4>3
        <5> HIDE DEF dry
        <5>2. n = file
          BY <4>3, <5>1
        <5> HIDE DEF ready
        <5> QED
          BY <1>0, <4>1, <4>3, <5>2
      <4> QED
        BY <1>0, <4>2, <4>3
    <3> QED
      BY <3>1, <3>2
  <2>3. ready.fixed.next # Nil
    BY <1>2
  <2> HIDE DEF ready
  <2>4. ASSUME NEW S \in SUBSET (0 .. n - 1), FixedOK(ready.fixed, S, ready.nodes)
        PROVE  FixedOK(got.fixed, S, ready.nodes \cup {got.at})
    <3> HIDE DEF n
    <3> QED
      BY <2>2, <2>3, <2>4, TakeKeeps
  <2>5. new = [ready EXCEPT !.fixed = got.fixed, !.nodes = ready.nodes \cup {got.at}]
    OBVIOUS
  <2> HIDE DEF n, got
  <2>6. ContentOK([ready EXCEPT !.fixed = got.fixed, !.nodes = ready.nodes \cup {got.at}], n)
    BY <2>2, <2>4, FixedContent
  <2>7. ContentOK(new, n)
    BY <2>5, <2>6
  <2> HIDE DEF new
  <2>8. grown \in BOOLEAN
    BY <1>0
  <2> HIDE DEF grown, dry
  <2>9. /\ TakeNext(was).content = new /\ TakeNext(was).grown = grown /\ TakeNext(was).failed = FALSE
    BY <2>1
  <2> QED
    BY <2>1, <2>7, <2>8, <2>9 DEF TakenOK, n
<1> QED
  BY <1>1, <1>2

\* So do all those asked for, with at most one new segment.
LEMMA TakeNodesKeeps ==
  ASSUME file \in Nat, NEW content, ContentOK(content, file), NEW n \in Nat
  PROVE  TakenOK(TakeNodes(content, n))
<1> DEFINE take == CHOOSE f : f = TakeAll(content, n, f)
<1>1. TakeNodes(content, n) = take[n]
  BY DEF TakeNodes, TakeAll, TakeNext, NoneTaken
<1>2. take = TakeAll(content, n, take)
  BY TakeAllSolved
<1> HIDE DEF take
<1>3. \A k \in 0 .. n : take[k] = IF k = 0 THEN NoneTaken(content) ELSE TakeNext(take[k - 1])
  <2>1. \A k \in 0 .. n : TakeAll(content, n, take)[k] = IF k = 0 THEN NoneTaken(content) ELSE TakeNext(take[k - 1])
    BY DEF TakeAll
  <2> QED
    BY <1>2, <2>1
<1> DEFINE T == {k \in Nat : k <= n => TakenOK(take[k])}
<1>4. 0 \in T
  <2>1. take[0] = NoneTaken(content)
    BY <1>3
  <2>2. TakenOK(NoneTaken(content))
    BY DEF TakenOK, NoneTaken
  <2> QED
    BY <2>1, <2>2
<1>5. ASSUME NEW k \in T PROVE k + 1 \in T
  <2>1. k \in Nat /\ (k <= n => TakenOK(take[k]))
    OBVIOUS
  <2> HIDE DEF T
  <2>2. ASSUME k + 1 <= n PROVE TakenOK(take[k + 1])
    <3>1. k <= n /\ k + 1 \in 0 .. n /\ k + 1 # 0 /\ (k + 1) - 1 = k
      BY <2>1, <2>2
    <3>2. take[k + 1] = TakeNext(take[k])
      BY <1>3, <3>1
    <3> QED
      BY <2>1, <3>1, <3>2, TakeNextKeeps
  <2> QED
    BY <2>1, <2>2 DEF T
<1> HIDE DEF T
<1>6. T = Nat
  <2>1. T \in SUBSET Nat
    BY DEF T
  <2> QED
    BY <1>4, <1>5, <2>1, NatSet
<1>7. TakenOK(take[n])
  BY <1>6 DEF T
<1> QED
  BY <1>1, <1>7

-----------------------------------------------------------------------------
(* The invariant.                                                          *)

\* In the file and in the open transaction the fixed slot is whole.
SlotsInv ==
  /\ file \in Nat /\ table = [s \in 0 .. file - 1 |-> Layout(s)]
  /\ ContentOK(disk, file) /\ ContentOK(work, file)

\* The file without segments is whole.
LEMMA EmptyContent == ContentOK(Empty, 0)
<1>1. Empty = [heap |-> NoHeap, fixed |-> NoFixed, strings |-> {}, nodes |-> {}]
  BY DEF Empty
<1> DEFINE c == Empty
<1>2. c.heap = NoHeap /\ c.fixed = NoFixed /\ c.strings = {} /\ c.nodes = {}
  BY <1>1
<1>3. Heads(NoHeap, {})
  BY DEF NoHeap, Heads, HeapRecord
<1>4. /\ NoFixed.next = Nil /\ NoFixed.inFree = 0 /\ NoFixed.inAlloc = 0 /\ NoFixed.run = <<>>
      /\ NoFixed = [next |-> Nil, inFree |-> 0, inAlloc |-> 0, run |-> <<>>]
  BY DEF NoFixed
<1>5. DOMAIN NoFixed.run = {} /\ NoFixed.run \in [{} -> RunT]
  BY <1>4
<1>6. NoFixed \in FixedT
  <2>1. {} \in SUBSET (Int \X Int)
    OBVIOUS
  <2>2. <<>> \in UNION {[D -> RunT] : D \in SUBSET (Int \X Int)}
    BY <1>4, <1>5, <2>1
  <2> QED
    BY <1>4, <2>2 DEF FixedT
<1>7. InRuns(NoFixed, <<>>)
  BY <1>4, <1>5 DEF InRuns
<1>8. FreeOf(NoFixed) = {} /\ Entries({}) = {} /\ Cardinality({}) = 0
  BY <1>5, FS_EmptySet DEF FreeOf, Entries
<1>9. FixedOK(NoFixed, {}, {})
  <2>1. RunsOK(NoFixed, {})
    BY <1>5, <1>6, <1>7 DEF RunsOK, Apart
  <2> QED
    BY <1>4, <1>8, <2>1 DEF FixedOK
<1>10. {} \in SUBSET (0 .. 0 - 1)
  OBVIOUS
<1>11. c = [heap |-> c.heap, fixed |-> c.fixed, strings |-> c.strings, nodes |-> c.nodes]
  BY <1>1, <1>2
<1> QED
  BY <1>2, <1>3, <1>9, <1>10, <1>11 DEF ContentOK

\* The invariant holds at the start.
LEMMA SlotsInit == Init => SlotsInv
<1> SUFFICES ASSUME Init PROVE SlotsInv
  OBVIOUS
<1>1. file = 0 /\ table = <<>> /\ disk = Empty /\ work = Empty
  BY DEF Init
<1>2. table = [s \in 0 .. file - 1 |-> Layout(s)]
  BY <1>1
<1> QED
  BY <1>1, <1>2, EmptyContent DEF SlotsInv

\* A segment is added at the end of the file, with its layout.
LEMMA TableGrows ==
  ASSUME file \in Nat, table = [s \in 0 .. file - 1 |-> Layout(s)], AllocateSegment
  PROVE  file' = file + 1 /\ file' \in Nat /\ table' = [s \in 0 .. file' - 1 |-> Layout(s)]
<1>1. file' = file + 1 /\ table' = With(table, file, Layout(file))
  BY DEF AllocateSegment
<1>2. DOMAIN table = 0 .. file - 1 /\ \A s \in 0 .. file - 1 : table[s] = Layout(s)
  OBVIOUS
<1>3. (0 .. file - 1) \cup {file} = 0 .. file' - 1 /\ file' \in Nat
  BY <1>1
<1>4. table' = [s \in 0 .. file' - 1 |-> IF s = file THEN Layout(file) ELSE table[s]]
  BY <1>1, <1>2, <1>3 DEF With
<1>5. \A s \in 0 .. file' - 1 : (IF s = file THEN Layout(file) ELSE table[s]) = Layout(s)
  BY <1>2, <1>3
<1> QED
  BY <1>1, <1>3, <1>4, <1>5

\* The file stays, or grows by a segment.
LEMMA FileKeeps ==
  ASSUME SlotsInv, KeepFile \/ AllocateSegment,
         ContentOK(disk', file) \/ (AllocateSegment /\ ContentOK(disk', file + 1)),
         ContentOK(work', file) \/ (AllocateSegment /\ ContentOK(work', file + 1))
  PROVE  SlotsInv'
<1>1. CASE KeepFile /\ ~AllocateSegment
  BY <1>1 DEF SlotsInv, KeepFile
<1>2. CASE AllocateSegment
  <2>1. file' = file + 1 /\ file' \in Nat /\ table' = [s \in 0 .. file' - 1 |-> Layout(s)]
    BY <1>2, TableGrows DEF SlotsInv
  <2>2. ContentOK(disk', file + 1) /\ ContentOK(work', file + 1)
    BY ContentGrows DEF SlotsInv
  <2> QED
    BY <2>1, <2>2 DEF SlotsInv
<1> QED
  BY <1>1, <1>2

\* InsertString keeps the invariant.
LEMMA InsertStringKeeps ==
  ASSUME SlotsInv, NEW length, InsertString(length)
  PROVE  SlotsInv'
<1> DEFINE size == StringBytes(length)
           room == Pullable(work.heap, size)
           ready == IF room THEN work ELSE SlotsOnNewSegment(work, file)
           got == Allocate(ready.heap, size)
           strings == ready.strings \cup {[at |-> got.at, length |-> length]}
           n == IF room THEN file ELSE file + 1
<1>0. file \in Nat /\ n \in Nat /\ ContentOK(work, file) /\ ContentOK(disk, file)
  BY DEF SlotsInv
<1>1. /\ disk' = disk
      /\ IF room THEN KeepFile ELSE AllocateSegment
      /\ work' = [ready EXCEPT !.heap = got.heap, !.strings = strings]
  BY DEF InsertString, Operation, StoreString
<1>2. ContentOK(ready, n)
  BY <1>0, SegmentContent
<1> HIDE DEF room, ready, size, strings
<1>3. \A S : Heads(ready.heap, S) => Heads(got.heap, S)
  BY AllocateHeads
<1> HIDE DEF got, n
<1>4. ContentOK(work', n)
  BY <1>0, <1>1, <1>2, <1>3, HeapContent
<1> QED
  BY <1>0, <1>1, <1>4, FileKeeps DEF n

\* InsertStringFails keeps the invariant.
LEMMA InsertStringFailsKeeps ==
  ASSUME SlotsInv, NEW length, InsertStringFails(length)
  PROVE  SlotsInv'
<1> DEFINE grown == SlotsOnNewSegment(work, file)
<1>0. file \in Nat /\ ContentOK(work, file) /\ ContentOK(disk, file)
  BY DEF SlotsInv
<1>1. /\ AllocateSegment
      /\ \/ disk' = disk /\ work' = disk
         \/ disk' = grown /\ work' = grown
  BY DEF InsertStringFails, Thrown
<1>2. ContentOK(grown, file + 1)
  BY <1>0, SegmentContent
<1> HIDE DEF grown
<1> QED
  BY <1>0, <1>1, <1>2, FileKeeps

\* DestroyString keeps the invariant.
LEMMA DestroyStringKeeps ==
  ASSUME SlotsInv, NEW string, DestroyString(string)
  PROVE  SlotsInv'
<1> DEFINE h == Deallocate(work.heap, string.at)
           strings == work.strings \ {string}
<1>0. file \in Nat /\ ContentOK(work, file) /\ ContentOK(disk, file)
  BY DEF SlotsInv
<1>1. disk' = disk /\ KeepFile /\ work' = [work EXCEPT !.heap = h, !.strings = strings]
  BY DEF DestroyString, Operation
<1>2. \A S : Heads(work.heap, S) => Heads(h, S)
  BY DeallocateHeads
<1> HIDE DEF h, strings
<1>3. ContentOK(work', file)
  BY <1>0, <1>1, <1>2, HeapContent
<1> QED
  BY <1>0, <1>1, <1>3, FileKeeps

\* AllocateNodes keeps the invariant, whether all nodes are there or not.
LEMMA AllocateNodesKeeps ==
  ASSUME SlotsInv, NEW n \in Nat, AllocateNodes(n)
  PROVE  SlotsInv'
<1> DEFINE taken == TakeNodes(work, n)
<1>0. file \in Nat /\ ContentOK(work, file) /\ ContentOK(disk, file)
  BY DEF SlotsInv
<1>1. /\ IF taken.grown THEN AllocateSegment ELSE KeepFile
      /\ \/ disk' = disk /\ work' = disk
         \/ disk' = disk /\ work' = taken.content
  BY DEF AllocateNodes, Thrown, Operation
<1>2. TakenOK(taken)
  BY <1>0, TakeNodesKeeps
<1> HIDE DEF taken
<1>3. ContentOK(taken.content, IF taken.grown THEN file + 1 ELSE file)
  BY <1>2 DEF TakenOK
<1> QED
  BY <1>0, <1>1, <1>3, FileKeeps

\* DeallocateNode keeps the invariant.
LEMMA DeallocateNodeKeeps ==
  ASSUME SlotsInv, NEW address \in work.nodes, DeallocateNode(address)
  PROVE  SlotsInv'
<1> DEFINE f == FixedDeallocate(work.fixed, address)
           nodes == work.nodes \ {address}
<1>0. file \in Nat /\ ContentOK(work, file) /\ ContentOK(disk, file)
  BY DEF SlotsInv
<1>1. disk' = disk /\ KeepFile /\ work' = [work EXCEPT !.fixed = f, !.nodes = nodes]
  BY DEF DeallocateNode, Operation
<1>2. \A S \in SUBSET (0 .. file - 1) : FixedOK(work.fixed, S, work.nodes) => FixedOK(f, S, nodes)
  BY <1>0, GiveKeeps
<1> HIDE DEF f, nodes
<1>3. ContentOK(work', file)
  BY <1>0, <1>1, <1>2, FixedContent
<1> QED
  BY <1>0, <1>1, <1>3, FileKeeps

\* Every step keeps the invariant.
LEMMA SlotsStep == SlotsInv /\ [Next]_vars => SlotsInv'
<1> SUFFICES ASSUME SlotsInv, [Next]_vars PROVE SlotsInv'
  OBVIOUS
<1>0. file \in Nat /\ ContentOK(work, file) /\ ContentOK(disk, file)
  BY DEF SlotsInv
<1>1. CASE Create
  <2>1. file = 0 /\ AllocateSegment /\ disk' = SlotsOnNewSegment(Empty, 0) /\ work' = disk'
    BY <1>1 DEF Create
  <2>2. ContentOK(SlotsOnNewSegment(Empty, 0), 0 + 1)
    BY EmptyContent, SegmentContent
  <2>3. ContentOK(disk', file + 1) /\ ContentOK(work', file + 1)
    BY <2>1, <2>2
  <2> QED
    BY <2>1, <2>3, FileKeeps
<1>2. CASE Open \/ BeginTransaction \/ Commit \/ Rollback \/ Close
  <2>1. KeepFile /\ (disk' = disk \/ disk' = work) /\ (work' = work \/ work' = disk)
    BY <1>2 DEF Open, BeginTransaction, Commit, Rollback, Close
  <2> QED
    BY <1>0, <2>1, FileKeeps
<1>3. ASSUME NEW length \in Lengths, InsertString(length) \/ InsertStringFails(length) PROVE SlotsInv'
  BY <1>3, InsertStringKeeps, InsertStringFailsKeeps
<1>4. ASSUME NEW string \in work.strings, DestroyString(string) PROVE SlotsInv'
  BY <1>4, DestroyStringKeeps
<1>5. ASSUME NEW n \in Batches, AllocateNodes(n) PROVE SlotsInv'
  <2>1. n \in Nat
    BY BatchAssumption
  <2> QED
    BY <1>5, <2>1, AllocateNodesKeeps
<1>6. ASSUME NEW address \in work.nodes, DeallocateNode(address) PROVE SlotsInv'
  BY <1>6, DeallocateNodeKeeps
<1>7. CASE UNCHANGED vars
  BY <1>7 DEF vars, SlotsInv
<1> QED
  BY <1>1, <1>2, <1>3, <1>4, <1>5, <1>6, <1>7 DEF Next

\* The invariant implies the property.
LEMMA SlotsAreWhole == SlotsInv => FixedWhole
<1> SUFFICES ASSUME SlotsInv, NEW content \in {disk, work}
             PROVE  LET fixed   == content.fixed
                        entries == {Shift(<<s, BlocksBegin(s, table[s].fixed)>>, EntrySize * k) :
                                       s \in DOMAIN content.heap.head, k \in 0 .. Capacity - 1}
                    IN  /\ FixedCheck(fixed, file)
                        /\ FreeEntries(fixed) \cup content.nodes = entries
                        /\ FreeEntries(fixed) \cap content.nodes = {}
                        /\ fixed.inFree = Cardinality(FreeEntries(fixed))
                        /\ fixed.inAlloc = Cardinality(content.nodes)
                        /\ \A e \in entries : e[2] >= table[e[1]].fixed /\ e[2] + EntrySize <= table[e[1]].heap
  BY SMTT(60) DEF FixedWhole
<1>0. /\ file \in Nat /\ ContentOK(content, file)
      /\ \A s \in 0 .. file - 1 : table[s] = Layout(s)
  BY DEF SlotsInv
<1>1. PICK S \in SUBSET (0 .. file - 1) : Heads(content.heap, S) /\ FixedOK(content.fixed, S, content.nodes)
  BY <1>0 DEF ContentOK
<1>2. DOMAIN content.heap.head = S
  BY <1>1 DEF Heads
<1> DEFINE entries == {Shift(<<s, BlocksBegin(s, table[s].fixed)>>, EntrySize * k) :
                          s \in DOMAIN content.heap.head, k \in 0 .. Capacity - 1}
<1>3. entries = Entries(S)
  <2>1. \A s \in S : table[s] = Layout(s)
    BY <1>0
  <2>2. ASSUME NEW e \in entries
        PROVE  e \in Entries(S)
    <3>1. PICK s \in S, k \in 0 .. Capacity - 1 :
             e = Shift(<<s, BlocksBegin(s, table[s].fixed)>>, EntrySize * k)
      BY <1>2
    <3>2. e = Entry(s, k)
      BY <3>1, <2>1 DEF Entry
    <3> QED
      BY <3>2 DEF Entries
  <2>3. ASSUME NEW e \in Entries(S)
        PROVE  e \in entries
    <3>1. PICK s \in S, k \in 0 .. Capacity - 1 : e = Entry(s, k)
      BY DEF Entries
    <3>2. e = Shift(<<s, BlocksBegin(s, table[s].fixed)>>, EntrySize * k)
      BY <3>1, <2>1 DEF Entry
    <3> QED
      BY <3>2, <1>2
  <2> HIDE DEF entries
  <2> QED
    BY <2>2, <2>3
<1>4. \A e \in Entries(S) : e[2] >= table[e[1]].fixed /\ e[2] + EntrySize <= table[e[1]].heap
  <2>1. SUFFICES ASSUME NEW s \in S, NEW k \in 0 .. Capacity - 1
                 PROVE  /\ Entry(s, k)[2] >= table[Entry(s, k)[1]].fixed
                        /\ Entry(s, k)[2] + EntrySize <= table[Entry(s, k)[1]].heap
    BY DEF Entries
  <2>2. s \in Nat /\ k \in Nat /\ k + 1 <= Capacity /\ Capacity \in Nat /\ EntrySize \in Nat /\ k + 1 \in Nat
    BY CapacityAssumption
  <2>3. Entry(s, k)[1] = s /\ Entry(s, k)[2] = (IF s = 0 THEN 80 ELSE 32) + EntrySize * k
    BY <2>2, EntryIs, ZenonT(90)
  <2>4. table[s] = Layout(s)
    BY <1>0
  <2>5. EntrySize * (k + 1) <= EntrySize * Capacity
    BY <2>2, Steps
  <2>6. EntrySize * (k + 1) = EntrySize * k + EntrySize /\ EntrySize * k \in Nat /\ EntrySize * Capacity \in Nat
    BY <2>2, Steps
  <2>7. /\ Layout(s).fixed = IF s = 0 THEN 64 ELSE 32
        /\ Layout(s).heap = (IF s = 0 THEN 80 ELSE 32) + EntrySize * Capacity
    BY <2>2, LayoutIs
  <2>8. PICK B \in Nat, i \in Nat, c \in Nat :
           B = (IF s = 0 THEN 80 ELSE 32) /\ i = EntrySize * k /\ c = EntrySize * Capacity
    BY <2>6
  <2>9. i + EntrySize <= c
    BY <2>5, <2>6, <2>8
  <2> QED
    BY <2>2, <2>3, <2>4, <2>7, <2>8, <2>9
<1>5. /\ FixedCheck(content.fixed, file)
      /\ FreeEntries(content.fixed) \cup content.nodes = Entries(S)
      /\ FreeEntries(content.fixed) \cap content.nodes = {}
      /\ content.fixed.inFree = Cardinality(FreeEntries(content.fixed))
      /\ content.fixed.inAlloc = Cardinality(content.nodes)
  BY <1>0, <1>1, FixedIsWhole
<1> QED
  BY <1>3, <1>4, <1>5

\* In what is committed and in what the transaction sees, the entries that are
\* free and those of the nodes are all the entries of the segments, apart from
\* one another and inside the slot's room, and the slot counts both.
THEOREM SlotsStayWhole == Spec => []FixedWhole
<1>1. Spec => []SlotsInv
  BY SlotsInit, SlotsStep, PTL DEF Spec
<1> QED
  BY <1>1, SlotsAreWhole, PTL

================================================================================
