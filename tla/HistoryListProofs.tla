--------------------------- MODULE HistoryListProofs ---------------------------
(***************************************************************************)
(* Proofs about HistoryList: traversals meet what they are for, the count  *)
(* of garbage buckets misses none, and types hold.                         *)
(*                                                                         *)
(* First the filter: ranges that meet share a bit of it (the recursion of  *)
(* Log2 has a solution, it is monotone and subadditive), so that indexes   *)
(* that know a block do not hide it.  Then the invariant, ListInv.  What a *)
(* traversal has still to meet stands ahead of it (Scan): that holds       *)
(* because a block is known to both indexes of its bucket before it is     *)
(* present (Own), takes a slot after all those before it, stands in one    *)
(* place only, and because buckets are taken out only while nobody is in   *)
(* the list.  A writer finds its own block, so that it never passes it:    *)
(* only the end of the block's transaction removes it, and the writer is   *)
(* the thread of that transaction (Keys, Apart).                           *)
(*                                                                         *)
(* Then one lemma per action: what it does to the thread's own call, and   *)
(* what it leaves to the others (OtherKept, for all actions at once).      *)
(***************************************************************************)
EXTENDS HistoryList, CommonLemmas

(* The filter.                                                             *)

\* The recursion has a solution: first for the numbers up to a bound, where two
\* solutions agree, then for all.
LogUpTo(g, k) == \A n \in 0 .. k : g[n] = IF n < 2 THEN 0 ELSE 1 + g[n \div 2]

LEMMA LogExists ==
  \E f \in [Nat -> Nat] : f = [n \in Nat |-> IF n < 2 THEN 0 ELSE 1 + f[n \div 2]]
<1> DEFINE some == {k \in Nat : \E g \in [Nat -> Nat] : LogUpTo(g, k)}
<1>1. some = Nat
  <2>1. 0 \in some
    <3>1. [n \in Nat |-> 0] \in [Nat -> Nat] /\ LogUpTo([n \in Nat |-> 0], 0)
      BY DEF LogUpTo
    <3> QED
      BY <3>1
  <2>2. ASSUME NEW k \in some PROVE k + 1 \in some
    <3>1. PICK g \in [Nat -> Nat] : LogUpTo(g, k)
      OBVIOUS
    <3> DEFINE h == [g EXCEPT ![k + 1] = IF k + 1 < 2 THEN 0 ELSE 1 + g[(k + 1) \div 2]]
    <3>2. \A n \in 0 .. k + 1 : n \div 2 \in Nat /\ (n >= 2 => n \div 2 \in 0 .. k)
      OBVIOUS
    <3>3. h \in [Nat -> Nat]
      BY <3>2
    <3>4. \A n \in 0 .. k : h[n] = g[n]
      OBVIOUS
    <3>5. LogUpTo(h, k + 1)
      <4>1. ASSUME NEW n \in 0 .. k PROVE h[n] = IF n < 2 THEN 0 ELSE 1 + h[n \div 2]
        <5>1. g[n] = IF n < 2 THEN 0 ELSE 1 + g[n \div 2]
          BY <3>1 DEF LogUpTo
        <5>2. n >= 2 => n \div 2 \in 0 .. k
          BY <3>2
        <5> HIDE DEF h
        <5> QED
          BY <3>4, <5>1, <5>2
      <4>2. h[k + 1] = IF k + 1 < 2 THEN 0 ELSE 1 + h[(k + 1) \div 2]
        <5>1. h[k + 1] = IF k + 1 < 2 THEN 0 ELSE 1 + g[(k + 1) \div 2]
          OBVIOUS
        <5>2. k + 1 >= 2 => (k + 1) \div 2 \in 0 .. k
          BY <3>2
        <5> HIDE DEF h
        <5> QED
          BY <3>4, <5>1, <5>2
      <4> HIDE DEF h
      <4>3. \A n \in 0 .. k + 1 : n \in 0 .. k \/ n = k + 1
        OBVIOUS
      <4> QED
        BY <4>1, <4>2, <4>3 DEF LogUpTo
    <3> HIDE DEF h
    <3> QED
      BY <3>3, <3>5
  <2> QED
    <3> HIDE DEF some
    <3>1. some \in SUBSET Nat
      BY DEF some
    <3> QED
      BY <2>1, <2>2, <3>1, NatSet
<1>2. ASSUME NEW k \in Nat, NEW g, NEW h, LogUpTo(g, k), LogUpTo(h, k)
      PROVE  \A n \in 0 .. k : g[n] = h[n]
  <2> DEFINE differ == {n \in 0 .. k : g[n] # h[n]}
  <2>1. CASE differ # {}
    <3>1. PICK n \in differ : \A m \in differ : n <= m
      <4>1. differ \in SUBSET Nat
        OBVIOUS
      <4> HIDE DEF differ
      <4> QED
        BY <2>1, <4>1, LeastNat
    <3>2. n < 2 \/ (n \div 2 \in 0 .. k /\ n \div 2 < n)
      OBVIOUS
    <3>3. n < 2 \/ g[n \div 2] = h[n \div 2]
      BY <3>1, <3>2
    <3> QED
      BY <1>2, <3>3 DEF LogUpTo
  <2> QED
    BY <2>1
<1> DEFINE pick(k) == CHOOSE g \in [Nat -> Nat] : LogUpTo(g, k)
           f == [n \in Nat |-> pick(n)[n]]
<1>3. \A k \in Nat : pick(k) \in [Nat -> Nat] /\ LogUpTo(pick(k), k)
  BY <1>1
<1>4. \A k \in Nat : \A n \in 0 .. k : pick(k)[n] = f[n]
  <2>1. SUFFICES ASSUME NEW k \in Nat, NEW n \in 0 .. k PROVE pick(k)[n] = pick(n)[n]
    <3>1. \A k \in Nat : \A n \in 0 .. k : n \in Nat /\ f[n] = pick(n)[n]
      <4> HIDE DEF pick
      <4> QED
        OBVIOUS
    <3> HIDE DEF pick, f
    <3> QED
      BY <3>1
  <2>2. LogUpTo(pick(k), n)
    <3> HIDE DEF pick
    <3> QED
      BY <1>3 DEF LogUpTo
  <2> HIDE DEF pick
  <2> QED
    BY <1>2, <1>3, <2>2
<1>5. \A n \in Nat : f[n] = IF n < 2 THEN 0 ELSE 1 + f[n \div 2]
  <2>1. SUFFICES ASSUME NEW n \in Nat PROVE f[n] = IF n < 2 THEN 0 ELSE 1 + f[n \div 2]
    OBVIOUS
  <2>2. n \in 0 .. n /\ n \div 2 \in 0 .. n
    OBVIOUS
  <2>3. pick(n)[n] = IF n < 2 THEN 0 ELSE 1 + pick(n)[n \div 2]
    <3> HIDE DEF pick
    <3> QED
      BY <1>3, <2>2 DEF LogUpTo
  <2> HIDE DEF f, pick
  <2> QED
    BY <1>4, <2>2, <2>3
<1>6. f \in [Nat -> Nat]
  <2> HIDE DEF pick
  <2> QED
    BY <1>3
<1> HIDE DEF f
<1> QED
  BY <1>5, <1>6

LEMMA LogIs ==
  /\ Log2 \in [Nat -> Nat]
  /\ \A n \in Nat : Log2[n] = IF n < 2 THEN 0 ELSE 1 + Log2[n \div 2]
<1>1. Log2 = [n \in Nat |-> IF n < 2 THEN 0 ELSE 1 + Log2[n \div 2]]
  BY LogExists DEF Log2
<1>2. \A n \in Nat : Log2[n] = IF n < 2 THEN 0 ELSE 1 + Log2[n \div 2]
  BY <1>1
<1> DEFINE wrong == {n \in Nat : Log2[n] \notin Nat}
<1>3. CASE wrong # {}
  <2>1. PICK n \in wrong : \A m \in wrong : n <= m
    <3>1. wrong \in SUBSET Nat
      OBVIOUS
    <3> HIDE DEF wrong
    <3> QED
      BY <1>3, <3>1, LeastNat
  <2>2. n < 2 \/ (n \div 2 \in Nat /\ n \div 2 < n)
    OBVIOUS
  <2>3. n < 2 \/ Log2[n \div 2] \in Nat
    BY <2>1, <2>2
  <2>4. Log2[n] \in Nat
    BY <1>2, <2>3
  <2> QED
    BY <2>4
<1>4. CASE wrong = {}
  BY <1>1, <1>2, <1>4
<1> QED
  BY <1>3, <1>4

\* Induction over the halves of numbers.
LEMMA HalvesSet ==
  ASSUME NEW T \in SUBSET Nat, 0 \in T, 1 \in T,
         \A n \in Nat : n >= 2 /\ (\A m \in 0 .. n - 1 : m \in T) => n \in T
  PROVE  T = Nat
<1>1. CASE Nat \ T # {}
  <2>1. PICK n \in Nat \ T : \A m \in Nat \ T : n <= m
    BY <1>1, LeastNat
  <2>2. n >= 2 /\ \A m \in 0 .. n - 1 : m \in T
    BY <2>1
  <2> QED
    BY <2>1, <2>2
<1> QED
  BY <1>1

LEMMA LogMonotone == \A n, m \in Nat : m <= n => Log2[m] <= Log2[n]
<1> DEFINE T == {n \in Nat : \A m \in 0 .. n : Log2[m] <= Log2[n]}
<1>1. 0 \in T /\ 1 \in T
  BY LogIs
<1>2. ASSUME NEW n \in Nat, n >= 2, \A m \in 0 .. n - 1 : m \in T PROVE n \in T
  <2>1. ASSUME NEW m \in 0 .. n PROVE Log2[m] <= Log2[n]
    <3>1. /\ n \div 2 \in 0 .. n - 1 /\ m \div 2 \in 0 .. n \div 2 /\ m \in Nat
          /\ Log2[n \div 2] \in Nat /\ Log2[m \div 2] \in Nat
      BY <1>2, <2>1, LogIs
    <3>2. Log2[m \div 2] <= Log2[n \div 2]
      BY <1>2, <3>1
    <3>3. Log2[n] = 1 + Log2[n \div 2] /\ Log2[m] = IF m < 2 THEN 0 ELSE 1 + Log2[m \div 2]
      BY <1>2, <3>1, LogIs
    <3> QED
      BY <3>1, <3>2, <3>3
  <2> QED
    BY <2>1
<1>3. T = Nat
  <2> HIDE DEF T
  <2>1. T \in SUBSET Nat
    BY DEF T
  <2> QED
    BY <1>1, <1>2, <2>1, HalvesSet
<1> QED
  BY <1>3

LEMMA LogNext == \A n \in Nat : Log2[n + 1] <= Log2[n] + 1
<1> DEFINE T == {n \in Nat : Log2[n + 1] <= Log2[n] + 1}
<1>1. 0 \in T /\ 1 \in T
  BY LogIs
<1>2. ASSUME NEW n \in Nat, n >= 2, \A m \in 0 .. n - 1 : m \in T PROVE n \in T
  <2>1. /\ n \div 2 \in 0 .. n - 1 /\ (n + 1) \div 2 \in Nat /\ (n + 1) \div 2 <= n \div 2 + 1
        /\ n \div 2 \in Nat /\ n \div 2 + 1 \in Nat
    BY <1>2
  <2>2. Log2[n \div 2 + 1] <= Log2[n \div 2] + 1
    BY <1>2, <2>1
  <2>3. Log2[(n + 1) \div 2] <= Log2[n \div 2 + 1]
    BY <2>1, LogMonotone
  <2>4. /\ Log2[n] = 1 + Log2[n \div 2] /\ Log2[n + 1] = 1 + Log2[(n + 1) \div 2]
        /\ Log2[n \div 2] \in Nat /\ Log2[n \div 2 + 1] \in Nat /\ Log2[(n + 1) \div 2] \in Nat
    BY <1>2, <2>1, LogIs
  <2>5. Log2[n + 1] <= Log2[n] + 1
    <3> HIDE DEF T
    <3> QED
      BY <2>2, <2>3, <2>4
  <2> QED
    BY <2>5
<1>3. T = Nat
  <2> HIDE DEF T
  <2>1. T \in SUBSET Nat
    BY DEF T
  <2> QED
    BY <1>1, <1>2, <2>1, HalvesSet
<1> QED
  BY <1>3

\* The last position of a range has a bit that the range's filter shows.
LEMMA LogSum ==
  \A p, w \in Nat : w >= 1 /\ p + w >= 1 => Log2[p + w - 1] <= Log2[p] + Log2[w]
<1> DEFINE T == {p \in Nat : \A w \in Nat : w >= 1 => Log2[p + w - 1] <= Log2[p] + Log2[w]}
<1>1. 0 \in T /\ 1 \in T
  <2>1. Log2[0] = 0 /\ Log2[1] = 0
    BY LogIs
  <2>2. ASSUME NEW w \in Nat, w >= 1
        PROVE  Log2[0 + w - 1] <= Log2[w] /\ Log2[1 + w - 1] = Log2[w] /\ Log2[w] \in Nat
    <3>1. w - 1 \in Nat /\ 0 + w - 1 = w - 1 /\ 1 + w - 1 = w /\ w - 1 <= w
      BY <2>2
    <3> QED
      BY <3>1, LogIs, LogMonotone
  <2> QED
    BY <2>1, <2>2
<1>2. ASSUME NEW p \in Nat, p >= 2, \A m \in 0 .. p - 1 : m \in T PROVE p \in T
  <2>1. ASSUME NEW w \in Nat, w >= 1 PROVE Log2[p + w - 1] <= Log2[p] + Log2[w]
    <3>1. CASE w = 1
      BY <3>1, LogIs
    <3>2. CASE w >= 2
      <4> DEFINE a == p \div 2
                 b == w \div 2
      <4>1. /\ a \in 0 .. p - 1 /\ b \in Nat /\ b >= 1 /\ a >= 1
            /\ a + b - 1 \in Nat /\ a + b \in Nat /\ a + b = (a + b - 1) + 1
            /\ p + w - 1 \in Nat /\ p + w - 1 >= 2
            /\ (p + w - 1) \div 2 \in Nat /\ (p + w - 1) \div 2 <= a + b
        BY <1>2, <3>2
      <4>2. Log2[a + b - 1] <= Log2[a] + Log2[b]
        BY <1>2, <4>1
      <4>3. /\ Log2[p] = 1 + Log2[a] /\ Log2[w] = 1 + Log2[b]
            /\ Log2[p + w - 1] = 1 + Log2[(p + w - 1) \div 2]
        <5>1. \A n \in Nat : n >= 2 => Log2[n] = 1 + Log2[n \div 2]
          BY LogIs
        <5> QED
          BY <1>2, <3>2, <4>1, <5>1
      <4> HIDE DEF a, b, T
      <4>4. Log2[(p + w - 1) \div 2] <= Log2[a + b] /\ Log2[a + b] <= Log2[a + b - 1] + 1
        BY <4>1, LogMonotone, LogNext
      <4>5. /\ Log2[a] \in Nat /\ Log2[b] \in Nat /\ Log2[a + b - 1] \in Nat
            /\ Log2[a + b] \in Nat /\ Log2[(p + w - 1) \div 2] \in Nat
        BY <4>1, LogIs
      <4> QED
        BY <4>2, <4>3, <4>4, <4>5
    <3> QED
      BY <2>1, <3>1, <3>2
  <2> QED
    BY <2>1
<1>3. T = Nat
  <2> HIDE DEF T
  <2>1. T \in SUBSET Nat
    BY DEF T
  <2> QED
    BY <1>1, <1>2, <2>1, HalvesSet
<1> QED
  BY <1>3

IsRange(r) == r.pos \in Nat /\ r.right \in Nat /\ r.pos < r.right /\ r.right <= Beyond

\* Ranges that meet share a bit (BlockByRWRIndexer::bloom_calc, where bits are
\* lost at the width of a word): that of the position of the one that begins last.
THEOREM BitsMeet ==
  ASSUME NEW a, NEW b, IsRange(a), IsRange(b), RangesMeet(a, b)
  PROVE  Bits(a) \cap Bits(b) # {}
<1>1. ASSUME NEW r, IsRange(r), NEW n \in Nat, r.pos <= n, n < r.right
      PROVE  Log2[n] \in Bits(r)
  <2>1. /\ r.pos \in Nat /\ r.right - r.pos \in Nat /\ r.right - r.pos >= 1
        /\ r.pos + (r.right - r.pos) - 1 = r.right - 1 /\ r.right - 1 \in Nat /\ n <= r.right - 1
        /\ n <= Beyond /\ Beyond \in Nat /\ r.pos + (r.right - r.pos) >= 1
    BY <1>1, WordAssumption DEF IsRange
  <2>2. Log2[r.pos] <= Log2[n] /\ Log2[n] <= Log2[r.right - 1] /\ Log2[n] <= Log2[Beyond]
    <3>1. n \in Nat /\ r.pos \in Nat /\ r.right - 1 \in Nat /\ Beyond \in Nat
      BY <2>1
    <3>2. Log2[r.pos] <= Log2[n]
      BY <1>1, <3>1, LogMonotone
    <3>3. Log2[n] <= Log2[r.right - 1]
      BY <2>1, <3>1, LogMonotone
    <3>4. Log2[n] <= Log2[Beyond]
      BY <2>1, <3>1, LogMonotone
    <3> QED
      BY <3>2, <3>3, <3>4
  <2>3. Log2[r.right - 1] <= Log2[r.pos] + Log2[r.right - r.pos]
    <3>1. Log2[r.pos + (r.right - r.pos) - 1] <= Log2[r.pos] + Log2[r.right - r.pos]
      BY <2>1, LogSum
    <3> QED
      BY <2>1, <3>1
  <2>4. /\ Log2[r.pos] \in Nat /\ Log2[n] \in Nat /\ Log2[r.right - 1] \in Nat
        /\ Log2[r.right - r.pos] \in Nat /\ Log2[Beyond] \in Nat
    BY <2>1, LogIs
  <2> QED
    BY <2>2, <2>3, <2>4 DEF Bits, Smaller
<1>2. CASE a.pos <= b.pos
  BY <1>1, <1>2 DEF IsRange, RangesMeet
<1>3. CASE b.pos <= a.pos
  BY <1>1, <1>3 DEF IsRange, RangesMeet
<1> QED
  BY <1>2, <1>3 DEF IsRange

\* What the indexes of a bucket say of a block they know.
RangeCovered(index, block) ==
  /\ Bits(block.range) \subseteq index.bits
  /\ index.left <= block.range.pos /\ block.range.right <= index.right
IdCovered(index, block) ==
  block.tx \in index.ids /\ index.low <= block.tx /\ block.tx <= index.high

-----------------------------------------------------------------------------
(* The invariant.                                                          *)

Blocks == UNION {Asks[t] : t \in Thread}
IndexT == [bits : SUBSET Nat, left : Nat, right : Nat, ids : SUBSET Nat, low : Nat, high : Nat]
BucketT == [slots : Seq(Nat), present : SUBSET Nat, valid : BOOLEAN, index : IndexT]
ItemT == [range : Blocks, tx : Nat, type : {"init", "wr", "garbage"}]
CallT == [op : {"idle", "write", "read", "drop", "apply", "remove"}, pc : Places,
          at : Nat, slot : Nat \ {0}, own : Nat, key : Nat, range : Blocks \cup {Nothing},
          removed : BOOLEAN, must : SUBSET Nat]

ListType ==
  /\ buckets \in Seq(BucketT) /\ item \in Seq(ItemT)
  /\ tx \in [Thread -> Nat] /\ begun \in Nat
  /\ call \in [Thread -> CallT]
  /\ closing \in {"open", "waiting", "closed"}

\* Blocks stand in the slots given out, the indexes know those that are present,
\* and a garbage bucket is full and has none.
BucketOK(b) ==
  /\ Len(buckets[b].slots) <= Capacity
  /\ buckets[b].present \subseteq DOMAIN buckets[b].slots
  /\ ~buckets[b].valid => buckets[b].present = {} /\ Full(buckets[b])
  /\ \A s \in DOMAIN buckets[b].slots : buckets[b].slots[s] \in DOMAIN item
  /\ \A s \in buckets[b].present :
       /\ RangeCovered(buckets[b].index, item[buckets[b].slots[s]])
       /\ IdCovered(buckets[b].index, item[buckets[b].slots[s]])

\* A block is given one slot at most.
OnePlace ==
  \A b, c \in DOMAIN buckets :
    \A s \in DOMAIN buckets[b].slots, r \in DOMAIN buckets[c].slots :
      buckets[b].slots[s] = buckets[c].slots[r] => b = c /\ s = r

\* Where a call may be, and what it has then.
Appends(t) == call[t].pc \in {"seek", "lock", "index", "index_id", "publish", "append"}

Role(t) ==
  /\ (call[t].pc = "out" <=> call[t].op = "idle")
  /\ Appends(t) \/ call[t].pc = "refuse" => call[t].op = "write"
  /\ call[t].pc \in {"clear", "mark"} => call[t].op \in {"drop", "remove"}
  /\ call[t].op = "write" => call[t].own \in DOMAIN item /\ call[t].range = item[call[t].own].range
  /\ call[t].op = "read" => call[t].own = NoItem
  /\ ByRange(call[t].op) => call[t].range \in Blocks
  /\ Appends(t) \/ call[t].pc \in {"out", "start"} => call[t].must = {}
  /\ Appends(t) \/ call[t].pc \in {"out", "start", "bucket", "enter"} => call[t].slot = 1
  /\ call[t].pc \in {"lock", "index", "index_id", "publish", "enter", "slot", "meet", "clear",
                     "mark", "count"} => call[t].at \in DOMAIN buckets
  /\ call[t].pc = "bucket" => call[t].at # 0
  /\ call[t].pc \in {"meet", "clear"} => call[t].slot \in DOMAIN Here(t).slots

\* Whose transaction a call is about.  A writer's block is present until the
\* writer has found it: only the end of the block's transaction removes it.
Seeking == {"start", "bucket", "enter", "slot", "meet", "count"}
Shown(n) == \E b \in DOMAIN buckets : \E s \in buckets[b].present : buckets[b].slots[s] = n

Keys(t) ==
  /\ tx[t] <= begun
  /\ call[t].op \in {"write", "drop", "apply", "remove"} => call[t].key = tx[t] /\ tx[t] # NoTx
  /\ call[t].op = "write" => item[call[t].own].tx = call[t].key
  /\ call[t].op = "write" /\ call[t].pc \in Seeking => Shown(call[t].own)
  /\ call[t].pc = "clear" => item[Met(t)].tx = call[t].key

\* A block that is being appended stands nowhere, has room kept for it, and the
\* indexes know it before it is present.
Own(t) ==
  /\ Appends(t) =>
       \A b \in DOMAIN buckets : \A s \in DOMAIN buckets[b].slots : buckets[b].slots[s] # call[t].own
  /\ call[t].pc \in {"index", "index_id", "publish"} =>
       Here(t).valid /\ Len(Here(t).slots) < Capacity
  /\ call[t].pc \in {"index_id", "publish"} => RangeCovered(Here(t).index, item[call[t].own])
  /\ call[t].pc = "publish" => IdCovered(Here(t).index, item[call[t].own])
  /\ call[t].pc = "mark" => Here(t).present = {} /\ Full(Here(t))

\* The blocks a traversal has still to meet are those it has not passed.
Ahead(t, b, s) ==
  \/ call[t].pc \in {"bucket", "enter", "slot", "meet", "clear"} /\ call[t].at < b
  \/ call[t].pc \in {"bucket", "enter", "slot", "meet", "clear"} /\ call[t].at = b /\ call[t].slot <= s
  \/ call[t].pc \in {"mark", "count"} /\ call[t].at < b
  \/ call[t].pc = "refuse"

Scan(t) ==
  /\ \A n \in call[t].must : n \in DOMAIN item /\ Concerns(call[t], n)
  /\ call[t].op # "drop" =>
       \A b \in DOMAIN buckets : \A s \in buckets[b].present :
         buckets[b].slots[s] \in call[t].must => Ahead(t, b, s)
  /\ call[t].op = "write" /\ call[t].pc \in {"bucket", "enter", "slot", "meet", "count"} =>
       \A b, c \in DOMAIN buckets : \A s \in buckets[b].present, r \in buckets[c].present :
         buckets[b].slots[s] \in call[t].must /\ buckets[c].slots[r] = call[t].own =>
           b < c \/ (b = c /\ s <= r)

\* Of two threads, neither appends a block the other has or looks for, neither is
\* in the other's transaction, and both do not have a bucket's unique lock.
Apart(t, u) ==
  /\ tx[t] # NoTx => tx[t] # tx[u]
  /\ call[t].op = "write" /\ call[u].op = "write" => call[t].own # call[u].own
  /\ Appends(t) => call[t].own \notin call[u].must
  /\ call[t].pc \in {"index", "index_id", "publish"} 
       /\ call[u].pc \in {"index", "index_id", "publish"} => call[t].at # call[u].at

CallOK(t) == Role(t) /\ Keys(t) /\ Own(t) /\ Scan(t)

ListInv ==
  /\ ListType
  /\ \A b \in DOMAIN buckets : BucketOK(b)
  /\ OnePlace
  /\ \A t \in Thread : CallOK(t)
  /\ \A t, u \in Thread : t # u => Apart(t, u)
  /\ closing # "open" => \A t \in Thread : (call[t] = Idle /\ tx[t] = NoTx)

-----------------------------------------------------------------------------
(* What a step of one thread leaves to the others.                         *)

ItemsKept ==
  /\ item' \in Seq(ItemT) /\ DOMAIN item \subseteq DOMAIN item'
  /\ \A n \in DOMAIN item : item'[n].range = item[n].range /\ item'[n].tx = item[n].tx

Wider(old, new) ==
  /\ old.bits \subseteq new.bits /\ new.left <= old.left /\ old.right <= new.right
  /\ old.ids \subseteq new.ids /\ new.low <= old.low /\ old.high <= new.high

Removes(t, n) == call[t].op \in {"drop", "remove"} /\ item[n].tx = call[t].key

\* Buckets are added, indexes widen, full buckets only lose blocks, the only block
\* that turns up is the one the thread appends, and those that go are its own.
BucketsGrow(t) ==
  /\ buckets' \in Seq(BucketT) /\ DOMAIN buckets \subseteq DOMAIN buckets'
  /\ \A b \in DOMAIN buckets :
       /\ Wider(buckets[b].index, buckets'[b].index)
       /\ Full(buckets[b]) => Full(buckets'[b]) /\ buckets'[b].present \subseteq buckets[b].present
       /\ \A s \in DOMAIN buckets[b].slots :
            s \in DOMAIN buckets'[b].slots /\ buckets'[b].slots[s] = buckets[b].slots[s]
       /\ \A s \in buckets[b].present :
            s \in buckets'[b].present \/ Removes(t, buckets[b].slots[s])
  /\ \A b \in DOMAIN buckets' : buckets'[b].present \subseteq DOMAIN buckets'[b].slots
  /\ \A b \in DOMAIN buckets' : \A s \in DOMAIN buckets'[b].slots :
       \/ /\ b \in DOMAIN buckets /\ s \in DOMAIN buckets[b].slots
          /\ s \in buckets'[b].present => s \in buckets[b].present
       \/ Appends(t) /\ buckets'[b].slots[s] = call[t].own

Untouched(u) ==
  call[u].pc \in {"index", "index_id", "publish"} =>
    /\ buckets'[call[u].at].slots = Here(u).slots
    /\ buckets'[call[u].at].valid = Here(u).valid

LEMMA WiderShows ==
  ASSUME NEW old \in IndexT, NEW new \in IndexT, Wider(old, new), NEW block \in ItemT
  PROVE  /\ RangeCovered(old, block) => RangeCovered(new, block)
         /\ IdCovered(old, block) => IdCovered(new, block)
<1>1. \A r \in Blocks : r.pos \in Nat /\ r.right \in Nat
  BY RangeAssumption DEF Blocks
<1> QED
  BY <1>1 DEF Wider, RangeCovered, IdCovered, IndexT, ItemT

\* A block that a bucket's indexes know is not hidden from who looks for it.
LEMMA IndexShows ==
  ASSUME ListType, NEW t \in Thread, NEW index \in IndexT, NEW n \in DOMAIN item,
         Concerns(call[t], n), ByRange(call[t].op) => call[t].range \in Blocks,
         RangeCovered(index, item[n]), IdCovered(index, item[n])
  PROVE  Check(call[t], index)
<1>1. item[n] \in ItemT
  BY DEF ListType
<1>2. \A r \in Blocks : IsRange(r)
  BY RangeAssumption DEF Blocks, IsRange
<1>3. CASE ByRange(call[t].op)
  <2>1. IsRange(item[n].range) /\ IsRange(call[t].range) /\ RangesMeet(item[n].range, call[t].range)
    BY <1>1, <1>2, <1>3 DEF ItemT, Concerns
  <2>2. Bits(item[n].range) \cap Bits(call[t].range) # {}
    BY <2>1, BitsMeet
  <2>3. Bits(call[t].range) \cap index.bits # {}
    BY <2>2 DEF RangeCovered
  <2>4. call[t].range.pos < index.right /\ call[t].range.right > index.left
    BY <2>1 DEF RangeCovered, RangesMeet, IsRange, IndexT
  <2> QED
    BY <1>3, <2>3, <2>4 DEF Check, RangeCheck
<1>4. CASE ~ByRange(call[t].op)
  BY <1>4 DEF Check, IdCheck, Concerns, IdCovered
<1> QED
  BY <1>3, <1>4

LEMMA OtherKept ==
  ASSUME ListInv, NEW t \in Thread, NEW u \in Thread, t # u, ItemsKept, BucketsGrow(t),
         Untouched(u), call'[u] = call[u], tx'[u] = tx[u], begun <= begun', begun' \in Nat
  PROVE  CallOK(u)'
<1>1. CallOK(u) /\ Apart(t, u) /\ Apart(u, t) /\ call[u] \in CallT /\ call[t] \in CallT
  BY DEF ListInv, ListType
<1>2. Role(u)'
  BY <1>1 DEF CallOK, Role, ItemsKept, BucketsGrow, Appends, Here
<1>6. Keys(u)'
  <2>1. /\ Keys(u) /\ Keys(t) /\ Role(u) /\ begun \in Nat /\ tx[u] \in Nat
        /\ \A n \in DOMAIN item : item'[n].tx = item[n].tx
    BY <1>1 DEF CallOK, ItemsKept, ListInv, ListType
  <2>2. tx'[u] <= begun'
    BY <2>1 DEF Keys
  <2>3. call[u].op = "write" => item'[call[u].own].tx = call[u].key
    BY <2>1 DEF Keys, Role
  <2>4. CASE call[u].op = "write" /\ call[u].pc \in Seeking
    <3>1. PICK b \in DOMAIN buckets : \E s \in buckets[b].present : buckets[b].slots[s] = call[u].own
      BY <2>1, <2>4 DEF Keys, Shown
    <3>2. PICK s \in buckets[b].present : buckets[b].slots[s] = call[u].own
      BY <3>1
    <3>3. s \in DOMAIN buckets[b].slots
      BY <3>2 DEF ListInv, BucketOK
    <3>4. ~Removes(t, call[u].own)
      BY <1>1, <2>1, <2>4 DEF Keys, Removes, Apart
    <3>5. b \in DOMAIN buckets' /\ s \in buckets'[b].present /\ buckets'[b].slots[s] = call[u].own
      BY <3>2, <3>3, <3>4 DEF BucketsGrow
    <3>6. Shown(call[u].own)'
      BY <3>5 DEF Shown
    <3> QED
      BY <2>1, <2>2, <2>3, <2>4, <3>6 DEF Keys, Seeking
  <2>5. CASE call[u].pc = "clear"
    <3>1. call[u].at \in DOMAIN buckets /\ call[u].slot \in DOMAIN Here(u).slots
      BY <2>1, <2>5 DEF Role
    <3>2. Met(u)' = Met(u) /\ Met(u) \in DOMAIN item
      BY <3>1 DEF Met, Here, BucketsGrow, ListInv, BucketOK
    <3> QED
      BY <2>1, <2>2, <2>3, <2>5, <3>2 DEF Keys, Seeking
  <2> QED
    BY <2>1, <2>2, <2>3, <2>4, <2>5 DEF Keys
<1>3. call[u].at \in DOMAIN buckets => /\ Here(u) \in BucketT /\ buckets'[call[u].at] \in BucketT
                                       /\ Wider(Here(u).index, buckets'[call[u].at].index)
                                       /\ call[u].at \in DOMAIN buckets'
  BY DEF BucketsGrow, ListInv, ListType, Here
<1>4. Own(u)'
  <2>1. (Appends(u) =>
          \A b \in DOMAIN buckets : \A s \in DOMAIN buckets[b].slots : buckets[b].slots[s] # call[u].own)'
    <3>1. SUFFICES ASSUME Appends(u), NEW b \in DOMAIN buckets', NEW s \in DOMAIN buckets'[b].slots,
                          buckets'[b].slots[s] = call[u].own
                   PROVE  FALSE
      BY DEF Appends
    <3>2. call[u].op = "write" /\ (Appends(t) => call[t].op = "write")
      BY <1>1, <3>1 DEF CallOK, Role, ListInv
    <3>3. ~(Appends(t) /\ call[t].own = call[u].own)
      BY <1>1, <3>2 DEF Apart
    <3> QED
      BY <1>1, <3>1, <3>3 DEF BucketsGrow, CallOK, Own
  <2>2. CASE call[u].pc \in {"index", "index_id", "publish"}
    <3>1. call[u].at \in DOMAIN buckets /\ call[u].own \in DOMAIN item /\ item[call[u].own] \in ItemT
      BY <1>1, <2>2 DEF CallOK, Role, Appends, ListInv, ListType
    <3>2. Here(u).valid /\ Len(Here(u).slots) < Capacity
      BY <1>1, <2>2 DEF CallOK, Own
    <3>3. (Here(u).valid /\ Len(Here(u).slots) < Capacity)'
      BY <2>2, <3>2 DEF Here, Untouched
    <3>4. /\ call[u].pc \in {"index_id", "publish"} =>
               RangeCovered(buckets'[call[u].at].index, item[call[u].own])
          /\ call[u].pc = "publish" => IdCovered(buckets'[call[u].at].index, item[call[u].own])
      BY <1>1, <1>3, <3>1, WiderShows DEF CallOK, Own, BucketT
    <3>5. /\ call[u].pc \in {"index_id", "publish"} =>
               RangeCovered(buckets'[call[u].at].index, item'[call[u].own])
          /\ call[u].pc = "publish" => IdCovered(buckets'[call[u].at].index, item'[call[u].own])
      BY <3>1, <3>4 DEF ItemsKept, RangeCovered, IdCovered
    <3> QED
      BY <2>1, <2>2, <3>3, <3>5 DEF Own, Here
  <2>3. CASE call[u].pc = "mark"
    <3>1. call[u].at \in DOMAIN buckets /\ Here(u).present = {} /\ Full(Here(u))
      BY <1>1, <2>3 DEF CallOK, Role, Own
    <3>2. buckets'[call[u].at].present = {} /\ Full(buckets'[call[u].at])
      BY <3>1 DEF BucketsGrow, Here
    <3> QED
      BY <2>1, <2>3, <3>2 DEF Own, Here
  <2> QED
    BY <2>1, <2>2, <2>3 DEF Own
<1>5. Scan(u)'
  <2>1. (\A n \in call[u].must : n \in DOMAIN item /\ Concerns(call[u], n))'
    BY <1>1 DEF CallOK, Scan, ItemsKept, Concerns
  <2>2. ASSUME NEW b \in DOMAIN buckets', NEW s \in buckets'[b].present
        PROVE  \/ /\ b \in DOMAIN buckets /\ s \in buckets[b].present
                  /\ buckets'[b].slots[s] = buckets[b].slots[s]
               \/ /\ buckets'[b].slots[s] \notin call[u].must
                  /\ call[u].op = "write" => buckets'[b].slots[s] # call[u].own
    <3>1. Appends(t) => call[t].op = "write"
      BY DEF ListInv, CallOK, Role
    <3>2. s \in DOMAIN buckets'[b].slots
      BY DEF BucketsGrow
    <3> QED
      BY <1>1, <2>2, <3>1, <3>2 DEF BucketsGrow, Apart
  <2>3. (call[u].op # "drop" =>
           \A b \in DOMAIN buckets : \A s \in buckets[b].present :
             buckets[b].slots[s] \in call[u].must => Ahead(u, b, s))'
    BY <1>1, <2>2 DEF CallOK, Scan, Ahead
  <2>4. (call[u].op = "write" /\ call[u].pc \in {"bucket", "enter", "slot", "meet", "count"} =>
           \A b, c \in DOMAIN buckets : \A s \in buckets[b].present, r \in buckets[c].present :
             buckets[b].slots[s] \in call[u].must /\ buckets[c].slots[r] = call[u].own =>
               b < c \/ (b = c /\ s <= r))'
    <3>1. SUFFICES ASSUME call[u].op = "write", call[u].pc \in {"bucket", "enter", "slot", "meet", "count"},
                          NEW b \in DOMAIN buckets', NEW c \in DOMAIN buckets',
                          NEW s \in buckets'[b].present, NEW r \in buckets'[c].present,
                          buckets'[b].slots[s] \in call[u].must, buckets'[c].slots[r] = call[u].own
                   PROVE  b < c \/ (b = c /\ s <= r)
      OBVIOUS
    <3>2. /\ b \in DOMAIN buckets /\ s \in buckets[b].present /\ c \in DOMAIN buckets
          /\ r \in buckets[c].present
          /\ buckets[b].slots[s] \in call[u].must /\ buckets[c].slots[r] = call[u].own
      BY <2>2, <3>1
    <3> QED
      BY <1>1, <3>1, <3>2 DEF CallOK, Scan
  <2> QED
    BY <2>1, <2>3, <2>4 DEF Scan
<1> QED
  BY <1>2, <1>4, <1>5, <1>6 DEF CallOK

\* The step of one thread keeps the invariant if it keeps its own part of it.
OneCalls(t) ==
  /\ call' \in [Thread -> CallT] /\ tx' \in [Thread -> Nat] /\ begun' \in Nat
  /\ begun <= begun' /\ tx'[t] <= begun'
  /\ \A u \in Thread \ {t} : call'[u] = call[u] /\ tx'[u] = tx[u]
  /\ closing = "open" /\ closing' = "open"

LEMMA StepOfOne ==
  ASSUME ListInv, NEW t \in Thread, OneCalls(t), ItemsKept, BucketsGrow(t),
         \A u \in Thread \ {t} : Untouched(u),
         \A b \in DOMAIN buckets' : BucketOK(b)',
         OnePlace', CallOK(t)', \A u \in Thread \ {t} : Apart(t, u)' /\ Apart(u, t)'
  PROVE  ListInv'
<1>1. ListType'
  BY DEF OneCalls, ItemsKept, BucketsGrow, ListType
<1>2. ASSUME NEW u \in Thread PROVE CallOK(u)'
  BY OtherKept DEF OneCalls
<1>3. ASSUME NEW u \in Thread, NEW v \in Thread, u # v PROVE Apart(u, v)'
  <2>1. CASE u # t /\ v # t
    <3>1. /\ call'[u] = call[u] /\ call'[v] = call[v] /\ tx'[u] = tx[u] /\ tx'[v] = tx[v]
          /\ Apart(u, v)
      BY <1>3, <2>1 DEF OneCalls, ListInv
    <3> QED
      BY <3>1 DEF Apart, Appends
  <2>2. CASE u = t \/ v = t
    BY <1>3, <2>2
  <2> QED
    BY <2>1, <2>2
<1> QED
  BY <1>1, <1>2, <1>3 DEF ListInv, OneCalls

\* One that leaves the buckets alone.
LEMMA StepOfCall ==
  ASSUME ListInv, NEW t \in Thread, OneCalls(t), ItemsKept, buckets' = buckets,
         CallOK(t)', \A u \in Thread \ {t} : Apart(t, u)' /\ Apart(u, t)'
  PROVE  ListInv'
<1>1. \A b \in DOMAIN buckets : buckets[b].index \in IndexT
  <2>1. \A b \in DOMAIN buckets : buckets[b] \in BucketT
    BY DEF ListInv, ListType
  <2> QED
    BY <2>1 DEF BucketT
<1>2. BucketsGrow(t)
  <2>1. \A b \in DOMAIN buckets : /\ Wider(buckets[b].index, buckets[b].index)
                                  /\ buckets[b].present \subseteq DOMAIN buckets[b].slots
    BY <1>1 DEF Wider, IndexT, ListInv, BucketOK
  <2> QED
    BY <2>1 DEF BucketsGrow, ListInv, ListType
<1>3. \A u \in Thread \ {t} : Untouched(u)
  BY DEF Untouched, Here
<1>4. ASSUME NEW b \in DOMAIN buckets' PROVE BucketOK(b)'
  BY DEF ListInv, BucketOK, Full, ItemsKept, RangeCovered, IdCovered
<1>5. OnePlace'
  BY DEF ListInv, OnePlace
<1> QED
  BY <1>2, <1>3, <1>4, <1>5, StepOfOne

\* A thread that claims nothing new stays apart from the others.
LEMMA StaysApart ==
  ASSUME ListInv, NEW t \in Thread, OneCalls(t), tx'[t] = tx[t] \/ tx'[t] = NoTx,
         call'[t].op = "write" => call[t].op = "write" /\ call'[t].own = call[t].own,
         call'[t].must \subseteq call[t].must, Appends(t)' => Appends(t),
         Appends(t) => call'[t].own = call[t].own,
         call'[t].pc \in {"index", "index_id", "publish"} =>
           call[t].pc \in {"index", "index_id", "publish"} /\ call'[t].at = call[t].at
  PROVE  \A u \in Thread \ {t} : Apart(t, u)' /\ Apart(u, t)'
<1> SUFFICES ASSUME NEW u \in Thread \ {t} PROVE Apart(t, u)' /\ Apart(u, t)'
  OBVIOUS
<1>1. Apart(t, u) /\ Apart(u, t) /\ call'[u] = call[u] /\ tx'[u] = tx[u]
  BY DEF ListInv, OneCalls
<1>2. Apart(t, u)'
  BY <1>1 DEF Apart, Appends
<1>3. Apart(u, t)'
  BY <1>1 DEF Apart, Appends
<1> QED
  BY <1>2, <1>3

\* A step inside a call, which leaves the transactions as they are.
LEMMA CallTurns ==
  ASSUME ListInv, NEW t \in Thread, call' \in [Thread -> CallT],
         \A u \in Thread \ {t} : call'[u] = call[u],
         UNCHANGED <<tx, begun, closing>>, closing = "open"
  PROVE  OneCalls(t) /\ tx'[t] = tx[t]
<1>1. tx \in [Thread -> Nat] /\ begun \in Nat /\ tx[t] <= begun
  BY DEF ListInv, ListType, CallOK, Keys
<1> QED
  BY <1>1 DEF OneCalls

LEMMA KeysStay ==
  ASSUME ListInv, NEW t \in Thread, UNCHANGED <<tx, begun>>, ItemsKept,
         call'[t].op = call[t].op, call'[t].own = call[t].own, call'[t].key = call[t].key,
         call[t].op = "write" /\ call'[t].pc \in Seeking => Shown(call[t].own)',
         call'[t].pc = "clear" => (item[Met(t)].tx = call[t].key)'
  PROVE  Keys(t)'
<1>1. Keys(t) /\ Role(t)
  BY DEF ListInv, CallOK
<1> QED
  BY <1>1 DEF Keys, Role, ItemsKept, Shown

\* A call that is in the list has begun before the list is closed.
LEMMA CallsWhileOpen ==
  ASSUME ListInv, NEW t \in Thread, call[t].pc # "out" \/ tx[t] # NoTx
  PROVE  closing = "open"
BY DEF ListInv, Idle

-----------------------------------------------------------------------------
(* Requests.                                                               *)

LEMMA IdleIs ==
  /\ Idle \in CallT
  /\ Idle.pc = "out" /\ Idle.op = "idle" /\ Idle.own = NoItem /\ Idle.must = {} /\ Idle.slot = 1
<1>1. /\ "idle" \in {"idle", "write", "read", "drop", "apply", "remove"} /\ "out" \in Places
      /\ 0 \in Nat /\ 1 \in Nat \ {0} /\ NoItem \in Nat /\ NoTx \in Nat
      /\ Nothing \in Blocks \cup {Nothing} /\ FALSE \in BOOLEAN /\ {} \in SUBSET Nat
  BY DEF NoItem, NoTx, Places
<1> QED
  BY <1>1 DEF Idle, CallT

LEMMA WriteStep ==
  ASSUME ListInv, NEW t \in Thread, NEW range \in Asks[t], Write(t, range)
  PROVE  ListInv'
<1> DEFINE key == IF tx[t] = NoTx THEN begun + 1 ELSE tx[t]
           c == [Idle EXCEPT !.op = "write", !.pc = "seek",
                   !.own = Len(item) + 1, !.range = range, !.key = key]
<1>1. /\ key \in Nat /\ range \in Blocks /\ begun' \in Nat
      /\ item \in Seq(ItemT) /\ Len(item) \in Nat
  BY DEF ListInv, ListType, Blocks, Write, NoTx
<1>2. /\ tx' = [tx EXCEPT ![t] = key] /\ call' = [call EXCEPT ![t] = c]
      /\ item' = Append(item, [range |-> range, tx |-> key, type |-> "init"])
      /\ closing = "open" /\ UNCHANGED <<buckets, closing>> /\ call[t] = Idle
  BY DEF Write
<1> HIDE DEF key
<1>3. c \in CallT /\ c.op = "write" /\ c.pc = "seek" /\ c.own = Len(item) + 1 /\ c.range = range
      /\ c.must = {} /\ c.slot = 1 /\ c.key = key
  <2>1. Len(item) + 1 \in Nat /\ range \in Blocks \cup {Nothing} /\ "seek" \in Places
    BY <1>1 DEF Places
  <2>2. c \in CallT
    BY <1>1, <2>1, IdleIs DEF CallT
  <2>3. c.op = "write" /\ c.pc = "seek" /\ c.own = Len(item) + 1 /\ c.range = range
    BY IdleIs DEF CallT
  <2>4. c.must = {} /\ c.slot = 1 /\ c.key = key
    BY IdleIs DEF CallT
  <2> QED
    BY <2>2, <2>3, <2>4
<1> HIDE DEF c
<1>4. OneCalls(t)
  <2>1. begun <= begun' /\ key <= begun' /\ key # NoTx
    BY <1>1 DEF Write, key, ListInv, ListType, CallOK, Keys, NoTx
  <2> QED
    BY <1>1, <1>2, <1>3, <2>1 DEF OneCalls, ListInv, ListType
<1>5. ItemsKept
  <2>1. [range |-> range, tx |-> key, type |-> "init"] \in ItemT
    BY <1>1 DEF ItemT
  <2> QED
    BY <1>1, <1>2, <2>1 DEF ItemsKept
<1>6. call'[t] = c /\ item'[Len(item) + 1].range = range /\ Len(item) + 1 \in DOMAIN item'
      /\ Len(item) + 1 \notin DOMAIN item
  BY <1>1, <1>2 DEF ListInv, ListType
<1>7. CallOK(t)'
  <2>1. Role(t)'
    BY <1>3, <1>6, <1>1 DEF Role, Appends, ByRange
  <2>2. Own(t)'
    BY <1>2, <1>3, <1>6 DEF Own, Appends, ListInv, BucketOK
  <2>3. Scan(t)'
    BY <1>3, <1>6 DEF Scan
  <2>4. Keys(t)'
    <3>1. tx'[t] = key /\ key # NoTx /\ key <= begun' /\ item'[Len(item) + 1].tx = key
      BY <1>1, <1>2 DEF Write, key, ListInv, ListType, CallOK, Keys, NoTx
    <3> QED
      BY <1>3, <1>6, <3>1 DEF Keys, Seeking
  <2> QED
    BY <2>1, <2>2, <2>3, <2>4 DEF CallOK
<1>8. ASSUME NEW u \in Thread \ {t} PROVE Apart(t, u)' /\ Apart(u, t)'
  <2>1. /\ call'[u] = call[u] /\ call[u].must \subseteq DOMAIN item
        /\ call[u].op = "write" => call[u].own \in DOMAIN item
    BY <1>2 DEF ListInv, ListType, CallOK, Role, Scan
  <2>2. /\ tx'[u] = tx[u] /\ tx'[t] = key /\ tx[u] <= begun /\ tx[u] \in Nat
        /\ tx[t] # NoTx => tx[t] # tx[u]
    BY <1>2 DEF ListInv, ListType, CallOK, Keys, Apart
  <2>3. tx'[t] # tx'[u]
    BY <1>1, <2>2 DEF key, ListInv, ListType
  <2> QED
    BY <1>3, <1>6, <2>1, <2>3 DEF Apart, Appends
<1> QED
  BY <1>2, <1>4, <1>5, <1>7, <1>8, StepOfCall

\* The other requests begin a traversal of their own.
LEMMA AsksStep ==
  ASSUME ListInv, NEW t \in Thread, NEW c \in CallT, call' = [call EXCEPT ![t] = c],
         c.pc = "start", c.op \in {"read", "drop", "apply", "remove"}, c.must = {}, c.slot = 1,
         c.op = "read" => c.range \in Blocks, c.own = NoItem,
         c.op # "read" => c.key = tx[t] /\ tx[t] # NoTx,
         ItemsKept, UNCHANGED <<buckets, tx, begun, closing>>, closing = "open"
  PROVE  ListInv'
<1>1. OneCalls(t) /\ call'[t] = c
  BY CallTurns DEF ListInv, ListType
<1>2. CallOK(t)'
  <2>1. Keys(t)
    BY DEF ListInv, CallOK
  <2> QED
    BY <1>1, <2>1 DEF CallOK, Role, Keys, Own, Scan, Appends, ByRange
<1>3. \A u \in Thread \ {t} : Apart(t, u)' /\ Apart(u, t)'
  BY <1>1 DEF ListInv, OneCalls, Apart, Appends
<1> QED
  BY <1>1, <1>2, <1>3, StepOfCall

LEMMA RequestStep ==
  ASSUME ListInv, NEW t \in Thread, Request(t)
  PROVE  ListInv'
<1>1. ItemsKept \/ item' # item
  BY DEF ItemsKept, ListInv, ListType
<1>2. ASSUME NEW range \in Asks[t], Write(t, range) PROVE ListInv'
  BY <1>2, WriteStep
<1>3. ASSUME NEW u \in Thread, NEW range \in Asks[t], Read(t, u, range) PROVE ListInv'
  <2> DEFINE c == [Idle EXCEPT !.op = "read", !.pc = "start", !.range = range, !.key = tx[u]]
  <2>1. /\ call' = [call EXCEPT ![t] = c] /\ tx[u] # NoTx /\ tx[u] \in Nat /\ range \in Blocks
        /\ UNCHANGED <<buckets, item, tx, begun, closing>>
    BY <1>3 DEF Read, ListInv, ListType, Blocks
  <2>2. /\ c \in CallT /\ c.pc = "start" /\ c.op = "read" /\ c.must = {} /\ c.slot = 1
        /\ c.range \in Blocks /\ c.own = NoItem
    BY <2>1, IdleIs DEF CallT, Places
  <2> HIDE DEF c
  <2>3. closing = "open"
    BY <2>1, CallsWhileOpen
  <2> QED
    BY <1>1, <2>1, <2>2, <2>3, AsksStep DEF ListInv, ListType
<1>4. ASSUME NEW op \in {"drop", "apply", "remove"}, call[t] = Idle, tx[t] # NoTx,
             call' = [call EXCEPT ![t] = [Idle EXCEPT !.op = op, !.pc = "start", !.key = tx[t]]],
             UNCHANGED <<buckets, item, tx, begun, closing>>
      PROVE  ListInv'
  <2> DEFINE c == [Idle EXCEPT !.op = op, !.pc = "start", !.key = tx[t]]
  <2>1. tx[t] \in Nat
    BY DEF ListInv, ListType
  <2>2. /\ c \in CallT /\ c.pc = "start" /\ c.op = op /\ c.must = {} /\ c.slot = 1
        /\ c.own = NoItem /\ c.key = tx[t]
    BY <2>1, IdleIs DEF CallT, Places
  <2>3. call' = [call EXCEPT ![t] = c]
    BY <1>4
  <2> HIDE DEF c
  <2>4. closing = "open"
    BY <1>4, CallsWhileOpen
  <2> QED
    BY <1>1, <1>4, <2>2, <2>3, <2>4, AsksStep DEF ListInv, ListType
<1>5. CASE Drop(t)
  BY <1>4, <1>5 DEF Drop
<1>6. ASSUME NEW op \in {"apply", "remove"}, End(t, op) PROVE ListInv'
  BY <1>4, <1>6 DEF End
<1> QED
  BY <1>2, <1>3, <1>5, <1>6 DEF Request

-----------------------------------------------------------------------------
(* append.                                                                 *)

\* What every step inside a call has.
LEMMA InCall ==
  ASSUME ListInv, NEW t \in Thread, call[t].pc # "out"
  PROVE  /\ closing = "open" /\ call[t] \in CallT /\ CallOK(t)
         /\ tx \in [Thread -> Nat] /\ begun \in Nat
         /\ item' = item => ItemsKept
BY CallsWhileOpen DEF ListInv, ListType, ItemsKept

LEMMA SeekStep ==
  ASSUME ListInv, NEW t \in Thread, SeekBack(t)
  PROVE  ListInv'
<1>1. /\ call[t].pc = "seek" /\ UNCHANGED <<buckets, item, tx, begun, closing>>
      /\ CallOK(t) /\ call[t] \in CallT /\ closing = "open" /\ ItemsKept
  BY InCall DEF SeekBack
<1>2. PICK pc \in {"lock", "append"}, at \in Nat :
         /\ call' = [call EXCEPT ![t].pc = pc, ![t].at = at]
         /\ pc = "lock" => at \in DOMAIN buckets
  <2>1. /\ Len(buckets) \in Nat /\ (buckets # <<>> => Len(buckets) \in DOMAIN buckets)
        /\ call \in [Thread -> CallT]
    BY DEF ListInv, ListType
  <2>2. CASE call' = [call EXCEPT ![t].pc = "lock", ![t].at = Len(buckets)] /\ buckets # <<>>
    BY <2>1, <2>2
  <2>3. CASE Go(t, "append")
    <3>1. call[t].at \in Nat
      BY <1>1 DEF CallT
    <3>2. call' = [call EXCEPT ![t].pc = "append", ![t].at = call[t].at]
      BY <2>1, <2>3 DEF Go, CallT
    <3> QED
      BY <3>1, <3>2
  <2> QED
    BY <2>2, <2>3 DEF SeekBack
<1>3. /\ call'[t] \in CallT /\ call'[t].pc = pc /\ call'[t].at = at
      /\ call'[t].own = call[t].own /\ call'[t].op = call[t].op /\ call'[t].range = call[t].range
      /\ call'[t].must = call[t].must /\ call'[t].slot = call[t].slot
  BY <1>1, <1>2 DEF ListInv, ListType, CallT, Places
<1>4. OneCalls(t) /\ tx'[t] = tx[t]
  <2>1. call' \in [Thread -> CallT] /\ \A u \in Thread \ {t} : call'[u] = call[u]
    BY <1>2, <1>3 DEF ListInv, ListType
  <2> QED
    BY <1>1, <2>1, CallTurns
<1>5. CallOK(t)'
  <2>4. Keys(t)'
    <3>1. call'[t].key = call[t].key /\ call'[t].pc \notin Seeking /\ call'[t].pc # "clear"
      BY <1>1, <1>2, <1>3 DEF ListInv, ListType, CallT, Seeking
    <3> QED
      BY <1>1, <1>3, <3>1, KeysStay
  <2>1. Role(t)'
    BY <1>1, <1>2, <1>3 DEF CallOK, Role, Appends
  <2>2. Own(t)'
    BY <1>1, <1>2, <1>3, ZenonT(90) DEF CallOK, Own, Appends
  <2>3. Scan(t)'
    BY <1>1, <1>2, <1>3 DEF CallOK, Role, Scan, Appends
  <2> QED
    BY <2>1, <2>2, <2>3, <2>4 DEF CallOK
<1>6. \A u \in Thread \ {t} : Apart(t, u)' /\ Apart(u, t)'
  BY <1>1, <1>2, <1>3, <1>4, StaysApart DEF Appends
<1> QED
  BY <1>1, <1>4, <1>5, <1>6, StepOfCall

LEMMA LockStep ==
  ASSUME ListInv, NEW t \in Thread, LockBack(t)
  PROVE  ListInv'
<1>1. /\ call[t].pc = "lock" /\ UNCHANGED <<buckets, item, tx, begun, closing>>
      /\ CallOK(t) /\ call[t] \in CallT /\ closing = "open" /\ ItemsKept
  BY InCall DEF LockBack
<1>2. call[t].at \in DOMAIN buckets /\ Len(Here(t).slots) \in Nat /\ Len(Here(t).slots) <= Capacity
  <2>1. call[t].at \in DOMAIN buckets
    BY <1>1 DEF CallOK, Role
  <2>2. buckets[call[t].at] \in BucketT
    BY <2>1 DEF ListInv, ListType
  <2> QED
    BY <2>1, <2>2 DEF ListInv, BucketOK, Here, BucketT
<1>3. PICK pc \in {"index", "append"}, at \in Nat :
         /\ call' = [call EXCEPT ![t].pc = pc, ![t].at = at]
         /\ pc = "index" => at = call[t].at /\ Here(t).valid /\ ~Full(Here(t))
  <2>1. call \in [Thread -> CallT] /\ call[t].at \in Nat
    BY <1>1 DEF ListInv, ListType, CallT
  <2>2. CASE Here(t).valid /\ ~Full(Here(t)) /\ Go(t, "index")
    <3>1. call' = [call EXCEPT ![t].pc = "index", ![t].at = call[t].at]
      BY <2>1, <2>2 DEF Go, CallT
    <3> QED
      BY <2>1, <2>2, <3>1
  <2>3. CASE call' = [call EXCEPT ![t] = [call[t] EXCEPT !.pc = "append", !.at = 0]]
    <3>1. call' = [call EXCEPT ![t].pc = "append", ![t].at = 0]
      BY <2>1, <2>3
    <3> QED
      BY <3>1
  <2> QED
    BY <2>2, <2>3 DEF LockBack
<1>4. /\ call'[t] \in CallT /\ call'[t].pc = pc /\ call'[t].at = at
      /\ call'[t].own = call[t].own /\ call'[t].op = call[t].op /\ call'[t].range = call[t].range
      /\ call'[t].must = call[t].must /\ call'[t].slot = call[t].slot
  BY <1>1, <1>3 DEF ListInv, ListType, CallT, Places
<1>5. OneCalls(t) /\ tx'[t] = tx[t]
  <2>1. call' \in [Thread -> CallT] /\ \A u \in Thread \ {t} : call'[u] = call[u]
    BY <1>3, <1>4 DEF ListInv, ListType
  <2> QED
    BY <1>1, <2>1, CallTurns
<1>6. CallOK(t)'
  <2>4. Keys(t)'
    <3>1. call'[t].key = call[t].key /\ call'[t].pc \notin Seeking /\ call'[t].pc # "clear"
      BY <1>1, <1>3, <1>4, SMTT(60) DEF ListInv, ListType, CallT, Seeking
    <3> QED
      BY <1>1, <1>4, <3>1, KeysStay
  <2>1. Role(t)'
    BY <1>1, <1>2, <1>3, <1>4 DEF CallOK, Role, Appends
  <2>2. Own(t)'
    <3>1. pc = "index" => Len(Here(t).slots) < Capacity
      BY <1>2, <1>3, CapacityAssumption DEF Full
    <3> QED
      BY <1>1, <1>3, <1>4, <3>1, ZenonT(90) DEF CallOK, Own, Appends, Here
  <2>3. Scan(t)'
    BY <1>1, <1>3, <1>4 DEF CallOK, Role, Scan, Appends
  <2> QED
    BY <2>1, <2>2, <2>3, <2>4 DEF CallOK
<1>7. \A u \in Thread \ {t} : Apart(t, u)' /\ Apart(u, t)'
  <2>1. CASE pc = "append"
    BY <1>1, <1>3, <1>4, <1>5, <2>1, StaysApart DEF Appends
  <2>2. CASE pc = "index"
    <3>1. ASSUME NEW u \in Thread \ {t} PROVE Apart(t, u)' /\ Apart(u, t)'
      <4>1. /\ Apart(t, u) /\ Apart(u, t) /\ call'[u] = call[u] /\ ~BucketUnique(u, call[t].at)
            /\ tx'[u] = tx[u] /\ tx'[t] = tx[t]
        BY <1>5 DEF ListInv, OneCalls, LockBack
      <4> QED
        BY <1>1, <1>3, <1>4, <2>2, <4>1, ZenonT(90) DEF Apart, Appends, BucketUnique
    <3> QED
      BY <3>1
  <2> QED
    BY <2>1, <2>2
<1> QED
  BY <1>1, <1>5, <1>6, <1>7, StepOfCall

LEMMA RangeIndexedIs ==
  ASSUME NEW index \in IndexT, NEW block \in ItemT
  PROVE  /\ RangeIndexed(index, block) \in IndexT
         /\ Wider(index, RangeIndexed(index, block))
         /\ RangeCovered(RangeIndexed(index, block), block)
<1>1. IsRange(block.range)
  BY RangeAssumption DEF ItemT, Blocks, IsRange
<1>2. Bits(block.range) \subseteq Nat
  <2>1. /\ block.range.pos \in Nat /\ block.range.right - block.range.pos \in Nat /\ Beyond \in Nat
    BY <1>1, WordAssumption DEF IsRange
  <2>2. Log2[block.range.pos] \in Nat
    BY <2>1, LogIs
  <2> QED
    BY <2>2 DEF Bits
<1>3. /\ RangeIndexed(index, block).bits = index.bits \cup Bits(block.range)
      /\ RangeIndexed(index, block).left = Smaller(index.left, block.range.pos)
      /\ RangeIndexed(index, block).right = Larger(index.right, block.range.right)
      /\ RangeIndexed(index, block).ids = index.ids
      /\ RangeIndexed(index, block).low = index.low /\ RangeIndexed(index, block).high = index.high
  BY DEF RangeIndexed, IndexT
<1>4. /\ Smaller(index.left, block.range.pos) \in Nat /\ Larger(index.right, block.range.right) \in Nat
      /\ Smaller(index.left, block.range.pos) <= index.left
      /\ Smaller(index.left, block.range.pos) <= block.range.pos
      /\ index.right <= Larger(index.right, block.range.right)
      /\ block.range.right <= Larger(index.right, block.range.right)
      /\ index.low <= index.low /\ index.high <= index.high
  BY <1>1 DEF IsRange, IndexT, Smaller, Larger
<1>5. RangeIndexed(index, block) \in IndexT
  BY <1>2, <1>4 DEF RangeIndexed, IndexT
<1> QED
  BY <1>3, <1>4, <1>5 DEF Wider, RangeCovered

LEMMA IdIndexedIs ==
  ASSUME NEW index \in IndexT, NEW block \in ItemT
  PROVE  /\ IdIndexed(index, block) \in IndexT
         /\ Wider(index, IdIndexed(index, block))
         /\ IdCovered(IdIndexed(index, block), block)
<1>1. block.tx \in Nat
  BY DEF ItemT
<1>2. /\ IdIndexed(index, block).ids = index.ids \cup {block.tx}
      /\ IdIndexed(index, block).low = Smaller(index.low, block.tx)
      /\ IdIndexed(index, block).high = Larger(index.high, block.tx)
      /\ IdIndexed(index, block).bits = index.bits
      /\ IdIndexed(index, block).left = index.left /\ IdIndexed(index, block).right = index.right
  BY DEF IdIndexed, IndexT
<1>3. /\ Smaller(index.low, block.tx) \in Nat /\ Larger(index.high, block.tx) \in Nat
      /\ Smaller(index.low, block.tx) <= index.low /\ Smaller(index.low, block.tx) <= block.tx
      /\ index.high <= Larger(index.high, block.tx) /\ block.tx <= Larger(index.high, block.tx)
      /\ index.left <= index.left /\ index.right <= index.right
  BY <1>1 DEF IndexT, Smaller, Larger
<1>4. IdIndexed(index, block) \in IndexT
  BY <1>1, <1>3 DEF IdIndexed, IndexT
<1> QED
  BY <1>2, <1>3, <1>4 DEF Wider, IdCovered

\* A thread widens the indexes of its bucket and goes on.
LEMMA IndexStep ==
  ASSUME ListInv, NEW t \in Thread, call[t].pc \in {"index", "index_id"},
         NEW new \in IndexT, Wider(Here(t).index, new),
         buckets' = [buckets EXCEPT ![call[t].at].index = new],
         NEW pc \in {"index_id", "publish"}, Go(t, pc),
         RangeCovered(new, item[call[t].own]),
         pc = "publish" => IdCovered(new, item[call[t].own]),
         UNCHANGED <<item, tx, begun, closing>>
  PROVE  ListInv'
<1>1. /\ CallOK(t) /\ call[t] \in CallT /\ closing = "open" /\ ItemsKept
      /\ call[t].at \in DOMAIN buckets
  <2>1. CallOK(t) /\ call[t] \in CallT /\ closing = "open" /\ ItemsKept
    BY InCall
  <2> QED
    BY <2>1 DEF CallOK, Role
<1>2. /\ call'[t] \in CallT /\ call'[t].pc = pc /\ call'[t].at = call[t].at
      /\ call'[t].own = call[t].own /\ call'[t].op = call[t].op /\ call'[t].range = call[t].range
      /\ call'[t].must = call[t].must /\ call'[t].slot = call[t].slot
      /\ call' = [call EXCEPT ![t] = call'[t]]
  BY <1>1 DEF Go, ListInv, ListType, CallT, Places
<1>3. OneCalls(t) /\ tx'[t] = tx[t]
  <2>1. call' \in [Thread -> CallT] /\ \A u \in Thread \ {t} : call'[u] = call[u]
    BY <1>1, <1>2 DEF ListInv, ListType
  <2> QED
    BY <1>1, <2>1, CallTurns
<1>4. \A b \in DOMAIN buckets : buckets[b] \in BucketT /\ buckets[b].index \in IndexT
  <2>1. \A b \in DOMAIN buckets : buckets[b] \in BucketT
    BY DEF ListInv, ListType
  <2> QED
    BY <2>1 DEF BucketT
<1>5. /\ buckets' \in Seq(BucketT) /\ DOMAIN buckets' = DOMAIN buckets
      /\ \A b \in DOMAIN buckets : /\ buckets'[b].slots = buckets[b].slots
                                   /\ buckets'[b].present = buckets[b].present
                                   /\ buckets'[b].valid = buckets[b].valid
                                   /\ b # call[t].at => buckets'[b].index = buckets[b].index
      /\ buckets'[call[t].at].index = new
  <2>1. buckets \in Seq(BucketT)
    BY DEF ListInv, ListType
  <2>2. [buckets[call[t].at] EXCEPT !.index = new] \in BucketT
    BY <1>1, <1>4 DEF BucketT
  <2>3. buckets' = [buckets EXCEPT ![call[t].at] = [buckets[call[t].at] EXCEPT !.index = new]]
    OBVIOUS
  <2>4. /\ [buckets[call[t].at] EXCEPT !.index = new].slots = buckets[call[t].at].slots
        /\ [buckets[call[t].at] EXCEPT !.index = new].present = buckets[call[t].at].present
        /\ [buckets[call[t].at] EXCEPT !.index = new].valid = buckets[call[t].at].valid
        /\ [buckets[call[t].at] EXCEPT !.index = new].index = new
    BY <1>1, <1>4 DEF BucketT
  <2>5. buckets' \in Seq(BucketT) /\ DOMAIN buckets' = DOMAIN buckets
    BY <1>1, <2>1, <2>2, <2>3, SMTT(60)
  <2> QED
    BY <1>1, <2>3, <2>4, <2>5
<1>6. \A b \in DOMAIN buckets : Wider(buckets[b].index, buckets'[b].index)
  <2>1. ASSUME NEW index \in IndexT PROVE Wider(index, index)
    BY DEF Wider, IndexT
  <2>2. Wider(buckets[call[t].at].index, buckets'[call[t].at].index)
    BY <1>5, SMTT(60) DEF Here
  <2> QED
    BY <1>4, <1>5, <2>1, <2>2
<1>7. BucketsGrow(t)
  BY <1>5, <1>6 DEF BucketsGrow, Full, ListInv, BucketOK
<1>8. \A u \in Thread \ {t} : Untouched(u)
  BY <1>5, SMTT(60) DEF Untouched, Here, ListInv, CallOK, Role
<1>9. ASSUME NEW b \in DOMAIN buckets' PROVE BucketOK(b)'
  <2>1. BucketOK(b) /\ buckets[b].index \in IndexT /\ buckets'[b].index \in IndexT
    BY <1>4, <1>5, <1>9 DEF ListInv
  <2>2. ASSUME NEW s \in buckets[b].present
        PROVE  /\ RangeCovered(buckets'[b].index, item[buckets[b].slots[s]])
               /\ IdCovered(buckets'[b].index, item[buckets[b].slots[s]])
    <3>1. item[buckets[b].slots[s]] \in ItemT
      BY <2>1, <2>2 DEF BucketOK, ListInv, ListType
    <3> QED
      BY <1>5, <1>6, <1>9, <2>1, <2>2, <3>1, WiderShows DEF BucketOK
  <2> QED
    BY <1>5, <1>9, <2>1, <2>2 DEF BucketOK, Full
<1>10. OnePlace'
  BY <1>5, SMTT(60) DEF ListInv, OnePlace
<1>11. CallOK(t)'
  <2>1. Role(t)'
    BY <1>1, <1>2, <1>5, SMTT(60) DEF CallOK, Role, Appends
  <2>2. Own(t)'
    <3>1. \A b \in DOMAIN buckets' : \A s \in DOMAIN buckets'[b].slots : buckets'[b].slots[s] # call[t].own
      BY <1>1, <1>5 DEF CallOK, Own, Appends
    <3>2. (Here(t).valid /\ Len(Here(t).slots) < Capacity)'
      <4>1. Here(t).valid /\ Len(Here(t).slots) < Capacity
        BY <1>1 DEF CallOK, Own
      <4>2. Here(t)'.valid = Here(t).valid /\ Here(t)'.slots = Here(t).slots
        BY <1>1, <1>2, <1>5 DEF Here
      <4> QED
        BY <4>1, <4>2
    <3>3. RangeCovered(Here(t)'.index, item[call[t].own]) /\ (pc = "publish" => IdCovered(Here(t)'.index, item[call[t].own]))
      BY <1>2, <1>5 DEF Here
    <3> QED
      BY <1>2, <3>1, <3>2, <3>3 DEF Own, Appends, Here
  <2>3. Scan(t)'
    BY <1>1, <1>2 DEF CallOK, Role, Scan, Appends
  <2>4. Keys(t)'
    <3>1. call'[t].key = call[t].key /\ call'[t].pc \notin Seeking /\ call'[t].pc # "clear"
      BY <1>1, <1>2 DEF Go, ListInv, ListType, CallT, Seeking
    <3> QED
      BY <1>1, <1>2, <3>1, KeysStay
  <2> QED
    BY <2>1, <2>2, <2>3, <2>4 DEF CallOK
<1>12. \A u \in Thread \ {t} : Apart(t, u)' /\ Apart(u, t)'
  BY <1>1, <1>2, <1>3, StaysApart DEF Appends
<1> QED
  BY <1>1, <1>3, <1>7, <1>8, <1>9, <1>10, <1>11, <1>12, StepOfOne

LEMMA IndexedSteps ==
  ASSUME ListInv, NEW t \in Thread, IndexRange(t) \/ IndexId(t)
  PROVE  ListInv'
<1>1. CallOK(t) /\ call[t].pc \in {"index", "index_id"}
  BY DEF IndexRange, IndexId, ListInv
<1>2. call[t].at \in DOMAIN buckets /\ call[t].own \in DOMAIN item
  BY <1>1 DEF CallOK, Role, Appends
<1>3. Here(t).index \in IndexT /\ item[call[t].own] \in ItemT
  <2>1. buckets[call[t].at] \in BucketT /\ item[call[t].own] \in ItemT
    BY <1>2 DEF ListInv, ListType
  <2> QED
    BY <2>1 DEF Here, BucketT
<1>4. CASE IndexRange(t)
  <2> DEFINE new == RangeIndexed(Here(t).index, item[call[t].own])
  <2>1. new \in IndexT /\ Wider(Here(t).index, new) /\ RangeCovered(new, item[call[t].own])
    BY <1>3, RangeIndexedIs
  <2>2. /\ buckets' = [buckets EXCEPT ![call[t].at].index = new] /\ Go(t, "index_id")
        /\ UNCHANGED <<item, tx, begun, closing>>
    BY <1>4 DEF IndexRange, Here
  <2> HIDE DEF new
  <2> QED
    BY <1>1, <2>1, <2>2, IndexStep
<1>5. CASE IndexId(t)
  <2> DEFINE new == IdIndexed(Here(t).index, item[call[t].own])
  <2>1. new \in IndexT /\ Wider(Here(t).index, new) /\ IdCovered(new, item[call[t].own])
    BY <1>3, IdIndexedIs
  <2>2. RangeCovered(new, item[call[t].own])
    <3>1. RangeCovered(Here(t).index, item[call[t].own])
      BY <1>1, <1>5 DEF IndexId, CallOK, Own
    <3> HIDE DEF new
    <3> QED
      BY <1>3, <2>1, <3>1, WiderShows
  <2>3. /\ buckets' = [buckets EXCEPT ![call[t].at].index = new] /\ Go(t, "publish")
        /\ UNCHANGED <<item, tx, begun, closing>>
    BY <1>5 DEF IndexId, Here
  <2> HIDE DEF new
  <2> QED
    BY <1>1, <2>1, <2>2, <2>3, IndexStep
<1> QED
  BY <1>4, <1>5

\* The bucket b, there or new, gets the block that the thread appends.
PlacedIn(t, b) ==
  /\ b \in DOMAIN buckets' /\ DOMAIN buckets' = DOMAIN buckets \cup {b}
  /\ \A a \in DOMAIN buckets \ {b} : buckets'[a] = buckets[a]
  /\ buckets'[b].valid
  /\ RangeCovered(buckets'[b].index, item[call[t].own])
  /\ IdCovered(buckets'[b].index, item[call[t].own])
  /\ b \in DOMAIN buckets =>
       /\ Len(buckets[b].slots) < Capacity
       /\ Wider(buckets[b].index, buckets'[b].index)
       /\ buckets'[b].slots = Append(buckets[b].slots, call[t].own)
       /\ buckets'[b].present = buckets[b].present \cup {Len(buckets[b].slots) + 1}
  /\ b \notin DOMAIN buckets => buckets'[b].slots = <<call[t].own>> /\ buckets'[b].present = {1}
  /\ \A u \in Thread \ {t} :
       call[u].pc \in {"index", "index_id", "publish"} => call[u].at # b

\* The thread goes on to its traversal.
Looks(t) ==
  /\ call' = [call EXCEPT ![t] = [call[t] EXCEPT !.pc = "start", !.at = 0]]
  /\ UNCHANGED <<item, tx, begun, closing>>

LEMMA PlaceStep ==
  ASSUME ListInv, NEW t \in Thread, Appends(t), buckets' \in Seq(BucketT),
         NEW b, PlacedIn(t, b), Looks(t)
  PROVE  ListInv'
<1>1. /\ CallOK(t) /\ call[t] \in CallT /\ closing = "open" /\ ItemsKept
      /\ call[t].own \in DOMAIN item /\ call[t].must = {} /\ call[t].slot = 1 /\ call[t].op = "write"
  <2>1. CallOK(t) /\ call[t] \in CallT /\ closing = "open" /\ ItemsKept
    BY InCall DEF Appends, Looks
  <2> QED
    BY <2>1 DEF CallOK, Role
<1>2. /\ call'[t] \in CallT /\ call'[t].pc = "start"
      /\ call'[t].own = call[t].own /\ call'[t].op = call[t].op /\ call'[t].range = call[t].range
      /\ call'[t].must = call[t].must /\ call'[t].slot = call[t].slot
      /\ call' = [call EXCEPT ![t] = call'[t]]
  BY <1>1 DEF ListInv, ListType, CallT, Places, Looks
<1>3. OneCalls(t) /\ tx'[t] = tx[t]
  <2>1. call' \in [Thread -> CallT] /\ \A u \in Thread \ {t} : call'[u] = call[u]
    BY <1>1, <1>2 DEF ListInv, ListType
  <2> QED
    BY <1>1, <2>1, CallTurns DEF Looks
<1>4. \A a \in DOMAIN buckets : /\ buckets[a] \in BucketT /\ buckets[a].index \in IndexT
                                /\ buckets[a].slots \in Seq(Nat) /\ Len(buckets[a].slots) \in Nat
                                /\ BucketOK(a)
  <2>1. \A a \in DOMAIN buckets : buckets[a] \in BucketT
    BY DEF ListInv, ListType
  <2> QED
    BY <2>1 DEF BucketT, ListInv
<1> DEFINE p == IF b \in DOMAIN buckets THEN Len(buckets[b].slots) + 1 ELSE 1
<1>5. /\ p \in Nat /\ p >= 1 /\ p <= Capacity /\ Len(buckets'[b].slots) = p
      /\ p \in DOMAIN buckets'[b].slots /\ buckets'[b].slots[p] = call[t].own
      /\ p \in buckets'[b].present /\ buckets'[b].present \subseteq DOMAIN buckets'[b].slots
      /\ \A s \in DOMAIN buckets'[b].slots : s # p =>
           /\ b \in DOMAIN buckets /\ s \in DOMAIN buckets[b].slots
           /\ buckets'[b].slots[s] = buckets[b].slots[s]
           /\ s \in buckets'[b].present <=> s \in buckets[b].present
      /\ b \in DOMAIN buckets => p \notin DOMAIN buckets[b].slots
      /\ b \in DOMAIN buckets => DOMAIN buckets[b].slots \subseteq DOMAIN buckets'[b].slots
  <2>1. CASE b \in DOMAIN buckets
    <3>1. /\ buckets[b].slots \in Seq(Nat) /\ Len(buckets[b].slots) \in Nat
          /\ buckets[b].present \subseteq DOMAIN buckets[b].slots /\ Len(buckets[b].slots) < Capacity
          /\ buckets'[b].slots = Append(buckets[b].slots, call[t].own)
          /\ buckets'[b].present = buckets[b].present \cup {Len(buckets[b].slots) + 1}
          /\ call[t].own \in Nat
      BY <1>1, <1>4, <2>1 DEF BucketOK, PlacedIn, CallT
    <3>2. p = Len(buckets[b].slots) + 1
      BY <2>1
    <3>3. ASSUME NEW q \in Seq(Nat), NEW n \in Nat
          PROVE  /\ DOMAIN Append(q, n) = DOMAIN q \cup {Len(q) + 1}
                 /\ Append(q, n)[Len(q) + 1] = n
                 /\ Len(Append(q, n)) = Len(q) + 1 /\ Len(q) + 1 \notin DOMAIN q
                 /\ \A s \in DOMAIN q : Append(q, n)[s] = q[s]
      OBVIOUS
    <3>4. /\ DOMAIN buckets'[b].slots = DOMAIN buckets[b].slots \cup {p}
          /\ buckets'[b].slots[p] = call[t].own
          /\ Len(buckets'[b].slots) = p /\ p \notin DOMAIN buckets[b].slots
          /\ \A s \in DOMAIN buckets[b].slots : buckets'[b].slots[s] = buckets[b].slots[s]
      BY <3>1, <3>2, <3>3
    <3>5. p \in Nat /\ p >= 1 /\ p <= Capacity
      BY <3>1, <3>2, CapacityAssumption
    <3> HIDE DEF p
    <3> QED
      BY <2>1, <3>1, <3>2, <3>4, <3>5
  <2>2. CASE b \notin DOMAIN buckets
    <3>1. buckets'[b].slots = <<call[t].own>> /\ buckets'[b].present = {1} /\ p = 1
      BY <2>2 DEF PlacedIn
    <3>2. Len(<<call[t].own>>) = 1 /\ DOMAIN <<call[t].own>> = {1} /\ <<call[t].own>>[1] = call[t].own
      OBVIOUS
    <3> HIDE DEF p
    <3> QED
      BY <2>2, <3>1, <3>2, CapacityAssumption
  <2> QED
    BY <2>1, <2>2
<1>6. ASSUME NEW a \in DOMAIN buckets', NEW s \in DOMAIN buckets'[a].slots
      PROVE  \/ /\ a \in DOMAIN buckets /\ s \in DOMAIN buckets[a].slots
                /\ buckets'[a].slots[s] = buckets[a].slots[s]
                /\ s \in buckets'[a].present <=> s \in buckets[a].present
             \/ a = b /\ s = p /\ buckets'[a].slots[s] = call[t].own
  <2> HIDE DEF p
  <2> QED
    BY <1>5, <1>6 DEF PlacedIn
<1>7. \A a \in DOMAIN buckets : \A s \in DOMAIN buckets[a].slots : buckets[a].slots[s] # call[t].own
  BY <1>1 DEF CallOK, Own
<1>15. ASSUME NEW a \in DOMAIN buckets, NEW s \in DOMAIN buckets[a].slots
       PROVE  /\ a \in DOMAIN buckets' /\ s \in DOMAIN buckets'[a].slots
              /\ buckets'[a].slots[s] = buckets[a].slots[s]
              /\ s \in buckets'[a].present <=> s \in buckets[a].present
  <2> HIDE DEF p
  <2> QED
    BY <1>5, <1>15 DEF PlacedIn
<1> HIDE DEF p
<1>8. \A a \in DOMAIN buckets : Wider(buckets[a].index, buckets'[a].index)
  <2>1. ASSUME NEW index \in IndexT PROVE Wider(index, index)
    BY DEF Wider, IndexT
  <2> QED
    BY <1>4, <2>1 DEF PlacedIn
<1>9. BucketsGrow(t)
  <2>1. b \in DOMAIN buckets => ~Full(buckets[b])
    BY <1>4, CapacityAssumption DEF PlacedIn, Full
  <2>2. \A a \in DOMAIN buckets' : buckets'[a].present \subseteq DOMAIN buckets'[a].slots
    BY <1>4, <1>5 DEF PlacedIn, BucketOK
  <2>3. \A a \in DOMAIN buckets : buckets[a].present \subseteq DOMAIN buckets[a].slots
    BY <1>4 DEF BucketOK
  <2>4. ASSUME NEW a \in DOMAIN buckets, Full(buckets[a])
        PROVE  Full(buckets'[a]) /\ buckets'[a].present \subseteq buckets[a].present
    <3>1. buckets'[a] = buckets[a]
      BY <2>1, <2>4, SMTT(60) DEF PlacedIn
    <3> QED
      BY <2>4, <3>1
  <2> QED
    BY <1>6, <1>8, <1>15, <2>2, <2>3, <2>4 DEF BucketsGrow, PlacedIn
<1>10. \A u \in Thread \ {t} : Untouched(u)
  BY DEF Untouched, PlacedIn, Here, ListInv, CallOK, Role
<1>11. ASSUME NEW a \in DOMAIN buckets' PROVE BucketOK(a)'
  <2>1. CASE a = b
    <3>1. /\ Len(buckets'[a].slots) <= Capacity /\ buckets'[a].present \subseteq DOMAIN buckets'[a].slots
          /\ buckets'[a].valid
      BY <1>5, <2>1 DEF PlacedIn
    <3>2. ASSUME NEW s \in buckets'[a].present
          PROVE  /\ RangeCovered(buckets'[a].index, item[buckets'[a].slots[s]])
                 /\ IdCovered(buckets'[a].index, item[buckets'[a].slots[s]])
      <4>1. CASE s = p
        BY <1>5, <2>1, <4>1 DEF PlacedIn
      <4>2. CASE s # p
        <5>1. /\ b \in DOMAIN buckets /\ s \in buckets[b].present /\ b \in DOMAIN buckets'
              /\ buckets'[b].slots[s] = buckets[b].slots[s] /\ s \in DOMAIN buckets[b].slots
          BY <1>5, <2>1, <3>2, <4>2
        <5>2. /\ buckets[b].index \in IndexT /\ buckets'[b].index \in IndexT
              /\ Wider(buckets[b].index, buckets'[b].index)
          <6>1. buckets'[b] \in BucketT
            BY <5>1
          <6> QED
            BY <1>4, <1>8, <5>1, <6>1 DEF BucketT
        <5>3. /\ item[buckets[b].slots[s]] \in ItemT /\ buckets[b].slots[s] \in DOMAIN item
              /\ RangeCovered(buckets[b].index, item[buckets[b].slots[s]])
              /\ IdCovered(buckets[b].index, item[buckets[b].slots[s]])
          BY <1>4, <5>1, SMTT(60) DEF BucketOK, ListInv, ListType
        <5> QED
          BY <2>1, <5>1, <5>2, <5>3, WiderShows
      <4> QED
        BY <4>1, <4>2
    <3>3. \A s \in DOMAIN buckets'[a].slots : buckets'[a].slots[s] \in DOMAIN item
      BY <1>1, <1>4, <1>6 DEF BucketOK
    <3> QED
      BY <3>1, <3>2, <3>3 DEF BucketOK, Looks
  <2>2. CASE a # b
    <3>1. a \in DOMAIN buckets /\ buckets'[a] = buckets[a] /\ BucketOK(a)
      BY <1>4, <1>11, <2>2 DEF PlacedIn
    <3> QED
      BY <3>1 DEF BucketOK, Full, Looks
  <2> QED
    BY <2>1, <2>2
<1>12. OnePlace'
  <2>1. SUFFICES ASSUME NEW a \in DOMAIN buckets', NEW c \in DOMAIN buckets',
                        NEW s \in DOMAIN buckets'[a].slots, NEW r \in DOMAIN buckets'[c].slots,
                        buckets'[a].slots[s] = buckets'[c].slots[r]
                 PROVE  a = c /\ s = r
    BY DEF OnePlace
  <2> QED
    BY <1>6, <1>7, <2>1 DEF ListInv, OnePlace
<1>13. CallOK(t)'
  <2>1. Shown(call[t].own)'
    <3>1. b \in DOMAIN buckets' /\ p \in buckets'[b].present /\ buckets'[b].slots[p] = call[t].own
      BY <1>5 DEF PlacedIn
    <3> QED
      BY <1>2, <3>1 DEF Shown
  <2>2. Keys(t)'
    <3>1. call'[t].key = call[t].key
      BY <1>1 DEF ListInv, ListType, CallT, Looks
    <3> QED
      BY <1>1, <1>2, <2>1, <3>1, KeysStay DEF Looks
  <2> QED
    BY <1>1, <1>2, <2>2 DEF CallOK, Role, Own, Scan, Appends, Looks
<1>14. \A u \in Thread \ {t} : Apart(t, u)' /\ Apart(u, t)'
  BY <1>1, <1>2, <1>3, StaysApart DEF Appends
<1> QED
  BY <1>1, <1>3, <1>9, <1>10, <1>11, <1>12, <1>13, <1>14, StepOfOne

LEMMA WiderTwice ==
  ASSUME NEW a \in IndexT, NEW b \in IndexT, NEW c \in IndexT, Wider(a, b), Wider(b, c)
  PROVE  Wider(a, c)
BY DEF Wider, IndexT

\* A bucket that gets a block, field by field.
LEMMA PlacedIs ==
  ASSUME NEW bucket \in BucketT, NEW n \in Nat
  PROVE  /\ Placed(bucket, n) \in BucketT
         /\ Placed(bucket, n).slots = Append(bucket.slots, n)
         /\ Placed(bucket, n).present = bucket.present \cup {Len(bucket.slots) + 1}
         /\ Placed(bucket, n).valid = bucket.valid /\ Placed(bucket, n).index = bucket.index
<1>1. Append(bucket.slots, n) \in Seq(Nat) /\ Len(bucket.slots) \in Nat
  BY DEF BucketT
<1>2. bucket.present \cup {Len(bucket.slots) + 1} \in SUBSET Nat
  BY <1>1 DEF BucketT
<1> QED
  BY <1>1, <1>2 DEF BucketT, Placed

LEMMA KnownIs ==
  ASSUME NEW bucket \in BucketT, NEW n \in DOMAIN item, item \in Seq(ItemT)
  PROVE  /\ Known(bucket, n) \in BucketT
         /\ Known(bucket, n).slots = bucket.slots /\ Known(bucket, n).present = bucket.present
         /\ Known(bucket, n).valid = bucket.valid
         /\ Wider(bucket.index, Known(bucket, n).index)
         /\ RangeCovered(Known(bucket, n).index, item[n])
         /\ IdCovered(Known(bucket, n).index, item[n])
<1> DEFINE first == RangeIndexed(bucket.index, item[n])
           both == IdIndexed(first, item[n])
<1>1. bucket.index \in IndexT /\ item[n] \in ItemT
  BY DEF BucketT
<1>2. first \in IndexT /\ Wider(bucket.index, first) /\ RangeCovered(first, item[n])
  BY <1>1, RangeIndexedIs
<1> HIDE DEF first
<1>3. both \in IndexT /\ Wider(first, both) /\ IdCovered(both, item[n])
  BY <1>1, <1>2, IdIndexedIs
<1> HIDE DEF both
<1>4. Wider(bucket.index, both) /\ RangeCovered(both, item[n])
  BY <1>1, <1>2, <1>3, WiderTwice, WiderShows
<1>5. Known(bucket, n) = [bucket EXCEPT !.index = both]
  BY DEF Known, both, first
<1> QED
  BY <1>3, <1>4, <1>5 DEF BucketT

LEMMA PublishStep ==
  ASSUME ListInv, NEW t \in Thread, Publish(t)
  PROVE  ListInv'
<1> DEFINE b == call[t].at
<1>1. /\ call[t].pc = "publish" /\ CallOK(t) /\ call[t] \in CallT /\ b \in DOMAIN buckets
      /\ buckets \in Seq(BucketT) /\ buckets[b] \in BucketT /\ call[t].own \in Nat
  <2>1. call[t].pc = "publish" /\ CallOK(t) /\ call[t] \in CallT /\ buckets \in Seq(BucketT)
    BY DEF Publish, ListInv, ListType
  <2> QED
    BY <2>1 DEF CallOK, Role, CallT
<1>2. buckets' = [buckets EXCEPT ![b] = Placed(buckets[b], call[t].own)] /\ Looks(t)
  BY DEF Publish, Looks
<1>3. /\ buckets[b].valid /\ Len(buckets[b].slots) < Capacity
      /\ RangeCovered(buckets[b].index, item[call[t].own])
      /\ IdCovered(buckets[b].index, item[call[t].own])
  BY <1>1 DEF CallOK, Own, Here
<1>4. \A u \in Thread \ {t} :
        call[u].pc \in {"index", "index_id", "publish"} => call[u].at # b
  BY <1>1 DEF ListInv, Apart
<1>5. Wider(buckets[b].index, buckets[b].index)
  <2>1. buckets[b].index \in IndexT
    BY <1>1 DEF BucketT
  <2> QED
    BY <2>1 DEF Wider, IndexT
<1> HIDE DEF b
<1>6. buckets' \in Seq(BucketT) /\ DOMAIN buckets' = DOMAIN buckets
      /\ buckets'[b] = Placed(buckets[b], call[t].own)
      /\ \A a \in DOMAIN buckets \ {b} : buckets'[a] = buckets[a]
  BY <1>1, <1>2, PlacedIs
<1>7. PlacedIn(t, b)
  <2>1. /\ Placed(buckets[b], call[t].own).slots = Append(buckets[b].slots, call[t].own)
        /\ Placed(buckets[b], call[t].own).present = buckets[b].present \cup {Len(buckets[b].slots) + 1}
        /\ Placed(buckets[b], call[t].own).valid = buckets[b].valid
        /\ Placed(buckets[b], call[t].own).index = buckets[b].index
    BY <1>1, PlacedIs
  <2> QED
    BY <1>1, <1>3, <1>4, <1>5, <1>6, <2>1 DEF PlacedIn
<1> QED
  <2>1. Appends(t)
    BY <1>1 DEF Appends
  <2> QED
    BY <1>2, <1>6, <1>7, <2>1, PlaceStep

LEMMA AppendStep ==
  ASSUME ListInv, NEW t \in Thread, AppendUnique(t)
  PROVE  ListInv'
<1> DEFINE n == call[t].own
           added(bucket) == Placed(Known(bucket, n), n)
           last == Len(buckets)
<1>1. /\ call[t].pc = "append" /\ CallOK(t) /\ call[t] \in CallT /\ n \in DOMAIN item
      /\ buckets \in Seq(BucketT) /\ item \in Seq(ItemT) /\ last \in Nat /\ n \in Nat
  <2>1. /\ call[t].pc = "append" /\ CallOK(t) /\ call[t] \in CallT
        /\ buckets \in Seq(BucketT) /\ item \in Seq(ItemT)
    BY DEF AppendUnique, ListInv, ListType
  <2> QED
    BY <2>1 DEF CallOK, Role, Appends, CallT
<1>2. Looks(t)
  BY DEF AppendUnique, Looks
<1>3. \A u \in Thread \ {t} : call[u].pc \notin {"index", "index_id", "publish"}
  BY DEF AppendUnique, UniqueAllowed, ListShared
<1>4. ASSUME NEW bucket \in BucketT
      PROVE  /\ added(bucket) \in BucketT
             /\ added(bucket).slots = Append(bucket.slots, n)
             /\ added(bucket).present = bucket.present \cup {Len(bucket.slots) + 1}
             /\ added(bucket).valid = bucket.valid
             /\ Wider(bucket.index, added(bucket).index)
             /\ RangeCovered(added(bucket).index, item[n])
             /\ IdCovered(added(bucket).index, item[n])
  <2>1. /\ Known(bucket, n) \in BucketT /\ Known(bucket, n).slots = bucket.slots
        /\ Known(bucket, n).present = bucket.present /\ Known(bucket, n).valid = bucket.valid
    BY <1>1, KnownIs
  <2>2. added(bucket).index = Known(bucket, n).index
    BY <1>1, <2>1, PlacedIs
  <2>3. /\ Wider(bucket.index, Known(bucket, n).index)
        /\ RangeCovered(Known(bucket, n).index, item[n])
        /\ IdCovered(Known(bucket, n).index, item[n])
    BY <1>1, KnownIs
  <2> QED
    BY <1>1, <2>1, <2>2, <2>3, PlacedIs, ZenonT(90)
<1>5. NewBucket \in BucketT /\ NewBucket.slots = <<>> /\ NewBucket.present = {} /\ NewBucket.valid
  <2>1. NoIndex \in IndexT
    BY WordAssumption DEF NoIndex, IndexT
  <2> QED
    BY <2>1 DEF NewBucket, BucketT
<1>8. Appends(t)
  BY <1>1 DEF Appends
<1>6. CASE /\ buckets # <<>> /\ buckets[last].valid /\ ~Full(buckets[last])
           /\ buckets' = [buckets EXCEPT ![last] = added(buckets[last])]
  <2>1. last \in DOMAIN buckets /\ buckets[last] \in BucketT
    BY <1>1, <1>6
  <2>2. Len(buckets[last].slots) < Capacity
    <3>1. Len(buckets[last].slots) \in Nat /\ Len(buckets[last].slots) <= Capacity
      BY <2>1 DEF ListInv, BucketOK, BucketT
    <3> QED
      BY <1>6, <3>1, CapacityAssumption DEF Full
  <2>3. /\ added(buckets[last]) \in BucketT
        /\ added(buckets[last]).slots = Append(buckets[last].slots, n)
        /\ added(buckets[last]).present = buckets[last].present \cup {Len(buckets[last].slots) + 1}
        /\ added(buckets[last]).valid
        /\ Wider(buckets[last].index, added(buckets[last]).index)
        /\ RangeCovered(added(buckets[last]).index, item[n])
        /\ IdCovered(added(buckets[last]).index, item[n])
    <3> HIDE DEF added
    <3> QED
      BY <1>4, <1>6, <2>1
  <2> HIDE DEF added, last
  <2>4. buckets' \in Seq(BucketT) /\ DOMAIN buckets' = DOMAIN buckets
        /\ buckets'[last] = added(buckets[last])
        /\ \A a \in DOMAIN buckets \ {last} : buckets'[a] = buckets[a]
    BY <1>1, <1>6, <2>1, <2>3
  <2>5. PlacedIn(t, last)
    BY <1>1, <1>3, <2>1, <2>2, <2>3, <2>4 DEF PlacedIn
  <2> QED
    BY <1>2, <1>8, <2>4, <2>5, PlaceStep
<1>7. CASE buckets' = Append(buckets, added(NewBucket))
  <2>1. /\ added(NewBucket) \in BucketT /\ added(NewBucket).slots = <<n>>
        /\ added(NewBucket).present = {1} /\ added(NewBucket).valid
        /\ RangeCovered(added(NewBucket).index, item[n])
        /\ IdCovered(added(NewBucket).index, item[n])
    <3> HIDE DEF added
    <3> QED
      BY <1>4, <1>5
  <2> HIDE DEF added
  <2>2. /\ buckets' \in Seq(BucketT) /\ DOMAIN buckets = 1 .. last /\ last + 1 \notin DOMAIN buckets
        /\ DOMAIN buckets' = DOMAIN buckets \cup {last + 1}
        /\ buckets'[last + 1] = added(NewBucket) /\ \A a \in DOMAIN buckets : buckets'[a] = buckets[a]
    BY <1>1, <1>7, <2>1
  <2>3. PlacedIn(t, last + 1)
    <3> HIDE DEF last
    <3> QED
      BY <1>3, <2>1, <2>2 DEF PlacedIn
  <2> QED
    BY <1>2, <1>8, <2>2, <2>3, PlaceStep
<1> QED
  BY <1>6, <1>7 DEF AppendUnique

-----------------------------------------------------------------------------
(* Traversals.                                                             *)

Inside == {"bucket", "enter", "slot", "meet", "refuse", "clear", "count", "end"}

\* The thread goes on with its traversal and has no more to meet than before.
Moves(t) ==
  /\ OneCalls(t) /\ ItemsKept /\ buckets' = buckets /\ UNCHANGED <<tx, begun>>
  /\ call'[t].op = call[t].op /\ call'[t].own = call[t].own
  /\ call'[t].key = call[t].key /\ call'[t].range = call[t].range
  /\ call'[t].must \subseteq call[t].must
  /\ ~Appends(t) /\ call[t].pc \notin {"out", "start"} /\ call'[t].pc \in Inside

LEMMA MoveStep ==
  ASSUME ListInv, NEW t \in Thread, Moves(t),
         call'[t].pc = "refuse" => call[t].op = "write",
         call'[t].pc = "clear" => call[t].op \in {"drop", "remove"},
         call'[t].pc \in {"bucket", "enter"} => call'[t].slot = 1,
         call'[t].pc \in {"enter", "slot", "meet", "clear", "count"} => call'[t].at \in DOMAIN buckets,
         call'[t].pc = "bucket" => call'[t].at # 0,
         call'[t].pc \in {"meet", "clear"} => call'[t].slot \in DOMAIN buckets[call'[t].at].slots,
         call'[t].pc = "clear" => (item[Met(t)].tx = call[t].key)',
         call'[t].pc \in {"bucket", "enter", "slot", "meet", "count"} /\ call[t].op = "write" =>
           call[t].pc \in {"bucket", "enter", "slot", "meet", "count"},
         call[t].op # "drop" =>
           \A b \in DOMAIN buckets : \A s \in buckets[b].present :
             buckets[b].slots[s] \in call'[t].must => Ahead(t, b, s)'
  PROVE  ListInv'
<1>1. CallOK(t)
  BY DEF ListInv
<1>2. Role(t)'
  BY <1>1 DEF CallOK, Role, Moves, ItemsKept, Appends, Inside, Here
<1>6. Keys(t)'
  <2>1. call[t].op = "write" /\ call'[t].pc \in Seeking => Shown(call[t].own)'
    <3>1. call[t].op = "write" /\ call'[t].pc \in Seeking => Shown(call[t].own)
      BY <1>1 DEF CallOK, Keys, Moves, Seeking, Inside
    <3> QED
      BY <3>1 DEF Shown, Moves
  <2> QED
    BY <2>1, KeysStay DEF Moves
<1>3. Own(t)'
  BY DEF Own, Moves, Appends, Inside
<1>4. Scan(t)'
  <2>1. \A n \in call'[t].must : n \in DOMAIN item' /\ Concerns(call[t], n)'
    BY <1>1 DEF CallOK, Scan, Moves, ItemsKept, Concerns
  <2> QED
    BY <1>1, <2>1 DEF CallOK, Scan, Moves
<1>5. \A u \in Thread \ {t} : Apart(t, u)' /\ Apart(u, t)'
  BY StaysApart DEF Moves, Appends, Inside
<1> QED
  BY <1>2, <1>3, <1>4, <1>5, <1>6, StepOfCall DEF Moves, CallOK

\* The moves of the actions.
LEMMA GoIs ==
  ASSUME ListInv, NEW t \in Thread, NEW pc \in Places, Go(t, pc)
  PROVE  /\ call' \in [Thread -> CallT] /\ \A u \in Thread \ {t} : call'[u] = call[u]
         /\ call'[t].pc = pc /\ call'[t].at = call[t].at /\ call'[t].slot = call[t].slot
         /\ call'[t].op = call[t].op /\ call'[t].own = call[t].own /\ call'[t].key = call[t].key
         /\ call'[t].range = call[t].range /\ call'[t].must = call[t].must
<1>1. call \in [Thread -> CallT] /\ call[t] \in CallT
  BY DEF ListInv, ListType
<1> DEFINE c == [call[t] EXCEPT !.pc = pc]
<1>2. /\ c \in CallT /\ c.pc = pc /\ c.at = call[t].at /\ c.slot = call[t].slot
      /\ c.op = call[t].op /\ c.own = call[t].own /\ c.key = call[t].key
      /\ c.range = call[t].range /\ c.must = call[t].must
  BY <1>1 DEF CallT
<1>3. call' = [call EXCEPT ![t] = c]
  BY DEF Go
<1> HIDE DEF c
<1> QED
  BY <1>1, <1>2, <1>3

LEMMA NextBucketIs ==
  ASSUME ListInv, NEW t \in Thread, NextBucket(t)
  PROVE  /\ call' \in [Thread -> CallT] /\ \A u \in Thread \ {t} : call'[u] = call[u]
         /\ call'[t].pc = "bucket" /\ call'[t].at = call[t].at + 1 /\ call'[t].slot = 1
         /\ call'[t].op = call[t].op /\ call'[t].own = call[t].own /\ call'[t].key = call[t].key
         /\ call'[t].range = call[t].range /\ call'[t].must = call[t].must
<1>1. call \in [Thread -> CallT] /\ call[t] \in CallT
  BY DEF ListInv, ListType
<1> DEFINE c == [call[t] EXCEPT !.pc = "bucket", !.at = @ + 1, !.slot = 1, !.removed = FALSE]
<1>4. call[t].at + 1 \in Nat /\ "bucket" \in Places /\ 1 \in Nat \ {0}
  BY <1>1 DEF CallT, Places
<1>2. /\ c \in CallT /\ c.pc = "bucket" /\ c.at = call[t].at + 1 /\ c.slot = 1
      /\ c.op = call[t].op /\ c.own = call[t].own /\ c.key = call[t].key
      /\ c.range = call[t].range /\ c.must = call[t].must
  BY <1>1, <1>4 DEF CallT
<1>3. call' = [call EXCEPT ![t] = c]
  BY DEF NextBucket
<1> HIDE DEF c
<1> QED
  BY <1>1, <1>2, <1>3

LEMMA ContinueIs ==
  ASSUME ListInv, NEW t \in Thread, Continue(t)
  PROVE  /\ call' \in [Thread -> CallT] /\ \A u \in Thread \ {t} : call'[u] = call[u]
         /\ call'[t].pc = "slot" /\ call'[t].at = call[t].at /\ call'[t].slot = call[t].slot + 1
         /\ call'[t].op = call[t].op /\ call'[t].own = call[t].own /\ call'[t].key = call[t].key
         /\ call'[t].range = call[t].range /\ call'[t].must = call[t].must \ {Met(t)}
<1>1. call \in [Thread -> CallT] /\ call[t] \in CallT
  BY DEF ListInv, ListType
<1> DEFINE c == [call[t] EXCEPT !.pc = "slot", !.slot = @ + 1, !.must = @ \ {Met(t)}]
<1>4. /\ call[t].slot + 1 \in Nat \ {0} /\ "slot" \in Places
      /\ call[t].must \ {Met(t)} \in SUBSET Nat
  BY <1>1 DEF CallT, Places
<1>2. /\ c \in CallT /\ c.pc = "slot" /\ c.at = call[t].at /\ c.slot = call[t].slot + 1
      /\ c.op = call[t].op /\ c.own = call[t].own /\ c.key = call[t].key
      /\ c.range = call[t].range /\ c.must = call[t].must \ {Met(t)}
  BY <1>1, <1>4 DEF CallT
<1>3. call' = [call EXCEPT ![t] = c]
  BY DEF Continue
<1> HIDE DEF c
<1> QED
  BY <1>1, <1>2, <1>3

\* What a traversal has at hand.
LEMMA InScan ==
  ASSUME ListInv, NEW t \in Thread,
         call[t].pc \in {"bucket", "enter", "slot", "meet", "refuse", "clear", "mark", "count", "end"}
  PROVE  /\ closing = "open" /\ call[t] \in CallT /\ call[t].at \in Nat /\ call[t].slot \in Nat
         /\ Role(t) /\ Keys(t) /\ Own(t) /\ Scan(t)
         /\ tx \in [Thread -> Nat] /\ begun \in Nat /\ (item' = item => ItemsKept)
         /\ \A b \in DOMAIN buckets : /\ b \in Nat /\ buckets[b] \in BucketT /\ BucketOK(b)
                                      /\ buckets[b].present \in SUBSET (Nat \ {0})
<1>1. /\ closing = "open" /\ call[t] \in CallT /\ CallOK(t)
      /\ tx \in [Thread -> Nat] /\ begun \in Nat /\ (item' = item => ItemsKept)
  BY InCall
<1>2. \A b \in DOMAIN buckets : b \in Nat /\ buckets[b] \in BucketT /\ BucketOK(b)
  BY DEF ListInv, ListType
<1>3. ASSUME NEW b \in DOMAIN buckets PROVE buckets[b].present \in SUBSET (Nat \ {0})
  <2>1. buckets[b].slots \in Seq(Nat) /\ buckets[b].present \subseteq DOMAIN buckets[b].slots
    BY <1>2 DEF BucketT, BucketOK
  <2> QED
    BY <2>1
<1> QED
  BY <1>1, <1>2, <1>3 DEF CallOK, CallT

\* A bucket that is passed over has nothing the thread must meet.
LEMMA VisitStep ==
  ASSUME ListInv, NEW t \in Thread, VisitBucket(t)
  PROVE  ListInv'
<1>1. /\ call[t].pc = "bucket" /\ UNCHANGED <<buckets, item, tx, begun, closing>>
      /\ closing = "open" /\ call[t].at \in Nat /\ Role(t) /\ Scan(t)
      /\ tx \in [Thread -> Nat] /\ begun \in Nat /\ ItemsKept /\ call[t].at # 0 /\ call[t].slot = 1
      /\ \A b \in DOMAIN buckets : b \in Nat /\ buckets[b].present \in SUBSET (Nat \ {0})
  <2>1. call[t].pc = "bucket" /\ UNCHANGED <<buckets, item, tx, begun, closing>>
    BY DEF VisitBucket
  <2>2. /\ closing = "open" /\ call[t].at \in Nat /\ Role(t) /\ Scan(t)
        /\ tx \in [Thread -> Nat] /\ begun \in Nat /\ ItemsKept
        /\ \A b \in DOMAIN buckets : b \in Nat /\ buckets[b].present \in SUBSET (Nat \ {0})
    BY <2>1, InScan
  <2> QED
    BY <2>1, <2>2 DEF Role
<1>2. DOMAIN buckets = 1 .. Len(buckets) /\ Len(buckets) \in Nat
  BY DEF ListInv, ListType
<1>3. CASE call[t].at > Len(buckets) /\ Go(t, "end")
  <2>1. /\ call' \in [Thread -> CallT] /\ \A u \in Thread \ {t} : call'[u] = call[u]
        /\ call'[t].pc = "end"
        /\ call'[t].op = call[t].op /\ call'[t].own = call[t].own /\ call'[t].key = call[t].key
        /\ call'[t].range = call[t].range /\ call'[t].must = call[t].must
    BY <1>3, GoIs DEF Places
  <2>2. Moves(t)
    BY <1>1, <2>1, CallTurns DEF Moves, Appends, Inside
  <2>3. \A b \in DOMAIN buckets : \A s \in buckets[b].present : ~Ahead(t, b, s)
    BY <1>1, <1>2, <1>3 DEF Ahead
  <2> QED
    BY <1>1, <2>1, <2>2, <2>3, MoveStep DEF Scan
<1>4. CASE call[t].at <= Len(buckets) /\ Go(t, "enter")
  <2>1. /\ call' \in [Thread -> CallT] /\ \A u \in Thread \ {t} : call'[u] = call[u]
        /\ call'[t].pc = "enter" /\ call'[t].at = call[t].at /\ call'[t].slot = call[t].slot
        /\ call'[t].op = call[t].op /\ call'[t].own = call[t].own /\ call'[t].key = call[t].key
        /\ call'[t].range = call[t].range /\ call'[t].must = call[t].must
    BY <1>4, GoIs DEF Places
  <2>2. Moves(t)
    BY <1>1, <2>1, CallTurns DEF Moves, Appends, Inside
  <2>3. \A b, s : Ahead(t, b, s) => Ahead(t, b, s)'
    BY <1>1, <2>1 DEF Ahead
  <2>4. call'[t].at \in DOMAIN buckets
    BY <1>1, <1>2, <1>4, <2>1
  <2> QED
    BY <1>1, <2>1, <2>2, <2>3, <2>4, MoveStep DEF Scan
<1>5. CASE /\ call[t].at <= Len(buckets) /\ NextBucket(t)
           /\ ~(Here(t).valid /\ Check(call[t], Here(t).index))
  <2>1. /\ call' \in [Thread -> CallT] /\ \A u \in Thread \ {t} : call'[u] = call[u]
        /\ call'[t].pc = "bucket" /\ call'[t].at = call[t].at + 1 /\ call'[t].slot = 1
        /\ call'[t].op = call[t].op /\ call'[t].own = call[t].own /\ call'[t].key = call[t].key
        /\ call'[t].range = call[t].range /\ call'[t].must = call[t].must
    BY <1>5, NextBucketIs
  <2>2. Moves(t)
    BY <1>1, <2>1, CallTurns DEF Moves, Appends, Inside
  <2>3. ASSUME NEW b \in DOMAIN buckets, NEW s \in buckets[b].present,
               buckets[b].slots[s] \in call[t].must
        PROVE  b # call[t].at
    <3>1. BucketOK(b) /\ buckets[b].index \in IndexT
      <4>1. buckets[b] \in BucketT /\ BucketOK(b)
        BY DEF ListInv, ListType
      <4> QED
        BY <4>1 DEF BucketT
    <3>2. /\ buckets[b].valid /\ buckets[b].slots[s] \in DOMAIN item
          /\ RangeCovered(buckets[b].index, item[buckets[b].slots[s]])
          /\ IdCovered(buckets[b].index, item[buckets[b].slots[s]])
      BY <3>1, <2>3 DEF BucketOK
    <3>3. /\ Concerns(call[t], buckets[b].slots[s])
          /\ ByRange(call[t].op) => call[t].range \in Blocks
      BY <1>1, <2>3 DEF Scan, Role
    <3>4. Check(call[t], buckets[b].index)
      BY <3>1, <3>2, <3>3, IndexShows DEF ListInv
    <3> QED
      BY <1>5, <3>2, <3>4 DEF Here
  <2>4. ASSUME NEW b \in DOMAIN buckets, NEW s \in buckets[b].present,
               b # call[t].at, Ahead(t, b, s)
        PROVE  Ahead(t, b, s)'
    <3>1. b \in Nat /\ s \in Nat /\ 1 <= s
      BY <2>4, InScan, <1>1
    <3>2. call[t].at < b
      BY <1>1, <2>4 DEF Ahead
    <3>3. call[t].at + 1 < b \/ (call[t].at + 1 = b /\ 1 <= s)
      BY <1>1, <3>1, <3>2
    <3> QED
      BY <2>1, <3>3 DEF Ahead
  <2> QED
    BY <1>1, <2>1, <2>2, <2>3, <2>4, MoveStep DEF Scan
<1> QED
  BY <1>3, <1>4, <1>5 DEF VisitBucket

LEMMA EnterStep ==
  ASSUME ListInv, NEW t \in Thread, EnterBucket(t)
  PROVE  ListInv'
<1>1. call[t].pc = "enter" /\ Go(t, "slot") /\ UNCHANGED <<buckets, item, tx, begun, closing>>
  BY DEF EnterBucket
<1>2. /\ closing = "open" /\ Role(t) /\ Scan(t)
      /\ tx \in [Thread -> Nat] /\ begun \in Nat /\ ItemsKept
  BY <1>1, InScan
<1>3. /\ call' \in [Thread -> CallT] /\ \A u \in Thread \ {t} : call'[u] = call[u]
      /\ call'[t].pc = "slot" /\ call'[t].at = call[t].at /\ call'[t].slot = call[t].slot
      /\ call'[t].op = call[t].op /\ call'[t].own = call[t].own /\ call'[t].key = call[t].key
      /\ call'[t].range = call[t].range /\ call'[t].must = call[t].must
  BY <1>1, GoIs DEF Places
<1>4. Moves(t)
  BY <1>1, <1>2, <1>3, CallTurns DEF Moves, Appends, Inside
<1>5. \A b, s : Ahead(t, b, s) => Ahead(t, b, s)'
  BY <1>1, <1>3 DEF Ahead
<1>6. call'[t].at \in DOMAIN buckets
  BY <1>1, <1>2, <1>3, SMTT(60) DEF Role
<1> QED
  BY <1>1, <1>2, <1>3, <1>4, <1>5, <1>6, MoveStep DEF Scan

LEMMA SlotStep ==
  ASSUME ListInv, NEW t \in Thread, NextSlot(t)
  PROVE  ListInv'
<1> DEFINE left == {s \in Here(t).present : s >= call[t].slot}
<1>1. call[t].pc = "slot" /\ UNCHANGED <<buckets, item, tx, begun, closing>>
  BY DEF NextSlot
<1>2. /\ closing = "open" /\ Role(t) /\ Scan(t) /\ call[t].at \in Nat /\ call[t].slot \in Nat
      /\ tx \in [Thread -> Nat] /\ begun \in Nat /\ ItemsKept /\ call[t] \in CallT
      /\ \A b \in DOMAIN buckets : b \in Nat /\ buckets[b].present \in SUBSET (Nat \ {0})
  BY <1>1, InScan
<1>3. call[t].at \in DOMAIN buckets /\ call[t].at # 0
  BY <1>1, <1>2 DEF Role, ListInv, ListType
<1>4. ASSUME left = {}, NEW b \in DOMAIN buckets, NEW s \in buckets[b].present, Ahead(t, b, s)
      PROVE  call[t].at < b /\ call[t].at + 1 <= b /\ 1 <= s
  <2>1. ~(call[t].at = b /\ call[t].slot <= s)
    BY <1>2, <1>4 DEF Here
  <2> QED
    BY <1>1, <1>2, <1>4, <2>1 DEF Ahead
<1>5. CASE left = {} /\ Go(t, "count")
  <2>1. /\ call' \in [Thread -> CallT] /\ \A u \in Thread \ {t} : call'[u] = call[u]
        /\ call'[t].pc = "count" /\ call'[t].at = call[t].at /\ call'[t].slot = call[t].slot
        /\ call'[t].op = call[t].op /\ call'[t].own = call[t].own /\ call'[t].key = call[t].key
        /\ call'[t].range = call[t].range /\ call'[t].must = call[t].must
    BY <1>5, GoIs DEF Places
  <2>2. Moves(t)
    BY <1>1, <1>2, <2>1, CallTurns DEF Moves, Appends, Inside
  <2>3. \A b \in DOMAIN buckets : \A s \in buckets[b].present : Ahead(t, b, s) => Ahead(t, b, s)'
    BY <1>4, <1>5, <2>1 DEF Ahead
  <2> QED
    BY <1>1, <1>2, <1>3, <2>1, <2>2, <2>3, MoveStep DEF Scan
<1>6. CASE left = {} /\ NextBucket(t)
  <2>1. /\ call' \in [Thread -> CallT] /\ \A u \in Thread \ {t} : call'[u] = call[u]
        /\ call'[t].pc = "bucket" /\ call'[t].at = call[t].at + 1 /\ call'[t].slot = 1
        /\ call'[t].op = call[t].op /\ call'[t].own = call[t].own /\ call'[t].key = call[t].key
        /\ call'[t].range = call[t].range /\ call'[t].must = call[t].must
    BY <1>6, NextBucketIs
  <2>2. Moves(t)
    BY <1>1, <1>2, <2>1, CallTurns DEF Moves, Appends, Inside
  <2>3. \A b \in DOMAIN buckets : \A s \in buckets[b].present : Ahead(t, b, s) => Ahead(t, b, s)'
    <3>1. ASSUME NEW b \in DOMAIN buckets, NEW s \in buckets[b].present, Ahead(t, b, s)
          PROVE  Ahead(t, b, s)'
      <4>1. call[t].at + 1 <= b /\ 1 <= s /\ b \in Nat /\ s \in Nat
        BY <1>2, <1>4, <1>6, <3>1
      <4>2. call[t].at + 1 < b \/ call[t].at + 1 = b
        BY <1>2, <4>1
      <4> QED
        BY <2>1, <4>1, <4>2 DEF Ahead
    <3> QED
      BY <3>1
  <2>4. call'[t].at # 0
    BY <1>2, <2>1
  <2> QED
    BY <1>1, <1>2, <2>1, <2>2, <2>3, <2>4, MoveStep DEF Scan
<1>7. ASSUME NEW s \in left, \A r \in left : s <= r,
             call' = [call EXCEPT ![t] = [call[t] EXCEPT !.pc = "meet", !.slot = s]]
      PROVE  ListInv'
  <2> DEFINE c == [call[t] EXCEPT !.pc = "meet", !.slot = s]
  <2>1. s \in Nat \ {0} /\ "meet" \in Places /\ s >= call[t].slot
    BY <1>2, <1>3 DEF Here, Places
  <2>2. /\ c \in CallT /\ c.pc = "meet" /\ c.at = call[t].at /\ c.slot = s
        /\ c.op = call[t].op /\ c.own = call[t].own /\ c.key = call[t].key
        /\ c.range = call[t].range /\ c.must = call[t].must
    BY <1>2, <2>1 DEF CallT
  <2>3. /\ call' \in [Thread -> CallT] /\ call'[t] = c
        /\ \A u \in Thread \ {t} : call'[u] = call[u]
    BY <1>7, <2>2 DEF ListInv, ListType
  <2> HIDE DEF c
  <2>4. Moves(t)
    BY <1>1, <1>2, <2>2, <2>3, CallTurns DEF Moves, Appends, Inside
  <2>5. \A b \in DOMAIN buckets : \A r \in buckets[b].present : Ahead(t, b, r) => Ahead(t, b, r)'
    <3>1. ASSUME NEW b \in DOMAIN buckets, NEW r \in buckets[b].present, Ahead(t, b, r)
          PROVE  call[t].at < b \/ (call[t].at = b /\ s <= r)
      BY <1>1, <1>2, <1>7, <3>1 DEF Ahead, Here
    <3> QED
      BY <2>2, <2>3, <3>1 DEF Ahead
  <2>6. s \in DOMAIN buckets[call[t].at].slots
    BY <1>3, <1>7 DEF Here, ListInv, BucketOK
  <2> QED
    BY <1>1, <1>2, <1>3, <2>2, <2>3, <2>4, <2>5, <2>6, MoveStep DEF Scan
<1> QED
  BY <1>5, <1>6, <1>7 DEF NextSlot

LEMMA CountStep ==
  ASSUME ListInv, NEW t \in Thread, Count(t)
  PROVE  ListInv'
<1>1. call[t].pc = "count" /\ UNCHANGED <<buckets, item, tx, begun, closing>>
  BY DEF Count
<1>2. /\ closing = "open" /\ Role(t) /\ Scan(t) /\ call[t].at \in Nat
      /\ tx \in [Thread -> Nat] /\ begun \in Nat /\ ItemsKept
      /\ \A b \in DOMAIN buckets : b \in Nat /\ buckets[b].present \in SUBSET (Nat \ {0})
  BY <1>1, InScan
<1>3. CASE call[t].op = "drop" /\ Go(t, "end")
  <2>1. /\ call' \in [Thread -> CallT] /\ \A u \in Thread \ {t} : call'[u] = call[u]
        /\ call'[t].pc = "end" /\ call'[t].at = call[t].at /\ call'[t].slot = call[t].slot
        /\ call'[t].op = call[t].op /\ call'[t].own = call[t].own /\ call'[t].key = call[t].key
        /\ call'[t].range = call[t].range /\ call'[t].must = call[t].must
    BY <1>3, GoIs DEF Places
  <2>2. Moves(t)
    BY <1>1, <1>2, <2>1, CallTurns DEF Moves, Appends, Inside
  <2> QED
    BY <1>3, <2>1, <2>2, MoveStep
<1>4. CASE NextBucket(t)
  <2>1. /\ call' \in [Thread -> CallT] /\ \A u \in Thread \ {t} : call'[u] = call[u]
        /\ call'[t].pc = "bucket" /\ call'[t].at = call[t].at + 1 /\ call'[t].slot = 1
        /\ call'[t].op = call[t].op /\ call'[t].own = call[t].own /\ call'[t].key = call[t].key
        /\ call'[t].range = call[t].range /\ call'[t].must = call[t].must
    BY <1>4, NextBucketIs
  <2>2. Moves(t)
    BY <1>1, <1>2, <2>1, CallTurns DEF Moves, Appends, Inside
  <2>3. \A b \in DOMAIN buckets : \A s \in buckets[b].present : Ahead(t, b, s) => Ahead(t, b, s)'
    <3>1. ASSUME NEW b \in DOMAIN buckets, NEW s \in buckets[b].present, Ahead(t, b, s)
          PROVE  Ahead(t, b, s)'
      <4>1. call[t].at < b /\ 1 <= s /\ b \in Nat /\ s \in Nat
        BY <1>1, <1>2, <3>1 DEF Ahead
      <4>2. call[t].at + 1 < b \/ call[t].at + 1 = b
        BY <1>2, <4>1
      <4> QED
        BY <2>1, <4>1, <4>2 DEF Ahead
    <3> QED
      BY <3>1
  <2>4. call'[t].at # 0
    BY <1>2, <2>1
  <2> QED
    BY <1>1, <1>2, <2>1, <2>2, <2>3, <2>4, MoveStep DEF Scan
<1> QED
  BY <1>3, <1>4 DEF Count

\* A thread that has looked at a block goes on behind it.
LEMMA ContinueStep ==
  ASSUME ListInv, NEW t \in Thread, call[t].pc = "meet", Continue(t),
         UNCHANGED <<buckets, item, tx, begun, closing>>
  PROVE  ListInv'
<1>2. /\ closing = "open" /\ Role(t) /\ Scan(t) /\ call[t].at \in Nat /\ call[t].slot \in Nat
      /\ tx \in [Thread -> Nat] /\ begun \in Nat /\ ItemsKept
      /\ \A b \in DOMAIN buckets : b \in Nat /\ buckets[b].present \in SUBSET (Nat \ {0})
  BY InScan
<1>3. /\ call' \in [Thread -> CallT] /\ \A u \in Thread \ {t} : call'[u] = call[u]
      /\ call'[t].pc = "slot" /\ call'[t].at = call[t].at /\ call'[t].slot = call[t].slot + 1
      /\ call'[t].op = call[t].op /\ call'[t].own = call[t].own /\ call'[t].key = call[t].key
      /\ call'[t].range = call[t].range /\ call'[t].must = call[t].must \ {Met(t)}
  BY ContinueIs
<1>4. Moves(t)
  BY <1>2, <1>3, CallTurns DEF Moves, Appends, Inside
<1>5. ASSUME NEW b \in DOMAIN buckets, NEW s \in buckets[b].present,
             Ahead(t, b, s), buckets[b].slots[s] # Met(t)
      PROVE  Ahead(t, b, s)'
  <2>1. call[t].at < b \/ (call[t].at = b /\ call[t].slot < s)
    BY <1>2, <1>5 DEF Ahead, Met, Here
  <2>2. s \in Nat
    BY <1>2, <1>5
  <2> QED
    BY <1>2, <1>3, <2>1, <2>2 DEF Ahead
<1>6. call[t].at \in DOMAIN buckets
  BY <1>2 DEF Role
<1> QED
  BY <1>2, <1>3, <1>4, <1>5, <1>6, MoveStep DEF Scan

\* A writer that has met its own block has met all there was to meet.
LEMMA MeetStep ==
  ASSUME ListInv, NEW t \in Thread, Meet(t)
  PROVE  ListInv'
<1> DEFINE n == Met(t)
<1>1. /\ call[t].pc = "meet" /\ ByRange(call[t].op) /\ UNCHANGED <<buckets, item, tx, begun, closing>>
  BY DEF Meet
<1>2. /\ closing = "open" /\ Role(t) /\ Scan(t) /\ Keys(t) /\ call[t].at \in Nat /\ call[t].slot \in Nat
      /\ tx \in [Thread -> Nat] /\ begun \in Nat /\ ItemsKept /\ call[t] \in CallT
      /\ \A b \in DOMAIN buckets : /\ b \in Nat /\ buckets[b].present \in SUBSET (Nat \ {0})
                                   /\ buckets[b].present \subseteq DOMAIN buckets[b].slots
  BY <1>1, InScan DEF BucketOK
<1>3. call[t].at \in DOMAIN buckets /\ call[t].slot \in DOMAIN Here(t).slots /\ n \in DOMAIN item
  BY <1>1, <1>2 DEF Role, Met, Here, ListInv, BucketOK
<1>4. CASE n = call[t].own /\ call' = [call EXCEPT ![t] = [call[t] EXCEPT !.pc = "end", !.must = @ \ {n}]]
  <2> DEFINE c == [call[t] EXCEPT !.pc = "end", !.must = @ \ {n}]
  <2>1. "end" \in Places /\ call[t].must \ {n} \in SUBSET Nat
    BY <1>2 DEF Places, CallT
  <2>2. /\ c \in CallT /\ c.pc = "end" /\ c.op = call[t].op /\ c.own = call[t].own
        /\ c.key = call[t].key /\ c.range = call[t].range /\ c.must = call[t].must \ {n}
    BY <1>2, <2>1 DEF CallT
  <2>3. /\ call' \in [Thread -> CallT] /\ call'[t] = c
        /\ \A u \in Thread \ {t} : call'[u] = call[u]
    BY <1>4, <2>2 DEF ListInv, ListType
  <2> HIDE DEF c
  <2>4. Moves(t)
    BY <1>1, <1>2, <2>2, <2>3, CallTurns DEF Moves, Appends, Inside
  <2>5. call[t].op = "write"
    <3>1. n # 0 /\ call[t].op \in {"write", "read"}
      BY <1>1, <1>3 DEF ByRange, ListInv, ListType
    <3> QED
      BY <1>4, <3>1, <1>2 DEF Role, NoItem
  <2>6. PICK b \in DOMAIN buckets : \E r \in buckets[b].present : buckets[b].slots[r] = n
    BY <1>1, <1>2, <1>4, <2>5 DEF Keys, Seeking, Shown
  <2>7. call[t].at = b /\ call[t].slot \in buckets[b].present
    BY <1>2, <1>3, <2>6 DEF ListInv, OnePlace, Met, Here
  <2>8. ASSUME NEW c1 \in DOMAIN buckets, NEW s \in buckets[c1].present,
               buckets[c1].slots[s] \in call[t].must, buckets[c1].slots[s] # n
        PROVE  FALSE
    <3>1. call[t].at < c1 \/ (call[t].at = c1 /\ call[t].slot <= s)
      BY <1>1, <1>2, <2>5, <2>8 DEF Scan, Ahead
    <3>2. c1 < call[t].at \/ (c1 = call[t].at /\ s <= call[t].slot)
      BY <1>1, <1>2, <1>4, <2>5, <2>7, <2>8 DEF Scan, Met, Here
    <3>3. c1 = call[t].at /\ s = call[t].slot
      BY <1>2, <2>8, <3>1, <3>2
    <3> QED
      BY <2>8, <3>3 DEF Met, Here
  <2> QED
    BY <2>2, <2>3, <2>4, <2>8, MoveStep
<1>5. CASE Continue(t)
  BY <1>1, <1>5, ContinueStep
<1>6. CASE call[t].op = "write" /\ Go(t, "refuse")
  <2>1. /\ call' \in [Thread -> CallT] /\ \A u \in Thread \ {t} : call'[u] = call[u]
        /\ call'[t].pc = "refuse" /\ call'[t].at = call[t].at /\ call'[t].slot = call[t].slot
        /\ call'[t].op = call[t].op /\ call'[t].own = call[t].own /\ call'[t].key = call[t].key
        /\ call'[t].range = call[t].range /\ call'[t].must = call[t].must
    BY <1>6, GoIs DEF Places
  <2>2. Moves(t)
    BY <1>1, <1>2, <2>1, CallTurns DEF Moves, Appends, Inside
  <2>3. \A b, s : Ahead(t, b, s)'
    BY <2>1 DEF Ahead
  <2> QED
    BY <1>6, <2>1, <2>2, <2>3, MoveStep
<1> QED
  BY <1>4, <1>5, <1>6 DEF Meet

\* What the threads turn to garbage is not what the invariant is about.
LEMMA Garbage ==
  ASSUME ListInv, NEW n \in DOMAIN item,
         NEW type \in {"init", "wr", "garbage"}, item' = [item EXCEPT ![n].type = type]
  PROVE  ItemsKept
<1>1. item \in Seq(ItemT) /\ item[n] \in ItemT
  BY DEF ListInv, ListType
<1>2. [item[n] EXCEPT !.type = type] \in ItemT
  BY <1>1 DEF ItemT
<1>3. /\ [item[n] EXCEPT !.type = type].range = item[n].range
      /\ [item[n] EXCEPT !.type = type].tx = item[n].tx
  BY <1>1 DEF ItemT
<1>4. item' = [item EXCEPT ![n] = [item[n] EXCEPT !.type = type]]
  OBVIOUS
<1> QED
  BY <1>1, <1>2, <1>3, <1>4 DEF ItemsKept

LEMMA MeetOwnStep ==
  ASSUME ListInv, NEW t \in Thread, MeetOwn(t)
  PROVE  ListInv'
<1> DEFINE n == Met(t)
<1>1. call[t].pc = "meet" /\ ~ByRange(call[t].op) /\ UNCHANGED <<buckets, tx, begun, closing>>
  BY DEF MeetOwn
<1>2. /\ closing = "open" /\ Role(t) /\ Scan(t) /\ Keys(t) /\ call[t].at \in Nat
      /\ tx \in [Thread -> Nat] /\ begun \in Nat /\ call[t] \in CallT
  BY <1>1, InScan
<1>3. call[t].at \in DOMAIN buckets /\ call[t].slot \in DOMAIN Here(t).slots /\ n \in DOMAIN item
  BY <1>1, <1>2 DEF Role, Met, Here, ListInv, BucketOK
<1>4. CASE Continue(t) /\ UNCHANGED item
  BY <1>1, <1>4, ContinueStep
<1>5. CASE /\ item[n].tx = call[t].key /\ call[t].op # "apply"
           /\ Go(t, "clear") /\ item' = [item EXCEPT ![n].type = "garbage"]
  <2>1. /\ call' \in [Thread -> CallT] /\ \A u \in Thread \ {t} : call'[u] = call[u]
        /\ call'[t].pc = "clear" /\ call'[t].at = call[t].at /\ call'[t].slot = call[t].slot
        /\ call'[t].op = call[t].op /\ call'[t].own = call[t].own /\ call'[t].key = call[t].key
        /\ call'[t].range = call[t].range /\ call'[t].must = call[t].must
    BY <1>5, GoIs DEF Places
  <2>2. ItemsKept
    <3> HIDE DEF n
    <3> QED
      BY <1>3, <1>5, Garbage
  <2>3. Moves(t)
    BY <1>1, <1>2, <2>1, <2>2, CallTurns DEF Moves, Appends, Inside
  <2>4. \A b, s : Ahead(t, b, s) => Ahead(t, b, s)'
    BY <1>1, <2>1 DEF Ahead
  <2>5. call[t].op \in {"drop", "remove"}
    BY <1>1, <1>2, <1>5 DEF Role, ByRange, CallT
  <2>6. (item[Met(t)].tx = call[t].key)'
    <3>1. Met(t)' = n
      BY <1>1, <2>1 DEF Met, Here
    <3> HIDE DEF n
    <3> QED
      BY <1>3, <1>5, <2>1, <2>2, <3>1 DEF ItemsKept
  <2>7. call'[t].slot \in DOMAIN buckets[call'[t].at].slots
    BY <1>3, <2>1 DEF Here
  <2> QED
    BY <1>1, <1>2, <1>3, <2>1, <2>3, <2>4, <2>5, <2>6, <2>7, MoveStep, SMTT(60) DEF Scan
<1> QED
  BY <1>4, <1>5 DEF MeetOwn

\* The call returns, or a commit goes on to its removal.
LEMMA LeaveStep ==
  ASSUME ListInv, NEW t \in Thread, call[t].pc \in {"refuse", "end"}, NEW c \in CallT,
         call' = [call EXCEPT ![t] = c], c.must = {}, c.slot = 1, c.own = NoItem,
         \/ c.op = "idle" /\ c.pc = "out" /\ tx' = [tx EXCEPT ![t] = NoTx]
         \/ c.op = "idle" /\ c.pc = "out" /\ tx' = tx
         \/ c.op = "remove" /\ c.pc = "start" /\ c.key = call[t].key /\ call[t].op = "apply" /\ tx' = tx,
         ItemsKept, UNCHANGED <<buckets, begun, closing>>
  PROVE  ListInv'
<1>1. /\ closing = "open" /\ Keys(t) /\ tx \in [Thread -> Nat] /\ begun \in Nat
      /\ call \in [Thread -> CallT]
  BY InScan DEF ListInv, ListType
<1>2. /\ call' \in [Thread -> CallT] /\ call'[t] = c
      /\ \A u \in Thread \ {t} : call'[u] = call[u] /\ tx'[u] = tx[u]
      /\ tx'[t] = tx[t] \/ tx'[t] = NoTx
  BY <1>1
<1>3. OneCalls(t)
  BY <1>1, <1>2 DEF OneCalls, NoTx, Keys
<1>4. Keys(t)'
  BY <1>1, <1>2 DEF Keys, NoTx, Seeking
<1>5. Role(t)' /\ Own(t)' /\ Scan(t)'
  BY <1>2 DEF Role, Own, Scan, Appends, ByRange
<1>6. \A u \in Thread \ {t} : Apart(t, u)' /\ Apart(u, t)'
  BY <1>2, <1>3, StaysApart DEF Appends
<1> QED
  BY <1>3, <1>4, <1>5, <1>6, StepOfCall DEF CallOK

LEMMA RefuseStep ==
  ASSUME ListInv, NEW t \in Thread, Refuse(t)
  PROVE  ListInv'
<1>1. /\ call[t].pc = "refuse" /\ call' = [call EXCEPT ![t] = Idle]
      /\ item' = [item EXCEPT ![call[t].own].type = "garbage"]
      /\ UNCHANGED <<buckets, tx, begun, closing>>
  BY DEF Refuse
<1>2. Role(t)
  BY <1>1, InScan
<1>3. call[t].own \in DOMAIN item
  BY <1>1, <1>2 DEF Role
<1>4. ItemsKept
  BY <1>1, <1>3, Garbage
<1> QED
  BY <1>1, <1>4, IdleIs, LeaveStep

LEMMA FinishStep ==
  ASSUME ListInv, NEW t \in Thread, Finish(t)
  PROVE  ListInv'
<1>1. /\ call[t].pc = "end" /\ UNCHANGED <<buckets, begun, closing>>
      /\ item' = IF call[t].op = "write" THEN [item EXCEPT ![call[t].own].type = "wr"] ELSE item
      /\ tx' = IF call[t].op = "remove" THEN [tx EXCEPT ![t] = NoTx] ELSE tx
  BY DEF Finish
<1>2. Role(t) /\ call[t] \in CallT /\ (item' = item => ItemsKept)
  BY <1>1, InScan
<1>3. ItemsKept
  BY <1>1, <1>2, Garbage DEF Role
<1>4. CASE call[t].op = "apply"
  <2> DEFINE c == [Idle EXCEPT !.op = "remove", !.pc = "start", !.key = call[t].key]
  <2>1. /\ c \in CallT /\ c.op = "remove" /\ c.pc = "start" /\ c.key = call[t].key
        /\ c.must = {} /\ c.slot = 1 /\ c.own = NoItem
    BY <1>2, IdleIs DEF CallT, Places
  <2>2. call' = [call EXCEPT ![t] = c]
    BY <1>4 DEF Finish
  <2> HIDE DEF c
  <2> QED
    BY <1>1, <1>3, <1>4, <2>1, <2>2, LeaveStep
<1>5. CASE call[t].op # "apply"
  <2>1. call' = [call EXCEPT ![t] = Idle]
    BY <1>5 DEF Finish
  <2> QED
    BY <1>1, <1>3, <2>1, IdleIs, LeaveStep
<1> QED
  BY <1>4, <1>5

\* The slots of the present blocks, one by one.
LEMMA SlotsAre ==
  ASSUME ListInv
  PROVE  /\ \A p \in Slots : p = <<p[1], p[2]>> /\ p[1] \in DOMAIN buckets /\ p[2] \in buckets[p[1]].present
         /\ \A b \in DOMAIN buckets : \A s \in buckets[b].present : <<b, s>> \in Slots
<1>1. buckets \in Seq(BucketT) /\ DOMAIN buckets = 1 .. Len(buckets)
  BY DEF ListInv, ListType
<1>2. ASSUME NEW b \in DOMAIN buckets, NEW s \in buckets[b].present PROVE s \in 1 .. Capacity
  <2>1. buckets[b] \in BucketT /\ BucketOK(b)
    BY <1>1 DEF ListInv
  <2>2. buckets[b].slots \in Seq(Nat)
    BY <2>1 DEF BucketT
  <2> QED
    BY <2>1, <2>2, CapacityAssumption DEF BucketOK
<1> QED
  BY <1>1, <1>2 DEF Slots

LEMMA StartStep ==
  ASSUME ListInv, NEW t \in Thread, Start(t)
  PROVE  ListInv'
<1> DEFINE must == {n \in Present : Concerns(call[t], n)}
                     \cap (IF call[t].op = "write" THEN UpTo(call[t].own) ELSE Present)
           c == [call[t] EXCEPT !.pc = "bucket", !.at = 1, !.must = must]
<1>1. /\ call[t].pc = "start" /\ UNCHANGED <<buckets, item, tx, begun, closing>>
      /\ call' = [call EXCEPT ![t] = c]
  BY DEF Start
<1>2. /\ closing = "open" /\ CallOK(t) /\ Role(t) /\ Keys(t) /\ call[t] \in CallT
      /\ call[t].slot = 1 /\ ItemsKept /\ call \in [Thread -> CallT]
  <2>1. closing = "open" /\ CallOK(t) /\ call[t] \in CallT /\ ItemsKept
    BY <1>1, InCall
  <2> QED
    BY <1>1, <2>1 DEF CallOK, Role, ListInv, ListType
<1>3. ASSUME NEW n \in must
      PROVE  /\ n \in DOMAIN item /\ n \in Nat /\ Concerns(call[t], n)
             /\ \E b \in DOMAIN buckets : \E s \in buckets[b].present : buckets[b].slots[s] = n
  <2>1. n \in Present /\ Concerns(call[t], n)
    OBVIOUS
  <2>2. PICK p \in Slots : n = BlockAt(p)
    BY <2>1 DEF Present
  <2>3. p[1] \in DOMAIN buckets /\ p[2] \in buckets[p[1]].present /\ buckets[p[1]].slots[p[2]] = n
    BY <2>2, SlotsAre DEF BlockAt
  <2>4. n \in DOMAIN item
    BY <2>3 DEF ListInv, BucketOK
  <2> QED
    BY <2>1, <2>3, <2>4 DEF ListInv, ListType
<1>4. call[t].op = "write" => must \subseteq UpTo(call[t].own)
  OBVIOUS
<1>5. /\ c \in CallT /\ c.pc = "bucket" /\ c.at = 1 /\ c.slot = 1 /\ c.op = call[t].op
      /\ c.own = call[t].own /\ c.key = call[t].key /\ c.range = call[t].range /\ c.must = must
  <2>1. must \in SUBSET Nat
    BY <1>3
  <2> HIDE DEF must
  <2> QED
    BY <1>2, <2>1 DEF CallT, Places
<1> HIDE DEF must, c
<1>6. call' \in [Thread -> CallT] /\ call'[t] = c /\ \A u \in Thread \ {t} : call'[u] = call[u]
  BY <1>1, <1>2, <1>5
<1>7. OneCalls(t) /\ tx'[t] = tx[t]
  BY <1>1, <1>2, <1>6, CallTurns
<1>8. CallOK(t)'
  <2>1. Role(t)'
    BY <1>1, <1>2, <1>5, <1>6 DEF Role, Appends
  <2>2. Own(t)'
    BY <1>5, <1>6 DEF Own, Appends
  <2>3. Keys(t)'
    <3>1. call[t].op = "write" => Shown(call[t].own)'
      BY <1>1, <1>2, <1>5, <1>6 DEF Keys, Seeking, Shown
    <3> QED
      BY <1>1, <1>2, <1>5, <1>6, <3>1, KeysStay
  <2>4. Scan(t)'
    <3>1. \A n \in call'[t].must : n \in DOMAIN item' /\ Concerns(call[t], n)'
      BY <1>1, <1>3, <1>5, <1>6 DEF Concerns
    <3>2. ASSUME NEW b \in DOMAIN buckets, NEW s \in buckets[b].present PROVE Ahead(t, b, s)'
      <4>1. b \in Nat /\ b >= 1 /\ s \in Nat /\ s >= 1
        <5>1. buckets[b] \in BucketT /\ BucketOK(b)
          BY DEF ListInv, ListType
        <5> QED
          BY <5>1, SMTT(60) DEF ListInv, ListType, BucketOK, BucketT
      <4> QED
        BY <1>5, <1>6, <4>1 DEF Ahead
    <3>3. ASSUME call[t].op = "write", NEW b1 \in DOMAIN buckets, NEW b2 \in DOMAIN buckets,
                 NEW s \in buckets[b1].present, NEW r \in buckets[b2].present,
                 buckets[b1].slots[s] \in must, buckets[b2].slots[r] = call[t].own
          PROVE  b1 < b2 \/ (b1 = b2 /\ s <= r)
      <4>1. PICK p \in Slots : /\ BlockAt(p) = buckets[b1].slots[s]
                               /\ \A q \in Slots : BlockAt(q) = call[t].own =>
                                    p[1] < q[1] \/ (p[1] = q[1] /\ p[2] <= q[2])
        BY <1>4, <3>3 DEF UpTo
      <4>2. /\ p[1] \in DOMAIN buckets /\ p[2] \in buckets[p[1]].present
            /\ \A b \in DOMAIN buckets : buckets[b].present \subseteq DOMAIN buckets[b].slots
        BY <4>1, SlotsAre DEF ListInv, BucketOK
      <4>3. p[1] = b1 /\ p[2] = s
        BY <3>3, <4>1, <4>2 DEF ListInv, OnePlace, BlockAt
      <4>4. <<b2, r>> \in Slots /\ BlockAt(<<b2, r>>) = call[t].own
        BY <3>3, SlotsAre DEF BlockAt
      <4> QED
        BY <4>1, <4>3, <4>4
    <3> QED
      BY <1>1, <1>5, <1>6, <3>1, <3>2, <3>3 DEF Scan
  <2> QED
    BY <2>1, <2>2, <2>3, <2>4 DEF CallOK
<1>9. ASSUME NEW u \in Thread \ {t} PROVE Apart(t, u)' /\ Apart(u, t)'
  <2>1. Apart(t, u) /\ Apart(u, t) /\ Own(u) /\ call'[u] = call[u] /\ tx' = tx
    BY <1>1, <1>6 DEF ListInv, CallOK
  <2>2. Appends(u) => call[u].own \notin must
    <3>1. \A b \in DOMAIN buckets : buckets[b].present \subseteq DOMAIN buckets[b].slots
      BY DEF ListInv, BucketOK
    <3> QED
      BY <1>3, <2>1, <3>1 DEF Own
  <2> QED
    BY <1>5, <1>6, <2>1, <2>2 DEF Apart, Appends
<1> QED
  BY <1>1, <1>2, <1>7, <1>8, <1>9, StepOfCall

-----------------------------------------------------------------------------
(* Removal.                                                                *)

\* One bucket loses a block, or is found to be garbage.
LEMMA LessStep ==
  ASSUME ListInv, NEW t \in Thread, call[t].pc \in {"clear", "mark"},
         NEW bucket \in BucketT, buckets' = [buckets EXCEPT ![call[t].at] = bucket],
         bucket.slots = Here(t).slots, bucket.index = Here(t).index,
         bucket.present \subseteq Here(t).present,
         \A s \in Here(t).present : s \in bucket.present \/ Removes(t, Here(t).slots[s]),
         \/ bucket.valid = Here(t).valid
         \/ bucket.present = {} /\ Full(bucket),
         call' \in [Thread -> CallT], \A u \in Thread \ {t} : call'[u] = call[u],
         call'[t].must \subseteq call[t].must, ~Appends(t)', call'[t].op = call[t].op,
         CallOK(t)', UNCHANGED <<item, tx, begun, closing>>
  PROVE  ListInv'
<1> DEFINE b == call[t].at
<1>1. /\ b \in DOMAIN buckets /\ ItemsKept /\ closing = "open"
      /\ \A a \in DOMAIN buckets : /\ buckets[a] \in BucketT /\ BucketOK(a) /\ buckets[a].index \in IndexT
                                   /\ buckets[a].present \subseteq DOMAIN buckets[a].slots
  <2>1. /\ Role(t) /\ ItemsKept /\ closing = "open"
        /\ \A a \in DOMAIN buckets : buckets[a] \in BucketT /\ BucketOK(a)
    BY InScan
  <2> QED
    BY <2>1 DEF Role, BucketOK, BucketT
<1>2. /\ buckets' \in Seq(BucketT) /\ DOMAIN buckets' = DOMAIN buckets /\ buckets'[b] = bucket
      /\ \A a \in DOMAIN buckets \ {b} : buckets'[a] = buckets[a]
  BY <1>1 DEF ListInv, ListType
<1>3. /\ \A a \in DOMAIN buckets : /\ buckets'[a].slots = buckets[a].slots
                                   /\ buckets'[a].index = buckets[a].index
                                   /\ buckets'[a].present \subseteq buckets[a].present
                                   /\ \A s \in buckets[a].present :
                                        s \in buckets'[a].present \/ Removes(t, buckets[a].slots[s])
      /\ \A a \in DOMAIN buckets : \/ buckets'[a].valid = buckets[a].valid
                                   \/ buckets'[a].present = {} /\ Full(buckets'[a]) /\ Full(buckets[a])
  BY <1>1, <1>2 DEF Here, Full
<1>4. BucketsGrow(t)
  <2>1. \A a \in DOMAIN buckets : Wider(buckets[a].index, buckets'[a].index)
    BY <1>1, <1>3 DEF Wider, IndexT
  <2> HIDE DEF b
  <2>2. \A a \in DOMAIN buckets : Full(buckets[a]) => Full(buckets'[a])
    BY <1>3 DEF Full
  <2>3. \A a \in DOMAIN buckets : buckets'[a].present \subseteq DOMAIN buckets'[a].slots
    BY <1>1, <1>3
  <2> QED
    BY <1>2, <1>3, <2>1, <2>2, <2>3 DEF BucketsGrow
<1>5. ASSUME NEW u \in Thread \ {t} PROVE Untouched(u)
  <2>1. SUFFICES ASSUME call[u].pc \in {"index", "index_id", "publish"}
                 PROVE  /\ buckets'[call[u].at].slots = Here(u).slots
                        /\ buckets'[call[u].at].valid = Here(u).valid
    BY DEF Untouched
  <2>2. call[u].at \in DOMAIN buckets /\ Len(Here(u).slots) < Capacity
    BY <2>1 DEF ListInv, CallOK, Role, Own
  <2>3. ~Full(buckets[call[u].at])
    <3>1. buckets[call[u].at].slots \in Seq(Nat)
      BY <1>1, <2>2 DEF BucketT
    <3> QED
      BY <2>2, <3>1, CapacityAssumption DEF Full, Here
  <2> QED
    BY <1>3, <2>2, <2>3 DEF Here
<1>6. ASSUME NEW a \in DOMAIN buckets' PROVE BucketOK(a)'
  <2>1. BucketOK(a) /\ a \in DOMAIN buckets
    BY <1>1, <1>2, <1>6
  <2> QED
    BY <1>3, <2>1 DEF BucketOK, Full
<1>7. OnePlace'
  BY <1>2, <1>3 DEF ListInv, OnePlace
<1>8. OneCalls(t) /\ tx'[t] = tx[t]
  BY <1>1, CallTurns
<1>9. \A u \in Thread \ {t} : Apart(t, u)' /\ Apart(u, t)'
  <2>1. ~Appends(t) /\ call'[t].op = call[t].op
    BY DEF Appends
  <2>2. call[t].op # "write"
    BY DEF ListInv, CallOK, Role
  <2> QED
    BY <1>8, <2>1, <2>2, StaysApart DEF Appends
<1> QED
  BY <1>1, <1>4, <1>5, <1>6, <1>7, <1>8, <1>9, StepOfOne

LEMMA ClearStep ==
  ASSUME ListInv, NEW t \in Thread, Clear(t)
  PROVE  ListInv'
<1> DEFINE b == call[t].at
           s == call[t].slot
           bucket == [buckets[b] EXCEPT !.present = @ \ {s}]
           pc == IF Emptied(Here(t), s) THEN "mark" ELSE IF call[t].op = "drop" THEN "count" ELSE "slot"
           c == [call[t] EXCEPT !.removed = TRUE, !.slot = @ + 1, !.must = @ \ {Met(t)}, !.pc = pc]
<1>1. /\ call[t].pc = "clear" /\ UNCHANGED <<item, tx, begun, closing>>
      /\ buckets' = [buckets EXCEPT ![b] = bucket] /\ call' = [call EXCEPT ![t] = c]
  BY DEF Clear
<1>2. /\ Role(t) /\ Scan(t) /\ Keys(t) /\ call[t] \in CallT /\ b \in Nat /\ s \in Nat /\ ItemsKept
      /\ \A a \in DOMAIN buckets : /\ a \in Nat /\ buckets[a] \in BucketT
                                   /\ buckets[a].present \in SUBSET (Nat \ {0})
      /\ call \in [Thread -> CallT] /\ buckets \in Seq(BucketT)
  BY <1>1, InScan DEF ListInv, ListType
<1>3. b \in DOMAIN buckets /\ buckets[b] \in BucketT /\ call[t].op \in {"drop", "remove"}
  BY <1>1, <1>2 DEF Role
<1>4. /\ bucket \in BucketT /\ bucket.slots = buckets[b].slots /\ bucket.index = buckets[b].index
      /\ bucket.present = buckets[b].present \ {s} /\ bucket.valid = buckets[b].valid
  BY <1>3 DEF BucketT
<1>5. /\ c \in CallT /\ c.pc = pc /\ c.at = b /\ c.slot = s + 1 /\ c.op = call[t].op
      /\ c.own = call[t].own /\ c.key = call[t].key /\ c.range = call[t].range
      /\ c.must = call[t].must \ {Met(t)}
  <2>1. pc \in Places /\ s + 1 \in Nat \ {0} /\ call[t].must \ {Met(t)} \in SUBSET Nat
    BY <1>2 DEF Places, CallT
  <2> HIDE DEF pc
  <2> QED
    BY <1>2, <2>1 DEF CallT
<1>6. /\ pc \in {"mark", "count", "slot"}
      /\ pc = "count" => call[t].op = "drop"
      /\ pc = "mark" => bucket.present = {} /\ Full(bucket)
  BY <1>4 DEF Emptied, Full, Here
<1> HIDE DEF bucket, pc, c
<1>7. /\ call' \in [Thread -> CallT] /\ call'[t] = c /\ \A u \in Thread \ {t} : call'[u] = call[u]
      /\ buckets'[b] = bucket /\ DOMAIN buckets' = DOMAIN buckets
      /\ \A a \in DOMAIN buckets \ {b} : buckets'[a] = buckets[a]
  BY <1>1, <1>2, <1>3, <1>5
<1>8. CallOK(t)'
  <2>1. Role(t)'
    BY <1>1, <1>2, <1>3, <1>5, <1>6, <1>7 DEF Role, Appends, ByRange
  <2>2. Keys(t)'
    BY <1>1, <1>2, <1>3, <1>5, <1>6, <1>7, KeysStay
  <2>3. Own(t)'
    BY <1>4, <1>5, <1>6, <1>7 DEF Own, Appends, Here
  <2>4. Scan(t)'
    <3>1. \A n \in call'[t].must : n \in DOMAIN item' /\ Concerns(call[t], n)'
      BY <1>1, <1>2, <1>5, <1>7 DEF Scan, Concerns
    <3>2. ASSUME call[t].op # "drop", NEW a \in DOMAIN buckets', NEW r \in buckets'[a].present,
                 buckets'[a].slots[r] \in call'[t].must
          PROVE  Ahead(t, a, r)'
      <4>1. /\ a \in DOMAIN buckets /\ r \in buckets[a].present /\ buckets'[a].slots[r] = buckets[a].slots[r]
            /\ a = b => r # s
        BY <1>4, <1>7, <3>2
      <4>2. Ahead(t, a, r)
        BY <1>2, <1>5, <1>7, <3>2, <4>1 DEF Scan
      <4>3. b < a \/ (b = a /\ s < r)
        BY <1>1, <1>2, <4>1, <4>2 DEF Ahead
      <4>4. b = a => pc = "slot"
        BY <1>6, <1>7, <3>2
      <4> QED
        BY <1>2, <1>5, <1>6, <1>7, <3>2, <4>1, <4>3, <4>4 DEF Ahead
    <3> QED
      BY <1>3, <1>5, <1>7, <3>1, <3>2 DEF Scan
  <2> QED
    BY <2>1, <2>2, <2>3, <2>4 DEF CallOK
<1>9. \A r \in Here(t).present : r \in bucket.present \/ Removes(t, Here(t).slots[r])
  BY <1>1, <1>2, <1>3, <1>4 DEF Removes, Here, Met, Keys
<1>10. bucket.slots = Here(t).slots /\ bucket.index = Here(t).index /\ bucket.valid = Here(t).valid
       /\ bucket.present \subseteq Here(t).present
  BY <1>4 DEF Here
<1>11. call'[t].must \subseteq call[t].must /\ ~Appends(t)' /\ call'[t].op = call[t].op
  BY <1>5, <1>6, <1>7 DEF Appends
<1> QED
  BY <1>1, <1>4, <1>7, <1>8, <1>9, <1>10, <1>11, LessStep

LEMMA MarkStep ==
  ASSUME ListInv, NEW t \in Thread, Mark(t)
  PROVE  ListInv'
<1> DEFINE b == call[t].at
           bucket == [buckets[b] EXCEPT !.valid = FALSE]
<1>1. /\ call[t].pc = "mark" /\ UNCHANGED <<item, tx, begun, closing>>
      /\ buckets' = [buckets EXCEPT ![b] = bucket] /\ Go(t, "count")
  BY DEF Mark
<1>2. /\ Role(t) /\ Scan(t) /\ Keys(t) /\ Own(t) /\ call[t] \in CallT /\ b \in Nat /\ ItemsKept
      /\ buckets \in Seq(BucketT)
  BY <1>1, InScan DEF ListInv, ListType
<1>3. b \in DOMAIN buckets /\ buckets[b] \in BucketT /\ call[t].op \in {"drop", "remove"}
      /\ buckets[b].present = {} /\ Full(buckets[b])
  BY <1>1, <1>2 DEF Role, Own, Here
<1>4. /\ bucket \in BucketT /\ bucket.slots = buckets[b].slots /\ bucket.index = buckets[b].index
      /\ bucket.present = buckets[b].present
  BY <1>3 DEF BucketT
<1>5. /\ call' \in [Thread -> CallT] /\ \A u \in Thread \ {t} : call'[u] = call[u]
      /\ call'[t].pc = "count" /\ call'[t].at = call[t].at /\ call'[t].slot = call[t].slot
      /\ call'[t].op = call[t].op /\ call'[t].own = call[t].own /\ call'[t].key = call[t].key
      /\ call'[t].range = call[t].range /\ call'[t].must = call[t].must
  BY <1>1, GoIs DEF Places
<1> HIDE DEF bucket
<1>7. /\ buckets'[b] = bucket /\ DOMAIN buckets' = DOMAIN buckets
      /\ \A a \in DOMAIN buckets \ {b} : buckets'[a] = buckets[a]
  BY <1>1, <1>2, <1>3, <1>4
<1>8. CallOK(t)'
  <2>1. Role(t)'
    BY <1>1, <1>2, <1>3, <1>5, <1>7 DEF Role, Appends, ByRange
  <2>2. Keys(t)'
    BY <1>1, <1>2, <1>3, <1>5, KeysStay
  <2>3. Own(t)'
    BY <1>5 DEF Own, Appends
  <2>4. Scan(t)'
    <3>1. \A n \in call'[t].must : n \in DOMAIN item' /\ Concerns(call[t], n)'
      BY <1>1, <1>2, <1>5 DEF Scan, Concerns
    <3>2. ASSUME call[t].op # "drop", NEW a \in DOMAIN buckets', NEW r \in buckets'[a].present,
                 buckets'[a].slots[r] \in call'[t].must
          PROVE  Ahead(t, a, r)'
      <4>1. /\ a \in DOMAIN buckets /\ r \in buckets[a].present /\ buckets'[a].slots[r] = buckets[a].slots[r]
        BY <1>4, <1>7, <3>2
      <4>2. Ahead(t, a, r)
        BY <1>2, <1>5, <3>2, <4>1 DEF Scan
      <4> QED
        BY <1>1, <1>5, <4>2 DEF Ahead
    <3> QED
      BY <1>3, <1>5, <3>1, <3>2 DEF Scan
  <2> QED
    BY <2>1, <2>2, <2>3, <2>4 DEF CallOK
<1>9. /\ bucket.slots = Here(t).slots /\ bucket.index = Here(t).index
      /\ bucket.present \subseteq Here(t).present /\ bucket.present = {} /\ Full(bucket)
      /\ \A r \in Here(t).present : r \in bucket.present
  BY <1>3, <1>4 DEF Here, Full
<1>10. call'[t].must \subseteq call[t].must /\ ~Appends(t)'
  BY <1>5 DEF Appends
<1> QED
  BY <1>1, <1>4, <1>5, <1>8, <1>9, <1>10, LessStep

-----------------------------------------------------------------------------
(* Collection and the end.                                                 *)

\* Nobody is inside the list when its garbage is taken out, and what goes is empty.
LEMMA CleanStep ==
  ASSUME ListInv, NEW n, Clean(n)
  PROVE  ListInv'
<1> DEFINE I == {b \in DOMAIN buckets : buckets[b].valid}
<1>1. /\ UniqueAllowed /\ UNCHANGED <<item, tx, begun, call, closing>>
      /\ buckets' = Picked(buckets, I)
  BY DEF Clean
<1>2. buckets \in Seq(BucketT) /\ I \in SUBSET DOMAIN buckets
  BY DEF ListInv, ListType
<1>3. /\ \A b \in DOMAIN buckets : BucketOK(b) /\ buckets[b].present \subseteq DOMAIN buckets[b].slots
      /\ \A b \in DOMAIN buckets : b \notin I => buckets[b].present = {}
  BY DEF ListInv, BucketOK
<1> HIDE DEF I
<1>4. /\ buckets' \in Seq(BucketT) /\ DOMAIN buckets' \subseteq Nat
      /\ \A k \in DOMAIN buckets' : Nth(I, k) \in DOMAIN buckets /\ buckets'[k] = buckets[Nth(I, k)]
      /\ \A k, l \in DOMAIN buckets' : k < l => Nth(I, k) < Nth(I, l)
      /\ \A i \in I : \E k \in DOMAIN buckets' : Nth(I, k) = i
  <2>1. buckets' \in Seq(BucketT)
    BY <1>1, <1>2, PickedMembers
  <2> QED
    BY <1>1, <1>2, <2>1, PickedMembers
<1>5. ASSUME NEW k \in DOMAIN buckets', NEW l \in DOMAIN buckets', Nth(I, k) = Nth(I, l)
      PROVE  k = l
  <2>1. k \in Nat /\ l \in Nat /\ Nth(I, k) \in Nat
    BY <1>2, <1>4, <1>5
  <2>2. ~(k < l) /\ ~(l < k)
    BY <1>4, <1>5, <2>1
  <2> QED
    BY <2>1, <2>2
<1>6. ASSUME NEW k \in DOMAIN buckets' PROVE BucketOK(k)'
  <2>1. BucketOK(Nth(I, k)) /\ buckets'[k] = buckets[Nth(I, k)]
    BY <1>3, <1>4
  <2> QED
    BY <1>1, <2>1 DEF BucketOK, Full
<1>7. OnePlace'
  <2>1. SUFFICES ASSUME NEW b \in DOMAIN buckets', NEW c \in DOMAIN buckets',
                        NEW s \in DOMAIN buckets'[b].slots, NEW r \in DOMAIN buckets'[c].slots,
                        buckets'[b].slots[s] = buckets'[c].slots[r]
                 PROVE  b = c /\ s = r
    BY DEF OnePlace
  <2>2. Nth(I, b) = Nth(I, c) /\ s = r
    BY <1>4, <2>1 DEF ListInv, OnePlace
  <2> QED
    BY <1>5, <2>2
<1>8. ASSUME NEW u \in Thread PROVE CallOK(u)'
  <2>1. /\ Role(u) /\ Keys(u) /\ Own(u) /\ Scan(u) /\ call' = call /\ call[u] \in CallT
        /\ call[u].pc \in {"out", "seek", "append", "start", "refuse", "end"}
    <3>1. call[u] \in CallT /\ ~ListShared(u)
      BY <1>1 DEF ListInv, ListType, UniqueAllowed
    <3> QED
      BY <1>1, <3>1 DEF ListInv, CallOK, ListShared, CallT, Places
  <2>2. Role(u)'
    BY <1>1, <2>1 DEF Role, Appends
  <2>3. Keys(u)'
    <3>1. Shown(call[u].own) => Shown(call[u].own)'
      <4>1. ASSUME NEW b \in DOMAIN buckets, NEW s \in buckets[b].present
            PROVE  \E k \in DOMAIN buckets' : buckets'[k] = buckets[b]
        BY <1>3, <1>4, <4>1
      <4> QED
        BY <1>1, <4>1 DEF Shown
    <3> QED
      BY <1>1, <2>1, <3>1 DEF Keys
  <2>4. Own(u)'
    <3>1. Appends(u) => \A k \in DOMAIN buckets' : \A s \in DOMAIN buckets'[k].slots :
                          buckets'[k].slots[s] # call[u].own
      BY <1>4, <2>1 DEF Own
    <3> QED
      BY <2>1, <3>1 DEF Own, Appends
  <2>5. Scan(u)'
    <3>1. \A m \in call[u].must : m \in DOMAIN item' /\ Concerns(call[u], m)'
      BY <1>1, <2>1 DEF Scan, Concerns
    <3>2. ASSUME call[u].op # "drop", NEW k \in DOMAIN buckets', NEW s \in buckets'[k].present,
                 buckets'[k].slots[s] \in call[u].must
          PROVE  call[u].pc = "refuse"
      <4>1. Ahead(u, Nth(I, k), s)
        BY <1>4, <2>1, <3>2 DEF Scan
      <4> QED
        BY <2>1, <4>1 DEF Ahead
    <3> QED
      BY <2>1, <3>1, <3>2 DEF Scan, Ahead
  <2> QED
    BY <2>2, <2>3, <2>4, <2>5 DEF CallOK
<1>9. \A t, u \in Thread : t # u => Apart(t, u)'
  BY <1>1 DEF ListInv, Apart, Appends
<1> QED
  BY <1>1, <1>4, <1>6, <1>7, <1>8, <1>9 DEF ListInv, ListType

\* Steps that leave the list and its users alone.
LEMMA ListKept ==
  ASSUME ListInv, UNCHANGED <<buckets, item, tx, begun, call>>,
         \/ closing' = closing
         \/ closing' = "waiting" /\ \A t \in Thread : (call[t] = Idle /\ tx[t] = NoTx)
  PROVE  ListInv'
<1>1. ListType'
  BY DEF ListInv, ListType
<1>2. \A b \in DOMAIN buckets' : BucketOK(b)'
  BY DEF ListInv, BucketOK, Full, RangeCovered, IdCovered
<1>3. OnePlace'
  BY DEF ListInv, OnePlace
<1>4. ASSUME NEW t \in Thread PROVE CallOK(t)'
  <2>1. CallOK(t)
    BY DEF ListInv
  <2>2. Role(t)'
    BY <2>1, SMTT(60) DEF CallOK, Role, Appends, Here
  <2>3. Keys(t)'
    BY <2>1 DEF CallOK, Keys, Shown, Met, Here
  <2>4. Own(t)'
    BY <2>1 DEF CallOK, Own, Appends, Here, Full, RangeCovered, IdCovered
  <2>5. Scan(t)'
    BY <2>1 DEF CallOK, Scan, Ahead, Concerns
  <2> QED
    BY <2>2, <2>3, <2>4, <2>5 DEF CallOK
<1>5. \A t, u \in Thread : t # u => Apart(t, u)'
  BY DEF ListInv, Apart, Appends
<1> QED
  BY <1>1, <1>2, <1>3, <1>4, <1>5 DEF ListInv

\* An empty list that nobody uses.
Unused ==
  /\ buckets = <<>> /\ item \in Seq(ItemT)
  /\ tx \in [Thread -> Nat] /\ begun \in Nat /\ call \in [Thread -> CallT]
  /\ closing \in {"open", "waiting", "closed"}
  /\ \A t \in Thread : (call[t] = Idle /\ tx[t] = NoTx)

LEMMA UnusedList == Unused => ListInv
<1> SUFFICES ASSUME Unused PROVE ListInv
  OBVIOUS
<1>1. ListType
  BY DEF Unused, ListType
<1>2. DOMAIN buckets = {}
  BY DEF Unused
<1>3. ASSUME NEW t \in Thread PROVE CallOK(t)
  <2>1. /\ call[t].pc = "out" /\ call[t].op = "idle" /\ call[t].must = {} /\ call[t].slot = 1
        /\ tx[t] <= begun
    BY IdleIs DEF Unused, NoTx
  <2> QED
    BY <2>1 DEF CallOK, Role, Keys, Own, Scan, Appends, ByRange
<1>4. \A t, u \in Thread : t # u => Apart(t, u)
  BY IdleIs DEF Unused, Apart, Appends
<1> QED
  BY <1>1, <1>2, <1>3, <1>4 DEF Unused, ListInv, OnePlace

LEMMA UnusedNext == Unused' => ListInv'
BY UnusedList, PTL

LEMMA InitList == Init => ListInv
<1> SUFFICES ASSUME Init PROVE ListInv
  OBVIOUS
<1>1. Idle \in CallT /\ NoTx \in Nat
  BY IdleIs DEF NoTx
<1> QED
  BY <1>1, UnusedList DEF Init, Unused

LEMMA ClosedStep ==
  ASSUME ListInv, Closed
  PROVE  ListInv'
<1>1. closing = "waiting" /\ closing' = "closed" /\ buckets' = <<>> /\ UNCHANGED <<item, tx, begun, call>>
  BY DEF Closed
<1>2. \A t \in Thread : (call[t] = Idle /\ tx[t] = NoTx)
  BY <1>1 DEF ListInv
<1> QED
  BY <1>1, <1>2, UnusedNext DEF Unused, ListInv, ListType

LEMMA StepList == ListInv /\ [Next]_vars => ListInv'
<1> SUFFICES ASSUME ListInv, [Next]_vars PROVE ListInv'
  OBVIOUS
<1>1. ASSUME NEW t \in Thread, Request(t) PROVE ListInv'
  BY <1>1, RequestStep
<1>2. ASSUME NEW t \in Thread, Step(t) PROVE ListInv'
  <2>1. CASE SeekBack(t) \/ LockBack(t)
    BY <2>1, SeekStep, LockStep
  <2>2. CASE IndexRange(t) \/ IndexId(t)
    BY <2>2, IndexedSteps
  <2>3. CASE Publish(t) \/ AppendUnique(t)
    BY <2>3, PublishStep, AppendStep
  <2>4. CASE Start(t) \/ VisitBucket(t) \/ EnterBucket(t) \/ NextSlot(t)
    BY <2>4, StartStep, VisitStep, EnterStep, SlotStep
  <2>5. CASE Meet(t) \/ Refuse(t) \/ MeetOwn(t)
    BY <2>5, MeetStep, RefuseStep, MeetOwnStep
  <2>6. CASE Clear(t) \/ Mark(t) \/ Count(t) \/ Finish(t)
    BY <2>6, ClearStep, MarkStep, CountStep, FinishStep
  <2> QED
    BY <1>2, <2>1, <2>2, <2>3, <2>4, <2>5, <2>6 DEF Step
<1>3. ASSUME NEW n \in DOMAIN task, Collect(n) PROVE ListInv'
  <2>1. CASE TaskStart(n) \/ TaskWait(n)
    <3>1. UNCHANGED <<buckets, item, tx, begun, call, closing>>
      BY <2>1 DEF TaskStart, TaskWait
    <3> QED
      BY <3>1, ListKept
  <2>2. CASE Clean(n)
    BY <2>2, CleanStep
  <2> QED
    BY <1>3, <2>1, <2>2 DEF Collect
<1>4. CASE Close
  BY <1>4, ListKept DEF Close
<1>5. CASE Closed
  BY <1>5, ClosedStep
<1>6. CASE UNCHANGED vars
  BY <1>6, ListKept DEF vars
<1> QED
  BY <1>1, <1>2, <1>3, <1>4, <1>5, <1>6 DEF Next

\* Every traversal that has come to its end has met what was there to meet
\* (for_each_bucket, indexed_for_each_bucket, bunch_for_each: the indexes are
\* read without the lock of the bucket, and blocks are appended and removed
\* meanwhile), for any number of threads, any ranges and any capacity.
THEOREM ScansMeetAll == Spec => []ScanMeetsAll
<1>1. ListInv => ScanMeetsAll
  <2> SUFFICES ASSUME ListInv, NEW t \in Thread, call[t].pc = "end", call[t].op # "drop",
                      NEW n \in call[t].must, n \in Present
               PROVE  FALSE
    BY DEF ScanMeetsAll
  <2>1. PICK p \in Slots : BlockAt(p) = n
    BY DEF Present
  <2>2. p[1] \in DOMAIN buckets /\ p[2] \in buckets[p[1]].present /\ buckets[p[1]].slots[p[2]] = n
    BY <2>1, SlotsAre DEF BlockAt
  <2>3. Ahead(t, p[1], p[2])
    BY <2>2 DEF ListInv, CallOK, Scan
  <2> QED
    BY <2>3 DEF Ahead
<1> QED
  BY <1>1, InitList, StepList, PTL DEF Spec

-----------------------------------------------------------------------------
(* The count of garbage buckets.                                           *)

Invalid == {b \in DOMAIN buckets : ~buckets[b].valid}
Counters == {t \in Thread : call[t].pc = "count" /\ ~Here(t).valid}

\* GarbageCounted, and the count never falls below zero: it is unsigned.
Counted == empty \in Nat /\ Cardinality(Invalid) <= empty + Cardinality(Counters)

\* Both are finite sets.
Countable ==
  /\ IsFiniteSet(Invalid) /\ Cardinality(Invalid) \in Nat
  /\ IsFiniteSet(Counters) /\ Cardinality(Counters) \in Nat

LEMMA FiniteCounts == ListType => Countable
<1> SUFFICES ASSUME ListType PROVE Countable
  OBVIOUS
<1>1. IsFiniteSet(DOMAIN buckets)
  <2>1. 1 \in Int /\ Len(buckets) \in Int /\ DOMAIN buckets = 1 .. Len(buckets)
    BY DEF ListType
  <2> QED
    BY <2>1, FS_Interval
<1>2. IsFiniteSet(Invalid)
  BY <1>1, FS_Subset DEF Invalid
<1>3. IsFiniteSet(Counters)
  BY ThreadAssumption, FS_Subset DEF Counters
<1> QED
  BY <1>2, <1>3, FS_CardinalityType DEF Countable

LEMMA FiniteCountsNext == ListType' => Countable'
BY FiniteCounts, PTL

\* No bucket becomes garbage, none stops being it.
ValidKept ==
  /\ DOMAIN buckets \subseteq DOMAIN buckets'
  /\ \A b \in DOMAIN buckets : buckets'[b].valid = buckets[b].valid
  /\ \A b \in DOMAIN buckets' \ DOMAIN buckets : buckets'[b].valid = TRUE

\* A step of a thread that is not about to count.
LEMMA QuietStep ==
  ASSUME ListInv, ListInv', Counted, NEW t \in Thread, call[t].pc # "count", empty' = empty,
         \A u \in Thread \ {t} : call'[u] = call[u], ValidKept
  PROVE  Counted'
<1>1. Invalid' = Invalid
  BY DEF Invalid, ValidKept
<1>2. Counters \subseteq Counters'
  <2>1. \A u \in Thread : call[u].pc = "count" => call[u].at \in DOMAIN buckets
    BY DEF ListInv, CallOK, Role
  <2> QED
    BY <2>1 DEF Counters, Here, ValidKept
<1>3. Cardinality(Counters) <= Cardinality(Counters')
  BY <1>2, FS_Subset, FiniteCountsNext DEF ListInv, Countable
<1>4. /\ Cardinality(Invalid) \in Nat /\ Cardinality(Counters) \in Nat
      /\ Cardinality(Counters') \in Nat
  BY FiniteCounts, FiniteCountsNext DEF ListInv, Countable
<1> QED
  BY <1>1, <1>3, <1>4 DEF Counted

\* Steps that only move the thread's call.
LEMMA CallOnlyStep ==
  ASSUME ListInv, ListInv', Counted, NEW t \in Thread, call[t].pc # "count", empty' = empty,
         buckets' = buckets, NEW c, call' = [call EXCEPT ![t] = c]
  PROVE  Counted'
<1>1. \A u \in Thread \ {t} : call'[u] = call[u]
  BY DEF ListInv, ListType
<1>2. ValidKept
  BY DEF ValidKept
<1> QED
  BY <1>1, <1>2, QuietStep

LEMMA RequestCounted ==
  ASSUME ListInv, ListInv', Counted, NEW t \in Thread, Request(t)
  PROVE  Counted'
<1>1. call[t].pc # "count"
  BY IdleIs DEF Request, Write, Read, Drop, End
<1>2. /\ empty' = empty /\ buckets' = buckets
      /\ \A u \in Thread \ {t} : call'[u] = call[u]
  BY ZenonT(90) DEF Request, Write, Read, Drop, End, ListInv, ListType
<1>3. ValidKept
  BY <1>2 DEF ValidKept
<1> QED
  BY <1>1, <1>2, <1>3, QuietStep

LEMMA MovesCounted ==
  ASSUME ListInv, ListInv', Counted, NEW t \in Thread,
         \/ SeekBack(t) \/ LockBack(t) \/ Start(t) \/ VisitBucket(t) \/ EnterBucket(t)
         \/ NextSlot(t) \/ Meet(t) \/ Refuse(t) \/ MeetOwn(t) \/ Finish(t)
  PROVE  Counted'
<1>1. call[t].pc # "count" /\ empty' = empty /\ buckets' = buckets
  BY DEF SeekBack, LockBack, Start, VisitBucket, EnterBucket, NextSlot, Meet, Refuse, MeetOwn, Finish
<1>2. ASSUME NEW u \in Thread \ {t} PROVE call'[u] = call[u]
  <2>1. call \in [Thread -> CallT]
    BY DEF ListInv, ListType
  <2>2. CASE SeekBack(t) \/ LockBack(t) \/ Start(t)
    BY <2>1, <2>2 DEF SeekBack, LockBack, Start, Go
  <2>3. CASE VisitBucket(t) \/ EnterBucket(t)
    BY <2>1, <2>3, SMTT(60) DEF VisitBucket, EnterBucket, Go, NextBucket
  <2>4. CASE NextSlot(t)
    BY <2>1, <2>4 DEF NextSlot, Go, NextBucket
  <2>5. CASE Meet(t)
    BY <2>1, <2>5 DEF Meet, Go, Continue
  <2>6. CASE MeetOwn(t)
    BY <2>1, <2>6 DEF MeetOwn, Go, Continue
  <2>7. CASE Refuse(t) \/ Finish(t)
    BY <2>1, <2>7 DEF Refuse, Finish
  <2> QED
    BY <2>2, <2>3, <2>4, <2>5, <2>6, <2>7
<1>3. ValidKept
  BY <1>1 DEF ValidKept
<1> QED
  BY <1>1, <1>2, <1>3, QuietStep

LEMMA ChangesCounted ==
  ASSUME ListInv, ListInv', Counted, NEW t \in Thread,
         IndexRange(t) \/ IndexId(t) \/ Publish(t) \/ AppendUnique(t) \/ Clear(t)
  PROVE  Counted'
<1>1. call[t].pc # "count" /\ empty' = empty
  BY DEF IndexRange, IndexId, Publish, AppendUnique, Clear
<1>2. call \in [Thread -> CallT] /\ buckets \in Seq(BucketT) /\ Role(t)
  BY DEF ListInv, ListType, CallOK
<1>3. \A u \in Thread \ {t} : call'[u] = call[u]
  BY <1>2 DEF IndexRange, IndexId, Publish, AppendUnique, Clear, Go
<1>4. \A bucket \in BucketT : \A n : Placed(bucket, n).valid = bucket.valid
                                     /\ Known(bucket, n).valid = bucket.valid
  BY DEF Placed, Known, BucketT
<1>5. CASE IndexRange(t) \/ IndexId(t) \/ Clear(t)
  <2>1. call[t].at \in DOMAIN buckets /\ buckets[call[t].at] \in BucketT
    BY <1>2, <1>5 DEF Role, IndexRange, IndexId, Clear
  <2> DEFINE b == call[t].at
  <2>2. /\ DOMAIN buckets' = DOMAIN buckets /\ buckets'[b].valid = buckets[b].valid
        /\ \A a \in DOMAIN buckets \ {b} : buckets'[a] = buckets[a]
    <3>1. CASE IndexRange(t)
      BY <1>2, <2>1, <3>1 DEF IndexRange, BucketT
    <3>2. CASE IndexId(t)
      BY <1>2, <2>1, <3>2 DEF IndexId, BucketT
    <3>3. CASE Clear(t)
      BY <1>2, <2>1, <3>3 DEF Clear, BucketT
    <3> QED
      BY <1>5, <3>1, <3>2, <3>3
  <2>3. ValidKept
    BY <2>2 DEF ValidKept
  <2> QED
    BY <1>1, <1>3, <2>3, QuietStep
<1>6. CASE Publish(t)
  <2>1. call[t].at \in DOMAIN buckets /\ buckets[call[t].at] \in BucketT
    BY <1>2, <1>6 DEF Role, Publish
  <2>2. ValidKept
    BY <1>2, <1>4, <1>6, <2>1 DEF Publish, ValidKept
  <2> QED
    BY <1>1, <1>3, <2>2, QuietStep
<1>7. CASE AppendUnique(t)
  <2> DEFINE n == call[t].own
             added(bucket) == Placed(Known(bucket, n), n)
  <2>1. \A bucket \in BucketT : added(bucket).valid = bucket.valid
    BY DEF Placed, Known, BucketT
  <2>2. NewBucket.valid = TRUE /\ added(NewBucket).valid = TRUE
    BY DEF NewBucket, Placed, Known
  <2>3. \/ /\ buckets # <<>> /\ buckets' = [buckets EXCEPT ![Len(buckets)] = added(@)]
        \/ buckets' = Append(buckets, added(NewBucket))
    BY <1>7 DEF AppendUnique
  <2> HIDE DEF added
  <2>4. CASE buckets # <<>> /\ buckets' = [buckets EXCEPT ![Len(buckets)] = added(@)]
    <3>1. Len(buckets) \in DOMAIN buckets /\ buckets[Len(buckets)] \in BucketT
      BY <1>2, <2>4
    <3>2. ValidKept
      BY <1>2, <2>1, <2>4, <3>1 DEF ValidKept
    <3> QED
      BY <1>1, <1>3, <3>2, QuietStep
  <2>5. CASE buckets' = Append(buckets, added(NewBucket))
    <3>1. /\ DOMAIN buckets' = 1 .. Len(buckets) + 1 /\ DOMAIN buckets = 1 .. Len(buckets)
          /\ \A b \in 1 .. Len(buckets) : buckets'[b] = buckets[b]
          /\ buckets'[Len(buckets) + 1] = added(NewBucket)
      BY <1>2, <2>5
    <3>2. ValidKept
      BY <1>2, <2>2, <3>1 DEF ValidKept
    <3> QED
      BY <1>1, <1>3, <3>2, QuietStep
  <2> QED
    BY <2>3, <2>4, <2>5
<1> QED
  BY <1>5, <1>6, <1>7

\* The bucket that a thread marks joins the garbage, and the thread those who are
\* about to count.
LEMMA MarkCounted ==
  ASSUME ListInv, ListInv', Counted, NEW t \in Thread, Mark(t)
  PROVE  Counted'
<1> DEFINE b == call[t].at
<1>1. /\ call[t].pc = "mark" /\ empty' = empty /\ Go(t, "count")
      /\ buckets' = [buckets EXCEPT ![b] = [buckets[b] EXCEPT !.valid = FALSE]]
  BY DEF Mark
<1>2. call \in [Thread -> CallT] /\ buckets \in Seq(BucketT) /\ Role(t) /\ call[t] \in CallT
  BY DEF ListInv, ListType, CallOK
<1>3. b \in DOMAIN buckets /\ buckets[b] \in BucketT
  BY <1>1, <1>2 DEF Role
<1>4. /\ DOMAIN buckets' = DOMAIN buckets /\ buckets'[b].valid = FALSE
      /\ \A a \in DOMAIN buckets \ {b} : buckets'[a] = buckets[a]
  BY <1>1, <1>2, <1>3 DEF BucketT
<1>5. call'[t].pc = "count" /\ call'[t].at = b /\ \A u \in Thread \ {t} : call'[u] = call[u]
  BY <1>1, <1>2, GoIs DEF Places
<1>6. Invalid' = Invalid \cup {b}
  BY <1>3, <1>4 DEF Invalid
<1>7. Counters \cup {t} \subseteq Counters' /\ t \notin Counters
  BY <1>1, <1>4, <1>5 DEF Counters, Here
<1>8. Cardinality(Invalid') <= Cardinality(Invalid) + 1
  <2>1. IsFiniteSet(Invalid) /\ Cardinality(Invalid) \in Nat
    BY FiniteCounts DEF ListInv, Countable
  <2>2. Cardinality(Invalid \cup {b}) <= Cardinality(Invalid) + 1
    BY <2>1, FS_AddElement, SMTT(60)
  <2> QED
    BY <1>6, <2>2
<1>9. Cardinality(Counters') >= Cardinality(Counters) + 1
  <2>1. /\ IsFiniteSet(Counters) /\ Cardinality(Counters) \in Nat /\ IsFiniteSet(Counters')
        /\ Cardinality(Counters') \in Nat
    BY FiniteCounts, FiniteCountsNext DEF ListInv, Countable
  <2>2. Cardinality(Counters \cup {t}) = Cardinality(Counters) + 1
    BY <1>7, <2>1, FS_AddElement
  <2>3. Cardinality(Counters \cup {t}) <= Cardinality(Counters')
    BY <1>7, <2>1, FS_Subset
  <2> QED
    BY <2>1, <2>2, <2>3
<1>10. /\ Cardinality(Invalid) \in Nat /\ Cardinality(Counters) \in Nat
       /\ Cardinality(Invalid') \in Nat /\ Cardinality(Counters') \in Nat
  BY FiniteCounts, FiniteCountsNext DEF ListInv, Countable
<1> QED
  BY <1>1, <1>8, <1>9, <1>10 DEF Counted

\* Who counts leaves those who are about to, and the count has it.
LEMMA CountCounted ==
  ASSUME ListInv, ListInv', Counted, NEW t \in Thread, Count(t)
  PROVE  Counted'
<1>1. /\ call[t].pc = "count" /\ buckets' = buckets
      /\ empty' = IF Here(t).valid THEN empty ELSE empty + 1
  BY DEF Count
<1>2. \A u \in Thread \ {t} : call'[u] = call[u]
  BY DEF Count, Go, NextBucket, ListInv, ListType
<1>3. Invalid' = Invalid
  BY <1>1 DEF Invalid
<1>4. Counters \ {t} \subseteq Counters' /\ (t \in Counters <=> ~Here(t).valid)
  BY <1>1, <1>2 DEF Counters, Here
<1>5. Cardinality(Counters') >= Cardinality(Counters) - (IF t \in Counters THEN 1 ELSE 0)
  <2>1. /\ IsFiniteSet(Counters) /\ Cardinality(Counters) \in Nat /\ IsFiniteSet(Counters')
        /\ Cardinality(Counters') \in Nat
    BY FiniteCounts, FiniteCountsNext DEF ListInv, Countable
  <2>2. Cardinality(Counters \ {t}) = Cardinality(Counters) - (IF t \in Counters THEN 1 ELSE 0)
    <3>1. Cardinality(Counters \ {t}) = IF t \in Counters THEN Cardinality(Counters) - 1
                                                           ELSE Cardinality(Counters)
      BY <2>1, FS_RemoveElement
    <3> QED
      BY <2>1, <3>1
  <2>3. Cardinality(Counters \ {t}) <= Cardinality(Counters')
    BY <1>4, <2>1, FS_Subset
  <2> QED
    BY <2>1, <2>2, <2>3
<1>6. /\ Cardinality(Invalid) \in Nat /\ Cardinality(Counters) \in Nat
      /\ Cardinality(Counters') \in Nat
  BY FiniteCounts, FiniteCountsNext DEF ListInv, Countable
<1> QED
  BY <1>1, <1>3, <1>4, <1>5, <1>6 DEF Counted

\* A collection takes out what is garbage, while nobody is about to count.
LEMMA CleanCounted ==
  ASSUME ListInv, ListInv', Counted, NEW n, Clean(n)
  PROVE  Counted'
<1> DEFINE I == {b \in DOMAIN buckets : buckets[b].valid}
<1>1. /\ UniqueAllowed /\ call' = call /\ buckets' = Picked(buckets, I)
      /\ empty' = empty - (Len(buckets) - Len(buckets'))
  BY DEF Clean
<1>2. buckets \in Seq(BucketT) /\ I \in SUBSET DOMAIN buckets /\ Len(buckets) \in Nat
      /\ DOMAIN buckets = 1 .. Len(buckets)
  BY DEF ListInv, ListType
<1>3. IsFiniteSet(1 .. Len(buckets)) /\ Cardinality(1 .. Len(buckets)) = Len(buckets)
  <2>1. 1 \in Int /\ Len(buckets) \in Int
    BY <1>2
  <2> QED
    BY <1>2, <2>1, FS_Interval, SMTT(60)
<1>4. IsFiniteSet(I) /\ Cardinality(I) \in Nat
  <2> HIDE DEF I
  <2>1. IsFiniteSet(I)
    BY <1>2, <1>3, FS_Subset
  <2> QED
    BY <2>1, FS_CardinalityType
<1>5. I \cup Invalid = 1 .. Len(buckets) /\ I \cap Invalid = {}
  BY <1>2 DEF Invalid
<1>6. \A b \in I : buckets[b].valid
  OBVIOUS
<1> HIDE DEF I
<1>7. Len(buckets) = Cardinality(I) + Cardinality(Invalid)
  <2>1. IsFiniteSet(Invalid) /\ Cardinality(Invalid) \in Nat
    BY FiniteCounts DEF ListInv, Countable
  <2>2. Cardinality(I \cup Invalid) = Cardinality(I) + Cardinality(Invalid) - Cardinality(I \cap Invalid)
    BY <1>4, <2>1, FS_Union
  <2>3. Cardinality(I \cap Invalid) = 0
    BY <1>5, FS_EmptySet
  <2>4. Cardinality(I \cup Invalid) = Len(buckets)
    BY <1>3, <1>5
  <2> QED
    BY <1>4, <2>1, <2>2, <2>3, <2>4
<1>8. Len(buckets') = Cardinality(I)
  BY <1>1, <1>4 DEF Picked
<1>9. Cardinality(Counters) = 0
  <2>1. Counters = {}
    BY <1>1 DEF Counters, UniqueAllowed, ListShared
  <2> QED
    BY <2>1, FS_EmptySet
<1>10. Cardinality(Invalid') = 0
  <2>1. \A k \in DOMAIN buckets' : Nth(I, k) \in I /\ buckets'[k] = buckets[Nth(I, k)]
    BY <1>1, <1>2, PickedMembers
  <2>2. Invalid' = {}
    BY <1>6, <2>1 DEF Invalid
  <2> QED
    BY <2>2, FS_EmptySet
<1>11. Cardinality(Invalid) \in Nat /\ Cardinality(Counters') \in Nat
  BY FiniteCounts, FiniteCountsNext DEF ListInv, Countable
<1> QED
  BY <1>1, <1>4, <1>7, <1>8, <1>9, <1>10, <1>11, SMTT(60) DEF Counted

\* Nothing in the list, and nothing counted.
LEMMA NoneCounted ==
  ASSUME ListType, buckets = <<>>, empty = 0
  PROVE  Counted
<1>1. Cardinality(Invalid) = 0
  <2>1. Invalid = {}
    BY DEF Invalid
  <2> QED
    BY <2>1, FS_EmptySet
<1>2. Cardinality(Counters) \in Nat
  BY FiniteCounts DEF Countable
<1> QED
  BY <1>1, <1>2 DEF Counted

Nobody == ListType /\ buckets = <<>> /\ empty = 0

LEMMA NobodyCounted == Nobody => Counted
BY NoneCounted DEF Nobody

LEMMA NobodyCountedNext == Nobody' => Counted'
BY NobodyCounted, PTL

LEMMA StepCounted == ListInv /\ ListInv' /\ Counted /\ [Next]_vars => Counted'
<1> SUFFICES ASSUME ListInv, ListInv', Counted, [Next]_vars PROVE Counted'
  OBVIOUS
<1>1. ASSUME NEW t \in Thread, Request(t) PROVE Counted'
  BY <1>1, RequestCounted
<1>2. ASSUME NEW t \in Thread, Step(t) PROVE Counted'
  BY <1>2, MovesCounted, ChangesCounted, MarkCounted, CountCounted DEF Step
<1>3. ASSUME UNCHANGED <<buckets, call, empty>> PROVE Counted'
  BY <1>3 DEF Counted, Invalid, Counters, Here
<1>4. ASSUME NEW n \in DOMAIN task, Collect(n) PROVE Counted'
  BY <1>3, <1>4, CleanCounted DEF Collect, TaskStart, TaskWait
<1>5. CASE Close \/ UNCHANGED vars
  BY <1>3, <1>5 DEF Close, vars
<1>6. CASE Closed
  BY <1>6, NobodyCountedNext DEF Closed, ListInv, Nobody
<1> QED
  BY <1>1, <1>2, <1>4, <1>5, <1>6 DEF Next

\* The count of the empty buckets (BucketIndexedList::_empty_buckets), from which
\* the end of a transaction decides whether to collect, never misses one: every
\* garbage bucket is in it, or the thread that emptied it is still between
\* marking and counting.  Nor is it ever taken below zero.
THEOREM GarbageIsCounted == Spec => []GarbageCounted
<1>1. Init => Counted
  BY InitList, NoneCounted DEF Init, ListInv
<1>2. Counted => GarbageCounted
  BY DEF Counted, GarbageCounted, Invalid, Counters
<1> QED
  BY <1>1, <1>2, InitList, StepList, StepCounted, PTL DEF Spec


\* Types hold: nothing but what TypeOK allows is ever in a bucket, the count, a
\* block, a call or a task.
THEOREM TypesHold == Spec => []TypeOK
<1> DEFINE TaskT == task \in Seq({"queued", "wait", "clean", "done"})
<1>1. Init => TaskT
  BY DEF Init
<1>2. TaskT /\ [Next]_vars => TaskT'
  <2> SUFFICES ASSUME TaskT, [Next]_vars PROVE TaskT'
    OBVIOUS
  <2>1. CASE UNCHANGED task
    BY <2>1
  <2>2. ASSUME NEW t \in Thread, Request(t) PROVE UNCHANGED task
    BY <2>2, ZenonT(90) DEF Request, Write, Read, Drop, End
  <2>3. ASSUME NEW t \in Thread, Step(t) PROVE task' = task \/ task' = Append(task, "queued")
    BY <2>3 DEF Step, SeekBack, LockBack, IndexRange, IndexId, Publish, AppendUnique, Start,
         VisitBucket, EnterBucket, NextSlot, Meet, Refuse, MeetOwn, Clear, Mark, Count, Finish
  <2>4. ASSUME NEW n \in DOMAIN task, Collect(n) PROVE TaskT'
    BY <2>4 DEF Collect, TaskStart, TaskWait, Clean
  <2>5. CASE Close \/ Closed
    BY <2>5 DEF Close, Closed
  <2>6. CASE \E t \in Thread : Step(t)
    BY <2>3, <2>6
  <2> QED
    BY <2>1, <2>2, <2>4, <2>5, <2>6 DEF Next, vars
<1>3. ListInv /\ Counted /\ TaskT => TypeOK
  <2> SUFFICES ASSUME ListInv, Counted, TaskT PROVE TypeOK
    OBVIOUS
  <2>0. /\ \A b \in DOMAIN buckets : buckets[b] \in BucketT
        /\ \A n \in DOMAIN item : item[n] \in ItemT
    BY DEF ListInv, ListType
  <2>1. \A b \in DOMAIN buckets : buckets[b].valid \in BOOLEAN
    BY <2>0 DEF BucketT
  <2>2. \A n \in DOMAIN item : item[n].type \in {"init", "wr", "garbage"}
    BY <2>0 DEF ItemT
  <2>3. \A t \in Thread : call[t].pc \in Places
    BY DEF ListInv, ListType, CallT
  <2>4. \A t \in Thread : call[t].pc \in {"lock", "index", "index_id", "publish"} =>
                            call[t].at \in DOMAIN buckets
    BY DEF ListInv, CallOK, Role
  <2> QED
    BY <2>1, <2>2, <2>3, <2>4 DEF TypeOK, Counted, ListInv, BucketOK
<1>4. Init => Counted
  BY InitList, NoneCounted DEF Init, ListInv
<1> HIDE DEF TaskT
<1> QED
  BY <1>1, <1>2, <1>3, <1>4, InitList, StepList, StepCounted, PTL DEF Spec

===============================================================================
