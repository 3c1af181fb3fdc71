----------------------------- MODULE HistoryList -----------------------------
(***************************************************************************)
(* The list in which InMemoryChangeHistory keeps its blocks                *)
(* (BucketIndexedList: a list of buckets of fixed capacity, one shared     *)
(* lock for the list and one for each bucket, indexes that let a traversal *)
(* skip a bucket, soft removal) and the collection of its empty buckets by *)
(* tasks of the thread pool.                                               *)
(*                                                                         *)
(* The traversals are the history's own: a writer appends its block and    *)
(* looks at the blocks before it, a commit visits the blocks of its        *)
(* transaction, a reader merged with a transaction waits for blocks that   *)
(* are not ready, the end of a transaction removes its blocks.             *)
(*                                                                         *)
(* Grain of atomicity: one access to an atomic variable or to a field of   *)
(* an index that another thread can see.  What happens under the unique    *)
(* lock of the list is one step.                                           *)
(***************************************************************************)
EXTENDS Integers, Sequences, FiniteSets, Selection

CONSTANTS
  Thread,       \* the threads of the program
  Asks,         \* the ranges [pos, right] that each of them asks for
  Beyond,       \* the greatest number of a machine word (numeric_limits::max)
  Capacity,     \* Bucket::capacity_c
  Workers,      \* threads of the pool
  WritersFirst, \* whether a thread waiting for the unique lock of a
                \* std::shared_mutex holds back those who want it shared
  MaxTx,        \* bound: transactions that are ever begun
  MaxItem,      \* bound: blocks that are ever appended
  MaxVisit      \* bound: traversals by merged readers, and single removals

ASSUME ThreadAssumption == IsFiniteSet(Thread)
ASSUME CapacityAssumption == Capacity \in Nat \ {0} /\ Workers \in Nat \ {0}
ASSUME BoundsAssumption == MaxTx \in Nat /\ MaxItem \in Nat /\ MaxVisit \in Nat
ASSUME RangeAssumption ==
  \A t \in Thread : \A r \in Asks[t] :
    r.pos \in Nat /\ r.right \in Nat /\ r.pos < r.right /\ r.right <= Beyond
ASSUME WordAssumption == Beyond \in Nat /\ MaxTx <= Beyond
ASSUME PolicyAssumption == WritersFirst \in BOOLEAN

TxId == 1 .. MaxTx
ItemId == 1 .. MaxItem
NoTx == 0
NoItem == 0

VARIABLES
  buckets,    \* _buckets: items by slot, presence, status and indexes of each
  empty,      \* _empty_buckets
  item,       \* the appended blocks: range, transaction, type
  tx,         \* the transaction each thread is in
  begun,      \* transactions begun so far
  visits,     \* merged readers' traversals and single removals so far
  call,       \* what each thread is doing in the list
  task,       \* tasks of the garbage collection, in the order of their issue
  closing     \* the history's destructor: "open", "waiting", "closed"

vars == <<buckets, empty, item, tx, begun, visits, call, task, closing>>

Nothing == [pos |-> 0, right |-> 0]
Idle == [op |-> "idle", pc |-> "out", at |-> 0, slot |-> 1, own |-> NoItem,
         key |-> NoTx, range |-> Nothing, removed |-> FALSE, must |-> {}]

-----------------------------------------------------------------------------
(* Indexes.  A filter is a set of bits that may show what is not there.    *)

Smaller(a, b) == IF a < b THEN a ELSE b
Larger(a, b) == IF a > b THEN a ELSE b

\* The highest bit of a number, 0 for zero.
Log2[n \in Nat] == IF n < 2 THEN 0 ELSE 1 + Log2[n \div 2]

\* BlockByRWRIndexer::bloom_calc: width of the count, shifted by that of the
\* position; what is shifted out of the word is lost.
Bits(range) ==
  Log2[range.pos] .. Smaller(Log2[range.pos] + Log2[range.right - range.pos], Log2[Beyond])

NoIndex == [bits |-> {}, left |-> Beyond, right |-> 0,
            ids |-> {}, low |-> Beyond, high |-> 0]

\* BlockByRWRIndexer::index and BlockByTransactionIdIndexer::index.
RangeIndexed(index, block) ==
  [index EXCEPT !.bits = @ \cup Bits(block.range),
                !.left = Smaller(@, block.range.pos),
                !.right = Larger(@, block.range.right)]

IdIndexed(index, block) ==
  [index EXCEPT !.ids = @ \cup {block.tx},
                !.low = Smaller(@, block.tx),
                !.high = Larger(@, block.tx)]

\* mutant: the query's right end compared with the greatest right end
RangeCheckInside(index, range) ==
  /\ Bits(range) \cap index.bits # {}
  /\ range.right < index.right
  /\ range.right > index.left

\* Their check.  Every field only ever widens what passes, so that reading the
\* fields one after another gives what reading them at once at some moment does.
RangeCheck(index, range) ==
  /\ Bits(range) \cap index.bits # {}
  /\ range.pos < index.right
  /\ range.right > index.left

IdCheck(index, key) == key \in index.ids /\ key >= index.low /\ key <= index.high

ByRange(op) == op \in {"write", "read"}

Check(c, index) == IF ByRange(c.op) THEN RangeCheck(index, c.range)
                                    ELSE IdCheck(index, c.key)

-----------------------------------------------------------------------------
(* Locks.  A thread's place in the code says which locks it holds.         *)

ListShared(t) == call[t].pc \in {"lock", "index", "index_id", "publish", "bucket", "enter",
                                  "slot", "meet", "clear", "mark", "count"}
WantsUnique(t) == call[t].pc = "append"
BucketShared(t, b) == call[t].pc \in {"slot", "meet", "clear", "mark"} /\ call[t].at = b
BucketUnique(t, b) == call[t].pc \in {"index", "index_id", "publish"} /\ call[t].at = b

\* Nobody keeps the unique lock of the list from one step to the next, so only
\* the mutex's own policy can hold back a thread that wants it shared.
SharedAllowed ==
  WritersFirst => /\ \A u \in Thread : ~WantsUnique(u)
                  /\ \A n \in DOMAIN task : task[n] # "clean"
UniqueAllowed == \A u \in Thread : ~ListShared(u)

Go(t, pc) == call' = [call EXCEPT ![t].pc = pc]

Full(bucket) == Len(bucket.slots) = Capacity
NewBucket == [slots |-> <<>>, present |-> {}, valid |-> TRUE, index |-> NoIndex]

\* A bucket whose next slot is given to a block; only then is the block present.
Placed(bucket, n) ==
  [bucket EXCEPT !.slots = Append(@, n), !.present = @ \cup {Len(bucket.slots) + 1}]

\* A bucket whose indexes know a block.
Known(bucket, n) ==
  [bucket EXCEPT !.index = IdIndexed(RangeIndexed(@, item[n]), item[n])]

Here(t) == buckets[call[t].at]
Met(t) == Here(t).slots[call[t].slot]

\* Blocks that a traversal can meet, and those among them up to a given one.
Slots == {p \in (1 .. Len(buckets)) \X (1 .. Capacity) : p[2] \in buckets[p[1]].present}
BlockAt(p) == buckets[p[1]].slots[p[2]]
Present == {BlockAt(p) : p \in Slots}
UpTo(n) == {BlockAt(p) : p \in {p \in Slots : \A q \in Slots : BlockAt(q) = n =>
                                  p[1] < q[1] \/ (p[1] = q[1] /\ p[2] <= q[2])}}

RangesMeet(a, b) == a.pos < b.right /\ b.pos < a.right

\* The blocks a traversal is for.
Concerns(c, n) == IF ByRange(c.op) THEN RangesMeet(item[n].range, c.range)
                                   ELSE item[n].tx = c.key

-----------------------------------------------------------------------------
(* Requests of the program.                                                *)

Init ==
  /\ buckets = <<>>
  /\ empty = 0
  /\ item = <<>>
  /\ tx = [t \in Thread |-> NoTx]
  /\ begun = 0
  /\ visits = 0
  /\ call = [t \in Thread |-> Idle]
  /\ task = <<>>
  /\ closing = "open"

\* buffer_of_region for a writable block: the block is made, in state init.  A
\* transaction begins with its first block.
Write(t, range) ==
  LET key == IF tx[t] = NoTx THEN begun + 1 ELSE tx[t] IN
  /\ call[t] = Idle /\ Len(item) < MaxItem
  /\ key <= MaxTx
  /\ begun' = IF tx[t] = NoTx THEN begun + 1 ELSE begun
  /\ tx' = [tx EXCEPT ![t] = key]
  /\ item' = Append(item, [range |-> range, tx |-> key, type |-> "init"])
  /\ call' = [call EXCEPT ![t] = [Idle EXCEPT !.op = "write", !.pc = "seek",
                !.own = Len(item) + 1, !.range = range, !.key = key]]
  /\ closing = "open"
  /\ UNCHANGED <<buckets, empty, visits, task, closing>>

\* A thread that is merged with another thread's transaction reads a region.
Read(t, u, range) ==
  /\ call[t] = Idle /\ tx[t] = NoTx /\ tx[u] # NoTx /\ visits < MaxVisit
  /\ visits' = visits + 1
  /\ call' = [call EXCEPT ![t] = [Idle EXCEPT !.op = "read", !.pc = "start",
                !.range = range, !.key = tx[u]]]
  /\ UNCHANGED <<buckets, empty, item, tx, begun, task, closing>>

\* soft_remove_if_first, for the thread's first block.
Drop(t) ==
  /\ call[t] = Idle /\ tx[t] # NoTx /\ visits < MaxVisit
  /\ visits' = visits + 1
  /\ call' = [call EXCEPT ![t] = [Idle EXCEPT !.op = "drop", !.pc = "start", !.key = tx[t]]]
  /\ UNCHANGED <<buckets, empty, item, tx, begun, task, closing>>

\* The transaction ends: op is "apply" to commit (iterate_shadows, then the
\* removal), "remove" to roll back.
End(t, op) ==
  /\ call[t] = Idle /\ tx[t] # NoTx
  /\ call' = [call EXCEPT ![t] = [Idle EXCEPT !.op = op, !.pc = "start", !.key = tx[t]]]
  /\ UNCHANGED <<buckets, empty, item, tx, begun, visits, task, closing>>

-----------------------------------------------------------------------------
(* append.                                                                 *)

\* The last bucket is asked under the shared lock of the list, first without
\* the bucket's own lock.
SeekBack(t) ==
  /\ call[t].pc = "seek" /\ SharedAllowed
  /\ IF /\ buckets # <<>>
        /\ buckets[Len(buckets)].valid /\ ~Full(buckets[Len(buckets)])
     THEN call' = [call EXCEPT ![t].pc = "lock", ![t].at = Len(buckets)]
     ELSE Go(t, "append")
  /\ UNCHANGED <<buckets, empty, item, tx, begun, visits, task, closing>>

\* Then again under its unique lock.
LockBack(t) ==
  /\ call[t].pc = "lock"
  /\ \A u \in Thread : ~BucketShared(u, call[t].at) /\ ~BucketUnique(u, call[t].at)
  /\ IF Here(t).valid /\ ~Full(Here(t)) THEN Go(t, "index")
     ELSE call' = [call EXCEPT ![t] = [call[t] EXCEPT !.pc = "append", !.at = 0]]
  /\ UNCHANGED <<buckets, empty, item, tx, begun, visits, task, closing>>

\* The indexes are updated under the bucket's lock, which nobody who asks them has.
IndexRange(t) ==
  /\ call[t].pc = "index"
  /\ buckets' = [buckets EXCEPT ![call[t].at].index = RangeIndexed(@, item[call[t].own])]
  /\ Go(t, "index_id")
  /\ UNCHANGED <<empty, item, tx, begun, visits, task, closing>>

IndexId(t) ==
  /\ call[t].pc = "index_id"
  /\ buckets' = [buckets EXCEPT ![call[t].at].index = IdIndexed(@, item[call[t].own])]
  /\ Go(t, "publish")
  /\ UNCHANGED <<empty, item, tx, begun, visits, task, closing>>

Publish(t) ==
  /\ call[t].pc = "publish"
  /\ buckets' = [buckets EXCEPT ![call[t].at] = Placed(@, call[t].own)]
  /\ call' = [call EXCEPT ![t] = [call[t] EXCEPT !.pc = "start", !.at = 0]]
  /\ UNCHANGED <<empty, item, tx, begun, visits, task, closing>>

\* No room was found: under the unique lock of the list the block goes to the
\* last bucket after all, or to a new one.
AppendUnique(t) ==
  /\ call[t].pc = "append" /\ UniqueAllowed
  /\ LET n == call[t].own
         added(bucket) == Placed(Known(bucket, n), n)
     IN IF /\ buckets # <<>>
           /\ buckets[Len(buckets)].valid /\ ~Full(buckets[Len(buckets)])
        THEN buckets' = [buckets EXCEPT ![Len(buckets)] = added(@)]
        ELSE buckets' = Append(buckets, added(NewBucket))
  /\ call' = [call EXCEPT ![t] = [call[t] EXCEPT !.pc = "start", !.at = 0]]
  /\ UNCHANGED <<empty, item, tx, begun, visits, task, closing>>

-----------------------------------------------------------------------------
(* Traversals: for_each_bucket, indexed_for_each_bucket, bunch_for_each.   *)

Start(t) ==
  /\ call[t].pc = "start" /\ SharedAllowed
  /\ call' = [call EXCEPT ![t] =
       [call[t] EXCEPT !.pc = "bucket", !.at = 1,
                 !.must = {n \in Present : Concerns(call[t], n)}
                            \cap (IF call[t].op = "write" THEN UpTo(call[t].own) ELSE Present)]]
  /\ UNCHANGED <<buckets, empty, item, tx, begun, visits, task, closing>>

NextBucket(t) ==
  call' = [call EXCEPT ![t] = [call[t] EXCEPT !.pc = "bucket", !.at = @ + 1, !.slot = 1,
                                        !.removed = FALSE]]

\* A bucket is passed over when it is garbage or its indexes say so; they are
\* asked without the lock of the bucket.
VisitBucket(t) ==
  /\ call[t].pc = "bucket"
  /\ \/ call[t].at > Len(buckets) /\ Go(t, "end")
     \/ /\ call[t].at <= Len(buckets)
        /\ IF Here(t).valid /\ Check(call[t], Here(t).index) THEN Go(t, "enter") ELSE NextBucket(t)
  /\ UNCHANGED <<buckets, empty, item, tx, begun, visits, task, closing>>

EnterBucket(t) ==
  /\ call[t].pc = "enter"
  /\ \A u \in Thread : ~BucketUnique(u, call[t].at)
  /\ Go(t, "slot")
  /\ UNCHANGED <<buckets, empty, item, tx, begun, visits, task, closing>>

\* The presence mask is read anew for every slot.
NextSlot(t) ==
  /\ call[t].pc = "slot"
  /\ LET left == {s \in Here(t).present : s >= call[t].slot}
     IN \/ /\ left = {}
           /\ IF call[t].removed THEN Go(t, "count") ELSE NextBucket(t)
        \/ \E s \in left : /\ \A r \in left : s <= r
                           /\ call' = [call EXCEPT ![t] = [call[t] EXCEPT !.pc = "meet", !.slot = s]]
  /\ UNCHANGED <<buckets, empty, item, tx, begun, visits, task, closing>>

Continue(t) ==
  call' = [call EXCEPT ![t] = [call[t] EXCEPT !.pc = "slot", !.slot = @ + 1, !.must = @ \ {Met(t)}]]

\* What populate_ro_block does with a block: a writer stops at its own, is
\* refused at another transaction's, and both writer and merged reader wait for
\* a block of their transaction that is not ready.
Meet(t) ==
  LET n == Met(t) IN
  /\ call[t].pc = "meet" /\ ByRange(call[t].op)
  /\ \/ /\ n = call[t].own
        /\ call' = [call EXCEPT ![t] = [call[t] EXCEPT !.pc = "end", !.must = @ \ {n}]]
     \/ /\ n # call[t].own
        /\ \/ ~RangesMeet(item[n].range, call[t].range)
           \/ item[n].type = "garbage"
           \/ item[n].tx # call[t].key /\ call[t].op = "read"
           \/ item[n].tx = call[t].key /\ item[n].type # "init"
        /\ Continue(t)
     \/ /\ n # call[t].own /\ call[t].op = "write"
        /\ RangesMeet(item[n].range, call[t].range)
        /\ item[n].type # "garbage" /\ item[n].tx # call[t].key
        /\ Go(t, "refuse")
  /\ UNCHANGED <<buckets, empty, item, tx, begun, visits, task, closing>>

\* The guard of a refused block turns it to garbage once the traversal is left.
Refuse(t) ==
  /\ call[t].pc = "refuse"
  /\ item' = [item EXCEPT ![call[t].own].type = "garbage"]
  /\ call' = [call EXCEPT ![t] = Idle]
  /\ UNCHANGED <<buckets, empty, tx, begun, visits, task, closing>>

\* iterate_shadows copies the transaction's blocks; the removals' predicate
\* turns them to garbage before their presence is cleared.
MeetOwn(t) ==
  LET n == Met(t) IN
  /\ call[t].pc = "meet" /\ ~ByRange(call[t].op)
  /\ IF item[n].tx # call[t].key \/ call[t].op = "apply"
     THEN Continue(t) /\ UNCHANGED item
     ELSE Go(t, "clear") /\ item' = [item EXCEPT ![n].type = "garbage"]
  /\ UNCHANGED <<buckets, empty, tx, begun, visits, task, closing>>

\* The cleared presence leaves a full bucket empty.
Emptied(bucket, slot) == bucket.present \ {slot} = {} /\ Full(bucket)

Clear(t) ==
  /\ call[t].pc = "clear"
  /\ buckets' = [buckets EXCEPT ![call[t].at].present = @ \ {call[t].slot}]
  /\ call' = [call EXCEPT ![t] =
       [call[t] EXCEPT !.removed = TRUE, !.slot = @ + 1, !.must = @ \ {Met(t)},
                 !.pc = IF Emptied(Here(t), call[t].slot) THEN "mark"
                        ELSE IF call[t].op = "drop" THEN "count" ELSE "slot"]]
  /\ UNCHANGED <<empty, item, tx, begun, visits, task, closing>>

Mark(t) ==
  /\ call[t].pc = "mark"
  /\ buckets' = [buckets EXCEPT ![call[t].at].valid = FALSE]
  /\ Go(t, "count")
  /\ UNCHANGED <<empty, item, tx, begun, visits, task, closing>>

\* mutant: soft_remove_if_first does not count
CountUnlessDrop(t) ==
  /\ call[t].pc = "count"
  /\ empty' = IF Here(t).valid \/ call[t].op = "drop" THEN empty ELSE empty + 1
  /\ IF call[t].op = "drop" THEN Go(t, "end") ELSE NextBucket(t)
  /\ UNCHANGED <<buckets, item, tx, begun, visits, task, closing>>

\* Whoever removed something from a bucket counts it once it finds it garbage.
Count(t) ==
  /\ call[t].pc = "count"
  /\ empty' = IF Here(t).valid THEN empty ELSE empty + 1
  /\ IF call[t].op = "drop" THEN Go(t, "end") ELSE NextBucket(t)
  /\ UNCHANGED <<buckets, item, tx, begun, visits, task, closing>>

\* The traversal is over: a writer exposes its block, a commit goes on to the
\* removal, and the end of a transaction issues a task when a bucket is counted.
Finish(t) ==
  /\ call[t].pc = "end"
  /\ call' = [call EXCEPT ![t] = IF call[t].op = "apply"
                THEN [Idle EXCEPT !.op = "remove", !.pc = "start", !.key = call[t].key]
                ELSE Idle]
  /\ item' = IF call[t].op = "write" THEN [item EXCEPT ![call[t].own].type = "wr"] ELSE item
  /\ tx' = IF call[t].op = "remove" THEN [tx EXCEPT ![t] = NoTx] ELSE tx
  /\ task' = IF call[t].op = "remove" /\ empty # 0 THEN Append(task, "queued") ELSE task
  /\ UNCHANGED <<buckets, empty, begun, visits, closing>>

-----------------------------------------------------------------------------
(* Collection: each task waits for the one issued before it, then cleans.  *)

\* The pool takes tasks in the order of their issue.
TaskStart(n) ==
  /\ task[n] = "queued" /\ \A m \in 1 .. n - 1 : task[m] # "queued"
  /\ Cardinality({m \in DOMAIN task : task[m] \in {"wait", "clean"}}) < Workers
  /\ task' = [task EXCEPT ![n] = "wait"]
  /\ UNCHANGED <<buckets, empty, item, tx, begun, visits, call, closing>>

\* mutant: a task waits for the last one issued, itself when it is the last
TaskWaitForLast(n) ==
  /\ task[n] = "wait" /\ task[Len(task)] = "done"
  /\ task' = [task EXCEPT ![n] = "clean"]
  /\ UNCHANGED <<buckets, empty, item, tx, begun, visits, call, closing>>

TaskWait(n) ==
  /\ task[n] = "wait" /\ \A m \in DOMAIN task : m = n - 1 => task[m] = "done"
  /\ task' = [task EXCEPT ![n] = "clean"]
  /\ UNCHANGED <<buckets, empty, item, tx, begun, visits, call, closing>>

Clean(n) ==
  /\ task[n] = "clean" /\ UniqueAllowed
  /\ buckets' = Picked(buckets, {b \in DOMAIN buckets : buckets[b].valid})
  /\ empty' = empty - (Len(buckets) - Len(buckets'))
  /\ task' = [task EXCEPT ![n] = "done"]
  /\ UNCHANGED <<item, tx, begun, visits, call, closing>>

\* The destructor waits for the last task and clears the list.
Close ==
  /\ closing = "open" /\ begun = MaxTx
  /\ \A t \in Thread : call[t] = Idle /\ tx[t] = NoTx
  /\ closing' = "waiting"
  /\ UNCHANGED <<buckets, empty, item, tx, begun, visits, call, task>>

Closed ==
  /\ closing = "waiting" /\ \A n \in DOMAIN task : n = Len(task) => task[n] = "done"
  /\ buckets' = <<>>
  /\ empty' = 0
  /\ closing' = "closed"
  /\ UNCHANGED <<item, tx, begun, visits, call, task>>

-----------------------------------------------------------------------------
Step(t) ==
  \/ SeekBack(t) \/ LockBack(t) \/ IndexRange(t) \/ IndexId(t) \/ Publish(t) \/ AppendUnique(t)
  \/ Start(t) \/ VisitBucket(t) \/ EnterBucket(t) \/ NextSlot(t)
  \/ Meet(t) \/ Refuse(t) \/ MeetOwn(t) \/ Clear(t) \/ Mark(t) \/ Count(t) \/ Finish(t)

Collect(n) == TaskStart(n) \/ TaskWait(n) \/ Clean(n)

Request(t) ==
  \/ \E range \in Asks[t] : Write(t, range)
  \/ \E u \in Thread, range \in Asks[t] : Read(t, u, range)
  \/ Drop(t)
  \/ \E op \in {"apply", "remove"} : End(t, op)

Next ==
  \/ \E t \in Thread : Request(t) \/ Step(t)
  \/ \E n \in DOMAIN task : Collect(n)
  \/ Close \/ Closed

Spec == Init /\ [][Next]_vars

\* A thread inside a call runs, and so do the pool's threads and the destructor.
FairSpec ==
  /\ Spec
  /\ \A t \in Thread : WF_vars(Step(t))
  /\ \A n \in 1 .. MaxTx : WF_vars(n \in DOMAIN task /\ Collect(n))
  /\ WF_vars(Closed)

-----------------------------------------------------------------------------
(* Properties.                                                             *)

Places == {"out", "seek", "lock", "index", "index_id", "publish", "append", "start", "bucket",
           "enter", "slot", "meet", "refuse", "clear", "mark", "count", "end"}

TypeOK ==
  /\ \A b \in DOMAIN buckets :
       /\ Len(buckets[b].slots) <= Capacity
       /\ buckets[b].present \subseteq DOMAIN buckets[b].slots
       /\ buckets[b].valid \in BOOLEAN
  /\ empty \in Nat
  /\ \A n \in DOMAIN item : item[n].type \in {"init", "wr", "garbage"}
  /\ \A t \in Thread : /\ call[t].pc \in Places
                       /\ call[t].pc \in {"lock", "index", "index_id", "publish"} => call[t].at \in DOMAIN buckets
  /\ \A n \in DOMAIN task : task[n] \in {"queued", "wait", "clean", "done"}

\* A traversal that has come to its end has met every block that was present
\* when it began (for a writer: before its own), is still present and matters to
\* it, and a writer has met its own: an index that is read while an append
\* changes it hides nothing that was there.  The exclusion of writers rests on it.
ScanMeetsAll ==
  \A t \in Thread :
    call[t].pc = "end" /\ call[t].op # "drop" =>
      call[t].must \cap Present = {}

\* Every garbage bucket has been counted, or the thread that emptied it is about
\* to: the count from which a transaction's end decides to collect never misses
\* one (it may be too great).
GarbageCounted ==
  Cardinality({b \in DOMAIN buckets : ~buckets[b].valid})
    <= empty + Cardinality({t \in Thread : call[t].pc = "count" /\ ~Here(t).valid})

\* Every call on the history returns, and its destructor too: no two threads wait
\* for one another's locks, blocks or tasks.
EveryCallReturns ==
  /\ \A t \in Thread : call[t].pc # "out" ~> call[t].pc = "out"
  /\ closing = "waiting" ~> closing = "closed"

\* Once no transaction is open, no garbage bucket stays in the list.
GarbageCollected ==
  LET open == \E t \in Thread : tx[t] # NoTx
      garbage == \E b \in DOMAIN buckets : ~buckets[b].valid
  IN garbage /\ ~open ~> ~garbage \/ open

=============================================================================
