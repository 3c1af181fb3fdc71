------------------------------- MODULE SkipList -------------------------------
(***************************************************************************)
(* The skip list on top of the append-only log: buckets of items in the    *)
(* order of their addition, linked one to the next, each with an index     *)
(* that tells a query whether the bucket is worth a look.                  *)
(* Writers hold the header's lock until they hold the lock of the bucket   *)
(* they write to; buckets share few locks, by their order.  Three kinds of *)
(* search read it: with a callback, as a lazy range, and as a range that a *)
(* task of the thread pool feeds through a bounded queue.                  *)
(* Locks are not variables of their own: who holds one follows from where  *)
(* the threads are.  Reading a bucket ensures its segment, which changes   *)
(* nothing: its allocation has mapped it and asked for the next one.       *)
(***************************************************************************)
EXTENDS AppendOnlyLog

CONSTANTS
  Writer, Searcher,  \* threads
  Key,               \* what items and queries are about
  Hash,              \* [Key -> a small set], the bloom filter's bits
  Query,             \* subset of Key \cup {"all", "none"}
  BucketCapacity,          \* items of a bucket
  BucketLocks,       \* number of bucket locks
  QueueSize,         \* buckets the producer may be ahead
  BucketBytes, ListHeaderBytes,
  MaxItem,           \* bound: items of the list
  Restarts           \* a queued search may start again or be dropped

ASSUME SkipAssumption ==
  /\ {BucketCapacity, BucketLocks, QueueSize} \subseteq Nat \ {0}
  /\ {BucketBytes, ListHeaderBytes} \subseteq EntryBytes
  /\ Hash \in [Key -> Range(Hash)]
  /\ Query \subseteq Key \cup {"all", "none"} /\ "none" \notin Key

VARIABLES
  list,     \* the header and the buckets, both entries of the log
  writer,   \* per thread, the state of its emplace
  search,   \* per thread, the state of its search
  history   \* the keys of the items in the order of their addition

skipVars == <<list, writer, search, history>>

NilAddress == <<>>

NoList == [start |-> NilAddress, last |-> NilAddress, size |-> 0, bucket |-> <<>>]

NewBucket(order) == [order |-> order, items |-> <<>>, index |-> {}, next |-> NilAddress]

NoWriter == [pc |-> "idle", key |-> NilAddress, bucket |-> NilAddress]

NoSearch == [mode |-> "none", pc |-> "idle", query |-> NilAddress, at |-> NilAddress,
             met |-> <<>>, past |-> 0, quit |-> FALSE,
             feed |-> "none", queue |-> <<>>, done |-> FALSE]

-----------------------------------------------------------------------------
(* Locks. *)

Bucket(a) == list.bucket[a]

LockOf(a) == Bucket(a).order % BucketLocks

\* last_bucket keeps the header locked until it returns.
HeaderWritten == \E w \in Writer : writer[w].pc \in {"bucket", "grow", "swap"}

\* size keeps the header locked while it waits for the last bucket.
HeaderRead == \E s \in Searcher : search[s].pc = "size"

Written(lock) ==
  \E w \in Writer : /\ writer[w].pc \in {"grow", "swap", "put"}
                    /\ LockOf(writer[w].bucket) = lock

\* The producer keeps its bucket locked while it waits for the queue.
ReadLocked(lock) ==
  \E s \in Searcher : /\ search[s].feed \in {"push", "try"}
                      /\ LockOf(search[s].at) = lock

MayRead(a) == ~Written(LockOf(a))
MayWrite(a) == ~Written(LockOf(a)) /\ ~ReadLocked(LockOf(a))

-----------------------------------------------------------------------------
(* Creation and emplace. *)

\* create_new: a bucket, then the header, which counts one bucket.
CreateList ==
  /\ list = NoList
  /\ LET l == Allocated(Allocated(log, BucketBytes), ListHeaderBytes)
         first == l.made[Len(l.made) - 1]
     IN /\ log' = l
        /\ list' = [start |-> first, last |-> first, size |-> 1,
                    bucket |-> [a \in {first} |-> NewBucket(0)]]
  /\ UNCHANGED <<walk, reopened, writer, search, history>>

Emplacing == {w \in Writer : writer[w].pc # "idle"}

Emplace(w, k) ==
  /\ list # NoList /\ writer[w].pc = "idle"
  /\ Len(history) + Cardinality(Emplacing) < MaxItem
  /\ writer' = [writer EXCEPT ![w] = [NoWriter EXCEPT !.pc = "header", !.key = k]]
  /\ UNCHANGED <<logVars, list, search, history>>

TakeHeader(w) ==
  /\ writer[w].pc = "header"
  /\ ~HeaderWritten /\ ~HeaderRead
  /\ writer' = [writer EXCEPT ![w].pc = "bucket"]
  /\ UNCHANGED <<logVars, list, search, history>>

TakeLast(w) ==
  /\ writer[w].pc = "bucket"
  /\ MayWrite(list.last)
  /\ writer' = [writer EXCEPT
       ![w].bucket = list.last,
       ![w].pc = IF Len(Bucket(list.last).items) < BucketCapacity THEN "put" ELSE "grow"]
  /\ UNCHANGED <<logVars, list, search, history>>

\* mutant: the new bucket is linked behind the first one
GrowBehindStart(w) ==
  /\ writer[w].pc = "grow"
  /\ log' = Allocated(log, BucketBytes)
  /\ LET new == Last(log'.made) IN
       list' = [list EXCEPT
         !.last = new, !.size = @ + 1,
         !.bucket = [a \in DOMAIN @ \cup {new} |->
                       IF a = new THEN NewBucket(list.size)
                       ELSE IF a = list.start THEN [@[a] EXCEPT !.next = new]
                       ELSE @[a]]]
  /\ writer' = [writer EXCEPT ![w].pc = "swap"]
  /\ UNCHANGED <<walk, reopened, search, history>>

\* A new bucket, linked behind the full one, whose lock is still held.
Grow(w) ==
  /\ writer[w].pc = "grow"
  /\ log' = Allocated(log, BucketBytes)
  /\ LET new == Last(log'.made) IN
       list' = [list EXCEPT
         !.last = new, !.size = @ + 1,
         !.bucket = [a \in DOMAIN @ \cup {new} |->
                       IF a = new THEN NewBucket(list.size)
                       ELSE IF a = writer[w].bucket THEN [@[a] EXCEPT !.next = new]
                       ELSE @[a]]]
  /\ writer' = [writer EXCEPT ![w].pc = "swap"]
  /\ UNCHANGED <<walk, reopened, search, history>>

TakeNew(w) ==
  /\ writer[w].pc = "swap"
  /\ MayWrite(list.last)
  /\ writer' = [writer EXCEPT ![w].pc = "put", ![w].bucket = list.last]
  /\ UNCHANGED <<logVars, list, search, history>>

\* Bucket::emplace: construct the item; then every indexer takes it.
Added(bucket, item, key) ==
  [bucket EXCEPT !.items = Append(@, item), !.index = @ \cup {Hash[key]}]

Put(w) ==
  /\ writer[w].pc = "put"
  /\ history' = Append(history, writer[w].key)
  /\ list' = [list EXCEPT !.bucket[writer[w].bucket] =
                Added(@, Len(history'), writer[w].key)]
  /\ writer' = [writer EXCEPT ![w] = NoWriter]
  /\ UNCHANGED <<logVars, search>>

-----------------------------------------------------------------------------
(* Searches. *)

\* What the indexers say: a plain search asks none, and the indexers are the
\* program's; this one knows the keys up to their hashes.
Verdict(a, query) ==
  IF query = "all" THEN "worth"
  ELSE IF query = "none" THEN "stop"
  ELSE IF Hash[query] \in Bucket(a).index THEN "not_sure" ELSE "next"

Modes == {"callback", "lazy", "queued"}

Begin(s, mode, query) ==
  /\ list # NoList /\ search[s].pc = "idle"
  /\ ~HeaderWritten
  /\ search' = [search EXCEPT ![s] =
       [NoSearch EXCEPT !.mode = mode, !.query = query, !.at = list.start,
                        !.past = Len(history),
                        !.pc = IF mode = "queued" THEN "wait" ELSE "look",
                        !.feed = IF mode = "queued" THEN "look" ELSE @]]
  /\ UNCHANGED <<logVars, list, writer, history>>

\* for_each and indexed_for_each with a callback: the verdict, the items and
\* the next bucket under one lock.  The callback may stop at any item.
VisitBucket(s) ==
  /\ search[s].mode = "callback" /\ search[s].pc = "look"
  /\ search[s].at # NilAddress /\ MayRead(search[s].at)
  /\ LET b == Bucket(search[s].at)
         verdict == Verdict(search[s].at, search[s].query)
         items == IF verdict \in {"worth", "not_sure"} THEN b.items ELSE <<>>
     IN \E n \in 0 .. Len(items) :
          search' = [search EXCEPT
            ![s].met = @ \o SubSeq(items, 1, n),
            ![s].at = b.next,
            ![s].quit = n < Len(items),
            ![s].pc = IF verdict = "stop" \/ n < Len(items) THEN "over" ELSE @]
  /\ UNCHANGED <<logVars, list, writer, history>>

\* The lazy range asks the indexers without a lock,
LazyLook(s) ==
  /\ search[s].mode = "lazy" /\ search[s].pc = "look"
  /\ search[s].at # NilAddress
  /\ LET verdict == Verdict(search[s].at, search[s].query) IN
       search' = [search EXCEPT ![s].pc =
         CASE verdict = "stop" -> "over"
           [] verdict = "next" -> "step"
           [] OTHER            -> "take"]
  /\ UNCHANGED <<logVars, list, writer, history>>

\* takes what the bucket holds under the lock and reads it after it,
LazyTake(s) ==
  /\ search[s].mode = "lazy" /\ search[s].pc = "take"
  /\ MayRead(search[s].at)
  /\ search' = [search EXCEPT ![s].met = @ \o Bucket(search[s].at).items,
                              ![s].pc = "step"]
  /\ UNCHANGED <<logVars, list, writer, history>>

\* and takes the lock again for the next bucket.
LazyStep(s) ==
  /\ search[s].mode = "lazy" /\ search[s].pc = "step"
  /\ MayRead(search[s].at)
  /\ search' = [search EXCEPT ![s].at = Bucket(search[s].at).next, ![s].pc = "look"]
  /\ UNCHANGED <<logVars, list, writer, history>>

SearchEnds(s) ==
  /\ search[s].mode \in {"callback", "lazy"} /\ search[s].pc = "look"
  /\ search[s].at = NilAddress
  /\ search' = [search EXCEPT ![s].pc = "over"]
  /\ UNCHANGED <<logVars, list, writer, history>>

\* The producer of a queued search: for_each_bucket in a task of the pool.
Produce(s) ==
  /\ search[s].feed = "look"
  /\ search[s].at # NilAddress => MayRead(search[s].at)
  /\ LET verdict == IF search[s].at = NilAddress THEN "stop"
                    ELSE Verdict(search[s].at, search[s].query)
     IN search' = [search EXCEPT
          ![s].feed = CASE verdict = "stop" -> "end"
                        [] verdict = "next" -> "look"
                        [] OTHER            -> "push",
          ![s].at = IF verdict = "next" THEN Bucket(search[s].at).next ELSE @,
          ![s].done = @ \/ verdict = "stop"]
  /\ UNCHANGED <<logVars, list, writer, history>>

\* mutant: the producer waits for room in the queue whatever the flag says
ProducerAsksNot(s) ==
  /\ search[s].feed = "push"
  /\ search' = [search EXCEPT ![s].feed = "try"]
  /\ UNCHANGED <<logVars, list, writer, history>>

\* while (!_done && !_queue.push(bucket)): first the flag,
ProducerAsks(s) ==
  /\ search[s].feed = "push"
  /\ search' = [search EXCEPT
       ![s].feed = IF search[s].done THEN "look" ELSE "try",
       ![s].at = IF search[s].done THEN Bucket(search[s].at).next ELSE @]
  /\ UNCHANGED <<logVars, list, writer, history>>

\* then the queue.
ProducerTries(s) ==
  /\ search[s].feed = "try"
  /\ LET room == Len(search[s].queue) < QueueSize IN
       search' = [search EXCEPT
         ![s].queue = IF room THEN Append(@, search[s].at) ELSE @,
         ![s].at = IF room THEN Bucket(search[s].at).next ELSE @,
         ![s].feed = IF room THEN "look" ELSE "push"]
  /\ UNCHANGED <<logVars, list, writer, history>>

Consume(s) ==
  /\ search[s].mode = "queued" /\ search[s].pc = "wait"
  /\ search[s].queue # <<>>
  /\ MayRead(Head(search[s].queue))
  /\ search' = [search EXCEPT
       ![s].met = @ \o Bucket(Head(search[s].queue)).items,
       ![s].queue = Tail(@)]
  /\ UNCHANGED <<logVars, list, writer, history>>

QueuedEnds(s) ==
  /\ search[s].mode = "queued" /\ search[s].pc = "wait"
  /\ search[s].queue = <<>> /\ search[s].done
  /\ search' = [search EXCEPT ![s].pc = "over"]
  /\ UNCHANGED <<logVars, list, writer, history>>

\* start on a running search, and the destructor: raise the flag, empty the
\* queue, wait for the producer.
Halt(s) ==
  /\ search[s].mode = "queued" /\ search[s].pc = "wait"
  /\ \E again \in IF Restarts THEN BOOLEAN ELSE {FALSE} :
       search' = [search EXCEPT ![s].done = TRUE, ![s].quit = TRUE,
                                ![s].pc = IF again THEN "restart" ELSE "drop"]
  /\ UNCHANGED <<logVars, list, writer, history>>

Drain(s) ==
  /\ search[s].pc \in {"restart", "drop"}
  /\ search' = [search EXCEPT
       ![s].queue = <<>>,
       ![s].pc = IF search[s].pc = "restart" THEN "again" ELSE "join"]
  /\ UNCHANGED <<logVars, list, writer, history>>

Join(s) ==
  /\ search[s].pc \in {"again", "join"}
  /\ search[s].feed = "end"
  /\ search' = [search EXCEPT ![s] =
       IF search[s].pc = "join" THEN [@ EXCEPT !.pc = "over"]
       ELSE [@ EXCEPT !.pc = "wait", !.feed = "look", !.at = list.start,
                      !.done = FALSE, !.quit = FALSE, !.met = <<>>,
                      !.past = Len(history)]]
  /\ UNCHANGED <<logVars, list, writer, history>>

\* size: the header's lock, then the last bucket's.
AskSize(s) ==
  /\ list # NoList /\ search[s].pc = "idle"
  /\ ~HeaderWritten
  /\ search' = [search EXCEPT ![s] =
       [NoSearch EXCEPT !.mode = "size", !.pc = "size", !.past = Len(history)]]
  /\ UNCHANGED <<logVars, list, writer, history>>

Size == (list.size - 1) * BucketCapacity + Len(Bucket(list.last).items)

TellSize(s) ==
  /\ search[s].pc = "size"
  /\ MayRead(list.last)
  /\ search' = [search EXCEPT ![s].met = <<Size>>, ![s].pc = "over"]
  /\ UNCHANGED <<logVars, list, writer, history>>

-----------------------------------------------------------------------------
(* The specification. *)

Fetch == FetchAhead /\ UNCHANGED skipVars

EmplaceStep(w) == TakeHeader(w) \/ TakeLast(w) \/ Grow(w) \/ TakeNew(w) \/ Put(w)

ProducerStep(s) == Produce(s) \/ ProducerAsks(s) \/ ProducerTries(s)

\* What a search does without a choice of the program's.
SearchStep(s) ==
  \/ VisitBucket(s) \/ LazyLook(s) \/ LazyTake(s) \/ LazyStep(s) \/ SearchEnds(s)
  \/ Consume(s) \/ QueuedEnds(s) \/ Drain(s) \/ Join(s) \/ TellSize(s)

SearchBegins(s) ==
  \/ \E mode \in Modes, query \in Query : Begin(s, mode, query)
  \/ AskSize(s)

SkipInit ==
  /\ list = NoList /\ history = <<>>
  /\ writer = [w \in Writer |-> NoWriter]
  /\ search = [s \in Searcher |-> NoSearch]

SkipNext ==
  \/ CreateList
  \/ \E w \in Writer : (\E k \in Key : Emplace(w, k)) \/ EmplaceStep(w)
  \/ \E s \in Searcher : SearchBegins(s) \/ Halt(s) \/ SearchStep(s) \/ ProducerStep(s)
  \/ Fetch

SkipSpec == LogInit /\ SkipInit /\ [][SkipNext]_<<skipVars, logVars>>

\* Threads that are inside a call run on; the pool runs its tasks.
SkipFairness ==
  /\ \A w \in Writer : WF_<<skipVars, logVars>>(EmplaceStep(w))
  /\ \A s \in Searcher : /\ WF_<<skipVars, logVars>>(SearchStep(s))
                         /\ WF_<<skipVars, logVars>>(ProducerStep(s))

-----------------------------------------------------------------------------
(* Properties. *)

Matches(query) ==
  {i \in DOMAIN history : query = "all" \/ history[i] = query}

\* A search meets its items "in strong history order as items were appended",
\* none twice.  One that ends by itself has met every item that its query
\* matches and that was there when it began, although the index of a bucket,
\* its link and its lock are all written while it runs; and one that reads a
\* bucket and its link under one lock meets no item unless it met all the
\* matching ones before it.
SearchesMeetHistory ==
  \A s \in Searcher : search[s].mode \in Modes =>
    LET met == search[s].met
        found == ToSet(met)
    IN /\ \A i, j \in DOMAIN met : i < j => met[i] < met[j]
       /\ search[s].mode # "lazy" =>
            \A i \in Matches(search[s].query) :
              (met # <<>> /\ i <= Last(met)) => i \in found
       /\ (search[s].pc = "over" /\ ~search[s].quit) =>
            \A i \in Matches(search[s].query) : i <= search[s].past => i \in found

\* Every emplace and every search returns: the order in which the header's
\* lock, two buckets' locks and a full queue are waited for has no cycle, even
\* when buckets share a lock.
SkipCallsReturn ==
  /\ \A w \in Writer : writer[w].pc # "idle" ~> writer[w].pc = "idle"
  /\ \A s \in Searcher : search[s].pc # "idle" ~> search[s].pc = "over"

=============================================================================
