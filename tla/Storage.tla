-------------------------------- MODULE Storage --------------------------------
(***************************************************************************)
(* The file of a trie: segments of one size, each laid out by the topology *)
(* into its slots (the trie's own header, the fixed entries that nodes are *)
(* in, and the heap that strings are in), under the transactions of one    *)
(* thread.  The file grows and the table of a new segment is written at    *)
(* once, by the manager of the file; what the slots write in it belongs to *)
(* the transaction that needed the segment.                                *)
(***************************************************************************)
EXTENDS FixedSlot, FiniteSets

CONSTANTS
    Lengths,        \* the lengths of the strings
    Batches,        \* the numbers of nodes asked for at once
    MaxSegments,    \* bound: segments of the file
    MaxStrings,     \* bound: strings stored at a time
    MaxSteps,       \* bound: operations in all
    InOrder         \* TRUE: blocks are freed only where their list stays linked

ASSUME BatchAssumption == Batches \subseteq Nat

VARIABLES
    file,       \* the number of segments
    table,      \* the offsets of the slots in each segment, in the file
    disk,       \* what is committed
    work,       \* what the open transaction sees
    phase,      \* "closed", "idle" or "active"
    steps       \* operations so far

vars == <<file, table, disk, work, phase, steps>>

\* The contents of the slots; with them the references that the program keeps
\* in the same transactions: its strings and its nodes.
Empty == [heap |-> NoHeap, fixed |-> NoFixed, strings |-> {}, nodes |-> {}]

-----------------------------------------------------------------------------
(* The layout of a segment.                                                *)

SegmentHeaderBytes == 16

\* A count and an offset for each of three slots.
AddressTableBytes == Aligned(8 + 2 * 4)

\* The header of the trie: root, count of keys, count of nodes, version.
ResidenceBytes == 32

Absent == "absent"

\* The slots come one behind the other; the trie's header is in segment 0 only.
Layout(segment) ==
    LET begin == SegmentHeaderBytes + AddressTableBytes
        fixed == IF segment = 0 THEN begin + ResidenceBytes ELSE begin
    IN  [residence |-> IF segment = 0 THEN begin ELSE Absent,
         fixed     |-> fixed,
         heap      |-> fixed + FixedByteSize(segment, fixed)]

\* What the slots write in a new segment.
SlotsOnNewSegment(content, segment) ==
    [content EXCEPT
        !.fixed = FixedOnNewSegment(@, segment, Layout(segment).fixed),
        !.heap  = HeapOnNewSegment(@, segment, Layout(segment).heap)]

\* The file has one more segment; `file` numbers it.
AllocateSegment ==
    /\ file < MaxSegments
    /\ file' = file + 1
    /\ table' = With(table, file, Layout(file))

KeepFile == UNCHANGED <<file, table>>

-----------------------------------------------------------------------------
(* Opening the file and its transactions.                                  *)

Init ==
    /\ file = 0 /\ table = <<>>
    /\ disk = Empty /\ work = Empty
    /\ phase = "closed" /\ steps = 0

\* The first opening makes segment 0 in a transaction of its own.
Create ==
    /\ phase = "closed" /\ file = 0
    /\ AllocateSegment
    /\ disk' = SlotsOnNewSegment(Empty, 0)
    /\ work' = disk'
    /\ phase' = "idle"
    /\ UNCHANGED steps

\* Opening later asks every slot to open itself in every segment.
Open ==
    /\ phase = "closed" /\ file > 0
    /\ phase' = "idle"
    /\ KeepFile /\ UNCHANGED <<disk, work, steps>>

BeginTransaction ==
    /\ phase = "idle"
    /\ phase' = "active" /\ work' = disk
    /\ KeepFile /\ UNCHANGED <<disk, steps>>

Commit ==
    /\ phase = "active"
    /\ disk' = work
    /\ phase' = "idle"
    /\ KeepFile /\ UNCHANGED <<work, steps>>

\* What the heap slot remembers is not rolled back.
Rollback ==
    /\ phase = "active"
    /\ phase' = "idle" /\ work' = disk
    /\ KeepFile /\ UNCHANGED <<disk, steps>>

\* The process ends, in order or not.
Close ==
    /\ phase # "closed"
    /\ phase' = "closed" /\ work' = disk
    /\ KeepFile /\ UNCHANGED <<disk, steps>>

-----------------------------------------------------------------------------
(* Strings.                                                                *)

Operation ==
    /\ phase = "active" /\ steps < MaxSteps
    /\ phase' = "active" /\ steps' = steps + 1
    /\ UNCHANGED disk

\* An exception leaves the transaction's guard, which rolls back, or commits
\* what was done before, as it was made to.
Thrown(content) ==
    /\ phase = "active" /\ steps < MaxSteps
    /\ phase' = "idle" /\ steps' = steps + 1
    /\ disk' = content /\ work' = content

\* The longest string kept in its own address.
InlineBytes == 8

\* The bytes of a sized array of `length` characters, aligned by the heap.
StringBytes(length) == Aligned(8 + length - 1)

SmartInlined(length) == ~(InlineBytes < length)

\* A string in the block got.
StoreString(content, got, length) ==
    /\ work' = [content EXCEPT !.heap = got.heap,
                               !.strings = @ \cup {[at |-> got.at, length |-> length]}]

\* The lists stay linked when what is left of the block pulled is inserted.
RestInOrder(pulled, rest) ==
    InOrder /\ Splits(rest) => InsertsInOrder(pulled.heap, rest - HeaderBytes)

TakesInOrder(heap, size) ==
    LET pulled == PullNotLess(heap, size)
    IN  RestInOrder(pulled, pulled.heap.block[pulled.at].size - size)

\* The next segment is in order when its one block may go into its list.
GrowsInOrder(content, grown) ==
    InOrder => InsertsInOrder(content.heap, grown.heap.head[file].size)

\* A string in a heap that has room, or has it once the file has grown.
InsertString(length) ==
    LET size  == StringBytes(length)
        room  == Pullable(work.heap, size)
        ready == IF room THEN work ELSE SlotsOnNewSegment(work, file)
    IN  /\ Operation
        /\ ~SmartInlined(length) /\ Cardinality(work.strings) < MaxStrings
        /\ Pullable(ready.heap, size)
        /\ IF room THEN KeepFile ELSE GrowsInOrder(work, ready) /\ AllocateSegment
        /\ TakesInOrder(ready.heap, size)
        /\ StoreString(ready, Allocate(ready.heap, size), length)

\* A string that a whole new segment has no room for.
InsertStringFails(length) ==
    LET grown == SlotsOnNewSegment(work, file)
    IN  /\ \/ Thrown(disk)
           \/ GrowsInOrder(work, grown) /\ Thrown(grown)
        /\ ~SmartInlined(length)
        /\ ~Pullable(work.heap, StringBytes(length))
        /\ ~Pullable(grown.heap, StringBytes(length))
        /\ AllocateSegment

\* A string given back; an address that is no block in use is refused.
DestroyString(string) ==
    /\ Operation
    /\ KeepFile
    /\ Deallocatable(work.heap, string.at)
    /\ InOrder => InsertsInOrder(work.heap, work.heap.block[HeaderAddr(string.at)].size)
    /\ work' = [work EXCEPT !.heap = Deallocate(@, string.at), !.strings = @ \ {string}]

-----------------------------------------------------------------------------
(* Nodes.                                                                  *)

\* `n` entries one after the other; the slot grows once, for it asks for the
\* number of segments it counted before the first.
TakeNodes(content, n) ==
    LET take[k \in 0 .. n] ==
            IF k = 0 THEN [content |-> content, grown |-> FALSE, failed |-> FALSE]
            ELSE LET was   == take[k - 1]
                     dry   == was.content.fixed.next = Nil
                     ready == IF dry /\ ~was.grown THEN SlotsOnNewSegment(was.content, file)
                              ELSE was.content
                     got   == TakeEntry(ready.fixed)
                 IN  IF was.failed \/ ready.fixed.next = Nil THEN [was EXCEPT !.failed = TRUE]
                     ELSE [content |-> [ready EXCEPT !.fixed = got.fixed, !.nodes = @ \cup {got.at}],
                           grown   |-> was.grown \/ dry,
                           failed  |-> FALSE]
    IN  take[n]

AllocateNodes(n) ==
    /\ phase = "active"
    /\ \E taken \in {TakeNodes(work, n)} :
          /\ IF taken.grown
             THEN GrowsInOrder(work, taken.content) /\ AllocateSegment
             ELSE KeepFile
          /\ IF taken.failed THEN Thrown(disk)
             ELSE Operation /\ work' = taken.content

DeallocateNode(address) ==
    /\ Operation
    /\ work' = [work EXCEPT !.fixed = FixedDeallocate(@, address), !.nodes = @ \ {address}]
    /\ KeepFile

Next ==
    \/ Create \/ Open \/ Close
    \/ BeginTransaction \/ Commit \/ Rollback
    \/ \E length \in Lengths : InsertString(length) \/ InsertStringFails(length)
    \/ \E string \in work.strings : DestroyString(string)
    \/ \E n \in Batches : AllocateNodes(n)
    \/ \E address \in work.nodes : DeallocateNode(address)

Spec == Init /\ [][Next]_vars

-----------------------------------------------------------------------------
(* Properties.                                                             *)

BlocksOf(heap, segment) == {a \in DOMAIN heap.block : a[1] = segment}

\* The blocks of a segment fill it from the first to its end, one behind the
\* other.
Tiles(heap, segment) ==
    LET blocks == BlocksOf(heap, segment)
        first  == FirstBlockOffset(segment, table[segment].heap)
        begins == {a[2] : a \in blocks}
        ends   == {a[2] + HeaderBytes + heap.block[a].size : a \in blocks}
    IN  /\ first \in begins
        /\ ends = (begins \ {first}) \cup {SegmentSize}

FreeSize(heap, segment) ==
    FoldSet(LAMBDA a, n : n + heap.block[a].size, 0,
            {a \in BlocksOf(heap, segment) : heap.block[a].free})

\* In what is committed and in what the transaction sees, the heap of every
\* segment is divided into blocks without gap or overlap; the blocks in use
\* are those of the strings stored, each long enough for its own; and the free
\* size of the segment's header is that of its free blocks.  The slot's own
\* check finds nothing.  Splitting, freeing and growing in a transaction keep
\* this, and so does rolling back one that made the file grow.
HeapWhole ==
    \A content \in {disk, work} :
        LET heap == content.heap IN
        /\ \A s \in DOMAIN heap.head :
              /\ Tiles(heap, s)
              /\ heap.head[s].size = FreeSize(heap, s)
              /\ HeapCheck(heap, s, table[s].heap)
        /\ {a \in DOMAIN heap.block : ~heap.block[a].free}
               = {HeaderAddr(string.at) : string \in content.strings}
        /\ \A string \in content.strings :
              heap.block[HeaderAddr(string.at)].size >= StringBytes(string.length)

\* Every free block can be found again: it is in the list of its size, once,
\* and a list goes from smaller to larger.
FreeBlocksListed ==
    \A content \in {disk, work} :
        LET heap == content.heap IN
        \A i \in 0 .. 31 :
            LET chain == Chain(heap, i) IN
            /\ Range(chain) = {a \in DOMAIN heap.block :
                                  heap.block[a].free /\ EntryIndex(heap.block[a].size) = i}
            /\ \A j \in 1 .. Len(chain) - 1 :
                  heap.block[chain[j]].size <= heap.block[chain[j + 1]].size

\* The entries of the fixed slot that are free and those of the nodes are all
\* the entries of the segments made by committed growth, apart from one another
\* and inside the slot's own room, and the slot counts both.
FixedWhole ==
    \A content \in {disk, work} :
        LET fixed   == content.fixed
            entries == {Shift(<<s, BlocksBegin(s, table[s].fixed)>>, EntrySize * k) :
                           s \in DOMAIN content.heap.head, k \in 0 .. Capacity - 1}
        IN  /\ FixedCheck(fixed, file)
            /\ FreeEntries(fixed) \cup content.nodes = entries
            /\ FreeEntries(fixed) \cap content.nodes = {}
            /\ fixed.inFree = Cardinality(FreeEntries(fixed))
            /\ fixed.inAlloc = Cardinality(content.nodes)
            /\ \A e \in entries : e[2] >= table[e[1]].fixed /\ e[2] + EntrySize <= table[e[1]].heap

\* A string makes the file grow only when no free block of any segment has
\* room for it, and nodes only when fewer entries are free than were asked for.
GrowsOnlyWhenFull ==
    [][ phase = "active" /\ phase' = "active" /\ file' > file =>
          \/ Cardinality(FreeEntries(work.fixed)) < Cardinality(work'.nodes \ work.nodes)
          \/ \E string \in work'.strings \ work.strings : \A a \in DOMAIN work.heap.block :
                work.heap.block[a].free => work.heap.block[a].size < StringBytes(string.length)
      ]_vars
==============================================================================
