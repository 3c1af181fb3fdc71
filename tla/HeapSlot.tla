------------------------------- MODULE HeapSlot --------------------------------
(***************************************************************************)
(* The heap slot of a segment: blocks, each behind its header, and one     *)
(* table of free lists for all the segments.  A list holds the free blocks *)
(* of a range of sizes, the smaller first.  Addresses are pairs of a       *)
(* segment and a byte offset; sizes are the code's bytes.                  *)
(***************************************************************************)
EXTENDS Integers, Sequences, SequencesExt

CONSTANTS
    SegmentSize,    \* bytes in a segment
    Nil             \* the far address that is null

ASSUME SegmentAssumption == SegmentSize \in Nat /\ SegmentSize % 16 = 0

\* The null address is that of no byte.
ASSUME NilAssumption == Nil \notin Int \X Int

\* The function f with y at x.
With(f, x, y) == [z \in DOMAIN f \cup {x} |-> IF z = x THEN y ELSE f[z]]

AlignOn(n, base) == ((n + base - 1) \div base) * base

Aligned(n) == AlignOn(n, 16)

HeaderBytes == 16
MinimalSpace == 32
ListBytes == 256

\* The lists are 0 .. 31.
EntryIndex(size) ==
    IF size < 256 THEN (size * 3) \div 256
    ELSE IF size < 256 + 4096 THEN 3 + ((size - 256) * 16) \div 4096
    ELSE LET far == 19 + ((size - 256 - 4096) * 13) \div SegmentSize
         IN  IF far >= 32 THEN 31 ELSE far

Shift(address, n) == <<address[1], address[2] + n>>

AddrByHeader(header) == Shift(header, HeaderBytes)

HeaderAddr(address) == Shift(address, -HeaderBytes)

\* A heap is its free lists, its block headers and the header of each segment.
NoHeap == [entry |-> [i \in 0 .. 31 |-> Nil], block |-> <<>>, head |-> <<>>]

Block(size, free) == [size |-> size, free |-> free, signed |-> TRUE, next |-> Nil]

-----------------------------------------------------------------------------
(* The free lists.                                                         *)

\* The blocks of list i, first to last.
Chain(heap, i) ==
    LET from[a \in DOMAIN heap.block \cup {Nil}] ==
            IF a = Nil THEN <<>> ELSE <<a>> \o from[heap.block[a].next]
    IN  from[heap.entry[i]]

\* mutant: a block of just the size asked for is passed over.
FirstFitLarger(heap, chain, size) ==
    SelectInSeq(chain, LAMBDA a : heap.block[a].size > size)

\* The place in a list of the first block of at least `size` bytes, or 0.
FirstFit(heap, chain, size) ==
    SelectInSeq(chain, LAMBDA a : heap.block[a].size >= size)

\* What is left of a header when a far address is written at its beginning:
\* offset over flag and signature, segment over size.
Overwritten(header, address) ==
    [header EXCEPT !.size = address[1], !.free = address[2] % 2 = 1, !.signed = FALSE]

\* mutant: a block that becomes the first of its list forgets the others.
LinkAlone(heap, a, i, chain, place) ==
    [heap EXCEPT !.entry[i] = a, !.block[a].free = TRUE]

\* Block `a` comes into list i, before the place of one as large.
Link(heap, a, i, chain, place) ==
    LET freed == [heap EXCEPT !.block[a].free = TRUE]
    IN  CASE chain = <<>> ->
               [freed EXCEPT !.entry[i] = a, !.block[a].next = Nil]
          [] place = 1 ->
               [freed EXCEPT !.entry[i] = a, !.block[a].next = chain[1]]
          [] place > 1 ->
               [freed EXCEPT !.block[a].next = chain[place],
                             !.block[chain[place - 1]] = Overwritten(@, a)]
          [] OTHER -> freed

(* Inserting a block.  `upgrade_previous` stays the one for a list's entry: *)
(* behind another block it writes to the beginning of that block's header,  *)
(* and a block larger than all of its list is linked nowhere.               *)
Insert(heap, a) ==
    LET i     == EntryIndex(heap.block[a].size)
        chain == Chain(heap, i)
    IN  Link(heap, a, i, chain, FirstFit(heap, chain, heap.block[a].size))

\* A block goes where its list stays linked.
InsertsInOrder(heap, size) ==
    LET entry == heap.entry[EntryIndex(size)]
    IN  entry # Nil => heap.block[entry].size >= size

HasFit(heap, i, size) == FirstFit(heap, Chain(heap, i), size) # 0

\* The list to take a block of `size` bytes from: that of the size, or else
\* the last one that has such a block.
ListToPull(heap, size) ==
    LET own   == EntryIndex(size)
        lists == {i \in own .. 31 : HasFit(heap, i, size)}
    IN  IF lists = {} THEN Nil ELSE IF own \in lists THEN own ELSE Max(lists)

Pullable(heap, size) == ListToPull(heap, size) # Nil

\* The block at a place of list i and the heap without it in the list.
Unlink(heap, i, chain, place) ==
    LET a     == chain[place]
        taken == [heap EXCEPT !.block[a].free = FALSE, !.block[a].next = Nil]
        after == heap.block[a].next
    IN  [at   |-> a,
         heap |-> IF place = 1 THEN [taken EXCEPT !.entry[i] = after]
                  ELSE [taken EXCEPT !.block[chain[place - 1]].next = after]]

PullFromBucket(heap, i, size) ==
    LET chain == Chain(heap, i)
    IN  Unlink(heap, i, chain, FirstFit(heap, chain, size))

PullNotLess(heap, size) == PullFromBucket(heap, ListToPull(heap, size), size)

-----------------------------------------------------------------------------
(* Blocks.                                                                 *)

\* The bytes of a free block worth splitting off remain free in front.
Splits(rest) == MinimalSpace + HeaderBytes < rest

\* mutant: the rest of a split block keeps the room of the new header.
SplitBlockWide(heap, a, size) ==
    LET rest  == heap.block[a].size - size
        taken == Shift(a, rest)
        kept  == Insert([heap EXCEPT !.block[a].size = rest, !.block[a].free = TRUE], a)
    IN  [at   |-> taken,
         heap |-> [kept EXCEPT !.block = With(@, taken, Block(size, FALSE))]]

\* The last `size` bytes of the free block become a block of their own.
SplitBlock(heap, a, size) ==
    LET rest  == heap.block[a].size - size - HeaderBytes
        taken == Shift(a, rest + HeaderBytes)
        kept  == Insert([heap EXCEPT !.block[a].size = rest, !.block[a].free = TRUE], a)
    IN  [at   |-> taken,
         heap |-> [kept EXCEPT !.block = With(@, taken, Block(size, FALSE))]]

\* What is taken of a block pulled, in a segment's account of `deposit` bytes.
Charge(got, deposit) ==
    [at   |-> AddrByHeader(got.at),
     heap |-> [got.heap EXCEPT !.head[got.at[1]].size = @ - deposit]]

TakeFrom(pulled, found, size) ==
    IF Splits(found - size)
    THEN Charge(SplitBlock(pulled.heap, pulled.at, size), size + HeaderBytes)
    ELSE Charge(pulled, found)

\* A block of `size` bytes, aligned, from a heap that has one.
Allocate(heap, size) ==
    LET pulled == PullNotLess(heap, size)
    IN  TakeFrom(pulled, pulled.heap.block[pulled.at].size, size)

\* What is not a block in use is refused.
Deallocatable(heap, address) ==
    /\ address[2] % 16 = 0
    /\ HeaderAddr(address) \in DOMAIN heap.block
    /\ heap.block[HeaderAddr(address)].signed
    /\ ~heap.block[HeaderAddr(address)].free

Deallocate(heap, address) ==
    LET a     == HeaderAddr(address)
        freed == Insert(heap, a)
    IN  [freed EXCEPT !.head[a[1]].size = @ + heap.block[a].size]

\* Where the header of a segment's heap is; the lists come before the first one.
HeapHeaderOffset(segment, start) == IF segment = 0 THEN start + ListBytes ELSE start

FirstBlockOffset(segment, start) == HeapHeaderOffset(segment, start) + 16

\* The rest of a new segment is one free block.
HeapOnNewSegment(heap, segment, start) ==
    LET first == <<segment, FirstBlockOffset(segment, start)>>
        size  == SegmentSize - HeaderBytes - first[2]
    IN  Insert([heap EXCEPT !.head  = With(@, segment, [total |-> size, size |-> size]),
                            !.block = With(@, first, Block(size, TRUE))], first)

\* The slot's own check walks from the first block while the offset, counted
\* from the segment's beginning, is below the heap's total.
HeapCheck(heap, segment, start) ==
    LET walk[offset \in 0 .. 2 * SegmentSize] ==
            IF offset >= heap.head[segment].total THEN TRUE
            ELSE /\ <<segment, offset>> \in DOMAIN heap.block
                 /\ heap.block[<<segment, offset>>].signed
                 /\ walk[offset + heap.block[<<segment, offset>>].size + HeaderBytes]
    IN  segment \in DOMAIN heap.head => walk[FirstBlockOffset(segment, start)]
==============================================================================
