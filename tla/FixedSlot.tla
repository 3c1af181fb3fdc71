------------------------------- MODULE FixedSlot -------------------------------
(***************************************************************************)
(* The slot of entries of one size, `Capacity` in each segment.  The free  *)
(* ones are chained through runs: the first entry of a run says how many   *)
(* free entries follow it and where the next run is.                       *)
(***************************************************************************)
EXTENDS Integers, HeapSlot

CONSTANTS
    Capacity,       \* entries in a segment
    EntrySize       \* bytes of an entry

ASSUME CapacityAssumption == Capacity \in Nat /\ Capacity > 1 /\ EntrySize \in Nat /\ EntrySize >= 16

ZeroHeaderBytes == 16

NoFixed == [next |-> Nil, inFree |-> 0, inAlloc |-> 0, run |-> <<>>]

\* Where the header of the whole slot is, in segment 0.
ZeroHeaderOffset(start) == AlignOn(start, 8)

BlocksBegin(segment, start) ==
    IF segment = 0 THEN ZeroHeaderOffset(start) + ZeroHeaderBytes ELSE AlignOn(start, 8)

FixedByteSize(segment, start) ==
    IF segment = 0
    THEN LET pad == AlignOn(start, 8) - start
         IN  ZeroHeaderBytes + pad + AlignOn(start + pad, 8) - (start + pad) + EntrySize * Capacity
    ELSE AlignOn(start, 8) - start + EntrySize * Capacity

\* A new segment is one run, put before the others.
FixedOnNewSegment(fixed, segment, start) ==
    LET begin == <<segment, BlocksBegin(segment, start)>>
    IN  [fixed EXCEPT !.next    = begin,
                      !.inFree  = @ + Capacity,
                      !.run     = With(@, begin, [next |-> fixed.next, adjacent |-> Capacity - 1])]

\* mutant: the entry taken from a run is the one behind its last.
TakeEntryBehind(fixed) ==
    LET run == fixed.run[fixed.next]
    IN  IF run.adjacent > 0
        THEN [at    |-> Shift(fixed.next, EntrySize * (run.adjacent + 1)),
              fixed |-> [fixed EXCEPT !.run[fixed.next].adjacent = @ - 1,
                                      !.inFree = @ - 1, !.inAlloc = @ + 1]]
        ELSE [at    |-> fixed.next,
              fixed |-> [fixed EXCEPT !.next = run.next, !.run = [a \in DOMAIN @ \ {fixed.next} |-> @[a]],
                                      !.inFree = @ - 1, !.inAlloc = @ + 1]]

\* One entry from a slot that has some: the last of the first run.
TakeEntry(fixed) ==
    LET run == fixed.run[fixed.next]
    IN  IF run.adjacent > 0
        THEN [at    |-> Shift(fixed.next, EntrySize * run.adjacent),
              fixed |-> [fixed EXCEPT !.run[fixed.next].adjacent = @ - 1,
                                      !.inFree = @ - 1, !.inAlloc = @ + 1]]
        ELSE [at    |-> fixed.next,
              fixed |-> [fixed EXCEPT !.next = run.next, !.run = Restrict(@, DOMAIN @ \ {fixed.next}),
                                      !.inFree = @ - 1, !.inAlloc = @ + 1]]

\* An entry given back is a run of one.
FixedDeallocate(fixed, address) ==
    [fixed EXCEPT !.next    = address,
                  !.inFree  = @ + 1,
                  !.inAlloc = @ - 1,
                  !.run     = With(@, address, [next |-> fixed.next, adjacent |-> 0])]

\* The runs, first to last.
Runs(fixed) ==
    LET from[a \in DOMAIN fixed.run \cup {Nil}] ==
            IF a = Nil THEN <<>> ELSE <<a>> \o from[fixed.run[a].next]
    IN  from[fixed.next]

RunEntries(fixed, a) == {Shift(a, EntrySize * k) : k \in 0 .. fixed.run[a].adjacent}

FreeEntries(fixed) == UNION {RunEntries(fixed, a) : a \in Range(Runs(fixed))}

\* The slot's own check of its runs.
FixedCheck(fixed, segments) ==
    /\ \A a \in Range(Runs(fixed)) : fixed.run[a].adjacent + 1 <= Capacity
    /\ FoldSeq(LAMBDA a, n : n + 1 + fixed.run[a].adjacent, 0, Runs(fixed)) <= segments * Capacity
==============================================================================
