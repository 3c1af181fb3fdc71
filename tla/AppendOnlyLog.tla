---------------------------- MODULE AppendOnlyLog ----------------------------
(***************************************************************************)
(* The append-only log: a file of equal segments, mapped one by one when   *)
(* they are first needed, that holds a header and then entries end to end. *)
(* Every operation but the walk of for_each runs under one lock and is one *)
(* step; for_each takes the lock only at its start, when it meets the end  *)
(* it remembers, and when it enters a segment.                             *)
(* An address is the pair of a segment and an offset; the contents of the  *)
(* entries are left out, their sizes are what links them.                  *)
(***************************************************************************)
EXTENDS Naturals, Sequences, FiniteSets, FiniteSetsExt, SequencesExt

CONSTANTS
  LogSegmentSize,     \* bytes of a segment
  LogAlignment,       \* SegmentDef::align_c
  HeaderSize,      \* aligned_sizeof<Header>
  EntryHead,       \* aligned_sizeof<LogEntry>
  NearEnd,         \* per cent of a segment after which the next one is fetched
  EntryBytes,      \* sizes the program asks for
  LogReader,       \* threads that walk the log
  MaxSegment,      \* bound: segments of the file
  MaxEntry,        \* bound: entries of the log
  MaxReopen,       \* bound: how often the log is closed and opened
  RollsUnderWalk   \* entries may open a segment while a thread walks

ASSUME LogAssumption ==
  /\ {LogSegmentSize, LogAlignment, HeaderSize, EntryHead} \subseteq Nat \ {0}
  /\ EntryBytes \subseteq Nat \ {0} /\ HeaderSize < LogSegmentSize
  \* an entry fits in a segment, and the first one behind the header
  /\ \A n \in EntryBytes : HeaderSize + EntryHead + n + LogAlignment <= LogSegmentSize

VARIABLES
  log,      \* the file and the object that maps it
  walk,     \* per thread, the state of its for_each
  reopened  \* how often the log was opened again

logVars == <<log, walk, reopened>>

\* create_new: one segment, nothing mapped.  `made` is what allocate has
\* returned so far; the code keeps no such list.
NewLog ==
  [first |-> <<0, HeaderSize>>, end |-> <<0, HeaderSize>>,
   last |-> <<0, HeaderSize>>, count |-> 1, file |-> 1,
   size |-> <<>>, sized |-> 0, mapped |-> {}, queue |-> {}, jobs |-> 0,
   made |-> <<>>]

\* open: as many segments as the header counts, the first one mapped.
OpenedLog(l) ==
  [l EXCEPT !.sized = l.count, !.mapped = {0}, !.queue = {}, !.jobs = 0]

NoWalk == [pc |-> "idle", at |-> <<0, 0>>, end |-> <<0, 0>>, seen |-> <<>>,
           past |-> 0, quit |-> FALSE]

-----------------------------------------------------------------------------
(* Segments and entries. *)

\* ensure_segment: grows the file up to the segment, maps it, and hands the
\* next one to the thread pool when asked to, once for each index.
Ensured(l, index, hint) ==
  LET sized == IF index >= l.sized THEN index + 1 ELSE l.sized
      fresh == index \notin l.mapped
      ahead == IF hint = "query_next" THEN {index + 1} \ (l.mapped \cup l.queue)
               ELSE {}
  IN [l EXCEPT !.sized = sized,
               !.file = IF index >= l.sized THEN sized ELSE @,
               !.mapped = @ \cup {index},
               !.count = IF fresh /\ index > 0 THEN sized ELSE @,
               !.queue = @ \cup ahead,
               !.jobs = @ + Cardinality(ahead)]

\* The same for several segments, in whatever order, with none asked for.
AllEnsured(l, indices) ==
  LET sized == Max({l.sized} \cup {i + 1 : i \in indices})
  IN [l EXCEPT !.sized = sized,
               !.file = IF sized > l.sized THEN sized ELSE @,
               !.mapped = @ \cup indices,
               !.count = IF indices \subseteq l.mapped \cup {0} THEN @ ELSE sized]

\* raw, behind at and allocate
Touched(l, address, bytes) ==
  Ensured(l, address[1],
          IF (address[2] + bytes) * 100 >= NearEnd * LogSegmentSize
          THEN "query_next" ELSE "no")

EntryAligned(n) == ((n + LogAlignment - 1) \div LogAlignment) * LogAlignment

RealSize(bytes) == EntryHead + EntryAligned(bytes)

Rolls(l, bytes) == l.end[2] + RealSize(bytes) >= LogSegmentSize

SizeAt(l, address) ==
  IF address \in DOMAIN l.size THEN l.size[address] ELSE 0

Sized(l, address, n) ==
  [l EXCEPT !.size = [a \in DOMAIN @ \cup {address} |->
                        IF a = address THEN n ELSE @[a]]]

\* mutant: the last entry does not take the rest of its segment
RolledLeavingGap(l, real) ==
  [l EXCEPT !.end = <<l.end[1] + 1, real>>, !.last = <<l.end[1] + 1, 0>>]

\* The entry does not fit: the last one takes the rest of its segment and the
\* new one opens the next segment.
Rolled(l, real) ==
  LET rest == LogSegmentSize - l.end[2]
      next == l.end[1] + 1
  IN [Sized(Touched(l, l.last, EntryHead), l.last, SizeAt(l, l.last) + rest)
        EXCEPT !.end = <<next, real>>, !.last = <<next, 0>>]

Behind(l, real) ==
  [l EXCEPT !.last = l.end, !.end = <<l.end[1], l.end[2] + real>>]

\* allocate
Allocated(l, bytes) ==
  LET real == RealSize(bytes)
      base == Touched(l, <<0, 0>>, HeaderSize)
      placed == IF Rolls(l, bytes) THEN Rolled(base, real) ELSE Behind(base, real)
  IN [Sized(Touched(placed, placed.last, real), placed.last, real)
        EXCEPT !.made = Append(@, placed.last)]

\* mutant: every segment is taken to begin with a header
AfterHeader(address, n) ==
  IF address[2] + n >= LogSegmentSize THEN <<address[1] + 1, HeaderSize>>
  ELSE <<address[1], address[2] + n>>

\* what for_each adds to an address: at the end of a segment, the next one
After(address, n) ==
  IF address[2] + n >= LogSegmentSize THEN <<address[1] + 1, 0>>
  ELSE <<address[1], address[2] + n>>

-----------------------------------------------------------------------------
(* Actions. *)

Walking == {r \in LogReader : walk[r].pc # "idle"}

HasRoom(bytes) ==
  /\ Len(log.made) < MaxEntry
  /\ log.end[1] + 1 < MaxSegment
  /\ Rolls(log, bytes) => RollsUnderWalk \/ Walking = {}

\* allocate and construct, called by any thread
Construct(bytes) ==
  /\ HasRoom(bytes)
  /\ log' = Allocated(log, bytes)
  /\ UNCHANGED <<walk, reopened>>

\* The task of the thread pool ensures every segment ever asked for.
FetchAhead ==
  /\ log.jobs > 0
  /\ log' = [AllEnsured(log, log.queue) EXCEPT !.jobs = @ - 1]
  /\ UNCHANGED <<walk, reopened>>

WalkStarts(r) ==
  /\ walk[r].pc = "idle"
  /\ log' = Ensured(Touched(log, <<0, 0>>, HeaderSize), log.first[1], "no")
  /\ walk' = [walk EXCEPT ![r] = [NoWalk EXCEPT !.pc = "look", !.at = log.first,
                                  !.end = log.end, !.past = Len(log.made)]]
  /\ UNCHANGED reopened

\* The walk is at the end it remembers: it looks once more, under the lock.
WalkEnds(r) ==
  /\ walk[r].pc = "look"
  /\ walk[r].at = walk[r].end
  /\ walk[r].at = log.end
  /\ walk' = [walk EXCEPT ![r].pc = "over"]
  /\ UNCHANGED <<log, reopened>>

\* The callback gets what stands at the address, and may stop the walk.
WalkVisits(r) ==
  /\ walk[r].pc = "look"
  /\ walk[r].at = walk[r].end => walk[r].at # log.end
  /\ \E more \in BOOLEAN :
       walk' = [walk EXCEPT
         ![r].end = IF walk[r].at = walk[r].end THEN log.end ELSE @,
         ![r].seen = Append(@, walk[r].at),
         ![r].pc = IF more THEN "add" ELSE "over",
         ![r].quit = ~more]
  /\ UNCHANGED <<log, reopened>>

\* The size is read without the lock; a new segment is ensured under it.
WalkAdvances(r) ==
  /\ walk[r].pc = "add"
  /\ LET next == After(walk[r].at, SizeAt(log, walk[r].at))
     IN /\ walk' = [walk EXCEPT ![r].at = next, ![r].pc = "look"]
        /\ log' = IF next[1] # walk[r].at[1] THEN Ensured(log, next[1], "no")
                  ELSE log
  /\ UNCHANGED reopened

WalkReturns(r) ==
  /\ walk[r].pc = "over"
  /\ walk' = [walk EXCEPT ![r] = NoWalk]
  /\ UNCHANGED <<log, reopened>>

\* The log is closed and opened again.  A waiting task keeps the old object,
\* and two objects must not share a file.
Reopen ==
  /\ reopened < MaxReopen
  /\ Walking = {} /\ log.jobs = 0
  /\ log' = OpenedLog(log)
  /\ reopened' = reopened + 1
  /\ UNCHANGED walk

LogInit == log = NewLog /\ walk = [r \in LogReader |-> NoWalk] /\ reopened = 0

LogNext ==
  \/ \E bytes \in EntryBytes : Construct(bytes)
  \/ FetchAhead
  \/ Reopen
  \/ \E r \in LogReader :
       WalkStarts(r) \/ WalkEnds(r) \/ WalkVisits(r) \/ WalkAdvances(r) \/ WalkReturns(r)

LogSpec == LogInit /\ [][LogNext]_logVars

-----------------------------------------------------------------------------
(* Properties. *)

\* Whatever segments were opened, fetched ahead or reopened, the sizes in the
\* file lead from the first entry through every entry in the order of the
\* allocations to the end, and every entry is in a segment that the header
\* counts, so that an open finds it.
EntriesLink ==
  LET made == log.made IN
  /\ \A i \in 1 .. Len(made) :
       /\ made[i] = IF i = 1 THEN log.first
                    ELSE After(made[i - 1], log.size[made[i - 1]])
       /\ made[i][1] < log.count /\ log.count <= log.file
  /\ made # <<>> => /\ log.last = Last(made)
                    /\ log.end = After(log.last, log.size[log.last])

\* A walk meets the entries in the order of their allocation, none twice, and
\* ends only after all that were there when it started, while other threads
\* append: for_each looks at the end again before it stops.
WalkMeetsAll ==
  \A r \in LogReader :
    /\ IsPrefix(walk[r].seen, log.made)
    /\ walk[r].pc = "over" /\ ~walk[r].quit => walk[r].past <= Len(walk[r].seen)

\* for_each hands its callback entries only, whatever other threads append
\* meanwhile: "public methods of a single instance may be used concurrently".
\* No run checks it: it fails with RollsUnderWalk, see the README.
WalkMeetsEntries ==
  \A r \in LogReader : ToSet(walk[r].seen) \subseteq ToSet(log.made)

=============================================================================
