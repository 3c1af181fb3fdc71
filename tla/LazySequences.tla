---------------------------- MODULE LazySequences ----------------------------
(***************************************************************************)
(* The pull cursors of op/flur.  A sequence object of the code is a record *)
(* whose k names its class and whose other fields are the members that the *)
(* class keeps; Start, Next, InRange, Current and Ordered are the virtual  *)
(* functions of Sequence, each dispatched to the class.  A factory of the  *)
(* code is a record too, whose c names it; a lazy range is a tuple of      *)
(* factories, a source followed by stages, and Compound builds the object. *)
(*                                                                         *)
(* Elements are numbers.  A user's function is a record whose f names it;  *)
(* what a function of several arguments makes of them is Combine, which    *)
(* keeps the arguments apart.                                              *)
(***************************************************************************)
EXTENDS Integers, Sequences, FiniteSets, TLC, SequencesExt

\* A call of the virtual function f of the object q.
RECURSIVE Call(_, _)

Start(q) == Call("start", q)
Next(q) == Call("next", q)
InRange(q) == Call("in_range", q)
Current(q) == Call("current", q)
Ordered(q) == Call("is_sequence_ordered", q)

\* The object that the factories of a lazy range make.
Compound(lr) == Call("compound", lr)

-----------------------------------------------------------------------------
(* The state that sequences offer to the functions they call.             *)

NoState == [stop |-> FALSE, generation |-> -1, step |-> 0]

StateStart(s) == [stop |-> FALSE, generation |-> s.generation + 1, step |-> 0]

StateNext(s) == [s EXCEPT !.step = @ + 1]

-----------------------------------------------------------------------------
(* Functions of the user, external to the library.                        *)

\* Stands for the exception that a call throws instead of giving an element.
Throws == -1000

\* A predicate's answer, which may also stop the sequence that asks.
Ask(p, x, s) ==
    CASE p.f = "odd"     -> [ok |-> x % 2 = 1, stop |-> FALSE]
      [] p.f = "below"   -> [ok |-> x < p.n, stop |-> FALSE]
      [] p.f = "in"      -> [ok |-> x \in p.set, stop |-> FALSE]
      [] p.f = "first"   -> [ok |-> TRUE, stop |-> s.step = p.n]
      [] p.f = "skip"    -> [ok |-> x # p.n, stop |-> FALSE]

Mapped(g, x, s) ==
    CASE g.f = "half"   -> x \div 2
      [] g.f = "negate" -> 0 - x
      [] g.f = "number" -> 10 * x + s.step
      [] g.f = "fails"  -> IF x = g.n THEN Throws ELSE x

\* The values a function that produces a child sequence gives for x.
Children(g, x) ==
    CASE g.f = "twice"  -> <<x, x>>
      [] g.f = "upto"   -> [i \in 1 .. x |-> i - 1]
      [] g.f = "tree"   -> CASE x >= 3 -> <<1, 2>>
                             [] x = 2  -> <<0, 1>>
                             [] x = 1  -> <<0>>
                             [] OTHER  -> << >>

\* The function given to cartesian and zip; 9 stands for an absent argument.
Combine(args) == FoldLeft(LAMBDA acc, x : 10 * acc + x, 0, args)

Absent == 9

-----------------------------------------------------------------------------
(* Sources.                                                               *)

\* A boundary without a step compares for equality; one with a step asks for
\* the room of a whole step.
Boundary2(b, e) == [k |-> "iota", begin |-> b, end |-> e, step |-> 1, whole |-> FALSE, current |-> e]

Boundary3(b, e, step) == [Boundary2(b, e) EXCEPT !.step = step, !.whole = TRUE]

IotaInRange(q) ==
    LET diff == q.end - q.current
    IN  CASE ~ q.whole              -> diff # 0
          [] q.whole /\ q.step > 0 -> diff >= q.step
          [] q.whole /\ q.step < 0 -> diff <= q.step

IotaStart(q) == [q EXCEPT !.current = q.begin]

IotaNext(q) == [q EXCEPT !.current = @ + q.step]

IotaOrdered(q) == q.begin <= q.end

OfContainer(v, sorted) == [k |-> "container", v |-> v, sorted |-> sorted, pos |-> Len(v) + 1]

ContainerStart(q) == [q EXCEPT !.pos = 1]

ContainerNext(q) == [q EXCEPT !.pos = @ + 1]

ContainerInRange(q) == q.pos # Len(q.v) + 1

\* Only a container that keeps its elements in order offers a lower bound.
LowerBound(q, key) ==
    [q EXCEPT !.pos = Cardinality({i \in DOMAIN q.v : q.v[i] < key}) + 1]

OfIterators(v) == [k |-> "iterators", v |-> v, pos |-> Len(v) + 1]

OfValue(x, limit) == [k |-> "value", x |-> x, limit |-> limit, pos |-> 0]

ValueStart(q) == [q EXCEPT !.pos = 0]

ValueNext(q) == [q EXCEPT !.pos = @ + 1]

OfLazyValue(g, limit) == [k |-> "lazy", g |-> g, limit |-> limit, state |-> NoState]

LazyCurrent(q) == Mapped(q.g, q.limit, q.state)

NullSequence == [k |-> "null"]

OfOptional(v) == [k |-> "optional", v |-> v, retrieved |-> FALSE]

OptionalInRange(q) == ~ q.retrieved /\ q.v # << >>

\* A generator's function gives the values of the table v, then nothing; at
\* the step given it stops the sequence, or throws.
Generator(g, ordered) ==
    [k |-> "generator", g |-> g, ordered |-> ordered, current |-> << >>,
     state |-> NoState, thrown |-> FALSE]

Generate(q, s) ==
    IF s.step = q.g.throwAt
    THEN [q EXCEPT !.state = s, !.thrown = TRUE]
    ELSE [q EXCEPT !.state = [s EXCEPT !.stop = @ \/ s.step = q.g.stopAt],
                   !.thrown = FALSE,
                   !.current = IF s.step < Len(q.g.v) THEN <<q.g.v[s.step + 1]>> ELSE << >>]

GeneratorInRange(q) == q.current # << >> /\ ~ q.state.stop

\* A text is a sequence of characters, here numbers; no position is its end.
StringSplit(text, separators) ==
    [k |-> "split", text |-> text, separators |-> separators,
     start |-> Len(text) + 1, endp |-> Len(text) + 1]

FindFrom(text, set, from) ==
    CHOOSE i \in from .. Len(text) + 1 :
        /\ i \in DOMAIN text => text[i] \in set
        /\ \A j \in from .. i - 1 : text[j] \notin set

SplitAt(q, from) ==
    LET start == FindFrom(q.text, 0 .. 9 \ q.separators, from)
    IN  [q EXCEPT !.start = start, !.endp = FindFrom(q.text, q.separators, start)]

SplitNext(q) ==
    LET npos == Len(q.text) + 1
    IN  IF q.endp = npos THEN [q EXCEPT !.start = npos] ELSE SplitAt(q, q.endp + 1)

SplitCurrent(q) == SubSeq(q.text, q.start, q.endp - 1)

-----------------------------------------------------------------------------
(* Filters and mappings.                                                  *)

Filter(src, p) == [k |-> "filter", src |-> src, p |-> p, end |-> TRUE, state |-> NoState]

\* Move to an element that passes, unless the source ends or the predicate
\* stops the sequence.
RECURSIVE FilterSeek(_)
FilterSeek(q) ==
    IF q.end \/ q.state.stop THEN q
    ELSE IF ~ InRange(q.src) THEN [q EXCEPT !.end = TRUE]
    ELSE LET answer == Ask(q.p, Current(q.src), q.state)
             asked == [q EXCEPT !.state.stop = @ \/ answer.stop]
         IN  IF answer.ok THEN asked
             ELSE FilterSeek([asked EXCEPT !.src = Next(@)])

FilterStart(q) ==
    LET src == Start(q.src)
    IN  FilterSeek([q EXCEPT !.src = src, !.state = StateStart(@), !.end = ~ InRange(src)])

FilterNext(q) == FilterSeek([q EXCEPT !.src = Next(@), !.state = StateNext(@)])

FilterInRange(q) == ~ q.end /\ ~ q.state.stop

TakeAwhile(src, p) == [k |-> "take", src |-> src, p |-> p, end |-> TRUE]

TakeSeek(q) ==
    [q EXCEPT !.end = ~ InRange(q.src) \/ ~ Ask(q.p, Current(q.src), NoState).ok]

TakeStart(q) == TakeSeek([q EXCEPT !.src = Start(@), !.end = FALSE])

TakeNext(q) == IF q.end THEN q ELSE TakeSeek([q EXCEPT !.src = Next(@)])

Mapping(src, g, keepOrder) ==
    [k |-> "map", src |-> src, g |-> g, keepOrder |-> keepOrder, state |-> NoState]

MappingStart(q) == [q EXCEPT !.src = Start(@), !.state = StateStart(@)]

MappingCurrent(q) == Mapped(q.g, Current(q.src), q.state)

MappingNext(q) == [q EXCEPT !.src = Next(@), !.state = StateNext(@)]

\* mutant: a mapping promises its source's order, whatever the function does.
KeepsOrderAlways(q) == Ordered(q.src)

KeepsOrder(q) == q.keepOrder /\ Ordered(q.src)

\* Mapping and filtering at once: g fills the entry of an element that passes p.
MaF(src, p, g, keepOrder) ==
    [k |-> "maf", src |-> src, p |-> p, g |-> g, keepOrder |-> keepOrder, entry |-> 0]

RECURSIVE MaFSeek(_)
MaFSeek(q) ==
    IF ~ InRange(q.src) THEN q
    ELSE LET x == Current(q.src)
             filled == [q EXCEPT !.entry = Mapped(q.g, x, NoState)]
         IN  IF Ask(q.p, x, NoState).ok THEN filled
             ELSE MaFSeek([filled EXCEPT !.src = Next(@)])

MaFStart(q) == MaFSeek([q EXCEPT !.src = Start(@)])

MaFNext(q) == MaFSeek([q EXCEPT !.src = Next(@)])

\* The deferred sequence is that of the source's current element.
FlatMapping(src, g, keepOrder) ==
    [k |-> "flat", src |-> src, g |-> g, keepOrder |-> keepOrder,
     deferred |-> << >>, state |-> NoState]

RECURSIVE FlatSeek(_)
FlatSeek(q) ==
    IF ~ InRange(q.src) THEN [q EXCEPT !.deferred = << >>]
    ELSE LET child == Start(OfContainer(Children(q.g, Current(q.src)), FALSE))
         IN  IF InRange(child) THEN [q EXCEPT !.deferred = <<child>>]
             ELSE FlatSeek([q EXCEPT !.src = Next(@), !.state = StateNext(@)])

FlatStart(q) == FlatSeek([q EXCEPT !.src = Start(@), !.state = StateStart(@)])

FlatInRange(q) == q.deferred # << >> /\ InRange(q.deferred[1])

FlatNext(q) ==
    LET child == Next(q.deferred[1])
    IN  IF ~ InRange(child) /\ InRange(q.src)
        THEN FlatSeek([q EXCEPT !.src = Next(@), !.state = StateNext(@)])
        ELSE [q EXCEPT !.deferred = <<child>>]

\* The children of every element are merged by value.  The heap of indices is
\* the set of the children that have an element, and the index it gives out.
OrderingFlatMapping(src, g) ==
    [k |-> "orderflat", src |-> src, g |-> g, subs |-> << >>, heap |-> {}, top |-> 0]

\* Some index of a child with the least element.
Smallest(subs, heap) ==
    IF heap = {} THEN 0
    ELSE CHOOSE i \in heap : \A j \in heap : Current(subs[i]) <= Current(subs[j])

GrantSmallest(q) == [q EXCEPT !.top = Smallest(q.subs, q.heap)]

\* The children that have an element, started in the source's order.
RECURSIVE Emplaced(_, _)
Emplaced(src, g) ==
    IF ~ InRange(src) THEN << >>
    ELSE LET child == Start(OfContainer(Children(g, Current(src)), TRUE))
         IN  (IF InRange(child) THEN <<child>> ELSE << >>) \o Emplaced(Next(src), g)

OrderFlatStart(q) ==
    LET subs == Emplaced(Start(q.src), q.g)
    IN  GrantSmallest([q EXCEPT !.subs = subs, !.heap = DOMAIN subs])

OrderFlatNext(q) ==
    LET child == Next(q.subs[q.top])
    IN  GrantSmallest([q EXCEPT !.subs[q.top] = child,
                                !.heap = IF InRange(child) THEN @ ELSE @ \ {q.top}])

-----------------------------------------------------------------------------
(* Sequences over several sequences.                                      *)

\* The sources up to the first that fails are changed, as && and || go.
UpToFirst(srcs, changed, fails) ==
    [i \in DOMAIN srcs |-> IF \A j \in fails : i <= j THEN changed[i] ELSE srcs[i]]

Empties(srcs) == {i \in DOMAIN srcs : ~ InRange(srcs[i])}

CartesianSequence(srcs) == [k |-> "cartesian", srcs |-> srcs, allGood |-> FALSE]

CartesianStart(q) ==
    LET started == [i \in DOMAIN q.srcs |-> Start(q.srcs[i])]
        fails == Empties(started)
    IN  [q EXCEPT !.srcs = UpToFirst(q.srcs, started, fails), !.allGood = fails = {}]

\* Step the sources as digits, the first one fastest.
RECURSIVE CartesianStep(_, _)
CartesianStep(q, i) ==
    IF i \notin DOMAIN q.srcs \/ ~ InRange(q.srcs[i]) THEN [q EXCEPT !.allGood = FALSE]
    ELSE LET moved == [q EXCEPT !.srcs[i] = Next(@)]
             again == [q EXCEPT !.srcs[i] = Start(moved.srcs[i])]
         IN  IF InRange(moved.srcs[i]) THEN [moved EXCEPT !.allGood = TRUE]
             ELSE IF ~ InRange(again.srcs[i]) THEN [again EXCEPT !.allGood = FALSE]
             ELSE CartesianStep(again, i + 1)

ProductCurrent(q) == Combine([i \in DOMAIN q.srcs |-> Current(q.srcs[i])])

ZipSequence(srcs, longest) ==
    [k |-> "zip", srcs |-> srcs, longest |-> longest, good |-> FALSE]

\* The longest zip lives while one source does, the shortest while all do.
ZipGood(q, fails) == IF q.longest THEN fails # DOMAIN q.srcs ELSE fails = {}

ZipStart(q) ==
    LET started == [i \in DOMAIN q.srcs |-> Start(q.srcs[i])]
    IN  [q EXCEPT !.srcs = started, !.good = ZipGood(q, Empties(started))]

ZipNext(q) ==
    LET moved == [i \in DOMAIN q.srcs |->
                    IF InRange(q.srcs[i]) THEN Next(q.srcs[i]) ELSE q.srcs[i]]
        fails == Empties(moved)
    IN  [q EXCEPT !.srcs = IF q.longest THEN moved ELSE UpToFirst(q.srcs, moved, fails),
                  !.good = ZipGood(q, fails)]

ZipCurrent(q) ==
    Combine([i \in DOMAIN q.srcs |->
               IF InRange(q.srcs[i]) THEN Current(q.srcs[i]) ELSE Absent])

UnionAllSequence(srcs) == [k |-> "union", srcs |-> srcs, index |-> Len(srcs) + 1]

\* Go on to the next source that has an element, starting each on the way.
RECURSIVE UnionSeek(_)
UnionSeek(q) ==
    IF q.index > Len(q.srcs) \/ InRange(q.srcs[q.index]) THEN q
    ELSE LET i == q.index + 1
         IN  UnionSeek(IF i > Len(q.srcs) THEN [q EXCEPT !.index = i]
                       ELSE [q EXCEPT !.index = i, !.srcs[i] = Start(@)])

UnionStart(q) == UnionSeek([q EXCEPT !.index = 1, !.srcs[1] = Start(@)])

UnionInRange(q) == q.index <= Len(q.srcs) /\ InRange(q.srcs[q.index])

UnionNext(q) == UnionSeek([q EXCEPT !.srcs[q.index] = Next(@)])

\* The retained heap is the set of the sources that have an element.
MergeSortUnion(srcs) == [k |-> "merge", srcs |-> srcs, heap |-> {}]

MergeStart(q) ==
    LET started == [i \in DOMAIN q.srcs |-> Start(q.srcs[i])]
    IN  [q EXCEPT !.srcs = started, !.heap = DOMAIN q.srcs \ Empties(started)]

MergeNext(q) ==
    LET top == Smallest(q.srcs, q.heap)
        moved == Next(q.srcs[top])
    IN  [q EXCEPT !.srcs[top] = moved, !.heap = IF InRange(moved) THEN @ ELSE @ \ {top}]

-----------------------------------------------------------------------------
(* Joins.                                                                 *)

OrderedJoin(left, right) == [k |-> "join", left |-> left, right |-> right]

\* Move a source that lags behind the key of the other side, at least by one.
RECURSIVE Skip(_, _)
Skip(src, key) ==
    LET moved == Next(src)
    IN  IF InRange(moved) /\ Current(moved) < key THEN Skip(moved, key) ELSE moved

OptNext(src, key) ==
    IF src.k = "container" /\ src.sorted /\ Current(src) < key
    THEN LowerBound(src, key)
    ELSE Skip(src, key)

RECURSIVE JoinSeek(_)
JoinSeek(q) ==
    IF ~ InRange(q.left) \/ ~ InRange(q.right) THEN q
    ELSE LET l == Current(q.left)
             r == Current(q.right)
         IN  CASE l < r -> JoinSeek([q EXCEPT !.left = OptNext(@, r)])
               [] l > r -> JoinSeek([q EXCEPT !.right = OptNext(@, l)])
               [] l = r -> q

JoinStart(q) ==
    LET left == Start(q.left)
    IN  IF InRange(left) THEN JoinSeek([q EXCEPT !.left = left, !.right = Start(@)])
        ELSE [q EXCEPT !.left = left]

JoinNext(q) == JoinSeek([q EXCEPT !.left = Next(@)])

JoinInRange(q) == InRange(q.left) /\ InRange(q.right)

\* Every element of a sequence, from its start.
RECURSIVE Rest(_)
Rest(q) == IF InRange(q) THEN <<Current(q)>> \o Rest(Next(q)) ELSE << >>

Drained(q) == Rest(Start(q))

\* The right side is read into a set when the join is built.
UnorderedJoin(left, right) == Filter(left, [f |-> "in", set |-> ToSet(Drained(right))])

AdaptiveJoin(left, right) ==
    CASE Ordered(right) /\ Ordered(left)   -> OrderedJoin(left, right)
      [] Ordered(right) /\ ~ Ordered(left) -> UnorderedJoin(right, left)
      [] ~ Ordered(right)                  -> UnorderedJoin(left, right)

-----------------------------------------------------------------------------
(* A policy decides which elements of the source a distinct sequence or a *)
(* difference shows; it answers and keeps a state of its own.             *)

DistinctSequence(src, policy) ==
    [k |-> "distinct", src |-> src, state |-> NoState, policy |-> policy]

\* The last element shown is kept, and dropped when a pass begins.
SkipOrderedPolicy(p, s, src) ==
    LET bypass == IF s.step = 0 THEN << >> ELSE p.bypass
        x == Current(src)
    IN  [show |-> bypass # <<x>>, policy |-> [p EXCEPT !.bypass = <<x>>]]

SkipUnorderedPolicy(p, s, src) ==
    LET seen == IF s.step = 0 THEN {} ELSE p.seen
        x == Current(src)
    IN  [show |-> x \notin seen, policy |-> [p EXCEPT !.seen = seen \cup {x}]]

\* The subtrahend follows the source; one of its elements hides one of the
\* source's.
OrderedDiffPolicy(p, s, src) ==
    LET x == Current(src)
        sub == IF s.step = 0 THEN Start(p.sub) ELSE p.sub
        near == IF InRange(sub) /\ Current(sub) < x THEN OptNext(sub, x) ELSE sub
        hide == InRange(near) /\ Current(near) = x
    IN  [show |-> ~ hide, policy |-> [p EXCEPT !.sub = IF hide THEN Next(near) ELSE near]]

\* mutant: the counts of the last pass are not given back.
UnorderedDiffPolicyOnce(p, s, src) ==
    LET x == Current(src)
        hide == x \in DOMAIN p.max /\ p.used[x] < p.max[x]
    IN  [show |-> ~ hide, policy |-> IF hide THEN [p EXCEPT !.used[x] = @ + 1] ELSE p]

\* Every pass may hide max more: used counts over the passes.
UnorderedDiffPolicy(p, s, src) ==
    LET x == Current(src)
        known == x \in DOMAIN p.max
        base == p.max[x] * s.generation
        used == IF p.used[x] < base THEN base ELSE p.used[x]
        hide == known /\ p.used[x] < base + p.max[x]
    IN  [show |-> ~ hide, policy |-> IF hide THEN [p EXCEPT !.used[x] = used + 1] ELSE p]

Decide(q) ==
    CASE q.policy.p = "skipOrdered"   -> SkipOrderedPolicy(q.policy, q.state, q.src)
      [] q.policy.p = "skipUnordered" -> SkipUnorderedPolicy(q.policy, q.state, q.src)
      [] q.policy.p = "orderedDiff"   -> OrderedDiffPolicy(q.policy, q.state, q.src)
      [] q.policy.p = "unorderedDiff" -> UnorderedDiffPolicy(q.policy, q.state, q.src)

RECURSIVE DistinctSeek(_)
DistinctSeek(q) ==
    IF ~ InRange(q.src) THEN q
    ELSE LET decided == Decide(q)
             asked == [q EXCEPT !.policy = decided.policy]
         IN  IF decided.show THEN asked
             ELSE DistinctSeek([asked EXCEPT !.src = Next(@), !.state = StateNext(@)])

DistinctStart(q) == DistinctSeek([q EXCEPT !.src = Start(@), !.state = StateStart(@)])

DistinctNext(q) == DistinctSeek([q EXCEPT !.src = Next(@), !.state = StateNext(@)])

OrderedDistinct(src) == DistinctSequence(src, [p |-> "skipOrdered", bypass |-> << >>])

UnorderedDistinct(src) == DistinctSequence(src, [p |-> "skipUnordered", seen |-> {}])

SmartDistinct(src) == IF Ordered(src) THEN OrderedDistinct(src) ELSE UnorderedDistinct(src)

OrderedDiff(src, sub) == DistinctSequence(src, [p |-> "orderedDiff", sub |-> sub])

\* The subtrahend is counted by another thread, and waited for at first use.
UnorderedDiff(src, sub) ==
    LET drained == Drained(sub)
        Times(x) == Cardinality({i \in DOMAIN drained : drained[i] = x})
    IN  DistinctSequence(src, [p |-> "unorderedDiff",
                               max |-> [x \in ToSet(drained) |-> Times(x)],
                               used |-> [x \in ToSet(drained) |-> 0]])

AutoDiff(src, sub) ==
    IF Ordered(src) /\ Ordered(sub) THEN OrderedDiff(src, sub) ELSE UnorderedDiff(src, sub)

-----------------------------------------------------------------------------
(* Alternatives, repetition and failures.                                 *)

OrDefault(src, alt) == [k |-> "ordefault", src |-> src, alt |-> alt, useAlt |-> FALSE]

OrDefaultStart(q) ==
    LET src == Start(q.src)
    IN  IF InRange(src) THEN [q EXCEPT !.src = src, !.useAlt = FALSE]
        ELSE [q EXCEPT !.src = src, !.useAlt = TRUE, !.alt = Start(@)]

\* The sequence that answers now, of one with an alternative.
Used(q) == IF q.useAlt THEN q.alt ELSE q.src

AltNext(q) == IF q.useAlt THEN [q EXCEPT !.alt = Next(@)] ELSE [q EXCEPT !.src = Next(@)]

OrDefaultOrdered(q) == Ordered(q.src) /\ Ordered(q.alt)

\* The source is read once, in the first pass, and kept.
Repeater(src) == [k |-> "repeat", src |-> src, kept |-> << >>, generation |-> 0, current |-> 0]

Peek(q) == IF InRange(q.src) THEN [q EXCEPT !.kept = Append(@, Current(q.src))] ELSE q

RepeaterStart(q) ==
    LET passed == [q EXCEPT !.current = 1, !.generation = @ + 1]
    IN  IF passed.generation = 1 THEN Peek([passed EXCEPT !.src = Start(@)]) ELSE passed

RepeaterNext(q) ==
    LET peeked == IF q.generation = 1 THEN Peek([q EXCEPT !.src = Next(@)]) ELSE q
    IN  [peeked EXCEPT !.current = @ + 1]

\* A failing call of the source turns to the alternative, from its start.
OnException(src, alt) == [k |-> "onexcept", src |-> src, alt |-> alt, useAlt |-> FALSE]

Thrown(q) == q.k = "generator" /\ q.thrown

HandleException(q) == [q EXCEPT !.alt = Start(@), !.useAlt = TRUE]

OnExceptionStart(q) ==
    LET started == [q EXCEPT !.src = Start(@), !.useAlt = FALSE]
    IN  IF Thrown(started.src) THEN HandleException(started) ELSE started

OnExceptionNext(q) ==
    LET moved == AltNext(q)
    IN  IF ~ q.useAlt /\ Thrown(moved.src) THEN HandleException(moved) ELSE moved

\* Reading the element may fail too: the reader finds the alternative's.
Observed(q) ==
    IF q.k = "onexcept" /\ ~ q.useAlt /\ InRange(q.src) /\ Current(q.src) = Throws
    THEN HandleException(q) ELSE q

-----------------------------------------------------------------------------
(* Trees.  The elements of the source are the roots, which are not shown. *)

DeepFirst(src, g) == [k |-> "deep", src |-> src, g |-> g, levels |-> << >>]

\* Enter the children of the current element, if it has any.
StepIn(q) ==
    LET from == IF q.levels = << >> THEN q.src ELSE Last(q.levels)
        child == Start(OfContainer(Children(q.g, Current(from)), FALSE))
    IN  IF InRange(child) THEN [q EXCEPT !.levels = Append(@, child)] ELSE q

DeepInRange(q) == InRange(q.src) \/ q.levels # << >>

RECURSIVE DeepSeekRoot(_)
DeepSeekRoot(q) ==
    IF ~ InRange(q.src) \/ StepIn(q) # q THEN (IF InRange(q.src) THEN StepIn(q) ELSE q)
    ELSE DeepSeekRoot([q EXCEPT !.src = Next(@)])

DeepStart(q) == DeepSeekRoot([q EXCEPT !.src = Start(@), !.levels = << >>])

\* Leave exhausted levels, and the root when none is left.
RECURSIVE StepOut(_)
StepOut(q) ==
    IF q.levels = << >> THEN (IF InRange(q.src) THEN [q EXCEPT !.src = Next(@)] ELSE q)
    ELSE LET top == Next(Last(q.levels))
         IN  IF InRange(top) THEN [q EXCEPT !.levels[Len(q.levels)] = top]
             ELSE StepOut([q EXCEPT !.levels = Front(@)])

RECURSIVE DeepNext(_)
DeepNext(q) ==
    IF ~ DeepInRange(q) THEN q
    ELSE IF StepIn(q) # q THEN StepIn(q)
    ELSE LET out == StepOut(q)
         IN  IF out.levels # << >> THEN out ELSE DeepNext(out)

\* The children of the roots come from the source; those of the shown
\* elements wait at the end of the queue.
BreadthFirst(src, g) ==
    [k |-> "broad", src |-> src, g |-> g, queue |-> << >>, gen0 |-> TRUE]

ChildrenOf(g, from) ==
    LET child == Start(OfContainer(Children(g, Current(from)), FALSE))
    IN  IF InRange(child) THEN <<child>> ELSE << >>

RECURSIVE BroadSeekRoot(_)
BroadSeekRoot(q) ==
    IF ~ InRange(q.src) THEN q
    ELSE LET child == ChildrenOf(q.g, q.src)
         IN  IF child # << >> THEN [q EXCEPT !.queue = child \o @]
             ELSE BroadSeekRoot([q EXCEPT !.src = Next(@)])

BroadStart(q) == BroadSeekRoot([q EXCEPT !.src = Start(@), !.queue = << >>, !.gen0 = TRUE])

BroadInRange(q) == IF q.gen0 THEN InRange(q.src) ELSE q.queue # << >>

RECURSIVE BroadSettle(_)
BroadSettle(q) ==
    IF q.queue = << >> \/ InRange(Head(q.queue)) THEN q
    ELSE LET popped == [q EXCEPT !.queue = Tail(@)]
             rooted == BroadSeekRoot([popped EXCEPT !.src = Next(@)])
         IN  CASE ~ q.gen0 -> BroadSettle(popped)
               [] q.gen0 /\ InRange(rooted.src) -> rooted
               [] q.gen0 /\ ~ InRange(rooted.src) -> BroadSettle([rooted EXCEPT !.gen0 = FALSE])

BroadNext(q) ==
    LET grown == [q EXCEPT !.queue = @ \o ChildrenOf(q.g, Head(q.queue))]
    IN  BroadSettle([grown EXCEPT !.queue[1] = Next(@)])

-----------------------------------------------------------------------------
(* Sorting in a pool: each of two collectors takes the source's next      *)
(* element whenever it gets the lock, and sorts what it took; deal says,  *)
(* again and again from its start, which of them takes the next element.  *)

Collected(src, deal, collector) ==
    LET all == Drained(src)
        mine == SelectSeq([i \in DOMAIN all |-> <<deal[1 + (i % Len(deal))], all[i]>>],
                         LAMBDA e : e[1] = collector)
    IN  OfContainer(SortSeq([i \in DOMAIN mine |-> mine[i][2]], LAMBDA a, b : a < b), TRUE)

ParallelSort(src, deal) ==
    IF Ordered(src) THEN src
    ELSE MergeSortUnion(<<Collected(src, deal, 1), Collected(src, deal, 2)>>)

-----------------------------------------------------------------------------
(* Building the objects.  first is the tuple of the sequence that the     *)
(* range has so far, empty for a source.                                  *)

Compounds(lrs) == [i \in DOMAIN lrs |-> Compound(lrs[i])]

CompoundZip(first, f) == ZipSequence(first \o Compounds(f.rest), f.longest)

CompoundUnion(first, f) == UnionAllSequence(first \o Compounds(f.rest))

CompoundCartesian(src, f) == CartesianSequence(<<src>> \o Compounds(f.rest))

CompoundMerge(src, f) == MergeSortUnion(<<src>> \o Compounds(f.rest))

CompoundJoin(src, f) == OrderedJoin(src, Compound(f.right))

CompoundOrDefault(src, f) == OrDefault(src, Compound(f.alt))

CompoundOnException(src, f) == OnException(src, Compound(f.alt))

\* The proxy forwards every call to the alternative it was built with.
CompoundProxy(f) == Compound(f.instance)

CompoundSource(f) ==
    CASE f.c = "container" -> OfContainer(f.v, f.sorted)
      [] f.c = "iterators" -> OfIterators(f.v)
      [] f.c = "optional"  -> OfOptional(f.v)
      [] f.c = "null"      -> NullSequence
      [] f.c = "value"     -> OfValue(f.x, f.limit)
      [] f.c = "lazy"      -> OfLazyValue(f.g, f.limit)
      [] f.c = "iota"      -> f.boundary
      [] f.c = "generator" -> Generator(f.g, f.ordered)
      [] f.c = "split"     -> StringSplit(f.text, f.separators)
      [] f.c = "proxy"     -> CompoundProxy(f)
      [] f.c = "zip"       -> CompoundZip(<< >>, f)
      [] f.c = "union"     -> CompoundUnion(<< >>, f)

CompoundStage(src, f) ==
    CASE f.c = "filter"    -> Filter(src, f.p)
      [] f.c = "take"      -> TakeAwhile(src, f.p)
      [] f.c = "map"       -> Mapping(src, f.g, f.keepOrder)
      [] f.c = "maf"       -> MaF(src, f.p, f.g, f.keepOrder)
      [] f.c = "flat"      -> FlatMapping(src, f.g, f.keepOrder)
      [] f.c = "orderflat" -> OrderingFlatMapping(src, f.g)
      [] f.c = "sort"      -> ParallelSort(src, f.deal)
      [] f.c = "join"      -> CompoundJoin(src, f)
      [] f.c = "unorderedjoin"     -> UnorderedJoin(src, Compound(f.right))
      [] f.c = "autojoin"          -> AdaptiveJoin(src, Compound(f.right))
      [] f.c = "ordereddiff"       -> OrderedDiff(src, Compound(f.right))
      [] f.c = "unordereddiff"     -> UnorderedDiff(src, Compound(f.right))
      [] f.c = "autodiff"          -> AutoDiff(src, Compound(f.right))
      [] f.c = "ordereddistinct"   -> OrderedDistinct(src)
      [] f.c = "unordereddistinct" -> UnorderedDistinct(src)
      [] f.c = "autodistinct"      -> SmartDistinct(src)
      [] f.c = "union"     -> CompoundUnion(<<src>>, f)
      [] f.c = "merge"     -> CompoundMerge(src, f)
      [] f.c = "cartesian" -> CompoundCartesian(src, f)
      [] f.c = "zip"       -> CompoundZip(<<src>>, f)
      [] f.c = "ordefault" -> CompoundOrDefault(src, f)
      [] f.c = "onexcept"  -> CompoundOnException(src, f)
      [] f.c = "repeat"    -> Repeater(src)
      [] f.c = "deep"      -> DeepFirst(src, f.g)
      [] f.c = "broad"     -> BreadthFirst(src, f.g)

\* Each factory of the tuple wraps what the ones before it make.
CompoundOf(lr) ==
    IF Len(lr) = 1 THEN CompoundSource(lr[1])
    ELSE CompoundStage(Compound(Front(lr)), Last(lr))

-----------------------------------------------------------------------------
(* Which class answers a call.                                            *)

StartOf(q) ==
    CASE q.k = "iota"      -> IotaStart(q)
      [] q.k = "container" -> ContainerStart(q)
      [] q.k = "iterators" -> ContainerStart(q)
      [] q.k = "value"     -> ValueStart(q)
      [] q.k = "lazy"      -> [q EXCEPT !.state = StateStart(@)]
      [] q.k = "null"      -> q
      [] q.k = "optional"  -> [q EXCEPT !.retrieved = FALSE]
      [] q.k = "generator" -> Generate(q, StateStart(q.state))
      [] q.k = "split"     -> SplitAt(q, 1)
      [] q.k = "filter"    -> FilterStart(q)
      [] q.k = "take"      -> TakeStart(q)
      [] q.k = "map"       -> MappingStart(q)
      [] q.k = "maf"       -> MaFStart(q)
      [] q.k = "flat"      -> FlatStart(q)
      [] q.k = "orderflat" -> OrderFlatStart(q)
      [] q.k = "cartesian" -> CartesianStart(q)
      [] q.k = "zip"       -> ZipStart(q)
      [] q.k = "union"     -> UnionStart(q)
      [] q.k = "merge"     -> MergeStart(q)
      [] q.k = "join"      -> JoinStart(q)
      [] q.k = "distinct"  -> DistinctStart(q)
      [] q.k = "ordefault" -> OrDefaultStart(q)
      [] q.k = "repeat"    -> RepeaterStart(q)
      [] q.k = "onexcept"  -> OnExceptionStart(q)
      [] q.k = "deep"      -> DeepStart(q)
      [] q.k = "broad"     -> BroadStart(q)

NextOf(q) ==
    CASE q.k = "iota"      -> IotaNext(q)
      [] q.k = "container" -> ContainerNext(q)
      [] q.k = "iterators" -> ContainerNext(q)
      [] q.k = "value"     -> ValueNext(q)
      [] q.k = "lazy"      -> [q EXCEPT !.state = StateNext(@)]
      [] q.k = "optional"  -> [q EXCEPT !.retrieved = TRUE]
      [] q.k = "generator" -> Generate(q, StateNext(q.state))
      [] q.k = "split"     -> SplitNext(q)
      [] q.k = "filter"    -> FilterNext(q)
      [] q.k = "take"      -> TakeNext(q)
      [] q.k = "map"       -> MappingNext(q)
      [] q.k = "maf"       -> MaFNext(q)
      [] q.k = "flat"      -> FlatNext(q)
      [] q.k = "orderflat" -> OrderFlatNext(q)
      [] q.k = "cartesian" -> CartesianStep(q, 1)
      [] q.k = "zip"       -> ZipNext(q)
      [] q.k = "union"     -> UnionNext(q)
      [] q.k = "merge"     -> MergeNext(q)
      [] q.k = "join"      -> JoinNext(q)
      [] q.k = "distinct"  -> DistinctNext(q)
      [] q.k = "ordefault" -> AltNext(q)
      [] q.k = "repeat"    -> RepeaterNext(q)
      [] q.k = "onexcept"  -> OnExceptionNext(q)
      [] q.k = "deep"      -> DeepNext(q)
      [] q.k = "broad"     -> BroadNext(q)

InRangeOf(q) ==
    CASE q.k = "iota"      -> IotaInRange(q)
      [] q.k = "container" -> ContainerInRange(q)
      [] q.k = "iterators" -> ContainerInRange(q)
      [] q.k = "value"     -> q.pos < q.limit
      [] q.k = "lazy"      -> q.state.step < q.limit
      [] q.k = "null"      -> FALSE
      [] q.k = "optional"  -> OptionalInRange(q)
      [] q.k = "generator" -> GeneratorInRange(q)
      [] q.k = "split"     -> q.start <= Len(q.text)
      [] q.k = "filter"    -> FilterInRange(q)
      [] q.k = "take"      -> ~ q.end
      [] q.k = "map"       -> InRange(q.src)
      [] q.k = "maf"       -> InRange(q.src)
      [] q.k = "flat"      -> FlatInRange(q)
      [] q.k = "orderflat" -> q.heap # {}
      [] q.k = "cartesian" -> q.allGood
      [] q.k = "zip"       -> q.good
      [] q.k = "union"     -> UnionInRange(q)
      [] q.k = "merge"     -> q.heap # {}
      [] q.k = "join"      -> JoinInRange(q)
      [] q.k = "distinct"  -> InRange(q.src)
      [] q.k = "ordefault" -> InRange(Used(q))
      [] q.k = "repeat"    -> q.current <= Len(q.kept)
      [] q.k = "onexcept"  -> InRange(Used(q))
      [] q.k = "deep"      -> DeepInRange(q)
      [] q.k = "broad"     -> BroadInRange(q)

CurrentOf(q) ==
    CASE q.k = "iota"      -> q.current
      [] q.k = "container" -> q.v[q.pos]
      [] q.k = "iterators" -> q.v[q.pos]
      [] q.k = "value"     -> q.x
      [] q.k = "lazy"      -> LazyCurrent(q)
      [] q.k = "optional"  -> q.v[1]
      [] q.k = "generator" -> q.current[1]
      [] q.k = "split"     -> SplitCurrent(q)
      [] q.k = "filter"    -> Current(q.src)
      [] q.k = "take"      -> Current(q.src)
      [] q.k = "map"       -> MappingCurrent(q)
      [] q.k = "maf"       -> q.entry
      [] q.k = "flat"      -> Current(q.deferred[1])
      [] q.k = "orderflat" -> Current(q.subs[q.top])
      [] q.k = "cartesian" -> ProductCurrent(q)
      [] q.k = "zip"       -> ZipCurrent(q)
      [] q.k = "union"     -> Current(q.srcs[q.index])
      [] q.k = "merge"     -> Current(q.srcs[Smallest(q.srcs, q.heap)])
      [] q.k = "join"      -> Current(q.left)
      [] q.k = "distinct"  -> Current(q.src)
      [] q.k = "ordefault" -> Current(Used(q))
      [] q.k = "repeat"    -> q.kept[q.current]
      [] q.k = "onexcept"  -> Current(Used(q))
      [] q.k = "deep"      -> Current(Last(q.levels))
      [] q.k = "broad"     -> Current(Head(q.queue))

\* What a sequence says of its own order.
OrderedOf(q) ==
    CASE q.k = "iota"      -> IotaOrdered(q)
      [] q.k = "container" -> q.sorted
      [] q.k = "generator" -> q.ordered
      [] q.k \in {"value", "lazy", "null", "optional", "orderflat", "merge", "join"} -> TRUE
      [] q.k \in {"filter", "distinct", "repeat"} -> Ordered(q.src)
      [] q.k \in {"map", "maf", "flat"} -> KeepsOrder(q)
      [] q.k = "ordefault" -> OrDefaultOrdered(q)
      [] OTHER -> FALSE

Call(f, q) ==
    CASE f = "start"               -> StartOf(q)
      [] f = "next"                -> NextOf(q)
      [] f = "in_range"            -> InRangeOf(q)
      [] f = "current"             -> CurrentOf(q)
      [] f = "is_sequence_ordered" -> OrderedOf(q)
      [] f = "compound"            -> CompoundOf(q)
=============================================================================
