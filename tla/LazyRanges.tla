----------------------------- MODULE LazyRanges ------------------------------
(***************************************************************************)
(* A lazy range at work: it is compounded into a sequence object, and the  *)
(* object is read from its start, once or again, element by element, as    *)
(* the iterator of LazyRangeIter.h and the loop of collect_result do.  The *)
(* collectors of Applicator.h consume what is read.                        *)
(***************************************************************************)
EXTENDS LazyMeaning

CONSTANTS
    Sources,    \* the lazy ranges that stages are added to
    Stages,     \* the stages tried
    Few,        \* the sources that two stages are added to
    Seconds,    \* the second stages tried
    Fixed,      \* further ranges, tried as they are
    MaxPasses   \* bound: how often a sequence object is started

VARIABLES
    range,      \* the lazy range
    seq,        \* the sequence object
    out,        \* the elements read in this pass
    passes,     \* how often the object was started
    sums        \* the state of the collectors

vars == <<range, seq, out, passes, sums>>

-----------------------------------------------------------------------------
(* The collectors.  Their numbers are exact here, so that compensations   *)
(* have nothing to compensate.                                            *)

NoSums ==
    [plain |-> 0, count |-> 0, first |-> << >>, last |-> << >>,
     pair |-> [dest |-> 0, held |-> << >>, odd |-> 0, generation |-> 0],
     kahan |-> [dest |-> 0, compensation |-> 0],
     neumaier |-> [dest |-> 0, compensation |-> 0]]

\* Sums of two, every second one in a sum of its own.
PairwiseConsume(s, x) ==
    LET held == Append(s.held, x)
        full == [s EXCEPT !.held = << >>, !.generation = @ + 1]
    IN  CASE Len(held) < 2                            -> [s EXCEPT !.held = held]
          [] Len(held) = 2 /\ s.generation % 2 = 1    -> [full EXCEPT !.dest = @ + held[1] + held[2]]
          [] Len(held) = 2 /\ s.generation % 2 = 0    -> [full EXCEPT !.odd = @ + held[1] + held[2]]

\* mutant: the element without a pair is forgotten.
PairwiseCompleteEven(s) == s.dest + s.odd

PairwiseComplete(s) == s.dest + (IF Len(s.held) = 1 THEN s.held[1] ELSE 0) + s.odd

KahanConsume(s, x) ==
    LET delta == x - s.compensation
        result == s.dest + delta
    IN  [dest |-> result, compensation |-> (result - s.dest) - delta]

Magnitude(n) == IF n < 0 THEN 0 - n ELSE n

NeumaierConsume(s, x) ==
    LET result == s.dest + x
    IN  [dest |-> result,
         compensation |-> s.compensation +
            IF Magnitude(s.dest) >= Magnitude(x) THEN (s.dest - result) + x
            ELSE (x - result) + s.dest]

NeumaierComplete(s) == s.dest + s.compensation

\* Texts are not summed.
Textual(lr) == lr[1].c = "split"

Drain(taken, x) == Append(taken, x)

SumConsume(dest, x) == dest + x

CountConsume(n) == n + 1

\* First only reads the sequence that was started.
FirstComplete(q) == IF InRange(q) THEN <<Current(q)>> ELSE << >>

LastConsume(x) == <<x>>

Consume(s, x) ==
    [s EXCEPT !.plain = SumConsume(@, x),
              !.count = CountConsume(@),
              !.last = LastConsume(x),
              !.pair = PairwiseConsume(@, x),
              !.kahan = KahanConsume(@, x),
              !.neumaier = NeumaierConsume(@, x)]

-----------------------------------------------------------------------------
\* A repeater keeps what its first pass reads, so that pass is not left early.
RECURSIVE Repeats(_)
Repeats(lr) ==
    \E f \in ToSet(lr) :
        \/ f.c = "repeat"
        \/ "rest" \in DOMAIN f /\ \E i \in DOMAIN f.rest : Repeats(f.rest[i])
        \/ "right" \in DOMAIN f /\ Repeats(f.right)
        \/ "alt" \in DOMAIN f /\ Repeats(f.alt)

\* What the code asserts, or throws for: the algorithms for ordered sequences
\* ask for order.
Admits(lr, f) ==
    CASE f.c \in {"join", "ordereddiff"} -> Ordered(Compound(lr)) /\ Ordered(Compound(f.right))
      [] f.c = "merge"                  -> Ordered(Compound(lr)) /\ Ordered(Compound(f.rest[1]))
      [] f.c = "ordereddistinct"        -> Ordered(Compound(lr))
      [] OTHER                          -> TRUE

Stagings(lrs, stages) == {s \in lrs \X stages : Admits(s[1], s[2])}

Extended(lrs, stages) == {Then(s[1], s[2]) : s \in Stagings(lrs, stages)}

Init ==
    /\ \/ range \in Fixed \cup Sources
       \/ \E s \in Stagings(Sources, Stages) : range = Then(s[1], s[2])
       \/ \E s \in Stagings(Extended(Few, Stages), Seconds) : range = Then(s[1], s[2])
    /\ seq = Compound(range)
    /\ out = << >>
    /\ passes = 0
    /\ sums = NoSums

\* begin() of a range, or a new pass over the object.
Begin ==
    /\ passes < MaxPasses
    /\ Repeats(range) /\ passes > 0 => ~ InRange(seq)
    /\ seq' = Observed(Start(seq))
    /\ out' = << >>
    /\ passes' = passes + 1
    /\ sums' = [NoSums EXCEPT !.first = FirstComplete(seq')]
    /\ UNCHANGED range

\* The iterator is read and advanced, and the collectors consume the element.
Take ==
    /\ passes > 0
    /\ InRange(seq)
    /\ out' = Drain(out, Current(seq))
    /\ sums' = IF Textual(range) THEN sums ELSE Consume(sums, Current(seq))
    /\ seq' = Observed(Next(seq))
    /\ UNCHANGED <<range, passes>>

Steps == Begin \/ Take

Spec == Init /\ [][Steps]_vars

-----------------------------------------------------------------------------
(* In every pass, however the one before it was left, the object shows    *)
(* exactly the elements that the range denotes, in their order, and ends  *)
(* with them: no stage loses its place, skips or repeats an element, or   *)
(* keeps something of an earlier pass.                                    *)
RangeIsDenoted ==
    passes > 0 =>
        LET m == Meaning(range)
        IN  /\ IsPrefix(out, m)
            /\ InRange(seq) <=> Len(out) < Len(m)
            /\ InRange(seq) => Current(seq) = m[Len(out) + 1]

(* Joins, differences and distinct choose their algorithm by what a       *)
(* sequence says of its order: one that says it is ordered shows its      *)
(* elements in ascending order.                                           *)
OrderedTold == passes > 0 /\ Ordered(seq) => IsAscending(out)

(* At the end of a pass the collectors have the count, the first and last *)
(* elements and the sum of what the range denotes; the pairwise and       *)
(* compensated sums lose none of it.                                      *)
CollectorsAgree ==
    passes > 0 /\ ~ InRange(seq) /\ ~ Textual(range) =>
        LET m == Meaning(range)
            total == FoldLeft(LAMBDA acc, x : acc + x, 0, m)
        IN  /\ sums.count = Len(m)
            /\ sums.first = SubSeq(m, 1, Least({1, Len(m)}))
            /\ sums.last = (IF m = << >> THEN << >> ELSE <<Last(m)>>)
            /\ {sums.plain, PairwiseComplete(sums.pair), sums.kahan.dest,
                NeumaierComplete(sums.neumaier)} = {total}
=============================================================================
