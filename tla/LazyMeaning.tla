----------------------------- MODULE LazyMeaning -----------------------------
(***************************************************************************)
(* What a lazy range denotes, without cursors: the sequence of its         *)
(* elements, said factory by factory.  This is the reference that the      *)
(* cursors of LazySequences are compared with.                             *)
(***************************************************************************)
EXTENDS LazyFactories

Least(S) == CHOOSE n \in S : \A m \in S : n <= m
Greatest(S) == CHOOSE n \in S : \A m \in S : n >= m

\* Numbers in ascending order.
Ascending(m) == SortSeq(m, LAMBDA a, b : a < b)

IsAscending(m) == \A i \in 1 .. Len(m) - 1 : m[i] <= m[i + 1]

\* How often x is among the first n elements of m.
Times(m, n, x) == Cardinality({i \in 1 .. n : m[i] = x})

\* The elements of m at the positions of S.
Keep(m, S) ==
    LET at == SelectSeq([i \in DOMAIN m |-> i], LAMBDA i : i \in S)
    IN  [n \in DOMAIN at |-> m[at[n]]]

\* The longest prefix of m whose elements satisfy p.
While(m, p) ==
    LET bad == {i \in DOMAIN m : ~ Ask(p, m[i], NoState).ok}
    IN  IF bad = {} THEN m ELSE SubSeq(m, 1, Least(bad) - 1)

Selected(m, p) ==
    IF p.f = "first" THEN SubSeq(m, 1, Least({p.n, Len(m)}))
    ELSE SelectSeq(m, LAMBDA x : Ask(p, x, NoState).ok)

\* Every choice of one element from each sequence, the first varying fastest.
RECURSIVE Product(_)
Product(ms) ==
    IF ms = << >> THEN << << >> >>
    ELSE LET others == Product(Tail(ms))
         IN  FlattenSeq([j \in DOMAIN others |->
                 [i \in DOMAIN ms[1] |-> <<ms[1][i]>> \o others[j]]])

Combined(tuples) == [i \in DOMAIN tuples |-> Combine(tuples[i])]

Zipped(ms, longest) ==
    LET lengths == {Len(ms[i]) : i \in DOMAIN ms}
    IN  Combined([n \in 1 .. IF longest THEN Greatest(lengths) ELSE Least(lengths) |->
                    [i \in DOMAIN ms |-> IF n <= Len(ms[i]) THEN ms[i][n] ELSE Absent]])

\* The maximal runs of characters that are not separators.
Words(text, separators) ==
    LET Free(i) == i \in DOMAIN text /\ text[i] \notin separators
        starts == {i \in DOMAIN text : Free(i) /\ ~ Free(i - 1)}
        End(i) == Greatest({j \in i .. Len(text) : \A n \in i .. j : Free(n)})
    IN  Keep([i \in DOMAIN text |-> IF i \in starts THEN SubSeq(text, i, End(i)) ELSE << >>],
             starts)

\* The descendants of the nodes m: each followed by its own, or level by level.
RECURSIVE Preorder(_, _)
Preorder(g, m) ==
    FlattenSeq([i \in DOMAIN m |-> <<m[i]>> \o Preorder(g, Children(g, m[i]))])

Offspring(g, m) == FlattenSeq([i \in DOMAIN m |-> Children(g, m[i])])

RECURSIVE Levels(_, _)
Levels(g, m) == IF m = << >> THEN << >> ELSE m \o Levels(g, Offspring(g, m))

\* A sequence up to the failure in it, then the alternative.
UpToFailure(m, alt) ==
    LET failures == {i \in DOMAIN m : m[i] = Throws}
    IN  IF failures = {} THEN m ELSE SubSeq(m, 1, Least(failures) - 1) \o alt

-----------------------------------------------------------------------------
RECURSIVE Meaning(_)

Meanings(lrs) == [i \in DOMAIN lrs |-> Meaning(lrs[i])]

IotaMeaning(b) ==
    LET span == IF b.step > 0 THEN b.end - b.begin ELSE b.begin - b.end
        size == IF b.step > 0 THEN b.step ELSE 0 - b.step
    IN  [i \in 1 .. span \div size |-> b.begin + (i - 1) * b.step]

GeneratorMeaning(g) ==
    LET shown == SubSeq(g.v, 1, Least({Len(g.v), g.stopAt, g.throwAt}))
    IN  IF g.throwAt <= Len(shown) THEN Append(shown, Throws) ELSE shown

SourceMeaning(f) ==
    CASE f.c \in {"container", "iterators", "optional"} -> f.v
      [] f.c = "null"      -> << >>
      [] f.c = "value"     -> [i \in 1 .. f.limit |-> f.x]
      [] f.c = "lazy"      -> [i \in 1 .. f.limit |->
                                 Mapped(f.g, f.limit, [NoState EXCEPT !.step = i - 1])]
      [] f.c = "iota"      -> IotaMeaning(f.boundary)
      [] f.c = "generator" -> GeneratorMeaning(f.g)
      [] f.c = "split"     -> Words(f.text, f.separators)
      [] f.c = "proxy"     -> Meaning(f.instance)
      [] f.c = "zip"       -> Zipped(Meanings(f.rest), f.longest)
      [] f.c = "union"     -> FlattenSeq(Meanings(f.rest))

In(m, n) == SelectSeq(m, LAMBDA x : x \in ToSet(n))

\* One element of n hides one element of m.
Minus(m, n) == Keep(m, {i \in DOMAIN m : Times(m, i, m[i]) > Times(n, Len(n), m[i])})

FirstOccurrences(m) == Keep(m, {i \in DOMAIN m : Times(m, i, m[i]) = 1})

\* lr is the range that the stage f follows, m what it denotes.
StageMeaning(lr, m, f) ==
    CASE f.c = "filter"    -> Selected(m, f.p)
      [] f.c = "take"      -> While(m, f.p)
      [] f.c = "map"       -> [i \in DOMAIN m |-> Mapped(f.g, m[i], [NoState EXCEPT !.step = i - 1])]
      [] f.c = "maf"       -> LET kept == Selected(m, f.p)
                              IN  [i \in DOMAIN kept |-> Mapped(f.g, kept[i], NoState)]
      [] f.c = "flat"      -> Offspring(f.g, m)
      [] f.c = "orderflat" -> Ascending(Offspring(f.g, m))
      [] f.c = "sort"      -> Ascending(m)
      [] f.c \in {"join", "unorderedjoin"} -> In(m, Meaning(f.right))
      [] f.c = "autojoin"  -> IF Ordered(Compound(f.right)) /\ ~ Ordered(Compound(lr))
                              THEN In(Meaning(f.right), m) ELSE In(m, Meaning(f.right))
      [] f.c \in {"ordereddiff", "unordereddiff", "autodiff"} -> Minus(m, Meaning(f.right))
      [] f.c \in {"ordereddistinct", "unordereddistinct", "autodistinct"} -> FirstOccurrences(m)
      [] f.c = "union"     -> m \o FlattenSeq(Meanings(f.rest))
      [] f.c = "merge"     -> Ascending(m \o FlattenSeq(Meanings(f.rest)))
      [] f.c = "cartesian" -> Combined(Product(<<m>> \o Meanings(f.rest)))
      [] f.c = "zip"       -> Zipped(<<m>> \o Meanings(f.rest), f.longest)
      [] f.c = "ordefault" -> IF m = << >> THEN Meaning(f.alt) ELSE m
      [] f.c = "onexcept"  -> UpToFailure(m, Meaning(f.alt))
      [] f.c = "repeat"    -> m
      [] f.c = "deep"      -> Preorder(f.g, Offspring(f.g, m))
      [] f.c = "broad"     -> Levels(f.g, Offspring(f.g, m))

Meaning(lr) ==
    IF Len(lr) = 1 THEN SourceMeaning(lr[1])
    ELSE StageMeaning(Front(lr), Meaning(Front(lr)), Last(lr))
=============================================================================
