---------------------------- MODULE MCLazyRanges -----------------------------
\* The sources, stages and ranges that LazyRanges combines.
EXTENDS LazyRanges

Odd == [f |-> "odd"]
Below == [f |-> "below", n |-> 2]
FirstTwo == [f |-> "first", n |-> 2]
NotOne == [f |-> "skip", n |-> 1]
Half == [f |-> "half"]
Negate == [f |-> "negate"]
Number == [f |-> "number"]
Fails == [f |-> "fails", n |-> 2]
Twice == [f |-> "twice"]
UpTo == [f |-> "upto"]
Tree == [f |-> "tree"]
Never == 99
Table(v, stopAt, throwAt) == [v |-> v, stopAt |-> stopAt, throwAt |-> throwAt]

Bag == of_container(<<2, 1, 2, 3>>)
Set == of_sorted_container(<<1, 2, 2, 3>>)

\* The other sides of joins, differences, unions, products and zips.
Others == {of_sorted_container(<<2, 3>>), of_container(<<3, 2, 2>>), null,
           Then(of_container(<<0, 1>>), repeater), of_iota(1, 3)}

MCSources ==
    {Bag, Set, null, of_container(<< >>), of_optional(<<2>>), of_optional(<< >>), of_value(2, 1),
     of_lazy_value(Number, 2), of_iota(0, 4), of_iota_step(0, 5, 2), of_iota_step(3, 0, -1),
     of_iterators(<<3, 1>>), generator(Table(<<3, 0, 2>>, Never, Never)),
     keep_order_generator(Table(<<1, 1, 2>>, 2, Never)),
     conditional(TRUE, Bag, Set), conditional(FALSE, Bag, Set),
     src_zip(<<Set, Bag>>), src_zip_longest(<<of_iota(0, 2), of_value(3, 1)>>), Or(Set, Bag), And(Set, Set)}

Throwing ==
    {generator(Table(<<3, 0, 2>>, Never, t)) : t \in 0 .. 3} \cup {Then(Bag, mapping(Fails))}

Texts == {of_string_split(<<0, 1, 1, 0, 0, 2, 0>>, {0}), of_string_split(<<1, 0, 2>>, {0}),
          of_string_split(<<0, 0>>, {0})}

MCFew == {Bag, Set, null, of_iota(0, 4)}

MCStages ==
    {filter(Odd), filter(FirstTwo), take_awhile(Below), mapping(Half), keep_order_mapping(Half),
     mapping(Negate), mapping(Number), maf(NotOne, Negate), keep_order_maf(Odd, Half),
     flat_mapping(UpTo, FALSE), flat_mapping(Twice, TRUE), ordering_flat_mapping(UpTo),
     ordered_distinct, unordered_distinct, auto_distinct, repeater,
     hierarchy_deep_first(Tree), hierarchy_breadth_first(Tree)}
    \cup {parallel_sort(deal) : deal \in {<<1>>, <<1, 2>>, <<2, 2, 1>>}}
    \cup UNION {{ordered_join(r), unordered_join(r), auto_join(r), ordered_diff(r), unordered_diff(r),
                 auto_diff(r), union_merge(r), or_default(r), union_all(<<r>>), cartesian(<<r>>),
                 zip(<<r>>), zip_longest(<<r>>)} : r \in Others}
    \cup {union_all(<<null, Set>>), cartesian(<<Set, of_iota(0, 2)>>)}

MCSeconds ==
    {filter(FirstTwo), mapping(Negate), keep_order_mapping(Half), flat_mapping(Twice, TRUE),
     auto_distinct, repeater, hierarchy_breadth_first(Tree), unordered_diff(Bag), auto_join(Bag),
     auto_diff(Set), union_merge(Set), cartesian(<<Then(Bag, filter(Odd))>>), parallel_sort(<<1, 2, 2>>)}

\* Failing ranges are followed by on_exception only, and texts by a repeater.
OfFailures == {Then(lr, on_exception(alt)) : lr \in Throwing, alt \in {Bag, null}}
MCFixed == OfFailures \cup Texts \cup {Then(lr, repeater) : lr \in Texts}
=============================================================================
