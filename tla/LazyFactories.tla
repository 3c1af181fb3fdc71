---------------------------- MODULE LazyFactories ----------------------------
(***************************************************************************)
(* The factories of op/flur and the functions of flur.h that make them.    *)
(* A factory is a record whose c names it; a lazy range is a tuple of      *)
(* factories, a source followed by stages.  The functions of namespace src *)
(* give ranges and those of namespace then give stages, as in the code.    *)
(***************************************************************************)
EXTENDS LazySequences

\* lr >> t
Then(lr, t) == Append(lr, t)

of_container(v) == <<[c |-> "container", v |-> v, sorted |-> FALSE]>>

\* The same function, of a container that keeps its elements in order.
of_sorted_container(v) == <<[c |-> "container", v |-> v, sorted |-> TRUE]>>

of_optional(v) == <<[c |-> "optional", v |-> v]>>

null == <<[c |-> "null"]>>

\* The limit given is not handed over: OfValue takes its default, 1.
of_value(x, limit) == <<[c |-> "value", x |-> x, limit |-> 1]>>

of_lazy_value(g, limit) == <<[c |-> "lazy", g |-> g, limit |-> limit]>>

conditional(condition, onTrue, onFalse) ==
    <<[c |-> "proxy", instance |-> IF condition THEN onTrue ELSE onFalse]>>

of_iota(b, e) == <<[c |-> "iota", boundary |-> Boundary2(b, e)]>>

of_iota_step(b, e, step) == <<[c |-> "iota", boundary |-> Boundary3(b, e, step)]>>

of_iterators(v) == <<[c |-> "iterators", v |-> v]>>

generator(g) == <<[c |-> "generator", g |-> g, ordered |-> FALSE]>>

keep_order_generator(g) == <<[c |-> "generator", g |-> g, ordered |-> TRUE]>>

of_string_split(text, separators) ==
    <<[c |-> "split", text |-> text, separators |-> separators]>>

src_zip(lrs) == <<[c |-> "zip", longest |-> FALSE, rest |-> lrs]>>

src_zip_longest(lrs) == <<[c |-> "zip", longest |-> TRUE, rest |-> lrs]>>

\* l | r and l & r
Or(l, r) == <<[c |-> "union", rest |-> <<l, r>>]>>

And(l, r) == Then(l, [c |-> "join", right |-> r])

or_default(lr) == [c |-> "ordefault", alt |-> lr]

on_exception(lr) == [c |-> "onexcept", alt |-> lr]

mapping(g) == [c |-> "map", g |-> g, keepOrder |-> FALSE]

keep_order_mapping(g) == [c |-> "map", g |-> g, keepOrder |-> TRUE]

maf(p, g) == [c |-> "maf", p |-> p, g |-> g, keepOrder |-> FALSE]

keep_order_maf(p, g) == [c |-> "maf", p |-> p, g |-> g, keepOrder |-> TRUE]

flat_mapping(g, keepOrder) == [c |-> "flat", g |-> g, keepOrder |-> keepOrder]

ordering_flat_mapping(g) == [c |-> "orderflat", g |-> g]

parallel_sort(deal) == [c |-> "sort", deal |-> deal]

ordered_join(right) == [c |-> "join", right |-> right]

unordered_join(right) == [c |-> "unorderedjoin", right |-> right]

auto_join(right) == [c |-> "autojoin", right |-> right]

ordered_diff(right) == [c |-> "ordereddiff", right |-> right]

unordered_diff(right) == [c |-> "unordereddiff", right |-> right]

auto_diff(right) == [c |-> "autodiff", right |-> right]

union_all(lrs) == [c |-> "union", rest |-> lrs]

union_merge(right) == [c |-> "merge", rest |-> <<right>>]

filter(p) == [c |-> "filter", p |-> p]

take_awhile(p) == [c |-> "take", p |-> p]

unordered_distinct == [c |-> "unordereddistinct"]

ordered_distinct == [c |-> "ordereddistinct"]

auto_distinct == [c |-> "autodistinct"]

cartesian(lrs) == [c |-> "cartesian", rest |-> lrs]

zip(lrs) == [c |-> "zip", longest |-> FALSE, rest |-> lrs]

zip_longest(lrs) == [c |-> "zip", longest |-> TRUE, rest |-> lrs]

repeater == [c |-> "repeat"]

hierarchy_deep_first(g) == [c |-> "deep", g |-> g]

hierarchy_breadth_first(g) == [c |-> "broad", g |-> g]

=============================================================================
