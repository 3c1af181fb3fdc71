------------------------------ MODULE AtomicList ------------------------------
(***************************************************************************)
(* The list that grows at its tail without a lock (AppendAtomicList).      *)
(*                                                                         *)
(* A node is the number of its append.  A place is where a node's address  *)
(* may stand: place 0 is the head, place n the field _next of node n.      *)
(* Grain of atomicity: one access to an atomic pointer.                    *)
(***************************************************************************)
EXTENDS Integers, Sequences, FiniteSets, Selection

CONSTANTS
  Appender,    \* threads that append, each of them once
  Reader,      \* threads that iterate from begin() to end(), each of them once
  MaxRemove,   \* bound: calls of remove, by one thread as the class demands
  RemoveLast   \* whether remove is called for a node that has no successor yet

ASSUME ListAssumption ==
  IsFiniteSet(Appender) /\ RemoveLast \in BOOLEAN /\ MaxRemove \in Nat

NodeId == 1 .. Cardinality(Appender)
Null == 0
HeadPlace == 0
NoPlace == -1

VARIABLES
  next,       \* the node whose address stands at each place, or Null
  last,       \* _last: the place the next node's address will be stored at
  order,      \* the nodes in the order in which append exchanged _last
  freed,      \* nodes deleted by remove
  append,     \* pc, new node and previous place of each appending thread
  remove,     \* the call of remove: pc, place and values loaded
  removes,    \* calls of remove so far
  reader,     \* each iteration: pc, position, end
  touched     \* whether a freed node was written, and whether one was read

listVars == <<next, last, order, freed, append, remove, removes, reader, touched>>

NotAppending == [pc |-> "idle", node |-> Null, prev |-> NoPlace]
NotRemoving == [pc |-> "idle", place |-> NoPlace, node |-> Null, after |-> Null]
NotReading == [pc |-> "idle", at |-> NoPlace, stop |-> NoPlace]

ListInit ==
  /\ next = [p \in {HeadPlace} \cup NodeId |-> Null]
  /\ last = HeadPlace
  /\ order = <<>>
  /\ freed = {}
  /\ append = [t \in Appender |-> NotAppending]
  /\ remove = NotRemoving
  /\ removes = 0
  /\ reader = [r \in Reader |-> NotReading]
  /\ touched = {}

Touch(place, how) == touched' = IF place \in freed THEN touched \cup {how} ELSE touched

-----------------------------------------------------------------------------
(* append.                                                                 *)

\* The node is allocated and _last loaded.
AppendStart(t) ==
  /\ append[t].pc = "idle"
  /\ append' = [append EXCEPT ![t] =
       [pc |-> "exchange",
        node |-> 1 + Cardinality({u \in Appender : append[u].node # Null}),
        prev |-> last]]
  /\ UNCHANGED <<next, last, order, freed, remove, removes, reader, touched>>

\* mutant: the exchange is a plain store that another append may overtake
AppendExchangeUnchecked(t) ==
  LET a == append[t]
  IN  /\ a.pc = "exchange"
      /\ last' = a.node
      /\ order' = Append(order, a.node)
      /\ append' = [append EXCEPT ![t].pc = "link"]
      /\ UNCHANGED <<next, freed, remove, removes, reader, touched>>

\* compare_exchange_weak: on failure the place found is taken for the next try.
AppendExchange(t) ==
  LET a == append[t]
  IN  /\ a.pc = "exchange"
      /\ IF last = a.prev
           THEN /\ last' = a.node
                /\ order' = Append(order, a.node)
                /\ append' = [append EXCEPT ![t].pc = "link"]
           ELSE /\ append' = [append EXCEPT ![t].prev = last]
                /\ UNCHANGED <<last, order>>
      /\ UNCHANGED <<next, freed, remove, removes, reader, touched>>

\* The list is in two parts until the address is stored at the previous place.
AppendLink(t) ==
  LET a == append[t]
  IN  /\ a.pc = "link"
      /\ next' = [next EXCEPT ![a.prev] = a.node]
      /\ Touch(a.prev, "written")
      /\ append' = [append EXCEPT ![t].pc = "done"]
      /\ UNCHANGED <<last, order, freed, remove, removes, reader>>

-----------------------------------------------------------------------------
(* remove, of the node whose address stands at a place the caller reached. *)

\* The nodes that a walk from the head finds within k steps, and all that it finds:
\* there are no more than those appended.
Walk[k \in Nat] ==
  IF k = 0 THEN <<>>
  ELSE LET found == Walk[k - 1]
           node == next[IF found = <<>> THEN HeadPlace ELSE found[Len(found)]]
       IN  IF node = Null THEN found ELSE Append(found, node)
Reached == Walk[Cardinality(NodeId)]
ReachedPlace == {HeadPlace} \cup {Reached[i] : i \in DOMAIN Reached}

RemoveStart ==
  /\ remove.pc = "idle" /\ removes < MaxRemove
  /\ \A r \in Reader : reader[r].pc \in {"idle", "done"}
  /\ \E place \in ReachedPlace :
       /\ next[place] # Null
       /\ ~RemoveLast => next[next[place]] # Null
       /\ remove' = [pc |-> "next", place |-> place, node |-> next[place], after |-> Null]
  /\ removes' = removes + 1
  /\ UNCHANGED <<next, last, order, freed, append, reader, touched>>

RemoveNext ==
  /\ remove.pc = "next"
  /\ remove' = [remove EXCEPT !.pc = "exchange", !.after = next[remove.node]]
  /\ UNCHANGED <<next, last, order, freed, append, removes, reader, touched>>

\* compare_exchange_strong: if the node was the last, its place no longer is.
RemoveExchange ==
  /\ remove.pc = "exchange"
  /\ last' = IF last = remove.node THEN remove.place ELSE last
  /\ remove' = [remove EXCEPT !.pc = "relink"]
  /\ UNCHANGED <<next, order, freed, append, removes, reader, touched>>

RemoveRelink ==
  /\ remove.pc = "relink"
  /\ next' = [next EXCEPT ![remove.place] = remove.after]
  /\ remove' = [remove EXCEPT !.pc = "delete"]
  /\ UNCHANGED <<last, order, freed, append, removes, reader, touched>>

RemoveDelete ==
  /\ remove.pc = "delete"
  /\ freed' = freed \cup {remove.node}
  /\ remove' = NotRemoving
  /\ UNCHANGED <<next, last, order, append, removes, reader, touched>>

\* clear, which nothing may overlap.
ClearList ==
  /\ removes < MaxRemove /\ remove.pc = "idle"
  /\ \A t \in Appender : append[t].pc \in {"idle", "done"}
  /\ \A r \in Reader : reader[r].pc \in {"idle", "done"}
  /\ freed' = freed \cup {Reached[i] : i \in DOMAIN Reached}
  /\ last' = HeadPlace
  /\ next' = [next EXCEPT ![HeadPlace] = Null]
  /\ removes' = removes + 1
  /\ UNCHANGED <<order, append, remove, reader, touched>>

-----------------------------------------------------------------------------
(* Iteration, while nothing is removed.                                    *)

ReadBegin(r) ==
  /\ reader[r].pc = "idle" /\ remove.pc = "idle"
  /\ reader' = [reader EXCEPT ![r] = [pc |-> "read", at |-> HeadPlace, stop |-> last]]
  /\ UNCHANGED <<next, last, order, freed, append, remove, removes, touched>>

\* operator++ loads the node at the position and stands at its place; at a node
\* whose append has not stored its address there is nothing to load.
ReadNext(r) ==
  LET at == reader[r].at
  IN  /\ reader[r].pc = "read"
      /\ reader' = [reader EXCEPT ![r] =
           IF at = reader[r].stop THEN [reader[r] EXCEPT !.pc = "done"]
           ELSE IF next[at] = Null THEN [reader[r] EXCEPT !.pc = "null"]
           ELSE [reader[r] EXCEPT !.at = next[at]]]
      /\ Touch(at, "read")
      /\ UNCHANGED <<next, last, order, freed, append, remove, removes>>

ListNext ==
  \/ \E t \in Appender : AppendStart(t) \/ AppendExchange(t) \/ AppendLink(t)
  \/ RemoveStart \/ RemoveNext \/ RemoveExchange \/ RemoveRelink \/ RemoveDelete
  \/ ClearList
  \/ \E r \in Reader : ReadBegin(r) \/ ReadNext(r)

ListSpec == ListInit /\ [][ListNext]_listVars

-----------------------------------------------------------------------------
(* Properties.                                                             *)

KeptPlaces == {i \in DOMAIN order : /\ order[i] \notin freed
                                    /\ ~(remove.pc = "delete" /\ remove.node = order[i])}
Kept == Picked(order, KeptPlaces)

\* A walk from the head finds the nodes that are not removed in the order of
\* their appends, all of them up to the first whose append has yet to link it,
\* and never a freed one; when no append is in between, that is all of them and
\* the tail stands behind the last.
ListWhole ==
  LET linking == {append[t].node : t \in {u \in Appender : append[u].pc = "link"}}
      found == Reached
  IN  /\ touched = {}
      /\ Len(found) <= Len(Kept) /\ found = SubSeq(Kept, 1, Len(found))
      /\ Len(found) < Len(Kept) => Kept[Len(found) + 1] \in linking
      /\ linking = {} /\ remove.pc = "idle" => last = IF Kept = <<>> THEN HeadPlace ELSE Kept[Len(Kept)]

=============================================================================
