----------------------------- MODULE EventSupplier -----------------------------
(***************************************************************************)
(* One event of an EventSupplier: the list of pointers to subscribers, the *)
(* sends that traverse it under a shared lock, and unsubscription, which   *)
(* is put off while an event is being delivered.                           *)
(*                                                                         *)
(* A subscription is a handle (UnsubImpl) that holds its subscriber.  The  *)
(* list keeps the subscriber's address: an unsubscription that is put off  *)
(* moves the subscriber into a handle of its own and leaves the address.   *)
(***************************************************************************)
EXTENDS Integers, Sequences, FiniteSets, Selection

CONSTANTS
  EventThread,   \* threads that send, subscribe and unsubscribe
  Subscription,  \* subscriptions
  MaxSend,       \* bound: sends
  MaxWithin      \* bound: unsubscriptions called from a handler

ASSUME EventAssumption == MaxSend \in Nat /\ MaxWithin \in Nat /\ IsFiniteSet(EventThread)

VARIABLES
  listed,     \* _subscribers, by the subscription each entry was made for
  handle,     \* where the subscriber is: "none", "own", "moved", "gone"
  owned,      \* _owned: sends that are delivering
  later,      \* _unsubscribe_later
  hasLater,   \* _has_unsubscribe_later
  sends, withins,
  act,        \* what each thread does
  freedCalled \* whether a handler was called at an address its subscriber has left

eventVars == <<listed, handle, owned, later, hasLater, sends, withins, act, freedCalled>>

NoSub == "no subscription"

ASSUME SubscriptionAssumption == NoSub \notin Subscription

Out == [pc |-> "out", at |-> 0, sub |-> NoSub, back |-> "out"]

EventsInit ==
  /\ listed = <<>>
  /\ handle = [s \in Subscription |-> "none"]
  /\ owned = 0
  /\ later = <<>>
  /\ hasLater = FALSE
  /\ sends = 0
  /\ withins = 0
  /\ act = [t \in EventThread |-> Out]
  /\ freedCalled = FALSE

\* _subscribers_acc: held shared by those who deliver, and inside their handlers.
Delivering(t) ==
  \/ act[t].pc \in {"own", "deliver", "disown", "unlock"}
  \/ act[t].pc \in {"test", "defer", "erase"} /\ act[t].back = "deliver"
ListFree == \A t \in EventThread : ~Delivering(t)

\* _unsubscribe_later_acc: held while the unsubscriptions put off are cleared.
Clearing(t) == act[t].pc \in {"clear"} \/ act[t].back = "clear"
LaterFree == \A t \in EventThread : ~Clearing(t)

Step(t, from, to) == act[t].pc = from /\ act' = [act EXCEPT ![t].pc = to]

-----------------------------------------------------------------------------
(* on and subscribe.                                                       *)

Subscribe(t, s) ==
  /\ act[t].pc = "out" /\ handle[s] = "none"
  /\ ListFree
  /\ listed' = Append(listed, s)
  /\ handle' = [handle EXCEPT ![s] = "own"]
  /\ UNCHANGED <<owned, later, hasLater, sends, withins, act, freedCalled>>

-----------------------------------------------------------------------------
(* send.                                                                   *)

SendLock(t) ==
  /\ sends < MaxSend
  /\ Step(t, "out", "own")
  /\ sends' = sends + 1
  /\ UNCHANGED <<listed, handle, owned, later, hasLater, withins, freedCalled>>

SendOwn(t) ==
  /\ act[t].pc = "own"
  /\ act' = [act EXCEPT ![t].pc = "deliver", ![t].at = 1]
  /\ owned' = owned + 1
  /\ UNCHANGED <<listed, handle, later, hasLater, sends, withins, freedCalled>>

\* The next handler is called.
SendCall(t) ==
  LET at == act[t].at
  IN  /\ act[t].pc = "deliver" /\ at <= Len(listed)
      /\ freedCalled' = (freedCalled \/ handle[listed[at]] # "own")
      /\ act' = [act EXCEPT ![t].at = @ + 1]
      /\ UNCHANGED <<listed, handle, owned, later, hasLater, sends, withins>>

\* The handler that was called last destroys a handle, its own or another's.
SendWithin(t, s) ==
  /\ act[t].pc = "deliver" /\ act[t].at > 1
  /\ withins < MaxWithin
  /\ handle[s] = "own" /\ \A u \in EventThread : act[u].sub # s
  /\ act' = [act EXCEPT ![t].pc = "test", ![t].sub = s, ![t].back = "deliver"]
  /\ withins' = withins + 1
  /\ UNCHANGED <<listed, handle, owned, later, hasLater, sends, freedCalled>>

\* No handler is left, or the last one returned false.
SendEnd(t) ==
  /\ act[t].at > 1 \/ listed = <<>>
  /\ Step(t, "deliver", "disown")
  /\ UNCHANGED <<listed, handle, owned, later, hasLater, sends, withins, freedCalled>>

SendDisown(t) ==
  /\ Step(t, "disown", "unlock")
  /\ owned' = owned - 1
  /\ UNCHANGED <<listed, handle, later, hasLater, sends, withins, freedCalled>>

SendUnlock(t) ==
  /\ act[t].pc = "unlock"
  /\ act' = [act EXCEPT ![t] = [Out EXCEPT !.pc = "look"]]
  /\ UNCHANGED <<listed, handle, owned, later, hasLater, sends, withins, freedCalled>>

SendLook(t) ==
  /\ Step(t, "look", IF hasLater THEN "lock later" ELSE "out")
  /\ UNCHANGED <<listed, handle, owned, later, hasLater, sends, withins, freedCalled>>

SendLockLater(t) ==
  /\ LaterFree
  /\ Step(t, "lock later", "clear")
  /\ UNCHANGED <<listed, handle, owned, later, hasLater, sends, withins, freedCalled>>

\* clear() destroys the handles put off, each of which unsubscribes in turn.
SendClear(t) ==
  /\ act[t].pc = "clear" /\ later # <<>>
  /\ act' = [act EXCEPT ![t].pc = "test", ![t].sub = Head(later), ![t].back = "clear"]
  /\ later' = Tail(later)
  /\ UNCHANGED <<listed, handle, owned, hasLater, sends, withins, freedCalled>>

SendCleared(t) ==
  /\ act[t].pc = "clear" /\ later = <<>>
  /\ act' = [act EXCEPT ![t] = Out]
  /\ hasLater' = FALSE
  /\ UNCHANGED <<listed, handle, owned, later, sends, withins, freedCalled>>

-----------------------------------------------------------------------------
(* _unsub, by the destructor of a handle or by unsubscribe().              *)

Unsubscribe(t, s) ==
  /\ act[t].pc = "out" /\ handle[s] = "own" /\ \A u \in EventThread : act[u].sub # s
  /\ act' = [act EXCEPT ![t] = [Out EXCEPT !.pc = "test", !.sub = s]]
  /\ UNCHANGED <<listed, handle, owned, later, hasLater, sends, withins, freedCalled>>

\* mutant: an unsubscription is never put off
UnsubTestNever(t) ==
  /\ Step(t, "test", "erase")
  /\ UNCHANGED <<listed, handle, owned, later, hasLater, sends, withins, freedCalled>>

UnsubTest(t) ==
  /\ Step(t, "test", IF owned # 0 THEN "defer" ELSE "erase")
  /\ UNCHANGED <<listed, handle, owned, later, hasLater, sends, withins, freedCalled>>

\* The call ends, or goes on with the handler or the clearing it was made from.
Return(t) == act' = [act EXCEPT ![t].pc = act[t].back, ![t].sub = NoSub, ![t].back = "out"]

\* mutant: the unsubscription is put off without a mark for the senders
UnsubDeferUnmarked(t) ==
  LET s == act[t].sub
  IN  /\ act[t].pc = "defer" /\ LaterFree
      /\ later' = Append(later, s)
      /\ handle' = [handle EXCEPT ![s] = "moved"]
      /\ Return(t)
      /\ UNCHANGED <<listed, owned, hasLater, sends, withins, freedCalled>>

\* An event is being delivered: the subscriber is moved to a new handle that the
\* next send to finish destroys.
UnsubDefer(t) ==
  LET s == act[t].sub
  IN  /\ act[t].pc = "defer" /\ LaterFree
      /\ hasLater' = TRUE
      /\ later' = Append(later, s)
      /\ handle' = [handle EXCEPT ![s] = "moved"]
      /\ Return(t)
      /\ UNCHANGED <<listed, owned, sends, withins, freedCalled>>

\* try_lock_for: the entry is erased under the unique lock, or half a second has
\* passed while others deliver and the thread looks again whether to put it off.
UnsubErase(t) ==
  LET s == act[t].sub
  IN  /\ act[t].pc = "erase" /\ ListFree
      /\ listed' = Picked(listed, {i \in DOMAIN listed : listed[i] # s})
      /\ handle' = [handle EXCEPT ![s] = "gone"]
      /\ Return(t)
      /\ UNCHANGED <<owned, later, hasLater, sends, withins, freedCalled>>

UnsubTimeout(t) ==
  /\ ~ListFree
  /\ Step(t, "erase", "test")
  /\ UNCHANGED <<listed, handle, owned, later, hasLater, sends, withins, freedCalled>>

Starts(t) == SendLock(t) \/ \E s \in Subscription :
               Subscribe(t, s) \/ Unsubscribe(t, s) \/ SendWithin(t, s)

Continues(t) ==
  \/ SendOwn(t) \/ SendCall(t) \/ SendEnd(t) \/ SendDisown(t) \/ SendUnlock(t)
  \/ SendLook(t) \/ SendLockLater(t) \/ SendClear(t) \/ SendCleared(t)
  \/ UnsubTest(t) \/ UnsubDefer(t) \/ UnsubErase(t) \/ UnsubTimeout(t)

EventsNext == \E t \in EventThread : Starts(t) \/ Continues(t)

EventsSpec == EventsInit /\ [][EventsNext]_eventVars

\* Threads are scheduled, and handlers return.
EventsFairness == \A t \in EventThread : WF_eventVars(Continues(t))

-----------------------------------------------------------------------------
(* Properties.                                                             *)

\* Every entry of the list belongs to a handle that still holds its subscriber or
\* to an unsubscription that is put off, and one that is put off is either being
\* carried out or marked, so that the next send to finish will find it.
NoSubscriptionLost ==
  /\ \A s \in Subscription :
       /\ Cardinality({i \in DOMAIN listed : listed[i] = s})
            = IF handle[s] \in {"own", "moved"} THEN 1 ELSE 0
       /\ handle[s] = "moved" <=>
            \/ \E i \in DOMAIN later : later[i] = s
            \/ \E t \in EventThread : act[t].sub = s /\ act[t].back = "clear"
  /\ later # <<>> /\ LaterFree => hasLater
  /\ owned = Cardinality({t \in EventThread : Delivering(t) /\ act[t].pc \notin {"own", "unlock"}})

\* A thread that clears the unsubscriptions put off, while another delivers an
\* event, puts them off again: it asks for the mutex that it holds.
SelfLocked == \E t \in EventThread : act[t].pc = "defer" /\ act[t].back = "clear"

\* Otherwise every call returns: a thread that unsubscribes gives way to the
\* sends, and neither of the two locks is asked for by a thread that is waited for.
EventCallsReturn ==
  \A t \in EventThread : (act[t].pc # "out") ~> (act[t].pc = "out" \/ SelfLocked)

\* What the class promises (unsubscription is safe while other threads send
\* events, and allowed from within a handler): no send calls a handler whose
\* subscriber is gone from the address in the list.  No run checks it: the code
\* does otherwise, see the README.
UnsubscribeIsSafe == ~freedCalled

=============================================================================
