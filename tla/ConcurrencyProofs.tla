------------------------- MODULE ConcurrencyProofs -------------------------
(***************************************************************************)
(* Theorems about the three utilities that threads share, for any number   *)
(* of threads and calls: no subscription of EventSupplier is lost, the     *)
(* counters of ThreadPool settle, the list of AtomicList is whole.  The    *)
(* three share nothing; each part below begins with its invariant.         *)
(***************************************************************************)
EXTENDS EventSupplier, ThreadPool, AtomicList, CommonLemmas

(***************************************************************************)
(* Proofs about EventSupplier: no subscription is lost, whatever number of *)
(* threads subscribe, send and unsubscribe, from handlers too.             *)
(*                                                                         *)
(* The invariant says in one place what each step relies on: a handle is   *)
(* at the disposal of one call at most (OneCall), a call that clears has   *)
(* its subscription from the list of those put off, any other call from    *)
(* the program (CallOK), and the list of subscribers and that of the       *)
(* unsubscriptions put off repeat nothing (NoRepeats) and agree with the   *)
(* handles (Handles).                                                      *)
(***************************************************************************)
Unsubscribes == {"test", "defer", "erase"}
ActT == [pc : {"out", "own", "deliver", "disown", "unlock", "look", "lock later", "clear"}
                \cup Unsubscribes,
         at : Nat, sub : Subscription \cup {NoSub}, back : {"out", "deliver", "clear"}]

EventType ==
  /\ listed \in Seq(Subscription) /\ later \in Seq(Subscription)
  /\ handle \in [Subscription -> {"none", "own", "moved", "gone"}]
  /\ owned \in Nat /\ hasLater \in BOOLEAN
  /\ act \in [EventThread -> ActT]

Listed(s) == \E i \in DOMAIN listed : listed[i] = s
PutOff(s) == \E i \in DOMAIN later : later[i] = s
Clears(s) == \E t \in EventThread : act[t].sub = s /\ act[t].back = "clear"

\* A call has a subscription while it unsubscribes.
CallOK(t) ==
  /\ act[t].pc \in Unsubscribes <=> act[t].sub # NoSub
  /\ act[t].back # "out" => act[t].pc \in Unsubscribes
  /\ act[t].sub # NoSub =>
       /\ handle[act[t].sub] = IF act[t].back = "clear" THEN "moved" ELSE "own"
       /\ ~PutOff(act[t].sub)

OneCall ==
  \A t, u \in EventThread : t # u /\ act[t].sub # NoSub => act[t].sub # act[u].sub

NoRepeats ==
  /\ \A i, j \in DOMAIN listed : listed[i] = listed[j] => i = j
  /\ \A i, j \in DOMAIN later : later[i] = later[j] => i = j

Handles ==
  \A s \in Subscription : /\ Listed(s) <=> handle[s] \in {"own", "moved"}
                          /\ handle[s] = "moved" <=> PutOff(s) \/ Clears(s)

Marked == later # <<>> /\ LaterFree => hasLater

Busy(t) == Delivering(t) /\ act[t].pc \notin {"own", "unlock"}
Sending == {t \in EventThread : Busy(t)}

EventInv ==
  /\ EventType
  /\ \A t \in EventThread : CallOK(t)
  /\ OneCall /\ NoRepeats /\ Handles /\ Marked
  /\ owned = Cardinality(Sending)

-----------------------------------------------------------------------------
(* Steps that leave the lists and the handles alone.                       *)

LEMMA SendingIs ==
  ASSUME NEW t \in EventThread
  PROVE  /\ IsFiniteSet(Sending) /\ Cardinality(Sending) \in Nat
         /\ Cardinality(Sending \ {t}) = Cardinality(Sending) - (IF Busy(t) THEN 1 ELSE 0)
         /\ Cardinality(Sending \cup {t}) = Cardinality(Sending) + (IF Busy(t) THEN 0 ELSE 1)
<1>1. IsFiniteSet(Sending) /\ Cardinality(Sending) \in Nat
  <2>1. IsFiniteSet(Sending)
    BY EventAssumption, FS_Subset DEF Sending
  <2> QED
    BY <2>1, FS_CardinalityType
<1>2. t \in Sending <=> Busy(t)
  BY DEF Sending
<1>3. Cardinality(Sending \ {t}) = IF t \in Sending THEN Cardinality(Sending) - 1 ELSE Cardinality(Sending)
  BY <1>1, FS_RemoveElement
<1>4. Cardinality(Sending \cup {t}) = IF t \in Sending THEN Cardinality(Sending) ELSE Cardinality(Sending) + 1
  BY <1>1, FS_AddElement
<1> QED
  BY <1>1, <1>2, <1>3, <1>4

\* One thread moves, and the others stay where they are.
Alone(t) == act' \in [EventThread -> ActT] /\ \A u \in EventThread \ {t} : act'[u] = act[u]

LEMMA SendingMoves ==
  ASSUME NEW t \in EventThread, Alone(t)
  PROVE  Sending' = IF Busy(t)' THEN Sending \cup {t} ELSE Sending \ {t}
<1>1. \A u \in EventThread \ {t} : Busy(u)' <=> Busy(u)
  BY DEF Alone, Busy, Delivering
<1> QED
  BY <1>1 DEF Sending

\* A send or an unsubscription goes on, without another subscription.
LEMMA MoveStep ==
  ASSUME EventInv, NEW t \in EventThread, Alone(t), UNCHANGED <<listed, handle, later>>,
         act'[t].sub = act[t].sub, act'[t].back = act[t].back,
         act'[t].pc \in Unsubscribes <=> act[t].pc \in Unsubscribes,
         \/ Clearing(t) => Clearing(t)' 
         \/ later = <<>>,
         hasLater' \in BOOLEAN, hasLater' = hasLater \/ later = <<>>,
         owned' = owned + (IF Busy(t)' THEN 1 ELSE 0) - (IF Busy(t) THEN 1 ELSE 0)
  PROVE  EventInv'
<1>1. /\ \A u \in EventThread : act'[u].sub = act[u].sub /\ act'[u].back = act[u].back
      /\ \A u \in EventThread : act'[u].pc \in Unsubscribes <=> act[u].pc \in Unsubscribes
  BY DEF Alone
<1>2. \A u \in EventThread : CallOK(u)'
  BY <1>1 DEF EventInv, CallOK, PutOff
<1>3. OneCall' /\ NoRepeats' /\ Handles'
  BY <1>1 DEF EventInv, OneCall, NoRepeats, Handles, Listed, PutOff, Clears
<1>4. Marked'
  BY DEF EventInv, Marked, LaterFree, Alone, Clearing
<1>5. owned' = Cardinality(Sending)' /\ owned' \in Nat
  <2>1. Sending' = IF Busy(t)' THEN Sending \cup {t} ELSE Sending \ {t}
    BY SendingMoves
  <2>2. Cardinality(Sending') = owned + (IF Busy(t)' THEN 1 ELSE 0) - (IF Busy(t) THEN 1 ELSE 0)
    <3>1. owned = Cardinality(Sending) /\ Cardinality(Sending) \in Nat
      BY SendingIs DEF EventInv
    <3>2. /\ Cardinality(Sending \ {t}) = Cardinality(Sending) - (IF Busy(t) THEN 1 ELSE 0)
          /\ Cardinality(Sending \cup {t}) = Cardinality(Sending) + (IF Busy(t) THEN 0 ELSE 1)
      BY SendingIs
    <3>3. CASE Busy(t)'
      BY <2>1, <3>1, <3>2, <3>3
    <3>4. CASE ~Busy(t)'
      BY <2>1, <3>1, <3>2, <3>4
    <3> QED
      BY <3>3, <3>4
  <2>3. Cardinality(Sending') \in Nat
    <3>1. IsFiniteSet(Sending \cup {t}) /\ IsFiniteSet(Sending \ {t})
      BY SendingIs, FS_AddElement, FS_RemoveElement
    <3>2. IsFiniteSet(Sending')
      BY <2>1, <3>1
    <3> QED
      BY <3>2, FS_CardinalityType
  <2> QED
    BY <2>2, <2>3
<1> QED
  BY <1>2, <1>3, <1>4, <1>5 DEF EventInv, EventType, Alone

LEMMA OutIs == Out \in ActT /\ Out.pc = "out" /\ Out.sub = NoSub /\ Out.back = "out"
BY DEF Out, ActT

LEMMA SendSteps ==
  ASSUME EventInv, NEW t \in EventThread,
         \/ SendLock(t) \/ SendOwn(t) \/ SendCall(t) \/ SendEnd(t) \/ SendDisown(t)
         \/ SendUnlock(t) \/ SendLook(t) \/ SendLockLater(t) \/ SendCleared(t)
         \/ UnsubTest(t) \/ UnsubTimeout(t)
  PROVE  EventInv'
<1>1. act \in [EventThread -> ActT] /\ act[t] \in ActT /\ CallOK(t) /\ owned \in Nat
      /\ hasLater \in BOOLEAN
  BY DEF EventInv, EventType
<1>2. CASE \/ SendLock(t) \/ SendEnd(t) \/ SendLook(t) \/ SendLockLater(t)
           \/ UnsubTest(t) \/ UnsubTimeout(t)
  <2>1. PICK from, to : Step(t, from, to)
                        /\ <<from, to>> \in {<<"out", "own">>, <<"deliver", "disown">>,
                             <<"look", "lock later">>, <<"look", "out">>, <<"lock later", "clear">>,
                             <<"test", "defer">>, <<"test", "erase">>, <<"erase", "test">>}
    <3>1. CASE SendLock(t)
      BY <3>1 DEF SendLock
    <3>2. CASE SendEnd(t)
      BY <3>2 DEF SendEnd
    <3>3. CASE SendLook(t)
      BY <3>3 DEF SendLook
    <3>4. CASE SendLockLater(t)
      BY <3>4 DEF SendLockLater
    <3>5. CASE UnsubTest(t)
      BY <3>5 DEF UnsubTest
    <3>6. CASE UnsubTimeout(t)
      BY <3>6 DEF UnsubTimeout
    <3> QED
      BY <1>2, <3>1, <3>2, <3>3, <3>4, <3>5, <3>6
  <2>2. act' = [act EXCEPT ![t].pc = to] /\ act[t].pc = from
    BY <2>1 DEF Step
  <2>3. /\ Alone(t) /\ act'[t].sub = act[t].sub /\ act'[t].back = act[t].back /\ act'[t].pc = to
    BY <1>1, <2>1, <2>2 DEF Alone, ActT, Unsubscribes
  <2>4. Busy(t)' <=> Busy(t)
    BY <1>1, <2>1, <2>2, <2>3 DEF Busy, Delivering
  <2>5. Clearing(t) => Clearing(t)'
    BY <1>1, <2>1, <2>2, <2>3 DEF Clearing, CallOK, Unsubscribes
  <2>6. UNCHANGED <<listed, handle, later, hasLater, owned>>
    BY <1>2 DEF SendLock, SendEnd, SendLook, SendLockLater, UnsubTest, UnsubTimeout
  <2>7. to \in Unsubscribes <=> from \in Unsubscribes
    BY <2>1 DEF Unsubscribes
  <2> QED
    BY <1>1, <2>2, <2>3, <2>4, <2>5, <2>6, <2>7, MoveStep
<1>3. CASE SendOwn(t) \/ SendCall(t) \/ SendDisown(t) \/ SendUnlock(t) \/ SendCleared(t)
  <2>1. /\ act[t].pc \in {"own", "deliver", "disown", "unlock", "clear"}
        /\ act[t].back = "out" /\ act[t].sub = NoSub
    BY <1>1, <1>3 DEF SendOwn, SendCall, SendDisown, SendUnlock, SendCleared, Step, CallOK, Unsubscribes
  <2>2. /\ Busy(t) <=> act[t].pc \in {"deliver", "disown"}
        /\ Clearing(t) <=> act[t].pc = "clear"
    BY <1>1, <2>1 DEF Busy, Delivering, Clearing
  <2>3. SUFFICES ASSUME /\ Alone(t) /\ act'[t].back = "out" /\ act'[t].sub = NoSub
                        /\ \/ <<act[t].pc, act'[t].pc>> = <<"own", "deliver">>
                              /\ owned' = owned + 1 /\ hasLater' = hasLater
                           \/ <<act[t].pc, act'[t].pc>> = <<"deliver", "deliver">>
                              /\ owned' = owned /\ hasLater' = hasLater
                           \/ <<act[t].pc, act'[t].pc>> = <<"disown", "unlock">>
                              /\ owned' = owned - 1 /\ hasLater' = hasLater
                           \/ <<act[t].pc, act'[t].pc>> = <<"unlock", "look">>
                              /\ owned' = owned /\ hasLater' = hasLater
                           \/ <<act[t].pc, act'[t].pc>> = <<"clear", "out">>
                              /\ owned' = owned /\ hasLater' = FALSE /\ later = <<>>
                        /\ UNCHANGED <<listed, handle, later>>
                 PROVE  EventInv'
    <3>1. CASE SendOwn(t)
      BY <1>1, <2>1, <3>1, <2>3 DEF SendOwn, Alone, ActT
    <3>2. CASE SendCall(t)
      <4>1. act' = [act EXCEPT ![t].at = @ + 1] /\ UNCHANGED <<listed, handle, later, owned, hasLater>>
            /\ act[t].pc = "deliver"
        BY <3>2 DEF SendCall
      <4>2. act[t].at + 1 \in Nat
        <5>1. act[t].at \in Nat
          BY <1>1 DEF ActT
        <5> QED
          BY <5>1
      <4>3. /\ Alone(t) /\ act'[t].pc = act[t].pc /\ act'[t].back = act[t].back
            /\ act'[t].sub = act[t].sub
        BY <1>1, <4>1, <4>2 DEF Alone, ActT
      <4> QED
        BY <2>1, <4>1, <4>3, <2>3
    <3>3. CASE SendDisown(t)
      BY <1>1, <2>1, <3>3, <2>3 DEF SendDisown, Step, Alone, ActT
    <3>4. CASE SendUnlock(t)
      BY <1>1, <2>1, <3>4, <2>3 DEF SendUnlock, Alone, ActT, Out
    <3>5. CASE SendCleared(t)
      BY <1>1, <2>1, <3>5, <2>3 DEF SendCleared, Alone, ActT, Out
    <3> QED
      BY <1>3, <3>1, <3>2, <3>3, <3>4, <3>5
  <2>4. Busy(t)' <=> act'[t].pc \in {"deliver", "disown"}
    BY <2>3 DEF Busy, Delivering
  <2>5. act'[t].pc \notin Unsubscribes /\ act[t].pc \notin Unsubscribes
    BY <2>3 DEF Unsubscribes
  <2>6. (Clearing(t) => later = <<>>) /\ hasLater' \in BOOLEAN /\ (hasLater' = hasLater \/ later = <<>>)
    BY <1>1, <2>2, <2>3
  <2>7. owned' = owned + (IF Busy(t)' THEN 1 ELSE 0) - (IF Busy(t) THEN 1 ELSE 0)
    BY <1>1, <2>2, <2>3, <2>4
  <2> QED
    BY <2>1, <2>3, <2>5, <2>6, <2>7, MoveStep
<1> QED
  BY <1>2, <1>3


-----------------------------------------------------------------------------
(* Unsubscriptions.                                                        *)

\* A call takes up a subscription that no other call has.
LEMMA TakeStep ==
  ASSUME EventInv, NEW t \in EventThread, NEW s \in Subscription,
         SendWithin(t, s) \/ Unsubscribe(t, s)
  PROVE  EventInv'
<1>1. act \in [EventThread -> ActT] /\ act[t] \in ActT /\ CallOK(t)
  BY DEF EventInv, EventType
<1>2. /\ handle[s] = "own" /\ \A u \in EventThread : act[u].sub # s
      /\ act[t].pc \in {"deliver", "out"} /\ UNCHANGED <<listed, handle, owned, later, hasLater>>
      /\ SendWithin(t, s) <=> act[t].pc = "deliver"
  BY DEF SendWithin, Unsubscribe
<1>3. /\ Alone(t) /\ act'[t].pc = "test" /\ act'[t].sub = s
      /\ act'[t].back = IF act[t].pc = "deliver" THEN "deliver" ELSE "out"
  <2>1. CASE act[t].pc = "deliver"
    <3>1. act' = [act EXCEPT ![t].pc = "test", ![t].sub = s, ![t].back = "deliver"]
      BY <1>2, <2>1 DEF SendWithin
    <3> QED
      BY <1>1, <2>1, <3>1 DEF Alone, ActT, Unsubscribes
  <2>2. CASE act[t].pc = "out"
    <3>1. act' = [act EXCEPT ![t] = [Out EXCEPT !.pc = "test", !.sub = s]]
      BY <1>2, <2>2 DEF SendWithin, Unsubscribe
    <3>2. [Out EXCEPT !.pc = "test", !.sub = s] \in ActT
      BY DEF Out, ActT, Unsubscribes
    <3> QED
      BY <1>1, <2>2, <3>1, <3>2 DEF Alone, Out
  <2> QED
    BY <1>2, <2>1, <2>2
<1>4. s # NoSub /\ act[t].sub = NoSub /\ act[t].back = "out"
  BY <1>1, <1>2, SubscriptionAssumption DEF CallOK, Unsubscribes
<1>5. ~PutOff(s)
  BY <1>2 DEF EventInv, Handles
<1>6. \A u \in EventThread : CallOK(u)'
  BY <1>2, <1>3, <1>4, <1>5 DEF EventInv, CallOK, PutOff, Alone, Unsubscribes
<1>7. OneCall'
  BY <1>2, <1>3 DEF EventInv, OneCall, Alone
<1>8. NoRepeats' /\ Handles'
  <2>1. \A r \in Subscription : Clears(r)' <=> Clears(r)
    BY <1>3, <1>4 DEF Clears, Alone
  <2> QED
    BY <1>2, <2>1 DEF EventInv, NoRepeats, Handles, Listed, PutOff
<1>9. Marked'
  BY <1>2, <1>3, <1>4 DEF EventInv, Marked, LaterFree, Alone, Clearing
<1>10. Sending' = Sending
  <2>1. Busy(t)' <=> Busy(t)
    BY <1>2, <1>3, <1>4 DEF Busy, Delivering
  <2> QED
    BY <1>3, <2>1, SendingMoves DEF Sending
<1> QED
  BY <1>2, <1>3, <1>6, <1>7, <1>8, <1>9, <1>10 DEF EventInv, EventType, Alone

LEMMA SubscribeStep ==
  ASSUME EventInv, NEW t \in EventThread, NEW s \in Subscription, Subscribe(t, s)
  PROVE  EventInv'
<1>1. /\ handle[s] = "none" /\ listed' = Append(listed, s) /\ handle' = [handle EXCEPT ![s] = "own"]
      /\ UNCHANGED <<owned, later, hasLater, act>>
  BY DEF Subscribe
<1>2. /\ listed \in Seq(Subscription) /\ handle \in [Subscription -> {"none", "own", "moved", "gone"}]
      /\ ~Listed(s) /\ ~PutOff(s) /\ ~Clears(s)
  BY <1>1 DEF EventInv, EventType, Handles
<1>3. /\ listed' \in Seq(Subscription) /\ Len(listed') = Len(listed) + 1 /\ Len(listed) \in Nat
      /\ \A i \in 1 .. Len(listed) : listed'[i] = listed[i]
      /\ listed'[Len(listed) + 1] = s
  BY <1>1, <1>2
<1>4. handle' \in [Subscription -> {"none", "own", "moved", "gone"}] /\ handle'[s] = "own"
      /\ \A r \in Subscription \ {s} : handle'[r] = handle[r]
  BY <1>1, <1>2
<1>5. NoRepeats'
  BY <1>1, <1>2, <1>3 DEF EventInv, NoRepeats, Listed
<1>6. Handles'
  <2>1. \A r \in Subscription : Listed(r)' <=> Listed(r) \/ r = s
    BY <1>2, <1>3, SMTT(60) DEF Listed
  <2>2. \A r \in Subscription : (PutOff(r)' <=> PutOff(r)) /\ (Clears(r)' <=> Clears(r))
    BY <1>1 DEF PutOff, Clears
  <2> QED
    BY <1>2, <1>4, <2>1, <2>2 DEF EventInv, Handles
<1>7. \A u \in EventThread : CallOK(u)'
  <2>1. ASSUME NEW u \in EventThread PROVE CallOK(u)'
    <3>1. act[u] \in ActT /\ CallOK(u)
      BY DEF EventInv, EventType
    <3>2. act[u].sub \in Subscription \cup {NoSub}
      BY <3>1 DEF ActT
    <3>3. act[u].sub # NoSub => act[u].sub # s
      BY <1>1, <3>1 DEF CallOK
    <3>4. act[u].sub # NoSub => handle'[act[u].sub] = handle[act[u].sub]
      BY <1>4, <3>2, <3>3
    <3> QED
      BY <1>1, <3>1, <3>4 DEF CallOK, PutOff
  <2> QED
    BY <2>1
<1>8. OneCall' /\ Marked' /\ Sending' = Sending
  BY <1>1 DEF EventInv, OneCall, Marked, LaterFree, Clearing, Sending, Busy, Delivering
<1> QED
  BY <1>1, <1>3, <1>4, <1>5, <1>6, <1>7, <1>8 DEF EventInv, EventType

\* The next of those put off is taken up to be carried out.
LEMMA ClearStep ==
  ASSUME EventInv, NEW t \in EventThread, SendClear(t)
  PROVE  EventInv'
<1>0. PICK s : s = Head(later)
  OBVIOUS
<1>1. /\ act[t].pc = "clear" /\ later # <<>> /\ later' = Tail(later)
      /\ act' = [act EXCEPT ![t].pc = "test", ![t].sub = s, ![t].back = "clear"]
      /\ UNCHANGED <<listed, handle, owned, hasLater>>
  BY <1>0 DEF SendClear
<1>2. /\ act \in [EventThread -> ActT] /\ act[t] \in ActT /\ CallOK(t) /\ later \in Seq(Subscription)
      /\ \A i, j \in DOMAIN later : later[i] = later[j] => i = j
  BY DEF EventInv, EventType, NoRepeats
<1>3. /\ s \in Subscription /\ s = later[1] /\ 1 \in DOMAIN later /\ later' \in Seq(Subscription)
      /\ DOMAIN later' = 1 .. Len(later) - 1 /\ DOMAIN later = 1 .. Len(later) /\ Len(later) \in Nat
      /\ \A i \in DOMAIN later' : later'[i] = later[i + 1] /\ i + 1 \in DOMAIN later
  BY <1>0, <1>1, <1>2
<1>4. PutOff(s) /\ ~PutOff(s)' /\ \A r : r # s => (PutOff(r)' <=> PutOff(r))
  <2>1. PutOff(s)
    BY <1>3 DEF PutOff
  <2>2. ~PutOff(s)'
    BY <1>2, <1>3 DEF PutOff
  <2>3. ASSUME NEW r, r # s, PutOff(r) PROVE PutOff(r)'
    <3>1. PICK i \in DOMAIN later : later[i] = r
      BY <2>3 DEF PutOff
    <3>2. i - 1 \in DOMAIN later' /\ later'[i - 1] = r
      BY <1>3, <2>3, <3>1
    <3> QED
      BY <3>2 DEF PutOff
  <2>4. ASSUME NEW r, PutOff(r)' PROVE PutOff(r)
    BY <1>3, <2>4 DEF PutOff
  <2> QED
    BY <2>1, <2>2, <2>3, <2>4
<1>5. handle[s] = "moved" /\ s # NoSub /\ act[t].sub = NoSub /\ act[t].back = "out"
      /\ \A u \in EventThread : act[u].sub # s
  BY <1>1, <1>2, <1>3, <1>4, SubscriptionAssumption DEF EventInv, Handles, CallOK, Unsubscribes
<1>6. Alone(t) /\ act'[t].pc = "test" /\ act'[t].sub = s /\ act'[t].back = "clear"
  BY <1>1, <1>2, <1>3 DEF Alone, ActT, Unsubscribes
<1>7. \A u \in EventThread : CallOK(u)'
  <2>1. ASSUME NEW u \in EventThread \ {t} PROVE CallOK(u)'
    <3>1. CallOK(u) /\ act'[u] = act[u] /\ handle' = handle /\ act[u].sub # s
      BY <1>1, <1>5, <1>6 DEF EventInv, Alone
    <3>2. PutOff(act[u].sub)' <=> PutOff(act[u].sub)
      BY <1>4, <3>1 DEF PutOff
    <3> QED
      BY <3>1, <3>2 DEF CallOK
  <2>2. CallOK(t)'
    BY <1>1, <1>4, <1>5, <1>6 DEF CallOK, Unsubscribes, PutOff
  <2> QED
    BY <2>1, <2>2
<1>8. OneCall'
  BY <1>5, <1>6 DEF EventInv, OneCall, Alone
<1>9. NoRepeats'
  BY <1>1, <1>2, <1>3 DEF EventInv, NoRepeats
<1>10. Handles'
  <2>1. \A r \in Subscription : Clears(r)' <=> Clears(r) \/ r = s
    BY <1>5, <1>6 DEF Clears, Alone
  <2> QED
    BY <1>1, <1>4, <1>5, <2>1 DEF EventInv, Handles, Listed
<1>11. Marked'
  BY <1>6 DEF Marked, LaterFree, Clearing
<1>12. Sending' = Sending
  <2>1. ~Busy(t)' /\ ~Busy(t)
    BY <1>1, <1>5, <1>6 DEF Busy, Delivering
  <2> QED
    BY <1>6, <2>1, SendingMoves DEF Sending
<1> QED
  BY <1>1, <1>3, <1>6, <1>7, <1>8, <1>9, <1>10, <1>11, <1>12 DEF EventInv, EventType, Alone

\* The end of an unsubscription: where its thread goes on.
LEMMA ReturnIs ==
  ASSUME EventInv, NEW t \in EventThread, act[t].pc \in Unsubscribes, Return(t)
  PROVE  /\ Alone(t) /\ act'[t].pc = act[t].back /\ act'[t].sub = NoSub /\ act'[t].back = "out"
         /\ act'[t].pc \notin Unsubscribes /\ act[t].sub \in Subscription
         /\ \A u \in EventThread \ {t} : act[u].sub # act[t].sub
         /\ Busy(t)' <=> Busy(t)
         /\ Clearing(t)' <=> Clearing(t)
<1>1. act \in [EventThread -> ActT] /\ act[t] \in ActT /\ CallOK(t)
  BY DEF EventInv, EventType
<1>2. act[t].back \in {"out", "deliver", "clear"} /\ act[t].sub \in Subscription \cup {NoSub}
  BY <1>1 DEF ActT
<1>3. act' = [act EXCEPT ![t].pc = act[t].back, ![t].sub = NoSub, ![t].back = "out"]
  BY DEF Return
<1>4. Alone(t) /\ act'[t].pc = act[t].back /\ act'[t].sub = NoSub /\ act'[t].back = "out"
  BY <1>1, <1>2, <1>3 DEF Alone, ActT
<1>5. act[t].sub \in Subscription /\ \A u \in EventThread \ {t} : act[u].sub # act[t].sub
  BY <1>1, <1>2 DEF CallOK, EventInv, OneCall
<1>6. (Busy(t)' <=> Busy(t)) /\ (Clearing(t)' <=> Clearing(t)) /\ act'[t].pc \notin Unsubscribes
  BY <1>2, <1>4 DEF Busy, Delivering, Clearing, Unsubscribes
<1> QED
  BY <1>4, <1>5, <1>6

\* What the end of an unsubscription leaves as it is.
LEMMA ReturnKeeps ==
  ASSUME EventInv, NEW t \in EventThread, act[t].pc \in Unsubscribes, Return(t),
         NEW s, s = act[t].sub,
         \A r \in Subscription \ {s} : handle'[r] = handle[r],
         \A r \in Subscription \ {s} : PutOff(r)' <=> PutOff(r)
  PROVE  /\ \A u \in EventThread : CallOK(u)'
         /\ OneCall' /\ Sending' = Sending
         /\ \A r \in Subscription \ {s} : Clears(r)' <=> Clears(r)
         /\ ~Clears(s)'
<1>1. /\ Alone(t) /\ act'[t].pc = act[t].back /\ act'[t].sub = NoSub /\ act'[t].back = "out"
      /\ act'[t].pc \notin Unsubscribes /\ act[t].sub \in Subscription
      /\ \A u \in EventThread \ {t} : act[u].sub # act[t].sub
      /\ Busy(t)' <=> Busy(t)
  BY ReturnIs
<1>2. ASSUME NEW u \in EventThread \ {t} PROVE CallOK(u)'
  <2>1. CallOK(u) /\ act'[u] = act[u] /\ act[u] \in ActT /\ act[u].sub # act[t].sub
    BY <1>1 DEF EventInv, Alone, EventType
  <2>2. act[u].sub \in Subscription \cup {NoSub}
    BY <2>1 DEF ActT
  <2>3. act[u].sub # NoSub => handle'[act[u].sub] = handle[act[u].sub]
    BY <2>1, <2>2
  <2>4. act[u].sub # NoSub => (PutOff(act[u].sub)' <=> PutOff(act[u].sub))
    BY <2>1, <2>2 DEF PutOff
  <2> QED
    BY <2>1, <2>3, <2>4 DEF CallOK, PutOff
<1>3. CallOK(t)'
  BY <1>1 DEF CallOK
<1>4. OneCall'
  BY <1>1 DEF EventInv, OneCall, Alone
<1>5. Sending' = Sending
  BY <1>1, SendingMoves DEF Sending
<1>6. ASSUME NEW r \in Subscription \ {s} PROVE Clears(r)' <=> Clears(r)
  BY <1>1, <1>6, SubscriptionAssumption DEF Clears, Alone
<1>7. ~Clears(s)'
  <2>1. \A u \in EventThread : act'[u].sub # s
    BY <1>1, SubscriptionAssumption DEF Alone
  <2> QED
    BY <2>1 DEF Clears
<1> QED
  BY <1>2, <1>3, <1>4, <1>5, <1>6, <1>7


LEMMA DeferStep ==
  ASSUME EventInv, NEW t \in EventThread, UnsubDefer(t)
  PROVE  EventInv'
<1>1. PICK s : s = act[t].sub
  OBVIOUS
<1>2. /\ act[t].pc \in Unsubscribes /\ LaterFree /\ hasLater' = TRUE /\ later' = Append(later, s)
      /\ handle' = [handle EXCEPT ![s] = "moved"] /\ Return(t) /\ UNCHANGED <<listed, owned>>
  BY <1>1 DEF UnsubDefer, Unsubscribes
<1>3. Alone(t) /\ s \in Subscription
  BY <1>1, <1>2, ReturnIs
<1>4. handle[s] = "own" /\ ~PutOff(s)
  BY <1>1, <1>2, <1>3, SubscriptionAssumption DEF EventInv, CallOK, LaterFree, Clearing
<1>5. /\ later \in Seq(Subscription) /\ handle \in [Subscription -> {"none", "own", "moved", "gone"}]
  BY DEF EventInv, EventType
<1>6. /\ later' \in Seq(Subscription) /\ Len(later') = Len(later) + 1 /\ Len(later) \in Nat
      /\ \A i \in 1 .. Len(later) : later'[i] = later[i]
      /\ later'[Len(later) + 1] = s
  BY <1>2, <1>3, <1>5
<1>7. handle' \in [Subscription -> {"none", "own", "moved", "gone"}] /\ handle'[s] = "moved"
      /\ \A r \in Subscription \ {s} : handle'[r] = handle[r]
  BY <1>2, <1>3, <1>5
<1>8. \A r \in Subscription : PutOff(r)' <=> PutOff(r) \/ r = s
  BY <1>5, <1>6, SMTT(60) DEF PutOff
<1>9. /\ \A u \in EventThread : CallOK(u)'
      /\ OneCall' /\ Sending' = Sending
      /\ \A r \in Subscription \ {s} : Clears(r)' <=> Clears(r)
  BY <1>1, <1>2, <1>7, <1>8, ReturnKeeps
<1>10. NoRepeats'
  BY <1>2, <1>4, <1>5, <1>6 DEF EventInv, NoRepeats, PutOff
<1>11. Handles'
  <2>1. \A r \in Subscription : Listed(r)' <=> Listed(r)
    BY <1>2 DEF Listed
  <2> QED
    BY <1>3, <1>4, <1>7, <1>8, <1>9, <2>1 DEF EventInv, Handles
<1>12. Marked'
  BY <1>2 DEF Marked
<1> QED
  BY <1>2, <1>3, <1>6, <1>7, <1>9, <1>10, <1>11, <1>12 DEF EventInv, EventType, Alone

LEMMA EraseStep ==
  ASSUME EventInv, NEW t \in EventThread, UnsubErase(t)
  PROVE  EventInv'
<1>1. PICK s : s = act[t].sub
  OBVIOUS
<1> DEFINE I == {i \in DOMAIN listed : listed[i] # s}
<1>2. /\ act[t].pc \in Unsubscribes /\ listed' = Picked(listed, I)
      /\ handle' = [handle EXCEPT ![s] = "gone"] /\ Return(t)
      /\ UNCHANGED <<owned, later, hasLater>>
  BY <1>1 DEF UnsubErase, Unsubscribes
<1>3. Alone(t) /\ s \in Subscription /\ (Clearing(t)' <=> Clearing(t))
  BY <1>1, <1>2, ReturnIs
<1>4. ~PutOff(s) /\ handle[s] \in {"own", "moved"}
  BY <1>1, <1>3, SubscriptionAssumption DEF EventInv, CallOK
<1>5. /\ listed \in Seq(Subscription) /\ handle \in [Subscription -> {"none", "own", "moved", "gone"}]
      /\ I \in SUBSET DOMAIN listed /\ \A i \in I : listed[i] # s
      /\ \A i \in DOMAIN listed : listed[i] # s => i \in I
      /\ \A i, j \in DOMAIN listed : listed[i] = listed[j] => i = j
  BY DEF EventInv, EventType, NoRepeats
<1> HIDE DEF I
<1>6. /\ listed' \in Seq(Subscription)
      /\ \A k \in DOMAIN listed' : Nth(I, k) \in I /\ listed'[k] = listed[Nth(I, k)]
      /\ \A k, l \in DOMAIN listed' : k < l => Nth(I, k) < Nth(I, l)
      /\ \A i \in I : \E k \in DOMAIN listed' : Nth(I, k) = i
  BY <1>2, <1>5, PickedMembers
<1>7. handle' \in [Subscription -> {"none", "own", "moved", "gone"}] /\ handle'[s] = "gone"
      /\ \A r \in Subscription \ {s} : handle'[r] = handle[r]
  BY <1>2, <1>3, <1>5
<1>8. \A r : PutOff(r)' <=> PutOff(r)
  BY <1>2 DEF PutOff
<1>9. /\ \A u \in EventThread : CallOK(u)'
      /\ OneCall' /\ Sending' = Sending
      /\ \A r \in Subscription \ {s} : Clears(r)' <=> Clears(r)
      /\ ~Clears(s)'
  BY <1>1, <1>2, <1>7, <1>8, ReturnKeeps
<1>10. NoRepeats'
  <2>1. ASSUME NEW k \in DOMAIN listed', NEW l \in DOMAIN listed', listed'[k] = listed'[l]
        PROVE  k = l
    <3>1. Nth(I, k) = Nth(I, l) /\ Nth(I, k) \in Nat
      BY <1>5, <1>6, <2>1
    <3>2. k \in Nat /\ l \in Nat /\ ~(k < l) /\ ~(l < k)
      BY <1>6, <3>1
    <3> QED
      BY <3>2
  <2> QED
    BY <1>2, <2>1 DEF EventInv, NoRepeats
<1>11. Handles'
  <2>1. \A r \in Subscription : Listed(r)' <=> Listed(r) /\ r # s
    BY <1>5, <1>6 DEF Listed
  <2> QED
    BY <1>3, <1>4, <1>7, <1>8, <1>9, <2>1 DEF EventInv, Handles
<1>12. Marked'
  BY <1>2, <1>3 DEF EventInv, Marked, LaterFree, Alone, Clearing
<1> QED
  BY <1>2, <1>3, <1>6, <1>7, <1>9, <1>10, <1>11, <1>12 DEF EventInv, EventType, Alone

-----------------------------------------------------------------------------
(* The theorem.                                                            *)

LEMMA InitEvents == EventsInit => EventInv
<1> SUFFICES ASSUME EventsInit PROVE EventInv
  OBVIOUS
<1>1. \A t \in EventThread : act[t] = Out
  BY DEF EventsInit
<1>2. EventType
  <2>1. act \in [EventThread -> ActT]
    BY OutIs DEF EventsInit
  <2>2. handle \in [Subscription -> {"none", "own", "moved", "gone"}]
    BY DEF EventsInit
  <2>3. listed = <<>> /\ later = <<>> /\ owned = 0 /\ hasLater = FALSE
    BY DEF EventsInit
  <2>4. <<>> \in Seq(Subscription)
    OBVIOUS
  <2> QED
    BY <2>1, <2>2, <2>3, <2>4 DEF EventType
<1>3. \A t \in EventThread : CallOK(t) /\ act[t].sub = NoSub /\ act[t].back = "out" /\ ~Busy(t)
  BY <1>1, OutIs DEF CallOK, Unsubscribes, Busy, Delivering
<1>4. OneCall /\ NoRepeats /\ Marked
  BY <1>3 DEF EventsInit, OneCall, NoRepeats, Marked
<1>5. Handles
  BY <1>3 DEF EventsInit, Handles, Listed, PutOff, Clears
<1>6. owned = Cardinality(Sending)
  <2>1. Sending = {}
    BY <1>3 DEF Sending
  <2> QED
    BY <2>1, FS_EmptySet DEF EventsInit
<1> QED
  BY <1>2, <1>3, <1>4, <1>5, <1>6 DEF EventInv

LEMMA StepEvents == EventInv /\ [EventsNext]_eventVars => EventInv'
<1> SUFFICES ASSUME EventInv, [EventsNext]_eventVars PROVE EventInv'
  OBVIOUS
<1>1. ASSUME NEW t \in EventThread, Starts(t) PROVE EventInv'
  <2>1. CASE SendLock(t)
    BY <2>1, SendSteps
  <2>2. ASSUME NEW s \in Subscription, Subscribe(t, s) PROVE EventInv'
    BY <2>2, SubscribeStep
  <2>3. ASSUME NEW s \in Subscription, Unsubscribe(t, s) \/ SendWithin(t, s) PROVE EventInv'
    BY <2>3, TakeStep
  <2> QED
    BY <1>1, <2>1, <2>2, <2>3 DEF Starts
<1>2. ASSUME NEW t \in EventThread, Continues(t) PROVE EventInv'
  <2>1. CASE SendClear(t)
    BY <2>1, ClearStep
  <2>2. CASE UnsubDefer(t)
    BY <2>2, DeferStep, SMTT(60)
  <2>3. CASE UnsubErase(t)
    BY <2>3, EraseStep
  <2> QED
    BY <1>2, <2>1, <2>2, <2>3, SendSteps DEF Continues
<1>3. CASE UNCHANGED eventVars
  BY <1>3 DEF eventVars, EventInv, EventType, CallOK, OneCall, NoRepeats, Handles, Listed, PutOff,
       Clears, Marked, LaterFree, Clearing, Sending, Busy, Delivering
<1> QED
  BY <1>1, <1>2, <1>3 DEF EventsNext

\* Whatever threads send, subscribe and unsubscribe, from within handlers too
\* (EventSupplier::on, send and _unsub, with the handles put off), an entry of the
\* list has its subscriber or an unsubscription that is still to be carried out,
\* which the next send to finish finds, and the count of the sends is exact.
THEOREM SubscriptionsKept == EventsSpec => []NoSubscriptionLost
<1>1. EventInv => NoSubscriptionLost
  <2> SUFFICES ASSUME EventInv PROVE NoSubscriptionLost
    OBVIOUS
  <2>1. ASSUME NEW s \in Subscription
        PROVE  Cardinality({i \in DOMAIN listed : listed[i] = s})
                 = IF handle[s] \in {"own", "moved"} THEN 1 ELSE 0
    <3>1. CASE Listed(s)
      <4>1. PICK i \in DOMAIN listed : listed[i] = s
        BY <3>1 DEF Listed
      <4>2. {j \in DOMAIN listed : listed[j] = s} = {i}
        BY <4>1 DEF EventInv, NoRepeats
      <4>3. Cardinality({i}) = 1
        BY FS_Singleton
      <4> QED
        BY <3>1, <4>2, <4>3 DEF EventInv, Handles
    <3>2. CASE ~Listed(s)
      <4>1. {j \in DOMAIN listed : listed[j] = s} = {}
        BY <3>2 DEF Listed
      <4> QED
        BY <3>2, <4>1, FS_EmptySet DEF EventInv, Handles
    <3> QED
      BY <3>1, <3>2
  <2>2. Sending = {t \in EventThread : Delivering(t) /\ act[t].pc \notin {"own", "unlock"}}
    BY DEF Sending, Busy
  <2>3. \A s \in Subscription : handle[s] = "moved" <=> PutOff(s) \/ Clears(s)
    BY DEF EventInv, Handles
  <2> QED
    BY <2>1, <2>2, <2>3 DEF EventInv, NoSubscriptionLost, Marked, PutOff, Clears
<1> QED
  BY <1>1, InitEvents, StepEvents, PTL DEF EventsSpec

-----------------------------------------------------------------------------
(***************************************************************************)
(* The counters of the thread pool, for any number of calls and threads:   *)
(* they agree with the threads and the queue whenever nobody is between    *)
(* changing the one and the other.                                         *)
(*                                                                         *)
(* The invariant says by how much each counter is off in between: by the   *)
(* calls that have queued a task and not counted it yet, the thread that   *)
(* has taken one and not uncounted it yet, the call that has started a     *)
(* thread and not counted it yet.  No lock is needed for that.             *)
(***************************************************************************)
USE PoolAssumption

WorkerPc == {"none", "loop", "lock", "test", "parking", "waiting", "woken", "take",
             "taken", "run", "ran", "exited"}
ClientPc == {"idle", "compare", "depot", "spawn", "spawned", "put", "notify", "count",
             "future", "done"}

PoolTypeOK ==
  /\ worker \in [PoolThread -> WorkerPc]
  /\ client \in [Client -> ClientPc]
  /\ tasks \in Seq(Client)
  /\ busy \in Int /\ allocated \in Nat /\ taskCount \in Nat
  /\ joiner \in {"open", "notify", "joining", "joined"}

\* A call queues its task once, and only then goes on.
QueueDistinct ==
  /\ \A i, j \in DOMAIN tasks : tasks[i] = tasks[j] => i = j
  /\ \A i \in DOMAIN tasks : client[tasks[i]] \in {"notify", "count", "future", "done"}

BusyThreads == Tally(PoolThread, worker, {"taken", "run", "ran"})
Taken == Tally(PoolThread, worker, {"taken"})
Alive == Tally(PoolThread, worker, WorkerPc \ {"none"})
Uncounted == Tally(Client, client, {"notify", "count"})
Spawned == Tally(Client, client, {"spawned"})

\* The queue as its counter sees it: it may be short of nothing, below zero.
Balance == Len(tasks) - Uncounted + Taken

\* The counter holds it as a size_t.
AsSize(b) == IF b < 0 THEN b + SizeRange ELSE b

PoolCounts ==
  /\ busy = BusyThreads
  /\ allocated + Spawned = Alive
  /\ joiner # "joined" => taskCount = AsSize(Balance)

PoolInv == PoolTypeOK /\ QueueDistinct /\ PoolCounts

LEMMA PoolFinite ==
  /\ IsFiniteSet(PoolThread) /\ Cardinality(PoolThread) = MaxThread
  /\ IsFiniteSet(Client) /\ Cardinality(Client) \in Nat /\ MaxThread \in Nat
<1>1. IsFiniteSet(1 .. MaxThread) /\ Cardinality(1 .. MaxThread) = MaxThread
  <2>1. 1 \in Int /\ MaxThread \in Int /\ (1 > MaxThread => MaxThread = 0)
    OBVIOUS
  <2> QED
    BY <2>1, FS_Interval
<1> QED
  BY <1>1, FS_CardinalityType DEF PoolThread

LEMMA CountTypes ==
  /\ BusyThreads \in Nat /\ Alive \in Nat /\ Spawned \in Nat
  /\ Taken \in Nat /\ Taken <= MaxThread
  /\ Uncounted \in Nat /\ Uncounted <= Cardinality(Client)
BY PoolFinite, CountBounds DEF BusyThreads, Taken, Alive, Uncounted, Spawned

\* What the balance can be, and so the counter never wraps around twice.
BalanceFits == Balance \in Int /\ Balance < SizeRange /\ -SizeRange < Balance

LEMMA BalanceBounds == PoolTypeOK /\ QueueDistinct => BalanceFits
<1> SUFFICES ASSUME PoolTypeOK, QueueDistinct PROVE BalanceFits
  OBVIOUS
<1>1. Len(tasks) \in Nat /\ Len(tasks) <= Cardinality(Client)
  BY DistinctLength DEF PoolTypeOK, QueueDistinct
<1> QED
  BY <1>1, CountTypes, PoolFinite DEF Balance, BalanceFits

LEMMA BalanceBoundsNext == (PoolTypeOK /\ QueueDistinct)' => BalanceFits'
BY BalanceBounds, PTL

\* The move of one thread, and of one call, as the counts see it.
In(pc, pcs) == IF pc \in pcs THEN 1 ELSE 0

LEMMA WorkerMoves ==
  ASSUME PoolTypeOK, NEW w \in PoolThread, NEW to, worker' = [worker EXCEPT ![w] = to]
  PROVE  /\ BusyThreads' = BusyThreads - In(worker[w], {"taken", "run", "ran"}) + In(to, {"taken", "run", "ran"})
         /\ Taken' = Taken - In(worker[w], {"taken"}) + In(to, {"taken"})
         /\ Alive' = Alive - In(worker[w], WorkerPc \ {"none"}) + In(to, WorkerPc \ {"none"})
<1>1. ASSUME NEW P
      PROVE  Tally(PoolThread, worker', P)
               = Tally(PoolThread, worker, P) - In(worker[w], P) + In(to, P)
  <2>1. IsFiniteSet(PoolThread) /\ worker'[w] = to /\ \A y \in PoolThread \ {w} : worker'[y] = worker[y]
    BY PoolFinite DEF PoolTypeOK
  <2>2. Tally(PoolThread, worker', P) = CountAfter(PoolThread, worker, worker', w, P)
    BY <2>1, CountMoved
  <2> QED
    BY <2>1, <2>2 DEF In, CountAfter
<1> QED
  BY <1>1 DEF BusyThreads, Taken, Alive

LEMMA ClientMoves ==
  ASSUME PoolTypeOK, NEW c \in Client, NEW to, client' = [client EXCEPT ![c] = to]
  PROVE  /\ Uncounted' = Uncounted - In(client[c], {"notify", "count"}) + In(to, {"notify", "count"})
         /\ Spawned' = Spawned - In(client[c], {"spawned"}) + In(to, {"spawned"})
<1>1. ASSUME NEW P
      PROVE  Tally(Client, client', P)
               = Tally(Client, client, P) - In(client[c], P) + In(to, P)
  <2>1. IsFiniteSet(Client) /\ client'[c] = to /\ \A y \in Client \ {c} : client'[y] = client[y]
    BY PoolFinite DEF PoolTypeOK
  <2>2. Tally(Client, client', P) = CountAfter(Client, client, client', c, P)
    BY <2>1, CountMoved
  <2> QED
    BY <2>1, <2>2 DEF In, CountAfter
<1> QED
  BY <1>1 DEF Uncounted, Spawned

LEMMA WorkersStay ==
  ASSUME worker' = worker
  PROVE  BusyThreads' = BusyThreads /\ Taken' = Taken /\ Alive' = Alive
BY DEF BusyThreads, Taken, Alive

LEMMA ClientsStay ==
  ASSUME client' = client
  PROVE  Uncounted' = Uncounted /\ Spawned' = Spawned
BY DEF Uncounted, Spawned

-----------------------------------------------------------------------------
(* The counter of queued tasks is a size_t: it holds the balance modulo    *)
(* SizeRange, which no balance exceeds.                                    *)

LEMMA ModuloOnce ==
  ASSUME NEW n \in Nat, NEW x \in 0 .. n - 1
  PROVE  /\ (x + 1) % n = IF x + 1 = n THEN 0 ELSE x + 1
         /\ (x - 1) % n = IF x = 0 THEN n - 1 ELSE x - 1
OBVIOUS

LEMMA SizeSteps ==
  ASSUME NEW b \in Int, -SizeRange < b, b < SizeRange
  PROVE  /\ b + 1 < SizeRange => (AsSize(b) + 1) % SizeRange = AsSize(b + 1)
         /\ -SizeRange < b - 1 => (AsSize(b) - 1) % SizeRange = AsSize(b - 1)
<1>1. SizeRange \in Nat /\ AsSize(b) \in 0 .. SizeRange - 1
  BY DEF AsSize
<1>2. /\ (AsSize(b) + 1) % SizeRange = IF AsSize(b) + 1 = SizeRange THEN 0 ELSE AsSize(b) + 1
      /\ (AsSize(b) - 1) % SizeRange = IF AsSize(b) = 0 THEN SizeRange - 1 ELSE AsSize(b) - 1
  BY <1>1, ModuloOnce
<1> QED
  BY <1>1, <1>2 DEF AsSize

-----------------------------------------------------------------------------
(* The invariant.                                                          *)

LEMMA InitPool == PoolInit => PoolInv
<1> SUFFICES ASSUME PoolInit PROVE PoolInv
  OBVIOUS
<1>1. PoolTypeOK /\ QueueDistinct
  BY DEF PoolInit, PoolTypeOK, QueueDistinct, WorkerPc, ClientPc
<1>2. BusyThreads = 0 /\ Taken = 0 /\ Uncounted = 0 /\ Spawned = 0
  <2>1. \A w \in PoolThread : worker[w] \notin {"taken", "run", "ran"} /\ worker[w] \notin {"taken"}
    BY DEF PoolInit
  <2>2. \A c \in Client : client[c] \notin {"notify", "count"} /\ client[c] \notin {"spawned"}
    BY DEF PoolInit
  <2> QED
    BY <2>1, <2>2, PoolFinite, CountBounds DEF BusyThreads, Taken, Uncounted, Spawned
<1>3. Alive = Initial
  <2>1. {w \in PoolThread : worker[w] \in WorkerPc \ {"none"}} = 1 .. Initial
    BY DEF PoolInit, PoolThread, WorkerPc
  <2>2. Cardinality(1 .. Initial) = Initial
    <3>1. 1 \in Int /\ Initial \in Int /\ (1 > Initial => Initial = 0)
      OBVIOUS
    <3> QED
      BY <3>1, FS_Interval
  <2> QED
    BY <2>1, <2>2 DEF Alive, Tally
<1>4. Balance = 0
  BY <1>2 DEF PoolInit, Balance
<1> QED
  BY <1>1, <1>2, <1>3, <1>4 DEF PoolInv, PoolCounts, PoolInit, AsSize

\* A call that has queued its task stays among those that have.
LEMMA QueueKept ==
  ASSUME PoolInv, NEW c \in Client, NEW from, NEW to \in ClientPc, ClientGoes(c, from, to),
         from \in {"notify", "count", "future", "done"} => to \in {"notify", "count", "future", "done"},
         tasks' = tasks
  PROVE  QueueDistinct' /\ client' \in [Client -> ClientPc] /\ tasks' \in Seq(Client)
<1>1. client' \in [Client -> ClientPc] /\ tasks' \in Seq(Client)
  BY DEF ClientGoes, PoolInv, PoolTypeOK
<1>2. \A i \in DOMAIN tasks : client'[tasks[i]] \in {"notify", "count", "future", "done"}
  BY DEF ClientGoes, PoolInv, PoolTypeOK, QueueDistinct
<1> QED
  BY <1>1, <1>2 DEF PoolInv, QueueDistinct

\* A call that queues nothing and starts no thread changes no count.
LEMMA CallMovesNothing ==
  ASSUME PoolInv, NEW c \in Client, NEW from, NEW to \in ClientPc, ClientGoes(c, from, to),
         from \in {"idle", "compare", "depot", "spawn", "future"},
         to \in {"compare", "depot", "spawn", "put", "done"},
         from = "future" => to = "done",
         UNCHANGED <<worker, tasks, busy, allocated, taskCount, joiner>>
  PROVE  PoolInv'
<1>1. Uncounted' = Uncounted /\ Spawned' = Spawned
  <2>1. client[c] = from /\ client' = [client EXCEPT ![c] = to]
    BY DEF ClientGoes
  <2>2. /\ Uncounted' = Uncounted - In(from, {"notify", "count"}) + In(to, {"notify", "count"})
        /\ Spawned' = Spawned - In(from, {"spawned"}) + In(to, {"spawned"})
    BY <2>1, ClientMoves DEF PoolInv
  <2>3. /\ In(from, {"notify", "count"}) = 0 /\ In(to, {"notify", "count"}) = 0
        /\ In(from, {"spawned"}) = 0 /\ In(to, {"spawned"}) = 0
    BY DEF In
  <2> QED
    BY <2>2, <2>3, CountTypes
<1>2. BusyThreads' = BusyThreads /\ Taken' = Taken /\ Alive' = Alive
  BY WorkersStay
<1>3. PoolTypeOK' /\ QueueDistinct'
  BY QueueKept DEF PoolInv, PoolTypeOK
<1>4. Balance' = Balance
  BY <1>1, <1>2 DEF Balance
<1> QED
  BY <1>1, <1>2, <1>3, <1>4 DEF PoolInv, PoolCounts

\* A thread that takes nothing and frees nothing changes no count.
LEMMA WorkerMovesNothing ==
  ASSUME PoolInv, NEW w \in PoolThread, NEW from, NEW to, WorkerGoes(w, from, to),
         from \subseteq {"loop", "lock", "woken", "test", "parking", "take", "run"},
         \/ to = "ran" /\ from = {"run"}
         \/ to \in {"loop", "lock", "test", "take", "parking", "waiting", "exited"} /\ from # {"run"},
         "run" \in from => from = {"run"},
         UNCHANGED <<client, tasks, busy, allocated, taskCount, joiner>>
  PROVE  PoolInv'
<1>1. worker[w] \in from /\ worker' = [worker EXCEPT ![w] = to] /\ to \in WorkerPc
  BY DEF WorkerGoes, WorkerPc
<1>2. BusyThreads' = BusyThreads /\ Taken' = Taken /\ Alive' = Alive
  <2>1. /\ BusyThreads' = BusyThreads - In(worker[w], {"taken", "run", "ran"}) + In(to, {"taken", "run", "ran"})
        /\ Taken' = Taken - In(worker[w], {"taken"}) + In(to, {"taken"})
        /\ Alive' = Alive - In(worker[w], WorkerPc \ {"none"}) + In(to, WorkerPc \ {"none"})
    BY <1>1, WorkerMoves DEF PoolInv
  <2>2. /\ In(worker[w], {"taken", "run", "ran"}) = In(to, {"taken", "run", "ran"})
        /\ In(worker[w], {"taken"}) = 0 /\ In(to, {"taken"}) = 0
        /\ In(worker[w], WorkerPc \ {"none"}) = 1 /\ In(to, WorkerPc \ {"none"}) = 1
    BY <1>1 DEF In, WorkerPc
  <2>3. In(to, {"taken", "run", "ran"}) \in {0, 1}
    BY DEF In
  <2> QED
    BY <2>1, <2>2, <2>3, CountTypes
<1>3. Uncounted' = Uncounted /\ Spawned' = Spawned
  BY ClientsStay
<1>4. PoolTypeOK' /\ QueueDistinct'
  BY <1>1 DEF PoolInv, PoolTypeOK, QueueDistinct
<1>5. Balance' = Balance
  BY <1>2, <1>3 DEF Balance
<1> QED
  BY <1>2, <1>3, <1>4, <1>5 DEF PoolInv, PoolCounts

\* The thread that is started is owed to the counter until the call counts it.
LEMMA SpawnStep ==
  ASSUME PoolInv, NEW c \in Client, AllocateSpawn(c)
  PROVE  PoolInv'
<1>1. PICK w \in PoolThread : worker[w] = "none" /\ worker' = [worker EXCEPT ![w] = "loop"]
  BY DEF AllocateSpawn
<1>2. /\ client[c] = "spawn" /\ client' = [client EXCEPT ![c] = "spawned"]
      /\ UNCHANGED <<tasks, busy, allocated, taskCount, joiner>>
  BY DEF AllocateSpawn, ClientGoes
<1>3. BusyThreads' = BusyThreads /\ Taken' = Taken /\ Alive' = Alive + 1
  <2>1. /\ BusyThreads' = BusyThreads - In("none", {"taken", "run", "ran"}) + In("loop", {"taken", "run", "ran"})
        /\ Taken' = Taken - In("none", {"taken"}) + In("loop", {"taken"})
        /\ Alive' = Alive - In("none", WorkerPc \ {"none"}) + In("loop", WorkerPc \ {"none"})
    BY <1>1, WorkerMoves DEF PoolInv
  <2> QED
    BY <2>1, CountTypes DEF In, WorkerPc
<1>4. Uncounted' = Uncounted /\ Spawned' = Spawned + 1
  <2>1. /\ Uncounted' = Uncounted - In("spawn", {"notify", "count"}) + In("spawned", {"notify", "count"})
        /\ Spawned' = Spawned - In("spawn", {"spawned"}) + In("spawned", {"spawned"})
    BY <1>2, ClientMoves DEF PoolInv
  <2> QED
    BY <2>1, CountTypes DEF In
<1>5. PoolTypeOK' /\ QueueDistinct'
  <2>1. ClientGoes(c, "spawn", "spawned")
    BY DEF AllocateSpawn
  <2> QED
    BY <1>1, <1>2, <2>1, QueueKept DEF PoolInv, PoolTypeOK, WorkerPc, ClientPc
<1>6. Balance' = Balance
  BY <1>2, <1>3, <1>4 DEF Balance
<1>7. busy' = BusyThreads' /\ allocated' + Spawned' = Alive'
  BY <1>2, <1>3, <1>4, CountTypes DEF PoolInv, PoolCounts, PoolTypeOK
<1> QED
  BY <1>2, <1>5, <1>6, <1>7 DEF PoolInv, PoolCounts

LEMMA SpawnedStep ==
  ASSUME PoolInv, NEW c \in Client, AllocateCount(c)
  PROVE  PoolInv'
<1>1. /\ client[c] = "spawned" /\ client' = [client EXCEPT ![c] = "spawn"]
      /\ allocated' = allocated + 1
      /\ UNCHANGED <<worker, tasks, busy, taskCount, joiner>>
  BY DEF AllocateCount, ClientGoes
<1>2. BusyThreads' = BusyThreads /\ Taken' = Taken /\ Alive' = Alive
  BY <1>1, WorkersStay
<1>3. Uncounted' = Uncounted /\ Spawned' = Spawned - 1
  <2>1. /\ Uncounted' = Uncounted - In("spawned", {"notify", "count"}) + In("spawn", {"notify", "count"})
        /\ Spawned' = Spawned - In("spawned", {"spawned"}) + In("spawn", {"spawned"})
    BY <1>1, ClientMoves DEF PoolInv
  <2> QED
    BY <2>1, CountTypes DEF In
<1>4. PoolTypeOK' /\ QueueDistinct'
  <2>1. ClientGoes(c, "spawned", "spawn")
    BY DEF AllocateCount
  <2> QED
    BY <1>1, <2>1, QueueKept DEF PoolInv, PoolTypeOK, ClientPc
<1>5. Balance' = Balance
  BY <1>1, <1>2, <1>3 DEF Balance
<1>6. busy' = BusyThreads' /\ allocated' + Spawned' = Alive'
  BY <1>1, <1>2, <1>3, CountTypes DEF PoolInv, PoolCounts, PoolTypeOK
<1> QED
  BY <1>1, <1>4, <1>5, <1>6 DEF PoolInv, PoolCounts

\* The task that is queued is not counted yet: the balance is what it was.
LEMMA PushStep ==
  ASSUME PoolInv, NEW c \in Client, PutPush(c)
  PROVE  PoolInv'
<1>1. /\ client[c] = "put" /\ client' = [client EXCEPT ![c] = "notify"]
      /\ tasks' = Append(tasks, c)
      /\ UNCHANGED <<worker, busy, allocated, taskCount, joiner>>
  BY DEF PutPush, ClientGoes
<1>2. BusyThreads' = BusyThreads /\ Taken' = Taken /\ Alive' = Alive
  BY <1>1, WorkersStay
<1>3. Uncounted' = Uncounted + 1 /\ Spawned' = Spawned
  <2>1. /\ Uncounted' = Uncounted - In("put", {"notify", "count"}) + In("notify", {"notify", "count"})
        /\ Spawned' = Spawned - In("put", {"spawned"}) + In("notify", {"spawned"})
    BY <1>1, ClientMoves DEF PoolInv
  <2> QED
    BY <2>1, CountTypes DEF In
<1>4. tasks \in Seq(Client) /\ Len(tasks) \in Nat /\ tasks' \in Seq(Client)
      /\ Len(tasks') = Len(tasks) + 1
  BY <1>1 DEF PoolInv, PoolTypeOK
<1>5. \A i \in DOMAIN tasks : tasks[i] # c
  BY <1>1 DEF PoolInv, QueueDistinct
<1>6. \A i \in DOMAIN tasks' : \/ i \in DOMAIN tasks /\ tasks'[i] = tasks[i]
                               \/ i = Len(tasks) + 1 /\ tasks'[i] = c
  BY <1>1, <1>4
<1>7. QueueDistinct'
  <2>1. \A i, j \in DOMAIN tasks' : tasks'[i] = tasks'[j] => i = j
    BY <1>5, <1>6 DEF PoolInv, QueueDistinct
  <2>2. \A i \in DOMAIN tasks' : client'[tasks'[i]] \in {"notify", "count", "future", "done"}
    BY <1>1, <1>4, <1>5, <1>6 DEF PoolInv, PoolTypeOK, QueueDistinct
  <2> QED
    BY <2>1, <2>2 DEF QueueDistinct
<1>8. PoolTypeOK'
  BY <1>1, <1>4 DEF PoolInv, PoolTypeOK, ClientPc
<1>9. Balance' = Balance
  BY <1>2, <1>3, <1>4, CountTypes DEF Balance
<1> QED
  BY <1>1, <1>2, <1>3, <1>7, <1>8, <1>9 DEF PoolInv, PoolCounts

\* A waiting thread that is notified, if there is one.
LEMMA NotifyStep ==
  ASSUME PoolInv, NEW c \in Client, PutNotify(c)
  PROVE  PoolInv'
<1>1. /\ client[c] = "notify" /\ client' = [client EXCEPT ![c] = "count"]
      /\ UNCHANGED <<tasks, busy, allocated, taskCount, joiner>>
  BY DEF PutNotify, ClientGoes
<1>2. BusyThreads' = BusyThreads /\ Taken' = Taken /\ Alive' = Alive /\ worker' \in [PoolThread -> WorkerPc]
  <2>1. CASE Waiting = {}
    <3>1. worker' = worker
      BY <2>1 DEF PutNotify
    <3> QED
      BY <3>1, WorkersStay DEF PoolInv, PoolTypeOK
  <2>2. CASE Waiting # {}
    <3>1. PICK w \in PoolThread : worker[w] = "waiting" /\ worker' = [worker EXCEPT ![w] = "woken"]
      BY <2>2 DEF PutNotify, Waiting
    <3>2. /\ BusyThreads' = BusyThreads - In("waiting", {"taken", "run", "ran"}) + In("woken", {"taken", "run", "ran"})
          /\ Taken' = Taken - In("waiting", {"taken"}) + In("woken", {"taken"})
          /\ Alive' = Alive - In("waiting", WorkerPc \ {"none"}) + In("woken", WorkerPc \ {"none"})
      BY <3>1, WorkerMoves DEF PoolInv
    <3>3. worker' \in [PoolThread -> WorkerPc]
      BY <3>1 DEF PoolInv, PoolTypeOK, WorkerPc
    <3> QED
      BY <3>2, <3>3, CountTypes DEF In, WorkerPc
  <2> QED
    BY <2>1, <2>2
<1>3. Uncounted' = Uncounted /\ Spawned' = Spawned
  <2>1. /\ Uncounted' = Uncounted - In("notify", {"notify", "count"}) + In("count", {"notify", "count"})
        /\ Spawned' = Spawned - In("notify", {"spawned"}) + In("count", {"spawned"})
    BY <1>1, ClientMoves DEF PoolInv
  <2> QED
    BY <2>1, CountTypes DEF In
<1>4. PoolTypeOK' /\ QueueDistinct'
  <2>1. ClientGoes(c, "notify", "count")
    BY DEF PutNotify
  <2> QED
    BY <1>1, <1>2, <2>1, QueueKept DEF PoolInv, PoolTypeOK, ClientPc
<1>5. Balance' = Balance
  BY <1>1, <1>2, <1>3 DEF Balance
<1> QED
  BY <1>1, <1>2, <1>3, <1>4, <1>5 DEF PoolInv, PoolCounts

\* The task is counted, and with it the balance grows.
LEMMA CountStep ==
  ASSUME PoolInv, NEW c \in Client, PutCount(c)
  PROVE  PoolInv'
<1> DEFINE to == IF c \in OneWay THEN "done" ELSE "future"
<1>1. /\ client[c] = "count" /\ client' = [client EXCEPT ![c] = to]
      /\ taskCount' = (taskCount + 1) % SizeRange
      /\ UNCHANGED <<worker, tasks, busy, allocated, joiner>>
  BY DEF PutCount, ClientGoes
<1>2. BusyThreads' = BusyThreads /\ Taken' = Taken /\ Alive' = Alive
  BY <1>1, WorkersStay
<1>3. Uncounted' = Uncounted - 1 /\ Spawned' = Spawned
  <2>1. /\ Uncounted' = Uncounted - In("count", {"notify", "count"}) + In(to, {"notify", "count"})
        /\ Spawned' = Spawned - In("count", {"spawned"}) + In(to, {"spawned"})
    BY <1>1, ClientMoves DEF PoolInv
  <2> QED
    BY <2>1, CountTypes DEF In
<1>4. QueueDistinct' /\ client' \in [Client -> ClientPc] /\ tasks' \in Seq(Client)
  <2>1. ClientGoes(c, "count", to)
    BY DEF PutCount
  <2> QED
    BY <1>1, <2>1, QueueKept DEF ClientPc
<1>5. Balance' = Balance + 1
  <2>1. Len(tasks) \in Nat
    BY DEF PoolInv, PoolTypeOK
  <2> QED
    BY <1>1, <1>2, <1>3, <2>1, CountTypes DEF Balance
<1>6. taskCount' \in Nat
  <2>1. taskCount \in Nat /\ SizeRange \in Nat \ {0}
    BY PoolFinite DEF PoolInv, PoolTypeOK
  <2> QED
    BY <1>1, <2>1
<1>7. PoolTypeOK'
  BY <1>1, <1>4, <1>6 DEF PoolInv, PoolTypeOK
<1>8. joiner # "joined" => taskCount' = AsSize(Balance')
  <2>1. Balance \in Int /\ Balance < SizeRange /\ -SizeRange < Balance
    BY BalanceBounds DEF PoolInv, BalanceFits
  <2>2. Balance + 1 < SizeRange
    BY <1>5, <1>4, <1>7, BalanceBoundsNext DEF BalanceFits
  <2> QED
    BY <1>1, <1>5, <2>1, <2>2, SizeSteps DEF PoolInv, PoolCounts
<1> QED
  BY <1>1, <1>2, <1>3, <1>4, <1>7, <1>8 DEF PoolInv, PoolCounts

\* The oldest task leaves the queue with a thread that has yet to uncount it.
LEMMA TakeTaskStep ==
  ASSUME PoolInv, NEW w \in PoolThread, RoutineTake(w)
  PROVE  PoolInv'
<1>1. CASE end \/ tasks = <<>>
  <2>1. WorkerGoes(w, {"take"}, "loop") /\ UNCHANGED <<client, tasks, busy, allocated, taskCount, joiner>>
    BY <1>1 DEF RoutineTake
  <2> QED
    BY <2>1, WorkerMovesNothing
<1>2. CASE ~(end \/ tasks = <<>>)
  <2>1. /\ worker[w] = "take" /\ worker' = [worker EXCEPT ![w] = "taken"]
        /\ tasks # <<>> /\ tasks' = Tail(tasks) /\ busy' = busy + 1
        /\ UNCHANGED <<client, allocated, taskCount, joiner>>
    BY <1>2 DEF RoutineTake, WorkerGoes
  <2>2. BusyThreads' = BusyThreads + 1 /\ Taken' = Taken + 1 /\ Alive' = Alive
    <3>1. /\ BusyThreads' = BusyThreads - In("take", {"taken", "run", "ran"}) + In("taken", {"taken", "run", "ran"})
          /\ Taken' = Taken - In("take", {"taken"}) + In("taken", {"taken"})
          /\ Alive' = Alive - In("take", WorkerPc \ {"none"}) + In("taken", WorkerPc \ {"none"})
      BY <2>1, WorkerMoves DEF PoolInv
    <3> QED
      BY <3>1, CountTypes DEF In, WorkerPc
  <2>3. Uncounted' = Uncounted /\ Spawned' = Spawned
    BY <2>1, ClientsStay
  <2>4. /\ tasks \in Seq(Client) /\ Len(tasks) \in Nat
        /\ tasks' \in Seq(Client) /\ Len(tasks') = Len(tasks) - 1
        /\ \A i \in DOMAIN tasks' : i + 1 \in DOMAIN tasks /\ tasks'[i] = tasks[i + 1] /\ i \in Nat
    BY <2>1 DEF PoolInv, PoolTypeOK
  <2>5. QueueDistinct'
    <3>1. \A i, j \in DOMAIN tasks' : tasks'[i] = tasks'[j] => i = j
      <4>1. SUFFICES ASSUME NEW i \in DOMAIN tasks', NEW j \in DOMAIN tasks', tasks'[i] = tasks'[j]
                     PROVE  i = j
        OBVIOUS
      <4>2. i + 1 = j + 1
        BY <2>4, <4>1, SMTT(60) DEF PoolInv, QueueDistinct
      <4> QED
        BY <2>4, <4>2, SMTT(60)
    <3>2. \A i \in DOMAIN tasks' : client'[tasks'[i]] \in {"notify", "count", "future", "done"}
      BY <2>1, <2>4 DEF PoolInv, QueueDistinct
    <3> QED
      BY <3>1, <3>2 DEF QueueDistinct
  <2>6. PoolTypeOK'
    BY <2>1, <2>4 DEF PoolInv, PoolTypeOK, WorkerPc
  <2>7. Balance' = Balance
    BY <2>2, <2>3, <2>4, CountTypes, SMTT(60) DEF Balance
  <2> QED
    BY <2>1, <2>2, <2>3, <2>5, <2>6, <2>7 DEF PoolInv, PoolCounts
<1> QED
  BY <1>1, <1>2

\* The thread uncounts its task, and with it the balance shrinks.
LEMMA UncountStep ==
  ASSUME PoolInv, NEW w \in PoolThread, RoutineUncount(w)
  PROVE  PoolInv'
<1>1. /\ worker[w] = "taken" /\ worker' = [worker EXCEPT ![w] = "run"]
      /\ taskCount' = (taskCount - 1) % SizeRange
      /\ UNCHANGED <<client, tasks, busy, allocated, joiner>>
  BY DEF RoutineUncount, WorkerGoes
<1>2. BusyThreads' = BusyThreads /\ Taken' = Taken - 1 /\ Alive' = Alive
  <2>1. /\ BusyThreads' = BusyThreads - In("taken", {"taken", "run", "ran"}) + In("run", {"taken", "run", "ran"})
        /\ Taken' = Taken - In("taken", {"taken"}) + In("run", {"taken"})
        /\ Alive' = Alive - In("taken", WorkerPc \ {"none"}) + In("run", WorkerPc \ {"none"})
    BY <1>1, WorkerMoves DEF PoolInv
  <2> QED
    BY <2>1, CountTypes DEF In, WorkerPc
<1>3. Uncounted' = Uncounted /\ Spawned' = Spawned
  BY <1>1, ClientsStay
<1>4. QueueDistinct'
  BY <1>1 DEF PoolInv, QueueDistinct
<1>5. Balance' = Balance - 1
  <2>1. Len(tasks) \in Nat
    BY DEF PoolInv, PoolTypeOK
  <2> QED
    BY <1>1, <1>2, <1>3, <2>1, CountTypes DEF Balance
<1>6. taskCount' \in Nat
  <2>1. taskCount \in Nat /\ SizeRange \in Nat \ {0}
    BY PoolFinite DEF PoolInv, PoolTypeOK
  <2> QED
    BY <1>1, <2>1
<1>7. PoolTypeOK'
  BY <1>1, <1>6 DEF PoolInv, PoolTypeOK, WorkerPc
<1>8. joiner # "joined" => taskCount' = AsSize(Balance')
  <2>1. Balance \in Int /\ Balance < SizeRange /\ -SizeRange < Balance
    BY BalanceBounds DEF PoolInv, BalanceFits
  <2>2. -SizeRange < Balance - 1
    BY <1>5, <1>4, <1>7, BalanceBoundsNext DEF BalanceFits
  <2> QED
    BY <1>1, <1>5, <2>1, <2>2, SizeSteps DEF PoolInv, PoolCounts
<1> QED
  BY <1>1, <1>2, <1>3, <1>4, <1>7, <1>8 DEF PoolInv, PoolCounts

LEMMA FreeStep ==
  ASSUME PoolInv, NEW w \in PoolThread, RoutineFree(w)
  PROVE  PoolInv'
<1>1. /\ worker[w] = "ran" /\ worker' = [worker EXCEPT ![w] = "loop"]
      /\ busy' = busy - 1
      /\ UNCHANGED <<client, tasks, allocated, taskCount, joiner>>
  BY DEF RoutineFree, WorkerGoes
<1>2. BusyThreads' = BusyThreads - 1 /\ Taken' = Taken /\ Alive' = Alive
  <2>1. /\ BusyThreads' = BusyThreads - In("ran", {"taken", "run", "ran"}) + In("loop", {"taken", "run", "ran"})
        /\ Taken' = Taken - In("ran", {"taken"}) + In("loop", {"taken"})
        /\ Alive' = Alive - In("ran", WorkerPc \ {"none"}) + In("loop", WorkerPc \ {"none"})
    BY <1>1, WorkerMoves DEF PoolInv
  <2> QED
    BY <2>1, CountTypes DEF In, WorkerPc
<1>3. Uncounted' = Uncounted /\ Spawned' = Spawned
  BY <1>1, ClientsStay
<1>4. PoolTypeOK' /\ QueueDistinct'
  BY <1>1 DEF PoolInv, PoolTypeOK, QueueDistinct, WorkerPc
<1>5. Balance' = Balance
  BY <1>1, <1>2, <1>3 DEF Balance
<1> QED
  BY <1>1, <1>2, <1>3, <1>4, <1>5, CountTypes DEF PoolInv, PoolCounts

\* All the waiting threads are woken at once.
LEMMA JoinNotifyStep ==
  ASSUME PoolInv, JoinNotify
  PROVE  PoolInv'
<1>1. /\ worker' = [w \in PoolThread |-> IF worker[w] = "waiting" THEN "woken" ELSE worker[w]]
      /\ joiner = "notify" /\ joiner' = "joining"
      /\ UNCHANGED <<client, tasks, busy, allocated, taskCount>>
  BY DEF JoinNotify
<1>2. ASSUME NEW P, "waiting" \in P <=> "woken" \in P
      PROVE  Tally(PoolThread, worker', P) = Tally(PoolThread, worker, P)
  <2>1. \A w \in PoolThread : worker[w] \in P <=> worker'[w] \in P
    BY <1>1, <1>2
  <2> QED
    BY <2>1, CountKept
<1>3. BusyThreads' = BusyThreads /\ Taken' = Taken /\ Alive' = Alive
  BY <1>2 DEF BusyThreads, Taken, Alive, WorkerPc
<1>4. Uncounted' = Uncounted /\ Spawned' = Spawned
  BY <1>1, ClientsStay
<1>5. PoolTypeOK' /\ QueueDistinct'
  BY <1>1 DEF PoolInv, PoolTypeOK, QueueDistinct, WorkerPc
<1>6. Balance' = Balance
  BY <1>1, <1>3, <1>4 DEF Balance
<1> QED
  BY <1>1, <1>3, <1>4, <1>5, <1>6 DEF PoolInv, PoolCounts

\* The queue is dropped, and what its counter says no longer matters.
LEMMA JoinReturnStep ==
  ASSUME PoolInv, JoinReturn
  PROVE  PoolInv'
<1>1. tasks' = <<>> /\ joiner' = "joined" /\ UNCHANGED <<worker, client, busy, allocated, taskCount>>
  BY DEF JoinReturn
<1>2. BusyThreads' = BusyThreads /\ Alive' = Alive /\ Spawned' = Spawned
  BY <1>1, WorkersStay, ClientsStay
<1>3. PoolTypeOK' /\ QueueDistinct'
  BY <1>1 DEF PoolInv, PoolTypeOK, QueueDistinct
<1> QED
  BY <1>1, <1>2, <1>3 DEF PoolInv, PoolCounts

\* What changes none of the variables the invariant reads.
LEMMA PoolStays ==
  ASSUME PoolInv, UNCHANGED <<worker, client, tasks, busy, allocated, taskCount>>,
         joiner' = joiner \/ (joiner = "open" /\ joiner' = "notify")
  PROVE  PoolInv'
<1>1. BusyThreads' = BusyThreads /\ Taken' = Taken /\ Alive' = Alive /\ Uncounted' = Uncounted /\ Spawned' = Spawned
  BY WorkersStay, ClientsStay
<1>2. Balance' = Balance
  BY <1>1 DEF Balance
<1> QED
  BY <1>1, <1>2 DEF PoolInv, PoolTypeOK, QueueDistinct, PoolCounts

LEMMA StepPool == PoolInv /\ [PoolNext]_poolVars => PoolInv'
<1> SUFFICES ASSUME PoolInv, [PoolNext]_poolVars PROVE PoolInv'
  OBVIOUS
<1>1. ASSUME NEW c \in Client, EnsureIdle(c) \/ CallLock(c) \/ CallStep(c) PROVE PoolInv'
  <2>1. CASE EnsureIdle(c) \/ EnsureCompare(c) \/ AllocateLock(c) \/ AllocateUnlock(c) \/ GetResult(c)
    <3>1. PICK from \in {"idle", "compare", "depot", "spawn", "future"},
               to \in {"compare", "depot", "spawn", "put", "done"} :
            /\ ClientGoes(c, from, to) /\ (from = "future" => to = "done")
            /\ UNCHANGED <<worker, tasks, busy, allocated, taskCount, joiner>>
      BY <2>1 DEF EnsureIdle, EnsureCompare, AllocateLock, AllocateUnlock, GetResult
    <3> QED
      BY <3>1, CallMovesNothing DEF ClientPc
  <2>2. CASE AllocateSpawn(c) \/ AllocateCount(c) \/ PutPush(c) \/ PutNotify(c) \/ PutCount(c)
    BY <2>2, SpawnStep, SpawnedStep, PushStep, NotifyStep, CountStep
  <2> QED
    BY <1>1, <2>1, <2>2 DEF CallLock, CallStep
<1>2. ASSUME NEW w \in PoolThread, RoutineLock(w) \/ RoutineStep(w) PROVE PoolInv'
  <2>1. CASE RoutineLoop(w) \/ RoutineLock(w) \/ RoutineTest(w) \/ RoutineWait(w)
    <3>1. PICK from \in {{"loop"}, {"lock", "woken"}, {"test"}, {"parking"}},
               to \in {"lock", "exited", "test", "take", "parking", "waiting"} :
            /\ WorkerGoes(w, from, to)
            /\ UNCHANGED <<client, tasks, busy, allocated, taskCount, joiner>>
      BY <2>1 DEF RoutineLoop, RoutineLock, RoutineTest, RoutineWait
    <3>2. /\ from \subseteq {"loop", "lock", "woken", "test", "parking", "take", "run"}
          /\ from # {"run"} /\ "run" \notin from
      OBVIOUS
    <3> QED
      BY <3>1, <3>2, WorkerMovesNothing
  <2>2. CASE RoutineRun(w)
    <3>1. WorkerGoes(w, {"run"}, "ran") /\ UNCHANGED <<client, tasks, busy, allocated, taskCount, joiner>>
      BY <2>2 DEF RoutineRun
    <3> QED
      BY <3>1, WorkerMovesNothing
  <2>3. CASE RoutineTake(w) \/ RoutineUncount(w) \/ RoutineFree(w)
    BY <2>3, TakeTaskStep, UncountStep, FreeStep
  <2> QED
    BY <1>2, <2>1, <2>2, <2>3 DEF RoutineStep
<1>3. CASE JoinEnd
  BY <1>3, PoolStays DEF JoinEnd
<1>4. CASE JoinNotify \/ JoinReturn
  BY <1>4, JoinNotifyStep, JoinReturnStep
<1>5. CASE UNCHANGED poolVars
  BY <1>5, PoolStays DEF poolVars
<1> QED
  BY <1>1, <1>2, <1>3, <1>4, <1>5 DEF PoolNext

-----------------------------------------------------------------------------
(* The counters when nobody is in between.                                 *)

LEMMA CountsSettled == PoolInv => PoolCountsSettle
<1> SUFFICES ASSUME PoolInv PROVE PoolCountsSettle
  OBVIOUS
<1>1. busy = Cardinality({w \in PoolThread : worker[w] \in {"taken", "run", "ran"}})
  BY DEF PoolInv, PoolCounts, BusyThreads, Tally
<1>2. ASSUME ~\E c \in Client : client[c] \in {"spawned"}
      PROVE  allocated = Cardinality(Started)
  <2>1. Spawned = 0
    BY <1>2, PoolFinite, CountBounds DEF Spawned
  <2>2. Started = {w \in PoolThread : worker[w] \in WorkerPc \ {"none"}}
    BY DEF Started, PoolInv, PoolTypeOK
  <2>3. Alive = Cardinality(Started)
    BY <2>2 DEF Alive, Tally
  <2> QED
    BY <2>1, <2>3, CountTypes DEF PoolInv, PoolTypeOK, PoolCounts
<1>3. ASSUME ~\E c \in Client : client[c] \in {"notify", "count"},
             \A w \in PoolThread : worker[w] # "taken", joiner # "joined"
      PROVE  taskCount = Len(tasks)
  <2>1. Uncounted = 0
    BY <1>3, PoolFinite, CountBounds DEF Uncounted
  <2>2. \A w \in PoolThread : worker[w] \notin {"taken"}
    BY <1>3
  <2>3. Taken = 0
    BY <2>2, PoolFinite, CountBounds DEF Taken
  <2>4. Len(tasks) \in Nat
    BY DEF PoolInv, PoolTypeOK
  <2>5. Balance = Len(tasks)
    BY <2>1, <2>3, <2>4 DEF Balance
  <2> QED
    BY <1>3, <2>4, <2>5 DEF PoolInv, PoolCounts, AsSize
<1> QED
  BY <1>1, <1>2, <1>3 DEF PoolCountsSettle

\* The counters by which the pool decides to grow agree with the threads and
\* the queue whenever no call and no thread is between changing the one and the
\* other: put_task counts a task after it is queued and the mutex released,
\* thread_routine uncounts it after the mutex is released, and the thread may be
\* the faster of the two.
THEOREM CountersSettle == PoolSpec => []PoolCountsSettle
<1>1. PoolSpec => []PoolInv
  BY InitPool, StepPool, PTL DEF PoolSpec
<1> QED
  BY <1>1, CountsSettled, PTL

HIDE PoolAssumption

-----------------------------------------------------------------------------
(***************************************************************************)
(* The atomic list is whole, for any number of threads that append and     *)
(* iterate, and any number of removals, as long as the last node is not    *)
(* removed: what a walk from the head finds are the nodes kept, in order,  *)
(* up to the first that has not been linked.                               *)
(*                                                                         *)
(* The invariant speaks of positions in the order of the appends.  Spots   *)
(* are the positions of the nodes kept, and 0 for the head; of two spots   *)
(* with none between, the place of the first has the node of the second,   *)
(* or the append of the second is about to store it there (Chain).  So an  *)
(* append never writes where a removal works: a removal's node has a       *)
(* successor, and an append under way stands before a node that has none   *)
(* stored.                                                                 *)
(***************************************************************************)
AppendT == [pc : {"idle", "exchange", "link", "done"}, node : NodeId \cup {Null},
            prev : Int]
RemoveT == [pc : {"idle", "next", "exchange", "relink", "delete"}, place : Int,
            node : NodeId \cup {Null}, after : NodeId \cup {Null}]
ReaderT == [pc : {"idle", "read", "null", "done"}, at : Int, stop : Int]

ListType ==
  /\ next \in [{HeadPlace} \cup NodeId -> {Null} \cup NodeId]
  /\ last \in {HeadPlace} \cup NodeId
  /\ order \in Seq(NodeId) /\ freed \in SUBSET NodeId
  /\ append \in [Appender -> AppendT] /\ remove \in RemoveT
  /\ reader \in [Reader -> ReaderT]

\* Each append has a node of its own, numbered in the order of their allocation.
Allotted == {t \in Appender : append[t].node # Null}
Ids ==
  /\ \A t \in Appender : append[t].pc = "idle" <=> append[t].node = Null
  /\ \A t \in Appender : append[t].node <= Cardinality(Allotted)
  /\ \A t, u \in Appender : append[t].node = append[u].node /\ append[t].node # Null => t = u

\* In the order are the nodes whose append has exchanged the tail.  No other has
\* a successor.
Orders ==
  /\ \A i, j \in DOMAIN order : order[i] = order[j] => i = j
  /\ \A i \in DOMAIN order : \E t \in Appender :
       append[t].node = order[i] /\ append[t].pc \in {"link", "done"}
  /\ \A n \in NodeId : (\A i \in DOMAIN order : order[i] # n) => next[n] = Null
  /\ \A n \in freed : \E i \in DOMAIN order : order[i] = n
  /\ remove.pc = "delete" => \E i \in DOMAIN order : order[i] = remove.node

\* The place after a position, and the positions that follow one another.
At(s, i) == IF i = 0 THEN HeadPlace ELSE s[i]
Adjacent(I, i, j) == i \in {0} \cup I /\ j \in I /\ i < j /\ \A k \in I : ~(i < k /\ k < j)
Greatest(I, i) == i \in {0} \cup I /\ \A k \in I : k <= i

Links(t, i, j) == append[t].pc = "link" /\ append[t].node = order[j] /\ append[t].prev = At(order, i)

Stored ==
  \A i \in {0} \cup KeptPlaces, j \in KeptPlaces : Adjacent(KeptPlaces, i, j) =>
    \/ next[At(order, i)] = order[j]
    \/ next[At(order, i)] = Null /\ \E t \in Appender : Links(t, i, j)

Awaited ==
  \A t \in Appender : append[t].pc = "link" =>
    \E i \in {0} \cup KeptPlaces, j \in KeptPlaces :
      Adjacent(KeptPlaces, i, j) /\ Links(t, i, j) /\ next[At(order, i)] = Null

Ended ==
  \A i \in {0} \cup KeptPlaces :
    Greatest(KeptPlaces, i) => next[At(order, i)] = Null /\ last = At(order, i)

Chain == Stored /\ Awaited /\ Ended

\* A removal has a node with a successor.
Takes(i, j, k) ==
  /\ Adjacent(KeptPlaces, i, j) /\ Adjacent(KeptPlaces, j, k)
  /\ remove.place = At(order, i) /\ remove.node = order[j]
  /\ next[At(order, i)] = order[j] /\ next[order[j]] = order[k]
  /\ remove.pc # "next" => remove.after = order[k]

Removing ==
  remove.pc \in {"next", "exchange", "relink"} =>
    \E i \in {0} \cup KeptPlaces, j, k \in KeptPlaces : Takes(i, j, k)

Reading ==
  \A r \in Reader : reader[r].pc = "read" =>
    remove.pc = "idle" /\ \E i \in {0} \cup KeptPlaces : reader[r].at = At(order, i)

WholeInv == ListType /\ Ids /\ Orders /\ Chain /\ Removing /\ Reading /\ touched = {}

-----------------------------------------------------------------------------
(* Positions.                                                              *)

\* A position that is not the greatest is followed by another.
LEMMA Follows ==
  ASSUME NEW I \in SUBSET (Nat \ {0}), NEW i \in {0} \cup I, ~Greatest(I, i)
  PROVE  \E j \in I : Adjacent(I, i, j)
<1> DEFINE T == {k \in I : i < k}
<1>1. T \in SUBSET Nat /\ T # {}
  <2>1. PICK k \in I : ~(k <= i)
    BY DEF Greatest
  <2>2. k \in Nat /\ i \in Nat /\ i < k
    BY <2>1
  <2> QED
    BY <2>2
<1>2. PICK j \in T : \A k \in T : j <= k
  <2> HIDE DEF T
  <2> QED
    BY <1>1, LeastNat
<1> QED
  BY <1>2 DEF Adjacent

\* There is a greatest.
LEMMA HasGreatest ==
  ASSUME NEW n \in Nat, NEW I \in SUBSET (1 .. n)
  PROVE  \E i \in {0} \cup I : Greatest(I, i)
<1> DEFINE T == {0} \cup I
<1>1. T \in SUBSET Nat /\ T # {} /\ \A k \in T : k <= n
  OBVIOUS
<1>2. \E i \in T : \A k \in T : k <= i
  <2> HIDE DEF T
  <2> QED
    BY <1>1, GreatestNat
<1> QED
  BY <1>2 DEF Greatest

\* Each position has one before it and one after it, at most.
LEMMA AdjacentOnce ==
  ASSUME NEW I \in SUBSET (Nat \ {0}), NEW i \in {0} \cup I, NEW j \in I, Adjacent(I, i, j)
  PROVE  /\ \A m \in {0} \cup I : Adjacent(I, m, j) => m = i
         /\ \A m \in I : Adjacent(I, i, m) => m = j
<1>1. ASSUME NEW m \in {0} \cup I, Adjacent(I, m, j) PROVE m = i
  <2>1. i \in Nat /\ m \in Nat /\ i < j /\ m < j
    BY <1>1 DEF Adjacent
  <2>2. ~(i < m) /\ ~(m < i)
    BY <1>1, <2>1 DEF Adjacent
  <2> QED
    BY <2>1, <2>2
<1>2. ASSUME NEW m \in I, Adjacent(I, i, m) PROVE m = j
  <2>1. j \in Nat /\ m \in Nat /\ i < j /\ i < m
    BY <1>2 DEF Adjacent
  <2>2. ~(j < m) /\ ~(m < j)
    BY <1>2, <2>1 DEF Adjacent
  <2> QED
    BY <2>1, <2>2
<1> QED
  BY <1>1, <1>2

\* What types say of positions and nodes.
LEMMA Spots ==
  ASSUME ListType
  PROVE  /\ Len(order) \in Nat /\ DOMAIN order = 1 .. Len(order)
         /\ KeptPlaces \in SUBSET (1 .. Len(order)) /\ KeptPlaces \in SUBSET (Nat \ {0})
         /\ KeptPlaces \in SUBSET DOMAIN order
         /\ \A i \in DOMAIN order : order[i] \in NodeId /\ At(order, i) = order[i] /\ i # 0
         /\ NodeId \in SUBSET (Nat \ {0}) /\ At(order, 0) = HeadPlace
         /\ \A i \in KeptPlaces : order[i] \notin freed
<1>1. order \in Seq(NodeId) /\ NodeId \in SUBSET (Nat \ {0})
  BY DEF ListType, NodeId
<1>2. Len(order) \in Nat /\ DOMAIN order = 1 .. Len(order)
  BY <1>1
<1> QED
  BY <1>1, <1>2 DEF KeptPlaces, At

-----------------------------------------------------------------------------
(* A walk.                                                                 *)

Smaller(a, b) == IF a < b THEN a ELSE b

\* A walk goes along the nodes of a sequence as far as they are linked.
LEMMA WalkIs ==
  ASSUME NEW K \in Seq(NodeId), NEW L \in Nat, L <= Len(K),
         \A k \in 0 .. L - 1 : next[At(K, k)] = K[k + 1],
         next[At(K, L)] = Null
  PROVE  \A k \in Nat : Walk[k] = SubSeq(K, 1, Smaller(k, L))
<1> DEFINE Further(w) == LET node == next[IF w = <<>> THEN HeadPlace ELSE w[Len(w)]]
                      IN  IF node = Null THEN w ELSE Append(w, node)
           g == [k \in Nat |-> SubSeq(K, 1, Smaller(k, L))]
<1>1. Len(K) \in Nat /\ \A k \in 1 .. Len(K) : K[k] \in NodeId /\ K[k] # Null
  <2>1. \A n \in NodeId : n # Null
    BY DEF NodeId, Null
  <2> QED
    BY <2>1
<1>2. \A k \in 0 .. Len(K) : /\ SubSeq(K, 1, k) \in Seq(NodeId) /\ Len(SubSeq(K, 1, k)) = k
                             /\ \A i \in 1 .. k : SubSeq(K, 1, k)[i] = K[i]
  BY <1>1
<1>3. \A k \in 0 .. Len(K) :
        At(K, k) = IF SubSeq(K, 1, k) = <<>> THEN HeadPlace ELSE SubSeq(K, 1, k)[Len(SubSeq(K, 1, k))]
  BY <1>1, <1>2 DEF At
<1>4. \A k \in 0 .. L - 1 : Append(SubSeq(K, 1, k), K[k + 1]) = SubSeq(K, 1, k + 1)
  <2>1. SUFFICES ASSUME NEW k \in 0 .. L - 1
                 PROVE  Append(SubSeq(K, 1, k), K[k + 1]) = SubSeq(K, 1, k + 1)
    OBVIOUS
  <2>2. k \in 0 .. Len(K) /\ k + 1 \in 0 .. Len(K) /\ k + 1 \in 1 .. Len(K)
    BY <1>1, SMTT(60)
  <2> QED
    BY <1>1, <2>2
<1>5. \A k \in Nat \ {0} : SubSeq(K, 1, Smaller(k, L)) = Further(SubSeq(K, 1, Smaller(k - 1, L)))
  <2>1. SUFFICES ASSUME NEW k \in Nat \ {0}
                 PROVE  SubSeq(K, 1, Smaller(k, L)) = Further(SubSeq(K, 1, Smaller(k - 1, L)))
    OBVIOUS
  <2>2. CASE k <= L
    <3>1. Smaller(k, L) = k /\ Smaller(k - 1, L) = k - 1 /\ k - 1 \in 0 .. L - 1
          /\ k - 1 \in 0 .. Len(K) /\ k \in 1 .. Len(K) /\ k - 1 + 1 = k
      BY <1>1, <2>2 DEF Smaller
    <3>2. next[At(K, k - 1)] = K[k] /\ K[k] # Null
      BY <1>1, <3>1
    <3>3. Append(SubSeq(K, 1, k - 1), K[k]) = SubSeq(K, 1, k)
      BY <1>4, <3>1
    <3> QED
      BY <1>3, <3>1, <3>2, <3>3
  <2>3. CASE ~(k <= L)
    <3>1. Smaller(k, L) = L /\ Smaller(k - 1, L) = L /\ L \in 0 .. Len(K)
      BY <1>1, <2>3 DEF Smaller
    <3> QED
      BY <1>3, <3>1
  <2> QED
    BY <2>2, <2>3
<1>6. SubSeq(K, 1, Smaller(0, L)) = <<>>
  <2>1. Smaller(0, L) = 0
    BY DEF Smaller
  <2> QED
    BY <1>2, <2>1
<1>7. g = [k \in Nat |-> IF k = 0 THEN <<>> ELSE Further(g[k - 1])]
  <2>1. ASSUME NEW k \in Nat PROVE g[k] = IF k = 0 THEN <<>> ELSE Further(g[k - 1])
    <3>1. CASE k = 0
      BY <1>6, <3>1
    <3>2. CASE k # 0
      <4>1. k \in Nat \ {0} /\ k - 1 \in Nat
        BY <3>2
      <4>2. g[k - 1] = SubSeq(K, 1, Smaller(k - 1, L)) /\ g[k] = SubSeq(K, 1, Smaller(k, L))
        BY <4>1
      <4> HIDE DEF g, Further
      <4> QED
        BY <1>5, <3>2, <4>1, <4>2
    <3> QED
      BY <3>1, <3>2
  <2> HIDE DEF Further
  <2> QED
    BY <2>1
<1>8. Walk = [k \in Nat |-> IF k = 0 THEN <<>> ELSE Further(Walk[k - 1])]
  <2>1. \E f : f = [k \in Nat |-> IF k = 0 THEN <<>> ELSE Further(f[k - 1])]
    <3> HIDE DEF g, Further
    <3> QED
      BY <1>7
  <2> QED
    BY <2>1, Zenon DEF Walk
<1> DEFINE same == {k \in Nat : Walk[k] = g[k]}
<1>9. same = Nat
  <2>1. 0 \in same
    <3>1. Walk[0] = <<>> /\ g[0] = <<>>
      <4> HIDE DEF Further, g
      <4> QED
        BY <1>7, <1>8
    <3> QED
      BY <3>1
  <2>2. ASSUME NEW k \in same PROVE k + 1 \in same
    <3>1. k \in Nat /\ k + 1 \in Nat /\ k + 1 # 0 /\ k + 1 - 1 = k /\ Walk[k] = g[k]
      OBVIOUS
    <3>2. Walk[k + 1] = Further(Walk[k]) /\ g[k + 1] = Further(g[k])
      <4> HIDE DEF Further, g, same
      <4> QED
        BY <1>7, <1>8, <3>1
    <3> QED
      BY <3>1, <3>2
  <2> HIDE DEF same
  <2> QED
    BY <2>1, <2>2, NatSet DEF same
<1> QED
  BY <1>9


\* The k-th position kept, and 0 before the first.
Spot(I, k) == IF k = 0 THEN 0 ELSE Nth(I, k)

LEMMA KeptIs ==
  ASSUME ListType, Orders
  PROVE  /\ Kept \in Seq(NodeId) /\ Len(Kept) \in Nat /\ Len(Kept) <= Cardinality(NodeId)
         /\ \A k \in 1 .. Len(Kept) : Spot(KeptPlaces, k) \in KeptPlaces
                                      /\ Kept[k] = order[Spot(KeptPlaces, k)]
         /\ \A k \in 0 .. Len(Kept) : Spot(KeptPlaces, k) \in {0} \cup KeptPlaces
                                      /\ At(Kept, k) = At(order, Spot(KeptPlaces, k))
         /\ \A k \in 0 .. Len(Kept) - 1 :
              Adjacent(KeptPlaces, Spot(KeptPlaces, k), Spot(KeptPlaces, k + 1))
         /\ Greatest(KeptPlaces, Spot(KeptPlaces, Len(Kept)))
         /\ \A i \in KeptPlaces : \E k \in 1 .. Len(Kept) : Spot(KeptPlaces, k) = i
<1> DEFINE I == KeptPlaces
           n == Len(Kept)
<1>1. /\ order \in Seq(NodeId) /\ I \in SUBSET DOMAIN order /\ I \in SUBSET (Nat \ {0})
      /\ \A i, j \in DOMAIN order : order[i] = order[j] => i = j
      /\ \A i \in DOMAIN order : order[i] \in NodeId
  BY Spots DEF ListType, Orders
<1>2. /\ Kept \in Seq(NodeId) /\ n = Cardinality(I) /\ Cardinality(I) \in Nat
      /\ \A k \in DOMAIN Kept : Nth(I, k) \in I /\ Kept[k] = order[Nth(I, k)]
      /\ \A k, l \in DOMAIN Kept : k < l => Nth(I, k) < Nth(I, l)
      /\ \A i \in I : \E k \in DOMAIN Kept : Nth(I, k) = i
  BY <1>1, PickedMembers DEF Kept
<1> HIDE DEF I
<1>3. n \in Nat /\ DOMAIN Kept = 1 .. n
  BY <1>2
<1>4. n <= Cardinality(NodeId)
  <2>1. IsFiniteSet(NodeId)
    <3>1. 1 \in Int /\ Cardinality(Appender) \in Int
      BY ListAssumption, FS_CardinalityType
    <3> QED
      BY <3>1, FS_Interval DEF NodeId
  <2>2. ASSUME NEW k \in DOMAIN Kept, NEW l \in DOMAIN Kept, Kept[k] = Kept[l] PROVE k = l
    <3>1. Nth(I, k) = Nth(I, l) /\ Nth(I, k) \in Nat
      BY <1>1, <1>2, <2>2
    <3>2. k \in Nat /\ l \in Nat /\ ~(k < l) /\ ~(l < k)
      BY <1>2, <1>3, <2>2, <3>1
    <3> QED
      BY <3>2
  <2> QED
    BY <1>2, <2>1, <2>2, DistinctLength
<1>5. \A k \in 1 .. n : k # 0 /\ Spot(I, k) = Nth(I, k) /\ Spot(I, k) \in I
                        /\ Kept[k] = order[Spot(I, k)]
  BY <1>2, <1>3 DEF Spot
<1>6. \A k \in 0 .. n : Spot(I, k) \in {0} \cup I /\ At(Kept, k) = At(order, Spot(I, k))
  <2>1. ASSUME NEW k \in 1 .. n PROVE At(Kept, k) = At(order, Spot(I, k))
    <3>1. k # 0 /\ Spot(I, k) # 0
      BY <1>1, <1>5
    <3> QED
      BY <1>5, <3>1 DEF At
  <2>2. Spot(I, 0) = 0 /\ At(Kept, 0) = HeadPlace /\ At(order, 0) = HeadPlace
    BY DEF Spot, At
  <2>3. \A k \in 0 .. n : k = 0 \/ k \in 1 .. n
    BY <1>3
  <2> QED
    BY <1>5, <2>1, <2>2, <2>3
<1>7. \A i \in I : \E k \in 1 .. n : Spot(I, k) = i
  BY <1>2, <1>3, <1>5
<1>8. \A k, l \in 0 .. n : k < l => Spot(I, k) < Spot(I, l)
  <2>1. SUFFICES ASSUME NEW k \in 0 .. n, NEW l \in 0 .. n, k < l
                 PROVE  Spot(I, k) < Spot(I, l)
    OBVIOUS
  <2>2. l \in 1 .. n /\ Spot(I, l) \in Nat \ {0}
    BY <1>1, <1>3, <1>5, <2>1
  <2>3. CASE k = 0
    BY <2>2, <2>3 DEF Spot
  <2>4. CASE k # 0
    <3>1. k \in 1 .. n
      BY <1>3, <2>4
    <3> QED
      BY <1>2, <1>3, <1>5, <2>1, <2>2, <3>1, SMTT(60)
  <2> QED
    BY <2>3, <2>4
<1>9. \A k \in 0 .. n - 1 : Adjacent(I, Spot(I, k), Spot(I, k + 1))
  <2>1. SUFFICES ASSUME NEW k \in 0 .. n - 1 PROVE Adjacent(I, Spot(I, k), Spot(I, k + 1))
    OBVIOUS
  <2>2. k \in 0 .. n /\ k + 1 \in 0 .. n /\ k + 1 \in 1 .. n /\ k < k + 1
    BY <1>3
  <2>3. /\ Spot(I, k) < Spot(I, k + 1) /\ Spot(I, k) \in {0} \cup I /\ Spot(I, k + 1) \in I
    BY <1>5, <1>6, <1>8, <2>2
  <2>4. ASSUME NEW i \in I, Spot(I, k) < i, i < Spot(I, k + 1) PROVE FALSE
    <3>1. PICK m \in 1 .. n : Spot(I, m) = i
      BY <1>7
    <3>2. m \in Nat /\ m \in 0 .. n /\ i \in Nat /\ Spot(I, k) \in Nat /\ Spot(I, k + 1) \in Nat
      BY <1>1, <1>3, <2>3
    <3>3. ~(m < k) /\ m # k
      BY <1>8, <2>2, <2>4, <3>1, <3>2
    <3>4. ~(k + 1 < m) /\ m # k + 1
      BY <1>8, <2>2, <2>4, <3>1, <3>2
    <3> QED
      BY <3>2, <3>3, <3>4
  <2> QED
    BY <2>3, <2>4 DEF Adjacent
<1>10. Greatest(I, Spot(I, n))
  <2>1. n \in 0 .. n
    BY <1>3
  <2>2. ASSUME NEW i \in I PROVE i <= Spot(I, n)
    <3>1. PICK m \in 1 .. n : Spot(I, m) = i
      BY <1>7
    <3>2. m \in 0 .. n /\ (m = n \/ m < n)
      <4>1. PICK k \in Nat : k = n
        BY <1>3
      <4>2. m \in 1 .. k
        BY <4>1
      <4>3. m \in 0 .. k /\ (m = k \/ m < k)
        BY <4>2
      <4> QED
        BY <4>1, <4>3, SMTT(60)
    <3>4. Spot(I, n) \in {0} \cup I
      BY <1>6, <2>1
    <3>5. Spot(I, n) \in Nat /\ i \in Nat
      BY <1>1, <3>4
    <3>3. i = Spot(I, n) \/ i < Spot(I, n)
      BY <1>8, <2>1, <3>1, <3>2
    <3> QED
      BY <3>3, <3>5
  <2> QED
    BY <1>6, <2>1, <2>2 DEF Greatest
<1> QED
  BY <1>2, <1>3, <1>4, <1>5, <1>6, <1>7, <1>9, <1>10 DEF I

\* What a walk finds: the nodes kept, up to the first that is still to be linked.
LEMMA ReachedIs ==
  ASSUME WholeInv
  PROVE  \E L \in 0 .. Len(Kept) :
           /\ Reached = SubSeq(Kept, 1, L)
           /\ \A k \in 0 .. L - 1 : next[At(Kept, k)] = Kept[k + 1]
           /\ next[At(Kept, L)] = Null
           /\ L < Len(Kept) =>
                \E t \in Appender : append[t].pc = "link" /\ append[t].node = Kept[L + 1]
<1> DEFINE I == KeptPlaces
           n == Len(Kept)
           linking(k) == \E t \in Appender : append[t].pc = "link" /\ append[t].node = Kept[k]
           G == {k \in 1 .. n : linking(k)}
<1>0. ListType /\ Orders /\ Stored /\ Awaited /\ Ended
  BY DEF WholeInv, Chain
<1>1. /\ Kept \in Seq(NodeId) /\ n \in Nat /\ n <= Cardinality(NodeId)
      /\ \A k \in 1 .. n : Spot(I, k) \in I /\ Kept[k] = order[Spot(I, k)]
      /\ \A k \in 0 .. n : Spot(I, k) \in {0} \cup I /\ At(Kept, k) = At(order, Spot(I, k))
      /\ \A k \in 0 .. n - 1 : Adjacent(I, Spot(I, k), Spot(I, k + 1))
      /\ Greatest(I, Spot(I, n))
  BY <1>0, KeptIs
<1>2. /\ I \in SUBSET (Nat \ {0}) /\ I \in SUBSET DOMAIN order
      /\ \A i, j \in DOMAIN order : order[i] = order[j] => i = j
  BY <1>0, Spots DEF Orders
<1>3. PICK L \in 0 .. n : /\ \A k \in 1 .. L : ~linking(k)
                          /\ L < n => linking(L + 1)
  <2>1. CASE G = {}
    <3>1. n \in 0 .. n /\ ~(n < n)
      BY <1>1
    <3> QED
      BY <2>1, <3>1
  <2>2. CASE G # {}
    <3>1. G \in SUBSET Nat
      OBVIOUS
    <3>2. PICK m \in G : \A k \in G : m <= k
      <4> HIDE DEF G
      <4> QED
        BY <2>2, <3>1, LeastNat
    <3>3. m \in 1 .. n /\ linking(m) /\ m \in Nat
      BY <3>2
    <3>4. m - 1 \in 0 .. n /\ m - 1 + 1 = m
      BY <1>1, <3>3
    <3>5. ASSUME NEW k \in 1 .. m - 1 PROVE ~linking(k)
      <4>1. k \in 1 .. n /\ ~(m <= k)
        BY <1>1, <3>3
      <4> QED
        BY <3>2, <4>1
    <3> HIDE DEF linking, G
    <3> QED
      BY <3>3, <3>4, <3>5
  <2> QED
    BY <2>1, <2>2
<1>4. ASSUME NEW k \in 0 .. L - 1 PROVE next[At(Kept, k)] = Kept[k + 1]
  <2>1. k \in 0 .. n - 1 /\ k \in 0 .. n /\ k + 1 \in 1 .. L /\ k + 1 \in 1 .. n
    BY <1>1, <1>3
  <2>2. PICK i \in {0} \cup I, j \in I : i = Spot(I, k) /\ j = Spot(I, k + 1)
    BY <1>1, <2>1
  <2>3. Adjacent(I, i, j) /\ At(Kept, k) = At(order, i) /\ Kept[k + 1] = order[j]
    BY <1>1, <2>1, <2>2
  <2>4. ~linking(k + 1)
    BY <1>3, <2>1
  <2>5. \A t \in Appender : ~Links(t, i, j)
    BY <2>3, <2>4 DEF Links
  <2> QED
    BY <1>0, <2>3, <2>5 DEF Stored
<1>5. next[At(Kept, L)] = Null
  <2>1. CASE L = n
    <3>1. n \in 0 .. n
      BY <1>1
    <3> QED
      BY <1>0, <1>1, <2>1, <3>1 DEF Ended
  <2>2. CASE L # n
    <3>1. L < n /\ L \in 0 .. n - 1 /\ L + 1 \in 1 .. n
      BY <1>1, <1>3, <2>2
    <3>2. PICK t \in Appender : append[t].pc = "link" /\ append[t].node = Kept[L + 1]
      BY <1>3, <3>1
    <3>3. PICK i \in {0} \cup I, j \in I :
            Adjacent(I, i, j) /\ Links(t, i, j) /\ next[At(order, i)] = Null
      BY <1>0, <3>2 DEF Awaited
    <3>4. PICK p \in {0} \cup I, q \in I : p = Spot(I, L) /\ q = Spot(I, L + 1)
      BY <1>1, <3>1
    <3>5. Adjacent(I, p, q) /\ At(Kept, L) = At(order, p) /\ Kept[L + 1] = order[q]
      BY <1>1, <3>1, <3>4
    <3>6. j = q
      BY <1>2, <3>2, <3>3, <3>5 DEF Links
    <3>7. i = p
      BY <1>2, <3>3, <3>5, <3>6, AdjacentOnce
    <3> QED
      BY <3>3, <3>5, <3>7
  <2> QED
    BY <2>1, <2>2
<1>6. Reached = SubSeq(Kept, 1, L)
  <2>1. L \in Nat /\ L <= Len(Kept)
    BY <1>1
  <2>2. \A k \in Nat : Walk[k] = SubSeq(Kept, 1, Smaller(k, L))
    BY <1>1, <1>4, <1>5, <2>1, WalkIs
  <2>3. PICK c \in Nat : c = Cardinality(NodeId)
    <3>1. Cardinality(Appender) \in Nat
      BY ListAssumption, FS_CardinalityType
    <3>2. 1 \in Int /\ Cardinality(Appender) \in Int
      BY <3>1
    <3>3. IsFiniteSet(NodeId)
      BY <3>2, FS_Interval DEF NodeId
    <3> QED
      BY <3>3, FS_CardinalityType
  <2>4. L <= c
    BY <1>1, <2>1, <2>3
  <2>5. Smaller(c, L) = L
    BY <2>1, <2>4 DEF Smaller
  <2> QED
    BY <2>2, <2>3, <2>5 DEF Reached
<1> QED
  BY <1>3, <1>4, <1>5, <1>6

LEMMA WholeIs == WholeInv => ListWhole
<1> SUFFICES ASSUME WholeInv PROVE ListWhole
  OBVIOUS
<1> DEFINE n == Len(Kept)
           linking == {append[t].node : t \in {u \in Appender : append[u].pc = "link"}}
<1>1. ListType /\ Orders /\ Ended /\ touched = {}
  BY DEF WholeInv, Chain
<1>2. PICK L \in 0 .. n :
        /\ Reached = SubSeq(Kept, 1, L)
        /\ L < n => \E t \in Appender : append[t].pc = "link" /\ append[t].node = Kept[L + 1]
  BY ReachedIs
<1>3. Kept \in Seq(NodeId) /\ n \in Nat
  BY <1>1, KeptIs
<1>4. Len(Reached) = L /\ L \in Nat /\ L <= n
  BY <1>2, <1>3
<1>5. L < n => Kept[L + 1] \in linking
  BY <1>2
<1>6. last = IF Kept = <<>> THEN HeadPlace ELSE Kept[n]
  <2>1. PICK i \in {0} \cup KeptPlaces : i = Spot(KeptPlaces, n) /\ Greatest(KeptPlaces, i)
                                         /\ At(Kept, n) = At(order, i)
    <3>1. n \in 0 .. n
      BY <1>3
    <3> QED
      BY <1>1, <3>1, KeptIs
  <2>2. last = At(Kept, n)
    BY <1>1, <2>1 DEF Ended
  <2>3. Kept = <<>> <=> n = 0
    BY <1>3
  <2> QED
    BY <2>2, <2>3 DEF At
<1> QED
  BY <1>1, <1>2, <1>4, <1>5, <1>6 DEF ListWhole


-----------------------------------------------------------------------------
(* Steps.                                                                  *)

USE DEF Null, HeadPlace

\* Different positions have different places, and none kept is a freed one.
LEMMA Places ==
  ASSUME ListType, Orders
  PROVE  /\ \A p, q \in {0} \cup DOMAIN order : At(order, p) = At(order, q) => p = q
         /\ \A p \in {0} \cup DOMAIN order : At(order, p) \in {0} \cup NodeId
         /\ \A p \in {0} \cup KeptPlaces :
              p \in {0} \cup DOMAIN order /\ At(order, p) \notin freed
<1>1. /\ KeptPlaces \in SUBSET DOMAIN order /\ NodeId \in SUBSET (Nat \ {0})
      /\ \A i \in DOMAIN order : order[i] \in NodeId /\ At(order, i) = order[i] /\ i # 0
      /\ At(order, 0) = 0 /\ \A i \in KeptPlaces : order[i] \notin freed
  BY Spots
<1>2. \A i, j \in DOMAIN order : order[i] = order[j] => i = j
  BY DEF Orders
<1>3. freed \in SUBSET NodeId
  BY DEF ListType
<1> QED
  BY <1>1, <1>2, <1>3

\* Appends that are not under way are of no concern to the chain.
LEMMA ChainKept ==
  ASSUME Chain, UNCHANGED <<next, last, order, KeptPlaces>>,
         \A t \in Appender : /\ append'[t].pc = "link" <=> append[t].pc = "link"
                             /\ append[t].pc = "link" => append'[t] = append[t]
  PROVE  Chain'
<1>1. \A t \in Appender : \A i, j : Links(t, i, j)' <=> Links(t, i, j)
  BY DEF Links
<1>2. Stored'
  BY <1>1 DEF Chain, Stored
<1>3. Awaited'
  BY <1>1 DEF Chain, Awaited
<1>4. Ended'
  BY DEF Chain, Ended
<1> QED
  BY <1>2, <1>3, <1>4 DEF Chain

LEMMA RemovingKept ==
  ASSUME Removing, UNCHANGED <<next, order, remove, KeptPlaces>>
  PROVE  Removing'
BY DEF Removing, Takes

LEMMA ReadingKept ==
  ASSUME Reading, UNCHANGED <<order, remove, reader, KeptPlaces>>
  PROVE  Reading'
BY DEF Reading

LEMMA InitWhole == ListInit => WholeInv
<1> SUFFICES ASSUME ListInit PROVE WholeInv
  OBVIOUS
<1>1. ListType
  BY DEF ListInit, ListType, AppendT, RemoveT, ReaderT, NotAppending, NotRemoving, NotReading,
         NoPlace
<1>2. \A t \in Appender : append[t].pc = "idle" /\ append[t].node = 0
  BY DEF ListInit, NotAppending
<1>3. Ids
  <2>1. Allotted = {}
    BY <1>2 DEF Allotted
  <2> QED
    BY <1>2, <2>1, FS_EmptySet DEF Ids
<1>4. DOMAIN order = {} /\ KeptPlaces = {}
  BY DEF ListInit, KeptPlaces
<1>5. Orders
  BY <1>4 DEF ListInit, Orders, NotRemoving
<1>6. Chain
  BY <1>2, <1>4 DEF ListInit, Chain, Stored, Awaited, Ended, At
<1>7. Removing /\ Reading
  BY DEF ListInit, Removing, Reading, NotRemoving, NotReading
<1> QED
  BY <1>1, <1>3, <1>5, <1>6, <1>7 DEF WholeInv, ListInit

LEMMA StartStep ==
  ASSUME WholeInv, NEW t \in Appender, AppendStart(t)
  PROVE  WholeInv'
<1>0. ListType /\ Ids /\ Orders /\ Chain /\ Removing /\ Reading /\ touched = {}
  BY DEF WholeInv
<1>1. /\ append[t].pc = "idle" /\ append[t].node = 0
      /\ UNCHANGED <<next, last, order, freed, remove, removes, reader, touched>>
  BY <1>0 DEF AppendStart, Ids
<1>2. KeptPlaces' = KeptPlaces
  BY <1>1 DEF KeptPlaces
<1>3. PICK n \in Nat : n = Cardinality(Allotted) /\ n + 1 \in NodeId
  <2>1. IsFiniteSet(Appender) /\ Allotted \in SUBSET (Appender \ {t})
    BY <1>1, ListAssumption DEF Allotted
  <2>2. IsFiniteSet(Appender \ {t}) /\ Cardinality(Appender \ {t}) = Cardinality(Appender) - 1
    BY <2>1, FS_RemoveElement
  <2>3. Cardinality(Allotted) \in Nat /\ Cardinality(Allotted) <= Cardinality(Appender) - 1
        /\ Cardinality(Appender) \in Nat
    BY <2>1, <2>2, FS_Subset, FS_CardinalityType
  <2> QED
    BY <2>3 DEF NodeId
<1>4. append' = [append EXCEPT ![t] = [pc |-> "exchange", node |-> 1 + n, prev |-> last]]
  BY <1>3 DEF AppendStart, Allotted
<1>5. /\ append'[t].pc = "exchange" /\ append'[t].node = n + 1
      /\ \A u \in Appender \ {t} : append'[u] = append[u]
      /\ append \in [Appender -> AppendT] /\ last \in Int
  <2>1. NodeId \in SUBSET Nat
    BY DEF NodeId
  <2> QED
    BY <1>0, <1>3, <1>4, <2>1 DEF ListType
<1>6. ListType'
  <2>1. [pc |-> "exchange", node |-> 1 + n, prev |-> last] \in AppendT
    BY <1>3, <1>5 DEF AppendT
  <2>2. append' \in [Appender -> AppendT]
    BY <1>4, <1>5, <2>1
  <2> QED
    BY <1>0, <1>1, <2>2 DEF ListType
<1>7. Ids'
  <2>1. Allotted' = Allotted \cup {t} /\ t \notin Allotted
    BY <1>1, <1>3, <1>5 DEF Allotted
  <2>2. Cardinality(Allotted') = n + 1
    <3>1. IsFiniteSet(Allotted)
      BY ListAssumption, FS_Subset DEF Allotted
    <3> QED
      BY <1>3, <2>1, <3>1, FS_AddElement
  <2>3. \A u \in Appender : append[u].node \in Nat /\ append[u].node <= n
    <3>1. \A u \in Appender : append[u] \in AppendT
      BY <1>5
    <3>2. NodeId \in SUBSET Nat
      BY DEF NodeId
    <3>3. \A u \in Appender : append[u].node \in NodeId \cup {0}
      BY <3>1 DEF AppendT
    <3>4. \A u \in Appender : append[u].node <= n
      BY <1>0, <1>3 DEF Ids
    <3>5. \A m \in NodeId \cup {0} : m \in Nat
      BY <3>2
    <3> QED
      BY <3>3, <3>4, <3>5
  <2>4. \A u \in Appender : append'[u].node <= n + 1
    BY <1>3, <1>5, <2>3
  <2>5. \A u \in Appender : append'[u].pc = "idle" <=> append'[u].node = 0
    BY <1>0, <1>3, <1>5 DEF Ids
  <2>6. ASSUME NEW u \in Appender, NEW v \in Appender, append'[u].node = append'[v].node,
               append'[u].node # 0
        PROVE  u = v
    <3>1. \A w \in Appender \ {t} : append'[w].node # n + 1
      BY <1>3, <1>5, <2>3
    <3> QED
      BY <1>0, <1>5, <2>6, <3>1 DEF Ids
  <2> QED
    BY <2>2, <2>4, <2>5, <2>6 DEF Ids
<1>8. Orders'
  <2>1. \A u \in Appender : append[u].pc \in {"link", "done"} => append'[u] = append[u]
    BY <1>1, <1>5
  <2>2. \A i \in DOMAIN order : \E u \in Appender :
           append'[u].node = order[i] /\ append'[u].pc \in {"link", "done"}
    BY <1>0, <2>1 DEF Orders
  <2> QED
    BY <1>0, <1>1, <2>2 DEF Orders
<1>9. Chain'
  <2>1. \A u \in Appender : /\ append'[u].pc = "link" <=> append[u].pc = "link"
                            /\ append[u].pc = "link" => append'[u] = append[u]
    BY <1>1, <1>5
  <2> QED
    BY <1>0, <1>1, <1>2, <2>1, ChainKept
<1>10. Removing' /\ Reading'
  BY <1>0, <1>1, <1>2, RemovingKept, ReadingKept
<1> QED
  BY <1>0, <1>1, <1>6, <1>7, <1>8, <1>9, <1>10 DEF WholeInv


\* The tail is another, and the node last loaded is given back for the next try.
LEMMA RetryStep ==
  ASSUME WholeInv, NEW t \in Appender, AppendExchange(t), last # append[t].prev
  PROVE  WholeInv'
<1>0. ListType /\ Ids /\ Orders /\ Chain /\ Removing /\ Reading /\ touched = {}
  BY DEF WholeInv
<1>1. /\ append[t].pc = "exchange" /\ append' = [append EXCEPT ![t].prev = last]
      /\ UNCHANGED <<next, last, order, freed, remove, removes, reader, touched>>
  BY DEF AppendExchange
<1>2. KeptPlaces' = KeptPlaces
  BY <1>1 DEF KeptPlaces
<1>3. append \in [Appender -> AppendT] /\ last \in Int
  <2>1. NodeId \in SUBSET Nat
    BY DEF NodeId
  <2> QED
    BY <1>0, <2>1 DEF ListType
<1>4. append' \in [Appender -> AppendT]
  BY <1>1, <1>3 DEF AppendT
<1>5. \A u \in Appender : append'[u].pc = append[u].pc /\ append'[u].node = append[u].node
                          /\ (append[u].pc # "exchange" => append'[u] = append[u])
  BY <1>1, <1>3 DEF AppendT
<1>6. ListType'
  BY <1>0, <1>1, <1>4 DEF ListType
<1>7. Ids'
  <2>1. Allotted' = Allotted
    BY <1>5 DEF Allotted
  <2> QED
    BY <1>0, <1>5, <2>1 DEF Ids
<1>8. Orders'
  BY <1>0, <1>1, <1>5 DEF Orders
<1>9. Chain'
  <2>1. \A u \in Appender : /\ append'[u].pc = "link" <=> append[u].pc = "link"
                            /\ append[u].pc = "link" => append'[u] = append[u]
    BY <1>5
  <2> QED
    BY <1>0, <1>1, <1>2, <2>1, ChainKept
<1>10. Removing' /\ Reading'
  BY <1>0, <1>1, <1>2, RemovingKept, ReadingKept
<1> QED
  BY <1>0, <1>1, <1>6, <1>7, <1>8, <1>9, <1>10 DEF WholeInv

\* The tail is still the one loaded: the node takes the next position.
LEMMA ExchangeStep ==
  ASSUME WholeInv, NEW t \in Appender, AppendExchange(t), last = append[t].prev
  PROVE  WholeInv'
<1>0. /\ ListType /\ Ids /\ Orders /\ Stored /\ Awaited /\ Ended /\ Removing /\ Reading
      /\ touched = {}
  BY DEF WholeInv, Chain
<1> DEFINE I == KeptPlaces
<1>1. PICK n : n = append[t].node
  OBVIOUS
<1>m. PICK m : m = Len(order) + 1
  OBVIOUS
<1>2. /\ append[t].pc = "exchange" /\ append' = [append EXCEPT ![t].pc = "link"]
      /\ order' = Append(order, n) /\ last' = n
      /\ UNCHANGED <<next, freed, remove, removes, reader, touched>>
  BY <1>1 DEF AppendExchange
<1>3. append \in [Appender -> AppendT] /\ order \in Seq(NodeId) /\ freed \in SUBSET NodeId
  BY <1>0 DEF ListType
<1>4. n \in NodeId
  <2>1. append[t] \in AppendT /\ n # 0
    BY <1>0, <1>1, <1>2, <1>3 DEF Ids
  <2> QED
    BY <1>1, <2>1 DEF AppendT
<1>5. /\ append' \in [Appender -> AppendT] /\ append'[t].pc = "link"
      /\ append'[t].node = n /\ append'[t].prev = last
      /\ \A u \in Appender \ {t} : append'[u] = append[u]
      /\ \A u \in Appender : append'[u].node = append[u].node
                             /\ (append'[u].pc = "idle" <=> append[u].pc = "idle")
  BY <1>1, <1>2, <1>3 DEF AppendT
<1>6. /\ order' \in Seq(NodeId) /\ Len(order) \in Nat /\ m \in Nat /\ m \notin DOMAIN order /\ m # 0
      /\ DOMAIN order' = DOMAIN order \cup {m} /\ order'[m] = n
      /\ \A i \in DOMAIN order : order'[i] = order[i] /\ i < m
      /\ DOMAIN order = 1 .. Len(order)
  BY <1>m, <1>2, <1>3, <1>4
<1>7. \A i \in DOMAIN order : order[i] # n
  <2>1. SUFFICES ASSUME NEW i \in DOMAIN order, order[i] = n PROVE FALSE
    OBVIOUS
  <2>2. PICK u \in Appender : append[u].node = n /\ append[u].pc \in {"link", "done"}
    BY <1>0, <2>1 DEF Orders
  <2>3. u = t
    <3>1. n # 0
      BY <1>4 DEF NodeId
    <3> QED
      BY <1>0, <1>1, <2>2, <3>1 DEF Ids
  <2> QED
    BY <1>2, <2>2, <2>3
<1>8. /\ I \in SUBSET DOMAIN order /\ I \in SUBSET (1 .. Len(order)) /\ I \in SUBSET (Nat \ {0})
      /\ KeptPlaces' = I \cup {m}
  <2>1. n \notin freed /\ ~(remove.pc = "delete" /\ remove.node = n)
    BY <1>0, <1>7 DEF Orders
  <2>2. KeptPlaces' = I \cup {m}
    BY <1>2, <1>6, <2>1 DEF KeptPlaces
  <2> QED
    BY <1>0, <2>2, Spots
<1> HIDE DEF I
<1>9. PICK g \in {0} \cup I : Greatest(I, g)
  BY <1>6, <1>8, HasGreatest
<1>10. last = At(order, g) /\ next[At(order, g)] = 0
  BY <1>0, <1>9 DEF Ended, I
<1>11. \A i \in {0} \cup I : At(order', i) = At(order, i) /\ i < m /\ i \in Nat
  BY <1>6, <1>8 DEF At
<1>12. At(order', m) = n /\ next[n] = 0
  BY <1>0, <1>4, <1>6, <1>7 DEF Orders, At
<1>13. PICK J \in SUBSET (Nat \ {0}) : J = I \cup {m}
  BY <1>6, <1>8
<1>14. /\ \A i \in {0} \cup I, j \in I : Adjacent(J, i, j) <=> Adjacent(I, i, j)
       /\ Adjacent(J, g, m)
       /\ \A i \in {0} \cup J : Adjacent(J, i, m) => i = g
       /\ \A j \in J : ~Adjacent(J, m, j)
  <2>1. \A i \in {0} \cup I, j \in I : Adjacent(J, i, j) <=> Adjacent(I, i, j)
    <3>1. \A j \in I : j < m /\ m \in Nat /\ j \in Nat
      BY <1>6, <1>11
    <3>2. \A j \in I : ~(m < j)
      BY <3>1
    <3> QED
      BY <1>13, <3>2 DEF Adjacent
  <2>2. Adjacent(J, g, m)
    <3>1. \A k \in I : k <= g /\ k \in Nat /\ g \in Nat /\ m \in Nat
      BY <1>6, <1>9, <1>11 DEF Greatest
    <3>2. \A k \in J : ~(g < k /\ k < m)
      BY <1>6, <1>13, <3>1
    <3> QED
      BY <1>11, <1>13, <3>2 DEF Adjacent
  <2>3. m \in J /\ g \in {0} \cup J
    BY <1>13
  <2>4. \A j \in J : ~(m < j)
    BY <1>6, <1>11, <1>13
  <2> QED
    BY <2>1, <2>2, <2>3, <2>4, AdjacentOnce DEF Adjacent
<1>15. \A u \in Appender : \A i, j : append[u].pc = "link" =>
         u # t /\ append'[u] = append[u]
  BY <1>2, <1>5
<1>16. ListType'
  BY <1>0, <1>2, <1>4, <1>5, <1>6 DEF ListType
<1>17. Ids'
  <2>1. Allotted' = Allotted
    BY <1>5 DEF Allotted
  <2> QED
    BY <1>0, <1>5, <2>1 DEF Ids
<1>18. Orders'
  <2>1. ASSUME NEW i \in DOMAIN order', NEW j \in DOMAIN order', order'[i] = order'[j] PROVE i = j
    BY <1>0, <1>6, <1>7, <2>1 DEF Orders
  <2>2. ASSUME NEW i \in DOMAIN order'
        PROVE  \E u \in Appender : append'[u].node = order'[i] /\ append'[u].pc \in {"link", "done"}
    <3>1. CASE i = m
      BY <1>5, <1>6, <3>1
    <3>2. CASE i # m
      <4>1. i \in DOMAIN order /\ order'[i] = order[i]
        BY <1>6, <3>2
      <4>2. PICK u \in Appender : append[u].node = order[i] /\ append[u].pc \in {"link", "done"}
        BY <1>0, <4>1 DEF Orders
      <4>3. append'[u] = append[u]
        BY <1>2, <1>5, <4>2
      <4> QED
        BY <4>1, <4>2, <4>3
    <3> QED
      BY <3>1, <3>2
  <2>3. ASSUME NEW k \in NodeId, \A i \in DOMAIN order' : order'[i] # k PROVE next'[k] = 0
    <3>1. \A i \in DOMAIN order : order[i] # k
      BY <1>6, <2>3
    <3> QED
      BY <1>0, <1>2, <3>1 DEF Orders
  <2>4. ASSUME NEW k \in freed PROVE \E i \in DOMAIN order' : order'[i] = k
    BY <1>0, <1>6 DEF Orders
  <2>5. remove.pc = "delete" => \E i \in DOMAIN order' : order'[i] = remove.node
    BY <1>0, <1>6 DEF Orders
  <2> QED
    BY <1>2, <2>1, <2>2, <2>3, <2>4, <2>5 DEF Orders
<1>19. Stored'
  <2>1. SUFFICES ASSUME NEW i \in {0} \cup J, NEW j \in J, Adjacent(J, i, j)
                 PROVE  \/ next[At(order', i)] = order'[j]
                        \/ next[At(order', i)] = 0 /\ \E u \in Appender : Links(u, i, j)'
    BY <1>2, <1>8, <1>13 DEF Stored
  <2>2. i # m
    BY <1>14, <2>1
  <2>3. CASE j = m
    <3>1. i = g
      BY <1>14, <2>1, <2>3
    <3>2. Links(t, g, m)'
      BY <1>5, <1>6, <1>10, <1>11 DEF Links
    <3> QED
      BY <1>10, <1>11, <2>3, <3>1, <3>2
  <2>4. CASE j # m
    <3>1. i \in {0} \cup I /\ j \in I /\ Adjacent(I, i, j) /\ j \in DOMAIN order
      BY <1>8, <1>13, <1>14, <2>1, <2>2, <2>4
    <3>2. At(order', i) = At(order, i) /\ order'[j] = order[j]
      BY <1>6, <1>11, <3>1
    <3>3. \/ next[At(order, i)] = order[j]
          \/ next[At(order, i)] = 0 /\ \E u \in Appender : Links(u, i, j)
      BY <1>0, <3>1 DEF Stored, I
    <3>4. \A u \in Appender : Links(u, i, j) => Links(u, i, j)'
      BY <1>15, <3>2 DEF Links
    <3> QED
      BY <3>2, <3>3, <3>4
  <2> QED
    BY <2>3, <2>4
<1>20. Awaited'
  <2>1. SUFFICES ASSUME NEW u \in Appender, append'[u].pc = "link"
                 PROVE  \E i \in {0} \cup J, j \in J :
                          Adjacent(J, i, j) /\ Links(u, i, j)' /\ next[At(order', i)] = 0
    BY <1>2, <1>8, <1>13 DEF Awaited
  <2>2. CASE u = t
    <3>1. Links(t, g, m)'
      BY <1>5, <1>6, <1>10, <1>11 DEF Links
    <3>2. g \in {0} \cup J /\ m \in J
      BY <1>13
    <3> QED
      BY <1>10, <1>11, <1>14, <2>2, <3>1, <3>2
  <2>3. CASE u # t
    <3>1. append[u].pc = "link" /\ append'[u] = append[u]
      BY <1>5, <2>1, <2>3
    <3>2. PICK i \in {0} \cup I, j \in I :
            Adjacent(I, i, j) /\ Links(u, i, j) /\ next[At(order, i)] = 0
      BY <1>0, <3>1 DEF Awaited, I
    <3>3. At(order', i) = At(order, i) /\ order'[j] = order[j]
      BY <1>6, <1>8, <1>11
    <3>4. Links(u, i, j)' /\ next[At(order', i)] = 0
      BY <3>1, <3>2, <3>3 DEF Links
    <3>5. Adjacent(J, i, j) /\ i \in {0} \cup J /\ j \in J
      BY <1>13, <1>14, <3>2
    <3> QED
      BY <3>4, <3>5
  <2> QED
    BY <2>2, <2>3
<1>21. Ended'
  <2>1. SUFFICES ASSUME NEW i \in {0} \cup J, Greatest(J, i)
                 PROVE  next[At(order', i)] = 0 /\ n = At(order', i)
    BY <1>2, <1>8, <1>13 DEF Ended
  <2>2. i = m
    <3>1. m <= i /\ (i = m \/ i < m) /\ i \in Nat /\ m \in Nat
      BY <1>6, <1>11, <1>13, <2>1 DEF Greatest
    <3> QED
      BY <3>1
  <2> QED
    BY <1>12, <2>2
<1>22. Removing'
  <2>1. SUFFICES ASSUME remove.pc \in {"next", "exchange", "relink"}
                 PROVE  \E i \in {0} \cup J, j, k \in J : Takes(i, j, k)'
    BY <1>2, <1>8, <1>13 DEF Removing
  <2>2. PICK i \in {0} \cup I, j \in I, k \in I : Takes(i, j, k)
    BY <1>0, <2>1 DEF Removing, I
  <2>3. At(order', i) = At(order, i) /\ order'[j] = order[j] /\ order'[k] = order[k]
    BY <1>6, <1>8, <1>11
  <2>4. Adjacent(J, i, j) /\ Adjacent(J, j, k)
    BY <1>14, <2>2 DEF Takes, I
  <2>5. Takes(i, j, k)'
    BY <1>2, <1>8, <1>13, <2>2, <2>3, <2>4 DEF Takes
  <2> QED
    BY <1>13, <2>5
<1>23. Reading'
  BY <1>0, <1>2, <1>8, <1>11 DEF Reading, I
<1> QED
  BY <1>0, <1>2, <1>16, <1>17, <1>18, <1>19, <1>20, <1>21, <1>22, <1>23 DEF WholeInv, Chain


\* The node's address is stored at the place before it, which is kept.
LEMMA LinkStep ==
  ASSUME WholeInv, NEW t \in Appender, AppendLink(t)
  PROVE  WholeInv'
<1>0. /\ ListType /\ Ids /\ Orders /\ Stored /\ Awaited /\ Ended /\ Removing /\ Reading
      /\ touched = {}
  BY DEF WholeInv, Chain
<1> DEFINE I == KeptPlaces
<1>1. /\ append[t].pc = "link" /\ append' = [append EXCEPT ![t].pc = "done"]
      /\ next' = [next EXCEPT ![append[t].prev] = append[t].node]
      /\ Touch(append[t].prev, "written")
      /\ UNCHANGED <<last, order, freed, remove, removes, reader>>
  BY DEF AppendLink
<1>2. KeptPlaces' = I
  BY <1>1 DEF KeptPlaces
<1>3. /\ append \in [Appender -> AppendT] /\ next \in [{0} \cup NodeId -> {0} \cup NodeId]
      /\ I \in SUBSET (Nat \ {0}) /\ I \in SUBSET DOMAIN order
      /\ \A i \in DOMAIN order : order[i] \in NodeId
  BY <1>0, Spots DEF ListType
<1>4. /\ append' \in [Appender -> AppendT] /\ append'[t].pc = "done"
      /\ \A u \in Appender \ {t} : append'[u] = append[u]
      /\ \A u \in Appender : append'[u].node = append[u].node
                             /\ (append'[u].pc = "idle" <=> append[u].pc = "idle")
  BY <1>1, <1>3 DEF AppendT
<1>5. PICK i \in {0} \cup I, j \in I :
        Adjacent(I, i, j) /\ Links(t, i, j) /\ next[At(order, i)] = 0
  BY <1>0, <1>1 DEF Awaited
<1>6. /\ \A p, q \in {0} \cup I : At(order, p) = At(order, q) => p = q
      /\ \A p \in {0} \cup I : At(order, p) \in {0} \cup NodeId /\ At(order, p) \notin freed
      /\ \A p \in I : At(order, p) = order[p]
  BY <1>0, Places, Spots
<1>7. next' = [next EXCEPT ![At(order, i)] = order[j]] /\ touched' = {}
  BY <1>0, <1>1, <1>5, <1>6 DEF Links, Touch
<1> HIDE DEF I
<1>8. /\ next'[At(order, i)] = order[j]
      /\ \A p \in {0} \cup NodeId : p # At(order, i) => next'[p] = next[p]
      /\ next' \in [{0} \cup NodeId -> {0} \cup NodeId]
  BY <1>3, <1>5, <1>6, <1>7
<1>9. \A p \in {0} \cup I : p # i => next'[At(order, p)] = next[At(order, p)]
  BY <1>6, <1>8
<1>10. /\ \A p \in {0} \cup I : Adjacent(I, p, j) => p = i
       /\ \A q \in I : Adjacent(I, i, q) => q = j
  BY <1>3, <1>5, AdjacentOnce
<1>11. \A p, q \in I : order[p] = order[q] => p = q
  BY <1>6
<1>12. ListType'
  BY <1>0, <1>1, <1>4, <1>8 DEF ListType
<1>13. Ids'
  <2>1. Allotted' = Allotted
    BY <1>4 DEF Allotted
  <2> QED
    BY <1>0, <1>4, <2>1 DEF Ids
<1>14. Orders'
  <2>1. \A u \in Appender : append[u].pc \in {"link", "done"} => append'[u].pc \in {"link", "done"}
    BY <1>4
  <2>2. ASSUME NEW n \in NodeId, \A p \in DOMAIN order : order[p] # n PROVE next'[n] = 0
    <3>1. n # At(order, i)
      <4>1. CASE i = 0
        BY <4>1 DEF At, NodeId
      <4>2. CASE i # 0
        BY <1>3, <1>6, <2>2, <4>2
      <4> QED
        BY <4>1, <4>2
    <3> QED
      BY <1>0, <1>8, <2>2, <3>1 DEF Orders
  <2> QED
    BY <1>0, <1>1, <1>4, <2>1, <2>2 DEF Orders
<1>15. Stored'
  <2>1. SUFFICES ASSUME NEW p \in {0} \cup I, NEW q \in I, Adjacent(I, p, q)
                 PROVE  \/ next'[At(order, p)] = order[q]
                        \/ next'[At(order, p)] = 0 /\ \E u \in Appender : Links(u, p, q)'
    BY <1>1, <1>2 DEF Stored
  <2>2. CASE p = i
    BY <1>8, <1>10, <2>1, <2>2
  <2>3. CASE p # i
    <3>1. q # j
      BY <1>10, <2>1, <2>3
    <3>2. \A u \in Appender : Links(u, p, q) => u # t
      BY <1>5, <1>11, <3>1 DEF Links
    <3>3. \A u \in Appender : Links(u, p, q) => Links(u, p, q)'
      BY <1>1, <1>4, <3>2 DEF Links
    <3>4. \/ next[At(order, p)] = order[q]
          \/ next[At(order, p)] = 0 /\ \E u \in Appender : Links(u, p, q)
      BY <1>0, <2>1 DEF Stored, I
    <3> QED
      BY <1>9, <2>3, <3>3, <3>4
  <2> QED
    BY <2>2, <2>3
<1>16. Awaited'
  <2>1. SUFFICES ASSUME NEW u \in Appender, append'[u].pc = "link"
                 PROVE  \E p \in {0} \cup I, q \in I :
                          Adjacent(I, p, q) /\ Links(u, p, q)' /\ next'[At(order, p)] = 0
    BY <1>1, <1>2 DEF Awaited
  <2>2. u # t /\ append'[u] = append[u]
    BY <1>4, <2>1
  <2>3. PICK p \in {0} \cup I, q \in I :
          Adjacent(I, p, q) /\ Links(u, p, q) /\ next[At(order, p)] = 0
    BY <1>0, <2>1, <2>2 DEF Awaited, I
  <2>4. p # i
    <3>1. SUFFICES ASSUME p = i PROVE FALSE
      OBVIOUS
    <3>2. q = j
      BY <1>10, <2>3, <3>1
    <3>3. append[u].node = append[t].node /\ append[t].node # 0
      BY <1>5, <1>6, <1>3, <2>3, <3>2 DEF Links, NodeId
    <3> QED
      BY <1>0, <2>2, <3>3 DEF Ids
  <2>5. Links(u, p, q)'
    BY <1>1, <2>2, <2>3 DEF Links
  <2> QED
    BY <1>9, <2>3, <2>4, <2>5
<1>17. Ended'
  <2>1. \A p \in {0} \cup I : Greatest(I, p) => p # i
    <3>1. j \in Nat /\ i \in Nat /\ ~(j <= i)
      BY <1>3, <1>5 DEF Adjacent
    <3> QED
      BY <3>1 DEF Greatest
  <2>2. \A p \in {0} \cup I : Greatest(I, p) => next'[At(order, p)] = 0 /\ last = At(order, p)
    BY <1>0, <1>9, <2>1 DEF Ended, I
  <2> QED
    BY <1>1, <1>2, <2>2 DEF Ended
<1>18. Removing'
  <2>1. SUFFICES ASSUME remove.pc \in {"next", "exchange", "relink"}
                 PROVE  \E p \in {0} \cup I, q, r \in I : Takes(p, q, r)'
    BY <1>1, <1>2 DEF Removing
  <2>2. PICK p \in {0} \cup I, q \in I, r \in I : Takes(p, q, r)
    BY <1>0, <2>1 DEF Removing, I
  <2>3. next[At(order, p)] = order[q] /\ next[At(order, q)] = order[r]
    BY <1>6, <2>2 DEF Takes
  <2>4. order[q] # 0 /\ order[r] # 0
    BY <1>3 DEF NodeId
  <2>5. p # i /\ q # i
    BY <1>5, <2>3, <2>4
  <2>6. next'[At(order, p)] = order[q] /\ next'[At(order, q)] = order[r]
    BY <1>9, <2>3, <2>5
  <2>7. Takes(p, q, r)'
    BY <1>1, <1>2, <1>6, <2>2, <2>6 DEF Takes, I
  <2> QED
    BY <2>7
<1>19. Reading'
  BY <1>0, <1>1, <1>2, ReadingKept DEF I
<1> QED
  BY <1>7, <1>12, <1>13, <1>14, <1>15, <1>16, <1>17, <1>18, <1>19 DEF WholeInv, Chain


\* The places that a walk reaches are those of nodes kept.
LEMMA ReachedSpots ==
  ASSUME WholeInv, NEW place \in ReachedPlace
  PROVE  \E p \in {0} \cup KeptPlaces : place = At(order, p)
<1>1. PICK L \in 0 .. Len(Kept) : Reached = SubSeq(Kept, 1, L)
  BY ReachedIs
<1>2. /\ Kept \in Seq(NodeId) /\ Len(Kept) \in Nat
      /\ \A k \in 1 .. Len(Kept) : Spot(KeptPlaces, k) \in KeptPlaces
                                   /\ Kept[k] = order[Spot(KeptPlaces, k)]
  BY KeptIs DEF WholeInv
<1>3. CASE place = 0
  BY <1>3 DEF At
<1>4. CASE place # 0
  <2>1. PICK k \in DOMAIN Reached : place = Reached[k]
    BY <1>4 DEF ReachedPlace
  <2>2. k \in 1 .. Len(Kept) /\ Reached[k] = Kept[k]
    BY <1>1, <1>2, <2>1
  <2>3. PICK p \in KeptPlaces : place = order[p]
    BY <1>2, <2>1, <2>2
  <2>4. At(order, p) = order[p]
    BY Spots DEF WholeInv
  <2> QED
    BY <2>3, <2>4
<1> QED
  BY <1>3, <1>4

\* Where a node is stored it is the one of the next position.
LEMMA Successor ==
  ASSUME WholeInv, NEW p \in {0} \cup KeptPlaces, next[At(order, p)] # 0
  PROVE  \E q \in KeptPlaces : Adjacent(KeptPlaces, p, q) /\ next[At(order, p)] = order[q]
<1>1. ~Greatest(KeptPlaces, p)
  BY DEF WholeInv, Chain, Ended
<1>2. KeptPlaces \in SUBSET (Nat \ {0})
  BY Spots DEF WholeInv
<1>3. PICK q \in KeptPlaces : Adjacent(KeptPlaces, p, q)
  BY <1>1, <1>2, Follows
<1> QED
  BY <1>3 DEF WholeInv, Chain, Stored

LEMMA RemoveStartStep ==
  ASSUME ~RemoveLast, WholeInv, RemoveStart
  PROVE  WholeInv'
<1>0. ListType /\ Ids /\ Orders /\ Chain /\ Removing /\ Reading /\ touched = {}
  BY DEF WholeInv
<1>1. PICK place \in ReachedPlace :
        /\ next[place] # 0 /\ next[next[place]] # 0
        /\ remove' = [pc |-> "next", place |-> place, node |-> next[place], after |-> 0]
  BY DEF RemoveStart
<1>2. /\ remove.pc = "idle" /\ \A r \in Reader : reader[r].pc \in {"idle", "done"}
      /\ UNCHANGED <<next, last, order, freed, append, reader, touched>>
  BY DEF RemoveStart
<1>3. KeptPlaces' = KeptPlaces
  BY <1>1, <1>2 DEF KeptPlaces
<1>4. PICK p \in {0} \cup KeptPlaces : place = At(order, p)
  BY ReachedSpots
<1>5. PICK q \in KeptPlaces : Adjacent(KeptPlaces, p, q) /\ next[place] = order[q]
  BY <1>1, <1>4, Successor
<1>6. At(order, q) = order[q] /\ order[q] \in NodeId /\ place \in Int
  <2>1. place \in {0} \cup NodeId
    BY <1>0, <1>4, Places
  <2>2. NodeId \in SUBSET Nat
    BY DEF NodeId
  <2> QED
    BY <1>0, <2>1, <2>2, Spots
<1>7. PICK r \in KeptPlaces : Adjacent(KeptPlaces, q, r) /\ next[order[q]] = order[r]
  BY <1>1, <1>5, <1>6, Successor
<1>8. ListType'
  BY <1>0, <1>1, <1>2, <1>5, <1>6 DEF ListType, RemoveT
<1>9. Ids'
  <2>1. Allotted' = Allotted
    BY <1>2 DEF Allotted
  <2> QED
    BY <1>0, <1>2, <2>1 DEF Ids
<1>10. Orders'
  BY <1>0, <1>1, <1>2 DEF Orders
<1>11. Chain'
  BY <1>0, <1>2, <1>3, ChainKept
<1>12. Removing'
  <2>1. Takes(p, q, r)'
    BY <1>1, <1>2, <1>3, <1>4, <1>5, <1>7 DEF Takes
  <2> QED
    BY <1>3, <2>1 DEF Removing
<1>13. Reading'
  BY <1>2 DEF Reading
<1> QED
  BY <1>0, <1>2, <1>8, <1>9, <1>10, <1>11, <1>12, <1>13 DEF WholeInv

LEMMA RemoveNextStep ==
  ASSUME WholeInv, RemoveNext
  PROVE  WholeInv'
<1>0. ListType /\ Ids /\ Orders /\ Chain /\ Removing /\ Reading /\ touched = {}
  BY DEF WholeInv
<1>1. /\ remove.pc = "next"
      /\ remove' = [remove EXCEPT !.pc = "exchange", !.after = next[remove.node]]
      /\ UNCHANGED <<next, last, order, freed, append, reader, touched>>
  BY DEF RemoveNext
<1>2. PICK i \in {0} \cup KeptPlaces, j \in KeptPlaces, k \in KeptPlaces : Takes(i, j, k)
  BY <1>0, <1>1 DEF Removing
<1>3. order[j] \in NodeId /\ order[k] \in NodeId
  BY <1>0, Spots
<1>4. /\ remove'.pc = "exchange" /\ remove'.place = remove.place /\ remove'.node = remove.node
      /\ remove'.after = order[k] /\ remove' \in RemoveT
  BY <1>0, <1>1, <1>2, <1>3 DEF ListType, RemoveT, Takes
<1>5. KeptPlaces' = KeptPlaces
  BY <1>1, <1>4 DEF KeptPlaces
<1>6. ListType'
  BY <1>0, <1>1, <1>4 DEF ListType
<1>7. Ids'
  <2>1. Allotted' = Allotted
    BY <1>1 DEF Allotted
  <2> QED
    BY <1>0, <1>1, <2>1 DEF Ids
<1>8. Orders'
  BY <1>0, <1>1, <1>4 DEF Orders
<1>9. Chain'
  BY <1>0, <1>1, <1>5, ChainKept
<1>10. Removing'
  <2>1. Takes(i, j, k)'
    BY <1>1, <1>2, <1>4, <1>5 DEF Takes
  <2> QED
    BY <1>5, <2>1 DEF Removing
<1>11. Reading'
  BY <1>0, <1>1 DEF Reading
<1> QED
  BY <1>0, <1>1, <1>6, <1>7, <1>8, <1>9, <1>10, <1>11 DEF WholeInv

\* The node has a successor, so that the tail is not behind it.
LEMMA RemoveExchangeStep ==
  ASSUME WholeInv, RemoveExchange
  PROVE  WholeInv'
<1>0. ListType /\ Ids /\ Orders /\ Chain /\ Removing /\ Reading /\ touched = {}
  BY DEF WholeInv
<1>1. /\ remove.pc = "exchange" /\ remove' = [remove EXCEPT !.pc = "relink"]
      /\ last' = IF last = remove.node THEN remove.place ELSE last
      /\ UNCHANGED <<next, order, freed, append, reader, touched>>
  BY DEF RemoveExchange
<1>2. PICK i \in {0} \cup KeptPlaces, j \in KeptPlaces, k \in KeptPlaces : Takes(i, j, k)
  BY <1>0, <1>1 DEF Removing
<1>3. /\ remove'.pc = "relink" /\ remove'.place = remove.place /\ remove'.node = remove.node
      /\ remove'.after = remove.after /\ remove' \in RemoveT
  BY <1>0, <1>1 DEF ListType, RemoveT
<1>4. last' = last
  <2>1. KeptPlaces \in SUBSET (1 .. Len(order)) /\ Len(order) \in Nat
    BY <1>0, Spots
  <2>2. PICK g \in {0} \cup KeptPlaces : Greatest(KeptPlaces, g)
    BY <2>1, HasGreatest
  <2>3. last = At(order, g) /\ next[At(order, g)] = 0
    BY <1>0, <2>2 DEF Chain, Ended
  <2>4. remove.node = order[j] /\ next[order[j]] = order[k] /\ order[k] # 0
    BY <1>0, <1>2, Spots DEF Takes
  <2> QED
    BY <1>1, <2>3, <2>4
<1>5. KeptPlaces' = KeptPlaces
  BY <1>1, <1>3 DEF KeptPlaces
<1>6. ListType'
  BY <1>0, <1>1, <1>3, <1>4 DEF ListType
<1>7. Ids'
  <2>1. Allotted' = Allotted
    BY <1>1 DEF Allotted
  <2> QED
    BY <1>0, <1>1, <2>1 DEF Ids
<1>8. Orders'
  BY <1>0, <1>1, <1>3 DEF Orders
<1>9. Chain'
  BY <1>0, <1>1, <1>4, <1>5, ChainKept
<1>10. Removing'
  <2>1. Takes(i, j, k)'
    BY <1>1, <1>2, <1>3, <1>5 DEF Takes
  <2> QED
    BY <1>5, <2>1 DEF Removing
<1>11. Reading'
  BY <1>0, <1>1 DEF Reading
<1> QED
  BY <1>0, <1>1, <1>4, <1>6, <1>7, <1>8, <1>9, <1>10, <1>11 DEF WholeInv

LEMMA RemoveDeleteStep ==
  ASSUME WholeInv, RemoveDelete
  PROVE  WholeInv'
<1>0. ListType /\ Ids /\ Orders /\ Chain /\ Removing /\ Reading /\ touched = {}
  BY DEF WholeInv
<1>1. /\ remove.pc = "delete" /\ freed' = freed \cup {remove.node} /\ remove' = NotRemoving
      /\ UNCHANGED <<next, last, order, append, reader, touched>>
  BY DEF RemoveDelete
<1>2. remove'.pc = "idle" /\ remove' \in RemoveT
  BY <1>1 DEF NotRemoving, RemoveT, NoPlace
<1>3. KeptPlaces' = KeptPlaces
  BY <1>1, <1>2 DEF KeptPlaces
<1>4. PICK d \in DOMAIN order : order[d] = remove.node
  BY <1>0, <1>1 DEF Orders
<1>5. order[d] \in NodeId
  BY <1>0, Spots
<1>6. ListType'
  BY <1>0, <1>1, <1>2, <1>4, <1>5 DEF ListType
<1>7. Ids'
  <2>1. Allotted' = Allotted
    BY <1>1 DEF Allotted
  <2> QED
    BY <1>0, <1>1, <2>1 DEF Ids
<1>8. Orders'
  BY <1>0, <1>1, <1>2, <1>4 DEF Orders
<1>9. Chain'
  BY <1>0, <1>1, <1>3, ChainKept
<1>10. Removing' /\ Reading'
  BY <1>0, <1>1, <1>2, <1>3 DEF Removing, Reading
<1> QED
  BY <1>0, <1>1, <1>6, <1>7, <1>8, <1>9, <1>10 DEF WholeInv


\* The place before the node has the node's successor: the positions on both
\* sides of the node follow one another.
LEMMA RemoveRelinkStep ==
  ASSUME WholeInv, RemoveRelink
  PROVE  WholeInv'
<1>0. /\ ListType /\ Ids /\ Orders /\ Stored /\ Awaited /\ Ended /\ Removing /\ Reading
      /\ touched = {}
  BY DEF WholeInv, Chain
<1> DEFINE I == KeptPlaces
<1>1. /\ remove.pc = "relink" /\ remove' = [remove EXCEPT !.pc = "delete"]
      /\ next' = [next EXCEPT ![remove.place] = remove.after]
      /\ UNCHANGED <<last, order, freed, append, reader, touched>>
  BY DEF RemoveRelink
<1>2. PICK i \in {0} \cup I, j \in I, k \in I : Takes(i, j, k)
  BY <1>0, <1>1 DEF Removing
<1>3. /\ Adjacent(I, i, j) /\ Adjacent(I, j, k) /\ remove.place = At(order, i)
      /\ remove.node = order[j] /\ remove.after = order[k]
      /\ next[At(order, i)] = order[j] /\ next[order[j]] = order[k]
  BY <1>1, <1>2 DEF Takes
<1>4. /\ remove'.pc = "delete" /\ remove'.node = order[j] /\ remove' \in RemoveT
  BY <1>0, <1>1, <1>3 DEF ListType, RemoveT
<1>5. /\ I \in SUBSET (Nat \ {0}) /\ I \in SUBSET DOMAIN order
      /\ \A p \in DOMAIN order : order[p] \in NodeId /\ order[p] # 0
      /\ next \in [{0} \cup NodeId -> {0} \cup NodeId]
  BY <1>0, Spots DEF ListType
<1>6. /\ \A p, q \in {0} \cup I : At(order, p) = At(order, q) => p = q
      /\ \A p \in {0} \cup I : At(order, p) \in {0} \cup NodeId
      /\ \A p \in I : At(order, p) = order[p]
  BY <1>0, Places, Spots
<1>7. KeptPlaces' = I \ {j}
  <2>1. \A p \in DOMAIN order : order[p] = order[j] => p = j
    BY <1>0, <1>5 DEF Orders
  <2> QED
    BY <1>1, <1>4, <2>1 DEF KeptPlaces
<1> HIDE DEF I
<1>8. /\ next'[At(order, i)] = order[k]
      /\ \A p \in {0} \cup NodeId : p # At(order, i) => next'[p] = next[p]
      /\ next' \in [{0} \cup NodeId -> {0} \cup NodeId]
  BY <1>1, <1>3, <1>5, <1>6
<1>9. \A p \in {0} \cup I : p # i => next'[At(order, p)] = next[At(order, p)]
  BY <1>6, <1>8
<1>10. PICK J \in SUBSET (Nat \ {0}) : J = I \ {j}
  BY <1>5
<1>11. /\ i \in {0} \cup J /\ k \in J /\ i \in Nat /\ j \in Nat /\ k \in Nat /\ i < j /\ j < k
  BY <1>3, <1>5, <1>10 DEF Adjacent
<1>12. Adjacent(J, i, k)
  <2>1. ASSUME NEW p \in J, i < p, p < k PROVE FALSE
    <3>1. p \in I /\ p # j /\ p \in Nat
      BY <1>10
    <3>2. ~(p < j) /\ ~(j < p)
      BY <1>3, <2>1, <3>1 DEF Adjacent
    <3> QED
      BY <1>11, <3>1, <3>2
  <2>2. i < k
    BY <1>11
  <2> QED
    BY <1>11, <2>1, <2>2 DEF Adjacent
<1>13. ASSUME NEW p \in {0} \cup J, NEW q \in J, Adjacent(J, p, q)
       PROVE  IF p = i THEN q = k ELSE Adjacent(I, p, q)
  <2>1. CASE p = i
    BY <1>10, <1>11, <1>12, <1>13, <2>1, AdjacentOnce
  <2>2. CASE p # i
    <3>1. p \in {0} \cup I /\ q \in I /\ p < q /\ p \in Nat /\ q \in Nat
      BY <1>10, <1>13 DEF Adjacent
    <3>2. ASSUME NEW r \in I, p < r, r < q PROVE FALSE
      <4>1. r = j
        BY <1>10, <1>13, <3>2 DEF Adjacent
      <4>2. ~(p < i)
        <5>1. p < i => i # 0 /\ i \in J /\ i < q
          BY <1>11, <3>1, <3>2, <4>1
        <5> QED
          BY <1>13, <5>1 DEF Adjacent
      <4>3. ~(i < p)
        <5>1. i < p => p \in I /\ p < j
          BY <1>11, <3>1, <3>2, <4>1
        <5> QED
          BY <1>3, <5>1 DEF Adjacent
      <4> QED
        BY <1>11, <2>2, <3>1, <4>2, <4>3
    <3>3. Adjacent(I, p, q)
      BY <3>1, <3>2 DEF Adjacent
    <3> QED
      BY <2>2, <3>3
  <2> QED
    BY <2>1, <2>2
<1>14. ListType'
  BY <1>0, <1>1, <1>4, <1>8 DEF ListType
<1>15. Ids'
  <2>1. Allotted' = Allotted
    BY <1>1 DEF Allotted
  <2> QED
    BY <1>0, <1>1, <2>1 DEF Ids
<1>16. Orders'
  <2>1. ASSUME NEW n \in NodeId, \A p \in DOMAIN order : order[p] # n PROVE next'[n] = 0
    <3>1. n # At(order, i)
      <4>1. CASE i = 0
        BY <4>1 DEF At, NodeId
      <4>2. CASE i # 0
        BY <1>5, <1>6, <2>1, <4>2
      <4> QED
        BY <4>1, <4>2
    <3> QED
      BY <1>0, <1>8, <2>1, <3>1 DEF Orders
  <2> QED
    BY <1>0, <1>1, <1>4, <1>5, <2>1 DEF Orders
<1>17. Stored'
  <2>1. SUFFICES ASSUME NEW p \in {0} \cup J, NEW q \in J, Adjacent(J, p, q)
                 PROVE  \/ next'[At(order, p)] = order[q]
                        \/ next'[At(order, p)] = 0 /\ \E u \in Appender : Links(u, p, q)'
    BY <1>1, <1>7, <1>10 DEF Stored
  <2>2. CASE p = i
    BY <1>8, <1>13, <2>1, <2>2
  <2>3. CASE p # i
    <3>1. p \in {0} \cup I /\ q \in I /\ Adjacent(I, p, q)
      BY <1>10, <1>13, <2>1, <2>3
    <3>2. \/ next[At(order, p)] = order[q]
          \/ next[At(order, p)] = 0 /\ \E u \in Appender : Links(u, p, q)
      BY <1>0, <3>1 DEF Stored, I
    <3>3. \A u \in Appender : Links(u, p, q) => Links(u, p, q)'
      BY <1>1 DEF Links
    <3> QED
      BY <1>9, <2>3, <3>1, <3>2, <3>3
  <2> QED
    BY <2>2, <2>3
<1>18. Awaited'
  <2>1. SUFFICES ASSUME NEW u \in Appender, append[u].pc = "link"
                 PROVE  \E p \in {0} \cup J, q \in J :
                          Adjacent(J, p, q) /\ Links(u, p, q)' /\ next'[At(order, p)] = 0
    BY <1>1, <1>7, <1>10 DEF Awaited
  <2>2. PICK p \in {0} \cup I, q \in I :
          Adjacent(I, p, q) /\ Links(u, p, q) /\ next[At(order, p)] = 0
    BY <1>0, <2>1 DEF Awaited, I
  <2>3. p # i /\ p # j
    BY <1>3, <1>5, <1>6, <2>2
  <2>4. q # j
    BY <1>3, <1>5, <2>2, <2>3, AdjacentOnce
  <2>5. p \in {0} \cup J /\ q \in J /\ Adjacent(J, p, q)
    BY <1>10, <2>2, <2>3, <2>4 DEF Adjacent
  <2>6. Links(u, p, q)'
    BY <1>1, <2>2 DEF Links
  <2> QED
    BY <1>9, <2>2, <2>3, <2>5, <2>6
<1>19. Ended'
  <2>1. SUFFICES ASSUME NEW g \in {0} \cup J, Greatest(J, g)
                 PROVE  next'[At(order, g)] = 0 /\ last = At(order, g)
    BY <1>1, <1>7, <1>10 DEF Ended
  <2>2. k <= g /\ g \in Nat
    BY <1>11, <2>1 DEF Greatest
  <2>3. j <= g /\ g # i
    BY <1>11, <2>2
  <2>4. g \in {0} \cup I /\ Greatest(I, g)
    BY <1>10, <2>1, <2>3 DEF Greatest
  <2> QED
    BY <1>0, <1>9, <2>3, <2>4 DEF Ended, I
<1>20. Removing' /\ Reading'
  BY <1>0, <1>1, <1>4 DEF Removing, Reading
<1> QED
  BY <1>0, <1>1, <1>14, <1>15, <1>16, <1>17, <1>18, <1>19, <1>20 DEF WholeInv, Chain

\* Nothing is appended while the list is cleared, so that a walk meets all there is.
LEMMA ClearListStep ==
  ASSUME WholeInv, ClearList
  PROVE  WholeInv'
<1>0. ListType /\ Ids /\ Orders /\ Chain /\ Removing /\ Reading /\ touched = {}
  BY DEF WholeInv
<1>1. /\ remove.pc = "idle" /\ \A t \in Appender : append[t].pc \in {"idle", "done"}
      /\ \A r \in Reader : reader[r].pc \in {"idle", "done"}
      /\ freed' = freed \cup {Reached[i] : i \in DOMAIN Reached}
      /\ last' = 0 /\ next' = [next EXCEPT ![0] = 0]
      /\ UNCHANGED <<order, append, remove, reader, touched>>
  BY DEF ClearList
<1>2. Reached = Kept
  <2>1. PICK L \in 0 .. Len(Kept) :
          /\ Reached = SubSeq(Kept, 1, L)
          /\ L < Len(Kept) =>
               \E t \in Appender : append[t].pc = "link" /\ append[t].node = Kept[L + 1]
    BY ReachedIs
  <2>2. Kept \in Seq(NodeId) /\ Len(Kept) \in Nat
    BY <1>0, KeptIs
  <2>3. L = Len(Kept)
    BY <1>1, <2>1, <2>2
  <2> QED
    BY <2>1, <2>2, <2>3
<1>3. /\ \A k \in DOMAIN Kept : Kept[k] \in NodeId
                                /\ \E i \in DOMAIN order : order[i] = Kept[k]
      /\ \A i \in KeptPlaces : \E k \in DOMAIN Kept : Kept[k] = order[i]
  <2>1. /\ Kept \in Seq(NodeId) /\ Len(Kept) \in Nat
        /\ \A k \in 1 .. Len(Kept) : Spot(KeptPlaces, k) \in KeptPlaces
                                     /\ Kept[k] = order[Spot(KeptPlaces, k)]
        /\ \A i \in KeptPlaces : \E k \in 1 .. Len(Kept) : Spot(KeptPlaces, k) = i
    BY <1>0, KeptIs
  <2>2. KeptPlaces \in SUBSET DOMAIN order /\ DOMAIN Kept = 1 .. Len(Kept)
    BY <1>0, <2>1, Spots
  <2> QED
    BY <2>1, <2>2
<1>4. KeptPlaces' = {}
  BY <1>1, <1>2, <1>3 DEF KeptPlaces
<1>5. /\ next \in [{0} \cup NodeId -> {0} \cup NodeId]
      /\ next' \in [{0} \cup NodeId -> {0} \cup NodeId] /\ next'[0] = 0
      /\ \A n \in NodeId : next'[n] = next[n] \/ next'[n] = 0
  BY <1>0, <1>1 DEF ListType
<1>6. ListType'
  BY <1>0, <1>1, <1>2, <1>3, <1>5 DEF ListType
<1>7. Ids'
  <2>1. Allotted' = Allotted
    BY <1>1 DEF Allotted
  <2> QED
    BY <1>0, <1>1, <2>1 DEF Ids
<1>8. Orders'
  <2>1. \A n \in freed' : \E i \in DOMAIN order : order[i] = n
    BY <1>0, <1>1, <1>2, <1>3 DEF Orders
  <2>2. \A n \in NodeId : (\A i \in DOMAIN order : order[i] # n) => next'[n] = 0
    BY <1>0, <1>5 DEF Orders
  <2> QED
    BY <1>0, <1>1, <2>1, <2>2 DEF Orders
<1>9. Chain'
  BY <1>1, <1>4, <1>5 DEF Chain, Stored, Awaited, Ended, At
<1>10. Removing' /\ Reading'
  BY <1>1 DEF Removing, Reading
<1> QED
  BY <1>0, <1>1, <1>6, <1>7, <1>8, <1>9, <1>10 DEF WholeInv

LEMMA ReadBeginStep ==
  ASSUME WholeInv, NEW r \in Reader, ReadBegin(r)
  PROVE  WholeInv'
<1>0. ListType /\ Ids /\ Orders /\ Chain /\ Removing /\ Reading /\ touched = {}
  BY DEF WholeInv
<1>1. /\ remove.pc = "idle"
      /\ reader' = [reader EXCEPT ![r] = [pc |-> "read", at |-> 0, stop |-> last]]
      /\ UNCHANGED <<next, last, order, freed, append, remove, touched>>
  BY DEF ReadBegin
<1>2. KeptPlaces' = KeptPlaces
  BY <1>1 DEF KeptPlaces
<1>3. /\ reader' \in [Reader -> ReaderT] /\ reader'[r].at = 0
      /\ \A u \in Reader \ {r} : reader'[u] = reader[u]
  <2>1. last \in Int /\ reader \in [Reader -> ReaderT]
    BY <1>0 DEF ListType, NodeId
  <2>2. [pc |-> "read", at |-> 0, stop |-> last] \in ReaderT
    BY <2>1 DEF ReaderT
  <2> QED
    BY <1>1, <2>1, <2>2
<1>4. ListType'
  BY <1>0, <1>1, <1>3 DEF ListType
<1>5. Ids'
  <2>1. Allotted' = Allotted
    BY <1>1 DEF Allotted
  <2> QED
    BY <1>0, <1>1, <2>1 DEF Ids
<1>6. Orders'
  BY <1>0, <1>1 DEF Orders
<1>7. Chain' /\ Removing'
  BY <1>0, <1>1, <1>2, ChainKept, RemovingKept
<1>8. Reading'
  <2>1. At(order, 0) = 0
    BY DEF At
  <2> QED
    BY <1>0, <1>1, <1>2, <1>3, <2>1 DEF Reading
<1> QED
  BY <1>0, <1>1, <1>4, <1>5, <1>6, <1>7, <1>8 DEF WholeInv

LEMMA ReadNextStep ==
  ASSUME WholeInv, NEW r \in Reader, ReadNext(r)
  PROVE  WholeInv'
<1>0. ListType /\ Ids /\ Orders /\ Chain /\ Removing /\ Reading /\ touched = {}
  BY DEF WholeInv
<1>1. PICK at : at = reader[r].at
  OBVIOUS
<1>2. /\ reader[r].pc = "read" /\ Touch(at, "read")
      /\ reader' = [reader EXCEPT ![r] =
           IF at = reader[r].stop THEN [reader[r] EXCEPT !.pc = "done"]
           ELSE IF next[at] = 0 THEN [reader[r] EXCEPT !.pc = "null"]
           ELSE [reader[r] EXCEPT !.at = next[at]]]
      /\ UNCHANGED <<next, last, order, freed, append, remove>>
  BY <1>1 DEF ReadNext
<1>3. KeptPlaces' = KeptPlaces
  BY <1>2 DEF KeptPlaces
<1>4. remove.pc = "idle" /\ \E p \in {0} \cup KeptPlaces : at = At(order, p)
  BY <1>0, <1>1, <1>2 DEF Reading
<1>5. PICK p \in {0} \cup KeptPlaces : at = At(order, p)
  BY <1>4
<1>6. touched' = {}
  <2>1. at \notin freed
    BY <1>0, <1>5, Places
  <2> QED
    BY <1>0, <1>2, <2>1 DEF Touch
<1>7. next[at] \in Int
  <2>1. at \in {0} \cup NodeId
    BY <1>0, <1>5, Places
  <2>2. next[at] \in {0} \cup NodeId
    BY <1>0, <2>1 DEF ListType
  <2>3. \A n \in {0} \cup NodeId : n \in Int
    BY DEF NodeId
  <2> QED
    BY <2>2, <2>3
<1>8. reader \in [Reader -> ReaderT]
  BY <1>0 DEF ListType
<1>9. /\ reader' \in [Reader -> ReaderT]
      /\ \A u \in Reader \ {r} : reader'[u] = reader[u]
      /\ reader'[r].pc = "read" => next[at] # 0 /\ reader'[r].at = next[at]
  BY <1>2, <1>7, <1>8 DEF ReaderT
<1>10. ListType'
  BY <1>0, <1>2, <1>9 DEF ListType
<1>11. Ids'
  <2>1. Allotted' = Allotted
    BY <1>2 DEF Allotted
  <2> QED
    BY <1>0, <1>2, <2>1 DEF Ids
<1>12. Orders'
  BY <1>0, <1>2 DEF Orders
<1>13. Chain' /\ Removing'
  BY <1>0, <1>2, <1>3, ChainKept, RemovingKept
<1>14. Reading'
  <2>1. ASSUME next[at] # 0 PROVE \E q \in {0} \cup KeptPlaces : next[at] = At(order, q)
    <3>1. PICK q \in KeptPlaces : next[at] = order[q]
      BY <1>5, <2>1, Successor
    <3>2. At(order, q) = order[q]
      BY <1>0, Spots
    <3> QED
      BY <3>1, <3>2
  <2> QED
    BY <1>0, <1>2, <1>3, <1>4, <1>9, <2>1 DEF Reading
<1> QED
  BY <1>6, <1>10, <1>11, <1>12, <1>13, <1>14 DEF WholeInv

LEMMA StutterStep ==
  ASSUME WholeInv, UNCHANGED listVars
  PROVE  WholeInv'
<1>1. UNCHANGED <<next, last, order, freed, append, remove, reader, touched>>
  BY DEF listVars
<1>2. KeptPlaces' = KeptPlaces /\ Allotted' = Allotted
  BY <1>1 DEF KeptPlaces, Allotted
<1>3. ListType' /\ Ids' /\ Orders'
  BY <1>1, <1>2 DEF WholeInv, ListType, Ids, Orders
<1>4. Chain'
  BY <1>1, <1>2, ChainKept DEF WholeInv
<1>5. Removing' /\ Reading'
  BY <1>1, <1>2, RemovingKept, ReadingKept DEF WholeInv
<1> QED
  BY <1>1, <1>3, <1>4, <1>5 DEF WholeInv

-----------------------------------------------------------------------------
(* The theorem.                                                            *)

\* The list is whole (AppendAtomicList::append, remove, clear and the iterator): a
\* walk finds the nodes not removed, in the order of their appends, all up to the
\* first whose append has yet to store its address, and nobody reads or writes a
\* freed node; for any number of appends, removals and iterations.  That the
\* last node is not removed is needed: with it, an append behind it is lost.
THEOREM ListIsWhole ==
  ASSUME ~RemoveLast
  PROVE  ListSpec => []ListWhole
<1>1. ASSUME WholeInv, [ListNext]_listVars PROVE WholeInv'
  <2>1. CASE UNCHANGED listVars
    BY <1>1, <2>1, StutterStep
  <2>2. ASSUME NEW t \in Appender, AppendStart(t) \/ AppendExchange(t) \/ AppendLink(t)
        PROVE  WholeInv'
    BY <1>1, <2>2, StartStep, RetryStep, ExchangeStep, LinkStep
  <2>3. CASE RemoveStart \/ RemoveNext \/ RemoveExchange \/ RemoveRelink \/ RemoveDelete
    BY <1>1, <2>3, RemoveStartStep, RemoveNextStep, RemoveExchangeStep, RemoveRelinkStep,
       RemoveDeleteStep
  <2>4. CASE ClearList
    BY <1>1, <2>4, ClearListStep
  <2>5. ASSUME NEW r \in Reader, ReadBegin(r) \/ ReadNext(r) PROVE WholeInv'
    BY <1>1, <2>5, ReadBeginStep, ReadNextStep
  <2> QED
    BY <1>1, <2>1, <2>2, <2>3, <2>4, <2>5 DEF ListNext
<1> QED
  BY <1>1, InitWhole, WholeIs, PTL DEF ListSpec

=============================================================================
