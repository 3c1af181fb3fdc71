---------------------------- MODULE MCConcurrency ----------------------------
(***************************************************************************)
(* The thread pool, the atomic list and the event supplier for TLC.  They  *)
(* share nothing: a behaviour is one of them, chosen at the start.         *)
(***************************************************************************)
EXTENDS ThreadPool, AtomicList, EventSupplier

CONSTANT Parts  \* the components that are checked

VARIABLE part   \* the one that moves

allVars == <<part, poolVars, listVars, eventVars>>

Init == part \in Parts /\ PoolInit /\ ListInit /\ EventsInit

Next ==
  /\ UNCHANGED part
  /\ \/ part = "pool" /\ PoolNext /\ UNCHANGED <<listVars, eventVars>>
     \/ part = "list" /\ ListNext /\ UNCHANGED <<poolVars, eventVars>>
     \/ part = "events" /\ EventsNext /\ UNCHANGED <<poolVars, listVars>>

\* Fairness is asked of the component that moves; the others stand still.
Spec == Init /\ [][Next]_allVars
             /\ (part = "pool" => PoolFairness)
             /\ (part = "events" => EventsFairness)

=============================================================================
