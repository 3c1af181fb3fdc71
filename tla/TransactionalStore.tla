-------------------------- MODULE TransactionalStore --------------------------
(***************************************************************************)
(* What OP.vtm's transactional memory promises, without threads, blocks or *)
(* a history: a store of words and transactions that claim addresses, each *)
(* address at most one transaction at a time, edit a private draft of what *)
(* they claim, and end by installing the whole draft at once or nothing.   *)
(* What a draft holds before the transaction stores into it is left open.  *)
(***************************************************************************)
EXTENDS Naturals

CONSTANTS
  Addr,   \* the addresses of the store
  MaxTx   \* bound: transactions that are ever begun

TxId == 1 .. MaxTx
Noise == MaxTx + 1
Val == 0 .. Noise
Image == [Addr -> Val]
NoImage == [a \in Addr |-> Noise]

VARIABLES
  store,   \* the committed words
  status,  \* unborn, active, committed or aborted
  claim,   \* the addresses each active transaction holds
  draft    \* what it would leave there

vars == <<store, status, claim, draft>>

Init ==
  /\ store = [a \in Addr |-> 0]
  /\ status = [n \in TxId |-> "unborn"]
  /\ claim = [n \in TxId |-> {}]
  /\ draft = [n \in TxId |-> NoImage]

\* transactions are numbered in the order they begin
Begin(n) ==
  /\ status[n] = "unborn" /\ \A m \in TxId : m < n => status[m] # "unborn"
  /\ status' = [status EXCEPT ![n] = "active"]
  /\ UNCHANGED <<store, claim, draft>>

\* Claim addresses, give some back (a rolled back savepoint), store into them.
Edit(n) ==
  /\ status[n] = "active"
  /\ \E c \in SUBSET Addr :
       /\ \A m \in TxId \ {n} : claim[m] \cap c = {}
       /\ claim' = [claim EXCEPT ![n] = c]
       /\ \E d \in [c -> Val] :
            draft' = [draft EXCEPT ![n] = [a \in Addr |-> IF a \in c THEN d[a]
                                                            ELSE Noise]]
  /\ UNCHANGED <<store, status>>

Finish(n, outcome) ==
  /\ status[n] = "active"
  /\ status' = [status EXCEPT ![n] = outcome]
  /\ claim' = [claim EXCEPT ![n] = {}]
  /\ draft' = [draft EXCEPT ![n] = NoImage]

Commit(n) ==
  /\ Finish(n, "committed")
  /\ store' = [a \in Addr |-> IF a \in claim[n] THEN draft[n][a] ELSE store[a]]

Abort(n) == Finish(n, "aborted") /\ UNCHANGED store

Next == \E n \in TxId : Begin(n) \/ Edit(n) \/ Commit(n) \/ Abort(n)

Spec == Init /\ [][Next]_vars
=============================================================================
