------------------------- MODULE TransactionalMemory -------------------------
(***************************************************************************)
(* The transactional memory of OP.vtm: EventSourcingSegmentManager (which  *)
(* thread is in which transaction, savepoints, merged read-only threads,   *)
(* commit and rollback) over InMemoryChangeHistory (the append-only list   *)
(* of shadow blocks, the conflict scan and the overlay of a transaction's  *)
(* own changes).                                                           *)
(*                                                                         *)
(* Grain of atomicity: one step appends a block, copies the origin image,  *)
(* looks at one block of the history, copies one shadow to the file or     *)
(* marks one block as garbage.  Threads interleave between these steps.    *)
(* One memcpy is one step.                                                 *)
(***************************************************************************)
EXTENDS Naturals, FiniteSets, Sequences

CONSTANTS
  Thread,    \* the threads of the program
  Addr,      \* the addresses (words) of the segment
  ReadRegion,   \* the address ranges the program reads
  WriteRegion,  \* the address ranges it asks to write
  Hint,      \* the WritableBlockHints it uses
  Level,     \* the isolation levels the program sets
  MaxTx,     \* bound: transactions that are ever begun
  MaxBlock,  \* bound: write blocks that are ever requested
  MaxSave,   \* bound: nesting of savepoints
  MaxMerge   \* bound: threads merged with one transaction at a time

TxId == 1 .. MaxTx
BlockId == 1 .. MaxBlock
Isolation == {"Prevent", "ReadCommitted", "ReadUncommitted"}

NoTx == 0
NoBlock == 0

\* What a word holds: 0 is its value in the file before any transaction, n the
\* value last stored by transaction n, Noise the content of fresh memory.
Origin == 0
Noise == MaxTx + 1
Val == 0 .. Noise
Image == [Addr -> Val]
NoImage == [a \in Addr |-> Noise]

ASSUME BoundsAssumption == MaxTx \in Nat /\ MaxBlock \in Nat 
                           /\ MaxSave \in Nat /\ MaxMerge \in Nat
ASSUME RegionAssumption == ReadRegion \cup WriteRegion \subseteq (SUBSET Addr) \ {{}}
ASSUME HintAssumption == Hint \subseteq {"update_c", "new_c"}
ASSUME LevelAssumption == Level \subseteq Isolation
ASSUME ThreadAssumption == Thread \cap BlockId = {}

VARIABLES
  base,         \* the mapped file behind BaseSegmentManager
  isolation,    \* InMemoryChangeHistory::_isolation
  next_uid,     \* transactions begun so far (_transaction_uid_gen)
  state,        \* where each transaction is in its life
  tls,          \* thread-local _opened_transactions: a transaction or NoTx
  merged,       \* threads whose _opened_transactions is a merged read-only one
  merge_count,  \* TransactionImpl::_thread_merge_count
  savepoint,    \* per transaction, the chain of open savepoints: their logs
  size,         \* number of blocks ever appended to _global_history
  range,        \* BlockProfile::_range
  used_in,      \* BlockProfile::_used_in_transaction
  type,         \* BlockProfile::_type ("free": not appended yet)
  buffer,       \* ShadowBuffer of each block, and of each thread's pending read
  call          \* what each thread is doing inside the library

session == <<next_uid, state, tls, merged, merge_count, savepoint>>
profiles == <<size, range, used_in>>
vars == <<base, isolation, session, profiles, type, buffer, call>>

Ready == [op |-> "idle", block |-> NoBlock, region |-> {}, pos |-> 0,
          level |-> "Prevent"]

Init ==
  /\ base = [a \in Addr |-> Origin]
  /\ isolation = "ReadCommitted"
  /\ next_uid = 0
  /\ state = [n \in TxId |-> "unborn"]
  /\ tls = [t \in Thread |-> NoTx]
  /\ merged = {}
  /\ merge_count = [n \in TxId |-> 0]
  /\ savepoint = [n \in TxId |-> <<>>]
  /\ size = 0
  /\ range = [b \in BlockId |-> {}]
  /\ used_in = [b \in BlockId |-> NoTx]
  /\ type = [b \in BlockId |-> "free"]
  /\ buffer = [x \in BlockId \cup Thread |-> NoImage]
  /\ call = [t \in Thread |-> Ready]

-----------------------------------------------------------------------------
\* Derived state

Idle(t) == call[t].op = "idle"

\* the thread's transaction object is the writable TransactionImpl (allow_write)
Owns(t) == tls[t] # NoTx /\ t \notin merged

\* the buffer a call fills: the new block's memory, or a private one for a read
Target(t) == IF call[t].block = NoBlock THEN t ELSE call[t].block

Blocks == 1 .. size
Overlaps(b, r) == range[b] \cap r # {}
Live(b) == type[b] # "garbage"

\* the blocks by which transaction n still locks its regions
Held(n) == {b \in Blocks : used_in[b] = n /\ Live(b)}

\* image f overlaid with g on the addresses of r
Overlay(f, g, r) == [a \in Addr |-> IF a \in r THEN g[a] ELSE f[a]]

-----------------------------------------------------------------------------
\* begin_transaction, savepoints (recurrent), merge_thread, read_isolation

Begin(t) ==
  /\ Idle(t) /\ tls[t] = NoTx /\ next_uid < MaxTx
  /\ next_uid' = next_uid + 1
  /\ state' = [state EXCEPT ![next_uid + 1] = "active"]
  /\ tls' = [tls EXCEPT ![t] = next_uid + 1]
  /\ UNCHANGED <<base, isolation, merged, merge_count, savepoint, profiles,
                 type, buffer, call>>

\* begin_transaction inside a transaction (a merged thread gets itself back).
\* since, the length of the history, is auxiliary: only properties read it.
OpenSavepoint(t) ==
  /\ Idle(t) /\ Owns(t) /\ Len(savepoint[tls[t]]) < MaxSave
  /\ savepoint' = [savepoint EXCEPT ![tls[t]] = Append(@, [since |-> size, log |-> {}])]
  /\ UNCHANGED <<base, isolation, next_uid, state, tls, merged, merge_count,
                 profiles, type, buffer, call>>

Outer(s) == SubSeq(s, 1, Len(s) - 1)

\* SavePoint::commit: "no real commit", and the log goes with the savepoint
CommitSavepoint(t) ==
  /\ Idle(t) /\ Owns(t) /\ savepoint[tls[t]] # <<>>
  /\ savepoint' = [savepoint EXCEPT ![tls[t]] = Outer(@)]
  /\ UNCHANGED <<base, isolation, next_uid, state, tls, merged, merge_count,
                 profiles, type, buffer, call>>

RollbackSavepoint(t) ==
  /\ Idle(t) /\ Owns(t) /\ savepoint[tls[t]] # <<>>
  /\ call' = [call EXCEPT ![t].op = "undo"]
  /\ UNCHANGED <<base, isolation, session, profiles, type, buffer>>

Inner(n) == savepoint[n][Len(savepoint[n])]
Unlogged(s, b) == [s EXCEPT ![Len(s)].log = @ \ {b}]

\* mutant: the rollback goes through the history and not through the log
UndoHistory(t) ==
  /\ call[t].op = "undo"
  /\ \E b \in Held(tls[t]) :
       /\ \A c \in Held(tls[t]) : b <= c
       /\ type' = [type EXCEPT ![b] = "garbage"]
       /\ savepoint' = [savepoint EXCEPT ![tls[t]] = Unlogged(@, b)]
  /\ UNCHANGED <<base, isolation, next_uid, state, tls, merged, merge_count,
                 profiles, buffer, call>>

\* MemoryChangeHistory::destroy of the log's next block
UndoBlock(t) ==
  /\ call[t].op = "undo"
  /\ \E b \in Inner(tls[t]).log :
       /\ \A c \in Inner(tls[t]).log : b <= c
       /\ type' = [type EXCEPT ![b] = "garbage"]
       /\ savepoint' = [savepoint EXCEPT ![tls[t]] = Unlogged(@, b)]
  /\ UNCHANGED <<base, isolation, next_uid, state, tls, merged, merge_count,
                 profiles, buffer, call>>

UndoEnd(t) ==
  /\ call[t].op = "undo" /\ Inner(tls[t]).log = {}
  /\ savepoint' = [savepoint EXCEPT ![tls[t]] = Outer(@)]
  /\ call' = [call EXCEPT ![t] = Ready]
  /\ UNCHANGED <<base, isolation, next_uid, state, tls, merged, merge_count,
                 profiles, type, buffer>>

\* The thread holds a handle of transaction n, whatever n's state: nothing in
\* merge_thread looks at it.
Merge(t, n) ==
  /\ Idle(t) /\ tls[t] = NoTx /\ state[n] # "unborn"
  /\ merge_count[n] < MaxMerge
  /\ tls' = [tls EXCEPT ![t] = n]
  /\ merged' = merged \cup {t}
  /\ merge_count' = [merge_count EXCEPT ![n] = @ + 1]
  /\ UNCHANGED <<base, isolation, next_uid, state, savepoint, profiles, type,
                 buffer, call>>

Unmerge(t) ==
  /\ Idle(t) /\ t \in merged /\ merge_count[tls[t]] > 0
  /\ merge_count' = [merge_count EXCEPT ![tls[t]] = @ - 1]
  /\ tls' = [tls EXCEPT ![t] = NoTx]
  /\ merged' = merged \ {t}
  /\ UNCHANGED <<base, isolation, next_uid, state, savepoint, profiles, type,
                 buffer, call>>

SetIsolation(l) ==
  /\ isolation' = l
  /\ UNCHANGED <<base, session, profiles, type, buffer, call>>

-----------------------------------------------------------------------------
\* readonly_block and writable_block: buffer_of_region

RequestRead(t, r) ==
  /\ Idle(t) /\ tls[t] # NoTx
  /\ call' = [call EXCEPT ![t] = [op |-> "origin", block |-> NoBlock,
                                  region |-> r, pos |-> 1, level |-> "Prevent"]]
  /\ UNCHANGED <<base, isolation, session, profiles, type, buffer>>

\* The block is appended in state init, before anything is checked.  hint is
\* the WritableBlockHint: new_c asks for memory without its old content.
RequestWrite(t, r, hint) ==
  /\ Idle(t) /\ Owns(t) /\ size < MaxBlock
  /\ size' = size + 1
  /\ range' = [range EXCEPT ![size + 1] = r]
  /\ used_in' = [used_in EXCEPT ![size + 1] = tls[t]]
  /\ type' = [type EXCEPT ![size + 1] = "init"]
  /\ call' = [call EXCEPT ![t] =
                [op |-> IF hint = "new_c" THEN "check" ELSE "origin",
                 block |-> size + 1, region |-> r, pos |-> 1, level |-> "Prevent"]]
  /\ UNCHANGED <<base, isolation, session, buffer>>

\* memcpy of the mapped file; a read then loads the isolation level
CopyOrigin(t) ==
  /\ call[t].op = "origin"
  /\ buffer' = [buffer EXCEPT ![Target(t)] = Overlay(@, base, call[t].region)]
  /\ call' = [call EXCEPT ![t].op = "scan",
                          ![t].level = IF call[t].block = NoBlock
                                       THEN isolation ELSE "Prevent"]
  /\ UNCHANGED <<base, isolation, session, profiles, type>>

\* The call of t is about to look at block b of the history.
LooksAt(t, b) ==
  /\ call[t].op \in {"scan", "check"}
  /\ b = call[t].pos /\ b \in Blocks /\ b # call[t].block

Contends(t, b) == Overlaps(b, call[t].region) /\ Live(b) /\ used_in[b] # tls[t]

\* mutant: populate_ro_block leaves out the transaction's own blocks as well
PassesOwn(t, b) ==
  \/ ~Overlaps(b, call[t].region)
  \/ ~Live(b)
  \/ Contends(t, b) /\ call[t].level = "ReadCommitted"
  \/ used_in[b] = tls[t]

\* mutant: another's block that is not exposed yet is no obstacle
PassesUnexposed(t, b) ==
  \/ ~Overlaps(b, call[t].region)
  \/ ~Live(b)
  \/ Contends(t, b) /\ (call[t].level = "ReadCommitted" \/ type[b] = "init")
  \/ call[t].op = "check" /\ used_in[b] = tls[t]

\* no intersection, garbage, another's block under ReadCommitted; check_no_locks
\* is not interested in the transaction's own blocks
Passes(t, b) ==
  \/ ~Overlaps(b, call[t].region)
  \/ ~Live(b)
  \/ Contends(t, b) /\ call[t].level = "ReadCommitted"
  \/ call[t].op = "check" /\ used_in[b] = tls[t]

PassBlock(t) ==
  /\ \E b \in Blocks : LooksAt(t, b) /\ Passes(t, b)
  /\ call' = [call EXCEPT ![t].pos = @ + 1]
  /\ UNCHANGED <<base, isolation, session, profiles, type, buffer>>

\* mutant: ReadCommitted treated as ReadUncommitted
CopiesUncommitted(t, b) ==
  /\ Overlaps(b, call[t].region) /\ Live(b)
  /\ \/ used_in[b] = tls[t] /\ type[b] # "init"
     \/ used_in[b] # tls[t] /\ call[t].level # "Prevent"

\* The transaction's own block, once it is no longer in state init (the thread
\* waits for that), or another's under ReadUncommitted in whatever state.
Copies(t, b) ==
  /\ Overlaps(b, call[t].region) /\ Live(b)
  /\ \/ used_in[b] = tls[t] /\ type[b] # "init"
     \/ used_in[b] # tls[t] /\ call[t].level = "ReadUncommitted"

OverlayBlock(t) ==
  /\ call[t].op = "scan"
  /\ \E b \in Blocks :
       /\ LooksAt(t, b) /\ Copies(t, b)
       /\ buffer' = [buffer EXCEPT ![Target(t)] =
                       Overlay(@, buffer[b], range[b] \cap call[t].region)]
  /\ call' = [call EXCEPT ![t].pos = @ + 1]
  /\ UNCHANGED <<base, isolation, session, profiles, type>>

\* mutant: nothing is logged
NotLogged(s, b) == s

\* store_log_record: the innermost savepoint remembers the block
Logged(s, b) ==
  IF s = <<>> THEN s ELSE [s EXCEPT ![Len(s)].log = @ \cup {b}]

\* mutant: no guard turns the refused block into garbage
RefuseLeaking(t) ==
  /\ \E b \in Blocks :
       LooksAt(t, b) /\ Contends(t, b) /\ call[t].level = "Prevent"
  /\ buffer' = [buffer EXCEPT ![t] = NoImage]
  /\ call' = [call EXCEPT ![t] = Ready]
  /\ UNCHANGED <<base, isolation, session, profiles, type>>

\* ConcurrentLockException; RAIIBlockGuard turns the new block into garbage
Refuse(t) ==
  /\ \E b \in Blocks :
       LooksAt(t, b) /\ Contends(t, b) /\ call[t].level = "Prevent"
  /\ type' = IF call[t].block = NoBlock THEN type
             ELSE [type EXCEPT ![call[t].block] = "garbage"]
  /\ buffer' = [buffer EXCEPT ![t] = NoImage]
  /\ call' = [call EXCEPT ![t] = Ready]
  /\ UNCHANGED <<base, isolation, session, profiles>>

\* The scan met the call's own block: the block is exposed as wr.
Expose(t) ==
  /\ call[t].op \in {"scan", "check"} /\ call[t].block # NoBlock
  /\ call[t].pos = call[t].block
  /\ type' = [type EXCEPT ![call[t].block] = "wr"]
  /\ savepoint' = [savepoint EXCEPT ![tls[t]] = Logged(@, call[t].block)]
  /\ call' = [call EXCEPT ![t] = Ready]
  /\ UNCHANGED <<base, isolation, next_uid, state, tls, merged, merge_count,
                 profiles, buffer>>

\* A read met the end of the history: its buffer goes to the caller.
ReturnRead(t) ==
  /\ call[t].op = "scan" /\ call[t].block = NoBlock /\ call[t].pos > size
  /\ buffer' = [buffer EXCEPT ![t] = NoImage]
  /\ call' = [call EXCEPT ![t] = Ready]
  /\ UNCHANGED <<base, isolation, session, profiles, type>>

\* The program stores through a chunk it was given (MemoryChunk::at, byte_copy).
Store(t, b, a) ==
  /\ Idle(t) /\ Owns(t)
  /\ used_in[b] = tls[t] /\ type[b] = "wr" /\ a \in range[b]
  /\ buffer' = [buffer EXCEPT ![b] = [@ EXCEPT ![a] = tls[t]]]
  /\ UNCHANGED <<base, isolation, session, profiles, type, call>>

-----------------------------------------------------------------------------
\* commit and rollback of the transaction

\* mutant: the committed event is sent before the shadows are applied
CommitReleaseFirst(t) ==
  /\ Idle(t) /\ Owns(t) /\ merge_count[tls[t]] = 0
  /\ state' = [state EXCEPT ![tls[t]] = "committing"]
  /\ call' = [call EXCEPT ![t].op = "release"]
  /\ UNCHANGED <<base, isolation, next_uid, tls, merged, merge_count, savepoint,
                 profiles, type, buffer>>

Commit(t) ==
  /\ Idle(t) /\ Owns(t) /\ merge_count[tls[t]] = 0
  /\ state' = [state EXCEPT ![tls[t]] = "committing"]
  /\ call' = [call EXCEPT ![t].op = "apply", ![t].pos = 1]
  /\ UNCHANGED <<base, isolation, next_uid, tls, merged, merge_count, savepoint,
                 profiles, type, buffer>>

\* mutant: iterate_shadows does not leave garbage out
ApplyGarbageToo(t) ==
  /\ call[t].op = "apply" /\ call[t].pos \in Blocks
  /\ base' = IF used_in[call[t].pos] = tls[t]
             THEN Overlay(base, buffer[call[t].pos], range[call[t].pos])
             ELSE base
  /\ call' = [call EXCEPT ![t].pos = @ + 1]
  /\ UNCHANGED <<isolation, session, profiles, type, buffer>>

\* mutant: the iteration runs past the end of the history
ApplyPastEnd(t) ==
  /\ call[t].op = "apply" /\ call[t].pos <= size + 1
  /\ base' = base
  /\ call' = [call EXCEPT ![t].pos = @ + 1]
  /\ UNCHANGED <<isolation, session, profiles, type, buffer>>

\* iterate_shadows: oldest to newest, each block that is not garbage
ApplyBlock(t) ==
  /\ call[t].op = "apply" /\ call[t].pos \in Blocks
  /\ base' = IF call[t].pos \in Held(tls[t])
             THEN Overlay(base, buffer[call[t].pos], range[call[t].pos])
             ELSE base
  /\ call' = [call EXCEPT ![t].pos = @ + 1]
  /\ UNCHANGED <<isolation, session, profiles, type, buffer>>

ApplyEnd(t) ==
  /\ call[t].op = "apply" /\ call[t].pos > size
  /\ call' = [call EXCEPT ![t].op = "release"]
  /\ UNCHANGED <<base, isolation, session, profiles, type, buffer>>

Rollback(t) ==
  /\ Idle(t) /\ Owns(t) /\ merge_count[tls[t]] = 0
  /\ state' = [state EXCEPT ![tls[t]] = "aborting"]
  /\ call' = [call EXCEPT ![t].op = "release"]
  /\ UNCHANGED <<base, isolation, next_uid, tls, merged, merge_count, savepoint,
                 profiles, type, buffer>>

\* complete_transaction: the blocks become garbage one after the other
ReleaseBlock(t) ==
  /\ call[t].op = "release"
  /\ \E b \in Held(tls[t]) :
       /\ \A c \in Held(tls[t]) : b <= c
       /\ type' = [type EXCEPT ![b] = "garbage"]
  /\ UNCHANGED <<base, isolation, session, profiles, buffer, call>>

\* dispose_transaction
Close(t) ==
  /\ call[t].op = "release" /\ Held(tls[t]) = {}
  /\ state' = [state EXCEPT ![tls[t]] = IF @ = "committing" THEN "committed"
                                        ELSE "aborted"]
  /\ savepoint' = [savepoint EXCEPT ![tls[t]] = <<>>]
  /\ tls' = [tls EXCEPT ![t] = NoTx]
  /\ call' = [call EXCEPT ![t] = Ready]
  /\ UNCHANGED <<base, isolation, next_uid, merged, merge_count, profiles, type,
                 buffer>>

-----------------------------------------------------------------------------
\* what the program may ask for
Request(t) ==
  \/ Begin(t) \/ OpenSavepoint(t) \/ CommitSavepoint(t) \/ RollbackSavepoint(t)
  \/ \E n \in TxId : Merge(t, n)
  \/ Unmerge(t)
  \/ \E r \in ReadRegion : RequestRead(t, r)
  \/ \E r \in WriteRegion, hint \in Hint : RequestWrite(t, r, hint)
  \/ \E b \in Blocks : \E a \in range[b] : Store(t, b, a)
  \/ Commit(t) \/ Rollback(t)

\* what a thread does inside a call
Step(t) ==
  \/ CopyOrigin(t) \/ PassBlock(t) \/ OverlayBlock(t) \/ Refuse(t) \/ Expose(t)
  \/ ReturnRead(t)
  \/ ApplyBlock(t) \/ ApplyEnd(t) \/ ReleaseBlock(t) \/ Close(t)
  \/ UndoBlock(t) \/ UndoEnd(t)

Next ==
  \/ \E t \in Thread : Request(t) \/ Step(t)
  \/ \E l \in Level : SetIsolation(l)

Spec == Init /\ [][Next]_vars

\* A thread that is inside a call is scheduled again; what the program asks for
\* next is its own choice.
FairSpec == Spec /\ \A t \in Thread : WF_vars(Step(t))
-----------------------------------------------------------------------------
(***************************************************************************)
(* Properties                                                              *)
(***************************************************************************)

State == {"unborn", "active", "committing", "committed", "aborting", "aborted"}
BlockType == {"free", "init", "wr", "garbage"}
Savepoint == [since : Nat, log : SUBSET BlockId]
Op == {"idle", "origin", "scan", "check", "apply", "release", "undo"}
Call == [op : Op, block : BlockId \cup {NoBlock}, region : SUBSET Addr,
         pos : 0 .. MaxBlock + 1, level : Isolation]

\* Every variable holds a value of its kind; in particular a thread's pending
\* call names a block of the history or none, and no scan leaves the history.
TypeOK ==
  /\ base \in Image
  /\ isolation \in Isolation
  /\ next_uid \in 0 .. MaxTx
  /\ state \in [TxId -> State]
  /\ tls \in [Thread -> TxId \cup {NoTx}]
  /\ merged \subseteq Thread
  /\ merge_count \in [TxId -> Nat]
  /\ savepoint \in [TxId -> Seq(Savepoint)]
  /\ size \in 0 .. MaxBlock
  /\ range \in [BlockId -> SUBSET Addr]
  /\ used_in \in [BlockId -> TxId \cup {NoTx}]
  /\ type \in [BlockId -> BlockType]
  /\ buffer \in [BlockId \cup Thread -> Image]
  /\ call \in [Thread -> Call]

\* Two transactions never hold writable blocks over the same address at once,
\* although each appends its block first and looks for conflicts afterwards
\* (InMemMemoryChangeHistory.h, buffer_of_region): the earlier of two
\* overlapping blocks is the only one that can be exposed.
WriteExclusion ==
  \A b, c \in Blocks :
    type[b] = "wr" /\ type[c] = "wr" /\ used_in[b] # used_in[c]
      => range[b] \cap range[c] = {}

Newest(S) == CHOOSE b \in S : \A c \in S : c <= b

\* The call of t has looked at everything it will look at.
Scanned(t) ==
  /\ call[t].op = "scan"
  /\ \/ call[t].pos = call[t].block
     \/ call[t].block = NoBlock /\ call[t].pos > size

\* What the owner of a transaction is given, to read or to write, holds its own
\* latest changes: at each address, those of the newest of its blocks there
\* (populate_ro_block applies the history from oldest to newest).
OwnWrites(t) ==
  \A a \in call[t].region :
    LET own == {b \in Held(tls[t]) \ {call[t].block} : a \in range[b]}
    IN  own # {} => buffer[Target(t)][a] = buffer[Newest(own)][a]

ReadsOwnWrites ==
  \A t \in Thread :
    Scanned(t) /\ Owns(t) /\ call[t].level # "ReadUncommitted" => OwnWrites(t)

\* Unless the level is ReadUncommitted, a read returns no value stored by
\* another transaction that is not committing yet or was rolled back, however
\* that transaction's steps fall between those of the read.
NoDirtyRead ==
  \A t \in Thread :
    Scanned(t) /\ call[t].block = NoBlock /\ call[t].level # "ReadUncommitted" =>
      \A a \in call[t].region :
        LET n == buffer[t][a]
        IN  n \in TxId /\ n # tls[t] => state[n] \in {"committing", "committed"}

\* The blocks of the committing thread that are in the file already.
Applied(t) ==
  {b \in Held(tls[t]) : call[t].op = "release" \/ b < call[t].pos}

\* While a commit copies its shadows to the file one by one, and until the last
\* of its blocks is released, every address it has copied holds the newest value
\* the transaction has for it: neither the order of its own blocks nor another
\* thread's commit in between loses one (TransactionImpl::commit).
CommitInstalls ==
  \A t \in Thread :
    call[t].op \in {"apply", "release"} /\ state[tls[t]] = "committing" =>
      \A a \in Addr :
        LET own == {b \in Applied(t) : a \in range[b]}
        IN  own # {} => base[a] = buffer[Newest(own)][a]

\* Rolling back a savepoint leaves every block the transaction held before the
\* savepoint was opened as it was.
SavepointUndoesNoMore ==
  [][\A t \in Thread : call[t].op = "undo" =>
       \A b \in Held(tls[t]) :
         b <= Inner(tls[t]).since => type'[b] = type[b]]_vars

\* When the rollback of a savepoint is over, the transaction holds no block it
\* acquired since the savepoint was opened.
SavepointUndoesAll ==
  [][\A t \in Thread : call[t].op = "undo" /\ call'[t].op = "idle" =>
       \A b \in Held(tls[t])' : b <= Inner(tls[t]).since]_vars

(***************************************************************************)
(* What the transactions promise together: TransactionalStore.  Its store  *)
(* is the file with the shadows of the committing transactions already in  *)
(* it, so that the whole commit happens in one step, the one that begins   *)
(* it; its claims and drafts are what the active ones hold.                *)
(***************************************************************************)
Claimed(n) == UNION {range[b] : b \in {c \in Held(n) : type[c] = "wr"}}

View(n, a) == buffer[Newest({b \in Held(n) : type[b] = "wr" /\ a \in range[b]})][a]

Committing(a) == {n \in TxId : state[n] = "committing" /\ a \in Claimed(n)}

AbsStore ==
  [a \in Addr |-> IF Committing(a) = {} THEN base[a]
                  ELSE View(CHOOSE n \in Committing(a) : TRUE, a)]
AbsStatus ==
  [n \in TxId |-> CASE state[n] = "committing" -> "committed"
                     [] state[n] = "aborting" -> "active"
                     [] OTHER -> state[n]]
AbsClaim ==
  [n \in TxId |-> IF AbsStatus[n] = "active" THEN Claimed(n) ELSE {}]
AbsDraft ==
  [n \in TxId |-> [a \in Addr |-> IF a \in AbsClaim[n] THEN View(n, a) ELSE Noise]]

Abs == INSTANCE TransactionalStore
         WITH store <- AbsStore, status <- AbsStatus,
              claim <- AbsClaim, draft <- AbsDraft

\* The file only ever changes by whole transactions, in one step each, and only
\* at addresses that the transaction had claimed while nobody else could.
AtomicCommit == Abs!Spec

\* A commit changes an address only to what its own transaction stored there (or
\* to the fresh memory of a new_c block): it never brings back a value that
\* another transaction has replaced and committed meanwhile.
NoLostUpdate ==
  [][\A a \in Addr : AbsStore'[a] # AbsStore[a] =>
       \E n \in TxId : /\ state[n] = "active" /\ state'[n] = "committing"
                       /\ AbsStore'[a] \in {n, Noise}]_vars

\* Every call comes back: the scan ends, waiting for a block in state init
\* ends, and a commit gets all its shadows to the file and its blocks released.
CallsReturn == \A t \in Thread : ~Idle(t) ~> Idle(t)
=============================================================================
