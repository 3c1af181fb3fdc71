---------------------- MODULE TransactionalMemoryProofs ----------------------
(***************************************************************************)
(* Theorems about TransactionalMemory, for every number of threads,        *)
(* transactions, blocks and savepoints and every choice of regions.        *)
(***************************************************************************)
EXTENDS TransactionalMemory, CommonLemmas, TLAPS

USE BoundsAssumption DEF NoTx, NoBlock

\* A transaction has one writer: the thread that began it, until it closes.  What
\* only a writer does, only a writer is in the middle of.
Ownership ==
  /\ \A n \in TxId : state[n] # "unborn" => n <= next_uid
  /\ \A t \in Thread : tls[t] <= next_uid
  /\ \A t, u \in Thread : Owns(t) /\ Owns(u) /\ tls[t] = tls[u] => t = u
  /\ \A t \in Thread :
       /\ call[t].op \in {"apply", "release", "undo"} => Owns(t)
       /\ call[t].block # NoBlock =>
            Owns(t) /\ call[t].op \in {"origin", "scan", "check"}
       /\ call[t].op = "undo" => savepoint[tls[t]] # <<>>

\* What a new record of the innermost savepoint does to the chain's type.
LEMMA LoggedType ==
  ASSUME NEW s \in Seq(Savepoint), NEW b \in BlockId
  PROVE  Logged(s, b) \in Seq(Savepoint)
<1>1. CASE s = <<>>
  BY <1>1 DEF Logged
<1>2. CASE s # <<>>
  <2>1. Len(s) \in 1 .. Len(s)
    BY <1>2
  <2>2. s[Len(s)] \in Savepoint
    BY <2>1
  <2>3. [s[Len(s)] EXCEPT !.log = @ \cup {b}] \in Savepoint
    BY <2>2 DEF Savepoint
  <2>4. Logged(s, b) = [s EXCEPT ![Len(s)] = [s[Len(s)] EXCEPT !.log = @ \cup {b}]]
    BY <1>2, <2>1 DEF Logged
  <2> QED
    BY <2>1, <2>3, <2>4
<1> QED
  BY <1>1, <1>2

\* Dropping the innermost savepoint, and dropping a block of its log.
LEMMA OuterType ==
  ASSUME NEW s \in Seq(Savepoint), s # <<>>
  PROVE  Outer(s) \in Seq(Savepoint)
BY DEF Outer

\* A write's block is one more.
LEMMA BlockAdded ==
  ASSUME TypeOK, NEW t, NEW r, NEW hint, RequestWrite(t, r, hint)
  PROVE  /\ size + 1 \in BlockId /\ size + 1 \notin Blocks
         /\ Blocks' = Blocks \cup {size + 1}
<1>1. size < MaxBlock /\ size' = size + 1 /\ size \in 0 .. MaxBlock /\ MaxBlock \in Nat
  BY BoundsAssumption DEF RequestWrite, TypeOK
<1>2. \A n \in Nat : 1 .. n + 1 = (1 .. n) \cup {n + 1} /\ n + 1 \notin 1 .. n
  OBVIOUS
<1> QED
  BY <1>1, <1>2 DEF Blocks, BlockId

LEMMA UnloggedType ==
  ASSUME NEW s \in Seq(Savepoint), s # <<>>, NEW b \in BlockId
  PROVE  Unlogged(s, b) \in Seq(Savepoint)
<1>1. Len(s) \in 1 .. Len(s)
  OBVIOUS
<1>2. s[Len(s)] \in Savepoint
  BY <1>1
<1>3. [s[Len(s)] EXCEPT !.log = @ \ {b}] \in Savepoint
  BY <1>2 DEF Savepoint
<1>4. Unlogged(s, b) = [s EXCEPT ![Len(s)] = [s[Len(s)] EXCEPT !.log = @ \ {b}]]
  BY <1>1 DEF Unlogged
<1> QED
  BY <1>1, <1>3, <1>4

\* Stepping, restarting or finishing a call leaves it a call.
LEMMA CallType ==
  /\ Ready \in Call
  /\ \A c \in Call : /\ \A o \in Op : [c EXCEPT !.op = o] \in Call
                     /\ c.pos \in 1 .. MaxBlock => [c EXCEPT !.pos = @ + 1] \in Call
BY SMTT(60) DEF Ready, Call, Op, Isolation

\* Copying addresses from one image to another yields an image.
LEMMA OverlayType ==
  ASSUME NEW f \in Image, NEW g \in Image, NEW r
  PROVE  Overlay(f, g, r) \in Image
BY DEF Overlay, Image

LEMMA NoImageType == NoImage \in Image /\ [a \in Addr |-> Origin] \in Image
BY DEF NoImage, Image, Val, Noise, Origin

LEMMA InitType == Init => TypeOK
BY CallType, NoImageType
   DEF Init, TypeOK, Isolation, TxId, State, BlockType

LEMMA StepType ==
  ASSUME TypeOK, Ownership, [Next]_vars
  PROVE  TypeOK'
<1> USE DEF TypeOK
<1>u. CASE UNCHANGED vars
  BY <1>u DEF vars, session, profiles
<1>l. CASE \E l \in Level : SetIsolation(l)
  BY <1>l, LevelAssumption, SMTT(60) DEF SetIsolation, session, profiles
<1>t. ASSUME NEW t \in Thread, Request(t) \/ Step(t)
      PROVE  TypeOK'
  <2>a. call[t] \in Call /\ tls[t] \in TxId \cup {NoTx}
    OBVIOUS
  <2>b. Owns(t) => tls[t] \in TxId
    BY DEF Owns
  <2>1. CASE Begin(t)
    BY <2>1, SMTT(60) DEF Begin, TxId, profiles, State
  <2>2. CASE OpenSavepoint(t)
    <3>1. [since |-> size, log |-> {}] \in Savepoint
      BY DEF Savepoint
    <3> QED
      BY <2>2, <2>b, <3>1 DEF OpenSavepoint, profiles
  <2>3. CASE CommitSavepoint(t)
    BY <2>3, <2>b, OuterType DEF CommitSavepoint, profiles
  <2>4. CASE RollbackSavepoint(t)
    BY <2>4, <2>a, CallType DEF RollbackSavepoint, profiles, session, Op
  <2>5. ASSUME NEW n \in TxId, Merge(t, n) PROVE TypeOK'
    BY <2>5 DEF Merge, profiles
  <2>6. CASE Unmerge(t)
    <3>1. tls[t] \in TxId => merge_count[tls[t]] - 1 \in Nat
      BY <2>6 DEF Unmerge
    <3> QED
      BY <2>6, <3>1 DEF Unmerge, profiles
  <2>7. ASSUME NEW r \in ReadRegion, RequestRead(t, r) PROVE TypeOK'
    <3>1. [op |-> "origin", block |-> NoBlock, region |-> r, pos |-> 1,
           level |-> "Prevent"] \in Call
      BY RegionAssumption DEF Call, Op, Isolation
    <3> QED
      BY <2>7, <3>1 DEF RequestRead, profiles, session
  <2>8. ASSUME NEW r \in WriteRegion, NEW hint \in Hint, RequestWrite(t, r, hint)
        PROVE TypeOK'
    <3>1. size + 1 \in BlockId /\ r \in SUBSET Addr
      BY <2>8, RegionAssumption DEF RequestWrite, BlockId
    <3>2. [op |-> IF hint = "new_c" THEN "check" ELSE "origin",
           block |-> size + 1, region |-> r, pos |-> 1, level |-> "Prevent"] \in Call
      BY <3>1 DEF Call, Op, Isolation, BlockId
    <3> QED
      BY <2>8, <3>1, <3>2, <2>b DEF RequestWrite, session, BlockType, BlockId
  <2>9. ASSUME NEW b \in Blocks, NEW a \in range[b], Store(t, b, a) PROVE TypeOK'
    <3>1. b \in BlockId /\ tls[t] \in Val
      BY <2>9, <2>b, SMTT(60) DEF Store, Blocks, BlockId, Val, TxId, Noise
    <3>2. [buffer[b] EXCEPT ![a] = tls[t]] \in Image
      BY <3>1 DEF Image
    <3> QED
      BY <2>9, <3>1, <3>2 DEF Store, session, profiles
  <2>10. CASE Commit(t)
    <3>1. 1 \in 0 .. MaxBlock + 1 /\ "apply" \in Op
      BY DEF Op
    <3>2. [call[t] EXCEPT !.op = "apply", !.pos = 1] \in Call
      BY <2>a, <3>1 DEF Call
    <3> QED
      BY <2>10, <2>b, <3>2 DEF Commit, profiles, State
  <2>11. CASE Rollback(t)
    BY <2>11, <2>a, <2>b, CallType DEF Rollback, profiles, State, Op
  <2>12. CASE CopyOrigin(t)
    <3>1. [call[t] EXCEPT !.op = "scan",
                          !.level = IF call[t].block = NoBlock THEN isolation
                                    ELSE "Prevent"] \in Call
      BY <2>a DEF Call, Op, Isolation
    <3>2. Target(t) \in BlockId \cup Thread
      BY <2>a DEF Target, Call
    <3>3. Overlay(buffer[Target(t)], base, call[t].region) \in Image
      BY <3>2, OverlayType
    <3> QED
      BY <2>12, <3>1, <3>2, <3>3 DEF CopyOrigin, profiles, session
  <2>13. CASE PassBlock(t)
    <3>1. call[t].pos \in 1 .. MaxBlock
      BY <2>13 DEF PassBlock, LooksAt, Blocks
    <3> QED
      BY <2>13, <2>a, <3>1, CallType DEF PassBlock, profiles, session
  <2>14. CASE OverlayBlock(t)
    <3>1. PICK b \in Blocks :
            /\ LooksAt(t, b)
            /\ buffer' = [buffer EXCEPT ![Target(t)] =
                            Overlay(@, buffer[b], range[b] \cap call[t].region)]
      BY <2>14 DEF OverlayBlock
    <3>2. b \in BlockId /\ call[t].pos \in 1 .. MaxBlock
      BY <3>1 DEF LooksAt, Blocks, BlockId
    <3>3. Target(t) \in BlockId \cup Thread
      BY <2>a DEF Target, Call
    <3>4. Overlay(buffer[Target(t)], buffer[b], range[b] \cap call[t].region) \in Image
      BY <3>2, <3>3, OverlayType
    <3>5. buffer' \in [BlockId \cup Thread -> Image]
      BY <3>1, <3>3, <3>4
    <3> QED
      BY <2>14, <2>a, <3>2, <3>5, CallType DEF OverlayBlock, profiles, session
  <2>15. CASE Refuse(t)
    BY <2>15, CallType, NoImageType DEF Refuse, profiles, session, BlockType
  <2>16. CASE Expose(t)
    <3>1. call[t].block \in BlockId
      BY <2>16, <2>a DEF Expose, Call
    <3>2. savepoint' \in [TxId -> Seq(Savepoint)]
      BY <2>16, <3>1, LoggedType DEF Expose
    <3> QED
      BY <2>16, <3>1, <3>2, CallType DEF Expose, profiles, BlockType
  <2>17. CASE ReturnRead(t)
    BY <2>17, CallType, NoImageType DEF ReturnRead, profiles, session
  <2>18. CASE ApplyBlock(t)
    <3>1. call[t].pos \in 1 .. MaxBlock /\ call[t].pos \in BlockId
      BY <2>18 DEF ApplyBlock, Blocks, BlockId
    <3>2. base' \in Image
      BY <2>18, <3>1, OverlayType DEF ApplyBlock
    <3> QED
      BY <2>18, <2>a, <3>1, <3>2, CallType DEF ApplyBlock, profiles, session
  <2>19. CASE ApplyEnd(t)
    BY <2>19, <2>a, CallType DEF ApplyEnd, profiles, session, Op
  <2>20. CASE ReleaseBlock(t)
    BY <2>20 DEF ReleaseBlock, profiles, session, BlockType
  <2>21. CASE Close(t)
    <3>1. <<>> \in Seq(Savepoint)
      OBVIOUS
    <3>2. state' \in [TxId -> State]
      BY <2>21 DEF Close, State
    <3> QED
      BY <2>21, <3>1, <3>2, CallType DEF Close, profiles
  <2>c. call[t].op = "undo" => tls[t] \in TxId /\ savepoint[tls[t]] # <<>>
    BY <2>b DEF Ownership
  <2>22. CASE UndoBlock(t)
    <3>1. PICK b \in Inner(tls[t]).log :
            /\ type' = [type EXCEPT ![b] = "garbage"]
            /\ savepoint' = [savepoint EXCEPT ![tls[t]] = Unlogged(@, b)]
      BY <2>22 DEF UndoBlock
    <3>2. Inner(tls[t]) \in Savepoint
      BY <2>22, <2>c DEF UndoBlock, Inner
    <3>3. b \in BlockId
      BY <3>2 DEF Savepoint
    <3>4. savepoint' \in [TxId -> Seq(Savepoint)]
      BY <2>22, <2>c, <3>1, <3>3, UnloggedType DEF UndoBlock
    <3>5. type' \in [BlockId -> BlockType]
      BY <3>1 DEF BlockType
    <3> QED
      BY <2>22, <3>4, <3>5 DEF UndoBlock, profiles
  <2>23. CASE UndoEnd(t)
    BY <2>23, <2>c, OuterType, CallType DEF UndoEnd, profiles
  <2> QED
    BY <1>t, <2>1, <2>2, <2>3, <2>4, <2>5, <2>6, <2>7, <2>8, <2>9, <2>10, <2>11,
       <2>12, <2>13, <2>14, <2>15, <2>16, <2>17, <2>18, <2>19, <2>20, <2>21,
       <2>22, <2>23 DEF Request, Step
<1> QED
  BY <1>u, <1>l, <1>t DEF Next

LEMMA InitOwnership == Init => Ownership
BY DEF Init, Ownership, Owns, Ready

LEMMA StepOwnership ==
  ASSUME TypeOK, Ownership, [Next]_vars
  PROVE  Ownership'
<1> USE DEF TypeOK, Ownership, Owns
<1>u. CASE UNCHANGED vars
  BY <1>u DEF vars, session, profiles
<1>l. CASE \E l \in Level : SetIsolation(l)
  BY <1>l, SMTT(60) DEF SetIsolation, session
<1>t. ASSUME NEW t \in Thread, Request(t) \/ Step(t)
      PROVE  Ownership'
  <2>a. call[t] \in Call /\ tls[t] \in TxId \cup {NoTx}
    OBVIOUS
  <2>1. CASE Begin(t)
    <3>1. \A n \in TxId : state'[n] # "unborn" => n <= next_uid'
      BY <2>1 DEF Begin, TxId
    <3>2. \A u \in Thread : tls'[u] <= next_uid'
      BY <2>1, SMTT(60) DEF Begin, TxId
    <3>3. \A u \in Thread : u # t /\ Owns(u)' => tls'[u] # tls'[t]
      BY <2>1 DEF Begin, TxId
    <3>4. \A u, v \in Thread : Owns(u)' /\ Owns(v)' /\ tls'[u] = tls'[v] => u = v
      BY <2>1, <3>3 DEF Begin
    <3>5. \A u \in Thread : u # t => tls'[u] = tls[u]
      BY <2>1 DEF Begin
    <3>6. call[t].block = NoBlock /\ call[t].op = "idle"
      BY <2>1 DEF Begin, Idle
    <3> QED
      BY <2>1, <3>1, <3>2, <3>4, <3>5, <3>6 DEF Begin
  <2>2. CASE OpenSavepoint(t)
    <3>a. [since |-> size, log |-> {}] \in Savepoint
      BY DEF Savepoint
    <3>0. ASSUME NEW s \in Seq(Savepoint), NEW x \in Savepoint
          PROVE  Append(s, x) # <<>>
      <4>1. Len(Append(s, x)) = Len(s) + 1 /\ Len(s) \in Nat
        OBVIOUS
      <4>2. Len(<<>>) = 0
        OBVIOUS
      <4>3. CASE Append(s, x) = <<>>
        <5>1. Len(Append(s, x)) = 0
          BY <4>2, <4>3, Zenon
        <5> QED
          BY <4>1, <5>1
      <4> QED
        BY <4>3
    <3>1. \A n \in TxId : savepoint[n] # <<>> => savepoint'[n] # <<>>
      BY <2>2, <3>a, <3>0 DEF OpenSavepoint
    <3> QED
      BY <2>2, <3>1, ZenonT(90) DEF OpenSavepoint
  <2>3. CASE CommitSavepoint(t)
    BY <2>3 DEF CommitSavepoint, Idle
  <2>4. CASE RollbackSavepoint(t)
    BY <2>4, <2>a, SMTT(60) DEF RollbackSavepoint, session, Idle, Call
  <2>5. ASSUME NEW n \in TxId, Merge(t, n) PROVE Ownership'
    BY <2>5 DEF Merge, Idle
  <2>6. CASE Unmerge(t)
    BY <2>6 DEF Unmerge, Idle
  <2>7. ASSUME NEW r \in ReadRegion, RequestRead(t, r) PROVE Ownership'
    BY <2>7 DEF RequestRead, session
  <2>8. ASSUME NEW r \in WriteRegion, NEW hint \in Hint, RequestWrite(t, r, hint)
        PROVE Ownership'
    BY <2>8 DEF RequestWrite, session
  <2>9. ASSUME NEW b \in Blocks, NEW a \in range[b], Store(t, b, a) PROVE Ownership'
    BY <2>9 DEF Store, session
  <2>10. CASE Commit(t)
    <3>1. call[t].block = NoBlock
      BY <2>10 DEF Commit, Idle
    <3>2. call'[t].op = "apply" /\ call'[t].block = NoBlock
      BY <2>10, <2>a, <3>1 DEF Commit, Call
    <3>3. \A u \in Thread : u # t => call'[u] = call[u]
      BY <2>10 DEF Commit
    <3>4. state[tls[t]] = "unborn" => tls[t] <= next_uid
      OBVIOUS
    <3> QED
      BY <2>10, <3>2, <3>3, <3>4 DEF Commit
  <2>11. CASE Rollback(t)
    BY <2>11, <2>a, SMTT(60) DEF Rollback, Idle, Call, TxId
  <2>12. CASE CopyOrigin(t)
    BY <2>12, <2>a, SMTT(60) DEF CopyOrigin, session, Call
  <2>13. CASE PassBlock(t)
    BY <2>13, <2>a, SMTT(60) DEF PassBlock, session, Call
  <2>14. CASE OverlayBlock(t)
    BY <2>14, <2>a, ZenonT(90) DEF OverlayBlock, session, Call
  <2>15. CASE Refuse(t)
    BY <2>15 DEF Refuse, session, Ready
  <2>16. CASE Expose(t)
    BY <2>16 DEF Expose, Ready
  <2>17. CASE ReturnRead(t)
    BY <2>17 DEF ReturnRead, session, Ready
  <2>18. CASE ApplyBlock(t)
    BY <2>18, <2>a DEF ApplyBlock, session, Call
  <2>19. CASE ApplyEnd(t)
    BY <2>19, <2>a DEF ApplyEnd, session, Call
  <2>20. CASE ReleaseBlock(t)
    BY <2>20 DEF ReleaseBlock, session
  <2>21. CASE Close(t)
    BY <2>21 DEF Close, Ready
  <2>22. CASE UndoBlock(t)
    BY <2>22, SMTT(60) DEF UndoBlock, Unlogged
  <2>23. CASE UndoEnd(t)
    BY <2>23 DEF UndoEnd, Ready
  <2> QED
    BY <1>t, <2>1, <2>2, <2>3, <2>4, <2>5, <2>6, <2>7, <2>8, <2>9, <2>10, <2>11,
       <2>12, <2>13, <2>14, <2>15, <2>16, <2>17, <2>18, <2>19, <2>20, <2>21,
       <2>22, <2>23 DEF Request, Step
<1> QED
  BY <1>u, <1>l, <1>t DEF Next

\* Every reachable state of the transactional memory has values of the right
\* kinds: in particular no scan or commit leaves the history.
THEOREM TypeCorrect == Spec => [](TypeOK /\ Ownership)
<1>1. Init => TypeOK /\ Ownership
  BY InitType, InitOwnership
<1>2. TypeOK /\ Ownership /\ [Next]_vars => (TypeOK /\ Ownership)'
  BY StepType, StepOwnership
<1> QED
  BY <1>1, <1>2, PTL DEF Spec

-----------------------------------------------------------------------------
(***************************************************************************)
(* Exclusion.  WriteExclusion alone is not inductive: it says nothing of a *)
(* block whose conflict scan is under way.  The strengthening says what    *)
(* such a scan has established so far, that nobody takes a block away from *)
(* the call that scans for it, and that savepoints only remember blocks    *)
(* whose scan is over.                                                     *)
(***************************************************************************)

\* Block i is no obstacle to block b, and stays none.
Clear(i, b) ==
  ~Live(i) \/ used_in[i] = used_in[b] \/ range[i] \cap range[b] = {}

Scans ==
  \A t \in Thread : call[t].block # NoBlock =>
    /\ call[t].block \in Blocks
    /\ type[call[t].block] = "init"
    /\ used_in[call[t].block] = tls[t]
    /\ range[call[t].block] = call[t].region
    /\ call[t].level = "Prevent"
    /\ call[t].pos \in 1 .. call[t].block
    /\ \A i \in Blocks : i < call[t].pos => Clear(i, call[t].block)

Exposed ==
  \A b \in Blocks : type[b] = "wr" => \A i \in Blocks : i < b => Clear(i, b)

LogsSettled ==
  \A n \in TxId : \A k \in DOMAIN savepoint[n] :
    \A b \in savepoint[n][k].log : b \in Blocks /\ type[b] # "init"

Exclusion == Scans /\ Exposed /\ LogsSettled

\* Each block above the earlier one is clear of it, hence the two are disjoint.
LEMMA ExclusionImplies == TypeOK /\ Exclusion => WriteExclusion
<1> SUFFICES ASSUME TypeOK, Exclusion,
                    NEW b \in Blocks, NEW c \in Blocks,
                    type[b] = "wr", type[c] = "wr", used_in[b] # used_in[c]
             PROVE  range[b] \cap range[c] = {}
  BY DEF WriteExclusion
<1>1. b < c \/ c < b
  BY DEF Blocks, TypeOK
<1>2. CASE b < c
  BY <1>2 DEF Exclusion, Exposed, Clear, Live
<1>3. CASE c < b
  BY <1>3 DEF Exclusion, Exposed, Clear, Live
<1> QED
  BY <1>1, <1>2, <1>3

\* A step that appends no block, exposes none, and moves a scan by at most one
\* block that is clear, preserves exclusion.
LEMMA Frame ==
  ASSUME TypeOK, Exclusion, UNCHANGED profiles,
         \A b \in Blocks : type'[b] \in {type[b], "garbage"},
         \A t \in Thread : call'[t].block # NoBlock =>
           /\ call'[t].block = call[t].block /\ call'[t].region = call[t].region
           /\ call'[t].level = call[t].level /\ tls'[t] = tls[t]
           /\ type'[call[t].block] = type[call[t].block]
           /\ \/ call'[t].pos = call[t].pos
              \/ /\ call'[t].pos = call[t].pos + 1 /\ call[t].pos < call[t].block
                 /\ Clear(call[t].pos, call[t].block),
         \A n \in TxId : \A k \in DOMAIN savepoint'[n] :
           \A b \in savepoint'[n][k].log : b \in Blocks /\ type[b] # "init"
  PROVE  Exclusion'
<1>0. Blocks' = Blocks /\ Blocks \subseteq Nat
  BY DEF Blocks, profiles
<1>1. \A i, b \in Blocks : Clear(i, b) => Clear(i, b)'
  BY DEF Clear, Live, profiles
<1>2. Exposed'
  BY <1>0, <1>1 DEF Exposed, Exclusion
<1>3. LogsSettled'
  BY <1>0 DEF LogsSettled, profiles
<1>4. Scans'
  <2> SUFFICES ASSUME NEW t \in Thread, call'[t].block # NoBlock
               PROVE  (/\ call[t].block \in Blocks
                       /\ type[call[t].block] = "init"
                       /\ used_in[call[t].block] = tls[t]
                       /\ range[call[t].block] = call[t].region
                       /\ call[t].level = "Prevent"
                       /\ call[t].pos \in 1 .. call[t].block
                       /\ \A i \in Blocks :
                            i < call[t].pos => Clear(i, call[t].block))'
    BY DEF Scans
  <2>1. /\ call'[t].block = call[t].block /\ call[t].block \in Blocks
        /\ type[call[t].block] = "init" /\ used_in[call[t].block] = tls[t]
        /\ range[call[t].block] = call[t].region /\ call[t].level = "Prevent"
        /\ call[t].pos \in 1 .. call[t].block
        /\ \A i \in Blocks : i < call[t].pos => Clear(i, call[t].block)
    BY DEF Scans, Exclusion
  <2>2. call'[t].pos \in 1 .. call'[t].block
    BY <1>0, <2>1
  <2>3. ASSUME NEW i \in Blocks, i < call'[t].pos
        PROVE  Clear(i, call[t].block)
    BY <1>0, <2>1, <2>3
  <2>4. \A i \in Blocks' : i < call'[t].pos => Clear(i, call[t].block)'
    <3> SUFFICES ASSUME NEW i \in Blocks', i < call'[t].pos
                 PROVE  Clear(i, call[t].block)'
      OBVIOUS
    <3>1. i \in Blocks /\ Clear(i, call[t].block)
      BY <1>0, <2>3
    <3>2. type'[i] \in {type[i], "garbage"} /\ UNCHANGED <<range, used_in>>
      BY <3>1 DEF profiles
    <3> QED
      BY <2>1, <3>1, <3>2 DEF Clear, Live
  <2> QED
    BY <1>0, <2>1, <2>2, <2>4 DEF profiles
<1> QED
  BY <1>2, <1>3, <1>4 DEF Exclusion

\* What the logs hold after a record is added, dropped with its savepoint, or
\* dropped alone.
LEMMA LogsAfter ==
  ASSUME NEW s \in Seq(Savepoint), NEW b \in BlockId
  PROVE  /\ \A k \in DOMAIN Logged(s, b) :
              k \in DOMAIN s /\ Logged(s, b)[k].log \subseteq s[k].log \cup {b}
         /\ s # <<>> => \A k \in DOMAIN Unlogged(s, b) :
              k \in DOMAIN s /\ Unlogged(s, b)[k].log \subseteq s[k].log
         /\ s # <<>> => \A k \in DOMAIN Outer(s) :
              k \in DOMAIN s /\ Outer(s)[k] = s[k]
<1>0. \A k \in DOMAIN s : s[k] \in Savepoint
  OBVIOUS
<1>1. s # <<>> => \A k \in DOMAIN Outer(s) : k \in DOMAIN s /\ Outer(s)[k] = s[k]
  BY DEF Outer
<1>2. ASSUME NEW k \in DOMAIN Logged(s, b)
      PROVE  k \in DOMAIN s /\ Logged(s, b)[k].log \subseteq s[k].log \cup {b}
  <2>1. CASE s = <<>>
    BY <2>1 DEF Logged
  <2>2. CASE s # <<>>
    BY <1>0, <2>2 DEF Logged, Savepoint
  <2> QED
    BY <2>1, <2>2
<1>3. ASSUME s # <<>>, NEW k \in DOMAIN Unlogged(s, b)
      PROVE  k \in DOMAIN s /\ Unlogged(s, b)[k].log \subseteq s[k].log
  BY <1>0, <1>3 DEF Unlogged, Savepoint
<1> QED
  BY <1>1, <1>2, <1>3

LEMMA InitExclusion == Init => Exclusion
BY DEF Init, Exclusion, Scans, Exposed, LogsSettled, Blocks, Ready

LEMMA StepExclusion ==
  ASSUME TypeOK, Ownership, Exclusion, [Next]_vars
  PROVE  Exclusion'
<1>a. \A n \in TxId : \A k \in DOMAIN savepoint[n] :
        \A b \in savepoint[n][k].log : b \in Blocks /\ type[b] # "init"
  BY DEF Exclusion, LogsSettled
<1>b. Blocks \subseteq BlockId
  BY DEF Blocks, BlockId, TypeOK
<1>c. call \in [Thread -> Call] /\ type \in [BlockId -> BlockType]
  BY DEF TypeOK
<1>d. savepoint \in [TxId -> Seq(Savepoint)]
  BY DEF TypeOK
<1>e. tls \in [Thread -> TxId \cup {NoTx}]
  BY DEF TypeOK
<1>u. CASE UNCHANGED vars
  BY <1>u, <1>a, Frame DEF vars, session, profiles
<1>l. CASE \E l \in Level : SetIsolation(l)
  BY <1>l, <1>a, Frame DEF SetIsolation, session
<1>t. ASSUME NEW t \in Thread, Request(t) \/ Step(t)
      PROVE  Exclusion'
  <2>a. call[t] \in Call
    BY <1>c
  <2>b. call[t].block # NoBlock =>
          Owns(t) /\ call[t].op \in {"origin", "scan", "check"}
    BY DEF Ownership
  <2>c. ASSUME NEW u \in Thread, call[u].block # NoBlock, Owns(t), t # u
        PROVE  used_in[call[u].block] # tls[t]
    <3>1. Owns(u) /\ used_in[call[u].block] = tls[u]
      BY <2>c DEF Ownership, Exclusion, Scans
    <3> QED
      BY <2>c, <3>1 DEF Ownership
  <2>1. CASE Begin(t)
    BY <2>1, <2>b, <1>a, <1>e, Frame DEF Begin, Idle
  <2>2. CASE OpenSavepoint(t)
    <3>1. savepoint' = [savepoint EXCEPT ![tls[t]] =
                          Append(@, [since |-> size, log |-> {}])]
      BY <2>2 DEF OpenSavepoint
    <3>2. [since |-> size, log |-> {}] \in Savepoint
      BY DEF Savepoint, TypeOK
    <3>3. \A n \in TxId : \A k \in DOMAIN savepoint'[n] :
            \A b \in savepoint'[n][k].log : b \in Blocks /\ type[b] # "init"
      BY <1>a, <1>d, <3>1, <3>2
    <3> QED
      BY <2>2, <3>3, Frame DEF OpenSavepoint
  <2>3. CASE CommitSavepoint(t)
    <3>1. Owns(t) => tls[t] \in TxId
      BY <1>e DEF Owns
    <3>2. \A n \in TxId : \A k \in DOMAIN savepoint'[n] :
            k \in DOMAIN savepoint[n] /\ savepoint'[n][k] = savepoint[n][k]
      BY <2>3, <1>d, <3>1 DEF CommitSavepoint, Outer
    <3> QED
      BY <2>3, <1>a, <3>2, Frame DEF CommitSavepoint
  <2>4. CASE RollbackSavepoint(t)
    BY <2>4, <2>a, <2>b, <1>a, <1>c, Frame
       DEF RollbackSavepoint, Idle, session, Call
  <2>5. ASSUME NEW n \in TxId, Merge(t, n) PROVE Exclusion'
    BY <2>5, <2>b, <1>a, <1>e, Frame DEF Merge, Idle
  <2>6. CASE Unmerge(t)
    BY <2>6, <2>b, <1>a, <1>e, Frame DEF Unmerge, Idle
  <2>7. ASSUME NEW r \in ReadRegion, RequestRead(t, r) PROVE Exclusion'
    BY <2>7, <1>a, <1>c, Frame DEF RequestRead, session
  <2>8. ASSUME NEW r \in WriteRegion, NEW hint \in Hint, RequestWrite(t, r, hint)
        PROVE Exclusion'
    <3> DEFINE new == size + 1
    <3>1. new \in BlockId /\ new \notin Blocks /\ Blocks' = Blocks \cup {new}
      BY <2>8, BlockAdded
    <3>2. /\ type' = [type EXCEPT ![new] = "init"]
          /\ used_in' = [used_in EXCEPT ![new] = tls[t]]
          /\ range' = [range EXCEPT ![new] = r]
          /\ UNCHANGED <<tls, savepoint>>
      BY <2>8 DEF RequestWrite, session
    <3>3. \A b \in Blocks : /\ type'[b] = type[b] /\ range'[b] = range[b]
                            /\ used_in'[b] = used_in[b]
      BY <1>b, <3>1, <3>2 DEF TypeOK
    <3>4. \A i, b \in Blocks : Clear(i, b) => Clear(i, b)'
      BY <3>3 DEF Clear, Live
    <3>5. Exposed'
      <4> SUFFICES ASSUME NEW b \in Blocks', type'[b] = "wr",
                          NEW i \in Blocks', i < b
                   PROVE  Clear(i, b)'
        BY DEF Exposed
      <4>1. b \in Blocks
        BY <1>c, <3>1, <3>2
      <4>2. i \in Blocks
        BY <3>1, <4>1 DEF Blocks, TypeOK
      <4> QED
        BY <3>3, <3>4, <4>1, <4>2 DEF Exclusion, Exposed
    <3>6. LogsSettled'
      BY <1>a, <3>1, <3>2, <3>3 DEF LogsSettled
    <3>7. Scans'
      <4> SUFFICES ASSUME NEW u \in Thread, call'[u].block # NoBlock
                   PROVE  (/\ call[u].block \in Blocks
                           /\ type[call[u].block] = "init"
                           /\ used_in[call[u].block] = tls[u]
                           /\ range[call[u].block] = call[u].region
                           /\ call[u].level = "Prevent"
                           /\ call[u].pos \in 1 .. call[u].block
                           /\ \A i \in Blocks :
                                i < call[u].pos => Clear(i, call[u].block))'
        BY DEF Scans
      <4>1. CASE u = t
        <5>1. /\ call'[t].block = new /\ call'[t].region = r /\ call'[t].pos = 1
              /\ call'[t].level = "Prevent"
          BY <2>8, <1>c DEF RequestWrite
        <5>2. /\ type'[new] = "init" /\ used_in'[new] = tls'[t] /\ range'[new] = r
          BY <1>c, <3>1, <3>2 DEF TypeOK
        <5>3. 1 \in 1 .. new /\ \A i \in Blocks' : ~(i < 1)
          BY <3>1 DEF Blocks, BlockId, TypeOK
        <5> QED
          BY <3>1, <4>1, <5>1, <5>2, <5>3
      <4>2. CASE u # t
        <5>1. call'[u] = call[u] /\ call[u].block # NoBlock
          BY <2>8, <1>c, <4>2 DEF RequestWrite
        <5>2. /\ call[u].block \in Blocks /\ type[call[u].block] = "init"
              /\ used_in[call[u].block] = tls[u]
              /\ range[call[u].block] = call[u].region /\ call[u].level = "Prevent"
              /\ call[u].pos \in 1 .. call[u].block
              /\ \A i \in Blocks : i < call[u].pos => Clear(i, call[u].block)
          BY <5>1 DEF Exclusion, Scans
        <5>3. ASSUME NEW i \in Blocks', i < call[u].pos
              PROVE  Clear(i, call[u].block)'
          <6>1. i \in Blocks
            BY <3>1, <5>2, <5>3 DEF Blocks, TypeOK
          <6> QED
            BY <3>3, <5>1, <5>2, <5>3, <6>1 DEF Clear, Live
        <5> QED
          BY <3>1, <3>2, <3>3, <5>1, <5>2, <5>3
      <4> QED
        BY <4>1, <4>2
    <3> QED
      BY <3>5, <3>6, <3>7 DEF Exclusion
  <2>9. ASSUME NEW b \in Blocks, NEW a \in range[b], Store(t, b, a) PROVE Exclusion'
    BY <2>9, <1>a, Frame DEF Store, session
  <2>10. CASE Commit(t)
    BY <2>10, <2>a, <2>b, <1>a, <1>c, Frame DEF Commit, Idle, Call
  <2>11. CASE Rollback(t)
    BY <2>11, <2>a, <2>b, <1>a, <1>c, Frame DEF Rollback, Idle, Call
  <2>12. CASE CopyOrigin(t)
    <3>1. call[t].block # NoBlock => call[t].level = "Prevent"
      BY DEF Exclusion, Scans
    <3>2. /\ call'[t].block = call[t].block /\ call'[t].region = call[t].region
          /\ call'[t].pos = call[t].pos
          /\ call[t].block # NoBlock => call'[t].level = call[t].level
      BY <2>12, <2>a, <1>c, <3>1 DEF CopyOrigin, Call
    <3>3. \A u \in Thread : u # t => call'[u] = call[u]
      BY <2>12, <1>c DEF CopyOrigin
    <3> QED
      BY <2>12, <1>a, <3>2, <3>3, Frame DEF CopyOrigin, session
  <2>d. ASSUME UNCHANGED <<profiles, session, type>>,
               call' = [call EXCEPT ![t].pos = @ + 1],
               call[t].block # NoBlock =>
                 call[t].pos < call[t].block /\ Clear(call[t].pos, call[t].block)
        PROVE  Exclusion'
    <3>1. /\ call'[t].block = call[t].block /\ call'[t].region = call[t].region
          /\ call'[t].pos = call[t].pos + 1 /\ call'[t].level = call[t].level
      BY <2>a, <2>d, <1>c DEF Call
    <3>2. \A u \in Thread : u # t => call'[u] = call[u]
      BY <2>d, <1>c
    <3> QED
      BY <2>d, <1>a, <3>1, <3>2, Frame DEF session
  <2>e. ASSUME call[t].block # NoBlock, NEW b \in Blocks, LooksAt(t, b)
        PROVE  /\ b = call[t].pos /\ call[t].pos < call[t].block
               /\ range[call[t].block] = call[t].region /\ call[t].level = "Prevent"
               /\ used_in[call[t].block] = tls[t]
    BY <2>e DEF LooksAt, Exclusion, Scans, Blocks, TypeOK
  <2>13. CASE PassBlock(t)
    <3>1. PICK b \in Blocks : LooksAt(t, b) /\ Passes(t, b)
      BY <2>13 DEF PassBlock
    <3>2. call[t].block # NoBlock =>
            call[t].pos < call[t].block /\ Clear(call[t].pos, call[t].block)
      BY <2>e, <3>1 DEF Passes, Contends, Overlaps, Clear
    <3> QED
      BY <2>13, <2>d, <3>2 DEF PassBlock
  <2>14. CASE OverlayBlock(t)
    <3>1. PICK b \in Blocks : LooksAt(t, b) /\ Copies(t, b)
      BY <2>14 DEF OverlayBlock
    <3>2. call[t].block # NoBlock =>
            call[t].pos < call[t].block /\ Clear(call[t].pos, call[t].block)
      BY <2>e, <3>1 DEF Copies, Clear
    <3> QED
      BY <2>14, <2>d, <3>2 DEF OverlayBlock
  <2>15. CASE Refuse(t)
    <3>1. \A u \in Thread : u # t /\ call[u].block # NoBlock =>
            call[u].block # call[t].block
      BY <2>b, <2>c DEF Exclusion, Scans
    <3>2. call' = [call EXCEPT ![t] = Ready] /\ Ready.block = NoBlock
      BY <2>15 DEF Refuse, Ready
    <3>3. \A b \in Blocks : type'[b] \in {type[b], "garbage"}
      BY <2>15, <1>b, <1>c DEF Refuse
    <3>4. \A u \in Thread : call'[u].block # NoBlock =>
            call'[u] = call[u] /\ type'[call[u].block] = type[call[u].block]
      BY <2>15, <1>b, <1>c, <3>1, <3>2 DEF Refuse
    <3> QED
      BY <2>15, <1>a, <3>3, <3>4, Frame DEF Refuse, session
  <2>16. CASE Expose(t)
    <3> DEFINE mine == call[t].block
    <3>1. /\ mine \in Blocks /\ mine # NoBlock /\ call[t].pos = mine
          /\ \A i \in Blocks : i < mine => Clear(i, mine)
      BY <2>16 DEF Expose, Exclusion, Scans
    <3>2. /\ type' = [type EXCEPT ![mine] = "wr"]
          /\ UNCHANGED <<tls, size, range, used_in>>
          /\ savepoint' = [savepoint EXCEPT ![tls[t]] = Logged(@, mine)]
          /\ call' = [call EXCEPT ![t] = Ready]
      BY <2>16 DEF Expose, profiles
    <3>3. Blocks' = Blocks
      BY <3>2 DEF Blocks
    <3>4. \A b \in Blocks : type'[b] = IF b = mine THEN "wr" ELSE type[b]
      BY <1>b, <1>c, <3>2
    <3>5. ASSUME NEW b \in Blocks, NEW i \in Blocks, Clear(i, b), Live(i) \/ i # mine
          PROVE  Clear(i, b)'
      BY <3>2, <3>4, <3>5 DEF Clear, Live
    <3>6. Live(mine)
      BY <3>1 DEF Live, Exclusion, Scans
    <3>7. Exposed'
      <4> SUFFICES ASSUME NEW b \in Blocks, type'[b] = "wr",
                          NEW i \in Blocks, i < b
                   PROVE  Clear(i, b)'
        BY <3>3 DEF Exposed
      <4>1. Clear(i, b)
        BY <3>1, <3>4 DEF Exclusion, Exposed
      <4> QED
        BY <3>5, <3>6, <4>1
    <3>8. LogsSettled'
      <4>1. mine \in BlockId
        BY <1>b, <3>1
      <4>2. ASSUME NEW n \in TxId, NEW k \in DOMAIN savepoint'[n]
            PROVE  /\ k \in DOMAIN savepoint[n]
                   /\ savepoint'[n][k].log \subseteq savepoint[n][k].log \cup {mine}
        BY <1>d, <3>2, <4>1, <4>2, LogsAfter
      <4>3. \A b \in Blocks : type[b] # "init" => type'[b] # "init"
        BY <3>4
      <4>4. mine \in Blocks /\ type'[mine] # "init"
        BY <3>1, <3>4
      <4> QED
        BY <1>a, <3>3, <4>2, <4>3, <4>4 DEF LogsSettled
    <3>9. Scans'
      <4> SUFFICES ASSUME NEW u \in Thread, call'[u].block # NoBlock
                   PROVE  (/\ call[u].block \in Blocks
                           /\ type[call[u].block] = "init"
                           /\ used_in[call[u].block] = tls[u]
                           /\ range[call[u].block] = call[u].region
                           /\ call[u].level = "Prevent"
                           /\ call[u].pos \in 1 .. call[u].block
                           /\ \A i \in Blocks :
                                i < call[u].pos => Clear(i, call[u].block))'
        BY DEF Scans
      <4>1. u # t /\ call'[u] = call[u]
        BY <1>c, <3>2 DEF Ready
      <4>2. /\ call[u].block \in Blocks /\ type[call[u].block] = "init"
            /\ used_in[call[u].block] = tls[u]
            /\ range[call[u].block] = call[u].region /\ call[u].level = "Prevent"
            /\ call[u].pos \in 1 .. call[u].block
            /\ \A i \in Blocks : i < call[u].pos => Clear(i, call[u].block)
        BY <4>1 DEF Exclusion, Scans
      <4>3. call[u].block # mine
        BY <2>b, <2>c, <3>1, <4>1 DEF Exclusion, Scans
      <4>4. ASSUME NEW i \in Blocks, i < call[u].pos
            PROVE  Clear(i, call[u].block)'
        BY <3>2, <3>4, <3>5, <3>6, <4>1, <4>2, <4>4 DEF Clear, Live
      <4> QED
        BY <3>2, <3>3, <3>4, <4>1, <4>2, <4>3, <4>4
    <3> QED
      BY <3>7, <3>8, <3>9 DEF Exclusion
  <2>17. CASE ReturnRead(t)
    BY <2>17, <1>a, <1>c, Frame DEF ReturnRead, session, Ready
  <2>18. CASE ApplyBlock(t)
    BY <2>18, <2>b, <2>d DEF ApplyBlock
  <2>19. CASE ApplyEnd(t)
    BY <2>19, <2>a, <2>b, <1>a, <1>c, Frame DEF ApplyEnd, session, Call
  <2>20. CASE ReleaseBlock(t)
    <3>1. PICK b \in Held(tls[t]) : type' = [type EXCEPT ![b] = "garbage"]
      BY <2>20 DEF ReleaseBlock
    <3>2. Owns(t) /\ call[t].block = NoBlock
      BY <2>20, <2>b DEF ReleaseBlock, Ownership
    <3>3. \A u \in Thread : call[u].block # NoBlock => call[u].block # b
      BY <2>c, <3>1, <3>2 DEF Held
    <3> QED
      BY <2>20, <1>a, <1>b, <1>c, <3>1, <3>3, Frame
         DEF ReleaseBlock, session, Exclusion, Scans
  <2>21. CASE Close(t)
    <3>1. call[t].op = "release" /\ call' = [call EXCEPT ![t] = Ready]
      BY <2>21 DEF Close
    <3>2. \A n \in TxId : \A k \in DOMAIN savepoint'[n] :
            k \in DOMAIN savepoint[n] /\ savepoint'[n][k] = savepoint[n][k]
      BY <2>21, <1>d DEF Close
    <3> QED
      BY <2>21, <1>a, <1>c, <1>e, <3>1, <3>2, Frame DEF Close, Ready
  <2>22. CASE UndoBlock(t)
    <3>1. PICK b \in Inner(tls[t]).log :
            /\ type' = [type EXCEPT ![b] = "garbage"]
            /\ savepoint' = [savepoint EXCEPT ![tls[t]] = Unlogged(@, b)]
      BY <2>22 DEF UndoBlock
    <3>2. tls[t] \in TxId /\ savepoint[tls[t]] # <<>>
      BY <2>22, <1>e DEF UndoBlock, Ownership, Owns
    <3>3. Len(savepoint[tls[t]]) \in DOMAIN savepoint[tls[t]]
      BY <1>d, <3>2
    <3>4. b \in Blocks /\ b \in BlockId /\ type[b] # "init"
      BY <1>a, <1>b, <3>1, <3>2, <3>3 DEF Inner
    <3>5. ASSUME NEW n \in TxId, NEW k \in DOMAIN savepoint'[n]
          PROVE  /\ k \in DOMAIN savepoint[n]
                 /\ savepoint'[n][k].log \subseteq savepoint[n][k].log
      BY <1>d, <3>1, <3>2, <3>4, <3>5, LogsAfter
    <3>6. \A n \in TxId : \A k \in DOMAIN savepoint'[n] :
            \A c \in savepoint'[n][k].log : c \in Blocks /\ type[c] # "init"
      BY <1>a, <3>5
    <3>7. \A u \in Thread : call[u].block # NoBlock => call[u].block # b
      BY <3>4 DEF Exclusion, Scans
    <3>8. \A c \in Blocks : type'[c] = IF c = b THEN "garbage" ELSE type[c]
      BY <1>b, <1>c, <3>1
    <3>9. \A u \in Thread : call[u].block # NoBlock =>
            type'[call[u].block] = type[call[u].block]
      BY <3>7, <3>8 DEF Exclusion, Scans
    <3> QED
      BY <2>22, <3>6, <3>8, <3>9, Frame DEF UndoBlock
  <2>23. CASE UndoEnd(t)
    <3>1. tls[t] \in TxId /\ savepoint[tls[t]] # <<>>
      BY <2>23, <1>e DEF UndoEnd, Ownership, Owns
    <3>2. \A n \in TxId : \A k \in DOMAIN savepoint'[n] :
            k \in DOMAIN savepoint[n] /\ savepoint'[n][k] = savepoint[n][k]
      BY <2>23, <1>d, <3>1 DEF UndoEnd, Outer
    <3> QED
      BY <2>23, <1>a, <1>c, <3>2, Frame DEF UndoEnd, Ready
  <2> QED
    BY <1>t, <2>1, <2>2, <2>3, <2>4, <2>5, <2>6, <2>7, <2>8, <2>9, <2>10, <2>11,
       <2>12, <2>13, <2>14, <2>15, <2>16, <2>17, <2>18, <2>19, <2>20, <2>21,
       <2>22, <2>23 DEF Request, Step
<1> QED
  BY <1>u, <1>l, <1>t DEF Next

\* No two transactions ever hold writable blocks over the same address, however
\* the appends, the scans and the commits of any number of threads interleave.
THEOREM WritersExcluded == Spec => []WriteExclusion
<1>1. Init => TypeOK /\ Ownership /\ Exclusion
  BY InitType, InitOwnership, InitExclusion
<1>2. TypeOK /\ Ownership /\ Exclusion /\ [Next]_vars
        => (TypeOK /\ Ownership /\ Exclusion)'
  BY StepType, StepOwnership, StepExclusion
<1>3. TypeOK /\ Exclusion => WriteExclusion
  BY ExclusionImplies
<1> QED
  BY <1>1, <1>2, <1>3, PTL DEF Spec

-----------------------------------------------------------------------------
(***************************************************************************)
(* What transactions see of one another: an owner reads its own writes, no *)
(* read is dirty, a commit installs the newest shadows, and a savepoint    *)
(* undoes what came after it.                                              *)
(*                                                                         *)
(* The argument is the same everywhere.  A step of one thread changes only *)
(* blocks, logs and phases of the transaction that the thread owns         *)
(* (OthersKept), and a transaction has one owner; so each invariant needs  *)
(* to be looked at only for the steps of the thread it speaks of.          *)
(***************************************************************************)

\* A transaction's phase and the place of its owner in the code agree; a copy of
\* the origin image comes before anything is looked at, and the first block of the
\* history is the first one a scan looks at.
Phases ==
  /\ \A n \in TxId : n <= next_uid => state[n] # "unborn"
  /\ \A t \in Thread : Owns(t) =>
       IF call[t].op = "apply" THEN state[tls[t]] = "committing"
       ELSE IF call[t].op = "release" THEN state[tls[t]] \in {"committing", "aborting"}
       ELSE state[tls[t]] = "active"
  /\ \A t \in Thread : call[t].op = "origin" => call[t].pos = 1
  /\ \A t \in Thread : call[t].op = "scan" => call[t].pos >= 1

\* A live block belongs to a transaction that still has its owner, and a block in
\* state init to a call that is under way.
BlocksOwned ==
  \A b \in Blocks :
    /\ used_in[b] \in TxId /\ type[b] # "free"
    /\ Live(b) => \E t \in Thread : Owns(t) /\ tls[t] = used_in[b]
    /\ type[b] = "init" => \E t \in Thread : call[t].block = b

\* The block a call fills is its transaction's newest, and younger than each of
\* the open savepoints.
NewestLast ==
  \A t \in Thread : call[t].block # NoBlock =>
    /\ \A c \in Blocks : used_in[c] = tls[t] => c <= call[t].block
    /\ \A k \in DOMAIN savepoint[tls[t]] :
         savepoint[tls[t]][k].since < call[t].block

\* A savepoint's log names blocks of its own transaction, each appended after the
\* savepoint was opened.
LogsOwned ==
  \A n \in TxId : \A k \in DOMAIN savepoint[n] :
    /\ savepoint[n][k].since <= size
    /\ \A b \in savepoint[n][k].log :
         b \in Blocks /\ used_in[b] = n /\ savepoint[n][k].since < b

Life == Phases /\ BlocksOwned /\ NewestLast /\ LogsOwned

\* The facts about types and blocks that nearly every step needs.
LEMMA Basics ==
  ASSUME TypeOK, Ownership, Exclusion
  PROVE  /\ Blocks \subseteq BlockId /\ BlockId \subseteq Nat \ {NoBlock}
         /\ Thread \cap BlockId = {}
         /\ call \in [Thread -> Call] /\ tls \in [Thread -> TxId \cup {NoTx}]
         /\ type \in [BlockId -> BlockType] /\ used_in \in [BlockId -> TxId \cup {NoTx}]
         /\ savepoint \in [TxId -> Seq(Savepoint)] /\ state \in [TxId -> State]
         /\ buffer \in [BlockId \cup Thread -> Image] /\ base \in Image
         /\ range \in [BlockId -> SUBSET Addr] /\ size \in Nat
         /\ \A t \in Thread :
              /\ Owns(t) => tls[t] \in TxId
              /\ call[t].block # NoBlock =>
                   /\ Owns(t) /\ call[t].block \in Blocks
                   /\ type[call[t].block] = "init" /\ used_in[call[t].block] = tls[t]
                   /\ range[call[t].block] = call[t].region
                   /\ call[t].level = "Prevent"
                   /\ call[t].op \in {"origin", "scan", "check"}
<1>1. Blocks \subseteq BlockId /\ BlockId \subseteq Nat \ {NoBlock} /\ size \in Nat
  BY DEF TypeOK, Blocks, BlockId
<1>2. ASSUME NEW t \in Thread
      PROVE  /\ Owns(t) => tls[t] \in TxId
             /\ call[t].block # NoBlock =>
                  /\ Owns(t) /\ call[t].block \in Blocks
                  /\ type[call[t].block] = "init" /\ used_in[call[t].block] = tls[t]
                  /\ range[call[t].block] = call[t].region
                  /\ call[t].level = "Prevent"
                  /\ call[t].op \in {"origin", "scan", "check"}
  BY SMTT(60) DEF TypeOK, Ownership, Exclusion, Scans, Owns
<1> QED
  BY <1>1, <1>2, ThreadAssumption DEF TypeOK

\* What a step of thread t leaves alone.
LEMMA OthersKept ==
  ASSUME TypeOK, Ownership, Exclusion, LogsOwned,
         NEW t \in Thread, Request(t) \/ Step(t)
  PROVE  /\ \A u \in Thread \ {t} :
              /\ call'[u] = call[u] /\ tls'[u] = tls[u] /\ buffer'[u] = buffer[u]
              /\ u \in merged' <=> u \in merged
         /\ \A n \in TxId : /\ state'[n] = state[n] \/ state[n] = "unborn"
                                 \/ (Owns(t) /\ n = tls[t])
                            /\ savepoint'[n] = savepoint[n] \/ (Owns(t) /\ n = tls[t])
         /\ Blocks \subseteq Blocks'
         /\ \A b \in Blocks :
              /\ used_in'[b] = used_in[b] /\ range'[b] = range[b]
              /\ \/ type'[b] = type[b] /\ buffer'[b] = buffer[b]
                 \/ Owns(t) /\ used_in[b] = tls[t]
         /\ \A b \in Blocks' \ Blocks :
              Owns(t) /\ used_in'[b] = tls[t] /\ type'[b] = "init"
<1> DEFINE Kept == /\ \A u \in Thread \ {t} :
                        /\ call'[u] = call[u] /\ tls'[u] = tls[u] /\ buffer'[u] = buffer[u]
                        /\ u \in merged' <=> u \in merged
                   /\ \A n \in TxId :
                        /\ state'[n] = state[n] \/ state[n] = "unborn" \/ (Owns(t) /\ n = tls[t])
                        /\ savepoint'[n] = savepoint[n] \/ (Owns(t) /\ n = tls[t])
                   /\ Blocks \subseteq Blocks'
                   /\ \A b \in Blocks :
                        /\ used_in'[b] = used_in[b] /\ range'[b] = range[b]
                        /\ \/ type'[b] = type[b] /\ buffer'[b] = buffer[b]
                           \/ Owns(t) /\ used_in[b] = tls[t]
                   /\ \A b \in Blocks' \ Blocks :
                        Owns(t) /\ used_in'[b] = tls[t] /\ type'[b] = "init"
<1>a. /\ Blocks \subseteq BlockId /\ Thread \cap BlockId = {}
      /\ call \in [Thread -> Call] /\ tls \in [Thread -> TxId \cup {NoTx}]
      /\ type \in [BlockId -> BlockType] /\ used_in \in [BlockId -> TxId \cup {NoTx}]
      /\ savepoint \in [TxId -> Seq(Savepoint)] /\ state \in [TxId -> State]
      /\ buffer \in [BlockId \cup Thread -> Image]
      /\ range \in [BlockId -> SUBSET Addr] /\ size \in Nat
  BY Basics
<1>b. ASSUME UNCHANGED profiles
      PROVE  /\ Blocks' = Blocks
             /\ \A b \in Blocks : used_in'[b] = used_in[b] /\ range'[b] = range[b]
  BY <1>b DEF profiles, Blocks
<1>c. call[t].op \in {"undo", "release", "apply"} => Owns(t)
  BY DEF Ownership
<1>d. call[t].block # NoBlock =>
        Owns(t) /\ call[t].block \in Blocks /\ used_in[call[t].block] = tls[t]
  BY Basics
<1>1. CASE Begin(t)
  <2>1. state[next_uid + 1] = "unborn" \/ next_uid + 1 \notin TxId
    BY DEF Ownership, TypeOK, TxId
  <2> QED
    BY <1>1, <1>a, <1>b, <2>1 DEF Begin
<1>2. CASE OpenSavepoint(t)
  BY <1>2, <1>a, <1>b DEF OpenSavepoint
<1>3. CASE CommitSavepoint(t)
  BY <1>3, <1>a, <1>b DEF CommitSavepoint
<1>4. CASE RollbackSavepoint(t)
  BY <1>4, <1>a, <1>b DEF RollbackSavepoint, session
<1>5. ASSUME NEW n \in TxId, Merge(t, n) PROVE Kept
  BY <1>5, <1>a, <1>b DEF Merge
<1>6. CASE Unmerge(t)
  BY <1>6, <1>a, <1>b DEF Unmerge
<1>7. ASSUME NEW r \in ReadRegion, RequestRead(t, r) PROVE Kept
  BY <1>7, <1>a, <1>b DEF RequestRead, session
<1>8. ASSUME NEW r \in WriteRegion, NEW hint \in Hint, RequestWrite(t, r, hint) PROVE Kept
  <2>1. /\ Blocks' = Blocks \cup {size + 1} /\ size + 1 \notin Blocks
        /\ size + 1 \in BlockId
    BY <1>8, BlockAdded
  <2>2. Owns(t) /\ UNCHANGED <<tls, merged, buffer, state, savepoint>>
    BY <1>8 DEF RequestWrite, session
  <2>3. \A u \in Thread \ {t} : call'[u] = call[u]
    BY <1>8, <1>a DEF RequestWrite
  <2>4. \A b \in Blocks : used_in'[b] = used_in[b] /\ range'[b] = range[b] /\ type'[b] = type[b]
    BY <1>8, <1>a, <2>1 DEF RequestWrite
  <2>5. used_in'[size + 1] = tls[t] /\ type'[size + 1] = "init"
    BY <1>8, <1>a, <2>1 DEF RequestWrite
  <2> QED
    BY <2>1, <2>2, <2>3, <2>4, <2>5
<1>9. ASSUME NEW b \in Blocks, NEW a \in range[b], Store(t, b, a) PROVE Kept
  BY <1>9, <1>a, <1>b DEF Store, session
<1>10. CASE Commit(t)
  BY <1>10, <1>a, <1>b DEF Commit
<1>11. CASE Rollback(t)
  BY <1>11, <1>a, <1>b DEF Rollback
<1>12. CASE CopyOrigin(t)
  BY <1>12, <1>a, <1>b, <1>d DEF CopyOrigin, session, Target
<1>13. CASE PassBlock(t)
  BY <1>13, <1>a, <1>b DEF PassBlock, session
<1>14. CASE OverlayBlock(t)
  BY <1>14, <1>a, <1>b, <1>d DEF OverlayBlock, session, Target
<1>15. CASE Refuse(t)
  BY <1>15, <1>a, <1>b, <1>d DEF Refuse, session
<1>16. CASE Expose(t)
  BY <1>16, <1>a, <1>b, <1>d DEF Expose
<1>17. CASE ReturnRead(t)
  BY <1>17, <1>a, <1>b DEF ReturnRead, session
<1>18. CASE ApplyBlock(t)
  BY <1>18, <1>a, <1>b DEF ApplyBlock, session
<1>19. CASE ApplyEnd(t)
  BY <1>19, <1>a, <1>b DEF ApplyEnd, session
<1>20. CASE ReleaseBlock(t)
  BY <1>20, <1>a, <1>b, <1>c DEF ReleaseBlock, session, Held
<1>21. CASE Close(t)
  BY <1>21, <1>a, <1>b, <1>c DEF Close
<1>22. CASE UndoBlock(t)
  <2>1. tls[t] \in TxId /\ savepoint[tls[t]] # <<>> /\ Owns(t)
    BY <1>22, <1>a, <1>c DEF UndoBlock, Ownership, Owns
  <2>2. Len(savepoint[tls[t]]) \in DOMAIN savepoint[tls[t]]
    BY <1>a, <2>1
  <2>3. \A b \in Inner(tls[t]).log : used_in[b] = tls[t]
    BY <2>1, <2>2 DEF LogsOwned, Inner
  <2> QED
    BY <1>22, <1>a, <1>b, <2>1, <2>3 DEF UndoBlock
<1>23. CASE UndoEnd(t)
  BY <1>23, <1>a, <1>b, <1>c DEF UndoEnd
<1> QED
  BY <1>1, <1>2, <1>3, <1>4, <1>5, <1>6, <1>7, <1>8, <1>9, <1>10, <1>11, <1>12,
     <1>13, <1>14, <1>15, <1>16, <1>17, <1>18, <1>19, <1>20, <1>21, <1>22, <1>23
     DEF Request, Step

\* The step of one thread, or of none.
LEMMA StepPhases ==
  ASSUME TypeOK, Ownership, Exclusion, Life, [Next]_vars
  PROVE  Phases'
<1>a. /\ call \in [Thread -> Call] /\ tls \in [Thread -> TxId \cup {NoTx}]
      /\ state \in [TxId -> State] /\ next_uid \in 0 .. MaxTx
      /\ \A t \in Thread : Owns(t) => tls[t] \in TxId
  BY Basics DEF TypeOK
<1>p. Phases
  BY DEF Life
<1>u. CASE UNCHANGED vars
  BY <1>u, <1>p DEF vars, session, profiles, Phases, Owns
<1>l. CASE \E l \in Level : SetIsolation(l)
  BY <1>l, <1>p DEF SetIsolation, session, Phases, Owns
<1>t. ASSUME NEW t \in Thread, Request(t) \/ Step(t)
      PROVE  Phases'
  <2> DEFINE Placed(u) ==
        /\ Owns(u) => IF call[u].op = "apply" THEN state[tls[u]] = "committing"
                      ELSE IF call[u].op = "release"
                           THEN state[tls[u]] \in {"committing", "aborting"}
                      ELSE state[tls[u]] = "active"
        /\ call[u].op = "origin" => call[u].pos = 1
        /\ call[u].op = "scan" => call[u].pos >= 1
  <2>a. call[t] \in Call /\ tls[t] \in TxId \cup {NoTx}
    BY <1>a
  <2>p. \A u \in Thread : Placed(u)
    <3> SUFFICES ASSUME NEW u \in Thread PROVE Placed(u)
      OBVIOUS
    <3> QED
      BY <1>p DEF Phases
  <2>k. /\ \A u \in Thread \ {t} : /\ call'[u] = call[u] /\ tls'[u] = tls[u]
                                   /\ u \in merged' <=> u \in merged
        /\ \A n \in TxId : state'[n] = state[n] \/ state[n] = "unborn"
                             \/ (Owns(t) /\ n = tls[t])
    BY <1>t, OthersKept DEF Life
  <2>b. \A u \in Thread \ {t} : Placed(u)'
    <3> SUFFICES ASSUME NEW u \in Thread \ {t} PROVE Placed(u)'
      OBVIOUS
    <3>1. Owns(u)' => Owns(u) /\ tls[u] \in TxId
      BY <1>a, <2>k DEF Owns
    <3>2. Owns(u) => state'[tls[u]] = state[tls[u]]
      <4>1. Owns(u) => state[tls[u]] # "unborn" /\ (Owns(t) => tls[t] # tls[u])
        BY <2>p DEF Ownership
      <4> QED
        BY <1>a, <2>k, <4>1
    <3> QED
      BY <2>k, <2>p, <3>1, <3>2
  <2>c. (\A n \in TxId : n <= next_uid => state[n] # "unborn")
    BY <1>p DEF Phases
  <2> DEFINE Goal == Placed(t)' /\ \A n \in TxId : n <= next_uid' => state'[n] # "unborn"
  <2> HIDE DEF Goal
  <2>g. Goal
    <3>1. CASE Begin(t)
      BY <3>1, <1>a, <2>a, <2>c, <2>p DEF Begin, TxId, profiles, Goal, Owns, Idle, Call
    <3>2. CASE OpenSavepoint(t)
      BY <3>2, <1>a, <2>a, <2>c, <2>p DEF OpenSavepoint, profiles, Goal, Owns, Idle, Call
    <3>3. CASE CommitSavepoint(t)
      BY <3>3, <1>a, <2>a, <2>c, <2>p DEF CommitSavepoint, profiles, Goal, Owns, Idle, Call
    <3>4. CASE RollbackSavepoint(t)
      BY <3>4, <1>a, <2>a, <2>c, <2>p DEF RollbackSavepoint, session, profiles, Goal, Owns, Idle, Call
    <3>5. ASSUME NEW n \in TxId, Merge(t, n) PROVE Goal
      BY <3>5, <1>a, <2>a, <2>c, <2>p DEF Merge, profiles, Goal, Owns, Idle, Call
    <3>6. CASE Unmerge(t)
      BY <3>6, <1>a, <2>a, <2>c, <2>p DEF Unmerge, profiles, Goal, Owns, Idle, Call
    <3>7. ASSUME NEW r \in ReadRegion, RequestRead(t, r) PROVE Goal
      BY <3>7, <1>a, <2>a, <2>c, <2>p DEF RequestRead, session, profiles, Goal, Owns, Idle, Call
    <3>8. ASSUME NEW r \in WriteRegion, NEW hint \in Hint, RequestWrite(t, r, hint)
            PROVE Goal
      BY <3>8, <1>a, <2>a, <2>c, <2>p DEF RequestWrite, session, Goal, Owns, Idle, Call
    <3>9. ASSUME NEW b \in Blocks, NEW a \in range[b], Store(t, b, a) PROVE Goal
      BY <3>9, <1>a, <2>a, <2>c, <2>p DEF Store, session, profiles, Goal, Owns, Idle, Call
    <3>10. CASE Commit(t)
      BY <3>10, <1>a, <2>a, <2>c, <2>p DEF Commit, profiles, Goal, Owns, Idle, Call
    <3>11. CASE Rollback(t)
      BY <3>11, <1>a, <2>a, <2>c, <2>p DEF Rollback, profiles, Goal, Owns, Idle, Call
    <3>12. CASE CopyOrigin(t)
      BY <3>12, <1>a, <2>a, <2>c, <2>p DEF CopyOrigin, session, profiles, Goal, Owns, Idle, Call
    <3>13. CASE PassBlock(t)
      BY <3>13, <1>a, <2>a, <2>c, <2>p DEF PassBlock, LooksAt, session, profiles, Goal, Owns, Idle, Call
    <3>14. CASE OverlayBlock(t)
      BY <3>14, <1>a, <2>a, <2>c, <2>p DEF OverlayBlock, session, profiles, Goal, Owns, Idle, Call
    <3>15. CASE Refuse(t)
      BY <3>15, <1>a, <2>a, <2>c, <2>p DEF Refuse, Ready, LooksAt, session, profiles, Goal, Owns, Idle, Call
    <3>16. CASE Expose(t)
      BY <3>16, <1>a, <2>a, <2>c, <2>p DEF Expose, Ready, profiles, Goal, Owns, Idle, Call
    <3>17. CASE ReturnRead(t)
      BY <3>17, <1>a, <2>a, <2>c, <2>p DEF ReturnRead, Ready, session, profiles, Goal, Owns, Idle, Call
    <3>18. CASE ApplyBlock(t)
      BY <3>18, <1>a, <2>a, <2>c, <2>p DEF ApplyBlock, session, profiles, Goal, Owns, Idle, Call
    <3>19. CASE ApplyEnd(t)
      BY <3>19, <1>a, <2>a, <2>c, <2>p DEF ApplyEnd, session, profiles, Goal, Owns, Idle, Call
    <3>20. CASE ReleaseBlock(t)
      BY <3>20, <1>a, <2>a, <2>c, <2>p DEF ReleaseBlock, session, profiles, Goal, Owns, Idle, Call
    <3>21. CASE Close(t)
      BY <3>21, <1>a, <2>a, <2>c, <2>p DEF Close, Ready, profiles, Goal, Owns, Idle, Call
    <3>22. CASE UndoBlock(t)
      BY <3>22, <1>a, <2>a, <2>c, <2>p DEF UndoBlock, profiles, Goal, Owns, Idle, Call
    <3>23. CASE UndoEnd(t)
      BY <3>23, <1>a, <2>a, <2>c, <2>p DEF UndoEnd, Ready, profiles, Goal, Owns, Idle, Call
    <3> QED
      BY <1>t, <3>1, <3>2, <3>3, <3>4, <3>5, <3>6, <3>7, <3>8, <3>9, <3>10,
         <3>11, <3>12, <3>13, <3>14, <3>15, <3>16, <3>17, <3>18, <3>19, <3>20,
         <3>21, <3>22, <3>23
         DEF Request, Step
  <2> QED
    BY <2>b, <2>g DEF Phases, Goal
<1> QED
  BY <1>u, <1>l, <1>t DEF Next

\* What a step of thread t does to blocks: a scanned block is exposed, a block
\* turns to garbage, or one is appended; the call under way keeps its block while
\* that is in state init, and the owner stays while it holds anything.
LEMMA BlocksKept ==
  ASSUME TypeOK, Ownership, Exclusion, LogsOwned,
         NEW t \in Thread, Request(t) \/ Step(t)
  PROVE  /\ \A b \in Blocks :
              /\ \/ type'[b] = type[b] \/ type'[b] = "garbage"
                 \/ type[b] = "init" /\ type'[b] = "wr" /\ call[t].block = b
              /\ type'[b] = "init" /\ call[t].block = b => call'[t].block = b
              /\ Owns(t) /\ used_in[b] = tls[t] /\ type'[b] # "garbage" =>
                   Owns(t)' /\ tls'[t] = tls[t]
         /\ \A b \in Blocks' \ Blocks :
              call'[t].block = b /\ Owns(t)' /\ tls'[t] = tls[t]
<1>a. /\ call \in [Thread -> Call] /\ tls \in [Thread -> TxId \cup {NoTx}]
      /\ type \in [BlockId -> BlockType] /\ Blocks \subseteq BlockId /\ size \in Nat
      /\ call[t] \in Call /\ NoBlock \notin Blocks
  BY Basics
<1>b. call[t].block # NoBlock =>
        /\ Owns(t) /\ call[t].block \in Blocks /\ type[call[t].block] = "init"
        /\ call[t].op \in {"origin", "scan", "check"}
  BY Basics
<1>c. UNCHANGED profiles => Blocks' = Blocks
  BY DEF profiles, Blocks
<1> DEFINE Goal == /\ \A b \in Blocks :
                        /\ \/ type'[b] = type[b] \/ type'[b] = "garbage"
                           \/ type[b] = "init" /\ type'[b] = "wr" /\ call[t].block = b
                        /\ type'[b] = "init" /\ call[t].block = b => call'[t].block = b
                        /\ Owns(t) /\ used_in[b] = tls[t] /\ type'[b] # "garbage" =>
                             Owns(t)' /\ tls'[t] = tls[t]
                   /\ \A b \in Blocks' \ Blocks :
                        call'[t].block = b /\ Owns(t)' /\ tls'[t] = tls[t]
<1> HIDE DEF Goal
<1>g. Goal
  <2>1. CASE Begin(t)
    BY <2>1, <1>a, <1>b, <1>c DEF Begin, profiles, Goal, Owns, Idle, Call
  <2>2. CASE OpenSavepoint(t)
    BY <2>2, <1>a, <1>b, <1>c DEF OpenSavepoint, profiles, Goal, Owns, Idle, Call
  <2>3. CASE CommitSavepoint(t)
    BY <2>3, <1>a, <1>b, <1>c DEF CommitSavepoint, profiles, Goal, Owns, Idle, Call
  <2>4. CASE RollbackSavepoint(t)
    BY <2>4, <1>a, <1>b, <1>c DEF RollbackSavepoint, session, profiles, Goal, Owns, Idle, Call
  <2>5. ASSUME NEW n \in TxId, Merge(t, n) PROVE Goal
    BY <2>5, <1>a, <1>b, <1>c DEF Merge, profiles, Goal, Owns, Idle, Call
  <2>6. CASE Unmerge(t)
    BY <2>6, <1>a, <1>b, <1>c DEF Unmerge, profiles, Goal, Owns, Idle, Call
  <2>7. ASSUME NEW r \in ReadRegion, RequestRead(t, r) PROVE Goal
    BY <2>7, <1>a, <1>b, <1>c DEF RequestRead, session, profiles, Goal, Owns, Idle, Call
  <2>8. ASSUME NEW r \in WriteRegion, NEW hint \in Hint, RequestWrite(t, r, hint)
          PROVE Goal
    BY <2>8, <1>a, <1>b, <1>c DEF RequestWrite, Blocks, session, Goal, Owns, Idle, Call
  <2>9. ASSUME NEW b \in Blocks, NEW a \in range[b], Store(t, b, a) PROVE Goal
    BY <2>9, <1>a, <1>b, <1>c DEF Store, session, profiles, Goal, Owns, Idle, Call
  <2>10. CASE Commit(t)
    BY <2>10, <1>a, <1>b, <1>c DEF Commit, profiles, Goal, Owns, Idle, Call
  <2>11. CASE Rollback(t)
    BY <2>11, <1>a, <1>b, <1>c DEF Rollback, profiles, Goal, Owns, Idle, Call
  <2>12. CASE CopyOrigin(t)
    BY <2>12, <1>a, <1>b, <1>c DEF CopyOrigin, session, profiles, Goal, Owns, Idle, Call
  <2>13. CASE PassBlock(t)
    BY <2>13, <1>a, <1>b, <1>c DEF PassBlock, LooksAt, session, profiles, Goal, Owns, Idle, Call
  <2>14. CASE OverlayBlock(t)
    BY <2>14, <1>a, <1>b, <1>c DEF OverlayBlock, session, profiles, Goal, Owns, Idle, Call
  <2>15. CASE Refuse(t)
    BY <2>15, <1>a, <1>b, <1>c DEF Refuse, Ready, LooksAt, session, profiles, Goal, Owns, Idle, Call
  <2>16. CASE Expose(t)
    BY <2>16, <1>a, <1>b, <1>c DEF Expose, Ready, profiles, Goal, Owns, Idle, Call
  <2>17. CASE ReturnRead(t)
    BY <2>17, <1>a, <1>b, <1>c DEF ReturnRead, Ready, session, profiles, Goal, Owns, Idle, Call
  <2>18. CASE ApplyBlock(t)
    BY <2>18, <1>a, <1>b, <1>c DEF ApplyBlock, session, profiles, Goal, Owns, Idle, Call
  <2>19. CASE ApplyEnd(t)
    BY <2>19, <1>a, <1>b, <1>c DEF ApplyEnd, session, profiles, Goal, Owns, Idle, Call
  <2>20. CASE ReleaseBlock(t)
    BY <2>20, <1>a, <1>b, <1>c DEF ReleaseBlock, session, profiles, Goal, Owns, Idle, Call
  <2>21. CASE Close(t)
    BY <2>21, <1>a, <1>b, <1>c DEF Close, Ready, Held, Live, profiles, Goal, Owns, Idle, Call
  <2>22. CASE UndoBlock(t)
    BY <2>22, <1>a, <1>b, <1>c DEF UndoBlock, profiles, Goal, Owns, Idle, Call
  <2>23. CASE UndoEnd(t)
    BY <2>23, <1>a, <1>b, <1>c DEF UndoEnd, Ready, profiles, Goal, Owns, Idle, Call
  <2> QED
    BY <2>1, <2>2, <2>3, <2>4, <2>5, <2>6, <2>7, <2>8, <2>9, <2>10,
       <2>11, <2>12, <2>13, <2>14, <2>15, <2>16, <2>17, <2>18, <2>19, <2>20,
       <2>21, <2>22, <2>23
       DEF Request, Step
<1> QED
  BY <1>g DEF Goal

LEMMA StepBlocksOwned ==
  ASSUME TypeOK, Ownership, Exclusion, Life, [Next]_vars
  PROVE  BlocksOwned'
<1>p. BlocksOwned
  BY DEF Life
<1>u. CASE UNCHANGED vars
  BY <1>u, <1>p DEF vars, session, profiles, BlocksOwned, Blocks, Live, Owns
<1>l. CASE \E l \in Level : SetIsolation(l)
  BY <1>l, <1>p DEF SetIsolation, session, profiles, BlocksOwned, Blocks, Live, Owns
<1>t. ASSUME NEW t \in Thread, Request(t) \/ Step(t)
      PROVE  BlocksOwned'
  <2> SUFFICES ASSUME NEW b \in Blocks'
               PROVE  /\ used_in'[b] \in TxId /\ type'[b] # "free"
                      /\ Live(b)' => \E u \in Thread : Owns(u)' /\ tls'[u] = used_in'[b]
                      /\ type'[b] = "init" => \E u \in Thread : call'[u].block = b
    BY DEF BlocksOwned
  <2>1. CASE b \notin Blocks
    <3>1. /\ Owns(t) /\ used_in'[b] = tls[t]
          /\ call'[t].block = b /\ Owns(t)' /\ tls'[t] = tls[t] /\ type'[b] = "init"
      BY <1>t, <2>1, OthersKept, BlocksKept DEF Life
    <3> QED
      BY <3>1, Basics
  <2>2. CASE b \in Blocks
    <3>1. /\ used_in[b] \in TxId /\ type[b] # "free"
          /\ Live(b) => \E u \in Thread : Owns(u) /\ tls[u] = used_in[b]
          /\ type[b] = "init" => \E u \in Thread : call[u].block = b
      BY <1>p, <2>2 DEF BlocksOwned
    <3>2. /\ used_in'[b] = used_in[b]
          /\ \A u \in Thread \ {t} :
               call'[u] = call[u] /\ tls'[u] = tls[u] /\ (Owns(u) => Owns(u)')
          /\ type'[b] = type[b] \/ used_in[b] = tls[t]
      BY <1>t, <2>2, OthersKept DEF Life, Owns
    <3>3. /\ \/ type'[b] = type[b] \/ type'[b] = "garbage"
             \/ type[b] = "init" /\ type'[b] = "wr" /\ call[t].block = b
          /\ type'[b] = "init" /\ call[t].block = b => call'[t].block = b
          /\ Owns(t) /\ used_in[b] = tls[t] /\ type'[b] # "garbage" =>
               Owns(t)' /\ tls'[t] = tls[t]
      BY <1>t, <2>2, BlocksKept DEF Life
    <3>4. Live(b)' => \E u \in Thread : Owns(u)' /\ tls'[u] = used_in'[b]
      BY <3>1, <3>2, <3>3 DEF Live
    <3>5. type'[b] = "init" => \E u \in Thread : call'[u].block = b
      BY <3>1, <3>2, <3>3
    <3> QED
      BY <3>1, <3>2, <3>3, <3>4, <3>5
  <2> QED
    BY <2>1, <2>2
<1> QED
  BY <1>u, <1>l, <1>t DEF Next

\* Records come and go without moving the mark of the savepoint they are in.
LEMMA SinceKept ==
  ASSUME NEW s \in Seq(Savepoint), NEW b \in BlockId
  PROVE  /\ \A k \in DOMAIN Logged(s, b) : Logged(s, b)[k].since = s[k].since
         /\ s # <<>> => \A k \in DOMAIN Unlogged(s, b) :
              Unlogged(s, b)[k].since = s[k].since
<1>1. \A k \in DOMAIN s : s[k] \in Savepoint
  OBVIOUS
<1>2. CASE s = <<>>
  BY <1>2 DEF Logged
<1>3. CASE s # <<>>
  BY <1>1, <1>3 DEF Logged, Unlogged, Savepoint
<1> QED
  BY <1>2, <1>3

\* What a step of thread t does to the savepoints: one is opened at the present
\* length of the history, or the exposed block is logged, or less is left.
LEMMA SavepointsKept ==
  ASSUME TypeOK, Ownership, Exclusion,
         NEW t \in Thread, Request(t) \/ Step(t),
         NEW n \in TxId, NEW k \in DOMAIN savepoint'[n]
  PROVE  \/ savepoint'[n][k] = [since |-> size, log |-> {}]
         \/ /\ k \in DOMAIN savepoint[n]
            /\ savepoint'[n][k].since = savepoint[n][k].since
            /\ \/ savepoint'[n][k].log \subseteq savepoint[n][k].log
               \/ /\ n = tls[t] /\ call[t].block # NoBlock
                  /\ savepoint'[n][k].log \subseteq
                       savepoint[n][k].log \cup {call[t].block}
<1>a. /\ call \in [Thread -> Call] /\ tls \in [Thread -> TxId \cup {NoTx}]
      /\ savepoint \in [TxId -> Seq(Savepoint)] /\ size \in Nat
      /\ Owns(t) => tls[t] \in TxId
      /\ call[t].block # NoBlock => call[t].block \in BlockId
  BY Basics
<1> DEFINE Goal == \/ savepoint'[n][k] = [since |-> size, log |-> {}]
                   \/ /\ k \in DOMAIN savepoint[n]
                      /\ savepoint'[n][k].since = savepoint[n][k].since
                      /\ \/ savepoint'[n][k].log \subseteq savepoint[n][k].log
                         \/ /\ n = tls[t] /\ call[t].block # NoBlock
                            /\ savepoint'[n][k].log \subseteq
                                 savepoint[n][k].log \cup {call[t].block}
<1>1. UNCHANGED savepoint => Goal
  OBVIOUS
<1>2. CASE OpenSavepoint(t)
  <2>1. [since |-> size, log |-> {}] \in Savepoint
    BY <1>a DEF Savepoint
  <2> QED
    BY <1>2, <1>a, <2>1 DEF OpenSavepoint
<1>3. CASE CommitSavepoint(t)
  BY <1>3, <1>a, LogsAfter DEF CommitSavepoint, Outer
<1>4. CASE Expose(t)
  <2>1. call[t].block \in BlockId
    BY <1>4, <1>a DEF Expose
  <2> QED
    BY <1>4, <1>a, <2>1, LogsAfter, SinceKept DEF Expose
<1>5. CASE Close(t)
  BY <1>5, <1>a DEF Close
<1>e. call[t].op = "undo" =>
        Owns(t) /\ savepoint[tls[t]] # <<>> /\ Inner(tls[t]).log \subseteq BlockId
  <2>1. call[t].op = "undo" => Owns(t) /\ savepoint[tls[t]] # <<>>
    BY DEF Ownership
  <2>2. call[t].op = "undo" => Len(savepoint[tls[t]]) \in DOMAIN savepoint[tls[t]]
    BY <1>a, <2>1
  <2>3. call[t].op = "undo" => Inner(tls[t]) \in Savepoint
    BY <1>a, <2>1, <2>2 DEF Inner
  <2> QED
    BY <2>1, <2>3 DEF Savepoint
<1>6. CASE UndoBlock(t)
  <2>1. PICK b \in Inner(tls[t]).log :
          savepoint' = [savepoint EXCEPT ![tls[t]] = Unlogged(@, b)]
    BY <1>6 DEF UndoBlock
  <2>2. tls[t] \in TxId /\ savepoint[tls[t]] # <<>> /\ b \in BlockId
    BY <1>6, <1>a, <1>e, <2>1 DEF UndoBlock
  <2> QED
    BY <1>a, <2>1, <2>2, LogsAfter, SinceKept
<1>7. CASE UndoEnd(t)
  <2>1. tls[t] \in TxId /\ savepoint[tls[t]] # <<>>
    BY <1>7, <1>a, <1>e DEF UndoEnd
  <2> QED
    BY <1>7, <1>a, <2>1 DEF UndoEnd, Outer
<1>8. \/ UNCHANGED savepoint \/ OpenSavepoint(t) \/ CommitSavepoint(t) \/ Expose(t)
      \/ Close(t) \/ UndoBlock(t) \/ UndoEnd(t)
  BY DEF Request, Step, Begin, RollbackSavepoint, Merge, Unmerge, RequestRead,
         RequestWrite, Store, Commit, Rollback, CopyOrigin, PassBlock, OverlayBlock,
         Refuse, ReturnRead, ApplyBlock, ApplyEnd, ReleaseBlock, session
<1> QED
  BY <1>1, <1>2, <1>3, <1>4, <1>5, <1>6, <1>7, <1>8

LEMMA StepLogsOwned ==
  ASSUME TypeOK, Ownership, Exclusion, Life, [Next]_vars
  PROVE  LogsOwned'
<1>p. LogsOwned /\ NewestLast
  BY DEF Life
<1>u. CASE UNCHANGED vars
  BY <1>u, <1>p DEF vars, session, profiles, LogsOwned, Blocks
<1>l. CASE \E l \in Level : SetIsolation(l)
  BY <1>l, <1>p DEF SetIsolation, session, profiles, LogsOwned, Blocks
<1>t. ASSUME NEW t \in Thread, Request(t) \/ Step(t)
      PROVE  LogsOwned'
  <2> SUFFICES ASSUME NEW n \in TxId, NEW k \in DOMAIN savepoint'[n]
               PROVE  /\ savepoint'[n][k].since <= size'
                      /\ \A b \in savepoint'[n][k].log :
                           /\ b \in Blocks' /\ used_in'[b] = n
                           /\ savepoint'[n][k].since < b
    BY DEF LogsOwned
  <2>1. size \in Nat /\ size' \in Nat /\ size <= size'
    <3>1. Blocks \subseteq Blocks' /\ TypeOK'
      BY <1>t, OthersKept, StepType DEF Life
    <3>2. size \in Nat /\ size' \in Nat
      BY <3>1 DEF TypeOK
    <3>3. size # 0 => size \in Blocks'
      BY <3>1, <3>2 DEF Blocks
    <3> QED
      BY <3>2, <3>3 DEF Blocks
  <2>2. \A b \in Blocks : b \in Blocks' /\ used_in'[b] = used_in[b]
    BY <1>t, OthersKept DEF Life
  <2>3. CASE savepoint'[n][k] = [since |-> size, log |-> {}]
    BY <2>1, <2>3
  <2>4. CASE /\ k \in DOMAIN savepoint[n]
             /\ savepoint'[n][k].since = savepoint[n][k].since
             /\ \/ savepoint'[n][k].log \subseteq savepoint[n][k].log
                \/ /\ n = tls[t] /\ call[t].block # NoBlock
                   /\ savepoint'[n][k].log \subseteq
                        savepoint[n][k].log \cup {call[t].block}
    <3>1. /\ savepoint[n][k].since <= size
          /\ \A b \in savepoint[n][k].log :
               b \in Blocks /\ used_in[b] = n /\ savepoint[n][k].since < b
      BY <1>p, <2>4 DEF LogsOwned
    <3>2. savepoint[n][k] \in Savepoint
      BY <2>4, Basics
    <3>3. call[t].block # NoBlock =>
            call[t].block \in Blocks /\ used_in[call[t].block] = tls[t]
      BY Basics
    <3>4. n = tls[t] /\ call[t].block # NoBlock => savepoint[n][k].since < call[t].block
      BY <1>p, <2>4 DEF NewestLast
    <3> QED
      BY <2>1, <2>2, <2>4, <3>1, <3>2, <3>3, <3>4 DEF Savepoint
  <2> QED
    BY <1>t, <2>3, <2>4, SavepointsKept
<1> QED
  BY <1>u, <1>l, <1>t DEF Next

LEMMA StepNewestLast ==
  ASSUME TypeOK, Ownership, Exclusion, Life, [Next]_vars
  PROVE  NewestLast'
<1>p. LogsOwned /\ NewestLast
  BY DEF Life
<1>u. CASE UNCHANGED vars
  BY <1>u, <1>p DEF vars, session, profiles, NewestLast, Blocks
<1>l. CASE \E l \in Level : SetIsolation(l)
  BY <1>l, <1>p DEF SetIsolation, session, profiles, NewestLast, Blocks
<1>t. ASSUME NEW t \in Thread, Request(t) \/ Step(t)
      PROVE  NewestLast'
  <2> SUFFICES ASSUME NEW u \in Thread, call'[u].block # NoBlock
               PROVE  /\ \A c \in Blocks' : used_in'[c] = tls'[u] => c <= call'[u].block
                      /\ \A k \in DOMAIN savepoint'[tls'[u]] :
                           savepoint'[tls'[u]][k].since < call'[u].block
    BY DEF NewestLast
  <2>1. CASE u # t
    <3>1. call'[u] = call[u] /\ tls'[u] = tls[u] /\ Owns(u) /\ tls[u] \in TxId
      BY <1>t, <2>1, OthersKept, Basics DEF Life
    <3>2. Owns(t) => tls[t] # tls[u]
      BY <2>1, <3>1 DEF Ownership
    <3>3. savepoint'[tls[u]] = savepoint[tls[u]]
      BY <1>t, <3>1, <3>2, OthersKept DEF Life
    <3>4. \A c \in Blocks' : used_in'[c] = tls[u] => c \in Blocks /\ used_in[c] = tls[u]
      BY <1>t, <3>2, OthersKept DEF Life
    <3> QED
      BY <1>p, <3>1, <3>3, <3>4 DEF NewestLast
  <2>2. CASE u = t
    <3>a. call[t].block # NoBlock => call[t].op \notin {"idle", "apply", "release", "undo"}
      BY Basics
    <3>b. call[t] \in Call /\ call \in [Thread -> Call]
      BY Basics
    <3>1. ASSUME NEW r \in WriteRegion, NEW hint \in Hint, RequestWrite(t, r, hint)
          PROVE  /\ \A c \in Blocks' : used_in'[c] = tls'[t] => c <= call'[t].block
                 /\ \A k \in DOMAIN savepoint'[tls'[t]] :
                      savepoint'[tls'[t]][k].since < call'[t].block
      <4>1. /\ call'[t].block = size + 1 /\ size' = size + 1 /\ Owns(t)
            /\ UNCHANGED <<savepoint, tls>>
        BY <3>1, <3>b DEF RequestWrite, session
      <4>2. \A c \in Blocks' : c <= size + 1
        BY <4>1 DEF Blocks, TypeOK
      <4>3. \A k \in DOMAIN savepoint[tls[t]] : savepoint[tls[t]][k] \in Savepoint
        BY <4>1, Basics
      <4>4. \A k \in DOMAIN savepoint[tls[t]] : savepoint[tls[t]][k].since <= size
        BY <1>p, <4>1, Basics DEF LogsOwned
      <4> QED
        BY <4>1, <4>2, <4>3, <4>4 DEF Savepoint, TypeOK
    <3>2. CASE CopyOrigin(t) \/ PassBlock(t) \/ OverlayBlock(t)
      <4>1. /\ UNCHANGED <<tls, savepoint, size, used_in>>
        BY <3>2 DEF CopyOrigin, PassBlock, OverlayBlock, session, profiles
      <4>2. call'[t].block = call[t].block
        <5>1. CASE CopyOrigin(t)
          BY <3>b, <5>1 DEF CopyOrigin, Call
        <5>2. CASE PassBlock(t)
          BY <3>b, <5>2 DEF PassBlock, Call
        <5>3. CASE OverlayBlock(t)
          BY <3>b, <5>3, SMTT(60) DEF OverlayBlock, Call
        <5> QED
          BY <3>2, <5>1, <5>2, <5>3
      <4> QED
        BY <1>p, <2>2, <4>1, <4>2 DEF NewestLast, Blocks
    <3>3. \/ CopyOrigin(t) \/ PassBlock(t) \/ OverlayBlock(t)
          \/ \E r \in WriteRegion, hint \in Hint : RequestWrite(t, r, hint)
      BY <1>t, <2>2, <3>a, <3>b
         DEF Request, Step, Begin, OpenSavepoint, CommitSavepoint, RollbackSavepoint,
             Merge, Unmerge, RequestRead, Store, Commit, Rollback, Refuse, Expose,
             ReturnRead, ApplyBlock, ApplyEnd, ReleaseBlock, Close, UndoBlock, UndoEnd,
             Idle, Ready, Call
    <3> QED
      BY <2>2, <3>1, <3>2, <3>3
  <2> QED
    BY <2>1, <2>2
<1> QED
  BY <1>u, <1>l, <1>t DEF Next

LEMMA InitLife == Init => Life
BY DEF Init, Life, Phases, BlocksOwned, NewestLast, LogsOwned, Blocks, Owns, Ready, TxId

LEMMA StepLife ==
  ASSUME TypeOK, Ownership, Exclusion, Life, [Next]_vars
  PROVE  Life'
BY StepPhases, StepBlocksOwned, StepNewestLast, StepLogsOwned DEF Life

-----------------------------------------------------------------------------
(* Savepoints.                                                             *)

Inv == TypeOK /\ Ownership /\ Exclusion /\ Life

LEMMA Invariant == Spec => []Inv
<1>1. Init => Inv
  BY InitType, InitOwnership, InitExclusion, InitLife DEF Inv
<1>2. Inv /\ [Next]_vars => Inv'
  BY StepType, StepOwnership, StepExclusion, StepLife DEF Inv
<1> QED
  BY <1>1, <1>2, PTL DEF Spec

\* A thread in the middle of a rollback does nothing but that.
LEMMA UndoSteps ==
  ASSUME Inv, NEW t \in Thread, Request(t) \/ Step(t), call[t].op = "undo"
  PROVE  UndoBlock(t) \/ UndoEnd(t)
BY DEF Request, Step, Begin, OpenSavepoint, CommitSavepoint, RollbackSavepoint, Merge,
       Unmerge, RequestRead, RequestWrite, Store, Commit, Rollback, CopyOrigin,
       PassBlock, OverlayBlock, Refuse, Expose, ReturnRead, ApplyBlock, ApplyEnd,
       ReleaseBlock, Close, Idle, LooksAt

\* The rollback of a savepoint leaves what the transaction held before alone,
\* whatever nesting of savepoints went before (SavePoint::rollback).
THEOREM RollbackKeepsOlder == Spec => SavepointUndoesNoMore
<1>1. ASSUME Inv, [Next]_vars, NEW t \in Thread, call[t].op = "undo",
             NEW b \in Held(tls[t]), b <= Inner(tls[t]).since
      PROVE  type'[b] = type[b]
  <2>0. b \in Blocks /\ used_in[b] = tls[t] /\ Owns(t) /\ tls[t] \in TxId
    BY <1>1, Basics DEF Inv, Held, Ownership
  <2>1. ASSUME NEW u \in Thread, Request(u) \/ Step(u)
        PROVE  type'[b] = type[b]
    <3>1. CASE u # t
      <4>1. Owns(u) => tls[u] # tls[t]
        BY <1>1, <2>0, <3>1 DEF Inv, Ownership
      <4> QED
        BY <1>1, <2>0, <2>1, <4>1, OthersKept DEF Inv, Life
    <3>2. CASE UndoBlock(t)
      <4>1. PICK c \in Inner(tls[t]).log : type' = [type EXCEPT ![c] = "garbage"]
        BY <3>2 DEF UndoBlock
      <4>2. /\ savepoint \in [TxId -> Seq(Savepoint)] /\ savepoint[tls[t]] # <<>>
            /\ type \in [BlockId -> BlockType] /\ Blocks \subseteq BlockId
            /\ BlockId \subseteq Nat
        BY <1>1, Basics DEF Inv, Ownership
      <4>3. Len(savepoint[tls[t]]) \in DOMAIN savepoint[tls[t]]
        BY <2>0, <4>2
      <4>4. c \in Blocks /\ Inner(tls[t]).since < c
        BY <1>1, <2>0, <4>3 DEF Inv, Life, LogsOwned, Inner
      <4>5. Inner(tls[t]) \in Savepoint
        BY <2>0, <4>2, <4>3 DEF Inner
      <4>6. Inner(tls[t]).since \in Nat
        BY <4>5 DEF Savepoint
      <4>7. b # c
        BY <1>1, <2>0, <4>2, <4>4, <4>6
      <4> QED
        BY <2>0, <4>1, <4>2, <4>7
    <3>3. CASE UndoEnd(t)
      BY <3>3 DEF UndoEnd
    <3> QED
      BY <1>1, <2>1, <3>1, <3>2, <3>3, UndoSteps
  <2>2. CASE UNCHANGED vars
    BY <2>2 DEF vars
  <2>3. CASE \E l \in Level : SetIsolation(l)
    BY <2>3 DEF SetIsolation
  <2> QED
    BY <1>1, <2>1, <2>2, <2>3 DEF Next
<1>2. Inv /\ [Next]_vars =>
        [\A t \in Thread : call[t].op = "undo" =>
           \A b \in Held(tls[t]) : b <= Inner(tls[t]).since => type'[b] = type[b]]_vars
  BY <1>1
<1> QED
  BY <1>2, Invariant, PTL DEF Spec, SavepointUndoesNoMore

\* One level deep, the log of an open savepoint names every exposed block that its
\* transaction has acquired since.  (A nested savepoint that is committed takes its
\* records with it, so that this fails for more levels, see SavePoint::commit.)
LogsWhole ==
  \A n \in TxId :
    /\ Len(savepoint[n]) <= 1
    /\ savepoint[n] # <<>> =>
         \A b \in Held(n) :
           type[b] # "init" /\ savepoint[n][1].since < b => b \in savepoint[n][1].log

LEMMA OnlyOne ==
  ASSUME NEW s \in Seq(Savepoint), s # <<>>, Len(s) <= 1
  PROVE  Len(s) = 1 /\ s[1] \in Savepoint
<1>1. Len(s) \in Nat /\ Len(s) >= 1
  <2>1. Len(s) \in Nat
    OBVIOUS
  <2>2. Len(s) \in 1 .. Len(s)
    OBVIOUS
  <2> QED
    BY <2>1, <2>2
<1>2. \A k \in Nat : k >= 1 /\ k <= 1 => k = 1
  OBVIOUS
<1>3. Len(s) = 1
  BY <1>1, <1>2, Zenon
<1> QED
  BY <1>3

LEMMA StepLogsWhole ==
  ASSUME MaxSave <= 1, Inv, LogsWhole, [Next]_vars
  PROVE  LogsWhole'
<1>a. /\ call \in [Thread -> Call] /\ tls \in [Thread -> TxId \cup {NoTx}]
      /\ savepoint \in [TxId -> Seq(Savepoint)] /\ size \in Nat
      /\ type \in [BlockId -> BlockType] /\ Blocks \subseteq BlockId
      /\ BlockId \subseteq Nat
  BY Basics DEF Inv
<1>u. CASE UNCHANGED vars
  BY <1>u DEF vars, session, profiles, LogsWhole, Held, Blocks, Live
<1>l. CASE \E l \in Level : SetIsolation(l)
  BY <1>l DEF SetIsolation, session, profiles, LogsWhole, Held, Blocks, Live
<1>t. ASSUME NEW t \in Thread, Request(t) \/ Step(t),
             NEW n \in TxId
      PROVE  /\ Len(savepoint'[n]) <= 1
             /\ savepoint'[n] # <<>> =>
                  \A b \in Held(n)' :
                    type'[b] # "init" /\ savepoint'[n][1].since < b
                      => b \in savepoint'[n][1].log
  <2> DEFINE Goal == /\ Len(savepoint'[n]) <= 1
                     /\ savepoint'[n] # <<>> =>
                          \A b \in Held(n)' :
                            type'[b] # "init" /\ savepoint'[n][1].since < b
                              => b \in savepoint'[n][1].log
  <2>a. /\ Len(savepoint[n]) <= 1
        /\ savepoint[n] # <<>> =>
             \A b \in Held(n) :
               type[b] # "init" /\ savepoint[n][1].since < b => b \in savepoint[n][1].log
    BY DEF LogsWhole
  <2>b. /\ \A b \in Held(n)' : type'[b] # "init" =>
             /\ b \in Held(n)
             /\ \/ type[b] # "init"
                \/ b = call[t].block /\ type'[b] = "wr" /\ Owns(t)
    <3>1. /\ \A b \in Blocks : used_in'[b] = used_in[b]
          /\ \A b \in Blocks' \ Blocks : type'[b] = "init"
      BY <1>t, OthersKept DEF Inv, Life
    <3>2. \A b \in Blocks : \/ type'[b] = type[b] \/ type'[b] = "garbage"
                            \/ type[b] = "init" /\ type'[b] = "wr" /\ call[t].block = b
      BY <1>t, BlocksKept DEF Inv, Life
    <3>3. call[t].block # NoBlock => Owns(t)
      BY Basics DEF Inv
    <3>4. NoBlock \notin Blocks
      BY DEF Blocks
    <3> QED
      BY <3>1, <3>2, <3>3, <3>4 DEF Held, Live
  <2>1. CASE OpenSavepoint(t)
    <3>1. [since |-> size, log |-> {}] \in Savepoint
      BY <1>a DEF Savepoint
    <3>2. CASE n = tls[t]
      <4>1. savepoint[n] = <<>>
        BY <2>1, <2>a, <3>2, <1>a DEF OpenSavepoint
      <4>2. savepoint'[n] = <<[since |-> size, log |-> {}]>>
        <5>1. savepoint'[n] = Append(<<>>, [since |-> size, log |-> {}])
          BY <2>1, <3>2, <4>1, <1>a DEF OpenSavepoint
        <5> QED
          BY <3>1, <5>1
      <4>3. \A b \in Held(n)' : ~(size < b)
        BY <2>1, <1>a DEF OpenSavepoint, Held, Blocks, profiles
      <4> QED
        BY <4>2, <4>3
    <3>3. CASE n # tls[t]
      BY <2>1, <2>a, <2>b, <3>3, <1>a DEF OpenSavepoint
    <3> QED
      BY <3>2, <3>3
  <2>2. CASE CommitSavepoint(t)
    BY <2>2, <2>a, <2>b, <1>a DEF CommitSavepoint, Outer
  <2>3. CASE Expose(t)
    <3>0. call[t].block \in BlockId /\ used_in[call[t].block] = tls[t]
      BY <2>3, Basics DEF Inv, Expose
    <3>1. CASE n = tls[t] /\ savepoint[n] # <<>>
      <4>1. Len(savepoint[n]) = 1 /\ savepoint[n][1] \in Savepoint
        BY <2>a, <3>1, <1>a, OnlyOne
      <4>2. savepoint'[n] = [savepoint[n] EXCEPT ![1].log = @ \cup {call[t].block}]
        BY <2>3, <3>1, <4>1, <1>a DEF Expose, Logged
      <4>3. /\ savepoint'[n][1].log = savepoint[n][1].log \cup {call[t].block}
            /\ savepoint'[n][1].since = savepoint[n][1].since
            /\ Len(savepoint'[n]) = 1
        BY <3>1, <4>1, <4>2, <1>a DEF Savepoint
      <4> QED
        BY <2>a, <2>b, <3>1, <4>3
    <3>2. CASE n = tls[t] /\ savepoint[n] = <<>>
      BY <2>3, <2>a, <3>2, <1>a DEF Expose, Logged
    <3>3. CASE n # tls[t]
      <4>1. savepoint'[n] = savepoint[n]
        BY <2>3, <3>3, <1>a DEF Expose
      <4>2. \A b \in Held(n) : b # call[t].block
        BY <3>0, <3>3 DEF Held
      <4> QED
        BY <2>a, <2>b, <4>1, <4>2
    <3> QED
      BY <3>1, <3>2, <3>3
  <2>4. CASE Close(t)
    <3>1. call[t].block = NoBlock /\ NoBlock \notin Blocks
      BY <2>4 DEF Close, Inv, Ownership, Blocks
    <3>2. savepoint'[n] = savepoint[n] \/ savepoint'[n] = <<>>
      BY <2>4, <1>a DEF Close
    <3> QED
      BY <2>a, <2>b, <3>1, <3>2 DEF Held
  <2>c. call[t].op = "undo" =>
          /\ tls[t] \in TxId /\ savepoint[tls[t]] # <<>> /\ Len(savepoint[tls[t]]) <= 1
          /\ Len(savepoint[tls[t]]) = 1 /\ savepoint[tls[t]][1] \in Savepoint
    <3>1. call[t].op = "undo" => tls[t] \in TxId /\ savepoint[tls[t]] # <<>>
      BY Basics DEF Inv, Ownership
    <3>2. call[t].op = "undo" => Len(savepoint[tls[t]]) <= 1
      BY <3>1 DEF LogsWhole
    <3> QED
      BY <3>1, <3>2, <1>a, OnlyOne
  <2>5. CASE UndoBlock(t)
    <3>1. PICK c \in Inner(tls[t]).log :
            /\ type' = [type EXCEPT ![c] = "garbage"]
            /\ savepoint' = [savepoint EXCEPT ![tls[t]] = Unlogged(@, c)]
      BY <2>5 DEF UndoBlock
    <3>2. CASE n = tls[t]
      <4>1. /\ savepoint'[n] = [savepoint[n] EXCEPT ![1].log = @ \ {c}]
            /\ Len(savepoint[n]) = 1 /\ savepoint[n][1] \in Savepoint
        BY <2>5, <2>c, <3>1, <3>2, <1>a DEF UndoBlock, Unlogged
      <4>2. /\ savepoint'[n][1].log = savepoint[n][1].log \ {c}
            /\ savepoint'[n][1].since = savepoint[n][1].since
            /\ Len(savepoint'[n]) = 1 /\ savepoint[n] # <<>>
        BY <4>1, <1>a DEF Savepoint
      <4>3. \A b \in Held(n)' : b # c
        <5>1. c \in BlockId
          BY <2>5, <2>c, <3>1 DEF UndoBlock, Inner, Savepoint
        <5>2. type'[c] = "garbage"
          BY <3>1, <5>1, <1>a
        <5> QED
          BY <5>2 DEF Held, Live
      <4>4. call[t].block = NoBlock
        BY <2>5 DEF UndoBlock, Inv, Ownership
      <4> QED
        BY <2>a, <2>b, <4>2, <4>3, <4>4, <1>a DEF Held, Blocks
    <3>3. CASE n # tls[t]
      <4>1. savepoint'[n] = savepoint[n] /\ call[t].block = NoBlock
        BY <2>5, <3>1, <3>3, <1>a DEF UndoBlock, Inv, Ownership
      <4> QED
        BY <2>a, <2>b, <4>1 DEF Held, Blocks
    <3> QED
      BY <3>2, <3>3
  <2>6. CASE UndoEnd(t)
    BY <2>6, <2>a, <2>b, <2>c, <1>a DEF UndoEnd, Outer
  <2>7. ASSUME UNCHANGED savepoint, ~Expose(t)
        PROVE  Goal
    <3>1. \A b \in Held(n)' : type'[b] # "init" => type[b] # "init"
      <4> SUFFICES ASSUME NEW b \in Held(n)', type'[b] # "init", type[b] = "init"
                   PROVE  FALSE
        OBVIOUS
      <4>1. b \in Blocks /\ b = call[t].block /\ type'[b] = "wr"
        BY <2>b DEF Held
      <4> QED
        BY <1>t, <2>7, <4>1, <1>a, SMTT(60)
           DEF Request, Step, Begin, OpenSavepoint, CommitSavepoint, RollbackSavepoint,
               Merge, Unmerge, RequestRead, RequestWrite, Store, Commit, Rollback,
               CopyOrigin, PassBlock, OverlayBlock, Refuse, ReturnRead, ApplyBlock,
               ApplyEnd, ReleaseBlock, Close, UndoBlock, UndoEnd, Blocks
    <3> QED
      BY <2>7, <2>a, <2>b, <3>1, SMTT(60)
  <2>8. \/ UNCHANGED savepoint \/ OpenSavepoint(t) \/ CommitSavepoint(t) \/ Expose(t)
        \/ Close(t) \/ UndoBlock(t) \/ UndoEnd(t)
    BY <1>t DEF Request, Step, Begin, RollbackSavepoint, Merge, Unmerge, RequestRead,
           RequestWrite, Store, Commit, Rollback, CopyOrigin, PassBlock, OverlayBlock,
           Refuse, ReturnRead, ApplyBlock, ApplyEnd, ReleaseBlock, session
  <2> QED
    BY <2>1, <2>2, <2>3, <2>4, <2>5, <2>6, <2>7, <2>8
<1> QED
  BY <1>u, <1>l, <1>t DEF Next, LogsWhole

\* Where savepoints are not nested in savepoints, a rolled back one leaves nothing
\* that was acquired since it was opened.
THEOREM RollbackLeavesNothing ==
  ASSUME MaxSave <= 1
  PROVE  Spec => SavepointUndoesAll
<1>1. Init => LogsWhole
  BY DEF Init, LogsWhole
<1>2. Inv /\ LogsWhole /\ [Next]_vars => LogsWhole'
  BY StepLogsWhole
<1>3. ASSUME Inv, LogsWhole, [Next]_vars,
             NEW t \in Thread, call[t].op = "undo", call'[t].op = "idle",
             NEW b \in Held(tls[t])'
      PROVE  b <= Inner(tls[t]).since
  <2>0. /\ Owns(t) /\ tls[t] \in TxId /\ savepoint[tls[t]] # <<>>
        /\ savepoint \in [TxId -> Seq(Savepoint)] /\ call[t].block = NoBlock
        /\ Blocks \subseteq Nat \ {NoBlock} /\ Len(savepoint[tls[t]]) <= 1
    BY <1>3, Basics DEF Inv, Ownership, LogsWhole
  <2>1. UndoEnd(t)
    <3>1. ASSUME NEW u \in Thread, Request(u) \/ Step(u)
          PROVE  UndoEnd(t)
      <4>1. u = t
        BY <1>3, <3>1, OthersKept DEF Inv, Life
      <4>2. ~UndoBlock(t)
        BY <1>3 DEF UndoBlock
      <4> QED
        BY <1>3, <3>1, <4>1, <4>2, UndoSteps
    <3>2. ~UNCHANGED vars
      BY <1>3 DEF vars
    <3>3. ~\E l \in Level : SetIsolation(l)
      BY <1>3 DEF SetIsolation
    <3> QED
      BY <1>3, <3>1, <3>2, <3>3 DEF Next
  <2>2. b \in Held(tls[t]) /\ Inner(tls[t]).log = {}
    BY <2>1 DEF UndoEnd, Held, Blocks, Live, profiles
  <2>3. type[b] # "init"
    <3> SUFFICES ASSUME type[b] = "init" PROVE FALSE
      OBVIOUS
    <3>1. PICK u \in Thread : call[u].block = b
      BY <1>3, <2>2 DEF Inv, Life, BlocksOwned, Held
    <3>2. u # t /\ Owns(u) /\ tls[u] = used_in[b]
      BY <1>3, <2>0, <2>2, <3>1, Basics DEF Inv, Held
    <3> QED
      BY <1>3, <2>0, <2>2, <3>2 DEF Inv, Ownership, Held
  <2>4. Len(savepoint[tls[t]]) = 1 /\ savepoint[tls[t]][1] \in Savepoint
    BY <2>0, OnlyOne
  <2>5. ~(savepoint[tls[t]][1].since < b)
    BY <1>3, <2>0, <2>2, <2>3, <2>4 DEF LogsWhole, Inner
  <2>6. savepoint[tls[t]][1].since \in Nat /\ b \in Nat
    BY <2>0, <2>2, <2>4 DEF Savepoint, Held
  <2> QED
    BY <2>4, <2>5, <2>6 DEF Inner
<1>4. Inv /\ LogsWhole /\ [Next]_vars =>
        [\A t \in Thread : call[t].op = "undo" /\ call'[t].op = "idle" =>
           \A b \in Held(tls[t])' : b <= Inner(tls[t]).since]_vars
  BY <1>3
<1> QED
  BY <1>1, <1>2, <1>4, Invariant, PTL DEF Spec, SavepointUndoesAll

-----------------------------------------------------------------------------
(* What a transaction's own blocks hold, and what is read of them.         *)

\* Newest picks the last block of a set of blocks.
LEMMA NewestIs ==
  ASSUME size \in Nat, NEW S \in SUBSET Blocks, S # {}
  PROVE  Newest(S) \in S /\ \A c \in S : c <= Newest(S)
<1>1. S \in SUBSET Nat /\ \A k \in S : k <= size
  BY DEF Blocks
<1>2. \E m \in S : \A k \in S : k <= m
  BY <1>1, GreatestNat
<1> QED
  BY <1>2 DEF Newest

LEMMA NewestOnly ==
  ASSUME size \in Nat, NEW S \in SUBSET Blocks, NEW b \in S, \A c \in S : c <= b
  PROVE  Newest(S) = b
<1>1. Newest(S) \in S /\ b <= Newest(S) /\ Newest(S) <= b
  BY NewestIs
<1>2. \A k \in S : k \in Nat
  BY DEF Blocks
<1> QED
  BY <1>1, <1>2

\* Once its owner fills no block, all that a transaction holds is exposed.
LEMMA HeldExposed ==
  ASSUME Inv, NEW t \in Thread, Owns(t), call[t].block = NoBlock,
         NEW b \in Held(tls[t])
  PROVE  type[b] = "wr"
<1>1. b \in Blocks /\ used_in[b] = tls[t] /\ type[b] # "garbage"
  BY DEF Held, Live
<1>2. type[b] # "init"
  <2> SUFFICES ASSUME type[b] = "init" PROVE FALSE
    OBVIOUS
  <2>1. PICK u \in Thread : call[u].block = b
    BY <1>1 DEF Inv, Life, BlocksOwned
  <2>2. u # t /\ Owns(u) /\ tls[u] = tls[t]
    BY <1>1, <2>1, Basics DEF Inv
  <2> QED
    BY <2>2 DEF Inv, Ownership
<1>3. type[b] \in BlockType /\ type[b] # "free"
  BY <1>1, Basics DEF Inv, Life, BlocksOwned
<1> QED
  BY <1>1, <1>2, <1>3 DEF BlockType

\* The steps of others leave what a transaction's owner holds and fills alone.
LEMMA HoldingKept ==
  ASSUME Inv, NEW t \in Thread, Request(t) \/ Step(t),
         NEW u \in Thread, u # t, Owns(u)
  PROVE  /\ call'[u] = call[u] /\ tls'[u] = tls[u] /\ Owns(u)'
         /\ state'[tls[u]] = state[tls[u]]
         /\ Held(tls[u])' = Held(tls[u]) /\ Target(u)' = Target(u)
         /\ \A b \in Held(tls[u]) : /\ buffer'[b] = buffer[b] /\ range'[b] = range[b]
                                    /\ type'[b] = type[b]
         /\ buffer'[Target(u)] = buffer[Target(u)]
<1>1. /\ call'[u] = call[u] /\ tls'[u] = tls[u] /\ Owns(u)'
      /\ buffer'[u] = buffer[u]
  BY OthersKept DEF Inv, Life, Owns
<1>2. tls[u] \in TxId /\ (Owns(t) => tls[t] # tls[u])
  BY Basics DEF Inv, Ownership
<1>3. state'[tls[u]] = state[tls[u]]
  <2>1. state[tls[u]] # "unborn"
    BY DEF Inv, Life, Phases
  <2> QED
    BY <1>2, <2>1, OthersKept DEF Inv, Life
<1>4. /\ \A b \in Blocks : used_in[b] = tls[u] =>
           /\ buffer'[b] = buffer[b] /\ range'[b] = range[b] /\ type'[b] = type[b]
      /\ \A b \in Blocks : used_in'[b] = used_in[b]
      /\ \A b \in Blocks' : used_in'[b] = tls[u] => b \in Blocks
      /\ Blocks \subseteq Blocks'
  BY <1>2, OthersKept DEF Inv, Life
<1>5. call[u].block # NoBlock => call[u].block \in Blocks /\ used_in[call[u].block] = tls[u]
  BY Basics, SMTT(60) DEF Inv
<1> QED
  BY <1>1, <1>3, <1>4, <1>5 DEF Held, Live, Target

\* The own blocks over address a that the scan of t has come past.
Seen(t, a) ==
  {b \in Held(tls[t]) \ {call[t].block} : b < call[t].pos /\ a \in range[b]}

\* What the scan of an owner has gathered so far is the newest of them.
OwnSeen ==
  \A t \in Thread :
    Owns(t) /\ call[t].op = "scan" /\ call[t].level # "ReadUncommitted" =>
      \A a \in call[t].region :
        Seen(t, a) # {} => buffer[Target(t)][a] = buffer[Newest(Seen(t, a))][a]

\* After a step that ends with the thread in its scan, it was one of the scan's.
LEMMA ScanSteps ==
  ASSUME Inv, NEW t \in Thread, Request(t) \/ Step(t), call'[t].op = "scan"
  PROVE  CopyOrigin(t) \/ PassBlock(t) \/ OverlayBlock(t)
<1>1. call \in [Thread -> Call]
  BY Basics DEF Inv
<1> QED
  BY <1>1
     DEF Request, Step, Begin, OpenSavepoint, CommitSavepoint, RollbackSavepoint, Merge,
         Unmerge, RequestRead, RequestWrite, Store, Commit, Rollback, Refuse, Expose,
         ReturnRead, ApplyBlock, ApplyEnd, ReleaseBlock, Close, UndoBlock, UndoEnd,
         Idle, Ready, Call

LEMMA StepOwnSeen ==
  ASSUME Inv, OwnSeen, [Next]_vars
  PROVE  OwnSeen'
<1>a. /\ call \in [Thread -> Call] /\ Blocks \subseteq BlockId /\ BlockId \subseteq Nat
      /\ buffer \in [BlockId \cup Thread -> Image] /\ size \in Nat
      /\ Thread \cap BlockId = {}
  BY Basics DEF Inv
<1>u. CASE UNCHANGED vars
  BY <1>u DEF vars, session, profiles, OwnSeen, Owns, Seen, Held, Blocks, Live, Target
<1>l. CASE \E l \in Level : SetIsolation(l)
  BY <1>l DEF SetIsolation, session, profiles, OwnSeen, Owns, Seen, Held, Blocks, Live,
              Target
<1>t. ASSUME NEW t \in Thread, Request(t) \/ Step(t)
      PROVE  OwnSeen'
  <2> SUFFICES ASSUME NEW u \in Thread, Owns(u)', call'[u].op = "scan",
                      call'[u].level # "ReadUncommitted",
                      NEW a \in call'[u].region, Seen(u, a)' # {}
               PROVE  buffer'[Target(u)'][a] = buffer'[Newest(Seen(u, a)')][a]
    <3>1. \A S : Newest(S)' = Newest(S')
      BY DEF Newest
    <3> QED
      BY <3>1 DEF OwnSeen
  <2>1. CASE u # t
    <3>1. Owns(u)
      BY <1>t, <2>1, OthersKept DEF Inv, Life, Owns
    <3>2. /\ call'[u] = call[u] /\ tls'[u] = tls[u]
          /\ Held(tls[u])' = Held(tls[u]) /\ Target(u)' = Target(u)
          /\ \A b \in Held(tls[u]) : buffer'[b] = buffer[b] /\ range'[b] = range[b]
          /\ buffer'[Target(u)] = buffer[Target(u)]
      BY <1>t, <2>1, <3>1, HoldingKept
    <3>3. Seen(u, a)' = Seen(u, a)
      BY <3>2 DEF Seen
    <3>4. Newest(Seen(u, a)) \in Held(tls[u])
      BY <1>a, <3>3, NewestIs DEF Seen, Held
    <3> QED
      BY <3>1, <3>2, <3>3, <3>4 DEF OwnSeen
  <2>2. CASE u = t
    <3>1. CASE CopyOrigin(t)
      <4>1. call[t].pos = 1 /\ call'[t].pos = call[t].pos
        <5>1. call[t].pos = 1
          BY <3>1 DEF CopyOrigin, Inv, Life, Phases
        <5> QED
          BY <1>a, <3>1, <5>1 DEF CopyOrigin, Call
      <4> QED
        BY <2>2, <4>1 DEF Seen, Held, Blocks
    <3>b. ASSUME PassBlock(t) \/ OverlayBlock(t)
          PROVE  /\ Owns(t) /\ call[t].op = "scan" /\ call[t].level # "ReadUncommitted"
                 /\ call[t].pos \in Blocks /\ call[t].pos # call[t].block
                 /\ call'[t].pos = call[t].pos + 1 /\ call'[t].block = call[t].block
                 /\ call'[t].region = call[t].region /\ Target(t)' = Target(t)
                 /\ UNCHANGED <<tls, type, range, used_in, size>>
                 /\ Seen(t, a)' = IF call[t].pos \in Held(tls[t]) /\ a \in range[call[t].pos]
                                  THEN Seen(t, a) \cup {call[t].pos} ELSE Seen(t, a)
      <4>1. /\ Owns(t) /\ call[t].op = "scan" /\ call[t].level # "ReadUncommitted"
            /\ call[t].pos \in Blocks /\ call[t].pos # call[t].block
            /\ call'[t].pos = call[t].pos + 1 /\ call'[t].block = call[t].block
            /\ call'[t].region = call[t].region /\ Target(t)' = Target(t)
            /\ UNCHANGED <<tls, type, range, used_in, size>>
        <5>1. /\ call[t].op = "scan" /\ call[t].pos \in Blocks
              /\ call[t].pos # call[t].block
              /\ call' = [call EXCEPT ![t].pos = @ + 1]
              /\ UNCHANGED <<session, profiles, type>>
          <6>1. CASE PassBlock(t)
            <7>1. call[t].op # "check"
              BY <1>a, <2>2, <6>1 DEF PassBlock, Call
            <7> QED
              BY <6>1, <7>1 DEF PassBlock, LooksAt
          <6>2. CASE OverlayBlock(t)
            BY <6>2 DEF OverlayBlock, LooksAt
          <6> QED
            BY <3>b, <6>1, <6>2
        <5>2. /\ call'[t].pos = call[t].pos + 1 /\ call'[t].block = call[t].block
              /\ call'[t].region = call[t].region /\ call'[t].level = call[t].level
          BY <1>a, <5>1 DEF Call
        <5> QED
          BY <2>2, <5>1, <5>2 DEF Owns, session, profiles, Target
      <4>2. Held(tls[t])' = Held(tls[t])
        BY <4>1 DEF Held, Blocks, Live
      <4>3. \A b \in Held(tls[t]) :
              b < call[t].pos + 1 <=> b < call[t].pos \/ b = call[t].pos
        <5>1. call[t].pos \in Nat /\ \A b \in Held(tls[t]) : b \in Nat
          BY <1>a, <4>1 DEF Held
        <5> HIDE DEF Held
        <5> QED
          BY <5>1
      <4> QED
        BY <4>1, <4>2, <4>3 DEF Seen
    <3>2. CASE PassBlock(t)
      <4>1. Seen(t, a)' = Seen(t, a)
        BY <2>2, <3>2, <3>b DEF PassBlock, LooksAt, Passes, Contends, Overlaps, Held
      <4> QED
        BY <2>2, <3>2, <3>b, <4>1 DEF OwnSeen, PassBlock
    <3>3. CASE OverlayBlock(t)
      <4> DEFINE b == call[t].pos
      <4>1. /\ b \in Held(tls[t]) /\ Target(t) # b
            /\ buffer' = [buffer EXCEPT ![Target(t)] =
                            Overlay(@, buffer[b], range[b] \cap call[t].region)]
        BY <1>a, <3>3, <3>b, ZenonT(90) DEF OverlayBlock, LooksAt, Copies, Held, Target
      <4>2. /\ Target(t) \in BlockId \cup Thread
            /\ a \in Addr /\ Target(t) \notin Held(tls[t]) \ {call[t].block}
        <5>1. call[t] \in Call /\ a \in Addr
          BY <1>a, <2>2, <3>3, <3>b DEF Call
        <5>2. Held(tls[t]) \subseteq BlockId
          BY <1>a DEF Held
        <5> QED
          BY <1>a, <5>1, <5>2 DEF Target, Call
      <4>3. \A x \in BlockId \cup Thread : x # Target(t) => buffer'[x] = buffer[x]
        BY <1>a, <4>1
      <4>4. buffer'[Target(t)][a] = IF a \in range[b] THEN buffer[b][a]
                                    ELSE buffer[Target(t)][a]
        <5>1. buffer'[Target(t)] =
                Overlay(buffer[Target(t)], buffer[b], range[b] \cap call[t].region)
          BY <1>a, <4>1, <4>2
        <5>2. a \in call[t].region
          BY <2>2, <3>3, <3>b
        <5> HIDE DEF b
        <5> QED
          BY <4>2, <5>1, <5>2 DEF Overlay
      <4>5. CASE a \in range[b]
        <5>1. Seen(t, a)' = Seen(t, a) \cup {b}
          BY <3>3, <3>b, <4>1, <4>5
        <5>2. Seen(t, a)' \in SUBSET Blocks /\ \A c \in Seen(t, a)' : c <= b
          <6>1. Seen(t, a) \subseteq Blocks /\ \A c \in Seen(t, a) : c < b
            BY DEF Seen, Held
          <6>2. \A c \in Blocks : c \in Nat
            BY <1>a
          <6>3. b \in Blocks
            BY <3>3, <3>b
          <6> HIDE DEF b
          <6> QED
            BY <5>1, <6>1, <6>2, <6>3
        <5>3. Newest(Seen(t, a)') = b
          BY <1>a, <5>1, <5>2, NewestOnly
        <5> QED
          <6>1. buffer'[b] = buffer[b] /\ Target(t)' = Target(t)
            BY <1>a, <3>3, <3>b, <4>1, <4>3
          <6> QED
            BY <2>2, <4>4, <4>5, <5>3, <6>1
      <4>6. CASE a \notin range[b]
        <5>1. Seen(t, a)' = Seen(t, a)
          BY <3>3, <3>b, <4>6
        <5>2. Newest(Seen(t, a)) \in Seen(t, a)
          BY <1>a, <2>2, <5>1, NewestIs DEF Seen, Held
        <5>3. Newest(Seen(t, a)) # Target(t) /\ Newest(Seen(t, a)) \in BlockId
          BY <1>a, <4>2, <5>2 DEF Seen, Held
        <5> QED
          BY <2>2, <3>3, <3>b, <4>3, <4>4, <4>6, <5>1, <5>3 DEF OwnSeen
      <4> QED
        BY <4>5, <4>6
    <3> QED
      BY <1>t, <2>2, <3>1, <3>2, <3>3, ScanSteps
  <2> QED
    BY <2>1, <2>2
<1> QED
  BY <1>u, <1>l, <1>t DEF Next

\* Whatever the owner of a transaction is given, to read or to write, shows its own
\* latest changes, whatever other threads do meanwhile (populate_ro_block).
THEOREM OwnersReadTheirWrites == Spec => []ReadsOwnWrites
<1>1. Init => OwnSeen
  BY DEF Init, OwnSeen, Ready
<1>2. Inv /\ OwnSeen /\ [Next]_vars => OwnSeen'
  BY StepOwnSeen
<1>3. Inv /\ OwnSeen => ReadsOwnWrites
  <2> SUFFICES ASSUME Inv, OwnSeen, NEW t \in Thread, Scanned(t), Owns(t),
                      call[t].level # "ReadUncommitted", NEW a \in call[t].region
               PROVE  LET own == {b \in Held(tls[t]) \ {call[t].block} : a \in range[b]}
                      IN  own # {} => buffer[Target(t)][a] = buffer[Newest(own)][a]
    BY DEF ReadsOwnWrites, OwnWrites
  <2>1. \A b \in Held(tls[t]) \ {call[t].block} : b < call[t].pos
    <3>1. Blocks \subseteq Nat /\ size \in Nat /\ call[t].pos \in Nat
      BY Basics DEF Inv, Call
    <3>2. call[t].block # NoBlock => call[t].block \in Nat /\
            \A c \in Blocks : used_in[c] = tls[t] => c <= call[t].block
      BY <3>1, Basics DEF Inv, Life, NewestLast
    <3>3. \A b \in Held(tls[t]) : b \in Blocks /\ used_in[b] = tls[t] /\ b \in Nat
      BY <3>1 DEF Held
    <3>4. \A b \in Blocks : b <= size
      BY <3>1 DEF Blocks
    <3>5. CASE call[t].block = NoBlock
      <4>1. call[t].pos > size
        BY <3>1, <3>5 DEF Scanned, Inv, Life, Phases
      <4> QED
        BY <3>1, <3>3, <3>4, <4>1
    <3>6. CASE call[t].block # NoBlock
      BY <3>2, <3>3, <3>6 DEF Scanned
    <3> QED
      BY <3>5, <3>6
  <2>2. {b \in Held(tls[t]) \ {call[t].block} : a \in range[b]} = Seen(t, a)
    BY <2>1, SMTT(60) DEF Seen
  <2> QED
    BY <2>2 DEF OwnSeen, Scanned
<1> QED
  BY <1>1, <1>2, <1>3, Invariant, PTL DEF Spec
-----------------------------------------------------------------------------
(* Where the values that a read returns come from.                         *)

\* The transaction's commit has begun: its values may be seen.
Settled(n) == state[n] \in {"committing", "committed"}

\* The file holds values of settled transactions only, a block also those of its
\* own transaction, and the same goes for what a read has gathered so far.
Values ==
  /\ \A a \in Addr : base[a] \in TxId => Settled(base[a])
  /\ \A b \in BlockId : \A a \in Addr :
       buffer[b][a] \in TxId =>
         Settled(buffer[b][a]) \/ (b \in Blocks /\ buffer[b][a] = used_in[b])
  /\ \A t \in Thread :
       call[t].op = "scan" /\ call[t].block = NoBlock
       /\ call[t].level # "ReadUncommitted" =>
         \A a \in call[t].region :
           buffer[t][a] \in TxId => Settled(buffer[t][a]) \/ buffer[t][a] = tls[t]

\* Which steps write to a buffer, and which one to the file.
LEMMA WritingSteps ==
  ASSUME NEW t \in Thread, Request(t) \/ Step(t)
  PROVE  /\ \/ UNCHANGED buffer \/ CopyOrigin(t) \/ OverlayBlock(t)
            \/ \E b \in Blocks : \E a \in range[b] : Store(t, b, a)
            \/ Refuse(t) \/ ReturnRead(t)
         /\ UNCHANGED base \/ ApplyBlock(t)
BY DEF Request, Step, Begin, OpenSavepoint, CommitSavepoint, RollbackSavepoint, Merge,
       Unmerge, RequestRead, RequestWrite, Store, Commit, Rollback, CopyOrigin,
       PassBlock, OverlayBlock, Refuse, Expose, ReturnRead, ApplyBlock, ApplyEnd,
       ReleaseBlock, Close, UndoBlock, UndoEnd

\* A transaction that is settled stays so.
LEMMA SettledKept ==
  ASSUME Inv, NEW t \in Thread, Request(t) \/ Step(t), NEW n \in TxId, Settled(n)
  PROVE  Settled(n)'
<1>a. state \in [TxId -> State]
  BY Basics DEF Inv
<1>1. CASE state'[n] = state[n]
  BY <1>1 DEF Settled
<1>2. CASE state'[n] # state[n]
  <2>1. Owns(t) /\ n = tls[t]
    BY <1>2, OthersKept DEF Inv, Life, Settled
  <2>2. call[t].op \in {"apply", "release"} /\ state[n] = "committing"
    BY <2>1, SMTT(60) DEF Settled, Inv, Life, Phases
  <2>3. Close(t)
    BY <1>2, <1>a, <2>1, <2>2
       DEF Request, Step, Begin, OpenSavepoint, CommitSavepoint, RollbackSavepoint, Merge,
           Unmerge, RequestRead, RequestWrite, Store, Commit, Rollback, CopyOrigin,
           PassBlock, OverlayBlock, Refuse, Expose, ReturnRead, ApplyBlock, ApplyEnd,
           ReleaseBlock, UndoBlock, UndoEnd, session, Idle
  <2> QED
    BY <1>a, <2>1, <2>2, <2>3 DEF Close, Settled
<1> QED
  BY <1>1, <1>2

LEMMA StepValues ==
  ASSUME Inv, Values, [Next]_vars
  PROVE  Values'
<1>a. /\ call \in [Thread -> Call] /\ Blocks \subseteq BlockId /\ BlockId \subseteq Nat
      /\ buffer \in [BlockId \cup Thread -> Image] /\ base \in Image
      /\ used_in \in [BlockId -> TxId \cup {NoTx}]
      /\ Thread \cap BlockId = {} /\ range \in [BlockId -> SUBSET Addr]
      /\ NoBlock \notin BlockId
  BY Basics DEF Inv
<1>n. Noise \notin TxId /\ NoImage \in Image /\ \A a \in Addr : NoImage[a] = Noise
  BY DEF Noise, TxId, NoImage, Image, Val
<1>v. /\ \A b \in BlockId : \A a \in Addr :
           buffer[b][a] \in TxId =>
             Settled(buffer[b][a]) \/ (b \in Blocks /\ buffer[b][a] = used_in[b])
      /\ \A a \in Addr : base[a] \in TxId => Settled(base[a])
  BY DEF Values
<1>u. CASE UNCHANGED vars
  BY <1>u DEF vars, session, profiles, Values, Settled, Blocks
<1>l. CASE \E l \in Level : SetIsolation(l)
  BY <1>l DEF SetIsolation, session, profiles, Values, Settled, Blocks
<1>t. ASSUME NEW t \in Thread, Request(t) \/ Step(t)
      PROVE  Values'
  <2> DEFINE After(n) == state'[n] \in {"committing", "committed"}
  <2>s. \A n \in TxId : Settled(n) => After(n)
    BY <1>t, SettledKept DEF Settled
  <2> HIDE DEF After
  <2>k. /\ \A b \in Blocks : b \in Blocks' /\ used_in'[b] = used_in[b]
        /\ \A u \in Thread \ {t} : /\ call'[u] = call[u] /\ tls'[u] = tls[u]
                                   /\ buffer'[u] = buffer[u]
    BY <1>t, OthersKept DEF Inv, Life
  <2>w. call[t].block # NoBlock =>
          /\ call[t].block \in Blocks /\ used_in[call[t].block] = tls[t]
          /\ call[t].level = "Prevent"
    BY Basics DEF Inv
  <2>c. call[t] \in Call /\ Target(t) \in BlockId \cup Thread
        /\ (Target(t) = t <=> call[t].block = NoBlock)
        /\ (call[t].block # NoBlock => Target(t) = call[t].block)
    BY <1>a DEF Target, Call
  <2>1. ASSUME NEW a \in Addr, base'[a] \in TxId
        PROVE  After(base'[a])
    <3>1. CASE UNCHANGED base
      BY <1>v, <2>s, <2>1, <3>1
    <3>2. CASE ApplyBlock(t)
      <4>1. base'[a] = base[a]
            \/ \E b \in Held(tls[t]) : a \in range[b] /\ base'[a] = buffer[b][a]
        BY <1>a, <3>2 DEF ApplyBlock, Overlay, Image
      <4>2. state[tls[t]] = "committing"
        BY <3>2 DEF ApplyBlock, Inv, Ownership, Life, Phases
      <4>3. ASSUME NEW b \in Held(tls[t]), base'[a] = buffer[b][a]
            PROVE  Settled(base'[a])
        BY <1>a, <1>v, <2>1, <4>2, <4>3, ZenonT(90) DEF Held, Settled
      <4> QED
        BY <1>v, <2>1, <2>s, <4>1, <4>3
    <3> QED
      BY <1>t, <3>1, <3>2, WritingSteps
  <2>2. ASSUME NEW b \in BlockId, NEW a \in Addr, buffer'[b][a] \in TxId
        PROVE  After(buffer'[b][a])
               \/ (b \in Blocks' /\ buffer'[b][a] = used_in'[b])
    <3>1. CASE buffer'[b][a] = buffer[b][a]
      <4>1. CASE Settled(buffer[b][a])
        BY <2>s, <2>2, <3>1, <4>1
      <4>2. CASE b \in Blocks /\ buffer[b][a] = used_in[b]
        BY <2>k, <3>1, <4>2
      <4> QED
        BY <1>v, <2>2, <3>1, <4>1, <4>2
    <3>2. CASE CopyOrigin(t) /\ b = Target(t)
      <4>1. buffer'[b][a] = base[a] \/ buffer'[b][a] = buffer[b][a]
        BY <1>a, <3>2 DEF CopyOrigin, Overlay
      <4> QED
        <5>1. CASE buffer'[b][a] = base[a]
          BY <1>v, <2>s, <2>2, <5>1
        <5> QED
          BY <3>1, <4>1, <5>1
    <3>3. CASE OverlayBlock(t) /\ b = Target(t)
      <4>1. call[t].block = b /\ b \in Blocks /\ used_in[b] = tls[t]
            /\ call[t].level = "Prevent"
        BY <1>a, <2>c, <2>w, <3>3
      <4>2. PICK c \in Blocks : LooksAt(t, c) /\ Copies(t, c)
                  /\ buffer' = [buffer EXCEPT ![Target(t)] =
                                 Overlay(@, buffer[c], range[c] \cap call[t].region)]
        BY <3>3 DEF OverlayBlock
      <4>3. used_in[c] = tls[t] /\ c \in BlockId
        BY <1>a, <4>1, <4>2 DEF Copies
      <4>4. buffer'[b][a] = buffer[c][a] \/ buffer'[b][a] = buffer[b][a]
        BY <1>a, <2>c, <3>3, <4>2 DEF Overlay
      <4> QED
        BY <1>v, <2>s, <2>k, <2>2, <3>1, <4>1, <4>3, <4>4
    <3>4. ASSUME NEW c \in Blocks, NEW d \in range[c], Store(t, c, d), b = c, a = d
          PROVE  buffer'[b][a] = used_in'[b] /\ b \in Blocks'
      BY <1>a, <2>k, <3>4 DEF Store, Image
    <3>5. \/ buffer'[b] = buffer[b]
          \/ CopyOrigin(t) /\ b = Target(t)
          \/ OverlayBlock(t) /\ b = Target(t)
          \/ \E c \in Blocks : \E d \in range[c] : Store(t, c, d) /\ b = c
      <4>1. b # t
        BY <1>a
      <4> QED
        <5>1. CASE CopyOrigin(t) \/ OverlayBlock(t)
          BY <1>a, <5>1 DEF CopyOrigin, OverlayBlock
        <5>2. CASE \E c \in Blocks : \E d \in range[c] : Store(t, c, d)
          BY <1>a, <5>2 DEF Store
        <5>3. CASE Refuse(t) \/ ReturnRead(t)
          BY <1>a, <4>1, <5>3 DEF Refuse, ReturnRead
        <5> QED
          BY <1>t, <5>1, <5>2, <5>3, WritingSteps
    <3>6. ASSUME NEW c \in Blocks, NEW d \in range[c], Store(t, c, d), b = c, a # d
          PROVE  buffer'[b][a] = buffer[b][a]
      BY <1>a, <3>6 DEF Store, Image
    <3> QED
      BY <3>1, <3>2, <3>3, <3>4, <3>5, <3>6
  <2>3. ASSUME NEW u \in Thread, call'[u].op = "scan", call'[u].block = NoBlock,
               call'[u].level # "ReadUncommitted",
               NEW a \in call'[u].region, buffer'[u][a] \in TxId
        PROVE  After(buffer'[u][a]) \/ buffer'[u][a] = tls'[u]
    <3>1. CASE u # t
      BY <2>3, <2>k, <2>s, <3>1 DEF Values
    <3>2. CASE u = t
      <4>1. CASE CopyOrigin(t)
        <5>1. call'[t].block = call[t].block /\ call'[t].region = call[t].region
          BY <1>a, <4>1 DEF CopyOrigin, Call
        <5>2. Target(t) = t /\ a \in call[t].region /\ a \in Addr
          BY <2>3, <2>c, <3>2, <5>1 DEF Call
        <5>3. buffer'[t][a] = base[a]
          BY <1>a, <4>1, <5>2 DEF CopyOrigin, Overlay
        <5> QED
          BY <1>v, <2>s, <2>3, <3>2, <5>2, <5>3
      <4>2. CASE PassBlock(t)
        <5>1. /\ call'[t].block = call[t].block /\ call'[t].region = call[t].region
              /\ call'[t].level = call[t].level /\ call'[t].op = call[t].op
              /\ tls' = tls /\ buffer' = buffer
          BY <1>a, <4>2 DEF PassBlock, Call, session
        <5> QED
          BY <2>s, <2>3, <3>2, <5>1 DEF Values
      <4>3. CASE OverlayBlock(t)
        <5>1. /\ call'[t].block = call[t].block /\ call'[t].region = call[t].region
              /\ call'[t].level = call[t].level /\ call[t].op = "scan" /\ tls' = tls
          BY <1>a, <4>3 DEF OverlayBlock, Call, session
        <5>2. PICK c \in Blocks : LooksAt(t, c) /\ Copies(t, c)
                    /\ buffer' = [buffer EXCEPT ![Target(t)] =
                                   Overlay(@, buffer[c], range[c] \cap call[t].region)]
          BY <4>3 DEF OverlayBlock
        <5>3. Target(t) = t /\ a \in call[t].region /\ a \in Addr
          BY <2>3, <2>c, <3>2, <5>1 DEF Call
        <5>4. used_in[c] = tls[t] /\ c \in BlockId
          BY <1>a, <2>3, <3>2, <5>1, <5>2 DEF Copies
        <5>5. buffer'[t][a] = buffer[c][a] \/ buffer'[t][a] = buffer[t][a]
          BY <1>a, <5>2, <5>3 DEF Overlay
        <5>6. buffer[c][a] \in TxId => Settled(buffer[c][a]) \/ buffer[c][a] = tls[t]
          BY <1>v, <5>3, <5>4
        <5>7. buffer[t][a] \in TxId => Settled(buffer[t][a]) \/ buffer[t][a] = tls[t]
          BY <2>3, <3>2, <5>1, <5>3 DEF Values
        <5> QED
          BY <2>s, <2>3, <3>2, <5>1, <5>5, <5>6, <5>7
      <4> QED
        BY <1>t, <2>3, <3>2, <4>1, <4>2, <4>3, ScanSteps
    <3> QED
      BY <3>1, <3>2
  <2> QED
    BY <2>1, <2>2, <2>3 DEF Values, Settled, After
<1> QED
  BY <1>u, <1>l, <1>t DEF Next

\* Unless the level is ReadUncommitted, no read returns a value of another
\* transaction that was not committing yet or was rolled back, at any number of
\* threads and however their steps interleave.
THEOREM ReadsAreClean == Spec => []NoDirtyRead
<1>1. Init => Values
  BY DEF Init, Values, Ready, NoImage, Noise, TxId, Origin
<1>2. Inv /\ Values /\ [Next]_vars => Values'
  BY StepValues
<1>3. Values => NoDirtyRead
  BY DEF Values, NoDirtyRead, Scanned, Settled
<1> QED
  BY <1>1, <1>2, <1>3, Invariant, PTL DEF Spec
-----------------------------------------------------------------------------
(* What a commit leaves in the file.                                       *)

\* The blocks over address a that the commit of t has applied and still holds.
AppliedAt(t, a) == {b \in Applied(t) : a \in range[b]}

\* What a thread that is committing holds is disjoint from what others hold.
LEMMA HeldApart ==
  ASSUME Inv, NEW t \in Thread, NEW u \in Thread, t # u, Owns(t), Owns(u),
         call[t].block = NoBlock, call[u].block = NoBlock,
         NEW b \in Held(tls[t]), NEW c \in Held(tls[u])
  PROVE  range[b] \cap range[c] = {}
<1>1. type[b] = "wr" /\ type[c] = "wr"
  BY HeldExposed
<1>2. tls[t] # tls[u]
  BY DEF Inv, Ownership
<1>3. WriteExclusion
  BY ExclusionImplies, SMTT(60) DEF Inv
<1> QED
  BY <1>1, <1>2, <1>3 DEF WriteExclusion, Held

\* After a step that ends with the thread in a commit or a rollback, it was one of
\* those that lead there.
LEMMA CompletionSteps ==
  ASSUME Inv, NEW t \in Thread, Request(t) \/ Step(t),
         call'[t].op \in {"apply", "release"}
  PROVE  Commit(t) \/ Rollback(t) \/ ApplyBlock(t) \/ ApplyEnd(t) \/ ReleaseBlock(t)
<1>1. call \in [Thread -> Call]
  BY Basics DEF Inv
<1> QED
  BY <1>1
     DEF Request, Step, Begin, OpenSavepoint, CommitSavepoint, RollbackSavepoint, Merge,
         Unmerge, RequestRead, RequestWrite, Store, CopyOrigin, PassBlock, OverlayBlock,
         Refuse, Expose, ReturnRead, Close, UndoBlock, UndoEnd, LooksAt, Idle, Ready, Call

LEMMA StepInstalls ==
  ASSUME Inv, CommitInstalls, [Next]_vars
  PROVE  CommitInstalls'
<1>a. /\ call \in [Thread -> Call] /\ Blocks \subseteq BlockId /\ BlockId \subseteq Nat
      /\ buffer \in [BlockId \cup Thread -> Image] /\ base \in Image /\ size \in Nat
      /\ type \in [BlockId -> BlockType] /\ state \in [TxId -> State]
      /\ tls \in [Thread -> TxId \cup {NoTx}]
  BY Basics DEF Inv
<1>i. ASSUME NEW t \in Thread, call[t].op \in {"apply", "release"},
             state[tls[t]] = "committing", NEW a \in Addr, AppliedAt(t, a) # {}
      PROVE  base[a] = buffer[Newest(AppliedAt(t, a))][a]
  BY <1>i DEF CommitInstalls, AppliedAt
<1>n. ASSUME NEW t \in Thread, NEW a \in Addr, AppliedAt(t, a) # {}
      PROVE  /\ Newest(AppliedAt(t, a)) \in AppliedAt(t, a)
             /\ \A c \in AppliedAt(t, a) : c <= Newest(AppliedAt(t, a))
  BY <1>a, <1>n, NewestIs DEF AppliedAt, Applied, Held
<1>u. CASE UNCHANGED vars
  BY <1>u DEF vars, session, profiles, CommitInstalls, Applied, Held, Blocks, Live, Newest
<1>l. CASE \E l \in Level : SetIsolation(l)
  BY <1>l DEF SetIsolation, session, profiles, CommitInstalls, Applied, Held, Blocks, Live,
              Newest
<1>t. ASSUME NEW t \in Thread, Request(t) \/ Step(t)
      PROVE  CommitInstalls'
  <2> SUFFICES ASSUME NEW u \in Thread, call'[u].op \in {"apply", "release"},
                      state'[tls'[u]] = "committing", NEW a \in Addr,
                      AppliedAt(u, a)' # {}
               PROVE  base'[a] = buffer'[Newest(AppliedAt(u, a)')][a]
    <3>1. \A S : Newest(S)' = Newest(S')
      BY DEF Newest
    <3> QED
      BY <3>1 DEF CommitInstalls, AppliedAt
  <2>1. CASE u # t
    <3>1. call'[u] = call[u] /\ Owns(u) /\ call[u].block = NoBlock
      BY <1>t, <2>1, OthersKept DEF Inv, Life, Ownership
    <3>2. /\ tls'[u] = tls[u] /\ state'[tls[u]] = state[tls[u]]
          /\ Held(tls[u])' = Held(tls[u])
          /\ \A b \in Held(tls[u]) : buffer'[b] = buffer[b] /\ range'[b] = range[b]
      BY <1>t, <2>1, <3>1, HoldingKept
    <3>3. AppliedAt(u, a)' = AppliedAt(u, a) /\ AppliedAt(u, a) \subseteq Held(tls[u])
      BY <3>1, <3>2 DEF Applied, AppliedAt
    <3>4. PICK b \in Held(tls[u]) : a \in range[b]
      BY <3>3 DEF AppliedAt
    <3>5. base'[a] = base[a]
      <4>1. CASE ApplyBlock(t)
        <5>1. Owns(t) /\ call[t].block = NoBlock
          BY <4>1 DEF ApplyBlock, Inv, Ownership
        <5>2. \A c \in Held(tls[t]) : a \notin range[c]
          BY <2>1, <3>1, <3>4, <5>1, HeldApart
        <5> QED
          BY <1>a, <4>1, <5>2 DEF ApplyBlock, Overlay, Image
      <4> QED
        BY <1>t, <4>1, WritingSteps
    <3>6. Newest(AppliedAt(u, a)) \in Held(tls[u])
      BY <1>n, <3>3
    <3> QED
      BY <1>i, <3>1, <3>2, <3>3, <3>5, <3>6
  <2>2. CASE u = t
    <3>1. CASE Commit(t)
      <4>1. call'[t].pos = 1 /\ call'[t].op = "apply" /\ Blocks' = Blocks
        BY <1>a, <3>1 DEF Commit, Blocks, profiles, Call
      <4>2. \A b \in Blocks : ~(b < 1)
        BY <1>a DEF BlockId, Blocks
      <4> QED
        BY <2>2, <4>1, <4>2 DEF AppliedAt, Applied, Held
    <3>2. CASE Rollback(t)
      BY <1>a, <2>2, <3>2, Basics DEF Rollback, Inv
    <3>3. CASE ApplyBlock(t)
      <4>1. /\ call[t].op = "apply" /\ call[t].pos \in Blocks
            /\ call'[t].op = "apply" /\ call'[t].pos = call[t].pos + 1
            /\ UNCHANGED <<session, profiles, type, buffer>>
        BY <1>a, <3>3 DEF ApplyBlock, Call
      <4>2. Held(tls[t])' = Held(tls[t]) /\ state[tls[t]] = "committing"
        BY <2>2, <4>1 DEF Held, Blocks, Live, session, profiles
      <4> DEFINE b == call[t].pos
      <4>3. AppliedAt(t, a)' = IF b \in Held(tls[t]) /\ a \in range[b]
                               THEN AppliedAt(t, a) \cup {b} ELSE AppliedAt(t, a)
        <5>1. \A c \in Held(tls[t]) : c < b + 1 <=> c < b \/ c = b
          <6>1. b \in Nat /\ \A c \in Held(tls[t]) : c \in Nat
            BY <1>a, <4>1 DEF Held
          <6> HIDE DEF b, Held
          <6> QED
            BY <6>1
        <5>2. Applied(t)' = {c \in Held(tls[t]) : c < b + 1}
              /\ Applied(t) = {c \in Held(tls[t]) : c < b}
          BY <4>1, <4>2 DEF Applied
        <5> HIDE DEF b
        <5> QED
          BY <4>1, <5>1, <5>2 DEF AppliedAt, profiles
      <4>4. CASE b \in Held(tls[t]) /\ a \in range[b]
        <5>1. AppliedAt(t, a)' = AppliedAt(t, a) \cup {b}
          BY <4>3, <4>4
        <5>2. AppliedAt(t, a) \subseteq Blocks /\ \A c \in AppliedAt(t, a) : c < b
          BY <4>1 DEF AppliedAt, Applied, Held
        <5>3. Newest(AppliedAt(t, a)') = b
          <6>1. \A c \in Blocks : c \in Nat
            BY <1>a
          <6>2. b \in Blocks
            BY <4>1
          <6> HIDE DEF b
          <6>3. \A c \in AppliedAt(t, a)' : c <= b
            BY <5>1, <5>2, <6>1, <6>2
          <6> QED
            BY <1>a, <5>1, <5>2, <6>2, <6>3, NewestOnly
        <5>4. base'[a] = buffer[b][a]
          BY <3>3, <4>4 DEF ApplyBlock, Overlay
        <5> QED
          BY <2>2, <4>1, <5>3, <5>4
      <4>5. CASE ~(b \in Held(tls[t]) /\ a \in range[b])
        <5>1. AppliedAt(t, a)' = AppliedAt(t, a)
          BY <4>3, <4>5
        <5>2. base'[a] = base[a]
          BY <1>a, <3>3, <4>5 DEF ApplyBlock, Overlay, Image
        <5> QED
          BY <1>i, <2>2, <4>1, <4>2, <5>1, <5>2
      <4> QED
        BY <4>4, <4>5
    <3>4. CASE ApplyEnd(t)
      <4>1. /\ call[t].op = "apply" /\ call[t].pos > size
            /\ call'[t].op = "release"
            /\ UNCHANGED <<base, session, profiles, type, buffer>>
        BY <1>a, <3>4 DEF ApplyEnd, Call
      <4>2. Held(tls[t])' = Held(tls[t]) /\ state[tls[t]] = "committing"
        BY <2>2, <4>1 DEF Held, Blocks, Live, session, profiles
      <4>3. \A c \in Held(tls[t]) : c < call[t].pos
        <5>1. call[t].pos \in Nat /\ \A c \in Blocks : c \in Nat /\ c <= size
          BY <1>a DEF Call, Blocks
        <5> QED
          BY <1>a, <4>1, <5>1 DEF Held
      <4>4. AppliedAt(t, a)' = AppliedAt(t, a)
        BY <4>1, <4>2, <4>3 DEF AppliedAt, Applied, profiles
      <4> QED
        BY <1>i, <2>2, <4>1, <4>2, <4>4
    <3>5. CASE ReleaseBlock(t)
      <4>1. /\ call[t].op = "release" /\ call' = call
            /\ UNCHANGED <<base, session, profiles, buffer>>
        BY <3>5 DEF ReleaseBlock
      <4>2. state[tls[t]] = "committing"
        BY <2>2, <4>1 DEF session
      <4>3. PICK b \in Held(tls[t]) : /\ \A c \in Held(tls[t]) : b <= c
                                      /\ type' = [type EXCEPT ![b] = "garbage"]
        BY <3>5 DEF ReleaseBlock
      <4>4. Held(tls[t])' = Held(tls[t]) \ {b}
        <5>1. \A c \in Blocks : type'[c] = IF c = b THEN "garbage" ELSE type[c]
          BY <1>a, <4>3
        <5> QED
          BY <4>1, <5>1 DEF Held, Live, Blocks, session, profiles
      <4>5. AppliedAt(t, a)' = AppliedAt(t, a) \ {b} /\ AppliedAt(t, a) \subseteq Held(tls[t])
        BY <4>1, <4>4 DEF AppliedAt, Applied, session, profiles
      <4>6. Newest(AppliedAt(t, a)') = Newest(AppliedAt(t, a))
        <5> DEFINE m == Newest(AppliedAt(t, a))
        <5>1. m \in AppliedAt(t, a) /\ \A c \in AppliedAt(t, a) : c <= m
          BY <1>n, <2>2, <4>5
        <5>2. \A c \in Held(tls[t]) : c \in Nat /\ c \in Blocks
          BY <1>a DEF Held
        <5> HIDE DEF m
        <5>3. m # b
          BY <2>2, <4>3, <4>5, <5>1, <5>2
        <5>4. AppliedAt(t, a)' \in SUBSET Blocks /\ m \in AppliedAt(t, a)'
              /\ \A c \in AppliedAt(t, a)' : c <= m
          BY <4>5, <5>1, <5>2, <5>3
        <5>5. Newest(AppliedAt(t, a)') = m
          BY <1>a, <5>4, NewestOnly
        <5> QED
          BY <5>5 DEF m
      <4> QED
        BY <1>i, <2>2, <4>1, <4>2, <4>5, <4>6
    <3> QED
      BY <1>t, <2>2, <3>1, <3>2, <3>3, <3>4, <3>5, CompletionSteps
  <2> QED
    BY <2>1, <2>2
<1> QED
  BY <1>u, <1>l, <1>t DEF Next

\* While a commit copies and releases its blocks, each address it has copied holds
\* the newest value that its transaction has for it, whatever the others do.
THEOREM CommitsInstallNewest == Spec => []CommitInstalls
<1>1. Init => CommitInstalls
  BY DEF Init, CommitInstalls, Ready
<1>2. Inv /\ CommitInstalls /\ [Next]_vars => CommitInstalls'
  BY StepInstalls
<1> QED
  BY <1>1, <1>2, Invariant, PTL DEF Spec

-----------------------------------------------------------------------------
(***************************************************************************)
(* The transactional memory implements TransactionalStore, for every       *)
(* number of threads, transactions, blocks and savepoints.  The mapping    *)
(* looks only at what the transactions expose, so the steps of a scan, of  *)
(* a copy to the file and of the release of a committed block stutter; the *)
(* step that begins a commit is the commit.  That the release of a         *)
(* committed block stutters is what CommitInstalls is for: the file holds  *)
(* what the block stood for.                                               *)
(***************************************************************************)

\* The exposed blocks of transaction n over address a.
ExposedAt(n, a) == {b \in Held(n) : type[b] = "wr" /\ a \in range[b]}

\* What the mapping says, address by address.
LEMMA Mapped ==
  ASSUME Inv, NEW n \in TxId, NEW a
  PROVE  /\ a \in Claimed(n) <=> ExposedAt(n, a) # {}
         /\ View(n, a) = buffer[Newest(ExposedAt(n, a))][a]
         /\ a \in Claimed(n) => /\ a \in Addr /\ View(n, a) \in Val
                                /\ Newest(ExposedAt(n, a)) \in ExposedAt(n, a)
<1>a. /\ Blocks \subseteq BlockId /\ size \in Nat
      /\ buffer \in [BlockId \cup Thread -> Image] /\ range \in [BlockId -> SUBSET Addr]
  BY Basics DEF Inv
<1>1. a \in Claimed(n) <=> ExposedAt(n, a) # {}
  BY DEF Claimed, ExposedAt
<1>2. View(n, a) = buffer[Newest(ExposedAt(n, a))][a]
  BY DEF View, ExposedAt
<1>3. ExposedAt(n, a) # {} => Newest(ExposedAt(n, a)) \in ExposedAt(n, a)
  BY <1>a, NewestIs DEF ExposedAt, Held
<1>4. ASSUME ExposedAt(n, a) # {} PROVE a \in Addr /\ View(n, a) \in Val
  <2>1. Newest(ExposedAt(n, a)) \in BlockId /\ a \in range[Newest(ExposedAt(n, a))]
    BY <1>a, <1>3, <1>4 DEF ExposedAt, Held
  <2> QED
    BY <1>a, <1>2, <2>1 DEF Image
<1> QED
  BY <1>1, <1>2, <1>3, <1>4

\* Transactions claim disjoint addresses.
Apart == \A n, m \in TxId : n # m => Claimed(n) \cap Claimed(m) = {}

LEMMA ClaimsApart == Inv => Apart
BY ExclusionImplies DEF Inv, Apart, Claimed, Held, WriteExclusion

LEMMA ClaimsApartNext == Inv' => Apart'
BY ClaimsApart, PTL

\* An address in a commit under way holds what that commit has for it.
StoreMapped ==
  \A a \in Addr : /\ \A n \in Committing(a) : AbsStore[a] = View(n, a)
                  /\ Committing(a) = {} => AbsStore[a] = base[a]

LEMMA StoreAt == Inv => StoreMapped
<1> SUFFICES ASSUME Inv, NEW a \in Addr
             PROVE  /\ \A n \in Committing(a) : AbsStore[a] = View(n, a)
                    /\ Committing(a) = {} => AbsStore[a] = base[a]
  BY DEF StoreMapped
<1>1. ASSUME NEW n \in Committing(a) PROVE Committing(a) = {n}
  BY <1>1, ClaimsApart DEF Apart, Committing
<1>2. ASSUME NEW n \in Committing(a) PROVE AbsStore[a] = View(n, a)
  BY <1>1, <1>2 DEF AbsStore
<1> QED
  BY <1>2 DEF AbsStore

LEMMA StoreAtNext == Inv' => StoreMapped'
BY StoreAt, PTL

\* What a step of thread t does not change of the other transactions.
LEMMA OthersMapped ==
  ASSUME Inv, Inv', NEW t \in Thread, Request(t) \/ Step(t),
         NEW n \in TxId, ~(Owns(t) /\ n = tls[t])
  PROVE  /\ Claimed(n)' = Claimed(n)
         /\ \A a \in Claimed(n) : View(n, a)' = View(n, a)
<1>1. \A b \in Blocks : used_in[b] = n =>
        type'[b] = type[b] /\ buffer'[b] = buffer[b] /\ range'[b] = range[b]
  BY OthersKept DEF Inv, Life
<1>2. /\ \A b \in Blocks : b \in Blocks' /\ used_in'[b] = used_in[b]
      /\ \A b \in Blocks' : used_in'[b] = n => b \in Blocks
  BY OthersKept DEF Inv, Life
<1>3. Held(n)' = Held(n)
  BY <1>1, <1>2 DEF Held, Live
<1>4. \A a : ExposedAt(n, a)' = ExposedAt(n, a)
  BY <1>1, <1>3 DEF ExposedAt, Held
<1>5. Claimed(n)' = Claimed(n)
  BY <1>1, <1>3 DEF Claimed, Held
<1>6. ASSUME NEW a \in Claimed(n) PROVE View(n, a)' = View(n, a)
  <2>1. Newest(ExposedAt(n, a)) \in Held(n)
    BY Mapped DEF ExposedAt
  <2>2. buffer'[Newest(ExposedAt(n, a))] = buffer[Newest(ExposedAt(n, a))]
    BY <1>1, <2>1 DEF Held
  <2>3. View(n, a) = buffer[Newest(ExposedAt(n, a))][a]
    BY DEF View, ExposedAt
  <2>4. View(n, a)' = buffer'[Newest(ExposedAt(n, a)')][a]
    BY DEF View, ExposedAt, Newest
  <2> QED
    BY <1>4, <2>2, <2>3, <2>4
<1> QED
  BY <1>5, <1>6

\* The three parts of the abstract state that stay when what they are made of does.
LEMMA StoreKept ==
  ASSUME UNCHANGED base,
         \A a \in Addr : Committing(a)' = Committing(a),
         \A n \in TxId : \A a \in Claimed(n) : View(n, a)' = View(n, a)
  PROVE  AbsStore' = AbsStore
<1>1. ASSUME NEW a \in Addr, Committing(a) # {}
      PROVE  View(CHOOSE n \in Committing(a) : TRUE, a)'
               = View(CHOOSE n \in Committing(a) : TRUE, a)
  <2>1. (CHOOSE n \in Committing(a) : TRUE)' = (CHOOSE n \in Committing(a) : TRUE)
    OBVIOUS
  <2>2. PICK n \in Committing(a) : n = (CHOOSE m \in Committing(a) : TRUE)
    BY <1>1
  <2> QED
    BY <2>1, <2>2 DEF Committing
<1> QED
  BY <1>1 DEF AbsStore

LEMMA DraftsKept ==
  ASSUME UNCHANGED AbsStatus,
         \A n \in TxId : /\ Claimed(n)' = Claimed(n)
                         /\ \A a \in Claimed(n) : View(n, a)' = View(n, a)
  PROVE  UNCHANGED <<AbsStatus, AbsClaim, AbsDraft>>
<1>1. AbsClaim' = AbsClaim
  BY DEF AbsClaim
<1>2. \A n \in TxId : AbsClaim[n] \subseteq Claimed(n)
  BY DEF AbsClaim
<1>3. AbsDraft' = AbsDraft
  BY <1>1, <1>2 DEF AbsDraft
<1> QED
  BY <1>1, <1>3

\* Nothing changes in the abstract state when neither the file, nor its view of the
\* phases, nor what is exposed does.
LEMMA MappingKept ==
  ASSUME UNCHANGED <<base, AbsStatus>>,
         \A n \in TxId : /\ state'[n] = "committing" <=> state[n] = "committing"
                         /\ Claimed(n)' = Claimed(n)
                         /\ \A a \in Claimed(n) : View(n, a)' = View(n, a)
  PROVE  UNCHANGED Abs!vars
<1>1. \A a \in Addr : Committing(a)' = Committing(a)
  BY DEF Committing
<1> QED
  BY <1>1, StoreKept, DraftsKept DEF Abs!vars

-----------------------------------------------------------------------------
(* The steps that stutter.                                                 *)

\* A step that exposes no block, takes none back and stores into none.
ExposureKept ==
  /\ \A b \in Blocks' : type'[b] = "wr" => b \in Blocks /\ type[b] = "wr"
  /\ \A b \in Blocks : type[b] = "wr" =>
       /\ b \in Blocks' /\ type'[b] = "wr" /\ buffer'[b] = buffer[b]
       /\ used_in'[b] = used_in[b] /\ range'[b] = range[b]

LEMMA ExposureMapped ==
  ASSUME Inv, ExposureKept, NEW n \in TxId
  PROVE  /\ Claimed(n)' = Claimed(n)
         /\ \A a \in Claimed(n) : View(n, a)' = View(n, a)
<1>1. ASSUME NEW a PROVE ExposedAt(n, a)' = ExposedAt(n, a)
  BY DEF ExposureKept, ExposedAt, Held, Live
<1>2. Claimed(n)' = Claimed(n)
  BY DEF ExposureKept, Claimed, Held, Live
<1>3. ASSUME NEW a \in Claimed(n) PROVE View(n, a)' = View(n, a)
  <2>1. Newest(ExposedAt(n, a)) \in ExposedAt(n, a)
    BY Mapped
  <2>2. buffer'[Newest(ExposedAt(n, a))] = buffer[Newest(ExposedAt(n, a))]
    BY <2>1 DEF ExposureKept, ExposedAt, Held
  <2>3. View(n, a) = buffer[Newest(ExposedAt(n, a))][a]
    BY DEF View, ExposedAt
  <2>4. View(n, a)' = buffer'[Newest(ExposedAt(n, a)')][a]
    BY DEF View, ExposedAt, Newest
  <2> QED
    BY <1>1, <2>2, <2>3, <2>4
<1> QED
  BY <1>2, <1>3

\* The steps of a scan, of a request and of a savepoint's bookkeeping.
Quiet(t) ==
  \/ OpenSavepoint(t) \/ CommitSavepoint(t) \/ RollbackSavepoint(t)
  \/ \E n \in TxId : Merge(t, n)
  \/ Unmerge(t)
  \/ \E r \in ReadRegion : RequestRead(t, r)
  \/ \E r \in WriteRegion, hint \in Hint : RequestWrite(t, r, hint)
  \/ CopyOrigin(t) \/ PassBlock(t) \/ OverlayBlock(t) \/ Refuse(t) \/ ReturnRead(t)
  \/ ApplyEnd(t) \/ UndoEnd(t)

LEMMA QuietSteps ==
  ASSUME Inv, NEW t \in Thread, Quiet(t)
  PROVE  ExposureKept /\ UNCHANGED <<base, state>>
<1>a. /\ Blocks \subseteq BlockId /\ Thread \cap BlockId = {} /\ size \in Nat
      /\ buffer \in [BlockId \cup Thread -> Image] /\ type \in [BlockId -> BlockType]
      /\ range \in [BlockId -> SUBSET Addr] /\ used_in \in [BlockId -> TxId \cup {NoTx}]
  BY Basics DEF Inv
<1>b. UNCHANGED profiles =>
        Blocks' = Blocks /\ UNCHANGED <<range, used_in>>
  BY DEF profiles, Blocks
<1>c. call[t].block # NoBlock => type[call[t].block] = "init"
  BY Basics DEF Inv
<1>d. \A b \in Blocks : type[b] = "wr" => b # Target(t)
  BY <1>a, <1>c DEF Target
<1> DEFINE Goal == ExposureKept /\ UNCHANGED <<base, state>>
<1>1. CASE OpenSavepoint(t) \/ CommitSavepoint(t) \/ Unmerge(t) \/ UndoEnd(t)
  BY <1>1, <1>b DEF OpenSavepoint, CommitSavepoint, Unmerge, UndoEnd, ExposureKept
<1>2. CASE RollbackSavepoint(t) \/ PassBlock(t) \/ ApplyEnd(t)
  BY <1>2, <1>b DEF RollbackSavepoint, PassBlock, ApplyEnd, ExposureKept, session
<1>3. ASSUME NEW n \in TxId, Merge(t, n) PROVE Goal
  BY <1>3, <1>b DEF Merge, ExposureKept
<1>4. ASSUME NEW r \in ReadRegion, RequestRead(t, r) PROVE Goal
  BY <1>4, <1>b DEF RequestRead, ExposureKept, session
<1>5. ASSUME NEW r \in WriteRegion, NEW hint \in Hint, RequestWrite(t, r, hint) PROVE Goal
  <2>1. /\ Blocks' = Blocks \cup {size + 1} /\ size + 1 \notin Blocks
        /\ size + 1 \in BlockId
    BY <1>5 DEF RequestWrite, Blocks, BlockId, Inv, TypeOK
  <2>2. /\ type'[size + 1] = "init"
        /\ \A b \in Blocks : /\ type'[b] = type[b] /\ range'[b] = range[b]
                             /\ used_in'[b] = used_in[b]
    BY <1>5, <1>a, <2>1 DEF RequestWrite
  <2> QED
    BY <1>5, <2>1, <2>2 DEF RequestWrite, ExposureKept, session
<1>6. CASE CopyOrigin(t)
  BY <1>6, <1>a, <1>b, <1>d DEF CopyOrigin, ExposureKept, session
<1>7. CASE OverlayBlock(t)
  BY <1>7, <1>a, <1>b, <1>d DEF OverlayBlock, ExposureKept, session
<1>8. CASE Refuse(t)
  BY <1>8, <1>a, <1>b, <1>c DEF Refuse, ExposureKept, session
<1>9. CASE ReturnRead(t)
  BY <1>9, <1>a, <1>b DEF ReturnRead, ExposureKept, session
<1> QED
  BY <1>1, <1>2, <1>3, <1>4, <1>5, <1>6, <1>7, <1>8, <1>9 DEF Quiet

\* Copying a shadow to the file changes the file only where the commit under way
\* already stands for it.
LEMMA ApplyStutters ==
  ASSUME Inv, Inv', NEW t \in Thread, ApplyBlock(t)
  PROVE  UNCHANGED Abs!vars
<1>0. /\ UNCHANGED <<session, profiles, type, buffer>> /\ Blocks' = Blocks
      /\ Owns(t) /\ call[t].block = NoBlock /\ state[tls[t]] = "committing"
      /\ tls[t] \in TxId
  BY Basics DEF ApplyBlock, profiles, Blocks, Inv, Ownership, Life, Phases
<1>1. ASSUME NEW n \in TxId
      PROVE  /\ Claimed(n)' = Claimed(n)
             /\ \A a \in Claimed(n) : View(n, a)' = View(n, a)
  BY <1>0, ExposureMapped DEF ExposureKept, profiles
<1>2. AbsStatus' = AbsStatus
  BY <1>0 DEF AbsStatus, session
<1>3. AbsClaim' = AbsClaim
  BY <1>1, <1>2 DEF AbsClaim
<1>4. AbsDraft' = AbsDraft
  <2>1. \A n \in TxId : AbsClaim[n] \subseteq Claimed(n)
    BY DEF AbsClaim
  <2> QED
    BY <1>1, <1>3, <2>1 DEF AbsDraft
<1>5. ASSUME NEW a \in Addr PROVE AbsStore'[a] = AbsStore[a]
  <2>1. Committing(a)' = Committing(a)
    BY <1>0, <1>1 DEF Committing, session
  <2>2. CASE Committing(a) = {}
    <3>1. AbsStore[a] = base[a] /\ AbsStore'[a] = base'[a]
      BY <2>1, <2>2 DEF AbsStore
    <3>2. a \notin Claimed(tls[t])
      BY <1>0, <2>2 DEF Committing
    <3>3. \A b \in Held(tls[t]) : a \notin range[b]
      BY <1>0, <3>2, HeldExposed DEF Claimed
    <3>4. base'[a] = base[a]
      BY <3>3, Basics DEF ApplyBlock, Overlay, Image, Inv
    <3> QED
      BY <3>1, <3>4
  <2>3. CASE Committing(a) # {}
    <3>1. PICK n \in TxId : n \in Committing(a) /\ a \in Claimed(n)
      BY <2>3 DEF Committing
    <3>2. AbsStore[a] = View(n, a)
      BY <3>1, StoreAt DEF StoreMapped
    <3>3. \A x \in Addr : \A m \in Committing(x)' : AbsStore'[x] = View(m, x)'
      BY StoreAtNext DEF StoreMapped
    <3> QED
      BY <1>1, <2>1, <3>1, <3>2, <3>3
  <2> QED
    BY <2>2, <2>3
<1>6. AbsStore' = AbsStore
  BY <1>5 DEF AbsStore
<1> QED
  BY <1>2, <1>3, <1>4, <1>6 DEF Abs!vars
\* As long as a block of a committing transaction stands for an address, the file
\* already holds its value there, so the release changes nothing.
LEMMA ReleaseStutters ==
  ASSUME Inv, Inv', CommitInstalls, NEW t \in Thread, ReleaseBlock(t),
         state[tls[t]] = "committing"
  PROVE  UNCHANGED Abs!vars
<1>0. /\ UNCHANGED <<base, session, profiles, buffer, call>>
      /\ Owns(t) /\ call[t].block = NoBlock /\ call[t].op = "release"
      /\ tls[t] \in TxId /\ Blocks \subseteq BlockId /\ BlockId \subseteq Nat
      /\ type \in [BlockId -> BlockType] /\ size \in Nat
  BY Basics DEF ReleaseBlock, Inv, Ownership
<1> DEFINE n == tls[t]
<1>k. ASSUME NEW m \in TxId, m # n
      PROVE  /\ Claimed(m)' = Claimed(m)
             /\ \A a \in Claimed(m) : View(m, a)' = View(m, a)
  BY <1>k, OthersMapped DEF Step
<1>1. AbsStatus' = AbsStatus /\ AbsStatus[n] # "active" /\ AbsStatus'[n] # "active"
  BY <1>0 DEF AbsStatus, session
<1>2. AbsClaim' = AbsClaim
  BY <1>k, <1>1 DEF AbsClaim
<1>3. AbsDraft' = AbsDraft
  <2>1. \A m \in TxId : AbsClaim[m] \subseteq Claimed(m) /\ AbsClaim[n] = {}
    BY <1>0, <1>1 DEF AbsClaim
  <2> QED
    BY <1>k, <1>2, <2>1 DEF AbsDraft
<1>4. PICK b \in Held(n) : /\ \A c \in Held(n) : b <= c
                           /\ type' = [type EXCEPT ![b] = "garbage"]
  BY DEF ReleaseBlock
<1>5. \A a : ExposedAt(n, a)' = ExposedAt(n, a) \ {b}
  <2>1. \A c \in Blocks : type'[c] = IF c = b THEN "garbage" ELSE type[c]
    BY <1>0, <1>4
  <2> QED
    BY <1>0, <2>1 DEF ExposedAt, Held, Live, Blocks, session, profiles
<1>6. ASSUME NEW a \in Addr PROVE AbsStore'[a] = AbsStore[a]
  <2>1. \A m \in TxId \ {n} : m \in Committing(a)' <=> m \in Committing(a)
    BY <1>0, <1>k DEF Committing, session
  <2>2. CASE \E m \in TxId \ {n} : m \in Committing(a)
    <3>1. PICK m \in TxId \ {n} : m \in Committing(a) /\ m \in Committing(a)'
      BY <2>1, <2>2
    <3>2. a \in Claimed(m)
      BY <3>1 DEF Committing
    <3> QED
      BY <1>k, <3>1, <3>2, StoreAt, StoreAtNext DEF StoreMapped
  <2>3. CASE Committing(a) = {}
    <3>1. a \notin Claimed(n)
      BY <1>0, <2>3 DEF Committing
    <3>2. ExposedAt(n, a)' = {}
      BY <1>0, <1>5, <3>1, Mapped
    <3>3. n \notin Committing(a)'
      BY <1>0, <3>2 DEF Committing, Claimed, ExposedAt, session
    <3>4. Committing(a)' = {}
      BY <2>1, <2>3, <3>3 DEF Committing
    <3> QED
      BY <1>0, <2>3, <3>4, StoreAt, StoreAtNext DEF StoreMapped
  <2>4. CASE n \in Committing(a) /\ \A m \in TxId \ {n} : m \notin Committing(a)
    <3>1. /\ AbsStore[a] = View(n, a) /\ a \in Claimed(n)
          /\ View(n, a) = buffer[Newest(ExposedAt(n, a))][a]
          /\ Newest(ExposedAt(n, a)) \in ExposedAt(n, a)
      BY <1>0, <2>4, StoreAt, Mapped DEF StoreMapped, Committing
    <3>2. ExposedAt(n, a) = {c \in Applied(t) : a \in range[c]}
      BY <1>0, HeldExposed DEF ExposedAt, Applied
    <3>3. base[a] = View(n, a)
      BY <1>0, <3>1, <3>2 DEF CommitInstalls
    <3>4. CASE ExposedAt(n, a)' = {}
      <4>1. n \notin Committing(a)'
        BY <1>0, <3>4 DEF Committing, Claimed, ExposedAt, session
      <4>2. Committing(a)' = {}
        BY <2>1, <2>4, <4>1 DEF Committing
      <4> QED
        BY <1>0, <3>1, <3>3, <4>2, StoreAtNext DEF StoreMapped
    <3>5. CASE ExposedAt(n, a)' # {}
      <4>1. n \in Committing(a)'
        BY <1>0, <3>5 DEF Committing, Claimed, ExposedAt, session
      <4>2. AbsStore'[a] = View(n, a)'
        BY <1>0, <4>1, StoreAtNext DEF StoreMapped, session
      <4>3. View(n, a)' = buffer'[Newest(ExposedAt(n, a)')][a]
        BY <1>0 DEF View, ExposedAt, Newest, session
      <4>4. Newest(ExposedAt(n, a)') = Newest(ExposedAt(n, a))
        <5> DEFINE m == Newest(ExposedAt(n, a))
        <5>1. m \in ExposedAt(n, a) /\ \A c \in ExposedAt(n, a) : c <= m
          BY <1>0, <3>1, NewestIs DEF ExposedAt, Held
        <5>2. \A c \in Held(n) : c \in Nat /\ c \in Blocks
          BY <1>0 DEF Held
        <5>3. ExposedAt(n, a) \subseteq Held(n)
          BY DEF ExposedAt
        <5> HIDE DEF m, n
        <5>4. m # b
          BY <1>4, <1>5, <3>5, <5>1, <5>2, <5>3
        <5>5. /\ ExposedAt(n, a)' \in SUBSET Blocks /\ m \in ExposedAt(n, a)'
              /\ \A c \in ExposedAt(n, a)' : c <= m
          BY <1>5, <5>1, <5>2, <5>3, <5>4
        <5>6. Newest(ExposedAt(n, a)') = m
          BY <1>0, <5>5, NewestOnly
        <5> QED
          BY <5>6 DEF m
      <4> QED
        BY <1>0, <3>1, <4>2, <4>3, <4>4
    <3> QED
      BY <3>4, <3>5
  <2> QED
    BY <2>2, <2>3, <2>4 DEF Committing
<1>7. AbsStore' = AbsStore
  BY <1>6 DEF AbsStore
<1> QED
  BY <1>1, <1>2, <1>3, <1>7 DEF Abs!vars

-----------------------------------------------------------------------------
(* The steps that are steps of the abstract specification.                 *)

\* Exposing a block, storing into one and giving one up are edits of a draft.
LEMMA EditSteps ==
  ASSUME Inv, Inv', NEW t \in Thread, Request(t) \/ Step(t), Owns(t),
         state[tls[t]] \in {"active", "aborting"}, UNCHANGED <<base, state, tls>>
  PROVE  Abs!Edit(tls[t])
<1> DEFINE n == tls[t]
           c == Claimed(n)'
<1>0. n \in TxId /\ state \in [TxId -> State]
  BY Basics DEF Inv
<1>k. ASSUME NEW m \in TxId, m # n
      PROVE  /\ Claimed(m)' = Claimed(m)
             /\ \A a \in Claimed(m) : View(m, a)' = View(m, a)
  BY <1>k, OthersMapped
<1>1. AbsStatus' = AbsStatus /\ AbsStatus[n] = "active"
  BY <1>0 DEF AbsStatus
<1>2. \A m \in TxId : AbsClaim'[m] = IF m = n THEN c ELSE AbsClaim[m]
  BY <1>0, <1>k, <1>1 DEF AbsClaim
<1>3. AbsClaim' = [AbsClaim EXCEPT ![n] = c]
  BY <1>2 DEF AbsClaim
<1>4. \A a \in c : a \in Addr /\ View(n, a)' \in Val
  <2>1. range' \in [BlockId -> SUBSET Addr] /\ buffer' \in [BlockId \cup Thread -> Image]
        /\ Blocks' \subseteq BlockId /\ size' \in Nat
    BY DEF Inv, TypeOK, Blocks, BlockId
  <2> SUFFICES ASSUME NEW a \in c PROVE a \in Addr /\ View(n, a)' \in Val
    OBVIOUS
  <2>2. /\ ExposedAt(n, a)' # {}
        /\ \A b \in ExposedAt(n, a)' : b \in Blocks' /\ a \in range'[b]
    BY DEF Claimed, ExposedAt, Held
  <2>3. View(n, a)' = buffer'[Newest(ExposedAt(n, a)')][a]
    BY DEF View, ExposedAt, Newest
  <2>4. Newest(ExposedAt(n, a)') \in ExposedAt(n, a)'
    <3>1. ExposedAt(n, a)' \in SUBSET Nat /\ \A k \in ExposedAt(n, a)' : k <= size'
      BY <2>1, <2>2 DEF Blocks
    <3>2. \E m \in ExposedAt(n, a)' : \A k \in ExposedAt(n, a)' : k <= m
      BY <2>1, <2>2, <3>1, GreatestNat
    <3> QED
      BY <3>2 DEF Newest
  <2> QED
    BY <2>1, <2>2, <2>3, <2>4 DEF Image
<1>5. \A m \in TxId \ {n} : AbsClaim[m] \cap c = {}
  <2>1. \A m \in TxId \ {n} : Claimed(m)' \cap Claimed(n)' = {}
    BY <1>0, ClaimsApartNext DEF Apart
  <2> QED
    BY <1>k, <2>1 DEF AbsClaim
<1> DEFINE d == [a \in c |-> View(n, a)']
<1>6. d \in [c -> Val]
  BY <1>4
<1>7. \A m \in TxId : AbsDraft'[m] = IF m = n THEN [a \in Addr |-> IF a \in c THEN d[a] ELSE Noise]
                                     ELSE AbsDraft[m]
  <2>1. \A m \in TxId : AbsClaim[m] \subseteq Claimed(m)
    BY DEF AbsClaim
  <2>2. \A m \in TxId \ {n} : AbsDraft'[m] = AbsDraft[m]
    BY <1>k, <1>2, <2>1 DEF AbsDraft
  <2>3. AbsDraft'[n] = [a \in Addr |-> IF a \in c THEN d[a] ELSE Noise]
    BY <1>0, <1>2 DEF AbsDraft
  <2> QED
    BY <2>2, <2>3
<1>8. AbsDraft' = [AbsDraft EXCEPT ![n] = [a \in Addr |-> IF a \in c THEN d[a] ELSE Noise]]
  BY <1>7 DEF AbsDraft
<1>9. AbsStore' = AbsStore
  <2>1. \A m \in TxId : m \in {n} => state[m] # "committing"
    OBVIOUS
  <2>2. \A a \in Addr : Committing(a)' = Committing(a)
    BY <1>k, <2>1 DEF Committing
  <2>3. ASSUME NEW a \in Addr PROVE AbsStore'[a] = AbsStore[a]
    <3>1. CASE Committing(a) = {}
      BY <2>2, <3>1, StoreAt, StoreAtNext DEF StoreMapped
    <3>2. CASE Committing(a) # {}
      <4>1. PICK m \in TxId : m \in Committing(a) /\ m # n /\ a \in Claimed(m)
        BY <2>1, <3>2 DEF Committing
      <4> QED
        BY <1>k, <2>2, <4>1, StoreAt, StoreAtNext DEF StoreMapped
    <3> QED
      BY <3>1, <3>2
  <2> QED
    BY <2>3 DEF AbsStore
<1>10. c \in SUBSET Addr
  BY <1>4
<1> HIDE DEF c, d
<1> QED
  BY <1>1, <1>3, <1>5, <1>6, <1>8, <1>9, <1>10 DEF Abs!Edit, Abs!TxId, TxId, Abs!Val, Val,
     Abs!Noise, Noise
\* Begin, commit and the end of a rollback are the abstract steps of that name.
LEMMA BeginStep ==
  ASSUME Inv, Inv', NEW t \in Thread, Begin(t)
  PROVE  Abs!Begin(next_uid + 1)
<1> DEFINE n == next_uid + 1
<1>0. /\ n \in TxId /\ next_uid \in Nat /\ tls[t] = NoTx
      /\ state' = [state EXCEPT ![n] = "active"] /\ base' = base
      /\ state \in [TxId -> State]
  BY Basics DEF Begin, TxId, Inv, TypeOK
<1>1. state[n] = "unborn"
  BY <1>0 DEF Inv, Ownership
<1>2. \A m \in TxId : m < n => state[m] # "unborn"
  BY <1>0 DEF Inv, Life, Phases, TxId
<1> HIDE DEF n
<1>k. ASSUME NEW m \in TxId
      PROVE  /\ Claimed(m)' = Claimed(m)
             /\ \A a \in Claimed(m) : View(m, a)' = View(m, a)
  BY <1>0, OthersMapped DEF Owns, Request
<1>3. Claimed(n) = {}
  <2>1. ASSUME NEW b \in Held(n) PROVE FALSE
    <3>1. PICK u \in Thread : tls[u] = n
      BY DEF Held, Inv, Life, BlocksOwned
    <3>2. tls[u] <= next_uid
      BY DEF Inv, Ownership
    <3> QED
      BY <1>0, <3>1, <3>2 DEF n
  <2> QED
    BY <2>1 DEF Claimed
<1>4. /\ AbsStatus[n] = "unborn" /\ \A m \in TxId : m < n => AbsStatus[m] # "unborn"
      /\ AbsStatus' = [AbsStatus EXCEPT ![n] = "active"]
  <2>1. \A m \in TxId : AbsStatus'[m] = IF m = n THEN "active" ELSE AbsStatus[m]
    BY <1>0 DEF AbsStatus
  <2>2. AbsStatus[n] = "unborn"
    BY <1>0, <1>1 DEF AbsStatus
  <2>3. \A m \in TxId : m < n => AbsStatus[m] # "unborn"
    BY <1>2 DEF AbsStatus
  <2> QED
    BY <2>1, <2>2, <2>3 DEF AbsStatus
<1>5. \A m \in TxId : AbsClaim'[m] = AbsClaim[m]
  BY <1>k, <1>3, <1>4 DEF AbsClaim, AbsStatus
<1>6. AbsClaim' = AbsClaim
  BY <1>5 DEF AbsClaim
<1>7. AbsDraft' = AbsDraft
  <2>1. \A m \in TxId : AbsClaim[m] \subseteq Claimed(m)
    BY DEF AbsClaim
  <2> QED
    BY <1>k, <1>6, <2>1 DEF AbsDraft
<1>8. AbsStore' = AbsStore
  <2>1. \A a \in Addr : Committing(a)' = Committing(a)
    BY <1>k, <1>0, <1>1 DEF Committing
  <2> QED
    BY <1>0, <1>k, <2>1, StoreKept
<1>9. Abs!Begin(n)
  BY <1>4, <1>6, <1>7, <1>8 DEF Abs!Begin, Abs!TxId, TxId
<1> QED
  BY <1>9 DEF n

LEMMA CommitStep ==
  ASSUME Inv, Inv', NEW t \in Thread, Commit(t)
  PROVE  Abs!Commit(tls[t])
<1> DEFINE n == tls[t]
<1>0. /\ n \in TxId /\ state[n] = "active" /\ UNCHANGED <<base, tls, profiles, type, buffer>>
      /\ state' = [state EXCEPT ![n] = "committing"] /\ state \in [TxId -> State]
  BY Basics DEF Commit, Idle, Inv, Life, Phases
<1>k. ASSUME NEW m \in TxId
      PROVE  /\ Claimed(m)' = Claimed(m)
             /\ \A a \in Claimed(m) : View(m, a)' = View(m, a)
  BY <1>0, ExposureMapped DEF ExposureKept, profiles, Blocks
<1>1. /\ AbsStatus[n] = "active"
      /\ AbsStatus' = [AbsStatus EXCEPT ![n] = "committed"]
  <2>1. \A m \in TxId : AbsStatus'[m] = IF m = n THEN "committed" ELSE AbsStatus[m]
    BY <1>0 DEF AbsStatus
  <2> QED
    BY <1>0, <2>1 DEF AbsStatus
<1>2. AbsClaim' = [AbsClaim EXCEPT ![n] = {}]
  <2>1. \A m \in TxId : AbsClaim'[m] = IF m = n THEN {} ELSE AbsClaim[m]
    BY <1>0, <1>k, <1>1 DEF AbsClaim, AbsStatus
  <2> QED
    BY <2>1 DEF AbsClaim
<1>3. AbsDraft' = [AbsDraft EXCEPT ![n] = [a \in Addr |-> Noise]]
  <2>1. \A m \in TxId : AbsClaim[m] \subseteq Claimed(m) /\ AbsClaim'[n] = {}
    BY <1>0, <1>2 DEF AbsClaim
  <2>2. \A m \in TxId \ {n} : AbsDraft'[m] = AbsDraft[m]
    <3>1. \A m \in TxId \ {n} : AbsClaim'[m] = AbsClaim[m]
      BY <1>2 DEF AbsClaim
    <3> QED
      BY <1>k, <2>1, <3>1 DEF AbsDraft
  <2>3. AbsDraft'[n] = [a \in Addr |-> Noise]
    BY <1>0, <2>1 DEF AbsDraft
  <2> QED
    BY <2>2, <2>3 DEF AbsDraft
<1>4. ASSUME NEW a \in Addr
      PROVE  AbsStore'[a] = IF a \in AbsClaim[n] THEN AbsDraft[n][a] ELSE AbsStore[a]
  <2>1. \A m \in TxId : m # n => (m \in Committing(a)' <=> m \in Committing(a))
    BY <1>0, <1>k DEF Committing
  <2>2. AbsClaim[n] = Claimed(n) /\ n \notin Committing(a)
    BY <1>0, <1>1 DEF AbsClaim, Committing
  <2>3. CASE a \in Claimed(n)
    <3>1. n \in Committing(a)'
      BY <1>0, <1>k, <2>3 DEF Committing
    <3>2. AbsStore'[a] = View(n, a)
      BY <1>0, <1>k, <2>3, <3>1, StoreAtNext DEF StoreMapped
    <3>3. AbsDraft[n][a] = View(n, a)
      BY <1>0, <2>2, <2>3 DEF AbsDraft
    <3> QED
      BY <2>2, <2>3, <3>2, <3>3
  <2>4. CASE a \notin Claimed(n)
    <3>1. n \notin Committing(a)'
      BY <1>0, <1>k, <2>4 DEF Committing
    <3>2. Committing(a)' = Committing(a)
      BY <2>1, <2>2, <3>1 DEF Committing
    <3>3. CASE Committing(a) = {}
      BY <1>0, <2>2, <2>4, <3>2, <3>3, StoreAt, StoreAtNext DEF StoreMapped
    <3>4. CASE Committing(a) # {}
      <4>1. PICK m \in TxId : m \in Committing(a) /\ a \in Claimed(m)
        BY <3>4 DEF Committing
      <4> QED
        BY <1>k, <2>2, <2>4, <3>2, <4>1, StoreAt, StoreAtNext DEF StoreMapped
    <3> QED
      BY <3>3, <3>4
  <2> QED
    BY <2>3, <2>4
<1>5. AbsStore' = [a \in Addr |-> IF a \in AbsClaim[n] THEN AbsDraft[n][a] ELSE AbsStore[a]]
  BY <1>4 DEF AbsStore
<1> HIDE DEF n
<1>6. Abs!Commit(n)
  BY <1>1, <1>2, <1>3, <1>5 DEF Abs!Commit, Abs!Finish, Abs!NoImage, Abs!Noise, Noise
<1> QED
  BY <1>6 DEF n

\* A rollback is announced first, and the transaction is over when it has released
\* its last block; the end of a commit was already told by its beginning.
LEMMA RollbackStutters ==
  ASSUME Inv, NEW t \in Thread, Rollback(t)
  PROVE  UNCHANGED Abs!vars
<1>0. /\ tls[t] \in TxId /\ state[tls[t]] = "active"
      /\ UNCHANGED <<base, tls, profiles, type, buffer>>
      /\ state' = [state EXCEPT ![tls[t]] = "aborting"] /\ state \in [TxId -> State]
  BY Basics DEF Rollback, Idle, Inv, Life, Phases
<1>k. ASSUME NEW m \in TxId
      PROVE  /\ Claimed(m)' = Claimed(m)
             /\ \A a \in Claimed(m) : View(m, a)' = View(m, a)
  BY <1>0, ExposureMapped DEF ExposureKept, profiles, Blocks
<1>1. AbsStatus' = AbsStatus
  <2>1. \A m \in TxId : AbsStatus'[m] = AbsStatus[m]
    BY <1>0 DEF AbsStatus
  <2> QED
    BY <2>1 DEF AbsStatus
<1>2. \A n \in TxId : state'[n] = "committing" <=> state[n] = "committing"
  BY <1>0
<1> QED
  BY <1>0, <1>k, <1>1, <1>2, MappingKept

LEMMA CloseStep ==
  ASSUME Inv, Inv', NEW t \in Thread, Close(t)
  PROVE  Abs!Abort(tls[t]) \/ UNCHANGED Abs!vars
<1> DEFINE n == tls[t]
<1>0. /\ n \in TxId /\ state[n] \in {"committing", "aborting"} /\ Held(n) = {}
      /\ UNCHANGED <<base, profiles, type, buffer>> /\ state \in [TxId -> State]
      /\ state' = [state EXCEPT ![n] = IF @ = "committing" THEN "committed" ELSE "aborted"]
  BY Basics DEF Close, Inv, Ownership, Life, Phases
<1>k. ASSUME NEW m \in TxId
      PROVE  /\ Claimed(m)' = Claimed(m)
             /\ \A a \in Claimed(m) : View(m, a)' = View(m, a)
  BY <1>0, ExposureMapped DEF ExposureKept, profiles, Blocks
<1>1. Claimed(n) = {}
  BY <1>0 DEF Claimed
<1> HIDE DEF n
<1>2. \A m \in TxId : m # n => state'[m] = state[m]
  BY <1>0
<1>3. AbsStore' = AbsStore
  <2>1. \A a \in Addr : Committing(a)' = Committing(a)
    BY <1>0, <1>k, <1>1, <1>2 DEF Committing
  <2> QED
    BY <1>0, <1>k, <2>1, StoreKept
<1>4. CASE state[n] = "committing"
  <2>1. \A m \in TxId : AbsStatus'[m] = AbsStatus[m]
    BY <1>0, <1>2, <1>4 DEF AbsStatus
  <2>2. AbsStatus' = AbsStatus
    BY <2>1 DEF AbsStatus
  <2> QED
    BY <1>k, <1>3, <2>2, DraftsKept DEF Abs!vars
<1>5. CASE state[n] = "aborting"
  <2>1. \A m \in TxId : AbsStatus'[m] = IF m = n THEN "aborted" ELSE AbsStatus[m]
    BY <1>0, <1>2, <1>5 DEF AbsStatus
  <2>2. AbsStatus' = [AbsStatus EXCEPT ![n] = "aborted"] /\ AbsStatus[n] = "active"
    BY <1>0, <1>5, <2>1 DEF AbsStatus
  <2>3. AbsClaim' = [AbsClaim EXCEPT ![n] = {}]
    <3>1. \A m \in TxId : AbsClaim'[m] = IF m = n THEN {} ELSE AbsClaim[m]
      BY <1>0, <1>k, <2>1 DEF AbsClaim
    <3> QED
      BY <3>1 DEF AbsClaim
  <2>4. AbsDraft' = [AbsDraft EXCEPT ![n] = [a \in Addr |-> Noise]]
    <3>1. \A m \in TxId : AbsClaim[m] \subseteq Claimed(m) /\ AbsClaim'[n] = {}
      BY <1>0, <2>3 DEF AbsClaim
    <3>2. \A m \in TxId \ {n} : AbsDraft'[m] = AbsDraft[m]
      BY <1>k, <2>3, <3>1, ZenonT(90) DEF AbsDraft, AbsClaim
    <3>3. AbsDraft'[n] = [a \in Addr |-> Noise]
      BY <1>0, <3>1 DEF AbsDraft
    <3> QED
      BY <3>2, <3>3 DEF AbsDraft
  <2>5. Abs!Abort(n)
    BY <1>3, <2>2, <2>3, <2>4 DEF Abs!Abort, Abs!Finish, Abs!NoImage, Abs!Noise, Noise
  <2> QED
    BY <2>5 DEF n
<1> QED
  BY <1>0, <1>4, <1>5
LEMMA InitMapped == Init => Abs!Init
<1> SUFFICES ASSUME Init PROVE Abs!Init
  OBVIOUS
<1>1. AbsStore = [a \in Addr |-> 0]
  BY DEF Init, AbsStore, Committing, Origin
<1>2. AbsStatus = [n \in TxId |-> "unborn"]
  BY DEF Init, AbsStatus
<1>3. AbsClaim = [n \in TxId |-> {}]
  BY <1>2 DEF AbsClaim
<1>4. AbsDraft = [n \in TxId |-> [a \in Addr |-> Noise]]
  BY <1>3 DEF AbsDraft
<1> QED
  BY <1>1, <1>2, <1>3, <1>4
     DEF Abs!Init, Abs!TxId, TxId, Abs!NoImage, Abs!Noise, Noise

\* Every step is a step of the abstract specification or none.
LEMMA StepMapped ==
  ASSUME Inv, Inv', CommitInstalls, [Next]_vars
  PROVE  [Abs!Next]_(Abs!vars)
<1>n. ASSUME NEW n \in TxId, Abs!Begin(n) \/ Abs!Edit(n) \/ Abs!Commit(n) \/ Abs!Abort(n)
      PROVE  Abs!Next
  BY <1>n DEF Abs!Next, Abs!TxId, TxId
<1>a. \A t \in Thread : Owns(t) => tls[t] \in TxId
  BY Basics DEF Inv
<1>u. CASE UNCHANGED vars
  BY <1>u DEF vars, session, profiles, Abs!vars, AbsStore, AbsStatus, AbsClaim, AbsDraft,
              Committing, Claimed, View, Held, Blocks, Live, Newest
<1>l. CASE \E l \in Level : SetIsolation(l)
  BY <1>l DEF SetIsolation, session, profiles, Abs!vars, AbsStore, AbsStatus, AbsClaim,
              AbsDraft, Committing, Claimed, View, Held, Blocks, Live, Newest
<1>t. ASSUME NEW t \in Thread, Request(t) \/ Step(t)
      PROVE  Abs!Next \/ UNCHANGED Abs!vars
  <2>1. CASE Begin(t)
    <3>1. next_uid + 1 \in TxId
      BY <2>1 DEF Begin, Inv, TypeOK, TxId
    <3> QED
      BY <1>n, <2>1, <3>1, BeginStep
  <2>2. CASE Quiet(t)
    <3>1. /\ UNCHANGED <<base, state>>
          /\ \A n \in TxId : /\ Claimed(n)' = Claimed(n)
                             /\ \A a \in Claimed(n) : View(n, a)' = View(n, a)
      BY <2>2, QuietSteps, ExposureMapped
    <3>2. AbsStatus' = AbsStatus
      BY <3>1 DEF AbsStatus
    <3> QED
      BY <3>1, <3>2, MappingKept
  <2>e. ASSUME Owns(t), state[tls[t]] \in {"active", "aborting"},
               UNCHANGED <<base, state, tls>>
        PROVE  Abs!Next
    BY <1>a, <1>n, <1>t, <2>e, EditSteps
  <2>3. ASSUME NEW b \in Blocks, NEW a \in range[b], Store(t, b, a)
        PROVE  Abs!Next
    BY <2>3, <2>e DEF Store, Idle, session, Inv, Life, Phases
  <2>4. CASE Expose(t)
    <3>1. Owns(t)
      BY <2>4 DEF Expose, Inv, Ownership
    <3> QED
      BY <2>4, <2>e, <3>1 DEF Expose, Inv, Life, Phases
  <2>5. CASE UndoBlock(t)
    <3>1. Owns(t)
      BY <2>5 DEF UndoBlock, Inv, Ownership
    <3> QED
      BY <2>5, <2>e, <3>1 DEF UndoBlock, Inv, Life, Phases
  <2>6. CASE ReleaseBlock(t)
    <3>1. Owns(t) /\ state[tls[t]] \in {"committing", "aborting"}
      BY <2>6 DEF ReleaseBlock, Inv, Ownership, Life, Phases
    <3>2. CASE state[tls[t]] = "committing"
      BY <2>6, <3>2, ReleaseStutters
    <3>3. CASE state[tls[t]] = "aborting"
      BY <2>6, <2>e, <3>1, <3>3 DEF ReleaseBlock, session
    <3> QED
      BY <3>1, <3>2, <3>3
  <2>7. CASE ApplyBlock(t)
    BY <2>7, ApplyStutters
  <2>8. CASE Commit(t)
    BY <1>a, <1>n, <2>8, CommitStep DEF Commit
  <2>9. CASE Rollback(t)
    BY <2>9, RollbackStutters
  <2>10. CASE Close(t)
    <3>1. tls[t] \in TxId
      BY <1>a, <2>10 DEF Close, Inv, Ownership
    <3> QED
      BY <1>n, <2>10, <3>1, CloseStep
  <2>11. \/ Begin(t) \/ Quiet(t) \/ Expose(t) \/ UndoBlock(t) \/ ReleaseBlock(t)
         \/ ApplyBlock(t) \/ Commit(t) \/ Rollback(t) \/ Close(t)
         \/ \E b \in Blocks : \E a \in range[b] : Store(t, b, a)
    BY <1>t DEF Request, Step, Quiet
  <2> QED
    BY <2>1, <2>2, <2>3, <2>4, <2>5, <2>6, <2>7, <2>8, <2>9, <2>10, <2>11
<1> QED
  BY <1>u, <1>l, <1>t DEF Next

\* The file changes by whole transactions only, each in one step and only where the
\* transaction had claimed the addresses while nobody else could.
THEOREM CommitsAreAtomic == Spec => AtomicCommit
<1>1. Init => Abs!Init
  BY InitMapped
<1>2. Inv /\ Inv' /\ CommitInstalls /\ [Next]_vars => [Abs!Next]_(Abs!vars)
  BY StepMapped
<1> QED
  BY <1>1, <1>2, Invariant, CommitsInstallNewest, PTL DEF Spec, AtomicCommit, Abs!Spec

=============================================================================
