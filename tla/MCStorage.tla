------------------------------- MODULE MCStorage -------------------------------
(***************************************************************************)
(* The files of the system for TLC: the slots of a segmented file; the     *)
(* append-only log; the skip list on top of a log.  They share nothing: a  *)
(* behaviour is one of them, chosen at the start.                          *)
(* Blocks of 32, 48 and 64 bytes, which share a free list, and one that    *)
(* only a segment behind the first has room for.                           *)
(***************************************************************************)
EXTENDS Storage, SkipList

CONSTANT Parts  \* the files that are checked

VARIABLE part   \* the one that moves

MCHash == [k \in Key |-> IF k = "b" THEN 1 ELSE 0]

filesVars == <<part, vars, logVars, skipVars>>

FilesInit == part \in Parts /\ Init /\ LogInit /\ SkipInit

FilesNext ==
  /\ UNCHANGED part
  /\ \/ part = "slots" /\ Next /\ UNCHANGED <<logVars, skipVars>>
     \/ part = "log" /\ LogNext /\ UNCHANGED <<vars, skipVars>>
     \/ part = "skip" /\ SkipNext /\ UNCHANGED vars

\* At the start nobody is inside a call of the skip list, so the other files
\* ask nothing of its fairness.
FilesSpec == FilesInit /\ [][FilesNext]_filesVars /\ SkipFairness
==============================================================================
