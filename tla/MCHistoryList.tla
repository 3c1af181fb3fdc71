--------------------------- MODULE MCHistoryList ---------------------------
(* HistoryList on a small instance. *)
EXTENDS HistoryList

CONSTANTS t1, t2

\* The two threads are in conflict or hold blocks at once, as t2 chooses.
MCThread == {t1, t2}
MCAsks == [t \in MCThread |-> IF t = t1 THEN {[pos |-> 3, right |-> 5]}
                              ELSE {[pos |-> 4, right |-> 5], [pos |-> 5, right |-> 6]}]
=============================================================================
