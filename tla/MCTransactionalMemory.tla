------------------------ MODULE MCTransactionalMemory ------------------------
(* TransactionalMemory on small instances. *)
EXTENDS TransactionalMemory, TLC

MCAddr == {1, 2}
OverlappingRegions == {{1}, {1, 2}}
WholeRegion == {{1, 2}}
ThreadSymmetry == Permutations(Thread)
=============================================================================
