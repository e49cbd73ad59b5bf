---------------------------- MODULE MCRangeRead -----------------------------
(* RangeRead, with the inductive invariant of its store, for TLC. *)
EXTENDS RangeRead, ObjectStoreInv, TLC

\* Workers and file ids are interchangeable: no definition tells two apart.
WorkerFileSymmetry == Permutations(Worker) \cup Permutations(File)
=============================================================================
