--------------------------- MODULE MCObjectStore ----------------------------
(* ObjectStore on small instances, for TLC. *)
EXTENDS AccountingInv, TLC

CONSTANTS w1, w2, f1, f2, f3, b1, b2

\* Workers and file ids are interchangeable: no definition tells two apart.
WorkerFileSymmetry == Permutations(Worker) \cup Permutations(File)
FileSymmetry == Permutations(File)
=============================================================================
