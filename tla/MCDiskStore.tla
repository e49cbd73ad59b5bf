---------------------------- MODULE MCDiskStore -----------------------------
(* DiskStore on small instances, for TLC. *)
EXTENDS DiskStore

CONSTANTS w1, w2, r1, r2

\* One Write of a single buffer, one of two.
MCBlocks == [w \in Writer |-> IF w = w1 THEN 1 ELSE 2]
=============================================================================
