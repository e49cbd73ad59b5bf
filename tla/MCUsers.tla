------------------------------ MODULE MCUsers -------------------------------
(* Users on small instances, for TLC. *)
EXTENDS Users, TLC

CONSTANTS c1, c2, r1, r2, u0, u1, u2

\* Clients, replicas and the ids CreateUser draws are interchangeable.
ClientReplicaIdSymmetry ==
    Permutations(Client) \cup Permutations(Replica) \cup Permutations(UserId \ {Admin})
=============================================================================
