----------------------------- MODULE MCDownload -----------------------------
(* Download on small instances, for TLC. *)
EXTENDS Download

CONSTANTS Values,   \* byte values used in bodies
          Lengths   \* body lengths

\* Bodies whose bytes never decrease: enough to tell every two places of a body
\* apart in some body, and every body when there is one value.
MCBody == {x \in UNION {[1 .. n -> Values] : n \in Lengths} :
              \A i, j \in DOMAIN x : i < j => x[i] <= x[j]}
=============================================================================
