----------------------------- MODULE FileBlocks -----------------------------
(***************************************************************************)
(* What a file holds, buffer by buffer, when io.Copy writes it in place:   *)
(* copyFile is not alone on a file that another copyFile has open, or has  *)
(* truncated since.                                                        *)
(***************************************************************************)
EXTENDS Integers, Sequences

CONSTANT None

\* A hole that a write past the end of a truncated file leaves.
Hole == <<None, 0>>

\* What a file holds once x has written the first n buffers of its data to it.
FirstBlocks(x, n) == [i \in 1 .. n |-> <<x, i>>]

\* Block v written at place i of a file.
Overwrite(c, i, v) ==
    [j \in 1 .. (IF i > Len(c) THEN i ELSE Len(c)) |->
        IF j = i THEN v ELSE IF j <= Len(c) THEN c[j] ELSE Hole]
=============================================================================
