---------------------------- MODULE MCMultipart -----------------------------
(* Multipart on small instances, for TLC. *)
EXTENDS Multipart, TLC

\* Bodies of two buffers; the ones of more than one tell the order of writes.
MCSize == [b \in Body |-> 2]

\* Lists of at most two entries: nothing, one part, both parts in either order.
MCLists == {<<>>} \cup {<<<<1, b>>>> : b \in Body}
           \cup {<<<<p, b>>, <<3 - p, c>>>> : p \in Part, b \in Body, c \in Body}

\* Workers, uploads and bodies are interchangeable.
MultipartSymmetry ==
    Permutations(Worker) \cup Permutations(Upload) \cup Permutations(Body)
=============================================================================
