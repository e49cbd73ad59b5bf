--------------------------- MODULE ObjectStoreInv ---------------------------
(***************************************************************************)
(* The inductive invariant behind ObjectStore's safety properties: what is *)
(* true of a request half way through.                                     *)
(***************************************************************************)
EXTENDS ObjectStore

\* A PutObject that is still writing chunks owns its file id: nothing else
\* names the file, and the chunks it is past are on disk.
WritingOK ==
    \A w \in Worker : pc[w] = "putWrite" =>
        /\ files[obj[w]].state = "building"
        /\ todo[w] \subseteq ShardsOfFile(obj[w])
        /\ \A s \in ShardsOfFile(obj[w]) \ todo[w] : <<obj[w], s>> \in disk
        /\ \A v \in Worker : pc[v] = "putWrite" /\ obj[v] = obj[w] => v = w

\* A file that DeleteObject works on was chosen, and only rows are chosen.
DeletingOK ==
    /\ \A w \in Worker : pc[w] \in {"delList", "delDisk"} => obj[w] \in picked
    /\ \A f \in picked : Inserted(f)

\* While PutObject records chunks the row is there, and until a call fails
\* each shard is recorded or still to be.
RecordingOK ==
    /\ \A w \in Worker : pc[w] = "putChunk" =>
        /\ Inserted(obj[w])
        /\ todo[w] \subseteq ShardsOfFile(obj[w])
        /\ faults = 0 => ShardsOfFile(obj[w]) \subseteq chunkRows[obj[w]] \cup todo[w]
    /\ \A f \in File :
        IF Inserted(f) THEN chunkRows[f] \subseteq ShardsOfFile(f)
        ELSE chunkRows[f] = {}
    /\ \A f \in acked : Inserted(f)

\* No two files that were built have one stamp, and none is from the future.
StampsOK ==
    \A f \in File : files[f].state # "unused" =>
        /\ files[f].created <= clock
        /\ \A g \in File : files[g].state # "unused" /\ g # f =>
            files[g].created # files[f].created

WithinLimit(row) == row.max > 0 => row.cur <= row.max

\* Every copy of a bucket row is within its limit, and stays so when the
\* object being stored is added.
SnapshotsOK ==
    \A w \in Worker :
        /\ pc[w] \in HasSnap => WithinLimit(snap[w])
        /\ pc[w] \in {"putWrite", "putChunk"} =>
            WithinLimit(Charged(snap[w], files[obj[w]].size))

\* The parts that are about files and their chunks.
FileInv ==
    /\ WritingOK
    /\ DeletingOK
    /\ RecordingOK
    /\ DurableBeforeVisible
    /\ AckedIsComplete
    /\ RefundedOnce

\* The parts that are about the counters of buckets.
QuotaInv == SnapshotsOK /\ RecordedWithinQuota

\* The inductive invariant: true of every reachable state, kept by every step.
IndInv == TypeOK /\ FileInv /\ QuotaInv
=============================================================================
