--------------------------- MODULE AccountingInv ----------------------------
(***************************************************************************)
(* When the promises of Accounting hold, and the invariants behind them:   *)
(* what is true of a request half way through when nothing else is under   *)
(* way.                                                                    *)
(***************************************************************************)
EXTENDS Accounting, ObjectStoreInv

-----------------------------------------------------------------------------
(* Circumstances *)

\* No two requests are under way at one time.
OneAtATime ==
    \A v, w \in Worker : pc[v] # "idle" /\ pc[w] # "idle" => v = w

\* No call has failed so far.
NoneFailed == faults = 0

\* No call has failed and no request was lost so far.
Unharmed == faults = 0 /\ crashes = 0

\* CleanupExpiredObjects, which touches neither the disk nor a bucket's
\* counters, is not running.
Unswept == \A w \in Worker : pc[w] # "clean"

-----------------------------------------------------------------------------
(* Whatever requests race and whatever fails *)

\* A file was accepted by PutObject, and a bucket about to be inserted is as
\* CreateBucket built it.
BuiltOK ==
    /\ \A f \in File : files[f].state # "unused" =>
        files[f].key \in Key /\ files[f].size \in 1 .. MaxFileSize
    /\ \A w \in Worker : pc[w] = "mkInsert" =>
        \E n \in Name, m \in Quota : snap[w] = NewBucket(n, m)

-----------------------------------------------------------------------------
(* One request at a time, whatever fails *)

\* What a request under way holds is still so: the row it read is the row
\* there is, and the version it chose is the newest.
HoldingOK(w) ==
    /\ pc[w] \in {"putBody", "putWrite", "putChunk", "delBucket", "delCount", "verWrite"} =>
        LiveBucket(at[w])
    /\ pc[w] \in {"putBody", "putWrite", "putChunk", "delCount"} =>
        snap[w] = buckets[at[w]]
    /\ pc[w] = "putWrite" =>
        files[obj[w]].bucket = at[w] /\ files[obj[w]].created = clock
    /\ pc[w] = "getList" => Inserted(obj[w])
    /\ pc[w] \in {"delList", "delDisk"} => obj[w] \in Latest(at[w], files[obj[w]].key)
    /\ pc[w] = "rmRow" => BucketEmpty(at[w])
    /\ pc[w] = "verWrite" =>
        \E v \in Versioning : snap[w] = [buckets[at[w]] EXCEPT !.versioning = v]

\* Only live buckets hold live versions.
BucketsOK == \A b \in Bucket : ~LiveBucket(b) => BucketEmpty(b)

SerialInv == StampsOK /\ BucketsOK /\ \A w \in Worker : HoldingOK(w)

-----------------------------------------------------------------------------
(* One request at a time, and no call has failed *)

\* The name of a bucket about to be inserted is free.
NamesInv ==
    /\ LiveNamesUnique
    /\ \A w \in Worker : pc[w] = "mkInsert" => ~NameTaken(snap[w].name)

-----------------------------------------------------------------------------
(* One request at a time, no call has failed and none was lost *)

\* Each row has all its chunk rows, unless its PutObject is adding them.
RowsInv ==
    \A f \in File : Inserted(f) =>
        \/ chunkRows[f] = ShardsOfFile(f)
        \/ \E w \in Worker : pc[w] = "putChunk" /\ obj[w] = f

-----------------------------------------------------------------------------
(* And nothing is swept *)

\* Bucket b's row counts this many bytes and versions too few or too many.
Counts(b, bytes, n) ==
    /\ StoredBytes(b) = buckets[b].cur + bytes
    /\ Cardinality(FilesOf(b)) = buckets[b].count + n

Counting == {"putChunk", "delBucket", "delCount"}

\* A bucket's counters are exact but for the request that is about to write
\* them.
CountInv ==
    /\ \A b \in Bucket :
        /\ IsFiniteSet(FilesOf(b))
        /\ IsFiniteSet(BytesOf(b))
        /\ LiveBucket(b) =>
            \/ Counts(b, 0, 0)
            \/ \E w \in Worker : pc[w] \in Counting /\ at[w] = b
    /\ \A w \in Worker :
        /\ pc[w] = "putChunk" => Counts(at[w], files[obj[w]].size, 1)
        /\ pc[w] \in {"delBucket", "delCount"} => Counts(at[w], -files[obj[w]].size, -1)
        /\ pc[w] = "mkInsert" => snap[w].cur = 0 /\ snap[w].count = 0

\* The shards of f on disk.
OnDisk(f) == {s \in Shard : <<f, s>> \in disk}

\* The disk holds what the live versions need but for the request that is
\* storing or removing shards.
DiskInv ==
    /\ \A f \in File :
        \/ OnDisk(f) = (IF LiveFile(f) THEN ShardsOfFile(f) ELSE {})
        \/ \E w \in Worker : pc[w] \in {"putWrite", "delDisk"} /\ obj[w] = f
    /\ \A w \in Worker :
        /\ pc[w] = "putWrite" => OnDisk(obj[w]) = ShardsOfFile(obj[w]) \ todo[w]
        /\ pc[w] = "delDisk" => OnDisk(obj[w]) = todo[w]
=============================================================================
