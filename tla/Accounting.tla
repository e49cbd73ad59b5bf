----------------------------- MODULE Accounting -----------------------------
(***************************************************************************)
(* What the service promises about buckets, quotas and versions.  Nothing  *)
(* locks a bucket or a key, so these hold when requests come one at a time *)
(* and no call fails; the runs with two workers show which of them a race  *)
(* breaks.                                                                 *)
(***************************************************************************)
EXTENDS ObjectStore

FilesOf(b) == {f \in File : LiveFile(f) /\ files[f].bucket = b}

\* The bytes of the live versions of a bucket: byte i of version f is <<f, i>>.
BytesOf(b) == UNION {{f} \X (1 .. files[f].size) : f \in FilesOf(b)}

StoredBytes(b) == Cardinality(BytesOf(b))

\* No request is under way.
Quiet == \A w \in Worker : pc[w] = "idle"

\* Between requests, current_size_bytes and object_count of a live bucket are
\* the total size and the number of its live versions (PutObject adds to
\* them, DeleteObject subtracts).
CountersExact ==
    Quiet => \A b \in Bucket : LiveBucket(b) =>
                /\ buckets[b].cur = StoredBytes(b)
                /\ buckets[b].count = Cardinality(FilesOf(b))

\* The live versions of a bucket fit its limit: PutObject answers
\* STORAGE_QUOTA_EXCEEDED to an upload that would not.
StoredWithinQuota ==
    \A b \in Bucket : LiveBucket(b) /\ buckets[b].max > 0 =>
        StoredBytes(b) <= buckets[b].max

\* Two live buckets never have one name: CreateBucket answers "already
\* exists".
LiveNamesUnique ==
    \A b, c \in Bucket :
        LiveBucket(b) /\ LiveBucket(c) /\ buckets[b].name = buckets[c].name => b = c

\* A deleted bucket holds no live object: DeleteBucket answers "bucket not
\* empty" when it does.
DeletedBucketEmpty ==
    \A b \in Bucket : buckets[b].state = "deleted" => BucketEmpty(b)

\* Only UpdateBucketVersioning changes a bucket's versioning: after "versioning
\* updated" the setting stays until the next such request, whatever uploads
\* and deletes write the row in between.
VersioningSticks ==
    [][\A b \in Bucket :
        LiveBucket(b) /\ buckets'[b].versioning # buckets[b].versioning =>
            \E w \in Worker : pc[w] = "verWrite" /\ pc'[w] = "idle"]_vars

\* The versions of a key are a stack: an upload lays a newer one on top, and a
\* DeleteObject, whatever the bucket's versioning, takes off the top and
\* uncovers the version before; nothing removes or replaces one further down.
VersionsStack ==
    [][\A b \in Bucket, k \in Key :
        LET before == Versions(b, k)
            after == Versions(b, k)'
        IN after # before =>
            \E f \in File :
                \/ /\ after = before \cup {f}
                   /\ \A g \in before : files[g].created < files'[f].created
                \/ /\ before = after \cup {f}
                   /\ \A g \in after : files[g].created < files[f].created]_vars

\* Every download decodes all the shards of its version: it never starts to
\* read while only some of the file_chunks rows are there.
WholeReads ==
    [][\A w \in Worker :
        pc[w] = "getList" /\ pc'[w] = "getRead" =>
            todo'[w] = ShardsOfFile(obj[w])]_vars

\* Between requests the disk holds the shards of the live versions and
\* nothing else: a refused or deleted upload leaves no bytes behind.
NoOrphanShards ==
    Quiet => disk = {p \in File \X Shard :
                        LiveFile(p[1]) /\ p[2] \in ShardsOfFile(p[1])}

-----------------------------------------------------------------------------
(* All of it at once: an abstract store *)

\* What a client sees of a bucket's row, and of a version's.
ShelfRow(b) ==
    [state      |-> buckets[b].state,
     name       |-> buckets[b].name,
     versioning |-> buckets[b].versioning,
     max        |-> buckets[b].max]

VersionOf(f) ==
    [id     |-> f,
     bucket |-> files[f].bucket,
     key    |-> files[f].key,
     size   |-> files[f].size,
     rank   |-> files[f].created]

ShelfNow == [b \in Bucket |-> ShelfRow(b)]

HeldNow == {VersionOf(f) : f \in {g \in File : LiveFile(g)}}

\* The service seen as a store without requests.  A request takes effect when
\* it writes its row: INSERT and UPDATE of files and buckets.
Atomic == INSTANCE AtomicStore WITH
    Id      <- File,
    MaxSize <- MaxFileSize,
    shelf   <- ShelfNow,
    held    <- HeldNow

\* Requests take effect at one moment or not at all: an upload goes on top of
\* its key's versions in a live bucket with room for all its bytes, a delete
\* takes the top one away, a bucket is created under a free name, and removed
\* only when it holds nothing; every other step leaves what clients see alone.
ServesAtomically == Atomic!ASpec
=============================================================================
