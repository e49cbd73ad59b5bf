---------------------------- MODULE ObjectStore -----------------------------
(***************************************************************************)
(* The storage service: FileService and BucketService requests of several  *)
(* workers over one database and one disk.                                 *)
(***************************************************************************)
EXTENDS FileService, BucketService

CONSTANT Existing   \* buckets that are there when the server starts

ASSUME ExistingAssumption == Existing \subseteq Bucket

vars == <<buckets, files, chunkRows, disk, clock, acked, picked, refunds,
          pc, at, obj, todo, snap, faults, crashes>>

\* The tables as earlier CreateBucket calls left them, with distinct names.
Init ==
    /\ \E nm \in [Existing -> Name], mx \in [Existing -> Quota] :
        /\ \A b, c \in Existing : nm[b] = nm[c] => b = c
        /\ buckets = [b \in Bucket |-> IF b \in Existing
                                       THEN NewBucket(nm[b], mx[b])
                                       ELSE AbsentBucket]
    /\ files = [f \in File |-> UnusedFile]
    /\ chunkRows = [f \in File |-> {}]
    /\ disk = {}
    /\ clock = 0
    /\ acked = {}
    /\ picked = {}
    /\ refunds = [f \in File |-> 0]
    /\ RequestInit

\* What BucketService and a crash leave alone.
NoFileChange == UNCHANGED <<files, chunkRows, disk, clock, history>>

\* Requests that change nothing: GetBucket, ListBuckets, ListObjects, and any
\* request for a bucket or an object that is not there.
ReadOnly(w) == pc[w] = "idle" /\ UNCHANGED vars

\* A client's request reaches an idle worker.
Begin(w) == FileBegin(w) \/ (BucketBegin(w) /\ NoFileChange)

\* A worker carries on with the request it is serving.
Step(w) == FileStep(w) \/ (BucketStep(w) /\ NoFileChange)

Lost(w) == Crash(w) /\ UNCHANGED buckets /\ NoFileChange

Next ==
    \/ \E w \in Worker : Begin(w) \/ Step(w) \/ Lost(w) \/ ReadOnly(w)
    \/ \E f \in File : Expire(f)

Spec == Init /\ [][Next]_vars

\* A goroutine that is serving a request keeps running; clients need not send
\* requests, and neither faults nor crashes are promised.
FairSpec == Spec /\ \A w \in Worker : WF_vars(Step(w))

-----------------------------------------------------------------------------
(* Type invariant *)

HasBucket == {"putBody", "putWrite", "putChunk", "getList", "getRead", "delList",
              "delDisk", "delBucket", "delCount", "rmCount", "rmRow", "verWrite"}
HasFile == {"putWrite", "putChunk", "getList", "getRead",
            "delList", "delDisk", "delBucket", "delCount"}
HasSnap == {"putBody", "putWrite", "putChunk", "delCount", "mkInsert", "verWrite"}

StoreTypeOK ==
    /\ buckets \in [Bucket -> BucketRow]
    /\ files \in [File -> FileRow]
    /\ chunkRows \in [File -> SUBSET Shard]
    /\ disk \subseteq File \X Shard
    /\ clock \in Nat
    /\ acked \subseteq File
    /\ picked \subseteq File
    /\ refunds \in [File -> Nat]

LocalTypeOK ==
    /\ pc \in [Worker -> Label]
    /\ at \in [Worker -> Bucket \cup {None}]
    /\ obj \in [Worker -> File \cup {None}]
    /\ todo \in [Worker -> SUBSET (Shard \cup File)]
    /\ snap \in [Worker -> BucketRow \cup {None}]
    /\ \A w \in Worker :
        /\ pc[w] \in HasBucket => at[w] \in Bucket
        /\ pc[w] \in HasFile => obj[w] \in File
        /\ pc[w] \in HasSnap => snap[w] \in BucketRow
        /\ IF pc[w] = "clean" THEN todo[w] \subseteq File ELSE todo[w] \subseteq Shard

\* Every variable has its type, and a request that uses a local variable has
\* given it a value: no step of a service method dereferences nil.
TypeOK ==
    /\ StoreTypeOK
    /\ LocalTypeOK
    /\ faults \in Nat
    /\ crashes \in Nat

-----------------------------------------------------------------------------
(* Properties of concurrent requests, with faults and crashes *)

\* PutObject stores every chunk before it inserts the row, and only
\* DeleteObject removes chunks: a version that has a row, and that no
\* DeleteObject has chosen, has all its shards on disk, whatever other
\* requests, failed calls and crashes there were.  So a download fails on a
\* missing chunk only when it races (or follows) a delete of that version.
DurableBeforeVisible ==
    \A f \in File :
        Inserted(f) /\ f \notin picked =>
            \A s \in ShardsOfFile(f) : <<f, s>> \in disk

\* As long as no call has failed, an upload that was acknowledged has its row
\* and a file_chunks row for every shard, even when other requests died or
\* deleted it half way: PutObject only warns when it cannot record a chunk,
\* so nothing else stands between an acknowledgement and a partial object.
AckedIsComplete ==
    faults = 0 =>
        \A f \in acked : Inserted(f) /\ chunkRows[f] = ShardsOfFile(f)

\* The usage a bucket records never exceeds its limit, although every PutObject
\* checks the limit against a copy of the row that may be stale, and every
\* Update writes back a stale copy: each copy was within the limit by itself.
RecordedWithinQuota ==
    \A b \in Bucket : buckets[b].max > 0 => buckets[b].cur <= buckets[b].max

\* However many DeleteObject and CleanupExpiredObjects calls race for one
\* version, its size is subtracted from the bucket at most once, and only when
\* its row is deleted: SoftDelete's affected-rows check picks one winner.
RefundedOnce ==
    \A f \in File :
        refunds[f] <= 1 /\ (refunds[f] = 1 => files[f].state = "deleted")

\* A deleted bucket stays deleted and its row is never written again, even by
\* requests that read the row while the bucket was live.
DeletedBucketFrozen ==
    [][\A b \in Bucket :
        buckets[b].state = "deleted" => buckets'[b] = buckets[b]]_vars

\* Every request is answered: no interleaving, failed call or missing chunk
\* leaves a request waiting for ever.
RequestsAnswered == \A w \in Worker : pc[w] # "idle" ~> pc[w] = "idle"
=============================================================================
