---------------------------- MODULE FileService -----------------------------
(***************************************************************************)
(* core.FileService: PutObject, GetObject, DeleteObject and                *)
(* CleanupExpiredObjects, one action per call to the database or the disk. *)
(* Hashing, metrics, audit entries and the single-store Replicate (which   *)
(* only makes a directory) change none of this state and belong to the     *)
(* action before them.                                                     *)
(***************************************************************************)
EXTENDS Request

CONSTANTS Size,         \* body lengths clients send
          MaxFileSize,  \* cfg.Storage.MaxFileSize
          Expiry,       \* "never" (ttl = nil) and/or "pending" (a ttl is given)
          CleanupLimit  \* the most files one sweep deletes (1000)

ASSUME FileAssumption ==
    /\ Size \subseteq Nat
    /\ MaxFileSize \in Int
    /\ CleanupLimit \in Nat
    /\ Expiry \subseteq {"never", "pending"}

VARIABLES disk,      \* the pairs <<f, s>> with objects/<bucket>/<f>/<s> on disk
          clock,     \* number of created_at stamps taken
          acked,     \* history: files whose PutObject returned without error
          picked,    \* history: files some DeleteObject chose to delete
          refunds    \* history: times a DeleteObject subtracted the file

history == <<acked, picked, refunds>>
store == <<buckets, files, chunkRows, disk, clock>>

\* Bound: a file id is left for every PutObject reading its body.
FileIdsLeft ==
    Cardinality({f \in File : files[f].state = "unused"}) >
        Cardinality({w \in Worker : pc[w] = "putBody"})

ShardsOfFile(f) == ShardsOf(files[f].size)

-----------------------------------------------------------------------------
(* PutObject *)

\* The bucket row is read; it stays in snap until the counters are written.
PutBegin(w, b) ==
    /\ "put" \in Ops /\ pc[w] = "idle" /\ FileIdsLeft
    /\ LiveBucket(b)
    /\ Enter(w, "putBody", b, None, {}, buckets[b])
    /\ NoFault
    /\ UNCHANGED <<store, history>>

(* Mutated form of OverQuota: the new bytes are not counted. *)
OverQuotaBefore(row, n) == row.max > 0 /\ row.cur > row.max

\* The quota is checked against the copy of the row, not the row.
OverQuota(row, n) == row.max > 0 /\ row.cur + n > row.max

Refused(row, n) == n > MaxFileSize \/ OverQuota(row, n) \/ CannotEncode(n)

\* The whole body has been read and is too large, over quota or empty.
PutRefuse(w) ==
    /\ pc[w] = "putBody"
    /\ \E n \in Size : Refused(snap[w], n)
    /\ NoFault
    /\ Return(w)
    /\ UNCHANGED <<store, history>>

\* The body cannot be read to its end.
PutBodyError(w) ==
    /\ pc[w] = "putBody"
    /\ Fault
    /\ Return(w)
    /\ UNCHANGED <<store, history>>

\* The body is accepted, split and encoded; created_at and the file id are
\* taken here, before anything is stored.
PutPrepare(w) ==
    /\ pc[w] = "putBody"
    /\ \E f \in File, k \in Key, n \in Size, x \in Expiry :
        /\ ~Refused(snap[w], n)
        /\ files[f].state = "unused"
        /\ files' = [files EXCEPT ![f] =
                [state |-> "building", bucket |-> at[w], key |-> k, size |-> n,
                 created |-> clock + 1, expiry |-> x]]
        /\ Enter(w, "putWrite", at[w], f, ShardsOf(n), snap[w])
    /\ clock' = clock + 1
    /\ NoFault
    /\ UNCHANGED <<buckets, chunkRows, disk, history>>

\* diskStore.Write of the next chunk.
PutWrite(w) ==
    /\ pc[w] = "putWrite"
    /\ \E s \in NextShard(w) :
        /\ disk' = disk \cup {<<obj[w], s>>}
        /\ Ticked(w, s)
    /\ NoFault
    /\ UNCHANGED <<buckets, files, chunkRows, clock, history>>

\* A failed write ends the request; the chunks already written stay, and the
\* one being written is there too when only its last fsync failed.
PutWriteError(w) ==
    /\ pc[w] = "putWrite" /\ todo[w] # {}
    /\ \/ UNCHANGED disk
       \/ \E s \in NextShard(w) : disk' = disk \cup {<<obj[w], s>>}
    /\ Fault
    /\ Return(w)
    /\ UNCHANGED <<buckets, files, chunkRows, clock, history>>

(* Mutated form of AllWritten: the row is inserted before the last write. *)
AlmostWritten(w) == pc[w] = "putWrite" /\ Cardinality(todo[w]) <= 1

AllWritten(w) == pc[w] = "putWrite" /\ todo[w] = {}

PutRow(w) ==
    /\ AllWritten(w)
    /\ InsertFile(obj[w])
    /\ Enter(w, "putChunk", at[w], obj[w], ShardsOfFile(obj[w]), snap[w])
    /\ NoFault
    /\ UNCHANGED <<buckets, chunkRows, disk, clock, history>>

\* The INSERT returns an error, before or after it took effect.
PutRowError(w) ==
    /\ AllWritten(w)
    /\ UNCHANGED files \/ InsertFile(obj[w])
    /\ Fault
    /\ Return(w)
    /\ UNCHANGED <<buckets, chunkRows, disk, clock, history>>

PutChunk(w) ==
    /\ pc[w] = "putChunk"
    /\ \E s \in NextShard(w) :
        /\ CreateChunk(obj[w], s)
        /\ Ticked(w, s)
    /\ NoFault
    /\ UNCHANGED <<buckets, files, disk, clock, history>>

\* "failed to save chunk record", before or after the INSERT took effect, is a
\* warning: the loop goes on.
PutChunkError(w) ==
    /\ pc[w] = "putChunk"
    /\ \E s \in NextShard(w) :
        /\ UNCHANGED chunkRows \/ CreateChunk(obj[w], s)
        /\ Ticked(w, s)
    /\ Fault
    /\ UNCHANGED <<buckets, files, disk, clock, history>>

(* Mutated form of Charged: the versioning setting is reset. *)
ChargedFresh(row, n) ==
    [row EXCEPT !.cur = @ + n, !.count = @ + 1, !.versioning = "disabled"]

\* The row the counters are written from: the copy read at the start, plus
\* this object.
Charged(row, n) == [row EXCEPT !.cur = @ + n, !.count = @ + 1]

(* Mutated form of ChunksDone: the loop is left one chunk too early. *)
ChunksAlmostDone(w) == pc[w] = "putChunk" /\ Cardinality(todo[w]) <= 1

ChunksDone(w) == pc[w] = "putChunk" /\ todo[w] = {}

(* Mutated form of PutCount: the counters are not written. *)
PutWithoutCount(w) ==
    /\ ChunksDone(w)
    /\ acked' = acked \cup {obj[w]}
    /\ NoFault
    /\ Return(w)
    /\ UNCHANGED <<store, picked, refunds>>

PutCount(w) ==
    /\ ChunksDone(w)
    /\ UpdateBucket(at[w], Charged(snap[w], files[obj[w]].size))
    /\ acked' = acked \cup {obj[w]}
    /\ NoFault
    /\ Return(w)
    /\ UNCHANGED <<files, chunkRows, disk, clock, picked, refunds>>

\* The error of Update, before or after it took effect, is ignored: the client
\* is told the object is stored.
PutCountError(w) ==
    /\ ChunksDone(w)
    /\ \/ UNCHANGED buckets
       \/ UpdateBucket(at[w], Charged(snap[w], files[obj[w]].size))
    /\ acked' = acked \cup {obj[w]}
    /\ Fault
    /\ Return(w)
    /\ UNCHANGED <<files, chunkRows, disk, clock, picked, refunds>>

-----------------------------------------------------------------------------
(* GetObject: the body is decoded from the shards the rows name. *)

\* The version whose id is asked for; the newest one when none is.
GetBegin(w) ==
    /\ "get" \in Ops /\ pc[w] = "idle"
    /\ \E b \in Bucket, k \in Key : \E f \in Versions(b, k) :
        /\ files[f].expiry # "passed"
        /\ Enter(w, "getList", b, f, {}, None)
    /\ NoFault
    /\ UNCHANGED <<store, history>>

GetList(w) ==
    /\ pc[w] = "getList"
    /\ chunkRows[obj[w]] # {}
    /\ Enter(w, "getRead", at[w], obj[w], chunkRows[obj[w]], None)
    /\ NoFault
    /\ UNCHANGED <<store, history>>

\* No chunk rows, or they cannot be listed: NotFound("file chunks").
GetNoChunks(w) ==
    /\ pc[w] = "getList"
    /\ \/ chunkRows[obj[w]] = {} /\ NoFault
       \/ Fault
    /\ Return(w)
    /\ UNCHANGED <<store, history>>

GetRead(w) ==
    /\ pc[w] = "getRead"
    /\ \E s \in NextShard(w) : <<obj[w], s>> \in disk /\ Ticked(w, s)
    /\ NoFault
    /\ UNCHANGED <<store, history>>

\* "failed to read chunk": one shard that is gone, or unreadable, fails the
\* request whatever the parity.
GetReadError(w) ==
    /\ pc[w] = "getRead" /\ todo[w] # {}
    /\ \/ (\E s \in NextShard(w) : <<obj[w], s>> \notin disk) /\ NoFault
       \/ Fault
    /\ Return(w)
    /\ UNCHANGED <<store, history>>

GetReply(w) ==
    /\ pc[w] = "getRead" /\ todo[w] = {}
    /\ NoFault
    /\ Return(w)
    /\ UNCHANGED <<store, history>>

\* GetObjectRange looks its file up again once the data is there, and ignores
\* that this fails.
GetAgainError(w) ==
    /\ pc[w] = "getRead" /\ todo[w] = {}
    /\ Fault
    /\ Return(w)
    /\ UNCHANGED <<store, history>>

-----------------------------------------------------------------------------
(* DeleteObject *)

\* The newest version is chosen once, at the start.
DeleteBegin(w) ==
    /\ "delete" \in Ops /\ pc[w] = "idle"
    /\ \E b \in Bucket, k \in Key : \E f \in Latest(b, k) :
        /\ Enter(w, "delList", b, f, {}, None)
        /\ picked' = picked \cup {f}
    /\ NoFault
    /\ UNCHANGED <<store, acked, refunds>>

DeleteList(w) ==
    /\ pc[w] = "delList"
    /\ Enter(w, "delDisk", at[w], obj[w], chunkRows[obj[w]], None)
    /\ NoFault
    /\ UNCHANGED <<store, history>>

\* The rows cannot be listed: nothing is removed from disk and the object is
\* still deleted.
DeleteListError(w) ==
    /\ pc[w] = "delList"
    /\ Enter(w, "delDisk", at[w], obj[w], {}, None)
    /\ Fault
    /\ UNCHANGED <<store, history>>

(* Mutated form of DeleteDisk: the loop runs but removes nothing. *)
DeleteDiskKept(w) ==
    /\ pc[w] = "delDisk"
    /\ \E s \in NextShard(w) : Ticked(w, s)
    /\ NoFault
    /\ UNCHANGED <<store, history>>

\* diskStore.Delete; a chunk that is already gone is no error.
DeleteDisk(w) ==
    /\ pc[w] = "delDisk"
    /\ \E s \in NextShard(w) :
        /\ disk' = disk \ {<<obj[w], s>>}
        /\ Ticked(w, s)
    /\ NoFault
    /\ UNCHANGED <<buckets, files, chunkRows, clock, history>>

\* "failed to delete chunk from disk" is a warning.
DeleteDiskError(w) ==
    /\ pc[w] = "delDisk"
    /\ \E s \in NextShard(w) : Ticked(w, s)
    /\ Fault
    /\ UNCHANGED <<store, history>>

(* Mutated form of Affected: the affected-rows check is forgotten. *)
AffectedAlways(f) == Inserted(f)

\* SoftDelete affects a row: it is not deleted yet.
Affected(f) == LiveFile(f)

DeleteRow(w) ==
    /\ pc[w] = "delDisk" /\ todo[w] = {}
    /\ Affected(obj[w])
    /\ SoftDeleteFile(obj[w])
    /\ refunds' = [refunds EXCEPT ![obj[w]] = @ + 1]
    /\ Enter(w, "delBucket", at[w], obj[w], {}, None)
    /\ NoFault
    /\ UNCHANGED <<buckets, chunkRows, disk, clock, acked, picked>>

\* Another request deleted the row first: NotFound.
DeleteLost(w) ==
    /\ pc[w] = "delDisk" /\ todo[w] = {}
    /\ ~Affected(obj[w])
    /\ NoFault
    /\ Return(w)
    /\ UNCHANGED <<store, history>>

\* SoftDelete returns an error, before or after it took effect.
DeleteRowError(w) ==
    /\ pc[w] = "delDisk" /\ todo[w] = {}
    /\ UNCHANGED files \/ (Affected(obj[w]) /\ SoftDeleteFile(obj[w]))
    /\ Fault
    /\ Return(w)
    /\ UNCHANGED <<buckets, chunkRows, disk, clock, history>>

DeleteBucketRead(w) ==
    /\ pc[w] = "delBucket"
    /\ LiveBucket(at[w])
    /\ Enter(w, "delCount", at[w], obj[w], {}, buckets[at[w]])
    /\ NoFault
    /\ UNCHANGED <<store, history>>

\* The bucket is gone or cannot be read: the counters are left as they are
\* and the request succeeds.
DeleteBucketGone(w) ==
    /\ pc[w] = "delBucket"
    /\ \/ ~LiveBucket(at[w]) /\ NoFault
       \/ Fault
    /\ Return(w)
    /\ UNCHANGED <<store, history>>

(* Mutated form of AtLeastZero: a counter may go below zero. *)
NotClamped(i) == i

\* A counter that would go below zero is set to zero.
AtLeastZero(i) == IF i < 0 THEN 0 ELSE i

Refunded(row, n) ==
    [row EXCEPT !.cur = AtLeastZero(@ - n), !.count = AtLeastZero(@ - 1)]

DeleteCount(w) ==
    /\ pc[w] = "delCount"
    /\ UpdateBucket(at[w], Refunded(snap[w], files[obj[w]].size))
    /\ NoFault
    /\ Return(w)
    /\ UNCHANGED <<files, chunkRows, disk, clock, history>>

\* The error of Update, before or after it took effect, is ignored.
DeleteCountError(w) ==
    /\ pc[w] = "delCount"
    /\ \/ UNCHANGED buckets
       \/ UpdateBucket(at[w], Refunded(snap[w], files[obj[w]].size))
    /\ Fault
    /\ Return(w)
    /\ UNCHANGED <<files, chunkRows, disk, clock, history>>

-----------------------------------------------------------------------------
(* CleanupExpiredObjects, and the time that makes objects expire *)

\* expires_at goes by.
Expire(f) ==
    /\ files[f].expiry = "pending"
    /\ files' = [files EXCEPT ![f].expiry = "passed"]
    /\ UNCHANGED <<local, faults, crashes, buckets, chunkRows, disk, clock, history>>

\* ListExpired finds something; what its LIMIT leaves is for the next sweep.
CleanBegin(w) ==
    /\ "clean" \in Ops /\ pc[w] = "idle"
    /\ \E listed \in ListExpired(CleanupLimit) :
        listed # {} /\ Enter(w, "clean", None, None, listed, None)
    /\ NoFault
    /\ UNCHANGED <<store, history>>

\* SoftDelete of one listed file; a row that is gone is skipped.
CleanOne(w) ==
    /\ pc[w] = "clean"
    /\ \E f \in todo[w] :
        /\ IF Affected(f) THEN SoftDeleteFile(f) ELSE UNCHANGED files
        /\ Ticked(w, f)
    /\ NoFault
    /\ UNCHANGED <<buckets, chunkRows, disk, clock, history>>

\* An error, before or after the row was deleted, is skipped too.
CleanOneError(w) ==
    /\ pc[w] = "clean"
    /\ \E f \in todo[w] :
        /\ UNCHANGED files \/ (Affected(f) /\ SoftDeleteFile(f))
        /\ Ticked(w, f)
    /\ Fault
    /\ UNCHANGED <<buckets, chunkRows, disk, clock, history>>

CleanEnd(w) ==
    /\ pc[w] = "clean" /\ todo[w] = {}
    /\ NoFault
    /\ Return(w)
    /\ UNCHANGED <<store, history>>

-----------------------------------------------------------------------------
PutStep(w) ==
    \/ PutRefuse(w) \/ PutBodyError(w) \/ PutPrepare(w)
    \/ PutWrite(w) \/ PutWriteError(w) \/ PutRow(w) \/ PutRowError(w)
    \/ PutChunk(w) \/ PutChunkError(w) \/ PutCount(w) \/ PutCountError(w)

GetStep(w) ==
    \/ GetList(w) \/ GetNoChunks(w)
    \/ GetRead(w) \/ GetReadError(w) \/ GetReply(w) \/ GetAgainError(w)

DeleteStep(w) ==
    \/ DeleteList(w) \/ DeleteListError(w) \/ DeleteDisk(w) \/ DeleteDiskError(w)
    \/ DeleteRow(w) \/ DeleteLost(w) \/ DeleteRowError(w)
    \/ DeleteBucketRead(w) \/ DeleteBucketGone(w)
    \/ DeleteCount(w) \/ DeleteCountError(w)

CleanStep(w) == CleanOne(w) \/ CleanOneError(w) \/ CleanEnd(w)

FileStep(w) == PutStep(w) \/ GetStep(w) \/ DeleteStep(w) \/ CleanStep(w)

FileBegin(w) ==
    \/ \E b \in Bucket : PutBegin(w, b)
    \/ GetBegin(w) \/ DeleteBegin(w) \/ CleanBegin(w)
=============================================================================
