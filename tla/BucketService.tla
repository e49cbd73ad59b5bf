--------------------------- MODULE BucketService ----------------------------
(***************************************************************************)
(* core.BucketService: CreateBucket, DeleteBucket, UpdateBucketVersioning. *)
(* Each method is one action per database call.  The actions say nothing   *)
(* of the variables of FileService; ObjectStore keeps those unchanged.     *)
(***************************************************************************)
EXTENDS Request

CONSTANT Quota   \* the max_size_bytes values clients ask for; <= 0: no limit

ASSUME QuotaAssumption == Quota \subseteq Int

\* Bound: a bucket id is left for every CreateBucket under way.
BucketIdsLeft ==
    Cardinality({b \in Bucket : buckets[b].state = "absent"}) >
        Cardinality({w \in Worker : pc[w] = "mkInsert"})

-----------------------------------------------------------------------------
(* CreateBucket *)

(* Mutated form of NameTaken: the lookup is skipped. *)
NameNeverTaken(n) == FALSE

\* existing != nil.
NameTaken(n) == GetByName(n) # {}

\* The name is looked up.  Only a row that is found rejects the request: when
\* the query itself fails CreateBucket goes on as if the name were free.
CreateBegin(w) ==
    /\ "create" \in Ops /\ pc[w] = "idle" /\ BucketIdsLeft
    /\ \E n \in Name, m \in Quota :
        /\ \/ ~NameTaken(n) /\ NoFault
           \/ Fault
        /\ Enter(w, "mkInsert", None, None, {}, NewBucket(n, m))
    /\ UNCHANGED buckets

CreateInsert(w) ==
    /\ pc[w] = "mkInsert"
    /\ \E b \in Bucket :
        /\ buckets[b].state = "absent"
        /\ InsertBucket(b, snap[w])
    /\ NoFault
    /\ Return(w)

\* The INSERT returns an error, before or after it took effect.
CreateInsertError(w) ==
    /\ pc[w] = "mkInsert"
    /\ \/ UNCHANGED buckets
       \/ \E b \in Bucket :
            /\ buckets[b].state = "absent"
            /\ InsertBucket(b, snap[w])
    /\ Fault
    /\ Return(w)

-----------------------------------------------------------------------------
(* DeleteBucket *)

RemoveBegin(w, b) ==
    /\ "remove" \in Ops /\ pc[w] = "idle"
    /\ LiveBucket(b)
    /\ Enter(w, "rmCount", b, None, {}, None)
    /\ NoFault /\ UNCHANGED buckets

(* Mutated form of RemoveCount: the count is ignored. *)
RemoveWithoutCount(w) ==
    /\ pc[w] = "rmCount"
    /\ Enter(w, "rmRow", at[w], None, {}, None)
    /\ NoFault /\ UNCHANGED buckets

\* CountByBucket finds no live file.
RemoveCount(w) ==
    /\ pc[w] = "rmCount"
    /\ BucketEmpty(at[w])
    /\ Enter(w, "rmRow", at[w], None, {}, None)
    /\ NoFault /\ UNCHANGED buckets

\* "bucket not empty", or the count failed.
RemoveRefused(w) ==
    /\ pc[w] = "rmCount"
    /\ \/ ~BucketEmpty(at[w]) /\ NoFault
       \/ Fault
    /\ Return(w) /\ UNCHANGED buckets

\* SoftDelete; another DeleteBucket may have been first (NotFound).
RemoveRow(w) ==
    /\ pc[w] = "rmRow"
    /\ IF LiveBucket(at[w]) THEN SoftDeleteBucket(at[w]) ELSE UNCHANGED buckets
    /\ NoFault
    /\ Return(w)

RemoveRowError(w) ==
    /\ pc[w] = "rmRow"
    /\ \/ UNCHANGED buckets
       \/ LiveBucket(at[w]) /\ SoftDeleteBucket(at[w])
    /\ Fault
    /\ Return(w)

-----------------------------------------------------------------------------
(* UpdateBucketVersioning *)

VersionBegin(w, b) ==
    /\ "version" \in Ops /\ pc[w] = "idle"
    /\ LiveBucket(b)
    /\ \E v \in Versioning :
        Enter(w, "verWrite", b, None, {}, [buckets[b] EXCEPT !.versioning = v])
    /\ NoFault /\ UNCHANGED buckets

VersionWrite(w) ==
    /\ pc[w] = "verWrite"
    /\ UpdateBucket(at[w], snap[w])
    /\ NoFault
    /\ Return(w)

VersionWriteError(w) ==
    /\ pc[w] = "verWrite"
    /\ UNCHANGED buckets \/ UpdateBucket(at[w], snap[w])
    /\ Fault
    /\ Return(w)

BucketStep(w) ==
    \/ CreateInsert(w) \/ CreateInsertError(w)
    \/ RemoveCount(w) \/ RemoveRefused(w) \/ RemoveRow(w) \/ RemoveRowError(w)
    \/ VersionWrite(w) \/ VersionWriteError(w)

BucketBegin(w) ==
    \/ CreateBegin(w)
    \/ \E b \in Bucket : RemoveBegin(w, b) \/ VersionBegin(w, b)
=============================================================================
