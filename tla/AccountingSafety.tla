-------------------------- MODULE AccountingSafety --------------------------
(***************************************************************************)
(* The promises of Accounting, for every value of the constants and in the *)
(* circumstances in which the service keeps them.  Each circumstance is a  *)
(* hypothesis []C on the behaviour: how many workers and faults there      *)
(* could be does not matter, only that requests do not overlap and, for    *)
(* some promises, that no call failed and no request was lost.  The last   *)
(* theorem gives constants with which every behaviour is like that.        *)
(***************************************************************************)
EXTENDS AccountingInv, ObjectStoreSafety, FiniteSetTheorems

-----------------------------------------------------------------------------
(* Steps of one request *)

\* A step of worker w leaves the requests of the others alone.
Others(w) ==
    \A v \in Worker \ {w} :
        /\ pc'[v] = pc[v] /\ at'[v] = at[v] /\ obj'[v] = obj[v]
        /\ todo'[v] = todo[v] /\ snap'[v] = snap[v]

LEMMA Entered ==
    ASSUME TypeOK, NEW w \in Worker, NEW l, NEW b, NEW f, NEW t, NEW row,
           Enter(w, l, b, f, t, row)
    PROVE  /\ Others(w)
           /\ pc'[w] = l /\ at'[w] = b /\ obj'[w] = f /\ todo'[w] = t /\ snap'[w] = row
  BY DEF Enter, Others, TypeOK, LocalTypeOK

LEMMA Returned ==
    ASSUME TypeOK, NEW w \in Worker, Return(w)
    PROVE  Others(w) /\ pc'[w] = "idle"
  BY Entered DEF Return

LEMMA TickedOn ==
    ASSUME TypeOK, NEW w \in Worker, NEW i, Ticked(w, i)
    PROVE  /\ Others(w)
           /\ pc'[w] = pc[w] /\ at'[w] = at[w] /\ obj'[w] = obj[w]
           /\ todo'[w] = todo[w] \ {i} /\ snap'[w] = snap[w]
  BY Entered DEF Ticked

\* Every step of a request is about one worker, which is serving it before or
\* after the step.
Acts(w) == Others(w) /\ (pc[w] # "idle" \/ pc'[w] # "idle")

LEMMA WorkerActs ==
    ASSUME TypeOK, NEW w \in Worker, Begin(w) \/ Step(w) \/ Lost(w)
    PROVE  Acts(w)
  <1>1. ASSUME NEW l, NEW b, NEW f, NEW t, NEW row, Enter(w, l, b, f, t, row),
               l # "idle" \/ pc[w] # "idle"
        PROVE  Acts(w)
    BY <1>1, Entered DEF Acts
  <1>2. ASSUME Return(w), pc[w] # "idle" PROVE Acts(w)
    BY <1>2, Returned DEF Acts
  <1>3. ASSUME NEW i, Ticked(w, i), pc[w] # "idle" PROVE Acts(w)
    BY <1>3, TickedOn DEF Acts
  <1>4. CASE FileBegin(w)
    BY <1>1, <1>4 DEF FileBegin, PutBegin, GetBegin, DeleteBegin, CleanBegin
  <1>5. CASE PutStep(w)
    BY <1>1, <1>2, <1>3, <1>5 DEF PutStep, PutRefuse, PutBodyError, PutPrepare, PutWrite,
        PutWriteError, PutRow, PutRowError, AllWritten, PutChunk, PutChunkError, PutCount,
        PutCountError, ChunksDone
  <1>6. CASE GetStep(w)
    BY <1>1, <1>2, <1>3, <1>6 DEF GetStep, GetList, GetNoChunks, GetRead, GetReadError,
        GetReply, GetAgainError
  <1>7. CASE DeleteStep(w)
    BY <1>1, <1>2, <1>3, <1>7 DEF DeleteStep, DeleteList, DeleteListError, DeleteDisk,
        DeleteDiskError, DeleteRow, DeleteLost, DeleteRowError, DeleteBucketRead,
        DeleteBucketGone, DeleteCount, DeleteCountError
  <1>8. CASE CleanStep(w)
    BY <1>2, <1>3, <1>8 DEF CleanStep, CleanOne, CleanOneError, CleanEnd
  <1>9. CASE BucketBegin(w)
    <2>1. CASE CreateBegin(w)
      BY <1>1, <2>1 DEF CreateBegin
    <2>2. ASSUME NEW b \in Bucket, RemoveBegin(w, b) PROVE Acts(w)
      BY <1>1, <2>2 DEF RemoveBegin
    <2>3. ASSUME NEW b \in Bucket, VersionBegin(w, b) PROVE Acts(w)
      <3>1. PICK v \in Versioning :
                Enter(w, "verWrite", b, None, {}, [buckets[b] EXCEPT !.versioning = v])
        BY <2>3 DEF VersionBegin
      <3> QED
        BY <1>1, <3>1
    <2> QED
      BY <1>9, <2>1, <2>2, <2>3 DEF BucketBegin
  <1>10. CASE BucketStep(w)
    BY <1>1, <1>2, <1>10 DEF BucketStep,
        CreateInsert, CreateInsertError, RemoveCount, RemoveRefused, RemoveRow, RemoveRowError,
        VersionWrite, VersionWriteError
  <1>11. CASE Lost(w)
    BY <1>2, <1>11 DEF Lost, Crash
  <1> QED
    BY <1>4, <1>5, <1>6, <1>7, <1>8, <1>9, <1>10, <1>11 DEF Begin, Step, FileStep

\* When requests come one at a time, the others are idle before and after.
LEMMA OnlyOne ==
    ASSUME TypeOK, OneAtATime, OneAtATime', NEW w \in Worker, Begin(w) \/ Step(w) \/ Lost(w)
    PROVE  \A v \in Worker \ {w} : pc[v] = "idle" /\ pc'[v] = "idle"
  BY WorkerActs DEF OneAtATime, Acts, Others

\* A step is a step of some request, the passing of an expiry time, or nothing.
LEMMA StepKinds ==
    ASSUME [Next]_vars
    PROVE  \/ \E w \in Worker : Begin(w) \/ Step(w) \/ Lost(w)
           \/ \E f \in File : Expire(f)
           \/ UNCHANGED vars
  BY DEF Next, ReadOnly

-----------------------------------------------------------------------------
(* SerialInv *)

\* A bucket that holds live versions stays live, and a version becomes live
\* only in a live bucket.
LEMMA BucketsKept ==
    ASSUME BucketsOK,
           \A f \in File : LiveFile(f)' =>
                \/ LiveBucket(files[f].bucket)'
                \/ LiveFile(f) /\ files'[f].bucket = files[f].bucket,
           \A b \in Bucket : LiveBucket(b) => LiveBucket(b)' \/ BucketEmpty(b)
    PROVE  BucketsOK'
  BY DEF BucketsOK, BucketEmpty

\* Nothing is said of an idle request.
LEMMA IdleHolds ==
    ASSUME NEW w \in Worker, pc'[w] \in {"idle", "clean", "mkInsert", "rmCount", "getRead"}
    PROVE  HoldingOK(w)'
  BY DEF HoldingOK

\* PutObject keeps SerialInv's parts.
LEMMA PutSerial ==
    ASSUME TypeOK, FileInv, BucketsOK, NEW w \in Worker, HoldingOK(w),
           (\E b \in Bucket : PutBegin(w, b)) \/ PutStep(w)
    PROVE  BucketsOK' /\ HoldingOK(w)'
  <1>0. UNCHANGED <<buckets, files>> => BucketsOK'
    BY DEF BucketsOK, BucketEmpty, LiveBucket, LiveFile
  <1>1. ASSUME NEW b \in Bucket, PutBegin(w, b) PROVE BucketsOK' /\ HoldingOK(w)'
    BY <1>0, <1>1, Entered DEF PutBegin, store, HoldingOK, LiveBucket
  <1>2. CASE PutRefuse(w) \/ PutBodyError(w) \/ PutWriteError(w)
    BY <1>0, <1>2, Returned, IdleHolds DEF PutRefuse, PutBodyError, PutWriteError, store
  <1>3. CASE PutPrepare(w)
    <2>1. PICK f \in File, k \in Key, n \in Size, x \in Expiry :
            /\ files[f].state = "unused"
            /\ files' = [files EXCEPT ![f] =
                [state |-> "building", bucket |-> at[w], key |-> k, size |-> n,
                 created |-> clock + 1, expiry |-> x]]
            /\ Enter(w, "putWrite", at[w], f, ShardsOf(n), snap[w])
      BY <1>3 DEF PutPrepare
    <2>2. buckets' = buckets /\ clock' = clock + 1 /\ pc[w] = "putBody"
      BY <1>3 DEF PutPrepare
    <2>3. /\ files'[f].bucket = at[w] /\ files'[f].created = clock + 1
          /\ \A g \in File : LiveFile(g)' => LiveFile(g) /\ files'[g] = files[g]
      BY <2>1 DEF LiveFile, TypeOK, StoreTypeOK
    <2>4. BucketsOK'
      BY <2>2, <2>3, BucketsKept DEF LiveBucket
    <2> QED
      BY <2>1, <2>2, <2>3, <2>4, Entered DEF HoldingOK, LiveBucket
  <1>4. CASE PutWrite(w) \/ PutChunk(w) \/ PutChunkError(w)
    <2>1. /\ UNCHANGED <<buckets, files, clock>>
          /\ \E i : Ticked(w, i)
          /\ pc[w] \in {"putWrite", "putChunk"}
      BY <1>4 DEF PutWrite, PutChunk, PutChunkError, store
    <2> QED
      BY <1>0, <2>1, TickedOn DEF HoldingOK, LiveBucket
  <1>5. CASE PutRow(w) \/ PutRowError(w)
    <2>1. /\ pc[w] = "putWrite" /\ obj[w] \in File
          /\ buckets' = buckets
          /\ files' = files \/ InsertFile(obj[w])
      BY <1>5, Locals DEF PutRow, PutRowError, AllWritten, TypeOK, HasFile
    <2>2. \A g \in File : LiveFile(g)' =>
            /\ files'[g].bucket = files[g].bucket
            /\ LiveFile(g) \/ g = obj[w]
      BY <2>1 DEF InsertFile, LiveFile, TypeOK, StoreTypeOK, FileRow
    <2>3. files[obj[w]].bucket = at[w] /\ LiveBucket(at[w])
      BY <2>1 DEF HoldingOK
    <2>4. BucketsOK'
      <3>1. \A b \in Bucket : LiveBucket(b) => LiveBucket(b)'
        BY <2>1 DEF LiveBucket
      <3>2. \A g \in File : g = obj[w] => (LiveFile(g)' => LiveBucket(files[g].bucket)')
        BY <2>1, <2>2, <2>3 DEF LiveBucket
      <3> QED
        BY <2>2, <3>1, <3>2, BucketsKept
    <2>5. CASE PutRow(w)
      BY <2>1, <2>3, <2>4, <2>5, Entered DEF PutRow, HoldingOK, LiveBucket
    <2>6. CASE PutRowError(w)
      BY <2>4, <2>6, Returned, IdleHolds DEF PutRowError
    <2> QED
      BY <1>5, <2>5, <2>6
  <1>6. CASE PutCount(w) \/ PutCountError(w)
    <2>1. /\ at[w] \in Bucket /\ Return(w) /\ files' = files
          /\ \/ UNCHANGED buckets
             \/ UpdateBucket(at[w], Charged(snap[w], files[obj[w]].size))
      BY <1>6, Locals DEF PutCount, PutCountError, ChunksDone, TypeOK, HasBucket
    <2>2. \A b \in Bucket : LiveBucket(b)' = LiveBucket(b)
      BY <2>1 DEF UpdateBucket, LiveBucket, TypeOK, StoreTypeOK
    <2>3. BucketsOK'
      BY <2>1, <2>2 DEF BucketsOK, BucketEmpty, LiveFile
    <2> QED
      BY <2>1, <2>3, Returned, IdleHolds
  <1> QED
    BY <1>1, <1>2, <1>3, <1>4, <1>5, <1>6 DEF PutStep

\* Downloads keep them: they start at a version that has a row.
LEMMA GetSerial ==
    ASSUME TypeOK, BucketsOK, NEW w \in Worker, HoldingOK(w), GetBegin(w) \/ GetStep(w)
    PROVE  BucketsOK' /\ HoldingOK(w)'
  <1>1. UNCHANGED <<buckets, files, clock>>
    BY DEF GetBegin, GetStep, GetList, GetNoChunks, GetRead, GetReadError, GetReply,
           GetAgainError, store
  <1>2. BucketsOK'
    BY <1>1 DEF BucketsOK, BucketEmpty, LiveBucket, LiveFile
  <1>3. CASE GetBegin(w)
    <2>1. PICK b \in Bucket, f \in File :
            LiveFile(f) /\ Enter(w, "getList", b, f, {}, None)
      BY <1>3 DEF GetBegin, Versions
    <2>2. pc'[w] = "getList" /\ obj'[w] = f
      BY <2>1, Entered
    <2> QED
      BY <1>1, <1>2, <2>1, <2>2 DEF HoldingOK, Inserted, LiveFile
  <1>4. CASE GetList(w)
    <2>1. pc'[w] = "getRead"
      BY <1>4, Entered DEF GetList
    <2> QED
      BY <1>2, <2>1, IdleHolds
  <1>5. CASE GetRead(w)
    <2>1. pc'[w] = "getRead"
      BY <1>5, TickedOn DEF GetRead
    <2> QED
      BY <1>2, <2>1, IdleHolds
  <1>6. CASE GetNoChunks(w) \/ GetReadError(w) \/ GetReply(w) \/ GetAgainError(w)
    <2>1. pc'[w] = "idle"
      BY <1>6, Returned DEF GetNoChunks, GetReadError, GetReply, GetAgainError
    <2> QED
      BY <1>2, <2>1, IdleHolds
  <1> QED
    BY <1>3, <1>4, <1>5, <1>6 DEF GetStep

\* Deletes keep them: the version chosen is the newest, in a live bucket.
LEMMA DeleteSerial ==
    ASSUME TypeOK, BucketsOK, NEW w \in Worker, HoldingOK(w), DeleteBegin(w) \/ DeleteStep(w)
    PROVE  BucketsOK' /\ HoldingOK(w)'
  <1>0. UNCHANGED <<buckets, files>> => BucketsOK'
    BY DEF BucketsOK, BucketEmpty, LiveBucket, LiveFile
  <1>1. CASE DeleteBegin(w)
    <2>1. PICK b \in Bucket, k \in Key, f \in File :
            f \in Latest(b, k) /\ Enter(w, "delList", b, f, {}, None)
      BY <1>1 DEF DeleteBegin, Latest, Versions
    <2>2. pc'[w] = "delList" /\ at'[w] = b /\ obj'[w] = f
      BY <2>1, Entered
    <2>3. UNCHANGED <<buckets, files>>
      BY <1>1 DEF DeleteBegin, store
    <2>4. f \in Latest(b, files[f].key)
      BY <2>1 DEF Latest, Versions
    <2>5. (obj[w] \in Latest(at[w], files[obj[w]].key))'
      BY <2>2, <2>3, <2>4 DEF Latest, Versions, LiveFile
    <2> QED
      BY <1>0, <2>2, <2>3, <2>5 DEF HoldingOK
  <1>2. CASE DeleteList(w) \/ DeleteListError(w) \/ DeleteDisk(w) \/ DeleteDiskError(w)
    <2>1. /\ UNCHANGED <<buckets, files>>
          /\ pc[w] \in {"delList", "delDisk"} /\ pc'[w] = "delDisk"
          /\ at'[w] = at[w] /\ obj'[w] = obj[w]
      BY <1>2, Entered, TickedOn DEF DeleteList, DeleteListError, DeleteDisk, DeleteDiskError,
                                     store
    <2>2. (obj[w] \in Latest(at[w], files[obj[w]].key))'
      BY <2>1 DEF HoldingOK, Latest, Versions, LiveFile
    <2> QED
      BY <1>0, <2>1, <2>2 DEF HoldingOK
  <1>3. CASE DeleteRow(w) \/ DeleteRowError(w)
    <2>1. /\ pc[w] = "delDisk" /\ obj[w] \in File /\ at[w] \in Bucket
          /\ buckets' = buckets
          /\ files' = files \/ SoftDeleteFile(obj[w])
      BY <1>3, Locals DEF DeleteRow, DeleteRowError, TypeOK, HasFile, HasBucket
    <2>2. \A g \in File : LiveFile(g)' => LiveFile(g) /\ files'[g].bucket = files[g].bucket
      BY <2>1 DEF SoftDeleteFile, LiveFile, TypeOK, StoreTypeOK, FileRow
    <2>3. \A b \in Bucket : LiveBucket(b) => LiveBucket(b)'
      BY <2>1 DEF LiveBucket
    <2>4. BucketsOK'
      BY <2>2, <2>3, BucketsKept
    <2>5. LiveBucket(at[w])
      BY <2>1 DEF HoldingOK, Latest, Versions, BucketsOK, BucketEmpty
    <2>6. CASE DeleteRow(w)
      BY <2>1, <2>4, <2>5, <2>6, Entered DEF DeleteRow, HoldingOK, LiveBucket
    <2>7. CASE DeleteRowError(w)
      BY <2>4, <2>7, Returned, IdleHolds DEF DeleteRowError
    <2> QED
      BY <1>3, <2>6, <2>7
  <1>4. CASE DeleteBucketRead(w)
    BY <1>0, <1>4, Entered DEF DeleteBucketRead, store, HoldingOK, LiveBucket
  <1>5. CASE DeleteLost(w) \/ DeleteBucketGone(w)
    BY <1>0, <1>5, Returned, IdleHolds DEF DeleteLost, DeleteBucketGone, store
  <1>6. CASE DeleteCount(w) \/ DeleteCountError(w)
    <2>1. /\ at[w] \in Bucket /\ Return(w) /\ files' = files
          /\ \/ UNCHANGED buckets
             \/ UpdateBucket(at[w], Refunded(snap[w], files[obj[w]].size))
      BY <1>6, Locals DEF DeleteCount, DeleteCountError, TypeOK, HasBucket
    <2>2. \A b \in Bucket : LiveBucket(b)' = LiveBucket(b)
      BY <2>1 DEF UpdateBucket, LiveBucket, TypeOK, StoreTypeOK
    <2>3. BucketsOK'
      BY <2>1, <2>2 DEF BucketsOK, BucketEmpty, LiveFile
    <2> QED
      BY <2>1, <2>3, Returned, IdleHolds
  <1> QED
    BY <1>1, <1>2, <1>3, <1>4, <1>5, <1>6 DEF DeleteStep

\* Sweeps keep them.
LEMMA CleanSerial ==
    ASSUME TypeOK, BucketsOK, NEW w \in Worker, CleanBegin(w) \/ CleanStep(w)
    PROVE  BucketsOK' /\ HoldingOK(w)'
  <1>1. pc'[w] \in {"clean", "idle"}
    BY Entered, TickedOn, Returned DEF CleanBegin, CleanStep, CleanOne, CleanOneError, CleanEnd
  <1>2. /\ buckets' = buckets
        /\ files' = files \/ \E f \in File : SoftDeleteFile(f)
    <2>1. CASE CleanOne(w) \/ CleanOneError(w)
      <3>1. todo[w] \subseteq File
        BY <2>1, Locals DEF CleanOne, CleanOneError, TypeOK
      <3> QED
        BY <2>1, <3>1 DEF CleanOne, CleanOneError
    <2>2. CASE CleanBegin(w) \/ CleanEnd(w)
      BY <2>2 DEF CleanBegin, CleanEnd, store
    <2> QED
      BY <2>1, <2>2 DEF CleanStep
  <1>3. \A g \in File : LiveFile(g)' => LiveFile(g) /\ files'[g].bucket = files[g].bucket
    BY <1>2 DEF SoftDeleteFile, LiveFile, TypeOK, StoreTypeOK, FileRow
  <1>4. \A b \in Bucket : LiveBucket(b) => LiveBucket(b)'
    BY <1>2 DEF LiveBucket
  <1> QED
    BY <1>1, <1>3, <1>4, BucketsKept, IdleHolds

\* Requests about buckets keep them: what is deleted was counted empty.
LEMMA BucketSerial ==
    ASSUME TypeOK, BucketsOK, NEW w \in Worker, HoldingOK(w),
           BucketBegin(w) \/ BucketStep(w), NoFileChange
    PROVE  BucketsOK' /\ HoldingOK(w)'
  <1>0. /\ files' = files /\ \A g \in File : LiveFile(g)' = LiveFile(g)
        /\ UNCHANGED buckets => BucketsOK'
    BY DEF NoFileChange, BucketsOK, BucketEmpty, LiveBucket, LiveFile
  <1>1. CASE CreateBegin(w)
    <2>1. pc'[w] = "mkInsert" /\ buckets' = buckets
      BY <1>1, Entered DEF CreateBegin
    <2> QED
      BY <1>0, <2>1, IdleHolds
  <1>2. ASSUME NEW b \in Bucket, RemoveBegin(w, b) PROVE BucketsOK' /\ HoldingOK(w)'
    BY <1>0, <1>2, Entered, IdleHolds DEF RemoveBegin
  <1>3. ASSUME NEW b \in Bucket, VersionBegin(w, b) PROVE BucketsOK' /\ HoldingOK(w)'
    <2>1. PICK v \in Versioning :
              Enter(w, "verWrite", b, None, {}, [buckets[b] EXCEPT !.versioning = v])
      BY <1>3 DEF VersionBegin
    <2>2. /\ pc'[w] = "verWrite" /\ at'[w] = b
          /\ snap'[w] = [buckets[b] EXCEPT !.versioning = v]
      BY <2>1, Entered
    <2>3. buckets' = buckets /\ LiveBucket(b)
      BY <1>3 DEF VersionBegin
    <2> QED
      BY <1>0, <2>2, <2>3 DEF HoldingOK, LiveBucket
  <1>4. CASE CreateInsert(w) \/ CreateInsertError(w)
    <2>1. /\ Return(w)
          /\ \/ buckets' = buckets
             \/ \E b \in Bucket : buckets[b].state = "absent" /\ InsertBucket(b, snap[w])
      BY <1>4 DEF CreateInsert, CreateInsertError
    <2>2. \A b \in Bucket : LiveBucket(b) => LiveBucket(b)'
      BY <2>1 DEF LiveBucket, InsertBucket, TypeOK, StoreTypeOK
    <2>3. BucketsOK'
      BY <1>0, <2>2, BucketsKept
    <2> QED
      BY <2>1, <2>3, Returned, IdleHolds
  <1>5. CASE RemoveCount(w)
    <2>1. /\ BucketEmpty(at[w]) /\ buckets' = buckets
          /\ pc'[w] = "rmRow" /\ at'[w] = at[w]
      BY <1>5, Entered DEF RemoveCount
    <2> QED
      BY <1>0, <2>1 DEF HoldingOK, BucketEmpty, LiveFile
  <1>6. CASE RemoveRefused(w)
    BY <1>0, <1>6, Returned, IdleHolds DEF RemoveRefused
  <1>7. CASE RemoveRow(w) \/ RemoveRowError(w)
    <2>1. /\ pc[w] = "rmRow" /\ Return(w) /\ at[w] \in Bucket
          /\ buckets' = buckets \/ SoftDeleteBucket(at[w])
      BY <1>7, Locals DEF RemoveRow, RemoveRowError, TypeOK, HasBucket
    <2>2. \A b \in Bucket : LiveBucket(b) => LiveBucket(b)' \/ b = at[w]
      BY <2>1 DEF LiveBucket, SoftDeleteBucket, TypeOK, StoreTypeOK
    <2>3. BucketEmpty(at[w])
      BY <2>1 DEF HoldingOK
    <2>4. BucketsOK'
      BY <1>0, <2>2, <2>3, BucketsKept
    <2> QED
      BY <2>1, <2>4, Returned, IdleHolds
  <1>8. CASE VersionWrite(w) \/ VersionWriteError(w)
    <2>1. /\ Return(w) /\ at[w] \in Bucket
          /\ buckets' = buckets \/ UpdateBucket(at[w], snap[w])
      BY <1>8, Locals DEF VersionWrite, VersionWriteError, TypeOK, HasBucket
    <2>2. \A b \in Bucket : LiveBucket(b) => LiveBucket(b)'
      BY <2>1 DEF UpdateBucket, LiveBucket, TypeOK, StoreTypeOK
    <2>3. BucketsOK'
      BY <1>0, <2>2, BucketsKept
    <2> QED
      BY <2>1, <2>3, Returned, IdleHolds
  <1> QED
    BY <1>1, <1>2, <1>3, <1>4, <1>5, <1>6, <1>7, <1>8 DEF BucketBegin, BucketStep

\* The passing of an expiry time changes nothing that SerialInv is about.
LEMMA ExpireSerial ==
    ASSUME TypeOK, SerialInv, NEW f \in File, Expire(f)
    PROVE  BucketsOK' /\ \A w \in Worker : HoldingOK(w)'
  <1>1. \A g \in File :
            /\ files'[g].state = files[g].state /\ files'[g].bucket = files[g].bucket
            /\ files'[g].key = files[g].key /\ files'[g].created = files[g].created
    BY DEF Expire, TypeOK, StoreTypeOK, FileRow
  <1>2. /\ UNCHANGED <<pc, at, obj, snap, buckets, clock>>
        /\ \A g \in File : LiveFile(g)' = LiveFile(g) /\ Inserted(g)' = Inserted(g)
    BY <1>1 DEF Expire, local, LiveFile, Inserted
  <1>3. \A b \in Bucket : BucketEmpty(b)' = BucketEmpty(b) /\ LiveBucket(b)' = LiveBucket(b)
    BY <1>1, <1>2 DEF BucketEmpty, LiveBucket
  <1>4. ASSUME NEW w \in Worker PROVE HoldingOK(w)'
    <2>1. /\ pc[w] \in HasBucket => at[w] \in Bucket
          /\ pc[w] \in HasFile => obj[w] \in File
      BY Locals DEF TypeOK
    <2>2. HoldingOK(w)
      BY DEF SerialInv
    <2>3. pc[w] \in {"delList", "delDisk"} => (obj[w] \in Latest(at[w], files[obj[w]].key))'
      BY <1>1, <1>2, <2>1, <2>2 DEF HoldingOK, Latest, Versions, HasFile
    <2> QED
      BY <1>1, <1>2, <1>3, <2>1, <2>2, <2>3 DEF HoldingOK, HasBucket, HasFile
  <1> QED
    BY <1>3, <1>4 DEF SerialInv, BucketsOK

\* SerialInv is inductive as long as requests come one at a time.
LEMMA NextSerial ==
    ASSUME IndInv, SerialInv, OneAtATime, OneAtATime', [Next]_vars
    PROVE  SerialInv'
  <1> USE DEF IndInv
  <1>0. StampsOK'
    BY StepMoves, StampsKept DEF SerialInv
  <1>1. ASSUME NEW w \in Worker, Begin(w) \/ Step(w) \/ Lost(w) PROVE SerialInv'
    <2>1. BucketsOK /\ HoldingOK(w)
      BY DEF SerialInv
    <2>2. BucketsOK' /\ HoldingOK(w)'
      <3>1. CASE Begin(w)
        BY <2>1, <3>1, PutSerial, GetSerial, DeleteSerial, CleanSerial, BucketSerial
        DEF Begin, FileBegin
      <3>2. CASE Step(w)
        BY <2>1, <3>2, PutSerial, GetSerial, DeleteSerial, CleanSerial, BucketSerial
        DEF Step, FileStep
      <3>3. CASE Lost(w)
        BY <2>1, <3>3, Returned, IdleHolds DEF Lost, Crash, NoFileChange, BucketsOK,
           BucketEmpty, LiveBucket, LiveFile
      <3> QED
        BY <1>1, <3>1, <3>2, <3>3
    <2>3. \A v \in Worker \ {w} : HoldingOK(v)'
      BY <1>1, OnlyOne, IdleHolds
    <2> QED
      BY <1>0, <2>2, <2>3 DEF SerialInv
  <1>2. ASSUME NEW f \in File, Expire(f) PROVE SerialInv'
    BY <1>0, <1>2, ExpireSerial DEF SerialInv
  <1>3. CASE UNCHANGED vars
    BY <1>3 DEF vars, SerialInv, StampsOK, BucketsOK, HoldingOK, BucketEmpty, LiveBucket,
                LiveFile, Inserted, Latest, Versions
  <1> QED
    BY <1>1, <1>2, <1>3, StepKinds

LEMMA InitSerial == Init => SerialInv
  BY DEF Init, RequestInit, UnusedFile, SerialInv, StampsOK, BucketsOK, HoldingOK, BucketEmpty,
         LiveFile

LEMMA SerialInvariance == Spec /\ []OneAtATime => []SerialInv
  BY InitSerial, NextSerial, Invariance, PTL DEF Spec

\* Whatever calls fail and requests die, a bucket deleted by requests that
\* come one at a time holds no live object.
THEOREM DeletedIsEmpty == Spec /\ []OneAtATime => []DeletedBucketEmpty
  <1>1. SerialInv => DeletedBucketEmpty
    BY DEF SerialInv, BucketsOK, LiveBucket, DeletedBucketEmpty
  <1> QED
    BY <1>1, SerialInvariance, PTL

-----------------------------------------------------------------------------
(* Who writes what *)

\* The live versions, where they are and how large, stay as they are.
LiveKept ==
    \A f \in File :
        /\ LiveFile(f)' = LiveFile(f)
        /\ LiveFile(f) =>
            /\ files'[f].bucket = files[f].bucket
            /\ files'[f].key = files[f].key
            /\ files'[f].created = files[f].created
            /\ files'[f].size = files[f].size

RowChanged(w) ==
    \/ PutRow(w) \/ PutRowError(w) \/ DeleteRow(w) \/ DeleteRowError(w)
    \/ CleanOne(w) \/ CleanOneError(w)

LEMMA LiveWriters ==
    ASSUME TypeOK, [Next]_vars
    PROVE  LiveKept \/ \E w \in Worker : RowChanged(w)
  <1>1. CASE files' = files
    BY <1>1 DEF LiveKept, LiveFile
  <1>2. ASSUME NEW w \in Worker, PutPrepare(w) PROVE LiveKept
    BY <1>2 DEF PutPrepare, LiveKept, LiveFile, TypeOK, StoreTypeOK
  <1>3. ASSUME NEW f \in File, Expire(f) PROVE LiveKept
    BY <1>3 DEF Expire, LiveKept, LiveFile, TypeOK, StoreTypeOK, FileRow
  <1>4. ASSUME NEW w \in Worker, FileBegin(w) PROVE files' = files
    BY <1>4 DEF FileBegin, PutBegin, GetBegin, DeleteBegin, CleanBegin, store
  <1>5. ASSUME NEW w \in Worker, PutStep(w), ~PutPrepare(w), ~RowChanged(w)
        PROVE  files' = files
    BY <1>5 DEF RowChanged, PutStep, PutRefuse, PutBodyError, PutWrite, PutWriteError, PutChunk,
                PutChunkError, PutCount, PutCountError, store
  <1>6. ASSUME NEW w \in Worker, GetStep(w) PROVE files' = files
    BY <1>6 DEF GetStep, GetList, GetNoChunks, GetRead, GetReadError, GetReply,
                GetAgainError, store
  <1>7. ASSUME NEW w \in Worker, DeleteStep(w), ~RowChanged(w) PROVE files' = files
    BY <1>7 DEF RowChanged, DeleteStep, DeleteList, DeleteListError, DeleteDisk,
                DeleteDiskError, DeleteLost, DeleteBucketRead, DeleteBucketGone,
                DeleteCount, DeleteCountError, store
  <1>8. ASSUME NEW w \in Worker, CleanStep(w), ~RowChanged(w) PROVE files' = files
    BY <1>8 DEF RowChanged, CleanStep, CleanEnd, store
  <1>9. NoFileChange \/ UNCHANGED vars => files' = files
    BY DEF NoFileChange, vars
  <1> QED
    BY <1>1, <1>2, <1>3, <1>4, <1>5, <1>6, <1>7, <1>8, <1>9, StepKinds
    DEF Begin, Step, FileStep, Lost

CountChanged(w) == PutCount(w) \/ PutCountError(w) \/ DeleteCount(w) \/ DeleteCountError(w)

LEMMA BucketWriters ==
    ASSUME [Next]_vars
    PROVE  \/ buckets' = buckets
           \/ \E w \in Worker : CountChanged(w) \/ (BucketStep(w) /\ NoFileChange)
  <1>1. ASSUME NEW w \in Worker, FileBegin(w) PROVE buckets' = buckets
    BY <1>1 DEF FileBegin, PutBegin, GetBegin, DeleteBegin, CleanBegin, store
  <1>2. ASSUME NEW w \in Worker, PutStep(w), ~CountChanged(w) PROVE buckets' = buckets
    BY <1>2 DEF CountChanged, PutStep, PutRefuse, PutBodyError, PutPrepare, PutWrite,
                PutWriteError, PutRow, PutRowError, PutChunk, PutChunkError, store
  <1>3. ASSUME NEW w \in Worker, GetStep(w) \/ CleanStep(w) PROVE buckets' = buckets
    BY <1>3 DEF GetStep, GetList, GetNoChunks, GetRead, GetReadError, GetReply, GetAgainError,
                CleanStep, CleanOne, CleanOneError, CleanEnd, store
  <1>4. ASSUME NEW w \in Worker, DeleteStep(w), ~CountChanged(w) PROVE buckets' = buckets
    BY <1>4 DEF CountChanged, DeleteStep, DeleteList, DeleteListError, DeleteDisk,
                DeleteDiskError, DeleteRow, DeleteLost, DeleteRowError, DeleteBucketRead,
                DeleteBucketGone, store
  <1>5. ASSUME NEW w \in Worker, BucketBegin(w) PROVE buckets' = buckets
    BY <1>5 DEF BucketBegin, CreateBegin, RemoveBegin, VersionBegin
  <1>6. ASSUME NEW f \in File, Expire(f) PROVE buckets' = buckets
    BY <1>6 DEF Expire
  <1>7. UNCHANGED vars => buckets' = buckets
    BY DEF vars
  <1> QED
    BY <1>1, <1>2, <1>3, <1>4, <1>5, <1>6, <1>7, StepKinds DEF Begin, Step, FileStep, Lost

LEMMA ChunkWriters ==
    ASSUME [Next]_vars
    PROVE  /\ disk' = disk \/ \E w \in Worker : PutWrite(w) \/ PutWriteError(w) \/ DeleteDisk(w)
           /\ chunkRows' = chunkRows \/ \E w \in Worker : PutChunk(w) \/ PutChunkError(w)
  <1> DEFINE D(w) == PutWrite(w) \/ PutWriteError(w) \/ DeleteDisk(w)
             R(w) == PutChunk(w) \/ PutChunkError(w)
  <1>1. ASSUME NEW w \in Worker, FileBegin(w) PROVE disk' = disk /\ chunkRows' = chunkRows
    BY <1>1 DEF FileBegin, PutBegin, GetBegin, DeleteBegin, CleanBegin, store
  <1>2. ASSUME NEW w \in Worker, PutStep(w)
        PROVE  (D(w) \/ disk' = disk) /\ (R(w) \/ chunkRows' = chunkRows)
    BY <1>2 DEF PutStep, PutRefuse, PutBodyError, PutPrepare, PutWrite, PutWriteError,
                PutRow, PutRowError, PutChunk, PutChunkError, PutCount, PutCountError, store
  <1>3. ASSUME NEW w \in Worker, GetStep(w) \/ CleanStep(w)
        PROVE  disk' = disk /\ chunkRows' = chunkRows
    BY <1>3 DEF GetStep, GetList, GetNoChunks, GetRead, GetReadError, GetReply, GetAgainError,
                CleanStep, CleanOne, CleanOneError, CleanEnd, store
  <1>4. ASSUME NEW w \in Worker, DeleteStep(w)
        PROVE  (D(w) \/ disk' = disk) /\ chunkRows' = chunkRows
    BY <1>4 DEF DeleteStep, DeleteList, DeleteListError, DeleteDisk, DeleteDiskError,
                DeleteRow, DeleteLost, DeleteRowError, DeleteBucketRead, DeleteBucketGone,
                DeleteCount, DeleteCountError, store
  <1>5. NoFileChange \/ UNCHANGED vars => disk' = disk /\ chunkRows' = chunkRows
    BY DEF NoFileChange, vars
  <1>6. ASSUME NEW f \in File, Expire(f) PROVE disk' = disk /\ chunkRows' = chunkRows
    BY <1>6 DEF Expire
  <1> QED
    BY <1>1, <1>2, <1>3, <1>4, <1>5, <1>6, StepKinds DEF Begin, Step, FileStep, Lost

-----------------------------------------------------------------------------
(* Where a request comes from and where it goes *)

\* The steps that lead to the labels the invariants speak of.
Arrives(w) ==
    /\ pc'[w] = "mkInsert" => CreateBegin(w)
    /\ pc'[w] = "putWrite" => PutPrepare(w) \/ PutWrite(w)
    /\ pc'[w] = "putChunk" => PutRow(w) \/ PutChunk(w) \/ PutChunkError(w)
    /\ pc'[w] = "delDisk" =>
        DeleteList(w) \/ DeleteListError(w) \/ DeleteDisk(w) \/ DeleteDiskError(w)
    /\ pc'[w] = "delBucket" => DeleteRow(w)
    /\ pc'[w] = "delCount" => DeleteBucketRead(w)
    /\ pc'[w] = "getRead" => GetList(w) \/ GetRead(w)
    /\ pc'[w] = "clean" => CleanBegin(w) \/ CleanStep(w)

LEMMA Arrival ==
    ASSUME TypeOK, NEW w \in Worker, Begin(w) \/ Step(w) \/ Lost(w)
    PROVE  Arrives(w)
  <1> DEFINE Marked == {"mkInsert", "putWrite", "putChunk", "delDisk", "delBucket",
                        "delCount", "getRead", "clean"}
  <1>1. ASSUME NEW l, NEW b, NEW f, NEW t, NEW row, Enter(w, l, b, f, t, row), l \notin Marked
        PROVE  Arrives(w)
    BY <1>1, Entered DEF Arrives
  <1>2. ASSUME Return(w) PROVE Arrives(w)
    BY <1>2, Returned DEF Arrives
  <1>3. CASE FileBegin(w)
    <2>1. CASE CleanBegin(w)
      <3>1. pc'[w] = "clean"
        BY <2>1, Entered DEF CleanBegin
      <3> QED
        BY <2>1, <3>1 DEF Arrives
    <2> QED
      BY <1>1, <1>3, <2>1 DEF FileBegin, PutBegin, GetBegin, DeleteBegin
  <1>4. CASE PutPrepare(w) \/ PutWrite(w)
    <2>1. pc'[w] = "putWrite"
      BY <1>4, Entered, TickedOn DEF PutPrepare, PutWrite
    <2> QED
      BY <1>4, <2>1 DEF Arrives
  <1>5. CASE PutRow(w) \/ PutChunk(w) \/ PutChunkError(w)
    <2>1. pc'[w] = "putChunk"
      BY <1>5, Entered, TickedOn DEF PutRow, PutChunk, PutChunkError
    <2> QED
      BY <1>5, <2>1 DEF Arrives
  <1>6. CASE \/ PutRefuse(w) \/ PutBodyError(w) \/ PutWriteError(w) \/ PutRowError(w)
             \/ PutCount(w) \/ PutCountError(w)
    BY <1>2, <1>6 DEF PutRefuse, PutBodyError, PutWriteError, PutRowError, PutCount, PutCountError
  <1>7. CASE GetList(w) \/ GetRead(w)
    <2>1. pc'[w] = "getRead"
      <3>1. CASE GetList(w)
        BY <3>1, Entered DEF GetList
      <3>2. CASE GetRead(w)
        BY <3>2, TickedOn DEF GetRead
      <3> QED
        BY <1>7, <3>1, <3>2
    <2> QED
      BY <1>7, <2>1 DEF Arrives
  <1>8. CASE GetNoChunks(w) \/ GetReadError(w) \/ GetReply(w) \/ GetAgainError(w)
    BY <1>2, <1>8 DEF GetNoChunks, GetReadError, GetReply, GetAgainError
  <1>9. CASE DeleteList(w) \/ DeleteListError(w) \/ DeleteDisk(w) \/ DeleteDiskError(w)
    <2>1. pc'[w] = "delDisk"
      BY <1>9, Entered, TickedOn DEF DeleteList, DeleteListError, DeleteDisk, DeleteDiskError
    <2> QED
      BY <1>9, <2>1 DEF Arrives
  <1>10. CASE DeleteRow(w)
    <2>1. pc'[w] = "delBucket"
      BY <1>10, Entered DEF DeleteRow
    <2> QED
      BY <1>10, <2>1 DEF Arrives
  <1>11. CASE DeleteBucketRead(w)
    <2>1. pc'[w] = "delCount"
      BY <1>11, Entered DEF DeleteBucketRead
    <2> QED
      BY <1>11, <2>1 DEF Arrives
  <1>12. CASE \/ DeleteLost(w) \/ DeleteRowError(w) \/ DeleteBucketGone(w)
              \/ DeleteCount(w) \/ DeleteCountError(w)
    BY <1>2, <1>12 DEF DeleteLost, DeleteRowError, DeleteBucketGone, DeleteCount, DeleteCountError
  <1>13. CASE CleanStep(w)
    <2>1. pc'[w] \in {"idle", "clean"}
      BY <1>13, Returned, TickedOn DEF CleanStep, CleanOne, CleanOneError, CleanEnd
    <2> QED
      BY <1>13, <2>1 DEF Arrives
  <1>14. CASE CreateBegin(w)
    <2>1. pc'[w] = "mkInsert"
      BY <1>14, Entered DEF CreateBegin
    <2> QED
      BY <1>14, <2>1 DEF Arrives
  <1>15. ASSUME NEW b \in Bucket, RemoveBegin(w, b) PROVE Arrives(w)
    BY <1>1, <1>15 DEF RemoveBegin
  <1>16. ASSUME NEW b \in Bucket, VersionBegin(w, b) PROVE Arrives(w)
    <2>1. PICK v \in Versioning :
              Enter(w, "verWrite", b, None, {}, [buckets[b] EXCEPT !.versioning = v])
      BY <1>16 DEF VersionBegin
    <2> QED
      BY <1>1, <2>1
  <1>17. CASE BucketStep(w)
    BY <1>1, <1>2, <1>17 DEF BucketStep, CreateInsert, CreateInsertError, RemoveCount,
        RemoveRefused, RemoveRow, RemoveRowError, VersionWrite, VersionWriteError
  <1>18. CASE Lost(w)
    BY <1>2, <1>18 DEF Lost, Crash
  <1> QED
    BY <1>3, <1>4, <1>5, <1>6, <1>7, <1>8, <1>9, <1>10, <1>11, <1>12, <1>13, <1>14, <1>15,
       <1>16, <1>17, <1>18
    DEF Begin, Step, FileStep, PutStep, GetStep, DeleteStep, BucketBegin

\* The steps a request can take at those labels.
LEMMA Departure ==
    ASSUME NEW w \in Worker, Begin(w) \/ Step(w)
    PROVE  /\ pc[w] = "putWrite" =>
                PutWrite(w) \/ PutWriteError(w) \/ PutRow(w) \/ PutRowError(w)
           /\ pc[w] = "putChunk" =>
                PutChunk(w) \/ PutChunkError(w) \/ PutCount(w) \/ PutCountError(w)
           /\ pc[w] = "delDisk" =>
                \/ DeleteDisk(w) \/ DeleteDiskError(w)
                \/ DeleteRow(w) \/ DeleteLost(w) \/ DeleteRowError(w)
           /\ pc[w] = "delBucket" => DeleteBucketRead(w) \/ DeleteBucketGone(w)
           /\ pc[w] = "delCount" => DeleteCount(w) \/ DeleteCountError(w)
  <1>1. CASE Begin(w)
    <2>1. pc[w] = "idle"
      BY <1>1 DEF Begin, FileBegin, BucketBegin, PutBegin, GetBegin, DeleteBegin, CleanBegin,
                  CreateBegin, RemoveBegin, VersionBegin
    <2> QED
      BY <2>1
  <1>2. CASE PutStep(w)
    BY <1>2 DEF PutStep, PutRefuse, PutBodyError, PutPrepare, PutWrite, PutWriteError, PutRow,
        PutRowError, AllWritten, PutChunk, PutChunkError, PutCount, PutCountError, ChunksDone
  <1>3. CASE DeleteStep(w)
    BY <1>3 DEF DeleteStep, DeleteList, DeleteListError, DeleteDisk, DeleteDiskError, DeleteRow,
        DeleteLost, DeleteRowError, DeleteBucketRead, DeleteBucketGone, DeleteCount,
        DeleteCountError
  <1>4. CASE GetStep(w) \/ CleanStep(w)
    BY <1>4 DEF GetStep, GetList, GetNoChunks, GetRead, GetReadError, GetReply, GetAgainError,
        CleanStep, CleanOne, CleanOneError, CleanEnd
  <1>5. CASE BucketStep(w)
    BY <1>5 DEF BucketStep, CreateInsert, CreateInsertError, RemoveCount, RemoveRefused,
        RemoveRow, RemoveRowError, VersionWrite, VersionWriteError
  <1> QED
    BY <1>1, <1>2, <1>3, <1>4, <1>5 DEF Step, FileStep

\* As long as nothing has failed, no step is a failure, and none loses a request.
LEMMA CalmStep ==
    ASSUME TypeOK
    PROVE  /\ NoneFailed' => ~Fault
           /\ Unharmed' => ~Fault /\ \A w \in Worker : ~Lost(w)
  BY DEF NoneFailed, Unharmed, Fault, Lost, Crash, TypeOK

-----------------------------------------------------------------------------
(* The versioning setting, and the stack of versions *)

\* Whatever calls fail and requests die, when requests come one at a time only
\* UpdateBucketVersioning changes a bucket's versioning: the other requests
\* write back the setting they read.
LEMMA SettingKept ==
    ASSUME TypeOK, SerialInv, [Next]_vars, NEW b \in Bucket, LiveBucket(b),
           buckets'[b].versioning # buckets[b].versioning
    PROVE  \E w \in Worker : pc[w] = "verWrite" /\ pc'[w] = "idle"
  <1>1. PICK w \in Worker : CountChanged(w) \/ BucketStep(w)
    BY BucketWriters
  <1>2. CASE PutCount(w) \/ PutCountError(w)
    <2>1. /\ at[w] \in Bucket /\ snap[w] = buckets[at[w]]
          /\ UpdateBucket(at[w], Charged(snap[w], files[obj[w]].size))
      BY <1>2, Locals
      DEF PutCount, PutCountError, ChunksDone, TypeOK, HasBucket, SerialInv, HoldingOK
    <2>2. buckets[at[w]] \in BucketRow
      BY <2>1 DEF TypeOK, StoreTypeOK
    <2>3. Charged(snap[w], files[obj[w]].size).versioning = buckets[at[w]].versioning
      BY <2>1, <2>2 DEF Charged, BucketRow
    <2> QED
      BY <2>1, <2>3 DEF UpdateBucket, TypeOK, StoreTypeOK
  <1>3. CASE DeleteCount(w) \/ DeleteCountError(w)
    <2>1. /\ at[w] \in Bucket /\ snap[w] = buckets[at[w]]
          /\ UpdateBucket(at[w], Refunded(snap[w], files[obj[w]].size))
      BY <1>3, Locals DEF DeleteCount, DeleteCountError, TypeOK, HasBucket, SerialInv, HoldingOK
    <2>2. buckets[at[w]] \in BucketRow
      BY <2>1 DEF TypeOK, StoreTypeOK
    <2>3. Refunded(snap[w], files[obj[w]].size).versioning = buckets[at[w]].versioning
      BY <2>1, <2>2 DEF Refunded, BucketRow
    <2> QED
      BY <2>1, <2>3 DEF UpdateBucket, TypeOK, StoreTypeOK
  <1>4. CASE BucketStep(w)
    <2>1. CASE CreateInsert(w) \/ CreateInsertError(w)
      BY <2>1 DEF CreateInsert, CreateInsertError, InsertBucket, LiveBucket, TypeOK, StoreTypeOK
    <2>2. CASE RemoveCount(w) \/ RemoveRefused(w)
      BY <2>2 DEF RemoveCount, RemoveRefused
    <2>3. CASE RemoveRow(w) \/ RemoveRowError(w)
      <3>1. at[w] \in Bucket
        BY <2>3, Locals DEF RemoveRow, RemoveRowError, TypeOK, HasBucket
      <3> QED
        BY <2>3, <3>1 DEF RemoveRow, RemoveRowError, SoftDeleteBucket, TypeOK, StoreTypeOK,
                          BucketRow
    <2>4. CASE VersionWrite(w) \/ VersionWriteError(w)
      BY <2>4, Returned DEF VersionWrite, VersionWriteError
    <2> QED
      BY <1>4, <2>1, <2>2, <2>3, <2>4 DEF BucketStep
  <1> QED
    BY <1>1, <1>2, <1>3, <1>4 DEF CountChanged

THEOREM VersioningKept == Spec /\ []OneAtATime => VersioningSticks
  <1>1. TypeOK /\ SerialInv /\ [Next]_vars =>
          [\A b \in Bucket :
              LiveBucket(b) /\ buckets'[b].versioning # buckets[b].versioning =>
                \E w \in Worker : pc[w] = "verWrite" /\ pc'[w] = "idle"]_vars
    BY SettingKept
  <1> QED
    BY <1>1, SerialInvariance, TypeCorrect, PTL DEF Spec, VersioningSticks

\* One step's change to the versions of a key.
Stacked(b, k) ==
    LET before == Versions(b, k)
        after == Versions(b, k)'
    IN after # before =>
        \E f \in File :
            \/ /\ after = before \cup {f}
               /\ \A g \in before : files[g].created < files'[f].created
            \/ /\ before = after \cup {f}
               /\ \A g \in after : files[g].created < files[f].created

LEMMA StackStep ==
    ASSUME TypeOK, FileInv, SerialInv, Unswept, [Next]_vars, NEW b \in Bucket, NEW k \in Key
    PROVE  Stacked(b, k)
  <1>0. \A f \in File : files[f].created \in Nat
    BY DEF TypeOK, StoreTypeOK, FileRow
  <1>1. CASE LiveKept
    <2>1. Versions(b, k)' = Versions(b, k)
      BY <1>1 DEF LiveKept, Versions
    <2> QED
      BY <2>1 DEF Stacked
  <1>2. ASSUME NEW w \in Worker, PutRow(w) \/ PutRowError(w) PROVE Stacked(b, k)
    <2>1. /\ pc[w] = "putWrite" /\ obj[w] \in File
          /\ files' = files \/ InsertFile(obj[w])
      BY <1>2, Locals DEF PutRow, PutRowError, AllWritten, TypeOK, HasFile
    <2>2. CASE files' = files
      BY <2>2 DEF Stacked, Versions, LiveFile
    <2>3. CASE InsertFile(obj[w])
      <3> DEFINE o == obj[w]
      <3>1. files[o].state = "building" /\ files[o].created = clock
        BY <2>1 DEF FileInv, WritingOK, SerialInv, HoldingOK
      <3>2. /\ files'[o].state = "live" /\ files'[o].bucket = files[o].bucket
            /\ files'[o].key = files[o].key /\ files'[o].created = files[o].created
            /\ \A g \in File \ {o} : files'[g] = files[g]
        BY <2>1, <2>3 DEF InsertFile, TypeOK, StoreTypeOK, FileRow
      <3>3. \A g \in File : LiveFile(g) => files[g].created < clock
        BY <1>0, <2>1, <3>1 DEF SerialInv, StampsOK, LiveFile, TypeOK, StoreTypeOK
      <3>4. CASE files[o].bucket = b /\ files[o].key = k
        <4>1. Versions(b, k)' = Versions(b, k) \cup {o}
          BY <2>1, <3>1, <3>2, <3>4 DEF Versions, LiveFile
        <4>2. \A g \in Versions(b, k) : files[g].created < files'[o].created
          BY <3>1, <3>2, <3>3 DEF Versions
        <4> QED
          BY <2>1, <4>1, <4>2 DEF Stacked
      <3>5. CASE ~(files[o].bucket = b /\ files[o].key = k)
        <4>1. Versions(b, k)' = Versions(b, k)
          BY <2>1, <3>1, <3>2, <3>5 DEF Versions, LiveFile
        <4> QED
          BY <4>1 DEF Stacked
      <3> QED
        BY <3>4, <3>5
    <2> QED
      BY <2>1, <2>2, <2>3
  <1>3. ASSUME NEW w \in Worker, DeleteRow(w) \/ DeleteRowError(w) PROVE Stacked(b, k)
    <2>1. /\ pc[w] = "delDisk" /\ obj[w] \in File
          /\ files' = files \/ SoftDeleteFile(obj[w])
      BY <1>3, Locals DEF DeleteRow, DeleteRowError, TypeOK, HasFile
    <2>2. CASE files' = files
      BY <2>2 DEF Stacked, Versions, LiveFile
    <2>3. CASE SoftDeleteFile(obj[w])
      <3> DEFINE o == obj[w]
      <3>1. o \in Latest(at[w], files[o].key)
        BY <2>1 DEF SerialInv, HoldingOK
      <3>2. /\ files'[o].state = "deleted"
            /\ \A g \in File \ {o} : files'[g] = files[g]
        BY <2>1, <2>3 DEF SoftDeleteFile, TypeOK, StoreTypeOK, FileRow
      <3>3. Versions(b, k)' = Versions(b, k) \ {o}
        BY <2>1, <3>2 DEF Versions, LiveFile
      <3>4. CASE o \in Versions(b, k)
        <4>1. b = at[w] /\ k = files[o].key
          BY <3>1, <3>4 DEF Versions, Latest
        <4>2. \A g \in Versions(b, k) : files[g].created <= files[o].created
          BY <3>1, <4>1 DEF Latest
        <4>3. \A g \in Versions(b, k) \ {o} : files[g].created # files[o].created
          BY <2>1, <3>4 DEF SerialInv, StampsOK, Versions, LiveFile
        <4>4. \A g \in Versions(b, k) \ {o} : files[g].created < files[o].created
          BY <1>0, <2>1, <4>2, <4>3 DEF Versions
        <4>5. Versions(b, k) = (Versions(b, k) \ {o}) \cup {o}
          BY <3>4
        <4> QED
          BY <2>1, <3>3, <4>4, <4>5 DEF Stacked
      <3>5. CASE o \notin Versions(b, k)
        BY <3>3, <3>5 DEF Stacked
      <3> QED
        BY <3>4, <3>5
    <2> QED
      BY <2>1, <2>2, <2>3
  <1> QED
    BY <1>1, <1>2, <1>3, LiveWriters DEF RowChanged, Unswept, CleanOne, CleanOneError

\* Whatever calls fail and requests die, when requests come one at a time and
\* nothing is swept an upload lays its version on top of its key's and a
\* delete takes off the top.
THEOREM StackKept == Spec /\ [](OneAtATime /\ Unswept) => VersionsStack
  <1>1. ASSUME TypeOK, FileInv, SerialInv, Unswept, [Next]_vars
        PROVE  [\A b \in Bucket, k \in Key :
                LET before == Versions(b, k)
                    after == Versions(b, k)'
                IN after # before =>
                    \E f \in File :
                        \/ /\ after = before \cup {f}
                           /\ \A g \in before : files[g].created < files'[f].created
                        \/ /\ before = after \cup {f}
                           /\ \A g \in after : files[g].created < files[f].created]_vars
    BY <1>1, StackStep DEF Stacked
  <1>2. IndInv => TypeOK /\ FileInv
    BY DEF IndInv
  <1> QED
    BY <1>1, <1>2, SerialInvariance, Invariance, PTL DEF Spec, VersionsStack

-----------------------------------------------------------------------------
(* Names *)

\* NamesInv is inductive as long as requests come one at a time and no call
\* fails.
LEMMA NextNames ==
    ASSUME TypeOK, NamesInv, OneAtATime, OneAtATime', NoneFailed', [Next]_vars
    PROVE  NamesInv'
  <1>0. ~Fault
    BY CalmStep
  <1>1. ASSUME NEW w \in Worker, Begin(w) \/ Step(w) \/ Lost(w)
        PROVE  \A v \in Worker : pc'[v] = "mkInsert" => v = w /\ CreateBegin(w)
    BY <1>1, OnlyOne, Arrival DEF Arrives
  <1>2. ASSUME NEW w \in Worker, CreateBegin(w) PROVE NamesInv'
    <2>1. PICK n \in Name, m \in Quota :
              ~NameTaken(n) /\ Enter(w, "mkInsert", None, None, {}, NewBucket(n, m))
      BY <1>0, <1>2 DEF CreateBegin
    <2>2. buckets' = buckets
      BY <1>2 DEF CreateBegin
    <2>3. \A v \in Worker : pc'[v] = "mkInsert" => v = w
      <3>1. pc'[w] = "mkInsert"
        BY <2>1, Entered
      <3> QED
        BY <3>1 DEF OneAtATime
    <2>4. snap'[w].name = n
      BY <2>1, Entered DEF NewBucket
    <2> QED
      BY <2>1, <2>2, <2>3, <2>4 DEF NamesInv, LiveNamesUnique, NameTaken, GetByName, LiveBucket
  <1>3. CASE buckets' = buckets /\ pc' = pc /\ snap' = snap
    BY <1>3 DEF NamesInv, LiveNamesUnique, NameTaken, GetByName, LiveBucket
  <1>4. ASSUME NEW w \in Worker, Begin(w) \/ Step(w) \/ Lost(w), ~CreateBegin(w)
        PROVE  NamesInv'
    <2>1. \A v \in Worker : pc'[v] # "mkInsert"
      BY <1>1, <1>4
    <2>2. CASE \A b \in Bucket : LiveBucket(b)' =>
                    LiveBucket(b) /\ buckets'[b].name = buckets[b].name
      BY <2>1, <2>2 DEF NamesInv, LiveNamesUnique
    <2>3. ASSUME NEW v \in Worker, NEW b \in Bucket, pc[v] = "mkInsert",
                 buckets[b].state = "absent", InsertBucket(b, snap[v])
          PROVE  NamesInv'
      <3>1. buckets'[b] = snap[v] /\ \A c \in Bucket \ {b} : buckets'[c] = buckets[c]
        BY <2>3 DEF InsertBucket, TypeOK, StoreTypeOK
      <3>2. \A c \in Bucket : LiveBucket(c) => buckets[c].name # snap[v].name
        BY <2>3 DEF NamesInv, NameTaken, GetByName
      <3> QED
        BY <2>1, <3>1, <3>2 DEF NamesInv, LiveNamesUnique, LiveBucket
    <2>4. ASSUME NEW b \in Bucket, NEW row, UpdateBucket(b, row) PROVE NamesInv'
      <3>1. \A c \in Bucket : LiveBucket(c)' =>
                    LiveBucket(c) /\ buckets'[c].name = buckets[c].name
        BY <2>4 DEF UpdateBucket, LiveBucket, TypeOK, StoreTypeOK
      <3> QED
        BY <2>2, <3>1
    <2>5. ASSUME NEW b \in Bucket, SoftDeleteBucket(b) PROVE NamesInv'
      <3>1. \A c \in Bucket : LiveBucket(c)' =>
                    LiveBucket(c) /\ buckets'[c].name = buckets[c].name
        BY <2>5 DEF SoftDeleteBucket, LiveBucket, TypeOK, StoreTypeOK, BucketRow
      <3> QED
        BY <2>2, <3>1
    <2>6. CASE buckets' = buckets
      BY <2>2, <2>6 DEF LiveBucket
    <2>7. ASSUME NEW v \in Worker, CountChanged(v) PROVE NamesInv'
      <3>1. PutCount(v) \/ DeleteCount(v)
        BY <1>0, <2>7 DEF CountChanged, PutCountError, DeleteCountError
      <3>2. at[v] \in Bucket
        BY <3>1, Locals DEF PutCount, ChunksDone, DeleteCount, TypeOK, HasBucket
      <3> QED
        BY <2>4, <3>1, <3>2 DEF PutCount, DeleteCount
    <2>8. ASSUME NEW v \in Worker, BucketStep(v) PROVE NamesInv'
      <3>1. pc[v] \in {"rmRow", "verWrite"} => at[v] \in Bucket
        BY Locals DEF TypeOK, HasBucket
      <3> QED
        BY <1>0, <2>3, <2>4, <2>5, <2>6, <2>8, <3>1 DEF BucketStep, CreateInsert,
           CreateInsertError, RemoveCount, RemoveRefused, RemoveRow, RemoveRowError,
           VersionWrite, VersionWriteError
    <2> QED
      BY <2>6, <2>7, <2>8, BucketWriters
  <1>5. ASSUME NEW f \in File, Expire(f) PROVE NamesInv'
    BY <1>3, <1>5 DEF Expire, local
  <1>6. CASE UNCHANGED vars
    BY <1>3, <1>6 DEF vars
  <1> QED
    BY <1>2, <1>4, <1>5, <1>6, StepKinds

LEMMA InitNames == Init => NamesInv
  <1> SUFFICES ASSUME Init PROVE NamesInv
    OBVIOUS
  <1>1. PICK nm \in [Existing -> Name], mx \in [Existing -> Quota] :
          /\ \A b, c \in Existing : nm[b] = nm[c] => b = c
          /\ buckets = [b \in Bucket |-> IF b \in Existing
                                         THEN NewBucket(nm[b], mx[b])
                                         ELSE AbsentBucket]
    BY DEF Init
  <1>2. LiveNamesUnique
    BY <1>1 DEF LiveNamesUnique, LiveBucket, NewBucket, AbsentBucket
  <1> QED
    BY <1>2 DEF Init, RequestInit, NamesInv

\* Requests that come one at a time never give two live buckets one name, as
\* long as no call fails: a lookup that fails is taken for a free name.
THEOREM NamesUnique == Spec /\ [](OneAtATime /\ NoneFailed) => []LiveNamesUnique
  <1>1. NamesInv => LiveNamesUnique
    BY DEF NamesInv
  <1> QED
    BY <1>1, InitNames, NextNames, TypeCorrect, PTL DEF Spec

-----------------------------------------------------------------------------
(* Chunk rows *)

\* Only PutObject's INSERT makes a row.
LEMMA NewRow ==
    ASSUME TypeOK, FileInv, [Next]_vars, NEW f \in File, ~Inserted(f), Inserted(f)'
    PROVE  \E w \in Worker : (PutRow(w) \/ PutRowError(w)) /\ obj[w] = f
  <1>1. LiveFile(f)'
    <2>1. FileMoves
      BY StepMoves
    <2> QED
      BY <2>1 DEF FileMoves, PutPrepare, InsertFile, SoftDeleteFile, Inserted, LiveFile,
                  TypeOK, StoreTypeOK, FileRow
  <1>2. PICK w \in Worker : RowChanged(w)
    BY <1>1, LiveWriters DEF LiveKept, Inserted, LiveFile
  <1>3. CASE DeleteRow(w) \/ DeleteRowError(w)
    <2>1. obj[w] \in File /\ (files' = files \/ SoftDeleteFile(obj[w]))
      BY <1>3, Locals DEF DeleteRow, DeleteRowError, TypeOK, HasFile
    <2> QED
      BY <1>1, <2>1 DEF SoftDeleteFile, Inserted, LiveFile, TypeOK, StoreTypeOK, FileRow
  <1>4. CASE CleanOne(w) \/ CleanOneError(w)
    <2>1. files' = files \/ \E g \in File : SoftDeleteFile(g)
      BY <1>4, Locals DEF CleanOne, CleanOneError, TypeOK
    <2> QED
      BY <1>1, <2>1 DEF SoftDeleteFile, Inserted, LiveFile, TypeOK, StoreTypeOK, FileRow
  <1>5. CASE PutRow(w) \/ PutRowError(w)
    <2>1. obj[w] \in File /\ (files' = files \/ InsertFile(obj[w]))
      BY <1>5, Locals DEF PutRow, PutRowError, AllWritten, TypeOK, HasFile
    <2>2. obj[w] = f
      BY <1>1, <2>1 DEF InsertFile, Inserted, LiveFile, TypeOK, StoreTypeOK
    <2> QED
      BY <1>5, <2>2
  <1> QED
    BY <1>2, <1>3, <1>4, <1>5 DEF RowChanged

\* RowsInv is inductive as long as no call fails and no request is lost,
\* however requests interleave.
LEMMA NextRows ==
    ASSUME IndInv, RowsInv, Unharmed, Unharmed', [Next]_vars
    PROVE  RowsInv'
  <1>0. TypeOK /\ FileInv /\ FileInv' /\ ~Fault /\ \A w \in Worker : ~Lost(w)
    BY NextInv, CalmStep DEF IndInv
  <1> SUFFICES ASSUME NEW f \in File, Inserted(f)'
               PROVE  \/ chunkRows'[f] = ShardsOfFile(f)'
                      \/ \E w \in Worker : pc'[w] = "putChunk" /\ obj'[w] = f
    BY DEF RowsInv
  <1>1. chunkRows[f] \subseteq chunkRows'[f]
    BY <1>0, ChunkWriters DEF PutChunk, PutChunkError, CreateChunk, TypeOK, StoreTypeOK
  <1>2. chunkRows'[f] \subseteq ShardsOfFile(f)'
    BY <1>0 DEF FileInv, RecordingOK
  <1>3. CASE ~Inserted(f)
    <2>1. PICK w \in Worker : (PutRow(w) \/ PutRowError(w)) /\ obj[w] = f
      BY <1>0, <1>3, NewRow
    <2>2. PutRow(w)
      BY <1>0, <2>1 DEF PutRowError
    <2> QED
      BY <1>0, <2>1, <2>2, Entered DEF PutRow
  <1>4. CASE Inserted(f)
    <2>1. ShardsOfFile(f)' = ShardsOfFile(f)
      BY <1>0, <1>4, SizesKept DEF ShardsOfFile, Inserted
    <2>2. CASE chunkRows[f] = ShardsOfFile(f)
      BY <1>1, <1>2, <2>1, <2>2
    <2>3. ASSUME NEW v \in Worker, pc[v] = "putChunk", obj[v] = f
          PROVE  \/ chunkRows'[f] = ShardsOfFile(f)'
                 \/ pc'[v] = "putChunk" /\ obj'[v] = f
      <3>1. ASSUME NEW w \in Worker, Begin(w) \/ Step(w), w # v
            PROVE  pc'[v] = "putChunk" /\ obj'[v] = f
        BY <1>0, <2>3, <3>1, WorkerActs DEF Acts, Others
      <3>2. CASE PutChunk(v) \/ PutChunkError(v)
        BY <1>0, <2>3, <3>2, TickedOn DEF PutChunk, PutChunkError
      <3>3. CASE PutCount(v)
        <4>1. ShardsOfFile(f) \subseteq chunkRows[f]
          BY <1>0, <2>3, <3>3 DEF PutCount, ChunksDone, Unharmed, FileInv, RecordingOK
        <4> QED
          BY <1>1, <1>2, <2>1, <4>1
      <3>4. CASE Begin(v) \/ Step(v)
        BY <1>0, <2>3, <3>2, <3>3, <3>4, Departure DEF PutCountError
      <3>5. CASE pc' = pc /\ obj' = obj
        BY <2>3, <3>5
      <3> QED
        BY <1>0, <3>1, <3>4, <3>5, StepKinds DEF Expire, vars, local
    <2> QED
      BY <1>4, <2>2, <2>3 DEF RowsInv
  <1> QED
    BY <1>3, <1>4

LEMMA InitRows == Init => RowsInv
  BY DEF Init, UnusedFile, RowsInv, Inserted

\* Once it starts to read, a download has the row of every chunk.
LEMMA ReadStarts ==
    ASSUME TypeOK, SerialInv, RowsInv, OneAtATime, [Next]_vars, NEW w \in Worker,
           pc[w] = "getList", pc'[w] = "getRead"
    PROVE  todo'[w] = ShardsOfFile(obj[w])
  <1>1. Begin(w) \/ Step(w) \/ Lost(w)
    BY StepKinds, WorkerActs DEF Acts, Others, Expire, local, vars
  <1>2. GetList(w)
    BY <1>1, Arrival DEF Arrives, GetRead
  <1>3. todo'[w] = chunkRows[obj[w]]
    BY <1>2, Entered DEF GetList
  <1>4. obj[w] \in File /\ Inserted(obj[w])
    BY Locals DEF TypeOK, HasFile, SerialInv, HoldingOK
  <1>5. ~ \E v \in Worker : pc[v] = "putChunk" /\ obj[v] = obj[w]
    BY DEF OneAtATime
  <1> QED
    BY <1>3, <1>4, <1>5 DEF RowsInv

\* When requests come one at a time, no call fails and none is lost, no
\* download ever decodes part of a version's shards.
THEOREM ReadsAreWhole == Spec /\ [](OneAtATime /\ Unharmed) => WholeReads
  <1>1. TypeOK /\ SerialInv /\ RowsInv /\ OneAtATime /\ [Next]_vars =>
          [\A w \in Worker :
            pc[w] = "getList" /\ pc'[w] = "getRead" => todo'[w] = ShardsOfFile(obj[w])]_vars
    BY ReadStarts
  <1> QED
    BY <1>1, InitRows, NextRows, SerialInvariance, Invariance, TypeCorrect, PTL
    DEF Spec, WholeReads

-----------------------------------------------------------------------------
(* Counting *)

\* The n bytes of a file.
LEMMA Block ==
    ASSUME NEW f, NEW n \in Nat
    PROVE  IsFiniteSet({f} \X (1 .. n)) /\ Cardinality({f} \X (1 .. n)) = n
  <1>1. IsFiniteSet({f}) /\ Cardinality({f}) = 1
    BY FS_Singleton
  <1>2. IsFiniteSet(1 .. n) /\ Cardinality(1 .. n) = n
    <2>1. 1 \in Int /\ n \in Int
      OBVIOUS
    <2>2. IsFiniteSet(1 .. n) /\ Cardinality(1 .. n) = IF 1 > n THEN 0 ELSE n - 1 + 1
      BY ONLY <2>1, FS_Interval
    <2> QED
      BY <2>2
  <1>3. /\ IsFiniteSet({f} \X (1 .. n))
        /\ Cardinality({f} \X (1 .. n)) = Cardinality({f}) * Cardinality(1 .. n)
    BY ONLY <1>1, <1>2, FS_Product, Zenon
  <1> QED
    BY <1>1, <1>2, <1>3

LEMMA Joined ==
    ASSUME NEW B, NEW R, IsFiniteSet(B), IsFiniteSet(R), B \cap R = {}
    PROVE  /\ IsFiniteSet(B \cup R)
           /\ Cardinality(B \cup R) = Cardinality(B) + Cardinality(R)
  <1>1. Cardinality(B) \in Nat /\ Cardinality(R) \in Nat
    BY FS_CardinalityType
  <1>2. Cardinality(B \cap R) = 0
    BY FS_EmptySet
  <1>3. /\ IsFiniteSet(B \cup R)
        /\ Cardinality(B \cup R) =
                Cardinality(B) + Cardinality(R) - Cardinality(B \cap R)
    BY FS_Union, Zenon
  <1> QED
    BY <1>1, <1>2, <1>3

LEMMA TakenOut ==
    ASSUME NEW B, NEW R, IsFiniteSet(B), IsFiniteSet(R), R \subseteq B
    PROVE  /\ IsFiniteSet(B \ R)
           /\ Cardinality(B \ R) = Cardinality(B) - Cardinality(R)
  <1>1. B \cap R = R
    OBVIOUS
  <1> QED
    BY <1>1, FS_Difference

\* What is finite can be counted.
Countable(b) == IsFiniteSet(FilesOf(b)) /\ IsFiniteSet(BytesOf(b))

LEMMA CountType ==
    ASSUME NEW b \in Bucket, Countable(b)
    PROVE  StoredBytes(b) \in Nat /\ Cardinality(FilesOf(b)) \in Nat
  BY FS_CardinalityType DEF Countable, StoredBytes

\* Nothing changes what a bucket holds as long as no row does.
LEMMA SameFiles ==
    ASSUME LiveKept, NEW b \in Bucket
    PROVE  /\ Countable(b) => Countable(b)'
           /\ StoredBytes(b)' = StoredBytes(b)
           /\ Cardinality(FilesOf(b))' = Cardinality(FilesOf(b))
  <1>1. FilesOf(b)' = FilesOf(b)
    BY DEF LiveKept, FilesOf
  <1>2. \A f \in FilesOf(b) : files'[f].size = files[f].size
    BY DEF LiveKept, FilesOf
  <1>3. BytesOf(b)' = BytesOf(b)
    BY <1>1, <1>2 DEF BytesOf
  <1> QED
    BY <1>1, <1>3 DEF Countable, StoredBytes

\* An upload's INSERT adds one version and its bytes to one bucket.
LEMMA FileAdded ==
    ASSUME TypeOK, NEW o \in File, files[o].state = "building", InsertFile(o),
           NEW b \in Bucket, Countable(b)
    PROVE  /\ Countable(b)'
           /\ files[o].bucket = b =>
                /\ StoredBytes(b)' = StoredBytes(b) + files[o].size
                /\ Cardinality(FilesOf(b))' = Cardinality(FilesOf(b)) + 1
           /\ files[o].bucket # b =>
                /\ StoredBytes(b)' = StoredBytes(b)
                /\ Cardinality(FilesOf(b))' = Cardinality(FilesOf(b))
  <1>1. /\ \A f \in File : files'[f].bucket = files[f].bucket /\ files'[f].size = files[f].size
        /\ \A f \in File : LiveFile(f)' <=> LiveFile(f) \/ f = o
        /\ ~LiveFile(o)
    BY DEF InsertFile, LiveFile, TypeOK, StoreTypeOK, FileRow
  <1>2. files[o].size \in Nat
    BY DEF TypeOK, StoreTypeOK, FileRow
  <1>3. CASE files[o].bucket = b
    <2>1. FilesOf(b)' = FilesOf(b) \cup {o} /\ o \notin FilesOf(b)
      BY <1>1, <1>3 DEF FilesOf
    <2>2. BytesOf(b)' = BytesOf(b) \cup ({o} \X (1 .. files[o].size))
      <3>1. \A f \in FilesOf(b)' : files'[f].size = files[f].size
        BY <1>1 DEF FilesOf
      <3> QED
        BY <2>1, <3>1 DEF BytesOf
    <2>3. BytesOf(b) \cap ({o} \X (1 .. files[o].size)) = {}
      BY <2>1 DEF BytesOf
    <2>4. /\ IsFiniteSet(BytesOf(b)')
          /\ Cardinality(BytesOf(b)') = Cardinality(BytesOf(b)) + files[o].size
      <3> DEFINE R == {o} \X (1 .. files[o].size)
      <3>1. IsFiniteSet(R) /\ Cardinality(R) = files[o].size
        BY <1>2, Block
      <3> HIDE DEF R
      <3> QED
        BY <2>2, <2>3, <3>1, Joined DEF Countable, R
    <2>5. /\ IsFiniteSet(FilesOf(b)')
          /\ Cardinality(FilesOf(b)') = Cardinality(FilesOf(b)) + 1
      BY <2>1, FS_AddElement DEF Countable
    <2> QED
      BY <1>3, <2>4, <2>5 DEF Countable, StoredBytes
  <1>4. CASE files[o].bucket # b
    <2>1. FilesOf(b)' = FilesOf(b)
      BY <1>1, <1>4 DEF FilesOf
    <2>2. BytesOf(b)' = BytesOf(b)
      <3>1. \A f \in FilesOf(b)' : files'[f].size = files[f].size
        BY <1>1 DEF FilesOf
      <3> QED
        BY <2>1, <3>1 DEF BytesOf
    <2> QED
      BY <1>4, <2>1, <2>2 DEF Countable, StoredBytes
  <1> QED
    BY <1>3, <1>4

\* A delete's UPDATE takes one version and its bytes out of one bucket.
LEMMA FileRemoved ==
    ASSUME TypeOK, NEW o \in File, LiveFile(o), SoftDeleteFile(o),
           NEW b \in Bucket, Countable(b)
    PROVE  /\ Countable(b)'
           /\ files[o].bucket = b =>
                /\ StoredBytes(b)' = StoredBytes(b) - files[o].size
                /\ Cardinality(FilesOf(b))' = Cardinality(FilesOf(b)) - 1
           /\ files[o].bucket # b =>
                /\ StoredBytes(b)' = StoredBytes(b)
                /\ Cardinality(FilesOf(b))' = Cardinality(FilesOf(b))
  <1>1. /\ \A f \in File : files'[f].bucket = files[f].bucket /\ files'[f].size = files[f].size
        /\ \A f \in File : LiveFile(f)' <=> LiveFile(f) /\ f # o
    BY DEF SoftDeleteFile, LiveFile, TypeOK, StoreTypeOK, FileRow
  <1>2. files[o].size \in Nat
    BY DEF TypeOK, StoreTypeOK, FileRow
  <1>3. CASE files[o].bucket = b
    <2>1. FilesOf(b)' = FilesOf(b) \ {o} /\ o \in FilesOf(b)
      BY <1>1, <1>3 DEF FilesOf
    <2>2. BytesOf(b)' = BytesOf(b) \ ({o} \X (1 .. files[o].size))
      <3>1. \A f \in FilesOf(b)' : files'[f].size = files[f].size
        BY <1>1 DEF FilesOf
      <3> QED
        BY <2>1, <3>1 DEF BytesOf
    <2>3. {o} \X (1 .. files[o].size) \subseteq BytesOf(b)
      BY <2>1 DEF BytesOf
    <2>4. /\ IsFiniteSet(BytesOf(b)')
          /\ Cardinality(BytesOf(b)') = Cardinality(BytesOf(b)) - files[o].size
      <3> DEFINE R == {o} \X (1 .. files[o].size)
      <3>1. IsFiniteSet(R) /\ Cardinality(R) = files[o].size
        BY <1>2, Block
      <3> HIDE DEF R
      <3> QED
        BY <2>2, <2>3, <3>1, TakenOut DEF Countable, R
    <2>5. /\ IsFiniteSet(FilesOf(b)')
          /\ Cardinality(FilesOf(b)') = Cardinality(FilesOf(b)) - 1
      BY <2>1, FS_RemoveElement DEF Countable
    <2> QED
      BY <1>3, <2>4, <2>5 DEF Countable, StoredBytes
  <1>4. CASE files[o].bucket # b
    <2>1. FilesOf(b)' = FilesOf(b)
      BY <1>1, <1>4 DEF FilesOf
    <2>2. BytesOf(b)' = BytesOf(b)
      <3>1. \A f \in FilesOf(b)' : files'[f].size = files[f].size
        BY <1>1 DEF FilesOf
      <3> QED
        BY <2>1, <3>1 DEF BytesOf
    <2> QED
      BY <1>4, <2>1, <2>2 DEF Countable, StoredBytes
  <1> QED
    BY <1>3, <1>4
-----------------------------------------------------------------------------
(* The counters of a bucket *)

\* CountInv when worker w alone is serving a request.
CountOf(w) ==
    /\ \A b \in Bucket :
        /\ Countable(b)
        /\ LiveBucket(b) => Counts(b, 0, 0) \/ (pc[w] \in Counting /\ at[w] = b)
    /\ pc[w] = "putChunk" => Counts(at[w], files[obj[w]].size, 1)
    /\ pc[w] \in {"delBucket", "delCount"} => Counts(at[w], -files[obj[w]].size, -1)
    /\ pc[w] = "mkInsert" => snap[w].cur = 0 /\ snap[w].count = 0

LEMMA CountAlone ==
    ASSUME NEW w \in Worker, \A v \in Worker \ {w} : pc[v] = "idle"
    PROVE  CountInv <=> CountOf(w)
  BY DEF CountInv, CountOf, Countable, Counting

\* Steps that touch neither a row nor the counters, and that do not finish an
\* upload or a delete.
LEMMA CountKept ==
    ASSUME NEW w \in Worker, CountOf(w), LiveKept, buckets' = buckets,
           pc'[w] = "mkInsert" => snap'[w].cur = 0 /\ snap'[w].count = 0,
           pc[w] \in Counting \/ pc'[w] \in Counting =>
                /\ pc[w] = pc'[w] \/ (pc[w] = "delBucket" /\ pc'[w] = "delCount")
                /\ at'[w] = at[w] /\ at[w] \in Bucket
                /\ obj'[w] = obj[w] /\ files'[obj[w]].size = files[obj[w]].size
    PROVE  CountOf(w)'
  <1>1. \A b \in Bucket :
            /\ Countable(b)'
            /\ StoredBytes(b)' = StoredBytes(b)
            /\ Cardinality(FilesOf(b))' = Cardinality(FilesOf(b))
    BY SameFiles DEF CountOf
  <1>2. ASSUME NEW b \in Bucket, LiveBucket(b)'
        PROVE  Counts(b, 0, 0)' \/ (pc'[w] \in Counting /\ at'[w] = b)
    <2>1. LiveBucket(b)
      BY <1>2 DEF LiveBucket
    <2>2. CASE Counts(b, 0, 0)
      BY <1>1, <2>2 DEF Counts
    <2>3. CASE pc[w] \in Counting /\ at[w] = b
      BY <2>3 DEF Counting
    <2> QED
      BY <2>1, <2>2, <2>3 DEF CountOf
  <1>3. pc'[w] \in Counting =>
            /\ at'[w] \in Bucket /\ at'[w] = at[w]
            /\ StoredBytes(at[w])' = StoredBytes(at[w])
            /\ Cardinality(FilesOf(at[w]))' = Cardinality(FilesOf(at[w]))
            /\ files'[obj'[w]].size = files[obj[w]].size
    BY <1>1
  <1> QED
    BY <1>1, <1>2, <1>3 DEF CountOf, Counts, Counting
\* An upload inserts its row, and a delete marks its own, before the counters
\* are written.
LEMMA RowCount ==
    ASSUME TypeOK, FileInv, SerialInv, NEW w \in Worker, CountOf(w), PutRow(w) \/ DeleteRow(w)
    PROVE  CountOf(w)'
  <1> DEFINE o == obj[w]
             b == at[w]
  <1>1. /\ pc[w] \in {"putWrite", "delDisk"}
        /\ o \in File /\ b \in Bucket
        /\ buckets' = buckets
    BY Locals DEF PutRow, DeleteRow, AllWritten, TypeOK, HasFile, HasBucket
  <1>2. files[o].bucket = b /\ files[o].size \in Nat
    <2>1. CASE pc[w] = "putWrite"
      BY <1>1, <2>1 DEF SerialInv, HoldingOK, TypeOK, StoreTypeOK, FileRow
    <2>2. CASE pc[w] = "delDisk"
      BY <1>1, <2>2 DEF SerialInv, HoldingOK, Latest, Versions, TypeOK, StoreTypeOK, FileRow
    <2> QED
      BY <1>1, <2>1, <2>2
  <1>3. LiveBucket(b)
    <2>1. CASE pc[w] = "putWrite"
      BY <1>1, <2>1 DEF SerialInv, HoldingOK
    <2>2. CASE pc[w] = "delDisk"
      BY <1>1, <2>2 DEF SerialInv, HoldingOK, Latest, Versions, BucketsOK, BucketEmpty
    <2> QED
      BY <1>1, <2>1, <2>2
  <1>4. \A c \in Bucket : Countable(c) /\ (LiveBucket(c) => Counts(c, 0, 0))
    BY <1>1 DEF CountOf, Counting
  <1>5. \A c \in Bucket :
            /\ StoredBytes(c) \in Nat /\ Cardinality(FilesOf(c)) \in Nat
            /\ buckets[c].cur \in Nat /\ buckets[c].count \in Nat
    BY <1>4, CountType DEF TypeOK, StoreTypeOK, BucketRow
  <1>6. CASE PutRow(w)
    <2>1. files[o].state = "building" /\ InsertFile(o)
      BY <1>6 DEF PutRow, AllWritten, FileInv, WritingOK
    <2>2. pc'[w] = "putChunk" /\ at'[w] = b /\ obj'[w] = o
      BY <1>6, Entered DEF PutRow
    <2>3. files'[o].size = files[o].size
      BY <1>1, <2>1 DEF InsertFile, TypeOK, StoreTypeOK, FileRow
    <2>4. ASSUME NEW c \in Bucket
          PROVE  /\ Countable(c)'
                 /\ c = b => Counts(c, files[o].size, 1)'
                 /\ c # b /\ LiveBucket(c)' => Counts(c, 0, 0)'
      <3>1. /\ Countable(c)'
            /\ b = c =>
                /\ StoredBytes(c)' = StoredBytes(c) + files[o].size
                /\ Cardinality(FilesOf(c))' = Cardinality(FilesOf(c)) + 1
            /\ b # c =>
                /\ StoredBytes(c)' = StoredBytes(c)
                /\ Cardinality(FilesOf(c))' = Cardinality(FilesOf(c))
        BY <1>1, <1>2, <1>4, <2>1, FileAdded
      <3>2. LiveBucket(c)' = LiveBucket(c)
        BY <1>1 DEF LiveBucket
      <3> QED
        BY <1>1, <1>2, <1>3, <1>4, <1>5, <2>2, <2>3, <3>1, <3>2 DEF Counts
    <2> QED
      BY <1>1, <2>2, <2>3, <2>4 DEF CountOf, Counting
  <1>7. CASE DeleteRow(w)
    <2>1. LiveFile(o) /\ SoftDeleteFile(o)
      BY <1>7 DEF DeleteRow, Affected
    <2>2. pc'[w] = "delBucket" /\ at'[w] = b /\ obj'[w] = o
      BY <1>7, Entered DEF DeleteRow
    <2>3. files'[o].size = files[o].size
      BY <1>1, <2>1 DEF SoftDeleteFile, TypeOK, StoreTypeOK, FileRow
    <2>4. ASSUME NEW c \in Bucket
          PROVE  /\ Countable(c)'
                 /\ c = b => Counts(c, -files[o].size, -1)'
                 /\ c # b /\ LiveBucket(c)' => Counts(c, 0, 0)'
      <3>1. /\ Countable(c)'
            /\ b = c =>
                /\ StoredBytes(c)' = StoredBytes(c) - files[o].size
                /\ Cardinality(FilesOf(c))' = Cardinality(FilesOf(c)) - 1
            /\ b # c =>
                /\ StoredBytes(c)' = StoredBytes(c)
                /\ Cardinality(FilesOf(c))' = Cardinality(FilesOf(c))
        BY <1>1, <1>2, <1>4, <2>1, FileRemoved
      <3>2. LiveBucket(c)' = LiveBucket(c)
        BY <1>1 DEF LiveBucket
      <3> QED
        BY <1>1, <1>2, <1>3, <1>4, <1>5, <2>2, <2>3, <3>1, <3>2 DEF Counts
    <2> QED
      BY <1>1, <2>2, <2>3, <2>4 DEF CountOf, Counting
  <1> QED
    BY <1>6, <1>7

\* The counters catch up with the table: the row the request read is still
\* the row there is, and nothing is clamped at zero.
LEMMA CounterWritten ==
    ASSUME TypeOK, SerialInv, NEW w \in Worker, CountOf(w), PutCount(w) \/ DeleteCount(w)
    PROVE  CountOf(w)'
  <1> DEFINE b == at[w]
             n == files[obj[w]].size
  <1>1. /\ pc[w] \in {"putChunk", "delCount"}
        /\ b \in Bucket /\ obj[w] \in File
        /\ Return(w) /\ files' = files
    BY Locals DEF PutCount, ChunksDone, DeleteCount, TypeOK, HasBucket, HasFile
  <1>2. LiveBucket(b) /\ snap[w] = buckets[b] /\ buckets[b] \in BucketRow /\ n \in Nat
    BY <1>1 DEF SerialInv, HoldingOK, TypeOK, StoreTypeOK, FileRow
  <1>3. \A c \in Bucket :
            /\ Countable(c)'
            /\ StoredBytes(c)' = StoredBytes(c)
            /\ Cardinality(FilesOf(c))' = Cardinality(FilesOf(c))
    <2>1. LiveKept
      BY <1>1 DEF LiveKept, LiveFile
    <2> QED
      BY <2>1, SameFiles DEF CountOf
  <1>4. StoredBytes(b) \in Nat /\ Cardinality(FilesOf(b)) \in Nat
    BY <1>1, CountType DEF CountOf
  <1>5. \A c \in Bucket \ {b} : LiveBucket(c) => Counts(c, 0, 0)
    BY DEF CountOf
  <1>6. PICK row :
            /\ UpdateBucket(b, row)
            /\ row.cur = StoredBytes(b) /\ row.count = Cardinality(FilesOf(b))
    <2>1. CASE PutCount(w)
      <3>1. Counts(b, n, 1) /\ UpdateBucket(b, Charged(buckets[b], n))
        BY <1>2, <2>1 DEF PutCount, ChunksDone, CountOf
      <3>2. /\ Charged(buckets[b], n).cur = buckets[b].cur + n
            /\ Charged(buckets[b], n).count = buckets[b].count + 1
        BY <1>2 DEF Charged, BucketRow
      <3> QED
        BY <3>1, <3>2 DEF Counts
    <2>2. CASE DeleteCount(w)
      <3>1. Counts(b, -n, -1) /\ UpdateBucket(b, Refunded(buckets[b], n))
        BY <1>2, <2>2 DEF DeleteCount, CountOf
      <3>2. /\ buckets[b].cur \in Nat /\ buckets[b].count \in Nat
            /\ buckets[b].cur - n = StoredBytes(b)
            /\ buckets[b].count - 1 = Cardinality(FilesOf(b))
        BY <1>2, <1>4, <3>1 DEF Counts, BucketRow
      <3>3. /\ Refunded(buckets[b], n).cur = AtLeastZero(buckets[b].cur - n)
            /\ Refunded(buckets[b], n).count = AtLeastZero(buckets[b].count - 1)
        BY <1>2 DEF Refunded, BucketRow
      <3> QED
        BY <1>4, <3>1, <3>2, <3>3 DEF AtLeastZero
    <2> QED
      BY <2>1, <2>2
  <1>7. /\ buckets'[b].cur = StoredBytes(b) /\ buckets'[b].count = Cardinality(FilesOf(b))
        /\ \A c \in Bucket \ {b} : buckets'[c] = buckets[c]
    BY <1>1, <1>2, <1>6 DEF UpdateBucket, TypeOK, StoreTypeOK
  <1>8. ASSUME NEW c \in Bucket, LiveBucket(c)' PROVE Counts(c, 0, 0)'
    <2>1. CASE c = b
      BY <1>3, <1>4, <1>7, <2>1 DEF Counts
    <2>2. CASE c # b
      BY <1>3, <1>5, <1>7, <1>8, <2>2 DEF Counts, LiveBucket
    <2> QED
      BY <2>1, <2>2
  <1>9. pc'[w] = "idle"
    BY <1>1, Returned
  <1> QED
    BY <1>3, <1>8, <1>9 DEF CountOf

\* A new bucket holds nothing, and the other requests about buckets write back
\* the counters they read.
LEMMA BucketCount ==
    ASSUME TypeOK, SerialInv, NEW w \in Worker, CountOf(w), BucketStep(w), NoFileChange, ~Fault
    PROVE  CountOf(w)'
  <1>1. pc[w] \in {"mkInsert", "rmCount", "rmRow", "verWrite"} /\ pc'[w] \in {"idle", "rmRow"}
    BY Entered, Returned DEF BucketStep, CreateInsert, CreateInsertError, RemoveCount,
       RemoveRefused, RemoveRow, RemoveRowError, VersionWrite, VersionWriteError
  <1>2. \A c \in Bucket :
            /\ Countable(c) /\ Countable(c)'
            /\ StoredBytes(c)' = StoredBytes(c)
            /\ Cardinality(FilesOf(c))' = Cardinality(FilesOf(c))
    <2>1. LiveKept
      BY DEF NoFileChange, LiveKept, LiveFile
    <2> QED
      BY <2>1, SameFiles DEF CountOf
  <1>3. \A c \in Bucket : LiveBucket(c) => Counts(c, 0, 0)
    BY <1>1 DEF CountOf, Counting
  <1>4. ASSUME NEW c \in Bucket, LiveBucket(c)'
        PROVE  \/ /\ LiveBucket(c)
                  /\ buckets'[c].cur = buckets[c].cur /\ buckets'[c].count = buckets[c].count
               \/ /\ ~LiveBucket(c)
                  /\ buckets'[c].cur = 0 /\ buckets'[c].count = 0
    <2>1. CASE CreateInsert(w)
      <3>1. snap[w].cur = 0 /\ snap[w].count = 0
        BY <2>1 DEF CreateInsert, CountOf
      <3> QED
        BY <1>4, <2>1, <3>1 DEF CreateInsert, InsertBucket, LiveBucket, TypeOK, StoreTypeOK
    <2>2. CASE RemoveCount(w) \/ RemoveRefused(w)
      BY <1>4, <2>2 DEF RemoveCount, RemoveRefused, LiveBucket
    <2>3. CASE RemoveRow(w)
      <3>1. at[w] \in Bucket
        BY <2>3, Locals DEF RemoveRow, TypeOK, HasBucket
      <3> QED
        BY <1>4, <2>3, <3>1 DEF RemoveRow, SoftDeleteBucket, LiveBucket, TypeOK, StoreTypeOK,
                                BucketRow
    <2>4. CASE VersionWrite(w)
      <3>1. at[w] \in Bucket /\ UpdateBucket(at[w], snap[w])
        BY <2>4, Locals DEF VersionWrite, TypeOK, HasBucket
      <3>2. PICK v \in Versioning : snap[w] = [buckets[at[w]] EXCEPT !.versioning = v]
        BY <2>4 DEF VersionWrite, SerialInv, HoldingOK
      <3>3. snap[w].cur = buckets[at[w]].cur /\ snap[w].count = buckets[at[w]].count
        BY <3>1, <3>2 DEF TypeOK, StoreTypeOK, BucketRow
      <3> QED
        BY <1>4, <3>1, <3>3 DEF UpdateBucket, LiveBucket, TypeOK, StoreTypeOK
    <2> QED
      BY <2>1, <2>2, <2>3, <2>4 DEF BucketStep, CreateInsertError, RemoveRowError,
                                    VersionWriteError
  <1>5. \A c \in Bucket : ~LiveBucket(c) => StoredBytes(c) = 0 /\ Cardinality(FilesOf(c)) = 0
    <2>1. ASSUME NEW c \in Bucket, ~LiveBucket(c) PROVE FilesOf(c) = {} /\ BytesOf(c) = {}
      BY <2>1 DEF SerialInv, BucketsOK, BucketEmpty, FilesOf, BytesOf
    <2> QED
      BY <2>1, FS_EmptySet DEF StoredBytes
  <1>6. ASSUME NEW c \in Bucket, LiveBucket(c)' PROVE Counts(c, 0, 0)'
    BY <1>2, <1>3, <1>4, <1>5, <1>6 DEF Counts
  <1> QED
    BY <1>1, <1>2, <1>6 DEF CountOf
\* Every step of the one request under way keeps its counters.
LEMMA CountStep ==
    ASSUME IndInv, SerialInv, NEW w \in Worker, CountOf(w), \A v \in Worker \ {w} : pc[v] = "idle",
           Unswept, ~Fault, [Next]_vars, Begin(w) \/ Step(w)
    PROVE  CountOf(w)'
  <1>0. TypeOK /\ FileInv
    BY DEF IndInv
  <1>1. CASE PutRow(w) \/ DeleteRow(w)
    BY <1>0, <1>1, RowCount
  <1>2. CASE PutCount(w) \/ DeleteCount(w)
    BY <1>0, <1>2, CounterWritten
  <1>3. CASE BucketStep(w) /\ NoFileChange
    BY <1>0, <1>3, BucketCount
  <1>4. CASE ~(PutRow(w) \/ DeleteRow(w) \/ PutCount(w) \/ DeleteCount(w)
                \/ (BucketStep(w) /\ NoFileChange))
    <2>1. LiveKept
      <3>1. ASSUME NEW v \in Worker, RowChanged(v) PROVE pc[v] # "idle" /\ v # w
        BY <1>4, <3>1 DEF RowChanged, PutRow, AllWritten, PutRowError, DeleteRow, DeleteRowError,
                          CleanOne, CleanOneError, Unswept
      <3> QED
        BY <1>0, <3>1, LiveWriters
    <2>2. buckets' = buckets
      <3>1. ASSUME NEW v \in Worker, PutCount(v) \/ DeleteCount(v) \/ (BucketStep(v) /\ NoFileChange)
            PROVE  pc[v] # "idle"
        BY <3>1 DEF PutCount, ChunksDone, DeleteCount, BucketStep, CreateInsert,
                    CreateInsertError, RemoveCount, RemoveRefused, RemoveRow, RemoveRowError,
                    VersionWrite, VersionWriteError
      <3>2. \A v \in Worker : CountChanged(v) => PutCount(v) \/ DeleteCount(v)
        BY DEF CountChanged, PutCountError, DeleteCountError
      <3> QED
        BY <1>4, <3>1, <3>2, BucketWriters
    <2>3. pc'[w] = "mkInsert" => snap'[w].cur = 0 /\ snap'[w].count = 0
      <3>1. CASE CreateBegin(w)
        BY <1>0, <3>1, Entered DEF CreateBegin, NewBucket
      <3> QED
        BY <1>0, <3>1, Arrival DEF Arrives
    <2>4. CASE pc[w] \in Counting \/ pc'[w] \in Counting
      <3>1. PutChunk(w) \/ DeleteBucketRead(w)
        <4>1. pc[w] = "delBucket" => LiveBucket(at[w])
          BY DEF SerialInv, HoldingOK
        <4>2. Arrives(w)
          BY <1>0, Arrival
        <4>3. ~PutChunkError(w) /\ ~PutCountError(w) /\ ~DeleteCountError(w)
          BY DEF PutChunkError, PutCountError, DeleteCountError
        <4>4. ~DeleteBucketGone(w)
          BY <4>1 DEF DeleteBucketGone
        <4>5. CASE pc[w] \in Counting
          BY <1>4, <4>3, <4>4, <4>5, Departure DEF Counting
        <4>6. CASE pc'[w] \in Counting
          BY <1>4, <4>2, <4>3, <4>6 DEF Counting, Arrives
        <4> QED
          BY <2>4, <4>5, <4>6
      <3>2. at[w] \in Bucket /\ obj[w] \in File
        <4>1. CASE PutChunk(w)
          BY <1>0, <4>1, Locals DEF PutChunk, TypeOK, HasBucket, HasFile
        <4>2. CASE DeleteBucketRead(w)
          BY <1>0, <4>2, Locals DEF DeleteBucketRead, TypeOK, HasBucket, HasFile
        <4> QED
          BY <3>1, <4>1, <4>2
      <3>3. files' = files
        BY <3>1 DEF PutChunk, DeleteBucketRead, store
      <3>4. CASE PutChunk(w)
        BY <1>0, <2>1, <2>2, <2>3, <3>2, <3>3, <3>4, CountKept, TickedOn DEF PutChunk
      <3>5. CASE DeleteBucketRead(w)
        BY <1>0, <2>1, <2>2, <2>3, <3>2, <3>3, <3>5, CountKept, Entered DEF DeleteBucketRead
      <3> QED
        BY <3>1, <3>4, <3>5
    <2> QED
      BY <2>1, <2>2, <2>3, <2>4, CountKept
  <1> QED
    BY <1>1, <1>2, <1>3, <1>4

\* CountInv is inductive as long as requests come one at a time, no call
\* fails, none is lost and nothing is swept.
LEMMA NextCount ==
    ASSUME IndInv, SerialInv, CountInv, OneAtATime, OneAtATime', Unharmed', Unswept, [Next]_vars
    PROVE  CountInv'
  <1>0. TypeOK /\ ~Fault /\ \A w \in Worker : ~Lost(w)
    BY CalmStep DEF IndInv
  <1>1. ASSUME NEW w \in Worker, Begin(w) \/ Step(w) PROVE CountInv'
    <2>1. \A v \in Worker \ {w} : pc[v] = "idle" /\ pc'[v] = "idle"
      BY <1>0, <1>1, OnlyOne
    <2>2. CountOf(w)
      BY <2>1, CountAlone
    <2>3. CountOf(w)'
      BY <1>0, <1>1, <2>1, <2>2, CountStep
    <2> QED
      BY <2>1, <2>3 DEF CountInv, CountOf, Countable, Counting
  <1>2. CASE UNCHANGED <<pc, at, obj, snap, buckets>> /\ LiveKept
             /\ \A f \in File : files'[f].size = files[f].size
    <2>1. ASSUME NEW b \in Bucket
          PROVE  /\ Countable(b)'
                 /\ StoredBytes(b)' = StoredBytes(b)
                 /\ Cardinality(FilesOf(b))' = Cardinality(FilesOf(b))
      BY <1>2, SameFiles DEF CountInv, Countable
    <2>2. \A w \in Worker : pc[w] \in Counting => at[w] \in Bucket /\ obj[w] \in File
      BY <1>0, Locals DEF Counting, TypeOK, HasBucket, HasFile
    <2> QED
      BY <1>2, <2>1, <2>2 DEF CountInv, Countable, Counts, Counting, LiveBucket
  <1>3. ASSUME NEW f \in File, Expire(f) PROVE CountInv'
    <2>1. UNCHANGED <<pc, at, obj, snap, buckets>>
      BY <1>3 DEF Expire, local
    <2>2. LiveKept /\ \A g \in File : files'[g].size = files[g].size
      BY <1>0, <1>3 DEF Expire, LiveKept, LiveFile, TypeOK, StoreTypeOK, FileRow
    <2> QED
      BY <1>2, <2>1, <2>2
  <1>4. CASE UNCHANGED vars
    BY <1>2, <1>4 DEF vars, LiveKept, LiveFile
  <1> QED
    BY <1>0, <1>1, <1>3, <1>4, StepKinds

LEMMA InitCount == Init => CountInv
  <1> SUFFICES ASSUME Init PROVE CountInv
    OBVIOUS
  <1>1. \A b \in Bucket : FilesOf(b) = {} /\ BytesOf(b) = {}
    BY DEF Init, UnusedFile, FilesOf, BytesOf, LiveFile
  <1>2. \A b \in Bucket : buckets[b].cur = 0 /\ buckets[b].count = 0
    BY DEF Init, NewBucket, AbsentBucket
  <1>3. \A w \in Worker : pc[w] = "idle"
    BY DEF Init, RequestInit
  <1> QED
    BY <1>1, <1>2, <1>3, FS_EmptySet DEF CountInv, Counts, StoredBytes

\* When requests come one at a time, no call fails, no request is lost and
\* nothing is swept: CountInv in every state.
LEMMA CountInvariance == Spec /\ [](OneAtATime /\ Unharmed /\ Unswept) => []CountInv
  BY InitCount, NextCount, SerialInvariance, Invariance, PTL DEF Spec

\* Then between requests the counters of every bucket are exact.
THEOREM ExactCounters == Spec /\ [](OneAtATime /\ Unharmed /\ Unswept) => []CountersExact
  <1>1. ASSUME TypeOK, CountInv PROVE CountersExact
    <2>1. ASSUME Quiet, NEW b \in Bucket, LiveBucket(b)
          PROVE  /\ buckets[b].cur = StoredBytes(b)
                 /\ buckets[b].count = Cardinality(FilesOf(b))
      <3>1. Counts(b, 0, 0)
        BY <1>1, <2>1 DEF CountInv, Quiet, Counting
      <3>2. buckets[b].cur \in Nat /\ buckets[b].count \in Nat
        BY <1>1 DEF TypeOK, StoreTypeOK, BucketRow
      <3> QED
        BY <3>1, <3>2 DEF Counts
    <2> QED
      BY <2>1 DEF CountersExact
  <1> QED
    BY <1>1, CountInvariance, TypeCorrect, PTL

\* And what a bucket stores is within its limit, at every moment of every
\* request.
THEOREM StoredQuota == Spec /\ [](OneAtATime /\ Unharmed /\ Unswept) => []StoredWithinQuota
  <1>1. ASSUME IndInv, SerialInv, CountInv PROVE StoredWithinQuota
    <2>1. SUFFICES ASSUME NEW b \in Bucket, LiveBucket(b), buckets[b].max > 0
                   PROVE  StoredBytes(b) <= buckets[b].max
      BY DEF StoredWithinQuota
    <2>2. /\ StoredBytes(b) \in Nat
          /\ buckets[b] \in BucketRow
          /\ buckets[b].cur \in Nat /\ buckets[b].max \in Int
      BY <1>1, CountType DEF CountInv, Countable, IndInv, TypeOK, StoreTypeOK, BucketRow
    <2>3. buckets[b].cur <= buckets[b].max
      BY <1>1, <2>1 DEF IndInv, QuotaInv, RecordedWithinQuota
    <2>4. CASE Counts(b, 0, 0)
      BY <2>2, <2>3, <2>4 DEF Counts
    <2>5. ASSUME NEW w \in Worker, pc[w] \in Counting, at[w] = b
          PROVE  StoredBytes(b) <= buckets[b].max
      <3> DEFINE n == files[obj[w]].size
      <3>1. n \in Nat
        BY <1>1, <2>5, Locals DEF Counting, HasFile, IndInv, TypeOK, StoreTypeOK, FileRow
      <3>2. CASE pc[w] = "putChunk"
        <4>1. StoredBytes(b) = buckets[b].cur + n /\ snap[w] = buckets[b]
          BY <1>1, <2>5, <3>2 DEF CountInv, Counts, SerialInv, HoldingOK
        <4>2. WithinLimit(Charged(buckets[b], n))
          BY <1>1, <3>2, <4>1 DEF IndInv, QuotaInv, SnapshotsOK
        <4>3. /\ Charged(buckets[b], n).cur = buckets[b].cur + n
              /\ Charged(buckets[b], n).max = buckets[b].max
          BY <2>2, <3>1, ChargedType
        <4> QED
          BY <2>1, <4>1, <4>2, <4>3 DEF WithinLimit
      <3>3. CASE pc[w] \in {"delBucket", "delCount"}
        <4>1. StoredBytes(b) = buckets[b].cur + (-n)
          BY <1>1, <2>5, <3>3 DEF CountInv, Counts
        <4> QED
          BY <2>2, <2>3, <3>1, <4>1
      <3> QED
        BY <2>5, <3>2, <3>3 DEF Counting
    <2> QED
      BY <1>1, <2>1, <2>4, <2>5 DEF CountInv
  <1> QED
    BY <1>1, CountInvariance, SerialInvariance, Invariance, PTL
-----------------------------------------------------------------------------
(* The disk *)

Needed(f) == IF LiveFile(f) THEN ShardsOfFile(f) ELSE {}

Storing == {"putWrite", "delDisk"}

\* DiskInv when worker w alone is serving a request.
DiskOf(w) ==
    /\ \A f \in File : OnDisk(f) = Needed(f) \/ (pc[w] \in Storing /\ obj[w] = f)
    /\ pc[w] = "putWrite" => OnDisk(obj[w]) = ShardsOfFile(obj[w]) \ todo[w]
    /\ pc[w] = "delDisk" => OnDisk(obj[w]) = todo[w]

\* Steps before and after the loops over shards.
LEMMA DiskKept ==
    ASSUME NEW w \in Worker, DiskOf(w), LiveKept, disk' = disk,
           pc[w] \notin Storing, pc'[w] \notin Storing
    PROVE  DiskOf(w)'
  <1>1. ASSUME NEW f \in File PROVE Needed(f)' = Needed(f)
    BY DEF LiveKept, Needed, ShardsOfFile
  <1>2. \A f \in File : OnDisk(f)' = OnDisk(f)
    BY DEF OnDisk
  <1> QED
    BY <1>1, <1>2 DEF DiskOf, Storing

\* The loops start: nothing of a new file is on disk, and a delete lists the
\* rows of all the shards.
LEMMA DiskEntered ==
    ASSUME IndInv, SerialInv, RowsInv, NEW w \in Worker, DiskOf(w),
           \A v \in Worker \ {w} : pc[v] = "idle", PutPrepare(w) \/ DeleteList(w)
    PROVE  DiskOf(w)'
  <1>0. TypeOK /\ FileInv
    BY DEF IndInv
  <1>1. CASE PutPrepare(w)
    <2>1. PICK f \in File, k \in Key, n \in Size, x \in Expiry :
            /\ files[f].state = "unused"
            /\ files' = [files EXCEPT ![f] =
                [state |-> "building", bucket |-> at[w], key |-> k, size |-> n,
                 created |-> clock + 1, expiry |-> x]]
            /\ Enter(w, "putWrite", at[w], f, ShardsOf(n), snap[w])
      BY <1>1 DEF PutPrepare
    <2>2. pc'[w] = "putWrite" /\ obj'[w] = f /\ todo'[w] = ShardsOf(n)
      BY <1>0, <2>1, Entered
    <2>3. /\ \A g \in File : OnDisk(g)' = OnDisk(g) /\ OnDisk(g) = Needed(g)
      BY <1>1 DEF PutPrepare, OnDisk, DiskOf, Storing
    <2>4. /\ files'[f].state = "building" /\ files'[f].size = n
          /\ \A g \in File \ {f} : files'[g] = files[g]
      BY <1>0, <2>1 DEF TypeOK, StoreTypeOK
    <2>5. \A g \in File \ {f} : Needed(g)' = Needed(g)
      BY <2>4 DEF Needed, ShardsOfFile, LiveFile
    <2>6. OnDisk(f)' = {} /\ ShardsOfFile(f)' = ShardsOf(n)
      BY <2>1, <2>3, <2>4 DEF Needed, LiveFile, ShardsOfFile
    <2>7. ASSUME NEW g \in File, g = obj'[w]
          PROVE  OnDisk(g)' = ShardsOfFile(g)' \ todo'[w]
      BY <2>2, <2>6, <2>7
    <2> QED
      BY <2>2, <2>3, <2>5, <2>7 DEF DiskOf, Storing, OnDisk, ShardsOfFile
  <1>2. CASE DeleteList(w)
    <2> DEFINE o == obj[w]
    <2>1. /\ pc[w] = "delList" /\ o \in File
          /\ UNCHANGED <<files, disk>>
      BY <1>0, <1>2, Locals DEF DeleteList, store, TypeOK, HasFile
    <2>2. pc'[w] = "delDisk" /\ obj'[w] = o /\ todo'[w] = chunkRows[o]
      BY <1>0, <1>2, Entered DEF DeleteList
    <2>3. LiveFile(o)
      BY <2>1 DEF SerialInv, HoldingOK, Latest, Versions
    <2>4. chunkRows[o] = ShardsOfFile(o)
      BY <2>1, <2>3 DEF RowsInv, Inserted, LiveFile
    <2>5. \A g \in File : OnDisk(g)' = OnDisk(g) /\ Needed(g)' = Needed(g) /\ OnDisk(g) = Needed(g)
      BY <2>1 DEF OnDisk, Needed, LiveFile, ShardsOfFile, DiskOf, Storing
    <2>6. ASSUME NEW g \in File, g = obj'[w] PROVE OnDisk(g)' = todo'[w]
      BY <2>1, <2>2, <2>3, <2>4, <2>5, <2>6 DEF Needed
    <2> QED
      BY <2>1, <2>2, <2>5, <2>6 DEF DiskOf, Storing, OnDisk
  <1> QED
    BY <1>1, <1>2

\* One more shard is stored or removed.
LEMMA DiskTicked ==
    ASSUME IndInv, NEW w \in Worker, DiskOf(w), PutWrite(w) \/ DeleteDisk(w)
    PROVE  DiskOf(w)'
  <1>0. TypeOK /\ FileInv
    BY DEF IndInv
  <1> DEFINE o == obj[w]
  <1>1. PICK s \in todo[w] :
          /\ Ticked(w, s)
          /\ \/ pc[w] = "putWrite" /\ disk' = disk \cup {<<o, s>>}
             \/ pc[w] = "delDisk" /\ disk' = disk \ {<<o, s>>}
    BY DEF PutWrite, DeleteDisk, NextShard
  <1>2. pc[w] \in Storing /\ o \in File /\ s \in Shard /\ files' = files
    BY <1>0, <1>1, Locals DEF Storing, TypeOK, HasFile, PutWrite, DeleteDisk
  <1>3. pc'[w] = pc[w] /\ obj'[w] = o /\ todo'[w] = todo[w] \ {s}
    BY <1>0, <1>1, TickedOn
  <1>4. ASSUME NEW g \in File, g # o PROVE OnDisk(g)' = Needed(g)'
    <2>1. OnDisk(g)' = OnDisk(g)
      BY <1>1, <1>4 DEF OnDisk
    <2>2. Needed(g)' = Needed(g)
      BY <1>2 DEF Needed, LiveFile, ShardsOfFile
    <2> QED
      BY <1>4, <2>1, <2>2 DEF DiskOf
  <1>5. ASSUME NEW g \in File, g = o, pc[w] = "putWrite"
        PROVE  OnDisk(g)' = ShardsOfFile(g)' \ todo'[w]
    <2>1. OnDisk(g)' = OnDisk(g) \cup {s}
      BY <1>1, <1>2, <1>5 DEF OnDisk
    <2>2. todo[w] \subseteq ShardsOfFile(g) /\ OnDisk(g) = ShardsOfFile(g) \ todo[w]
      BY <1>0, <1>5 DEF FileInv, WritingOK, DiskOf
    <2>3. ShardsOfFile(g)' = ShardsOfFile(g)
      BY <1>2 DEF ShardsOfFile
    <2> QED
      BY <1>1, <1>3, <2>1, <2>2, <2>3
  <1>6. ASSUME NEW g \in File, g = o, pc[w] = "delDisk"
        PROVE  OnDisk(g)' = todo'[w]
    <2>1. OnDisk(g)' = OnDisk(g) \ {s}
      BY <1>1, <1>2, <1>6 DEF OnDisk
    <2> QED
      BY <1>3, <1>6, <2>1 DEF DiskOf
  <1> QED
    BY <1>2, <1>3, <1>4, <1>5, <1>6 DEF DiskOf, Storing, OnDisk, ShardsOfFile

\* The loops are done: the row that appears needs what is on disk, and the row
\* that goes needs nothing.
LEMMA DiskLeft ==
    ASSUME IndInv, NEW w \in Worker, DiskOf(w), PutRow(w) \/ DeleteRow(w)
    PROVE  DiskOf(w)'
  <1>0. TypeOK
    BY DEF IndInv
  <1> DEFINE o == obj[w]
  <1>1. /\ pc[w] \in Storing /\ o \in File
        /\ todo[w] = {} /\ disk' = disk
        /\ IF pc[w] = "putWrite" THEN InsertFile(o) ELSE SoftDeleteFile(o)
    BY <1>0, Locals DEF PutRow, DeleteRow, AllWritten, Storing, TypeOK, HasFile
  <1>2. pc'[w] \in {"putChunk", "delBucket"}
    BY <1>0, Entered DEF PutRow, DeleteRow
  <1>3. \A g \in File : OnDisk(g)' = OnDisk(g)
    BY <1>1 DEF OnDisk
  <1>4. /\ files'[o].state = IF pc[w] = "putWrite" THEN "live" ELSE "deleted"
        /\ files'[o].size = files[o].size
        /\ \A g \in File \ {o} : files'[g] = files[g]
    BY <1>0, <1>1 DEF InsertFile, SoftDeleteFile, TypeOK, StoreTypeOK, FileRow
  <1>5. ASSUME NEW g \in File, g # o PROVE OnDisk(g)' = Needed(g)'
    <2>1. Needed(g)' = Needed(g)
      BY <1>4, <1>5 DEF Needed, LiveFile, ShardsOfFile
    <2> QED
      BY <1>3, <1>5, <2>1 DEF DiskOf
  <1>6. ASSUME NEW g \in File, g = o PROVE OnDisk(g)' = Needed(g)'
    <2>1. Needed(g)' = IF pc[w] = "putWrite" THEN ShardsOfFile(g) ELSE {}
      BY <1>4, <1>6 DEF Needed, LiveFile, ShardsOfFile
    <2> QED
      BY <1>1, <1>3, <1>6, <2>1 DEF DiskOf, Storing
  <1> QED
    BY <1>2, <1>5, <1>6 DEF DiskOf, Storing
LEMMA DiskStep ==
    ASSUME IndInv, SerialInv, RowsInv, NEW w \in Worker, DiskOf(w),
           \A v \in Worker \ {w} : pc[v] = "idle",
           Unswept, ~Fault, [Next]_vars, Begin(w) \/ Step(w)
    PROVE  DiskOf(w)'
  <1> DEFINE Moves == \/ PutPrepare(w) \/ DeleteList(w) \/ PutWrite(w) \/ DeleteDisk(w)
                      \/ PutRow(w) \/ DeleteRow(w)
  <1>0. TypeOK /\ FileInv
    BY DEF IndInv
  <1>1. CASE Moves
    BY <1>1, DiskEntered, DiskTicked, DiskLeft
  <1>2. CASE ~Moves
    <2>1. LiveKept
      <3>1. ASSUME NEW v \in Worker, RowChanged(v) PROVE pc[v] # "idle" /\ v # w
        BY <1>2, <3>1 DEF RowChanged, PutRow, AllWritten, PutRowError, DeleteRow, DeleteRowError,
                          CleanOne, CleanOneError, Unswept
      <3> QED
        BY <1>0, <3>1, LiveWriters
    <2>2. disk' = disk
      <3>1. ASSUME NEW v \in Worker, PutWrite(v) \/ PutWriteError(v) \/ DeleteDisk(v)
            PROVE  pc[v] # "idle" /\ v # w
        BY <1>2, <3>1 DEF PutWrite, PutWriteError, DeleteDisk
      <3> QED
        BY <3>1, ChunkWriters
    <2>3. pc[w] \notin Storing
      <3>1. ~DeleteLost(w)
        <4>1. pc[w] = "delDisk" => LiveFile(obj[w])
          BY DEF SerialInv, HoldingOK, Latest, Versions
        <4> QED
          BY <4>1 DEF DeleteLost, Affected
      <3>2. /\ ~PutWriteError(w) /\ ~PutRowError(w)
            /\ ~DeleteDiskError(w) /\ ~DeleteRowError(w)
        BY DEF PutWriteError, PutRowError, DeleteDiskError, DeleteRowError
      <3> QED
        BY <1>2, <3>1, <3>2, Departure DEF Storing
    <2>4. pc'[w] \notin Storing
      <3>1. ~DeleteListError(w) /\ ~DeleteDiskError(w)
        BY DEF DeleteListError, DeleteDiskError
      <3>2. Arrives(w)
        BY <1>0, Arrival
      <3> QED
        BY <1>2, <3>1, <3>2 DEF Arrives, Storing
    <2> QED
      BY <2>1, <2>2, <2>3, <2>4, DiskKept
  <1> QED
    BY <1>1, <1>2

\* DiskInv is inductive in the same circumstances.
LEMMA NextDisk ==
    ASSUME IndInv, SerialInv, RowsInv, DiskInv, OneAtATime, OneAtATime', Unharmed', Unswept,
           [Next]_vars
    PROVE  DiskInv'
  <1>0. TypeOK /\ FileInv /\ ~Fault /\ \A w \in Worker : ~Lost(w)
    BY CalmStep DEF IndInv
  <1>1. ASSUME NEW w \in Worker, Begin(w) \/ Step(w) PROVE DiskInv'
    <2>1. \A v \in Worker \ {w} : pc[v] = "idle" /\ pc'[v] = "idle"
      BY <1>0, <1>1, OnlyOne
    <2>2. DiskOf(w)
      BY <2>1 DEF DiskInv, DiskOf, Needed, Storing
    <2>3. DiskOf(w)'
      BY <1>0, <1>1, <2>1, <2>2, DiskStep
    <2> QED
      BY <2>1, <2>3 DEF DiskInv, DiskOf, Needed, Storing
  <1>2. CASE UNCHANGED <<pc, obj, todo, disk>>
             /\ \A f \in File : /\ files'[f].size = files[f].size
                                /\ LiveFile(f)' = LiveFile(f)
    <2>1. \A f \in File : OnDisk(f)' = OnDisk(f) /\ ShardsOfFile(f)' = ShardsOfFile(f)
      BY <1>2 DEF OnDisk, ShardsOfFile
    <2>2. \A w \in Worker : pc[w] \in Storing => obj[w] \in File
      BY <1>0, Locals DEF Storing, TypeOK, HasFile
    <2> QED
      BY <1>2, <2>1, <2>2 DEF DiskInv, Storing
  <1>3. ASSUME NEW f \in File, Expire(f) PROVE DiskInv'
    <2>1. UNCHANGED <<pc, obj, todo, disk>>
      BY <1>3 DEF Expire, local
    <2>2. \A g \in File : files'[g].size = files[g].size /\ LiveFile(g)' = LiveFile(g)
      BY <1>0, <1>3 DEF Expire, LiveFile, TypeOK, StoreTypeOK, FileRow
    <2> QED
      BY <1>2, <2>1, <2>2
  <1>4. CASE UNCHANGED vars
    BY <1>2, <1>4 DEF vars, LiveFile
  <1> QED
    BY <1>0, <1>1, <1>3, <1>4, StepKinds

LEMMA InitDisk == Init => DiskInv
  BY DEF Init, RequestInit, UnusedFile, DiskInv, OnDisk, LiveFile

\* When requests come one at a time, no call fails, no request is lost and
\* nothing is swept, the disk holds the shards of the live versions and
\* nothing else between requests.
THEOREM NothingOrphaned == Spec /\ [](OneAtATime /\ Unharmed /\ Unswept) => []NoOrphanShards
  <1>1. ASSUME TypeOK, DiskInv PROVE NoOrphanShards
    <2>1. SUFFICES ASSUME Quiet
                   PROVE  disk = {p \in File \X Shard :
                                    LiveFile(p[1]) /\ p[2] \in ShardsOfFile(p[1])}
      BY DEF NoOrphanShards
    <2>2. \A f \in File : OnDisk(f) = IF LiveFile(f) THEN ShardsOfFile(f) ELSE {}
      BY <1>1, <2>1 DEF DiskInv, Quiet
    <2>3. disk \subseteq File \X Shard
      BY <1>1 DEF TypeOK, StoreTypeOK
    <2>4. ASSUME NEW f \in File, NEW s \in Shard
          PROVE  <<f, s>> \in disk <=> LiveFile(f) /\ s \in ShardsOfFile(f)
      BY <2>2 DEF OnDisk
    <2> QED
      BY <2>3, <2>4
  <1> QED
    BY <1>1, InitDisk, NextDisk, InitRows, NextRows, SerialInvariance, Invariance, TypeCorrect, PTL
    DEF Spec

-----------------------------------------------------------------------------
(* The abstract store *)

\* PutObject refuses an empty body and one that is too large.
LEMMA SizeAccepted ==
    ASSUME NEW row, NEW n \in Size, ~Refused(row, n)
    PROVE  n \in 1 .. MaxFileSize
  <1>1. n \in Nat /\ n <= MaxFileSize /\ MaxFileSize \in Int
    BY FileAssumption DEF Refused
  <1>2. n # 0
    <2>1. SUFFICES ASSUME n = 0 PROVE FALSE
      OBVIOUS
    <2>2. ChunkSize \in Nat \ {0} /\ (ChunkSize - 1) \div ChunkSize # 0
      BY <2>1, LayoutAssumption DEF Refused, CannotEncode, ChunkCount
    <2>3. \A c \in Nat \ {0} : (c - 1) \div c = 0
      OBVIOUS
    <2> QED
      BY <2>2, <2>3
  <1> QED
    BY <1>1, <1>2

LEMMA NextBuilt ==
    ASSUME TypeOK, FileInv, BuiltOK, [Next]_vars
    PROVE  BuiltOK'
  <1>1. ASSUME NEW f \in File, files'[f].state # "unused"
        PROVE  files'[f].key \in Key /\ files'[f].size \in 1 .. MaxFileSize
    <2>1. CASE files' = files
      BY <1>1, <2>1 DEF BuiltOK
    <2>2. ASSUME NEW g \in File,
                 \/ files[g].state = "building" /\ InsertFile(g)
                 \/ LiveFile(g) /\ SoftDeleteFile(g)
                 \/ files' = [files EXCEPT ![g].expiry = "passed"]
          PROVE  files'[f].key \in Key /\ files'[f].size \in 1 .. MaxFileSize
      <3>1. /\ files'[f].key = files[f].key /\ files'[f].size = files[f].size
            /\ files[f].state # "unused"
        BY <1>1, <2>2 DEF InsertFile, SoftDeleteFile, LiveFile, TypeOK, StoreTypeOK, FileRow
      <3> QED
        BY <3>1 DEF BuiltOK
    <2>3. ASSUME NEW w \in Worker, PutPrepare(w)
          PROVE  files'[f].key \in Key /\ files'[f].size \in 1 .. MaxFileSize
      <3>1. PICK g \in File, k \in Key, n \in Size, x \in Expiry :
              /\ ~Refused(snap[w], n)
              /\ files' = [files EXCEPT ![g] =
                    [state |-> "building", bucket |-> at[w], key |-> k, size |-> n,
                     created |-> clock + 1, expiry |-> x]]
        BY <2>3 DEF PutPrepare
      <3>2. n \in 1 .. MaxFileSize
        BY <3>1, SizeAccepted
      <3>3. CASE f = g
        BY <3>1, <3>2, <3>3 DEF TypeOK, StoreTypeOK
      <3>4. CASE f # g
        <4>1. files'[f] = files[f]
          BY <3>1, <3>4 DEF TypeOK, StoreTypeOK
        <4> QED
          BY <1>1, <4>1 DEF BuiltOK
      <3> QED
        BY <3>3, <3>4
    <2> QED
      BY <2>1, <2>2, <2>3, StepMoves DEF FileMoves
  <1>2. ASSUME NEW v \in Worker, pc'[v] = "mkInsert"
        PROVE  \E n \in Name, m \in Quota : snap'[v] = NewBucket(n, m)
    <2>1. ASSUME NEW w \in Worker, Begin(w) \/ Step(w) \/ Lost(w)
          PROVE  \E n \in Name, m \in Quota : snap'[v] = NewBucket(n, m)
      <3>1. CASE v = w
        <4>1. CreateBegin(w)
          BY <1>2, <2>1, <3>1, Arrival DEF Arrives
        <4>2. PICK n \in Name, m \in Quota :
                Enter(w, "mkInsert", None, None, {}, NewBucket(n, m))
          BY <4>1 DEF CreateBegin
        <4>3. snap'[w] = NewBucket(n, m)
          BY <4>2, Entered
        <4> QED
          BY <3>1, <4>3
      <3>2. CASE v # w
        BY <1>2, <2>1, <3>2, WorkerActs DEF Acts, Others, BuiltOK
      <3> QED
        BY <3>1, <3>2
    <2>2. CASE pc' = pc /\ snap' = snap
      BY <1>2, <2>2 DEF BuiltOK
    <2> QED
      BY <2>1, <2>2, StepKinds DEF Expire, local, vars
  <1> QED
    BY <1>1, <1>2 DEF BuiltOK

LEMMA BuiltInvariance == Spec => []BuiltOK
  <1>1. Init => BuiltOK
    BY DEF Init, RequestInit, UnusedFile, BuiltOK
  <1>2. IndInv /\ BuiltOK /\ [Next]_vars => BuiltOK'
    BY NextBuilt DEF IndInv
  <1> QED
    BY <1>1, <1>2, Invariance, PTL DEF Spec

\* What clients see of the files.
LEMMA HeldKept ==
    ASSUME LiveKept
    PROVE  HeldNow' = HeldNow
  <1>1. \A f \in File : LiveFile(f) => VersionOf(f)' = VersionOf(f)
    BY DEF LiveKept, VersionOf
  <1>2. \A f \in File : LiveFile(f)' <=> LiveFile(f)
    BY DEF LiveKept
  <1> QED
    BY <1>1, <1>2 DEF HeldNow

LEMMA BytesSeen ==
    ASSUME NEW b \in Bucket
    PROVE  Atomic!Bytes(b) = BytesOf(b)
  <1>1. Atomic!In(b) = {VersionOf(f) : f \in FilesOf(b)}
    BY DEF Atomic!In, HeldNow, FilesOf, VersionOf
  <1>2. \A f \in File : VersionOf(f).id = f /\ VersionOf(f).size = files[f].size
    BY DEF VersionOf
  <1>3. FilesOf(b) \subseteq File
    BY DEF FilesOf
  <1> QED
    BY <1>1, <1>2, <1>3 DEF Atomic!Bytes, BytesOf

LEMMA SameCardinality ==
    ASSUME NEW S
    PROVE  Atomic!Cardinality(S) = Cardinality(S)
  BY DEF Atomic!Cardinality, Cardinality

LEMMA ShelfSeen ==
    ASSUME NEW b \in Bucket
    PROVE  /\ ShelfNow[b].state = buckets[b].state
           /\ ShelfNow[b].name = buckets[b].name
           /\ ShelfNow[b].versioning = buckets[b].versioning
           /\ ShelfNow[b].max = buckets[b].max
           /\ Atomic!Live(b) <=> LiveBucket(b)
  BY DEF ShelfNow, ShelfRow, Atomic!Live, LiveBucket

\* An upload takes effect when its row is inserted.
LEMMA PutStores ==
    ASSUME IndInv, BuiltOK, SerialInv, CountInv, OneAtATime, NEW w \in Worker, PutRow(w)
    PROVE  Atomic!Store
  <1> DEFINE o == obj[w]
             b == at[w]
             v == VersionOf(o)
  <1>1. /\ TypeOK /\ pc[w] = "putWrite" /\ o \in File /\ b \in Bucket
        /\ InsertFile(o) /\ buckets' = buckets
    BY Locals DEF PutRow, AllWritten, IndInv, TypeOK, HasFile, HasBucket
  <1>2. /\ files[o].state = "building" /\ files[o].bucket = b /\ files[o].created = clock
        /\ LiveBucket(b) /\ snap[w] = buckets[b]
    BY <1>1 DEF IndInv, FileInv, WritingOK, SerialInv, HoldingOK
  <1>3. files[o].size \in 1 .. MaxFileSize /\ files[o].key \in Key /\ clock \in Nat
    BY <1>1, <1>2 DEF BuiltOK, TypeOK, StoreTypeOK
  <1>4. v = [id |-> o, bucket |-> b, key |-> files[o].key, size |-> files[o].size, rank |-> clock]
    BY <1>2 DEF VersionOf
  <1>5. v \in Atomic!Version
    BY <1>1, <1>3, <1>4 DEF Atomic!Version
  <1>6. \A u \in HeldNow : u.id # v.id /\ (Atomic!SameKey(u, v) => u.rank < v.rank)
    <2>1. ASSUME NEW f \in File, LiveFile(f)
          PROVE  f # o /\ files[f].created < clock
      <3>1. f # o /\ files[f].state # "unused"
        BY <1>2, <2>1 DEF LiveFile
      <3>2. files[f].created <= clock /\ files[f].created # clock
        BY <1>1, <1>2, <3>1 DEF SerialInv, StampsOK
      <3>3. files[f].created \in Nat
        BY <1>1 DEF TypeOK, StoreTypeOK, FileRow
      <3> QED
        BY <1>3, <3>1, <3>2, <3>3
    <2> QED
      BY <1>4, <2>1 DEF HeldNow, VersionOf
  <1>7. HeldNow' = HeldNow \cup {v}
    <2>1. /\ \A f \in File : LiveFile(f)' <=> LiveFile(f) \/ f = o
          /\ \A f \in File : VersionOf(f)' = VersionOf(f)
      BY <1>1 DEF InsertFile, LiveFile, VersionOf, TypeOK, StoreTypeOK, FileRow
    <2> QED
      BY <1>1, <2>1 DEF HeldNow
  <1>8. Atomic!Room(b, files[o].size)
    <2>1. SUFFICES ASSUME buckets[b].max > 0
                   PROVE  StoredBytes(b) + files[o].size <= buckets[b].max
      BY <1>1, BytesSeen, ShelfSeen, SameCardinality DEF Atomic!Room, StoredBytes
    <2>2. Counts(b, 0, 0)
      BY <1>1, <1>2 DEF CountInv, Counting, OneAtATime
    <2>3. StoredBytes(b) = buckets[b].cur
      BY <1>1, <2>2 DEF Counts, TypeOK, StoreTypeOK, BucketRow
    <2>4. WithinLimit(Charged(buckets[b], files[o].size))
      BY <1>1, <1>2 DEF IndInv, QuotaInv, SnapshotsOK
    <2>5. buckets[b] \in BucketRow /\ files[o].size \in Nat
      BY <1>1 DEF TypeOK, StoreTypeOK, FileRow
    <2> QED
      BY <2>1, <2>3, <2>4, <2>5, ChargedType DEF WithinLimit
  <1>9. ShelfNow' = ShelfNow
    BY <1>1 DEF ShelfNow, ShelfRow
  <1>10. v \notin HeldNow
    BY <1>6
  <1>11. v.bucket = b /\ v.size = files[o].size
    BY <1>4
  <1>12. Atomic!Live(b)
    BY <1>1, <1>2, ShelfSeen
  <1> HIDE DEF v, o, b
  <1> QED
    BY <1>5, <1>6, <1>7, <1>8, <1>9, <1>10, <1>11, <1>12 DEF Atomic!Store

\* A delete takes effect when its row is marked.
LEMMA DeleteTakes ==
    ASSUME IndInv, SerialInv, NEW w \in Worker, DeleteRow(w)
    PROVE  \E v \in HeldNow : Atomic!Delete(v)
  <1> DEFINE o == obj[w]
             v == VersionOf(o)
  <1>1. /\ TypeOK /\ o \in File /\ LiveFile(o) /\ SoftDeleteFile(o) /\ buckets' = buckets
        /\ o \in Latest(at[w], files[o].key)
    BY Locals DEF DeleteRow, Affected, IndInv, TypeOK, HasFile, SerialInv, HoldingOK
  <1>2. v \in HeldNow
    BY <1>1 DEF HeldNow
  <1>3. \A u \in HeldNow : Atomic!SameKey(u, v) => u.rank <= v.rank
    BY <1>1 DEF HeldNow, VersionOf, Atomic!SameKey, Latest, Versions
  <1>4. HeldNow' = HeldNow \ {v}
    <2>1. /\ \A f \in File : LiveFile(f)' <=> LiveFile(f) /\ f # o
          /\ \A f \in File : VersionOf(f)' = VersionOf(f)
      BY <1>1 DEF SoftDeleteFile, LiveFile, VersionOf, TypeOK, StoreTypeOK, FileRow
    <2>2. \A f \in File : VersionOf(f) = v => f = o
      BY DEF VersionOf
    <2> QED
      BY <2>1, <2>2 DEF HeldNow
  <1>5. ShelfNow' = ShelfNow
    BY <1>1 DEF ShelfNow, ShelfRow
  <1> HIDE DEF v
  <1> QED
    BY <1>2, <1>3, <1>4, <1>5 DEF Atomic!Delete

\* The counters are not seen.
LEMMA CountUnseen ==
    ASSUME TypeOK, SerialInv, NEW w \in Worker, PutCount(w) \/ DeleteCount(w)
    PROVE  ShelfNow' = ShelfNow
  <1> DEFINE n == files[obj[w]].size
             b == at[w]
  <1>1. /\ pc[w] \in {"putChunk", "delCount"} /\ b \in Bucket /\ obj[w] \in File
        /\ LiveBucket(b) /\ snap[w] = buckets[b]
        /\ \/ UpdateBucket(b, Charged(buckets[b], n))
           \/ UpdateBucket(b, Refunded(buckets[b], n))
    BY Locals DEF PutCount, ChunksDone, DeleteCount, TypeOK, HasBucket, HasFile, SerialInv,
                  HoldingOK
  <1>2. buckets[b] \in BucketRow
    BY <1>1 DEF TypeOK, StoreTypeOK
  <1>3. \A row \in {Charged(buckets[b], n), Refunded(buckets[b], n)} :
            row.versioning = buckets[b].versioning /\ row.max = buckets[b].max
    BY <1>2 DEF Charged, Refunded, BucketRow
  <1>4. PICK row \in {Charged(buckets[b], n), Refunded(buckets[b], n)} : UpdateBucket(b, row)
    BY <1>1
  <1>5. row.versioning = buckets[b].versioning /\ row.max = buckets[b].max
    BY <1>3
  <1>6. ASSUME NEW c \in Bucket PROVE ShelfRow(c)' = ShelfRow(c)
    BY <1>1, <1>4, <1>5 DEF UpdateBucket, ShelfRow, LiveBucket, TypeOK, StoreTypeOK
  <1> QED
    BY <1>6 DEF ShelfNow

\* Each BucketService request takes effect when it writes its row.
LEMMA BucketServes ==
    ASSUME TypeOK, BuiltOK, SerialInv, NamesInv, ~Fault, NEW w \in Worker,
           BucketStep(w), NoFileChange
    PROVE  [Atomic!ANext]_Atomic!avars
  <1>1. HeldNow' = HeldNow
    BY HeldKept DEF NoFileChange, LiveKept, LiveFile
  <1>2. CASE buckets' = buckets
    <2>1. ShelfNow' = ShelfNow
      BY <1>2 DEF ShelfNow, ShelfRow
    <2> QED
      BY <1>1, <2>1 DEF Atomic!avars
  <1>3. CASE CreateInsert(w)
    <2>1. PICK b \in Bucket :
              /\ pc[w] = "mkInsert" /\ buckets[b].state = "absent"
              /\ buckets' = [buckets EXCEPT ![b] = snap[w]]
      BY <1>3 DEF CreateInsert, InsertBucket
    <2>2. PICK n \in Name, m \in Quota : snap[w] = NewBucket(n, m)
      BY <2>1 DEF BuiltOK
    <2>3. Atomic!NameFree(n)
      <3>1. snap[w].name = n
        BY <2>2 DEF NewBucket
      <3> QED
        BY <2>1, <3>1, ShelfSeen DEF NamesInv, NameTaken, GetByName, Atomic!NameFree
    <2>4. ShelfNow' = [ShelfNow EXCEPT ![b] = Atomic!Fresh(n, m)]
      <3>1. ASSUME NEW c \in Bucket
            PROVE  ShelfRow(c)' = IF c = b THEN Atomic!Fresh(n, m) ELSE ShelfRow(c)
        <4>1. CASE c = b
          <5>1. buckets'[c] = NewBucket(n, m)
            BY <2>1, <2>2, <4>1 DEF TypeOK, StoreTypeOK
          <5> QED
            BY <4>1, <5>1 DEF ShelfRow, NewBucket, Atomic!Fresh
        <4>2. CASE c # b
          <5>1. buckets'[c] = buckets[c]
            BY <2>1, <4>2 DEF TypeOK, StoreTypeOK
          <5> QED
            BY <4>2, <5>1 DEF ShelfRow
        <4> QED
          BY <4>1, <4>2
      <3> QED
        BY <3>1 DEF ShelfNow
    <2>5. ShelfNow[b].state = "absent"
      BY <2>1, ShelfSeen
    <2>6. Atomic!Create(b)
      BY <1>1, <2>3, <2>4, <2>5 DEF Atomic!Create
    <2> QED
      BY <2>6 DEF Atomic!ANext
  <1>4. CASE RemoveRow(w)
    <2>1. CASE LiveBucket(at[w])
      <3> DEFINE b == at[w]
      <3>1. /\ b \in Bucket /\ BucketEmpty(b)
            /\ buckets' = [buckets EXCEPT ![b].state = "deleted"]
        BY <1>4, <2>1, Locals DEF RemoveRow, SoftDeleteBucket, TypeOK, HasBucket, SerialInv,
                                  HoldingOK
      <3>2. Atomic!In(b) = {}
        BY <3>1 DEF Atomic!In, HeldNow, VersionOf, BucketEmpty
      <3>3. ShelfNow' = [ShelfNow EXCEPT ![b].state = "deleted"]
        <4>1. ASSUME NEW c \in Bucket
              PROVE  ShelfRow(c)' = IF c = b THEN [ShelfRow(c) EXCEPT !.state = "deleted"]
                                    ELSE ShelfRow(c)
          BY <3>1 DEF ShelfRow, TypeOK, StoreTypeOK, BucketRow
        <4> QED
          BY <3>1, <4>1 DEF ShelfNow
      <3>4. Atomic!Live(b)
        BY <2>1, <3>1, ShelfSeen
      <3> HIDE DEF b
      <3>5. Atomic!Remove(b)
        BY <1>1, <3>2, <3>3, <3>4 DEF Atomic!Remove
      <3> QED
        BY <3>1, <3>5 DEF Atomic!ANext
    <2>2. CASE ~LiveBucket(at[w])
      BY <1>2, <1>4, <2>2 DEF RemoveRow
    <2> QED
      BY <2>1, <2>2
  <1>5. CASE VersionWrite(w)
    <2> DEFINE b == at[w]
    <2>1. /\ b \in Bucket /\ LiveBucket(b) /\ UpdateBucket(b, snap[w])
          /\ \E v \in Versioning : snap[w] = [buckets[b] EXCEPT !.versioning = v]
      BY <1>5, Locals DEF VersionWrite, TypeOK, HasBucket, SerialInv, HoldingOK
    <2>2. PICK v \in Versioning : snap[w] = [buckets[b] EXCEPT !.versioning = v]
      BY <2>1
    <2>3. /\ buckets'[b].state = "live" /\ buckets'[b].name = buckets[b].name
          /\ buckets'[b].versioning = v /\ buckets'[b].max = buckets[b].max
          /\ \A c \in Bucket \ {b} : buckets'[c] = buckets[c]
      BY <2>1, <2>2 DEF UpdateBucket, LiveBucket, TypeOK, StoreTypeOK, BucketRow
    <2>4. ShelfNow' = [ShelfNow EXCEPT ![b].versioning = v]
      <3>1. ASSUME NEW c \in Bucket
            PROVE  ShelfRow(c)' = IF c = b THEN [ShelfRow(c) EXCEPT !.versioning = v]
                                  ELSE ShelfRow(c)
        BY <2>1, <2>3 DEF ShelfRow, LiveBucket
      <3> QED
        BY <2>1, <3>1 DEF ShelfNow
    <2>5. Atomic!Live(b) /\ v \in Atomic!Setting
      BY <2>1, ShelfSeen DEF Atomic!Setting, Versioning
    <2> HIDE DEF b
    <2>6. Atomic!SetVersioning(b)
      BY <1>1, <2>4, <2>5 DEF Atomic!SetVersioning
    <2> QED
      BY <2>1, <2>6 DEF Atomic!ANext
  <1> QED
    BY <1>2, <1>3, <1>4, <1>5 DEF BucketStep, CreateInsertError, RemoveCount, RemoveRefused,
        RemoveRowError, VersionWriteError

\* Every step of the service is one of the abstract store's, or is not seen.
LEMMA NextServes ==
    ASSUME IndInv, BuiltOK, SerialInv, NamesInv, CountInv, OneAtATime, Unswept, Unharmed',
           [Next]_vars
    PROVE  [Atomic!ANext]_Atomic!avars
  <1>0. TypeOK /\ ~Fault /\ \A w \in Worker : ~Lost(w)
    BY CalmStep DEF IndInv
  <1>1. ASSUME NEW w \in Worker, PutRow(w) PROVE [Atomic!ANext]_Atomic!avars
    BY <1>1, PutStores DEF Atomic!ANext
  <1>2. ASSUME NEW w \in Worker, DeleteRow(w) PROVE [Atomic!ANext]_Atomic!avars
    BY <1>2, DeleteTakes DEF Atomic!ANext
  <1>3. CASE LiveKept
    <2>1. HeldNow' = HeldNow
      BY <1>3, HeldKept
    <2>2. CASE buckets' = buckets
      <3>1. ShelfNow' = ShelfNow
        BY <2>2 DEF ShelfNow, ShelfRow
      <3> QED
        BY <2>1, <3>1 DEF Atomic!avars
    <2>3. ASSUME NEW w \in Worker, CountChanged(w)
          PROVE  [Atomic!ANext]_Atomic!avars
      <3>1. PutCount(w) \/ DeleteCount(w)
        BY <1>0, <2>3 DEF CountChanged, PutCountError, DeleteCountError
      <3>2. ShelfNow' = ShelfNow
        BY <1>0, <3>1, CountUnseen
      <3> QED
        BY <2>1, <3>2 DEF Atomic!avars
    <2>4. ASSUME NEW w \in Worker, BucketStep(w) /\ NoFileChange
          PROVE  [Atomic!ANext]_Atomic!avars
      BY <1>0, <2>4, BucketServes
    <2> QED
      BY <2>2, <2>3, <2>4, BucketWriters
  <1>4. ASSUME NEW w \in Worker
        PROVE  ~PutRowError(w) /\ ~DeleteRowError(w) /\ ~CleanOne(w) /\ ~CleanOneError(w)
    BY <1>0 DEF PutRowError, DeleteRowError, CleanOne, CleanOneError, Unswept
  <1> QED
    BY <1>0, <1>1, <1>2, <1>3, <1>4, LiveWriters DEF RowChanged

LEMMA InitServes == Init => Atomic!AInit
  <1> SUFFICES ASSUME Init PROVE Atomic!AInit
    OBVIOUS
  <1>1. HeldNow = {}
    BY DEF Init, UnusedFile, HeldNow, LiveFile
  <1>2. PICK nm \in [Existing -> Name], mx \in [Existing -> Quota] :
          /\ \A b, c \in Existing : nm[b] = nm[c] => b = c
          /\ buckets = [b \in Bucket |-> IF b \in Existing
                                         THEN NewBucket(nm[b], mx[b])
                                         ELSE AbsentBucket]
    BY DEF Init
  <1>3. ASSUME NEW b \in Bucket
        PROVE  \/ ShelfNow[b].state = "absent"
               \/ \E n \in Name, m \in Quota : ShelfNow[b] = Atomic!Fresh(n, m)
    <2>1. CASE b \in Existing
      <3>1. buckets[b] = NewBucket(nm[b], mx[b]) /\ nm[b] \in Name /\ mx[b] \in Quota
        BY <1>2, <2>1
      <3> QED
        BY <3>1 DEF ShelfNow, ShelfRow, NewBucket, Atomic!Fresh
    <2>2. CASE b \notin Existing
      <3>1. buckets[b] = AbsentBucket
        BY <1>2, <2>2
      <3> QED
        BY <3>1, ShelfSeen DEF AbsentBucket
    <2> QED
      BY <2>1, <2>2
  <1>4. LiveNamesUnique
    BY InitNames DEF NamesInv
  <1>5. ASSUME NEW b \in Bucket, NEW c \in Bucket, Atomic!Live(b), Atomic!Live(c),
               ShelfNow[b].name = ShelfNow[c].name
        PROVE  b = c
    BY <1>4, <1>5, ShelfSeen DEF LiveNamesUnique
  <1> QED
    BY <1>1, <1>3, <1>5 DEF Atomic!AInit

\* When requests come one at a time, no call fails, no request is lost and
\* nothing is swept, clients see nothing of rows, counters, chunks and files:
\* the service implements the abstract store.
THEOREM Serves == Spec /\ [](OneAtATime /\ Unharmed /\ Unswept) => ServesAtomically
  <1>1. NamesInv /\ SerialInv /\ CountInv /\ IndInv /\ BuiltOK
            /\ OneAtATime /\ Unharmed' /\ Unswept /\ [Next]_vars
        => [Atomic!ANext]_Atomic!avars
    BY NextServes
  <1>2. Unharmed => NoneFailed
    BY DEF Unharmed, NoneFailed
  <1>3. Spec /\ [](OneAtATime /\ NoneFailed) => []NamesInv
    BY InitNames, NextNames, TypeCorrect, PTL DEF Spec
  <1> QED
    BY <1>1, <1>2, <1>3, InitServes, BuiltInvariance, SerialInvariance, CountInvariance,
       Invariance, PTL DEF Spec, ServesAtomically, Atomic!ASpec

-----------------------------------------------------------------------------
(* The instance that is model-checked *)

\* One worker and no budget for faults or lost requests: the constants of the
\* run of these properties.
Sequentially ==
    /\ \A v, w \in Worker : v = w
    /\ MaxFaults = 0 /\ MaxCrashes = 0
    /\ "clean" \notin Ops

\* A call fails, a request is lost, or the budgets stay as they are.
LEMMA Budgets ==
    ASSUME [Next]_vars
    PROVE  NoFault \/ Fault \/ \E w \in Worker : Lost(w)
  <1>1. ASSUME NEW w \in Worker, FileBegin(w) PROVE NoFault
    BY <1>1 DEF FileBegin, PutBegin, GetBegin, DeleteBegin, CleanBegin
  <1>2. ASSUME NEW w \in Worker, PutStep(w) PROVE NoFault \/ Fault
    BY <1>2 DEF PutStep, PutRefuse, PutBodyError, PutPrepare, PutWrite, PutWriteError, PutRow,
                PutRowError, PutChunk, PutChunkError, PutCount, PutCountError
  <1>3. ASSUME NEW w \in Worker, GetStep(w) \/ CleanStep(w) PROVE NoFault \/ Fault
    BY <1>3 DEF GetStep, GetList, GetNoChunks, GetRead, GetReadError, GetReply, GetAgainError,
                CleanStep, CleanOne, CleanOneError, CleanEnd
  <1>4. ASSUME NEW w \in Worker, DeleteStep(w) PROVE NoFault \/ Fault
    BY <1>4 DEF DeleteStep, DeleteList, DeleteListError, DeleteDisk, DeleteDiskError, DeleteRow,
                DeleteLost, DeleteRowError, DeleteBucketRead, DeleteBucketGone, DeleteCount,
                DeleteCountError
  <1>5. ASSUME NEW w \in Worker, BucketBegin(w) PROVE NoFault \/ Fault
    BY <1>5 DEF BucketBegin, CreateBegin, RemoveBegin, VersionBegin
  <1>6. ASSUME NEW w \in Worker, BucketStep(w) PROVE NoFault \/ Fault
    BY <1>6 DEF BucketStep, CreateInsert, CreateInsertError, RemoveCount, RemoveRefused,
                RemoveRow, RemoveRowError, VersionWrite, VersionWriteError
  <1>7. ASSUME NEW f \in File, Expire(f) PROVE NoFault
    BY <1>7 DEF Expire, NoFault
  <1>8. UNCHANGED vars => NoFault
    BY DEF vars, NoFault
  <1> QED
    BY <1>1, <1>2, <1>3, <1>4, <1>5, <1>6, <1>7, <1>8, StepKinds DEF Begin, Step, FileStep

LEMMA NextCalm ==
    ASSUME Sequentially, TypeOK, Unharmed, Unswept, [Next]_vars
    PROVE  Unharmed' /\ Unswept'
  <1>1. ~Fault /\ \A w \in Worker : ~Lost(w)
    BY DEF Unharmed, Sequentially, Fault, Lost, Crash
  <1>2. Unharmed'
    BY <1>1, Budgets DEF NoFault, Unharmed
  <1>3. ASSUME NEW w \in Worker, pc'[w] = "clean" PROVE FALSE
    <2>1. ASSUME NEW v \in Worker, Begin(v) \/ Step(v) PROVE FALSE
      <3>1. v = w
        BY DEF Sequentially
      <3>2. CleanBegin(w) \/ CleanStep(w)
        BY <1>3, <2>1, <3>1, Arrival DEF Arrives
      <3> QED
        BY <3>2 DEF Sequentially, CleanBegin, CleanStep, CleanOne, CleanOneError, CleanEnd,
                    Unswept
    <2>2. ASSUME pc' = pc PROVE FALSE
      BY <1>3, <2>2 DEF Unswept
    <2> QED
      BY <1>1, <2>1, <2>2, StepKinds DEF Expire, local, vars
  <1> QED
    BY <1>2, <1>3 DEF Unswept

LEMMA Calm ==
    ASSUME Sequentially
    PROVE  Spec => [](OneAtATime /\ Unharmed /\ Unswept)
  <1>1. Init => Unharmed /\ Unswept
    BY DEF Init, RequestInit, Unharmed, Unswept
  <1>2. TypeOK /\ Unharmed /\ Unswept /\ [Next]_vars => Unharmed' /\ Unswept'
    BY NextCalm
  <1>3. OneAtATime
    BY DEF Sequentially, OneAtATime
  <1> QED
    BY <1>1, <1>2, <1>3, TypeCorrect, PTL DEF Spec

\* With these constants the circumstances above are no hypothesis but a fact,
\* so all that the run shows of three versions in two buckets holds of any
\* number of them, of any sizes, limits and shard counts.
THEOREM Sequential ==
    ASSUME Sequentially
    PROVE  Spec =>
            /\ [](CountersExact /\ StoredWithinQuota /\ LiveNamesUnique
                    /\ DeletedBucketEmpty /\ NoOrphanShards)
            /\ VersioningSticks /\ VersionsStack /\ WholeReads /\ ServesAtomically
  <1>1. Unharmed => NoneFailed
    BY DEF Unharmed, NoneFailed
  <1> QED
    BY <1>1, Calm, ExactCounters, StoredQuota, NamesUnique, DeletedIsEmpty, NothingOrphaned,
       VersioningKept, StackKept, ReadsAreWhole, Serves, PTL
=============================================================================
