------------------------- MODULE ObjectStoreSafety --------------------------
(***************************************************************************)
(* ObjectStore's safety properties, for every set of workers, buckets,     *)
(* files, keys, sizes and quotas, and any number of failed calls and lost  *)
(* requests.                                                               *)
(*                                                                         *)
(* Types come first.  The invariant then has two halves.  FileInv is about *)
(* files, chunks and rows; most steps leave those alone and only move a    *)
(* request along, which lemma QuietStep settles once.  QuotaInv is about   *)
(* the counters, and every step keeps it for the same reason: whatever     *)
(* copy of a bucket row a request holds is within its limit by itself.     *)
(***************************************************************************)
EXTENDS ObjectStoreInv, TLAPS

USE DEF Shard

-----------------------------------------------------------------------------
(* Types *)

\* One assignment to a request's local variables keeps them typed when the
\* new values suit the new label.
LEMMA EnterType ==
    ASSUME LocalTypeOK, NEW w \in Worker, NEW l \in Label,
           NEW b \in Bucket \cup {None}, NEW f \in File \cup {None},
           NEW t \in SUBSET (Shard \cup File), NEW row \in BucketRow \cup {None},
           l \in HasBucket => b \in Bucket,
           l \in HasFile => f \in File,
           l \in HasSnap => row \in BucketRow,
           IF l = "clean" THEN t \subseteq File ELSE t \subseteq Shard,
           Enter(w, l, b, f, t, row)
    PROVE  LocalTypeOK'
  BY DEF LocalTypeOK, Enter

\* Answering or losing a request keeps the local variables typed.
LEMMA ReturnType ==
    ASSUME LocalTypeOK, NEW w \in Worker, Return(w)
    PROVE  LocalTypeOK'
  BY EnterType DEF Return, HasBucket, HasFile, HasSnap, Label

\* So does finishing one item of a loop.
LEMMA TickedType ==
    ASSUME LocalTypeOK, NEW w \in Worker, NEW i, Ticked(w, i)
    PROVE  LocalTypeOK'
  <1>1. pc[w] \in Label /\ at[w] \in Bucket \cup {None}
        /\ obj[w] \in File \cup {None} /\ snap[w] \in BucketRow \cup {None}
    BY DEF LocalTypeOK
  <1>2. todo[w] \ {i} \in SUBSET (Shard \cup File)
    BY DEF LocalTypeOK
  <1>3. /\ pc[w] \in HasBucket => at[w] \in Bucket
        /\ pc[w] \in HasFile => obj[w] \in File
        /\ pc[w] \in HasSnap => snap[w] \in BucketRow
        /\ IF pc[w] = "clean" THEN todo[w] \ {i} \subseteq File
                              ELSE todo[w] \ {i} \subseteq Shard
    BY DEF LocalTypeOK
  <1> HIDE DEF Shard
  <1> QED
    BY <1>1, <1>2, <1>3, EnterType DEF Ticked

\* A worker's locals, read off the type invariant.
LEMMA Locals ==
    ASSUME LocalTypeOK, NEW w \in Worker
    PROVE  /\ pc[w] \in HasBucket => at[w] \in Bucket
           /\ pc[w] \in HasFile => obj[w] \in File
           /\ pc[w] \in HasSnap => snap[w] \in BucketRow
           /\ pc[w] = "clean" => todo[w] \subseteq File
           /\ pc[w] # "clean" => todo[w] \subseteq Shard
  BY DEF LocalTypeOK

\* A row that Update may write is one the store may hold.
LEMMA UpdateType ==
    ASSUME StoreTypeOK, NEW b \in Bucket, NEW row \in BucketRow, UpdateBucket(b, row)
    PROVE  buckets' \in [Bucket -> BucketRow]
  BY DEF StoreTypeOK, UpdateBucket, LiveBucket, BucketRow

\* Adding an object to a row gives a row, with the object's bytes added.
LEMMA ChargedType ==
    ASSUME NEW row \in BucketRow, NEW n \in Nat
    PROVE  /\ Charged(row, n) \in BucketRow
           /\ Charged(row, n).cur = row.cur + n
           /\ Charged(row, n).max = row.max
  <1> DEFINE c == row.cur + n
             k == row.count + 1
  <1>1. c \in Nat /\ k \in Nat
    BY DEF BucketRow
  <1>2. Charged(row, n) = [row EXCEPT !.cur = c, !.count = k]
    BY DEF Charged
  <1> HIDE DEF c, k
  <1>3. /\ [row EXCEPT !.cur = c, !.count = k] \in BucketRow
        /\ [row EXCEPT !.cur = c, !.count = k].cur = c
        /\ [row EXCEPT !.cur = c, !.count = k].max = row.max
    BY <1>1 DEF BucketRow
  <1> QED
    BY <1>2, <1>3 DEF c

\* Subtracting one gives a row that records no more than before.
LEMMA RefundedType ==
    ASSUME NEW row \in BucketRow, NEW n \in Nat
    PROVE  /\ Refunded(row, n) \in BucketRow
           /\ Refunded(row, n).cur <= row.cur
           /\ Refunded(row, n).max = row.max
  <1> DEFINE c == AtLeastZero(row.cur - n)
             k == AtLeastZero(row.count - 1)
  <1>1. c \in Nat /\ k \in Nat /\ c <= row.cur
    BY DEF BucketRow, AtLeastZero
  <1>2. Refunded(row, n) = [row EXCEPT !.cur = c, !.count = k]
    BY DEF Refunded
  <1> HIDE DEF c, k
  <1>3. /\ [row EXCEPT !.cur = c, !.count = k] \in BucketRow
        /\ [row EXCEPT !.cur = c, !.count = k].cur = c
        /\ [row EXCEPT !.cur = c, !.count = k].max = row.max
    BY <1>1 DEF BucketRow
  <1> QED
    BY <1>1, <1>2, <1>3

\* Setting a file's state or expiry leaves a table of file rows.
LEMMA FilesType ==
    ASSUME StoreTypeOK, NEW f \in File,
           \/ InsertFile(f) \/ SoftDeleteFile(f)
           \/ files' = [files EXCEPT ![f].expiry = "passed"]
    PROVE  files' \in [File -> FileRow]
  BY DEF StoreTypeOK, InsertFile, SoftDeleteFile, FileRow

\* Budgets are numbers whatever a step does to them.
LEMMA BudgetType ==
    ASSUME TypeOK, Fault \/ NoFault
    PROVE  faults' \in Nat /\ crashes' \in Nat
  BY DEF TypeOK, Fault, NoFault

\* Initially every table is empty or holds what CreateBucket wrote.
LEMMA InitType == Init => TypeOK
  <1> SUFFICES ASSUME Init PROVE TypeOK
    OBVIOUS
  <1>1. PICK nm \in [Existing -> Name], mx \in [Existing -> Quota] :
          buckets = [b \in Bucket |-> IF b \in Existing
                                      THEN NewBucket(nm[b], mx[b])
                                      ELSE AbsentBucket]
    BY DEF Init
  <1>2. \A b \in Existing : nm[b] \in Name /\ mx[b] \in Int
    BY <1>1, QuotaAssumption
  <1>3. buckets \in [Bucket -> BucketRow]
    BY <1>1, <1>2 DEF NewBucket, AbsentBucket, BucketRow, Versioning
  <1>4. files \in [File -> FileRow]
    BY DEF Init, UnusedFile, FileRow
  <1>5. LocalTypeOK /\ faults \in Nat /\ crashes \in Nat
    BY DEF Init, RequestInit, LocalTypeOK, Label, HasBucket, HasFile, HasSnap
  <1>6. /\ chunkRows \in [File -> SUBSET Shard]
        /\ disk \subseteq File \X Shard
        /\ clock \in Nat /\ acked \subseteq File /\ picked \subseteq File
        /\ refunds \in [File -> Nat]
    BY DEF Init
  <1> QED
    BY <1>3, <1>4, <1>5, <1>6 DEF TypeOK, StoreTypeOK

\* Steps that leave the store and its history alone keep it typed.
LEMMA SameStoreType ==
    ASSUME TypeOK, LocalTypeOK', Fault \/ NoFault,
           UNCHANGED <<store, acked, refunds>>, picked' \subseteq File
    PROVE  TypeOK'
  BY BudgetType DEF TypeOK, StoreTypeOK, store

\* PutObject keeps the types.
LEMMA PutType ==
    ASSUME TypeOK, NEW w \in Worker,
           (\E b \in Bucket : PutBegin(w, b)) \/ PutStep(w)
    PROVE  TypeOK'
  <1> USE DEF TypeOK
  <1>0. /\ pc[w] \in HasBucket => at[w] \in Bucket
        /\ pc[w] \in HasFile => obj[w] \in File
        /\ pc[w] \in HasSnap => snap[w] \in BucketRow
        /\ pc[w] # "clean" => todo[w] \subseteq Shard
    BY Locals
  <1>1. ASSUME NEW b \in Bucket, PutBegin(w, b) PROVE TypeOK'
    <2>1. buckets[b] \in BucketRow
      BY DEF StoreTypeOK
    <2>2. LocalTypeOK'
      BY <1>1, <2>1, EnterType DEF PutBegin, Label, HasBucket, HasFile, HasSnap
    <2> QED
      BY <1>1, <2>2, SameStoreType DEF PutBegin, history, StoreTypeOK
  <1>2. CASE PutRefuse(w)
    BY <1>2, ReturnType, SameStoreType DEF PutRefuse, history, StoreTypeOK
  <1>3. CASE PutBodyError(w)
    BY <1>3, ReturnType, SameStoreType DEF PutBodyError, history, StoreTypeOK
  <1>4. CASE PutPrepare(w)
    <2>1. PICK f \in File, k \in Key, n \in Size, x \in Expiry :
            /\ files' = [files EXCEPT ![f] =
                 [state |-> "building", bucket |-> at[w], key |-> k, size |-> n,
                  created |-> clock + 1, expiry |-> x]]
            /\ Enter(w, "putWrite", at[w], f, ShardsOf(n), snap[w])
      BY <1>4 DEF PutPrepare
    <2>2. /\ at[w] \in Bucket /\ snap[w] \in BucketRow /\ n \in Nat
          /\ x \in {"never", "pending"} /\ clock + 1 \in Nat
      BY <1>0, <1>4, FileAssumption DEF PutPrepare, HasBucket, HasSnap, StoreTypeOK
    <2>3. files' \in [File -> FileRow]
      BY <2>1, <2>2 DEF FileRow, StoreTypeOK
    <2>4. ShardsOf(n) \in SUBSET Shard
      BY DEF ShardsOf
    <2>5. LocalTypeOK'
      <3> HIDE DEF Shard
      <3> QED
        BY <2>1, <2>2, <2>4, EnterType DEF Label, HasBucket, HasFile, HasSnap
    <2> QED
      BY <1>4, <2>2, <2>3, <2>5, BudgetType DEF PutPrepare, StoreTypeOK, history
  <1>5. CASE PutWrite(w)
    <2>1. PICK s \in NextShard(w) :
            disk' = disk \cup {<<obj[w], s>>} /\ Ticked(w, s)
      BY <1>5 DEF PutWrite
    <2>2. obj[w] \in File /\ s \in Shard
      BY <1>0, <1>5 DEF PutWrite, HasFile, NextShard
    <2>3. disk' \subseteq File \X Shard
      BY <2>1, <2>2 DEF StoreTypeOK
    <2> QED
      BY <1>5, <2>1, <2>3, TickedType, BudgetType DEF PutWrite, StoreTypeOK, history
  <1>6. CASE PutWriteError(w)
    <2>1. obj[w] \in File /\ NextShard(w) \subseteq Shard
      BY <1>0, <1>6 DEF PutWriteError, HasFile, NextShard
    <2>2. disk' \subseteq File \X Shard
      BY <1>6, <2>1 DEF PutWriteError, StoreTypeOK
    <2> QED
      BY <1>6, <2>2, ReturnType, BudgetType DEF PutWriteError, StoreTypeOK, history
  <1>7. CASE PutRow(w)
    <2>1. /\ at[w] \in Bucket /\ obj[w] \in File /\ snap[w] \in BucketRow
      BY <1>0, <1>7 DEF PutRow, AllWritten, HasBucket, HasFile, HasSnap
    <2>2. ShardsOfFile(obj[w]) \in SUBSET Shard
      BY DEF ShardsOfFile, ShardsOf
    <2>3. LocalTypeOK'
      <3> HIDE DEF Shard
      <3> QED
        BY <1>7, <2>1, <2>2, EnterType DEF PutRow, Label, HasBucket, HasFile, HasSnap
    <2> QED
      BY <1>7, <2>1, <2>3, FilesType, BudgetType DEF PutRow, StoreTypeOK, history
  <1>8. CASE PutRowError(w)
    <2>1. obj[w] \in File
      BY <1>0, <1>8 DEF PutRowError, AllWritten, HasFile
    <2>2. files' \in [File -> FileRow]
      BY <1>8, <2>1, FilesType DEF PutRowError, StoreTypeOK
    <2> QED
      BY <1>8, <2>2, ReturnType, BudgetType DEF PutRowError, StoreTypeOK, history
  <1>9. CASE PutChunk(w)
    <2>1. PICK s \in NextShard(w) : CreateChunk(obj[w], s) /\ Ticked(w, s)
      BY <1>9 DEF PutChunk
    <2>2. obj[w] \in File /\ s \in Shard
      BY <1>0, <1>9 DEF PutChunk, HasFile, NextShard
    <2>3. chunkRows' \in [File -> SUBSET Shard]
      BY <2>1, <2>2 DEF CreateChunk, StoreTypeOK
    <2> QED
      BY <1>9, <2>1, <2>3, TickedType, BudgetType DEF PutChunk, StoreTypeOK, history
  <1>10. CASE PutChunkError(w)
    <2>1. PICK s \in NextShard(w) :
            /\ UNCHANGED chunkRows \/ CreateChunk(obj[w], s)
            /\ Ticked(w, s)
      BY <1>10 DEF PutChunkError
    <2>2. obj[w] \in File /\ s \in Shard
      BY <1>0, <1>10 DEF PutChunkError, HasFile, NextShard
    <2>3. chunkRows' \in [File -> SUBSET Shard]
      BY <2>1, <2>2 DEF CreateChunk, StoreTypeOK
    <2> QED
      BY <1>10, <2>1, <2>3, TickedType, BudgetType DEF PutChunkError, StoreTypeOK, history
  <1>11. CASE PutCount(w)
    <2>1. /\ at[w] \in Bucket /\ obj[w] \in File /\ snap[w] \in BucketRow
      BY <1>0, <1>11 DEF PutCount, ChunksDone, HasBucket, HasFile, HasSnap
    <2>2. files[obj[w]].size \in Nat
      BY <2>1 DEF StoreTypeOK, FileRow
    <2>3. buckets' \in [Bucket -> BucketRow]
      BY <1>11, <2>1, <2>2, ChargedType, UpdateType DEF PutCount
    <2> QED
      BY <1>11, <2>1, <2>3, ReturnType, BudgetType DEF PutCount, StoreTypeOK
  <1>12. CASE PutCountError(w)
    <2>1. /\ at[w] \in Bucket /\ obj[w] \in File /\ snap[w] \in BucketRow
      BY <1>0, <1>12 DEF PutCountError, ChunksDone, HasBucket, HasFile, HasSnap
    <2>2. files[obj[w]].size \in Nat
      BY <2>1 DEF StoreTypeOK, FileRow
    <2>3. buckets' \in [Bucket -> BucketRow]
      BY <1>12, <2>1, <2>2, ChargedType, UpdateType DEF PutCountError, StoreTypeOK
    <2> QED
      BY <1>12, <2>1, <2>3, ReturnType, BudgetType DEF PutCountError, StoreTypeOK
  <1> QED
    BY <1>1, <1>2, <1>3, <1>4, <1>5, <1>6, <1>7, <1>8, <1>9, <1>10, <1>11, <1>12
    DEF PutStep

\* GetObject keeps the types.
LEMMA GetType ==
    ASSUME TypeOK, NEW w \in Worker, GetBegin(w) \/ GetStep(w)
    PROVE  TypeOK'
  <1> USE DEF TypeOK
  <1>0. pc[w] \in HasBucket => at[w] \in Bucket
    BY Locals
  <1>1. CASE GetBegin(w)
    <2>1. PICK b \in Bucket, f \in File : Enter(w, "getList", b, f, {}, None)
      BY <1>1 DEF GetBegin, Versions
    <2>2. LocalTypeOK'
      BY <2>1, EnterType DEF Label, HasBucket, HasFile, HasSnap
    <2> QED
      BY <1>1, <2>2, SameStoreType DEF GetBegin, history, StoreTypeOK
  <1>2. CASE GetList(w)
    <2>1. at[w] \in Bucket /\ obj[w] \in File
      BY <1>2, Locals DEF GetList, HasBucket, HasFile
    <2>2. chunkRows[obj[w]] \in SUBSET Shard
      BY <2>1 DEF StoreTypeOK
    <2>3. LocalTypeOK'
      <3> HIDE DEF Shard
      <3> QED
        BY <1>2, <2>1, <2>2, EnterType DEF GetList, Label, HasBucket, HasFile, HasSnap
    <2> QED
      BY <1>2, <2>3, SameStoreType DEF GetList, history, StoreTypeOK
  <1>3. CASE GetNoChunks(w)
    BY <1>3, ReturnType, SameStoreType DEF GetNoChunks, history, StoreTypeOK
  <1>4. CASE GetRead(w)
    BY <1>4, TickedType, SameStoreType DEF GetRead, history, StoreTypeOK
  <1>5. CASE GetReadError(w)
    BY <1>5, ReturnType, SameStoreType DEF GetReadError, history, StoreTypeOK
  <1>6. CASE GetReply(w) \/ GetAgainError(w)
    BY <1>6, ReturnType, SameStoreType DEF GetReply, GetAgainError, history, StoreTypeOK
  <1> QED
    BY <1>1, <1>2, <1>3, <1>4, <1>5, <1>6 DEF GetStep

\* DeleteObject keeps the types.
LEMMA DeleteType ==
    ASSUME TypeOK, NEW w \in Worker, DeleteBegin(w) \/ DeleteStep(w)
    PROVE  TypeOK'
  <1> USE DEF TypeOK
  <1>0. /\ pc[w] \in HasBucket => at[w] \in Bucket
        /\ pc[w] \in HasFile => obj[w] \in File
        /\ pc[w] \in HasSnap => snap[w] \in BucketRow
    BY Locals
  <1>1. CASE DeleteBegin(w)
    <2>1. PICK b \in Bucket, f \in File :
            Enter(w, "delList", b, f, {}, None) /\ picked' = picked \cup {f}
      BY <1>1 DEF DeleteBegin, Latest, Versions
    <2>2. LocalTypeOK'
      BY <2>1, EnterType DEF Label, HasBucket, HasFile, HasSnap
    <2> QED
      BY <1>1, <2>1, <2>2, SameStoreType DEF DeleteBegin, StoreTypeOK
  <1>2. CASE DeleteList(w)
    <2>1. at[w] \in Bucket /\ obj[w] \in File
      BY <1>0, <1>2 DEF DeleteList, HasBucket, HasFile
    <2>2. chunkRows[obj[w]] \in SUBSET Shard
      BY <2>1 DEF StoreTypeOK
    <2>3. LocalTypeOK'
      <3> HIDE DEF Shard
      <3> QED
        BY <1>2, <2>1, <2>2, EnterType DEF DeleteList, Label, HasBucket, HasFile, HasSnap
    <2> QED
      BY <1>2, <2>3, SameStoreType DEF DeleteList, history, StoreTypeOK
  <1>3. CASE DeleteListError(w)
    <2>1. at[w] \in Bucket /\ obj[w] \in File
      BY <1>0, <1>3 DEF DeleteListError, HasBucket, HasFile
    <2>2. LocalTypeOK'
      BY <1>3, <2>1, EnterType DEF DeleteListError, Label, HasBucket, HasFile, HasSnap
    <2> QED
      BY <1>3, <2>2, SameStoreType DEF DeleteListError, history, StoreTypeOK
  <1>4. CASE DeleteDisk(w)
    BY <1>4, TickedType, BudgetType DEF DeleteDisk, StoreTypeOK, history
  <1>5. CASE DeleteDiskError(w)
    BY <1>5, TickedType, SameStoreType DEF DeleteDiskError, history, StoreTypeOK
  <1>6. CASE DeleteRow(w)
    <2>1. at[w] \in Bucket /\ obj[w] \in File
      BY <1>0, <1>6 DEF DeleteRow, HasBucket, HasFile
    <2>2. LocalTypeOK'
      BY <1>6, <2>1, EnterType DEF DeleteRow, Label, HasBucket, HasFile, HasSnap
    <2>3. refunds' \in [File -> Nat]
      BY <1>6, <2>1 DEF DeleteRow, StoreTypeOK
    <2> QED
      BY <1>6, <2>1, <2>2, <2>3, FilesType, BudgetType DEF DeleteRow, StoreTypeOK
  <1>7. CASE DeleteLost(w)
    BY <1>7, ReturnType, SameStoreType DEF DeleteLost, history, StoreTypeOK
  <1>8. CASE DeleteRowError(w)
    <2>1. obj[w] \in File
      BY <1>0, <1>8 DEF DeleteRowError, HasFile
    <2>2. files' \in [File -> FileRow]
      BY <1>8, <2>1, FilesType DEF DeleteRowError, StoreTypeOK
    <2> QED
      BY <1>8, <2>2, ReturnType, BudgetType DEF DeleteRowError, StoreTypeOK, history
  <1>9. CASE DeleteBucketRead(w)
    <2>1. at[w] \in Bucket /\ obj[w] \in File
      BY <1>0, <1>9 DEF DeleteBucketRead, HasBucket, HasFile
    <2>2. buckets[at[w]] \in BucketRow
      BY <2>1 DEF StoreTypeOK
    <2>3. LocalTypeOK'
      BY <1>9, <2>1, <2>2, EnterType DEF DeleteBucketRead, Label, HasBucket, HasFile, HasSnap
    <2> QED
      BY <1>9, <2>3, SameStoreType DEF DeleteBucketRead, history, StoreTypeOK
  <1>10. CASE DeleteBucketGone(w)
    BY <1>10, ReturnType, SameStoreType DEF DeleteBucketGone, history, StoreTypeOK
  <1>11. CASE DeleteCount(w)
    <2>1. /\ at[w] \in Bucket /\ obj[w] \in File /\ snap[w] \in BucketRow
      BY <1>0, <1>11 DEF DeleteCount, HasBucket, HasFile, HasSnap
    <2>2. files[obj[w]].size \in Nat
      BY <2>1 DEF StoreTypeOK, FileRow
    <2>3. buckets' \in [Bucket -> BucketRow]
      BY <1>11, <2>1, <2>2, RefundedType, UpdateType DEF DeleteCount
    <2> QED
      BY <1>11, <2>3, ReturnType, BudgetType DEF DeleteCount, StoreTypeOK, history
  <1>12. CASE DeleteCountError(w)
    <2>1. /\ at[w] \in Bucket /\ obj[w] \in File /\ snap[w] \in BucketRow
      BY <1>0, <1>12 DEF DeleteCountError, HasBucket, HasFile, HasSnap
    <2>2. files[obj[w]].size \in Nat
      BY <2>1 DEF StoreTypeOK, FileRow
    <2>3. buckets' \in [Bucket -> BucketRow]
      BY <1>12, <2>1, <2>2, RefundedType, UpdateType DEF DeleteCountError, StoreTypeOK
    <2> QED
      BY <1>12, <2>3, ReturnType, BudgetType DEF DeleteCountError, StoreTypeOK, history
  <1> QED
    BY <1>1, <1>2, <1>3, <1>4, <1>5, <1>6, <1>7, <1>8, <1>9, <1>10, <1>11, <1>12
    DEF DeleteStep

\* CleanupExpiredObjects keeps the types.
LEMMA CleanType ==
    ASSUME TypeOK, NEW w \in Worker, CleanBegin(w) \/ CleanStep(w)
    PROVE  TypeOK'
  <1> USE DEF TypeOK
  <1>1. CASE CleanBegin(w)
    <2>1. PICK listed \in ListExpired(CleanupLimit) :
              Enter(w, "clean", None, None, listed, None)
      BY <1>1 DEF CleanBegin
    <2>2. LocalTypeOK'
      <3> HIDE DEF Shard
      <3>1. listed \subseteq File /\ listed \in SUBSET (Shard \cup File)
        BY DEF ListExpired, Expired
      <3>2. "clean" \in Label /\ "clean" \notin HasBucket \cup HasFile \cup HasSnap
        BY DEF Label, HasBucket, HasFile, HasSnap
      <3> QED
        BY <2>1, <3>1, <3>2, EnterType
    <2> QED
      BY <1>1, <2>2, SameStoreType DEF CleanBegin, history, StoreTypeOK
  <1>2. CASE CleanOne(w)
    <2>1. PICK f \in todo[w] :
            /\ IF Affected(f) THEN SoftDeleteFile(f) ELSE UNCHANGED files
            /\ Ticked(w, f)
      BY <1>2 DEF CleanOne
    <2>2. f \in File
      BY <1>2, <2>1, Locals DEF CleanOne
    <2>3. files' \in [File -> FileRow]
      BY <2>1, <2>2, FilesType DEF StoreTypeOK
    <2> QED
      BY <1>2, <2>1, <2>3, TickedType, BudgetType DEF CleanOne, StoreTypeOK, history
  <1>3. CASE CleanOneError(w)
    <2>1. PICK f \in todo[w] :
            /\ UNCHANGED files \/ (Affected(f) /\ SoftDeleteFile(f))
            /\ Ticked(w, f)
      BY <1>3 DEF CleanOneError
    <2>2. f \in File
      BY <1>3, <2>1, Locals DEF CleanOneError
    <2>3. files' \in [File -> FileRow]
      BY <2>1, <2>2, FilesType DEF StoreTypeOK
    <2> QED
      BY <1>3, <2>1, <2>3, TickedType, BudgetType DEF CleanOneError, StoreTypeOK, history
  <1>4. CASE CleanEnd(w)
    BY <1>4, ReturnType, SameStoreType DEF CleanEnd, history, StoreTypeOK
  <1> QED
    BY <1>1, <1>2, <1>3, <1>4 DEF CleanStep

\* The bucket requests keep the types.
LEMMA BucketType ==
    ASSUME TypeOK, NEW w \in Worker, BucketBegin(w) \/ BucketStep(w), NoFileChange
    PROVE  TypeOK'
  <1> USE DEF TypeOK
  <1>0. /\ pc[w] \in HasBucket => at[w] \in Bucket
        /\ pc[w] \in HasSnap => snap[w] \in BucketRow
    BY Locals
  <1>1. (Fault \/ NoFault) /\ LocalTypeOK' /\ buckets' \in [Bucket -> BucketRow]
        => TypeOK'
    BY BudgetType DEF NoFileChange, history, StoreTypeOK
  <1>2. UNCHANGED buckets => buckets' \in [Bucket -> BucketRow]
    BY DEF StoreTypeOK
  <1>3. CASE CreateBegin(w)
    <2>1. PICK n \in Name, m \in Quota :
            Enter(w, "mkInsert", None, None, {}, NewBucket(n, m))
      BY <1>3 DEF CreateBegin
    <2>2. NewBucket(n, m) \in BucketRow
      BY QuotaAssumption DEF NewBucket, BucketRow, Versioning
    <2>3. LocalTypeOK'
      BY <2>1, <2>2, EnterType DEF Label, HasBucket, HasFile, HasSnap
    <2> QED
      BY <1>1, <1>2, <1>3, <2>3 DEF CreateBegin
  <1>4. CASE CreateInsert(w) \/ CreateInsertError(w)
    <2>1. snap[w] \in BucketRow
      BY <1>0, <1>4 DEF CreateInsert, CreateInsertError, HasSnap
    <2>2. buckets' \in [Bucket -> BucketRow]
      BY <1>4, <2>1 DEF CreateInsert, CreateInsertError, InsertBucket, StoreTypeOK
    <2> QED
      BY <1>1, <1>4, <2>2, ReturnType DEF CreateInsert, CreateInsertError
  <1>5. ASSUME NEW b \in Bucket, RemoveBegin(w, b) PROVE TypeOK'
    <2>1. LocalTypeOK'
      BY <1>5, EnterType DEF RemoveBegin, Label, HasBucket, HasFile, HasSnap
    <2> QED
      BY <1>1, <1>2, <1>5, <2>1 DEF RemoveBegin
  <1>6. CASE RemoveCount(w)
    <2>1. at[w] \in Bucket
      BY <1>0, <1>6 DEF RemoveCount, HasBucket
    <2>2. LocalTypeOK'
      BY <1>6, <2>1, EnterType DEF RemoveCount, Label, HasBucket, HasFile, HasSnap
    <2> QED
      BY <1>1, <1>2, <1>6, <2>2 DEF RemoveCount
  <1>7. CASE RemoveRefused(w)
    BY <1>1, <1>2, <1>7, ReturnType DEF RemoveRefused
  <1>8. CASE RemoveRow(w) \/ RemoveRowError(w)
    <2>1. at[w] \in Bucket
      BY <1>0, <1>8 DEF RemoveRow, RemoveRowError, HasBucket
    <2>2. buckets' \in [Bucket -> BucketRow]
      BY <1>8, <2>1 DEF RemoveRow, RemoveRowError, SoftDeleteBucket, StoreTypeOK, BucketRow
    <2> QED
      BY <1>1, <1>8, <2>2, ReturnType DEF RemoveRow, RemoveRowError
  <1>9. ASSUME NEW b \in Bucket, VersionBegin(w, b) PROVE TypeOK'
    <2>1. PICK v \in Versioning :
            Enter(w, "verWrite", b, None, {}, [buckets[b] EXCEPT !.versioning = v])
      BY <1>9 DEF VersionBegin
    <2>2. [buckets[b] EXCEPT !.versioning = v] \in BucketRow
      BY DEF StoreTypeOK, BucketRow
    <2>3. LocalTypeOK'
      BY <2>1, <2>2, EnterType DEF Label, HasBucket, HasFile, HasSnap
    <2> QED
      BY <1>1, <1>2, <1>9, <2>3 DEF VersionBegin
  <1>10. CASE VersionWrite(w) \/ VersionWriteError(w)
    <2>1. at[w] \in Bucket /\ snap[w] \in BucketRow
      BY <1>0, <1>10 DEF VersionWrite, VersionWriteError, HasBucket, HasSnap
    <2>2. buckets' \in [Bucket -> BucketRow]
      BY <1>2, <1>10, <2>1, UpdateType DEF VersionWrite, VersionWriteError
    <2> QED
      BY <1>1, <1>10, <2>2, ReturnType DEF VersionWrite, VersionWriteError
  <1> QED
    BY <1>3, <1>4, <1>5, <1>6, <1>7, <1>8, <1>9, <1>10 DEF BucketBegin, BucketStep

\* Every step keeps the types.
LEMMA NextType == TypeOK /\ [Next]_vars => TypeOK'
  <1> SUFFICES ASSUME TypeOK, [Next]_vars PROVE TypeOK'
    OBVIOUS
  <1>1. ASSUME NEW w \in Worker, Begin(w) PROVE TypeOK'
    BY <1>1, PutType, GetType, DeleteType, CleanType, BucketType DEF Begin, FileBegin
  <1>2. ASSUME NEW w \in Worker, Step(w) PROVE TypeOK'
    BY <1>2, PutType, GetType, DeleteType, CleanType, BucketType DEF Step, FileStep
  <1>3. ASSUME NEW w \in Worker, Lost(w) PROVE TypeOK'
    BY <1>3, ReturnType DEF Lost, Crash, NoFileChange, history, TypeOK, StoreTypeOK
  <1>4. ASSUME NEW f \in File, Expire(f) PROVE TypeOK'
    BY <1>4, FilesType DEF Expire, local, history, TypeOK, StoreTypeOK, LocalTypeOK
  <1>5. ASSUME UNCHANGED vars PROVE TypeOK'
    BY <1>5 DEF vars, TypeOK, StoreTypeOK, LocalTypeOK
  <1> QED
    BY <1>1, <1>2, <1>3, <1>4, <1>5 DEF Next, ReadOnly

\* Type correctness: in every reachable state the tables hold rows of their
\* types, and a request that uses a local variable has given it a value.
THEOREM TypeCorrect == Spec => []TypeOK
  BY InitType, NextType, PTL DEF Spec

HIDE DEF Shard

-----------------------------------------------------------------------------
(* Safety *)

\* The labels at which FileInv says something of a request.
Busy == {"putWrite", "putChunk", "delList", "delDisk"}

-----------------------------------------------------------------------------
(* FileInv *)

\* A request that goes on to a label FileInv says nothing about, leaves rows
\* and history alone and removes no chunk, keeps it.
LEMMA QuietStep ==
    ASSUME TypeOK, FileInv, NEW w \in Worker, NEW l, NEW b, NEW f, NEW t, NEW row,
           Enter(w, l, b, f, t, row), l \notin Busy, faults' = faults \/ Fault,
           UNCHANGED <<files, chunkRows, history>>, disk \subseteq disk'
    PROVE  FileInv'
  <1>1. \A v \in Worker : pc'[v] \in Busy =>
            v # w /\ pc[v] = pc'[v] /\ obj'[v] = obj[v] /\ todo'[v] = todo[v]
    BY DEF Enter, TypeOK, LocalTypeOK
  <1>2. faults' = 0 => faults = 0
    BY DEF Fault, NoFault, TypeOK
  <1>3. /\ files' = files /\ chunkRows' = chunkRows
        /\ acked' = acked /\ picked' = picked /\ refunds' = refunds
    BY DEF history
  <1>4. WritingOK'
    BY <1>1, <1>3 DEF FileInv, WritingOK, Busy, ShardsOfFile
  <1>5. DeletingOK'
    BY <1>1, <1>3 DEF FileInv, DeletingOK, Busy, Inserted
  <1>6. RecordingOK'
    BY <1>1, <1>2, <1>3 DEF FileInv, RecordingOK, Busy, Inserted, ShardsOfFile
  <1>7. DurableBeforeVisible' /\ AckedIsComplete' /\ RefundedOnce'
    BY <1>2, <1>3 DEF FileInv, DurableBeforeVisible, AckedIsComplete, RefundedOnce,
                      Inserted, ShardsOfFile
  <1> QED
    BY <1>4, <1>5, <1>6, <1>7 DEF FileInv

\* Answering or losing a request is such a step.
LEMMA QuietReturn ==
    ASSUME TypeOK, FileInv, NEW w \in Worker, Return(w), faults' = faults \/ Fault,
           UNCHANGED <<files, chunkRows, history>>, disk \subseteq disk'
    PROVE  FileInv'
  BY QuietStep DEF Return, Busy

\* So is an item of a loop other than PutObject's and DeleteObject's.
LEMMA QuietTick ==
    ASSUME TypeOK, FileInv, NEW w \in Worker, NEW i, pc[w] \notin Busy,
           Ticked(w, i), faults' = faults \/ Fault,
           UNCHANGED <<files, chunkRows, disk, history>>
    PROVE  FileInv'
  BY QuietStep DEF Ticked

\* What a step that only sets one file's state or expiry leaves as it was.
LEMMA OneFile ==
    ASSUME TypeOK, NEW f \in File,
           \/ InsertFile(f) \/ SoftDeleteFile(f)
           \/ files' = [files EXCEPT ![f].expiry = "passed"]
    PROVE  /\ \A g \in File : files'[g].size = files[g].size
           /\ \A g \in File : ShardsOfFile(g)' = ShardsOfFile(g)
           /\ \A g \in File \ {f} : files'[g] = files[g]
           /\ InsertFile(f) => files'[f].state = "live"
           /\ SoftDeleteFile(f) => files'[f].state = "deleted"
           /\ files' = [files EXCEPT ![f].expiry = "passed"] =>
                files'[f].state = files[f].state
  BY DEF InsertFile, SoftDeleteFile, ShardsOfFile, TypeOK, StoreTypeOK, FileRow

\* PutPrepare draws an id nobody uses.
LEMMA PutPrepareFile ==
    ASSUME TypeOK, FileInv, NEW w \in Worker, PutPrepare(w)
    PROVE  FileInv'
  <1> USE DEF FileInv
  <1>1. PICK f \in File, k \in Key, n \in Size, x \in Expiry :
          /\ files[f].state = "unused"
          /\ files' = [files EXCEPT ![f] =
               [state |-> "building", bucket |-> at[w], key |-> k, size |-> n,
                created |-> clock + 1, expiry |-> x]]
          /\ Enter(w, "putWrite", at[w], f, ShardsOf(n), snap[w])
    BY DEF PutPrepare
  <1>2. /\ files'[f].state = "building" /\ files'[f].size = n
        /\ \A g \in File \ {f} : files'[g] = files[g]
    BY <1>1 DEF TypeOK, StoreTypeOK
  <1>3. /\ pc'[w] = "putWrite" /\ obj'[w] = f /\ todo'[w] = ShardsOf(n)
        /\ \A v \in Worker \ {w} :
            pc'[v] = pc[v] /\ obj'[v] = obj[v] /\ todo'[v] = todo[v]
    BY <1>1 DEF Enter, TypeOK, LocalTypeOK
  <1>4. \A v \in Worker : pc[v] \in {"putWrite", "putChunk"} =>
            obj[v] \in File /\ obj[v] # f
    BY <1>1, Locals DEF WritingOK, RecordingOK, Inserted, TypeOK, HasFile
  <1>5. /\ faults' = faults /\ disk' = disk /\ chunkRows' = chunkRows
        /\ acked' = acked /\ picked' = picked /\ refunds' = refunds
    BY DEF PutPrepare, NoFault, history
  <1>6. WritingOK'
    BY <1>2, <1>3, <1>4, <1>5 DEF WritingOK, ShardsOfFile
  <1>7. \A g \in File : Inserted(g)' = Inserted(g)
    BY <1>1, <1>2 DEF Inserted
  <1>8. DeletingOK'
    BY <1>3, <1>5, <1>7 DEF DeletingOK, TypeOK, StoreTypeOK
  <1>9. \A g \in File : Inserted(g) => ShardsOfFile(g)' = ShardsOfFile(g)
    BY <1>1, <1>2 DEF ShardsOfFile, Inserted
  <1>10. RecordingOK'
    BY <1>3, <1>4, <1>5, <1>7, <1>9 DEF RecordingOK, TypeOK, StoreTypeOK
  <1>11. DurableBeforeVisible' /\ AckedIsComplete'
    BY <1>5, <1>7, <1>9 DEF DurableBeforeVisible, AckedIsComplete, TypeOK, StoreTypeOK
  <1>12. RefundedOnce'
    BY <1>1, <1>2, <1>5 DEF RefundedOnce
  <1> QED
    BY <1>6, <1>8, <1>10, <1>11, <1>12

\* PutWrite stores the next chunk of a file only this request names.
LEMMA PutWriteFile ==
    ASSUME TypeOK, FileInv, NEW w \in Worker, PutWrite(w)
    PROVE  FileInv'
  <1> USE DEF FileInv
  <1>1. PICK s \in NextShard(w) : disk' = disk \cup {<<obj[w], s>>} /\ Ticked(w, s)
    BY DEF PutWrite
  <1>2. /\ pc' = pc /\ obj' = obj /\ todo'[w] = todo[w] \ {s}
        /\ \A v \in Worker \ {w} : todo'[v] = todo[v]
    BY <1>1 DEF Ticked, Enter, TypeOK, LocalTypeOK
  <1>3. /\ faults' = faults /\ files' = files /\ chunkRows' = chunkRows
        /\ acked' = acked /\ picked' = picked /\ refunds' = refunds
    BY DEF PutWrite, NoFault, history
  <1>4. \A g \in File : Inserted(g)' = Inserted(g) /\ ShardsOfFile(g)' = ShardsOfFile(g)
    BY <1>3 DEF Inserted, ShardsOfFile
  <1>5. WritingOK'
    BY <1>1, <1>2, <1>3 DEF WritingOK, ShardsOfFile
  <1>6. DeletingOK' /\ RecordingOK'
    BY <1>2, <1>3 DEF DeletingOK, RecordingOK, Inserted, ShardsOfFile, PutWrite
  <1>7. DurableBeforeVisible' /\ AckedIsComplete' /\ RefundedOnce'
    BY <1>1, <1>3, <1>4 DEF DurableBeforeVisible, AckedIsComplete, RefundedOnce,
                            Inserted, ShardsOfFile
  <1> QED
    BY <1>5, <1>6, <1>7

\* The INSERT finds every chunk on disk.
LEMMA InsertedIsDurable ==
    ASSUME TypeOK, FileInv, NEW w \in Worker, AllWritten(w), InsertFile(obj[w])
    PROVE  /\ obj[w] \in File
           /\ files[obj[w]].state = "building"
           /\ \A s \in ShardsOfFile(obj[w]) : <<obj[w], s>> \in disk
           /\ chunkRows[obj[w]] = {}
           /\ obj[w] \notin acked
           /\ \A v \in Worker : pc[v] \in {"putWrite", "putChunk"} /\ obj[v] = obj[w] => v = w
  <1>1. pc[w] = "putWrite" /\ todo[w] = {} /\ obj[w] \in File
    BY Locals DEF AllWritten, TypeOK, HasFile
  <1> QED
    BY <1>1 DEF FileInv, WritingOK, RecordingOK, Inserted

\* PutRow, and a PutRow whose error hides its effect, keep FileInv.
LEMMA InsertFileInv ==
    ASSUME TypeOK, FileInv, NEW w \in Worker, NEW l, NEW b, NEW f, NEW t, NEW row,
           NEW o \in File, o = obj[w],
           AllWritten(w), InsertFile(o), Fault \/ NoFault,
           Enter(w, l, b, f, t, row), l \notin Busy \/ l = "putChunk",
           l = "putChunk" => f = o /\ t = ShardsOfFile(o),
           UNCHANGED <<chunkRows, disk, history>>
    PROVE  FileInv'
  <1> USE DEF FileInv
  <1>1. /\ files[o].state = "building"
        /\ \A s \in ShardsOfFile(o) : <<o, s>> \in disk
        /\ chunkRows[o] = {} /\ o \notin acked
        /\ \A v \in Worker : pc[v] \in {"putWrite", "putChunk"} /\ obj[v] = o => v = w
    BY InsertedIsDurable
  <1>2. /\ files'[o].state = "live"
        /\ \A g \in File : ShardsOfFile(g)' = ShardsOfFile(g)
        /\ \A g \in File \ {o} : files'[g] = files[g]
    BY <1>1, OneFile
  <1>3. /\ pc'[w] = l /\ obj'[w] = f /\ todo'[w] = t
        /\ \A v \in Worker \ {w} :
            pc'[v] = pc[v] /\ obj'[v] = obj[v] /\ todo'[v] = todo[v]
    BY DEF Enter, TypeOK, LocalTypeOK
  <1>4. /\ disk' = disk /\ chunkRows' = chunkRows
        /\ acked' = acked /\ picked' = picked /\ refunds' = refunds
    BY DEF history
  <1>5. faults' = 0 => faults = 0
    BY DEF Fault, NoFault, TypeOK
  <1>6. /\ Inserted(o)' /\ ~Inserted(o)
        /\ \A g \in File \ {o} : Inserted(g)' = Inserted(g)
    BY <1>1, <1>2 DEF Inserted
  <1>7. \A v \in Worker : pc[v] \in {"putWrite", "putChunk"} => obj[v] \in File
    BY Locals DEF TypeOK, HasFile
  <1>8. WritingOK'
    BY <1>1, <1>2, <1>3, <1>4, <1>7 DEF WritingOK, Busy
  <1>9. DeletingOK'
    BY <1>3, <1>4, <1>6 DEF DeletingOK, Busy, TypeOK, StoreTypeOK
  <1>10. RecordingOK'
    <2>1. ASSUME NEW v \in Worker, pc'[v] = "putChunk"
          PROVE  /\ Inserted(obj[v])'
                 /\ (todo[v] \subseteq ShardsOfFile(obj[v]))'
                 /\ (faults = 0 =>
                       ShardsOfFile(obj[v]) \subseteq chunkRows[obj[v]] \cup todo[v])'
      <3>1. CASE v = w
        <4>1. obj'[v] = o /\ todo'[v] = ShardsOfFile(o)
          BY <1>3, <2>1, <3>1 DEF AllWritten, Busy
        <4> QED
          BY <4>1, <1>2, <1>6 DEF Inserted, ShardsOfFile
      <3>2. CASE v # w
        <4>1. /\ pc[v] = "putChunk" /\ obj'[v] = obj[v] /\ todo'[v] = todo[v]
              /\ obj[v] \in File \ {o}
          BY <1>1, <1>3, <1>7, <2>1, <3>2
        <4>2. Inserted(obj[v])' /\ ShardsOfFile(obj[v])' = ShardsOfFile(obj[v])
          BY <4>1, <1>2 DEF RecordingOK, Inserted, ShardsOfFile
        <4> QED
          BY <4>1, <4>2, <1>4, <1>5 DEF RecordingOK
      <3> QED
        BY <3>1, <3>2
    <2>2. \A g \in File :
        (IF Inserted(g) THEN chunkRows[g] \subseteq ShardsOfFile(g) ELSE chunkRows[g] = {})'
      BY <1>1, <1>2, <1>4, <1>6 DEF RecordingOK
    <2>3. \A g \in acked' : Inserted(g)'
      BY <1>4, <1>6 DEF RecordingOK, TypeOK, StoreTypeOK
    <2> QED
      BY <2>1, <2>2, <2>3 DEF RecordingOK
  <1>11. DurableBeforeVisible'
    BY <1>1, <1>2, <1>4, <1>6 DEF DurableBeforeVisible
  <1>12. AckedIsComplete'
    BY <1>1, <1>2, <1>4, <1>5, <1>6 DEF AckedIsComplete, TypeOK, StoreTypeOK
  <1>13. RefundedOnce'
    BY <1>1, <1>2, <1>4 DEF RefundedOnce
  <1> QED
    BY <1>8, <1>9, <1>10, <1>11, <1>12, <1>13

\* PutChunk records the next chunk, PutChunkError goes on without it.
LEMMA PutChunkFile ==
    ASSUME TypeOK, FileInv, NEW w \in Worker, PutChunk(w) \/ PutChunkError(w)
    PROVE  FileInv'
  <1> USE DEF FileInv
  <1>1. PICK s \in NextShard(w) :
          /\ Ticked(w, s)
          /\ \/ CreateChunk(obj[w], s) /\ NoFault
             \/ (chunkRows' = chunkRows \/ CreateChunk(obj[w], s)) /\ Fault
    BY DEF PutChunk, PutChunkError
  <1>2. pc[w] = "putChunk" /\ obj[w] \in File
    BY Locals DEF PutChunk, PutChunkError, TypeOK, HasFile
  <1>3. s \in todo[w] /\ s \in ShardsOfFile(obj[w]) /\ Inserted(obj[w])
    BY <1>1, <1>2 DEF NextShard, RecordingOK
  <1>4. /\ pc' = pc /\ obj' = obj /\ todo'[w] = todo[w] \ {s}
        /\ \A v \in Worker \ {w} : todo'[v] = todo[v]
    BY <1>1 DEF Ticked, Enter, TypeOK, LocalTypeOK
  <1>5. /\ files' = files /\ disk' = disk
        /\ acked' = acked /\ picked' = picked /\ refunds' = refunds
    BY DEF PutChunk, PutChunkError, history
  <1>6. /\ \A g \in File \ {obj[w]} : chunkRows'[g] = chunkRows[g]
        /\ chunkRows[obj[w]] \subseteq chunkRows'[obj[w]]
        /\ chunkRows'[obj[w]] \subseteq chunkRows[obj[w]] \cup {s}
        /\ faults' = 0 => faults = 0 /\ s \in chunkRows'[obj[w]]
    BY <1>1, <1>2 DEF CreateChunk, Fault, NoFault, TypeOK, StoreTypeOK
  <1>7. WritingOK'
    BY <1>2, <1>4, <1>5 DEF WritingOK, ShardsOfFile
  <1>8. DeletingOK'
    BY <1>4, <1>5 DEF DeletingOK, Inserted
  <1>9. RecordingOK'
    <2>1. ASSUME NEW v \in Worker, pc[v] = "putChunk"
          PROVE  /\ Inserted(obj[v])
                 /\ todo'[v] \subseteq ShardsOfFile(obj[v])
                 /\ faults' = 0 =>
                      ShardsOfFile(obj[v]) \subseteq chunkRows'[obj[v]] \cup todo'[v]
      <3>1. obj[v] \in File
        BY <2>1, Locals DEF TypeOK, HasFile
      <3> QED
        BY <2>1, <3>1, <1>4, <1>6 DEF RecordingOK
    <2>2. \A g \in File :
            IF Inserted(g) THEN chunkRows'[g] \subseteq ShardsOfFile(g)
            ELSE chunkRows'[g] = {}
      BY <1>3, <1>6 DEF RecordingOK
    <2> QED
      BY <2>1, <2>2, <1>4, <1>5 DEF RecordingOK, Inserted, ShardsOfFile
  <1>10. AckedIsComplete'
    <2>1. ASSUME faults' = 0, NEW g \in acked
          PROVE  Inserted(g) /\ chunkRows'[g] = ShardsOfFile(g)
      <3>1. g \in File /\ Inserted(g) /\ chunkRows[g] = ShardsOfFile(g)
        BY <2>1, <1>6 DEF AckedIsComplete, TypeOK, StoreTypeOK
      <3> QED
        BY <3>1, <1>3, <1>6
    <2> QED
      BY <2>1, <1>5 DEF AckedIsComplete, Inserted, ShardsOfFile
  <1>11. DurableBeforeVisible' /\ RefundedOnce'
    BY <1>5 DEF DurableBeforeVisible, RefundedOnce, Inserted, ShardsOfFile
  <1> QED
    BY <1>7, <1>8, <1>9, <1>10, <1>11

\* PutObject answers: its file's row and, if no call failed, all its chunk
\* rows are there.
LEMMA AckFile ==
    ASSUME TypeOK, FileInv, NEW w \in Worker, PutCount(w) \/ PutCountError(w)
    PROVE  FileInv'
  <1> USE DEF FileInv
  <1>1. pc[w] = "putChunk" /\ todo[w] = {} /\ obj[w] \in File
    BY Locals DEF PutCount, PutCountError, ChunksDone, TypeOK, HasFile
  <1>2. /\ Inserted(obj[w])
        /\ faults = 0 => chunkRows[obj[w]] = ShardsOfFile(obj[w])
    BY <1>1 DEF RecordingOK
  <1>3. \A v \in Worker : pc'[v] \in Busy =>
            pc[v] = pc'[v] /\ obj'[v] = obj[v] /\ todo'[v] = todo[v]
    BY DEF PutCount, PutCountError, Return, Enter, Busy, TypeOK, LocalTypeOK
  <1>4. /\ files' = files /\ disk' = disk /\ chunkRows' = chunkRows
        /\ picked' = picked /\ refunds' = refunds /\ acked' = acked \cup {obj[w]}
    BY DEF PutCount, PutCountError, store
  <1>5. faults' = 0 => faults = 0
    BY DEF PutCount, PutCountError, Fault, NoFault, TypeOK
  <1>6. WritingOK' /\ DeletingOK' /\ DurableBeforeVisible' /\ RefundedOnce'
    BY <1>3, <1>4 DEF WritingOK, DeletingOK, DurableBeforeVisible, RefundedOnce, Busy,
                      Inserted, ShardsOfFile
  <1>7. RecordingOK'
    BY <1>2, <1>3, <1>4, <1>5 DEF RecordingOK, Busy, Inserted, ShardsOfFile
  <1>8. AckedIsComplete'
    BY <1>2, <1>4, <1>5 DEF AckedIsComplete, Inserted, ShardsOfFile
  <1> QED
    BY <1>6, <1>7, <1>8

\* DeleteObject chooses a live row, and keeps working on it.
LEMMA PickFile ==
    ASSUME TypeOK, FileInv, NEW w \in Worker, NEW l \in {"delList", "delDisk"},
           NEW b, NEW f, NEW t, NEW row, Enter(w, l, b, f, t, row),
           f \in picked', Inserted(f), picked' = picked \cup {f}, Fault \/ NoFault,
           UNCHANGED <<files, chunkRows, disk, acked, refunds>>
    PROVE  FileInv'
  <1> USE DEF FileInv
  <1>1. /\ pc'[w] = l /\ obj'[w] = f
        /\ \A v \in Worker \ {w} :
            pc'[v] = pc[v] /\ obj'[v] = obj[v] /\ todo'[v] = todo[v]
    BY DEF Enter, TypeOK, LocalTypeOK
  <1>2. faults' = 0 => faults = 0
    BY DEF Fault, NoFault, TypeOK
  <1>3. WritingOK'
    BY <1>1 DEF WritingOK, ShardsOfFile
  <1>4. DeletingOK'
    BY <1>1 DEF DeletingOK, Inserted
  <1>5. RecordingOK'
    BY <1>1, <1>2 DEF RecordingOK, Inserted, ShardsOfFile
  <1>6. DurableBeforeVisible' /\ AckedIsComplete' /\ RefundedOnce'
    BY <1>2 DEF DurableBeforeVisible, AckedIsComplete, RefundedOnce, Inserted, ShardsOfFile
  <1> QED
    BY <1>3, <1>4, <1>5, <1>6

\* DeleteDisk removes a chunk of a chosen file only.
LEMMA DeleteDiskFile ==
    ASSUME TypeOK, FileInv, NEW w \in Worker, DeleteDisk(w) \/ DeleteDiskError(w)
    PROVE  FileInv'
  <1> USE DEF FileInv
  <1>1. PICK s \in NextShard(w) :
          Ticked(w, s) /\ (disk' = disk \ {<<obj[w], s>>} \/ disk' = disk)
    BY DEF DeleteDisk, DeleteDiskError, store
  <1>2. pc[w] = "delDisk" /\ obj[w] \in picked /\ Inserted(obj[w])
    BY DEF DeleteDisk, DeleteDiskError, DeletingOK
  <1>3. /\ pc' = pc /\ obj' = obj
        /\ \A v \in Worker \ {w} : todo'[v] = todo[v]
    BY <1>1 DEF Ticked, Enter, TypeOK, LocalTypeOK
  <1>4. /\ files' = files /\ chunkRows' = chunkRows
        /\ acked' = acked /\ picked' = picked /\ refunds' = refunds
    BY DEF DeleteDisk, DeleteDiskError, store, history
  <1>5. faults' = 0 => faults = 0
    BY DEF DeleteDisk, DeleteDiskError, Fault, NoFault, TypeOK
  <1>6. \A f, s2 : f # obj[w] /\ <<f, s2>> \in disk => <<f, s2>> \in disk'
    BY <1>1
  <1>7. WritingOK'
    BY <1>2, <1>3, <1>4, <1>6 DEF WritingOK, ShardsOfFile, Inserted
  <1>8. DeletingOK' /\ RefundedOnce'
    BY <1>3, <1>4 DEF DeletingOK, RefundedOnce, Inserted
  <1>9. RecordingOK' /\ AckedIsComplete'
    BY <1>2, <1>3, <1>4, <1>5 DEF RecordingOK, AckedIsComplete, Inserted, ShardsOfFile
  <1>10. DurableBeforeVisible'
    BY <1>2, <1>4, <1>6 DEF DurableBeforeVisible, Inserted, ShardsOfFile
  <1> QED
    BY <1>7, <1>8, <1>9, <1>10

\* A live row is deleted, by DeleteObject or by the expiry sweep.
LEMMA SoftDeleted ==
    ASSUME TypeOK, FileInv, NEW f \in File, LiveFile(f), SoftDeleteFile(f),
           \A v \in Worker : pc'[v] \in Busy =>
                pc[v] = pc'[v] /\ obj'[v] = obj[v] /\ todo'[v] = todo[v],
           Fault \/ NoFault,
           refunds' = refunds \/ refunds' = [refunds EXCEPT ![f] = @ + 1],
           UNCHANGED <<chunkRows, disk, acked, picked>>
    PROVE  FileInv'
  <1> USE DEF FileInv
  <1>1. /\ files[f].state = "live" /\ files'[f].state = "deleted"
        /\ \A g \in File : ShardsOfFile(g)' = ShardsOfFile(g)
        /\ \A g \in File \ {f} : files'[g] = files[g]
    BY OneFile DEF LiveFile
  <1>2. faults' = 0 => faults = 0
    BY DEF Fault, NoFault, TypeOK
  <1>3. \A g \in File : Inserted(g)' = Inserted(g)
    BY <1>1 DEF Inserted
  <1>4. \A v \in Worker : pc[v] \in {"putWrite", "putChunk", "delList", "delDisk"} =>
            obj[v] \in File
    BY Locals DEF TypeOK, HasFile
  <1>5. WritingOK'
    BY <1>1, <1>4 DEF WritingOK, Busy
  <1>6. DeletingOK'
    BY <1>3 DEF DeletingOK, Busy, TypeOK, StoreTypeOK
  <1>7. RecordingOK'
    BY <1>1, <1>2, <1>3, <1>4 DEF RecordingOK, Busy, TypeOK, StoreTypeOK
  <1>8. DurableBeforeVisible' /\ AckedIsComplete'
    BY <1>1, <1>2, <1>3 DEF DurableBeforeVisible, AckedIsComplete, TypeOK, StoreTypeOK
  <1>9. refunds[f] = 0
    BY <1>1 DEF RefundedOnce, TypeOK, StoreTypeOK
  <1>10. RefundedOnce'
    BY <1>1, <1>9 DEF RefundedOnce, TypeOK, StoreTypeOK
  <1> QED
    BY <1>5, <1>6, <1>7, <1>8, <1>10

\* Time passing changes no file's state or size.
LEMMA ExpireFile ==
    ASSUME TypeOK, FileInv, NEW f \in File, Expire(f)
    PROVE  FileInv'
  <1> USE DEF FileInv
  <1>1. \A g \in File :
            files'[g].state = files[g].state /\ files'[g].size = files[g].size
    BY OneFile DEF Expire, TypeOK, StoreTypeOK, FileRow
  <1>2. /\ pc' = pc /\ obj' = obj /\ todo' = todo /\ faults' = faults
        /\ disk' = disk /\ chunkRows' = chunkRows
        /\ acked' = acked /\ picked' = picked /\ refunds' = refunds
    BY DEF Expire, local, history
  <1>3. \A v \in Worker : pc[v] \in {"putWrite", "putChunk"} => obj[v] \in File
    BY Locals DEF TypeOK, HasFile
  <1>4. acked \subseteq File /\ picked \subseteq File
    BY DEF TypeOK, StoreTypeOK
  <1>5. WritingOK' /\ DeletingOK' /\ RecordingOK'
    BY <1>1, <1>2, <1>3, <1>4 DEF WritingOK, DeletingOK, RecordingOK, Inserted, ShardsOfFile
  <1>6. DurableBeforeVisible' /\ AckedIsComplete' /\ RefundedOnce'
    BY <1>1, <1>2, <1>4
    DEF DurableBeforeVisible, AckedIsComplete, RefundedOnce, Inserted, ShardsOfFile
  <1> QED
    BY <1>5, <1>6

\* PutObject keeps FileInv.
LEMMA PutFileInv ==
    ASSUME TypeOK, FileInv, NEW w \in Worker,
           (\E b \in Bucket : PutBegin(w, b)) \/ PutStep(w)
    PROVE  FileInv'
  <1>1. ASSUME NEW b \in Bucket, PutBegin(w, b) PROVE FileInv'
    BY <1>1, QuietStep DEF NoFault, PutBegin, Busy, store
  <1>2. CASE PutRefuse(w) \/ PutBodyError(w) \/ PutWriteError(w)
    BY <1>2, QuietReturn DEF NoFault, PutRefuse, PutBodyError, PutWriteError, store
  <1>3. CASE PutPrepare(w)
    BY <1>3, PutPrepareFile
  <1>4. CASE PutWrite(w)
    BY <1>4, PutWriteFile
  <1>5. CASE PutRow(w) \/ PutRowError(w)
    <2>1. AllWritten(w) /\ obj[w] \in File
      BY <1>5, Locals DEF PutRow, PutRowError, AllWritten, TypeOK, HasFile
    <2>2. CASE PutRow(w)
      BY <2>1, <2>2, InsertFileInv DEF PutRow
    <2>3. CASE PutRowError(w) /\ InsertFile(obj[w])
      BY <2>1, <2>3, InsertFileInv DEF PutRowError, Return, Busy
    <2>4. CASE PutRowError(w) /\ UNCHANGED files
      BY <2>4, QuietReturn DEF NoFault, PutRowError
    <2> QED
      BY <1>5, <2>2, <2>3, <2>4 DEF PutRowError
  <1>6. CASE PutChunk(w) \/ PutChunkError(w)
    BY <1>6, PutChunkFile
  <1>7. CASE PutCount(w) \/ PutCountError(w)
    BY <1>7, AckFile
  <1> QED
    BY <1>1, <1>2, <1>3, <1>4, <1>5, <1>6, <1>7 DEF PutStep

\* GetObject keeps FileInv.
LEMMA GetFileInv ==
    ASSUME TypeOK, FileInv, NEW w \in Worker, GetBegin(w) \/ GetStep(w)
    PROVE  FileInv'
  <1>1. CASE GetBegin(w) \/ GetList(w)
    BY <1>1, QuietStep DEF NoFault, GetBegin, GetList, Busy, store
  <1>2. CASE GetRead(w)
    BY <1>2, QuietTick DEF NoFault, GetRead, Busy, store
  <1>3. CASE GetNoChunks(w) \/ GetReadError(w) \/ GetReply(w) \/ GetAgainError(w)
    BY <1>3, QuietReturn DEF NoFault, GetNoChunks, GetReadError, GetReply, GetAgainError, store
  <1> QED
    BY <1>1, <1>2, <1>3 DEF GetStep

\* DeleteObject keeps FileInv.
LEMMA DeleteFileInv ==
    ASSUME TypeOK, FileInv, NEW w \in Worker, DeleteBegin(w) \/ DeleteStep(w)
    PROVE  FileInv'
  <1>1. CASE DeleteBegin(w)
    <2>1. PICK b \in Bucket, f \in File :
            /\ LiveFile(f) /\ Enter(w, "delList", b, f, {}, None)
            /\ picked' = picked \cup {f}
      BY <1>1 DEF DeleteBegin, Latest, Versions
    <2> QED
      BY <1>1, <2>1, PickFile DEF DeleteBegin, store, LiveFile, Inserted
  <1>2. CASE DeleteList(w) \/ DeleteListError(w)
    <2>1. obj[w] \in picked /\ Inserted(obj[w]) /\ picked' = picked
      BY <1>2 DEF DeleteList, DeleteListError, FileInv, DeletingOK, history
    <2>2. picked' = picked \cup {obj[w]}
      BY <2>1
    <2> QED
      BY <1>2, <2>1, <2>2, PickFile DEF DeleteList, DeleteListError, store, history
  <1>3. CASE DeleteDisk(w) \/ DeleteDiskError(w)
    BY <1>3, DeleteDiskFile
  <1>4. CASE DeleteRow(w) \/ (DeleteRowError(w) /\ files' # files)
    <2>1. /\ obj[w] \in File /\ LiveFile(obj[w]) /\ SoftDeleteFile(obj[w])
      BY <1>4, Locals DEF DeleteRow, DeleteRowError, Affected, TypeOK, HasFile
    <2>2. \A v \in Worker : pc'[v] \in Busy =>
                pc[v] = pc'[v] /\ obj'[v] = obj[v] /\ todo'[v] = todo[v]
      BY <1>4 DEF DeleteRow, DeleteRowError, Return, Enter, Busy, TypeOK, LocalTypeOK
    <2> QED
      BY <1>4, <2>1, <2>2, SoftDeleted DEF DeleteRow, DeleteRowError, history
  <1>5. CASE DeleteRowError(w) /\ files' = files
    BY <1>5, QuietReturn DEF NoFault, DeleteRowError
  <1>6. CASE DeleteBucketRead(w)
    BY <1>6, QuietStep DEF NoFault, DeleteBucketRead, Busy, store
  <1>7. CASE DeleteLost(w) \/ DeleteBucketGone(w) \/ DeleteCount(w) \/ DeleteCountError(w)
    BY <1>7, QuietReturn DEF NoFault, DeleteLost, DeleteBucketGone, DeleteCount, DeleteCountError, store
  <1> QED
    BY <1>1, <1>2, <1>3, <1>4, <1>5, <1>6, <1>7 DEF DeleteStep

\* CleanupExpiredObjects keeps FileInv.
LEMMA CleanFileInv ==
    ASSUME TypeOK, FileInv, NEW w \in Worker, CleanBegin(w) \/ CleanStep(w)
    PROVE  FileInv'
  <1>1. CASE CleanBegin(w)
    BY <1>1, QuietStep DEF NoFault, CleanBegin, Busy, store
  <1>2. CASE CleanOne(w)
    <2>1. PICK f \in todo[w] :
            /\ IF Affected(f) THEN SoftDeleteFile(f) ELSE UNCHANGED files
            /\ Ticked(w, f)
      BY <1>2 DEF CleanOne
    <2>2. f \in File /\ pc[w] = "clean"
      BY <1>2, <2>1, Locals DEF CleanOne, TypeOK
    <2>3. \A v \in Worker : pc'[v] \in Busy =>
                pc[v] = pc'[v] /\ obj'[v] = obj[v] /\ todo'[v] = todo[v]
      BY <2>1, <2>2 DEF Ticked, Enter, Busy, TypeOK, LocalTypeOK
    <2>4. CASE Affected(f)
      BY <1>2, <2>1, <2>2, <2>3, <2>4, SoftDeleted DEF CleanOne, Affected, history
    <2>5. CASE ~Affected(f)
      BY <1>2, <2>1, <2>2, <2>5, QuietTick DEF NoFault, CleanOne, Busy
    <2> QED
      BY <2>4, <2>5
  <1>3. CASE CleanOneError(w)
    <2>1. PICK f \in todo[w] :
            /\ UNCHANGED files \/ (Affected(f) /\ SoftDeleteFile(f))
            /\ Ticked(w, f)
      BY <1>3 DEF CleanOneError
    <2>2. f \in File /\ pc[w] = "clean"
      BY <1>3, <2>1, Locals DEF CleanOneError, TypeOK
    <2>3. \A v \in Worker : pc'[v] \in Busy =>
                pc[v] = pc'[v] /\ obj'[v] = obj[v] /\ todo'[v] = todo[v]
      BY <2>1, <2>2 DEF Ticked, Enter, Busy, TypeOK, LocalTypeOK
    <2>4. CASE Affected(f) /\ SoftDeleteFile(f)
      BY <1>3, <2>1, <2>2, <2>3, <2>4, SoftDeleted DEF CleanOneError, Affected, history
    <2>5. CASE UNCHANGED files
      BY <1>3, <2>1, <2>2, <2>5, QuietTick DEF CleanOneError, Busy
    <2> QED
      BY <2>1, <2>4, <2>5
  <1>4. CASE CleanEnd(w)
    BY <1>4, QuietReturn DEF NoFault, CleanEnd, store
  <1> QED
    BY <1>1, <1>2, <1>3, <1>4 DEF CleanStep

\* Bucket requests touch no file.
LEMMA BucketFileInv ==
    ASSUME TypeOK, FileInv, NEW w \in Worker, BucketBegin(w) \/ BucketStep(w), NoFileChange
    PROVE  FileInv'
  <1>1. CASE CreateBegin(w)
    BY <1>1, QuietStep DEF NoFault, CreateBegin, Busy, NoFileChange
  <1>2. ASSUME NEW b \in Bucket, RemoveBegin(w, b) \/ VersionBegin(w, b) PROVE FileInv'
    <2>1. CASE RemoveBegin(w, b)
      BY <2>1, QuietStep DEF NoFault, RemoveBegin, Busy, NoFileChange
    <2>2. CASE VersionBegin(w, b)
      <3>1. PICK v \in Versioning :
              Enter(w, "verWrite", b, None, {}, [buckets[b] EXCEPT !.versioning = v])
        BY <2>2 DEF VersionBegin
      <3> QED
        BY <2>2, <3>1, QuietStep DEF NoFault, VersionBegin, Busy, NoFileChange
    <2> QED
      BY <1>2, <2>1, <2>2
  <1>3. CASE RemoveCount(w)
    BY <1>3, QuietStep DEF NoFault, RemoveCount, Busy, NoFileChange
  <1>4. CASE CreateInsert(w) \/ CreateInsertError(w) \/ RemoveRefused(w) \/ RemoveRow(w)
             \/ RemoveRowError(w) \/ VersionWrite(w) \/ VersionWriteError(w)
    BY <1>4, QuietReturn DEF NoFault, CreateInsert, CreateInsertError, RemoveRefused, RemoveRow,
        RemoveRowError, VersionWrite, VersionWriteError, NoFileChange
  <1> QED
    BY <1>1, <1>2, <1>3, <1>4 DEF BucketBegin, BucketStep

\* Every step keeps FileInv.
LEMMA NextFileInv ==
    ASSUME TypeOK, FileInv, [Next]_vars
    PROVE  FileInv'
  <1>1. ASSUME NEW w \in Worker, Begin(w) PROVE FileInv'
    BY <1>1, PutFileInv, GetFileInv, DeleteFileInv, CleanFileInv, BucketFileInv
    DEF Begin, FileBegin
  <1>2. ASSUME NEW w \in Worker, Step(w) PROVE FileInv'
    BY <1>2, PutFileInv, GetFileInv, DeleteFileInv, CleanFileInv, BucketFileInv
    DEF Step, FileStep
  <1>3. ASSUME NEW w \in Worker, Lost(w) PROVE FileInv'
    BY <1>3, QuietReturn DEF Lost, Crash, NoFileChange
  <1>4. ASSUME NEW f \in File, Expire(f) PROVE FileInv'
    BY <1>4, ExpireFile
  <1>5. ASSUME UNCHANGED vars PROVE FileInv'
    BY <1>5 DEF vars, FileInv, WritingOK, DeletingOK, RecordingOK, DurableBeforeVisible,
                AckedIsComplete, RefundedOnce, Inserted, ShardsOfFile
  <1> QED
    BY <1>1, <1>2, <1>3, <1>4, <1>5 DEF Next, ReadOnly

-----------------------------------------------------------------------------
(* QuotaInv *)

\* A file keeps its size once it has one.
LEMMA SizesKept ==
    ASSUME TypeOK, FileInv, [Next]_vars
    PROVE  \A f \in File : files[f].state # "unused" => files'[f].size = files[f].size
  <1>1. ASSUME NEW w \in Worker, Begin(w) \/ Step(w) \/ Lost(w) \/ ReadOnly(w)
        PROVE  \A f \in File : files[f].state # "unused" => files'[f].size = files[f].size
    <2>1. CASE PutPrepare(w)
      BY <2>1 DEF PutPrepare, TypeOK, StoreTypeOK
    <2>2. CASE files' = files
      BY <2>2
    <2>3. ASSUME NEW f \in File, InsertFile(f) \/ SoftDeleteFile(f)
          PROVE  \A g \in File : files'[g].size = files[g].size
      BY <2>3, OneFile
    <2>4. CASE PutRow(w) \/ PutRowError(w)
      <3>1. obj[w] \in File
        BY <2>4, Locals DEF PutRow, PutRowError, AllWritten, TypeOK, HasFile
      <3> QED
        BY <2>2, <2>3, <2>4, <3>1 DEF PutRow, PutRowError
    <2>5. CASE DeleteRow(w) \/ DeleteRowError(w)
      <3>1. obj[w] \in File
        BY <2>5, Locals DEF DeleteRow, DeleteRowError, TypeOK, HasFile
      <3> QED
        BY <2>2, <2>3, <2>5, <3>1 DEF DeleteRow, DeleteRowError
    <2>6. CASE CleanOne(w) \/ CleanOneError(w)
      <3>1. todo[w] \subseteq File
        BY <2>6, Locals DEF CleanOne, CleanOneError, TypeOK
      <3> QED
        BY <2>2, <2>3, <2>6, <3>1 DEF CleanOne, CleanOneError
    <2>7. CASE FileBegin(w)
      BY <2>7, <2>2 DEF FileBegin, PutBegin, GetBegin, DeleteBegin, CleanBegin, store
    <2>8. CASE GetStep(w)
      BY <2>8, <2>2 DEF GetStep, GetList, GetNoChunks, GetRead, GetReadError, GetReply, GetAgainError, store
    <2>9. CASE \/ PutRefuse(w) \/ PutBodyError(w) \/ PutWrite(w) \/ PutWriteError(w)
               \/ PutChunk(w) \/ PutChunkError(w) \/ PutCount(w) \/ PutCountError(w)
      BY <2>9, <2>2 DEF PutRefuse, PutBodyError, PutWrite, PutWriteError, PutChunk,
                        PutChunkError, PutCount, PutCountError, store
    <2>10. CASE \/ DeleteList(w) \/ DeleteListError(w) \/ DeleteDisk(w) \/ DeleteDiskError(w)
                \/ DeleteLost(w) \/ DeleteBucketRead(w) \/ DeleteBucketGone(w)
                \/ DeleteCount(w) \/ DeleteCountError(w)
      BY <2>10, <2>2 DEF DeleteList, DeleteListError, DeleteDisk, DeleteDiskError, DeleteLost,
            DeleteBucketRead, DeleteBucketGone, DeleteCount, DeleteCountError, store
    <2>11. CASE CleanEnd(w)
      BY <2>11, <2>2 DEF CleanEnd, store
    <2>12. CASE NoFileChange \/ ReadOnly(w)
      BY <2>12, <2>2 DEF NoFileChange, ReadOnly, vars
    <2> QED
      BY <1>1, <2>1, <2>4, <2>5, <2>6, <2>7, <2>8, <2>9, <2>10, <2>11, <2>12
      DEF Begin, Step, FileStep, PutStep, DeleteStep, CleanStep, Lost
  <1>2. ASSUME NEW f \in File, Expire(f)
        PROVE  \A g \in File : files'[g].size = files[g].size
    BY <1>2, OneFile DEF Expire
  <1> QED
    BY <1>1, <1>2 DEF Next, vars

\* Every copy of a bucket row a request holds after a step is within its limit
\* when the one that w takes up is.
LEMMA SnapshotsKept ==
    ASSUME TypeOK, FileInv, SnapshotsOK,
           \A f \in File : files[f].state # "unused" => files'[f].size = files[f].size,
           NEW w \in Worker, NEW l, NEW b, NEW f, NEW t, NEW row, Enter(w, l, b, f, t, row),
           l \in HasSnap => WithinLimit(row),
           l \in {"putWrite", "putChunk"} => WithinLimit(Charged(row, files'[f].size))
    PROVE  SnapshotsOK'
  <1>1. /\ pc'[w] = l /\ obj'[w] = f /\ snap'[w] = row
        /\ \A v \in Worker \ {w} :
            pc'[v] = pc[v] /\ obj'[v] = obj[v] /\ snap'[v] = snap[v]
    BY DEF Enter, TypeOK, LocalTypeOK
  <1>2. \A v \in Worker : pc[v] \in {"putWrite", "putChunk"} =>
            obj[v] \in File /\ files[obj[v]].state # "unused"
    BY Locals DEF TypeOK, HasFile, FileInv, WritingOK, RecordingOK, Inserted
  <1>3. \A v \in Worker \ {w} : pc[v] \in {"putWrite", "putChunk"} =>
            files'[obj[v]].size = files[obj[v]].size
    BY <1>2
  <1> QED
    BY <1>1, <1>3 DEF SnapshotsOK

\* Answering a request, or one item of a loop, takes up no new copy.
LEMMA SnapshotsReturned ==
    ASSUME TypeOK, FileInv, SnapshotsOK,
           \A f \in File : files[f].state # "unused" => files'[f].size = files[f].size,
           NEW w \in Worker, Return(w) \/ (\E i : Ticked(w, i))
    PROVE  SnapshotsOK'
  <1>1. CASE Return(w)
    BY <1>1, SnapshotsKept DEF Return, HasSnap
  <1>2. ASSUME NEW i, Ticked(w, i) PROVE SnapshotsOK'
    <2>1. pc[w] \in {"putWrite", "putChunk"} =>
            obj[w] \in File /\ files'[obj[w]].size = files[obj[w]].size
      BY Locals DEF TypeOK, HasFile, FileInv, WritingOK, RecordingOK, Inserted
    <2> QED
      BY <1>2, <2>1, SnapshotsKept DEF Ticked, SnapshotsOK
  <1> QED
    BY <1>1, <1>2

\* Writing a row that is within its limit keeps every bucket within its limit.
LEMMA RowWritten ==
    ASSUME TypeOK, RecordedWithinQuota, NEW b \in Bucket, NEW row \in BucketRow,
           WithinLimit(row), InsertBucket(b, row) \/ UpdateBucket(b, row)
    PROVE  RecordedWithinQuota'
  BY DEF RecordedWithinQuota, WithinLimit, InsertBucket, UpdateBucket, TypeOK, StoreTypeOK

\* PutObject keeps QuotaInv: it took up a row that was within its limit, and
\* refused the object if that row plus the object was not.
LEMMA PutQuota ==
    ASSUME TypeOK, FileInv, QuotaInv, [Next]_vars, NEW w \in Worker,
           (\E b \in Bucket : PutBegin(w, b)) \/ PutStep(w)
    PROVE  QuotaInv'
  <1> USE DEF QuotaInv
  <1>0. \A f \in File : files[f].state # "unused" => files'[f].size = files[f].size
    BY SizesKept
  <1>1. UNCHANGED buckets => RecordedWithinQuota'
    BY DEF RecordedWithinQuota
  <1>2. ASSUME NEW b \in Bucket, PutBegin(w, b) PROVE QuotaInv'
    <2>1. WithinLimit(buckets[b])
      BY DEF RecordedWithinQuota, WithinLimit
    <2> QED
      BY <1>0, <1>1, <1>2, <2>1, SnapshotsKept DEF PutBegin, store
  <1>3. CASE PutPrepare(w)
    <2>1. PICK f \in File, k \in Key, n \in Size, x \in Expiry :
            /\ ~Refused(snap[w], n)
            /\ files' = [files EXCEPT ![f] =
                 [state |-> "building", bucket |-> at[w], key |-> k, size |-> n,
                  created |-> clock + 1, expiry |-> x]]
            /\ Enter(w, "putWrite", at[w], f, ShardsOf(n), snap[w])
      BY <1>3 DEF PutPrepare
    <2>2. snap[w] \in BucketRow /\ n \in Nat /\ WithinLimit(snap[w])
      BY <1>3, Locals, FileAssumption DEF PutPrepare, SnapshotsOK, HasSnap, TypeOK
    <2>3. files'[f].size = n
      BY <2>1 DEF TypeOK, StoreTypeOK
    <2>4. WithinLimit(Charged(snap[w], n))
      BY <2>1, <2>2, ChargedType DEF Refused, OverQuota, WithinLimit, BucketRow
    <2>5. SnapshotsOK'
      BY <1>0, <2>1, <2>2, <2>3, <2>4, SnapshotsKept
    <2> QED
      BY <1>1, <1>3, <2>5 DEF PutPrepare
  <1>4. CASE PutRow(w)
    <2>1. pc[w] = "putWrite" /\ obj[w] \in File /\ files[obj[w]].state = "building"
      BY <1>4, Locals DEF PutRow, AllWritten, TypeOK, HasFile, FileInv, WritingOK
    <2>2. WithinLimit(snap[w]) /\ WithinLimit(Charged(snap[w], files'[obj[w]].size))
      BY <1>0, <2>1 DEF SnapshotsOK, HasSnap
    <2>3. SnapshotsOK'
      BY <1>0, <1>4, <2>2, SnapshotsKept DEF PutRow
    <2> QED
      BY <1>1, <1>4, <2>3 DEF PutRow
  <1>5. CASE PutCount(w) \/ PutCountError(w)
    <2>1. /\ at[w] \in Bucket /\ obj[w] \in File /\ snap[w] \in BucketRow
          /\ WithinLimit(Charged(snap[w], files[obj[w]].size))
      BY <1>5, Locals
      DEF PutCount, PutCountError, ChunksDone, TypeOK, HasBucket, HasFile, HasSnap, SnapshotsOK
    <2>2. Charged(snap[w], files[obj[w]].size) \in BucketRow
      BY <2>1, ChargedType DEF TypeOK, StoreTypeOK, FileRow
    <2>3. RecordedWithinQuota'
      BY <1>1, <1>5, <2>1, <2>2, RowWritten DEF PutCount, PutCountError
    <2> QED
      BY <1>0, <1>5, <2>3, SnapshotsReturned DEF PutCount, PutCountError
  <1>6. CASE PutRefuse(w) \/ PutBodyError(w) \/ PutWriteError(w) \/ PutRowError(w)
    BY <1>0, <1>1, <1>6, SnapshotsReturned
    DEF PutRefuse, PutBodyError, PutWriteError, PutRowError, store
  <1>7. CASE PutWrite(w) \/ PutChunk(w) \/ PutChunkError(w)
    BY <1>0, <1>1, <1>7, SnapshotsReturned DEF PutWrite, PutChunk, PutChunkError, store
  <1> QED
    BY <1>2, <1>3, <1>4, <1>5, <1>6, <1>7 DEF PutStep

\* GetObject and CleanupExpiredObjects keep QuotaInv: they hold no row.
LEMMA ReadQuota ==
    ASSUME TypeOK, FileInv, QuotaInv, [Next]_vars, NEW w \in Worker,
           GetBegin(w) \/ GetStep(w) \/ CleanBegin(w) \/ CleanStep(w)
    PROVE  QuotaInv'
  <1> USE DEF QuotaInv
  <1>0. \A f \in File : files[f].state # "unused" => files'[f].size = files[f].size
    BY SizesKept
  <1>1. UNCHANGED buckets => RecordedWithinQuota'
    BY DEF RecordedWithinQuota
  <1>2. CASE GetBegin(w)
    BY <1>0, <1>1, <1>2, SnapshotsKept DEF GetBegin, HasSnap, store
  <1>3. CASE GetList(w)
    BY <1>0, <1>1, <1>3, SnapshotsKept DEF GetList, HasSnap, store
  <1>4. CASE CleanBegin(w)
    BY <1>0, <1>1, <1>4, SnapshotsKept DEF CleanBegin, HasSnap, store
  <1>5. CASE GetNoChunks(w) \/ GetReadError(w) \/ GetReply(w) \/ GetAgainError(w) \/ CleanEnd(w)
    BY <1>0, <1>1, <1>5, SnapshotsReturned
    DEF GetNoChunks, GetReadError, GetReply, GetAgainError, CleanEnd, store
  <1>6. CASE GetRead(w) \/ CleanOne(w) \/ CleanOneError(w)
    BY <1>0, <1>1, <1>6, SnapshotsReturned DEF GetRead, CleanOne, CleanOneError, store
  <1> QED
    BY <1>2, <1>3, <1>4, <1>5, <1>6 DEF GetStep, CleanStep

\* DeleteObject keeps QuotaInv: it writes back less than it read.
LEMMA DeleteQuota ==
    ASSUME TypeOK, FileInv, QuotaInv, [Next]_vars, NEW w \in Worker,
           DeleteBegin(w) \/ DeleteStep(w)
    PROVE  QuotaInv'
  <1> USE DEF QuotaInv
  <1>0. \A f \in File : files[f].state # "unused" => files'[f].size = files[f].size
    BY SizesKept
  <1>1. UNCHANGED buckets => RecordedWithinQuota'
    BY DEF RecordedWithinQuota
  <1>2. CASE DeleteBegin(w)
    BY <1>0, <1>1, <1>2, SnapshotsKept DEF DeleteBegin, HasSnap, store
  <1>3. CASE DeleteList(w)
    BY <1>0, <1>1, <1>3, SnapshotsKept DEF DeleteList, HasSnap, store
  <1>4. CASE DeleteListError(w)
    BY <1>0, <1>1, <1>4, SnapshotsKept DEF DeleteListError, HasSnap, store
  <1>5. CASE DeleteRow(w)
    BY <1>0, <1>1, <1>5, SnapshotsKept DEF DeleteRow, HasSnap
  <1>6. CASE DeleteBucketRead(w)
    <2>1. at[w] \in Bucket
      BY <1>6, Locals DEF DeleteBucketRead, TypeOK, HasBucket
    <2>2. WithinLimit(buckets[at[w]])
      BY <2>1 DEF RecordedWithinQuota, WithinLimit
    <2> QED
      BY <1>0, <1>1, <1>6, <2>2, SnapshotsKept DEF DeleteBucketRead, store
  <1>7. CASE DeleteCount(w) \/ DeleteCountError(w)
    <2>1. /\ at[w] \in Bucket /\ obj[w] \in File /\ snap[w] \in BucketRow
          /\ WithinLimit(snap[w])
      BY <1>7, Locals DEF DeleteCount, DeleteCountError, TypeOK, HasBucket, HasFile, HasSnap, SnapshotsOK
    <2>2. files[obj[w]].size \in Nat
      BY <2>1 DEF TypeOK, StoreTypeOK, FileRow
    <2> DEFINE row == Refunded(snap[w], files[obj[w]].size)
    <2>3. row \in BucketRow /\ row.cur <= snap[w].cur /\ row.max = snap[w].max
      BY <2>1, <2>2, RefundedType
    <2>4. UNCHANGED buckets \/ UpdateBucket(at[w], row)
      BY <1>7 DEF DeleteCount, DeleteCountError
    <2> HIDE DEF row
    <2>5. WithinLimit(row)
      BY <2>1, <2>3 DEF WithinLimit, BucketRow
    <2>6. RecordedWithinQuota'
      BY <1>1, <2>1, <2>3, <2>4, <2>5, RowWritten
    <2> QED
      BY <1>0, <1>7, <2>6, SnapshotsReturned DEF DeleteCount, DeleteCountError
  <1>8. CASE DeleteLost(w) \/ DeleteRowError(w) \/ DeleteBucketGone(w)
    BY <1>0, <1>1, <1>8, SnapshotsReturned
    DEF DeleteLost, DeleteRowError, DeleteBucketGone, store
  <1>9. CASE DeleteDisk(w) \/ DeleteDiskError(w)
    BY <1>0, <1>1, <1>9, SnapshotsReturned DEF DeleteDisk, DeleteDiskError, store
  <1> QED
    BY <1>2, <1>3, <1>4, <1>5, <1>6, <1>7, <1>8, <1>9 DEF DeleteStep

\* The bucket requests keep QuotaInv: a new bucket is empty, and an update
\* writes back the counters it read.
LEMMA BucketQuota ==
    ASSUME TypeOK, FileInv, QuotaInv, [Next]_vars, NEW w \in Worker,
           BucketBegin(w) \/ BucketStep(w), NoFileChange
    PROVE  QuotaInv'
  <1> USE DEF QuotaInv
  <1>0. \A f \in File : files[f].state # "unused" => files'[f].size = files[f].size
    BY SizesKept
  <1>1. UNCHANGED buckets => RecordedWithinQuota'
    BY DEF RecordedWithinQuota
  <1>2. CASE CreateBegin(w)
    <2>1. PICK n \in Name, m \in Quota :
            Enter(w, "mkInsert", None, None, {}, NewBucket(n, m))
      BY <1>2 DEF CreateBegin
    <2>2. WithinLimit(NewBucket(n, m))
      BY QuotaAssumption DEF WithinLimit, NewBucket
    <2> QED
      BY <1>0, <1>1, <1>2, <2>1, <2>2, SnapshotsKept DEF CreateBegin
  <1>3. ASSUME NEW b \in Bucket, RemoveBegin(w, b) PROVE QuotaInv'
    BY <1>0, <1>1, <1>3, SnapshotsKept DEF RemoveBegin, HasSnap
  <1>4. ASSUME NEW b \in Bucket, VersionBegin(w, b) PROVE QuotaInv'
    <2>1. PICK v \in Versioning :
            Enter(w, "verWrite", b, None, {}, [buckets[b] EXCEPT !.versioning = v])
      BY <1>4 DEF VersionBegin
    <2>2. /\ [buckets[b] EXCEPT !.versioning = v].cur = buckets[b].cur
          /\ [buckets[b] EXCEPT !.versioning = v].max = buckets[b].max
      BY DEF TypeOK, StoreTypeOK, BucketRow
    <2>3. WithinLimit([buckets[b] EXCEPT !.versioning = v])
      BY <2>2 DEF WithinLimit, RecordedWithinQuota
    <2> QED
      BY <1>0, <1>1, <1>4, <2>1, <2>3, SnapshotsKept DEF VersionBegin
  <1>5. CASE RemoveCount(w)
    BY <1>0, <1>1, <1>5, SnapshotsKept DEF RemoveCount, HasSnap
  <1>6. CASE CreateInsert(w) \/ CreateInsertError(w)
    <2>1. snap[w] \in BucketRow /\ WithinLimit(snap[w])
      BY <1>6, Locals DEF CreateInsert, CreateInsertError, TypeOK, HasSnap, SnapshotsOK
    <2>2. RecordedWithinQuota'
      BY <1>1, <1>6, <2>1, RowWritten DEF CreateInsert, CreateInsertError
    <2> QED
      BY <1>0, <1>6, <2>2, SnapshotsReturned DEF CreateInsert, CreateInsertError
  <1>7. CASE VersionWrite(w) \/ VersionWriteError(w)
    <2>1. at[w] \in Bucket /\ snap[w] \in BucketRow /\ WithinLimit(snap[w])
      BY <1>7, Locals DEF VersionWrite, VersionWriteError, TypeOK, HasBucket, HasSnap, SnapshotsOK
    <2>2. RecordedWithinQuota'
      BY <1>1, <1>7, <2>1, RowWritten DEF VersionWrite, VersionWriteError
    <2> QED
      BY <1>0, <1>7, <2>2, SnapshotsReturned DEF VersionWrite, VersionWriteError
  <1>8. CASE RemoveRow(w) \/ RemoveRowError(w)
    <2>1. RecordedWithinQuota'
      BY <1>1, <1>8 DEF RemoveRow, RemoveRowError, SoftDeleteBucket, RecordedWithinQuota,
                        TypeOK, StoreTypeOK, BucketRow
    <2> QED
      BY <1>0, <1>8, <2>1, SnapshotsReturned DEF RemoveRow, RemoveRowError
  <1>9. CASE RemoveRefused(w)
    BY <1>0, <1>1, <1>9, SnapshotsReturned DEF RemoveRefused
  <1> QED
    BY <1>2, <1>3, <1>4, <1>5, <1>6, <1>7, <1>8, <1>9 DEF BucketBegin, BucketStep

\* Every step keeps QuotaInv.
LEMMA NextQuota ==
    ASSUME TypeOK, FileInv, QuotaInv, [Next]_vars
    PROVE  QuotaInv'
  <1>0. \A f \in File : files[f].state # "unused" => files'[f].size = files[f].size
    BY SizesKept
  <1>1. ASSUME NEW w \in Worker, Begin(w) PROVE QuotaInv'
    BY <1>1, PutQuota, ReadQuota, DeleteQuota, BucketQuota DEF Begin, FileBegin
  <1>2. ASSUME NEW w \in Worker, Step(w) PROVE QuotaInv'
    BY <1>2, PutQuota, ReadQuota, DeleteQuota, BucketQuota DEF Step, FileStep
  <1>3. ASSUME NEW w \in Worker, Lost(w) PROVE QuotaInv'
    BY <1>0, <1>3, SnapshotsReturned DEF Lost, Crash, QuotaInv, RecordedWithinQuota
  <1>4. ASSUME NEW f \in File, Expire(f) PROVE QuotaInv'
    <2>1. \A v \in Worker : pc[v] \in {"putWrite", "putChunk"} =>
            obj[v] \in File /\ files[obj[v]].state # "unused"
      BY Locals DEF TypeOK, HasFile, FileInv, WritingOK, RecordingOK, Inserted
    <2>2. buckets' = buckets /\ pc' = pc /\ obj' = obj /\ snap' = snap
      BY <1>4 DEF Expire, local
    <2> QED
      BY <1>0, <2>1, <2>2 DEF QuotaInv, SnapshotsOK, RecordedWithinQuota
  <1>5. ASSUME UNCHANGED vars PROVE QuotaInv'
    BY <1>5 DEF vars, QuotaInv, SnapshotsOK, RecordedWithinQuota
  <1> QED
    BY <1>1, <1>2, <1>3, <1>4, <1>5 DEF Next, ReadOnly

-----------------------------------------------------------------------------
(* Theorems *)

\* IndInv holds initially: no request is under way and no file exists.
LEMMA InitInv == Init => IndInv
  <1> SUFFICES ASSUME Init PROVE IndInv
    OBVIOUS
  <1>1. TypeOK
    BY InitType
  <1>2. FileInv
    BY DEF Init, RequestInit, UnusedFile, FileInv, WritingOK, DeletingOK, RecordingOK,
           DurableBeforeVisible, AckedIsComplete, RefundedOnce, Inserted
  <1>3. RecordedWithinQuota
    <2>1. PICK nm \in [Existing -> Name], mx \in [Existing -> Quota] :
            buckets = [b \in Bucket |-> IF b \in Existing
                                        THEN NewBucket(nm[b], mx[b])
                                        ELSE AbsentBucket]
      BY DEF Init
    <2>2. \A b \in Bucket : /\ buckets[b].cur = 0
                            /\ b \in Existing => buckets[b].max = mx[b] /\ mx[b] \in Int
                            /\ b \notin Existing => buckets[b].max = 0
      BY <2>1, QuotaAssumption DEF NewBucket, AbsentBucket
    <2> QED
      BY <2>2 DEF RecordedWithinQuota
  <1>4. SnapshotsOK
    BY DEF Init, RequestInit, SnapshotsOK, HasSnap
  <1> QED
    BY <1>1, <1>2, <1>3, <1>4 DEF IndInv, QuotaInv

\* IndInv is inductive.
LEMMA NextInv == IndInv /\ [Next]_vars => IndInv'
  BY NextType, NextFileInv, NextQuota DEF IndInv

\* The inductive invariant holds in every reachable state, whatever requests
\* interleave, calls fail and processes die.
THEOREM Invariance == Spec => []IndInv
  BY InitInv, NextInv, PTL DEF Spec

\* A version with a row that no DeleteObject has chosen has all its shards on
\* disk, for any shard counts and any number of workers, faults and crashes.
THEOREM Durability == Spec => []DurableBeforeVisible
  <1>1. IndInv => DurableBeforeVisible
    BY DEF IndInv, FileInv
  <1> QED
    BY <1>1, Invariance, PTL

\* Until a call fails, an acknowledged upload has its row and every chunk row.
THEOREM Completeness == Spec => []AckedIsComplete
  <1>1. IndInv => AckedIsComplete
    BY DEF IndInv, FileInv
  <1> QED
    BY <1>1, Invariance, PTL

\* The usage a bucket records stays within its limit, in spite of stale copies
\* of the row.
THEOREM RecordedQuota == Spec => []RecordedWithinQuota
  <1>1. IndInv => RecordedWithinQuota
    BY DEF IndInv, QuotaInv
  <1> QED
    BY <1>1, Invariance, PTL

\* No version is subtracted from its bucket twice, however many deletes race.
THEOREM SingleRefund == Spec => []RefundedOnce
  <1>1. IndInv => RefundedOnce
    BY DEF IndInv, FileInv
  <1> QED
    BY <1>1, Invariance, PTL

\* No step writes the row of a deleted bucket: SoftDelete and Update ask for
\* deleted_at IS NULL, and an INSERT takes a new id.
LEMMA DeletedRowKept ==
    ASSUME TypeOK, [Next]_vars, NEW b \in Bucket, buckets[b].state = "deleted"
    PROVE  buckets'[b] = buckets[b]
  <1>1. ASSUME NEW c \in Bucket, NEW row, UpdateBucket(c, row) PROVE buckets'[b] = buckets[b]
    BY <1>1 DEF UpdateBucket, LiveBucket, TypeOK, StoreTypeOK
  <1>2. ASSUME NEW c \in Bucket, NEW row, buckets[c].state = "absent", InsertBucket(c, row)
        PROVE  buckets'[b] = buckets[b]
    BY <1>2 DEF InsertBucket, TypeOK, StoreTypeOK
  <1>3. ASSUME NEW c \in Bucket, LiveBucket(c), SoftDeleteBucket(c)
        PROVE  buckets'[b] = buckets[b]
    BY <1>3 DEF SoftDeleteBucket, LiveBucket, TypeOK, StoreTypeOK
  <1>4. ASSUME NEW w \in Worker, FileBegin(w) \/ FileStep(w) PROVE buckets'[b] = buckets[b]
    <2>1. CASE PutCount(w) \/ PutCountError(w) \/ DeleteCount(w) \/ DeleteCountError(w)
      <3>1. at[w] \in Bucket
        BY <2>1, Locals
        DEF PutCount, PutCountError, ChunksDone, DeleteCount, DeleteCountError, TypeOK, HasBucket
      <3> QED
        BY <1>1, <2>1, <3>1 DEF PutCount, PutCountError, DeleteCount, DeleteCountError
    <2>2. CASE FileBegin(w)
      BY <2>2 DEF FileBegin, PutBegin, GetBegin, DeleteBegin, CleanBegin, store
    <2>3. CASE PutStep(w) /\ ~PutCount(w) /\ ~PutCountError(w)
      BY <2>3 DEF PutStep, PutRefuse, PutBodyError, PutPrepare, PutWrite, PutWriteError,
            PutRow, PutRowError, PutChunk, PutChunkError, store
    <2>4. CASE DeleteStep(w) /\ ~DeleteCount(w) /\ ~DeleteCountError(w)
      BY <2>4 DEF DeleteStep, DeleteList, DeleteListError, DeleteDisk, DeleteDiskError,
            DeleteRow, DeleteLost, DeleteRowError, DeleteBucketRead, DeleteBucketGone, store
    <2>5. CASE GetStep(w) \/ CleanStep(w)
      BY <2>5 DEF GetStep, GetList, GetNoChunks, GetRead, GetReadError, GetReply, GetAgainError,
            CleanStep, CleanOne, CleanOneError, CleanEnd, store
    <2> QED
      BY <1>4, <2>1, <2>2, <2>3, <2>4, <2>5 DEF FileStep
  <1>5. ASSUME NEW w \in Worker, BucketBegin(w) \/ BucketStep(w) PROVE buckets'[b] = buckets[b]
    <2>1. pc[w] \in HasBucket => at[w] \in Bucket
      BY Locals DEF TypeOK
    <2>2. CASE BucketBegin(w) \/ RemoveCount(w) \/ RemoveRefused(w)
      BY <2>2 DEF BucketBegin, CreateBegin, RemoveBegin, VersionBegin, RemoveCount, RemoveRefused
    <2>3. CASE CreateInsert(w) \/ CreateInsertError(w)
      BY <1>2, <2>3 DEF CreateInsert, CreateInsertError
    <2>4. CASE RemoveRow(w) \/ RemoveRowError(w)
      BY <1>3, <2>1, <2>4 DEF RemoveRow, RemoveRowError, HasBucket
    <2>5. CASE VersionWrite(w) \/ VersionWriteError(w)
      BY <1>1, <2>1, <2>5 DEF VersionWrite, VersionWriteError, HasBucket
    <2> QED
      BY <1>5, <2>2, <2>3, <2>4, <2>5 DEF BucketStep
  <1> QED
    BY <1>4, <1>5 DEF Next, Begin, Step, Lost, ReadOnly, Expire, vars

\* Once deleted, a bucket's row is never written again: a request that still
\* holds a copy of the live row cannot bring it back.
THEOREM FrozenBuckets == Spec => DeletedBucketFrozen
  <1>1. TypeOK /\ [Next]_vars =>
          [\A b \in Bucket : buckets[b].state = "deleted" => buckets'[b] = buckets[b]]_vars
    BY DeletedRowKept
  <1> QED
    BY <1>1, TypeCorrect, PTL DEF Spec, DeletedBucketFrozen

-----------------------------------------------------------------------------
(* The table of files *)

\* What one step can do to the table of files and to the stamps.
FileMoves ==
    \/ files' = files /\ clock' = clock
    \/ /\ clock' = clock
       /\ \E f \in File :
            \/ files[f].state = "building" /\ InsertFile(f)
            \/ LiveFile(f) /\ SoftDeleteFile(f)
            \/ files' = [files EXCEPT ![f].expiry = "passed"]
    \/ \E w \in Worker : PutPrepare(w)

LEMMA StepMoves ==
    ASSUME TypeOK, FileInv, [Next]_vars
    PROVE  FileMoves
  <1>1. ASSUME NEW w \in Worker, Begin(w) \/ Step(w) \/ Lost(w) \/ ReadOnly(w)
        PROVE  FileMoves
    <2>1. CASE PutPrepare(w)
      BY <2>1 DEF FileMoves
    <2>2. CASE files' = files /\ clock' = clock
      BY <2>2 DEF FileMoves
    <2>3. CASE PutRow(w) \/ PutRowError(w)
      <3>1. obj[w] \in File /\ files[obj[w]].state = "building"
        BY <2>3, Locals DEF PutRow, PutRowError, AllWritten, TypeOK, HasFile, FileInv, WritingOK
      <3> QED
        BY <2>3, <3>1 DEF PutRow, PutRowError, FileMoves
    <2>4. CASE DeleteRow(w) \/ DeleteRowError(w)
      <3>1. obj[w] \in File
        BY <2>4, Locals DEF DeleteRow, DeleteRowError, TypeOK, HasFile
      <3> QED
        BY <2>4, <3>1 DEF DeleteRow, DeleteRowError, Affected, FileMoves
    <2>5. CASE CleanOne(w) \/ CleanOneError(w)
      <3>1. todo[w] \subseteq File
        BY <2>5, Locals DEF CleanOne, CleanOneError, TypeOK
      <3> QED
        BY <2>5, <3>1 DEF CleanOne, CleanOneError, Affected, FileMoves
    <2>6. CASE FileBegin(w)
      BY <2>6, <2>2 DEF FileBegin, PutBegin, GetBegin, DeleteBegin, CleanBegin, store
    <2>7. CASE GetStep(w)
      BY <2>7, <2>2 DEF GetStep, GetList, GetNoChunks, GetRead, GetReadError, GetReply,
            GetAgainError, store
    <2>8. CASE \/ PutRefuse(w) \/ PutBodyError(w) \/ PutWrite(w) \/ PutWriteError(w)
               \/ PutChunk(w) \/ PutChunkError(w) \/ PutCount(w) \/ PutCountError(w)
      BY <2>8, <2>2 DEF PutRefuse, PutBodyError, PutWrite, PutWriteError, PutChunk,
                        PutChunkError, PutCount, PutCountError, store
    <2>9. CASE \/ DeleteList(w) \/ DeleteListError(w) \/ DeleteDisk(w) \/ DeleteDiskError(w)
               \/ DeleteLost(w) \/ DeleteBucketRead(w) \/ DeleteBucketGone(w)
               \/ DeleteCount(w) \/ DeleteCountError(w)
      BY <2>9, <2>2 DEF DeleteList, DeleteListError, DeleteDisk, DeleteDiskError, DeleteLost,
            DeleteBucketRead, DeleteBucketGone, DeleteCount, DeleteCountError, store
    <2>10. CASE CleanEnd(w)
      BY <2>10, <2>2 DEF CleanEnd, store
    <2>11. CASE NoFileChange \/ ReadOnly(w)
      BY <2>11, <2>2 DEF NoFileChange, ReadOnly, vars
    <2> QED
      BY <1>1, <2>1, <2>3, <2>4, <2>5, <2>6, <2>7, <2>8, <2>9, <2>10, <2>11
      DEF Begin, Step, FileStep, PutStep, DeleteStep, CleanStep, Lost
  <1>2. ASSUME NEW f \in File, Expire(f) PROVE FileMoves
    BY <1>2 DEF Expire, FileMoves
  <1>3. CASE UNCHANGED vars
    BY <1>3 DEF vars, FileMoves
  <1> QED
    BY <1>1, <1>2, <1>3 DEF Next

\* What every step leaves of a file: once built it keeps its bucket, its key
\* and its stamp, and a row stays a row.
Kept(f) ==
    /\ files[f].state # "unused" =>
        /\ files'[f].state # "unused"
        /\ files'[f].bucket = files[f].bucket
        /\ files'[f].key = files[f].key
        /\ files'[f].created = files[f].created
    /\ files[f].state \in {"live", "deleted"} => files'[f].state \in {"live", "deleted"}

LEMMA RowsKept ==
    ASSUME TypeOK, FileMoves, NEW f \in File
    PROVE  Kept(f)
  <1>1. CASE files' = files
    BY <1>1 DEF Kept
  <1>2. ASSUME NEW w \in Worker, PutPrepare(w) PROVE Kept(f)
    BY <1>2 DEF PutPrepare, TypeOK, StoreTypeOK, Kept
  <1>3. ASSUME NEW g \in File, InsertFile(g) \/ SoftDeleteFile(g) PROVE Kept(f)
    BY <1>3 DEF InsertFile, SoftDeleteFile, TypeOK, StoreTypeOK, FileRow, Kept
  <1>4. ASSUME NEW g \in File, files' = [files EXCEPT ![g].expiry = "passed"] PROVE Kept(f)
    BY <1>4 DEF TypeOK, StoreTypeOK, FileRow, Kept
  <1> QED
    BY <1>1, <1>2, <1>3, <1>4 DEF FileMoves

\* PutPrepare takes a new stamp, and no other step writes one.
LEMMA StampsKept ==
    ASSUME TypeOK, StampsOK, FileMoves
    PROVE  StampsOK'
  <1>1. ASSUME NEW w \in Worker, PutPrepare(w) PROVE StampsOK'
    <2>1. PICK f \in File, k \in Key, n \in Size, x \in Expiry :
            /\ files[f].state = "unused"
            /\ files' = [files EXCEPT ![f] =
                [state |-> "building", bucket |-> at[w], key |-> k, size |-> n,
                 created |-> clock + 1, expiry |-> x]]
      BY <1>1 DEF PutPrepare
    <2>2. clock' = clock + 1 /\ clock \in Nat
      BY <1>1 DEF PutPrepare, TypeOK, StoreTypeOK
    <2>3. /\ files'[f].created = clock + 1
          /\ \A g \in File : g # f => files'[g] = files[g]
      BY <2>1 DEF TypeOK, StoreTypeOK
    <2>4. \A g \in File : files[g].created \in Nat
      BY DEF TypeOK, StoreTypeOK, FileRow
    <2> QED
      BY <2>2, <2>3, <2>4 DEF StampsOK
  <1>2. CASE ~(\E w \in Worker : PutPrepare(w))
    <2>1. clock' = clock
      BY <1>2 DEF FileMoves
    <2>2. \A f \in File : files'[f].created = files[f].created
                          /\ (files'[f].state = "unused" <=> files[f].state = "unused")
      BY <1>2 DEF FileMoves, InsertFile, SoftDeleteFile, LiveFile, TypeOK, StoreTypeOK, FileRow
    <2> QED
      BY <2>1, <2>2 DEF StampsOK
  <1> QED
    BY <1>1, <1>2

-----------------------------------------------------------------------------
(* Requests come to an end *)

\* How far a label is into its operation.
Stage ==
    [l \in Label |->
        IF l = "idle" THEN 0
        ELSE IF l \in {"putWrite", "getRead", "delDisk", "rmRow"} THEN 2
        ELSE IF l \in {"putChunk", "delBucket"} THEN 3
        ELSE IF l = "delCount" THEN 4
        ELSE 1]

\* A request is answered or lost, goes on to a later stage, or has one item
\* less of its loop to do.
Advances(w) ==
    \/ pc'[w] = "idle"
    \/ Stage[pc'[w]] > Stage[pc[w]]
    \/ pc'[w] = pc[w] /\ \E x \in todo[w] : todo'[w] = todo[w] \ {x}

Stays(w) == pc'[w] = pc[w] /\ todo'[w] = todo[w]

\* No step of anybody, failed call or lost process takes a request back, and
\* its own steps do not leave it where it is.
RequestsAdvance ==
    [][\A w \in Worker : pc[w] # "idle" =>
          /\ Advances(w) \/ Stays(w)
          /\ Step(w) => Advances(w)]_vars

\* What one assignment to a request's variables means for it and the others.
LEMMA EnterMoves ==
    ASSUME TypeOK, NEW w \in Worker, NEW l, NEW b, NEW f, NEW t, NEW row,
           Enter(w, l, b, f, t, row)
    PROVE  /\ pc'[w] = l /\ todo'[w] = t
           /\ \A v \in Worker \ {w} : pc'[v] = pc[v] /\ todo'[v] = todo[v]
  BY DEF Enter, TypeOK, LocalTypeOK

\* The ways in which a step of a request changes its variables.
LEMMA OwnStep ==
    ASSUME NEW w \in Worker, Step(w)
    PROVE  \/ Return(w)
           \/ \E i \in todo[w] : Ticked(w, i)
           \/ \E l \in Label : \E b, f, t, row :
                 Enter(w, l, b, f, t, row) /\ Stage[l] > Stage[pc[w]]
  <1>1. CASE PutStep(w)
    <2>1. CASE PutRefuse(w) \/ PutBodyError(w) \/ PutWriteError(w) \/ PutRowError(w)
               \/ PutCount(w) \/ PutCountError(w)
      BY <2>1 DEF PutRefuse, PutBodyError, PutWriteError, PutRowError, PutCount, PutCountError
    <2>2. CASE PutWrite(w) \/ PutChunk(w) \/ PutChunkError(w)
      BY <2>2 DEF PutWrite, PutChunk, PutChunkError, NextShard
    <2>3. CASE PutPrepare(w)
      <3>1. Stage["putWrite"] > Stage[pc[w]] /\ "putWrite" \in Label
        BY <2>3 DEF PutPrepare, Stage, Label
      <3> QED
        BY <2>3, <3>1 DEF PutPrepare
    <2>4. CASE PutRow(w)
      <3>1. Stage["putChunk"] > Stage[pc[w]] /\ "putChunk" \in Label
        BY <2>4 DEF PutRow, AllWritten, Stage, Label
      <3> QED
        BY <2>4, <3>1 DEF PutRow
    <2> QED
      BY <1>1, <2>1, <2>2, <2>3, <2>4 DEF PutStep
  <1>2. CASE GetStep(w)
    <2>1. CASE GetNoChunks(w) \/ GetReadError(w) \/ GetReply(w) \/ GetAgainError(w)
      BY <2>1 DEF GetNoChunks, GetReadError, GetReply, GetAgainError
    <2>2. CASE GetRead(w)
      BY <2>2 DEF GetRead, NextShard
    <2>3. CASE GetList(w)
      <3>1. Stage["getRead"] > Stage[pc[w]] /\ "getRead" \in Label
        BY <2>3 DEF GetList, Stage, Label
      <3> QED
        BY <2>3, <3>1 DEF GetList
    <2> QED
      BY <1>2, <2>1, <2>2, <2>3 DEF GetStep
  <1>3. CASE DeleteStep(w)
    <2>1. CASE DeleteLost(w) \/ DeleteRowError(w) \/ DeleteBucketGone(w) \/ DeleteCount(w)
               \/ DeleteCountError(w)
      BY <2>1 DEF DeleteLost, DeleteRowError, DeleteBucketGone, DeleteCount, DeleteCountError
    <2>2. CASE DeleteDisk(w) \/ DeleteDiskError(w)
      BY <2>2 DEF DeleteDisk, DeleteDiskError, NextShard
    <2>3. CASE DeleteList(w) \/ DeleteListError(w)
      <3>1. Stage["delDisk"] > Stage[pc[w]] /\ "delDisk" \in Label
        BY <2>3 DEF DeleteList, DeleteListError, Stage, Label
      <3> QED
        BY <2>3, <3>1 DEF DeleteList, DeleteListError
    <2>4. CASE DeleteRow(w)
      <3>1. Stage["delBucket"] > Stage[pc[w]] /\ "delBucket" \in Label
        BY <2>4 DEF DeleteRow, Stage, Label
      <3> QED
        BY <2>4, <3>1 DEF DeleteRow
    <2>5. CASE DeleteBucketRead(w)
      <3>1. Stage["delCount"] > Stage[pc[w]] /\ "delCount" \in Label
        BY <2>5 DEF DeleteBucketRead, Stage, Label
      <3> QED
        BY <2>5, <3>1 DEF DeleteBucketRead
    <2> QED
      BY <1>3, <2>1, <2>2, <2>3, <2>4, <2>5 DEF DeleteStep
  <1>4. CASE CleanStep(w)
    BY <1>4 DEF CleanStep, CleanOne, CleanOneError, CleanEnd
  <1>5. CASE BucketStep(w)
    <2>1. CASE RemoveCount(w)
      <3>1. Stage["rmRow"] > Stage[pc[w]] /\ "rmRow" \in Label
        BY <2>1 DEF RemoveCount, Stage, Label
      <3> QED
        BY <2>1, <3>1 DEF RemoveCount
    <2>2. CASE BucketStep(w) /\ ~RemoveCount(w)
      BY <2>2 DEF BucketStep, CreateInsert, CreateInsertError, RemoveRefused, RemoveRow,
            RemoveRowError, VersionWrite, VersionWriteError
    <2> QED
      BY <1>5, <2>1, <2>2
  <1> QED
    BY <1>1, <1>2, <1>3, <1>4, <1>5 DEF Step, FileStep

LEMMA NextAdvances ==
    ASSUME TypeOK, [Next]_vars, NEW v \in Worker, pc[v] # "idle"
    PROVE  (Advances(v) \/ Stays(v)) /\ (Step(v) => Advances(v))
  <1>1. ASSUME NEW w \in Worker, NEW l, NEW b, NEW f, NEW t, NEW row,
               Enter(w, l, b, f, t, row), w # v
        PROVE  Stays(v)
    BY <1>1, EnterMoves DEF Stays
  <1>2. ASSUME NEW w \in Worker, Return(w)
        PROVE  IF w = v THEN Advances(v) ELSE Stays(v)
    BY <1>2, EnterMoves DEF Return, Advances, Stays
  <1>3. ASSUME NEW w \in Worker, NEW i \in todo[w], Ticked(w, i)
        PROVE  IF w = v THEN Advances(v) ELSE Stays(v)
    BY <1>3, EnterMoves DEF Ticked, Advances, Stays
  <1>4. ASSUME NEW w \in Worker, Step(w)
        PROVE  IF w = v THEN Advances(v) ELSE Stays(v)
    <2>1. ASSUME NEW l \in Label, NEW b, NEW f, NEW t, NEW row,
                 Enter(w, l, b, f, t, row), Stage[l] > Stage[pc[w]]
          PROVE  IF w = v THEN Advances(v) ELSE Stays(v)
      <3>1. CASE w = v
        BY <2>1, <3>1, EnterMoves DEF Advances
      <3>2. CASE w # v
        BY <1>1, <2>1, <3>2
      <3> QED
        BY <3>1, <3>2
    <2> QED
      BY <1>2, <1>3, <1>4, <2>1, OwnStep
  <1>5. ASSUME NEW w \in Worker, Begin(w)
        PROVE  Stays(v)
    <2>1. pc[w] = "idle" /\ \E l, b, f, t, row : Enter(w, l, b, f, t, row)
      BY <1>5 DEF Begin, FileBegin, BucketBegin, PutBegin, GetBegin, DeleteBegin, CleanBegin,
            CreateBegin, RemoveBegin, VersionBegin
    <2> QED
      BY <1>1, <2>1
  <1>6. Step(v) => Advances(v)
    BY <1>4
  <1>7. Advances(v) \/ Stays(v)
    BY <1>2, <1>4, <1>5 DEF Next, Lost, Crash, ReadOnly, Expire, local, vars, Stays
  <1> QED
    BY <1>6, <1>7

\* A request has finitely many calls ahead of it, whatever the others do: what
\* is left of it never grows, and each of its own steps takes something off.
\* Besides, RequestsAnswered needs that it can always take one, and a fair
\* scheduler.
THEOREM RequestsOnlyAdvance == Spec => RequestsAdvance
  <1>1. TypeOK /\ [Next]_vars =>
            [\A w \in Worker : pc[w] # "idle" =>
                /\ Advances(w) \/ Stays(w)
                /\ Step(w) => Advances(w)]_vars
    BY NextAdvances
  <1> QED
    BY <1>1, TypeCorrect, PTL DEF Spec, RequestsAdvance
=============================================================================
