--------------------------- MODULE RangeReadSafety ---------------------------
(***************************************************************************)
(* What a range reply may say, for every value of the constants.  RangeRead *)
(* is ObjectStore with two more variables, so its invariant is there for   *)
(* the taking; what is added is that a row's bucket and key never change.  *)
(***************************************************************************)
EXTENDS RangeRead, ObjectStoreSafety

-----------------------------------------------------------------------------
(* The store *)

\* Forgetting what was asked, a step of RangeRead is a step of ObjectStore.
LEMMA StoreStep == [RNext]_rvars => [Next]_vars
  BY DEF RNext, RangeBegin, RangeOutside, RangeReply, RangeReplyError, OtherStep, Next, Begin,
         Step, FileBegin, FileStep, GetStep, rvars

\* RangeRead keeps every promise of ObjectStore.
THEOREM RangeReadIsStore == RSpec => Spec
  <1>1. RInit => Init
    BY DEF RInit
  <1> QED
    BY <1>1, StoreStep, PTL DEF RSpec, Spec

-----------------------------------------------------------------------------
(* Range downloads *)

\* A request that is reading goes on reading the same version, or is over.
ReadsOn(w) ==
    \/ pc'[w] = "idle"
    \/ /\ pc'[w] \in {"getList", "getRead"}
       /\ obj'[w] = obj[w] /\ at'[w] = at[w]

LEMMA ReadingGoesOn ==
    ASSUME TypeOK, [Next]_vars, NEW w \in Worker, pc[w] \in {"getList", "getRead"}
    PROVE  ReadsOn(w)
  <1>0. ASSUME NEW v \in Worker, NEW l, NEW b, NEW f, NEW t, NEW row,
               Enter(v, l, b, f, t, row),
               \/ v # w \/ l = "idle"
               \/ l \in {"getList", "getRead"} /\ f = obj[w] /\ b = at[w]
        PROVE  ReadsOn(w)
    BY <1>0 DEF ReadsOn, Enter, TypeOK, LocalTypeOK
  <1>1. ASSUME NEW v \in Worker, Return(v) PROVE ReadsOn(w)
    BY <1>0, <1>1 DEF Return
  <1>2. ASSUME NEW v \in Worker, NEW i, Ticked(v, i) PROVE ReadsOn(w)
    BY <1>0, <1>2 DEF Ticked
  <1>3. CASE UNCHANGED local
    BY <1>3 DEF ReadsOn, local
  <1>4. ASSUME NEW v \in Worker, FileBegin(v) PROVE ReadsOn(w)
    BY <1>0, <1>4 DEF FileBegin, PutBegin, GetBegin, DeleteBegin, CleanBegin
  <1>5. ASSUME NEW v \in Worker, PutStep(v) PROVE ReadsOn(w)
    BY <1>0, <1>1, <1>2, <1>5 DEF PutStep, PutRefuse, PutBodyError, PutPrepare, PutWrite,
        PutWriteError, PutRow, PutRowError, AllWritten, PutChunk, PutChunkError, PutCount,
        PutCountError
  <1>6. ASSUME NEW v \in Worker, GetStep(v) PROVE ReadsOn(w)
    BY <1>0, <1>1, <1>2, <1>6 DEF GetStep, GetList, GetNoChunks, GetRead, GetReadError,
        GetReply, GetAgainError
  <1>7. ASSUME NEW v \in Worker, DeleteStep(v) PROVE ReadsOn(w)
    BY <1>0, <1>1, <1>2, <1>7 DEF DeleteStep, DeleteList, DeleteListError, DeleteDisk,
        DeleteDiskError, DeleteRow, DeleteLost, DeleteRowError, DeleteBucketRead,
        DeleteBucketGone, DeleteCount, DeleteCountError
  <1>8. ASSUME NEW v \in Worker, CleanStep(v) PROVE ReadsOn(w)
    BY <1>1, <1>2, <1>8 DEF CleanStep, CleanOne, CleanOneError, CleanEnd
  <1>9. ASSUME NEW v \in Worker, BucketBegin(v) \/ BucketStep(v) PROVE ReadsOn(w)
    BY <1>0, <1>1, <1>9 DEF BucketBegin, CreateBegin, RemoveBegin, VersionBegin, BucketStep,
        CreateInsert, CreateInsertError, RemoveCount, RemoveRefused, RemoveRow, RemoveRowError,
        VersionWrite, VersionWriteError
  <1>10. ASSUME NEW v \in Worker, Lost(v) PROVE ReadsOn(w)
    BY <1>1, <1>10 DEF Lost, Crash
  <1>11. ASSUME NEW f \in File, Expire(f) PROVE ReadsOn(w)
    BY <1>3, <1>11 DEF Expire, local
  <1>12. CASE UNCHANGED vars
    BY <1>3, <1>12 DEF vars, local
  <1>13. ASSUME NEW v \in Worker, Begin(v) \/ Step(v) \/ Lost(v) \/ ReadOnly(v) PROVE ReadsOn(w)
    <2>1. CASE Begin(v)
      BY <2>1, <1>4, <1>9 DEF Begin
    <2>2. CASE Step(v)
      BY <2>2, <1>5, <1>6, <1>7, <1>8, <1>9 DEF Step, FileStep
    <2>3. CASE ReadOnly(v)
      BY <2>3, <1>12 DEF ReadOnly
    <2> QED
      BY <1>13, <2>1, <2>2, <2>3, <1>10
  <1> QED
    BY <1>11, <1>12, <1>13 DEF Next

\* While a range download is under way its version has a row, in the bucket
\* the request is about.
AskedOK ==
    /\ asked \in [Worker -> Asked \cup {None}]
    /\ \A w \in Worker : asked[w] \in Asked =>
        /\ pc[w] \in {"getList", "getRead"}
        /\ Inserted(obj[w])
        /\ files[obj[w]].bucket = at[w]

\* The inductive invariant of RangeRead.
RInv == IndInv /\ AskedOK /\ RangeOfVersion /\ RangeOfNewest

LEMMA RInitInv == RInit => RInv
  <1> SUFFICES ASSUME RInit PROVE RInv
    OBVIOUS
  <1>1. Init /\ asked = [w \in Worker |-> None] /\ reply = None
    BY DEF RInit
  <1>2. IndInv
    BY <1>1, InitInv
  <1>3. AskedOK
    BY <1>1, RangeAssumption DEF AskedOK
  <1> QED
    BY <1>1, <1>2, <1>3 DEF RInv, RangeOfVersion, RangeOfNewest

LEMMA AskedKept ==
    ASSUME TypeOK, FileMoves, AskedOK, [RNext]_rvars
    PROVE  AskedOK'
  <1>1. ASSUME NEW w \in Worker, RangeBegin(w) PROVE AskedOK'
    <2>1. PICK b \in Bucket, k \in Key, f \in File :
              f \in Versions(b, k) /\ Enter(w, "getList", b, f, {}, None)
      BY <1>1 DEF RangeBegin, GetBegin, Versions
    <2>2. files' = files /\ \E a \in Asked : asked' = [asked EXCEPT ![w] = a]
      BY <1>1 DEF RangeBegin, GetBegin, store
    <2>3. /\ pc'[w] = "getList" /\ at'[w] = b /\ obj'[w] = f
          /\ \A v \in Worker : v # w => pc'[v] = pc[v] /\ at'[v] = at[v] /\ obj'[v] = obj[v]
      BY <2>1 DEF Enter, TypeOK, LocalTypeOK
    <2>4. LiveFile(f) /\ files[f].bucket = b
      BY <2>1 DEF Versions
    <2> QED
      BY <2>2, <2>3, <2>4 DEF AskedOK, Inserted, LiveFile
  <1>2. ASSUME NEW w \in Worker, RangeOutside(w) \/ RangeReply(w) \/ RangeReplyError(w)
        PROVE  AskedOK'
    <2>1. asked' = [asked EXCEPT ![w] = None] /\ files' = files /\ Return(w)
      BY <1>2 DEF RangeOutside, RangeReply, RangeReplyError, Reply, GetReply, GetAgainError, store
    <2>2. \A v \in Worker : v # w => pc'[v] = pc[v] /\ at'[v] = at[v] /\ obj'[v] = obj[v]
      BY <2>1 DEF Return, Enter, TypeOK, LocalTypeOK
    <2> QED
      BY <2>1, <2>2, RangeAssumption DEF AskedOK, Inserted
  <1>3. CASE OtherStep
    <2>1. [Next]_vars
      BY StoreStep
    <2>2. asked' = [w \in Worker |-> IF pc'[w] = "idle" THEN None ELSE asked[w]]
      BY <1>3 DEF OtherStep
    <2>3. ASSUME NEW w \in Worker, asked'[w] \in Asked
          PROVE  /\ pc'[w] \in {"getList", "getRead"}
                 /\ Inserted(obj[w])'
                 /\ files'[obj'[w]].bucket = at'[w]
      <3>1. asked[w] \in Asked /\ pc'[w] # "idle"
        BY <2>2, <2>3, RangeAssumption
      <3>2. pc[w] \in {"getList", "getRead"} /\ obj[w] \in File
        BY <3>1 DEF AskedOK, TypeOK, LocalTypeOK, HasFile
      <3>3. pc'[w] \in {"getList", "getRead"} /\ obj'[w] = obj[w] /\ at'[w] = at[w]
        BY <2>1, <3>1, <3>2, ReadingGoesOn DEF ReadsOn
      <3>4. Kept(obj[w])
        BY <3>2, RowsKept
      <3> QED
        BY <3>1, <3>2, <3>3, <3>4 DEF AskedOK, Kept, Inserted
    <2> QED
      BY <2>2, <2>3 DEF AskedOK
  <1>4. CASE UNCHANGED rvars
    BY <1>4 DEF rvars, vars, AskedOK, Inserted
  <1> QED
    BY <1>1, <1>2, <1>3, <1>4 DEF RNext

\* The step that sends a range reply.
LEMMA ReplyInRange ==
    ASSUME TypeOK, AskedOK, NEW w \in Worker, RangeReply(w) \/ RangeReplyError(w)
    PROVE  RangeOfVersion' /\ RangeOfNewest'
  <1> DEFINE f == obj[w]
  <1>1. /\ asked[w] \in Asked
        /\ f \in File /\ Inserted(f) /\ files[f].bucket = at[w]
        /\ files' = files
        /\ reply'.asked = asked[w] /\ reply'.data = f
    BY DEF RangeReply, RangeReplyError, DataRead, Reply, GetReply, GetAgainError, store,
           AskedOK, TypeOK, LocalTypeOK, HasFile
  <1>2. CASE RangeReplyError(w)
    <2>1. reply'.head = None /\ faults' > 0
      BY <1>2 DEF RangeReplyError, Reply, GetAgainError, Fault, TypeOK
    <2> QED
      BY <2>1 DEF RangeOfVersion, RangeOfNewest
  <1>3. Gone(f) \/ f \in Versions(at[w], files[f].key)
    BY <1>1 DEF Gone, Versions, Inserted, LiveFile
  <1>4. ASSUME NoSecondRow(w), reply'.head = None PROVE RangeOfVersion' /\ RangeOfNewest'
    <2>1. Gone(f)
      BY <1>1, <1>3, <1>4 DEF NoSecondRow
    <2>2. RangeOfVersion'
      BY <2>1, <1>1, <1>4 DEF RangeOfVersion, Gone
    <2>3. ASSUME asked[w] = "newest"
          PROVE  Versions(files[reply.data].bucket, files[reply.data].key)' = {}
      <3>1. Versions(files[f].bucket, files[f].key) = {}
        BY <1>1, <1>4, <2>3 DEF NoSecondRow
      <3> QED
        BY <3>1, <1>1 DEF Versions, LiveFile
    <2>4. "newest" # "version"
      OBVIOUS
    <2>5. RangeOfNewest'
      BY <2>3, <1>1, <1>4 DEF RangeOfNewest
    <2> QED
      BY <2>2, <2>5
  <1>5. ASSUME NEW g \in SecondLookup(w), reply'.head = g
        PROVE  RangeOfVersion' /\ RangeOfNewest'
    <2>1. asked[w] = "version" => g = f
      BY <1>5 DEF SecondLookup
    <2>2. ASSUME asked[w] # "version", ~Gone(f), g # f
          PROVE  files[g].created >= files[f].created
      <3>1. g \in Latest(at[w], files[f].key) /\ g \in File
        BY <1>5, <2>2 DEF SecondLookup, Latest, Versions
      <3>2. files[f].created <= files[g].created
        BY <1>3, <2>2, <3>1 DEF Latest
      <3>3. files[f].created \in Nat /\ files[g].created \in Nat
        BY <1>1, <3>1 DEF TypeOK, StoreTypeOK, FileRow
      <3> QED
        BY <3>2, <3>3
    <2>3. asked[w] # "version" => asked[w] = "newest"
      BY <1>1 DEF Asked
    <2>4. g \in File
      BY <1>1, <1>5 DEF SecondLookup, Latest, Versions
    <2>5. g # None
      BY <2>4, NoneAssumption
    <2>6. RangeOfVersion'
      BY <1>1, <1>5, <2>1 DEF RangeOfVersion
    <2>7. f = g => files[g].created >= files[f].created
      BY <1>1 DEF TypeOK, StoreTypeOK, FileRow
    <2>8. RangeOfNewest'
      BY <1>1, <1>5, <2>2, <2>5, <2>7 DEF RangeOfNewest, Gone
    <2> QED
      BY <2>6, <2>8
  <1>6. CASE RangeReply(w)
    <2>1. \/ \E g \in SecondLookup(w) : reply'.head = g
          \/ NoSecondRow(w) /\ reply'.head = None
      BY <1>6 DEF RangeReply, Reply
    <2> QED
      BY <2>1, <1>4, <1>5
  <1> QED
    BY <1>2, <1>6

LEMMA RNextInv == RInv /\ [RNext]_rvars => RInv'
  <1> SUFFICES ASSUME RInv, [RNext]_rvars PROVE RInv'
    OBVIOUS
  <1> USE DEF RInv
  <1>1. IndInv' /\ [Next]_vars
    BY StoreStep, NextInv
  <1>2. TypeOK /\ FileInv
    BY DEF IndInv
  <1>3. FileMoves
    BY <1>1, <1>2, StepMoves
  <1>4. AskedOK'
    BY <1>2, <1>3, AskedKept
  <1>5. ASSUME NEW w \in Worker, RangeReply(w) \/ RangeReplyError(w)
        PROVE  RangeOfVersion' /\ RangeOfNewest'
    BY <1>2, <1>5, ReplyInRange
  <1>6. ASSUME reply' = None PROVE RangeOfVersion' /\ RangeOfNewest'
    BY <1>6 DEF RangeOfVersion, RangeOfNewest
  <1>7. ASSUME UNCHANGED rvars PROVE RangeOfVersion' /\ RangeOfNewest'
    BY <1>7 DEF rvars, vars, RangeOfVersion, RangeOfNewest, Gone, Versions, LiveFile
  <1>8. RangeOfVersion' /\ RangeOfNewest'
    BY <1>5, <1>6, <1>7 DEF RNext, RangeBegin, RangeOutside, OtherStep
  <1> QED
    BY <1>1, <1>4, <1>8

LEMMA RInvariance == RSpec => []RInv
  BY RInitInv, RNextInv, PTL DEF RSpec

\* The headers of a range of a named version are that version's own, or the
\* version was deleted, or a call failed.
THEOREM RangeVersion == RSpec => []RangeOfVersion
  <1>1. RInv => RangeOfVersion
    BY DEF RInv
  <1> QED
    BY <1>1, RInvariance, PTL

\* As long as the version the data was read from is live, the headers of a
\* range of the newest version are not those of a version it replaced; a 500
\* means that no version is left, or that a call failed.
THEOREM RangeNewest == RSpec => []RangeOfNewest
  <1>1. RInv => RangeOfNewest
    BY DEF RInv
  <1> QED
    BY <1>1, RInvariance, PTL
=============================================================================
