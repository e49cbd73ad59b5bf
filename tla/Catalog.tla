------------------------------ MODULE Catalog -------------------------------
(***************************************************************************)
(* The PostgreSQL tables buckets, files and file_chunks, and the           *)
(* statements the repositories run on them.  One statement is atomic; two  *)
(* statements of one request are not, because no caller uses               *)
(* WithTransaction.                                                        *)
(*                                                                         *)
(* Identifiers are UUIDs drawn by the services.  A member of Bucket or     *)
(* File whose state is "absent" or "unused" has not been drawn yet.        *)
(***************************************************************************)
EXTENDS Layout, FiniteSets

CONSTANTS Bucket,   \* bucket UUIDs
          File,     \* file UUIDs (one per stored version of an object)
          Name,     \* bucket names that pass ValidateBucketName
          Key,      \* object keys
          None      \* the NULL / nil value

ASSUME NoneAssumption == None \notin Bucket \cup File \cup Name \cup Key

VARIABLES buckets,    \* table buckets
          files,      \* table files, and the FileInfo structs not yet inserted
          chunkRows   \* table file_chunks: the chunk indexes recorded per file

Versioning == {"disabled", "enabled", "suspended"}

\* deleted_at IS NULL <=> state = "live".
BucketRow ==
    [state      : {"absent", "live", "deleted"},
     name       : Name \cup {None},
     versioning : Versioning,
     max        : Int,
     cur        : Nat,
     count      : Nat]

\* "building": the struct exists in a PutObject call (or existed in one that
\* died) and its id names files on disk, but no row has been inserted.
\* "live" and "deleted" are rows of the table.  expiry follows expires_at:
\* NULL, in the future, or in the past.
FileRow ==
    [state   : {"unused", "building", "live", "deleted"},
     bucket  : Bucket \cup {None},
     key     : Key \cup {None},
     size    : Nat,
     created : Nat,
     expiry  : {"never", "pending", "passed"}]

AbsentBucket ==
    [state |-> "absent", name |-> None, versioning |-> "disabled",
     max |-> 0, cur |-> 0, count |-> 0]

UnusedFile ==
    [state |-> "unused", bucket |-> None, key |-> None, size |-> 0,
     created |-> 0, expiry |-> "never"]

\* The row CreateBucket builds.
NewBucket(n, m) ==
    [state |-> "live", name |-> n, versioning |-> "disabled",
     max |-> m, cur |-> 0, count |-> 0]

-----------------------------------------------------------------------------
(* Queries *)

LiveBucket(b) == buckets[b].state = "live"

\* BucketRepository.GetByName.
GetByName(n) == {b \in Bucket : LiveBucket(b) /\ buckets[b].name = n}

Inserted(f) == files[f].state \in {"live", "deleted"}

LiveFile(f) == files[f].state = "live"

\* The live versions of a key.  The state of the bucket is not consulted.
Versions(b, k) ==
    {f \in File : LiveFile(f) /\ files[f].bucket = b /\ files[f].key = k}

(* Mutated form of Latest: the order is ascending. *)
Oldest(b, k) ==
    {f \in Versions(b, k) :
        \A g \in Versions(b, k) : files[f].created <= files[g].created}

\* GetByBucketAndKey without a version id: ORDER BY created_at DESC LIMIT 1.
Latest(b, k) ==
    {f \in Versions(b, k) :
        \A g \in Versions(b, k) : files[g].created <= files[f].created}

\* CountByBucket(b) = 0.  A live row always has status 'active'.
BucketEmpty(b) == \A f \in File : ~(LiveFile(f) /\ files[f].bucket = b)

Expired == {f \in File : LiveFile(f) /\ files[f].expiry = "passed"}

\* FileRepository.ListExpired: LIMIT without ORDER BY, so any that many of the
\* expired files, or all of them when there are fewer.
ListExpired(limit) ==
    {listed \in SUBSET Expired :
        Cardinality(listed) = limit \/ (listed = Expired /\ Cardinality(listed) <= limit)}

-----------------------------------------------------------------------------
(* Statements *)

\* INSERT INTO buckets.  UNIQUE(name, deleted_at) never rejects a live row:
\* deleted_at is NULL in it, and NULLs are distinct in a UNIQUE constraint.
InsertBucket(b, row) == buckets' = [buckets EXCEPT ![b] = row]

(* Mutated form of UpdateBucket: the WHERE deleted_at IS NULL is forgotten. *)
UpdateBucketAlways(b, row) == buckets' = [buckets EXCEPT ![b] = row]

\* BucketRepository.Update writes every mutable column from the caller's copy
\* of the row, WHERE deleted_at IS NULL; on a deleted bucket it affects no row.
UpdateBucket(b, row) ==
    buckets' = IF LiveBucket(b)
               THEN [buckets EXCEPT ![b] =
                       [state |-> "live", name |-> buckets[b].name,
                        versioning |-> row.versioning, max |-> row.max,
                        cur |-> row.cur, count |-> row.count]]
               ELSE buckets

SoftDeleteBucket(b) == buckets' = [buckets EXCEPT ![b].state = "deleted"]

\* FileRepository.Create.  The foreign key asks for a row of buckets, deleted
\* or not; PutObject has read one.
InsertFile(f) == files' = [files EXCEPT ![f].state = "live"]

(* Mutated form of SoftDeleteFile: WHERE asks for the key, not the id. *)
SoftDeleteKey(f) ==
    files' = [g \in File |->
                IF g \in Versions(files[f].bucket, files[f].key)
                THEN [files[g] EXCEPT !.state = "deleted"] ELSE files[g]]

\* FileRepository.SoftDelete, when it affects a row.
SoftDeleteFile(f) == files' = [files EXCEPT ![f].state = "deleted"]

\* FileRepository.CreateChunk.
CreateChunk(f, s) ==
    chunkRows' = [chunkRows EXCEPT ![f] = @ \cup {s}]
=============================================================================
