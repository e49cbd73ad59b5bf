# TLA+ models of the distributed file storage service

These modules model the core of `distributed-file-storage-service` (Go): the
object store behind the S3-like API, its erasure-coded download path, the file
store under it, multipart uploads, users and their sessions, and the life of the
server's processes from start to shutdown. TLC checks them on small instances;
TLAPS proves every one of the safety properties the passing runs check, for
every instance.
Paths are relative to the repository root. As committed, two files end in a
stray `# ...` line (`src/infrastructure/storage/chunking.go:175`,
`src/api/handlers/bucket.go:167`), `core/file_service.go:78,82` returns an
error code where an error is expected, and `api` and `api/handlers` import each
other; the models take those lines for what they plainly mean.

## 1. Inventory

| Part | State it keeps | Operations | Talks to |
|---|---|---|---|
| Catalog (`infrastructure/database/postgres.go`, `repositories.go`) | tables `buckets`, `files`, `file_chunks` (users, policies, audit log) | one SQL statement per repository method; `WithTransaction` exists and has no caller | PostgreSQL |
| FileService (`core/file_service.go`) | none of its own; each request holds local copies of rows | PutObject, GetObject, GetObjectRange, DeleteObject, multipart calls, CleanupExpiredObjects | Catalog, DiskStore, chunker, codec, replicator |
| BucketService (`core/bucket_service.go`) | none | CreateBucket, DeleteBucket, UpdateBucketVersioning, reads | Catalog |
| Chunker, codec (`storage/chunking.go`, `erasure.go`) | none (pure) | Split, Merge, Encode, Decode | - |
| DiskStore (`storage/disk.go`) | files below the data and the temporary directory | Write (temp file, fsync, rename or copyFile), Read, Delete | file system |
| Multipart (`core/file_service.go:325-428`) | files `multipart/<upload>/<n>`; the records are stubs | Start, UploadPart, Complete, Abort | DiskStore, PutObject |
| Replicator (`storage/replication.go`) | none | Replicate | DiskStores; `main.go:55` gives it one, for which it only creates directories |
| HTTP router, middleware, handlers (`api/`) | the gauge of active requests | rate limit, recovery, logging, CORS, metrics, authentication; decoding, ranges, status codes | services |
| Users and sessions (`infrastructure/auth/jwt.go`, `api/handlers/auth.go`) | rows of users; a session is only in its client's tokens | Login, Refresh, Logout, CreateUser | Catalog |
| RBAC (`infrastructure/auth/rbac.go`) | - | policy evaluation, which nothing calls | - |
| Migrations and seed (`database/postgres.go`) | the schema, the admin and the default policy | RunMigrations, seedDefaultData, at every start | PostgreSQL |
| main (`cmd/server/main.go`) | the listener, the database pool | start, signal, shutdown | everything |
| Config, health, metrics counters | read once; nothing; only added to | - | - |

How it runs. Every HTTP request is a goroutine, and the Kubernetes manifest runs
three replicas, so requests interleave at every database and disk call. Nothing
locks a bucket, a key or a file and no two statements share a transaction: a
process that dies, or a call that fails, leaves what was done before it. Nothing
is retried and nothing repairs on restart. Each service reads a bucket row,
works, and writes the *whole* row back.

What is hard, and what makes each part correct:

- **FileService**: data on disk before the row is visible; an acknowledged upload
  complete; a row's size taken off its bucket once, though several deletes and
  the sweep may race; the quota holding although checks use stale copies; a
  download seeing all shards or none; every request ending.
- **BucketService**: lookup then insert, count then delete, read then write.
  Names unique, deleted buckets empty and frozen, versioning kept.
- **Codec and download**: short, full and over-long stripes, lost shards, padding,
  ranges at the ends, open and overflowing; the client never getting wrong bytes
  as a complete answer.
- **DiskStore**: concurrent writers, readers and deletes of one key, errors and
  deaths half way, a rename that works or does not; temporary files removed.
- **Multipart**: parts sent again, in any order, while being joined, and copied
  in place where they cannot be renamed; abort.
- **Users**: a pair of tokens signed by one replica and validated by others,
  whose clocks differ; claims copied from one pair to the next without a look at
  the row; the UNIQUE columns of the table.
- **Start, middleware, shutdown**: several replicas migrating and seeding one
  database, dying half way and starting again; the gauge and panics; the
  database closed while requests run; an end although clients stall.

The hazards, line by line, with the properties that cover them, are under
`hazards` in `PROJECT.json`.

## 2. Modules

```
Layout -> Catalog -> Request -> FileService, BucketService -> ObjectStore
          ObjectStore -> Accounting, ObjectStoreInv -> AccountingInv -> MCObjectStore
          Accounting INSTANCEs AtomicStore
          ObjectStore -> RangeRead, with ObjectStoreInv -> MCRangeRead
          ObjectStoreInv -> ObjectStoreSafety ; RangeRead, ObjectStoreSafety -> RangeReadSafety   (proofs)
          AccountingInv, ObjectStoreSafety -> AccountingSafety                  (proofs)
Layout -> ErasureCodec -> Download -> MCDownload ; Download -> DownloadSafety        (proofs)
FileBlocks -> DiskStore -> MCDiskStore ; DiskStore INSTANCEs AtomicFile ; DiskStore -> DiskStoreAtomic   (proofs)
FileBlocks -> Multipart -> MCMultipart ; Multipart -> MultipartSafety                (proofs)
Startup -> Middleware -> Shutdown -> Server ; Server -> ServerSafety                 (proofs)
Users -> MCUsers ; Users -> UsersSafety                                              (proofs)
```

**Layout** - which chunk indexes a body of n bytes gets (`Split`, `Encode`).

**Catalog** - the three tables and one operator per SQL statement the services
use. A UUID is a member of `Bucket` or `File` not drawn yet. `UNIQUE(name,
deleted_at)` restricts nothing, since live rows hold NULL there. `ListExpired`
has a LIMIT and no ORDER BY: it may return any that many expired versions.

**Request** - the workers: `pc`, and a request's local variables (`at` bucket id,
`obj` file, `todo` rest of the loop, `snap` copy of a bucket row); failing calls
and dying processes, both bounded.

**FileService** - one action per database or disk call, each with its failure; an
error may come before a statement took effect or after:

| Code | Actions |
|---|---|
| `PutObject` 64-192 | `PutBegin` (read bucket) `PutRefuse`/`PutBodyError`/`PutPrepare` (body, checks against the copy, ids) `PutWrite` per shard, `PutRow`, `PutChunk` per row (failure only warned about), `PutCount` (write the copy back; failure ignored) |
| `GetObject` 194-248 | `GetBegin` `GetList` `GetRead` per shard `GetReply`, `GetNoChunks`, `GetReadError` |
| `DeleteObject` 277-319 | `DeleteBegin` `DeleteList` `DeleteDisk` per shard `DeleteRow` (affected-rows check) `DeleteBucketRead` `DeleteCount`, and their errors |
| `CleanupExpiredObjects` 430-450 | `CleanBegin` (list), `CleanOne` per file, `CleanEnd` |

`created_at` is the order in which the stamps are taken, as if the replicas'
clocks agreed. The sweep has no caller in the repository and `Put` passes no ttl
(`api/handlers/file.go:49`); both are modelled since they are exported
operations. Audit entries, metrics and the one-store `Replicate` change no
modelled state.

**BucketService** - Create (lookup, insert), Delete (read, count, soft delete),
UpdateBucketVersioning (read, write back).

**ObjectStore** - composes the two over all workers, with `Lost` (the process of
a worker dies) and `Expire` (time passes); the type invariant and the properties
that hold under concurrency and failure. **Accounting** - the promises that need
requests to come one at a time; `VersionsStack` says what successive versions of
a key are worth to their reader. The bytes a bucket stores are counted as the
size of a set, one element per byte of a live version, so that sums are sizes of
unions. **AtomicStore** - what a client would like of the service: buckets that
hold versions, without rows, counters, chunks or files, on which each request
takes effect at one moment or not at all. Accounting maps the live rows to it:
a request takes effect when its INSERT or UPDATE of `files` or `buckets` does,
and writing the counters is not seen. **ObjectStoreInv**, **AccountingInv** - the inductive invariants of the
two, and the circumstances Accounting's promises need.

**RangeRead** - ObjectStore refined by what a range download remembers:
`GetObjectRange` reads the object as GetObject does and then looks the row up a
second time, ignoring the error (`file_service.go:271`), and the handler takes
its headers from that second row. An offset outside the data is refused before
that lookup (`RangeOutside`). `asked` says whether the request named a
version, `reply` is what the last step sent. Each of its steps is a step of
ObjectStore, which is proved, so the store's theorems hold of it; the run checks
both together.

**ErasureCodec** - `Encode` and `Decode` on bytes, with the coefficient
arithmetic modulo 256 the code uses (no Galois field), and Decode's use of the
first parity shard alone. **Download** - a stored object whose shards lose rows
or files, `GetObject`, `GetObjectRange`, the handler's `Range` parsing, and
net/http's enforcement of `Content-Length` (modelled from how the handler uses it).
Ranges are closed or open (`bytes=a-`), their numbers below, inside and beyond
the object; `offset + length` is an int64 sum (`Wrap`, with `MaxInt` the largest
int64), which overflows for an end near that: the slice then panics, and the
client gets 500.

**DiskStore** - one key: `Write` with its temporary file as an inode, every
error exit, the rename or, when it fails, `copyFile` block by block, `Read`
through an open descriptor, `Delete`, and the death of a process. Whether a
rename works is open at each move: all of them fail where the temporary and the
data directory are on two file systems (the configured defaults are
`/data/storage` and `/tmp/filestore`, and in the Kubernetes deployment only the
first is a volume), and elsewhere one may. **AtomicFile** - what a caller would
like: a write lands at once or not at all, a read returns what one write stored.
**FileBlocks** - what a file holds that several copies write in place.

**Multipart** - the part files and the four calls. `renames`, fixed by the
deployment, says whether a part is renamed into place (`PartRename`) or copied
(`PartCreate` truncates the part's file, `PartBlock` writes one buffer,
`PartDone` answers), under other calls that truncate, write and read the same
file; a call that fails or dies leaves the file as it is then. A Complete opens
and reads the parts of its list block by block. A file that was renamed into
place is never written again, so an open read of it is taken as one step, as is
the temporary file. Lists of a Complete are arbitrary: any numbers, any ETags.
The bucket and key that Complete passes to `PutObject` come from its own request
and are left out. An abort removes nothing and records nothing because
`listParts` and `deleteUpload` are stubs, so `AbortMultipartUpload` changes no
state.

**Startup** - main of each replica up to the listener: connecting or running in
limited mode, one step per migration and per seeding statement, each with its
failure, which main only logs. **Middleware** - requests in the chain `NewRouter`
builds, as a number of database calls, with the gauge, the preflight answered
outside the metrics, errors, clients too slow for the server's `ReadTimeout` or
`WriteTimeout` (`TimeOut`), and the three ways to panic: no database, a range
download whose last lookup finds no row, and one whose last lookup fails.
**Shutdown** - the signal, `db.Close`, `srv.Shutdown` with its timeout, return,
and death at any point, after which the cluster starts the replica again.
**Server** composes the three over one database (`Main` is what a replica's main
does by itself); `database/sql` and `net/http` are modelled from how main uses
them. A seed row once there is never removed, as no route removes users or
policies.

**Users** - the users table and the handlers of `api/handlers/auth.go` with the
token functions they call; one tick is the second that token dates are cut to,
and each replica's clock is ahead of true time by a fixed `skew` of its own.
Passwords and signatures are taken to work: what is modelled of them is that
anything else is refused. A client uses each token of its pair for what it was
given; the server could not tell them apart. `Policies` of the claims is never
loaded by a query and left out. ids are drawn unused.

Definitions headed "Mutated form of X" are plausible bugs of X, never used by
the specifications: each property is known to fail when its mutant replaces X.

## 3. Runs

| Run | Instance | Checks | Distinct states |
|---|---|---|---|
| Concurrent | 2 workers, 2 versions, 1 bucket without a quota or with one of one object, create/put/whole and range download/delete, 1 failed call, 1 death | `TypeOK`, `IndInv`, `DurableBeforeVisible`, `AckedIsComplete`, `RecordedWithinQuota`, `RangeOfVersion`, `RangeOfNewest` | 1.15 M |
| Sequential | 1 worker, 3 versions, 2 buckets, 2 keys, sizes 0-3 with limit 2, 2+1 code, no failures | `CountersExact`, `StoredWithinQuota`, `LiveNamesUnique`, `DeletedBucketEmpty`, `NoOrphanShards`, `VersioningSticks`, `VersionsStack`, `WholeReads`, `ServesAtomically` | 709 k |
| Liveness | 2 workers, all seven operations on one bucket (created and removed again) and one version that expires, 1 failed call, 1 death | `RequestsAnswered`, `DeletedBucketFrozen`, `RefundedOnce` | 337 k |
| Codec | 2+2 code, chunk size 2, bodies of length 1, 3, 5 over {1, 200} whose bytes never decrease, up to 2 shards lost by row or by file, ranges from below the first to beyond the last byte and up to the largest int64 (9) | `IntactDownload`, `DataComesFirst`, `RangeExact` | 39 k |
| Disk | 2 writers, 2 readers, files of different lengths, each rename working or not, 1 failed call, 1 death | `PlacedIsWhole`, `ReturnedIsWhole`, `TempsReclaimed`, `AtomicWhileRenamed` | 181 k |
| Parts | 2 workers, 2 uploads of 2 parts, 2 bodies of 2 buffers, 2 different bodies sent (each any number of times), lists up to 2, renamed or copied, 1 failed call or death | `OwnPartsOnly`, `SettledIsExact` | 1.84 M |
| Stop | 2 replicas, 2 migrations, 2 requests of up to 1 database call, one of them a range download, 1 failure, 1 death | `ServerTypeOK`, `HealthyUntilClosed`, `HalfSeededByAccident`, `StopsAfterSignal`, `SeedFinished` | 562 k |
| Sessions | 2 clients, 2 replicas one tick apart, 3 user ids, 2 names and addresses, lifetimes 2 and 4, 6 ticks, 1 failed statement | `UsersTypeOK`, `ClaimsCurrent`, `SessionKept` | 109 k |

and four runs in which TLC refutes what the repository says of itself
(`findings` in `PROJECT.json`):

| Run | Property | What happens |
|---|---|---|
| QuotaRace | `StoredWithinQuota` | two uploads that each fit are checked against the same copy of the row, both are stored, and the second write-back counts one of them |
| LongFile | `DownloadReturnsUpload` | the codec makes one stripe of DataShards chunks and drops the rest; the round trip of `tests/integration/api_test.go` |
| ShortFile | `DownloadReturnsUpload` | the Quick Start of the README: ten bytes under the 4+2 code come back as an empty 200, as Decode makes up the data shards that a short object lacks and the Write then exceeds Content-Length |
| SecondUser | `ConflictIsOfNames` | CreateUser sets no access key and the column is UNIQUE: the second user is refused with "username or email already exists" whatever it is called |

Why the bounds are enough to be interesting. Two workers give every pairwise
race; a quota of one object is full after one upload; in Concurrent a version
may be half written, visible, being deleted and refunded, while the other worker
does any of these, and one failure and one death hit any step of either. Two
versions allow two uploads of one key. In Sequential the sizes lie below, at and
above the file limit and the quota, and short and over-long stripes occur. In
Codec the byte 200 makes products wrap modulo 256; bodies are shorter than the
stripe, fill it with a short last chunk, and are longer. In Parts two buffers let
two copies of one part mix, and two different bodies are two parts, or one part
with two bodies, or one part of two uploads. Workers, files, uploads, bodies and
part-upload clients are interchangeable, and so are the replicas, clients and
created ids of Sessions; symmetry is used where no liveness is checked (Codec,
DiskStore and Stop use none). Without a quota two versions stand side by side,
and a newer one may appear between the two lookups of a range. In Stop two
migrations let a replica die between them while the other seeds, and one call is
a plain request's only and a range's last. In Sessions a pair can be refreshed,
outlive its access token, and run out on the replica whose clock is ahead.
Bounds in guards: `MaxFaults`, `MaxCrashes`, `MaxDeaths`, `MaxLost`, `MaxSent`,
`MaxCalls`, `MaxTime`, and the number of unused ids (`FileIdsLeft`,
`BucketIdsLeft`, and of users); the lists a Complete is sent (`Lists`) and the
numbers in a Range header (`Offset`) are small sets. The sweep's `LIMIT 1000` is
the constant `CleanupLimit`, 1 in the runs. Stop turns deadlock checking
off: a process really ends there.

Fairness. `FairSpec` gives weak fairness to each worker's `Step`: a goroutine
in a handler is scheduled and its calls return or fail; clients, failures and
deaths promise nothing. Every loop runs over a fixed list, hence the weak form.
`HSpec` gives weak fairness to each replica's main, which the cluster starts when
it is down, and to its timer; none to requests, which may stall on their client
for ever, and none to signals, which need not come.

Related behaviour the models reach, for which no run is kept: a GET between a
file row and its `file_chunks` rows decodes some of the shards
(`file_service.go:154-177`), so `WholeReads` is checked of requests that come
one at a time only; a range download panics, and is answered 500, when its
object goes or a statement fails before its second lookup (271), or when its end
overflows (266), and in limited mode every request that needs the database does;
each panic stays counted in `http_requests_active` (`prometheus.go:200-202`),
whose help text (76) says "Number of active HTTP requests"; when the version
whose data a range download has read is deleted before the second lookup, the
reply carries the headers of the next older version; a lost shard makes
GetObject fail or rebuild wrong bytes, although the README (56) promises that
"even if 2 disks fail, your data is fully recoverable"; a part sent with two
bodies may mix blocks of both where it is copied in place; two CreateBucket
calls with one name both succeed (`bucket_service.go:48-72`); an upload lands in
a bucket between DeleteBucket's count and its soft delete (102-113), or writes
an old versioning setting back over an update (`file_service.go:67,179`); DELETE
of a key stored twice uncovers the older version (280); `bytes=0-0` returns
everything (`handlers/file.go:98`); Complete works after Abort; `db.Close`
before `srv.Shutdown` fails requests in flight (`main.go:112-116`). The passing
properties are worded so as to say precisely what holds in spite of these.

## 4. Proofs

All theorems hold for every value of the constants allowed by the named
assumptions (`LayoutAssumption`, `NoneAssumption`, `RequestAssumption`,
`FileAssumption`, `QuotaAssumption`, `ExistingAssumption`, `RangeAssumption`;
`DiskAssumption`; `MultipartAssumption`; `StartupAssumption` and
`MiddlewareAssumption`; `UsersAssumption` and `RowAssumption`; `BodyAssumption`):
any number of workers, buckets, files and shards, of replicas, migrations,
clients and users, any bodies and chunk size, any number of failed calls and
deaths.

| Theorem | Module | Says |
|---|---|---|
| `TypeCorrect` | ObjectStoreSafety | `Spec => []TypeOK` |
| `Invariance` | ObjectStoreSafety | `Spec => []IndInv` |
| `Durability`, `Completeness`, `RecordedQuota`, `SingleRefund` | ObjectStoreSafety | the four safety invariants of ObjectStore |
| `FrozenBuckets` | ObjectStoreSafety | `DeletedBucketFrozen`, a property of steps |
| `RequestsOnlyAdvance` | ObjectStoreSafety | no step takes a request back, each of its own takes it on: `RequestsAnswered` but for fairness |
| `Placement` | DiskStoreAtomic | `DiskSpec => []PlacedIsWhole` |
| `Atomicity`, `AtomicOnOneDevice` | DiskStoreAtomic | `DiskSpec => AtomicWhileRenamed`, and `DiskSpec /\ []NoCopy => Atomic!ASpec`: DiskStore implements AtomicFile up to the first rename that fails |
| `Returned` | DiskStoreAtomic | `DiskSpec => []ReturnedIsWhole`, renamed or copied |
| `Reclaimed` | DiskStoreAtomic | `DiskSpec => []TempsReclaimed` |
| `DeletedIsEmpty`, `VersioningKept` | AccountingSafety | `DeletedBucketEmpty` and `VersioningSticks` when requests come one at a time |
| `StackKept` | AccountingSafety | `VersionsStack` when, besides, nothing is swept |
| `NamesUnique` | AccountingSafety | `LiveNamesUnique` when requests come one at a time and no call fails |
| `ReadsAreWhole` | AccountingSafety | `WholeReads` when, besides, no request is lost |
| `ExactCounters`, `StoredQuota`, `NothingOrphaned` | AccountingSafety | `CountersExact`, `StoredWithinQuota`, `NoOrphanShards` when, besides, nothing is swept |
| `Serves` | AccountingSafety | `ServesAtomically` in the same circumstances: ObjectStore implements AtomicStore |
| `Sequential` | AccountingSafety | with at most one worker, no budget for failures and no sweep, every behaviour is like that: all nine properties hold |
| `RangeReadIsStore` | RangeReadSafety | `RSpec => Spec`: range downloads change nothing the store promises |
| `RangeVersion`, `RangeNewest` | RangeReadSafety | whose headers a range reply may carry |
| `OwnParts`, `SettledExact` | MultipartSafety | what an assembled object is made of, renamed or copied, and when it is exactly what was listed |
| `ServerTyped`, `Healthy`, `HalfSeeded` | ServerSafety | the three invariants of Server |
| `HalfSeededForever` | ServerSafety | `HSpec => [](HalfSeed => []HalfSeed)`: no restart completes a seeding that was left half done |
| `MainOnlyAdvances` | ServerSafety | only its death takes a process back, each step of main takes it on |
| `UsersTyped`, `ClaimsStayCurrent`, `SessionsKept` | UsersSafety | the three invariants of Users |
| `EncodedShards`, `DecodeOfIntactData`, `FullStripeRoundTrip` | DownloadSafety | the codec: which shards a body gets and of what length; what Decode makes of them with every data shard at hand; `Decode(Encode(Split(b))) = b` for a full stripe |
| `DownloadSafe`, `IntactDownloads`, `DataFirst`, `RangesExact` | DownloadSafety | the three invariants of Download, for every body, code and chunk size |

The argument. None of the safety invariants is inductive. `IndInv` adds what is
true half way through a request:

- `WritingOK`: an upload that is writing owns its file id alone and the shards
  it is past are on disk. Without it `PutRow` could publish a file with a gap.
- `DeletingOK`: a delete that is removing shards has marked its version in
  `picked`, so it cannot disturb an unpicked one.
- `RecordingOK`: while chunk rows are inserted, each shard is recorded or still
  to do as long as no call has failed.
- `SnapshotsOK`: every copy of a bucket row is within its limit, and stays so
  with the new object added: why stale copies cannot break the recorded quota.

`RefundedOnce` holds because only the request whose `SoftDelete` affects the row
goes on, and no action makes a deleted row live again. The proof has a lemma per
kind of step and, under it, one step per action. For `Atomicity` the mapping
takes the key's value to be the writer whose inode is linked, a write's linear
point to be the rename, and a read's to be its open; `PlacedIsWhole` says that
such an inode is never written again as long as no copyFile has begun (`NoCopy`),
and a copyFile that began is not forgotten, so each step before the first has
`NoCopy` on both sides.

`RInv` (range downloads) adds `AskedOK`, that the version being read has a row
in the bucket asked of. With `StampsOK` of `IndInv`, that no two files have one
stamp and none is later than the clock's, the second lookup's newest row is the
first one's, a later one, or evidence that the first was deleted in between: then
it may be any, an older one included, and `RangeOfNewest` says so.

`MInv` (multipart) holds under copies in place. `JobsOK` and `PartsOK` say that
each buffer in a part's file, and in what a Complete has read of it, is the
buffer of that place of some body sent for that part, or the hole that an
earlier truncation left before it: `OwnPartsOnly`. `HealthOK` is why a part can
be whole at all: of a part for which only one body was ever sent, the file holds
all of it, or a call still running has written its buffers right so far, or the
part is known to be broken, since the last call to truncate it broke off.
`SteadyOK` carries a Complete that began when nobody was writing its parts: they
stay settled while it reads, and what it has read is exact, which gives
`SettledIsExact`.

`ServerInv` ties each phase of main to what it has done: `BootOK` says that the
tables of the migrations a process has run exist, and that without a failure all
do once it has left `migrating`, whoever created them. `RequestsOK` says that a
running request has a living process. `GaugeOK` makes the gauge the size of a
finite set of requests, one of which joins or leaves it at a step: only so is it
a number that never goes below zero, as the type invariant says.

`UInv` (users) remembers that both tokens of a pair were signed at one time by
one clock (`DatesOK`), so every other clock's view of them follows by
arithmetic.

`CopiedOK` (copyFile) says of the one write that is past its rename which blocks
of the file it has copied, as long as it is alone; a second write or a delete
ends the claim, not the invariant. `Made` says what an earlier write may have
left there, renamed or copied.

The promises of **Accounting** are broken by races (QuotaRace is one), so each
theorem has its circumstances as a hypothesis on the whole behaviour,
`Spec /\ []C => []P`, with as little in `C` as the proof needs:

- `OneAtATime`: no two requests overlap. There may be any number of workers and
  failed or lost requests before.
- `NoneFailed`: a lookup that fails is taken for a free name, so `NamesUnique`
  needs it. A lost request does it no harm.
- `Unharmed`: nothing failed and no request was lost, as either may leave shards,
  missing chunk rows or uncounted versions behind.
- `Unswept`: the sweep takes rows off the table and neither shards off the disk
  nor sizes off the bucket, and takes a version from the middle of the stack.

`SerialInv` needs only the first: the row a request holds is still the row in
the table, a version chosen for deletion is still the newest, the version being
built has the latest stamp, a bucket about to be removed is still empty. That
makes the write-back of a stale copy harmless. On top of it `RowsInv` says that
each row has all its chunk rows but for the upload that is adding them;
`CountInv` that a bucket's counters are off by exactly the version whose row was
just inserted or marked, and by nothing in any other bucket, so that a refund is
never clamped at zero; `DiskInv` that what is on disk differs from what the live
versions need only for the file whose shards are being written (by those still
to do) or removed. For `Serves` each of them pays for one guard of AtomicStore:
`NamesInv` for the free name of a new bucket, `SerialInv` for the live bucket, the
top of the stack and the empty bucket, `CountInv` with `SnapshotsOK` for the room,
and `BuiltOK` (whatever races and fails, a file was accepted by PutObject and a
new bucket is as CreateBucket built it) for the shape of what appears. All six were model-checked on the instance of Sequential
before they were proved. Sizes of sets come from the library's
`FiniteSetTheorems`. `Sequential` then discharges the hypotheses for the
constants of the run, with any versions, buckets, names, sizes, limits and shard
counts in place of its three versions and two buckets.

`DownloadInv` is what the Codec run checks plus `StoreInv`, that what is on disk
is what Encode made of the body, less what was lost; the work is in the codec.
`Decode` concatenates one piece per data shard by recursion (`FlattenSeq`), so
`Concatenates(f, P, m)` names the function it recurses on, and what holds of
`f[i]` is proved by induction on i. The library's induction theorems take an
operator, which the provers cannot instantiate; `Induction` is the same for a
*set* of numbers, from the library's least element of a well-founded order
(`WFMin`), and each use defines the set of numbers for which its claim holds.
In this way `ConcatenatedChunks` shows that the first i chunks concatenate to
the first i * ChunkSize bytes of the body, and `ConcatenationGrows` that what is
appended later leaves those in front, whatever it is. With every data shard at
hand the result is therefore the stripe of a body that fills it. A short body
leaves data shards out; the first of them is made up from the first parity shard
(`FirstMissing`), which has at least one byte, so the result is longer than the
announced length and net/http refuses it. The values of the parity bytes never
matter to this, only their number: what `Decode` recovers of a *lost* data shard
is promised by no property here, as the modulo-256 arithmetic and the use of the
first parity shard alone make it wrong in general.

`RequestsAdvance` orders the labels of each operation by `Stage`: a step of a
request goes to a later one, takes an item off its loop, or answers.
`MainAdvance` does the same for main with `PhaseStage` and the migrations
applied. Both were checked by TLC on the instances of Liveness and Stop before
they were proved.

Only model-checked: the liveness properties (`RequestsAnswered`,
`StopsAfterSignal`, `SeedFinished`), since fairness and ENABLED are out of the
prover's reach; the theorems just named prove the rest of what they rest on.

## 5. Not modelled

- The RBAC engine and policies beyond the seeded row: no route and no service
  asks the engine anything (`WithAuth` holds it and looks at the token only), so
  the server has no behaviour of theirs to model.
- The audit log: its errors are ignored and nothing reads it back.
- `Replicate` with several stores, verification and repair: main passes one
  store, for which it only makes directories.
- Health endpoints, configuration loading, and the counters and histograms that
  are only added to. The rate limiter is a middleware that calls the next
  handler and limits nothing.
- `ListUsers` and the other calls that only read rows; bucket policies, which
  are not routed.
- Passwords and signatures, which are taken to work; loss of power (fsync of the
  directory); in Multipart, a rename that fails on one device now and then
  (DiskStore has it); object names, metadata, checksums and ETags beyond identity.

## 6. Plan

Done: the object store with range downloads, codec, disk store, multipart, the
server's life, users and sessions, and the proofs above: every invariant and
every property of steps that a passing run checks has its theorem, and so have
both refinements. What is left:

- A Replicator over several stores as a component of its own, should main ever be
  given more than one: `byteReader.Read` (`replication.go:90`) never reports the
  end of its data, so its copy would not end.
