---------------------------- MODULE AtomicStore -----------------------------
(***************************************************************************)
(* What a client would like of the storage service: each request takes     *)
(* effect at one moment or not at all, on buckets that hold versions of    *)
(* objects.  There are no rows, counters, chunks or files here.            *)
(***************************************************************************)
EXTENDS Integers, FiniteSets

CONSTANTS Bucket, Id, Name, Key,
          Quota,      \* limits a bucket can be created with; <= 0: none
          MaxSize     \* no version is larger

VARIABLES shelf,   \* each bucket: its state, name, versioning and limit
          held     \* the versions that can be read

avars == <<shelf, held>>

Setting == {"disabled", "enabled", "suspended"}

\* A version of the object key in bucket; a larger rank is newer.
Version ==
    [id : Id, bucket : Bucket, key : Key, size : 1 .. MaxSize, rank : Nat]

Fresh(n, m) == [state |-> "live", name |-> n, versioning |-> "disabled", max |-> m]

Live(b) == shelf[b].state = "live"

NameFree(n) == \A b \in Bucket : Live(b) => shelf[b].name # n

In(b) == {v \in held : v.bucket = b}

SameKey(u, v) == u.bucket = v.bucket /\ u.key = v.key

\* The bytes that bucket b holds: byte i of version v is <<v.id, i>>.
Bytes(b) == UNION {{v.id} \X (1 .. v.size) : v \in In(b)}

Room(b, n) == shelf[b].max > 0 => Cardinality(Bytes(b)) + n <= shelf[b].max

AInit ==
    /\ held = {}
    /\ \A b \in Bucket :
        \/ shelf[b].state = "absent"
        \/ \E n \in Name, m \in Quota : shelf[b] = Fresh(n, m)
    /\ \A b, c \in Bucket :
        Live(b) /\ Live(c) /\ shelf[b].name = shelf[c].name => b = c

-----------------------------------------------------------------------------
Create(b) ==
    /\ shelf[b].state = "absent"
    /\ \E n \in Name, m \in Quota :
        /\ NameFree(n)
        /\ shelf' = [shelf EXCEPT ![b] = Fresh(n, m)]
    /\ UNCHANGED held

Remove(b) ==
    /\ Live(b) /\ In(b) = {}
    /\ shelf' = [shelf EXCEPT ![b].state = "deleted"]
    /\ UNCHANGED held

SetVersioning(b) ==
    /\ Live(b)
    /\ \E s \in Setting : shelf' = [shelf EXCEPT ![b].versioning = s]
    /\ UNCHANGED held

\* A new version goes on top of its key's, where there is room for it.
Store ==
    /\ \E v \in held' \ held :
        /\ v \in Version
        /\ Live(v.bucket)
        /\ Room(v.bucket, v.size)
        /\ \A u \in held : u.id # v.id /\ (SameKey(u, v) => u.rank < v.rank)
        /\ held' = held \cup {v}
    /\ UNCHANGED shelf

\* The newest version of a key is taken away.
Delete(v) ==
    /\ \A u \in held : SameKey(u, v) => u.rank <= v.rank
    /\ held' = held \ {v}
    /\ UNCHANGED shelf

ANext ==
    \/ \E b \in Bucket : Create(b) \/ Remove(b) \/ SetVersioning(b)
    \/ Store
    \/ \E v \in held : Delete(v)

ASpec == AInit /\ [][ANext]_avars
=============================================================================
