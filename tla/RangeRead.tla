------------------------------ MODULE RangeRead -----------------------------
(***************************************************************************)
(* GetObjectRange in the storage service: it reads the object as GetObject *)
(* does, then looks the file up a second time, and it is this second row   *)
(* that the handler takes Content-Type, ETag and the total size from.      *)
(* Every step is a step of ObjectStore that also minds what was asked.     *)
(***************************************************************************)
EXTENDS ObjectStore

VARIABLES asked,   \* what the range download of each worker asked for
          reply    \* history: the range reply the last step sent, if it sent one

rvars == <<vars, asked, reply>>

\* "version" when the request has a versionId, "newest" when it has none.
Asked == {"version", "newest"}

ASSUME RangeAssumption == None \notin Asked

RInit ==
    /\ Init
    /\ asked = [w \in Worker |-> None]
    /\ reply = None

\* A range download: the first lookup.
RangeBegin(w) ==
    /\ GetBegin(w)
    /\ \E a \in Asked :
        /\ a = "newest" => obj'[w] \in Latest(at'[w], files[obj'[w]].key)
        /\ asked' = [asked EXCEPT ![w] = a]
    /\ reply' = None

\* The data is read and decoded; the offset is looked at next.
DataRead(w) == asked[w] \in Asked /\ pc[w] = "getRead" /\ todo[w] = {}

(* Mutated form of SecondLookup: the version id is not passed on. *)
LookupNewest(w) == Latest(at[w], files[obj[w]].key)

(* Mutated form of SecondLookup: without ORDER BY created_at DESC. *)
LookupAny(w) ==
    IF asked[w] = "version" THEN {obj[w]} \cap Versions(at[w], files[obj[w]].key)
                            ELSE Versions(at[w], files[obj[w]].key)

\* The rows GetByBucketAndKey may return the second time.
SecondLookup(w) ==
    IF asked[w] = "version" THEN {obj[w]} \cap Versions(at[w], files[obj[w]].key)
                            ELSE Latest(at[w], files[obj[w]].key)

\* No row: GetObjectRange returns a nil file.
NoSecondRow(w) ==
    IF asked[w] = "version" THEN obj[w] \notin Versions(at[w], files[obj[w]].key)
                            ELSE Versions(at[w], files[obj[w]].key) = {}

Reply(w, head) ==
    /\ reply' = [asked |-> asked[w], data |-> obj[w], head |-> head]
    /\ asked' = [asked EXCEPT ![w] = None]

\* The offset is outside the data: 416, and there is no second lookup.
RangeOutside(w) ==
    /\ DataRead(w)
    /\ asked' = [asked EXCEPT ![w] = None]
    /\ reply' = None
    /\ GetReply(w)

\* 206 with the headers of the second row; with none the handler panics and
\* the client gets 500.
RangeReply(w) ==
    /\ DataRead(w)
    /\ \/ \E g \in SecondLookup(w) : Reply(w, g)
       \/ NoSecondRow(w) /\ Reply(w, None)
    /\ GetReply(w)

\* The second lookup fails: a nil file again.
RangeReplyError(w) ==
    /\ DataRead(w)
    /\ Reply(w, None)
    /\ GetAgainError(w)

\* Everything else, other requests and whole downloads included.
OtherStep ==
    /\ \/ \E w \in Worker :
          \/ ~DataRead(w) /\ (Begin(w) \/ Step(w))
          \/ Lost(w) \/ ReadOnly(w)
       \/ \E f \in File : Expire(f)
    /\ asked' = [w \in Worker |-> IF pc'[w] = "idle" THEN None ELSE asked[w]]
    /\ reply' = None

RNext ==
    \/ \E w \in Worker :
        RangeBegin(w) \/ RangeOutside(w) \/ RangeReply(w) \/ RangeReplyError(w)
    \/ OtherStep

RSpec == RInit /\ [][RNext]_rvars

-----------------------------------------------------------------------------
(* Properties *)

Gone(f) == files[f].state = "deleted"

\* The reply to a range of a named version has that version's own headers; it
\* is a 500 only when the version was deleted meanwhile or a call failed.
RangeOfVersion ==
    reply # None /\ reply.asked = "version" =>
        \/ reply.head = reply.data
        \/ reply.head = None /\ (Gone(reply.data) \/ faults > 0)

\* A range of the newest version may come with the headers of another one: of a
\* newer one, or, when a delete took the data's version away between the two
\* lookups, of whatever is newest then, an older version that the data had
\* replaced included.  As long as the data's version is live the headers are
\* never those of a version it replaced; and the client gets a 500 only when no
\* version of the key is left, or a call failed.
RangeOfNewest ==
    reply # None /\ reply.asked = "newest" =>
        IF reply.head = None
        THEN \/ Versions(files[reply.data].bucket, files[reply.data].key) = {}
             \/ faults > 0
        ELSE \/ files[reply.head].created >= files[reply.data].created
             \/ Gone(reply.data)
=============================================================================
