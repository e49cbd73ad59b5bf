------------------------------ MODULE Download ------------------------------
(***************************************************************************)
(* The bytes of one stored object: what a GET of it returns, whole or by   *)
(* range, after chunk rows or chunk files have been lost.  ObjectStore     *)
(* models how such states come about (a CreateChunk that only warned, a    *)
(* racing DELETE); here the losses are arbitrary.                          *)
(***************************************************************************)
EXTENDS ErasureCodec

CONSTANTS Body,     \* the bodies clients upload
          MaxLost,  \* bound: chunk rows and chunk files lost
          MaxInt    \* the largest int64

\* A body is a sequence of bytes, and the process holds it in memory.
ASSUME BodyAssumption ==
    /\ Body \subseteq Seq(Byte)
    /\ MaxInt \in Nat
    /\ \A x \in Body : Len(x) < MaxInt

VARIABLES body,     \* the uploaded bytes (kept to compare with)
          onDisk,   \* chunk index -> bytes, for the chunk files that are there
          rows,     \* chunk indexes with a file_chunks row
          reply     \* the last answer to a GET

dvars == <<body, onDisk, rows, reply>>

NoReply == [status |-> 0, first |-> 0, last |-> 0, bytes |-> <<>>]

\* An empty body is refused by Encode, so no object has one.
DownloadInit ==
    /\ body \in {x \in Body : ~CannotEncode(Len(x))}
    /\ onDisk = Encode(Split(body))
    /\ rows = DOMAIN onDisk
    /\ reply = NoReply

AllShards == ShardsOf(Len(body))

\* Shards whose row or file is gone.
LostShards == AllShards \ (rows \cap DOMAIN onDisk)

\* file_chunks has no row for a shard: CreateChunk failed with a warning.
LoseRow(s) ==
    /\ s \in rows /\ Cardinality(LostShards) < MaxLost
    /\ rows' = rows \ {s}
    /\ reply' = NoReply
    /\ UNCHANGED <<body, onDisk>>

\* The file of a shard cannot be read any more.
LoseFile(s) ==
    /\ s \in DOMAIN onDisk /\ Cardinality(LostShards) < MaxLost
    /\ onDisk' = [i \in DOMAIN onDisk \ {s} |-> onDisk[i]]
    /\ reply' = NoReply
    /\ UNCHANGED <<body, rows>>

-----------------------------------------------------------------------------
(* GetObject *)

\* "file chunks" not found, or a chunk that a row names cannot be read.
Unreadable == rows = {} \/ ~(rows \subseteq DOMAIN onDisk)

\* No checksum is verified and nothing is cut to the object's size.
RawData == Decode([s \in rows |-> onDisk[s]])

Answer(st, a, b, bytes) ==
    reply' = [status |-> st, first |-> a, last |-> b, bytes |-> bytes]

\* The handler announces Content-Length: file.Size and writes the decoded
\* bytes in one Write; net/http refuses a Write that exceeds the announced
\* length, so the client then gets no byte at all.
WholeBody == IF Len(RawData) > Len(body) THEN <<>> ELSE RawData

Get ==
    /\ IF rows = {} THEN Answer(404, 0, 0, <<>>)
       ELSE IF Unreadable THEN Answer(500, 0, 0, <<>>)
       ELSE Answer(200, 0, 0, WholeBody)
    /\ UNCHANGED <<body, onDisk, rows>>

-----------------------------------------------------------------------------
(* GET with Range: bytes=a-b, or bytes=a- *)

\* int64 arithmetic, for the sums of two int64 and one that come up here.
Wrap(i) == IF i > MaxInt THEN i - 2 * (MaxInt + 1) ELSE i

\* The handler's length for bytes=a-, as for a negative b.
Open == -1

(* Mutated form of RangeLength: the last byte is left out. *)
RangeLengthShort(a, b) == IF b > 0 THEN Wrap(b - a) ELSE b

\* The handler keeps b as the length when it is not positive.
RangeLength(a, b) == IF b > 0 THEN Wrap(b - a + 1) ELSE b

\* GetObjectRange: a length that is not positive (b was before a), or goes past
\* the end, means to the end.
RangeEnd(a, length) ==
    IF length <= 0 \/ Wrap(a + length) > Len(RawData) THEN Len(RawData)
                                                     ELSE Wrap(a + length)

\* An end that overflowed is before the offset: the slice expression panics,
\* and the client gets 500.
GetRange(a, b) ==
    LET end == RangeEnd(a, RangeLength(a, b))
    IN  /\ IF Unreadable \/ a < 0 \/ a >= Len(RawData) THEN Answer(416, a, b, <<>>)
           ELSE IF end < a THEN Answer(500, a, b, <<>>)
           ELSE Answer(206, a, b, SubSeq(RawData, a + 1, end))
        /\ UNCHANGED <<body, onDisk, rows>>

\* Bound: the numbers in a Range header are at most two beyond the object's
\* offsets, or the largest there is.
Offset == -1 .. Len(body) + 1

DownloadNext ==
    \/ \E s \in Shard : LoseRow(s) \/ LoseFile(s)
    \/ Get
    \/ \E a \in Offset, b \in Offset \cup {MaxInt} : GetRange(a, b)

DownloadSpec == DownloadInit /\ [][DownloadNext]_dvars

-----------------------------------------------------------------------------
(* Properties *)

FullStripe == ChunkCount(Len(body)) = DataShards

\* A whole download never carries bytes that are not the object's, as long as
\* every shard is in place: an object of DataShards chunks or more comes back
\* as far as the stripe holds it, and a shorter one comes back whole or not at
\* all, never with the bytes Decode makes up for the data shards it lacks.
IntactDownload ==
    LostShards = {} /\ reply.status = 200 =>
        IF ChunkCount(Len(body)) < DataShards THEN reply.bytes \in {<<>>, body}
        ELSE reply.bytes = SubSeq(body, 1, Least(Len(body), DataShards * ChunkSize))

\* The bytes GetObject decodes start with the object's own: as long as every
\* data shard has its row and file, what Decode appends comes after them,
\* however many parity shards are lost.
DataComesFirst ==
    Data \cap LostShards = {} /\ ~Unreadable =>
        IsPrefix(SubSeq(body, 1, Least(Len(body), DataShards * ChunkSize)), RawData)

\* A partial answer for an object that fills the stripe exactly, even when
\* parity is lost: its bytes are the ones Content-Range names, from the first
\* asked for; they are all the bytes asked for, as far as the object goes, when
\* the range is closed, and all to the end when it is open.  (For bytes=0-0,
\* and for b before a, there are more than were asked for.)
RangeExact ==
    FullStripe /\ reply.status = 206 /\ Data \cap LostShards = {} =>
        /\ reply.bytes # <<>>
        /\ reply.bytes = SubSeq(body, reply.first + 1, reply.first + Len(reply.bytes))
        /\ reply.last > 0 /\ reply.first <= reply.last =>
            reply.bytes = SubSeq(body, reply.first + 1, Least(reply.last + 1, Len(body)))
        /\ reply.last = Open => reply.bytes = SubSeq(body, reply.first + 1, Len(body))

\* A download returns the bytes that were uploaded (nothing was lost).
DownloadReturnsUpload ==
    LostShards = {} /\ reply.status = 200 => reply.bytes = body
=============================================================================
