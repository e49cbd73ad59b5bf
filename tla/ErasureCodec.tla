---------------------------- MODULE ErasureCodec ----------------------------
(***************************************************************************)
(* storage.Chunker.Split and storage.ReedSolomonCodec, as functions on     *)
(* sequences of bytes.                                                     *)
(***************************************************************************)
EXTENDS Layout, Sequences, FiniteSets, SequencesExt

Byte == 0 .. 255

Least(a, b) == IF a < b THEN a ELSE b

Data == {i \in Shard : i < DataShards}
Parity == Shard \ Data

\* Chunker.Split: pieces of ChunkSize bytes, the last one possibly shorter.
Split(body) ==
    [i \in 1 .. ChunkCount(Len(body)) |->
        SubSeq(body, (i - 1) * ChunkSize + 1, Least(i * ChunkSize, Len(body)))]

\* The shard size: that of the longest chunk.
ShardSize(chunks) ==
    CHOOSE n \in {Len(chunks[i]) : i \in DOMAIN chunks} :
        \A i \in DOMAIN chunks : Len(chunks[i]) <= n

\* Byte b of data shard j, zero where the chunk is short or missing.
PaddedByte(chunks, j, b) ==
    IF j + 1 \in DOMAIN chunks /\ b \in DOMAIN chunks[j + 1]
    THEN chunks[j + 1][b]
    ELSE 0

\* The exclusive or of two bytes, bit by bit.
Xor(x, y) ==
    MapThenSumSet(LAMBDA k : 2^k * ((x \div 2^k + y \div 2^k) % 2), 0 .. 7)

\* The exclusive or of a sequence of bytes.
XorAll(bytes) == FoldLeft(Xor, 0, bytes)

\* Parity shard i.  The coefficient multiplies modulo 256, not in GF(2^8).
ParityShard(chunks, i) ==
    [b \in 1 .. ShardSize(chunks) |->
        XorAll([j \in 1 .. DataShards |->
            (PaddedByte(chunks, j - 1, b) * ((i + 1) * j)) % 256])]

\* Encode: data shards are the chunks as they are (chunks beyond DataShards
\* are not stored), parity shards have the shard size.
Encode(chunks) ==
    [s \in {s \in Shard : s \in Parity \/ s < Len(chunks)} |->
        IF s \in Data THEN chunks[s + 1] ELSE ParityShard(chunks, s - DataShards)]

-----------------------------------------------------------------------------
(* Decode, of the shards at hand: a function on a set of chunk indexes. *)

Rank(i, S) == Cardinality({j \in S : j < i})

\* The parity shard the loop spends on data shard j: the k-th one at hand on
\* the k-th one missing.
SpentOn(at, j) ==
    {p \in Parity \cap DOMAIN at :
        Rank(p, Parity \cap DOMAIN at) = Rank(j, Data \ DOMAIN at)}

\* The first parity shard gives the exclusive or of itself and of the data
\* shards at hand; any other gives zeros.
Recovered(at, p) ==
    [b \in DOMAIN at[p] |->
        IF p # DataShards THEN 0
        ELSE Xor(at[p][b], XorAll([k \in 1 .. DataShards |->
                IF k - 1 \in DOMAIN at /\ b \in DOMAIN at[k - 1]
                THEN at[k - 1][b] ELSE 0]))]

\* What is appended for data shard j: nothing when it is missing and the
\* parity shards are spent.
Piece(at, j) ==
    IF j \in DOMAIN at THEN at[j]
    ELSE IF SpentOn(at, j) = {} THEN <<>>
    ELSE Recovered(at, CHOOSE p \in SpentOn(at, j) : TRUE)

(* Mutated form of Decode: the parity shards are appended too. *)
DecodeEverything(at) ==
    FlattenSeq([j \in 1 .. DataShards + ParityShards |-> Piece(at, j - 1)])

(* Mutated form of Decode: the first data shard is skipped. *)
DecodeFromOne(at) ==
    FlattenSeq([j \in 1 .. DataShards - 1 |-> Piece(at, j)])

\* The data shards in order; the result is not cut to the object's size.
Decode(at) == FlattenSeq([j \in 1 .. DataShards |-> Piece(at, j - 1)])
=============================================================================
