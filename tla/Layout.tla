------------------------------- MODULE Layout -------------------------------
(***************************************************************************)
(* How an object's bytes become shards: the chunker cuts the body into     *)
(* pieces of ChunkSize bytes and the erasure codec keeps at most           *)
(* DataShards of them, adding ParityShards parity shards.  Only the set of *)
(* chunk indexes matters here; ErasureCodec.tla models the bytes.          *)
(***************************************************************************)
EXTENDS Integers

CONSTANTS DataShards,     \* cfg.Storage.DataShards
          ParityShards,   \* cfg.Storage.ParityShards
          ChunkSize       \* cfg.Storage.ChunkSize

\* config.validate rejects shard counts below one; a chunk size below one
\* would make Split loop for ever, so the program runs only with a positive one.
ASSUME LayoutAssumption ==
    /\ DataShards \in Nat \ {0}
    /\ ParityShards \in Nat \ {0}
    /\ ChunkSize \in Nat \ {0}

\* Every chunk index a file can have: Encode numbers data shards from 0 and
\* parity shards from DataShards.
Shard == 0 .. (DataShards + ParityShards - 1)

\* How many pieces Chunker.Split makes of a body of n bytes.
ChunkCount(n) == (n + ChunkSize - 1) \div ChunkSize

\* Encode fails with "no chunks to encode" when the body is empty.
CannotEncode(n) == ChunkCount(n) = 0

\* The chunk indexes Encode returns for a body of n bytes.  A short file has
\* fewer than DataShards data shards; a long one has no more than that.
ShardsOf(n) ==
    {i \in Shard : i >= DataShards \/ i < ChunkCount(n)}
=============================================================================
