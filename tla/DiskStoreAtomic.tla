-------------------------- MODULE DiskStoreAtomic ---------------------------
(***************************************************************************)
(* What DiskStore promises, proved.  As long as every rename from the      *)
(* temporary to the data directory works it implements AtomicFile; whether *)
(* they work or not, a Write that no other Write disturbs leaves all its   *)
(* data; and the temporary directory is left empty when nothing fails.     *)
(***************************************************************************)
EXTENDS DiskStore, TLAPS

\* A full temporary file is a sequence of blocks.
LEMMA WholeType ==
    ASSUME NEW w \in Writer
    PROVE  Whole(w) \in Seq((Writer \cup {None}) \X Nat)
  BY DiskAssumption DEF Whole, FirstBlocks

\* A sequence that agrees with another as far as it goes, and goes as far, is
\* that sequence.
LEMMA ReadAll ==
    ASSUME NEW S, NEW s \in Seq(S), NEW t \in Seq(S),
           Len(s) <= Len(t), Len(s) >= Len(t),
           \A i \in 1 .. Len(s) : s[i] = t[i]
    PROVE  s = t
  <1>1. Len(s) = Len(t)
    BY Len(s) \in Nat, Len(t) \in Nat
  <1>2. s \in [1 .. Len(s) -> S] /\ t \in [1 .. Len(s) -> S]
    BY <1>1
  <1> QED
    BY <1>2

-----------------------------------------------------------------------------
(* Types *)

\* A block written into a file leaves a file.
LEMMA OverwriteType ==
    ASSUME NEW B, Hole \in B, NEW c \in Seq(B), NEW i \in Nat, NEW v \in B
    PROVE  Overwrite(c, i, v) \in Seq(B)
  <1> DEFINE k == IF i > Len(c) THEN i ELSE Len(c)
             e(j) == IF j = i THEN v ELSE IF j <= Len(c) THEN c[j] ELSE Hole
  <1>1. k \in Nat
    OBVIOUS
  <1>2. \A j \in 1 .. k : e(j) \in B
    OBVIOUS
  <1>3. Overwrite(c, i, v) = [j \in 1 .. k |-> e(j)]
    BY DEF Overwrite
  <1> HIDE DEF e, k
  <1> QED
    BY <1>1, <1>2, <1>3

LEMMA WriterTypes ==
    ASSUME TypesOK, NEW w \in Writer, WriterStep(w)
    PROVE  TypesOK'
  <1> USE DEF TypesOK
  <1>0. rpc' = rpc /\ source' = source /\ got' = got
    BY DEF WriterStep, CreateTemp, CreateTempError, Fill, FillError, Flush, FlushError,
           Rename, CopyCreate, CopyCreateError, CopyBlock, CopyEnd, CopyError, DropTemp,
           DropTempError, Die, Goes, readerVars
  <1>1. CASE \/ CreateTemp(w) \/ CreateTempError(w) \/ FillError(w) \/ Flush(w)
             \/ FlushError(w) \/ CopyCreateError(w) \/ CopyEnd(w) \/ CopyError(w)
             \/ DropTemp(w) \/ DropTempError(w) \/ Die(w)
    <2>1. /\ entry' = entry /\ content' = content /\ target' = target
          /\ copied' = copied
      BY <1>1 DEF CreateTemp, CreateTempError, FillError, Flush, FlushError,
         CopyCreateError, CopyEnd, CopyError, DropTemp, DropTempError, Die, diskVars
    <2>2. wpc' \in [Writer -> DiskLabel]
      BY <1>1 DEF CreateTemp, CreateTempError, FillError, Flush, FlushError,
         CopyCreateError, CopyEnd, CopyError, DropTemp, DropTempError, Die, Goes,
         DiskLabel, Ended
    <2> QED
      BY <1>0, <2>1, <2>2
  <1>2. CASE Fill(w)
    <2>1. /\ entry' = entry /\ target' = target /\ copied' = copied
          /\ content' = [content EXCEPT ![<<w, "temp">>] = Whole(w)]
          /\ wpc' = [wpc EXCEPT ![w] = "flush"]
      BY <1>2 DEF Fill, Goes
    <2>2. /\ content' \in [Inode -> Seq((Writer \cup {None}) \X Nat)]
          /\ wpc' \in [Writer -> DiskLabel]
      BY <2>1, WholeType DEF DiskLabel
    <2> QED
      BY <1>0, <2>1, <2>2
  <1>3. CASE Rename(w)
    BY <1>0, <1>3 DEF Rename, Goes, DiskLabel, Ended, Inode
  <1>4. CASE CopyCreate(w)
    <2>1. /\ entry' = IF entry = None THEN <<w, "copy">> ELSE entry
          /\ content' = [content EXCEPT ![entry'] = <<>>]
          /\ target' = [target EXCEPT ![w] = entry']
          /\ copied' = copied /\ wpc' = [wpc EXCEPT ![w] = "copy"]
      BY <1>4 DEF CopyCreate, Goes
    <2>2. entry' \in Inode
      BY <2>1 DEF Inode
    <2> QED
      BY <1>0, <2>1, <2>2 DEF DiskLabel
  <1>5. CASE CopyBlock(w)
    <2> DEFINE n == copied[w]
               c == Overwrite(content[target[w]], n + 1, Whole(w)[n + 1])
    <2>1. /\ entry' = entry /\ target' = target
          /\ content' = [content EXCEPT ![target[w]] = c]
          /\ copied' = [copied EXCEPT ![w] = n + 1]
          /\ wpc' = [wpc EXCEPT ![w] = "copy"]
          /\ n < Blocks[w]
      BY <1>5 DEF CopyBlock, Goes
    <2>2. Whole(w)[n + 1] \in (Writer \cup {None}) \X Nat /\ n + 1 \in Nat
      <3>1. n \in Nat /\ Blocks[w] \in Nat
        BY DiskAssumption
      <3>2. n + 1 \in 1 .. Blocks[w] /\ n + 1 \in Nat
        BY <2>1, <3>1
      <3>3. Whole(w)[n + 1] = <<w, n + 1>>
        BY <3>2 DEF Whole, FirstBlocks
      <3> QED
        BY <3>2, <3>3
    <2>3. Hole \in (Writer \cup {None}) \X Nat
      BY DEF Hole
    <2>4. target[w] \in Inode => c \in Seq((Writer \cup {None}) \X Nat)
      <3> SUFFICES ASSUME target[w] \in Inode
                   PROVE  c \in Seq((Writer \cup {None}) \X Nat)
        OBVIOUS
      <3>1. content[target[w]] \in Seq((Writer \cup {None}) \X Nat)
        OBVIOUS
      <3> HIDE DEF n, TypesOK
      <3> QED
        BY <2>2, <2>3, <3>1, OverwriteType
    <2> HIDE DEF c
    <2>5. content' \in [Inode -> Seq((Writer \cup {None}) \X Nat)]
      BY <2>1, <2>4
    <2>6. copied' \in [Writer -> Nat] /\ wpc' \in [Writer -> DiskLabel]
      BY <2>1 DEF DiskLabel
    <2> QED
      BY <1>0, <2>1, <2>5, <2>6
  <1> QED
    BY <1>1, <1>2, <1>3, <1>4, <1>5 DEF WriterStep

LEMMA ReaderTypes ==
    ASSUME TypesOK, NEW r \in Reader, ReaderStep(r)
    PROVE  TypesOK'
  <1> USE DEF TypesOK
  <1>1. entry' = entry /\ content' = content /\ UNCHANGED <<wpc, target, copied>>
    BY DEF ReaderStep, Open, OpenError, ReadBlock, ReadEnd, ReadError, diskVars, writerVars
  <1>2. CASE Open(r)
    BY <1>1, <1>2 DEF Open, ReadLabel
  <1>3. CASE OpenError(r)
    BY <1>1, <1>3 DEF OpenError, ReadLabel
  <1>4. CASE ReadBlock(r)
    <2> DEFINE b == content[source[r]][Len(got[r]) + 1]
    <2>1. /\ rpc' = rpc /\ source' = source /\ rpc[r] = "open"
          /\ got' = [got EXCEPT ![r] = Append(got[r], b)]
          /\ Len(got[r]) < Len(content[source[r]])
      BY <1>4 DEF ReadBlock
    <2>2. source[r] \in Inode
      BY <2>1
    <2>3. b \in (Writer \cup {None}) \X Nat
      BY <2>1, <2>2
    <2>4. got' \in [Reader -> Seq((Writer \cup {None}) \X Nat)]
      BY <2>1, <2>3
    <2> QED
      BY <1>1, <2>1, <2>4
  <1>5. CASE ReadEnd(r) \/ ReadError(r)
    <2>1. /\ source' = source /\ got' = got
          /\ \E l \in {"done", "failed"} : rpc' = [rpc EXCEPT ![r] = l]
      BY <1>5 DEF ReadEnd, ReadError
    <2>2. rpc' \in [Reader -> ReadLabel]
      BY <2>1 DEF ReadLabel
    <2> QED
      BY <1>1, <2>1, <2>2
  <1> QED
    BY <1>2, <1>3, <1>4, <1>5 DEF ReaderStep

\* Every variable keeps its type, and an open read has a file.
LEMMA Types == TypesOK /\ [DiskNext]_svars => TypesOK'
  <1> SUFFICES ASSUME TypesOK, [DiskNext]_svars PROVE TypesOK'
    OBVIOUS
  <1>1. CASE Delete \/ UNCHANGED svars
    BY <1>1 DEF Delete, svars, diskVars, writerVars, readerVars, TypesOK
  <1> QED
    BY <1>1, WriterTypes, ReaderTypes DEF DiskNext

-----------------------------------------------------------------------------
(* Files that are only ever renamed into place *)

\* A copyFile that began is not forgotten.
LEMMA NoCopyBefore ==
    ASSUME TypesOK, [DiskNext]_svars, NoCopy'
    PROVE  NoCopy
  <1>1. target' = target \/ \E w \in Writer : CopyCreate(w)
    BY DEF DiskNext, WriterStep, ReaderStep, Delete, CreateTemp, CreateTempError, Fill,
       FillError, Flush, FlushError, Rename, CopyCreateError, CopyBlock, CopyEnd, CopyError,
       DropTemp, DropTempError, Die, Open, OpenError, ReadBlock, ReadEnd, ReadError, svars,
       writerVars
  <1>2. ASSUME NEW w \in Writer, CopyCreate(w) PROVE FALSE
    <2>1. target' = [target EXCEPT ![w] = entry'] /\ entry' # None
      BY <1>2, DiskAssumption DEF CopyCreate, Inode, TypesOK
    <2>2. target'[w] # None
      BY <2>1 DEF TypesOK
    <2> QED
      BY <2>2 DEF NoCopy
  <1> QED
    BY <1>1, <1>2 DEF NoCopy

\* A step of one Write keeps the invariant.
LEMMA WriterPlaced ==
    ASSUME TypesOK', NoCopy, NoCopy', PlacedIsWhole, NEW w \in Writer, WriterStep(w)
    PROVE  PlacedIsWhole'
  <1> USE DEF PlacedIsWhole, TypesOK
  <1>1. CASE CreateTemp(w) \/ CreateTempError(w) \/ FillError(w) \/ Flush(w)
             \/ FlushError(w) \/ Die(w)
    <2>1. /\ entry' = entry /\ content' = content
          /\ rpc' = rpc /\ source' = source /\ got' = got
      BY <1>1 DEF CreateTemp, CreateTempError, FillError, Flush, FlushError, Die,
                  Goes, diskVars, readerVars
    <2>2. /\ wpc' \in [Writer -> DiskLabel]
          /\ wpc[w] # "done"
          /\ wpc'[w] \in {"fill", "failed", "move", "dead"}
          /\ wpc'[w] = "move" => wpc[w] = "flush"
          /\ \A v \in Writer \ {w} : wpc'[v] = wpc[v]
      BY <1>1 DEF CreateTemp, CreateTempError, FillError, Flush, FlushError, Die,
                  Goes, DiskLabel, Ended
    <2>3. \A n \in Inode : Placed(n)' = Placed(n)
      BY <2>2 DEF Placed
    <2>4. \A v \in Writer :
            /\ wpc'[v] \notin {"copy", "drop"}
            /\ wpc'[v] \in {"flush", "move", "done"} => content'[<<v, "temp">>] = Whole(v)
      BY <2>1, <2>2
    <2> QED
      BY <2>1, <2>2, <2>3, <2>4
  <1>2. CASE Fill(w)
    <2>1. /\ entry' = entry /\ rpc' = rpc /\ source' = source /\ got' = got
          /\ content' = [content EXCEPT ![<<w, "temp">>] = Whole(w)]
      BY <1>2 DEF Fill, Goes, readerVars
    <2>2. /\ wpc' = [wpc EXCEPT ![w] = "flush"] /\ wpc[w] = "fill"
      BY <1>2 DEF Fill, Goes
    <2>3. wpc' \in [Writer -> DiskLabel]
      BY <2>2 DEF DiskLabel
    <2>4. \A n \in Inode : Placed(n)' = Placed(n)
      BY <2>2 DEF Placed
    <2>5. content' \in [Inode -> Seq((Writer \cup {None}) \X Nat)]
      BY <2>1, WholeType
    <2>6. \A n \in Inode : Placed(n) => content'[n] = content[n]
      BY <2>1, <2>2 DEF Placed
    <2>7. content'[<<w, "temp">>] = Whole(w)
      BY <2>1 DEF Inode
    <2>8. \A v \in Writer :
            /\ wpc'[v] \notin {"copy", "drop"}
            /\ wpc'[v] \in {"flush", "move", "done"} => content'[<<v, "temp">>] = Whole(v)
      <3>1. \A v \in Writer \ {w} :
                wpc'[v] = wpc[v] /\ content'[<<v, "temp">>] = content[<<v, "temp">>]
        BY <2>1, <2>2 DEF Inode
      <3>2. wpc'[w] = "flush"
        BY <2>2
      <3> QED
        BY <2>7, <3>1, <3>2
    <2>9. \A r \in Reader :
            /\ source[r] # None => content'[source[r]] = content[source[r]]
            /\ source[r] # None => Placed(source[r])'
      <3> SUFFICES ASSUME NEW r \in Reader, source[r] # None
                   PROVE  content'[source[r]] = content[source[r]] /\ Placed(source[r])'
        OBVIOUS
      <3>1. PICK v \in Writer : source[r] = <<v, "temp">> /\ wpc[v] = "done"
        BY DEF Placed
      <3>2. v # w /\ source'[r] = <<v, "temp">> /\ wpc'[v] = "done"
        BY <2>1, <2>2, <3>1
      <3> QED
        BY <2>1, <3>1, <3>2 DEF Placed, Inode
    <2>10. entry # None => Placed(entry)'
      BY <2>1, <2>4
    <2>11. TypesOK'
      OBVIOUS
    <2>12. \A r \in Reader :
            /\ source'[r] # None => Placed(source[r])'
            /\ rpc'[r] \in {"open", "done"} => source'[r] # None
            /\ rpc'[r] = "idle" => source'[r] = None /\ got'[r] = <<>>
            /\ rpc'[r] = "open" =>
                /\ Len(got'[r]) <= Len(content'[source'[r]])
                /\ \A i \in 1 .. Len(got'[r]) : got'[r][i] = content'[source'[r]][i]
            /\ rpc'[r] = "done" => got'[r] = content'[source'[r]]
      <3> TAKE r \in Reader
      <3>1. CASE source[r] = None
        BY <2>1, <3>1
      <3>2. CASE source[r] # None
        BY <2>1, <2>9, <3>2
      <3> QED
        BY <3>1, <3>2
    <2> HIDE DEF TypesOK
    <2> QED
      BY <2>1, <2>8, <2>10, <2>11, <2>12
  <1>3. CASE Rename(w)
    <2>1. /\ entry' = <<w, "temp">> /\ content' = content
          /\ rpc' = rpc /\ source' = source /\ got' = got
          /\ wpc' = [wpc EXCEPT ![w] = "done"] /\ wpc[w] = "move"
      BY <1>3 DEF Rename, Goes, readerVars
    <2>2. wpc' \in [Writer -> DiskLabel] /\ entry' \in Inode
      BY <2>1 DEF DiskLabel, Ended, Inode
    <2>3. /\ \A n \in Inode : Placed(n) => Placed(n)'
          /\ Placed(entry)'
      BY <2>1 DEF Placed
    <2>4. \A v \in Writer :
            /\ wpc'[v] \notin {"copy", "drop"}
            /\ wpc'[v] \in {"flush", "move", "done"} => content'[<<v, "temp">>] = Whole(v)
      BY <2>1
    <2> QED
      BY <2>1, <2>2, <2>3, <2>4
  <1>4. CASE CopyCreate(w) \/ CopyCreateError(w) \/ CopyBlock(w) \/ CopyEnd(w)
             \/ CopyError(w) \/ DropTemp(w) \/ DropTempError(w)
    <2>1. wpc[w] \in {"move", "copy", "drop"}
      BY <1>4 DEF CopyCreate, CopyCreateError, CopyBlock, CopyEnd, CopyError, DropTemp,
                  DropTempError, Goes
    <2>2. CASE CopyCreate(w)
      <3>1. target' = [target EXCEPT ![w] = entry'] /\ entry' # None
        BY <2>2, DiskAssumption DEF CopyCreate, Inode
      <3>2. target'[w] # None
        BY <3>1
      <3> QED
        BY <3>2 DEF NoCopy
    <2>3. CASE CopyCreateError(w)
      <3>1. /\ entry' = entry /\ content' = content
            /\ rpc' = rpc /\ source' = source /\ got' = got
            /\ wpc' = [wpc EXCEPT ![w] = "failed"] /\ wpc[w] = "move"
        BY <2>3 DEF CopyCreateError, Goes, diskVars, readerVars
      <3>2. \A n \in Inode : Placed(n)' = Placed(n)
        BY <3>1 DEF Placed
      <3> QED
        BY <3>1, <3>2
    <2> QED
      BY <1>4, <2>1, <2>2, <2>3 DEF CopyBlock, CopyEnd, CopyError, DropTemp, DropTempError,
                                    Goes
  <1> QED
    BY <1>1, <1>2, <1>3, <1>4 DEF WriterStep

\* A step of one Read keeps it.
LEMMA ReaderPlaced ==
    ASSUME TypesOK', NoCopy, PlacedIsWhole, NEW r \in Reader, ReaderStep(r)
    PROVE  PlacedIsWhole'
  <1> USE DEF PlacedIsWhole, TypesOK
  <1>1. entry' = entry /\ content' = content /\ wpc' = wpc
    BY DEF ReaderStep, Open, OpenError, ReadBlock, ReadEnd, ReadError, diskVars, writerVars
  <1>2. \A n \in Inode : Placed(n)' = Placed(n)
    BY <1>1 DEF Placed
  <1>3. CASE Open(r)
    <2>1. /\ rpc' = [rpc EXCEPT ![r] = IF entry = None THEN "missing" ELSE "open"]
          /\ source' = [source EXCEPT ![r] = entry]
          /\ got' = got /\ rpc[r] = "idle" /\ got[r] = <<>>
      BY <1>3 DEF Open
    <2>2. rpc' \in [Reader -> ReadLabel]
      BY <2>1 DEF ReadLabel
    <2>3. entry # None => Len(content[entry]) \in Nat
      OBVIOUS
    <2>4. /\ Len(got[r]) = 0
          /\ rpc'[r] # "done" /\ rpc'[r] # "idle"
          /\ rpc'[r] = "open" => source'[r] # None
          /\ source'[r] = entry
      BY <2>1
    <2> QED
      BY <1>1, <1>2, <2>1, <2>2, <2>3, <2>4
  <1>4. CASE ReadBlock(r)
    <2> DEFINE b == content[source[r]][Len(got[r]) + 1]
    <2>1. /\ rpc' = rpc /\ source' = source /\ rpc[r] = "open"
          /\ got' = [got EXCEPT ![r] = Append(got[r], b)]
          /\ Len(got[r]) < Len(content[source[r]])
      BY <1>4 DEF ReadBlock
    <2>2. source[r] \in Inode
      BY <2>1
    <2>3. b \in (Writer \cup {None}) \X Nat
      BY <2>1, <2>2
    <2>4. /\ got'[r] = Append(got[r], b)
          /\ got' \in [Reader -> Seq((Writer \cup {None}) \X Nat)]
      BY <2>1, <2>3
    <2>5. /\ Len(got'[r]) = Len(got[r]) + 1
          /\ \A i \in 1 .. Len(got[r]) : got'[r][i] = got[r][i]
          /\ got'[r][Len(got[r]) + 1] = b
      BY <2>3, <2>4
    <2>6. /\ Len(got'[r]) <= Len(content[source[r]])
          /\ \A i \in 1 .. Len(got'[r]) : got'[r][i] = content[source[r]][i]
      BY <2>1, <2>2, <2>5
    <2> QED
      BY <1>1, <1>2, <2>1, <2>4, <2>6
  <1>5. CASE ReadEnd(r)
    <2>1. /\ rpc' = [rpc EXCEPT ![r] = "done"] /\ rpc[r] = "open"
          /\ source' = source /\ got' = got
          /\ Len(got[r]) >= Len(content[source[r]])
      BY <1>5 DEF ReadEnd
    <2>2. source[r] \in Inode
      BY <2>1
    <2>3. /\ got[r] \in Seq((Writer \cup {None}) \X Nat)
          /\ content[source[r]] \in Seq((Writer \cup {None}) \X Nat)
      BY <2>2
    <2>5. /\ Len(got[r]) <= Len(content[source[r]])
          /\ \A i \in 1 .. Len(got[r]) : got[r][i] = content[source[r]][i]
      BY <2>1
    <2>6. got[r] = content[source[r]]
      <3> HIDE DEF PlacedIsWhole, TypesOK
      <3> QED
        BY <2>1, <2>3, <2>5, ReadAll
    <2>4. rpc' \in [Reader -> ReadLabel]
      BY <2>1 DEF ReadLabel
    <2> QED
      BY <1>1, <1>2, <2>1, <2>6, <2>4
  <1>6. CASE ReadError(r)
    <2>1. /\ rpc' = [rpc EXCEPT ![r] = "failed"]
          /\ source' = source /\ got' = got
      BY <1>6 DEF ReadError
    <2>2. rpc' \in [Reader -> ReadLabel]
      BY <2>1 DEF ReadLabel
    <2> QED
      BY <1>1, <1>2, <2>1, <2>2
  <1>7. CASE OpenError(r)
    <2>1. /\ rpc' = [rpc EXCEPT ![r] = "failed"]
          /\ source' = source /\ got' = got
      BY <1>7 DEF OpenError
    <2> QED
      BY <1>1, <1>2, <2>1
  <1> QED
    BY <1>3, <1>4, <1>5, <1>6, <1>7 DEF ReaderStep

\* PlacedIsWhole holds in every reachable state.
THEOREM Placement == DiskSpec => []PlacedIsWhole
  <1>1. DiskInit => PlacedIsWhole
    BY DEF DiskInit, PlacedIsWhole, TypesOK, DiskLabel, ReadLabel, Ended, Inode
  <1>2. PlacedIsWhole /\ [DiskNext]_svars => PlacedIsWhole'
    <2> SUFFICES ASSUME PlacedIsWhole, [DiskNext]_svars
                 PROVE  PlacedIsWhole'
      OBVIOUS
    <2>1. TypesOK /\ TypesOK'
      BY Types DEF PlacedIsWhole
    <2>2. SUFFICES ASSUME NoCopy' PROVE PlacedIsWhole'
      BY <2>1 DEF PlacedIsWhole
    <2>3. NoCopy
      BY <2>1, <2>2, NoCopyBefore
    <2>4. ASSUME NEW w \in Writer, WriterStep(w) PROVE PlacedIsWhole'
      BY <2>1, <2>2, <2>3, <2>4, WriterPlaced
    <2>5. ASSUME NEW r \in Reader, ReaderStep(r) PROVE PlacedIsWhole'
      BY <2>1, <2>3, <2>5, ReaderPlaced
    <2>6. CASE Delete
      BY <2>6, <2>3 DEF Delete, PlacedIsWhole, TypesOK, Placed, writerVars, readerVars
    <2>7. CASE UNCHANGED svars
      BY <2>7, <2>3 DEF svars, diskVars, writerVars, readerVars, PlacedIsWhole, TypesOK, Placed
    <2> QED
      BY <2>4, <2>5, <2>6, <2>7 DEF DiskNext
  <1> QED
    BY <1>1, <1>2, PTL DEF DiskSpec

-----------------------------------------------------------------------------
(* The refinement: the rename and the open are the steps that take effect. *)

\* What a step of one Write is to AtomicFile: the rename lands it, an error or
\* a death fails it, and the rest cannot be seen.
LEMMA WriterMaps ==
    ASSUME NoCopy, NoCopy', PlacedIsWhole, NEW w \in Writer, WriterStep(w)
    PROVE  [Atomic!ANext]_Atomic!avars
  <1> USE DEF Atomic!avars, Atomic!ANext, ValueNow, StatusNow, SeenNow, AnswerNow
  <1>0. /\ wpc \in [Writer -> DiskLabel]
        /\ \A v \in Writer : wpc[v] \notin {"copy", "drop"}
    BY DEF PlacedIsWhole, TypesOK
  <1>1. CASE CreateTemp(w) \/ Fill(w) \/ Flush(w)
    <2>1. /\ entry' = entry /\ rpc' = rpc /\ source' = source /\ got' = got
          /\ wpc[w] \notin Ended
          /\ \E l \in {"fill", "flush", "move"} : wpc' = [wpc EXCEPT ![w] = l]
      BY <1>1 DEF CreateTemp, Fill, Flush, Goes, diskVars, readerVars, Ended
    <2>2. \A v \in Writer :
            /\ wpc'[v] = "done" <=> wpc[v] = "done"
            /\ wpc'[v] \in {"failed", "dead"} <=> wpc[v] \in {"failed", "dead"}
      BY <1>0, <2>1 DEF Ended
    <2> QED
      BY <2>1, <2>2
  <1>2. CASE CreateTempError(w) \/ FillError(w) \/ FlushError(w) \/ CopyCreateError(w)
             \/ Die(w)
    <2>1. /\ entry' = entry /\ rpc' = rpc /\ source' = source /\ got' = got
          /\ wpc[w] \notin Ended
          /\ \E l \in {"failed", "dead"} : wpc' = [wpc EXCEPT ![w] = l]
      BY <1>2 DEF CreateTempError, FillError, FlushError, CopyCreateError, Die, Goes,
                  diskVars, readerVars, Ended
    <2>2. /\ wpc'[w] \in {"failed", "dead"}
          /\ \A v \in Writer \ {w} : wpc'[v] = wpc[v]
      BY <1>0, <2>1
    <2>3. Atomic!Fail(w)
      BY <2>1, <2>2 DEF Atomic!Fail, Ended
    <2> QED
      BY <2>3
  <1>3. CASE Rename(w)
    <2>1. /\ entry' = <<w, "temp">> /\ rpc' = rpc /\ source' = source /\ got' = got
          /\ wpc' = [wpc EXCEPT ![w] = "done"] /\ wpc[w] = "move"
      BY <1>3 DEF Rename, Goes, readerVars
    <2>2. entry' # None
      BY <2>1, DiskAssumption DEF Inode
    <2>3. Atomic!Land(w)
      BY <1>0, <2>1, <2>2 DEF Atomic!Land
    <2> QED
      BY <2>3
  <1>4. CASE CopyCreate(w)
    <2>1. target' = [target EXCEPT ![w] = entry'] /\ entry' # None
      BY <1>4, DiskAssumption DEF CopyCreate, Inode, PlacedIsWhole, TypesOK
    <2>2. target'[w] # None
      BY <2>1 DEF PlacedIsWhole, TypesOK
    <2> QED
      BY <2>2 DEF NoCopy
  <1>5. CASE CopyBlock(w) \/ CopyEnd(w) \/ CopyError(w) \/ DropTemp(w) \/ DropTempError(w)
    BY <1>0, <1>5 DEF CopyBlock, CopyEnd, CopyError, DropTemp, DropTempError, Goes
  <1> QED
    BY <1>1, <1>2, <1>3, <1>4, <1>5 DEF WriterStep

\* A Read is decided when it opens the file, and its end answers with the
\* content of the writer whose inode it has open.
LEMMA ReaderMaps ==
    ASSUME NoCopy, PlacedIsWhole, NEW r \in Reader, ReaderStep(r)
    PROVE  [Atomic!ANext]_Atomic!avars
  <1> USE DEF Atomic!avars, Atomic!ANext
  <1>0. TypesOK
    BY DEF PlacedIsWhole
  <1>1. entry' = entry /\ content' = content /\ wpc' = wpc
    BY DEF ReaderStep, Open, OpenError, ReadBlock, ReadEnd, ReadError, diskVars, writerVars
  <1>2. CASE Open(r)
    <2>1. /\ rpc[r] = "idle" /\ got' = got
          /\ rpc' = [rpc EXCEPT ![r] = IF entry = None THEN "missing" ELSE "open"]
          /\ source' = [source EXCEPT ![r] = entry]
      BY <1>2 DEF Open
    <2>2. \A q \in Reader : rpc'[q] = "done" <=> rpc[q] = "done"
      BY <1>0, <2>1 DEF TypesOK
    <2>3. ValueNow = None <=> entry = None
      BY <1>0, DiskAssumption DEF ValueNow, TypesOK, Inode
    <2>4. SeenNow' = [SeenNow EXCEPT ![r] = ValueNow]
      BY <1>0, <2>1 DEF SeenNow, ValueNow, TypesOK
    <2>5. AnswerNow' = AnswerNow
      BY <2>1, <2>2 DEF AnswerNow
    <2>6. Atomic!Look(r)
      BY <1>1, <2>1, <2>3, <2>4, <2>5 DEF Atomic!Look, ValueNow, StatusNow
    <2> QED
      BY <2>6
  <1>3. CASE ReadBlock(r)
    <2>1. /\ rpc[r] = "open" /\ rpc' = rpc /\ source' = source
          /\ \A q \in Reader \ {r} : got'[q] = got[q]
      BY <1>0, <1>3 DEF ReadBlock, TypesOK
    <2> QED
      BY <1>1, <2>1 DEF ValueNow, StatusNow, SeenNow, AnswerNow
  <1>4. CASE ReadEnd(r)
    <2>1. /\ rpc' = [rpc EXCEPT ![r] = "done"] /\ rpc[r] = "open"
          /\ source' = source /\ got' = got
          /\ Len(got[r]) >= Len(content[source[r]])
      BY <1>4 DEF ReadEnd
    <2>2. /\ source[r] # None
          /\ Placed(source[r])
          /\ Len(got[r]) <= Len(content[source[r]])
          /\ \A i \in 1 .. Len(got[r]) : got[r][i] = content[source[r]][i]
      BY <2>1 DEF PlacedIsWhole
    <2>3. PICK v \in Writer : source[r] = <<v, "temp">> /\ content[source[r]] = Whole(v)
      BY <2>2 DEF Placed, PlacedIsWhole
    <2>4. got[r] = content[source[r]]
      <3>1. /\ got[r] \in Seq((Writer \cup {None}) \X Nat)
            /\ content[source[r]] \in Seq((Writer \cup {None}) \X Nat)
        BY <1>0, <2>2 DEF TypesOK
      <3> QED
        BY <2>1, <2>2, <3>1, ReadAll
    <2>5. AnswerNow' = [AnswerNow EXCEPT ![r] = got[r]]
      BY <1>0, <2>1 DEF AnswerNow, TypesOK
    <2>6. SeenNow[r] = v
      BY <2>2, <2>3 DEF SeenNow
    <2>7. Atomic!Reply(r)
      BY <1>1, <2>1, <2>3, <2>4, <2>5, <2>6 DEF Atomic!Reply, ValueNow, StatusNow, SeenNow
    <2> QED
      BY <2>7
  <1>5. CASE OpenError(r) \/ ReadError(r)
    <2>1. /\ rpc' = [rpc EXCEPT ![r] = "failed"] /\ rpc[r] \in {"idle", "open"}
          /\ source' = source /\ got' = got
      BY <1>5 DEF OpenError, ReadError
    <2>2. \A q \in Reader : rpc'[q] = "done" <=> rpc[q] = "done"
      BY <1>0, <2>1 DEF TypesOK
    <2>3. Atomic!GiveUp(r)
      BY <1>1, <2>1, <2>2 DEF Atomic!GiveUp, ValueNow, StatusNow, SeenNow, AnswerNow
    <2> QED
      BY <2>3
  <1> QED
    BY <1>2, <1>3, <1>4, <1>5 DEF ReaderStep

\* As long as no copyFile has begun, a step of DiskStore is a step of AtomicFile.
LEMMA StepMaps ==
    ASSUME PlacedIsWhole, [DiskNext]_svars, NoCopy'
    PROVE  [Atomic!ANext]_Atomic!avars
  <1>0. NoCopy
    BY NoCopyBefore DEF PlacedIsWhole
  <1>1. ASSUME NEW w \in Writer, WriterStep(w) PROVE [Atomic!ANext]_Atomic!avars
    BY <1>0, <1>1, WriterMaps
  <1>2. ASSUME NEW r \in Reader, ReaderStep(r) PROVE [Atomic!ANext]_Atomic!avars
    BY <1>0, <1>2, ReaderMaps
  <1>3. CASE Delete
    <2>1. Atomic!Vanish
      BY <1>3 DEF Delete, Atomic!Vanish, writerVars, readerVars,
                  ValueNow, StatusNow, SeenNow, AnswerNow
    <2> QED
      BY <2>1 DEF Atomic!ANext
  <1>4. CASE UNCHANGED svars
    BY <1>4 DEF svars, diskVars, writerVars, readerVars, Atomic!avars,
                ValueNow, StatusNow, SeenNow, AnswerNow
  <1> QED
    BY <1>1, <1>2, <1>3, <1>4 DEF DiskNext

LEMMA InitMaps == DiskInit => Atomic!AInit
  BY DEF DiskInit, Atomic!AInit, ValueNow, StatusNow, SeenNow, AnswerNow

\* Until a rename fails DiskStore is an atomic file, for any number of racing
\* writes, reads and deletes and any data.
THEOREM Atomicity == DiskSpec => AtomicWhileRenamed
  <1>1. PlacedIsWhole /\ [DiskNext]_svars => [NoCopy' => Atomic!ANext]_(Atomic!avars)
    BY StepMaps
  <1> QED
    BY <1>1, InitMaps, Placement, PTL DEF DiskSpec, AtomicWhileRenamed

\* Where no rename ever fails, DiskStore implements AtomicFile outright.
THEOREM AtomicOnOneDevice == DiskSpec /\ []NoCopy => Atomic!ASpec
  <1>1. PlacedIsWhole /\ [DiskNext]_svars /\ NoCopy' => [Atomic!ANext]_Atomic!avars
    BY StepMaps
  <1> QED
    BY <1>1, InitMaps, Placement, PTL DEF DiskSpec, Atomic!ASpec

-----------------------------------------------------------------------------
(* The temporary directory *)

TempTypesOK ==
    /\ temp \subseteq Writer
    /\ wpc \in [Writer -> DiskLabel]
    /\ faults \in Nat
    /\ deaths \in Nat

\* A Write leaves its labels for good only with its temporary file gone, or
\* by an error or a death.
LEMMA WriterReclaims ==
    ASSUME TempTypesOK, TempsReclaimed, NEW w \in Writer, WriterStep(w)
    PROVE  TempTypesOK' /\ TempsReclaimed'
  <1> USE DEF TempTypesOK, TempsReclaimed
  <1>1. ASSUME NEW l \in DiskLabel, NEW m \in DiskLabel, Goes(w, l, m)
        PROVE  /\ wpc' \in [Writer -> DiskLabel]
               /\ wpc[w] = l /\ wpc'[w] = m
               /\ \A v \in Writer \ {w} : wpc'[v] = wpc[v]
    BY <1>1 DEF Goes
  <1>2. CASE \/ CreateTempError(w) \/ FillError(w) \/ FlushError(w)
             \/ CopyCreateError(w) \/ CopyError(w) \/ DropTempError(w) \/ Die(w)
    <2>1. /\ faults' \in Nat /\ deaths' \in Nat
          /\ faults' # 0 \/ deaths' # 0
      BY <1>2 DEF CreateTempError, FillError, FlushError, CopyCreateError, CopyError,
                  DropTempError, Die, Fault
    <2>2. wpc' \in [Writer -> DiskLabel] /\ temp' \subseteq Writer
      BY <1>1, <1>2 DEF CreateTempError, FillError, FlushError, CopyCreateError, CopyError,
                  DropTempError, Die, DiskLabel, Ended, diskVars
    <2> QED
      BY <2>1, <2>2
  <1>3. CASE \/ CreateTemp(w) \/ Fill(w) \/ Flush(w) \/ CopyCreate(w)
             \/ CopyBlock(w) \/ CopyEnd(w)
    <2>1. /\ faults' = faults /\ deaths' = deaths
          /\ temp' \subseteq temp \cup {w}
      BY <1>3 DEF CreateTemp, Fill, Flush, CopyCreate, CopyBlock, CopyEnd, NoFault, diskVars
    <2>2. /\ wpc' \in [Writer -> DiskLabel] /\ wpc'[w] \notin Ended
          /\ \A v \in Writer \ {w} : wpc'[v] = wpc[v]
      BY <1>1, <1>3 DEF CreateTemp, Fill, Flush, CopyCreate, CopyBlock, CopyEnd,
                        DiskLabel, Ended
    <2> QED
      BY <2>1, <2>2
  <1>4. CASE Rename(w) \/ DropTemp(w)
    <2>1. /\ faults' = faults /\ deaths' = deaths /\ temp' = temp \ {w}
      BY <1>4 DEF Rename, DropTemp, NoFault
    <2>2. /\ wpc' \in [Writer -> DiskLabel]
          /\ \A v \in Writer \ {w} : wpc'[v] = wpc[v]
      BY <1>1, <1>4 DEF Rename, DropTemp, DiskLabel, Ended
    <2> QED
      BY <2>1, <2>2
  <1> QED
    BY <1>2, <1>3, <1>4 DEF WriterStep

\* Nothing that a Write puts in the temporary directory outlives it unless a
\* call failed or the process died.
THEOREM Reclaimed == DiskSpec => []TempsReclaimed
  <1>1. DiskInit => TempTypesOK /\ TempsReclaimed
    BY DEF DiskInit, TempTypesOK, TempsReclaimed, DiskLabel
  <1>2. TempTypesOK /\ TempsReclaimed /\ [DiskNext]_svars
        => TempTypesOK' /\ TempsReclaimed'
    <2> SUFFICES ASSUME TempTypesOK, TempsReclaimed, [DiskNext]_svars
                 PROVE  TempTypesOK' /\ TempsReclaimed'
      OBVIOUS
    <2>1. ASSUME NEW w \in Writer, WriterStep(w) PROVE TempTypesOK' /\ TempsReclaimed'
      BY <2>1, WriterReclaims
    <2>2. ASSUME NEW r \in Reader, ReaderStep(r) PROVE TempTypesOK' /\ TempsReclaimed'
      <3>1. /\ temp' = temp /\ wpc' = wpc
            /\ \/ faults' = faults /\ deaths' = deaths
              \/ Fault
        BY <2>2 DEF ReaderStep, Open, OpenError, ReadBlock, ReadEnd, ReadError, diskVars, writerVars,
                    NoFault
      <3> QED
        BY <3>1 DEF Fault, TempTypesOK, TempsReclaimed
    <2>3. CASE Delete \/ UNCHANGED svars
      BY <2>3 DEF Delete, svars, diskVars, writerVars, TempTypesOK, TempsReclaimed
    <2> QED
      BY <2>1, <2>2, <2>3 DEF DiskNext
  <1> QED
    BY <1>1, <1>2, PTL DEF DiskSpec

-----------------------------------------------------------------------------
(* The data of a Write that no other Write disturbs *)

\* No other Write has put anything under the key.
Alone(w) == \A v \in Writer \ {w} : ~Touched(v)

\* The file that some Write put under the key: its temporary file, renamed, or
\* the one its copyFile created.
Made(n) ==
    \E v \in Writer : /\ Touched(v)
                      /\ n = <<v, IF target[v] = None THEN "temp" ELSE "copy">>

\* The key and every copy name a file that some Write put there; a full
\* temporary file stays full until a copyFile of another Write truncates it,
\* and a copy that is alone has its own file, with what it has copied so far.
CopiedOK ==
    /\ entry # None => Made(entry)
    /\ \A w \in Writer :
        /\ target[w] # None => Made(target[w])
        /\ wpc[w] \in {"start", "fill", "flush", "move"} =>
                target[w] = None /\ copied[w] = 0
        /\ wpc[w] \in {"copy", "drop"} => target[w] # None
        /\ wpc[w] = "drop" \/ (wpc[w] = "done" /\ target[w] # None) =>
                copied[w] = Blocks[w]
        /\ \/ wpc[w] \in {"flush", "move"}
           \/ wpc[w] = "done" /\ target[w] = None /\ Alone(w)
           => content[<<w, "temp">>] = Whole(w)
        /\ target[w] # None /\ Alone(w) =>
                content[<<w, "copy">>] = FirstBlocks(w, copied[w])

\* One block more.
LEMMA NextBlock ==
    ASSUME NEW w \in Writer, NEW n \in Nat
    PROVE  Overwrite(FirstBlocks(w, n), n + 1, <<w, n + 1>>) = FirstBlocks(w, n + 1)
  <1>1. Len(FirstBlocks(w, n)) = n
    BY DEF FirstBlocks
  <1>2. \A j \in 1 .. n : FirstBlocks(w, n)[j] = <<w, j>>
    BY DEF FirstBlocks
  <1>3. (IF n + 1 > n THEN n + 1 ELSE n) = n + 1
    OBVIOUS
  <1>4. \A j \in 1 .. n + 1 : j # n + 1 => j <= n /\ j \in 1 .. n
    OBVIOUS
  <1> QED
    BY <1>1, <1>2, <1>3, <1>4 DEF Overwrite, FirstBlocks

\* A step of one Write that only moves on, and leaves the files alone.
LEMMA StepAside ==
    ASSUME TypesOK, CopiedOK, NEW w \in Writer, NEW l, NEW m \in DiskLabel,
           Goes(w, l, m),
           m \in {"fill", "move"} => l \in {"start", "flush"},
           m = "move" => l = "flush",
           m \in {"copy", "drop", "done"} => target[w] # None,
           m \in {"drop", "done"} => copied[w] = Blocks[w],
           m \notin {"start", "flush"},
           l # "done",
           UNCHANGED <<entry, target, copied, content>>
    PROVE  CopiedOK'
  <1> USE DEF CopiedOK
  <1>1. /\ wpc[w] = l /\ wpc'[w] = m
        /\ \A v \in Writer \ {w} : wpc'[v] = wpc[v]
    BY DEF Goes, TypesOK
  <1>2. \A v \in Writer : Touched(v)' = Touched(v)
    BY <1>1 DEF Touched
  <1>3. \A n : Made(n)' = Made(n)
    BY <1>2 DEF Made
  <1>4. \A v \in Writer : Alone(v)' = Alone(v)
    BY <1>2 DEF Alone
  <1>5. ASSUME NEW v \in Writer
        PROVE  /\ target'[v] # None => Made(target[v])'
               /\ wpc'[v] \in {"start", "fill", "flush", "move"} =>
                    target'[v] = None /\ copied'[v] = 0
               /\ wpc'[v] \in {"copy", "drop"} => target'[v] # None
               /\ wpc'[v] = "drop" \/ (wpc'[v] = "done" /\ target'[v] # None) =>
                    copied'[v] = Blocks[v]
               /\ \/ wpc'[v] \in {"flush", "move"}
                  \/ wpc'[v] = "done" /\ target'[v] = None /\ Alone(v)'
                  => content'[<<v, "temp">>] = Whole(v)
               /\ target'[v] # None /\ Alone(v)' =>
                    content'[<<v, "copy">>] = FirstBlocks(v, copied'[v])
    <2>1. CASE v = w
      BY <2>1, <1>1, <1>3, <1>4
    <2>2. CASE v # w
      BY <2>2, <1>1, <1>3, <1>4
    <2> QED
      BY <2>1, <2>2
  <1>6. entry' # None => Made(entry)'
    BY <1>3
  <1> QED
    BY <1>5, <1>6

\* A step of one Write keeps the invariant.
LEMMA WriterCopies ==
    ASSUME TypesOK, CopiedOK, NEW w \in Writer, WriterStep(w)
    PROVE  CopiedOK'
  <1>1. CASE \/ CreateTemp(w) \/ CreateTempError(w) \/ FillError(w) \/ Flush(w)
             \/ FlushError(w) \/ CopyCreateError(w) \/ CopyEnd(w) \/ CopyError(w)
             \/ DropTemp(w) \/ DropTempError(w) \/ Die(w)
    <2> DEFINE M(l, m) ==
              /\ Goes(w, l, m) /\ m \notin {"start", "flush"} /\ l # "done"
              /\ m \in {"fill", "move"} => l \in {"start", "flush"}
              /\ m = "move" => l = "flush"
              /\ m \in {"copy", "drop", "done"} => l \in {"copy", "drop"}
              /\ m \in {"drop", "done"} => l = "drop" \/ copied[w] = Blocks[w]
    <2>1. /\ entry' = entry /\ target' = target /\ copied' = copied
          /\ content' = content
      BY <1>1 DEF CreateTemp, CreateTempError, FillError, Flush, FlushError,
          CopyCreateError, CopyEnd, CopyError, DropTemp, DropTempError, Die, diskVars
    <2>2. PICK l \in DiskLabel, m \in DiskLabel : M(l, m)
      <3>1. {"start", "fill", "flush", "move", "copy", "drop", "done", "failed", "dead"}
                = DiskLabel
        BY DEF DiskLabel, Ended
      <3>2. wpc[w] \in DiskLabel
        BY DEF TypesOK
      <3>3. CreateTemp(w) => M("start", "fill")
        BY DEF CreateTemp
      <3>4. CreateTempError(w) => M("start", "failed")
        BY DEF CreateTempError
      <3>5. FillError(w) => M("fill", "failed")
        BY DEF FillError
      <3>6. Flush(w) => M("flush", "move")
        BY DEF Flush
      <3>7. FlushError(w) => M("flush", "failed")
        BY DEF FlushError
      <3>8. CopyCreateError(w) => M("move", "failed")
        BY DEF CopyCreateError
      <3>9. CopyEnd(w) => M("copy", "drop")
        BY DEF CopyEnd, CopiedAll
      <3>10. CopyError(w) => M("copy", "failed")
        BY DEF CopyError
      <3>11. DropTemp(w) \/ DropTempError(w) => M("drop", "done")
        BY DEF DropTemp, DropTempError
      <3>12. Die(w) => M(wpc[w], "dead")
        BY DEF Die, Ended
      <3> HIDE DEF M
      <3> QED
        BY <1>1, <3>1, <3>2, <3>3, <3>4, <3>5, <3>6, <3>7, <3>8, <3>9, <3>10, <3>11, <3>12
    <2>3. wpc[w] = l
      BY <2>2 DEF Goes
    <2>4. /\ m \in {"copy", "drop", "done"} => target[w] # None
          /\ m \in {"drop", "done"} => copied[w] = Blocks[w]
      BY <2>2, <2>3 DEF CopiedOK
    <2> QED
      BY <2>1, <2>2, <2>4, StepAside
  <1>2. CASE Fill(w)
    <2>1. /\ entry' = entry /\ target' = target /\ copied' = copied
          /\ content' = [content EXCEPT ![<<w, "temp">>] = Whole(w)]
          /\ wpc[w] = "fill" /\ wpc' = [wpc EXCEPT ![w] = "flush"]
      BY <1>2 DEF Fill, Goes
    <2>2. /\ \A v \in Writer : content'[<<v, "copy">>] = content[<<v, "copy">>]
          /\ \A v \in Writer \ {w} : content'[<<v, "temp">>] = content[<<v, "temp">>]
          /\ content'[<<w, "temp">>] = Whole(w)
      BY <2>1 DEF TypesOK, Inode
    <2>3. wpc'[w] = "flush" /\ \A v \in Writer \ {w} : wpc'[v] = wpc[v]
      BY <2>1 DEF TypesOK
    <2>4. \A v \in Writer : Touched(v)' = Touched(v)
      BY <2>1, <2>3 DEF Touched
    <2>5. \A n : Made(n)' = Made(n)
      BY <2>1, <2>4 DEF Made
    <2>6. \A v \in Writer : Alone(v)' = Alone(v)
      BY <2>4 DEF Alone
    <2> QED
      BY <2>1, <2>2, <2>3, <2>5, <2>6 DEF CopiedOK
  <1>3. CASE CopyCreate(w)
    <2>1. /\ entry' = IF entry = None THEN <<w, "copy">> ELSE entry
          /\ content' = [content EXCEPT ![entry'] = <<>>]
          /\ target' = [target EXCEPT ![w] = entry']
          /\ copied' = copied
          /\ wpc' = [wpc EXCEPT ![w] = "copy"] /\ wpc[w] = "move"
      BY <1>3 DEF CopyCreate, Goes
    <2>2. <<w, "copy">> \in Inode /\ entry' \in Inode
      BY <2>1 DEF Inode, TypesOK
    <2>3. entry' # None
      BY <2>2, DiskAssumption
    <2>4. /\ target'[w] = entry' /\ copied[w] = 0 /\ target[w] = None
          /\ \A v \in Writer \ {w} : target'[v] = target[v] /\ wpc'[v] = wpc[v]
          /\ wpc'[w] = "copy"
      BY <2>1 DEF TypesOK, CopiedOK
    <2>5. Touched(w)' /\ ~Touched(w) /\ \A v \in Writer \ {w} : Touched(v)' = Touched(v)
      BY <2>1, <2>3, <2>4 DEF Touched
    <2>6. \A n : Made(n) => Made(n)'
      <3> SUFFICES ASSUME NEW n, Made(n) PROVE Made(n)'
        OBVIOUS
      <3>1. PICK v \in Writer :
                Touched(v) /\ n = <<v, IF target[v] = None THEN "temp" ELSE "copy">>
        BY DEF Made
      <3>2. v # w
        BY <2>5, <3>1
      <3> QED
        BY <2>4, <2>5, <3>1, <3>2 DEF Made
    <2>7. Made(entry)'
      <3>1. CASE entry = None
        BY <2>1, <2>3, <2>4, <2>5, <3>1 DEF Made
      <3>2. CASE entry # None
        BY <2>1, <2>6, <3>2 DEF CopiedOK
      <3> QED
        BY <3>1, <3>2
    <2>8. Alone(w)' => content'[<<w, "copy">>] = FirstBlocks(w, copied'[w])
      <3> SUFFICES ASSUME Alone(w)' PROVE content'[<<w, "copy">>] = FirstBlocks(w, copied'[w])
        OBVIOUS
      <3>1. PICK v \in Writer :
                Touched(v)' /\ entry' = <<v, IF target'[v] = None THEN "temp" ELSE "copy">>
        BY <2>7 DEF Made
      <3>2. v = w
        BY <3>1 DEF Alone
      <3>3. entry' = <<w, "copy">>
        BY <2>3, <2>4, <3>1, <3>2
      <3>4. content'[<<w, "copy">>] = <<>>
        BY <2>1, <2>2, <3>3 DEF TypesOK
      <3>5. FirstBlocks(w, 0) = <<>>
        BY DEF FirstBlocks
      <3> QED
        BY <2>1, <2>4, <3>4, <3>5
    <2>9. \A v \in Writer \ {w} : ~Alone(v)'
      BY <2>5 DEF Alone
    <2>10. ASSUME NEW v \in Writer, wpc'[v] \in {"flush", "move"}
           PROVE  content'[<<v, "temp">>] = Whole(v)
      <3>1. v # w /\ wpc[v] \in {"flush", "move"}
        BY <2>4, <2>10
      <3>2. <<v, "temp">> # entry'
        <4>1. target'[v] = None /\ ~Touched(v)'
          BY <2>4, <3>1 DEF CopiedOK, Touched
        <4>2. ~Made(<<v, "temp">>)'
          BY <4>1 DEF Made
        <4> QED
          BY <2>7, <4>2
      <3>3. content'[<<v, "temp">>] = content[<<v, "temp">>]
        BY <2>1, <3>2 DEF TypesOK, Inode
      <3> QED
        BY <3>1, <3>3 DEF CopiedOK
    <2>11. ASSUME NEW v \in Writer
           PROVE  /\ target'[v] # None => Made(target[v])'
                  /\ wpc'[v] \in {"start", "fill", "flush", "move"} =>
                        target'[v] = None /\ copied'[v] = 0
                  /\ wpc'[v] \in {"copy", "drop"} => target'[v] # None
                  /\ wpc'[v] = "drop" \/ (wpc'[v] = "done" /\ target'[v] # None) =>
                        copied'[v] = Blocks[v]
                  /\ \/ wpc'[v] \in {"flush", "move"}
                     \/ wpc'[v] = "done" /\ target'[v] = None /\ Alone(v)'
                     => content'[<<v, "temp">>] = Whole(v)
                  /\ target'[v] # None /\ Alone(v)' =>
                        content'[<<v, "copy">>] = FirstBlocks(v, copied'[v])
      <3>1. CASE v = w
        BY <3>1, <2>3, <2>4, <2>7, <2>8
      <3>2. CASE v # w
        BY <3>2, <2>1, <2>4, <2>6, <2>9, <2>10 DEF CopiedOK
      <3> QED
        BY <3>1, <3>2
    <2> QED
      BY <2>7, <2>11 DEF CopiedOK
  <1>4. CASE CopyBlock(w)
    <2> DEFINE n == copied[w]
               c == Overwrite(content[target[w]], n + 1, Whole(w)[n + 1])
    <2>1. /\ entry' = entry /\ target' = target /\ wpc' = wpc /\ wpc[w] = "copy"
          /\ content' = [content EXCEPT ![target[w]] = c]
          /\ copied' = [copied EXCEPT ![w] = n + 1]
          /\ n < Blocks[w]
      <3>1. wpc' = wpc
        BY <1>4 DEF CopyBlock, Goes, TypesOK
      <3> QED
        BY <1>4, <3>1 DEF CopyBlock, Goes
    <2>2. /\ target[w] # None /\ target[w] \in Inode /\ Made(target[w])
          /\ n \in Nat /\ Blocks[w] \in Nat
      BY <2>1, DiskAssumption DEF TypesOK, CopiedOK
    <2>3. Whole(w)[n + 1] = <<w, n + 1>>
      BY <2>1, <2>2 DEF Whole, FirstBlocks
    <2>4. /\ \A v \in Writer : Touched(v)' = Touched(v)
          /\ Touched(w)
      BY <2>1, <2>2 DEF Touched
    <2>5. \A m : Made(m)' = Made(m)
      BY <2>1, <2>4 DEF Made
    <2>6. \A v \in Writer \ {w} : ~Alone(v)'
      BY <2>4 DEF Alone
    <2>7. Alone(w) => content'[<<w, "copy">>] = FirstBlocks(w, copied'[w])
      <3> SUFFICES ASSUME Alone(w) PROVE content'[<<w, "copy">>] = FirstBlocks(w, copied'[w])
        OBVIOUS
      <3>1. target[w] = <<w, "copy">>
        BY <2>2 DEF Made, Alone
      <3>2. content[<<w, "copy">>] = FirstBlocks(w, n)
        BY <2>2 DEF CopiedOK
      <3>3. c = FirstBlocks(w, n + 1)
        BY <2>2, <2>3, <3>1, <3>2, NextBlock
      <3>4. copied'[w] = n + 1
        BY <2>1 DEF TypesOK
      <3> HIDE DEF c
      <3>5. content'[<<w, "copy">>] = c
        BY <2>1, <2>2, <3>1 DEF TypesOK
      <3> QED
        BY <3>3, <3>4, <3>5
    <2>8. ASSUME NEW v \in Writer, wpc'[v] \in {"flush", "move"}
          PROVE  content'[<<v, "temp">>] = Whole(v)
      <3> HIDE DEF c, n
      <3>1. target[v] = None /\ ~Touched(v) /\ wpc[v] \in {"flush", "move"}
        BY <2>1, <2>8 DEF CopiedOK, Touched
      <3>2. target[w] # <<v, "temp">>
        BY <2>2, <3>1 DEF Made
      <3>3. content'[<<v, "temp">>] = content[<<v, "temp">>]
        BY <2>1, <3>2 DEF TypesOK, Inode
      <3> QED
        BY <3>1, <3>3 DEF CopiedOK
    <2>9. ASSUME NEW v \in Writer
          PROVE  /\ target'[v] # None => Made(target[v])'
                 /\ wpc'[v] \in {"start", "fill", "flush", "move"} =>
                        target'[v] = None /\ copied'[v] = 0
                 /\ wpc'[v] \in {"copy", "drop"} => target'[v] # None
                 /\ wpc'[v] = "drop" \/ (wpc'[v] = "done" /\ target'[v] # None) =>
                        copied'[v] = Blocks[v]
                 /\ \/ wpc'[v] \in {"flush", "move"}
                    \/ wpc'[v] = "done" /\ target'[v] = None /\ Alone(v)'
                    => content'[<<v, "temp">>] = Whole(v)
                 /\ target'[v] # None /\ Alone(v)' =>
                        content'[<<v, "copy">>] = FirstBlocks(v, copied'[v])
      <3> HIDE DEF c, n
      <3>1. CASE v = w
        BY <3>1, <2>1, <2>2, <2>4, <2>5, <2>7 DEF Alone
      <3>2. CASE v # w
        <4>1. copied'[v] = copied[v]
          BY <2>1, <3>2 DEF TypesOK
        <4> QED
          BY <4>1, <3>2, <2>1, <2>5, <2>6, <2>8 DEF CopiedOK
      <3> QED
        BY <3>1, <3>2
    <2> QED
      BY <2>1, <2>5, <2>9 DEF CopiedOK
  <1>5. CASE Rename(w)
    <2>1. /\ entry' = <<w, "temp">> /\ content' = content
          /\ target' = target /\ copied' = copied
          /\ wpc' = [wpc EXCEPT ![w] = "done"] /\ wpc[w] = "move"
      BY <1>5 DEF Rename, Goes
    <2>2. /\ wpc'[w] = "done" /\ \A v \in Writer \ {w} : wpc'[v] = wpc[v]
          /\ target[w] = None
      BY <2>1 DEF TypesOK, CopiedOK
    <2>3. Touched(w)' /\ ~Touched(w) /\ \A v \in Writer \ {w} : Touched(v)' = Touched(v)
      BY <2>1, <2>2 DEF Touched
    <2>4. \A n : Made(n) => Made(n)'
      BY <2>1, <2>3 DEF Made
    <2>5. Made(entry)'
      BY <2>1, <2>2, <2>3 DEF Made
    <2>6. \A v \in Writer \ {w} : ~Alone(v)'
      BY <2>3 DEF Alone
    <2>7. ASSUME NEW v \in Writer
          PROVE  /\ target'[v] # None => Made(target[v])'
                 /\ wpc'[v] \in {"start", "fill", "flush", "move"} =>
                        target'[v] = None /\ copied'[v] = 0
                 /\ wpc'[v] \in {"copy", "drop"} => target'[v] # None
                 /\ wpc'[v] = "drop" \/ (wpc'[v] = "done" /\ target'[v] # None) =>
                        copied'[v] = Blocks[v]
                 /\ \/ wpc'[v] \in {"flush", "move"}
                    \/ wpc'[v] = "done" /\ target'[v] = None /\ Alone(v)'
                    => content'[<<v, "temp">>] = Whole(v)
                 /\ target'[v] # None /\ Alone(v)' =>
                        content'[<<v, "copy">>] = FirstBlocks(v, copied'[v])
      <3>1. CASE v = w
        BY <3>1, <2>1, <2>2 DEF CopiedOK
      <3>2. CASE v # w
        BY <3>2, <2>1, <2>2, <2>4, <2>6 DEF CopiedOK
      <3> QED
        BY <3>1, <3>2
    <2> QED
      BY <2>5, <2>7 DEF CopiedOK
  <1> QED
    BY <1>1, <1>2, <1>3, <1>4, <1>5 DEF WriterStep

LEMMA Copying == DiskSpec => [](TypesOK /\ CopiedOK)
  <1>1. DiskInit => TypesOK /\ CopiedOK
    BY DEF DiskInit, CopiedOK, TypesOK, DiskLabel, ReadLabel, Inode
  <1>2. TypesOK /\ CopiedOK /\ [DiskNext]_svars => TypesOK' /\ CopiedOK'
    <2> SUFFICES ASSUME TypesOK, CopiedOK, [DiskNext]_svars PROVE CopiedOK'
      BY Types
    <2>1. ASSUME NEW w \in Writer, WriterStep(w) PROVE CopiedOK'
      BY <2>1, WriterCopies
    <2>2. ASSUME UNCHANGED <<content, wpc, target, copied>>,
                 entry' = entry \/ entry' = None
          PROVE  CopiedOK'
      BY <2>2 DEF CopiedOK, Made, Alone, Touched
    <2>3. CASE (\E r \in Reader : ReaderStep(r)) \/ Delete \/ UNCHANGED svars
      <3>1. /\ UNCHANGED <<content, wpc, target, copied>>
            /\ entry' = entry \/ entry' = None
        BY <2>3 DEF ReaderStep, Open, OpenError, ReadBlock, ReadEnd, ReadError, Delete, svars,
                    diskVars, writerVars
      <3> QED
        BY <3>1, <2>2
    <2> QED
      BY <2>1, <2>3 DEF DiskNext
  <1> QED
    BY <1>1, <1>2, PTL DEF DiskSpec

\* A Write that returned without error left all its data under the key,
\* unless another Write of the key or a Delete came in between, whether the
\* data was renamed or copied into place.
THEOREM Returned == DiskSpec => []ReturnedIsWhole
  <1>1. CopiedOK => ReturnedIsWhole
    <2> SUFFICES ASSUME CopiedOK, NEW w \in Writer,
                        wpc[w] = "done", entry # None,
                        \A v \in Writer \ {w} : ~Touched(v)
                 PROVE  content[entry] = Whole(w)
      BY DEF ReturnedIsWhole
    <2>1. entry = <<w, IF target[w] = None THEN "temp" ELSE "copy">> /\ Alone(w)
      BY DEF CopiedOK, Made, Alone
    <2>2. CASE target[w] = None
      BY <2>1, <2>2 DEF CopiedOK
    <2>3. CASE target[w] # None
      BY <2>1, <2>3 DEF CopiedOK, FirstBlocks, Whole
    <2> QED
      BY <2>2, <2>3
  <1> QED
    BY <1>1, Copying, PTL
=============================================================================
