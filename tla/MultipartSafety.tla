--------------------------- MODULE MultipartSafety --------------------------
(***************************************************************************)
(* What multipart uploads keep, for any number of workers, uploads, parts  *)
(* and bodies of any length, any lists, and any failed calls, whether      *)
(* parts are renamed into place or copied.                                 *)
(***************************************************************************)
EXTENDS Multipart, TLAPS

-----------------------------------------------------------------------------
(* Files *)

\* What may be in the file of a part, or in what was read of it.
FileOf(u, p, c) ==
    c \in Seq(Block) /\ \A k \in 1 .. Len(c) : Belongs(u, p, k, c[k])

\* The first n buffers of c are those of b.
Right(c, b, n) == n <= Len(c) /\ \A k \in 1 .. n : c[k] = <<b, k>>

\* A file that holds all of a body and no more is that body.
LEMMA RightIsWhole ==
    ASSUME NEW b \in Body, NEW c \in Seq(Block), Len(c) <= Size[b], Right(c, b, Size[b])
    PROVE  c = Whole(b)
  <1>1. Len(c) \in Nat /\ Size[b] \in Nat
    BY MultipartAssumption
  <1>2. Len(c) = Size[b]
    BY <1>1 DEF Right
  <1>3. c = [k \in 1 .. Size[b] |-> c[k]]
    BY <1>2
  <1> QED
    BY <1>3, <1>2 DEF Right, Whole, FirstBlocks

LEMMA WholeIsRight ==
    ASSUME NEW b \in Body
    PROVE  /\ Whole(b) \in Seq(Block) /\ Len(Whole(b)) = Size[b]
           /\ Right(Whole(b), b, Size[b])
  <1>1. Size[b] \in Nat
    BY MultipartAssumption
  <1>2. \A k \in 1 .. Size[b] : <<b, k>> \in Block
    BY <1>1 DEF Block
  <1>3. Whole(b) \in Seq(Block) /\ Len(Whole(b)) = Size[b]
    BY <1>1, <1>2 DEF Whole, FirstBlocks
  <1> QED
    BY <1>1, <1>3 DEF Right, Whole, FirstBlocks

\* What a write in place makes of a file.
LEMMA Overwritten ==
    ASSUME NEW c \in Seq(Block), NEW n \in Nat, n # 0, NEW v \in Block
    PROVE  /\ Overwrite(c, n, v) \in Seq(Block)
           /\ Len(Overwrite(c, n, v)) = IF n > Len(c) THEN n ELSE Len(c)
           /\ Overwrite(c, n, v)[n] = v
           /\ \A k \in 1 .. Len(Overwrite(c, n, v)) : k # n =>
                Overwrite(c, n, v)[k] = IF k <= Len(c) THEN c[k] ELSE Hole
  <1> DEFINE m == IF n > Len(c) THEN n ELSE Len(c)
             e(j) == IF j = n THEN v ELSE IF j <= Len(c) THEN c[j] ELSE Hole
  <1>1. m \in Nat /\ n \in 1 .. m
    OBVIOUS
  <1>2. Hole \in Block
    BY DEF Hole, Block
  <1>3. \A j \in 1 .. m : e(j) \in Block
    BY <1>2
  <1>4. Overwrite(c, n, v) = [j \in 1 .. m |-> e(j)]
    BY DEF Overwrite
  <1> HIDE DEF m
  <1>5. [j \in 1 .. m |-> e(j)] \in Seq(Block) /\ Len([j \in 1 .. m |-> e(j)]) = m
    <2> HIDE DEF e
    <2> QED
      BY <1>1, <1>3
  <1> QED
    BY <1>1, <1>4, <1>5 DEF m

-----------------------------------------------------------------------------
(* The invariant *)

PartJob(j) ==
    /\ j \in PartRequest
    /\ j.copied <= Size[j.body]
    /\ ~j.copying => j.copied = 0
    /\ <<j.upload, j.part, j.body>> \in sent
    /\ j.copying => ~renames /\ parts[<<j.upload, j.part>>] # None

CompleteJob(j) ==
    /\ j \in CompleteRequest
    /\ Len(j.read) <= Len(j.list)
    /\ \A i \in 1 .. Len(j.read) : FileOf(j.upload, j.list[i][1], j.read[i])
    /\ ~j.open => j.got = <<>>
    /\ j.open => /\ Len(j.read) < Len(j.list)
                 /\ NextFile(j) # None
                 /\ FileOf(j.upload, NextListed(j)[1], j.got)

JobsOK ==
    /\ DOMAIN job = Worker
    /\ job = [w \in Worker |-> job[w]]
    /\ \A w \in Worker : job[w] # None => PartJob(job[w]) \/ CompleteJob(job[w])

\* What is on disk was sent for the part it is stored as.
PartsOK ==
    /\ parts \in [Upload \X Part -> Seq(Block) \cup {None}]
    /\ \A u \in Upload, p \in Part :
        parts[<<u, p>>] # None => FileOf(u, p, parts[<<u, p>>])

\* Only one body was ever sent for a part.
Single(u, p, b) == \A x \in sent : x[1] = u /\ x[2] = p => x[3] = b

Copies(v, u, p) ==
    Sending(v) /\ job[v].copying /\ job[v].upload = u /\ job[v].part = p

\* A file that only one body is written to: it holds all of it, or some call is
\* still writing it and has its buffers right so far, or the part is broken.
Healthy(u, p, b) ==
    /\ Len(parts[<<u, p>>]) <= Size[b]
    /\ \/ Right(parts[<<u, p>>], b, Size[b])
       \/ <<u, p>> \in broken
       \/ \E v \in Worker : Copies(v, u, p) /\ Right(parts[<<u, p>>], b, job[v].copied)

HealthOK ==
    \A u \in Upload, p \in Part, b \in Body :
        parts[<<u, p>>] # None /\ Single(u, p, b) => Healthy(u, p, b)

\* What a steady Complete has read, and where it is in the part it reads.
Exact(j) ==
    /\ \A i \in 1 .. Len(j.read) : j.read[i] = Whole(j.list[i][2])
    /\ j.open => /\ Len(j.got) <= Size[NextListed(j)[2]]
                 /\ Right(j.got, NextListed(j)[2], Len(j.got))

SteadyOK ==
    \A w \in Worker : w \in steady =>
        /\ Completing(w)
        /\ \A i \in 1 .. Len(job[w].list) :
            Settled(job[w].upload, job[w].list[i][1], job[w].list[i][2])
        /\ Exact(job[w])

\* The inductive invariant.
MInv == JobsOK /\ PartsOK /\ HealthOK /\ SteadyOK

LEMMA MInitInv == MInit => MInv
  <1> SUFFICES ASSUME MInit PROVE MInv
    OBVIOUS
  <1> USE DEF MInit
  <1>1. JobsOK
    BY DEF JobsOK
  <1>2. PartsOK /\ HealthOK
    BY DEF PartsOK, HealthOK
  <1>3. SteadyOK
    BY DEF SteadyOK
  <1> QED
    BY <1>1, <1>2, <1>3 DEF MInv

-----------------------------------------------------------------------------
(* What a step leaves alone *)

\* Whatever is sent next, what was sent stays sent.
LEMMA FileStays ==
    ASSUME sent \subseteq sent', renames' = renames,
           NEW u, NEW p, NEW c, FileOf(u, p, c)
    PROVE  FileOf(u, p, c)'
  BY DEF FileOf, Belongs

\* A job goes on when files stay files.
LEMMA JobStays ==
    ASSUME sent \subseteq sent', renames' = renames,
           \A x \in Upload \X Part : parts[x] # None => parts'[x] # None,
           NEW j, PartJob(j) \/ CompleteJob(j)
    PROVE  (PartJob(j) \/ CompleteJob(j))'
  <1>1. PartJob(j) => PartJob(j)'
    BY DEF PartJob, PartRequest
  <1>2. CompleteJob(j) => CompleteJob(j)'
    <2> SUFFICES ASSUME CompleteJob(j) PROVE CompleteJob(j)'
      OBVIOUS
    <2>1. \A i \in 1 .. Len(j.read) : FileOf(j.upload, j.list[i][1], j.read[i])'
      BY FileStays DEF CompleteJob, CompleteRequest
    <2>2. j.open => FileOf(j.upload, NextListed(j)[1], j.got)'
      BY FileStays DEF CompleteJob, CompleteRequest
    <2>3. j.open => NextFile(j)' # None
      <3> SUFFICES ASSUME j.open PROVE NextFile(j)' # None
        OBVIOUS
      <3>1. Len(j.read) + 1 \in 1 .. Len(j.list)
        BY DEF CompleteJob, CompleteRequest
      <3>2. NextListed(j)[1] \in Part
        BY <3>1 DEF CompleteJob, CompleteRequest, NextListed
      <3>3. <<j.upload, NextListed(j)[1]>> \in Upload \X Part
        BY <3>2 DEF CompleteJob, CompleteRequest
      <3> QED
        BY <3>3 DEF CompleteJob, CompleteRequest, NextFile, PartPath, NextListed
    <2> QED
      BY <2>1, <2>2, <2>3 DEF CompleteJob, CompleteRequest, NextListed
  <1> QED
    BY <1>1, <1>2

\* A worker takes on a request, or goes on with one, or is done with it.
LEMMA ServeInv ==
    ASSUME MInv, NEW w \in Worker, NEW j, Serve(w, j),
           sent \subseteq sent', renames' = renames,
           \A x \in Upload \X Part : parts[x] # None => parts'[x] # None,
           j # None => (PartJob(j) \/ CompleteJob(j))'
    PROVE  JobsOK'
  <1>1. DOMAIN job' = Worker /\ job' = [v \in Worker |-> job'[v]] /\ job'[w] = j
    BY DEF MInv, JobsOK, Serve
  <1>2. \A v \in Worker : v # w => job'[v] = job[v]
    BY DEF MInv, JobsOK, Serve
  <1>3. ASSUME NEW v \in Worker, job'[v] # None
        PROVE  (PartJob(job[v]) \/ CompleteJob(job[v]))'
    <2>1. CASE v = w
      BY <2>1, <1>1, <1>3
    <2>2. CASE v # w
      <3>1. PICK i : i = job'[v]
        OBVIOUS
      <3>2. PartJob(i) \/ CompleteJob(i)
        BY <2>2, <3>1, <1>2, <1>3 DEF MInv, JobsOK
      <3>3. (PartJob(i) \/ CompleteJob(i))'
        BY <3>2, JobStays
      <3> HIDE DEF PartJob, CompleteJob
      <3> QED
        BY <3>1, <3>3
    <2> QED
      BY <2>1, <2>2
  <1> QED
    BY <1>1, <1>3 DEF JobsOK

\* The other workers go on as they were.
LEMMA Served ==
    ASSUME MInv, NEW w \in Worker, NEW j, Serve(w, j)
    PROVE  /\ job'[w] = j
           /\ \A v \in Worker : v # w =>
                /\ job'[v] = job[v]
                /\ Sending(v)' = Sending(v) /\ Completing(v)' = Completing(v)
                /\ \A u, p : Copies(v, u, p)' = Copies(v, u, p)
           /\ j = None => ~Sending(w)' /\ ~Completing(w)'
  <1>1. job'[w] = j /\ \A v \in Worker : v # w => job'[v] = job[v]
    BY DEF MInv, JobsOK, Serve
  <1> QED
    BY <1>1 DEF Sending, Completing, Idle, Copies

LEMMA SendingJob ==
    ASSUME MInv, NEW w \in Worker, Sending(w)
    PROVE  PartJob(job[w]) /\ ~Completing(w) /\ w \notin steady
  BY DEF MInv, JobsOK, SteadyOK, Sending, Completing, Idle, CompleteJob, CompleteRequest

LEMMA CompletingJob ==
    ASSUME MInv, NEW w \in Worker, Completing(w)
    PROVE  CompleteJob(job[w]) /\ ~Sending(w) /\ \A u, p : ~Copies(w, u, p)
  BY DEF MInv, JobsOK, Sending, Completing, Idle, PartJob, PartRequest, Copies

\* A part stays healthy when its file is left alone, and no call that writes it
\* ends before it has written all, unless the part is then known to be broken.
LEMMA HealthyStays ==
    ASSUME NEW u \in Upload, NEW p \in Part, NEW b \in Body, Healthy(u, p, b),
           parts'[<<u, p>>] = parts[<<u, p>>],
           <<u, p>> \in broken => <<u, p>> \in broken',
           \A v \in Worker : Copies(v, u, p) =>
                \/ Copies(v, u, p)' /\ job'[v].copied = job[v].copied
                \/ <<u, p>> \in broken'
                \/ job[v].copied = Size[b]
    PROVE  Healthy(u, p, b)'
  <1> DEFINE c == parts[<<u, p>>]
  <1>1. Len(c) <= Size[b]
    BY DEF Healthy
  <1>2. CASE Right(c, b, Size[b])
    BY <1>1, <1>2 DEF Healthy, Right
  <1>3. CASE <<u, p>> \in broken
    BY <1>1, <1>3 DEF Healthy
  <1>4. ASSUME NEW v \in Worker, Copies(v, u, p), Right(c, b, job[v].copied)
        PROVE  Healthy(u, p, b)'
    <2>1. CASE Copies(v, u, p)' /\ job'[v].copied = job[v].copied
      BY <1>1, <1>4, <2>1 DEF Healthy, Right
    <2>2. CASE <<u, p>> \in broken'
      BY <1>1, <2>2 DEF Healthy
    <2>3. CASE job[v].copied = Size[b]
      BY <1>1, <1>4, <2>3 DEF Healthy, Right
    <2> QED
      BY <1>4, <2>1, <2>2, <2>3
  <1> QED
    BY <1>2, <1>3, <1>4 DEF Healthy

LEMMA HealthStays ==
    ASSUME MInv, sent \subseteq sent', parts' = parts, broken \subseteq broken',
           \A v \in Worker, u \in Upload, p \in Part : Copies(v, u, p) =>
                \/ Copies(v, u, p)' /\ job'[v].copied = job[v].copied
                \/ <<u, p>> \in broken'
                \/ \A b \in Body : Single(u, p, b) => job[v].copied = Size[b]
    PROVE  HealthOK'
  <1> SUFFICES ASSUME NEW u \in Upload, NEW p \in Part, NEW b \in Body,
                      parts'[<<u, p>>] # None, Single(u, p, b)'
               PROVE  Healthy(u, p, b)'
    BY DEF HealthOK
  <1>1. Single(u, p, b)
    BY DEF Single
  <1>2. Healthy(u, p, b)
    BY <1>1 DEF MInv, HealthOK
  <1>3. \A v \in Worker : Copies(v, u, p) =>
                \/ Copies(v, u, p)' /\ job'[v].copied = job[v].copied
                \/ <<u, p>> \in broken'
                \/ job[v].copied = Size[b]
    BY <1>1
  <1> QED
    BY <1>2, <1>3, HealthyStays

\* A settled part stays settled when nothing more is sent for its upload.
LEMMA SettledStays ==
    ASSUME NEW u, NEW p, NEW b, Settled(u, p, b),
           \A x \in sent' : x \in sent \/ x[1] # u,
           \A y \in broken' : y \in broken
                \/ \E v \in Worker : Sending(v) /\ y = <<job[v].upload, job[v].part>>,
           \A v \in Worker : Sending(v)' =>
                \/ Sending(v) /\ job'[v].upload = job[v].upload /\ job'[v].part = job[v].part
                \/ job'[v].upload # u
    PROVE  Settled(u, p, b)'
  <1>1. \A x \in sent' : x[1] = u /\ x[2] = p => x[3] = b
    BY DEF Settled
  <1>2. PartPath(u, p) \notin broken'
    BY DEF Settled, PartPath
  <1>3. ASSUME NEW v \in Worker, Sending(v)', <<job'[v].upload, job'[v].part>> = <<u, p>>
        PROVE  FALSE
    BY <1>3 DEF Settled
  <1> QED
    BY <1>1, <1>2, <1>3 DEF Settled

\* What a steady Complete knows stays true when nothing is sent for its upload.
SteadyOne(w) ==
    /\ Completing(w)
    /\ \A i \in 1 .. Len(job[w].list) :
        Settled(job[w].upload, job[w].list[i][1], job[w].list[i][2])
    /\ Exact(job[w])

LEMMA SteadyStays ==
    ASSUME NEW w \in Worker, SteadyOne(w), job'[w] = job[w],
           \A x \in sent' : x \in sent \/ x[1] # job[w].upload,
           \A y \in broken' : y \in broken
                \/ \E v \in Worker : Sending(v) /\ y = <<job[v].upload, job[v].part>>,
           \A v \in Worker : Sending(v)' =>
                \/ Sending(v) /\ job'[v].upload = job[v].upload /\ job'[v].part = job[v].part
                \/ job'[v].upload # job[w].upload
    PROVE  SteadyOne(w)'
  <1>1. Completing(w)' /\ Exact(job[w])'
    BY DEF SteadyOne, Completing, Idle, Exact, NextListed
  <1>2. ASSUME NEW i \in 1 .. Len(job[w].list)
        PROVE  Settled(job[w].upload, job[w].list[i][1], job[w].list[i][2])'
    <2>1. PICK u, p, b : u = job[w].upload /\ p = job[w].list[i][1] /\ b = job[w].list[i][2]
      OBVIOUS
    <2>2. Settled(u, p, b)
      BY <2>1 DEF SteadyOne
    <2>3. Settled(u, p, b)'
      BY <2>1, <2>2, SettledStays
    <2> QED
      BY <2>1, <2>3
  <1> QED
    BY <1>1, <1>2 DEF SteadyOne

LEMMA SteadyIsAll == SteadyOK <=> \A w \in Worker : w \in steady => SteadyOne(w)
  BY DEF SteadyOK, SteadyOne

LEMMA SteadyOthers ==
    ASSUME MInv, NEW w \in Worker, NEW j, Serve(w, j), sent' = sent,
           \A y \in broken' : y \in broken
                \/ \E v \in Worker : Sending(v) /\ y = <<job[v].upload, job[v].part>>,
           Sending(w)' => Sending(w) /\ job'[w].upload = job[w].upload /\ job'[w].part = job[w].part,
           NEW v \in Worker, v # w, v \in steady
    PROVE  SteadyOne(v)'
  <1>1. SteadyOne(v)
    BY SteadyIsAll DEF MInv
  <1>2. job'[v] = job[v]
    BY Served
  <1>3. \A z \in Worker : Sending(z)' =>
            Sending(z) /\ job'[z].upload = job[z].upload /\ job'[z].part = job[z].part
    BY Served
  <1> QED
    BY <1>1, <1>2, <1>3, SteadyStays

\* A file is stored as a part.
LEMMA FilePut ==
    ASSUME MInv, NEW u \in Upload, NEW p \in Part, NEW c,
           parts' = [parts EXCEPT ![<<u, p>>] = c],
           sent \subseteq sent', renames' = renames, FileOf(u, p, c)'
    PROVE  /\ PartsOK'
           /\ parts'[<<u, p>>] = c
           /\ \A x \in Upload \X Part : x # <<u, p>> => parts'[x] = parts[x]
           /\ \A x \in Upload \X Part : parts[x] # None => parts'[x] # None
  <1>1. c \in Seq(Block) /\ c # None
    BY MultipartAssumption DEF FileOf
  <1>2. /\ parts \in [Upload \X Part -> Seq(Block) \cup {None}]
        /\ parts' \in [Upload \X Part -> Seq(Block) \cup {None}]
    BY <1>1 DEF MInv, PartsOK
  <1>3. parts'[<<u, p>>] = c
    BY <1>2
  <1>4. \A x \in Upload \X Part : x # <<u, p>> => parts'[x] = parts[x]
    BY <1>2
  <1>5. \A x \in Upload \X Part : parts[x] # None => parts'[x] # None
    BY <1>1, <1>3, <1>4
  <1>6. ASSUME NEW a \in Upload, NEW q \in Part, parts'[<<a, q>>] # None
        PROVE  FileOf(a, q, parts[<<a, q>>])'
    <2>1. CASE <<a, q>> = <<u, p>>
      BY <2>1, <1>3
    <2>2. CASE <<a, q>> # <<u, p>>
      <3>1. PICK d : d = parts'[<<a, q>>]
        OBVIOUS
      <3>2. FileOf(a, q, d)
        BY <2>2, <3>1, <1>4, <1>6 DEF MInv, PartsOK
      <3>3. FileOf(a, q, d)'
        BY <3>2, FileStays
      <3> QED
        BY <3>1, <3>3
    <2> QED
      BY <2>1, <2>2
  <1> QED
    BY <1>2, <1>3, <1>4, <1>5, <1>6 DEF PartsOK

\* Nothing is stored.
LEMMA FilesStay ==
    ASSUME MInv, parts' = parts, sent \subseteq sent', renames' = renames
    PROVE  PartsOK'
  <1>1. \A u \in Upload, p \in Part : parts[<<u, p>>] # None => FileOf(u, p, parts[<<u, p>>])
    BY DEF MInv, PartsOK
  <1>2. ASSUME NEW u \in Upload, NEW p \in Part, parts'[<<u, p>>] # None
        PROVE  FileOf(u, p, parts[<<u, p>>])'
    <2>1. PICK d : d = parts'[<<u, p>>]
      OBVIOUS
    <2>2. FileOf(u, p, d)'
      BY <1>1, <1>2, <2>1, FileStays
    <2> QED
      BY <2>1, <2>2
  <1> QED
    BY <1>2 DEF MInv, PartsOK

-----------------------------------------------------------------------------
(* UploadPart *)

LEMMA UploadPartInv ==
    ASSUME MInv, NEW w \in Worker, NEW u \in Upload, NEW p \in Part, NEW b \in Body,
           UploadPart(w, u, p, b)
    PROVE  MInv'
  <1> DEFINE j == [op |-> "part", upload |-> u, part |-> p, body |-> b,
                   copying |-> FALSE, copied |-> 0]
  <1>1. Serve(w, j) /\ Idle(w) /\ sent' = sent \cup {<<u, p, b>>}
    BY DEF UploadPart
  <1>2. parts' = parts /\ renames' = renames /\ broken' = broken
    BY DEF UploadPart
  <1>3. PartJob(j)'
    BY <1>1, MultipartAssumption DEF PartJob, PartRequest
  <1> HIDE DEF j
  <1>4. JobsOK'
    BY <1>1, <1>2, <1>3, ServeInv
  <1>5. PartsOK'
    BY <1>1, <1>2, FilesStay
  <1>6. HealthOK'
    <2>1. \A a, q : ~Copies(w, a, q)
      BY <1>1 DEF Copies, Sending
    <2>2. \A v \in Worker : \A a, q : Copies(v, a, q) => Copies(v, a, q)' /\ job'[v].copied = job[v].copied
      BY <1>1, <2>1, Served
    <2> QED
      BY <1>1, <1>2, <2>2, HealthStays
  <1>7. SteadyOK'
    <2> SUFFICES ASSUME NEW v \in Worker, v \in steady' PROVE SteadyOne(v)'
      BY DEF SteadyOK, SteadyOne
    <2>1. v \in steady /\ job[v].upload # u
      BY DEF UploadPart
    <2>2. SteadyOne(v)
      BY <2>1, SteadyIsAll DEF MInv
    <2>3. v # w /\ job'[v] = job[v]
      BY <1>1, <2>2, Served DEF SteadyOne, Completing
    <2>4. \A x \in sent' : x \in sent \/ x[1] # job[v].upload
      BY <1>1, <2>1
    <2>5. job'[w].upload = u
      BY <1>1, Served DEF j
    <2>6. \A z \in Worker : Sending(z)' =>
                \/ Sending(z) /\ job'[z].upload = job[z].upload /\ job'[z].part = job[z].part
                \/ job'[z].upload # job[v].upload
      BY <1>1, <2>1, <2>5, Served
    <2> QED
      BY <1>2, <2>2, <2>3, <2>4, <2>6, SteadyStays
  <1> QED
    BY <1>4, <1>5, <1>6, <1>7 DEF MInv

LEMMA PartRenameInv ==
    ASSUME MInv, NEW w \in Worker, PartRename(w)
    PROVE  MInv'
  <1>1. PICK u, p, b : u = job[w].upload /\ p = job[w].part /\ b = job[w].body
    OBVIOUS
  <1>2. /\ Serve(w, None) /\ steady' = steady \ {w} /\ renames
        /\ sent' = sent /\ renames' = renames /\ broken' = broken
        /\ parts' = [parts EXCEPT ![<<u, p>>] = Whole(b)]
    BY <1>1 DEF PartRename, End, PathOf, PartPath
  <1>3. u \in Upload /\ p \in Part /\ b \in Body /\ <<u, p, b>> \in sent
    BY <1>1, SendingJob DEF PartRename, PartJob, PartRequest
  <1>4. FileOf(u, p, Whole(b))
    BY <1>3, WholeIsRight, MultipartAssumption DEF FileOf, Belongs, Right
  <1>5. FileOf(u, p, Whole(b))'
    BY <1>2, <1>4, FileStays DEF Whole, FirstBlocks
  <1>6. /\ PartsOK'
        /\ parts'[<<u, p>>] = Whole(b)
        /\ \A x \in Upload \X Part : x # <<u, p>> => parts'[x] = parts[x]
        /\ \A x \in Upload \X Part : parts[x] # None => parts'[x] # None
    <2>1. PICK c : c = Whole(b)
      OBVIOUS
    <2> QED
      BY <1>2, <1>3, <1>5, <2>1, FilePut DEF Whole, FirstBlocks
  <1>7. JobsOK'
    BY <1>2, <1>6, ServeInv
  <1>8. HealthOK'
    <2> SUFFICES ASSUME NEW a \in Upload, NEW q \in Part, NEW d \in Body,
                        parts'[<<a, q>>] # None, Single(a, q, d)'
                 PROVE  Healthy(a, q, d)'
      BY DEF HealthOK
    <2>1. CASE <<a, q>> = <<u, p>>
      <3>1. d = b
        BY <1>2, <1>3, <2>1 DEF Single
      <3>2. Size[b] \in Nat /\ Len(Whole(b)) = Size[b] /\ Right(Whole(b), b, Size[b])
        BY <1>3, WholeIsRight, MultipartAssumption
      <3>3. PICK c : c = parts'[<<u, p>>]
        OBVIOUS
      <3>4. Len(c) <= Size[b] /\ Right(c, b, Size[b])
        BY <1>6, <3>2, <3>3
      <3>5. Len(parts'[<<a, q>>]) <= Size[d] /\ Right(parts'[<<a, q>>], d, Size[d])
        BY <2>1, <3>1, <3>3, <3>4
      <3> QED
        BY <3>5 DEF Healthy, Right
    <2>2. CASE <<a, q>> # <<u, p>>
      <3>1. parts'[<<a, q>>] = parts[<<a, q>>]
        BY <1>6, <2>2
      <3>2. Healthy(a, q, d)
        BY <1>2, <3>1 DEF MInv, HealthOK, Single
      <3>3. \A v \in Worker : ~Copies(v, a, q)
        BY <1>2, SendingJob DEF Copies, PartJob, PartRequest
      <3> QED
        BY <1>2, <3>1, <3>2, <3>3, HealthyStays
    <2> QED
      BY <2>1, <2>2
  <1>9. SteadyOK'
    <2> SUFFICES ASSUME NEW v \in Worker, v \in steady' PROVE SteadyOne(v)'
      BY DEF SteadyOK, SteadyOne
    <2>1. v \in steady /\ v # w /\ ~Sending(w)'
      BY <1>2, Served
    <2> QED
      BY <1>2, <2>1, SteadyOthers
  <1> QED
    BY <1>6, <1>7, <1>8, <1>9 DEF MInv

LEMMA PartCreateInv ==
    ASSUME MInv, NEW w \in Worker, PartCreate(w)
    PROVE  MInv'
  <1>1. PICK u, p, b, j : /\ u = job[w].upload /\ p = job[w].part /\ b = job[w].body
                         /\ j = [job[w] EXCEPT !.copying = TRUE]
    OBVIOUS
  <1>2. /\ Serve(w, j) /\ steady' = steady /\ ~renames /\ ~job[w].copying
        /\ sent' = sent /\ renames' = renames /\ broken' = broken \ {<<u, p>>}
        /\ parts' = [parts EXCEPT ![<<u, p>>] = <<>>]
    BY <1>1 DEF PartCreate, PathOf, PartPath
  <1>3. u \in Upload /\ p \in Part /\ b \in Body /\ PartJob(job[w])
    BY <1>1, SendingJob DEF PartCreate, PartJob, PartRequest
  <1>4. FileOf(u, p, <<>>)'
    BY DEF FileOf
  <1>5. /\ PartsOK'
        /\ parts'[<<u, p>>] = <<>>
        /\ \A x \in Upload \X Part : x # <<u, p>> => parts'[x] = parts[x]
        /\ \A x \in Upload \X Part : parts[x] # None => parts'[x] # None
    BY <1>2, <1>3, <1>4, FilePut
  <1>6. j.op = "part" /\ j.upload = u /\ j.part = p /\ j.copying /\ j.copied = 0
    BY <1>1, <1>2, <1>3 DEF PartJob, PartRequest
  <1>7. PartJob(j)'
    <2>1. <<>> \in Seq(Block)
      OBVIOUS
    <2>2. parts'[<<u, p>>] # None
      BY <1>5, <2>1, MultipartAssumption
    <2> QED
      BY <1>1, <1>2, <1>3, <1>6, <2>2 DEF PartJob, PartRequest
  <1>8. JobsOK'
    BY <1>2, <1>5, <1>7, ServeInv
  <1>9. HealthOK'
    <2> SUFFICES ASSUME NEW a \in Upload, NEW q \in Part, NEW d \in Body,
                        parts'[<<a, q>>] # None, Single(a, q, d)'
                 PROVE  Healthy(a, q, d)'
      BY DEF HealthOK
    <2>1. CASE <<a, q>> = <<u, p>>
      <3>1. job'[w].copied = 0 /\ Copies(w, a, q)'
        <4>1. job'[w] = j /\ j # None
          BY <1>2, <1>7, Served, MultipartAssumption DEF PartJob
        <4> QED
          BY <1>6, <2>1, <4>1 DEF Copies, Sending, Idle
      <3>2. Len(parts'[<<a, q>>]) = 0 /\ Right(parts'[<<a, q>>], d, 0)
        BY <1>5, <2>1 DEF Right
      <3>3. Size[d] \in Nat
        BY MultipartAssumption
      <3> QED
        BY <3>1, <3>2, <3>3 DEF Healthy, Right
    <2>2. CASE <<a, q>> # <<u, p>>
      <3>1. parts'[<<a, q>>] = parts[<<a, q>>]
        BY <1>5, <2>2
      <3>2. Healthy(a, q, d)
        BY <1>2, <3>1 DEF MInv, HealthOK, Single
      <3>3. \A v \in Worker : Copies(v, a, q) => Copies(v, a, q)' /\ job'[v].copied = job[v].copied
        <4>1. ~Copies(w, a, q)
          BY <1>2 DEF Copies
        <4> QED
          BY <1>2, <4>1, Served
      <3> QED
        BY <1>2, <2>2, <3>1, <3>2, <3>3, HealthyStays
    <2> QED
      BY <2>1, <2>2
  <1>10. SteadyOK'
    <2> SUFFICES ASSUME NEW v \in Worker, v \in steady' PROVE SteadyOne(v)'
      BY DEF SteadyOK, SteadyOne
    <2>1. v \in steady /\ v # w
      BY <1>2, SendingJob DEF PartCreate
    <2>2. job'[w] = j /\ Sending(w)
      BY <1>2, Served DEF PartCreate
    <2>3. Sending(w) /\ job'[w].upload = job[w].upload /\ job'[w].part = job[w].part
      BY <1>1, <1>6, <2>2
    <2>4. \A y \in broken' : y \in broken
      BY <1>2
    <2> QED
      BY <1>2, <2>1, <2>3, <2>4, SteadyOthers
  <1> QED
    BY <1>5, <1>8, <1>9, <1>10 DEF MInv

LEMMA PartBlockInv ==
    ASSUME MInv, NEW w \in Worker, PartBlock(w)
    PROVE  MInv'
  <1>1. PICK u, p, b, n, j, c : /\ u = job[w].upload /\ p = job[w].part /\ b = job[w].body
                               /\ n = job[w].copied + 1
                               /\ j = [job[w] EXCEPT !.copied = n]
                               /\ c = parts[<<u, p>>]
    OBVIOUS
  <1>2. /\ Serve(w, j) /\ steady' = steady /\ job[w].copying /\ n <= Size[b]
        /\ sent' = sent /\ renames' = renames /\ broken' = broken
        /\ parts' = [parts EXCEPT ![<<u, p>>] = Overwrite(c, n, <<b, n>>)]
    BY <1>1 DEF PartBlock, PathOf, PartPath, mhistory
  <1>3. /\ u \in Upload /\ p \in Part /\ b \in Body /\ PartJob(job[w]) /\ <<u, p, b>> \in sent
        /\ ~renames /\ c # None /\ c \in Seq(Block) /\ n \in Nat /\ n # 0 /\ FileOf(u, p, c)
    <2>1. PartJob(job[w])
      BY SendingJob DEF PartBlock
    <2>2. u \in Upload /\ p \in Part /\ b \in Body /\ <<u, p, b>> \in sent /\ ~renames /\ c # None
      BY <1>1, <1>2, <2>1 DEF PartJob, PartRequest
    <2>3. c \in Seq(Block) /\ FileOf(u, p, c)
      BY <1>1, <2>2 DEF MInv, PartsOK, FileOf
    <2>4. n \in Nat /\ n # 0
      BY <1>1, <2>1, MultipartAssumption DEF PartJob, PartRequest
    <2> QED
      BY <2>1, <2>2, <2>3, <2>4
  <1>4. PICK e : e = Overwrite(c, n, <<b, n>>)
    OBVIOUS
  <1>5. /\ e \in Seq(Block) /\ Len(e) = IF n > Len(c) THEN n ELSE Len(c)
        /\ e[n] = <<b, n>>
        /\ \A k \in 1 .. Len(e) : k # n => e[k] = IF k <= Len(c) THEN c[k] ELSE Hole
    <2>1. <<b, n>> \in Block
      BY <1>3 DEF Block
    <2> QED
      BY <1>3, <1>4, <2>1, Overwritten
  <1>6. FileOf(u, p, e)
    <2> SUFFICES ASSUME NEW k \in 1 .. Len(e) PROVE Belongs(u, p, k, e[k])
      BY <1>5 DEF FileOf
    <2>1. CASE k = n
      BY <1>3, <1>5, <2>1 DEF Belongs
    <2>2. CASE k # n /\ k <= Len(c)
      BY <1>3, <1>5, <2>2 DEF FileOf
    <2>3. CASE k # n /\ ~(k <= Len(c))
      BY <1>3, <1>5, <2>3 DEF Belongs
    <2> QED
      BY <2>1, <2>2, <2>3
  <1>7. FileOf(u, p, e)'
    BY <1>2, <1>6, FileStays
  <1>8. /\ PartsOK'
        /\ parts'[<<u, p>>] = e
        /\ \A x \in Upload \X Part : x # <<u, p>> => parts'[x] = parts[x]
        /\ \A x \in Upload \X Part : parts[x] # None => parts'[x] # None
    BY <1>2, <1>3, <1>4, <1>7, FilePut
  <1>9. /\ j.op = "part" /\ j.upload = u /\ j.part = p /\ j.body = b /\ j.copying /\ j.copied = n
        /\ n \in 0 .. Size[b]
    BY <1>1, <1>2, <1>3, MultipartAssumption DEF PartJob, PartRequest
  <1>10. PartJob(j)'
    <2>1. parts'[<<u, p>>] # None
      BY <1>1, <1>3, <1>8
    <2> QED
      BY <1>1, <1>2, <1>3, <1>9, <2>1 DEF PartJob, PartRequest
  <1>11. JobsOK'
    BY <1>2, <1>8, <1>10, ServeInv
  <1>12. job'[w] = j /\ Copies(w, u, p)'
    <2>1. job'[w] = j /\ j # None
      BY <1>2, <1>10, Served, MultipartAssumption DEF PartJob
    <2> QED
      BY <1>9, <2>1 DEF Copies, Sending, Idle
  <1>13. HealthOK'
    <2> SUFFICES ASSUME NEW a \in Upload, NEW q \in Part, NEW d \in Body,
                        parts'[<<a, q>>] # None, Single(a, q, d)'
                 PROVE  Healthy(a, q, d)'
      BY DEF HealthOK
    <2>1. CASE <<a, q>> = <<u, p>>
      <3>1. d = b
        BY <1>2, <1>3, <2>1 DEF Single
      <3>2. Healthy(u, p, b)
        BY <1>1, <1>2, <1>3, <2>1, <3>1 DEF MInv, HealthOK, Single
      <3>3. ASSUME NEW m \in Nat, Right(c, b, m)
            PROVE  Right(e, b, m)
        <4>1. m <= Len(c) /\ Len(c) <= Len(e) /\ Len(c) \in Nat /\ Len(e) \in Nat
          BY <1>3, <1>5, <3>3 DEF Right
        <4>2. \A k \in 1 .. m : e[k] = <<b, k>>
          <5> SUFFICES ASSUME NEW k \in 1 .. m PROVE e[k] = <<b, k>>
            OBVIOUS
          <5>1. k \in 1 .. Len(e) /\ k <= Len(c) /\ c[k] = <<b, k>>
            BY <3>3, <4>1 DEF Right
          <5> QED
            BY <1>5, <5>1
        <4> QED
          BY <4>1, <4>2 DEF Right
      <3>4. Size[b] \in Nat /\ Len(e) <= Size[b]
        BY <1>1, <1>2, <1>3, <1>5, <3>2, MultipartAssumption DEF Healthy
      <3>5. CASE Right(c, b, Size[b])
        BY <1>8, <2>1, <3>1, <3>3, <3>4, <3>5 DEF Healthy, Right
      <3>6. CASE <<u, p>> \in broken
        BY <1>2, <1>8, <2>1, <3>1, <3>4, <3>6 DEF Healthy
      <3>7. ASSUME NEW v \in Worker, Copies(v, u, p), Right(c, b, job[v].copied)
            PROVE  Healthy(a, q, d)'
        <4>1. PICK z \in Worker : Copies(z, u, p)' /\ Right(e, b, job'[z].copied)
          <5>1. CASE v = w
            <6>1. job[w].copied = n - 1 /\ n - 1 \in Nat
              BY <1>1, <1>3, MultipartAssumption DEF PartJob, PartRequest
            <6>2. Right(e, b, n - 1)
              BY <3>3, <3>7, <5>1, <6>1
            <6>3. n <= Len(e)
              BY <1>3, <1>5
            <6>4. Right(e, b, n)
              BY <1>3, <1>5, <6>2, <6>3 DEF Right
            <6> QED
              BY <1>9, <1>12, <6>4
          <5>2. CASE v # w
            <6>1. job'[v] = job[v] /\ Copies(v, u, p)'
              BY <1>2, <3>7, <5>2, Served
            <6>2. PartJob(job[v])
              BY <3>7, SendingJob DEF Copies
            <6>3. job[v].copied \in Nat
              BY <6>2, MultipartAssumption DEF PartJob, PartRequest
            <6>4. Right(e, b, job[v].copied)
              BY <3>3, <3>7, <6>3
            <6> QED
              BY <6>1, <6>4
          <5> QED
            BY <5>1, <5>2
        <4> QED
          BY <1>8, <2>1, <3>1, <3>4, <4>1 DEF Healthy, Right
      <3> QED
        BY <1>1, <3>2, <3>5, <3>6, <3>7 DEF Healthy
    <2>2. CASE <<a, q>> # <<u, p>>
      <3>1. parts'[<<a, q>>] = parts[<<a, q>>]
        BY <1>8, <2>2
      <3>2. Healthy(a, q, d)
        BY <1>2, <3>1 DEF MInv, HealthOK, Single
      <3>3. \A v \in Worker : Copies(v, a, q) => Copies(v, a, q)' /\ job'[v].copied = job[v].copied
        <4>1. ~Copies(w, a, q)
          BY <1>1, <2>2 DEF Copies
        <4> QED
          BY <1>2, <4>1, Served
      <3> QED
        BY <1>2, <3>1, <3>2, <3>3, HealthyStays
    <2> QED
      BY <2>1, <2>2
  <1>14. SteadyOK'
    <2> SUFFICES ASSUME NEW v \in Worker, v \in steady' PROVE SteadyOne(v)'
      BY DEF SteadyOK, SteadyOne
    <2>1. v \in steady /\ v # w
      BY <1>2, SendingJob DEF PartBlock
    <2>2. Sending(w) /\ job'[w].upload = job[w].upload /\ job'[w].part = job[w].part
      BY <1>1, <1>9, <1>12 DEF PartBlock
    <2> QED
      BY <1>2, <2>1, <2>2, SteadyOthers
  <1> QED
    BY <1>8, <1>11, <1>13, <1>14 DEF MInv

\* A call ends, and the file it was copying to is complete or known to be broken.
LEMMA PartEndInv ==
    ASSUME MInv, NEW w \in Worker, Sending(w), End(w),
           parts' = parts, sent' = sent, renames' = renames,
           \/ broken' = broken /\ job[w].copying /\ PartCopied(job[w])
           \/ broken' = broken \cup LeftBroken(w)
    PROVE  MInv'
  <1>1. Serve(w, None) /\ steady' = steady \ {w}
    BY DEF End
  <1>2. JobsOK'
    BY <1>1, ServeInv
  <1>3. PartsOK'
    BY FilesStay
  <1>4. HealthOK'
    <2>1. ASSUME NEW u \in Upload, NEW p \in Part, Copies(w, u, p)
          PROVE  \/ <<u, p>> \in broken'
                 \/ \A b \in Body : Single(u, p, b) => job[w].copied = Size[b]
      <3>1. CASE broken' = broken /\ job[w].copying /\ PartCopied(job[w])
        <4>1. job[w].copied = Size[job[w].body] /\ <<u, p, job[w].body>> \in sent
          BY <2>1, <3>1, SendingJob DEF PartCopied, Copies, PartJob
        <4> QED
          BY <4>1 DEF Single
      <3>2. CASE broken' = broken \cup LeftBroken(w)
        BY <2>1, <3>2 DEF LeftBroken, Copies, PathOf, PartPath
      <3> QED
        BY <3>1, <3>2
    <2>2. ASSUME NEW v \in Worker, NEW u \in Upload, NEW p \in Part, Copies(v, u, p)
          PROVE  \/ Copies(v, u, p)' /\ job'[v].copied = job[v].copied
                 \/ <<u, p>> \in broken'
                 \/ \A b \in Body : Single(u, p, b) => job[v].copied = Size[b]
      <3>1. CASE v = w
        BY <2>1, <2>2, <3>1
      <3>2. CASE v # w
        BY <1>1, <2>2, <3>2, Served
      <3> QED
        BY <3>1, <3>2
    <2> QED
      BY <2>2, HealthStays
  <1>5. SteadyOK'
    <2> SUFFICES ASSUME NEW v \in Worker, v \in steady' PROVE SteadyOne(v)'
      BY DEF SteadyOK, SteadyOne
    <2>1. v \in steady /\ v # w /\ ~Sending(w)'
      BY <1>1, Served
    <2>2. \A y \in broken' : y \in broken
                \/ \E z \in Worker : Sending(z) /\ y = <<job[z].upload, job[z].part>>
      BY DEF LeftBroken, PathOf, PartPath
    <2> QED
      BY <1>1, <2>1, <2>2, SteadyOthers
  <1> QED
    BY <1>2, <1>3, <1>4, <1>5 DEF MInv

-----------------------------------------------------------------------------
(* CompleteMultipartUpload *)

\* A Complete takes a step, or begins, or ends: nothing else changes.
LEMMA CompleteInv ==
    ASSUME MInv, NEW w \in Worker, NEW j, Idle(w) \/ Completing(w), Serve(w, j),
           parts' = parts, sent' = sent, renames' = renames, broken' = broken,
           \A v \in Worker : v \in steady' => v = w \/ v \in steady,
           j # None => CompleteJob(j),
           w \in steady' =>
                /\ j # None
                /\ \A i \in 1 .. Len(j.list) : Settled(j.upload, j.list[i][1], j.list[i][2])
                /\ Exact(j)
    PROVE  MInv'
  <1>1. ~Sending(w) /\ \A u, p : ~Copies(w, u, p)
    BY DEF Copies, Sending, Completing
  <1>2. j # None => j.op = "complete" /\ CompleteJob(j)'
    <2>1. CompleteJob(j) => CompleteJob(j)' /\ j.op = "complete"
      BY DEF CompleteJob, CompleteRequest, FileOf, Belongs, NextFile, NextListed, PartPath
    <2> QED
      BY <2>1
  <1>3. job'[w] = j
    BY Served
  <1>4. ~Sending(w)'
    BY <1>2, <1>3 DEF Sending, Idle
  <1>5. JobsOK'
    BY <1>2, ServeInv
  <1>6. PartsOK'
    BY FilesStay
  <1>7. HealthOK'
    <2>1. \A v \in Worker : \A u, p : Copies(v, u, p) => Copies(v, u, p)' /\ job'[v].copied = job[v].copied
      BY <1>1, Served
    <2> QED
      BY <2>1, HealthStays
  <1>8. SteadyOK'
    <2> SUFFICES ASSUME NEW v \in Worker, v \in steady' PROVE SteadyOne(v)'
      BY DEF SteadyOK, SteadyOne
    <2>1. CASE v # w
      BY <1>4, <2>1, SteadyOthers
    <2>2. CASE v = w
      <3>1. ASSUME NEW u, NEW p, NEW b, Settled(u, p, b)
            PROVE  Settled(u, p, b)'
        <4>1. \A z \in Worker : Sending(z)' =>
                Sending(z) /\ job'[z].upload = job[z].upload /\ job'[z].part = job[z].part
          BY <1>4, Served
        <4> QED
          BY <3>1, <4>1, SettledStays
      <3>2. PICK k : k = job'[w]
        OBVIOUS
      <3>3. k = j /\ k # None /\ Exact(k)
        BY <1>3, <2>2, <3>2
      <3>4. \A i \in 1 .. Len(k.list) : Settled(k.upload, k.list[i][1], k.list[i][2])
        BY <2>2, <3>3
      <3>5. ASSUME NEW i \in 1 .. Len(k.list)
            PROVE  Settled(k.upload, k.list[i][1], k.list[i][2])'
        <4>1. PICK u, p, b : u = k.upload /\ p = k.list[i][1] /\ b = k.list[i][2]
          OBVIOUS
        <4> QED
          BY <3>1, <3>4, <4>1
      <3>6. Exact(k)'
        BY <3>3 DEF Exact, NextListed
      <3>7. Completing(w)'
        BY <1>2, <3>2, <3>3 DEF Completing, Idle
      <3> QED
        BY <2>2, <3>2, <3>5, <3>6, <3>7 DEF SteadyOne
    <2> QED
      BY <2>1, <2>2
  <1> QED
    BY <1>5, <1>6, <1>7, <1>8 DEF MInv

\* A settled part that is there holds its body.
LEMMA SettledFile ==
    ASSUME MInv, NEW u \in Upload, NEW p \in Part, NEW b \in Body,
           Settled(u, p, b), parts[<<u, p>>] # None
    PROVE  parts[<<u, p>>] = Whole(b)
  <1>1. Single(u, p, b) /\ <<u, p>> \notin broken
    BY DEF Settled, Single, PartPath
  <1>2. \A v \in Worker : ~Copies(v, u, p)
    BY DEF Settled, Copies
  <1>3. Healthy(u, p, b)
    BY <1>1 DEF MInv, HealthOK
  <1>4. Len(parts[<<u, p>>]) <= Size[b] /\ Right(parts[<<u, p>>], b, Size[b])
    BY <1>1, <1>2, <1>3 DEF Healthy
  <1>5. parts[<<u, p>>] \in Seq(Block)
    BY DEF MInv, PartsOK
  <1> QED
    BY <1>4, <1>5, RightIsWhole

LEMMA CompleteBeginInv ==
    ASSUME MInv, NEW w \in Worker, NEW u \in Upload, CompleteMultipartUpload(w, u)
    PROVE  MInv'
  <1>1. PICK s \in Lists :
            /\ Serve(w, [op |-> "complete", upload |-> u, list |-> s, read |-> <<>>,
                         open |-> FALSE, got |-> <<>>])
            /\ steady' = IF \A i \in DOMAIN s : Settled(u, s[i][1], s[i][2]) THEN steady \cup {w} ELSE steady
    BY DEF CompleteMultipartUpload
  <1>2. Idle(w) /\ parts' = parts /\ sent' = sent /\ renames' = renames /\ broken' = broken
    BY DEF CompleteMultipartUpload
  <1>3. PICK j : j = [op |-> "complete", upload |-> u, list |-> s, read |-> <<>>,
                      open |-> FALSE, got |-> <<>>]
    OBVIOUS
  <1>4. s \in Seq(Part \X Body)
    BY MultipartAssumption
  <1>5. /\ j \in CompleteRequest
        /\ j.upload = u /\ j.list = s /\ j.read = <<>> /\ j.open = FALSE /\ j.got = <<>>
    BY <1>3, <1>4 DEF CompleteRequest
  <1>6. CompleteJob(j) /\ Exact(j) /\ j # None
    BY <1>4, <1>5, MultipartAssumption DEF CompleteJob, Exact
  <1>7. w \notin steady
    BY <1>2 DEF MInv, SteadyOK, Completing
  <1>8. w \in steady' => \A i \in 1 .. Len(j.list) : Settled(j.upload, j.list[i][1], j.list[i][2])
    BY <1>1, <1>4, <1>5, <1>7
  <1>9. \A v \in Worker : v \in steady' => v = w \/ v \in steady
    BY <1>1
  <1>10. Serve(w, j)
    BY <1>1, <1>3
  <1> QED
    BY <1>2, <1>6, <1>8, <1>9, <1>10, CompleteInv

\* What a Complete with more to read knows of the next part of its list.
LEMMA NextPart ==
    ASSUME MInv, NEW w \in Worker, MoreListed(w), NEW j, j = job[w]
    PROVE  /\ CompleteJob(j) /\ Completing(w)
           /\ Len(j.read) + 1 \in 1 .. Len(j.list) /\ Len(j.read) \in Nat
           /\ NextListed(j) \in Part \X Body
           /\ NextFile(j) # None => FileOf(j.upload, NextListed(j)[1], NextFile(j))
           /\ w \in steady =>
                /\ \A i \in 1 .. Len(j.list) : Settled(j.upload, j.list[i][1], j.list[i][2])
                /\ Exact(j)
                /\ NextFile(j) # None => NextFile(j) = Whole(NextListed(j)[2])
  <1>1. CompleteJob(j) /\ Completing(w) /\ Len(j.read) < Len(j.list)
    BY CompletingJob DEF MoreListed
  <1>2. Len(j.read) + 1 \in 1 .. Len(j.list) /\ Len(j.read) \in Nat
    BY <1>1 DEF CompleteJob, CompleteRequest
  <1>3. NextListed(j) \in Part \X Body
    BY <1>1, <1>2 DEF CompleteJob, CompleteRequest, NextListed
  <1>4. PICK u, p, b : u = j.upload /\ p = NextListed(j)[1] /\ b = NextListed(j)[2]
    OBVIOUS
  <1>5. u \in Upload /\ p \in Part /\ b \in Body /\ NextFile(j) = parts[<<u, p>>]
    BY <1>1, <1>3, <1>4 DEF CompleteJob, CompleteRequest, NextFile, PartPath
  <1>6. NextFile(j) # None => FileOf(u, p, NextFile(j))
    BY <1>5 DEF MInv, PartsOK
  <1>7. ASSUME w \in steady
        PROVE  /\ \A i \in 1 .. Len(j.list) : Settled(j.upload, j.list[i][1], j.list[i][2])
               /\ Exact(j)
               /\ NextFile(j) # None => NextFile(j) = Whole(b)
    <2>1. SteadyOne(w)
      BY <1>7, SteadyIsAll DEF MInv
    <2>2. /\ \A i \in 1 .. Len(j.list) : Settled(j.upload, j.list[i][1], j.list[i][2])
          /\ Exact(j)
      BY <2>1 DEF SteadyOne
    <2>3. Settled(u, p, b)
      BY <1>2, <1>4, <2>2 DEF NextListed
    <2>4. NextFile(j) # None => NextFile(j) = Whole(b)
      BY <1>5, <2>3, SettledFile
    <2> QED
      BY <2>2, <2>4
  <1> QED
    BY <1>1, <1>2, <1>3, <1>4, <1>6, <1>7

\* A Complete that has the whole next part goes on with the list.
LEMMA ReadOn ==
    ASSUME MInv, NEW w \in Worker, MoreListed(w), NEW c, NEW k,
           FileOf(job[w].upload, NextListed(job[w])[1], c),
           w \in steady => c = Whole(NextListed(job[w])[2]),
           k \in CompleteRequest, k.upload = job[w].upload, k.list = job[w].list,
           k.read = Append(job[w].read, c), ~k.open, k.got = <<>>,
           Serve(w, k), steady' = steady,
           parts' = parts, sent' = sent, renames' = renames, broken' = broken
    PROVE  MInv'
  <1>1. PICK j : j = job[w]
    OBVIOUS
  <1>2. /\ CompleteJob(j) /\ Completing(w)
        /\ Len(j.read) + 1 \in 1 .. Len(j.list) /\ Len(j.read) \in Nat
        /\ w \in steady =>
            /\ \A i \in 1 .. Len(j.list) : Settled(j.upload, j.list[i][1], j.list[i][2])
            /\ Exact(j)
    BY <1>1, NextPart
  <1>3. /\ Len(k.read) = Len(j.read) + 1
        /\ \A i \in 1 .. Len(j.read) : k.read[i] = j.read[i]
        /\ k.read[Len(j.read) + 1] = c
    <2>1. j.read \in Seq(Seq(Block)) /\ c \in Seq(Block)
      BY <1>2 DEF CompleteJob, CompleteRequest, FileOf
    <2> QED
      BY <1>1, <2>1
  <1>4. CompleteJob(k)
    <2>1. \A i \in 1 .. Len(k.read) : FileOf(k.upload, k.list[i][1], k.read[i])
      <3> SUFFICES ASSUME NEW i \in 1 .. Len(k.read)
                   PROVE  FileOf(k.upload, k.list[i][1], k.read[i])
        OBVIOUS
      <3>1. CASE i = Len(j.read) + 1
        BY <1>1, <1>3, <3>1 DEF NextListed
      <3>2. CASE i # Len(j.read) + 1
        BY <1>1, <1>2, <1>3, <3>2 DEF CompleteJob
      <3> QED
        BY <3>1, <3>2
    <2> QED
      BY <1>1, <1>2, <1>3, <2>1 DEF CompleteJob
  <1>5. w \in steady => Exact(k)
    <2> SUFFICES ASSUME w \in steady PROVE Exact(k)
      OBVIOUS
    <2>1. \A i \in 1 .. Len(k.read) : k.read[i] = Whole(k.list[i][2])
      <3> SUFFICES ASSUME NEW i \in 1 .. Len(k.read)
                   PROVE  k.read[i] = Whole(k.list[i][2])
        OBVIOUS
      <3>1. CASE i = Len(j.read) + 1
        BY <1>1, <1>3, <3>1 DEF NextListed
      <3>2. CASE i # Len(j.read) + 1
        BY <1>1, <1>2, <1>3, <3>2 DEF Exact
      <3> QED
        BY <3>1, <3>2
    <2> QED
      BY <2>1 DEF Exact
  <1>6. k # None
    BY MultipartAssumption
  <1> QED
    BY <1>1, <1>2, <1>4, <1>5, <1>6, CompleteInv

LEMMA CompleteOpenInv ==
    ASSUME MInv, NEW w \in Worker, CompleteOpen(w)
    PROVE  MInv'
  <1>1. PICK j : j = job[w]
    OBVIOUS
  <1>2. /\ MoreListed(w) /\ ~j.open /\ NextFile(j) # None
        /\ steady' = steady /\ parts' = parts /\ sent' = sent /\ renames' = renames /\ broken' = broken
    BY <1>1 DEF CompleteOpen, mhistory
  <1>3. /\ CompleteJob(j) /\ Completing(w) /\ Len(j.read) + 1 \in 1 .. Len(j.list)
        /\ FileOf(j.upload, NextListed(j)[1], NextFile(j))
        /\ w \in steady =>
            /\ \A i \in 1 .. Len(j.list) : Settled(j.upload, j.list[i][1], j.list[i][2])
            /\ Exact(j)
            /\ NextFile(j) = Whole(NextListed(j)[2])
        /\ NextListed(j) \in Part \X Body
    BY <1>1, <1>2, NextPart
  <1>4. CASE renames
    <2>1. PICK c, k : c = NextFile(j) /\ k = [j EXCEPT !.read = Append(@, c)]
      OBVIOUS
    <2>2. Serve(w, k)
      BY <1>1, <1>4, <2>1 DEF CompleteOpen
    <2>3. /\ k \in CompleteRequest /\ k.upload = j.upload /\ k.list = j.list
          /\ k.read = Append(j.read, c) /\ ~k.open /\ k.got = <<>>
      <3>1. j \in CompleteRequest /\ j.got = <<>> /\ c \in Seq(Block)
        BY <1>2, <1>3, <2>1 DEF CompleteJob, FileOf
      <3>2. Append(j.read, c) \in Seq(Seq(Block))
        BY <3>1 DEF CompleteRequest
      <3> QED
        BY <1>2, <2>1, <3>1, <3>2 DEF CompleteRequest
    <2> QED
      BY <1>1, <1>2, <1>3, <2>1, <2>2, <2>3, ReadOn
  <1>5. CASE ~renames
    <2>1. PICK k : k = [j EXCEPT !.open = TRUE]
      OBVIOUS
    <2>2. Serve(w, k)
      BY <1>1, <1>5, <2>1 DEF CompleteOpen
    <2>3. /\ k \in CompleteRequest /\ k.upload = j.upload /\ k.list = j.list
          /\ k.read = j.read /\ k.open /\ k.got = <<>>
      <3>1. j \in CompleteRequest /\ j.got = <<>>
        BY <1>2, <1>3 DEF CompleteJob
      <3> QED
        BY <2>1, <3>1 DEF CompleteRequest
    <2>4. NextListed(k) = NextListed(j) /\ NextFile(k) = NextFile(j)
      BY <2>3 DEF NextListed, NextFile
    <2>5. CompleteJob(k)
      <3>1. FileOf(k.upload, NextListed(k)[1], <<>>)
        BY DEF FileOf
      <3> QED
        BY <1>2, <1>3, <2>3, <2>4, <3>1 DEF CompleteJob
    <2>6. w \in steady => Exact(k)
      <3>1. Size[NextListed(j)[2]] \in Nat
        BY <1>3, MultipartAssumption
      <3> QED
        BY <1>3, <2>3, <2>4, <3>1 DEF Exact, Right
    <2>7. k # None
      BY <2>3, MultipartAssumption
    <2> QED
      BY <1>2, <1>3, <2>2, <2>3, <2>5, <2>6, <2>7, CompleteInv
  <1> QED
    BY <1>4, <1>5

LEMMA CompleteBlockInv ==
    ASSUME MInv, NEW w \in Worker, CompleteBlock(w)
    PROVE  MInv'
  <1>1. PICK j, c, n, k : /\ j = job[w] /\ c = NextFile(j) /\ n = Len(j.got) + 1
                         /\ k = [j EXCEPT !.got = Append(@, c[n])]
    OBVIOUS
  <1>2. /\ MoreListed(w) /\ j.open /\ Len(j.got) < Len(c) /\ Serve(w, k)
        /\ steady' = steady /\ parts' = parts /\ sent' = sent /\ renames' = renames /\ broken' = broken
    BY <1>1 DEF CompleteBlock, mhistory
  <1>3. /\ CompleteJob(j) /\ Completing(w) /\ Len(j.read) + 1 \in 1 .. Len(j.list)
        /\ NextFile(j) # None => FileOf(j.upload, NextListed(j)[1], NextFile(j))
        /\ w \in steady =>
            /\ \A i \in 1 .. Len(j.list) : Settled(j.upload, j.list[i][1], j.list[i][2])
            /\ Exact(j)
            /\ NextFile(j) # None => NextFile(j) = Whole(NextListed(j)[2])
        /\ NextListed(j) \in Part \X Body
    BY <1>1, <1>2, NextPart
  <1>4. c # None /\ FileOf(j.upload, NextListed(j)[1], c) /\ FileOf(j.upload, NextListed(j)[1], j.got)
    BY <1>1, <1>2, <1>3 DEF CompleteJob
  <1>5. /\ n \in 1 .. Len(c) /\ c[n] \in Block /\ j.got \in Seq(Block)
        /\ Append(j.got, c[n]) \in Seq(Block) /\ Len(Append(j.got, c[n])) = n
        /\ \A i \in 1 .. n : Append(j.got, c[n])[i] = IF i = n THEN c[n] ELSE j.got[i]
    <2>1. c \in Seq(Block) /\ j.got \in Seq(Block)
      BY <1>4 DEF FileOf
    <2>2. n \in 1 .. Len(c) /\ c[n] \in Block
      BY <1>1, <1>2, <2>1
    <2> QED
      BY <1>1, <2>1, <2>2
  <1>6. PICK g : g = Append(j.got, c[n])
    OBVIOUS
  <1>7. /\ k \in CompleteRequest /\ k.upload = j.upload /\ k.list = j.list
        /\ k.read = j.read /\ k.open /\ k.got = g
    <2>1. j \in CompleteRequest /\ g \in Seq(Block)
      BY <1>3, <1>5, <1>6 DEF CompleteJob
    <2> QED
      BY <1>1, <1>2, <1>6, <2>1 DEF CompleteRequest
  <1>8. NextListed(k) = NextListed(j) /\ NextFile(k) = NextFile(j)
    BY <1>7 DEF NextListed, NextFile
  <1>9. FileOf(j.upload, NextListed(j)[1], g)
    <2>1. \A i \in 1 .. n : i # n => i \in 1 .. Len(j.got)
      BY <1>1, <1>5
    <2>2. \A i \in 1 .. n : Belongs(j.upload, NextListed(j)[1], i, g[i])
      BY <1>4, <1>5, <1>6, <2>1 DEF FileOf
    <2> QED
      BY <1>5, <1>6, <2>2 DEF FileOf
  <1>10. CompleteJob(k)
    BY <1>2, <1>3, <1>7, <1>8, <1>9 DEF CompleteJob
  <1>11. w \in steady => Exact(k)
    <2> SUFFICES ASSUME w \in steady PROVE Exact(k)
      OBVIOUS
    <2>1. PICK b : b = NextListed(j)[2]
      OBVIOUS
    <2>2. b \in Body /\ Size[b] \in Nat /\ c = Whole(b) /\ Exact(j)
      BY <1>1, <1>3, <1>4, <2>1, MultipartAssumption
    <2>3. n <= Size[b] /\ c[n] = <<b, n>>
      BY <1>5, <2>2, WholeIsRight DEF Right
    <2>4. \A i \in 1 .. n : g[i] = <<b, i>>
      <3>1. \A i \in 1 .. Len(j.got) : j.got[i] = <<b, i>>
        BY <1>2, <2>1, <2>2 DEF Exact, Right
      <3> QED
        BY <1>1, <1>5, <1>6, <2>3, <3>1
    <2>5. Len(g) = n
      BY <1>5, <1>6
    <2> QED
      BY <1>7, <1>8, <2>1, <2>2, <2>3, <2>4, <2>5 DEF Exact, Right
  <1>12. k # None
    BY <1>7, MultipartAssumption
  <1> QED
    BY <1>2, <1>3, <1>7, <1>10, <1>11, <1>12, CompleteInv

LEMMA CompleteReadInv ==
    ASSUME MInv, NEW w \in Worker, CompleteRead(w)
    PROVE  MInv'
  <1>1. PICK j, k : /\ j = job[w]
                   /\ k = [j EXCEPT !.read = Append(@, j.got), !.open = FALSE, !.got = <<>>]
    OBVIOUS
  <1>2. /\ MoreListed(w) /\ j.open /\ Len(j.got) >= Len(NextFile(j)) /\ Serve(w, k)
        /\ steady' = steady /\ parts' = parts /\ sent' = sent /\ renames' = renames /\ broken' = broken
    BY <1>1 DEF CompleteRead, mhistory
  <1>3. /\ CompleteJob(j) /\ NextListed(j) \in Part \X Body
        /\ w \in steady =>
            /\ Exact(j)
            /\ NextFile(j) # None => NextFile(j) = Whole(NextListed(j)[2])
    BY <1>1, <1>2, NextPart
  <1>4. FileOf(j.upload, NextListed(j)[1], j.got) /\ NextFile(j) # None /\ j \in CompleteRequest
    BY <1>2, <1>3 DEF CompleteJob
  <1>5. w \in steady => j.got = Whole(NextListed(j)[2])
    <2> SUFFICES ASSUME w \in steady PROVE j.got = Whole(NextListed(j)[2])
      OBVIOUS
    <2>1. PICK b, g : b = NextListed(j)[2] /\ g = j.got
      OBVIOUS
    <2>2. /\ b \in Body /\ Size[b] \in Nat /\ g \in Seq(Block)
          /\ Len(g) <= Size[b] /\ Right(g, b, Len(g)) /\ NextFile(j) = Whole(b)
      BY <1>2, <1>3, <1>4, <2>1, MultipartAssumption DEF Exact, FileOf
    <2>3. Len(g) = Size[b]
      BY <1>2, <2>1, <2>2, WholeIsRight
    <2> QED
      BY <2>1, <2>2, <2>3, RightIsWhole
  <1>6. /\ k \in CompleteRequest /\ k.upload = j.upload /\ k.list = j.list
        /\ k.read = Append(j.read, j.got) /\ ~k.open /\ k.got = <<>>
    <2>1. PICK r : r = Append(j.read, j.got)
      OBVIOUS
    <2>2. r \in Seq(Seq(Block)) /\ <<>> \in Seq(Block)
      BY <1>4, <2>1 DEF CompleteRequest
    <2>3. k = [j EXCEPT !.read = r, !.open = FALSE, !.got = <<>>]
      BY <1>1, <1>4, <2>1 DEF CompleteRequest
    <2> QED
      BY <1>4, <2>1, <2>2, <2>3 DEF CompleteRequest
  <1> QED
    BY <1>1, <1>2, <1>4, <1>5, <1>6, ReadOn

\* A Complete is answered, or its process dies.
LEMMA CompleteEndInv ==
    ASSUME MInv, NEW w \in Worker, Completing(w), End(w),
           parts' = parts, sent' = sent, renames' = renames, broken' = broken
    PROVE  MInv'
  BY CompleteInv DEF End

-----------------------------------------------------------------------------
(* Every step *)

LEMMA StartInv ==
    ASSUME MInv, UNCHANGED <<renames, parts, job, sent, broken, steady>>
    PROVE  MInv'
  <1>1. JobsOK'
    BY DEF MInv, JobsOK, PartJob, CompleteJob, FileOf, Belongs, NextFile, NextListed
  <1>2. PartsOK'
    BY FilesStay
  <1>3. HealthOK'
    BY HealthStays DEF Copies, Sending, Idle
  <1>4. SteadyOK'
    <2>1. \A w \in Worker : SteadyOne(w) => SteadyOne(w)'
      BY SteadyStays DEF Sending, Idle
    <2> QED
      BY <2>1, SteadyIsAll DEF MInv, SteadyOK, SteadyOne
  <1> QED
    BY <1>1, <1>2, <1>3, <1>4 DEF MInv

LEMMA WorkerInv ==
    ASSUME MInv, NEW w \in Worker,
           \/ PartRename(w) \/ PartCreate(w) \/ PartBlock(w) \/ PartDone(w) \/ PartError(w)
           \/ CompleteOpen(w) \/ CompleteBlock(w) \/ CompleteRead(w) \/ CompleteReadError(w)
           \/ CompletePut(w)
           \/ MCrash(w)
    PROVE  MInv'
  <1>1. CASE PartRename(w)
    BY <1>1, PartRenameInv
  <1>2. CASE PartCreate(w)
    BY <1>2, PartCreateInv
  <1>3. CASE PartBlock(w)
    BY <1>3, PartBlockInv
  <1>4. CASE PartDone(w)
    BY <1>4, PartEndInv DEF PartDone
  <1>5. CASE PartError(w)
    BY <1>5, PartEndInv DEF PartError
  <1>6. CASE CompleteOpen(w)
    BY <1>6, CompleteOpenInv
  <1>7. CASE CompleteBlock(w)
    BY <1>7, CompleteBlockInv
  <1>8. CASE CompleteRead(w)
    BY <1>8, CompleteReadInv
  <1>9. CASE CompleteReadError(w)
    BY <1>9, CompleteEndInv DEF CompleteReadError, MoreListed
  <1>10. CASE CompletePut(w)
    BY <1>10, CompleteEndInv DEF CompletePut, Assembled
  <1>11. CASE MCrash(w)
    <2>1. CASE Sending(w)
      BY <1>11, <2>1, PartEndInv DEF MCrash
    <2>2. CASE ~Sending(w)
      <3>1. Completing(w)
        BY <1>11, <2>2 DEF MCrash, MInv, JobsOK, Sending, Completing, Idle,
            PartJob, PartRequest, CompleteJob, CompleteRequest
      <3>2. broken' = broken
        BY <1>11, <2>2 DEF MCrash, LeftBroken
      <3> QED
        BY <1>11, <3>1, <3>2, CompleteEndInv DEF MCrash
    <2> QED
      BY <2>1, <2>2
  <1> QED
    BY <1>1, <1>2, <1>3, <1>4, <1>5, <1>6, <1>7, <1>8, <1>9, <1>10, <1>11

LEMMA MNextInv ==
    ASSUME MInv, [MNext]_mvars
    PROVE  MInv'
  <1>1. ASSUME NEW u \in Upload, StartMultipartUpload(u) \/ AbortMultipartUpload(u)
        PROVE  MInv'
    BY <1>1, StartInv DEF StartMultipartUpload, AbortMultipartUpload, mvars, mhistory
  <1>2. ASSUME NEW w \in Worker, NEW u \in Upload, CompleteMultipartUpload(w, u)
        PROVE  MInv'
    BY <1>2, CompleteBeginInv
  <1>3. ASSUME NEW w \in Worker, NEW u \in Upload, NEW p \in Part, NEW b \in Body,
               UploadPart(w, u, p, b)
        PROVE  MInv'
    BY <1>3, UploadPartInv
  <1>4. CASE UNCHANGED mvars
    BY <1>4, StartInv DEF mvars, mhistory
  <1> QED
    BY <1>1, <1>2, <1>3, <1>4, WorkerInv DEF MNext

LEMMA MInvariance == MSpec => []MInv
  <1> QED
    BY MInitInv, MNextInv, PTL DEF MSpec

-----------------------------------------------------------------------------
(* The theorems *)

\* However parts are sent, copied over each other, read half written and left
\* behind, an assembled object is made of blocks that were sent for the listed
\* parts of its own upload, each in its place.
THEOREM OwnParts == MSpec => []OwnPartsOnly
  <1>1. MInv => OwnPartsOnly
    <2> SUFFICES ASSUME MInv, NEW w \in Worker, Assembled(w),
                        NEW i \in DOMAIN job[w].list, NEW k \in DOMAIN job[w].read[i]
                 PROVE  Belongs(job[w].upload, job[w].list[i][1], k, job[w].read[i][k])
      BY DEF OwnPartsOnly
    <2>1. PICK j : j = job[w]
      OBVIOUS
    <2>2. CompleteJob(j) /\ Len(j.read) = Len(j.list)
      BY <2>1, CompletingJob DEF Assembled
    <2>3. FileOf(j.upload, j.list[i][1], j.read[i])
      <3>1. j.list \in Seq(Part \X Body) /\ i \in DOMAIN j.list
        BY <2>1, <2>2 DEF CompleteJob, CompleteRequest
      <3>2. i \in 1 .. Len(j.read)
        BY <2>2, <3>1
      <3> QED
        BY <2>2, <3>2 DEF CompleteJob
    <2>4. PICK c : c = j.read[i]
      OBVIOUS
    <2>5. k \in 1 .. Len(c) /\ FileOf(j.upload, j.list[i][1], c)
      BY <2>1, <2>3, <2>4 DEF FileOf
    <2>6. Belongs(j.upload, j.list[i][1], k, c[k])
      BY <2>5 DEF FileOf
    <2> QED
      BY <2>1, <2>4, <2>6
  <1> QED
    BY <1>1, MInvariance, PTL

\* A Complete whose listed parts were each only sent with the listed body, and
\* are settled, stores exactly what its list names: a failed, repeated or dead
\* call on some part, and whatever other uploads do, leaves nothing else in it.
THEOREM SettledExact == MSpec => []SettledIsExact
  <1>1. MInv => SettledIsExact
    <2> SUFFICES ASSUME MInv, NEW w \in Worker, Assembled(w), w \in steady
                 PROVE  job[w].read = [i \in DOMAIN job[w].list |-> Whole(job[w].list[i][2])]
      BY DEF SettledIsExact
    <2>1. PICK j : j = job[w]
      OBVIOUS
    <2>2. CompleteJob(j) /\ Len(j.read) = Len(j.list)
      BY <2>1, CompletingJob DEF Assembled
    <2>3. \A i \in 1 .. Len(j.read) : j.read[i] = Whole(j.list[i][2])
      BY <2>1 DEF MInv, SteadyOK, Exact
    <2>4. j.read = [i \in 1 .. Len(j.read) |-> j.read[i]] /\ DOMAIN j.list = 1 .. Len(j.read)
      BY <2>2 DEF CompleteJob, CompleteRequest
    <2> QED
      BY <2>1, <2>3, <2>4
  <1> QED
    BY <1>1, MInvariance, PTL
=============================================================================
