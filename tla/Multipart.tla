----------------------------- MODULE Multipart ------------------------------
(***************************************************************************)
(* Multipart uploads.  A part is a file multipart/<upload>/<number>; no    *)
(* upload and no part has a row anywhere (createUploadRecord,              *)
(* savePartRecord, listParts and deleteUpload are stubs), so the disk is   *)
(* the only state.  Where os.Rename from the temporary directory works a   *)
(* part is replaced at once; where it does not, copyFile truncates the     *)
(* part's file and writes it in place, under other calls that write or     *)
(* read it.                                                                *)
(***************************************************************************)
EXTENDS FileBlocks, FiniteSets

CONSTANTS Worker,      \* goroutines serving requests
          Upload,      \* upload ids
          Part,        \* part numbers
          Body,        \* what clients send as a part; its ETag tells it
          Size,        \* how many buffers io.Copy needs for a body
          MaxFaults,   \* bound: disk calls that fail, requests lost with their process
          Lists,       \* bound: the lists that a Complete is sent
          MaxSent      \* bound: different bodies sent, over all parts

\* What a place of a file can hold: one buffer of a body, or a hole.
Block == (Body \cup {None}) \X Nat

\* A call of UploadPart: whether copyFile has the part's file open, and how many
\* buffers it has written.
PartRequest == [op : {"part"}, upload : Upload, part : Part, body : Body,
                copying : BOOLEAN, copied : Nat]

\* A call of CompleteMultipartUpload: what it has read, whether it has the next
\* part's file open, and what it has of it.
CompleteRequest == [op : {"complete"}, upload : Upload, list : Seq(Part \X Body),
                    read : Seq(Seq(Block)), open : BOOLEAN, got : Seq(Block)]

\* A list may have any part numbers with any ETags, sent before or not, in any
\* order, or none at all: nothing checks them.
ASSUME MultipartAssumption ==
    /\ None \notin Body \cup Seq(Block) \cup PartRequest \cup CompleteRequest
    /\ Size \in [Body -> Nat]
    /\ Lists \subseteq Seq(Part \X Body)

VARIABLES renames,   \* the temporary and the data directory are on one device
          parts,     \* <<upload, part>> -> the blocks of its file, or None
          job,       \* the request each worker serves, or None
          started,   \* upload ids handed out, which clients know
          sent,      \* history: <<upload, part, body>> of the UploadPart calls
          broken,    \* history: parts that a call left half written, and no
                     \* later call has truncated
          steady,    \* history: workers whose Complete lists settled parts only,
                     \* and has had no UploadPart of its upload beside it
          faults     \* disk calls failed and requests lost so far

mhistory == <<sent, broken, steady>>
mvars == <<renames, parts, job, started, mhistory, faults>>

MInit ==
    /\ renames \in BOOLEAN
    /\ parts = [x \in Upload \X Part |-> None]
    /\ job = [w \in Worker |-> None]
    /\ started = {} /\ sent = {} /\ broken = {} /\ steady = {}
    /\ faults = 0

Idle(w) == job[w] = None

Serve(w, j) == job' = [job EXCEPT ![w] = j]

\* The request of w is over.
End(w) == Serve(w, None) /\ steady' = steady \ {w}

Sending(w) == ~Idle(w) /\ job[w].op = "part"
Completing(w) == ~Idle(w) /\ job[w].op = "complete"

NoFault == UNCHANGED faults

Fault == faults < MaxFaults /\ faults' = faults + 1

(* Mutated form of PartPath: the upload id is left out. *)
PathWithoutUpload(u, p) == <<CHOOSE x \in Upload : TRUE, p>>

PartPath(u, p) == <<u, p>>

\* The file a job writes, and what it writes there.
PathOf(j) == PartPath(j.upload, j.part)
Whole(b) == FirstBlocks(b, Size[b])

-----------------------------------------------------------------------------
\* StartMultipartUpload hands out an id and records nothing.
StartMultipartUpload(u) ==
    /\ u \notin started
    /\ started' = started \cup {u}
    /\ NoFault
    /\ UNCHANGED <<renames, parts, job, mhistory>>

-----------------------------------------------------------------------------
(* UploadPart *)

\* The whole part has been read into memory, and written to a temporary file.
UploadPart(w, u, p, b) ==
    /\ Idle(w) /\ u \in started
    /\ Serve(w, [op |-> "part", upload |-> u, part |-> p, body |-> b,
                 copying |-> FALSE, copied |-> 0])
    /\ sent' = sent \cup {<<u, p, b>>}
    /\ Cardinality(sent') <= MaxSent
    /\ steady' = {v \in steady : job[v].upload # u}
    /\ NoFault
    /\ UNCHANGED <<renames, parts, started, broken>>

\* The part replaces whatever an earlier call stored under its number.
PartRename(w) ==
    /\ Sending(w) /\ renames
    /\ parts' = [parts EXCEPT ![PathOf(job[w])] = Whole(job[w].body)]
    /\ End(w)
    /\ NoFault
    /\ UNCHANGED <<renames, started, sent, broken>>

\* The rename fails, and copyFile creates the file or truncates it.
PartCreate(w) ==
    /\ Sending(w) /\ ~renames /\ ~job[w].copying
    /\ parts' = [parts EXCEPT ![PathOf(job[w])] = <<>>]
    /\ broken' = broken \ {PathOf(job[w])}
    /\ Serve(w, [job[w] EXCEPT !.copying = TRUE])
    /\ NoFault
    /\ UNCHANGED <<renames, started, sent, steady>>

\* One buffer of copyFile's io.Copy.
PartBlock(w) ==
    /\ Sending(w) /\ job[w].copying
    /\ LET j == job[w]
           n == j.copied + 1
       IN /\ n <= Size[j.body]
          /\ parts' = [parts EXCEPT ![PathOf(j)] = Overwrite(@, n, <<j.body, n>>)]
          /\ Serve(w, [j EXCEPT !.copied = n])
    /\ NoFault
    /\ UNCHANGED <<renames, started, mhistory>>

(* Mutated form of PartCopied: the last buffer is forgotten. *)
PartCopiedMost(j) == j.copied + 1 >= Size[j.body]

PartCopied(j) == j.copied = Size[j.body]

\* copyFile returns, and the call is answered with the part's ETag.
PartDone(w) ==
    /\ Sending(w) /\ job[w].copying /\ PartCopied(job[w])
    /\ End(w)
    /\ NoFault
    /\ UNCHANGED <<renames, parts, started, sent, broken>>

\* What a call that ends here leaves half written: the file it was copying to.
LeftBroken(w) == IF Sending(w) /\ job[w].copying THEN {PathOf(job[w])} ELSE {}

\* The temporary file, the create, the copy or the flush fails: 500.
PartError(w) ==
    /\ Sending(w)
    /\ broken' = broken \cup LeftBroken(w)
    /\ End(w)
    /\ Fault
    /\ UNCHANGED <<renames, parts, started, sent>>

-----------------------------------------------------------------------------
(* CompleteMultipartUpload *)

\* A part that is safe to read: only this body was ever sent for it, perhaps
\* again and again, no call is still running, and none left the file half
\* written that no later call wrote again.
Settled(u, p, b) ==
    /\ \A x \in sent : x[1] = u /\ x[2] = p => x[3] = b
    /\ PartPath(u, p) \notin broken
    /\ \A v \in Worker : Sending(v) => <<job[v].upload, job[v].part>> # <<u, p>>

\* Nothing asks whether the upload was started, aborted or completed before.
CompleteMultipartUpload(w, u) ==
    /\ Idle(w) /\ u \in started
    /\ \E s \in Lists :
        /\ Serve(w, [op |-> "complete", upload |-> u, list |-> s, read |-> <<>>,
                     open |-> FALSE, got |-> <<>>])
        /\ steady' = IF \A i \in DOMAIN s : Settled(u, s[i][1], s[i][2]) THEN steady \cup {w} ELSE steady
    /\ NoFault
    /\ UNCHANGED <<renames, parts, started, sent, broken>>

\* Parts are read in the order of the list.
NextListed(j) == j.list[Len(j.read) + 1]

\* The file of the part a Complete reads next.  The ETags in the list are not
\* compared with what is on disk.
NextFile(j) == parts[PartPath(j.upload, NextListed(j)[1])]

MoreListed(w) == Completing(w) /\ Len(job[w].read) < Len(job[w].list)

\* The file is opened; one that was renamed into place is never written again,
\* so what is read of it is what it holds now.
CompleteOpen(w) ==
    /\ MoreListed(w) /\ ~job[w].open
    /\ NextFile(job[w]) # None
    /\ Serve(w, IF renames THEN [job[w] EXCEPT !.read = Append(@, NextFile(job[w]))]
                           ELSE [job[w] EXCEPT !.open = TRUE])
    /\ NoFault
    /\ UNCHANGED <<renames, parts, started, mhistory>>

\* One buffer of a file that may be truncated and written meanwhile.
CompleteBlock(w) ==
    /\ MoreListed(w) /\ job[w].open
    /\ LET j == job[w] IN
        /\ Len(j.got) < Len(NextFile(j))
        /\ Serve(w, [j EXCEPT !.got = Append(@, NextFile(j)[Len(j.got) + 1])])
    /\ NoFault
    /\ UNCHANGED <<renames, parts, started, mhistory>>

\* The end of the file.
CompleteRead(w) ==
    /\ MoreListed(w) /\ job[w].open
    /\ LET j == job[w] IN
        /\ Len(j.got) >= Len(NextFile(j))
        /\ Serve(w, [j EXCEPT !.read = Append(@, j.got), !.open = FALSE, !.got = <<>>])
    /\ NoFault
    /\ UNCHANGED <<renames, parts, started, mhistory>>

\* "failed to read part": it is not there, or the open or a read fails.
CompleteReadError(w) ==
    /\ MoreListed(w)
    /\ \/ NextFile(job[w]) = None /\ NoFault
       \/ Fault
    /\ End(w)
    /\ UNCHANGED <<renames, parts, started, sent, broken>>

\* Every part of the list is read: PutObject gets them joined.
Assembled(w) == Completing(w) /\ Len(job[w].read) = Len(job[w].list)

\* PutObject stores the object, or refuses it: nothing to store, a quota, a size.
\* The part files stay either way.
CompletePut(w) ==
    /\ Assembled(w)
    /\ End(w)
    /\ NoFault
    /\ UNCHANGED <<renames, parts, started, sent, broken>>

-----------------------------------------------------------------------------
\* listParts returns no part, so no file is removed, and deleteUpload records
\* nothing: the upload goes on as before.
AbortMultipartUpload(u) ==
    /\ u \in started
    /\ UNCHANGED mvars

\* The process serving w dies.
MCrash(w) ==
    /\ ~Idle(w)
    /\ broken' = broken \cup LeftBroken(w)
    /\ End(w)
    /\ Fault
    /\ UNCHANGED <<renames, parts, started, sent>>

MNext ==
    \/ \E u \in Upload : StartMultipartUpload(u) \/ AbortMultipartUpload(u)
    \/ \E w \in Worker :
        \/ \E u \in Upload :
            \/ CompleteMultipartUpload(w, u)
            \/ \E p \in Part, b \in Body : UploadPart(w, u, p, b)
        \/ PartRename(w) \/ PartCreate(w) \/ PartBlock(w) \/ PartDone(w) \/ PartError(w)
        \/ CompleteOpen(w) \/ CompleteBlock(w) \/ CompleteRead(w) \/ CompleteReadError(w)
        \/ CompletePut(w)
        \/ MCrash(w)

MSpec == MInit /\ [][MNext]_mvars

-----------------------------------------------------------------------------
(* Properties *)

\* What place k of part p of upload u may hold: block k of a body that was sent
\* for that part of that upload, or zeros where copies overtook each other.
Belongs(u, p, k, block) ==
    \/ \E x \in sent : x[1] = u /\ x[2] = p /\ block = <<x[3], k>>
    \/ ~renames /\ block = Hole

\* An assembled object is made, part by part in the listed order, of what was
\* sent for that part of that upload, block by block in its place, whatever
\* parts of this and of other uploads are truncated and written while it is
\* read.  (Blocks of two bodies of one part may be mixed: nothing prevents it.)
OwnPartsOnly ==
    \A w \in Worker : Assembled(w) =>
        \A i \in DOMAIN job[w].list : \A k \in DOMAIN job[w].read[i] :
            Belongs(job[w].upload, job[w].list[i][1], k, job[w].read[i][k])

\* When every part of a list was only ever sent with one body, the object is
\* exactly what the list names, provided that no UploadPart of the upload runs
\* beside the Complete, and that no call that broke off while it copied was the
\* last to truncate a part of the list: in spite of calls that failed or died
\* before, of retries that overtook each other, and of all other uploads.
SettledIsExact ==
    \A w \in Worker : Assembled(w) /\ w \in steady =>
        job[w].read = [i \in DOMAIN job[w].list |-> Whole(job[w].list[i][2])]
=============================================================================
