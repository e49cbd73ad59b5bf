----------------------------- MODULE DiskStore ------------------------------
(***************************************************************************)
(* storage.DiskStore on one key: Write through a temporary file, Read and  *)
(* Delete, each system call a step.  ObjectStore takes a Write for one     *)
(* step; this module shows what stands behind that.                        *)
(*                                                                         *)
(* The file system is modelled by its inodes: an open file keeps its inode *)
(* when the name is renamed over or removed, and os.Create truncates the   *)
(* inode the name has.                                                     *)
(***************************************************************************)
EXTENDS FileBlocks

CONSTANTS Writer,       \* calls of Write on the key
          Reader,       \* calls of Read on the key
          Blocks,       \* how many buffers io.Copy needs for each Write's data
          MaxFaults,    \* bound: system calls that fail
          MaxDeaths     \* bound: calls that die with their process

Inode == Writer \X {"temp", "copy"}

ASSUME DiskAssumption ==
    /\ Blocks \in [Writer -> Nat]
    /\ MaxFaults \in Nat
    /\ MaxDeaths \in Nat
    /\ None \notin Writer \cup Inode

VARIABLES entry,     \* the inode the key names, or None
          content,   \* the blocks of each inode
          temp,      \* writers whose file is still in tempDir
          wpc,       \* where each Write is
          target,    \* the inode copyFile writes to
          copied,    \* blocks copyFile has written
          rpc,       \* where each Read is
          source,    \* the inode a Read has open
          got,       \* what a Read has copied to its caller
          faults,
          deaths

writerVars == <<wpc, target, copied>>
readerVars == <<rpc, source, got>>
diskVars == <<entry, content, temp>>
svars == <<diskVars, writerVars, readerVars, faults, deaths>>

Ended == {"done", "failed", "dead"}

\* What writer w was given to store.
Whole(w) == FirstBlocks(w, Blocks[w])

DiskInit ==
    /\ entry = None
    /\ content = [n \in Inode |-> <<>>]
    /\ temp = {}
    /\ wpc = [w \in Writer |-> "start"]
    /\ target = [w \in Writer |-> None]
    /\ copied = [w \in Writer |-> 0]
    /\ rpc = [r \in Reader |-> "idle"]
    /\ source = [r \in Reader |-> None]
    /\ got = [r \in Reader |-> <<>>]
    /\ faults = 0
    /\ deaths = 0

NoFault == UNCHANGED <<faults, deaths>>

Fault == faults < MaxFaults /\ faults' = faults + 1 /\ UNCHANGED deaths

\* Write w goes from one label to another, every local but its label kept.
Goes(w, l, m) ==
    /\ wpc[w] = l
    /\ wpc' = [wpc EXCEPT ![w] = m]
    /\ UNCHANGED <<readerVars>>

-----------------------------------------------------------------------------
(* Write: the temporary file *)

CreateTemp(w) ==
    /\ Goes(w, "start", "fill")
    /\ temp' = temp \cup {w}
    /\ NoFault
    /\ UNCHANGED <<entry, content, target, copied>>

\* MkdirAll or CreateTemp fails.
CreateTempError(w) ==
    /\ Goes(w, "start", "failed")
    /\ Fault
    /\ UNCHANGED <<diskVars, target, copied>>

\* io.Copy to the temporary file, which nobody else opens.
Fill(w) ==
    /\ Goes(w, "fill", "flush")
    /\ content' = [content EXCEPT ![<<w, "temp">>] = Whole(w)]
    /\ NoFault
    /\ UNCHANGED <<entry, temp, target, copied>>

\* io.Copy fails: err is set, so the deferred function removes the file.
FillError(w) ==
    /\ Goes(w, "fill", "failed")
    /\ temp' = temp \ {w}
    /\ Fault
    /\ UNCHANGED <<entry, content, target, copied>>

Flush(w) ==
    /\ Goes(w, "flush", "move")
    /\ NoFault
    /\ UNCHANGED <<diskVars, target, copied>>

\* Sync or Close fails: the err they set is not the one the deferred function
\* looks at, and the temporary file stays.
FlushError(w) ==
    /\ Goes(w, "flush", "failed")
    /\ Fault
    /\ UNCHANGED <<diskVars, target, copied>>

-----------------------------------------------------------------------------
(* Write: the move to its place.  Any os.Rename may fail: every one does    *)
(* where tempDir and dataDir are on two file systems, and elsewhere one may.  *)

(* Mutated form of Rename: the temporary file is renamed before it is full. *)
RenameEarly(w) ==
    /\ Goes(w, "fill", "done")
    /\ entry' = <<w, "temp">>
    /\ temp' = temp \ {w}
    /\ NoFault
    /\ UNCHANGED <<content, target, copied>>

Rename(w) ==
    /\ Goes(w, "move", "done")
    /\ entry' = <<w, "temp">>
    /\ temp' = temp \ {w}
    /\ NoFault
    /\ UNCHANGED <<content, target, copied>>

\* The rename fails and copyFile opens the destination: os.Create makes a new
\* file, or truncates the one that is there.
CopyCreate(w) ==
    /\ Goes(w, "move", "copy")
    /\ entry' = IF entry = None THEN <<w, "copy">> ELSE entry
    /\ content' = [content EXCEPT ![entry'] = <<>>]
    /\ target' = [target EXCEPT ![w] = entry']
    /\ NoFault
    /\ UNCHANGED <<temp, copied>>

CopyCreateError(w) ==
    /\ Goes(w, "move", "failed")
    /\ Fault
    /\ UNCHANGED <<diskVars, target, copied>>

\* One buffer of copyFile's io.Copy.
CopyBlock(w) ==
    /\ copied[w] < Blocks[w]
    /\ Goes(w, "copy", "copy")
    /\ content' = [content EXCEPT ![target[w]] =
                    Overwrite(@, copied[w] + 1, Whole(w)[copied[w] + 1])]
    /\ copied' = [copied EXCEPT ![w] = @ + 1]
    /\ NoFault
    /\ UNCHANGED <<entry, temp, target>>

(* Mutated form of CopiedAll: the last buffer is forgotten. *)
CopiedMost(w) == copied[w] + 1 >= Blocks[w]

CopiedAll(w) == copied[w] = Blocks[w]

CopyEnd(w) ==
    /\ CopiedAll(w)
    /\ Goes(w, "copy", "drop")
    /\ NoFault
    /\ UNCHANGED <<diskVars, target, copied>>

\* A buffer cannot be written, or the last Sync fails: what was copied stays
\* under the key, and the temporary file stays too.
CopyError(w) ==
    /\ Goes(w, "copy", "failed")
    /\ Fault
    /\ UNCHANGED <<diskVars, target, copied>>

(* Mutated form of DropTemp: the temporary file is forgotten. *)
KeepTemp(w) ==
    /\ Goes(w, "drop", "done")
    /\ NoFault
    /\ UNCHANGED <<diskVars, target, copied>>

DropTemp(w) ==
    /\ Goes(w, "drop", "done")
    /\ temp' = temp \ {w}
    /\ NoFault
    /\ UNCHANGED <<entry, content, target, copied>>

\* The error of os.Remove is ignored.
DropTempError(w) ==
    /\ Goes(w, "drop", "done")
    /\ Fault
    /\ UNCHANGED <<diskVars, target, copied>>

\* The process dies in the middle of a Write.
Die(w) ==
    /\ deaths < MaxDeaths
    /\ wpc[w] \notin Ended
    /\ Goes(w, wpc[w], "dead")
    /\ deaths' = deaths + 1
    /\ UNCHANGED <<diskVars, target, copied, faults>>

-----------------------------------------------------------------------------
(* Delete and Read *)

\* os.Remove; a missing file is no error.
Delete ==
    /\ entry' = None
    /\ UNCHANGED <<content, temp, writerVars, readerVars, faults, deaths>>

\* os.Open, or "file not found": a Read that begins.
Open(r) ==
    /\ rpc[r] = "idle"
    /\ rpc' = [rpc EXCEPT ![r] = IF entry = None THEN "missing" ELSE "open"]
    /\ source' = [source EXCEPT ![r] = entry]
    /\ NoFault
    /\ UNCHANGED <<diskVars, writerVars, got>>

\* os.Open fails although the file is there.
OpenError(r) ==
    /\ rpc[r] = "idle"
    /\ rpc' = [rpc EXCEPT ![r] = "failed"]
    /\ Fault
    /\ UNCHANGED <<diskVars, writerVars, source, got>>

\* One buffer of Read's io.Copy.
ReadBlock(r) ==
    /\ rpc[r] = "open"
    /\ Len(got[r]) < Len(content[source[r]])
    /\ got' = [got EXCEPT ![r] = Append(@, content[source[r]][Len(@) + 1])]
    /\ NoFault
    /\ UNCHANGED <<diskVars, writerVars, rpc, source>>

ReadEnd(r) ==
    /\ rpc[r] = "open"
    /\ Len(got[r]) >= Len(content[source[r]])
    /\ rpc' = [rpc EXCEPT ![r] = "done"]
    /\ NoFault
    /\ UNCHANGED <<diskVars, writerVars, source, got>>

ReadError(r) ==
    /\ rpc[r] = "open"
    /\ rpc' = [rpc EXCEPT ![r] = "failed"]
    /\ Fault
    /\ UNCHANGED <<diskVars, writerVars, source, got>>

WriterStep(w) ==
    \/ CreateTemp(w) \/ CreateTempError(w) \/ Fill(w) \/ FillError(w)
    \/ Flush(w) \/ FlushError(w) \/ Rename(w)
    \/ CopyCreate(w) \/ CopyCreateError(w) \/ CopyBlock(w) \/ CopyEnd(w)
    \/ CopyError(w) \/ DropTemp(w) \/ DropTempError(w) \/ Die(w)

ReaderStep(r) == Open(r) \/ OpenError(r) \/ ReadBlock(r) \/ ReadEnd(r) \/ ReadError(r)

DiskNext ==
    \/ \E w \in Writer : WriterStep(w)
    \/ \E r \in Reader : ReaderStep(r)
    \/ Delete

DiskSpec == DiskInit /\ [][DiskNext]_svars

-----------------------------------------------------------------------------
(* Properties *)

\* The writer whose content the key has.
ValueNow == IF entry = None THEN None ELSE entry[1]

\* The writer whose content a Read returns.
SeenNow == [r \in Reader |-> IF source[r] = None THEN None ELSE source[r][1]]

AnswerNow == [r \in Reader |-> IF rpc[r] = "done" THEN got[r] ELSE <<>>]

StatusNow ==
    [w \in Writer |-> CASE wpc[w] = "done" -> "done"
                        [] wpc[w] \in {"failed", "dead"} -> "failed"
                        [] OTHER -> "busy"]

\* The same program seen as an atomic file.
Atomic == INSTANCE AtomicFile WITH
    Content <- [w \in Writer |-> Whole(w)],
    value   <- ValueNow,
    status  <- StatusNow,
    phase   <- rpc,
    seen    <- SeenNow,
    answer  <- AnswerNow

\* No copyFile has begun to write.
NoCopy == \A w \in Writer : target[w] = None

\* As long as every rename works, Write and Read of one key are atomic: whatever
\* reads, writes, deletes, errors and deaths race, a read returns exactly what
\* one Write was given, and a Write that fails leaves the key as it was.  (A
\* copyFile writes in place, under the readers: nothing is said from then on.)
AtomicWhileRenamed == Atomic!AInit /\ [][NoCopy' => Atomic!ANext]_(Atomic!avars)

\* A Write that may have put something under the key: it has renamed, or it
\* has created or truncated the destination.
Touched(w) == wpc[w] = "done" \/ target[w] # None

DiskLabel == {"start", "fill", "flush", "move", "copy", "drop"} \cup Ended
ReadLabel == {"idle", "missing", "open", "done", "failed"}

TypesOK ==
    /\ entry \in Inode \cup {None}
    /\ content \in [Inode -> Seq((Writer \cup {None}) \X Nat)]
    /\ wpc \in [Writer -> DiskLabel]
    /\ target \in [Writer -> Inode \cup {None}]
    /\ copied \in [Writer -> Nat]
    /\ rpc \in [Reader -> ReadLabel]
    /\ source \in [Reader -> Inode \cup {None}]
    /\ \A r \in Reader : rpc[r] = "open" => source[r] # None
    /\ got \in [Reader -> Seq((Writer \cup {None}) \X Nat)]

\* The inode of a temporary file that was renamed into place.
Placed(n) == \E w \in Writer : n = <<w, "temp">> /\ wpc[w] = "done"

\* As long as every rename works: a temporary file is full before it is renamed
\* and never written again, and an open read has copied a first part of one.
PlacedIsWhole ==
    /\ TypesOK
    /\ NoCopy =>
        /\ \A w \in Writer :
            /\ wpc[w] \notin {"copy", "drop"}
            /\ wpc[w] \in {"flush", "move", "done"} => content[<<w, "temp">>] = Whole(w)
        /\ entry # None => Placed(entry)
        /\ \A r \in Reader :
            /\ source[r] # None => Placed(source[r])
            /\ rpc[r] \in {"open", "done"} => source[r] # None
            /\ rpc[r] = "idle" => source[r] = None /\ got[r] = <<>>
            /\ rpc[r] = "open" =>
                /\ Len(got[r]) <= Len(content[source[r]])
                /\ \A i \in 1 .. Len(got[r]) : got[r][i] = content[source[r]][i]
            /\ rpc[r] = "done" => got[r] = content[source[r]]

\* What PutObject relies on whether the rename works or not: a Write that
\* returned without error left all its data under the key, as long as no
\* other Write of the same key got that far and nothing deleted it.  PutObject's
\* keys hold a fresh UUID, so no other Write has them.
ReturnedIsWhole ==
    \A w \in Writer :
        /\ wpc[w] = "done" /\ entry # None
        /\ \A v \in Writer \ {w} : ~Touched(v)
        => content[entry] = Whole(w)

\* Without faults and deaths nothing is left in the temporary directory.
TempsReclaimed ==
    faults = 0 /\ deaths = 0 =>
        \A w \in temp : wpc[w] \notin Ended
=============================================================================
