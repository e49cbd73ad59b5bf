----------------------------- MODULE AtomicFile -----------------------------
(***************************************************************************)
(* What a caller would like of DiskStore's Write and Read on one key: a    *)
(* write takes effect at once or not at all, and a read returns what some  *)
(* one write stored.                                                       *)
(***************************************************************************)
EXTENDS Integers

CONSTANTS Writer, Reader, None,
          Content    \* what each writer stores

VARIABLES value,     \* the writer whose content the key has, or None
          status,    \* of each write
          phase,     \* of each read
          seen,      \* the writer whose content a read returns
          answer     \* what a finished read returned

avars == <<value, status, phase, seen, answer>>

AInit ==
    /\ value = None
    /\ status = [w \in Writer |-> "busy"]
    /\ phase = [r \in Reader |-> "idle"]
    /\ seen = [r \in Reader |-> None]
    /\ answer = [r \in Reader |-> <<>>]

\* A write returns without error, its content in place.
Land(w) ==
    /\ status[w] = "busy"
    /\ status' = [status EXCEPT ![w] = "done"]
    /\ value' = w
    /\ UNCHANGED <<phase, seen, answer>>

\* A write that fails, or dies, has no effect.
Fail(w) ==
    /\ status[w] = "busy"
    /\ status' = [status EXCEPT ![w] = "failed"]
    /\ UNCHANGED <<value, phase, seen, answer>>

Vanish ==
    /\ value' = None
    /\ UNCHANGED <<status, phase, seen, answer>>

\* A read is decided at one moment ...
Look(r) ==
    /\ phase[r] = "idle"
    /\ phase' = [phase EXCEPT ![r] = IF value = None THEN "missing" ELSE "open"]
    /\ seen' = [seen EXCEPT ![r] = value]
    /\ UNCHANGED <<value, status, answer>>

\* ... and answered later, whatever writes and deletes came in between.
Reply(r) ==
    /\ phase[r] = "open"
    /\ phase' = [phase EXCEPT ![r] = "done"]
    /\ answer' = [answer EXCEPT ![r] = Content[seen[r]]]
    /\ UNCHANGED <<value, status, seen>>

GiveUp(r) ==
    /\ phase[r] \in {"idle", "open"}
    /\ phase' = [phase EXCEPT ![r] = "failed"]
    /\ UNCHANGED <<value, status, seen, answer>>

ANext ==
    \/ \E w \in Writer : Land(w) \/ Fail(w)
    \/ Vanish
    \/ \E r \in Reader : Look(r) \/ Reply(r) \/ GiveUp(r)

ASpec == AInit /\ [][ANext]_avars
=============================================================================
