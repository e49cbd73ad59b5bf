------------------------------ MODULE Shutdown ------------------------------
(***************************************************************************)
(* How main ends a replica: a signal, db.Close, srv.Shutdown with a        *)
(* timeout, return.  A replica may also die at any moment.                 *)
(***************************************************************************)
EXTENDS Middleware

VARIABLE timer   \* cleanupCtx of each replica: "off", "running" or "expired"

TimerInit == timer = [r \in Replica |-> "off"]

RunningOn(r) == {c \in Client : Running(c) /\ on[c] = r}

\* SIGINT or SIGTERM: the timeout starts to run before the database is closed.
Signal(r) ==
    /\ phase[r] = "serving"
    /\ Goto(r, "signalled")
    /\ timer' = [timer EXCEPT ![r] = "running"]
    /\ NoFault
    /\ UNCHANGED <<db, applied, schema, reqvars>>

\* db.Close, unless main runs without a database.
Closed(handle) == IF handle = "open" THEN "closed" ELSE handle

CloseDatabase(r) ==
    /\ phase[r] = "signalled"
    /\ Goto(r, "dbClosed")
    /\ db' = [db EXCEPT ![r] = Closed(@)]
    /\ NoFault
    /\ UNCHANGED <<applied, schema, reqvars, timer>>

StopListening(r) ==
    /\ phase[r] = "dbClosed"
    /\ Goto(r, "draining")
    /\ NoFault
    /\ UNCHANGED <<db, applied, schema, reqvars, timer>>

Expire(r) ==
    /\ timer[r] = "running" /\ phase[r] # "stopped"
    /\ timer' = [timer EXCEPT ![r] = "expired"]
    /\ UNCHANGED <<bootvars, reqvars>>

(* Mutated form of ShutdownDone: the timeout is not passed on. *)
DrainedOnly(r) == RunningOn(r) = {}

\* srv.Shutdown returns: no request is running, or the context has expired.
ShutdownDone(r) == timer[r] = "expired" \/ RunningOn(r) = {}

\* main returns, and what is still running is cut short with the process.
Return(r) ==
    /\ phase[r] = "draining"
    /\ ShutdownDone(r)
    /\ Goto(r, "stopped")
    /\ req' = [c \in Client |-> IF c \in RunningOn(r) THEN "cut" ELSE req[c]]
    /\ NoFault
    /\ UNCHANGED <<db, applied, schema, on, left, gauge, timer>>

\* The process dies: killed, evicted, os.Exit(1), or a signal before
\* signal.Notify.  Its requests are lost, its memory is gone, and the cluster
\* starts it again.
Die(r) ==
    /\ phase[r] \notin {"down", "stopped"}
    /\ deaths < MaxDeaths
    /\ deaths' = deaths + 1
    /\ Goto(r, "down")
    /\ db' = [db EXCEPT ![r] = "nil"]
    /\ applied' = [applied EXCEPT ![r] = 0]
    /\ req' = [c \in Client |-> IF c \in RunningOn(r) THEN "lost" ELSE req[c]]
    /\ on' = [c \in Client |-> IF on[c] = r THEN NoReplica ELSE on[c]]
    /\ gauge' = [gauge EXCEPT ![r] = 0]
    /\ timer' = [timer EXCEPT ![r] = "off"]
    /\ UNCHANGED <<schema, faults, left>>
=============================================================================
