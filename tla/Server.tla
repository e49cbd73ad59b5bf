------------------------------- MODULE Server -------------------------------
(***************************************************************************)
(* The life of the server's processes: Startup, the requests of Middleware *)
(* and Shutdown over one database.                                         *)
(***************************************************************************)
EXTENDS Shutdown

hvars == <<bootvars, reqvars, timer>>

HInit == BootInit /\ ServeInit /\ TimerInit

\* main of replica r goes on by itself.
Main(r) ==
    \/ Boot(r) /\ UNCHANGED <<reqvars, timer>>
    \/ CloseDatabase(r) \/ StopListening(r) \/ Return(r)

HNext ==
    \/ \E r \in Replica : Main(r) \/ Signal(r) \/ Expire(r) \/ Die(r)
    \/ \E c \in Client : Serve(c) /\ UNCHANGED <<phase, db, applied, schema, timer>>

\* The cluster starts a replica that is down, its main and its timer go on.  A
\* request may stall on its client for ever, as the server's own timeouts are
\* off when they are configured as 0, and no signal need come.
HSpec ==
    /\ HInit /\ [][HNext]_hvars
    /\ \A r \in Replica : WF_hvars(Main(r)) /\ WF_hvars(Expire(r))

-----------------------------------------------------------------------------
(* Type invariant *)

ServerTypeOK ==
    /\ phase \in [Replica -> Phase]
    /\ db \in [Replica -> {"nil", "open", "closed"}]
    /\ applied \in [Replica -> 0 .. Migrations]
    /\ tables \subseteq AllTables
    /\ admin \in BOOLEAN /\ policy \in BOOLEAN
    /\ faults \in Nat /\ deaths \in Nat
    /\ req \in [Client -> Outcome \cup {"none", "running"}]
    /\ on \in [Client -> Replica \cup {NoReplica}]
    /\ left \in [Client -> 0 .. MaxCalls]
    /\ gauge \in [Replica -> Nat]
    /\ timer \in [Replica -> {"off", "running", "expired"}]

-----------------------------------------------------------------------------
(* Properties *)

\* After a signal the process ends, even when clients stall.
StopsAfterSignal ==
    \A r \in Replica : phase[r] = "signalled" ~> phase[r] \in {"stopped", "down"}

\* While no connection and no statement fails, a request fails only on a
\* replica that has closed its database to shut down, and panics only as a
\* range download: however replicas start, die half way through the migrations
\* and start again, one that listens finds every table.  Slow clients aside.
HealthyUntilClosed ==
    faults = 0 =>
        \A c \in Client :
            /\ req[c] = "failed" /\ on[c] # NoReplica => db[on[c]] = "closed"
            /\ req[c] = "panicked" => c \in Ranger

\* The admin is there and the default policy is not only while the replica
\* that inserted the one is about to insert the other, unless a statement
\* failed or a process died: seedDefaultData never completes a half-done seed.
HalfSeededByAccident ==
    admin /\ ~policy =>
        \/ faults + deaths > 0
        \/ \E r \in Replica : phase[r] = "seedPolicy"

\* However many replicas start at once, the admin and the policy are there in
\* the end, unless a statement fails or a process dies.
SeedFinished == <>((admin /\ policy) \/ faults + deaths > 0)
=============================================================================
