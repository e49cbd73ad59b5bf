----------------------------- MODULE Middleware -----------------------------
(***************************************************************************)
(* The requests a replica serves, as the chain of NewRouter sees them:     *)
(* rate limit, recovery, logging, CORS, metrics, then the handler.  A      *)
(* handler is a number of database calls (those whose error it only logs   *)
(* are left out); it may stall between two of them (io.ReadAll waits for   *)
(* the client's body).                                                     *)
(***************************************************************************)
EXTENDS Startup

CONSTANTS Client,    \* connections, each with one request
          Ranger,    \* the clients whose request is a range download
          MaxCalls,  \* bound: database calls of a request
          NoReplica  \* no process, or one that has died

ASSUME MiddlewareAssumption ==
    /\ IsFiniteSet(Client)
    /\ Ranger \subseteq Client
    /\ MaxCalls \in Nat
    /\ NoReplica \notin Replica

VARIABLES req,    \* state of each request
          on,     \* the replica it was sent to
          left,   \* database calls it still has to make
          gauge   \* http_requests_active of each replica

reqvars == <<req, on, left, gauge>>

Outcome == {"answered", "failed", "panicked", "timedOut", "cut", "lost"}

ServeInit ==
    /\ req = [c \in Client |-> "none"]
    /\ on = [c \in Client |-> NoReplica]
    /\ left = [c \in Client |-> 0]
    /\ gauge = [r \in Replica |-> 0]

Running(c) == req[c] = "running"

\* The listener is open until srv.Shutdown is called.
Listening(r) == phase[r] \in {"serving", "signalled", "dbClosed"}

End(c, outcome) == req' = [req EXCEPT ![c] = outcome]

-----------------------------------------------------------------------------
\* The metrics middleware counts the request in before the handler runs.
Accept(c, r) ==
    /\ Listening(r)
    /\ req[c] = "none"
    /\ End(c, "running")
    /\ on' = [on EXCEPT ![c] = r]
    /\ \E n \in 0 .. MaxCalls : left' = [left EXCEPT ![c] = n]
    /\ gauge' = [gauge EXCEPT ![r] = @ + 1]
    /\ NoFault

\* The CORS middleware answers OPTIONS itself, outside the metrics.
Preflight(c, r) ==
    /\ Listening(r)
    /\ req[c] = "none"
    /\ End(c, "answered")
    /\ on' = [on EXCEPT ![c] = r]
    /\ NoFault
    /\ UNCHANGED <<left, gauge>>

\* The handler returns, and the metrics middleware counts the request out.
Finish(c, outcome) ==
    /\ End(c, outcome)
    /\ gauge' = [gauge EXCEPT ![on[c]] = @ - 1]
    /\ UNCHANGED <<on, left>>

\* The handler panics: the recovery middleware answers 500, and what the
\* metrics middleware does after the handler is not deferred.
Panic(c) ==
    /\ End(c, "panicked")
    /\ UNCHANGED <<on, left, gauge>>

\* GetObjectRange ignores the error of its last lookup and returns a nil
\* file, which the handler dereferences.
LastLookup(c) == c \in Ranger /\ left[c] = 1

Call(c) ==
    /\ Running(c) /\ left[c] > 0
    /\ db[on[c]] = "open"
    /\ left' = [left EXCEPT ![c] = @ - 1]
    /\ NoFault
    /\ UNCHANGED <<req, on, gauge>>

\* A statement fails; without a fault it does when its table is missing.
CallError(c) ==
    /\ Running(c) /\ left[c] > 0
    /\ db[on[c]] = "open"
    /\ (tables # AllTables /\ NoFault) \/ Fault
    /\ IF LastLookup(c) THEN Panic(c) ELSE Finish(c, "failed")

\* The object of a range download is deleted before its last lookup.
RangeGone(c) ==
    /\ Running(c) /\ LastLookup(c)
    /\ db[on[c]] = "open"
    /\ Panic(c)
    /\ NoFault

\* "sql: database is closed".
CallRefused(c) ==
    /\ Running(c) /\ left[c] > 0
    /\ db[on[c]] = "closed"
    /\ IF LastLookup(c) THEN Panic(c) ELSE Finish(c, "failed")
    /\ NoFault

\* Limited mode: the repositories hold a nil *sql.DB.
CallNil(c) ==
    /\ Running(c) /\ left[c] > 0
    /\ db[on[c]] = "nil"
    /\ Panic(c)
    /\ NoFault

Answer(c) ==
    /\ Running(c) /\ left[c] = 0
    /\ Finish(c, "answered")
    /\ NoFault

\* The client is too slow for the server's ReadTimeout, while the handler waits
\* for a body (a range download has none), or for its WriteTimeout, when the
\* answer is due: the handler returns, and the client gets no good answer.
TimeOut(c) ==
    /\ Running(c) /\ (c \notin Ranger \/ left[c] = 0)
    /\ Finish(c, "timedOut")
    /\ NoFault

Serve(c) ==
    \/ \E r \in Replica : Accept(c, r) \/ Preflight(c, r)
    \/ Call(c) \/ CallError(c) \/ RangeGone(c) \/ CallRefused(c)
    \/ CallNil(c) \/ Answer(c) \/ TimeOut(c)
=============================================================================
