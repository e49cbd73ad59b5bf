------------------------------ MODULE Request -------------------------------
(***************************************************************************)
(* The requests in flight.  A worker is a goroutine of one of the server's *)
(* replicas; it serves one request at a time and holds that request's      *)
(* local variables.  Nothing in the program locks a bucket, a key or a     *)
(* file, so any two workers interleave between any two calls to the        *)
(* database or to the disk.                                                *)
(***************************************************************************)
EXTENDS Catalog

CONSTANTS Worker,      \* goroutines serving requests
          Ops,         \* the operations clients ask for
          MaxFaults,   \* bound: database or disk calls that return an error
          MaxCrashes   \* bound: requests lost with the process serving them

Operations == {"put", "get", "delete", "clean", "create", "remove", "version"}

ASSUME RequestAssumption ==
    /\ Ops \subseteq Operations
    /\ MaxFaults \in Nat
    /\ MaxCrashes \in Nat

VARIABLES pc,       \* where each worker is; "idle" between requests
          at,       \* the request's bucket id
          obj,      \* the file the request works on
          todo,     \* what the request's current loop has left to do
          snap,     \* the copy of a bucket row the request holds
          faults,   \* failed calls so far
          crashes   \* lost requests so far

local == <<pc, at, obj, todo, snap>>

Label == {"idle",
          "putBody", "putWrite", "putChunk",
          "getList", "getRead",
          "delList", "delDisk", "delBucket", "delCount",
          "clean", "mkInsert", "rmCount", "rmRow", "verWrite"}

\* A request whose local variables are now these.
Enter(w, l, b, f, t, row) ==
    /\ pc'   = [pc   EXCEPT ![w] = l]
    /\ at'   = [at   EXCEPT ![w] = b]
    /\ obj'  = [obj  EXCEPT ![w] = f]
    /\ todo' = [todo EXCEPT ![w] = t]
    /\ snap' = [snap EXCEPT ![w] = row]

\* The request is answered (or lost) and its local variables are gone.
Return(w) == Enter(w, "idle", None, None, {}, None)

(* Mutated form of Ticked: the loop does not advance. *)
TickedInPlace(w, i) ==
    Enter(w, pc[w], at[w], obj[w], todo[w], snap[w])

\* One more item of the loop is done.
Ticked(w, i) ==
    Enter(w, pc[w], at[w], obj[w], todo[w] \ {i}, snap[w])

\* Loops over chunks go through them in index order.
NextShard(w) == {s \in todo[w] : \A t \in todo[w] : s <= t}

\* A call to the database or to the disk returns an error.
Fault == faults < MaxFaults /\ faults' = faults + 1 /\ UNCHANGED crashes

NoFault == UNCHANGED <<faults, crashes>>

\* The process serving w dies.  What it stored stays.
Crash(w) ==
    /\ pc[w] # "idle"
    /\ crashes < MaxCrashes
    /\ crashes' = crashes + 1
    /\ UNCHANGED faults
    /\ Return(w)

RequestInit ==
    /\ pc = [w \in Worker |-> "idle"]
    /\ at = [w \in Worker |-> None]
    /\ obj = [w \in Worker |-> None]
    /\ todo = [w \in Worker |-> {}]
    /\ snap = [w \in Worker |-> None]
    /\ faults = 0
    /\ crashes = 0
=============================================================================
