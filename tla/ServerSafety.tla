----------------------------- MODULE ServerSafety ---------------------------
(***************************************************************************)
(* The life of the server's processes, for any number of replicas, clients *)
(* and migrations, and any faults and deaths.                              *)
(***************************************************************************)
EXTENDS Server, FiniteSetTheorems, TLAPS

\* What main has done by the time it is in a phase.  A migration fails, is
\* skipped or leaves a table out only when a call has failed.
BootOK ==
    \A r \in Replica :
        /\ phase[r] = "down" => applied[r] = 0 /\ db[r] = "nil"
        /\ phase[r] \in Starting => db[r] = "open"
        /\ db[r] = "closed" => phase[r] \in {"dbClosed", "draining", "stopped"}
        /\ 1 .. applied[r] \subseteq tables
        /\ faults = 0 /\ phase[r] # "down" =>
            /\ db[r] # "nil"
            /\ phase[r] # "migrating" => tables = AllTables

\* A request that is running does so in a process that listens or drains.
RequestsOK ==
    \A c \in Client : Running(c) =>
        /\ on[c] \in Replica
        /\ phase[on[c]] \in {"serving", "signalled", "dbClosed", "draining"}

\* The requests the metrics middleware has counted in and not out: those that
\* run, and those that panicked, whose Dec never came.
Counted(r) == {c \in Client : on[c] = r /\ req[c] \in {"running", "panicked"}}

\* Hence no gauge falls below zero.
GaugeOK ==
    \A r \in Replica : phase[r] # "stopped" => gauge[r] = Cardinality(Counted(r))

\* The inductive invariant.
ServerInv ==
    /\ ServerTypeOK /\ BootOK /\ RequestsOK
    /\ HealthyUntilClosed /\ GaugeOK /\ HalfSeededByAccident

LEMMA CountedFinite == \A r : IsFiniteSet(Counted(r)) /\ Cardinality(Counted(r)) \in Nat
  BY MiddlewareAssumption, FS_Subset, FS_CardinalityType DEF Counted

\* A step with a failed call, and one without.
LEMMA Faults ==
    ASSUME ServerTypeOK, Fault \/ NoFault
    PROVE  /\ faults' \in Nat /\ faults <= faults' /\ deaths' = deaths
           /\ Fault => faults' > 0
           /\ NoFault => faults' = faults
  <1>1. faults \in Nat
    BY DEF ServerTypeOK
  <1>2. CASE Fault
    BY <1>1, <1>2 DEF Fault, NoFault
  <1>3. CASE NoFault
    BY <1>1, <1>3 DEF Fault, NoFault
  <1> QED
    BY <1>2, <1>3

LEMMA HInitInv == HInit => ServerInv
  <1> SUFFICES ASSUME HInit PROVE ServerInv
    OBVIOUS
  <1> USE StartupAssumption, MiddlewareAssumption DEF HInit, BootInit, ServeInit, TimerInit
  <1>1. ServerTypeOK
    <2>1. phase \in [Replica -> Phase]
      BY DEF Phase
    <2>2. tables \subseteq AllTables /\ on \in [Client -> Replica \cup {NoReplica}]
      OBVIOUS
    <2>3. applied \in [Replica -> 0 .. Migrations] /\ left \in [Client -> 0 .. MaxCalls]
      OBVIOUS
    <2> QED
      BY <2>1, <2>2, <2>3 DEF ServerTypeOK
  <1>2. BootOK
    BY DEF BootOK, Starting
  <1>3. RequestsOK /\ HealthyUntilClosed /\ HalfSeededByAccident
    BY DEF RequestsOK, Running, HealthyUntilClosed, HalfSeededByAccident
  <1>4. GaugeOK
    <2>1. \A r \in Replica : Counted(r) = {}
      BY DEF Counted
    <2> QED
      BY <2>1, FS_EmptySet DEF GaugeOK, Counted
  <1> QED
    BY <1>1, <1>2, <1>3, <1>4 DEF ServerInv

-----------------------------------------------------------------------------
(* Starting *)

\* The requests, the gauges and the timers are what they were, and no replica
\* that may serve changes its phase to one that may not.
LEMMA BootInv ==
    ASSUME ServerInv, NEW r \in Replica, Boot(r), UNCHANGED <<reqvars, timer>>
    PROVE  ServerInv'
  <1> USE StartupAssumption DEF ServerInv
  <1>1. phase[r] \in Starting \cup {"down"}
    BY DEF Boot, Connect, ConnectError, Migrate, Migrated, MigrateError, SeedCount, SeedUser,
           SeedPolicy, SeedError, Starting
  <1>a. PICK p \in Starting \cup {"serving"} : phase' = [phase EXCEPT ![r] = p]
    <2>1. CASE Migrate(r)
      <3>1. phase' = [phase EXCEPT ![r] = "migrating"]
        BY <2>1 DEF Migrate, ServerTypeOK
      <3> QED
        BY <3>1 DEF Starting
    <2>2. CASE \/ Connect(r) \/ ConnectError(r) \/ Migrated(r) \/ MigrateError(r)
               \/ SeedCount(r) \/ SeedUser(r) \/ SeedPolicy(r) \/ SeedError(r)
      BY <2>2 DEF Connect, ConnectError, Migrated, MigrateError, SeedCount, SeedUser,
           SeedPolicy, SeedError, Starting, Goto
    <2> QED
      BY <2>1, <2>2 DEF Boot
  <1>b. /\ db' = db \/ db' = [db EXCEPT ![r] = "open"]
        /\ db[r] # "closed"
    BY <1>1 DEF Boot, Connect, ConnectError, Migrate, Migrated, MigrateError, SeedCount,
           SeedUser, SeedPolicy, SeedError, BootOK, Starting
  <1>c. Fault \/ NoFault
    BY DEF Boot, Connect, ConnectError, Migrate, Migrated, MigrateError, SeedCount,
           SeedUser, SeedPolicy, SeedError
  <1>d. faults' \in Nat /\ faults <= faults' /\ deaths' = deaths
    BY <1>c, Faults
  <1>2. /\ phase' \in [Replica -> Phase]
        /\ phase'[r] \in Starting \cup {"serving"}
        /\ \A s \in Replica : s # r => phase'[s] = phase[s] /\ db'[s] = db[s]
        /\ UNCHANGED deaths /\ faults' \in Nat /\ faults <= faults'
        /\ db' \in [Replica -> {"nil", "open", "closed"}] /\ db'[r] # "closed"
    BY <1>a, <1>b, <1>d DEF ServerTypeOK, Phase
  <1>3. ServerTypeOK'
    <2>1. /\ applied' \in [Replica -> 0 .. Migrations]
          /\ tables' \subseteq AllTables
      <3>1. CASE Migrate(r)
        <4>1. applied[r] \in 0 .. Migrations /\ applied[r] < Migrations
          BY <3>1 DEF Migrate, MigrationsLeft, ServerTypeOK
        <4>2. applied[r] + 1 \in 0 .. Migrations /\ applied[r] + 1 \in AllTables
          BY <4>1 DEF AllTables
        <4> QED
          BY <3>1, <4>2 DEF Migrate, ServerTypeOK
      <3>2. CASE ~Migrate(r)
        BY <3>2 DEF Boot, Connect, ConnectError, Migrated, MigrateError, SeedCount, SeedUser,
             SeedPolicy, SeedError, schema, ServerTypeOK
      <3> QED
        BY <3>1, <3>2
    <2>2. admin' \in BOOLEAN /\ policy' \in BOOLEAN
      BY DEF Boot, Connect, ConnectError, Migrate, Migrated, MigrateError, SeedCount, SeedUser,
             SeedPolicy, SeedError, schema, ServerTypeOK
    <2> QED
      BY <2>1, <2>2, <1>2 DEF ServerTypeOK, reqvars
  <1>4. BootOK'
    <2>1. CASE Connect(r)
      BY <2>1, <1>2 DEF Connect, Goto, NoFault, schema, BootOK, ServerTypeOK, Starting
    <2>2. CASE ConnectError(r) \/ MigrateError(r) \/ SeedError(r)
      <3>1. Fault /\ phase' = [phase EXCEPT ![r] = "serving"] /\ UNCHANGED <<db, applied, tables>>
        BY <2>2 DEF ConnectError, MigrateError, SeedError, Goto, schema
      <3>2. faults' > 0
        BY <3>1, Faults
      <3> QED
        BY <3>1, <3>2, <1>2, <1>b DEF BootOK, ServerTypeOK, Starting
    <2>3. CASE Migrate(r)
      BY <2>3, <1>2 DEF Migrate, MigrationsLeft, NoFault, BootOK, ServerTypeOK, AllTables, Starting
    <2>4. CASE Migrated(r)
      <3>1. applied[r] = Migrations
        BY <2>4 DEF Migrated, MigrationsLeft, ServerTypeOK
      <3>2. tables = AllTables
        BY <3>1 DEF BootOK, ServerTypeOK, AllTables
      <3>3. UNCHANGED <<db, applied, tables, faults>> /\ phase' = [phase EXCEPT ![r] = "seedCount"]
            /\ phase[r] = "migrating"
        BY <2>4 DEF Migrated, NoFault, Goto, schema
      <3> QED
        BY <3>2, <3>3 DEF BootOK, ServerTypeOK, Starting
    <2>5. CASE SeedCount(r) \/ SeedUser(r) \/ SeedPolicy(r)
      BY <2>5, <1>1, <1>2 DEF SeedCount, SeedUser, SeedPolicy, Goto, NoFault, schema, BootOK,
            ServerTypeOK, Starting
    <2> QED
      BY <2>1, <2>2, <2>3, <2>4, <2>5 DEF Boot
  <1>5. RequestsOK'
    BY <1>1, <1>2 DEF RequestsOK, Running, reqvars, Starting
  <1>6. HealthyUntilClosed'
    <2>1. db[r] # "closed" /\ \A s \in Replica : db[s] = "closed" => db'[s] = "closed"
      BY <1>1, <1>2 DEF BootOK, Starting
    <2> QED
      BY <2>1, <1>2 DEF HealthyUntilClosed, reqvars, ServerTypeOK
  <1>7. GaugeOK'
    BY <1>1, <1>2 DEF GaugeOK, Counted, reqvars, Starting
  <1>8. HalfSeededByAccident'
    <2>1. CASE Connect(r) \/ Migrate(r) \/ Migrated(r) \/ SeedCount(r)
      <3>1. UNCHANGED <<admin, policy, faults, deaths>>
        BY <2>1 DEF Connect, Migrate, Migrated, SeedCount, NoFault, schema
      <3>2. phase[r] # "seedPolicy"
        BY <2>1 DEF Connect, Migrate, Migrated, SeedCount
      <3>3. \A s \in Replica : phase[s] = "seedPolicy" => phase'[s] = "seedPolicy"
        BY <3>2, <1>2
      <3> QED
        BY <3>1, <3>3, Zenon DEF HalfSeededByAccident
    <2>2. CASE ConnectError(r) \/ MigrateError(r) \/ SeedError(r)
      <3>1. faults' > 0 /\ deaths' \in Nat
        BY <2>2, Faults DEF ConnectError, MigrateError, SeedError, ServerTypeOK
      <3> QED
        BY <3>1, <1>2 DEF HalfSeededByAccident
    <2>3. CASE SeedUser(r)
      BY <2>3, <1>2 DEF SeedUser, Goto, NoFault, HalfSeededByAccident, ServerTypeOK
    <2>4. CASE SeedPolicy(r)
      BY <2>4 DEF SeedPolicy, HalfSeededByAccident
    <2> QED
      BY <2>1, <2>2, <2>3, <2>4 DEF Boot
  <1> QED
    BY <1>3, <1>4, <1>5, <1>6, <1>7, <1>8

-----------------------------------------------------------------------------
(* Stopping *)

LEMMA StopInv ==
    ASSUME ServerInv, NEW r \in Replica, Signal(r) \/ CloseDatabase(r) \/ StopListening(r) \/ Expire(r)
    PROVE  ServerInv'
  <1> USE DEF ServerInv
  <1>1. /\ UNCHANGED <<applied, schema, faults, deaths, reqvars>>
        /\ phase' \in [Replica -> Phase] /\ timer' \in [Replica -> {"off", "running", "expired"}]
        /\ \A s \in Replica :
            \/ UNCHANGED <<phase[s], db[s]>>
            \/ phase[s] = "serving" /\ phase'[s] = "signalled" /\ UNCHANGED db[s]
            \/ phase[s] = "signalled" /\ phase'[s] = "dbClosed" /\ db'[s] = Closed(db[s])
            \/ phase[s] = "dbClosed" /\ phase'[s] = "draining" /\ UNCHANGED db[s]
        /\ db' \in [Replica -> {"nil", "open", "closed"}]
        /\ \A s \in Replica : phase[s] = "stopped" => UNCHANGED timer[s]
    BY DEF Signal, CloseDatabase, StopListening, Expire, Goto, NoFault, bootvars, schema, reqvars,
           ServerTypeOK, Phase, Closed
  <1>2. ServerTypeOK'
    BY <1>1 DEF ServerTypeOK, schema, reqvars
  <1>3. BootOK'
    BY <1>1 DEF BootOK, schema, ServerTypeOK, Closed, Starting
  <1>4. RequestsOK'
    BY <1>1 DEF RequestsOK, Running, reqvars
  <1>5. HealthyUntilClosed'
    BY <1>1 DEF HealthyUntilClosed, reqvars, ServerTypeOK, Closed
  <1>6. GaugeOK'
    BY <1>1 DEF GaugeOK, Counted, reqvars
  <1>7. HalfSeededByAccident'
    BY <1>1 DEF HalfSeededByAccident, schema
  <1> QED
    BY <1>2, <1>3, <1>4, <1>5, <1>6, <1>7

LEMMA ReturnInv ==
    ASSUME ServerInv, NEW r \in Replica, Return(r)
    PROVE  ServerInv'
  <1> USE DEF ServerInv
  <1>1. /\ phase[r] = "draining" /\ phase'[r] = "stopped"
        /\ \A s \in Replica : s # r => phase'[s] = phase[s]
        /\ phase' \in [Replica -> Phase]
        /\ UNCHANGED <<db, applied, tables, admin, policy, faults, deaths, on, left, gauge, timer>>
    BY DEF Return, Goto, NoFault, schema, ServerTypeOK, Phase
  <1>2. /\ req' \in [Client -> Outcome \cup {"none", "running"}]
        /\ \A c \in Client :
            \/ Running(c) /\ on[c] = r /\ req'[c] = "cut"
            \/ ~(Running(c) /\ on[c] = r) /\ req'[c] = req[c]
    BY DEF Return, RunningOn, ServerTypeOK, Outcome
  <1>3. ServerTypeOK'
    BY <1>1, <1>2 DEF ServerTypeOK
  <1>4. BootOK'
    BY <1>1 DEF BootOK, ServerTypeOK, Starting
  <1>5. RequestsOK'
    BY <1>1, <1>2 DEF RequestsOK, Running
  <1>6. HealthyUntilClosed'
    BY <1>1, <1>2 DEF HealthyUntilClosed
  <1>7. GaugeOK'
    <2>1. ASSUME NEW s \in Replica, s # r PROVE Counted(s)' = Counted(s)
      BY <1>1, <1>2, <2>1 DEF Counted
    <2> QED
      BY <1>1, <2>1 DEF GaugeOK, Counted
  <1>8. HalfSeededByAccident'
    BY <1>1 DEF HalfSeededByAccident
  <1> QED
    BY <1>3, <1>4, <1>5, <1>6, <1>7, <1>8

LEMMA DieInv ==
    ASSUME ServerInv, NEW r \in Replica, Die(r)
    PROVE  ServerInv'
  <1> USE MiddlewareAssumption, StartupAssumption DEF ServerInv
  <1>1. /\ phase[r] # "stopped" /\ phase'[r] = "down" /\ db'[r] = "nil" /\ applied'[r] = 0
        /\ gauge'[r] = 0
        /\ \A s \in Replica : s # r =>
            UNCHANGED <<phase[s], db[s], applied[s], gauge[s], timer[s]>>
        /\ UNCHANGED <<tables, admin, policy, faults, left>> /\ deaths' = deaths + 1
    BY DEF Die, Goto, schema, ServerTypeOK
  <1>2. \A c \in Client :
            \/ on[c] = r /\ on'[c] = NoReplica
                /\ (IF Running(c) THEN req'[c] = "lost" ELSE req'[c] = req[c])
            \/ on[c] # r /\ on'[c] = on[c] /\ req'[c] = req[c]
    BY DEF Die, RunningOn, ServerTypeOK
  <1>3. ServerTypeOK'
    BY <1>1 DEF Die, Goto, schema, ServerTypeOK, Phase, Outcome
  <1>4. BootOK'
    BY <1>1 DEF BootOK, Starting
  <1>5. RequestsOK'
    BY <1>1, <1>2 DEF RequestsOK, Running
  <1>6. HealthyUntilClosed'
    BY <1>1, <1>2 DEF HealthyUntilClosed, ServerTypeOK
  <1>7. GaugeOK'
    <2>1. Counted(r)' = {}
      BY <1>2 DEF Counted
    <2>2. ASSUME NEW s \in Replica, s # r PROVE Counted(s)' = Counted(s)
      BY <1>2, <2>2 DEF Counted
    <2>3. Cardinality(Counted(r)') = 0
      BY <2>1, FS_EmptySet
    <2>4. ASSUME NEW s \in Replica, phase'[s] # "stopped"
          PROVE  gauge'[s] = Cardinality(Counted(s)')
      <3>1. CASE s = r
        BY <3>1, <1>1, <2>3
      <3>2. CASE s # r
        BY <3>2, <1>1, <2>2, <2>4 DEF GaugeOK, Counted
      <3> QED
        BY <3>1, <3>2
    <2> QED
      BY <2>4 DEF GaugeOK, Counted
  <1>8. HalfSeededByAccident'
    BY <1>1 DEF HalfSeededByAccident, ServerTypeOK
  <1> QED
    BY <1>3, <1>4, <1>5, <1>6, <1>7, <1>8

-----------------------------------------------------------------------------
(* Serving *)

\* A request that is running is counted in a process that has not stopped.
LEMMA RunningCounted ==
    ASSUME ServerInv, NEW c \in Client, Running(c)
    PROVE  /\ on[c] \in Replica /\ phase[on[c]] \notin Starting \cup {"down", "stopped"}
           /\ c \in Counted(on[c])
           /\ gauge[on[c]] = Cardinality(Counted(on[c])) /\ gauge[on[c]] - 1 \in Nat
  <1>1. on[c] \in Replica /\ phase[on[c]] \in {"serving", "signalled", "dbClosed", "draining"}
    BY DEF ServerInv, RequestsOK
  <1>2. c \in Counted(on[c])
    BY DEF Counted, Running
  <1>3. gauge[on[c]] = Cardinality(Counted(on[c]))
    BY <1>1 DEF ServerInv, GaugeOK, Counted
  <1>4. Cardinality(Counted(on[c])) # 0
    BY <1>2, CountedFinite, FS_EmptySet
  <1> QED
    BY <1>1, <1>2, <1>3, <1>4, CountedFinite DEF Starting

\* What no request changes.
ServeKeeps == UNCHANGED <<phase, db, applied, schema, timer>>

\* The sum of two counters is positive when one of them grew.
LEMMA SumGrows ==
    ASSUME NEW i \in Nat, NEW j \in Nat, NEW k \in Nat, i <= j, i + k > 0
    PROVE  j + k > 0
  OBVIOUS

LEMMA ServeKeepsInv ==
    ASSUME ServerInv, ServeKeeps, Fault \/ NoFault
    PROVE  BootOK' /\ HalfSeededByAccident' /\ faults' \in Nat /\ deaths' \in Nat
  <1>1. faults' \in Nat /\ faults <= faults' /\ deaths' = deaths /\ faults \in Nat /\ deaths \in Nat
    BY Faults DEF ServerInv, ServerTypeOK
  <1>2. UNCHANGED <<phase, db, applied, tables, admin, policy>>
    BY DEF ServeKeeps, schema
  <1>3. BootOK'
    BY <1>1, <1>2 DEF ServerInv, BootOK
  <1>4. HalfSeededByAccident'
    <2>1. faults + deaths > 0 => faults' + deaths > 0
      BY <1>1, SumGrows
    <2>2. deaths' = deaths
      BY <1>1
    <2> QED
      <3>1. phase' = phase /\ admin' = admin /\ policy' = policy
        BY <1>2
      <3>2. HalfSeededByAccident
        BY DEF ServerInv
      <3> QED
        BY <2>1, <2>2, <3>1, <3>2, Zenon DEF HalfSeededByAccident
  <1> QED
    BY <1>1, <1>3, <1>4

LEMMA AcceptInv ==
    ASSUME ServerInv, NEW c \in Client, NEW r \in Replica, Accept(c, r) \/ Preflight(c, r), ServeKeeps
    PROVE  ServerInv'
  <1> USE MiddlewareAssumption DEF ServerInv
  <1>1. /\ req[c] = "none" /\ on'[c] = r /\ Listening(r) /\ NoFault
        /\ req'[c] \in {"running", "answered"}
        /\ gauge' = [gauge EXCEPT ![r] = IF req'[c] = "running" THEN @ + 1 ELSE @]
        /\ \A d \in Client : d # c => req'[d] = req[d] /\ on'[d] = on[d]
    BY DEF Accept, Preflight, End, ServerTypeOK
  <1>2. BootOK' /\ HalfSeededByAccident'
    BY <1>1, ServeKeepsInv
  <1>3. ServerTypeOK'
    BY DEF Accept, Preflight, End, NoFault, ServeKeeps, schema, ServerTypeOK, Outcome
  <1>4. RequestsOK'
    BY <1>1 DEF RequestsOK, Running, Listening, ServeKeeps
  <1>5. HealthyUntilClosed'
    BY <1>1 DEF HealthyUntilClosed, ServeKeeps, NoFault
  <1>6. GaugeOK'
    <2>1. \A s \in Replica : c \notin Counted(s)
      BY <1>1 DEF Counted
    <2>2. \A s \in Replica : Counted(s)' = IF s = r /\ req'[c] = "running"
                                           THEN Counted(s) \cup {c} ELSE Counted(s)
      BY <1>1, <2>1 DEF Counted
    <2>3. Cardinality(Counted(r) \cup {c}) = Cardinality(Counted(r)) + 1
      BY <2>1, CountedFinite, FS_AddElement
    <2>4. ASSUME NEW s \in Replica, phase'[s] # "stopped"
          PROVE  gauge'[s] = Cardinality(Counted(s)')
      <3>1. gauge[s] = Cardinality(Counted(s))
        BY <2>4 DEF GaugeOK, Counted, ServeKeeps
      <3> QED
        BY <1>1, <2>2, <2>3, <3>1 DEF ServerTypeOK
    <2> QED
      BY <2>4 DEF GaugeOK, Counted
  <1> QED
    BY <1>2, <1>3, <1>4, <1>5, <1>6

\* A database call that succeeds.
LEMMA CallInv ==
    ASSUME ServerInv, NEW c \in Client, Call(c), ServeKeeps
    PROVE  ServerInv'
  <1> USE DEF ServerInv
  <1>1. UNCHANGED <<req, on, gauge>> /\ NoFault
    BY DEF Call
  <1>2. BootOK' /\ HalfSeededByAccident'
    BY <1>1, ServeKeepsInv
  <1>3. ServerTypeOK'
    BY MiddlewareAssumption DEF Call, NoFault, ServeKeeps, schema, ServerTypeOK
  <1>4. RequestsOK' /\ HealthyUntilClosed' /\ GaugeOK'
    BY <1>1 DEF ServeKeeps, RequestsOK, Running, HealthyUntilClosed, GaugeOK, Counted, NoFault
  <1> QED
    BY <1>2, <1>3, <1>4

\* A request that was running is answered, or fails and nothing but a closed
\* database or an earlier failure is to blame, or panics.
LEMMA EndInv ==
    ASSUME ServerInv, NEW c \in Client, Running(c), ServeKeeps, Fault \/ NoFault,
           NEW o \in {"answered", "failed", "panicked", "timedOut"},
           IF o = "panicked" THEN Panic(c) ELSE Finish(c, o),
           o = "failed" => db[on[c]] = "closed" \/ faults' > 0,
           o = "panicked" => c \in Ranger \/ faults' > 0
    PROVE  ServerInv'
  <1> USE DEF ServerInv
  <1>1. /\ req'[c] = o /\ UNCHANGED <<on, left>>
        /\ \A d \in Client : d # c => req'[d] = req[d]
        /\ req' \in [Client -> Outcome \cup {"none", "running"}]
        /\ gauge' = [gauge EXCEPT ![on[c]] = IF o = "panicked" THEN @ ELSE @ - 1]
    BY RunningCounted DEF Panic, Finish, End, ServerTypeOK, Outcome
  <1>2. /\ on[c] \in Replica /\ c \in Counted(on[c]) /\ gauge[on[c]] - 1 \in Nat
        /\ phase[on[c]] # "stopped"
    BY RunningCounted
  <1>3. BootOK' /\ HalfSeededByAccident' /\ faults' \in Nat /\ deaths' \in Nat /\ faults <= faults'
    BY ServeKeepsInv, Faults
  <1>4. ServerTypeOK'
    BY <1>1, <1>2, <1>3 DEF ServeKeeps, schema, ServerTypeOK
  <1>5. RequestsOK'
    BY <1>1 DEF ServeKeeps, RequestsOK, Running
  <1>6. HealthyUntilClosed'
    BY <1>1, <1>3 DEF ServeKeeps, HealthyUntilClosed, ServerTypeOK
  <1>7. GaugeOK'
    <2>1. \A s \in Replica : Counted(s)' = IF s = on[c] /\ o # "panicked"
                                           THEN Counted(s) \ {c} ELSE Counted(s)
      BY <1>1, <1>2 DEF Counted, Running
    <2>2. Cardinality(Counted(on[c]) \ {c}) = Cardinality(Counted(on[c])) - 1
      BY <1>2, CountedFinite, FS_RemoveElement
    <2>3. ASSUME NEW s \in Replica, phase'[s] # "stopped"
          PROVE  gauge'[s] = Cardinality(Counted(s)')
      <3>1. gauge[s] = Cardinality(Counted(s))
        BY <2>3 DEF GaugeOK, Counted, ServeKeeps
      <3> QED
        BY <1>1, <2>1, <2>2, <3>1 DEF ServerTypeOK
    <2> QED
      BY <2>3 DEF GaugeOK, Counted
  <1> QED
    BY <1>3, <1>4, <1>5, <1>6, <1>7

LEMMA ServeInv ==
    ASSUME ServerInv, NEW c \in Client, Serve(c), ServeKeeps
    PROVE  ServerInv'
  <1>1. ASSUME Running(c)
        PROVE  faults = 0 => db[on[c]] # "nil" /\ tables = AllTables
    BY <1>1 DEF ServerInv, RequestsOK, BootOK
  <1>2. faults \in Nat
    BY DEF ServerInv, ServerTypeOK
  <1>3. CASE CallError(c)
    <2>1. Fault \/ (NoFault /\ tables # AllTables)
      BY <1>3 DEF CallError
    <2>2. faults' > 0
      <3>1. CASE Fault
        <4>1. ServerTypeOK
          BY DEF ServerInv
        <4> QED
          BY <3>1, <4>1, Faults
      <3>2. CASE NoFault /\ tables # AllTables
        BY <3>2, <1>1, <1>2, <1>3 DEF CallError, NoFault
      <3> QED
        BY <2>1, <3>1, <3>2
    <2> QED
      BY <1>3, <2>1, <2>2, EndInv DEF CallError
  <1>4. CASE RangeGone(c) \/ CallRefused(c) \/ Answer(c) \/ TimeOut(c)
    BY <1>4, EndInv DEF RangeGone, CallRefused, Answer, TimeOut, LastLookup
  <1>5. CASE CallNil(c)
    <2>1. faults' > 0
      BY <1>1, <1>2, <1>5 DEF CallNil, NoFault
    <2> QED
      BY <1>5, <2>1, EndInv DEF CallNil
  <1> QED
    BY <1>3, <1>4, <1>5, AcceptInv, CallInv DEF Serve

-----------------------------------------------------------------------------
(* Theorems *)

LEMMA HNextInv == ServerInv /\ [HNext]_hvars => ServerInv'
  <1> SUFFICES ASSUME ServerInv, [HNext]_hvars PROVE ServerInv'
    OBVIOUS
  <1>1. ASSUME NEW r \in Replica, Main(r) \/ Signal(r) \/ Expire(r) \/ Die(r)
        PROVE  ServerInv'
    BY <1>1, BootInv, StopInv, ReturnInv, DieInv DEF Main
  <1>2. ASSUME NEW c \in Client, Serve(c) /\ UNCHANGED <<phase, db, applied, schema, timer>>
        PROVE  ServerInv'
    BY <1>2, ServeInv DEF ServeKeeps
  <1>3. CASE UNCHANGED hvars
    BY <1>3 DEF hvars, bootvars, schema, reqvars, ServerInv, ServerTypeOK, BootOK, RequestsOK,
                Running, HealthyUntilClosed, GaugeOK, Counted, HalfSeededByAccident
  <1> QED
    BY <1>1, <1>2, <1>3 DEF HNext

LEMMA ServerInvariance == HSpec => []ServerInv
  BY HInitInv, HNextInv, PTL DEF HSpec

\* Every variable of Server has its type; the gauge is never negative.
THEOREM ServerTyped == HSpec => []ServerTypeOK
  <1>1. ServerInv => ServerTypeOK
    BY DEF ServerInv
  <1> QED
    BY <1>1, ServerInvariance, PTL

\* Without failures a request fails only where the database was closed to shut
\* down, for any number of replicas, migrations and deaths.
THEOREM Healthy == HSpec => []HealthyUntilClosed
  <1>1. ServerInv => HealthyUntilClosed
    BY DEF ServerInv
  <1> QED
    BY <1>1, ServerInvariance, PTL

\* Only a failed statement or a dead process leaves the seeding half done.
THEOREM HalfSeeded == HSpec => []HalfSeededByAccident
  <1>1. ServerInv => HalfSeededByAccident
    BY DEF ServerInv
  <1> QED
    BY <1>1, ServerInvariance, PTL

-----------------------------------------------------------------------------
(* What no step takes back *)

\* The seeding was left half done: the admin is there, the policy is not, and
\* no replica is about to insert it.
HalfSeed == admin /\ ~policy /\ \A r \in Replica : phase[r] # "seedPolicy"

LEMMA HalfSeedKept == ServerTypeOK /\ HalfSeed /\ [HNext]_hvars => HalfSeed'
  <1> SUFFICES ASSUME ServerTypeOK, HalfSeed, [HNext]_hvars PROVE HalfSeed'
    OBVIOUS
  <1>1. ASSUME NEW r \in Replica, NEW p, Goto(r, p), p # "seedPolicy",
               UNCHANGED <<admin, policy>>
        PROVE  HalfSeed'
    BY <1>1 DEF Goto, HalfSeed, ServerTypeOK
  <1>2. ASSUME NEW r \in Replica, Boot(r)
        PROVE  HalfSeed'
    <2>1. CASE Connect(r) \/ ConnectError(r) \/ Migrated(r) \/ MigrateError(r) \/ SeedCount(r)
      BY <1>1, <2>1 DEF Connect, ConnectError, Migrated, MigrateError, SeedCount, HalfSeed, schema
    <2>2. CASE Migrate(r)
      BY <2>2 DEF Migrate, HalfSeed
    <2>3. CASE SeedUser(r)
      <3>1. UNCHANGED <<admin, policy>> /\ Goto(r, "serving")
        BY <2>3 DEF SeedUser, HalfSeed
      <3> QED
        BY <1>1, <3>1
    <2>4. CASE SeedPolicy(r)
      BY <2>4 DEF SeedPolicy, HalfSeed
    <2>5. CASE SeedError(r)
      <3>1. UNCHANGED <<admin, policy>> /\ Goto(r, "serving")
        BY <2>5 DEF SeedError, HalfSeed
      <3> QED
        BY <1>1, <3>1
    <2> QED
      BY <1>2, <2>1, <2>2, <2>3, <2>4, <2>5 DEF Boot
  <1>3. ASSUME NEW r \in Replica,
               CloseDatabase(r) \/ StopListening(r) \/ Return(r) \/ Signal(r) \/ Die(r)
        PROVE  HalfSeed'
    BY <1>1, <1>3 DEF CloseDatabase, StopListening, Return, Signal, Die, schema
  <1>4. CASE UNCHANGED <<phase, schema>>
    BY <1>4 DEF HalfSeed, schema
  <1> QED
    BY <1>2, <1>3, <1>4 DEF HNext, Main, Expire, bootvars, hvars

\* No restart repairs a half-done seeding, whatever fails or dies meanwhile:
\* seedDefaultData finds the user there and never looks for the policy.
THEOREM HalfSeededForever == HSpec => [](HalfSeed => []HalfSeed)
  <1> QED
    BY ServerTyped, HalfSeedKept, PTL DEF HSpec

\* How far main has come.
PhaseStage ==
    [down |-> 0, migrating |-> 1, seedCount |-> 2, seedUser |-> 3, seedPolicy |-> 4, serving |-> 5,
     signalled |-> 6, dbClosed |-> 7, draining |-> 8, stopped |-> 9]

\* A later phase, or one more migration of the list.
MainAdvances(r) ==
    \/ PhaseStage[phase'[r]] > PhaseStage[phase[r]]
    \/ phase'[r] = phase[r] /\ applied'[r] = applied[r] + 1 /\ applied'[r] <= Migrations

MainStays(r) == phase'[r] = phase[r] /\ applied'[r] = applied[r]

\* Only its death takes a process back, and each step of main takes it on.
MainAdvance ==
    [][\A r \in Replica :
        /\ MainAdvances(r) \/ MainStays(r) \/ Die(r)
        /\ Main(r) => MainAdvances(r)]_hvars

LEMMA GotoMoves ==
    ASSUME ServerTypeOK, NEW r \in Replica, NEW p \in Phase, Goto(r, p)
    PROVE  phase'[r] = p /\ \A s \in Replica : s # r => phase'[s] = phase[s]
  BY DEF Goto, ServerTypeOK

LEMMA MainMoves ==
    ASSUME ServerTypeOK, NEW r \in Replica, Main(r)
    PROVE  MainAdvances(r) /\ \A s \in Replica : s # r => MainStays(s)
  <1>1. CASE Migrate(r)
    <2>1. applied[r] \in 0 .. Migrations /\ applied[r] < Migrations /\ phase' = phase
      BY <1>1 DEF Migrate, MigrationsLeft, ServerTypeOK
    <2>2. /\ applied'[r] = applied[r] + 1
          /\ \A s \in Replica : s # r => applied'[s] = applied[s]
      BY <1>1 DEF Migrate, ServerTypeOK
    <2> QED
      BY <2>1, <2>2, StartupAssumption DEF MainAdvances, MainStays
  <1>2. CASE ~Migrate(r)
    <2>1. UNCHANGED applied
      BY <1>2 DEF Main, Boot, Connect, ConnectError, Migrated, MigrateError, SeedCount, SeedUser,
            SeedPolicy, SeedError, CloseDatabase, StopListening, Return
    <2>2. \E p \in Phase : Goto(r, p) /\ PhaseStage[p] > PhaseStage[phase[r]]
      <3> USE DEF Phase, Starting, PhaseStage
      <3>1. CASE Connect(r) \/ ConnectError(r) \/ Migrated(r) \/ MigrateError(r)
        BY <3>1 DEF Connect, ConnectError, Migrated, MigrateError
      <3>2. CASE SeedCount(r)
        BY <3>2 DEF SeedCount
      <3>3. CASE SeedUser(r)
        BY <3>3 DEF SeedUser
      <3>4. CASE SeedPolicy(r)
        BY <3>4 DEF SeedPolicy
      <3>5. CASE SeedError(r)
        <4>1. Goto(r, "serving") /\ phase[r] \in Starting
          BY <3>5 DEF SeedError
        <4>2. "serving" \in Phase /\ PhaseStage["serving"] > PhaseStage[phase[r]]
          BY <4>1
        <4> QED
          BY <4>1, <4>2
      <3>6. CASE CloseDatabase(r) \/ StopListening(r) \/ Return(r)
        BY <3>6 DEF CloseDatabase, StopListening, Return
      <3> QED
        BY <1>2, <3>1, <3>2, <3>3, <3>4, <3>5, <3>6 DEF Main, Boot
    <2> QED
      BY <2>1, <2>2, GotoMoves DEF MainAdvances, MainStays
  <1> QED
    BY <1>1, <1>2

LEMMA NextMain ==
    ASSUME ServerTypeOK, [HNext]_hvars, NEW v \in Replica
    PROVE  /\ MainAdvances(v) \/ MainStays(v) \/ Die(v)
           /\ Main(v) => MainAdvances(v)
  <1>1. ASSUME NEW r \in Replica, Signal(r)
        PROVE  MainAdvances(v) \/ MainStays(v)
    <2>1. Goto(r, "signalled") /\ "signalled" \in Phase /\ UNCHANGED applied
          /\ PhaseStage["signalled"] > PhaseStage[phase[r]]
      BY <1>1 DEF Signal, Phase, PhaseStage
    <2> QED
      BY <2>1, GotoMoves DEF MainAdvances, MainStays
  <1>2. ASSUME NEW r \in Replica, Die(r), v # r
        PROVE  MainStays(v)
    <2>1. phase'[v] = phase[v]
      BY <1>2, GotoMoves DEF Die, Phase
    <2>2. applied'[v] = applied[v]
      BY <1>2 DEF Die, ServerTypeOK
    <2> QED
      BY <2>1, <2>2 DEF MainStays
  <1>3. ASSUME UNCHANGED <<phase, applied>>
        PROVE  MainStays(v)
    BY <1>3 DEF MainStays
  <1>4. Main(v) => MainAdvances(v)
    BY MainMoves
  <1>5. MainAdvances(v) \/ MainStays(v) \/ Die(v)
    <2>1. ASSUME NEW r \in Replica, Main(r)
          PROVE  MainAdvances(v) \/ MainStays(v)
      BY <2>1, MainMoves
    <2>2. ASSUME NEW r \in Replica, Die(r)
          PROVE  Die(v) \/ MainStays(v)
      BY <1>2, <2>2
    <2>3. ASSUME NEW r \in Replica, Expire(r)
          PROVE  UNCHANGED <<phase, applied>>
      BY <2>3 DEF Expire, bootvars
    <2>4. UNCHANGED hvars => UNCHANGED <<phase, applied>>
      BY DEF hvars, bootvars
    <2> QED
      BY <1>1, <1>3, <2>1, <2>2, <2>3, <2>4 DEF HNext
  <1> QED
    BY <1>4, <1>5

\* Starting and stopping have finitely many steps, and only a death starts
\* them over: the half of SeedFinished and StopsAfterSignal that is not
\* fairness.
THEOREM MainOnlyAdvances == HSpec => MainAdvance
  <1>1. ServerTypeOK /\ [HNext]_hvars =>
            [\A r \in Replica :
                /\ MainAdvances(r) \/ MainStays(r) \/ Die(r)
                /\ Main(r) => MainAdvances(r)]_hvars
    BY NextMain
  <1> QED
    BY <1>1, ServerTyped, PTL DEF HSpec, MainAdvance
=============================================================================
