---------------------------- MODULE StoreStartup ----------------------------
(***************************************************************************)
(* How cloudops-cicd chooses and uses its stores.  main() opens three: the *)
(* release records (10 attempts, then the process exits), the builds and   *)
(* the release requests (one attempt, then memory).  Several replicas run  *)
(* against one database, which fails and recovers; a replica that exits or *)
(* crashes is started again and has lost what it held in memory.           *)
(***************************************************************************)
EXTENDS Naturals, FiniteSets

CONSTANTS
  Pod,        \* replicas of the service
  Item,       \* what clients save
  Attempts,   \* attempts for the release records: 10 in the code
  MaxOutages, \* bound: outages of the database
  MaxCrashes  \* bound: crashes of replicas

ASSUME StartupAssumption ==
  /\ Attempts \in Nat \ {0}
  /\ MaxOutages \in Nat /\ MaxCrashes \in Nat

Store == {"records", "builds", "requests"}

VARIABLES
  dsn,      \* RELEASE_RECORD_DATABASE_URL or POSTGRES_DSN is set
  pc,       \* the store a replica is opening, or "serving" or "exited"
  attempt,  \* attempts made for the release records
  backend,  \* recordStore, buildStore and releaseRequestStore of a replica
  memory,   \* what a replica's memory stores hold
  up,       \* the database answers
  tables,   \* tables that exist
  disk,     \* what the tables hold
  acked,    \* history: items whose save was confirmed to a client
  outages, crashes

vars == <<dsn, pc, attempt, backend, memory, up, tables, disk, acked,
          outages, crashes>>
database == <<up, disk, outages>>

Empty == [s \in Store |-> {}]

Init ==
  /\ dsn \in BOOLEAN
  /\ pc = [p \in Pod |-> "records"]
  /\ attempt = [p \in Pod |-> 0]
  /\ backend = [p \in Pod |-> [s \in Store |-> "none"]]
  /\ memory = [p \in Pod |-> Empty]
  /\ up = TRUE
  /\ tables = {}
  /\ disk = Empty
  /\ acked = Empty
  /\ outages = 0
  /\ crashes = 0

\* What main() does after a store is open.
After == [records |-> "builds", builds |-> "requests", requests |-> "serving"]

Open(p, s, b) ==
  /\ pc[p] = s
  /\ pc' = [pc EXCEPT ![p] = After[s]]
  /\ backend' = [backend EXCEPT ![p][s] = b]

----------------------------------------------------------------------------
(***************************************************************************)
(* Opening a store: ping, and create the table if it is not there.         *)
(***************************************************************************)
OpenWithoutDsn(p, s) ==
  /\ ~dsn
  /\ Open(p, s, "memory")
  /\ UNCHANGED <<dsn, attempt, memory, tables, acked, crashes, database>>

OpenPostgres(p, s) ==
  /\ dsn /\ up
  /\ Open(p, s, "postgres")
  /\ tables' = tables \cup {s}
  /\ UNCHANGED <<dsn, attempt, memory, acked, crashes, database>>

\* The database is down, or another replica creates the same table at the
\* same time ("CREATE TABLE IF NOT EXISTS" then fails in one of the two).
OpenCanFail(p, s) ==
  /\ dsn
  /\ \/ ~up
     \/ s \notin tables /\ \E q \in Pod \ {p} : pc[q] = s

\* Mutant: memory after the last attempt here too.
FallBackLikeTheOthers(p) ==
  /\ pc[p] = "records"
  /\ OpenCanFail(p, "records")
  /\ IF attempt[p] + 1 < Attempts
       THEN /\ attempt' = [attempt EXCEPT ![p] = @ + 1]
            /\ UNCHANGED <<pc, backend>>
       ELSE /\ Open(p, "records", "memory")
            /\ UNCHANGED attempt
  /\ UNCHANGED <<dsn, memory, tables, acked, crashes, database>>

\* Mutant: attempts are not counted.
RetryForever(p) ==
  /\ pc[p] = "records"
  /\ OpenCanFail(p, "records")
  /\ attempt' = [attempt EXCEPT ![p] = 1 - @]
  /\ UNCHANGED <<dsn, pc, backend, memory, tables, acked, crashes, database>>

\* Mutant: the test comes one attempt too late.
RetryOnceMore(p) ==
  /\ pc[p] = "records"
  /\ OpenCanFail(p, "records")
  /\ attempt' = [attempt EXCEPT ![p] = @ + 1]
  /\ pc' = IF attempt[p] < Attempts THEN pc ELSE [pc EXCEPT ![p] = "exited"]
  /\ UNCHANGED <<dsn, backend, memory, tables, acked, crashes, database>>

\* newReleaseRecordStore: the next attempt, or log.Fatalf.
RecordsFail(p) ==
  /\ pc[p] = "records"
  /\ OpenCanFail(p, "records")
  /\ attempt' = [attempt EXCEPT ![p] = @ + 1]
  /\ pc' = IF attempt[p] + 1 < Attempts THEN pc ELSE [pc EXCEPT ![p] = "exited"]
  /\ UNCHANGED <<dsn, backend, memory, tables, acked, crashes, database>>

\* newBuildRecordStore, newReleaseRequestStore: memory, with a log line.
FallBack(p, s) ==
  /\ s # "records"
  /\ OpenCanFail(p, s)
  /\ Open(p, s, "memory")
  /\ UNCHANGED <<dsn, attempt, memory, tables, acked, crashes, database>>

Startup(p) ==
  \/ RecordsFail(p)
  \/ \E s \in Store : OpenWithoutDsn(p, s) \/ OpenPostgres(p, s) \/ FallBack(p, s)

----------------------------------------------------------------------------
(***************************************************************************)
(* Serving: a client saves an item in some store of some replica.          *)
(***************************************************************************)
SaveInMemory(p, s, i) ==
  /\ pc[p] = "serving" /\ backend[p][s] = "memory"
  /\ memory' = [memory EXCEPT ![p][s] = @ \cup {i}]
  /\ acked' = [acked EXCEPT ![s] = @ \cup {i}]
  /\ UNCHANGED <<dsn, pc, attempt, backend, tables, crashes, database>>

\* Mutant: the client is told of success before the statement has ended.
AckEarly(p, s, i) ==
  /\ pc[p] = "serving" /\ backend[p][s] = "postgres"
  /\ acked' = [acked EXCEPT ![s] = @ \cup {i}]
  /\ disk' \in {disk, [disk EXCEPT ![s] = @ \cup {i}]}
  /\ UNCHANGED <<dsn, pc, attempt, backend, memory, up, tables, outages, crashes>>

\* The statement is committed, and the client hears of it or not.
SaveInPostgres(p, s, i) ==
  /\ pc[p] = "serving" /\ backend[p][s] = "postgres" /\ up
  /\ disk' = [disk EXCEPT ![s] = @ \cup {i}]
  /\ acked' \in {acked, [acked EXCEPT ![s] = @ \cup {i}]}
  /\ UNCHANGED <<dsn, pc, attempt, backend, memory, up, tables, outages, crashes>>

----------------------------------------------------------------------------
(***************************************************************************)
(* The environment.                                                        *)
(***************************************************************************)
Crash(p) ==
  /\ pc[p] # "exited"
  /\ crashes < MaxCrashes
  /\ crashes' = crashes + 1
  /\ pc' = [pc EXCEPT ![p] = "exited"]
  /\ UNCHANGED <<dsn, attempt, backend, memory, tables, acked, database>>

\* Kubernetes starts the container again.
Restart(p) ==
  /\ pc[p] = "exited"
  /\ pc' = [pc EXCEPT ![p] = "records"]
  /\ attempt' = [attempt EXCEPT ![p] = 0]
  /\ backend' = [backend EXCEPT ![p] = [s \in Store |-> "none"]]
  /\ memory' = [memory EXCEPT ![p] = Empty]
  /\ UNCHANGED <<dsn, tables, acked, crashes, database>>

DatabaseFails ==
  /\ up /\ outages < MaxOutages
  /\ up' = FALSE /\ outages' = outages + 1
  /\ UNCHANGED <<dsn, pc, attempt, backend, memory, tables, disk, acked, crashes>>

DatabaseRecovers ==
  /\ ~up /\ up' = TRUE
  /\ UNCHANGED <<dsn, pc, attempt, backend, memory, tables, disk, acked, outages,
                 crashes>>

Next ==
  \/ \E p \in Pod : Startup(p) \/ Crash(p) \/ Restart(p)
  \/ \E p \in Pod, s \in Store, i \in Item :
       SaveInMemory(p, s, i) \/ SaveInPostgres(p, s, i)
  \/ DatabaseFails \/ DatabaseRecovers

Spec == Init /\ [][Next]_vars

\* main() goes on; nothing is asked of the database or of Kubernetes.
FairSpec == Spec /\ \A p \in Pod : WF_vars(Startup(p))

----------------------------------------------------------------------------
(***************************************************************************)
(* Properties.                                                             *)
(***************************************************************************)
\* loadReleaseRecords: what a replica's list shows of the release records.  The
\* error of a database that is away is only logged.
Shown(p) ==
  IF backend[p]["records"] = "memory" THEN memory[p]["records"]
  ELSE IF up THEN disk["records"] ELSE {}

\* Type invariant.
TypeOK ==
  /\ dsn \in BOOLEAN
  /\ pc \in [Pod -> Store \cup {"serving", "exited"}]
  /\ attempt \in [Pod -> 0 .. Attempts]
  /\ backend \in [Pod -> [Store -> {"none", "memory", "postgres"}]]
  /\ memory \in [Pod -> [Store -> SUBSET Item]]
  /\ up \in BOOLEAN
  /\ tables \subseteq Store
  /\ disk \in [Store -> SUBSET Item]
  /\ acked \in [Store -> SUBSET Item]
  /\ outages \in 0 .. MaxOutages
  /\ crashes \in 0 .. MaxCrashes

\* No "false consistency" of the release audit: with a DSN, and the database
\* there, every replica shows every release record confirmed to a client by
\* any, after whatever outages, crashes and restarts.  While the database is
\* away its lists leave them out, but no list ever shows a record that only one
\* replica has.
RecordsAudited ==
  dsn => \A p \in Pod : pc[p] = "serving" =>
           /\ up => acked["records"] \subseteq Shown(p)
           /\ Shown(p) \subseteq disk["records"]

\* The two other stores keep a confirmed item as long as some replica runs on
\* the backend that took it: it is on disk, or in the memory of a replica that
\* has fallen back and not been restarted, or a crash has lost it.
LostOnlyByCrash ==
  \A s \in Store : dsn /\ crashes = 0 =>
    acked[s] \subseteq disk[s] \cup UNION {memory[p][s] : p \in Pod}

\* Startup comes to an end whatever the database does: a replica serves, or it
\* exits and leaves the rest to Kubernetes.
StartupEnds == \A p \in Pod : pc[p] = "records" ~> pc[p] \in {"serving", "exited"}

\* "With a PostgreSQL DSN the service never falls back to memory silently" (said
\* in Chinese in services/cloudops-cicd/README.md:153).
NoSilentFallback ==
  dsn => \A p \in Pod : pc[p] = "serving" =>
           \A s \in Store : backend[p][s] = "postgres"
=============================================================================
