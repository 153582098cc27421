------------------------- MODULE StoreStartup_proofs -------------------------
(***************************************************************************)
(* Proofs about StoreStartup, for any number of replicas and items.        *)
(***************************************************************************)
EXTENDS StoreStartup, TLAPS

(***************************************************************************)
(* Type correctness.  A replica that still opens the release records has   *)
(* an attempt left.                                                        *)
(***************************************************************************)
AttemptLeft == \A p \in Pod : pc[p] = "records" => attempt[p] < Attempts

TypeInv == TypeOK /\ AttemptLeft

\* The initial state is type-correct.
LEMMA TypeInit == Init => TypeInv
BY StartupAssumption DEF StartupAssumption, Init, TypeInv, TypeOK, AttemptLeft, Store, Empty

\* A step of main() preserves type correctness.
LEMMA TypeStartup ==
  ASSUME TypeInv, NEW p \in Pod, Startup(p) PROVE TypeInv'
<1> USE StartupAssumption
    DEF StartupAssumption, TypeInv, TypeOK, AttemptLeft, Store, Open, After, database
<1>1. CASE RecordsFail(p)
  BY <1>1 DEF RecordsFail
<1>2. ASSUME NEW s \in Store, OpenWithoutDsn(p, s) PROVE TypeInv'
  BY <1>2 DEF OpenWithoutDsn
<1>3. ASSUME NEW s \in Store, OpenPostgres(p, s) PROVE TypeInv'
  BY <1>3 DEF OpenPostgres
<1>4. ASSUME NEW s \in Store, FallBack(p, s) PROVE TypeInv'
  BY <1>4 DEF FallBack
<1> QED
  BY <1>1, <1>2, <1>3, <1>4 DEF Startup

\* So does a save.
LEMMA TypeSave ==
  ASSUME TypeInv, NEW p \in Pod, NEW s \in Store, NEW i \in Item,
         SaveInMemory(p, s, i) \/ SaveInPostgres(p, s, i)
  PROVE  TypeInv'
<1> USE DEF TypeInv, TypeOK, AttemptLeft, database
<1>1. CASE SaveInMemory(p, s, i)
  BY <1>1 DEF SaveInMemory
<1>2. CASE SaveInPostgres(p, s, i)
  <2>1. disk' \in [Store -> SUBSET Item] /\ acked' \in [Store -> SUBSET Item]
    BY <1>2 DEF SaveInPostgres
  <2>2. UNCHANGED <<dsn, pc, attempt, backend, memory, up, tables, outages, crashes>>
    BY <1>2 DEF SaveInPostgres
  <2> QED
    BY <2>1, <2>2
<1> QED
  BY <1>1, <1>2

\* So does a step of the environment.
LEMMA TypeEnvironment ==
  ASSUME TypeInv,
         \/ \E p \in Pod : Crash(p) \/ Restart(p)
         \/ DatabaseFails \/ DatabaseRecovers
  PROVE  TypeInv'
<1> USE StartupAssumption
    DEF StartupAssumption, TypeInv, TypeOK, AttemptLeft, Store, Empty, database
<1>1. ASSUME NEW p \in Pod, Crash(p) PROVE TypeInv'
  BY <1>1 DEF Crash
<1>2. ASSUME NEW p \in Pod, Restart(p) PROVE TypeInv'
  <2>1. /\ [s \in Store |-> "none"] \in [Store -> {"none", "memory", "postgres"}]
        /\ Empty \in [Store -> SUBSET Item]
    OBVIOUS
  <2>2. /\ backend' \in [Pod -> [Store -> {"none", "memory", "postgres"}]]
        /\ memory' \in [Pod -> [Store -> SUBSET Item]]
    BY <1>2, <2>1 DEF Restart
  <2>3. AttemptLeft'
    BY <1>2 DEF Restart
  <2> QED
    BY <1>2, <2>2, <2>3 DEF Restart
<1>3. CASE DatabaseFails
  <2>1. outages' \in 0 .. MaxOutages
    BY <1>3 DEF DatabaseFails
  <2> QED
    BY <1>3, <2>1 DEF DatabaseFails
<1>4. CASE DatabaseRecovers
  BY <1>4 DEF DatabaseRecovers
<1> QED
  BY <1>1, <1>2, <1>3, <1>4

\* Every step preserves type correctness.
LEMMA TypeNext == TypeInv /\ [Next]_vars => TypeInv'
<1>1. ASSUME TypeInv, UNCHANGED vars PROVE TypeInv'
  BY <1>1 DEF TypeInv, TypeOK, AttemptLeft, vars
<1> QED
  BY <1>1, TypeStartup, TypeSave, TypeEnvironment DEF Next

\* The system is type-correct: in particular no replica makes more than
\* Attempts attempts.
THEOREM TypeCorrect == Spec => []TypeOK
<1>1. TypeInv => TypeOK
  BY DEF TypeInv
<1> QED
  BY TypeInit, TypeNext, <1>1, PTL DEF Spec

----------------------------------------------------------------------------
(***************************************************************************)
(* With a DSN the release records are never in memory: a replica that has  *)
(* got past them holds the PostgreSQL store, and what was confirmed is on  *)
(* disk.                                                                   *)
(***************************************************************************)
RecordsOnDisk ==
  dsn => /\ \A p \in Pod : /\ backend[p]["records"] # "memory"
                           /\ pc[p] \in {"builds", "requests", "serving"}
                                => backend[p]["records"] = "postgres"
         /\ acked["records"] \subseteq disk["records"]

\* Every step keeps the release records on disk.
LEMMA OnDiskNext == TypeOK /\ RecordsOnDisk /\ [Next]_vars => RecordsOnDisk'
<1> SUFFICES ASSUME TypeOK, RecordsOnDisk, [Next]_vars PROVE RecordsOnDisk'
  OBVIOUS
<1> USE DEF TypeOK, RecordsOnDisk, Store, database
<1>1. ASSUME NEW p \in Pod, Startup(p) PROVE RecordsOnDisk'
  <2> USE DEF Open, After
  <2>1. CASE RecordsFail(p)
    BY <2>1 DEF RecordsFail
  <2>2. ASSUME NEW s \in Store, OpenWithoutDsn(p, s) PROVE RecordsOnDisk'
    BY <2>2 DEF OpenWithoutDsn
  <2>3. ASSUME NEW s \in Store, OpenPostgres(p, s) \/ FallBack(p, s)
        PROVE  RecordsOnDisk'
    <3>1. /\ \A q \in Pod \ {p} : pc'[q] = pc[q] /\ backend'[q] = backend[q]
          /\ pc[p] = s
          /\ UNCHANGED <<dsn, acked, disk>>
      BY <2>3 DEF OpenPostgres, FallBack
    <3>2. CASE s = "records"
      <4>1. backend'[p]["records"] = "postgres"
        BY <2>3, <3>2 DEF OpenPostgres, FallBack
      <4> QED
        BY <3>1, <4>1
    <3>3. CASE s # "records"
      <4>1. backend'[p]["records"] = backend[p]["records"]
        BY <2>3, <3>3 DEF OpenPostgres, FallBack
      <4> QED
        BY <3>1, <3>3, <4>1
    <3> QED
      BY <3>2, <3>3
  <2> QED
    BY <1>1, <2>1, <2>2, <2>3 DEF Startup
<1>2. ASSUME NEW p \in Pod, NEW s \in Store, NEW i \in Item,
             SaveInMemory(p, s, i) \/ SaveInPostgres(p, s, i)
      PROVE  RecordsOnDisk'
  <2>1. CASE SaveInMemory(p, s, i)
    <3>1. dsn => s # "records"
      BY <2>1 DEF SaveInMemory
    <3> QED
      BY <2>1, <3>1 DEF SaveInMemory
  <2>2. CASE SaveInPostgres(p, s, i)
    <3>1. /\ dsn => acked'["records"] \subseteq disk'["records"]
          /\ UNCHANGED <<dsn, pc, backend>>
      BY <2>2 DEF SaveInPostgres
    <3> QED
      BY <3>1
  <2> QED
    BY <1>2, <2>1, <2>2
<1>3. ASSUME NEW p \in Pod, Crash(p) \/ Restart(p) PROVE RecordsOnDisk'
  <2>1. /\ UNCHANGED <<dsn, acked, disk>>
        /\ \A q \in Pod \ {p} : pc'[q] = pc[q] /\ backend'[q] = backend[q]
        /\ pc'[p] \in {"exited", "records"}
    BY <1>3 DEF Crash, Restart
  <2>2. dsn => backend'[p]["records"] # "memory"
    <3>1. CASE Crash(p)
      BY <3>1 DEF Crash
    <3>2. CASE Restart(p)
      <4>1. backend'[p] = [s \in Store |-> "none"]
        BY <3>2 DEF Restart
      <4>2. backend'[p]["records"] = "none"
        BY <4>1
      <4> QED
        BY <4>2
    <3> QED
      BY <1>3, <3>1, <3>2
  <2> QED
    BY <2>1, <2>2
<1>4. CASE DatabaseFails \/ DatabaseRecovers
  BY <1>4 DEF DatabaseFails, DatabaseRecovers
<1>5. CASE UNCHANGED vars
  BY <1>5 DEF vars
<1> QED
  BY <1>1, <1>2, <1>3, <1>4, <1>5 DEF Next

\* With a DSN every replica shows every confirmed release record whenever the
\* database answers, and at no time a record that is not in the database.
THEOREM ReleaseRecordsAudited == Spec => []RecordsAudited
<1>1. Init => RecordsOnDisk
  BY DEF Init, RecordsOnDisk, Store, Empty
<1>2. TypeOK /\ RecordsOnDisk => RecordsAudited
  BY DEF TypeOK, RecordsOnDisk, RecordsAudited, Shown, Store
<1> QED
  BY <1>1, <1>2, TypeCorrect, OnDiskNext, PTL DEF Spec

----------------------------------------------------------------------------
(***************************************************************************)
(* A replica that has not crashed has nothing in memory before it serves,  *)
(* so the exit after the last attempt loses nothing.                       *)
(***************************************************************************)
NothingToLose ==
  crashes = 0 =>
    /\ \A p \in Pod : pc[p] # "serving" => memory[p] = Empty
    /\ LostOnlyByCrash

\* Every step preserves it.
LEMMA NothingNext == TypeOK /\ NothingToLose /\ [Next]_vars => NothingToLose'
<1> SUFFICES ASSUME TypeOK, NothingToLose, [Next]_vars PROVE NothingToLose'
  OBVIOUS
<1> USE DEF TypeOK, NothingToLose, LostOnlyByCrash, database
<1>1. ASSUME NEW p \in Pod, Startup(p) PROVE NothingToLose'
  <2>1. /\ UNCHANGED <<memory, acked, disk, crashes, dsn>>
        /\ pc[p] # "serving"
        /\ \A q \in Pod \ {p} : pc'[q] = pc[q]
    BY <1>1 DEF Startup, RecordsFail, OpenWithoutDsn, OpenPostgres, FallBack, Open, Store
  <2> QED
    BY <2>1
<1>2. ASSUME NEW p \in Pod, NEW s \in Store, NEW i \in Item, SaveInMemory(p, s, i)
      PROVE  NothingToLose'
  <2>1. \A q \in Pod : pc[q] # "serving" => memory'[q] = memory[q]
    BY <1>2 DEF SaveInMemory
  <2>2. ASSUME crashes = 0, dsn, NEW t \in Store, NEW x \in acked'[t]
        PROVE  x \in disk[t] \cup UNION {memory'[q][t] : q \in Pod}
    <3>1. CASE x \in acked[t]
      BY <3>1, <2>2, <1>2 DEF SaveInMemory
    <3>2. CASE x \notin acked[t]
      BY <3>2, <2>2, <1>2 DEF SaveInMemory
    <3> QED
      BY <3>1, <3>2
  <2> QED
    BY <1>2, <2>1, <2>2 DEF SaveInMemory
<1>3. ASSUME NEW p \in Pod, NEW s \in Store, NEW i \in Item, SaveInPostgres(p, s, i)
      PROVE  NothingToLose'
  BY <1>3 DEF SaveInPostgres
<1>4. ASSUME NEW p \in Pod, Crash(p) PROVE NothingToLose'
  BY <1>4, StartupAssumption DEF Crash, StartupAssumption
<1>5. ASSUME NEW p \in Pod, Restart(p) PROVE NothingToLose'
  <2>1. crashes = 0 => memory[p] = Empty
    BY <1>5 DEF Restart
  <2>2. crashes = 0 => memory' = memory
    BY <1>5, <2>1 DEF Restart
  <2> QED
    BY <1>5, <2>2 DEF Restart
<1>6. CASE DatabaseFails \/ DatabaseRecovers
  BY <1>6 DEF DatabaseFails, DatabaseRecovers
<1>7. CASE UNCHANGED vars
  BY <1>7 DEF vars
<1> QED
  BY <1>1, <1>2, <1>3, <1>4, <1>5, <1>6, <1>7 DEF Next

\* Only a crash loses a confirmed item.
THEOREM OnlyCrashesLose == Spec => []LostOnlyByCrash
<1>1. Init => NothingToLose
  BY DEF Init, NothingToLose, LostOnlyByCrash, Empty
<1>2. NothingToLose => LostOnlyByCrash
  BY DEF NothingToLose, LostOnlyByCrash
<1> QED
  BY <1>1, <1>2, TypeCorrect, NothingNext, PTL DEF Spec

----------------------------------------------------------------------------
(***************************************************************************)
(* Startup runs out of steps.  What main() has still to do until it serves *)
(* or exits: the attempts that are left, and then one step per store.      *)
(***************************************************************************)
StartLeft(p) ==
  CASE pc[p] = "records"  -> Attempts - attempt[p] + 2
    [] pc[p] = "builds"   -> 2
    [] pc[p] = "requests" -> 1
    [] OTHER              -> 0

StartBounded == \A p \in Pod : StartLeft(p) \in 0 .. Attempts + 2

\* Every step of main() uses one up, and nothing but the restart of that very
\* replica gives any back: not an outage, not the other replicas.
StartRunsOut ==
  [][\A p \in Pod : /\ Startup(p) => StartLeft(p)' < StartLeft(p)
                    /\ ~Restart(p) => StartLeft(p)' <= StartLeft(p)]_vars

LEMMA StartType == TypeInv => StartBounded
  <1> SUFFICES ASSUME TypeInv, NEW p \in Pod PROVE StartLeft(p) \in 0 .. Attempts + 2
    BY DEF StartBounded
  <1>1. attempt[p] \in 0 .. Attempts /\ Attempts \in Nat \ {0}
    BY StartupAssumption DEF TypeInv, TypeOK
  <1> QED BY <1>1 DEF StartLeft

LEMMA StartMove ==
  ASSUME TypeInv, NEW p \in Pod, Startup(p) PROVE StartLeft(p)' < StartLeft(p)
<1>1. /\ attempt[p] \in 0 .. Attempts /\ Attempts \in Nat \ {0}
      /\ pc[p] = "records" => attempt[p] < Attempts
  BY StartupAssumption DEF TypeInv, TypeOK, AttemptLeft
<1>2. CASE RecordsFail(p)
  <2>1. /\ pc[p] = "records" /\ attempt'[p] = attempt[p] + 1
        /\ \/ pc'[p] = "records" /\ attempt[p] + 1 < Attempts
           \/ pc'[p] = "exited"
    BY <1>2 DEF RecordsFail, TypeInv, TypeOK
  <2> QED
    BY <1>1, <2>1 DEF StartLeft
<1>3. ASSUME NEW s \in Store, OpenWithoutDsn(p, s) \/ OpenPostgres(p, s) \/ FallBack(p, s)
      PROVE  StartLeft(p)' < StartLeft(p)
  <2>1. \/ pc[p] = "records" /\ pc'[p] = "builds"
        \/ pc[p] = "builds" /\ pc'[p] = "requests"
        \/ pc[p] = "requests" /\ pc'[p] = "serving"
    BY <1>3 DEF OpenWithoutDsn, OpenPostgres, FallBack, Open, After, Store, TypeInv, TypeOK
  <2> QED
    BY <1>1, <2>1 DEF StartLeft
<1> QED
  BY <1>2, <1>3 DEF Startup

\* What the other replicas, the clients and the environment do.
LEMMA StartOthers ==
  ASSUME TypeInv, [Next]_vars, NEW p \in Pod, ~Startup(p), ~Restart(p)
  PROVE  attempt'[p] = attempt[p] /\ pc'[p] \in {pc[p], "exited"}
<1>1. ASSUME NEW q \in Pod, Startup(q) \/ Crash(q) \/ Restart(q)
      PROVE  attempt'[p] = attempt[p] /\ pc'[p] \in {pc[p], "exited"}
  <2>1. CASE q = p
    BY <1>1, <2>1 DEF Crash, TypeInv, TypeOK
  <2>2. CASE q # p
    <3> USE <2>2 DEF TypeInv, TypeOK
    <3>1. CASE RecordsFail(q)
      BY <3>1 DEF RecordsFail
    <3>2. CASE \E s \in Store : OpenWithoutDsn(q, s) \/ OpenPostgres(q, s) \/ FallBack(q, s)
      BY <3>2 DEF OpenWithoutDsn, OpenPostgres, FallBack, Open
    <3>3. CASE Crash(q) \/ Restart(q)
      BY <3>3 DEF Crash, Restart
    <3> QED
      BY <1>1, <3>1, <3>2, <3>3 DEF Startup
  <2> QED
    BY <2>1, <2>2
<1>2. ASSUME NEW q \in Pod, NEW s \in Store, NEW i \in Item,
             SaveInMemory(q, s, i) \/ SaveInPostgres(q, s, i)
      PROVE  UNCHANGED <<attempt, pc>>
  BY <1>2 DEF SaveInMemory, SaveInPostgres
<1>3. DatabaseFails \/ DatabaseRecovers \/ UNCHANGED vars => UNCHANGED <<attempt, pc>>
  BY DEF DatabaseFails, DatabaseRecovers, vars
<1> QED
  BY <1>1, <1>2, <1>3 DEF Next

\* A replica serves or exits after at most Attempts + 2 steps, whatever the
\* database and the other replicas do.  (That main() makes them is the fairness
\* of FairSpec, which only TLC looks at.)
THEOREM StartupRunsOut == Spec => []StartBounded /\ StartRunsOut
<1>1. ASSUME TypeInv, TypeInv', [Next]_vars, NEW p \in Pod
      PROVE  /\ Startup(p) => StartLeft(p)' < StartLeft(p)
             /\ ~Restart(p) => StartLeft(p)' <= StartLeft(p)
  <2>1. StartLeft(p) \in Nat /\ StartLeft(p)' \in Nat
    <3>1. StartBounded /\ StartBounded'
      BY <1>1, StartType, PTL
    <3> QED
      BY <3>1, StartupAssumption DEF StartBounded
  <2>2. ASSUME ~Startup(p), ~Restart(p) PROVE StartLeft(p)' <= StartLeft(p)
    <3>1. attempt'[p] = attempt[p] /\ pc'[p] \in {pc[p], "exited"}
      BY <1>1, <2>2, StartOthers
    <3>2. CASE pc'[p] = pc[p]
      <4>1. StartLeft(p)' = StartLeft(p)
        BY <3>1, <3>2 DEF StartLeft
      <4> QED
        BY <2>1, <4>1
    <3>3. CASE pc'[p] = "exited"
      <4>1. StartLeft(p)' = 0
        BY <3>3 DEF StartLeft
      <4> QED
        BY <2>1, <4>1
    <3> QED
      BY <3>1, <3>2, <3>3
  <2> QED
    BY <1>1, <2>1, <2>2, StartMove
<1>2. TypeInv /\ TypeInv' /\ [Next]_vars =>
        [\A p \in Pod : /\ Startup(p) => StartLeft(p)' < StartLeft(p)
                        /\ ~Restart(p) => StartLeft(p)' <= StartLeft(p)]_vars
  BY <1>1
<1> QED
  BY <1>2, StartType, TypeInit, TypeNext, PTL DEF Spec, StartRunsOut

----------------------------------------------------------------------------
(***************************************************************************)
(* A store that main() has not opened yet has no backend.                  *)
(***************************************************************************)
NotOpened(p) ==
  CASE pc[p] = "records"  -> Store
    [] pc[p] = "builds"   -> {"builds", "requests"}
    [] pc[p] = "requests" -> {"requests"}
    [] OTHER              -> {}

OpenedInOrder == \A p \in Pod : \A s \in NotOpened(p) : backend[p][s] = "none"

\* A backend, once chosen, stays as long as the replica runs.
BackendStays ==
  \A p \in Pod, s \in Store :
    backend[p][s] # "none" /\ ~Restart(p) => backend'[p][s] = backend[p][s]

LEMMA OpenedNext ==
  ASSUME TypeOK, OpenedInOrder, [Next]_vars PROVE OpenedInOrder' /\ BackendStays
<1>1. ASSUME NEW p \in Pod, NEW s \in Store,
             OpenWithoutDsn(p, s) \/ OpenPostgres(p, s) \/ FallBack(p, s)
      PROVE  OpenedInOrder' /\ BackendStays
  <2>1. /\ pc[p] = s /\ pc'[p] = After[s]
        /\ \A q \in Pod \ {p} : pc'[q] = pc[q] /\ backend'[q] = backend[q]
        /\ \A t \in Store \ {s} : backend'[p][t] = backend[p][t]
    BY <1>1 DEF OpenWithoutDsn, OpenPostgres, FallBack, Open, TypeOK
  <2>2. /\ \A t \in NotOpened(p) : backend[p][t] = "none"
        /\ NotOpened(p)' = NotOpened(p) \ {s} /\ s \in NotOpened(p)
    <3>1. \/ s = "records" /\ pc[p] = "records" /\ pc'[p] = "builds"
          \/ s = "builds" /\ pc[p] = "builds" /\ pc'[p] = "requests"
          \/ s = "requests" /\ pc[p] = "requests" /\ pc'[p] = "serving"
      BY <2>1 DEF After, Store
    <3>2. NotOpened(p)' = NotOpened(p) \ {s} /\ s \in NotOpened(p)
      BY <3>1 DEF NotOpened, Store
    <3> QED
      BY <3>2 DEF OpenedInOrder
  <2>3. \A q \in Pod : NotOpened(q) \subseteq Store
    BY DEF NotOpened, Store
  <2>4. \A q \in Pod \ {p} : NotOpened(q)' = NotOpened(q)
    BY <2>1 DEF NotOpened
  <2> QED
    BY <2>1, <2>2, <2>3, <2>4 DEF OpenedInOrder, BackendStays
<1>2. ASSUME NEW p \in Pod, RecordsFail(p) \/ Crash(p)
      PROVE  OpenedInOrder' /\ BackendStays
  <2>1. /\ UNCHANGED backend
        /\ \A q \in Pod : pc'[q] \in {pc[q], "exited"}
    BY <1>2 DEF RecordsFail, Crash, TypeOK
  <2>2. \A q \in Pod : NotOpened(q)' \subseteq NotOpened(q)
    BY <2>1 DEF NotOpened
  <2> QED
    BY <2>1, <2>2 DEF OpenedInOrder, BackendStays
<1>3. ASSUME NEW p \in Pod, Restart(p) PROVE OpenedInOrder' /\ BackendStays
  <2>1. /\ \A s \in Store : backend'[p][s] = "none"
        /\ \A q \in Pod \ {p} : pc'[q] = pc[q] /\ backend'[q] = backend[q]
    BY <1>3 DEF Restart, TypeOK
  <2>2. \A q \in Pod : NotOpened(q)' \subseteq Store /\ NotOpened(q) \subseteq Store
    BY DEF NotOpened, Store
  <2>3. \A q \in Pod \ {p} : NotOpened(q)' = NotOpened(q)
    BY <2>1 DEF NotOpened
  <2> QED
    BY <1>3, <2>1, <2>2, <2>3 DEF OpenedInOrder, BackendStays
<1>4. ASSUME UNCHANGED <<pc, backend>> PROVE OpenedInOrder' /\ BackendStays
  BY <1>4 DEF OpenedInOrder, NotOpened, BackendStays
<1>5. \/ UNCHANGED <<pc, backend>>
      \/ \E p \in Pod : Startup(p) \/ Crash(p) \/ Restart(p)
  BY DEF Next, vars, SaveInMemory, SaveInPostgres, DatabaseFails, DatabaseRecovers
<1> QED
  BY <1>1, <1>2, <1>3, <1>4, <1>5 DEF Startup

\* A replica that has fallen back to memory stays there after the database has
\* recovered, until it is restarted: none of the three stores is ever opened a
\* second time.
FallbackSticks == [][BackendStays]_vars

THEOREM FallbacksStick == Spec => FallbackSticks
<1>1. Init => OpenedInOrder
  <2>1. \A p \in Pod : NotOpened(p) \subseteq Store
    BY DEF NotOpened, Store
  <2> QED
    BY <2>1 DEF Init, OpenedInOrder
<1>2. TypeOK /\ OpenedInOrder /\ [Next]_vars => OpenedInOrder' /\ [BackendStays]_vars
  BY OpenedNext
<1> QED
  BY <1>1, <1>2, TypeCorrect, PTL DEF Spec, FallbackSticks

----------------------------------------------------------------------------
(***************************************************************************)
(* What is true of "never falls back to memory" (NoSilentFallback, which   *)
(* TLC refutes): it holds for a single replica as long as the database has *)
(* never been away.  Both conditions are needed, for a second replica can  *)
(* win the race for a table.                                               *)
(***************************************************************************)
Alone == \A p, q \in Pod : p = q

AloneInv ==
  /\ up \/ outages > 0
  /\ Alone /\ outages = 0 /\ dsn =>
       /\ \A p \in Pod : /\ \A s \in Store : backend[p][s] # "memory"
                         /\ pc[p] \in {"builds", "requests", "serving"} =>
                              backend[p]["records"] = "postgres"
                         /\ pc[p] \in {"requests", "serving"} =>
                              backend[p]["builds"] = "postgres"
                         /\ pc[p] = "serving" => backend[p]["requests"] = "postgres"
       /\ \A s \in Store : acked[s] \subseteq disk[s]

LEMMA AloneNext == TypeOK /\ AloneInv /\ [Next]_vars => AloneInv'
<1> SUFFICES ASSUME TypeOK, AloneInv, [Next]_vars PROVE AloneInv'
  OBVIOUS
<1> USE DEF database
<1>1. outages \in Nat
  BY StartupAssumption DEF TypeOK
<1>2. ASSUME NEW p \in Pod, Startup(p) PROVE AloneInv'
  <2>1. UNCHANGED <<up, outages, dsn, acked, disk>>
    BY <1>2 DEF Startup, RecordsFail, OpenWithoutDsn, OpenPostgres, FallBack
  <2>2. CASE Alone /\ outages = 0 /\ dsn
    <3>1. \A s \in Store : ~OpenCanFail(p, s) /\ ~OpenWithoutDsn(p, s)
      BY <2>2 DEF OpenCanFail, OpenWithoutDsn, AloneInv, Alone
    <3>2. PICK s \in Store : OpenPostgres(p, s)
      BY <1>2, <3>1 DEF Startup, RecordsFail, FallBack, Store
    <3>3. /\ pc[p] = s /\ pc'[p] = After[s] /\ backend'[p][s] = "postgres"
          /\ \A t \in Store \ {s} : backend'[p][t] = backend[p][t]
          /\ \A q \in Pod : q = p
      BY <2>2, <3>2 DEF OpenPostgres, Open, Alone, TypeOK
    <3> QED
      BY <2>1, <2>2, <3>3 DEF AloneInv, After, Store
  <2> QED
    BY <2>1, <2>2 DEF AloneInv
<1>3. ASSUME NEW p \in Pod, NEW s \in Store, NEW i \in Item,
             SaveInMemory(p, s, i) \/ SaveInPostgres(p, s, i)
      PROVE  AloneInv'
  <2>1. UNCHANGED <<up, outages, dsn, pc, backend>>
    BY <1>3 DEF SaveInMemory, SaveInPostgres
  <2>2. CASE Alone /\ outages = 0 /\ dsn
    <3>1. SaveInPostgres(p, s, i)
      BY <1>3, <2>2 DEF SaveInMemory, AloneInv
    <3>2. \A t \in Store : acked'[t] \subseteq disk'[t]
      BY <2>2, <3>1 DEF SaveInPostgres, AloneInv, TypeOK
    <3> QED
      BY <2>1, <2>2, <3>2 DEF AloneInv
  <2> QED
    BY <2>1, <2>2 DEF AloneInv
<1>4. ASSUME NEW p \in Pod, Crash(p) \/ Restart(p) PROVE AloneInv'
  <2>1. /\ UNCHANGED <<up, outages, dsn, acked, disk>>
        /\ \A q \in Pod \ {p} : pc'[q] = pc[q] /\ backend'[q] = backend[q]
        /\ pc'[p] \in {"exited", "records"}
        /\ \A s \in Store : backend'[p][s] \in {backend[p][s], "none"}
    BY <1>4 DEF Crash, Restart, TypeOK
  <2> QED
    BY <2>1 DEF AloneInv
<1>5. CASE DatabaseFails \/ DatabaseRecovers
  BY <1>1, <1>5 DEF DatabaseFails, DatabaseRecovers, AloneInv
<1>6. CASE UNCHANGED vars
  BY <1>6 DEF vars, AloneInv
<1> QED
  BY <1>2, <1>3, <1>4, <1>5, <1>6 DEF Next

\* With one replica and a database that has not been away, all three stores are
\* PostgreSQL's, as the README says, and every confirmed item is on disk,
\* however often the replica crashes and starts again.
AloneNoFallback ==
  Alone /\ outages = 0 =>
    /\ NoSilentFallback
    /\ dsn => \A s \in Store : acked[s] \subseteq disk[s]

THEOREM SingleReplicaKeepsAll == Spec => []AloneNoFallback
<1>1. Init => AloneInv
  BY DEF Init, AloneInv, Store, Empty
<1>2. AloneInv => AloneNoFallback
  BY DEF AloneInv, AloneNoFallback, NoSilentFallback, Store
<1> QED
  BY <1>1, <1>2, TypeCorrect, AloneNext, PTL DEF Spec
=============================================================================
