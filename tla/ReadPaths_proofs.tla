-------------------------- MODULE ReadPaths_proofs --------------------------
(***************************************************************************)
(* Theorems about ReadPaths, for anything the systems may hold and come to *)
(* hold, and any number of changes and of reads that fail.                 *)
(***************************************************************************)
EXTENDS ReadPaths, WellFoundedInduction, SequenceTheorems, TLAPS

Paths == {"release", "resources", "detail"}
Reads3 == ToSet(Plan(path))

\* What the read finds in w, if the request has read g before.
Finds(read, w, g) ==
  CASE read = "harbor" -> Page(w.pushed)
    [] read \in {"job", "service"} -> QueryUp(w[read])
    [] read = "logs"   -> Lines(ask, Matched(ask, g), w.logs)
    [] OTHER           -> IF Field(read) \in DOMAIN w THEN w[Field(read)] ELSE "some"

\* The shapes that ReadsAssumption gives the systems.
Shape(field, v) ==
  /\ field = "argo" => v.state \in {"good", "bad", "blank"}
  /\ field = "pushed" => v \in Seq(STRING)
  /\ field = "alerts" => DOMAIN v \subseteq Nat
  /\ field \in {"job", "service"} => v \subseteq BOOLEAN
  /\ field \in {"cpuRequests", "memRequests", "cpuUsage", "memUsage"} =>
       \A c \in DOMAIN v : v[c] \in Nat

Holds(w) ==
  DOMAIN w = DOMAIN Options /\ \A field \in DOMAIN Options : Shape(field, w[field])

Systems == {"argo", "pushed", "job", "service", "rollout", "alerts", "logs",
            "cpuRequests", "memRequests", "cpuUsage", "memUsage"}

----------------------------------------------------------------------------
(***************************************************************************)
(* The invariant.                                                          *)
(***************************************************************************)
Types ==
  /\ path \in Paths /\ result \in {"idle", "none", "whole", "cut", "error"}
  /\ DOMAIN got = Reads3
  /\ Holds(world) /\ \A w \in seen : Holds(w)
  /\ result = "idle" => \A read \in Reads3 : got[read] = Unread
  /\ result \in {"none", "whole", "cut"} => world \in seen

\* A read that was answered returned what a system held during the request.
Obtained ==
  \A read \in Reads3 :
    got[read] \notin {Unread, Failed} => \E w \in seen : got[read] = Finds(read, w, got)

\* Reads that depend on another come after it.
Order ==
  /\ path = "release" /\ got.service # Unread => got.job = "none"
  /\ path = "detail" /\ got.logs # Unread => got.alerts # Unread

Complete == result \in {"whole", "cut"} => Open = {} /\ Succeeds

Inv == Types /\ Obtained /\ Order /\ Complete

----------------------------------------------------------------------------
LEMMA LeastPlace ==
  ASSUME NEW S, S \subseteq Nat, S # {}
  PROVE  Min(S) \in S
  <1>1. PICK x \in S : \A y \in S : ~(<<y, x>> \in OpToRel(<, Nat))
    BY NatLessThanWellFounded, WFMin
  <1>2. ASSUME NEW y \in S PROVE x <= y
    <2>1. <<y, x>> \notin OpToRel(<, Nat)
      BY <1>1
    <2>2. ~(y < x)
      BY <2>1 DEF OpToRel
    <2> QED BY <2>2
  <1> QED BY <1>1, <1>2 DEF Min

LEMMA Plans ==
  /\ ToSet(ReleaseReads) = {"argo", "harbor", "job", "service", "rollout", "runs", "routes",
        "rules", "rollout2", "runs2", "routes2", "rules2", "istio"}
  /\ ToSet(ResourceReads) = {"cpuRequests", "memRequests", "cpuUsage", "memUsage"}
  /\ ToSet(DetailReads) = {"alerts", "metrics", "logs"}
  /\ DOMAIN ReleaseReads = 1 .. 13 /\ DOMAIN ResourceReads = 1 .. 4 /\ DOMAIN DetailReads = 1 .. 3
  <1>1. DOMAIN ReleaseReads = 1 .. 13 /\ DOMAIN ResourceReads = 1 .. 4 /\ DOMAIN DetailReads = 1 .. 3
    BY DEF ReleaseReads, ResourceReads, DetailReads
  <1>2. ToSet(ResourceReads) = {"cpuRequests", "memRequests", "cpuUsage", "memUsage"}
    BY <1>1 DEF ToSet, ResourceReads
  <1>3. ToSet(DetailReads) = {"alerts", "metrics", "logs"}
    BY <1>1 DEF ToSet, DetailReads
  <1>4. ToSet(ReleaseReads) = {"argo", "harbor", "job", "service", "rollout", "runs", "routes",
          "rules", "rollout2", "runs2", "routes2", "rules2", "istio"}
    BY <1>1 DEF ToSet, ReleaseReads
  <1> QED BY <1>1, <1>2, <1>3, <1>4

LEMMA PathReads ==
  ASSUME path \in Paths
  PROVE  /\ path = "release" => Plan(path) = ReleaseReads
         /\ path = "resources" => Plan(path) = ResourceReads
         /\ path = "detail" => Plan(path) = DetailReads
         /\ \A i \in DOMAIN Plan(path) : i \in Nat
         /\ Reads3 = {Plan(path)[i] : i \in DOMAIN Plan(path)}
  BY Plans DEF Plan, Paths, Reads3, ToSet

LEMMA LogsFind ==
  ASSUME NEW w, NEW g
  PROVE  Finds("logs", w, g) = Lines(ask, Matched(ask, g), w.logs)
  BY DEF Finds

LEMMA StartHolds == \A w \in Start : Holds(w)
  BY ReadsAssumption DEF Holds, Shape

LEMMA OptionHolds ==
  ASSUME NEW field \in DOMAIN Options, NEW v \in Options[field]
  PROVE  Shape(field, v)
  BY ReadsAssumption DEF Shape

LEMMA InitInv == Init => Inv
  <1> SUFFICES ASSUME Init PROVE Inv
    OBVIOUS
  <1>1. path \in Paths /\ DOMAIN got = Reads3 /\ \A read \in Reads3 : got[read] = Unread
    BY DEF Init, Paths, Reads3
  <1>2. Types
    BY <1>1, StartHolds DEF Types, Init
  <1>3. Obtained
    BY <1>1 DEF Obtained
  <1>4. Order
    BY <1>1, PathReads, Plans DEF Order, Reads3
  <1> QED BY <1>2, <1>3, <1>4 DEF Inv, Complete, Init

LEMMA ReadInv == Inv /\ Read => Inv'
  <1> SUFFICES ASSUME Inv, Read PROVE Inv'
    OBVIOUS
  <1> DEFINE read == Plan(path)[Min(Open)]
  <1>1. /\ result = "none" /\ Open # {}
        /\ UNCHANGED <<world, path, ask, harbor, aiops, result, seen, changes>>
        /\ got' = [got EXCEPT ![read] = Value(read)] \/ got' = [got EXCEPT ![read] = Failed]
    BY DEF Read, request
  <1>2. /\ path \in Paths /\ DOMAIN got = Reads3 /\ world \in seen
    BY <1>1 DEF Inv, Types
  <1>3. Min(Open) \in Open
    <2>1. Open \subseteq Nat
      BY <1>2, PathReads DEF Open
    <2> QED BY <1>1, <2>1, LeastPlace
  <1>4. PICK r : r = read
    OBVIOUS
  <1> HIDE DEF read
  <1>5. r \in Reads3 /\ got[r] = Unread /\ Needs(r)
    BY <1>2, <1>3, <1>4, PathReads DEF Open, read
  <1>6. PICK v : got' = [got EXCEPT ![r] = v] /\ v \in {Value(r), Failed}
    BY <1>1, <1>4
  <1>7. /\ DOMAIN got' = Reads3 /\ Reads3' = Reads3 /\ got'[r] = v
        /\ \A x \in Reads3 \ {r} : got'[x] = got[x]
    BY <1>1, <1>2, <1>5, <1>6 DEF Reads3
  <1>8. Types'
    BY <1>1, <1>7 DEF Inv, Types, Holds
  <1>9. Order'
    <2>1. ASSUME path = "release" PROVE got'.service # Unread => got'.job = "none"
      <3>1. {"job", "service"} \subseteq Reads3
        BY <1>2, <2>1, PathReads, Plans DEF Reads3
      <3>2. r = "service" => got.job = "none"
        BY <1>5, <2>1 DEF Needs, ReleaseNeeds
      <3>3. got.service # Unread => got.job = "none"
        BY <2>1 DEF Inv, Order
      <3>4. "none" # Unread
        BY ReadsAssumption
      <3>5. CASE r = "service"
        <4>1. "job" \in Reads3 \ {r}
          BY <3>1, <3>5
        <4> QED BY <1>7, <3>2, <3>5, <4>1
      <3>6. CASE r = "job"
        <4>1. "service" \in Reads3 \ {r} /\ got.service = Unread
          BY <1>5, <3>1, <3>3, <3>4, <3>6
        <4> QED BY <1>7, <4>1
      <3>7. CASE r \notin {"job", "service"}
        BY <1>7, <3>1, <3>3, <3>7
      <3> QED BY <3>5, <3>6, <3>7
    <2>2. ASSUME path = "detail" PROVE got'.logs # Unread => got'.alerts # Unread
      <3>1. {"alerts", "logs"} \subseteq Reads3
        BY <1>2, <2>2, PathReads, Plans DEF Reads3
      <3>2. r = "logs" => got.alerts # Unread
        <4>1. ASSUME r = "logs", got.alerts = Unread PROVE FALSE
          <5>1. Matched(ask, got) # None
            BY <1>5, <2>2, <4>1 DEF Needs, DetailNeeds
          <5> QED BY <4>1, <5>1 DEF Matched, Answered
        <4> QED BY <4>1
      <3>3. got.logs # Unread => got.alerts # Unread
        BY <2>2 DEF Inv, Order
      <3>4. CASE r = "logs"
        <4>1. "alerts" \in Reads3 \ {r}
          BY <3>1, <3>4
        <4> QED BY <1>7, <3>2, <3>4, <4>1
      <3>5. CASE r = "alerts"
        <4>1. "logs" \in Reads3 \ {r} /\ got.logs = Unread
          BY <1>5, <3>1, <3>3, <3>5
        <4> QED BY <1>7, <4>1
      <3>6. CASE r \notin {"logs", "alerts"}
        BY <1>7, <3>1, <3>3, <3>6
      <3> QED BY <3>4, <3>5, <3>6
    <2> QED BY <1>1, <2>1, <2>2 DEF Order
  <1>10. Obtained'
    <2> SUFFICES ASSUME NEW x \in Reads3, got'[x] \notin {Unread, Failed}
                 PROVE  \E w \in seen : got'[x] = Finds(x, w, got')
      <3>1. \A x, w : Finds(x, w, got)' = Finds(x, w, got')
        BY <1>1 DEF Finds
      <3> QED BY <1>1, <1>7, <3>1 DEF Obtained
    <2>1. ASSUME x = "logs" PROVE Matched(ask, got') = Matched(ask, got)
      <3>1. path = "detail" /\ {"alerts", "logs"} \subseteq Reads3
        BY <1>2, <2>1, PathReads, Plans DEF Reads3, Paths
      <3>2. r # "alerts"
        <4>1. ASSUME r = "alerts" PROVE FALSE
          <5>1. got.logs = Unread
            BY <1>5, <3>1, <4>1 DEF Inv, Order
          <5>2. got'.logs = got.logs
            BY <1>7, <3>1, <4>1
          <5> QED BY <2>1, <5>1, <5>2
        <4> QED BY <4>1
      <3>3. got'.alerts = got.alerts
        BY <1>7, <3>1, <3>2
      <3> QED BY <3>3 DEF Matched
    <2>2. \A w : Finds(x, w, got') = Finds(x, w, got)
      BY <2>1 DEF Finds
    <2>3. CASE x = r
      <3>1. got'[x] = Value(x)
        BY <1>6, <1>7, <2>3
      <3>2. Value(x) = Finds(x, world, got)
        BY DEF Value, Finds
      <3> QED BY <1>2, <2>2, <3>1, <3>2
    <2>4. CASE x # r
      <3>1. got'[x] = got[x]
        BY <1>7, <2>4
      <3>2. PICK w \in seen : got[x] = Finds(x, w, got)
        BY <3>1 DEF Inv, Obtained
      <3> QED BY <2>2, <3>1, <3>2
    <2> QED BY <2>3, <2>4
  <1> QED BY <1>1, <1>8, <1>9, <1>10 DEF Inv, Complete

\* The history of a request grows by what the systems change to.
LEMMA ChangeInv == Inv /\ Change => Inv'
  <1> SUFFICES ASSUME Inv, Change PROVE Inv'
    OBVIOUS
  <1>1. /\ result \in {"idle", "none"}
        /\ UNCHANGED <<path, ask, harbor, aiops, got, result, failures>>
        /\ seen' = IF result = "idle" THEN seen ELSE seen \cup {world'}
    BY DEF Change, request
  <1>2. PICK field \in Fields :
          \E v \in Options[field] : world' = [world EXCEPT ![field] = v]
    BY DEF Change
  <1> PICK v \in Options[field] : world' = [world EXCEPT ![field] = v]
    BY <1>2
  <1>3. Holds(world')
    <2>1. field \in DOMAIN world /\ DOMAIN world = DOMAIN Options
      BY DEF Fields, Inv, Types, Holds
    <2>2. Shape(field, v)
      BY <2>1, OptionHolds
    <2>3. \A f \in DOMAIN Options : Shape(f, world[f])
      BY DEF Inv, Types, Holds
    <2>4. \A f \in DOMAIN Options : world'[f] = IF f = field THEN v ELSE world[f]
      BY <1>2, <2>1
    <2>5. \A f \in DOMAIN Options : Shape(f, world'[f])
      BY <2>2, <2>3, <2>4
    <2>6. DOMAIN world' = DOMAIN Options
      BY <1>2, <2>1
    <2> QED BY <2>5, <2>6 DEF Holds
  <1>4. \A w : Holds(w)' <=> Holds(w)
    BY DEF Holds
  <1>5. Types'
    <2>1. Reads3' = Reads3
      BY <1>1 DEF Reads3
    <2>2. Holds(world)' /\ \A w \in seen' : Holds(w)'
      BY <1>1, <1>3, <1>4 DEF Inv, Types, Holds
    <2> QED BY <1>1, <2>1, <2>2 DEF Inv, Types
  <1>6. Obtained'
    <2>1. \A x, w : Finds(x, w, got)' = Finds(x, w, got)
      BY <1>1 DEF Finds
    <2> QED BY <1>1, <2>1 DEF Inv, Obtained, Reads3
  <1>7. Order'
    BY <1>1 DEF Inv, Order
  <1> QED BY <1>1, <1>5, <1>6, <1>7 DEF Inv, Complete

LEMMA NextInv == Inv /\ [Next]_vars => Inv'
  <1> SUFFICES ASSUME Inv, [Next]_vars PROVE Inv'
    OBVIOUS
  <1>1. CASE Begin
    <2>1. /\ result = "idle" /\ result' = "none" /\ seen' = {world}
          /\ UNCHANGED <<world, path, ask, harbor, aiops, got, changes, failures>>
      BY <1>1 DEF Begin, request
    <2>2. \A read \in Reads3 : got[read] = Unread
      BY <2>1 DEF Inv, Types
    <2>3. Types' /\ Obtained'
      BY <2>1, <2>2 DEF Inv, Types, Holds, Obtained, Reads3
    <2> QED BY <2>1, <2>3 DEF Inv, Order, Complete
  <1>2. CASE Read
    BY <1>2, ReadInv
  <1>3. CASE Respond
    <2>1. /\ result = "none" /\ Open = {} /\ result' = IF Succeeds THEN "whole" ELSE "error"
          /\ UNCHANGED <<world, path, ask, harbor, aiops, got, seen, changes, failures>>
      BY <1>3 DEF Respond, request
    <2>2. Types' /\ Order'
      BY <2>1 DEF Inv, Types, Holds, Reads3, Order
    <2>3. Obtained'
      <3>1. \A x, w : Finds(x, w, got)' = Finds(x, w, got)
        BY <2>1 DEF Finds
      <3> QED BY <2>1, <3>1 DEF Inv, Obtained, Reads3
    <2>4. Complete'
      <3>1. Open' = Open /\ Succeeds' = Succeeds
        BY <2>1 DEF Open, Needs, Succeeds
      <3> QED BY <2>1, <3>1 DEF Complete
    <2> QED BY <2>2, <2>3, <2>4 DEF Inv
  <1>4. CASE GiveUp
    <2>1. /\ result = "none" /\ result' = "error"
          /\ UNCHANGED <<world, path, ask, harbor, aiops, got, seen, changes, failures>>
      BY <1>4 DEF GiveUp, request
    <2>2. Types' /\ Order' /\ Complete'
      BY <2>1 DEF Inv, Types, Holds, Reads3, Order, Complete
    <2>3. Obtained'
      <3>1. \A x, w : Finds(x, w, got)' = Finds(x, w, got)
        BY <2>1 DEF Finds
      <3> QED BY <2>1, <3>1 DEF Inv, Obtained, Reads3
    <2> QED BY <2>2, <2>3 DEF Inv
  <1>5. CASE Change
    BY <1>5, ChangeInv
  <1>6. CASE Cut
    <2>1. /\ result = "none" /\ Open = {} /\ Succeeds /\ result' = "cut"
          /\ UNCHANGED <<world, path, ask, harbor, aiops, got, seen, changes, failures>>
      BY <1>6 DEF Cut, request
    <2>2. Types' /\ Order'
      BY <2>1 DEF Inv, Types, Holds, Reads3, Order
    <2>3. Obtained'
      <3>1. \A x, w : Finds(x, w, got)' = Finds(x, w, got)
        BY <2>1 DEF Finds
      <3> QED BY <2>1, <3>1 DEF Inv, Obtained, Reads3
    <2>4. Complete'
      <3>1. Open' = Open /\ Succeeds' = Succeeds
        BY <2>1 DEF Open, Needs, Succeeds
      <3> QED BY <2>1, <3>1 DEF Complete
    <2> QED BY <2>2, <2>3, <2>4 DEF Inv
  <1>7. CASE UNCHANGED vars
    <2>1. UNCHANGED <<world, path, ask, harbor, aiops, got, result, seen, changes, failures>>
      BY <1>7 DEF vars, request
    <2>2. Types' /\ Order'
      BY <2>1 DEF Inv, Types, Holds, Reads3, Order
    <2>3. Obtained'
      <3>1. \A x, w : Finds(x, w, got)' = Finds(x, w, got)
        BY <2>1 DEF Finds
      <3> QED BY <2>1, <3>1 DEF Inv, Obtained, Reads3
    <2>4. Complete'
      <3>1. Open' = Open /\ Succeeds' = Succeeds
        BY <2>1 DEF Open, Needs, Succeeds
      <3> QED BY <2>1, <3>1 DEF Inv, Complete
    <2> QED BY <2>2, <2>3, <2>4 DEF Inv
  <1> QED BY <1>1, <1>2, <1>3, <1>4, <1>5, <1>6, <1>7 DEF Next

LEMMA PathsInv == Spec => []Inv
  BY InitInv, NextInv, PTL DEF Spec

----------------------------------------------------------------------------
(***************************************************************************)
(* What an answer, whole or cut, is made of.                               *)
(***************************************************************************)
LEMMA WholeRead ==
  ASSUME Inv, result \in {"whole", "cut"}, NEW read \in Reads3
  PROVE  /\ Needs(read) => got[read] # Unread
         /\ got[read] = Unread \/ got[read] = Failed
              \/ \E w \in seen : Holds(w) /\ got[read] = Finds(read, w, got)
  <1>1. path \in Paths /\ Open = {}
    BY DEF Inv, Types, Complete
  <1>2. PICK i \in DOMAIN Plan(path) : read = Plan(path)[i]
    BY <1>1, PathReads
  <1>3. Needs(read) => got[read] # Unread
    BY <1>1, <1>2 DEF Open
  <1>4. got[read] = Unread \/ got[read] = Failed
          \/ \E w \in seen : Holds(w) /\ got[read] = Finds(read, w, got)
    BY DEF Inv, Obtained, Types
  <1> QED BY <1>3, <1>4

\* A read of a series, of which the list of resources needs all.
LEMMA SeriesRead ==
  ASSUME Inv, Shown("resources"),
         NEW series \in {"cpuRequests", "memRequests", "cpuUsage", "memUsage"}
  PROVE  /\ got[series] # Failed => /\ Answered(got[series])
                                   /\ \E w \in seen : Holds(w) /\ got[series] = w[series]
         /\ series \in DOMAIN Options
         /\ series \in ResourceWarnings(got) <=> got[series] = Failed
  <1>1. result = "whole" /\ path = "resources" /\ path \in Paths
    BY DEF Shown, Paths
  <1>2. series \in Reads3 /\ series \in ToSet(ResourceReads)
    BY <1>1, Plans, PathReads DEF Reads3
  <1>3. Needs(series)
    BY <1>1 DEF Needs
  <1>4. series \in DOMAIN Options
    BY ReadsAssumption
  <1>5. ASSUME NEW w, Holds(w) PROVE Finds(series, w, got) = w[series]
    <2>1. Field(series) = series /\ series \in DOMAIN w
      BY <1>4, <1>5 DEF Field, Holds
    <2> QED BY <2>1 DEF Finds
  <1>6. got[series] # Unread
    BY <1>1, <1>2, <1>3, WholeRead
  <1>7. got[series] # Failed => \E w \in seen : Holds(w) /\ got[series] = w[series]
    BY <1>1, <1>2, <1>5, <1>6, WholeRead
  <1> QED BY <1>2, <1>4, <1>6, <1>7 DEF Answered, ResourceWarnings

LEMMA SeriesAreReal ==
  ASSUME Inv, Shown("resources"),
         NEW requests \in {"cpuRequests", "memRequests"},
         NEW usage \in {"cpuUsage", "memUsage"}
  PROVE  RealWaste(WasteList(Vector(got[requests]), Vector(got[usage])), requests, usage)
  <1> DEFINE waste == WasteList(Vector(got[requests]), Vector(got[usage]))
  <1>1. ASSUME NEW c \in waste
        PROVE  \E v, w \in seen :
                 /\ c \in DOMAIN v[requests]
                 /\ usage \notin ResourceWarnings(got) /\ c \in DOMAIN w[usage] =>
                      10 * w[usage][c] < 3 * v[requests][c]
    <2>1. /\ c \in DOMAIN Vector(got[requests])
          /\ 10 * Used(Vector(got[usage]), c) < 3 * Vector(got[requests])[c]
      BY DEF WasteList
    <2>2. got[requests] # Failed /\ Vector(got[requests]) = got[requests]
      BY <2>1 DEF Vector, Answered
    <2>3. PICK v \in seen : got[requests] = v[requests]
      BY <2>2, SeriesRead
    <2>4. CASE usage \in ResourceWarnings(got)
      BY <2>1, <2>2, <2>3, <2>4
    <2>5. CASE usage \notin ResourceWarnings(got)
      <3>1. Answered(got[usage]) /\ \E w \in seen : got[usage] = w[usage]
        BY <2>5, SeriesRead
      <3>2. PICK w \in seen : got[usage] = w[usage]
        BY <3>1
      <3>3. c \in DOMAIN w[usage] => Used(Vector(got[usage]), c) = w[usage][c]
        BY <3>1, <3>2 DEF Vector, Used
      <3> QED BY <2>1, <2>2, <2>3, <3>2, <3>3
    <2> QED BY <2>4, <2>5
  <1>2. ASSUME seen = {world}, ResourceWarnings(got) = {},
               NEW c \in DOMAIN world[requests] \ waste
        PROVE  \/ world[requests][c] = 0
               \/ c \in DOMAIN world[usage] /\ 10 * world[usage][c] >= 3 * world[requests][c]
    <2>1. /\ Answered(got[requests]) /\ got[requests] = world[requests]
          /\ Answered(got[usage]) /\ got[usage] = world[usage]
      BY <1>2, SeriesRead
    <2>2. requests \in DOMAIN Options /\ usage \in DOMAIN Options /\ Holds(world)
      BY SeriesRead DEF Inv, Types
    <2>3. Shape(requests, world[requests]) /\ Shape(usage, world[usage])
      BY <2>2 DEF Holds
    <2>4. world[requests][c] \in Nat
      BY <2>3 DEF Shape
    <2>5. c \in DOMAIN world[usage] => world[usage][c] \in Nat
      BY <2>3 DEF Shape
    <2>6. ~(world[requests][c] > 0 /\ 10 * Used(world[usage], c) < 3 * world[requests][c])
      BY <1>2, <2>1 DEF WasteList, Vector
    <2> QED BY <2>4, <2>5, <2>6 DEF Used
  <1> QED BY <1>1, <1>2 DEF RealWaste

\* resourcesHandler: a container is wasteful only as the systems said.
THEOREM WasteIsRealAlways == Spec => []WasteIsReal
  <1>1. Inv => WasteIsReal
    <2> SUFFICES ASSUME Inv, Shown("resources")
                 PROVE  /\ RealWaste(CpuWaste(got), "cpuRequests", "cpuUsage")
                        /\ RealWaste(MemWaste(got), "memRequests", "memUsage")
      BY DEF WasteIsReal
    <2> QED BY SeriesAreReal DEF CpuWaste, MemWaste
  <1> QED BY <1>1, PathsInv, PTL

\* alertDetailHandler, through httpGetJSON, too: the alert is the one asked for,
\* and its words are found in the logs.
THEOREM DetailIsAskedAlways == Spec => []DetailIsAsked
  <1>1. Inv => DetailIsAsked
    <2> SUFFICES ASSUME Inv, ShownInPart("detail") PROVE DetailIsAsked
      BY DEF DetailIsAsked
    <2> DEFINE alert == Matched(ask, got)
    <2>1. result \in {"whole", "cut"} /\ path = "detail" /\ path \in Paths /\ alert # None
      BY DEF ShownInPart, Paths, Inv, Complete, Succeeds
    <2>2. {"alerts", "logs"} \subseteq Reads3
      BY <2>1, Plans, PathReads DEF Reads3
    <2>3. Answered(got.alerts)
      BY <2>1 DEF Matched
    <2>4. PICK w \in seen : Holds(w) /\ got.alerts = w.alerts
      <3>1. PICK w \in seen : Holds(w) /\ got.alerts = Finds("alerts", w, got)
        BY <2>1, <2>2, <2>3, WholeRead DEF Answered
      <3>2. "alerts" \in DOMAIN w
        BY <3>1, ReadsAssumption DEF Holds
      <3> QED BY <3>1, <3>2 DEF Finds, Field
    <2>5. \E i \in DOMAIN got.alerts : alert = got.alerts[i] /\ Matches(ask, got.alerts[i])
      <3> DEFINE hits == {i \in DOMAIN got.alerts : Matches(ask, got.alerts[i])}
      <3>1. hits # {} /\ alert = got.alerts[Min(hits)]
        BY <2>1, <2>3 DEF Matched
      <3>2. "alerts" \in DOMAIN Options
        BY ReadsAssumption
      <3>3. DOMAIN got.alerts \subseteq Nat
        BY <2>4, <3>2 DEF Holds, Shape
      <3>4. Min(hits) \in hits
        BY <3>1, <3>3, LeastPlace
      <3> QED BY <3>1, <3>4
    <2>6. \E v \in seen : \E i \in DOMAIN v.alerts : v.alerts[i] = alert
      BY <2>4, <2>5
    <2>7. /\ ask.fingerprint \in {None, alert.fingerprint}
          /\ ask.alertname \in {None, alert.alertname}
          /\ ask.namespace \in {None, alert.namespace}
      BY <2>5 DEF Matches
    <2>8. ASSUME Answered(got.logs), NEW line \in got.logs
          PROVE  /\ <<alert.alertname, line.says>> \in WordIn
                 /\ alert.namespace # None => <<alert.namespace, line.namespace>> \in WordIn
                 /\ IF ask.pod # None THEN <<ask.pod, line.pod>> \in WordIn
                    ELSE alert.pod # None => <<alert.pod, line.pod>> \in WordIn
      <3>1. PICK v \in seen : got.logs = Finds("logs", v, got)
        BY <2>1, <2>2, <2>8, WholeRead DEF Answered
      <3>2. Finds("logs", v, got) = Lines(ask, alert, v.logs)
        BY LogsFind
      <3> HIDE DEF alert
      <3>3. /\ <<alert.alertname, line.says>> \in WordIn
            /\ Subject(ask, alert).namespace # None =>
                 <<Subject(ask, alert).namespace, line.namespace>> \in WordIn
            /\ Subject(ask, alert).pod # None =>
                 <<Subject(ask, alert).pod, line.pod>> \in WordIn
        BY <2>8, <3>1, <3>2 DEF Lines
      <3>4. /\ Subject(ask, alert).namespace =
                 IF ask.namespace # None THEN ask.namespace ELSE alert.namespace
            /\ Subject(ask, alert).pod = IF ask.pod # None THEN ask.pod ELSE alert.pod
        BY DEF Subject
      <3> QED BY <2>7, <3>3, <3>4
    <2> QED BY <2>6, <2>7, <2>8 DEF DetailIsAsked
  <1> QED BY <1>1, PathsInv, PTL

----------------------------------------------------------------------------
(***************************************************************************)
(* What the reads of a release tell.                                       *)
(***************************************************************************)
LEMMA ReleaseRead ==
  ASSUME Inv, Shown("release")
  PROVE  /\ {got.argo, got.job, got.rollout} \cap {Unread} = {}
         /\ harbor => got.harbor # Unread
         /\ got.service = Unread <=> got.job # "none"
         /\ Answered(got.argo) => \E w \in seen : Holds(w) /\ got.argo = w.argo
         /\ Answered(got.rollout) => \E w \in seen : Holds(w) /\ got.rollout = w.rollout
         /\ Answered(got.harbor) => \E w \in seen : Holds(w) /\ got.harbor = Page(w.pushed)
         /\ got.job # Failed => \E w \in seen : Holds(w) /\ got.job = QueryUp(w.job)
         /\ got.service \notin {Failed, Unread} =>
              \E w \in seen : Holds(w) /\ got.service = QueryUp(w.service)
  <1> DEFINE from == {"argo", "rollout", "harbor", "job", "service"}
  <1>1. result = "whole" /\ path = "release" /\ path \in Paths
    BY DEF Shown, Paths
  <1>2. from \subseteq Reads3
    BY <1>1, Plans, PathReads DEF Reads3
  <1>3. /\ Needs("argo") /\ Needs("job") /\ Needs("rollout") /\ Needs("harbor") = harbor
        /\ Needs("service") <=> got.job = "none"
    BY <1>1 DEF Needs, ReleaseNeeds
  <1>4. ASSUME NEW w, Holds(w)
        PROVE  /\ Finds("argo", w, got) = w.argo
               /\ Finds("rollout", w, got) = w.rollout
               /\ Finds("harbor", w, got) = Page(w.pushed)
               /\ Finds("job", w, got) = QueryUp(w.job)
               /\ Finds("service", w, got) = QueryUp(w.service)
    <2>1. {"argo", "rollout"} \subseteq DOMAIN w
      BY <1>4, ReadsAssumption DEF Holds
    <2> QED BY <2>1 DEF Finds, Field
  <1>5. got.argo # Unread /\ got.job # Unread /\ got.rollout # Unread
    BY <1>1, <1>2, <1>3, WholeRead
  <1>6. harbor => got.harbor # Unread
    BY <1>1, <1>2, <1>3, WholeRead
  <1>7. got.service = Unread <=> got.job # "none"
    <2>1. got.service # Unread => got.job = "none"
      BY <1>1 DEF Inv, Order
    <2>2. got.job = "none" => got.service # Unread
      BY <1>1, <1>2, <1>3, WholeRead
    <2> QED BY <2>1, <2>2
  <1>8. \A read \in from : got[read] \notin {Unread, Failed} =>
          \E w \in seen : Holds(w) /\ got[read] = Finds(read, w, got)
    BY <1>1, <1>2, WholeRead
  <1>9. Answered(got.argo) => \E w \in seen : Holds(w) /\ got.argo = w.argo
    BY <1>4, <1>8 DEF Answered
  <1>10. Answered(got.rollout) => \E w \in seen : Holds(w) /\ got.rollout = w.rollout
    BY <1>4, <1>8 DEF Answered
  <1>11. Answered(got.harbor) => \E w \in seen : Holds(w) /\ got.harbor = Page(w.pushed)
    BY <1>4, <1>8 DEF Answered
  <1>12. got.job # Failed => \E w \in seen : Holds(w) /\ got.job = QueryUp(w.job)
    BY <1>4, <1>5, <1>8
  <1>13. got.service \notin {Failed, Unread} =>
          \E w \in seen : Holds(w) /\ got.service = QueryUp(w.service)
    BY <1>4, <1>8
  <1> QED BY <1>5, <1>6, <1>7, <1>9, <1>10, <1>11, <1>12, <1>13

\* The shapes of what a release is described by.
LEMMA ReleaseShapes ==
  ASSUME NEW w, Holds(w)
  PROVE  /\ w.argo.state \in {"good", "bad", "blank"}
         /\ w.job \subseteq BOOLEAN /\ w.service \subseteq BOOLEAN
         /\ w.pushed \in Seq(STRING)
         /\ Len(w.pushed) \in Nat /\ DOMAIN w.pushed = 1 .. Len(w.pushed)
         /\ w.pushed = <<>> <=> Len(w.pushed) = 0
  <1>1. {"argo", "pushed", "job", "service"} \subseteq DOMAIN Options
    BY ReadsAssumption
  <1>2. /\ Shape("argo", w["argo"]) /\ Shape("pushed", w["pushed"])
        /\ Shape("job", w["job"]) /\ Shape("service", w["service"])
    BY <1>1 DEF Holds
  <1>3. w.pushed \in Seq(STRING)
    BY <1>2 DEF Shape
  <1>4. /\ Len(w.pushed) \in Nat /\ DOMAIN w.pushed = 1 .. Len(w.pushed)
        /\ w.pushed = <<>> <=> Len(w.pushed) = 0
    BY <1>3, LenProperties, EmptySeq
  <1> QED BY <1>2, <1>3, <1>4 DEF Shape

LEMMA PageHas ==
  ASSUME NEW w, Holds(w), NEW tag
  PROVE  /\ Page(w.pushed) = {} <=> w.pushed = <<>>
         /\ tag \in Page(w.pushed) <=>
              \E i \in DOMAIN w.pushed : w.pushed[i] = tag /\ i <= PageSize
  <1> DEFINE n == Len(w.pushed)
             k == IF n < PageSize THEN n ELSE PageSize
  <1>1. /\ n \in Nat /\ DOMAIN w.pushed = 1 .. n /\ PageSize \in Nat \ {0}
        /\ w.pushed = <<>> <=> n = 0
    BY ReleaseShapes, ReadsAssumption
  <1>2. Page(w.pushed) = {w.pushed[i] : i \in 1 .. k}
    BY DEF Page
  <1>3. \A i : i \in 1 .. k <=> i \in 1 .. n /\ i <= PageSize
    BY <1>1
  <1>4. Page(w.pushed) = {} <=> n = 0
    <2>1. n # 0 => 1 \in 1 .. k
      BY <1>1
    <2>2. n = 0 => 1 .. k = {}
      BY <1>1
    <2> QED BY <1>2, <2>1, <2>2
  <1> QED BY <1>1, <1>2, <1>3, <1>4

LEMMA UpIsTrue ==
  ASSUME NEW targets, targets \subseteq BOOLEAN
  PROVE  /\ QueryUp(targets) = "up" <=> targets = {TRUE}
         /\ QueryUp(targets) = "none" <=> targets = {}
         /\ QueryUp(targets) \in {"none", "down", "up"}
  <1>1. targets = {} \/ FALSE \in targets \/ targets = {TRUE}
    <2>1. \A x \in targets : x = TRUE \/ x = FALSE
      OBVIOUS
    <2> QED BY <2>1
  <1>2. FALSE \in targets => targets # {} /\ targets # {TRUE}
    OBVIOUS
  <1> QED BY <1>1, <1>2 DEF QueryUp

LEMMA MetricsUp ==
  ASSUME Inv, Shown("release"), Metrics(got) # Failed
  PROVE  \E w \in seen :
           /\ Holds(w)
           /\ \/ /\ got.job # "none" /\ got.job = QueryUp(w.job) /\ Metrics(got) = got.job
              \/ /\ got.job = "none" /\ got.service = QueryUp(w.service)
                 /\ Metrics(got) = got.service
  <1>1. CASE got.job = "none"
    <2>1. got.service # Unread /\ Metrics(got) = got.service
      BY <1>1, ReleaseRead DEF Metrics
    <2> QED BY <1>1, <2>1, ReleaseRead
  <1>2. CASE got.job # "none"
    <2>1. got.service = Unread /\ Metrics(got) = got.job
      BY <1>2, ReleaseRead DEF Metrics
    <2> QED BY <1>2, <2>1, ReleaseRead
  <1> QED BY <1>1, <1>2

\* A ready release: each system that answered was content at some moment.
LEMMA ReadyHasReasons ==
  ASSUME Inv, Shown("release"), Ready(got)
  PROVE  /\ Answered(got.argo) => \E w \in seen : w.argo.state # "bad"
         /\ Failed \notin {got.job, got.service} => \E w \in seen : {TRUE} \in {w.job, w.service}
         /\ Answered(got.rollout) =>
              \E w \in seen : w.rollout = None \/ w.rollout.condition
                                \/ w.rollout.phase = "Healthy"
         /\ Answered(got.harbor) =>
              \E v, w \in seen :
                w.pushed = <<>> \/ \E i \in DOMAIN w.pushed :
                                    w.pushed[i] \in {StaticTag, v.argo.tag}
  <1>1. /\ App(got).healthy
        /\ Images(got) # {} => App(got).tag \in Images(got)
        /\ Metrics(got) \notin {"none", "down"}
        /\ Found(got.rollout) => Healthy(got.rollout)
    BY DEF Ready
  <1>2. ASSUME Answered(got.argo) PROVE \E w \in seen : w.argo.state # "bad"
    <2>1. PICK w \in seen : Holds(w) /\ got.argo = w.argo
      BY <1>2, ReleaseRead
    <2>2. got.argo # Failed
      BY <1>2 DEF Answered
    <2>3. w.argo.state = "blank" \/ w.argo.state = "good"
      BY <1>1, <2>1, <2>2 DEF App, AppFromArgo
    <2> QED BY <2>3
  <1>3. ASSUME Failed \notin {got.job, got.service}
        PROVE  \E w \in seen : {TRUE} \in {w.job, w.service}
    <2>1. Metrics(got) # Failed
      BY <1>3 DEF Metrics
    <2>2. PICK w \in seen :
            /\ Holds(w)
            /\ \/ Metrics(got) = QueryUp(w.job)
               \/ Metrics(got) = QueryUp(w.service)
      BY <2>1, MetricsUp
    <2>3. w.job \subseteq BOOLEAN /\ w.service \subseteq BOOLEAN
      BY <2>2, ReleaseShapes
    <2>4. w.job = {TRUE} \/ w.service = {TRUE}
      BY <1>1, <2>2, <2>3, UpIsTrue
    <2> QED BY <2>4
  <1>4. ASSUME Answered(got.rollout)
        PROVE  \E w \in seen : w.rollout = None \/ w.rollout.condition
                                 \/ w.rollout.phase = "Healthy"
    <2>1. PICK w \in seen : got.rollout = w.rollout
      BY <1>4, ReleaseRead
    <2> QED BY <1>1, <1>4, <2>1 DEF Found, Healthy
  <1>5. ASSUME Answered(got.harbor)
        PROVE  \E v, w \in seen :
                 w.pushed = <<>> \/ \E i \in DOMAIN w.pushed :
                                     w.pushed[i] \in {StaticTag, v.argo.tag}
    <2>1. PICK w \in seen : Holds(w) /\ got.harbor = Page(w.pushed)
      BY <1>5, ReleaseRead
    <2>2. Images(got) = Page(w.pushed)
      BY <1>5, <2>1 DEF Images
    <2>3. \E v \in seen : App(got).tag \in {StaticTag, v.argo.tag}
      <3>1. CASE got.argo = Failed
        BY <2>1, <3>1 DEF App, StaticApp
      <3>2. CASE got.argo # Failed
        <4>1. Answered(got.argo)
          BY <3>2, ReleaseRead DEF Answered
        <4>2. PICK v \in seen : got.argo = v.argo
          BY <4>1, ReleaseRead
        <4> QED BY <3>2, <4>2 DEF App, AppFromArgo, StaticApp
      <3> QED BY <3>1, <3>2
    <2>4. CASE Page(w.pushed) = {}
      <3>1. w.pushed = <<>>
        BY <2>1, <2>4, PageHas
      <3> QED BY <3>1
    <2>5. CASE Page(w.pushed) # {}
      <3>1. App(got).tag \in Page(w.pushed)
        BY <1>1, <2>2, <2>5
      <3>2. \E i \in DOMAIN w.pushed : w.pushed[i] = App(got).tag
        BY <2>1, <3>1, PageHas
      <3> QED BY <2>3, <3>2
    <2> QED BY <2>4, <2>5
  <1> QED BY <1>2, <1>3, <1>4, <1>5

\* An answer without a warning from systems that did not change is exact.
LEMMA ReadyIsExact ==
  ASSUME Inv, Shown("release"), seen = {world}, Answered(got.argo), harbor,
         Warnings(got) = {}
  PROVE  Ready(got) <=> Good(world) /\ InHarbor(world)
  <1>1. /\ Failed # got.harbor /\ Failed # Metrics(got) /\ Failed # got.rollout
    BY DEF Warnings
  <1>2. Answered(got.harbor) /\ Answered(got.rollout)
    BY <1>1, ReleaseRead DEF Answered
  <1>3. Holds(world) /\ got.argo = world.argo /\ got.rollout = world.rollout
        /\ got.harbor = Page(world.pushed)
    BY <1>2, ReleaseRead
  <1>4. App(got) = AppFromArgo(world.argo)
    BY <1>3 DEF App, Answered
  <1>5. /\ App(got).healthy <=> world.argo.state # "bad"
        /\ App(got).tag = IF world.argo.tag = None THEN StaticTag ELSE world.argo.tag
    <2>1. world.argo.state \in {"good", "bad", "blank"}
      BY <1>3, ReleaseShapes
    <2>2. /\ App(got).tag = IF world.argo.tag = None THEN StaticTag ELSE world.argo.tag
          /\ App(got).healthy = (world.argo.state = "good" \/ world.argo.state = "blank")
      BY <1>4 DEF AppFromArgo, StaticApp
    <2> HIDE DEF App
    <2>3. App(got).healthy <=> world.argo.state # "bad"
      BY <2>1, <2>2
    <2> QED BY <2>2, <2>3
  <1>6. Metrics(got) \notin {"none", "down"} <=>
          (IF world.job # {} THEN world.job ELSE world.service) = {TRUE}
    <2>1. \/ /\ got.job # "none" /\ got.job = QueryUp(world.job) /\ Metrics(got) = got.job
          \/ /\ got.job = "none" /\ got.service = QueryUp(world.service)
             /\ Metrics(got) = got.service
      BY <1>1, MetricsUp
    <2>2. world.job \subseteq BOOLEAN /\ world.service \subseteq BOOLEAN
      BY <1>3, ReleaseShapes
    <2>3. CASE got.job = Failed
      <3>1. got.job = "none" \/ got.job = QueryUp(world.job)
        BY <2>1
      <3> QED BY <2>1, <2>3, <1>1, ReadsAssumption
    <2>4. CASE got.job # Failed
      <3>1. got.job = QueryUp(world.job)
        BY <2>4, ReleaseRead
      <3> QED BY <2>1, <2>2, <3>1, UpIsTrue
    <2> QED BY <2>3, <2>4
  <1>7. (Images(got) # {} => App(got).tag \in Images(got)) <=> InHarbor(world)
    <2>1. Images(got) = Page(world.pushed)
      BY <1>2, <1>3 DEF Images
    <2> QED BY <1>3, <1>5, <2>1, PageHas DEF InHarbor
  <1>8. (Found(got.rollout) => Healthy(got.rollout)) <=>
          (world.rollout # None => world.rollout.condition \/ world.rollout.phase = "Healthy")
    BY <1>2, <1>3 DEF Found, Healthy
  <1> QED BY <1>5, <1>6, <1>7, <1>8 DEF Ready, Good

\* buildReleaseDetail and buildReleaseChecks: a release is called ready for a
\* reason, and rightly so if nothing changed and all was read.
THEOREM ReadyIsTrueAlways == Spec => []ReadyIsTrue
  <1>1. Inv => ReadyIsTrue
    BY ReadyHasReasons, ReadyIsExact DEF ReadyIsTrue
  <1> QED BY <1>1, PathsInv, PTL

\* The failed reads a release is described without a word of: the cluster is
\* then the compiled-in one, or a part of the description is missing.
SilentReads == {"argo", "runs", "runs2", "routes2", "rules2"}

\* Every other read that fails is warned of in the answer.
FailuresAreTold ==
  Shown("release") /\ Warnings(got) = {} =>
    \A read \in ToSet(ReleaseReads) : got[read] = Failed => read \in SilentReads

\* buildReleaseDetail: a description without a warning may hide only failures of
\* Argo CD, of the analysis runs and of the second look at routes and rules;
\* Harbor, the metrics, the rollout, the traffic and Istio fail with a warning.
THEOREM FailuresAreToldAlways == Spec => []FailuresAreTold
  <1>1. Inv => FailuresAreTold
    <2> SUFFICES ASSUME Inv, Shown("release"), Warnings(got) = {},
                        NEW read \in ToSet(ReleaseReads), got[read] = Failed,
                        read \notin SilentReads
                 PROVE  FALSE
      BY DEF FailuresAreTold
    <2>1. read \in {"harbor", "job", "service", "rollout", "routes", "rules", "rollout2", "istio"}
      BY DEF ToSet, ReleaseReads, SilentReads
    <2>2. /\ Failed # got.harbor /\ Failed # Metrics(got) /\ Failed # got.rollout
          /\ Failed # got.routes /\ Failed # got.rules /\ Failed # got.rollout2
          /\ Failed # got.istio
      BY DEF Warnings
    <2>3. read \in {"job", "service"}
      BY <2>1, <2>2
    <2>4. CASE read = "job"
      <3>1. got.job = Failed /\ got.job # "none"
        BY <2>4, ReadsAssumption
      <3>2. got.service = Unread
        BY <3>1, ReleaseRead
      <3> QED BY <2>2, <3>1, <3>2 DEF Metrics
    <2>5. CASE read = "service"
      <3>1. got.service = Failed /\ got.service # Unread
        BY <2>5, ReadsAssumption
      <3> QED BY <2>2, <3>1 DEF Metrics
    <2> QED BY <2>3, <2>4, <2>5
  <1> QED BY <1>1, PathsInv, PTL
=============================================================================
