----------------------------- MODULE ReadPaths -----------------------------
(***************************************************************************)
(* The requests that only read, as steps: cloudops-cicd describes a        *)
(* release, cloudops-observe lists wasted resources or gives the detail of *)
(* an alert, to a client or to cloudops-aiops, which passes it on          *)
(* (diagnoseHandler, toolInvokeHandler).  A request reads one system after *)
(* the other; any read may fail, and what it reads changes in between.     *)
(*                                                                         *)
(* A request reads and writes nothing of another's: one is enough.         *)
(***************************************************************************)
EXTENDS ReleaseVerdict, ObserveAnswers, FiniteSets

CONSTANTS
  Start,        \* what the systems may hold at first: field -> value
  Options,      \* what each may come to hold: field -> values
  Asks,         \* parameters of a request for an alert
  MaxChanges,   \* bound: changes of what the systems hold
  MaxFailures   \* bound: reads that fail

\* What the systems hold, at first and later, has these shapes.
ASSUME ReadsAssumption ==
  /\ PageSize \in Nat \ {0} /\ "none" \notin {Failed, Unread} /\ Failed # Unread
  /\ {"argo", "pushed", "job", "service", "rollout", "alerts", "logs",
      "cpuRequests", "memRequests", "cpuUsage", "memUsage"} \subseteq DOMAIN Options
  /\ \A w \in Start : DOMAIN w = DOMAIN Options
  /\ \A field \in DOMAIN Options : \A v \in Options[field] \cup {w[field] : w \in Start} :
       /\ field = "argo" => v.state \in {"good", "bad", "blank"}
       /\ field = "pushed" => v \in Seq(STRING)
       /\ field = "alerts" => DOMAIN v \subseteq Nat
       /\ field \in {"job", "service"} => v \subseteq BOOLEAN
       /\ field \in {"cpuRequests", "memRequests", "cpuUsage", "memUsage"} =>
            \A c \in DOMAIN v : v[c] \in Nat

VARIABLES
  world,     \* what the systems hold
  path,      \* the request: "release", "resources" or "detail"
  ask,       \* its parameters
  harbor,    \* Harbor is configured
  aiops,     \* it comes from cloudops-aiops
  got,       \* what its reads have returned
  result,    \* "idle", "none" yet, then an answer, "whole" or "cut", or an "error"
  seen,      \* history: what the systems held since the request began
  changes,   \* changes so far
  failures   \* failed reads so far

request == <<path, ask, harbor, aiops>>
vars == <<world, request, got, result, seen, changes, failures>>

Plan(p) ==
  CASE p = "release"   -> ReleaseReads
    [] p = "resources" -> ResourceReads
    [] OTHER           -> DetailReads

\* The field of the world a read returns, and the fields a request depends on.
Field(read) ==
  CASE read = "harbor"                        -> "pushed"
    [] read \in {"rollout", "rollout2"}       -> "rollout"
    [] read \in {"routes", "routes2"}         -> "routes"
    [] OTHER                                  -> read

Fields == {Field(Plan(path)[i]) : i \in DOMAIN Plan(path)} \cap DOMAIN world

\* diagnoseHandler has no fingerprint and puts defaults for the rest; no tool
\* asks for a release.
PosedByAIOps ==
  /\ path # "release"
  /\ path = "detail" =>
       ask.fingerprint = None /\ ask.alertname # None /\ ask.namespace # None

Init ==
  /\ world \in Start
  /\ path \in {"release", "resources", "detail"}
  /\ ask \in IF path = "detail" THEN Asks ELSE {None}
  /\ harbor \in IF path = "release" THEN BOOLEAN ELSE {FALSE}
  /\ aiops \in BOOLEAN
  /\ aiops => PosedByAIOps
  /\ got = [read \in ToSet(Plan(path)) |-> Unread]
  /\ result = "idle"
  /\ seen = {}
  /\ changes = 0
  /\ failures = 0

Begin ==
  /\ result = "idle" /\ result' = "none"
  /\ seen' = {world}
  /\ UNCHANGED <<world, request, got, changes, failures>>

Needs(read) ==
  CASE path = "release"   -> ReleaseNeeds(read, harbor, got)
    [] path = "resources" -> TRUE
    [] OTHER              -> DetailNeeds(read, ask, got)

\* The reads still to be made, as their places in the order.
Open == {i \in DOMAIN Plan(path) : got[Plan(path)[i]] = Unread /\ Needs(Plan(path)[i])}

\* What a read finds.  What no conclusion is drawn from is one value.
Value(read) ==
  CASE read = "harbor" -> Page(world.pushed)
    [] read \in {"job", "service"} -> QueryUp(world[read])
    [] read = "logs"   -> Lines(ask, Matched(ask, got), world.logs)
    [] OTHER           -> IF Field(read) \in DOMAIN world THEN world[Field(read)] ELSE "some"

Read ==
  /\ result = "none" /\ Open # {}
  /\ LET read == Plan(path)[Min(Open)] IN
       \/ /\ got' = [got EXCEPT ![read] = Value(read)]
          /\ UNCHANGED failures
       \/ /\ failures < MaxFailures /\ failures' = failures + 1
          /\ got' = [got EXCEPT ![read] = Failed]
  /\ UNCHANGED <<world, request, result, seen, changes>>

\* The handlers answer with an error only if they have no alert (502 or 404).
Succeeds == path = "detail" => Matched(ask, got) # None

Respond ==
  /\ result = "none" /\ Open = {}
  /\ result' = IF Succeeds THEN "whole" ELSE "error"
  /\ UNCHANGED <<world, request, got, seen, changes, failures>>

\* Mutant: what has been read is shown.
ShowPartial ==
  /\ result = "none" /\ aiops
  /\ result' = "whole"
  /\ UNCHANGED <<world, request, got, seen, changes, failures>>

\* httpGetJSON: cloudops-aiops waits 12 seconds, and each read may take as long.
GiveUp ==
  /\ result = "none" /\ aiops
  /\ result' = "error"
  /\ UNCHANGED <<world, request, got, seen, changes, failures>>

\* ... but it ignores the error of ReadAll: of an answer that does not arrive
\* in full it passes on the beginning, as a string and without an error.
Cut ==
  /\ result = "none" /\ aiops /\ Open = {} /\ Succeeds
  /\ result' = "cut"
  /\ UNCHANGED <<world, request, got, seen, changes, failures>>

Change ==
  /\ result \in {"idle", "none"}
  /\ changes < MaxChanges /\ changes' = changes + 1
  /\ \E field \in Fields : \E value \in Options[field] :
       world' = [world EXCEPT ![field] = value]
  /\ world' # world
  /\ seen' = IF result = "idle" THEN seen ELSE seen \cup {world'}
  /\ UNCHANGED <<request, got, result, failures>>

Next == Begin \/ Read \/ Respond \/ GiveUp \/ Cut \/ Change

Spec == Init /\ [][Next]_vars

----------------------------------------------------------------------------
(***************************************************************************)
(* Properties.                                                             *)
(***************************************************************************)
Shown(p) == result = "whole" /\ path = p

\* The same, or the beginning of it: a warning may be missing, as it comes last.
ShownInPart(p) == result \in {"whole", "cut"} /\ path = p

\* What the release is like in w, whoever asks.
Good(w) ==
  /\ w.argo.state # "bad"
  /\ LET targets == IF w.job # {} THEN w.job ELSE w.service IN targets = {TRUE}
  /\ w.rollout # None => w.rollout.condition \/ w.rollout.phase = "Healthy"

\* The running tag is among the newest in Harbor.  The code asks this only of a
\* list that is not empty.
InHarbor(w) ==
  LET tag == IF w.argo.tag = None THEN StaticTag ELSE w.argo.tag IN
    w.pushed = <<>> \/ \E i \in DOMAIN w.pushed : w.pushed[i] = tag /\ i <= PageSize

\* What Argo CD, Harbor and Prometheus say is put together from reads at
\* different moments, with the compiled-in tables in place of those that do not
\* answer.  Still "ready" is never without reason: each system that answered
\* was content at some moment of the request.  And an answer without a warning
\* from systems that did not change is exact.
ReadyIsTrue ==
  Shown("release") =>
    /\ Ready(got) =>
         /\ Answered(got.argo) => \E w \in seen : w.argo.state # "bad"
         /\ Failed \notin {got.job, got.service} => \E w \in seen : {TRUE} \in {w.job, w.service}
         /\ Answered(got.rollout) =>
              \E w \in seen : w.rollout = None \/ w.rollout.condition
                                \/ w.rollout.phase = "Healthy"
         /\ Answered(got.harbor) =>
              \E v, w \in seen :
                w.pushed = <<>> \/ \E i \in DOMAIN w.pushed :
                                    w.pushed[i] \in {StaticTag, v.argo.tag}
    /\ seen = {world} /\ Answered(got.argo) /\ harbor /\ Warnings(got) = {} =>
         (Ready(got) <=> Good(world) /\ InHarbor(world))

RealWaste(waste, requests, usage) ==
  /\ \A c \in waste : \E v, w \in seen :
       /\ c \in DOMAIN v[requests]
       /\ usage \notin ResourceWarnings(got) /\ c \in DOMAIN w[usage] =>
            10 * w[usage][c] < 3 * v[requests][c]
  /\ seen = {world} /\ ResourceWarnings(got) = {} =>
       \A c \in DOMAIN world[requests] \ waste :
         \/ world[requests][c] = 0
         \/ c \in DOMAIN world[usage] /\ 10 * world[usage][c] >= 3 * world[requests][c]

\* A container is called wasteful only if at some moment of the request it asked
\* for more, and at another used less than 30% of that or nothing, unless the
\* answer warns that usage was not read.  Of systems that did not
\* change and all answered, none is left out.
WasteIsReal ==
  Shown("resources") =>
    /\ RealWaste(CpuWaste(got), "cpuRequests", "cpuUsage")
    /\ RealWaste(MemWaste(got), "memRequests", "memUsage")

\* An alert is shown, in whole or cut off on its way through cloudops-aiops,
\* only if it fired while the request ran and is the one asked for, and the logs
\* shown with it are lines in which its name, its own namespace and its own pod,
\* or the pod the client has named, are found.
DetailIsAsked ==
  ShownInPart("detail") =>
    LET alert == Matched(ask, got) IN
      /\ \E w \in seen : \E i \in DOMAIN w.alerts : w.alerts[i] = alert
      /\ ask.fingerprint \in {None, alert.fingerprint}
      /\ ask.alertname \in {None, alert.alertname}
      /\ ask.namespace \in {None, alert.namespace}
      /\ Answered(got.logs) => \A line \in got.logs :
           /\ <<alert.alertname, line.says>> \in WordIn
           /\ alert.namespace # None => <<alert.namespace, line.namespace>> \in WordIn
           /\ IF ask.pod # None THEN <<ask.pod, line.pod>> \in WordIn
              ELSE alert.pod # None => <<alert.pod, line.pod>> \in WordIn
=============================================================================
