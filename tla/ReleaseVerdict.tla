--------------------------- MODULE ReleaseVerdict ---------------------------
(***************************************************************************)
(* What cloudops-cicd asks for, and concludes, when it describes a release *)
(* (buildReleaseDetail behind GET .../release, .../verify and .../health). *)
(* "got" holds what each read has returned.                                *)
(*                                                                         *)
(* An Argo CD or a Prometheus that is not configured is one that never     *)
(* answers; outside of Kubernetes, Kubernetes finds nothing.               *)
(***************************************************************************)
EXTENDS Naturals, Sequences, SequencesExt, Reads

CONSTANTS
  StaticTag,  \* CurrentTag in the compiled-in table of applications
  Summaries,  \* tags in the compiled-in table of releases
  PageSize    \* artifacts asked of Harbor: 20 in the code

\* The reads in their order.  loadObservabilitySummary reads the Rollout and
\* the routes once more.
ReleaseReads ==
  <<"argo", "harbor", "job", "service", "rollout", "runs", "routes", "rules",
    "rollout2", "runs2", "routes2", "rules2", "istio">>

\* The reads that depend on others: the service's targets are asked for when
\* the job has none, a failed read ends the part it belongs to.
ReleaseNeeds(read, harbor, got) ==
  CASE read = "harbor"               -> harbor
    [] read = "service"              -> got.job = "none"
    [] read = "runs"                 -> Found(got.rollout)
    [] read = "rules"                -> Answered(got.routes)
    [] read = "runs2"                -> Found(got.rollout2)
    [] read \in {"routes2", "istio"} -> Answered(got.rollout2)
    [] read = "rules2"               -> Answered(got.routes2)
    [] OTHER                         -> TRUE

\* An entry of the compiled-in table says Synced and Healthy.
StaticApp == [tag |-> StaticTag, healthy |-> TRUE]

\* appFromArgo: an Application without an image, or with a blank status, leaves
\* that to the compiled-in entry.
AppFromArgo(a) ==
  [tag |-> IF a.tag = None THEN StaticApp.tag ELSE a.tag,
   healthy |-> a.state = "good" \/ (a.state = "blank" /\ StaticApp.healthy)]

\* loadApps and findApp.
App(got) == IF got.argo = Failed THEN StaticApp ELSE AppFromArgo(got.argo)

\* Mutant: every artifact.
AllTags(pushed) == ToSet(pushed)

\* What Harbor returns of its tags, the newest first.
Page(pushed) == {pushed[i] : i \in 1 .. IF Len(pushed) < PageSize THEN Len(pushed) ELSE PageSize}

\* loadImages.
Images(got) ==
  IF Answered(got.harbor) THEN got.harbor
  ELSE IF Summaries = {} THEN {App(got).tag} ELSE Summaries

\* queryUp: a series for each target, 1 or 0.
QueryUp(targets) ==
  IF targets = {} THEN "none" ELSE IF FALSE \in targets THEN "down" ELSE "up"

\* loadMetrics: what the last query that was made says of its targets.
Metrics(got) == IF got.service # Unread THEN got.service ELSE got.job

\* rolloutFromKubernetes.
Healthy(rollout) == rollout.phase = "Healthy" \/ rollout.condition

\* Mutant: targets that are down only warn.
ReadyUnlessNone(got) ==
  /\ App(got).healthy
  /\ Images(got) # {} => App(got).tag \in Images(got)
  /\ Metrics(got) # "none"
  /\ Found(got.rollout) => Healthy(got.rollout)

\* buildReleaseChecks: no check fails.  Without metrics there is a "warn".
Ready(got) ==
  /\ App(got).healthy
  /\ Images(got) # {} => App(got).tag \in Images(got)
  /\ Metrics(got) \notin {"none", "down"}
  /\ Found(got.rollout) => Healthy(got.rollout)

\* The parts that buildReleaseDetail warns of.  appDetailHandler drops the
\* warning of loadApps, loadImages has none for a Harbor that is not configured,
\* and loadObservabilitySummary drops that of the routes.
Warnings(got) ==
  {part \in {"images", "metrics", "rollout", "traffic", "observability"} :
     Failed \in CASE part = "images"        -> {got.harbor}
                  [] part = "metrics"       -> {Metrics(got)}
                  [] part = "rollout"       -> {got.rollout}
                  [] part = "traffic"       -> {got.routes, got.rules}
                  [] OTHER                  -> {got.rollout2, got.istio}}
=============================================================================
