---------------------------- MODULE DeployPipeline ----------------------------
(***************************************************************************)
(* The Jenkins pipeline that deploys one service (the Jenkinsfiles):       *)
(* build and push an image, put its tag into the Argo CD application, ask  *)
(* for a sync, poll the application until it is Synced and Healthy, and    *)
(* (the pipeline of cloudops-cicd) report a release record.                *)
(*                                                                         *)
(* Argo CD and the cluster are external: a controller that takes up the    *)
(* requested operation, ends it and compares, each in its own time, so     *)
(* that the status the pipeline reads may be older than its own patches.   *)
(* Only this pipeline writes the application.                              *)
(*                                                                         *)
(* Builds are numbered; build b pushes the tag main-b, here b, and 0 is    *)
(* the image that ran before.                                              *)
(***************************************************************************)
EXTENDS Naturals

CONSTANTS
  MaxBuilds,    \* bound: builds of the pipeline
  MaxAttempts   \* polls of the wait stage: 60 in the code

ASSUME PipelineAssumption ==
  MaxBuilds \in Nat \ {0} /\ MaxAttempts \in Nat \ {0}

Build == 1 .. MaxBuilds
Tag == 0 .. MaxBuilds

VARIABLES
  stage,     \* the next stage of each build, or its result
  attempt,   \* polls made by the wait stage
  registry,  \* tags in Harbor
  app,       \* the Application resource: spec, operation and status
  live,      \* the tag of the manifests in the cluster
  pods,      \* how the pods of these manifests really are
  records,   \* builds with a release record in cloudops-cicd
  settled    \* history: builds whose requested operation has ended

vars == <<stage, attempt, registry, app, live, pods, records, settled>>

Ended == {"SUCCESS", "FAILURE"}
Running == {"push", "patch", "verify", "sync", "wait", "report", "answer"}
Health == {"Progressing", "Healthy", "Degraded"}

Application ==
  [tag       : Tag,         \* spec.source.helm.parameters, app.imageTag
   operation : BOOLEAN,     \* an operation is requested and has not ended
   opTag     : Tag,         \* the tag when it was taken up
   phase     : {"none", "Running", "Succeeded", "Failed"},
   sync      : {"Synced", "OutOfSync"},   \* as last compared
   health    : Health,                    \* as last compared
   error     : BOOLEAN]     \* there is a ComparisonError

Init ==
  /\ stage = [b \in Build |-> "none"]
  /\ attempt = [b \in Build |-> 0]
  /\ registry = {0}
  /\ app = [tag |-> 0, operation |-> FALSE, opTag |-> 0, phase |-> "none",
            sync |-> "Synced", health |-> "Healthy", error |-> FALSE]
  /\ live = 0
  /\ pods = "Healthy"
  /\ records = {}
  /\ settled = {}

To(b, from, to) == stage[b] = from /\ stage' = [stage EXCEPT ![b] = to]

----------------------------------------------------------------------------
(***************************************************************************)
(* The pipeline.  A stage fails when one of its commands does; what it had *)
(* done by then stays done.                                                *)
(***************************************************************************)
\* Mutant: the option disableConcurrentBuilds() is missing.
StartConcurrently(b) ==
  /\ To(b, "none", "push")
  /\ UNCHANGED <<attempt, registry, app, live, pods, records, settled>>

\* disableConcurrentBuilds(): a build waits for the one before it.
StartBuild(b) ==
  /\ To(b, "none", "push")
  /\ \A c \in Build : IF c < b THEN stage[c] \in Ended ELSE stage[c] = "none"
  /\ UNCHANGED <<attempt, registry, app, live, pods, records, settled>>

Push(b) ==
  /\ To(b, "push", "patch")
  /\ registry' = registry \cup {b}
  /\ UNCHANGED <<attempt, app, live, pods, records, settled>>

PatchTag(b) ==
  /\ To(b, "patch", "verify")
  /\ app' = [app EXCEPT !.tag = b]
  /\ UNCHANGED <<attempt, registry, live, pods, records, settled>>

\* CURRENT_TAG, read back, is the tag of this build.
VerifyTag(b) ==
  /\ To(b, "verify", "sync")
  /\ app.tag = b
  /\ UNCHANGED <<attempt, registry, app, live, pods, records, settled>>

\* The patches for a hard refresh (a comparison may come at any time here) and
\* for the operation.
RequestSync(b) ==
  /\ To(b, "sync", "wait")
  /\ app' = [app EXCEPT !.operation = TRUE]
  /\ UNCHANGED <<attempt, registry, live, pods, records, settled>>

\* Mutant: the parser looks for "sync": in the status only.
StatusSync == app.sync

\* parse_argocd_app_status takes the first "sync": of the application and the
\* first "status":"..." after it.  The API server sorts the keys, so while an
\* operation is there that "sync": is the operation's and what follows is the
\* status of status.health.
SyncRead == IF app.operation THEN app.health ELSE app.sync

SyncedAndHealthy(b) ==
  /\ To(b, "wait", "report")
  /\ ~app.error
  /\ SyncRead = "Synced" /\ app.health = "Healthy"
  /\ UNCHANGED <<attempt, registry, app, live, pods, records, settled>>

\* ComparisonError, or the phase is Failed or Error and the application is not
\* both Synced and Healthy.
WaitFails(b) ==
  /\ To(b, "wait", "FAILURE")
  /\ \/ app.error
     \/ app.phase = "Failed" /\ ~(SyncRead = "Synced" /\ app.health = "Healthy")
  /\ UNCHANGED <<attempt, registry, app, live, pods, records, settled>>

\* Mutant: "while true" instead of "for i in $(seq 1 60)".
WaitForever(b) ==
  /\ stage[b] = "wait"
  /\ ~app.error /\ app.phase # "Failed"
  /\ ~(SyncRead = "Synced" /\ app.health = "Healthy")
  /\ attempt' = [attempt EXCEPT ![b] = (@ + 1) % MaxAttempts]
  /\ UNCHANGED <<stage, registry, app, live, pods, records, settled>>

\* Mutant: one attempt too many.
WaitOnceMore(b) ==
  /\ stage[b] = "wait"
  /\ ~app.error /\ app.phase # "Failed"
  /\ ~(SyncRead = "Synced" /\ app.health = "Healthy")
  /\ attempt' = [attempt EXCEPT ![b] = @ + 1]
  /\ stage' = IF attempt[b] < MaxAttempts
                THEN stage ELSE [stage EXCEPT ![b] = "FAILURE"]
  /\ UNCHANGED <<registry, app, live, pods, records, settled>>

\* Nothing decided: the next attempt, or the timeout.
WaitMore(b) ==
  /\ stage[b] = "wait"
  /\ ~app.error /\ app.phase # "Failed"
  /\ ~(SyncRead = "Synced" /\ app.health = "Healthy")
  /\ attempt' = [attempt EXCEPT ![b] = @ + 1]
  /\ stage' = IF attempt[b] + 1 < MaxAttempts
                THEN stage ELSE [stage EXCEPT ![b] = "FAILURE"]
  /\ UNCHANGED <<registry, app, live, pods, records, settled>>

\* The status is read once more for the record's argocd_* fields (not
\* modelled); status and verification are constants of the script.
Report(b) ==
  /\ To(b, "report", "answer")
  /\ records' = records \cup {b}
  /\ UNCHANGED <<attempt, registry, app, live, pods, settled>>

ReportAnswered(b) ==
  /\ To(b, "answer", "SUCCESS")
  /\ UNCHANGED <<attempt, registry, app, live, pods, records, settled>>

\* Mutant: a failing step does not fail the build ("|| true").
FailuresIgnored(b) ==
  /\ stage[b] \in Running \ {"wait"}
  /\ stage' = [stage EXCEPT ![b] =
       CASE @ = "push" -> "patch" [] @ = "patch" -> "verify"
         [] @ = "verify" -> "sync" [] @ = "sync" -> "wait"
         [] OTHER -> "SUCCESS"]
  /\ UNCHANGED <<attempt, registry, app, live, pods, records, settled>>

\* A command of the stage fails, its answer is lost after it took effect (in
\* the model: the next stage fails at once), or the build is aborted.
StageFails(b) ==
  /\ stage[b] \in Running
  /\ stage' = [stage EXCEPT ![b] = "FAILURE"]
  /\ UNCHANGED <<attempt, registry, app, live, pods, records, settled>>

Pipeline(b) ==
  \/ Push(b) \/ PatchTag(b) \/ VerifyTag(b) \/ RequestSync(b)
  \/ SyncedAndHealthy(b) \/ WaitFails(b) \/ WaitMore(b)
  \/ Report(b) \/ ReportAnswered(b) \/ StageFails(b)

----------------------------------------------------------------------------
(***************************************************************************)
(* Argo CD and the cluster.                                                *)
(***************************************************************************)
TakeUp ==
  /\ app.operation /\ app.phase # "Running"
  /\ app' = [app EXCEPT !.phase = "Running", !.opTag = app.tag]
  /\ UNCHANGED <<stage, attempt, registry, live, pods, records, settled>>

\* The manifests are rendered at some moment of the operation; the requested
\* operation is removed when it ends.
EndOperation ==
  /\ app.operation /\ app.phase = "Running"
  /\ settled' = settled \cup {b \in Build : stage[b] = "wait"}
  /\ \/ /\ live' \in {app.opTag, app.tag}
        /\ pods' = IF live' = live THEN pods ELSE "Progressing"
        /\ app' = [app EXCEPT !.operation = FALSE, !.phase = "Succeeded"]
     \/ /\ app' = [app EXCEPT !.operation = FALSE, !.phase = "Failed"]
        /\ UNCHANGED <<live, pods>>
  /\ UNCHANGED <<stage, attempt, registry, records>>

Compare ==
  /\ \E e \in BOOLEAN :
       app' = [app EXCEPT !.sync = IF live = app.tag THEN "Synced" ELSE "OutOfSync",
                          !.health = pods, !.error = e]
  /\ UNCHANGED <<stage, attempt, registry, live, pods, records, settled>>

PodsChange ==
  /\ pods' \in Health
  /\ pods' = "Healthy" => live \in registry
  /\ UNCHANGED <<stage, attempt, registry, app, live, records, settled>>

Next ==
  \/ \E b \in Build : StartBuild(b) \/ Pipeline(b)
  \/ TakeUp \/ EndOperation \/ Compare \/ PodsChange

Spec == Init /\ [][Next]_vars

\* Every command of a pipeline returns; nothing is asked of Argo CD.
FairSpec == Spec /\ \A b \in Build : WF_vars(Pipeline(b))

----------------------------------------------------------------------------
(***************************************************************************)
(* Properties.                                                             *)
(***************************************************************************)
\* Type invariant.
TypeOK ==
  /\ stage \in [Build -> {"none"} \cup Running \cup Ended]
  /\ attempt \in [Build -> 0 .. MaxAttempts]
  /\ registry \subseteq Tag
  /\ app \in Application
  /\ live \in Tag
  /\ pods \in Health
  /\ records \subseteq Build
  /\ settled \subseteq Build

\* Whatever stage fails, Argo CD is never told to run, and no release record
\* names, an image that is not in Harbor.
NamesPushedImages == {app.tag, app.opTag, live} \cup records \subseteq registry

\* A build that Jenkins calls a success has its image in Harbor and its
\* release record in cloudops-cicd: the build history and the release records
\* agree (a record without a success is possible: the answer may be lost).
SuccessIsRecorded ==
  \A b \in Build : stage[b] = "SUCCESS" => b \in registry /\ b \in records

\* While a build deploys and reports, the application keeps the tag this build
\* has put there: no other build moves it under the wait.
DeploysItsOwnTag ==
  \A b \in Build : stage[b] \in {"sync", "wait", "report", "answer"} => app.tag = b

\* A record is reported only after the operation that was pending when its
\* build asked for a sync has ended, though the status of before it may well
\* read Synced and Healthy.
RecordedAfterOperation == records \subseteq settled

\* Every build ends, whatever Argo CD does.
EveryBuildEnds == \A b \in Build : stage[b] = "push" ~> stage[b] \in Ended

\* "Argo CD application ... synced and healthy" (Jenkinsfile.cloudops-cicd-kaniko:310,
\* printed when the wait ends well): the cluster has the manifests of this
\* build.
SyncedMeansDeployed == \A b \in Build : stage[b] = "report" => live = b
=============================================================================
