# A TLA+ model of cloudops-platform

This directory keeps a formal model of cloudops-platform beside its code:
modules, configurations for TLC, and theorems whose proofs TLAPS checks.
Paths below are relative to `src/`; `cicd/` stands for
`services/cloudops-cicd/`.

## 1. Inventory

| component | state it keeps | operations | what makes it correct |
|---|---|---|---|
| build tracker (`cicd/builds.go`) | one goroutine per accepted item, tokens in the channel `buildSem` | POST builds, `runBuildJob`, `maybeNotify` | no token leaked; every build started is in the history; what the history and the notices say is true |
| build store (`cicd/build_store.go`) | `build_history` in PostgreSQL, or a map in memory | Save (upsert), Get, List | an id is one row; a row moves only forward |
| Jenkins client (`cicd/jenkins.go`) | CSRF crumb, fetched once per client | list jobs, match, trigger, wait for queue and build | no wait is unbounded; the job asked for is the job triggered, once; one item's failure is not another's |
| release requests (`cicd/release_requests.go`) | `release_requests` rows | create, decide, list, get | a row tells one decision; what was confirmed is replaced only by what overlaps it or comes later |
| release records (`cicd/main.go`) | `release_records` rows | record (Jenkins), snapshot, list, rollback candidates | a record told to a client survives; a snapshot does not overwrite a base record; a candidate was a ready release other than the running one |
| startup (`cicd/main.go` `main`) | which backend each store has | 10 attempts then exit; one attempt then memory | with a DSN no store is in memory |
| release checks (`cicd/main.go`) | none | Argo CD, Harbor, Prometheus, Rollout answers to checks and `ready` | ready iff no check fails |
| deploy pipelines (`Jenkinsfile.*`) | git checkout, Argo CD application | build, push, patch, sync, wait, report | what is reported as deployed is deployed |
| observe (`services/cloudops-observe/`) | none beyond a request | list alerts, detail of an alert, wasted resources, log search | what is shown was true while the request ran, and is about what was asked for |
| aiops (`services/cloudops-aiops/`) | none beyond a request | diagnose and tools (from observe), search in compiled-in documents, suggestions, drafts | what it passes on is an answer observe has finished; when that arrives only in part, its beginning |
| gateway (`services/cloudops-gateway/`) | none | health, version, metrics | constants |
| web console (`services/cloudops-web/index.html`) | the page | asynchronous requests | the page shows the answer to the last question |

Who talks to whom: the console calls cicd, observe and aiops through the ingress,
which routes each path to its service (the gateway passes nothing on). cicd calls
Jenkins (list, trigger, poll), PostgreSQL, Argo CD, Harbor, Prometheus, the
Kubernetes API and a webhook; observe calls Alertmanager, Prometheus and
VictoriaLogs; aiops calls observe. A Jenkins pipeline builds and pushes an image,
patches the Argo CD application, waits for it and POSTs a release record to cicd.

What is hard here: goroutines that share one semaphore and one store; store and
HTTP calls that fail, or that succeed although the caller sees an error; waits
with deadlines that race with the answer; a service that is killed with
goroutines in flight, which nothing resumes; a pipeline that reads the status of
a controller which may not have seen the pipeline's own change yet; rows that are
read and then saved whole; a client that is shared by goroutines and remembers
what Jenkins forgets; answers put together from reads at different moments.

## 2. Plan

Order of the modules, the most important behaviour first; (done) is on disk.

1. `BuildRecords`, `BuildHistory` (abstract), `BuildTracking`: the only
   concurrent part with shared mutable state. (done)
2. `DeployPipeline`: a pipeline against a controller that acts in its own time.
   (done)
3. `StoreStartup`: what the stores are, which the other modules presume. (done)
4. `ReleaseRecords`: requests that read four backends one after the other. (done)
5. `ReleaseRequests` and `RequestRegistry` (abstract): create (whose answer may
   be lost) and decide (get, then save), two deciders at once, the lists of the
   console that overtake each other. (done)
6. `JenkinsBatch`: which job a service name selects; the crumb that is looked for
   once per client, shared by the goroutines of a batch. (done)
7. `Reads`, `ReleaseVerdict`, `ObserveAnswers` and `ReadPaths`: the requests that
   only read, in cicd, observe and aiops. (done)
8. The order of lists (`sortReleaseRecords`) against a total order. (open: the
   properties of the records speak of sets of them)

Compositions: `BuildTracking` implements `BuildHistory`, and `ReleaseRequests`
implements `RequestRegistry` (done). `ReadPaths` composes what cicd
(`ReleaseVerdict`) and observe (`ObserveAnswers`) conclude with the systems they
read, which change, and with aiops, which gives up. `JenkinsBatch` ends where
`BuildTracking` begins: a goroutine with its record. `ReleaseRecords` uses the
verdict `ready` that `ReleaseVerdict` has in detail. `BuildTracking` with
`Durable = TRUE` presumes that the build store got PostgreSQL, which
`StoreStartup` shows is not guaranteed; `ReleaseRecords` presumes a record store
as `StoreStartup` proves it; the records pipelines post in `ReleaseRecords` are
those `DeployPipeline` reports.

Theorems: every safety property the passing runs check and both refinements
(done); the half of termination that needs no fairness, what remains true where
a run refutes a statement, and what the pure searches find (done). An invariant
is proved in a module of its own, beside the module it is about, which declares
no RECURSIVE operator; recursion over lists is written with sets of places (`Min`
and `Max` of them), about which the provers can reason.
The properties of the four runs that end in a violation are false and have no
proof; liveness stays with TLC.

## 3. Modules and code

Line-by-line correspondence is in `PROJECT.json` under `map`; mutants (a
definition as a plausible bug would have it) stand beside the definition they
change, marked `Mutant`, and are part of no specification.

### BuildRecords, BuildTracking, BuildHistory

`BuildTracking` is `cicd/builds.go` with the store (`cicd/build_store.go`) and
the Jenkins client (`cicd/jenkins.go`) it calls.

| variable | code |
|---|---|
| `pc[j]` | where `runBuildJob` of the accepted item `j` stands; `idle` is an item nobody asked for yet, `lost` a goroutine a crash took away |
| `slots` | tokens in the channel `buildSem` |
| `rec[j]` | the local variable `rec` |
| `polls[j]` | polls made by the current `WaitQueue` or `WaitBuild` |
| `rows` | `build_history`, or the map of the memory store |
| `jenkins[j]` | external: the queue item or the build the trigger of `j` created |
| `notices` | messages delivered to the webhook |
| `faults`, `crashes` | bounds |

Every store call and every HTTP call is a step; what the code does between two
calls belongs to the step before. A save that fails may have been committed; its
caller gets `BuildRecord{}`, and goes on with it where the code says
`rec, _ = buildStore.Save(...)` (`SaveAndKeep`) or with the old copy where it
says `_, _ = buildStore.Save(...)` (`SaveAndDrop`). A later save of a blank
record inserts a row under a fresh id (`SpareId`). A trigger whose answer is
lost leaves a build in Jenkins and `FAILED` in the row. Jenkins acts on its own:
a queue item is started or cancelled, a build ends.

`BuildHistory` is what a reader of `GET /api/v1/cicd/builds` is promised: rows
start as queued, advance through the stages and never go back, keep the queue
item and the build they name, and disappear only with the memory store.
`BuildTracking` implements it with the identity on `rows` (`History`,
`ImplementsHistory`).

Data reduced: service, branch and job, always copied together, are the field
`owner`; a tag is `pending` or `numbered`; texts, URLs, the build number and
times are left out. Not modelled: `dry_run` (changes no state), `List`, job
matching (an item is accepted or refused at will), and Jenkins answering two
identical triggers with one queue item.

### DeployPipeline

`Jenkinsfile.cloudops-cicd-kaniko`, one action per stage (two where a stage has
two effects): `Push`, `PatchTag`, `VerifyTag`, `RequestSync`, the wait
(`SyncedAndHealthy`, `WaitFails`, `WaitMore`), `Report`. `StageFails` is any
command that fails, an abort, or an answer lost after the effect. `app` is the
Application resource the pipeline patches and reads; `TakeUp`, `EndOperation`,
`Compare` and `PodsChange` are Argo CD and the cluster, external and as slow as
they like. `SyncRead` is what the awk parser really reads: the first `"sync":`
of the compact JSON, which is the one of the pending operation while there is
one. Tags are build numbers, 0 the image before. Assumed: only this pipeline
writes the application, and every command returns (the Jenkinsfiles set no
`timeout()`). The four other pipelines are the same without the report.

### StoreStartup

`main()` opening three stores in order (`pc[p]` is the store being opened),
`newReleaseRecordStore` with its ten attempts and `log.Fatalf`, and
`newBuildRecordStore` and `newReleaseRequestStore` with one attempt and a
fallback; several replicas, one database that fails and recovers, crashes, and
Kubernetes that may start a replica again. `acked` is the history of what was
confirmed to clients. `Shown` is `loadReleaseRecords`: while the database is away
it logs the error of `ListByApp` and answers without the stored records.

### ReleaseRecords

One application of `cicd/main.go`. A request goes through `ReadApp` (`loadApps`:
Argo CD, or the compiled-in entry `StaticApp` when it does not answer; what an
answer leaves out, the images or sync and health, stays as it is compiled in,
`AppFromArgo`), `ReadDetail`
(`buildReleaseDetail`: Harbor's newest `PageSize` tags or the compiled-in
releases, then Prometheus and the Rollout, which may object), and `SaveSnapshot`
or `List` (`loadReleaseRecords`, `rollbackCandidates`). `Post` is
`releaseRecordsHandler` as a pipeline calls it. `Push`, `Change` and `Tick` are
the registry, the cluster and the clock. An id is a pair: the tag, and the
second of a snapshot or 0. `verdict` is what Argo CD says of sync and health, if
it says anything. `confirmed`, `before`, `stayed`, `told` (the requests to which
Argo CD has named the running image) and `good` (the tags against which it once
had nothing to say) are histories. Not modelled: the order of lists, posts with
an id or a status of their own, and Argo CD naming several images at once.

### ReleaseRequests, RequestRegistry

`cicd/release_requests.go` and the console's panel (`services/cloudops-web/index.html`).
A call is a request of the API, made once, and stands for what its body says.
`Create` is POST with the store's Save, `DecideGet` and `DecideSave` the two
store calls of a decide, `List` and `Render` a list and its arrival at the page;
`ConsoleCreates` goes on to a list of its own, as the console does. Answers
arrive in any order. `durable` says which store the service has got. In both
`Save` is an upsert, but not the same one: PostgreSQL keeps `created_at` of a row
that is there, while the memory store takes the new row with a new `created_at`
and leaves the id at its place in `order` (`Placed`). `Newest` is what a list may
return: ORDER BY created_at DESC LIMIT, with ties in any order, or the first of
the memory store's order; `NotOlder` is the order of either. Calls of the memory
store do not fail.
`confirmed`, `submitted`, `writer`, `before` and `known` are histories.

`RequestRegistry` hides calls, answers and failures: requests are submitted and
decided. The refinement maps `book` to `Book` (a row counts as decided by its
approver, since a client may post `approved` as a status), `submitted` to the
history of that name and `Content` to the calls (`Registry`,
`ImplementsRegistry`).

### JenkinsBatch

One POST of builds (`triggerBuildsHandler`, or `matchAll` in a dry run) and the
triggers of its goroutines (`TriggerBuild`), with the client they share
(`checked` is `crumbChecked`, `crumb` is `crumbValue`). `FetchCrumb`, `FindJob`,
`ReadParams` and `SaveRecord` are the handler's calls for the item `next`, each of
which may fail; `Trigger` and `TriggerLost` are the POST of a goroutine, with or
without an answer. `Match` is `matchJenkinsJob` and `BranchParam` is
`resolveBranchParam`; names are sequences of words. `Restart` is Jenkins, which
forgets its crumbs. `JobOf` says independently of `Match` which job is a
service's. `hurt` and `poisoned` are histories. Not modelled: the match without
Jenkins in a dry run, upper case, and a service name inside a word.

### Reads, ReleaseVerdict, ObserveAnswers, ReadPaths

`ReleaseVerdict` is what `buildReleaseDetail` reads and `buildReleaseChecks`
concludes: the order of the reads, which of them depend on others, the fallbacks
of Argo CD and Harbor, the page of the newest tags, `ready` and the warnings.
`ObserveAnswers` is `resourcesHandler` with `wasteList`, and `alertDetailHandler`
with the alert it picks and the lines it asks for. `ReadPaths` gives each read a
step: a request (`path`) makes its `Plan` in order, any read may fail, and
`Change` changes one of the systems in between. `GiveUp` is the limit of 12
seconds with which aiops calls observe; `Cut` is an answer that breaks off while
aiops reads it, of which `httpGetJSON` passes on the beginning, as a string and
without an error. `got` holds what the reads returned, `seen` is the history of
what the systems held since the request began. The filters of `buildLogsQL` are
filters for words: `WordIn` says which value contains which word, or matches a
word with a `*`, and so which lines a filter finds (`Lines`). Texts,
values shown without a verdict, and the other parameters of the queries are left
out.

## 4. Runs

| run | configuration | shows |
|---|---|---|
| `build_faults` | 2 items, 1 token, PostgreSQL, 1 failing store call, 1 crash | all safety properties of the tracker and the refinement, 4.3 million states |
| `build_live` | 2 items, 1 token, memory store, 1 crash, no failing call, fair | every goroutine and every record ends, and the refinement when a crash forgets the history, 426,000 states |
| `build_tag` | 1 item | violation: a successful build keeps the `-pending` tag |
| `deploy` | 2 builds, 2 polls, fair | safety of the pipeline and `EveryBuildEnds` |
| `deploy_stale` | 1 build, 1 poll | violation: the wait takes the former release's status for its own |
| `startup` | 2 replicas, 2 attempts, 1 outage, 1 crash, fair | no release record is lost, nor hidden while the database answers; startup ends; 109,000 states |
| `startup_fallback` | 1 replica, 1 outage | violation: memory although a DSN is set |
| `records` | 2 requests, 2 tags, 2 seconds, 1 change of the running tag | answers and snapshots under all interleavings, 3.9 million states |
| `records_running` | 1 request | violation: the running tag is a rollback candidate when Argo CD does not answer or lists no image |
| `requests` | 4 calls, 2 ids, lists of 1, 2 seconds, PostgreSQL or memory | decisions, submissions and lists under all interleavings, and the refinement, 4.3 million states |
| `jenkins_batch` | up to 3 jobs in 1 or 2 folders, batches of 2 or 3 items, 1 restart | every tree and every failing call of a batch, 434,000 states |
| `reads` | 2 changes, 2 failing reads, pages of 2 tags | the answers of the three read paths, whole or cut off, 5.7 million states |

Why the bounds are enough. Two items and one token make goroutines wait for each
other; the second item also sees every state the first can leave behind, and
tokens are the only thing they share. One failing call at any step, with both
outcomes, reaches every error path; the properties that hold only without faults
say so. One poll per wait gives both ways a wait ends; the model does not look
at how many polls came before. Two builds of a pipeline give the second all the
stale states of the first (phase, status, running tag). One crash and one outage
may come at every step of every replica. One change of the running tag before,
during or after each step of a request is all a request can notice: with two
changes within a request no tag has stayed all the time and the property that
speaks of it is empty. Two snapshot requests can meet in one second or come in
two. Four calls for two release requests are a create, two deciders that overlap
and a resubmission or a list between them; with one more id than a list holds,
something is left out of it. Five jobs whose names compete in
each way `matchJenkinsJob` tells apart, any three of them in any order: two of
one name, two that contain the service, one of each preferred name. In `reads`
requests share nothing, so one is enough; a conclusion compares at most two
reads, which two changes can each spoil, before or after the read. The values
in `WordIn` are such that a filter finds more than its own value: a namespace
that contains another, an alert's name that contains another, a pod with a `*`.

Symmetry is used over items and over requests in runs of safety properties only.
Deadlock is not checked where the system may stop (all items, builds or requests
are done), and is checked in `startup`, where a replica can always go on.

Fairness. `BuildTracking`: weak fairness of each goroutine, since the Go
scheduler runs what can run and the Jenkins and webhook clients have timeouts;
that a database call returns is assumed. `DeployPipeline`: weak fairness of each
build, since Jenkins runs the next command when one has returned; that each
returns is assumed (above). `StoreStartup`: weak fairness of each replica's
startup, plain sequential code with connection timeouts. Jenkins (for the
tracker), Argo CD, the database, Kubernetes and clients get none: no liveness
property depends on them.

## 5. Findings

* `SuccessHasNumberedTag` (`build_tag`): the build number is read once, when the
  build leaves the queue; if that read fails the tag stays `<branch>-pending`
  for ever, even if the build succeeds.
* `SyncedMeansDeployed` (`deploy_stale`): after the patch, Argo CD's status may
  still be the former release's. The wait accepts Synced and Healthy before it
  looks at the operation's phase; a sync that fails before the next comparison
  ends in "synced and healthy" and a record of a success.
* `NoSilentFallback` (`startup_fallback`): only the release records retry and
  exit; the two other stores fall back to memory after one failed attempt.
* `CandidatesExcludeRunning` (`records_running`): when Argo CD does not answer,
  or answers without an image, the tag compiled into the program is left out in
  place of the running one.

Smaller disagreements met while modelling, of which no run is made:

* `cicd/README.md:135` says that a Harbor that is not configured is warned of;
  `loadImages` (`cicd/main.go:1630`) gives no warning then.
* `cicd/README.md:132` says that the running tag is checked against Harbor; an empty
  list passes the check (`cicd/main.go:1540`), as `InHarbor` says.
* The pod in a request for the detail of an alert is not compared with the
  alert's (`services/cloudops-observe/alerts.go:140`): it only selects metrics
  and logs, so these may be another pod's than the alert's (`Subject`).
* `cicd/README.md:153` says that no silent fallback gives the audit of releases a
  false consistency. With PostgreSQL none does (`RecordsAudited`), but while the
  database is away `loadReleaseRecords` (`cicd/main.go:1200`) answers 200 without
  the stored records, and only the log tells.
* The logs shown with an alert may be those of another namespace or pod whose
  name contains the alert's: `buildLogsQL`
  (`services/cloudops-observe/main.go:194`) sends filters for words.
* `httpGetJSON` (`services/cloudops-aiops/main.go:364`) drops the error of
  `ReadAll`: an answer that breaks off is passed on as a string and a success. A
  list of wasted resources cut off so may lack its warnings, which come last.
* The memory store of release requests overwrites `created_at` of a request that
  is submitted again (`cicd/release_requests.go:63`), PostgreSQL keeps it.
* The branch a build is asked for is passed to the job, but the five pipelines
  check out `main`.

## 6. Proofs

All for every value of the constants, from the assumptions named in the modules
(`IdAssumption`, `ParameterAssumption`, `PipelineAssumption`,
`StartupAssumption`, `RecordsAssumption`, `RequestsAssumption`,
`BatchAssumption`, `ReadsAssumption`). The last two only give the data a shape:
what Jenkins and the other systems hold may be any set of worlds of that shape.

* `BuildTracking_proofs`: `TypeCorrect`; `SlotsAreExact` and `TrackingIsBounded`
  from `SlotInv` (tokens are counted by the set of holders, which an acquire and
  a return change by one element); `VerdictsAreReal` and `NoBuildIsUntracked`
  from `HistoryInv`. The two are not inductive as they stand: a verdict reaches
  a row through the local record, which was filled from an answer of Jenkins, so
  `RecTrue` says of every local record and `RowTrue` of every row what Jenkins
  must have said by then; `NotTriggered` says which goroutines have not posted a
  trigger, and `BuildKnown` that a build named by a record exists. With
  `HistoryInv`, `NeverTriggeredTwice`: Jenkins is asked for an item once, for
  good. `GoroutinesRunOut` bounds the steps a goroutine has left.
* `DeployPipeline_proofs`: all five safety properties. `InTurn` (no build starts
  before the former one has ended) gives `DeploysItsOwnTag`; `AttemptLeft` makes
  the bound on polls inductive; `StageInv` carries what each stage has
  established (`Pushed`, `Reported`, `OperationEnded`) through the later ones.
  `WhatSyncedMeans`, from `OperationInv`, says what a pipeline knows after a wait
  that ended well, and `BuildsRunOut` bounds its steps.
* `StoreStartup_proofs`: with a DSN a serving replica's record store is
  PostgreSQL, so every confirmed record is on disk, which nothing removes, and
  its lists show what is on disk, or nothing while the database is away; the
  other stores lose something only with a replica's memory, and without a crash
  only a replica that never served is restarted. `FallbacksStick` (from
  `OpenedInOrder`: a store has no backend before it is opened) and
  `SingleReplicaKeepsAll` (from `AloneInv`) bound the silent fallback: it lasts
  until a restart, and it takes an outage or a second replica. `StartupRunsOut`
  bounds the steps to serving.
* `ReleaseRecords_proofs`: all six properties of the run, and two more.
  `StoreTrue` says that a row is a
  posted record or a snapshot whose success means its tag was once good (that
  is, Argo CD had nothing to say against it);
  `ReadTrue` and `StayedTrue` carry what a request learned from Argo CD until
  its answer; `ConfirmedTrue` that confirmed records are stored. `BaseKept` and
  `RowStays` say what an upsert can replace. `ListedOnce` (no id twice) and
  `SuccessIsEarnedAlways` (from `EarnedInv`: "succeeded" is only ever said of a
  release that was good) speak of the store, the snapshots and the lists.
* `ReleaseRequests_proofs`: `TypeCorrect`, `DecisionsWhole`, `WritesStand`,
  `PageShows`, and the refinement `RegistryImplemented`. `WritesStand` is not
  inductive: what a decider has read
  may be stale, so the invariant relates each decision in flight to the calls
  that were over when it began, and each row to its last writer. The refinement
  maps a decide's save to `Decide`, a create to `Submit` whether or not its row
  is there, and all other steps to stutters. `RequestsKeepTheirPlace` says of
  either store that the order of its list (`NotOlder`) is never changed, only
  extended at its new end (`OrderIsKept`): in PostgreSQL because the upsert keeps
  `created_at`, which is never ahead of the clock (`CreatedBefore`), in memory
  because it keeps `order` and a new id comes before all others. `PageShows`
  rests on the half of it that speaks of the rows that are there (`PlacesKept`).
* `BuildHistory_proofs`: the refinement `HistoryImplemented`, and
  `TerminalStays`, `HistoryIsComplete`, `NoticesAreTrue`, `NotifyTold`. That a
  row moves only forward is not inductive, since a goroutine saves its local
  record whole: `StoryInv` says that a local record is ahead of the row it names,
  that no two goroutines name one row, and which status a goroutine has at each
  place; a record lost to a failed save names none. `CalmInv` adds what holds
  as long as no store call has failed: the row is saved before the notice is
  sent, and nothing is behind. From it also `CrashesCutShort`: crashes alone
  leave unfinished only the rows of the goroutines they kill. `StrayInv` counts
  the rows without a service against the failed calls (`StraysAreBounded`: two
  for each; one is not enough, as TLC shows) and so the ids that are used up:
  `NobodyIsStuck`. `TagInv` gives `TagsDecidedOnce`.
* `JenkinsBatch_proofs`: `OneBuildEach`, `EveryItemIsAnswered`,
  `FailuresAreTheirOwn`. First, as lemmas about the pure part: the job `Match`
  finds is one of the service (`MatchSound`), it finds none only if there is
  none (`MatchComplete`, which needs that a list has each job once), and a
  parameter that says branch is found if there is one (`BranchIsNamed`). Then
  the invariant: the items before the handler's are done with and the others not
  begun, a saved item has its job and parameter, the builds are those of items
  whose trigger has ended, and the crumb is Jenkins's until Jenkins restarts.
  `StaleCrumbIsForGood` says what happens after that, `BatchRunsOut` bounds the
  steps of the batch. Of the searches, for every list: `MatchFindsTheJob`,
  `OrderIsNoMatter` (while names differ, the job does not depend on the order in
  which Jenkins lists them) and `BranchIsFound`.
* `ReadPaths_proofs`: `ReadyIsTrueAlways`, `WasteIsRealAlways`,
  `DetailIsAskedAlways`. The invariant `Obtained` says that a read returned what
  its system held at some moment of the request, where the read of the logs
  depends on the alert read before; `Order` that no read comes before the one it
  depends on; `Complete` that an answer, whole or cut off, has left out no read it
  needed. The theorems follow from these three: what was read may be from
  different moments, but each part was true at one. `DetailIsAskedAlways` speaks
  of whole and of cut answers, for any relation `WordIn`. `FailuresAreToldAlways`
  lists the reads whose failure a description without a warning may hide.

What a run refutes is proved as far as it is true:

| refuted by a run | proved |
|---|---|
| `NoSilentFallback` | `SingleReplicaKeepsAll`: not with one replica and no outage; `FallbacksStick`: until the restart |
| `SyncedMeansDeployed` | `WhatSyncedMeans`: true after a sync that succeeded, when all earlier builds were successes |
| `SuccessHasNumberedTag` | `TagsDecidedOnce`: a tag left pending when the build was seen to run stays so |
| `CandidatesExcludeRunning` | `RunningExcluded`: true when Argo CD answered with the running image and the release ran all through the request |

Only model-checked: liveness (`EveryGoroutineEnds`, `EveryRecordEnds`,
`EveryBuildEnds`, `StartupEnds`), which rests on fairness and is out of the
prover's reach. Liveness of the tracker is checked with a crash but without
failing store calls: with them its state graph is too large for the check of
temporal properties. The half that needs no fairness is proved for all values of
the constants, failing calls included: a measure that each own step lowers and no
other step raises (a restart of a replica apart, which begins its startup anew).
So an item of the tracker has at most `2 * MaxPolls + 14` steps
(`GoroutinesRunOut`), a start of a replica `Attempts + 2` (`StartupRunsOut`), a
pipeline's build `MaxAttempts + 7` (`BuildsRunOut`) and a batch five for each item
(`BatchRunsOut`). `NobodyIsStuck` adds that a goroutine of the tracker always has
a next step. Since `ENABLED` is out of reach too, that is said with `CanStep`, the
guard of `Goroutine` written out; TLC finds that it agrees with
`ENABLED Goroutine(j)` in all reachable states with the constants of
`build_faults`.

## 7. Not modelled

`PROJECT.json` lists every component with its status and every hazard with the
properties that cover it or the reason none does. Left out for good: tracing,
container builds and the empty placeholders; the gateway, which answers from
constants; in observe the list of alerts and the log search, one read each that
is passed on after a validation of characters; in aiops the search in
compiled-in documents, the suggestions and the drafts, which are text without
state; in cicd the stage of a canary and the request rates shown beside it,
which no check depends on; in the console the panels that show one answer each.
Left out so far: the order of lists (plan, 8).
