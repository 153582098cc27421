---------------------------- MODULE ReleaseRecords ----------------------------
(***************************************************************************)
(* Release records of one application in cloudops-cicd: a pipeline posts   *)
(* the record of a release, a client asks for a snapshot, for the records  *)
(* or for the rollback candidates.  A request reads the application from   *)
(* Argo CD (or falls back to the table compiled into the program), then    *)
(* Harbor, Prometheus and the Rollout, then the store; the world changes   *)
(* between these steps, and each of them may fail.                         *)
(*                                                                         *)
(* Not modelled: the order of lists (sortReleaseRecords), and posted       *)
(* records with an id or a status other than those the Jenkinsfiles send.  *)
(***************************************************************************)
EXTENDS Naturals, Sequences, FiniteSets

CONSTANTS
  Tag,        \* image tags
  StaticTag,  \* CurrentTag in the compiled-in table of applications
  Summaries,  \* the compiled-in table of releases: StaticTag or nothing
  Request,    \* requests for snapshots, records and candidates
  PageSize,   \* tags asked of Harbor: 20 in the code
  MaxTime,    \* bound: seconds that pass
  MaxChanges  \* bound: changes of what runs

ASSUME RecordsAssumption ==
  /\ StaticTag \in Tag
  /\ Summaries \subseteq {StaticTag}
  /\ PageSize \in Nat \ {0} /\ MaxTime \in Nat \ {0}
  /\ MaxChanges \in Nat

VARIABLES
  now,       \* the clock, in seconds
  pushed,    \* tags in Harbor, the newest first
  running,   \* the tag Argo CD finds in the cluster
  verdict,   \* what Argo CD says of its sync and health, if it says anything
  changes,   \* changes of the two so far
  store,     \* recordStore
  pc,        \* what a request does next
  kind,      \* what it asks for
  app,       \* the AppSummary it has read
  ready,     \* Ready of its ReleaseDetail
  stamp,     \* GeneratedAt of its ReleaseDetail
  answer,    \* the records it has answered with
  listed,    \* the store answered its ListByApp
  confirmed, \* history: tags whose posted record was confirmed
  before,    \* history: confirmed, when a request began
  stayed,    \* history: the tags that ran all through a request
  told,      \* history: requests to which Argo CD has named the image
  good       \* history: tags against which Argo CD once had nothing to say

world == <<now, pushed, running, verdict, changes>>
requests == <<pc, kind, app, ready, stamp, answer, listed>>
vars == <<world, store, requests, confirmed, before, stayed, told, good>>

Time == 1 .. MaxTime

\* Sync "Synced" and Health "Healthy", or not, or an answer with neither field.
Verdict == {"good", "bad", "none"}

\* An AppSummary: the compiled-in one has Sync "Synced" and Health "Healthy".
AppSummary == [tag : Tag, healthy : BOOLEAN]
StaticApp == [tag |-> StaticTag, healthy |-> TRUE]

\* appFromArgo: what the answer leaves out stays as it is compiled in.
AppFromArgo(named) ==
  [tag |-> IF named THEN running ELSE StaticApp.tag,
   healthy |-> verdict = "good" \/ (verdict = "none" /\ StaticApp.healthy)]

RecordID(tag) == <<tag, 0>>

\* Mutant: no suffix.
BaseID(tag, at) == <<tag, 0>>

\* releaseRecordSnapshotID: the suffix keeps the seconds of the timestamp.
SnapshotID(tag, at) == <<tag, at>>

ReleaseRecord ==
  [id     : Tag \X (0 .. MaxTime),
   status : {"succeeded", "failed"},
   source : {"jenkins", "snapshot", "live", "static"}]

\* Mutant: "unknown" for what is not ready.
UnknownStatus(id, isReady, source) ==
  [id |-> id, status |-> IF isReady THEN "succeeded" ELSE "unknown", source |-> source]

\* releaseRecordStatus.
Record(id, isReady, source) ==
  [id |-> id, status |-> IF isReady THEN "succeeded" ELSE "failed", source |-> source]

Init ==
  /\ now = 1
  /\ pushed = <<StaticTag>>
  /\ running = StaticTag
  /\ verdict \in Verdict
  /\ changes = 0
  /\ store = {}
  /\ pc = [r \in Request |-> "start"]
  /\ kind = [r \in Request |-> "none"]
  /\ app = [r \in Request |-> StaticApp]
  /\ ready = [r \in Request |-> FALSE]
  /\ stamp = [r \in Request |-> 1]
  /\ answer = [r \in Request |-> {}]
  /\ listed = [r \in Request |-> FALSE]
  /\ confirmed = {}
  /\ before = [r \in Request |-> {}]
  /\ stayed = [r \in Request |-> {}]
  /\ told = {}
  /\ good = IF verdict = "bad" THEN {} ELSE {StaticTag}

----------------------------------------------------------------------------
(***************************************************************************)
(* The store.                                                              *)
(***************************************************************************)
\* Mutant: the conflict is on the tag.
SaveByTag(record) == {r \in store : r.id[1] # record.id[1]} \cup {record}

\* An upsert by id.
Save(record) == {r \in store : r.id # record.id} \cup {record}

\* A pipeline posts the record of a tag it has pushed: normalizeReleaseRecord
\* gives it its id.  The answer may be lost.
Post(tag) ==
  /\ tag \in {pushed[i] : i \in DOMAIN pushed}
  /\ store' = Save(Record(RecordID(tag), TRUE, "jenkins"))
  /\ confirmed' \in {confirmed, confirmed \cup {tag}}
  /\ UNCHANGED <<world, requests, before, stayed, told, good>>

----------------------------------------------------------------------------
(***************************************************************************)
(* A request.                                                              *)
(***************************************************************************)
Begin(r, k) ==
  /\ pc[r] = "start"
  /\ pc' = [pc EXCEPT ![r] = "app"]
  /\ kind' = [kind EXCEPT ![r] = k]
  /\ before' = [before EXCEPT ![r] = IF k = "snapshot" THEN {} ELSE confirmed]
  /\ stayed' = [stayed EXCEPT ![r] = IF k = "snapshot" THEN {} ELSE {running}]
  /\ UNCHANGED <<world, store, app, ready, stamp, answer, listed, confirmed,
                 told, good>>

\* loadApps: one answer of Argo CD, which may list no image, or the compiled-in
\* entry when there is none (appDetailHandler drops the warning).
ReadApp(r) ==
  /\ pc[r] = "app"
  /\ pc' = [pc EXCEPT ![r] = "detail"]
  /\ \/ app' = [app EXCEPT ![r] = StaticApp] /\ told' = told
     \/ \E named \in BOOLEAN :
          /\ app' = [app EXCEPT ![r] = AppFromArgo(named)]
          /\ told' = IF named THEN told \cup {r} ELSE told
  /\ UNCHANGED <<world, store, kind, ready, stamp, answer, listed, confirmed,
                 before, stayed, good>>

\* loadImages: the newest tags, or the compiled-in releases, or the tag itself.
Page == {pushed[i] : i \in 1 .. IF Len(pushed) < PageSize THEN Len(pushed) ELSE PageSize}
StaticImages(a) == IF Summaries = {} THEN {a.tag} ELSE Summaries

\* buildReleaseChecks: no check fails.  Prometheus and the Rollout may object.
ChecksPass(a, images, objection) ==
  /\ a.healthy
  /\ images # {} => a.tag \in images
  /\ ~objection

ReadDetail(r) ==
  /\ pc[r] = "detail"
  /\ pc' = [pc EXCEPT ![r] = IF kind[r] = "snapshot" THEN "save" ELSE "list"]
  /\ \E images \in {Page, StaticImages(app[r])}, objection \in BOOLEAN :
       ready' = [ready EXCEPT ![r] = ChecksPass(app[r], images, objection)]
  /\ stamp' = [stamp EXCEPT ![r] = now]
  /\ UNCHANGED <<world, store, kind, app, answer, listed, confirmed, before,
                 stayed, told, good>>

\* buildReleaseSnapshot.
Snapshot(r) == Record(SnapshotID(app[r].tag, stamp[r]), ready[r], "snapshot")

\* The request is over, and its local variables with it.
End(r, result) ==
  /\ pc' = [pc EXCEPT ![r] = result]
  /\ ready' = [ready EXCEPT ![r] = FALSE]
  /\ stamp' = [stamp EXCEPT ![r] = 1]

SaveSnapshot(r) ==
  /\ pc[r] = "save"
  /\ End(r, "done")
  /\ store' = Save(Snapshot(r))
  /\ answer' = [answer EXCEPT ![r] = {Snapshot(r)}]
  /\ UNCHANGED <<world, kind, app, listed, confirmed, before, stayed, told, good>>

\* An error, though the row may have been written.
SaveFails(r) ==
  /\ pc[r] = "save"
  /\ End(r, "refused")
  /\ store' \in {store, Save(Snapshot(r))}
  /\ UNCHANGED <<world, kind, app, answer, listed, confirmed, before, stayed,
                 told, good>>

\* buildReleaseRecords: the live record and the compiled-in releases.
Built(r) ==
  {Record(RecordID(app[r].tag), ready[r], "live")} \cup
  {Record(RecordID(tag), TRUE, "static") : tag \in Summaries \ {app[r].tag}}

\* Mutant: the live record replaces the stored one.
BuiltFirst(r, stored) ==
  {s \in stored : \A b \in Built(r) : b.id # s.id} \cup Built(r)

\* loadReleaseRecords: a stored record replaces a built one with its id.
LoadRecords(r, stored) ==
  {b \in Built(r) : \A s \in stored : s.id # b.id} \cup stored

\* Mutants of the filter: two of its tests are missing.
AnyStatus(r, records) == {x \in records : x.id[1] # app[r].tag}
AnyTag(r, records) == {x \in records : x.status = "succeeded"}

\* rollbackCandidates (Verification.Ready is true exactly with "succeeded").
RollbackCandidates(r, records) ==
  {x \in records : x.id[1] # app[r].tag /\ x.status = "succeeded"}

\* The error of ListByApp is only logged.
List(r) ==
  /\ pc[r] = "list"
  /\ End(r, "done")
  /\ \E ok \in BOOLEAN :
       LET records == LoadRecords(r, IF ok THEN store ELSE {}) IN
       /\ listed' = [listed EXCEPT ![r] = ok]
       /\ answer' = [answer EXCEPT ![r] =
            IF kind[r] = "records" THEN records ELSE RollbackCandidates(r, records)]
  /\ UNCHANGED <<world, store, kind, app, confirmed, before, stayed, told, good>>

----------------------------------------------------------------------------
(***************************************************************************)
(* The world.                                                              *)
(***************************************************************************)
Push(tag) ==
  /\ tag \notin {pushed[i] : i \in DOMAIN pushed}
  /\ pushed' = <<tag>> \o pushed
  /\ UNCHANGED <<now, running, verdict, changes, store, requests, confirmed,
                 before, stayed, told, good>>

\* A release, a rollback, or a change of what Argo CD says of the tag.
Change(tag) ==
  /\ tag \in {pushed[i] : i \in DOMAIN pushed}
  /\ changes < MaxChanges /\ changes' = changes + 1
  /\ running' = tag
  /\ verdict' \in Verdict
  /\ stayed' = [r \in Request |->
       IF pc[r] \in {"done", "refused"} THEN stayed[r] ELSE stayed[r] \cap {tag}]
  /\ good' = IF verdict' = "bad" THEN good ELSE good \cup {tag}
  /\ UNCHANGED <<now, pushed, store, requests, confirmed, before, told>>

Tick ==
  /\ now < MaxTime /\ now' = now + 1
  /\ UNCHANGED <<pushed, running, verdict, changes, store, requests, confirmed,
                 before, stayed, told, good>>

Next ==
  \/ \E tag \in Tag : Post(tag) \/ Push(tag) \/ Change(tag)
  \/ \E r \in Request :
       \/ \E k \in {"snapshot", "records", "candidates"} : Begin(r, k)
       \/ ReadApp(r) \/ ReadDetail(r) \/ SaveSnapshot(r) \/ SaveFails(r) \/ List(r)
  \/ Tick

Spec == Init /\ [][Next]_vars

----------------------------------------------------------------------------
(***************************************************************************)
(* Properties.                                                             *)
(***************************************************************************)
\* Type invariant.
TypeOK ==
  /\ now \in Time
  /\ pushed \in Seq(Tag)
  /\ running \in Tag
  /\ verdict \in Verdict
  /\ changes \in 0 .. MaxChanges
  /\ store \subseteq ReleaseRecord
  /\ pc \in [Request -> {"start", "app", "detail", "save", "list", "done", "refused"}]
  /\ kind \in [Request -> {"none", "snapshot", "records", "candidates"}]
  /\ app \in [Request -> AppSummary]
  /\ ready \in [Request -> BOOLEAN]
  /\ stamp \in [Request -> Time]
  /\ answer \in [Request -> SUBSET ReleaseRecord]
  /\ listed \in [Request -> BOOLEAN]
  /\ confirmed \subseteq Tag
  /\ before \in [Request -> SUBSET Tag]
  /\ stayed \in [Request -> SUBSET Tag]
  /\ told \subseteq Request
  /\ good \subseteq Tag

Answered(r, k) == pc[r] = "done" /\ kind[r] = k
Tags(records) == {x.id[1] : x \in records}

\* If Argo CD answered with the running image, a rollback candidate is not the
\* release that ran all through the request, whatever was deployed and recorded
\* meanwhile.  (Without an answer, or with one that lists no image, the
\* compiled-in tag is left out instead: CandidatesExcludeRunning.)
CandidatesNotRunning ==
  \A r \in Request : Answered(r, "candidates") /\ r \in told =>
    Tags(answer[r]) \cap stayed[r] = {}

\* A candidate is a tag against which Argo CD once had nothing to say (Synced
\* and Healthy, or not saying), or one a pipeline has reported, or the
\* compiled-in one: never a release that is only known to have failed.
CandidatesWereReady ==
  \A r \in Request : Answered(r, "candidates") =>
    \A tag \in Tags(answer[r]) :
      tag \in good \cup {StaticTag} \/ Record(RecordID(tag), TRUE, "jenkins") \in store

\* A record confirmed before a request began is in its answer as it was
\* posted, not hidden by the live view of the same release; among candidates
\* it may be missing only as the running one.  (If the store answered: its
\* error is logged and the answer is given without the stored records.)
ConfirmedRecordsListed ==
  \A r \in Request : listed[r] =>
    \A tag \in before[r] :
      \/ Record(RecordID(tag), TRUE, "jenkins") \in answer[r]
      \/ kind[r] = "candidates" /\ tag = app[r].tag

\* "A snapshot does not overwrite the base record of the same imageTag" (said in
\* Chinese in services/cloudops-cicd/README.md:157): a posted record stays as it
\* was posted.
BaseRecordsKept ==
  [][\A x \in store : x.source = "jenkins" => x \in store']_vars

\* A snapshot confirmed to its client stays in the store; only one of the same
\* tag and second can take its row.
SnapshotsKept ==
  \A r \in Request : Answered(r, "snapshot") =>
    \A x \in answer[r] : \E y \in store : y.id = x.id /\ y.source = x.source

\* "... and leaves out the running tag" (said in Chinese of rollback candidates
\* in services/cloudops-cicd/README.md:155).
CandidatesExcludeRunning ==
  \A r \in Request : Answered(r, "candidates") => Tags(answer[r]) \cap stayed[r] = {}
=============================================================================
