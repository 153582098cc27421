---------------------------- MODULE BuildTracking ----------------------------
(***************************************************************************)
(* Build triggering and tracking in cloudops-cicd (builds.go,              *)
(* build_store.go, jenkins.go).  POST /api/v1/cicd/builds saves a record   *)
(* and starts one goroutine, runBuildJob, per accepted item.  A goroutine  *)
(* waits for a token of the channel buildSem, triggers Jenkins, polls the  *)
(* queue item and then the build, and saves the record after every phase.  *)
(*                                                                         *)
(* Interleaved here: the goroutines, the Jenkins server, failing store     *)
(* calls (PostgreSQL only) and crashes of the service.  Every store call   *)
(* and every HTTP call is a step of its own; local assignments belong to   *)
(* the step before the call that follows them.                             *)
(*                                                                         *)
(* A Job that is "idle" is an item nobody has asked for yet.               *)
(***************************************************************************)
EXTENDS BuildRecords, Naturals, FiniteSets

CONSTANTS
  MaxConcurrent,  \* JENKINS_MAX_CONCURRENT, at least 1: capacity of buildSem
  MaxPolls,       \* polls that fit in a wait's timeout
  Durable,        \* TRUE: postgresBuildStore; FALSE: memoryBuildStore
  MaxFaults,      \* bound: store calls that fail
  MaxCrashes      \* bound: crashes of the service

ASSUME ParameterAssumption ==
  /\ IsFiniteSet(Job)
  /\ MaxConcurrent \in Nat \ {0}
  /\ MaxPolls \in Nat
  /\ Durable \in BOOLEAN
  /\ MaxFaults \in Nat
  /\ MaxCrashes \in Nat

VARIABLES
  pc,       \* where the goroutine of each job stands
  slots,    \* tokens in buildSem: len(buildSem)
  rec,      \* runBuildJob's local variable rec
  polls,    \* polls made in the current wait
  notify,   \* the argument notify
  rows,     \* buildStore: its ids and their records
  jenkins,  \* the Jenkins server: queue item or build of each job's trigger
  notices,  \* webhook messages delivered
  faults,   \* store calls that have failed
  crashes   \* crashes so far

vars == <<pc, slots, rec, polls, notify, rows, jenkins, notices, faults, crashes>>

\* Where a goroutine can stand while it holds a token of buildSem.
Tracking == {"load", "saveTriggering", "trigger", "answer", "saveQueued",
             "pollQueue", "readNumber", "saveRunning", "pollBuild",
             "saveFailed", "saveFinal", "webhook", "saveNotified"}
Place == {"idle", "refused", "waiting", "done", "lost"} \cup Tracking

Holders == {j \in Job : pc[j] \in Tracking}

Init ==
  /\ pc = [j \in Job |-> "idle"]
  /\ slots = 0
  /\ rec = [j \in Job |-> BlankRecord]
  /\ polls = [j \in Job |-> 0]
  /\ notify \in [Job -> BOOLEAN]
  /\ rows = [i \in {} |-> BlankRecord]
  /\ jenkins = [j \in Job |-> "none"]
  /\ notices = {}
  /\ faults = 0
  /\ crashes = 0

Goto(j, from, to) == pc[j] = from /\ pc' = [pc EXCEPT ![j] = to]

----------------------------------------------------------------------------
(***************************************************************************)
(* The store.  Save inserts the record or overwrites the row with its id;  *)
(* a record without an ID gets a fresh UUID.  A PostgreSQL call can fail,  *)
(* and the statement may have been committed all the same; the caller then *)
(* gets BuildRecord{} and an error.                                        *)
(***************************************************************************)
Put(i, r) == [k \in DOMAIN rows \cup {i} |->
                IF k = i THEN [r EXCEPT !.id = i] ELSE rows[k]]

SaveIds(r) == IF r.id # None THEN {r.id} ELSE SpareId \ DOMAIN rows

StoreFails == Durable /\ faults < MaxFaults /\ faults' = faults + 1

\* Mutant: a failed Save returns a record that is blank but for its ID.
SaveAndKeepId(j, r) == \E i \in SaveIds(r) :
  \/ /\ rows' = Put(i, r)
     /\ rec' = [rec EXCEPT ![j] = [r EXCEPT !.id = i]]
     /\ UNCHANGED faults
  \/ /\ StoreFails
     /\ rows' \in {rows, Put(i, r)}
     /\ rec' = [rec EXCEPT ![j] = [BlankRecord EXCEPT !.id = r.id]]

\* "rec, _ = buildStore.Save(ctx, rec)": an error leaves a blank record.
SaveAndKeep(j, r) == \E i \in SaveIds(r) :
  \/ /\ rows' = Put(i, r)
     /\ rec' = [rec EXCEPT ![j] = [r EXCEPT !.id = i]]
     /\ UNCHANGED faults
  \/ /\ StoreFails
     /\ rows' \in {rows, Put(i, r)}
     /\ rec' = [rec EXCEPT ![j] = BlankRecord]

\* "_, _ = buildStore.Save(ctx, rec)": the local record stays as it is.
SaveAndDrop(r) == \E i \in SaveIds(r) :
  \/ rows' = Put(i, r) /\ UNCHANGED faults
  \/ StoreFails /\ rows' \in {rows, Put(i, r)}

----------------------------------------------------------------------------
(***************************************************************************)
(* triggerBuildsHandler, for one item of the request.                      *)
(***************************************************************************)
\* The record is saved and "go runBuildJob" is called.
AcceptItem(j) ==
  /\ Goto(j, "idle", "waiting")
  /\ rows' = Put(j, FirstRecord(j))
  /\ UNCHANGED <<slots, rec, polls, notify, jenkins, notices, faults, crashes>>

\* Jenkins cannot be asked, has no job that matches, or has more than one.
RefuseItem(j) ==
  /\ Goto(j, "idle", "refused")
  /\ UNCHANGED <<slots, rec, polls, notify, rows, jenkins, notices, faults, crashes>>

\* Save fails (r.Context() of a client that went away, or the database): no
\* goroutine, but the row may have been committed.
LoseItem(j) ==
  /\ Goto(j, "idle", "refused")
  /\ StoreFails
  /\ rows' \in {rows, Put(j, FirstRecord(j))}
  /\ UNCHANGED <<slots, rec, polls, notify, jenkins, notices, crashes>>

----------------------------------------------------------------------------
(***************************************************************************)
(* runBuildJob.                                                            *)
(***************************************************************************)
\* Mutant: buildSem is made with room for one token more.
AcquireSlotPlusOne(j) ==
  /\ Goto(j, "waiting", "load")
  /\ slots <= MaxConcurrent
  /\ slots' = slots + 1
  /\ UNCHANGED <<rec, polls, notify, rows, jenkins, notices, faults, crashes>>

AcquireSlot(j) ==
  /\ Goto(j, "waiting", "load")
  /\ slots < MaxConcurrent
  /\ slots' = slots + 1
  /\ UNCHANGED <<rec, polls, notify, rows, jenkins, notices, faults, crashes>>

\* Mutant: the token is given back by hand and by the deferred call.
ReturnTwice(j) ==
  /\ pc' = [pc EXCEPT ![j] = "done"]
  /\ slots' = slots - 2

\* A return, with the deferred receive from buildSem.
Return(j) ==
  /\ pc' = [pc EXCEPT ![j] = "done"]
  /\ slots' = slots - 1

LoadRecord(j) ==
  /\ Goto(j, "load", "saveTriggering")
  /\ j \in DOMAIN rows
  /\ rec' = [rec EXCEPT ![j] = [rows[j] EXCEPT !.status = "triggering"]]
  /\ UNCHANGED <<slots, polls, notify, rows, jenkins, notices, faults, crashes>>

\* Mutant: the early return comes before the deferred release is set up.
LoadFailsLeaking(j) ==
  /\ Goto(j, "load", "done")
  /\ StoreFails
  /\ UNCHANGED <<slots, rec, polls, notify, rows, jenkins, notices, crashes>>

\* Get fails: the goroutine gives up without a word in the history.
LoadFails(j) ==
  /\ pc[j] = "load"
  /\ StoreFails
  /\ Return(j)
  /\ UNCHANGED <<rec, polls, notify, rows, jenkins, notices, crashes>>

SaveTriggering(j) ==
  /\ Goto(j, "saveTriggering", "trigger")
  /\ SaveAndKeep(j, rec[j])
  /\ UNCHANGED <<slots, polls, notify, jenkins, notices, crashes>>

\* The POST reaches Jenkins, which creates a queue item or refuses.
PostTrigger(j) ==
  /\ Goto(j, "trigger", "answer")
  /\ \/ jenkins' = [jenkins EXCEPT ![j] = "queued"]
     \/ UNCHANGED jenkins
  /\ UNCHANGED <<slots, rec, polls, notify, rows, notices, faults, crashes>>

\* Mutant: the queue URL is not put into the record.
TriggerAcceptedNoURL(j) ==
  /\ Goto(j, "answer", "saveQueued")
  /\ jenkins[j] # "none"
  /\ rec' = [rec EXCEPT ![j].status = "queued"]
  /\ UNCHANGED <<slots, polls, notify, rows, jenkins, notices, faults, crashes>>

TriggerAccepted(j) ==
  /\ Goto(j, "answer", "saveQueued")
  /\ jenkins[j] # "none"
  /\ rec' = [rec EXCEPT ![j].queue = j, ![j].status = "queued"]
  /\ UNCHANGED <<slots, polls, notify, rows, jenkins, notices, faults, crashes>>

\* The local part of every "err != nil" branch of runBuildJob.
GiveUp(j, from) ==
  /\ Goto(j, from, "saveFailed")
  /\ rec' = [rec EXCEPT ![j].status = "FAILED"]
  /\ UNCHANGED <<slots, polls, notify, rows, jenkins, notices, faults, crashes>>

\* An HTTP error, a refusal, or an answer that was lost or has no Location.
TriggerFails(j) == GiveUp(j, "answer")

SaveQueued(j) ==
  /\ Goto(j, "saveQueued", "pollQueue")
  /\ SaveAndKeep(j, rec[j])
  /\ polls' = [polls EXCEPT ![j] = 0]
  /\ UNCHANGED <<slots, notify, jenkins, notices, crashes>>

\* Mutant: the deadline is computed inside the loop, anew at every turn.
PollForever(j, at) ==
  /\ pc[j] = at
  /\ polls' = [polls EXCEPT ![j] = (@ + 1) % (MaxPolls + 1)]
  /\ UNCHANGED <<pc, slots, rec, notify, rows, jenkins, notices, faults, crashes>>

\* One more turn of a polling loop, before its deadline.
PollAgain(j, at) ==
  /\ pc[j] = at
  /\ polls[j] < MaxPolls
  /\ polls' = [polls EXCEPT ![j] = @ + 1]
  /\ UNCHANGED <<pc, slots, rec, notify, rows, jenkins, notices, faults, crashes>>

QueueStillWaits(j) == jenkins[j] = "queued" /\ PollAgain(j, "pollQueue")

\* payload.Executable is set: the item has left the queue for a build.
QueueLeft(j) ==
  /\ Goto(j, "pollQueue", "readNumber")
  /\ jenkins[j] \notin {"none", "queued", "cancelled"}
  /\ rec' = [rec EXCEPT ![j].build = j, ![j].status = "RUNNING"]
  /\ UNCHANGED <<slots, polls, notify, rows, jenkins, notices, faults, crashes>>

\* Mutant: the error of WaitQueue returns without a Save.
QueueFailsSilently(j) ==
  /\ pc[j] = "pollQueue"
  /\ Return(j)
  /\ UNCHANGED <<rec, polls, notify, rows, jenkins, notices, faults, crashes>>

\* Cancelled, an HTTP error, or the deadline: which comes with any poll, for
\* HTTP calls can be slow, and in any case with poll MaxPolls + 1.
QueueFails(j) == GiveUp(j, "pollQueue")

Numbered(r) ==
  [r EXCEPT !.number = TRUE,
            !.tag = IF r.tag = "pending" THEN "numbered" ELSE r.tag]

\* GetBuild, once, for the number; an error is ignored.
ReadNumber(j) ==
  /\ Goto(j, "readNumber", "saveRunning")
  /\ rec' \in {rec, [rec EXCEPT ![j] = Numbered(rec[j])]}
  /\ UNCHANGED <<slots, polls, notify, rows, jenkins, notices, faults, crashes>>

SaveRunning(j) ==
  /\ Goto(j, "saveRunning", "pollBuild")
  /\ SaveAndKeep(j, rec[j])
  /\ polls' = [polls EXCEPT ![j] = 0]
  /\ UNCHANGED <<slots, notify, jenkins, notices, crashes>>

BuildStillRuns(j) == jenkins[j] = "running" /\ PollAgain(j, "pollBuild")

\* Mutant: a build that stopped without a result counts as a success.
BuildEndedOptimistic(j) ==
  /\ Goto(j, "pollBuild", "saveFinal")
  /\ jenkins[j] \in Verdict
  /\ rec' = [rec EXCEPT ![j].number = TRUE,
       ![j].status = IF jenkins[j] = "UNKNOWN" THEN "SUCCESS" ELSE jenkins[j]]
  /\ UNCHANGED <<slots, polls, notify, rows, jenkins, notices, faults, crashes>>

BuildEnded(j) ==
  /\ Goto(j, "pollBuild", "saveFinal")
  /\ jenkins[j] \in Verdict
  /\ rec' = [rec EXCEPT ![j].number = TRUE, ![j].status = jenkins[j]]
  /\ UNCHANGED <<slots, polls, notify, rows, jenkins, notices, faults, crashes>>

BuildFails(j) == GiveUp(j, "pollBuild")

\* Mutant: only the path that notifies gives the token back.
NotifyOrLeak(j) ==
  /\ pc' = [pc EXCEPT ![j] = IF notify[j] THEN "webhook" ELSE "done"]
  /\ UNCHANGED slots

\* What follows the last Save: maybeNotify, or the return.
NotifyOrReturn(j) ==
  IF notify[j] THEN pc' = [pc EXCEPT ![j] = "webhook"] /\ UNCHANGED slots
               ELSE Return(j)

SaveFailed(j) ==
  /\ pc[j] = "saveFailed"
  /\ SaveAndDrop(rec[j])
  /\ NotifyOrReturn(j)
  /\ UNCHANGED <<rec, polls, notify, jenkins, notices, crashes>>

\* Mutant: the notification goes out before the final Save.
SaveFinalTooLate(j) ==
  /\ pc[j] = "saveFinal"
  /\ NotifyOrReturn(j)
  /\ UNCHANGED <<rec, rows, polls, notify, jenkins, notices, faults, crashes>>

SaveFinal(j) ==
  /\ pc[j] = "saveFinal"
  /\ SaveAndKeep(j, rec[j])
  /\ NotifyOrReturn(j)
  /\ UNCHANGED <<polls, notify, jenkins, notices, crashes>>

\* What renderNotifyMessage tells of a record.
Notice(j) == [job |-> j, owner |-> rec[j].owner, status |-> rec[j].status]

\* sendWebhookMessage succeeds.
WebhookSent(j) ==
  /\ Goto(j, "webhook", "saveNotified")
  /\ notices' = notices \cup {Notice(j)}
  /\ rec' = [rec EXCEPT ![j].notifySent = TRUE]
  /\ UNCHANGED <<slots, polls, notify, rows, jenkins, faults, crashes>>

\* Mutant: NotifySent is set although the message was not delivered.
WebhookErrorIgnored(j) ==
  /\ Goto(j, "webhook", "saveNotified")
  /\ rec' = [rec EXCEPT ![j].notifySent = TRUE]
  /\ UNCHANGED <<slots, polls, notify, rows, jenkins, notices, faults, crashes>>

\* No webhook is configured, or a call fails, the last one perhaps after the
\* message was delivered.
WebhookNotSent(j) ==
  /\ pc[j] = "webhook"
  /\ notices' \in {notices, notices \cup {Notice(j)}}
  /\ Return(j)
  /\ UNCHANGED <<rec, polls, notify, rows, jenkins, faults, crashes>>

\* Mutant: maybeNotify saves a copy taken before the final status.
SaveNotifiedStale(j) ==
  /\ pc[j] = "saveNotified"
  /\ SaveAndDrop([rec[j] EXCEPT !.status = "RUNNING"])
  /\ Return(j)
  /\ UNCHANGED <<rec, polls, notify, jenkins, notices, crashes>>

SaveNotified(j) ==
  /\ pc[j] = "saveNotified"
  /\ SaveAndDrop(rec[j])
  /\ Return(j)
  /\ UNCHANGED <<rec, polls, notify, jenkins, notices, crashes>>

----------------------------------------------------------------------------
(***************************************************************************)
(* The environment: Jenkins moves on its own, and the service crashes.     *)
(* Nothing resumes a goroutine after a restart; buildSem starts empty.     *)
(***************************************************************************)
BuildStarts(j) ==
  /\ jenkins[j] = "queued"
  /\ jenkins' = [jenkins EXCEPT ![j] = "running"]
  /\ UNCHANGED <<pc, slots, rec, polls, notify, rows, notices, faults, crashes>>

ItemCancelled(j) ==
  /\ jenkins[j] = "queued"
  /\ jenkins' = [jenkins EXCEPT ![j] = "cancelled"]
  /\ UNCHANGED <<pc, slots, rec, polls, notify, rows, notices, faults, crashes>>

BuildFinishes(j) ==
  /\ jenkins[j] = "running"
  /\ \E v \in Verdict : jenkins' = [jenkins EXCEPT ![j] = v]
  /\ UNCHANGED <<pc, slots, rec, polls, notify, rows, notices, faults, crashes>>

Crash ==
  /\ crashes < MaxCrashes
  /\ crashes' = crashes + 1
  /\ pc' = [j \in Job |-> IF pc[j] \in Tracking \cup {"waiting"}
                            THEN "lost" ELSE pc[j]]
  /\ slots' = 0
  /\ rec' = [j \in Job |-> BlankRecord]
  /\ rows' = IF Durable THEN rows ELSE [i \in {} |-> BlankRecord]
  /\ UNCHANGED <<polls, notify, jenkins, notices, faults>>

----------------------------------------------------------------------------
Request(j) == AcceptItem(j) \/ RefuseItem(j) \/ LoseItem(j)

Goroutine(j) ==
  \/ AcquireSlot(j) \/ LoadRecord(j) \/ LoadFails(j) \/ SaveTriggering(j)
  \/ PostTrigger(j) \/ TriggerAccepted(j) \/ TriggerFails(j) \/ SaveQueued(j)
  \/ QueueStillWaits(j) \/ QueueLeft(j) \/ QueueFails(j)
  \/ ReadNumber(j) \/ SaveRunning(j)
  \/ BuildStillRuns(j) \/ BuildEnded(j) \/ BuildFails(j)
  \/ SaveFailed(j) \/ SaveFinal(j)
  \/ WebhookSent(j) \/ WebhookNotSent(j) \/ SaveNotified(j)

Server(j) == BuildStarts(j) \/ ItemCancelled(j) \/ BuildFinishes(j)

Next == Crash \/ \E j \in Job : Request(j) \/ Goroutine(j) \/ Server(j)

Spec == Init /\ [][Next]_vars

(***************************************************************************)
(* Every call a goroutine makes returns (the Jenkins and webhook clients   *)
(* have timeouts; a store call is assumed to), so a goroutine that can     *)
(* step does.  Nothing is asked of Jenkins or of the clients.              *)
(***************************************************************************)
FairSpec == Spec /\ \A j \in Job : WF_vars(Goroutine(j))

----------------------------------------------------------------------------
(***************************************************************************)
(* Properties.                                                             *)
(***************************************************************************)
JenkinsState == {"none", "queued", "cancelled", "running"} \cup Verdict
NoticeSet == [job : Job, owner : Job \cup {None}, status : Status]

\* Type invariant; row i carries the id i.
TypeOK ==
  /\ pc \in [Job -> Place]
  /\ slots \in 0 .. MaxConcurrent
  /\ rec \in [Job -> Record]
  /\ polls \in [Job -> 0 .. MaxPolls]
  /\ notify \in [Job -> BOOLEAN]
  /\ DOMAIN rows \subseteq Id
  /\ \A i \in DOMAIN rows : rows[i] \in Record /\ rows[i].id = i
  /\ jenkins \in [Job -> JenkinsState]
  /\ notices \subseteq NoticeSet
  /\ faults \in 0 .. MaxFaults
  /\ crashes \in 0 .. MaxCrashes

\* buildSem holds exactly one token per goroutine that is tracking a build:
\* no return path of runBuildJob leaks one (which would in the end stop every
\* build) or gives back one too many.
SlotsExact == slots = Cardinality(Holders)

\* JENKINS_MAX_CONCURRENT bounds the builds tracked at one time (the variable's
\* line in services/cloudops-cicd/README.md).
AtMostMaxTracked == Cardinality(Holders) <= MaxConcurrent

\* A row that carries a Jenkins verdict tells the truth: a build of some job
\* ended with it, the row's own job if the row has that job's id.  It holds
\* through failing saves, blank records, timeouts and crashes.
VerdictIsReal ==
  \A i \in DOMAIN rows : rows[i].status \in Verdict =>
    \E j \in Job : /\ jenkins[j] = rows[i].status
                   /\ rows[i].build \in {j, None}
                   /\ i \in Job => i = j /\ rows[i].build = j

\* The record is saved before Jenkins is triggered, so a durable history has a
\* row, with the service's name, for every build the service ever started,
\* whatever save fails and whenever the service crashes.
NoUntrackedBuild ==
  Durable => \A j \in Job : jenkins[j] # "none" =>
               j \in DOMAIN rows /\ rows[j].owner = j

\* Without store faults and crashes the history is complete when runBuildJob
\* returns: the job's row is terminal, and no row lacks an owner.
HistoryComplete ==
  faults = 0 /\ crashes = 0 =>
    /\ \A j \in Job : pc[j] = "done" => rows[j].status \in Terminal
    /\ \A i \in DOMAIN rows : rows[i].owner = i

\* A notice that names a Jenkins verdict for a service tells the truth, and
\* without faults and crashes the history agrees with every notice sent.
NoticesAgree ==
  \A n \in notices :
    /\ n.status \in Verdict => jenkins[n.job] = n.status
    /\ faults = 0 /\ crashes = 0 => rows[n.job].status = n.status

\* notify_sent is set only on the record of a message that was delivered, and
\* the message told the status the row still has.
NotifySentIsTrue ==
  \A i \in DOMAIN rows : rows[i].notifySent =>
    \E n \in notices : /\ n.status = rows[i].status
                       /\ n.owner = rows[i].owner
                       /\ i \in Job => n.job = i

\* Once a row is terminal no step changes its verdict, its build or its tag:
\* maybeNotify's last save, from a copy of the record, does not undo the one
\* before it.
TerminalRowsStay ==
  [][\A i \in DOMAIN rows :
       rows[i].status \in Terminal /\ i \in DOMAIN rows' =>
         rows'[i] \in {rows[i], [rows[i] EXCEPT !.notifySent = TRUE]}]_vars

\* The rows are those of the history; the step of a goroutine, Jenkins and the
\* semaphore are hidden.
History == INSTANCE BuildHistory WITH rows <- rows, Durable <- Durable

\* The tracker implements the abstract build history.
ImplementsHistory == History!Spec

\* Every accepted item gets its turn and its goroutine ends (unless the service
\* crashes), whatever Jenkins does: no wait is unbounded and no token is lost.
EveryGoroutineEnds ==
  \A j \in Job : pc[j] = "waiting" ~> pc[j] \in {"done", "lost"}

\* Without store faults and crashes every accepted item gets a final status in
\* the history.
EveryRecordEnds ==
  \A j \in Job : pc[j] = "waiting" ~>
    \/ faults > 0 \/ crashes > 0
    \/ j \in DOMAIN rows /\ rows[j].status \in Terminal

\* The tag is "<branch>-<build number>" in Harbor, and only "before
\* build" is nothing but the branch prefix known (jenkins.go:405).  So a build
\* that has succeeded is recorded with a numbered tag.
SuccessHasNumberedTag ==
  \A i \in DOMAIN rows :
    rows[i].status = "SUCCESS" /\ rows[i].owner # None => rows[i].tag = "numbered"
=============================================================================
