------------------------ MODULE BuildTracking_proofs ------------------------
(***************************************************************************)
(* Theorems about BuildTracking, for any finite set of jobs, any bounds    *)
(* and both stores.                                                        *)
(***************************************************************************)
EXTENDS BuildTracking, FiniteSetTheorems, TLAPS

(***************************************************************************)
(* The store: what Save leaves in it, and in the caller's hands.           *)
(***************************************************************************)
RowsOK(f) == /\ DOMAIN f \subseteq Id
             /\ \A i \in DOMAIN f : f[i] \in Record /\ f[i].id = i

\* The two records the code makes from nothing are records.
LEMMA NewRecords ==
  /\ BlankRecord \in Record
  /\ \A j \in Job : FirstRecord(j) \in Record /\ FirstRecord(j).id = j
  BY DEF BlankRecord, FirstRecord, Record, Id, Status, Terminal, Verdict

\* Put keeps a store well formed.
LEMMA PutRows ==
  ASSUME RowsOK(rows), NEW i \in Id, NEW r \in Record
  PROVE  RowsOK(Put(i, r))
  <1>1. [r EXCEPT !.id = i] \in Record /\ [r EXCEPT !.id = i].id = i
    BY DEF Record
  <1> QED BY <1>1 DEF RowsOK, Put

\* A record is saved under an id of the store.
LEMMA SaveIdsType == \A r \in Record : SaveIds(r) \subseteq Id
  BY DEF SaveIds, Record, Id

LEMMA KeepType ==
  ASSUME TypeOK, NEW j \in Job, NEW r \in Record, SaveAndKeep(j, r)
  PROVE  /\ RowsOK(rows')
         /\ rec' \in [Job -> Record]
         /\ faults' \in 0 .. MaxFaults
  <1>1. PICK i \in SaveIds(r) :
          \/ /\ rows' = Put(i, r)
             /\ rec' = [rec EXCEPT ![j] = [r EXCEPT !.id = i]]
             /\ UNCHANGED faults
          \/ /\ StoreFails
             /\ rows' \in {rows, Put(i, r)}
             /\ rec' = [rec EXCEPT ![j] = BlankRecord]
    BY DEF SaveAndKeep
  <1>2. i \in Id
    BY SaveIdsType
  <1>3. RowsOK(rows) /\ RowsOK(Put(i, r))
    BY <1>2, PutRows DEF TypeOK, RowsOK
  <1>4. [r EXCEPT !.id = i] \in Record
    BY <1>2 DEF Record
  <1>5. RowsOK(rows')
    BY <1>1, <1>3
  <1>6. rec' \in [Job -> Record]
    BY <1>1, <1>4, NewRecords DEF TypeOK
  <1>7. faults' \in 0 .. MaxFaults
    BY <1>1, ParameterAssumption DEF TypeOK, StoreFails
  <1> QED BY <1>5, <1>6, <1>7

LEMMA DropType ==
  ASSUME TypeOK, NEW r \in Record, SaveAndDrop(r)
  PROVE  RowsOK(rows') /\ faults' \in 0 .. MaxFaults
  <1>1. PICK i \in SaveIds(r) :
          \/ rows' = Put(i, r) /\ UNCHANGED faults
          \/ StoreFails /\ rows' \in {rows, Put(i, r)}
    BY DEF SaveAndDrop
  <1>2. RowsOK(rows) /\ RowsOK(Put(i, r))
    BY SaveIdsType, PutRows DEF TypeOK, RowsOK
  <1>3. RowsOK(rows')
    BY <1>1, <1>2
  <1>4. faults' \in 0 .. MaxFaults
    BY <1>1, ParameterAssumption DEF TypeOK, StoreFails
  <1> QED BY <1>3, <1>4

----------------------------------------------------------------------------
(***************************************************************************)
(* The semaphore.  A goroutine that returns makes slots smaller, so that   *)
(* slots stays a natural number only because it counts the goroutines that *)
(* track a build: type correctness and SlotsExact are proved together.     *)
(***************************************************************************)
SlotInv == TypeOK /\ SlotsExact

LEMMA HoldersFinite == IsFiniteSet(Holders)
  BY ParameterAssumption, FS_Subset DEF Holders

\* A step within the goroutine, or outside every goroutine, moves no token.
LEMMA HoldersStay ==
  ASSUME TypeOK, NEW j \in Job, NEW p \in Place, pc' = [pc EXCEPT ![j] = p],
         pc[j] \in Tracking <=> p \in Tracking
  PROVE  Holders' = Holders /\ pc' \in [Job -> Place]
  BY DEF Holders, TypeOK

\* A return gives back the one token its goroutine holds.
LEMMA ReturnReleases ==
  ASSUME SlotInv, NEW j \in Job, pc[j] \in Tracking, Return(j)
  PROVE  /\ pc' \in [Job -> Place]
         /\ slots' \in 0 .. MaxConcurrent
         /\ SlotsExact'
  <1>1. Holders' = Holders \ {j} /\ pc' \in [Job -> Place]
    BY DEF SlotInv, TypeOK, Return, Holders, Tracking, Place
  <1>2. j \in Holders
    BY DEF Holders
  <1>3. /\ Cardinality(Holders') = Cardinality(Holders) - 1
        /\ Cardinality(Holders') \in Nat
    <2>1. IsFiniteSet(Holders')
      BY <1>1, HoldersFinite, FS_Subset
    <2>2. Cardinality(Holders') \in Nat
      BY <2>1, FS_CardinalityType
    <2>3. Cardinality(Holders \ {j}) = Cardinality(Holders) - 1
      BY <1>2, HoldersFinite, FS_RemoveElement
    <2> QED BY <1>1, <2>2, <2>3
  <1> QED
    BY <1>1, <1>3, ParameterAssumption DEF SlotInv, SlotsExact, TypeOK, Return

----------------------------------------------------------------------------
(***************************************************************************)
(* Type correctness, by the kinds of step.                                 *)
(***************************************************************************)
LEMMA TypeInit == Init => SlotInv
  <1> SUFFICES ASSUME Init PROVE SlotInv
    OBVIOUS
  <1>1. TypeOK
    BY NewRecords, ParameterAssumption DEF Init, TypeOK, Place, JenkinsState
  <1>2. Holders = {}
    BY DEF Init, Holders, Tracking
  <1>3. SlotsExact
    BY <1>2, FS_EmptySet DEF Init, SlotsExact
  <1> QED BY <1>1, <1>3 DEF SlotInv

LEMMA TypeRequest ==
  ASSUME SlotInv, NEW j \in Job, Request(j) PROVE SlotInv'
  <1> USE DEF SlotInv
  <1>1. FirstRecord(j) \in Record /\ j \in Id /\ RowsOK(rows)
    BY NewRecords DEF Id, TypeOK, RowsOK
  <1>2. RowsOK(Put(j, FirstRecord(j)))
    BY <1>1, PutRows
  <1>3. RowsOK(rows') /\ faults' \in 0 .. MaxFaults
    BY <1>1, <1>2, ParameterAssumption
    DEF Request, AcceptItem, RefuseItem, LoseItem, StoreFails, TypeOK
  <1>4. Holders' = Holders /\ pc' \in [Job -> Place]
    <2>1. PICK p \in {"waiting", "refused"} :
            pc[j] = "idle" /\ pc' = [pc EXCEPT ![j] = p]
      BY DEF Request, AcceptItem, RefuseItem, LoseItem, Goto
    <2> QED BY <2>1, HoldersStay DEF Tracking, Place
  <1> QED
    BY <1>3, <1>4 DEF Request, AcceptItem, RefuseItem, LoseItem, TypeOK, RowsOK,
                      SlotsExact

LEMMA TypeServer ==
  ASSUME SlotInv, NEW j \in Job, Server(j) PROVE SlotInv'
  <1>1. Holders' = Holders
    BY DEF Server, BuildStarts, ItemCancelled, BuildFinishes, Holders
  <1>2. jenkins' \in [Job -> JenkinsState]
    BY DEF SlotInv, TypeOK, Server, BuildStarts, ItemCancelled, BuildFinishes,
           JenkinsState
  <1> QED
    BY <1>1, <1>2 DEF SlotInv, TypeOK, SlotsExact, Server, BuildStarts,
                      ItemCancelled, BuildFinishes

LEMMA TypeCrash == SlotInv /\ Crash => SlotInv'
  <1> SUFFICES ASSUME SlotInv, Crash PROVE SlotInv'
    OBVIOUS
  <1>1. pc' \in [Job -> Place]
    BY DEF SlotInv, TypeOK, Crash, Place
  <1>2. Holders' = {}
    BY DEF SlotInv, TypeOK, Crash, Holders, Tracking
  <1>3. SlotsExact'
    BY <1>2, FS_EmptySet DEF Crash, SlotsExact
  <1>4. rec' \in [Job -> Record] /\ RowsOK(rows')
    BY NewRecords DEF Crash, SlotInv, TypeOK, RowsOK
  <1>5. TypeOK'
    BY <1>1, <1>4, ParameterAssumption DEF SlotInv, Crash, TypeOK, RowsOK
  <1> QED BY <1>3, <1>5 DEF SlotInv

\* Steps of a goroutine that keep its token.
LEMMA TypeWithin ==
  ASSUME SlotInv, NEW j \in Job,
         \/ LoadRecord(j) \/ SaveTriggering(j) \/ PostTrigger(j)
         \/ TriggerAccepted(j) \/ TriggerFails(j) \/ SaveQueued(j)
         \/ QueueLeft(j) \/ QueueFails(j) \/ ReadNumber(j) \/ SaveRunning(j)
         \/ BuildEnded(j) \/ BuildFails(j) \/ WebhookSent(j)
  PROVE  SlotInv'
  <1> USE DEF SlotInv
  <1> DEFINE Within == /\ \E p \in Tracking : pc' = [pc EXCEPT ![j] = p]
                       /\ pc[j] \in Tracking
                       /\ UNCHANGED <<slots, notify, crashes>>
  <1>1. /\ rec[j] \in Record
        /\ RowsOK(rows)
        /\ UNCHANGED rows => RowsOK(rows')
    BY DEF TypeOK, RowsOK
  <1>2. Within => Holders' = Holders /\ pc' \in [Job -> Place]
    BY HoldersStay DEF Place
  <1> HIDE DEF Within
  <1>3. Within => slots' = slots /\ notify' = notify /\ crashes' = crashes
    BY DEF Within
  <1>4. ASSUME Within, RowsOK(rows'), rec' \in [Job -> Record],
               polls' \in [Job -> 0 .. MaxPolls],
               jenkins' \in [Job -> JenkinsState], notices' \subseteq NoticeSet,
               faults' \in 0 .. MaxFaults
        PROVE  SlotInv'
    BY <1>2, <1>3, <1>4 DEF TypeOK, RowsOK, SlotsExact
  <1> USE DEF Goto, GiveUp
  <1>5. CASE LoadRecord(j)
    <2>0. rows[j] \in Record
      BY <1>5, <1>1 DEF LoadRecord, RowsOK
    <2>1. [rows[j] EXCEPT !.status = "triggering"] \in Record
      BY <2>0 DEF Record, Status
    <2>2. Within
      BY <1>5 DEF LoadRecord, Within, Tracking
    <2> QED BY <2>1, <2>2, <1>1, <1>4, <1>5 DEF LoadRecord, TypeOK
  <1>6. CASE SaveTriggering(j)
    <2>1. Within
      BY <1>6 DEF SaveTriggering, Within, Tracking
    <2> QED BY <2>1, <1>1, <1>4, <1>6, KeepType DEF SaveTriggering, TypeOK
  <1>7. CASE PostTrigger(j)
    <2>1. Within
      BY <1>7 DEF PostTrigger, Within, Tracking
    <2> QED BY <2>1, <1>1, <1>4, <1>7 DEF PostTrigger, TypeOK, JenkinsState
  <1>8. CASE TriggerAccepted(j)
    <2>1. [[rec[j] EXCEPT !.queue = j] EXCEPT !.status = "queued"] \in Record
      BY <1>1 DEF Record, Status
    <2>2. rec' \in [Job -> Record]
      BY <1>8, <2>1 DEF TriggerAccepted, TypeOK
    <2>3. Within
      BY <1>8 DEF TriggerAccepted, Within, Tracking
    <2> QED BY <2>2, <2>3, <1>1, <1>4, <1>8 DEF TriggerAccepted, TypeOK
  <1>9. CASE TriggerFails(j) \/ QueueFails(j) \/ BuildFails(j)
    <2>1. [rec[j] EXCEPT !.status = "FAILED"] \in Record
      BY <1>1 DEF Record, Status, Terminal
    <2>2. rec' \in [Job -> Record]
      BY <1>9, <2>1 DEF TriggerFails, QueueFails, BuildFails, TypeOK
    <2>3. Within
      BY <1>9 DEF TriggerFails, QueueFails, BuildFails, Within, Tracking
    <2> QED BY <2>2, <2>3, <1>1, <1>4, <1>9
            DEF TriggerFails, QueueFails, BuildFails, TypeOK
  <1>10. CASE SaveQueued(j) \/ SaveRunning(j)
    <2>1. Within
      BY <1>10 DEF SaveQueued, SaveRunning, Within, Tracking
    <2>2. polls' \in [Job -> 0 .. MaxPolls]
      BY <1>10, ParameterAssumption DEF SaveQueued, SaveRunning, TypeOK
    <2> QED BY <2>1, <2>2, <1>1, <1>4, <1>10, KeepType
            DEF SaveQueued, SaveRunning, TypeOK
  <1>11. CASE QueueLeft(j)
    <2>1. [[rec[j] EXCEPT !.build = j] EXCEPT !.status = "RUNNING"] \in Record
      BY <1>1 DEF Record, Status
    <2>2. rec' \in [Job -> Record]
      BY <1>11, <2>1 DEF QueueLeft, TypeOK
    <2>3. Within
      BY <1>11 DEF QueueLeft, Within, Tracking
    <2> QED BY <2>2, <2>3, <1>1, <1>4, <1>11 DEF QueueLeft, TypeOK
  <1>12. CASE ReadNumber(j)
    <2>1. Numbered(rec[j]) \in Record
      BY <1>1 DEF Record, Numbered
    <2>2. rec' \in [Job -> Record]
      BY <1>12, <2>1 DEF ReadNumber, TypeOK
    <2>3. Within
      BY <1>12 DEF ReadNumber, Within, Tracking
    <2> QED BY <2>2, <2>3, <1>1, <1>4, <1>12 DEF ReadNumber, TypeOK
  <1>13. CASE BuildEnded(j)
    <2>1. [[rec[j] EXCEPT !.number = TRUE] EXCEPT !.status = jenkins[j]]
             \in Record
      BY <1>13, <1>1 DEF BuildEnded, Record, Status, Terminal
    <2>2. rec' \in [Job -> Record]
      BY <1>13, <2>1 DEF BuildEnded, TypeOK
    <2>3. Within
      BY <1>13 DEF BuildEnded, Within, Tracking
    <2> QED BY <2>2, <2>3, <1>1, <1>4, <1>13 DEF BuildEnded, TypeOK
  <1>14. CASE WebhookSent(j)
    <2>1. [rec[j] EXCEPT !.notifySent = TRUE] \in Record /\ Notice(j) \in NoticeSet
      BY <1>1 DEF Record, Notice, NoticeSet
    <2>2. Within
      BY <1>14 DEF WebhookSent, Within, Tracking
    <2> QED BY <2>1, <2>2, <1>1, <1>4, <1>14 DEF WebhookSent, TypeOK
  <1> QED
    BY <1>5, <1>6, <1>7, <1>8, <1>9, <1>10, <1>11, <1>12, <1>13, <1>14

\* Taking a token, and polling.
LEMMA TypeAcquire ==
  ASSUME SlotInv, NEW j \in Job, AcquireSlot(j) PROVE SlotInv'
  <1> USE DEF SlotInv
  <1>1. /\ Holders' = Holders \cup {j}
        /\ j \notin Holders
        /\ pc' \in [Job -> Place]
    BY DEF AcquireSlot, Goto, Holders, Tracking, Place, TypeOK
  <1>2. Cardinality(Holders') = Cardinality(Holders) + 1
    BY <1>1, HoldersFinite, FS_AddElement
  <1>3. slots' \in 0 .. MaxConcurrent
    BY ParameterAssumption DEF AcquireSlot, TypeOK
  <1> QED
    BY <1>1, <1>2, <1>3 DEF AcquireSlot, TypeOK, SlotsExact

LEMMA TypePoll ==
  ASSUME SlotInv, NEW j \in Job, QueueStillWaits(j) \/ BuildStillRuns(j)
  PROVE  SlotInv'
  <1> USE DEF SlotInv
  <1>1. PICK at \in Tracking : PollAgain(j, at)
    BY DEF QueueStillWaits, BuildStillRuns, Tracking
  <1>2. polls' \in [Job -> 0 .. MaxPolls]
    BY <1>1, ParameterAssumption DEF PollAgain, TypeOK
  <1>3. Holders' = Holders
    BY <1>1 DEF PollAgain, Holders
  <1> QED
    BY <1>1, <1>2, <1>3 DEF PollAgain, TypeOK, SlotsExact

\* Steps that may be a goroutine's last.
LEMMA TypeLast ==
  ASSUME SlotInv, NEW j \in Job,
         \/ LoadFails(j) \/ SaveFailed(j) \/ SaveFinal(j)
         \/ WebhookNotSent(j) \/ SaveNotified(j)
  PROVE  SlotInv'
  <1> USE DEF SlotInv
  <1>1. /\ pc' \in [Job -> Place]
        /\ slots' \in 0 .. MaxConcurrent
        /\ SlotsExact'
    <2>1. pc[j] \in Tracking
      BY DEF LoadFails, SaveFailed, SaveFinal, WebhookNotSent, SaveNotified,
             Tracking
    <2>2. CASE Return(j)
      BY <2>1, <2>2, ReturnReleases
    <2>3. CASE pc' = [pc EXCEPT ![j] = "webhook"] /\ UNCHANGED slots
      <3>1. Holders' = Holders /\ pc' \in [Job -> Place]
        BY <2>1, <2>3, HoldersStay DEF Place, Tracking
      <3> QED BY <2>3, <3>1 DEF TypeOK, SlotsExact
    <2> QED
      BY <2>2, <2>3 DEF LoadFails, SaveFailed, SaveFinal, WebhookNotSent,
                        SaveNotified, NotifyOrReturn
  <1>2. rec[j] \in Record /\ RowsOK(rows)
    BY DEF TypeOK, RowsOK
  <1>3. RowsOK(rows') /\ faults' \in 0 .. MaxFaults /\ rec' \in [Job -> Record]
    <2>1. CASE LoadFails(j) \/ WebhookNotSent(j)
      BY <2>1, <1>2, ParameterAssumption
      DEF LoadFails, WebhookNotSent, StoreFails, TypeOK, RowsOK
    <2>2. CASE SaveFailed(j) \/ SaveNotified(j)
      BY <2>2, <1>2, DropType DEF SaveFailed, SaveNotified, TypeOK
    <2>3. CASE SaveFinal(j)
      BY <2>3, <1>2, KeepType DEF SaveFinal
    <2> QED BY <2>1, <2>2, <2>3
  <1>4. notices' \subseteq NoticeSet
    <2>1. Notice(j) \in NoticeSet /\ notices \subseteq NoticeSet
      BY <1>2 DEF TypeOK, Notice, NoticeSet, Record
    <2>2. notices' \in {notices, notices \cup {Notice(j)}}
      BY DEF LoadFails, SaveFailed, SaveFinal, WebhookNotSent, SaveNotified
    <2> QED BY <2>1, <2>2
  <1>5. UNCHANGED <<polls, notify, jenkins, crashes>>
    BY DEF LoadFails, SaveFailed, SaveFinal, WebhookNotSent, SaveNotified
  <1> QED
    BY <1>1, <1>3, <1>4, <1>5 DEF TypeOK, RowsOK

LEMMA SlotInvNext == SlotInv /\ [Next]_vars => SlotInv'
  <1> SUFFICES ASSUME SlotInv, [Next]_vars PROVE SlotInv'
    OBVIOUS
  <1>1. CASE UNCHANGED vars
    BY <1>1 DEF vars, SlotInv, TypeOK, SlotsExact, Holders
  <1>2. CASE Crash
    BY <1>2, TypeCrash
  <1>3. ASSUME NEW j \in Job, Request(j) \/ Server(j) PROVE SlotInv'
    BY <1>3, TypeRequest, TypeServer
  <1>4. ASSUME NEW j \in Job, Goroutine(j) PROVE SlotInv'
    BY <1>4, TypeAcquire, TypeWithin, TypePoll, TypeLast DEF Goroutine
  <1> QED
    BY <1>1, <1>2, <1>3, <1>4 DEF Next

\* Every reachable state is well typed: no save, failed or not, and no crash
\* leaves a malformed record or a count of tokens outside the channel's range.
THEOREM TypeCorrect == Spec => []TypeOK
  <1>1. SlotInv => TypeOK
    BY DEF SlotInv
  <1> QED BY <1>1, TypeInit, SlotInvNext, PTL DEF Spec

\* Every return path of runBuildJob, and the restart after a crash, accounts
\* for the tokens of buildSem.
THEOREM SlotsAreExact == Spec => []SlotsExact
  <1>1. SlotInv => SlotsExact
    BY DEF SlotInv
  <1> QED BY <1>1, TypeInit, SlotInvNext, PTL DEF Spec

\* At most JENKINS_MAX_CONCURRENT builds are tracked at one time.
THEOREM TrackingIsBounded == Spec => []AtMostMaxTracked
  <1>1. SlotInv => AtMostMaxTracked
    BY ParameterAssumption DEF SlotInv, SlotsExact, TypeOK, AtMostMaxTracked
  <1> QED BY <1>1, TypeInit, SlotInvNext, PTL DEF Spec

----------------------------------------------------------------------------
(***************************************************************************)
(* What the history says of Jenkins.  VerdictIsReal and NoUntrackedBuild   *)
(* are not inductive: the rows come from the goroutines' local records, so *)
(* the same has to be known of those (RecTrue), and Jenkins must not have  *)
(* been triggered before the goroutine stands behind its trigger.          *)
(***************************************************************************)
RecTrue(j, r) ==
  /\ r.id \in Job => r.id = j /\ r.owner = j
  /\ r.build \in {j, None}
  /\ r.status \in Verdict => jenkins[j] = r.status /\ (r.id = j => r.build = j)

RowTrue(i, r) ==
  /\ i \in Job => r.owner = i /\ r.build \in {i, None}
  /\ r.status \in Verdict =>
       \E j \in Job : /\ jenkins[j] = r.status
                      /\ r.build \in {j, None}
                      /\ i \in Job => i = j /\ r.build = j

NotTriggered == {"idle", "refused", "waiting", "load", "saveTriggering", "trigger"}
BuildKnown == {"readNumber", "saveRunning", "pollBuild"}

HistoryInv ==
  /\ \A j \in Job : RecTrue(j, rec[j])
  /\ \A i \in DOMAIN rows : RowTrue(i, rows[i])
  /\ \A j \in Job : pc[j] \in BuildKnown /\ rec[j].id = j => rec[j].build = j
  /\ \A j \in Job : pc[j] \in NotTriggered => jenkins[j] = "none"
  /\ Durable => \A j \in Job : pc[j] \notin {"idle", "refused"} => j \in DOMAIN rows

LEMMA SaveTrue ==
  ASSUME NEW j \in Job, NEW r \in Record, RecTrue(j, r), NEW i \in SaveIds(r)
  PROVE  /\ RecTrue(j, [r EXCEPT !.id = i])
         /\ RowTrue(i, [r EXCEPT !.id = i])
         /\ i = j => r.id = j
  <1>1. i = r.id \/ i \in SpareId
    BY DEF SaveIds
  <1>2. i \in Job => i = r.id /\ r.id = j /\ r.owner = j
    BY <1>1, IdAssumption DEF RecTrue
  <1> DEFINE s == [r EXCEPT !.id = i]
  <1>3. /\ s.id = i /\ s.owner = r.owner
        /\ s.build = r.build /\ s.status = r.status
    BY DEF Record
  <1> HIDE DEF s
  <1>4. RecTrue(j, s)
    BY <1>2, <1>3 DEF RecTrue
  <1>5. RowTrue(i, s)
    BY <1>2, <1>3 DEF RecTrue, RowTrue
  <1> QED BY <1>2, <1>4, <1>5 DEF s

\* Both forms of Save keep the store true to Jenkins.
LEMMA PutTrue ==
  ASSUME TypeOK, HistoryInv, NEW j \in Job, NEW i \in SaveIds(rec[j]),
         rows' \in {rows, Put(i, rec[j])}, UNCHANGED jenkins
  PROVE  /\ (\A k \in DOMAIN rows : RowTrue(k, rows[k]))'
         /\ DOMAIN rows \subseteq DOMAIN rows'
  <1>1. rec[j] \in Record /\ RecTrue(j, rec[j])
    BY DEF TypeOK, HistoryInv
  <1>2. RowTrue(i, [rec[j] EXCEPT !.id = i])
    BY <1>1, SaveTrue
  <1>3. \A k \in DOMAIN Put(i, rec[j]) : RowTrue(k, Put(i, rec[j])[k])
    BY <1>2 DEF Put, HistoryInv
  <1>4. \A k \in DOMAIN rows' : RowTrue(k, rows'[k])
    BY <1>3 DEF HistoryInv
  <1>5. DOMAIN rows \subseteq DOMAIN rows'
    BY DEF Put
  <1> QED BY <1>4, <1>5 DEF RowTrue

LEMMA KeepTrue ==
  ASSUME TypeOK, HistoryInv, NEW j \in Job, SaveAndKeep(j, rec[j]),
         UNCHANGED jenkins
  PROVE  /\ (\A k \in DOMAIN rows : RowTrue(k, rows[k]))'
         /\ DOMAIN rows \subseteq DOMAIN rows'
         /\ (\A k \in Job : RecTrue(k, rec[k]))'
         /\ rec'[j].id = j => rec[j].id = j /\ rec'[j].build = rec[j].build
         /\ \A k \in Job \ {j} : rec'[k] = rec[k]
  <1>1. PICK i \in SaveIds(rec[j]) :
          \/ /\ rows' = Put(i, rec[j])
             /\ rec' = [rec EXCEPT ![j] = [rec[j] EXCEPT !.id = i]]
          \/ /\ rows' \in {rows, Put(i, rec[j])}
             /\ rec' = [rec EXCEPT ![j] = BlankRecord]
    BY DEF SaveAndKeep
  <1>2. rec[j] \in Record /\ RecTrue(j, rec[j])
    BY DEF TypeOK, HistoryInv
  <1>3. /\ RecTrue(j, [rec[j] EXCEPT !.id = i])
        /\ i = j => rec[j].id = j
    BY <1>2, SaveTrue
  <1>4. RecTrue(j, BlankRecord) /\ BlankRecord.id # j
    BY IdAssumption DEF RecTrue, BlankRecord, Verdict
  <1>5. \A k \in Job : RecTrue(k, rec'[k])
    BY <1>1, <1>3, <1>4 DEF HistoryInv, TypeOK
  <1>6. /\ [rec[j] EXCEPT !.id = i].id = i
        /\ [rec[j] EXCEPT !.id = i].build = rec[j].build
    BY <1>2 DEF Record
  <1>7. rec'[j].id = j => rec[j].id = j /\ rec'[j].build = rec[j].build
    BY <1>1, <1>3, <1>4, <1>6 DEF TypeOK
  <1>8. \A k \in Job \ {j} : rec'[k] = rec[k]
    BY <1>1 DEF TypeOK
  <1> QED BY <1>1, <1>5, <1>7, <1>8, PutTrue DEF RecTrue

----------------------------------------------------------------------------
\* Jenkins never takes a verdict back: the only trigger of a job's build comes
\* before the build exists.
LEMMA VerdictStays ==
  ASSUME HistoryInv, TypeOK, [Next]_vars, NEW j \in Job, jenkins[j] \in Verdict
  PROVE  jenkins'[j] = jenkins[j]
  <1>1. ASSUME NEW k \in Job, PostTrigger(k) PROVE jenkins'[j] = jenkins[j]
    BY <1>1 DEF PostTrigger, Goto, HistoryInv, NotTriggered, Verdict, TypeOK
  <1>2. ASSUME NEW k \in Job, Server(k) PROVE jenkins'[j] = jenkins[j]
    BY <1>2 DEF Server, BuildStarts, ItemCancelled, BuildFinishes, Verdict, TypeOK
  <1>3. CASE UNCHANGED jenkins
    BY <1>3
  <1> QED
    BY <1>1, <1>2, <1>3
    DEF Next, vars, Crash, Request, AcceptItem, RefuseItem, LoseItem, Goroutine,
        AcquireSlot, LoadRecord, LoadFails, SaveTriggering, TriggerAccepted,
        TriggerFails, SaveQueued, QueueStillWaits, QueueLeft, QueueFails,
        ReadNumber, SaveRunning, BuildStillRuns, BuildEnded, BuildFails,
        SaveFailed, SaveFinal, WebhookSent, WebhookNotSent, SaveNotified,
        GiveUp, PollAgain

LEMMA HistoryInit == Init => HistoryInv
  <1> SUFFICES ASSUME Init PROVE HistoryInv
    OBVIOUS
  <1>1. \A j \in Job : RecTrue(j, BlankRecord)
    BY IdAssumption DEF RecTrue, BlankRecord, Verdict
  <1>2. \A j \in Job : RecTrue(j, rec[j])
    BY <1>1 DEF Init
  <1>3. DOMAIN rows = {}
    BY DEF Init
  <1> QED
    BY <1>2, <1>3 DEF Init, HistoryInv, BuildKnown

(***************************************************************************)
(* HistoryInv is inductive: first the steps that touch only the goroutine's *)
(* place and its local record, then those that save, and the rest.         *)
(***************************************************************************)
LEMMA LocalStep ==
  ASSUME TypeOK, HistoryInv, NEW j \in Job, NEW p \in Place, NEW r \in Record,
         pc' = [pc EXCEPT ![j] = p], rec' = [rec EXCEPT ![j] = r],
         UNCHANGED <<rows, jenkins>>,
         pc[j] \notin {"idle", "refused"},
         p \in NotTriggered => pc[j] \in NotTriggered,
         RecTrue(j, r),
         p \in BuildKnown /\ r.id = j => r.build = j
  PROVE  HistoryInv'
  <1>1. \A k \in Job : pc'[k] = (IF k = j THEN p ELSE pc[k])
                     /\ rec'[k] = (IF k = j THEN r ELSE rec[k])
    BY DEF TypeOK
  <1>2. (\A k \in Job : RecTrue(k, rec[k]))'
    BY <1>1 DEF HistoryInv, RecTrue
  <1>3. (\A i \in DOMAIN rows : RowTrue(i, rows[i]))'
    BY DEF HistoryInv, RowTrue
  <1>4. (\A k \in Job : pc[k] \in BuildKnown /\ rec[k].id = k => rec[k].build = k)'
    BY <1>1 DEF HistoryInv
  <1>5. (\A k \in Job : pc[k] \in NotTriggered => jenkins[k] = "none")'
    BY <1>1 DEF HistoryInv
  <1>6. (Durable => \A k \in Job : pc[k] \notin {"idle", "refused"} => k \in DOMAIN rows)'
    BY <1>1 DEF HistoryInv
  <1> QED BY <1>2, <1>3, <1>4, <1>5, <1>6 DEF HistoryInv

LEMMA HistoryLocal ==
  ASSUME TypeOK, HistoryInv, NEW j \in Job,
         \/ AcquireSlot(j) \/ LoadRecord(j) \/ LoadFails(j)
         \/ TriggerAccepted(j) \/ TriggerFails(j)
         \/ QueueLeft(j) \/ QueueFails(j) \/ ReadNumber(j)
         \/ BuildEnded(j) \/ BuildFails(j) \/ WebhookSent(j) \/ WebhookNotSent(j)
  PROVE  HistoryInv'
  <1>1. rec[j] \in Record /\ RecTrue(j, rec[j])
    BY DEF TypeOK, HistoryInv
  <1>2. CASE AcquireSlot(j) \/ LoadFails(j) \/ WebhookNotSent(j)
    <2>1. PICK p \in {"load", "done"} :
            pc' = [pc EXCEPT ![j] = p] /\ (p = "load" => pc[j] = "waiting")
      BY <1>2 DEF AcquireSlot, LoadFails, WebhookNotSent, Return, Goto
    <2>2. rec' = [rec EXCEPT ![j] = rec[j]]
      BY <1>2 DEF AcquireSlot, LoadFails, WebhookNotSent, TypeOK
    <2>3. UNCHANGED <<rows, jenkins>> /\ pc[j] \notin {"idle", "refused"}
      BY <1>2 DEF AcquireSlot, LoadFails, WebhookNotSent, Goto
    <2> QED
      BY <1>1, <2>1, <2>2, <2>3, LocalStep
      DEF Place, Tracking, NotTriggered, BuildKnown
  <1>3. CASE LoadRecord(j)
    <2> DEFINE r == [rows[j] EXCEPT !.status = "triggering"]
    <2>1. rows[j] \in Record /\ rows[j].id = j /\ RowTrue(j, rows[j])
      BY <1>3 DEF LoadRecord, TypeOK, HistoryInv
    <2>2. r \in Record /\ RecTrue(j, r)
      BY <2>1 DEF Record, Status, Verdict, RecTrue, RowTrue
    <2> HIDE DEF r
    <2>3. /\ pc[j] = "load" /\ pc' = [pc EXCEPT ![j] = "saveTriggering"]
          /\ rec' = [rec EXCEPT ![j] = r]
          /\ UNCHANGED <<rows, jenkins>>
      BY <1>3 DEF LoadRecord, Goto, r
    <2> QED
      BY <2>2, <2>3, LocalStep DEF Place, Tracking, NotTriggered, BuildKnown
  <1>4. CASE TriggerAccepted(j)
    <2> DEFINE r == [[rec[j] EXCEPT !.queue = j] EXCEPT !.status = "queued"]
    <2>1. r \in Record /\ RecTrue(j, r)
      BY <1>1 DEF Record, Status, Verdict, RecTrue
    <2>2. rec' = [rec EXCEPT ![j] = r]
      BY <1>4 DEF TriggerAccepted, TypeOK
    <2> HIDE DEF r
    <2>3. /\ pc[j] = "answer" /\ pc' = [pc EXCEPT ![j] = "saveQueued"]
          /\ UNCHANGED <<rows, jenkins>>
      BY <1>4 DEF TriggerAccepted, Goto
    <2> QED
      BY <2>1, <2>2, <2>3, LocalStep DEF Place, Tracking, NotTriggered, BuildKnown
  <1>5. CASE TriggerFails(j) \/ QueueFails(j) \/ BuildFails(j)
    <2> DEFINE r == [rec[j] EXCEPT !.status = "FAILED"]
    <2>1. r \in Record /\ RecTrue(j, r)
      BY <1>1 DEF Record, Status, Terminal, Verdict, RecTrue
    <2>2. rec' = [rec EXCEPT ![j] = r]
      BY <1>5 DEF TriggerFails, QueueFails, BuildFails, GiveUp, TypeOK
    <2> HIDE DEF r
    <2>3. /\ pc[j] \in {"answer", "pollQueue", "pollBuild"}
          /\ pc' = [pc EXCEPT ![j] = "saveFailed"]
          /\ UNCHANGED <<rows, jenkins>>
      BY <1>5 DEF TriggerFails, QueueFails, BuildFails, GiveUp, Goto
    <2> QED
      BY <2>1, <2>2, <2>3, LocalStep DEF Place, Tracking, NotTriggered, BuildKnown
  <1>6. CASE QueueLeft(j)
    <2> DEFINE r == [[rec[j] EXCEPT !.build = j] EXCEPT !.status = "RUNNING"]
    <2>1. r \in Record /\ RecTrue(j, r) /\ r.build = j
      BY <1>1 DEF Record, Status, Verdict, RecTrue
    <2>2. rec' = [rec EXCEPT ![j] = r]
      BY <1>6 DEF QueueLeft, TypeOK
    <2> HIDE DEF r
    <2>3. /\ pc[j] = "pollQueue" /\ pc' = [pc EXCEPT ![j] = "readNumber"]
          /\ UNCHANGED <<rows, jenkins>>
      BY <1>6 DEF QueueLeft, Goto
    <2> QED
      BY <2>1, <2>2, <2>3, LocalStep DEF Place, Tracking, NotTriggered
  <1>7. CASE ReadNumber(j)
    <2>1. PICK r \in {rec[j], Numbered(rec[j])} : rec' = [rec EXCEPT ![j] = r]
      BY <1>7 DEF ReadNumber, TypeOK
    <2>2. r \in Record /\ r.id = rec[j].id /\ r.build = rec[j].build /\ RecTrue(j, r)
      BY <1>1 DEF Numbered, Record, RecTrue
    <2>3. /\ pc[j] = "readNumber" /\ pc' = [pc EXCEPT ![j] = "saveRunning"]
          /\ UNCHANGED <<rows, jenkins>>
      BY <1>7 DEF ReadNumber, Goto
    <2>4. rec[j].id = j => rec[j].build = j
      BY <2>3 DEF HistoryInv, BuildKnown
    <2> QED
      BY <2>1, <2>2, <2>3, <2>4, LocalStep DEF Place, Tracking, NotTriggered
  <1>8. CASE BuildEnded(j)
    <2> DEFINE r == [[rec[j] EXCEPT !.number = TRUE] EXCEPT !.status = jenkins[j]]
    <2>1. /\ pc[j] = "pollBuild" /\ pc' = [pc EXCEPT ![j] = "saveFinal"]
          /\ UNCHANGED <<rows, jenkins>>
      BY <1>8 DEF BuildEnded, Goto
    <2>2. rec[j].id = j => rec[j].build = j
      BY <2>1 DEF HistoryInv, BuildKnown
    <2>3. r \in Record /\ RecTrue(j, r)
      BY <1>1, <1>8, <2>2 DEF BuildEnded, Record, Status, Terminal, RecTrue
    <2>4. rec' = [rec EXCEPT ![j] = r]
      BY <1>8 DEF BuildEnded, TypeOK
    <2> HIDE DEF r
    <2> QED
      BY <2>1, <2>3, <2>4, LocalStep DEF Place, Tracking, NotTriggered, BuildKnown
  <1>9. CASE WebhookSent(j)
    <2> DEFINE r == [rec[j] EXCEPT !.notifySent = TRUE]
    <2>1. r \in Record /\ RecTrue(j, r)
      BY <1>1 DEF Record, RecTrue
    <2>2. /\ pc[j] = "webhook" /\ pc' = [pc EXCEPT ![j] = "saveNotified"]
          /\ rec' = [rec EXCEPT ![j] = r]
          /\ UNCHANGED <<rows, jenkins>>
      BY <1>9 DEF WebhookSent, Goto, TypeOK
    <2> HIDE DEF r
    <2> QED
      BY <2>1, <2>2, LocalStep DEF Place, Tracking, NotTriggered, BuildKnown
  <1> QED
    BY <1>2, <1>3, <1>4, <1>5, <1>6, <1>7, <1>8, <1>9

LEMMA HistorySaves ==
  ASSUME TypeOK, HistoryInv, NEW j \in Job,
         \/ SaveTriggering(j) \/ SaveQueued(j) \/ SaveRunning(j)
         \/ SaveFailed(j) \/ SaveFinal(j) \/ SaveNotified(j)
  PROVE  HistoryInv'
  <1>1. /\ \A k \in Job \ {j} : pc'[k] = pc[k]
        /\ pc[j] \notin {"idle", "refused"}
        /\ pc'[j] \in NotTriggered => pc[j] \in NotTriggered
        /\ pc'[j] \in BuildKnown => pc[j] \in BuildKnown
    <2>1. PICK p \in {"trigger", "pollQueue", "pollBuild", "webhook", "done"} :
            /\ pc' = [pc EXCEPT ![j] = p]
            /\ p = "trigger" => pc[j] = "saveTriggering"
            /\ p = "pollBuild" => pc[j] = "saveRunning"
      BY DEF SaveTriggering, SaveQueued, SaveRunning, SaveFailed, SaveFinal,
             SaveNotified, NotifyOrReturn, Return, Goto
    <2>2. pc[j] \notin {"idle", "refused"}
      BY DEF SaveTriggering, SaveQueued, SaveRunning, SaveFailed, SaveFinal,
             SaveNotified, Goto
    <2> QED BY <2>1, <2>2 DEF TypeOK, NotTriggered, BuildKnown
  <1>2. UNCHANGED jenkins
    BY DEF SaveTriggering, SaveQueued, SaveRunning, SaveFailed, SaveFinal,
           SaveNotified
  <1>3. /\ (\A i \in DOMAIN rows : RowTrue(i, rows[i]))'
        /\ DOMAIN rows \subseteq DOMAIN rows'
        /\ (\A k \in Job : RecTrue(k, rec[k]))'
        /\ rec'[j].id = j => rec[j].id = j /\ rec'[j].build = rec[j].build
        /\ \A k \in Job \ {j} : rec'[k] = rec[k]
    <2>1. CASE SaveAndKeep(j, rec[j])
      BY <2>1, <1>2, KeepTrue
    <2>2. CASE SaveAndDrop(rec[j]) /\ UNCHANGED rec
      <3>1. PICK i \in SaveIds(rec[j]) : rows' \in {rows, Put(i, rec[j])}
        BY <2>2 DEF SaveAndDrop
      <3>2. (\A k \in Job : RecTrue(k, rec[k]))'
        BY <2>2, <1>2 DEF HistoryInv, RecTrue
      <3> QED BY <2>2, <1>2, <3>1, <3>2, PutTrue
    <2> QED
      BY <2>1, <2>2 DEF SaveTriggering, SaveQueued, SaveRunning, SaveFailed,
                        SaveFinal, SaveNotified
  <1>4. (\A k \in Job : pc[k] \in BuildKnown /\ rec[k].id = k => rec[k].build = k)'
    BY <1>1, <1>3 DEF HistoryInv
  <1>5. (\A k \in Job : pc[k] \in NotTriggered => jenkins[k] = "none")'
    BY <1>1, <1>2 DEF HistoryInv
  <1>6. (Durable => \A k \in Job : pc[k] \notin {"idle", "refused"} => k \in DOMAIN rows)'
    BY <1>1, <1>3 DEF HistoryInv
  <1> QED BY <1>3, <1>4, <1>5, <1>6 DEF HistoryInv

LEMMA HistoryRequest ==
  ASSUME TypeOK, HistoryInv, NEW j \in Job, Request(j) PROVE HistoryInv'
  <1> USE DEF Request, AcceptItem, RefuseItem, LoseItem
  <1>1. PICK p \in {"waiting", "refused"} :
          /\ pc[j] = "idle" /\ pc' = [pc EXCEPT ![j] = p]
          /\ p = "waiting" => rows' = Put(j, FirstRecord(j))
    BY DEF Goto
  <1>2. rows' \in {rows, Put(j, FirstRecord(j))} /\ UNCHANGED <<rec, jenkins>>
    OBVIOUS
  <1>3. RowTrue(j, [FirstRecord(j) EXCEPT !.id = j])
    BY DEF RowTrue, FirstRecord, BlankRecord, Verdict
  <1>4. \A i \in DOMAIN Put(j, FirstRecord(j)) :
          RowTrue(i, Put(j, FirstRecord(j))[i])
    BY <1>3 DEF Put, HistoryInv
  <1>5. (\A i \in DOMAIN rows : RowTrue(i, rows[i]))'
    BY <1>2, <1>4 DEF HistoryInv, RowTrue
  <1>6. /\ DOMAIN rows \subseteq DOMAIN rows'
        /\ p = "waiting" => j \in DOMAIN rows'
    BY <1>1, <1>2 DEF Put
  <1>7. (\A k \in Job : RecTrue(k, rec[k]))'
    BY <1>2 DEF HistoryInv, RecTrue
  <1>8. (\A k \in Job : pc[k] \in BuildKnown /\ rec[k].id = k => rec[k].build = k)'
    BY <1>1, <1>2 DEF HistoryInv, TypeOK, BuildKnown
  <1>9. (\A k \in Job : pc[k] \in NotTriggered => jenkins[k] = "none")'
    BY <1>1, <1>2 DEF HistoryInv, TypeOK, NotTriggered
  <1>10. (Durable => \A k \in Job : pc[k] \notin {"idle", "refused"} => k \in DOMAIN rows)'
    BY <1>1, <1>6 DEF HistoryInv, TypeOK
  <1> QED BY <1>5, <1>7, <1>8, <1>9, <1>10 DEF HistoryInv

\* Steps that touch neither the store nor a local record.
LEMMA HistoryServer ==
  ASSUME TypeOK, HistoryInv, [Next]_vars, NEW j \in Job,
         PostTrigger(j) \/ Server(j) \/ QueueStillWaits(j) \/ BuildStillRuns(j)
  PROVE  HistoryInv'
  <1> USE DEF Server, BuildStarts, ItemCancelled, BuildFinishes, PostTrigger,
              QueueStillWaits, BuildStillRuns, PollAgain
  <1>1. UNCHANGED <<rows, rec>>
    OBVIOUS
  <1>2. \A k \in Job : jenkins[k] \in Verdict => jenkins'[k] = jenkins[k]
    BY VerdictStays
  <1>3. (\A k \in Job : RecTrue(k, rec[k]))'
    BY <1>1, <1>2 DEF HistoryInv, RecTrue
  <1>4. (\A i \in DOMAIN rows : RowTrue(i, rows[i]))'
    BY <1>1, <1>2 DEF HistoryInv, RowTrue
  <1>5. \A k \in Job : /\ pc'[k] \in NotTriggered =>
                            pc[k] \in NotTriggered /\ jenkins'[k] = jenkins[k]
                       /\ pc'[k] \in BuildKnown => pc[k] \in BuildKnown
                       /\ pc[k] \in {"idle", "refused"} => pc'[k] = pc[k]
    <2>1. CASE PostTrigger(j)
      BY <2>1 DEF Goto, TypeOK, NotTriggered, BuildKnown
    <2>2. CASE Server(j)
      BY <2>2 DEF HistoryInv, TypeOK
    <2>3. CASE QueueStillWaits(j) \/ BuildStillRuns(j)
      BY <2>3
    <2> QED BY <2>1, <2>2, <2>3
  <1> QED BY <1>1, <1>3, <1>4, <1>5 DEF HistoryInv

LEMMA HistoryCrash == TypeOK /\ HistoryInv /\ Crash => HistoryInv'
  <1> SUFFICES ASSUME TypeOK, HistoryInv, Crash PROVE HistoryInv'
    OBVIOUS
  <1>1. (\A k \in Job : RecTrue(k, rec[k]))'
    BY IdAssumption DEF Crash, RecTrue, BlankRecord, Verdict
  <1>2. (\A i \in DOMAIN rows : RowTrue(i, rows[i]))'
    BY DEF Crash, HistoryInv, RowTrue
  <1>3. \A k \in Job : pc'[k] = pc[k] \/ pc'[k] = "lost"
    BY DEF Crash
  <1>4. \A k \in Job : pc'[k] \notin BuildKnown
    BY DEF Crash, BuildKnown, Tracking
  <1>5. (\A k \in Job : pc[k] \in NotTriggered => jenkins[k] = "none")'
    BY <1>3 DEF Crash, HistoryInv, NotTriggered
  <1>6. (Durable => \A k \in Job : pc[k] \notin {"idle", "refused"} => k \in DOMAIN rows)'
    <2>1. \A k \in Job : pc'[k] \notin {"idle", "refused"} =>
                           pc[k] \notin {"idle", "refused"}
      BY DEF Crash, Tracking
    <2>2. Durable => rows' = rows
      BY DEF Crash
    <2> QED BY <2>1, <2>2 DEF HistoryInv
  <1> QED BY <1>1, <1>2, <1>4, <1>5, <1>6 DEF HistoryInv

LEMMA HistoryNext == TypeOK /\ HistoryInv /\ [Next]_vars => HistoryInv'
  <1> SUFFICES ASSUME TypeOK, HistoryInv, [Next]_vars PROVE HistoryInv'
    OBVIOUS
  <1>1. CASE UNCHANGED vars
    BY <1>1 DEF vars, HistoryInv, RecTrue, RowTrue
  <1>2. CASE Crash
    BY <1>2, HistoryCrash
  <1>3. ASSUME NEW j \in Job, Request(j) \/ Server(j) PROVE HistoryInv'
    BY <1>3, HistoryRequest, HistoryServer
  <1>4. ASSUME NEW j \in Job, Goroutine(j) PROVE HistoryInv'
    BY <1>4, HistoryLocal, HistorySaves, HistoryServer DEF Goroutine
  <1> QED
    BY <1>1, <1>2, <1>3, <1>4 DEF Next

\* A verdict in the history is Jenkins' own, whatever save fails and whenever
\* the service crashes.
THEOREM VerdictsAreReal == Spec => []VerdictIsReal
  <1>1. HistoryInv => VerdictIsReal
    BY DEF HistoryInv, RowTrue, VerdictIsReal
  <1> QED BY <1>1, HistoryInit, HistoryNext, TypeCorrect, PTL DEF Spec

\* With PostgreSQL every build the service triggered has a row with its service.
THEOREM NoBuildIsUntracked == Spec => []NoUntrackedBuild
  <1>1. HistoryInv => NoUntrackedBuild
    BY DEF HistoryInv, RowTrue, NotTriggered, NoUntrackedBuild
  <1> QED BY <1>1, HistoryInit, HistoryNext, TypeCorrect, PTL DEF Spec

----------------------------------------------------------------------------
(***************************************************************************)
(* What a goroutine can still do.  No fairness is needed for this half of  *)
(* "it ends": the steps left to it are counted down by every step of its   *)
(* own, and no step of anyone else, no crash and no failing save adds one. *)
(***************************************************************************)
\* The most steps that are left for a job: one for each place of runBuildJob on
\* the longest way to its end, and one for each poll before a deadline.
StepsLeft(j) ==
  CASE pc[j] = "idle"           -> 2 * MaxPolls + 14
    [] pc[j] = "waiting"        -> 2 * MaxPolls + 13
    [] pc[j] = "load"           -> 2 * MaxPolls + 12
    [] pc[j] = "saveTriggering" -> 2 * MaxPolls + 11
    [] pc[j] = "trigger"        -> 2 * MaxPolls + 10
    [] pc[j] = "answer"         -> 2 * MaxPolls + 9
    [] pc[j] = "saveQueued"     -> 2 * MaxPolls + 8
    [] pc[j] = "pollQueue"      -> 2 * MaxPolls + 7 - polls[j]
    [] pc[j] = "readNumber"     -> MaxPolls + 6
    [] pc[j] = "saveRunning"    -> MaxPolls + 5
    [] pc[j] = "pollBuild"      -> MaxPolls + 4 - polls[j]
    [] pc[j] \in {"saveFailed", "saveFinal"} -> 3
    [] pc[j] = "webhook"        -> 2
    [] pc[j] = "saveNotified"   -> 1
    [] OTHER                    -> 0

StepsBounded == \A j \in Job : StepsLeft(j) \in 0 .. 2 * MaxPolls + 14

StepsRunOut ==
  [][\A j \in Job : /\ StepsLeft(j)' <= StepsLeft(j)
                    /\ Request(j) \/ Goroutine(j) => StepsLeft(j)' < StepsLeft(j)]_vars

LEMMA StepsType == TypeOK => StepsBounded
  <1> SUFFICES ASSUME TypeOK, NEW j \in Job PROVE StepsLeft(j) \in 0 .. 2 * MaxPolls + 14
    BY DEF StepsBounded
  <1>1. MaxPolls \in Nat /\ polls[j] \in 0 .. MaxPolls
    BY ParameterAssumption DEF TypeOK
  <1>2. CASE pc[j] = "pollQueue"
    BY <1>1, <1>2 DEF StepsLeft
  <1>3. CASE pc[j] = "pollBuild"
    BY <1>1, <1>3 DEF StepsLeft
  <1>4. CASE pc[j] \notin {"pollQueue", "pollBuild"}
    <2>1. StepsLeft(j) \in {0, 1, 2, 3, MaxPolls + 5, MaxPolls + 6} \cup
                           (2 * MaxPolls + 8) .. (2 * MaxPolls + 14)
      BY <1>1, <1>4 DEF StepsLeft
    <2> QED BY <1>1, <2>1
  <1> QED BY <1>2, <1>3, <1>4

\* A step from place to place.
LEMMA StepsMove ==
  ASSUME TypeOK, TypeOK', NEW j \in Job,
         \/ Request(j) \/ AcquireSlot(j) \/ LoadRecord(j) \/ LoadFails(j)
         \/ SaveTriggering(j) \/ PostTrigger(j) \/ TriggerAccepted(j)
         \/ TriggerFails(j) \/ QueueLeft(j) \/ QueueFails(j) \/ ReadNumber(j)
         \/ BuildEnded(j) \/ BuildFails(j) \/ SaveFailed(j) \/ SaveFinal(j)
         \/ WebhookSent(j) \/ WebhookNotSent(j) \/ SaveNotified(j)
  PROVE  StepsLeft(j)' < StepsLeft(j)
  <1>1. /\ MaxPolls \in Nat /\ polls[j] \in 0 .. MaxPolls /\ polls'[j] \in 0 .. MaxPolls
        /\ pc'[j] \in Place
    BY ParameterAssumption DEF TypeOK
  <1>2. /\ pc[j] = "idle" => pc'[j] \in {"waiting", "refused"}
        /\ pc[j] = "waiting" => pc'[j] = "load"
        /\ pc[j] = "load" => pc'[j] \in {"saveTriggering", "done"}
        /\ pc[j] = "saveTriggering" => pc'[j] = "trigger"
        /\ pc[j] = "trigger" => pc'[j] = "answer"
        /\ pc[j] = "answer" => pc'[j] \in {"saveQueued", "saveFailed"}
        /\ pc[j] = "pollQueue" => pc'[j] \in {"readNumber", "saveFailed"}
        /\ pc[j] = "readNumber" => pc'[j] = "saveRunning"
        /\ pc[j] = "pollBuild" => pc'[j] \in {"saveFinal", "saveFailed"}
        /\ pc[j] \in {"saveFailed", "saveFinal"} => pc'[j] \in {"webhook", "done"}
        /\ pc[j] = "webhook" => pc'[j] \in {"saveNotified", "done"}
        /\ pc[j] = "saveNotified" => pc'[j] = "done"
        /\ pc[j] \in {"idle", "waiting", "load", "saveTriggering", "trigger", "answer",
                      "pollQueue", "readNumber", "pollBuild", "saveFailed", "saveFinal",
                      "webhook", "saveNotified"}
    BY DEF TypeOK, Request, AcceptItem, RefuseItem, LoseItem, AcquireSlot, LoadRecord,
           LoadFails, SaveTriggering, PostTrigger, TriggerAccepted, TriggerFails,
           QueueLeft, QueueFails, ReadNumber, BuildEnded, BuildFails, SaveFailed,
           SaveFinal, WebhookSent, WebhookNotSent, SaveNotified, GiveUp, Goto, Return,
           NotifyOrReturn
  <1> QED BY <1>1, <1>2 DEF StepsLeft

\* A poll, and the two saves before a wait, which start its count of polls.
LEMMA StepsPoll ==
  ASSUME TypeOK, NEW j \in Job,
         QueueStillWaits(j) \/ BuildStillRuns(j) \/ SaveQueued(j) \/ SaveRunning(j)
  PROVE  StepsLeft(j)' < StepsLeft(j)
  <1>1. MaxPolls \in Nat /\ polls[j] \in 0 .. MaxPolls
    BY ParameterAssumption DEF TypeOK
  <1>2. \/ /\ pc[j] \in {"pollQueue", "pollBuild"} /\ pc'[j] = pc[j]
           /\ polls'[j] = polls[j] + 1 /\ polls[j] < MaxPolls
        \/ /\ pc[j] = "saveQueued" /\ pc'[j] = "pollQueue" /\ polls'[j] = 0
        \/ /\ pc[j] = "saveRunning" /\ pc'[j] = "pollBuild" /\ polls'[j] = 0
    BY DEF TypeOK, QueueStillWaits, BuildStillRuns, SaveQueued, SaveRunning, PollAgain, Goto
  <1> QED BY <1>1, <1>2 DEF StepsLeft

\* What others do, and a crash.
LEMMA StepsOthers ==
  ASSUME TypeOK, NEW j \in Job,
         \/ Crash \/ UNCHANGED vars
         \/ \E k \in Job : Server(k)
         \/ \E k \in Job \ {j} : Request(k) \/ Goroutine(k)
  PROVE  /\ polls'[j] = polls[j]
         /\ pc'[j] = pc[j] \/ pc'[j] = "lost"
  <1>1. CASE Crash
    BY <1>1 DEF Crash
  <1>2. CASE UNCHANGED vars
    BY <1>2 DEF vars
  <1>3. ASSUME NEW k \in Job, Server(k) PROVE UNCHANGED <<pc, polls>>
    BY <1>3 DEF Server, BuildStarts, ItemCancelled, BuildFinishes
  <1>4. ASSUME NEW k \in Job \ {j}, Request(k) \/ Goroutine(k)
        PROVE  pc'[j] = pc[j] /\ polls'[j] = polls[j]
    <2>1. /\ pc' = pc \/ \E p : pc' = [pc EXCEPT ![k] = p]
          /\ polls' = polls \/ \E n : polls' = [polls EXCEPT ![k] = n]
      BY <1>4 DEF Request, AcceptItem, RefuseItem, LoseItem, Goroutine, AcquireSlot,
           LoadRecord, LoadFails, SaveTriggering, PostTrigger, TriggerAccepted,
           TriggerFails, SaveQueued, QueueStillWaits, QueueLeft, QueueFails, ReadNumber,
           SaveRunning, BuildStillRuns, BuildEnded, BuildFails, SaveFailed, SaveFinal,
           WebhookSent, WebhookNotSent, SaveNotified, GiveUp, PollAgain, Goto, Return,
           NotifyOrReturn
    <2> QED BY <2>1 DEF TypeOK
  <1> QED BY <1>1, <1>2, <1>3, <1>4

LEMMA StepsNext ==
  ASSUME TypeOK, TypeOK', [Next]_vars, NEW j \in Job
  PROVE  /\ StepsLeft(j)' <= StepsLeft(j)
         /\ Request(j) \/ Goroutine(j) => StepsLeft(j)' < StepsLeft(j)
  <1>1. StepsLeft(j) \in Nat /\ StepsLeft(j)' \in Nat
    <2>1. StepsBounded /\ StepsBounded'
      BY StepsType, PTL
    <2> QED BY <2>1, ParameterAssumption DEF StepsBounded
  <1>2. Request(j) \/ Goroutine(j) => StepsLeft(j)' < StepsLeft(j)
    BY StepsMove, StepsPoll DEF Goroutine
  <1>3. ASSUME ~(Request(j) \/ Goroutine(j)) PROVE StepsLeft(j)' <= StepsLeft(j)
    <2>1. polls'[j] = polls[j] /\ (pc'[j] = pc[j] \/ pc'[j] = "lost")
      BY <1>3, StepsOthers DEF Next
    <2>2. CASE pc'[j] = pc[j]
      <3>1. StepsLeft(j)' = StepsLeft(j)
        BY <2>1, <2>2 DEF StepsLeft
      <3> QED BY <1>1, <3>1
    <2>3. CASE pc'[j] = "lost"
      <3>1. StepsLeft(j)' = 0
        BY <2>3 DEF StepsLeft
      <3> QED BY <1>1, <3>1
    <2> QED BY <2>1, <2>2, <2>3
  <1> QED BY <1>1, <1>2, <1>3

\* A goroutine runs out of steps: from its request on an item makes at most
\* 2 * MaxPolls + 14 of them, whatever Jenkins answers, whatever save fails and
\* whatever the other goroutines do.  (That it makes them is the fairness of
\* FairSpec, which only TLC looks at.)
THEOREM GoroutinesRunOut == Spec => []StepsBounded /\ StepsRunOut
  <1>1. TypeOK /\ TypeOK' /\ [Next]_vars =>
          [\A j \in Job : /\ StepsLeft(j)' <= StepsLeft(j)
                          /\ Request(j) \/ Goroutine(j) => StepsLeft(j)' < StepsLeft(j)]_vars
    BY StepsNext
  <1> QED BY <1>1, StepsType, TypeCorrect, PTL DEF Spec, StepsRunOut

----------------------------------------------------------------------------
\* Jenkins is asked for a build of an item at most once, for good: nothing
\* triggers it again, neither a failing save nor the restart after a crash.
TriggeredOnce ==
  [][\A j \in Job : jenkins[j] # "none" => ~PostTrigger(j) /\ jenkins'[j] # "none"]_vars

THEOREM NeverTriggeredTwice == Spec => TriggeredOnce
  <1>1. ASSUME TypeOK, HistoryInv, [Next]_vars, NEW j \in Job, jenkins[j] # "none"
        PROVE  ~PostTrigger(j) /\ jenkins'[j] # "none"
    <2>1. ~PostTrigger(j)
      BY <1>1 DEF PostTrigger, Goto, HistoryInv, NotTriggered
    <2>2. ASSUME NEW k \in Job, PostTrigger(k) PROVE jenkins'[j] # "none"
      BY <1>1, <2>2 DEF PostTrigger, TypeOK
    <2>3. ASSUME NEW k \in Job, Server(k) PROVE jenkins'[j] # "none"
      BY <1>1, <2>3 DEF Server, BuildStarts, ItemCancelled, BuildFinishes, Verdict, TypeOK
    <2>4. UNCHANGED jenkins => jenkins'[j] # "none"
      BY <1>1
    <2>5. \/ \E k \in Job : PostTrigger(k) \/ Server(k)
          \/ UNCHANGED jenkins
      BY <1>1
      DEF Next, vars, Crash, Request, AcceptItem, RefuseItem, LoseItem, Goroutine,
          AcquireSlot, LoadRecord, LoadFails, SaveTriggering, TriggerAccepted,
          TriggerFails, SaveQueued, QueueStillWaits, QueueLeft, QueueFails,
          ReadNumber, SaveRunning, BuildStillRuns, BuildEnded, BuildFails,
          SaveFailed, SaveFinal, WebhookSent, WebhookNotSent, SaveNotified,
          GiveUp, PollAgain
    <2> QED BY <2>1, <2>2, <2>3, <2>4, <2>5
  <1>2. TypeOK /\ HistoryInv /\ [Next]_vars =>
          [\A j \in Job : jenkins[j] # "none" =>
             ~PostTrigger(j) /\ jenkins'[j] # "none"]_vars
    BY <1>1
  <1> QED BY <1>2, HistoryInit, HistoryNext, TypeCorrect, PTL DEF Spec, TriggeredOnce
=============================================================================
