------------------------ MODULE ReleaseRecords_proofs ------------------------
(***************************************************************************)
(* Proofs about ReleaseRecords, for any tags, requests and page size.      *)
(***************************************************************************)
EXTENDS ReleaseRecords, TLAPS

(***************************************************************************)
(* What the helpers return.                                                *)
(***************************************************************************)
\* A record made with a good id and source is one.
LEMMA RecordType ==
  ASSUME NEW id \in Tag \X (0 .. MaxTime), NEW isReady \in BOOLEAN,
         NEW source \in {"jenkins", "snapshot", "live", "static"}
  PROVE  Record(id, isReady, source) \in ReleaseRecord
BY DEF Record, ReleaseRecord

\* Ids of base records and snapshots are ids, and they differ.
LEMMA IDs ==
  /\ \A tag \in Tag : RecordID(tag) \in Tag \X (0 .. MaxTime)
  /\ \A tag \in Tag, at \in Time :
       /\ SnapshotID(tag, at) \in Tag \X (0 .. MaxTime)
       /\ \A other \in Tag : SnapshotID(tag, at) # RecordID(other)
BY RecordsAssumption DEF RecordsAssumption, RecordID, SnapshotID, Time

\* Saving a record keeps the type of the store.
LEMMA SaveType ==
  ASSUME store \subseteq ReleaseRecord, NEW record \in ReleaseRecord
  PROVE  Save(record) \subseteq ReleaseRecord
BY DEF Save

\* The snapshot of a request is a record, and the compiled-in and live records
\* are.
LEMMA BuiltType ==
  ASSUME TypeOK, NEW r \in Request
  PROVE  Snapshot(r) \in ReleaseRecord /\ Built(r) \subseteq ReleaseRecord
<1>1. app[r].tag \in Tag /\ stamp[r] \in Time /\ ready[r] \in BOOLEAN
  BY DEF TypeOK, AppSummary
<1>2. Snapshot(r) \in ReleaseRecord
  BY <1>1, IDs, RecordType DEF Snapshot
<1>3. Record(RecordID(app[r].tag), ready[r], "live") \in ReleaseRecord
  BY <1>1, IDs, RecordType
<1>4. \A tag \in Summaries : Record(RecordID(tag), TRUE, "static") \in ReleaseRecord
  BY IDs, RecordType, RecordsAssumption DEF RecordsAssumption
<1> QED
  BY <1>2, <1>3, <1>4 DEF Built

(***************************************************************************)
(* Type correctness.                                                       *)
(***************************************************************************)
\* The initial state is type-correct.
LEMMA TypeInit == Init => TypeOK
<1> SUFFICES ASSUME Init PROVE TypeOK
  OBVIOUS
<1>1. StaticTag \in Tag /\ 1 \in Time /\ 0 \in 0 .. MaxChanges
  BY RecordsAssumption DEF RecordsAssumption, Time
<1>2. StaticApp \in AppSummary
  BY <1>1 DEF StaticApp, AppSummary
<1>3. pushed \in Seq(Tag)
  BY <1>1 DEF Init
<1> QED
  BY <1>1, <1>2, <1>3 DEF Init, TypeOK

\* A step of a request preserves type correctness.
LEMMA TypeRequest ==
  ASSUME TypeOK, NEW r \in Request,
         \/ \E k \in {"snapshot", "records", "candidates"} : Begin(r, k)
         \/ ReadApp(r) \/ ReadDetail(r) \/ SaveSnapshot(r) \/ SaveFails(r) \/ List(r)
  PROVE  TypeOK'
<1> USE DEF TypeOK, world
<1>0. 1 \in Time
  BY RecordsAssumption DEF RecordsAssumption, Time
<1>1. CASE \E k \in {"snapshot", "records", "candidates"} : Begin(r, k)
  BY <1>1 DEF Begin
<1>2. CASE ReadApp(r)
  <2>1. StaticApp \in AppSummary
    BY RecordsAssumption DEF RecordsAssumption, StaticApp, AppSummary
  <2>2. \A named \in BOOLEAN : AppFromArgo(named) \in AppSummary
    BY <2>1 DEF AppFromArgo, AppSummary
  <2>3. app' \in [Request -> AppSummary] /\ told' \subseteq Request
    BY <1>2, <2>1, <2>2 DEF ReadApp
  <2> QED
    BY <1>2, <2>3 DEF ReadApp
<1>3. CASE ReadDetail(r)
  <2>1. \A images : \A objection \in BOOLEAN :
          ChecksPass(app[r], images, objection) \in BOOLEAN
    BY DEF ChecksPass
  <2>2. ready' \in [Request -> BOOLEAN]
    BY <1>3, <2>1 DEF ReadDetail
  <2> QED
    BY <1>3, <2>2 DEF ReadDetail
<1>4. CASE SaveSnapshot(r)
  BY <1>0, <1>4, BuiltType, SaveType DEF SaveSnapshot, End
<1>5. CASE SaveFails(r)
  BY <1>0, <1>5, BuiltType, SaveType DEF SaveFails, End
<1>6. CASE List(r)
  <2>1. \A stored : stored \subseteq ReleaseRecord =>
          LoadRecords(r, stored) \subseteq ReleaseRecord
    BY BuiltType DEF LoadRecords
  <2>2. \A records : RollbackCandidates(r, records) \subseteq records
    BY DEF RollbackCandidates
  <2>3. answer' \in [Request -> SUBSET ReleaseRecord] /\ listed' \in [Request -> BOOLEAN]
    <3>1. PICK ok \in BOOLEAN :
            LET records == LoadRecords(r, IF ok THEN store ELSE {}) IN
            /\ listed' = [listed EXCEPT ![r] = ok]
            /\ answer' = [answer EXCEPT ![r] =
                 IF kind[r] = "records" THEN records ELSE RollbackCandidates(r, records)]
      BY <1>6 DEF List
    <3>2. LoadRecords(r, IF ok THEN store ELSE {}) \subseteq ReleaseRecord
      BY <2>1
    <3> QED
      BY <3>1, <3>2, <2>2
  <2> QED
    BY <1>0, <1>6, <2>3 DEF List, End
<1> QED
  BY <1>1, <1>2, <1>3, <1>4, <1>5, <1>6

\* Every step preserves type correctness.
LEMMA TypeNext == TypeOK /\ [Next]_vars => TypeOK'
<1> SUFFICES ASSUME TypeOK, [Next]_vars PROVE TypeOK'
  OBVIOUS
<1>1. ASSUME NEW tag \in Tag, Post(tag) PROVE TypeOK'
  <2>1. Save(Record(RecordID(tag), TRUE, "jenkins")) \subseteq ReleaseRecord
    BY IDs, RecordType, SaveType DEF TypeOK
  <2> QED
    BY <1>1, <2>1 DEF Post, TypeOK, world, requests
<1>2. ASSUME NEW tag \in Tag, Push(tag) PROVE TypeOK'
  <2>1. pushed' \in Seq(Tag)
    BY <1>2 DEF Push, TypeOK
  <2> QED
    BY <1>2, <2>1 DEF Push, TypeOK, requests
<1>3. ASSUME NEW tag \in Tag, Change(tag) PROVE TypeOK'
  <2>1. changes' \in 0 .. MaxChanges
    BY <1>3, RecordsAssumption DEF Change, TypeOK, RecordsAssumption
  <2>2. stayed' \in [Request -> SUBSET Tag]
    BY <1>3 DEF Change, TypeOK
  <2> QED
    BY <1>3, <2>1, <2>2 DEF Change, TypeOK, requests
<1>4. ASSUME NEW r \in Request,
             \/ \E k \in {"snapshot", "records", "candidates"} : Begin(r, k)
             \/ ReadApp(r) \/ ReadDetail(r) \/ SaveSnapshot(r) \/ SaveFails(r) \/ List(r)
      PROVE TypeOK'
  BY <1>4, TypeRequest
<1>5. CASE Tick
  BY <1>5, RecordsAssumption DEF Tick, TypeOK, requests, RecordsAssumption, Time
<1>6. CASE UNCHANGED vars
  BY <1>6 DEF vars, world, requests, TypeOK
<1> QED
  BY <1>1, <1>2, <1>3, <1>4, <1>5, <1>6 DEF Next

\* Type correctness of the release records.
THEOREM TypeCorrect == Spec => []TypeOK
BY TypeInit, TypeNext, PTL DEF Spec

(***************************************************************************)
(* What a step does to the store and to the histories.                     *)
(***************************************************************************)
Base(tag) == Record(RecordID(tag), TRUE, "jenkins")

RequestStep(r) ==
  \/ \E k \in {"snapshot", "records", "candidates"} : Begin(r, k)
  \/ ReadApp(r) \/ ReadDetail(r) \/ SaveSnapshot(r) \/ SaveFails(r) \/ List(r)

\* The store changes by saving a posted record or the snapshot of a request.
LEMMA StoreStep ==
  ASSUME TypeOK, [Next]_vars
  PROVE  \/ store' = store
         \/ \E tag \in Tag : store' = Save(Base(tag))
         \/ \E r \in Request : pc[r] = "save" /\ store' = Save(Snapshot(r))
<1>1. CASE \E tag \in Tag : Post(tag) \/ Push(tag) \/ Change(tag)
  BY <1>1 DEF Post, Push, Change, Base
<1>2. CASE \E r \in Request : RequestStep(r)
  BY <1>2 DEF RequestStep, Begin, ReadApp, ReadDetail, SaveSnapshot, SaveFails, List
<1>3. CASE Tick \/ UNCHANGED vars
  BY <1>3 DEF Tick, vars
<1> QED
  BY <1>1, <1>2, <1>3 DEF Next, RequestStep

\* The history of good releases only grows.
LEMMA GoodGrows == ASSUME [Next]_vars PROVE good \subseteq good'
<1>1. CASE \E tag \in Tag : Post(tag) \/ Push(tag) \/ Change(tag)
  BY <1>1 DEF Post, Push, Change
<1>2. CASE \E r \in Request : RequestStep(r)
  BY <1>2 DEF RequestStep, Begin, ReadApp, ReadDetail, SaveSnapshot, SaveFails, List
<1>3. CASE Tick \/ UNCHANGED vars
  BY <1>3 DEF Tick, vars
<1> QED
  BY <1>1, <1>2, <1>3 DEF Next, RequestStep

\* The tag and the fields of a record made by Record.
LEMMA RecordFields ==
  /\ \A tag \in Tag : /\ Base(tag).source = "jenkins" /\ Base(tag).id = RecordID(tag)
                      /\ Base(tag).status = "succeeded" /\ Base(tag).id[1] = tag
  /\ \A r \in Request : /\ Snapshot(r).source = "snapshot"
                        /\ Snapshot(r).id = SnapshotID(app[r].tag, stamp[r])
                        /\ Snapshot(r).id[1] = app[r].tag
                        /\ Snapshot(r).status = "succeeded" <=> ready[r]
BY DEF Base, Snapshot, Record, RecordID, SnapshotID

(***************************************************************************)
(* The inductive invariant.  StoreTrue says what the rows are, the others  *)
(* what a request still knows of its beginning.                            *)
(***************************************************************************)
GoodTags == good \cup {StaticTag}

StoreTrue == \A x \in store :
  \/ \E tag \in Tag : x = Base(tag)
  \/ /\ x.source = "snapshot"
     /\ \E tag \in Tag, at \in Time : x.id = SnapshotID(tag, at)
     /\ x.status = "succeeded" => x.id[1] \in GoodTags

ReadTrue ==
  /\ verdict # "bad" => running \in good
  /\ \A r \in Request :
       /\ app[r].healthy => app[r].tag \in GoodTags
       /\ ready[r] => app[r].healthy
       /\ pc[r] \in {"start", "app", "done", "refused"} => ~ready[r]

StayedTrue == \A r \in Request :
  /\ pc[r] = "app" => stayed[r] \subseteq {running}
  /\ pc[r] \in {"start", "app"} => r \notin told
  /\ pc[r] \notin {"start", "app"} /\ r \in told => stayed[r] \subseteq {app[r].tag}
  /\ Answered(r, "candidates") => app[r].tag \notin Tags(answer[r])
  /\ pc[r] = "save" => kind[r] = "snapshot"
  /\ pc[r] = "list" => kind[r] \in {"records", "candidates"}
  /\ pc[r] \notin {"start"} => kind[r] # "none"

ConfirmedTrue ==
  /\ \A tag \in confirmed : Base(tag) \in store
  /\ \A r \in Request : before[r] \subseteq confirmed /\ (listed[r] => pc[r] = "done")

RecordsInv == TypeOK /\ StoreTrue /\ ReadTrue /\ StayedTrue /\ ConfirmedTrue

\* The initial state satisfies it.
LEMMA RecordsInit == Init => RecordsInv
<1> SUFFICES ASSUME Init PROVE RecordsInv
  OBVIOUS
<1>1. TypeOK
  BY TypeInit
<1>2. ReadTrue
  BY DEF Init, ReadTrue, GoodTags, StaticApp
<1>3. StayedTrue
  BY DEF Init, StayedTrue, Answered
<1> QED
  BY <1>1, <1>2, <1>3 DEF Init, RecordsInv, StoreTrue, ConfirmedTrue

\* A posted record is never replaced by anything else.
LEMMA BaseKept ==
  ASSUME RecordsInv, [Next]_vars, NEW x \in store, x.source = "jenkins"
  PROVE  x \in store'
<1>1. PICK tag \in Tag : x = Base(tag)
  BY DEF RecordsInv, StoreTrue
<1>2. ASSUME NEW other \in Tag, store' = Save(Base(other)) PROVE x \in store'
  <2>1. CASE other = tag
    BY <2>1, <1>1, <1>2 DEF Save
  <2>2. CASE other # tag
    BY <2>2, <1>1, <1>2, RecordFields DEF Save
  <2> QED
    BY <2>1, <2>2
<1>3. ASSUME NEW r \in Request, store' = Save(Snapshot(r)) PROVE x \in store'
  <2>1. app[r].tag \in Tag /\ stamp[r] \in Time
    BY DEF RecordsInv, TypeOK, AppSummary
  <2>2. Snapshot(r).id # x.id
    BY <2>1, <1>1, RecordFields, IDs
  <2> QED
    BY <2>2, <1>3 DEF Save
<1> QED
  BY <1>2, <1>3, StoreStep DEF RecordsInv

\* Every step preserves what the rows are.
LEMMA StoreNext == RecordsInv /\ [Next]_vars => StoreTrue'
<1> SUFFICES ASSUME RecordsInv, [Next]_vars, NEW x \in store'
             PROVE  \/ \E tag \in Tag : x = Base(tag)
                    \/ /\ x.source = "snapshot"
                       /\ \E tag \in Tag, at \in Time : x.id = SnapshotID(tag, at)
                       /\ x.status = "succeeded" => x.id[1] \in GoodTags'
  BY DEF StoreTrue, Base
<1>1. GoodTags \subseteq GoodTags'
  BY GoodGrows DEF GoodTags
<1>2. CASE x \in store
  BY <1>1, <1>2 DEF RecordsInv, StoreTrue
<1>3. CASE \E tag \in Tag : x = Base(tag)
  BY <1>3
<1>4. ASSUME NEW r \in Request, x = Snapshot(r)
      PROVE  /\ x.source = "snapshot"
             /\ \E tag \in Tag, at \in Time : x.id = SnapshotID(tag, at)
             /\ x.status = "succeeded" => x.id[1] \in GoodTags'
  <2>1. app[r].tag \in Tag /\ stamp[r] \in Time
    BY DEF RecordsInv, TypeOK, AppSummary
  <2>2. ready[r] => app[r].tag \in GoodTags
    BY DEF RecordsInv, ReadTrue
  <2> QED
    BY <2>1, <2>2, <1>1, <1>4, RecordFields
<1>5. x \in store \/ (\E tag \in Tag : x = Base(tag)) \/ \E r \in Request : x = Snapshot(r)
  BY StoreStep DEF Save, RecordsInv
<1> QED
  BY <1>2, <1>3, <1>4, <1>5

\* Every step preserves what the requests have read.
LEMMA ReadNext == RecordsInv /\ [Next]_vars => ReadTrue'
<1> SUFFICES ASSUME RecordsInv, [Next]_vars PROVE ReadTrue'
  OBVIOUS
<1> USE DEF RecordsInv, ReadTrue, GoodTags, world, requests
<1>1. ASSUME NEW tag \in Tag, Post(tag) \/ Push(tag) PROVE ReadTrue'
  <2>1. UNCHANGED <<running, verdict, good, pc, app, ready>>
    BY <1>1 DEF Post, Push
  <2> QED
    BY <2>1
<1>2. ASSUME NEW tag \in Tag, Change(tag) PROVE ReadTrue'
  <2>1. verdict' # "bad" => running' \in good'
    BY <1>2 DEF Change
  <2>2. good \subseteq good'
    BY <1>2 DEF Change
  <2>3. pc' = pc /\ app' = app /\ ready' = ready
    BY <1>2 DEF Change
  <2>4. \A r \in Request : app'[r].healthy => app'[r].tag \in good' \cup {StaticTag}
    BY <2>2, <2>3
  <2>5. \A r \in Request : /\ ready'[r] => app'[r].healthy
                           /\ pc'[r] \in {"start", "app", "done", "refused"} => ~ready'[r]
    BY <2>3
  <2> QED
    BY <2>1, <2>4, <2>5
<1>3. ASSUME NEW r \in Request, RequestStep(r) PROVE ReadTrue'
  <2>1. CASE \E k \in {"snapshot", "records", "candidates"} : Begin(r, k)
    BY <2>1 DEF Begin, TypeOK
  <2>2. CASE ReadApp(r)
    <3>1. /\ UNCHANGED <<running, verdict, good, ready>>
          /\ \A q \in Request \ {r} : app'[q] = app[q] /\ pc'[q] = pc[q]
          /\ pc[r] = "app" /\ pc'[r] = "detail"
      BY <2>2 DEF ReadApp, TypeOK
    <3>2. /\ StaticApp.tag = StaticTag
          /\ \A named \in BOOLEAN :
               AppFromArgo(named).healthy => AppFromArgo(named).tag \in GoodTags
      BY DEF StaticApp, AppFromArgo
    <3>3. app'[r] = StaticApp \/ \E named \in BOOLEAN : app'[r] = AppFromArgo(named)
      BY <2>2 DEF ReadApp, TypeOK
    <3>4. app'[r].healthy => app'[r].tag \in GoodTags
      BY <3>2, <3>3
    <3> QED
      BY <3>1, <3>4
  <2>3. CASE ReadDetail(r)
    <3>1. ready'[r] => app[r].healthy
      BY <2>3 DEF ReadDetail, ChecksPass, TypeOK
    <3>2. \A q \in Request \ {r} : ready'[q] = ready[q] /\ pc'[q] = pc[q]
      BY <2>3 DEF ReadDetail, TypeOK
    <3>3. pc'[r] \in {"save", "list"}
      BY <2>3 DEF ReadDetail, TypeOK
    <3> QED
      BY <2>3, <3>1, <3>2, <3>3 DEF ReadDetail
  <2>4. CASE SaveSnapshot(r) \/ SaveFails(r) \/ List(r)
    BY <2>4 DEF SaveSnapshot, SaveFails, List, End, TypeOK
  <2> QED
    BY <1>3, <2>1, <2>2, <2>3, <2>4 DEF RequestStep
<1>4. CASE Tick \/ UNCHANGED vars
  BY <1>4 DEF Tick, vars
<1> QED
  BY <1>1, <1>2, <1>3, <1>4 DEF Next, RequestStep

\* The filter never lets the tag of the AppSummary through.
LEMMA Excluded ==
  ASSUME NEW r \in Request, NEW records
  PROVE  app[r].tag \notin Tags(RollbackCandidates(r, records))
BY DEF Tags, RollbackCandidates

\* Every step preserves what a request knows of the running tag.
LEMMA StayedNext == RecordsInv /\ [Next]_vars => StayedTrue'
<1> SUFFICES ASSUME RecordsInv, [Next]_vars PROVE StayedTrue'
  OBVIOUS
<1> USE DEF RecordsInv, StayedTrue, world, requests, Answered, Tags
<1>1. ASSUME NEW tag \in Tag, Post(tag) \/ Push(tag) PROVE StayedTrue'
  BY <1>1 DEF Post, Push
<1>2. ASSUME NEW tag \in Tag, Change(tag) PROVE StayedTrue'
  BY <1>2 DEF Change, TypeOK
<1>3. ASSUME NEW r \in Request, RequestStep(r) PROVE StayedTrue'
  <2>1. CASE \E k \in {"snapshot", "records", "candidates"} : Begin(r, k)
    BY <2>1 DEF Begin, TypeOK
  <2>2. CASE ReadApp(r)
    <3>1. /\ running' = running /\ kind' = kind /\ stayed' = stayed /\ answer' = answer
          /\ \A q \in Request \ {r} :
               /\ app'[q] = app[q] /\ pc'[q] = pc[q]
               /\ q \in told' <=> q \in told
          /\ pc[r] = "app" /\ pc'[r] = "detail" /\ r \notin told
      BY <2>2 DEF ReadApp, TypeOK
    <3>2. r \in told' => app'[r] = AppFromArgo(TRUE)
      BY <2>2, <3>1 DEF ReadApp, TypeOK
    <3>3. r \in told' => stayed[r] \subseteq {app'[r].tag}
      BY <3>1, <3>2 DEF AppFromArgo
    <3> QED
      BY <3>1, <3>3
  <2>3. CASE ReadDetail(r)
    BY <2>3 DEF ReadDetail, TypeOK
  <2>4. CASE SaveSnapshot(r)
    <3>1. kind[r] # "candidates"
      BY <2>4 DEF SaveSnapshot
    <3> QED
      BY <2>4, <3>1 DEF SaveSnapshot, End, TypeOK
  <2>5. CASE SaveFails(r)
    BY <2>5 DEF SaveFails, End, TypeOK
  <2>6. CASE List(r)
    <3>1. kind[r] = "candidates" => app[r].tag \notin Tags(answer'[r])
      BY <2>6, Excluded DEF List, TypeOK
    <3> QED
      BY <2>6, <3>1 DEF List, End, TypeOK
  <2> QED
    BY <1>3, <2>1, <2>2, <2>3, <2>4, <2>5, <2>6 DEF RequestStep
<1>4. CASE Tick \/ UNCHANGED vars
  BY <1>4 DEF Tick, vars
<1> QED
  BY <1>1, <1>2, <1>3, <1>4 DEF Next, RequestStep

\* Every step preserves what is confirmed.
LEMMA ConfirmedNext == RecordsInv /\ [Next]_vars => ConfirmedTrue'
<1> SUFFICES ASSUME RecordsInv, [Next]_vars PROVE ConfirmedTrue'
  OBVIOUS
<1>1. \A tag \in confirmed : Base(tag) \in store'
  BY BaseKept, RecordFields DEF RecordsInv, ConfirmedTrue, TypeOK
<1>2. \A tag : Base(tag)' = Base(tag)
  BY DEF Base, Record, RecordID
<1> USE DEF RecordsInv, ConfirmedTrue, TypeOK, world, requests
<1>3. ASSUME NEW tag \in Tag, Post(tag) PROVE ConfirmedTrue'
  <2>1. Base(tag) \in store'
    BY <1>3 DEF Post, Save, Base
  <2> QED
    BY <1>1, <1>2, <1>3, <2>1 DEF Post
<1>4. ASSUME NEW tag \in Tag, Push(tag) \/ Change(tag) PROVE ConfirmedTrue'
  BY <1>1, <1>2, <1>4 DEF Push, Change
<1>5. ASSUME NEW r \in Request, RequestStep(r) PROVE ConfirmedTrue'
  BY <1>1, <1>2, <1>5
     DEF RequestStep, Begin, ReadApp, ReadDetail, SaveSnapshot, SaveFails, List, End
<1>6. CASE Tick \/ UNCHANGED vars
  BY <1>1, <1>2, <1>6 DEF Tick, vars
<1> QED
  BY <1>3, <1>4, <1>5, <1>6 DEF Next, RequestStep

\* The invariant is inductive.
LEMMA RecordsNext == RecordsInv /\ [Next]_vars => RecordsInv'
BY TypeNext, StoreNext, ReadNext, StayedNext, ConfirmedNext DEF RecordsInv

(***************************************************************************)
(* The theorems.                                                           *)
(***************************************************************************)
\* If Argo CD answered with the running image, no candidate is the release that
\* ran all through.
THEOREM RunningExcluded == Spec => []CandidatesNotRunning
<1>1. RecordsInv => CandidatesNotRunning
  BY DEF RecordsInv, StayedTrue, CandidatesNotRunning, Answered
<1> QED
  BY <1>1, RecordsInit, RecordsNext, PTL DEF Spec

\* A posted record stays as it was posted: no snapshot overwrites it.
THEOREM BaseRecordsStay == Spec => BaseRecordsKept
<1>1. RecordsInv /\ [Next]_vars =>
        [\A x \in store : x.source = "jenkins" => x \in store']_vars
  BY BaseKept
<1> QED
  BY <1>1, RecordsInit, RecordsNext, PTL DEF Spec, BaseRecordsKept

(***************************************************************************)
(* The three properties of answers: what a request finds in the store when *)
(* it ends, and that the store does not take it back.                      *)
(***************************************************************************)
ListedInv == RecordsInv /\ ConfirmedRecordsListed

\* A request that ends lists what was confirmed when it began.
LEMMA ListedNext == ListedInv /\ [Next]_vars => ListedInv'
<1> SUFFICES ASSUME ListedInv, [Next]_vars PROVE ConfirmedRecordsListed'
  BY RecordsNext DEF ListedInv
<1> USE DEF ListedInv, RecordsInv, ConfirmedTrue, ConfirmedRecordsListed, TypeOK, world,
            requests
<1>0. \A tag : Record(RecordID(tag), TRUE, "jenkins")' = Record(RecordID(tag), TRUE, "jenkins")
  BY DEF Record, RecordID
<1>1. CASE \E tag \in Tag : Post(tag) \/ Push(tag) \/ Change(tag)
  BY <1>0, <1>1 DEF Post, Push, Change
<1>2. ASSUME NEW r \in Request, RequestStep(r) PROVE ConfirmedRecordsListed'
  <2>1. CASE ~List(r)
    <3>1. CASE \E k \in {"snapshot", "records", "candidates"} : Begin(r, k)
      <4>1. PICK k \in {"snapshot", "records", "candidates"} : Begin(r, k)
        BY <3>1
      <4>2. ~listed[r] /\ UNCHANGED <<listed, answer, app>>
        BY <4>1 DEF Begin
      <4>3. \A s \in Request \ {r} : before'[s] = before[s] /\ kind'[s] = kind[s]
        BY <4>1 DEF Begin
      <4> QED
        BY <1>0, <4>2, <4>3
    <3>2. CASE ReadApp(r)
      BY <1>0, <3>2 DEF ReadApp
    <3>3. CASE ReadDetail(r)
      BY <1>0, <3>3 DEF ReadDetail
    <3>4. CASE SaveSnapshot(r)
      BY <1>0, <3>4 DEF SaveSnapshot, End
    <3>5. CASE SaveFails(r)
      BY <1>0, <3>5 DEF SaveFails, End
    <3> QED
      BY <1>2, <2>1, <3>1, <3>2, <3>3, <3>4, <3>5 DEF RequestStep
  <2>2. CASE List(r)
    <3>1. SUFFICES ASSUME listed'[r], NEW tag \in before[r]
                   PROVE  \/ Base(tag) \in answer'[r]
                          \/ kind[r] = "candidates" /\ tag = app[r].tag
      BY <1>0, <2>2 DEF List, End, Base
    <3>2. Base(tag) \in LoadRecords(r, store)
      BY DEF LoadRecords
    <3>3. Base(tag).id[1] = tag /\ Base(tag).status = "succeeded"
      BY RecordFields
    <3>4. CASE kind[r] = "records"
      BY <2>2, <3>1, <3>2, <3>4 DEF List
    <3>5. CASE kind[r] # "records"
      <4>1. answer'[r] = RollbackCandidates(r, LoadRecords(r, store))
        BY <2>2, <3>1, <3>5 DEF List
      <4>2. kind[r] = "candidates"
        BY <2>2, <3>5 DEF List, StayedTrue
      <4> QED
        BY <3>2, <3>3, <4>1, <4>2 DEF RollbackCandidates
    <3> QED
      BY <3>4, <3>5
  <2> QED
    BY <2>1, <2>2
<1>3. CASE Tick \/ UNCHANGED vars
  BY <1>0, <1>3 DEF Tick, vars
<1> QED
  BY <1>1, <1>2, <1>3 DEF Next, RequestStep

\* A record confirmed before a request began is in its answer as it was posted,
\* unless it is the one the AppSummary names, which candidates leave out.
THEOREM ConfirmedListed == Spec => []ConfirmedRecordsListed
<1>1. Init => ListedInv
  BY RecordsInit DEF ListedInv, Init, ConfirmedRecordsListed
<1>2. ListedInv => ConfirmedRecordsListed
  BY DEF ListedInv
<1> QED
  BY <1>1, <1>2, ListedNext, PTL DEF Spec

\* Argo CD has had nothing against a candidate, or a pipeline has reported it, or
\* it is the compiled-in release.
CandidateTrue(tag) == tag \in GoodTags \/ Base(tag) \in store

CandidatesInv == RecordsInv /\ CandidatesWereReady

\* What a request finds among the candidates has been good.
LEMMA FoundTrue ==
  ASSUME RecordsInv, NEW r \in Request, NEW stored \in SUBSET store,
         NEW x \in RollbackCandidates(r, LoadRecords(r, stored))
  PROVE  CandidateTrue(x.id[1])
<1>1. x.id[1] # app[r].tag /\ x.status = "succeeded"
  BY DEF RollbackCandidates
<1>2. CASE x \in stored
  BY <1>1, <1>2, RecordFields DEF RecordsInv, StoreTrue, CandidateTrue
<1>3. CASE x \in Built(r)
  <2>1. x # Record(RecordID(app[r].tag), ready[r], "live")
    BY <1>1 DEF Record, RecordID
  <2>2. PICK tag \in Summaries : x = Record(RecordID(tag), TRUE, "static")
    BY <1>3, <2>1 DEF Built
  <2> QED
    BY <2>2, RecordsAssumption
       DEF RecordsAssumption, Record, RecordID, CandidateTrue, GoodTags
<1> QED
  BY <1>2, <1>3 DEF RollbackCandidates, LoadRecords

\* What was good stays good.
LEMMA TrueStays ==
  ASSUME RecordsInv, [Next]_vars, NEW tag \in Tag, CandidateTrue(tag)
  PROVE  CandidateTrue(tag)'
<1>1. Base(tag)' = Base(tag)
  BY DEF Base, Record, RecordID
<1>2. CASE tag \in GoodTags
  BY <1>2, GoodGrows DEF CandidateTrue, GoodTags
<1>3. CASE Base(tag) \in store
  BY <1>1, <1>3, BaseKept, RecordFields DEF CandidateTrue
<1> QED
  BY <1>2, <1>3 DEF CandidateTrue

\* A request that ends answers with good candidates, and they stay good.
LEMMA CandidatesNext == CandidatesInv /\ [Next]_vars => CandidatesInv'
<1> SUFFICES ASSUME CandidatesInv, [Next]_vars,
                    NEW q \in Request, Answered(q, "candidates")',
                    NEW x \in answer'[q]
             PROVE  CandidateTrue(x.id[1])'
  BY RecordsNext DEF CandidatesInv, CandidatesWereReady, CandidateTrue, GoodTags, Base, Tags
<1> USE DEF CandidatesInv, RecordsInv
<1>1. x \in ReleaseRecord /\ x.id[1] \in Tag
  BY TypeNext DEF TypeOK, ReleaseRecord
<1>2. CASE Answered(q, "candidates") /\ answer'[q] = answer[q]
  BY <1>1, <1>2, TrueStays
     DEF CandidatesWereReady, CandidateTrue, GoodTags, Base, Tags
<1>3. CASE List(q)
  <2>1. kind[q] = "candidates"
    BY <1>3 DEF List, Answered
  <2>2. PICK stored \in SUBSET store :
          answer'[q] = RollbackCandidates(q, LoadRecords(q, stored))
    <3>1. PICK ok \in BOOLEAN :
            answer' = [answer EXCEPT ![q] =
              RollbackCandidates(q, LoadRecords(q, IF ok THEN store ELSE {}))]
      BY <1>3, <2>1 DEF List
    <3>2. (IF ok THEN store ELSE {}) \in SUBSET store
      OBVIOUS
    <3> QED
      BY <3>1, <3>2 DEF TypeOK
  <2>3. CandidateTrue(x.id[1])
    BY <2>2, FoundTrue
  <2> QED
    BY <1>1, <2>3, TrueStays
<1>4. (Answered(q, "candidates") /\ answer'[q] = answer[q]) \/ List(q)
  <2> USE DEF Answered, TypeOK, world, requests
  <2>1. CASE \E tag \in Tag : Post(tag) \/ Push(tag) \/ Change(tag)
    BY <2>1 DEF Post, Push, Change
  <2>2. ASSUME NEW r \in Request, RequestStep(r), ~List(q)
        PROVE Answered(q, "candidates") /\ answer'[q] = answer[q]
    <3>1. CASE \E k \in {"snapshot", "records", "candidates"} : Begin(r, k)
      BY <3>1 DEF Begin
    <3>2. CASE ReadApp(r)
      BY <3>2 DEF ReadApp
    <3>3. CASE ReadDetail(r)
      BY <3>3 DEF ReadDetail
    <3>4. CASE SaveSnapshot(r)
      BY <3>4 DEF SaveSnapshot, End, StayedTrue
    <3>5. CASE SaveFails(r)
      BY <3>5 DEF SaveFails, End
    <3>6. CASE List(r)
      BY <2>2, <3>6 DEF List, End
    <3> QED
      BY <2>2, <3>1, <3>2, <3>3, <3>4, <3>5, <3>6 DEF RequestStep
  <2>3. CASE Tick \/ UNCHANGED vars
    BY <2>3 DEF Tick, vars
  <2> QED
    BY <2>1, <2>2, <2>3 DEF Next, RequestStep
<1> QED
  BY <1>2, <1>3, <1>4

\* Argo CD has once had nothing to say against a rollback candidate, or it was
\* reported by a pipeline, or is the compiled-in release.
THEOREM CandidatesReady == Spec => []CandidatesWereReady
<1>1. Init => CandidatesInv
  BY RecordsInit DEF CandidatesInv, Init, CandidatesWereReady, Answered
<1>2. CandidatesInv => CandidatesWereReady
  BY DEF CandidatesInv
<1> QED
  BY <1>1, <1>2, CandidatesNext, PTL DEF Spec

\* A row is only replaced by one of the same id and source.
LEMMA RowStays ==
  ASSUME RecordsInv, [Next]_vars, NEW y \in store
  PROVE  \E z \in store' : z.id = y.id /\ z.source = y.source
<1>1. CASE y.source = "jenkins"
  BY <1>1, BaseKept
<1>2. CASE y.source # "jenkins"
  <2>1. PICK tag \in Tag, at \in Time : y.source = "snapshot" /\ y.id = SnapshotID(tag, at)
    BY <1>2, RecordFields DEF RecordsInv, StoreTrue
  <2>2. CASE store' = store
    BY <2>2
  <2>3. ASSUME NEW other \in Tag, store' = Save(Base(other)) PROVE y \in store'
    BY <2>1, <2>3, IDs, RecordFields DEF Save
  <2>4. ASSUME NEW r \in Request, store' = Save(Snapshot(r))
        PROVE  y \in store' \/ (Snapshot(r) \in store' /\ Snapshot(r).id = y.id)
    BY <2>4 DEF Save
  <2> QED
    BY <2>1, <2>2, <2>3, <2>4, StoreStep, RecordFields DEF RecordsInv
<1> QED
  BY <1>1, <1>2

SnapshotsInv == RecordsInv /\ SnapshotsKept

\* A snapshot is in the store when it is confirmed, and its row stays.
LEMMA SnapshotsNext == SnapshotsInv /\ [Next]_vars => SnapshotsInv'
<1> SUFFICES ASSUME SnapshotsInv, [Next]_vars,
                    NEW q \in Request, Answered(q, "snapshot")',
                    NEW x \in answer'[q]
             PROVE  \E y \in store' : y.id = x.id /\ y.source = x.source
  BY RecordsNext DEF SnapshotsInv, SnapshotsKept
<1> USE DEF SnapshotsInv, RecordsInv
<1>1. CASE Answered(q, "snapshot") /\ answer'[q] = answer[q]
  <2>1. PICK y \in store : y.id = x.id /\ y.source = x.source
    BY <1>1 DEF SnapshotsKept
  <2> QED
    BY <2>1, RowStays
<1>2. CASE SaveSnapshot(q)
  BY <1>2 DEF SaveSnapshot, Save, TypeOK
<1>3. (Answered(q, "snapshot") /\ answer'[q] = answer[q]) \/ SaveSnapshot(q)
  <2> USE DEF Answered, TypeOK, world, requests
  <2>1. CASE \E tag \in Tag : Post(tag) \/ Push(tag) \/ Change(tag)
    BY <2>1 DEF Post, Push, Change
  <2>2. ASSUME NEW r \in Request, RequestStep(r), ~SaveSnapshot(q)
        PROVE Answered(q, "snapshot") /\ answer'[q] = answer[q]
    <3>1. CASE \E k \in {"snapshot", "records", "candidates"} : Begin(r, k)
      BY <3>1 DEF Begin
    <3>2. CASE ReadApp(r)
      BY <3>2 DEF ReadApp
    <3>3. CASE ReadDetail(r)
      BY <3>3 DEF ReadDetail
    <3>4. CASE SaveSnapshot(r)
      BY <2>2, <3>4 DEF SaveSnapshot, End
    <3>5. CASE SaveFails(r)
      BY <3>5 DEF SaveFails, End
    <3>6. CASE List(r)
      BY <3>6 DEF List, End, StayedTrue
    <3> QED
      BY <2>2, <3>1, <3>2, <3>3, <3>4, <3>5, <3>6 DEF RequestStep
  <2>3. CASE Tick \/ UNCHANGED vars
    BY <2>3 DEF Tick, vars
  <2> QED
    BY <2>1, <2>2, <2>3 DEF Next, RequestStep
<1> QED
  BY <1>1, <1>2, <1>3

\* A confirmed snapshot stays, unless one of the same tag and second takes its
\* row.
THEOREM SnapshotsStay == Spec => []SnapshotsKept
<1>1. Init => SnapshotsInv
  BY RecordsInit DEF SnapshotsInv, Init, SnapshotsKept, Answered
<1>2. SnapshotsInv => SnapshotsKept
  BY DEF SnapshotsInv
<1> QED
  BY <1>1, <1>2, SnapshotsNext, PTL DEF Spec

(***************************************************************************)
(* What the answers are made of.                                           *)
(***************************************************************************)
\* An answer is given once: a snapshot, or records from what the store held,
\* or some of these.
LEMMA AnswerStep ==
  ASSUME TypeOK, [Next]_vars, NEW q \in Request
  PROVE  \/ answer'[q] = answer[q]
         \/ answer'[q] = {Snapshot(q)}
         \/ \E stored \in {store, {}} :
              store' = store /\ answer'[q] \subseteq LoadRecords(q, stored)
<1>1. CASE \E tag \in Tag : Post(tag) \/ Push(tag) \/ Change(tag)
  BY <1>1 DEF Post, Push, Change, requests
<1>2. ASSUME NEW r \in Request, RequestStep(r)
      PROVE  \/ answer'[q] = answer[q]
             \/ answer'[q] = {Snapshot(q)}
             \/ \E stored \in {store, {}} :
                  store' = store /\ answer'[q] \subseteq LoadRecords(q, stored)
  <2>1. CASE List(r)
    <3>1. PICK ok \in BOOLEAN :
            answer' = [answer EXCEPT ![r] =
              IF kind[r] = "records" THEN LoadRecords(r, IF ok THEN store ELSE {})
              ELSE RollbackCandidates(r, LoadRecords(r, IF ok THEN store ELSE {}))]
      BY <2>1 DEF List
    <3>2. PICK stored \in {store, {}} : stored = IF ok THEN store ELSE {}
      OBVIOUS
    <3>3. RollbackCandidates(r, LoadRecords(r, stored)) \subseteq LoadRecords(r, stored)
      BY DEF RollbackCandidates
    <3>4. store' = store
      BY <2>1 DEF List
    <3> QED
      BY <3>1, <3>2, <3>3, <3>4 DEF TypeOK
  <2>2. CASE SaveSnapshot(r)
    BY <2>2 DEF SaveSnapshot, TypeOK
  <2>3. CASE \/ \E k \in {"snapshot", "records", "candidates"} : Begin(r, k)
             \/ ReadApp(r) \/ ReadDetail(r) \/ SaveFails(r)
    BY <2>3 DEF Begin, ReadApp, ReadDetail, SaveFails
  <2> QED
    BY <1>2, <2>1, <2>2, <2>3 DEF RequestStep
<1>3. CASE Tick \/ UNCHANGED vars
  BY <1>3 DEF Tick, vars, requests
<1> QED
  BY <1>1, <1>2, <1>3 DEF Next, RequestStep

IdsOnce(records) == \A x, y \in records : x.id = y.id => x = y

\* No id twice, in the table or in an answer.
NoDoubles == IdsOnce(store) /\ \A r \in Request : IdsOnce(answer[r])

DoublesInv == TypeOK /\ NoDoubles

\* The records built for an answer differ in their ids, and from those the
\* store adds.
LEMMA LoadedOnce ==
  ASSUME NEW r \in Request, NEW stored, IdsOnce(stored)
  PROVE  IdsOnce(LoadRecords(r, stored))
<1>1. IdsOnce(Built(r))
  BY DEF IdsOnce, Built, Record, RecordID
<1> QED
  BY <1>1 DEF IdsOnce, LoadRecords

LEMMA DoublesNext == DoublesInv /\ [Next]_vars => DoublesInv'
<1> SUFFICES ASSUME DoublesInv, [Next]_vars PROVE DoublesInv'
  OBVIOUS
<1>1. IdsOnce(store')
  <2>1. \A record : IdsOnce(Save(record))
    BY DEF DoublesInv, NoDoubles, IdsOnce, Save
  <2> QED
    BY <2>1, StoreStep DEF DoublesInv, NoDoubles
<1>2. ASSUME NEW q \in Request PROVE IdsOnce(answer'[q])
  <2>1. IdsOnce({}) /\ IdsOnce({Snapshot(q)}) /\ IdsOnce(store) /\ IdsOnce(answer[q])
    BY DEF DoublesInv, NoDoubles, IdsOnce
  <2>2. \A stored \in {store, {}} : IdsOnce(LoadRecords(q, stored))
    BY <2>1, LoadedOnce
  <2>3. \A big, small : IdsOnce(big) /\ small \subseteq big => IdsOnce(small)
    BY DEF IdsOnce
  <2> QED
    BY <2>1, <2>2, <2>3, AnswerStep DEF DoublesInv
<1> QED
  BY <1>1, <1>2, TypeNext DEF DoublesInv, NoDoubles, IdsOnce

\* loadReleaseRecords merges what it builds with what is stored: however the
\* store grows, no record is listed twice under one id.
THEOREM ListedOnce == Spec => []NoDoubles
<1>1. Init => DoublesInv
  BY TypeInit DEF Init, DoublesInv, NoDoubles, IdsOnce
<1>2. DoublesInv => NoDoubles
  BY DEF DoublesInv
<1> QED
  BY <1>1, <1>2, DoublesNext, PTL DEF Spec

\* Records, stored or answered, that say "succeeded" say it of a release that
\* was good.
Earned(x) == x.status = "succeeded" => CandidateTrue(x.id[1])

SuccessIsEarned ==
  /\ \A x \in store : Earned(x)
  /\ \A r \in Request : \A x \in answer[r] : Earned(x)

EarnedInv == RecordsInv /\ \A r \in Request : \A x \in answer[r] : Earned(x)

\* The rows of the store have earned it.
LEMMA StoreEarned == ASSUME RecordsInv PROVE \A x \in store : Earned(x)
<1> SUFFICES ASSUME NEW x \in store PROVE Earned(x)
  OBVIOUS
<1>1. CASE \E tag \in Tag : x = Base(tag)
  BY <1>1, RecordFields DEF Earned, CandidateTrue
<1>2. CASE x.status = "succeeded" => x.id[1] \in GoodTags
  BY <1>2 DEF Earned, CandidateTrue
<1> QED
  BY <1>1, <1>2 DEF RecordsInv, StoreTrue

\* So have a snapshot and the records built for an answer.
LEMMA BuiltEarned ==
  ASSUME RecordsInv, NEW r \in Request
  PROVE  Earned(Snapshot(r)) /\ \A x \in Built(r) : Earned(x)
<1>1. ready[r] => app[r].tag \in GoodTags
  BY DEF RecordsInv, ReadTrue
<1>2. Earned(Snapshot(r))
  BY <1>1, RecordFields DEF Earned, CandidateTrue
<1>3. ASSUME NEW x \in Built(r) PROVE Earned(x)
  <2>1. CASE x = Record(RecordID(app[r].tag), ready[r], "live")
    BY <1>1, <2>1 DEF Earned, CandidateTrue, Record, RecordID
  <2>2. CASE \E tag \in Summaries : x = Record(RecordID(tag), TRUE, "static")
    BY <2>2, RecordsAssumption
       DEF RecordsAssumption, Earned, CandidateTrue, Record, RecordID, GoodTags
  <2> QED
    BY <1>3, <2>1, <2>2 DEF Built
<1> QED
  BY <1>2, <1>3

LEMMA EarnedNext == EarnedInv /\ [Next]_vars => EarnedInv'
<1> SUFFICES ASSUME EarnedInv, [Next]_vars, NEW q \in Request, NEW x \in answer'[q]
             PROVE  Earned(x)'
  BY RecordsNext DEF EarnedInv, Earned, CandidateTrue, GoodTags, Base
<1> USE DEF EarnedInv
<1>1. x \in ReleaseRecord /\ x.id[1] \in Tag
  BY RecordsNext DEF RecordsInv, TypeOK, ReleaseRecord
<1>2. Earned(x)
  <2>1. TypeOK
    BY DEF RecordsInv
  <2>2. \/ x \in answer[q] \/ x = Snapshot(q) \/ x \in store \/ x \in Built(q)
    BY <2>1, AnswerStep DEF LoadRecords
  <2> QED
    BY <2>2, StoreEarned, BuiltEarned
<1> QED
  BY <1>1, <1>2, TrueStays DEF Earned

\* releaseRecordStatus: in the store, in a snapshot's answer and in every list a
\* record says "succeeded" only of a release against which Argo CD once had
\* nothing to say, that a pipeline has reported, or that is compiled in.
THEOREM SuccessIsEarnedAlways == Spec => []SuccessIsEarned
<1>1. Init => EarnedInv
  BY RecordsInit DEF EarnedInv, Init
<1>2. EarnedInv => SuccessIsEarned
  BY StoreEarned DEF EarnedInv, SuccessIsEarned
<1> QED
  BY <1>1, <1>2, EarnedNext, PTL DEF Spec
=============================================================================
