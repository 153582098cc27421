------------------------- MODULE BuildHistory_proofs -------------------------
(***************************************************************************)
(* BuildTracking implements BuildHistory, and what follows for terminal    *)
(* rows and for notices: for any finite set of jobs, any bounds and both   *)
(* stores.                                                                 *)
(***************************************************************************)
EXTENDS BuildTracking_proofs

Advances(r, s) == History!Advances(r, s)

LEMMA StageType == \A r \in Record : History!Stage(r) \in 0 .. 4
  BY DEF History!Stage

\* The stage of a terminal record is the last.
LEMMA TerminalStage == \A r \in Record : r.status \in Terminal => History!Stage(r) = 4
  BY DEF History!Stage, Terminal, Verdict

LEMMA AdvancesSame == \A r \in Record : Advances(r, r)
  <1> SUFFICES ASSUME NEW r \in Record PROVE Advances(r, r)
    OBVIOUS
  <1>1. r = [r EXCEPT !.notifySent = r.notifySent]
    BY DEF Record
  <1>2. History!Stage(r) <= History!Stage(r)
    BY StageType
  <1> QED BY <1>1, <1>2 DEF Advances, History!Advances

LEMMA AdvancesOn ==
  ASSUME NEW r \in Record, NEW s \in Record, NEW t \in Record,
         Advances(r, s), Advances(s, t)
  PROVE  Advances(r, t)
  <1>1. /\ History!Stage(r) \in 0 .. 4 /\ History!Stage(s) \in 0 .. 4
        /\ History!Stage(t) \in 0 .. 4
    BY StageType
  <1>2. History!Stage(r) <= History!Stage(t)
    BY <1>1 DEF Advances, History!Advances
  <1>3. ASSUME History!Stage(r) = 4 PROVE t = [r EXCEPT !.notifySent = t.notifySent]
    <2>1. History!Stage(s) = 4
      BY <1>1, <1>3 DEF Advances, History!Advances
    <2>2. /\ s = [r EXCEPT !.notifySent = s.notifySent]
          /\ t = [s EXCEPT !.notifySent = t.notifySent]
      BY <1>3, <2>1 DEF Advances, History!Advances
    <2>3. [[r EXCEPT !.notifySent = s.notifySent] EXCEPT !.notifySent = t.notifySent]
            = [r EXCEPT !.notifySent = t.notifySent]
      BY DEF Record
    <2> QED BY <2>2, <2>3
  <1> QED BY <1>2, <1>3 DEF Advances, History!Advances

(***************************************************************************)
(* A local record is ahead of the row it names, and no other goroutine     *)
(* names that row; where the code saves, the record has the status of the  *)
(* stage.  A goroutine that has lost its record to a failed save names no  *)
(* row.                                                                    *)
(***************************************************************************)
StatusAt(j, p, r) ==
  /\ p = "saveTriggering" \/ (r.id # None /\ p \in {"trigger", "answer"}) =>
       r.status = "triggering"
  /\ p = "saveQueued" \/ (r.id # None /\ p = "pollQueue") =>
       r.status = "queued" /\ r.queue = j
  /\ p \in {"readNumber", "saveRunning"} \/ (r.id # None /\ p = "pollBuild") =>
       r.status = "RUNNING"
  /\ p \in {"saveFailed", "saveFinal"} \/ (r.id # None /\ p \in {"webhook", "saveNotified"}) =>
       r.status \in Terminal

\* A delivered message tells what r says.
Told(j, r) ==
  \E n \in notices : n.job = j /\ n.status = r.status /\ n.owner = r.owner

Story(j, p, r) ==
  /\ r.id # None => r.id \in DOMAIN rows /\ Advances(rows[r.id], r)
  /\ r.id = None => r.owner = None
  /\ r.queue \in {None, j}
  /\ StatusAt(j, p, r)
  /\ p = "idle" => j \notin DOMAIN rows
  /\ p \in {"waiting", "load"} => j \in DOMAIN rows /\ rows[j] = FirstRecord(j)
  /\ r.notifySent => p \in {"saveNotified", "done"} /\ Told(j, r)

NoticesTrue == \A n \in notices : n.status \in Verdict => jenkins[n.job] = n.status

StoryInv ==
  /\ \A j \in Job : Story(j, pc[j], rec[j])
  /\ \A j, k \in Job : rec[j].id # None /\ rec[j].id = rec[k].id => j = k
  /\ NotifySentIsTrue
  /\ NoticesTrue

\* What all proofs below start from.
Base == TypeOK /\ HistoryInv /\ StoryInv

----------------------------------------------------------------------------
(***************************************************************************)
(* Saving.                                                                 *)
(***************************************************************************)
\* A save writes to the row the record names or to a fresh one, and in both
\* cases to no row of another goroutine.
LEMMA SaveIsOwn ==
  ASSUME Base, NEW j \in Job, NEW i \in SaveIds(rec[j])
  PROVE  /\ i \in Id
         /\ \/ i = rec[j].id /\ i \in DOMAIN rows /\ Advances(rows[i], rec[j])
            \/ rec[j].id = None /\ rec[j].owner = None /\ i \in SpareId /\ i \notin DOMAIN rows
         /\ i \in Job => i = j
         /\ \A k \in Job \ {j} : i # k /\ i # rec[k].id
  <1>1. rec[j] \in Record /\ Story(j, pc[j], rec[j]) /\ RecTrue(j, rec[j])
    BY DEF Base, TypeOK, StoryInv, HistoryInv
  <1>2. \/ i = rec[j].id /\ rec[j].id # None
        \/ rec[j].id = None /\ i \in SpareId \ DOMAIN rows
    BY DEF SaveIds
  <1>3. i \in Id
    BY <1>1, <1>2, SaveIdsType
  <1>4. i \in Job => i = j
    BY <1>1, <1>2, IdAssumption DEF RecTrue
  <1>5. ASSUME NEW k \in Job \ {j} PROVE i # rec[k].id
    <2>1. Story(k, pc[k], rec[k])
      BY DEF Base, StoryInv
    <2>2. CASE i = rec[j].id /\ rec[j].id # None
      BY <2>2 DEF Base, StoryInv
    <2>3. CASE i \in SpareId \ DOMAIN rows
      BY <2>1, <2>3, IdAssumption DEF Story
    <2> QED BY <1>2, <2>2, <2>3
  <1> QED BY <1>1, <1>2, <1>3, <1>4, <1>5 DEF Story

\* So the table changes as BuildHistory allows.
LEMMA SaveAdvances ==
  ASSUME Base, NEW j \in Job, NEW i \in SaveIds(rec[j]), rows' \in {rows, Put(i, rec[j])}
  PROVE  History!Next \/ UNCHANGED rows
  <1> SUFFICES ASSUME rows' = Put(i, rec[j]) PROVE History!Next
    OBVIOUS
  <1>1. rec[j] \in Record
    BY DEF Base, TypeOK
  <1>2. /\ DOMAIN rows' = DOMAIN rows \cup {i}
        /\ rows'[i] = [rec[j] EXCEPT !.id = i]
        /\ \A k \in DOMAIN rows \ {i} : rows'[k] = rows[k]
    BY DEF Put
  <1>3. CASE i = rec[j].id /\ i \in DOMAIN rows /\ Advances(rows[i], rec[j])
    <2>1. [rec[j] EXCEPT !.id = i] = rec[j]
      BY <1>1, <1>3 DEF Record
    <2>2. DOMAIN rows' = DOMAIN rows /\ Advances(rows[i], rows'[i])
      BY <1>2, <1>3, <2>1
    <2> QED BY <1>2, <1>3, <2>2 DEF Advances, History!Next, History!Advance
  <1>4. CASE rec[j].owner = None /\ i \in SpareId /\ i \notin DOMAIN rows
    <2>1. /\ rows'[i] \in Record
          /\ rows'[i].id = i /\ rows'[i].owner = None
      BY <1>1, <1>2, <1>4 DEF Record, Id
    <2>2. rows'[i] \in History!Record
      BY <2>1 DEF Record, Id, Status, Terminal, Verdict, History!Record,
                  History!Id, History!Status, History!Terminal, History!Verdict
    <2>3. History!Stray(i)
      BY <1>2, <1>4, <2>1, <2>2 DEF History!Stray
    <2> QED BY <1>4, <2>3 DEF History!Next
  <1> QED BY <1>3, <1>4, SaveIsOwn

----------------------------------------------------------------------------
(***************************************************************************)
(* StoryInv is inductive: steps that do not write to the store, but may    *)
(* deliver a message.                                                      *)
(***************************************************************************)
\* What is told stays told, and what a message says of Jenkins stays true.
LEMMA NoticesTrueNext ==
  ASSUME Base, [Next]_vars,
         notices' = notices \/ \E j \in Job : pc[j] = "webhook" /\ notices' = notices \cup {Notice(j)}
  PROVE  NoticesTrue'
  <1>1. ASSUME NEW n \in notices', n.status \in Verdict PROVE jenkins'[n.job] = n.status
    <2>1. n.job \in Job /\ jenkins[n.job] = n.status
      <3>1. CASE n \in notices
        BY <1>1, <3>1 DEF Base, TypeOK, NoticeSet, StoryInv, NoticesTrue
      <3>2. ASSUME NEW j \in Job, n = Notice(j) PROVE n.job \in Job /\ jenkins[n.job] = n.status
        <4>1. n.job = j /\ n.status = rec[j].status
          BY <3>2 DEF Notice
        <4> QED BY <1>1, <4>1 DEF Base, HistoryInv, RecTrue
      <3> QED BY <1>1, <3>1, <3>2
    <2> QED BY <1>1, <2>1, VerdictStays DEF Base
  <1> QED BY <1>1 DEF NoticesTrue

LEMMA StoryLocal ==
  ASSUME Base, NEW j \in Job, NEW p \in Place, NEW r \in Record,
         pc' = [pc EXCEPT ![j] = p], rec' = [rec EXCEPT ![j] = r],
         UNCHANGED rows, notices \subseteq notices', NoticesTrue',
         r.id \in {j, rec[j].id},
         Story(j, p, r)'
  PROVE  StoryInv'
  <1>1. \A k \in Job : /\ pc'[k] = IF k = j THEN p ELSE pc[k]
                       /\ rec'[k] = IF k = j THEN r ELSE rec[k]
    BY DEF Base, TypeOK
  <1>2. ASSUME NEW k \in Job PROVE Story(k, pc[k], rec[k])'
    <2>1. CASE k = j
      BY <1>1, <2>1 DEF Story, StatusAt, Told
    <2>2. CASE k # j
      <3>1. Story(k, pc[k], rec[k]) /\ pc'[k] = pc[k] /\ rec'[k] = rec[k]
        BY <1>1, <2>2 DEF Base, StoryInv
      <3> QED BY <3>1 DEF Story, StatusAt, Told, Advances, History!Advances
    <2> QED BY <2>1, <2>2
  <1>3. ASSUME NEW k \in Job, NEW l \in Job, rec'[k].id # None, rec'[k].id = rec'[l].id
        PROVE  k = l
    <2>1. \A m \in Job \ {j} : rec[m].id # j
      BY DEF Base, HistoryInv, RecTrue
    <2> QED BY <1>1, <1>3, <2>1 DEF Base, StoryInv
  <1>4. NotifySentIsTrue'
    BY DEF Base, StoryInv, NotifySentIsTrue
  <1> QED BY <1>2, <1>3, <1>4 DEF StoryInv

\* A goroutine's next record, when it stays behind the row it names.
LEMMA StoryOf ==
  ASSUME Base, NEW j \in Job, NEW p \in Place, NEW r \in Record,
         pc[j] \in Tracking, p \notin {"idle", "waiting", "load"},
         r.id = rec[j].id, r.owner = rec[j].owner, r.queue \in {None, j},
         r.id # None => Advances(rec[j], r),
         StatusAt(j, p, r), ~r.notifySent, UNCHANGED rows
  PROVE  Story(j, p, r)'
  <1>1. Story(j, pc[j], rec[j]) /\ rec[j] \in Record
    BY DEF Base, StoryInv, TypeOK
  <1>2. ASSUME r.id # None PROVE r.id \in DOMAIN rows /\ Advances(rows[r.id], r)
    <2>1. r.id \in DOMAIN rows /\ Advances(rows[r.id], rec[j])
      BY <1>1, <1>2 DEF Story
    <2>2. rows[r.id] \in Record
      BY <2>1 DEF Base, TypeOK
    <2> QED BY <1>1, <1>2, <2>1, <2>2, AdvancesOn
  <1>3. r.id = None => r.owner = None
    BY <1>1 DEF Story
  <1> QED BY <1>2, <1>3 DEF Story, StatusAt, Advances, History!Advances

LEMMA StoryLoad ==
  ASSUME Base, [Next]_vars, NEW j \in Job, AcquireSlot(j) \/ LoadRecord(j) PROVE StoryInv'
  <1>1. Story(j, pc[j], rec[j]) /\ rec[j] \in Record
    BY DEF Base, StoryInv, TypeOK
  <1>2. UNCHANGED <<rows, notices>> /\ NoticesTrue'
    BY NoticesTrueNext DEF AcquireSlot, LoadRecord
  <1>3. CASE AcquireSlot(j)
    <2>0. PICK r \in Record : r = rec[j]
      BY <1>1
    <2>1. /\ pc[j] = "waiting" /\ pc' = [pc EXCEPT ![j] = "load"]
          /\ rec' = [rec EXCEPT ![j] = r]
      BY <1>3, <2>0 DEF AcquireSlot, Goto, Base, TypeOK
    <2>2. Story(j, "load", r)'
      <3>1. Story(j, "load", r)
        BY <1>1, <2>0, <2>1 DEF Story, StatusAt
      <3> QED BY <1>2, <2>1, <3>1 DEF Story, StatusAt, Told, Advances, History!Advances
    <2> QED BY <1>2, <2>0, <2>1, <2>2, StoryLocal DEF Place, Tracking
  <1>4. CASE LoadRecord(j)
    <2>0. [rows[j] EXCEPT !.status = "triggering"] \in Record
      <3>1. rows[j] \in Record
        BY <1>4 DEF LoadRecord, Base, TypeOK
      <3> QED BY <3>1 DEF Record, Status
    <2>00. PICK r \in Record : r = [rows[j] EXCEPT !.status = "triggering"]
      BY <2>0
    <2>1. /\ pc[j] = "load" /\ pc' = [pc EXCEPT ![j] = "saveTriggering"]
          /\ rec' = [rec EXCEPT ![j] = r]
          /\ j \in DOMAIN rows /\ rows[j] = FirstRecord(j) /\ rows[j] \in Record
      BY <1>1, <1>4, <2>00 DEF LoadRecord, Goto, Story, Base, TypeOK
    <2>2. /\ rows[j].id = j /\ rows[j].owner = j /\ rows[j].status = "queued"
          /\ rows[j].queue = None /\ ~rows[j].notifySent
      BY <2>1 DEF FirstRecord, BlankRecord
    <2>3. /\ r \in Record /\ r.id = j /\ r.status = "triggering" /\ r.queue = None
          /\ ~r.notifySent /\ r.owner = rows[j].owner
          /\ r.build = rows[j].build /\ r.tag = rows[j].tag
      BY <2>00, <2>1, <2>2 DEF Record, Status
    <2>4. History!Stage(rows[j]) = 0 /\ History!Stage(r) = 1
      BY <2>2, <2>3 DEF History!Stage
    <2>5. Advances(rows[j], r)
      BY <2>2, <2>3, <2>4 DEF Advances, History!Advances
    <2>6. Story(j, "saveTriggering", r)
      BY <2>1, <2>3, <2>5, IdAssumption DEF Story, StatusAt
    <2>7. Story(j, "saveTriggering", r)'
      BY <1>2, <2>6 DEF Story, StatusAt, Told, Advances, History!Advances
    <2> QED BY <1>2, <2>1, <2>3, <2>7, StoryLocal DEF Place, Tracking
  <1> QED BY <1>3, <1>4

LEMMA StoryWithin ==
  ASSUME Base, [Next]_vars, NEW j \in Job,
         \/ LoadFails(j) \/ TriggerAccepted(j) \/ TriggerFails(j)
         \/ QueueLeft(j) \/ QueueFails(j) \/ ReadNumber(j)
         \/ BuildEnded(j) \/ BuildFails(j) \/ WebhookNotSent(j)
  PROVE  StoryInv'
  <1>1. Story(j, pc[j], rec[j]) /\ rec[j] \in Record /\ RecTrue(j, rec[j])
    BY DEF Base, StoryInv, TypeOK, HistoryInv
  <1>2. /\ UNCHANGED rows /\ pc[j] \in Tracking /\ ~rec[j].notifySent
        /\ notices' = notices \/ (pc[j] = "webhook" /\ notices' = notices \cup {Notice(j)})
    BY <1>1 DEF LoadFails, TriggerAccepted, TriggerFails, QueueLeft, QueueFails,
                ReadNumber, BuildEnded, BuildFails, WebhookNotSent, Goto, GiveUp,
                Tracking, Story
  <1>3. NoticesTrue' /\ notices \subseteq notices'
    BY <1>2, NoticesTrueNext
  <1>4. ASSUME NEW p \in Tracking \cup {"done"}, NEW r \in Record,
               pc' = [pc EXCEPT ![j] = p], rec' = [rec EXCEPT ![j] = r], p # "load",
               r.id = rec[j].id, r.owner = rec[j].owner, r.queue \in {None, j},
               r.id # None => Advances(rec[j], r),
               StatusAt(j, p, r), ~r.notifySent
        PROVE  StoryInv'
    <2>1. p \in Place /\ p \notin {"idle", "waiting", "load"}
      BY <1>4 DEF Place, Tracking
    <2>2. Story(j, p, r)'
      BY <1>2, <1>4, <2>1, StoryOf
    <2> QED BY <1>2, <1>3, <1>4, <2>1, <2>2, StoryLocal
  <1>5. CASE LoadFails(j) \/ WebhookNotSent(j)
    <2>1. pc' = [pc EXCEPT ![j] = "done"] /\ rec' = [rec EXCEPT ![j] = rec[j]]
      BY <1>5 DEF LoadFails, WebhookNotSent, Return, Base, TypeOK
    <2>2. StatusAt(j, "done", rec[j]) /\ Advances(rec[j], rec[j])
      BY <1>1, AdvancesSame DEF StatusAt
    <2> QED BY <1>1, <1>2, <1>4, <2>1, <2>2 DEF Story
  <1>6. CASE TriggerAccepted(j)
    <2> DEFINE r == [[rec[j] EXCEPT !.queue = j] EXCEPT !.status = "queued"]
    <2>1. /\ pc[j] = "answer" /\ pc' = [pc EXCEPT ![j] = "saveQueued"]
          /\ rec' = [rec EXCEPT ![j] = r]
      BY <1>6 DEF TriggerAccepted, Goto, Base, TypeOK
    <2>2. /\ r \in Record /\ r.queue = j /\ r.status = "queued" /\ r.id = rec[j].id
          /\ r.owner = rec[j].owner /\ r.build = rec[j].build /\ r.tag = rec[j].tag
          /\ r.notifySent = rec[j].notifySent
      BY <1>1 DEF Record, Status
    <2> HIDE DEF r
    <2>3. ASSUME r.id # None PROVE Advances(rec[j], r)
      <3>1. rec[j].status = "triggering"
        BY <1>1, <2>1, <2>2, <2>3 DEF Story, StatusAt
      <3>2. History!Stage(rec[j]) = 1 /\ History!Stage(r) = 2
        BY <2>2, <3>1, IdAssumption DEF History!Stage
      <3> QED BY <1>1, <2>2, <3>2 DEF Advances, History!Advances, Story
    <2>4. StatusAt(j, "saveQueued", r)
      BY <2>2 DEF StatusAt
    <2>5. "saveQueued" \in Tracking
      BY DEF Tracking
    <2> QED BY <1>2, <1>4, <2>1, <2>2, <2>3, <2>4, <2>5
  <1>7. CASE TriggerFails(j) \/ QueueFails(j) \/ BuildFails(j)
    <2> DEFINE r == [rec[j] EXCEPT !.status = "FAILED"]
    <2>1. /\ pc[j] \in {"answer", "pollQueue", "pollBuild"}
          /\ pc' = [pc EXCEPT ![j] = "saveFailed"]
          /\ rec' = [rec EXCEPT ![j] = r]
      BY <1>7 DEF TriggerFails, QueueFails, BuildFails, GiveUp, Goto, Base, TypeOK
    <2>2. /\ r \in Record /\ r.status = "FAILED" /\ r.queue = rec[j].queue /\ r.id = rec[j].id
          /\ r.owner = rec[j].owner /\ r.build = rec[j].build /\ r.tag = rec[j].tag
          /\ r.notifySent = rec[j].notifySent
      BY <1>1 DEF Record, Status, Terminal
    <2> HIDE DEF r
    <2>3. ASSUME r.id # None PROVE Advances(rec[j], r)
      <3>1. rec[j].status \in {"triggering", "queued", "RUNNING"}
        BY <1>1, <2>1, <2>2, <2>3 DEF Story, StatusAt
      <3>2. History!Stage(rec[j]) \in 0 .. 3 /\ History!Stage(r) = 4
        BY <2>2, <3>1 DEF History!Stage
      <3> QED BY <2>2, <3>2 DEF Advances, History!Advances
    <2>4. StatusAt(j, "saveFailed", r)
      BY <2>2 DEF StatusAt, Terminal
    <2>5. "saveFailed" \in Tracking
      BY DEF Tracking
    <2> QED BY <1>1, <1>2, <1>4, <2>1, <2>2, <2>3, <2>4, <2>5 DEF Story
  <1>8. CASE QueueLeft(j)
    <2> DEFINE r == [[rec[j] EXCEPT !.build = j] EXCEPT !.status = "RUNNING"]
    <2>1. /\ pc[j] = "pollQueue" /\ pc' = [pc EXCEPT ![j] = "readNumber"]
          /\ rec' = [rec EXCEPT ![j] = r]
      BY <1>8 DEF QueueLeft, Goto, Base, TypeOK
    <2>2. /\ r \in Record /\ r.status = "RUNNING" /\ r.queue = rec[j].queue /\ r.id = rec[j].id
          /\ r.owner = rec[j].owner /\ r.build = j /\ r.tag = rec[j].tag
          /\ r.notifySent = rec[j].notifySent
      BY <1>1 DEF Record, Status
    <2> HIDE DEF r
    <2>3. ASSUME r.id # None PROVE Advances(rec[j], r)
      <3>1. rec[j].status = "queued"
        BY <1>1, <2>1, <2>2, <2>3 DEF Story, StatusAt
      <3>2. History!Stage(rec[j]) \in 0 .. 2 /\ History!Stage(r) = 3
        BY <2>2, <3>1 DEF History!Stage
      <3> QED BY <1>1, <2>2, <3>2 DEF Advances, History!Advances, RecTrue
    <2>4. StatusAt(j, "readNumber", r)
      BY <2>2 DEF StatusAt
    <2>5. "readNumber" \in Tracking
      BY DEF Tracking
    <2> QED BY <1>1, <1>2, <1>4, <2>1, <2>2, <2>3, <2>4, <2>5 DEF Story
  <1>9. CASE ReadNumber(j)
    <2>1. PICK r \in {rec[j], Numbered(rec[j])} : rec' = [rec EXCEPT ![j] = r]
      BY <1>9 DEF ReadNumber, Base, TypeOK
    <2>2. pc[j] = "readNumber" /\ pc' = [pc EXCEPT ![j] = "saveRunning"]
      BY <1>9 DEF ReadNumber, Goto
    <2>3. /\ r \in Record /\ r.status = rec[j].status /\ r.queue = rec[j].queue
          /\ r.id = rec[j].id /\ r.owner = rec[j].owner /\ r.build = rec[j].build
          /\ r.notifySent = rec[j].notifySent
          /\ rec[j].tag = "numbered" => r.tag = rec[j].tag
      BY <1>1 DEF Numbered, Record
    <2>4. rec[j].status = "RUNNING"
      BY <1>1, <2>2 DEF Story, StatusAt
    <2>5. History!Stage(rec[j]) = 3 /\ History!Stage(r) = 3
      BY <2>3, <2>4 DEF History!Stage
    <2>6. Advances(rec[j], r)
      BY <2>3, <2>5 DEF Advances, History!Advances
    <2>7. StatusAt(j, "saveRunning", r)
      BY <2>3, <2>4 DEF StatusAt
    <2>8. "saveRunning" \in Tracking
      BY DEF Tracking
    <2> QED BY <1>1, <1>2, <1>4, <2>1, <2>2, <2>3, <2>6, <2>7, <2>8 DEF Story
  <1>10. CASE BuildEnded(j)
    <2> DEFINE r == [[rec[j] EXCEPT !.number = TRUE] EXCEPT !.status = jenkins[j]]
    <2>1. /\ pc[j] = "pollBuild" /\ pc' = [pc EXCEPT ![j] = "saveFinal"]
          /\ rec' = [rec EXCEPT ![j] = r] /\ jenkins[j] \in Terminal
      BY <1>10 DEF BuildEnded, Goto, Base, TypeOK, Terminal
    <2>2. /\ r \in Record /\ r.status \in Terminal /\ r.queue = rec[j].queue /\ r.id = rec[j].id
          /\ r.owner = rec[j].owner /\ r.build = rec[j].build /\ r.tag = rec[j].tag
          /\ r.notifySent = rec[j].notifySent
      BY <1>1, <2>1 DEF Record, Status
    <2> HIDE DEF r
    <2>3. ASSUME r.id # None PROVE Advances(rec[j], r)
      <3>1. rec[j].status = "RUNNING"
        BY <1>1, <2>1, <2>2, <2>3 DEF Story, StatusAt
      <3>2. History!Stage(rec[j]) = 3 /\ History!Stage(r) = 4
        BY <2>2, <3>1, TerminalStage DEF History!Stage
      <3> QED BY <2>2, <3>2 DEF Advances, History!Advances
    <2>4. StatusAt(j, "saveFinal", r)
      BY <2>2 DEF StatusAt
    <2>5. "saveFinal" \in Tracking
      BY DEF Tracking
    <2> QED BY <1>1, <1>2, <1>4, <2>1, <2>2, <2>3, <2>4, <2>5 DEF Story
  <1> QED BY <1>5, <1>6, <1>7, <1>8, <1>9, <1>10

LEMMA StoryTells ==
  ASSUME Base, [Next]_vars, NEW j \in Job, WebhookSent(j) PROVE StoryInv'
  <1>1. Story(j, pc[j], rec[j]) /\ rec[j] \in Record
    BY DEF Base, StoryInv, TypeOK
  <1>2. PICK r \in Record : r = [rec[j] EXCEPT !.notifySent = TRUE]
    BY <1>1 DEF Record
  <1>3. /\ pc[j] = "webhook" /\ pc' = [pc EXCEPT ![j] = "saveNotified"]
        /\ rec' = [rec EXCEPT ![j] = r] /\ UNCHANGED rows
        /\ notices' = notices \cup {Notice(j)}
    BY <1>2 DEF WebhookSent, Goto, Base, TypeOK
  <1>4. NoticesTrue'
    BY <1>3, NoticesTrueNext
  <1>5. /\ r.id = rec[j].id /\ r.owner = rec[j].owner /\ r.status = rec[j].status
        /\ r.queue = rec[j].queue /\ r.build = rec[j].build /\ r.tag = rec[j].tag
        /\ r.notifySent
    BY <1>1, <1>2 DEF Record
  <1>6. Advances(rec[j], r)
    <2>1. History!Stage(rec[j]) = History!Stage(r)
      BY <1>5 DEF History!Stage
    <2>2. History!Stage(rec[j]) <= History!Stage(r)
      BY <1>1, <2>1, StageType
    <2>3. r = [rec[j] EXCEPT !.notifySent = r.notifySent]
      BY <1>1, <1>2 DEF Record
    <2> QED BY <1>5, <2>2, <2>3 DEF Advances, History!Advances
  <1>7. r.id # None => r.id \in DOMAIN rows /\ Advances(rows[r.id], r)
    <2> SUFFICES ASSUME r.id # None PROVE r.id \in DOMAIN rows /\ Advances(rows[r.id], r)
      OBVIOUS
    <2>1. r.id \in DOMAIN rows /\ Advances(rows[r.id], rec[j])
      BY <1>1, <1>5 DEF Story
    <2>2. rows[r.id] \in Record
      BY <2>1 DEF Base, TypeOK
    <2> QED BY <1>1, <1>6, <2>1, <2>2, AdvancesOn
  <1>8. StatusAt(j, "saveNotified", r)
    BY <1>1, <1>3, <1>5 DEF Story, StatusAt
  <1>9. Told(j, r)'
    <2>1. Notice(j) \in notices' /\ Notice(j) = [job |-> j, owner |-> r.owner, status |-> r.status]
      BY <1>3, <1>5 DEF Notice
    <2> QED BY <2>1 DEF Told
  <1>10. Story(j, "saveNotified", r)'
    BY <1>1, <1>3, <1>5, <1>7, <1>8, <1>9 DEF Story, StatusAt, Advances, History!Advances
  <1> QED BY <1>3, <1>4, <1>5, <1>10, StoryLocal DEF Place, Tracking

----------------------------------------------------------------------------
(***************************************************************************)
(* Steps that save, and the rest.                                          *)
(***************************************************************************)
LEMMA StorySaves ==
  ASSUME Base, [Next]_vars, NEW j \in Job,
         \/ SaveTriggering(j) \/ SaveQueued(j) \/ SaveRunning(j)
         \/ SaveFailed(j) \/ SaveFinal(j) \/ SaveNotified(j)
  PROVE  StoryInv' /\ (History!Next \/ UNCHANGED rows)
  <1>1. Story(j, pc[j], rec[j]) /\ rec[j] \in Record /\ RecTrue(j, rec[j])
    BY DEF Base, StoryInv, TypeOK, HistoryInv
  <1>2. PICK p \in {"trigger", "pollQueue", "pollBuild", "webhook", "done"} :
          /\ pc' = [pc EXCEPT ![j] = p]
          /\ p = "trigger" => pc[j] = "saveTriggering"
          /\ p = "pollQueue" => pc[j] = "saveQueued"
          /\ p = "pollBuild" => pc[j] = "saveRunning"
          /\ p = "webhook" => pc[j] \in {"saveFailed", "saveFinal"}
    BY DEF SaveTriggering, SaveQueued, SaveRunning, SaveFailed, SaveFinal,
           SaveNotified, NotifyOrReturn, Return, Goto
  <1>3. /\ pc[j] \in Tracking /\ UNCHANGED notices
        /\ rec[j].notifySent => pc[j] = "saveNotified" /\ p = "done"
    BY <1>1, <1>2 DEF SaveTriggering, SaveQueued, SaveRunning, SaveFailed, SaveFinal,
           SaveNotified, Goto, Tracking, Story
  <1>4. PICK i \in SaveIds(rec[j]) :
          \/ /\ rows' = Put(i, rec[j])
             /\ rec' = [rec EXCEPT ![j] = [rec[j] EXCEPT !.id = i]]
          \/ /\ rows' \in {rows, Put(i, rec[j])}
             /\ rec' = [rec EXCEPT ![j] = BlankRecord]
          \/ /\ rows' \in {rows, Put(i, rec[j])} /\ p \in {"webhook", "done"}
             /\ UNCHANGED rec
    <2>1. CASE SaveAndKeep(j, rec[j])
      BY <2>1 DEF SaveAndKeep
    <2>2. CASE /\ SaveAndDrop(rec[j]) /\ UNCHANGED rec
               /\ pc[j] \in {"saveFailed", "saveNotified"}
      <3>1. p \in {"webhook", "done"}
        BY <1>2, <2>2
      <3> QED BY <2>2, <3>1 DEF SaveAndDrop
    <2> QED
      BY <2>1, <2>2 DEF SaveTriggering, SaveQueued, SaveRunning, SaveFailed,
                        SaveFinal, SaveNotified, Goto
  <1>5. rows' \in {rows, Put(i, rec[j])}
    BY <1>4
  <1>6. /\ i \in Id /\ (i \in Job => i = j)
        /\ \A k \in Job \ {j} : i # k /\ i # rec[k].id
    BY SaveIsOwn
  <1>7. /\ \A k \in DOMAIN rows : k \in DOMAIN rows' /\ (k # i => rows'[k] = rows[k])
        /\ \A k \in DOMAIN rows' : k # i => k \in DOMAIN rows
        /\ rows' = Put(i, rec[j]) => i \in DOMAIN rows' /\ rows'[i] = [rec[j] EXCEPT !.id = i]
    BY <1>5 DEF Put
  <1>8. /\ \A k \in Job \ {j} : rec'[k] = rec[k] /\ pc'[k] = pc[k]
        /\ pc'[j] = p
    BY <1>2, <1>4 DEF Base, TypeOK
  <1>9. ASSUME NEW k \in Job \ {j} PROVE Story(k, pc[k], rec[k])'
    <2>1. Story(k, pc[k], rec[k]) /\ rec'[k] = rec[k] /\ pc'[k] = pc[k]
      BY <1>8 DEF Base, StoryInv
    <2>2. /\ rec[k].id # None => rec[k].id \in DOMAIN rows' /\ rows'[rec[k].id] = rows[rec[k].id]
          /\ k \in DOMAIN rows' <=> k \in DOMAIN rows
          /\ k \in DOMAIN rows => rows'[k] = rows[k]
      BY <1>6, <1>7, <2>1 DEF Story
    <2> QED BY <1>3, <2>1, <2>2 DEF Story, StatusAt, Told, Advances, History!Advances
  <1> DEFINE s == [rec[j] EXCEPT !.id = i]
  <1>10. /\ s \in Record /\ s.id = i /\ s.owner = rec[j].owner /\ s.queue = rec[j].queue
         /\ s.status = rec[j].status /\ s.notifySent = rec[j].notifySent
    BY <1>1, <1>6 DEF Record
  <1>11. PICK r \in Record : r = rec'[j]
    <2>1. rec'[j] \in {s, BlankRecord, rec[j]}
      BY <1>4 DEF Base, TypeOK
    <2> QED BY <1>1, <1>10, <2>1, NewRecords
  <1>12. Story(j, p, r)' /\ (r.id # None => r.id \in {i, rec[j].id})
    <2>1. p \notin {"idle", "waiting", "load"}
      BY <1>2
    <2>2. CASE r = s /\ rows' = Put(i, rec[j])
      <3>1. r.id \in DOMAIN rows' /\ rows'[r.id] = r /\ r.id # None
        BY <1>6, <1>7, <1>10, <2>2, IdAssumption DEF Id
      <3>2. StatusAt(j, p, r)
        BY <1>1, <1>2, <1>10, <2>2 DEF Story, StatusAt
      <3>3. r.notifySent => p = "done" /\ Told(j, r)'
        BY <1>1, <1>3, <1>10, <2>2 DEF Story, Told
      <3>4. Advances(r, r)
        BY AdvancesSame
      <3> HIDE DEF s
      <3>5. r.queue \in {None, j}
        BY <1>1, <1>10, <2>2 DEF Story
      <3> QED BY <1>10, <2>1, <2>2, <3>1, <3>2, <3>3, <3>4, <3>5
              DEF Story, StatusAt, Advances, History!Advances
    <2>3. CASE r = BlankRecord
      <3>1. r.id = None /\ r.owner = None /\ r.queue = None /\ ~r.notifySent
        BY <2>3 DEF BlankRecord
      <3> QED BY <1>2, <2>1, <3>1 DEF Story, StatusAt
    <2>4. CASE r = rec[j] /\ p \in {"webhook", "done"}
      <3>1. r.id # None => r.id \in DOMAIN rows' /\ Advances(rows'[r.id], r)
        <4> SUFFICES ASSUME r.id # None PROVE r.id \in DOMAIN rows' /\ Advances(rows'[r.id], r)
          OBVIOUS
        <4>1. i = r.id /\ r.id \in DOMAIN rows /\ Advances(rows[r.id], r)
          BY <1>1, <2>4 DEF Story, SaveIds
        <4>2. r = s
          BY <1>1, <2>4, <4>1 DEF Record
        <4>3. rows'[r.id] \in {rows[r.id], r}
          BY <1>5, <1>7, <4>1, <4>2
        <4> QED BY <1>7, <4>1, <4>3, AdvancesSame
      <3>2. StatusAt(j, p, r)
        BY <1>1, <1>2, <2>4 DEF Story, StatusAt
      <3>3. r.notifySent => p = "done" /\ Told(j, r)'
        BY <1>1, <1>3, <2>4 DEF Story, Told
      <3> QED BY <1>1, <2>1, <2>4, <3>1, <3>2, <3>3
              DEF Story, StatusAt, Advances, History!Advances
    <2> QED BY <1>1, <1>4, <1>10, <1>11, <2>2, <2>3, <2>4 DEF Base, TypeOK
  <1>13. ASSUME NEW k \in Job PROVE Story(k, pc[k], rec[k])'
    BY <1>8, <1>9, <1>11, <1>12 DEF Story, StatusAt, Told
  <1>14. ASSUME NEW k \in Job, NEW l \in Job, rec'[k].id # None, rec'[k].id = rec'[l].id
         PROVE  k = l
    BY <1>6, <1>8, <1>11, <1>12, <1>14 DEF Base, StoryInv
  <1>15. NotifySentIsTrue'
    <2>1. ASSUME NEW k \in DOMAIN rows', rows'[k].notifySent
          PROVE  \E n \in notices : /\ n.status = rows'[k].status
                                    /\ n.owner = rows'[k].owner
                                    /\ k \in Job => n.job = k
      <3>1. CASE k \in DOMAIN rows /\ rows'[k] = rows[k]
        BY <2>1, <3>1 DEF Base, StoryInv, NotifySentIsTrue
      <3>2. CASE k = i /\ rows'[k] = s
        <4>1. Told(j, rec[j])
          BY <1>1, <1>10, <2>1, <3>2 DEF Story
        <4> QED BY <1>6, <1>10, <3>2, <4>1 DEF Told
      <3> QED BY <1>5, <1>7, <3>1, <3>2
    <2> QED BY <1>3, <2>1 DEF NotifySentIsTrue
  <1>16. NoticesTrue'
    BY <1>3, NoticesTrueNext
  <1> QED BY <1>5, <1>13, <1>14, <1>15, <1>16, SaveAdvances DEF StoryInv

LEMMA StoryRequest ==
  ASSUME Base, [Next]_vars, NEW j \in Job, Request(j)
  PROVE  StoryInv' /\ (History!Next \/ UNCHANGED rows)
  <1> USE DEF Request, AcceptItem, RefuseItem, LoseItem
  <1>1. PICK p \in {"waiting", "refused"} :
          /\ pc[j] = "idle" /\ pc' = [pc EXCEPT ![j] = p]
          /\ p = "waiting" => rows' = Put(j, FirstRecord(j))
    BY DEF Goto
  <1>2. rows' \in {rows, Put(j, FirstRecord(j))} /\ UNCHANGED <<rec, notices>>
    OBVIOUS
  <1>3. j \notin DOMAIN rows
    BY <1>1 DEF Base, StoryInv, Story
  <1>4. /\ \A k \in DOMAIN rows : k # j /\ k \in DOMAIN rows' /\ rows'[k] = rows[k]
        /\ \A k \in DOMAIN rows' \ {j} : k \in DOMAIN rows
        /\ rows' # rows => j \in DOMAIN rows' /\ rows'[j] = FirstRecord(j)
        /\ p = "waiting" => j \in DOMAIN rows' /\ rows'[j] = FirstRecord(j)
    <2>1. [FirstRecord(j) EXCEPT !.id = j] = FirstRecord(j)
      BY DEF FirstRecord, BlankRecord
    <2> QED BY <1>1, <1>2, <1>3, <2>1 DEF Put
  <1>5. ASSUME NEW k \in Job PROVE Story(k, pc[k], rec[k])'
    <2>1. Story(k, pc[k], rec[k]) /\ rec'[k] = rec[k]
      BY <1>2 DEF Base, StoryInv
    <2>2. rec[k].id # None => rec[k].id \in DOMAIN rows' /\ rows'[rec[k].id] = rows[rec[k].id]
      BY <1>4, <2>1 DEF Story
    <2>3. CASE k = j
      <3>1. pc'[k] = p /\ pc[k] = "idle"
        BY <1>1, <2>3 DEF Base, TypeOK
      <3> QED BY <1>2, <1>4, <2>1, <2>2, <2>3, <3>1
              DEF Story, StatusAt, Told, Advances, History!Advances
    <2>4. CASE k # j
      <3>1. pc'[k] = pc[k]
        BY <1>1, <2>4 DEF Base, TypeOK
      <3>2. (k \in DOMAIN rows' <=> k \in DOMAIN rows) /\ (k \in DOMAIN rows => rows'[k] = rows[k])
        BY <1>4, <2>4
      <3> QED BY <1>2, <2>1, <2>2, <3>1, <3>2 DEF Story, StatusAt, Told, Advances, History!Advances
    <2> QED BY <2>3, <2>4
  <1>6. NotifySentIsTrue'
    <2>1. ~FirstRecord(j).notifySent
      BY DEF FirstRecord, BlankRecord
    <2>2. \A k \in DOMAIN rows' : rows'[k].notifySent => k \in DOMAIN rows /\ rows'[k] = rows[k]
      BY <1>4, <2>1
    <2> QED BY <1>2, <2>2 DEF Base, StoryInv, NotifySentIsTrue
  <1>7. NoticesTrue'
    BY <1>2, NoticesTrueNext
  <1>8. History!Next \/ UNCHANGED rows
    <2>1. ASSUME rows' = Put(j, FirstRecord(j)) PROVE History!Accept(j)
      <3>1. [FirstRecord(j) EXCEPT !.id = j] = FirstRecord(j) /\ FirstRecord(j) = History!FirstRecord(j)
        BY DEF FirstRecord, BlankRecord, History!FirstRecord, History!BlankRecord
      <3> QED BY <1>3, <2>1, <3>1 DEF Put, History!Accept
    <2> QED BY <1>2, <2>1 DEF History!Next
  <1> QED BY <1>2, <1>5, <1>6, <1>7, <1>8 DEF Base, StoryInv

\* Steps that touch neither the store, nor a local record, nor a message.
LEMMA StoryServer ==
  ASSUME Base, [Next]_vars, NEW j \in Job,
         PostTrigger(j) \/ Server(j) \/ QueueStillWaits(j) \/ BuildStillRuns(j)
  PROVE  StoryInv'
  <1> USE DEF Server, BuildStarts, ItemCancelled, BuildFinishes, PostTrigger,
              QueueStillWaits, BuildStillRuns, PollAgain
  <1>1. UNCHANGED <<rows, rec, notices>> /\ NoticesTrue'
    BY NoticesTrueNext
  <1>2. ASSUME NEW k \in Job PROVE Story(k, pc[k], rec[k])'
    <2>1. Story(k, pc[k], rec[k])
      BY DEF Base, StoryInv
    <2>2. pc'[k] = pc[k] \/ (pc[k] = "trigger" /\ pc'[k] = "answer")
      BY DEF Goto, Base, TypeOK
    <2> QED BY <1>1, <2>1, <2>2 DEF Story, StatusAt, Told, Advances, History!Advances
  <1> QED BY <1>1, <1>2 DEF Base, StoryInv, NotifySentIsTrue

LEMMA StoryCrash ==
  ASSUME Base, [Next]_vars, Crash PROVE StoryInv' /\ (History!Next \/ UNCHANGED rows)
  <1>0. /\ BlankRecord.id = None /\ BlankRecord.owner = None /\ BlankRecord.queue = None
        /\ ~BlankRecord.notifySent
    BY DEF BlankRecord
  <1>1. /\ \A k \in Job : rec'[k] = BlankRecord
        /\ rows' = rows \/ (~Durable /\ rows' = [i \in {} |-> BlankRecord])
        /\ UNCHANGED notices
    BY DEF Crash
  <1>2. NoticesTrue'
    BY <1>1, NoticesTrueNext
  <1>3. \A k \in Job : /\ pc'[k] \notin Tracking \cup {"waiting"}
                       /\ pc'[k] = "idle" => pc[k] = "idle"
    BY DEF Crash, Tracking
  <1>4. DOMAIN rows' \subseteq DOMAIN rows /\ \A i \in DOMAIN rows' : rows'[i] = rows[i]
    BY <1>1
  <1>5. ASSUME NEW k \in Job PROVE Story(k, pc[k], rec[k])'
    <2>1. Story(k, pc[k], rec[k])
      BY DEF Base, StoryInv
    <2>2. /\ rec'[k].id = None /\ rec'[k].owner = None /\ rec'[k].queue = None
          /\ ~rec'[k].notifySent
      BY <1>0, <1>1
    <2>3. pc'[k] \notin {"waiting", "load", "saveTriggering", "saveQueued", "readNumber",
                        "saveRunning", "saveFailed", "saveFinal"}
      BY <1>3 DEF Tracking
    <2>4. pc'[k] = "idle" => k \notin DOMAIN rows'
      BY <1>3, <1>4, <2>1 DEF Story
    <2> QED BY <2>2, <2>3, <2>4 DEF Story, StatusAt
  <1>6. \A k \in Job : rec'[k].id = None
    BY <1>0, <1>1
  <1>7. NotifySentIsTrue'
    BY <1>1, <1>4 DEF Base, StoryInv, NotifySentIsTrue
  <1>8. History!Next \/ UNCHANGED rows
    BY <1>1 DEF History!Next, History!Forget, History!BlankRecord, BlankRecord
  <1> QED BY <1>2, <1>5, <1>6, <1>7, <1>8 DEF StoryInv

LEMMA StoryInit == Init => StoryInv
  <1> SUFFICES ASSUME Init PROVE StoryInv
    OBVIOUS
  <1>1. \A j \in Job : Story(j, "idle", BlankRecord)
    BY DEF Init, BlankRecord, Story, StatusAt
  <1>2. \A j \in Job : rec[j].id = None
    BY DEF Init, BlankRecord
  <1> QED
    BY <1>1, <1>2 DEF Init, StoryInv, NotifySentIsTrue, NoticesTrue

\* Every step keeps StoryInv and is a step of BuildHistory or changes no row.
LEMMA StoryNext ==
  ASSUME Base, [Next]_vars PROVE StoryInv' /\ (History!Next \/ UNCHANGED rows)
  <1>1. CASE UNCHANGED vars
    <2>1. UNCHANGED <<pc, rec, rows, jenkins, notices>>
      BY <1>1 DEF vars
    <2>2. StoryInv'
      BY <2>1 DEF Base, StoryInv, Story, StatusAt, Told, Advances, History!Advances,
                  NotifySentIsTrue, NoticesTrue
    <2> QED BY <2>1, <2>2
  <1>2. CASE Crash
    BY <1>2, StoryCrash
  <1>3. ASSUME NEW j \in Job, Request(j) PROVE StoryInv' /\ (History!Next \/ UNCHANGED rows)
    BY <1>3, StoryRequest
  <1>4. ASSUME NEW j \in Job,
               \/ SaveTriggering(j) \/ SaveQueued(j) \/ SaveRunning(j)
               \/ SaveFailed(j) \/ SaveFinal(j) \/ SaveNotified(j)
        PROVE  StoryInv' /\ (History!Next \/ UNCHANGED rows)
    BY <1>4, StorySaves
  <1>5. ASSUME NEW j \in Job,
               \/ Server(j) \/ AcquireSlot(j) \/ LoadRecord(j) \/ LoadFails(j)
               \/ PostTrigger(j) \/ TriggerAccepted(j) \/ TriggerFails(j)
               \/ QueueStillWaits(j) \/ QueueLeft(j) \/ QueueFails(j) \/ ReadNumber(j)
               \/ BuildStillRuns(j) \/ BuildEnded(j) \/ BuildFails(j)
               \/ WebhookSent(j) \/ WebhookNotSent(j)
        PROVE  StoryInv' /\ UNCHANGED rows
    <2>1. UNCHANGED rows
      BY <1>5 DEF Server, BuildStarts, ItemCancelled, BuildFinishes, AcquireSlot, LoadRecord,
                  LoadFails, PostTrigger, TriggerAccepted, TriggerFails, QueueStillWaits,
                  QueueLeft, QueueFails, ReadNumber, BuildStillRuns, BuildEnded, BuildFails,
                  WebhookSent, WebhookNotSent, GiveUp, PollAgain
    <2>2. StoryInv'
      BY <1>5, StoryServer, StoryLoad, StoryWithin, StoryTells
    <2> QED BY <2>1, <2>2
  <1> QED
    BY <1>1, <1>2, <1>3, <1>4, <1>5 DEF Next, Goroutine

\* The invariant of the module.
LEMMA BaseHolds == Spec => []Base
  <1>1. Init => HistoryInv /\ StoryInv
    BY HistoryInit, StoryInit
  <1>2. TypeOK /\ HistoryInv /\ StoryInv /\ [Next]_vars => HistoryInv' /\ StoryInv'
    BY HistoryNext, StoryNext DEF Base
  <1>3. TypeOK /\ HistoryInv /\ StoryInv => Base
    BY DEF Base
  <1> QED BY <1>1, <1>2, <1>3, TypeCorrect, PTL DEF Spec

\* A reader of the history sees rows that start as queued, only advance, and
\* keep the queue item and the build they name, whatever fails and crashes.
THEOREM HistoryImplemented == Spec => ImplementsHistory
  <1>1. Init => History!Init
    BY DEF Init, History!Init, BlankRecord, History!BlankRecord
  <1>2. Base /\ [Next]_vars => [History!Next]_rows
    BY StoryNext
  <1> QED BY <1>1, <1>2, BaseHolds, PTL DEF Spec, ImplementsHistory, History!Spec

\* notify_sent is set only for a message that was delivered and told the status
\* the row has.
THEOREM NotifyTold == Spec => []NotifySentIsTrue
  <1>1. Base => NotifySentIsTrue
    BY DEF Base, StoryInv
  <1> QED BY <1>1, BaseHolds, PTL

LEMMA TerminalStep ==
  ASSUME Base, Base', [Next]_vars,
         NEW i \in DOMAIN rows, rows[i].status \in Terminal, i \in DOMAIN rows'
  PROVE  rows'[i] \in {rows[i], [rows[i] EXCEPT !.notifySent = TRUE]}
  <1> SUFFICES ASSUME rows'[i] # rows[i]
               PROVE  rows'[i] = [rows[i] EXCEPT !.notifySent = TRUE]
    OBVIOUS
  <1>1. rows[i] \in Record /\ rows'[i] \in Record
    BY DEF Base, TypeOK
  <1>2. History!Next
    BY StoryNext
  <1>3. History!Advance(i)
    BY <1>2 DEF History!Next, History!Accept, History!Stray, History!Advance, History!Forget
  <1>4. rows'[i] = [rows[i] EXCEPT !.notifySent = rows'[i].notifySent]
    BY <1>1, <1>3, TerminalStage DEF History!Advance, History!Advances
  <1>5. rows'[i].notifySent
    <2>1. rows[i].notifySent \in BOOLEAN /\ rows'[i].notifySent \in BOOLEAN
      BY <1>1 DEF Record
    <2>2. [rows[i] EXCEPT !.notifySent = rows[i].notifySent] = rows[i]
      BY <1>1 DEF Record
    <2>3. rows[i].notifySent => rows'[i].notifySent
      BY <1>3 DEF History!Advance, History!Advances
    <2> QED BY <1>4, <2>1, <2>2, <2>3
  <1> QED BY <1>1, <1>4, <1>5 DEF Record

\* No later save undoes a terminal row.
THEOREM TerminalStays == Spec => TerminalRowsStay
  <1>1. Base /\ Base' /\ [Next]_vars =>
          [\A i \in DOMAIN rows :
             rows[i].status \in Terminal /\ i \in DOMAIN rows' =>
               rows'[i] \in {rows[i], [rows[i] EXCEPT !.notifySent = TRUE]}]_vars
    BY TerminalStep
  <1> QED BY <1>1, BaseHolds, PTL DEF Spec, TerminalRowsStay

----------------------------------------------------------------------------
(***************************************************************************)
(* Without store faults every record stays its goroutine's own; once the   *)
(* final save is made the row is terminal, and a message is sent only      *)
(* after that, so that what it tells cannot change.  A crash takes nothing *)
(* of this back, but for the rows of the memory store.                     *)
(***************************************************************************)
Kept == Durable \/ crashes = 0
Notified == {"webhook", "saveNotified", "done", "lost"}

CalmStory(j, p, r) ==
  /\ p \in Tracking \ {"load"} => r.id = j
  /\ p \in {"webhook", "saveNotified", "done"} =>
       /\ Kept => j \in DOMAIN rows
       /\ j \in DOMAIN rows => rows[j].status \in Terminal
  /\ p \in {"webhook", "saveNotified"} => j \in DOMAIN rows /\ r.status = rows[j].status

Settled(n) ==
  /\ pc[n.job] \in Notified
  /\ Kept => n.job \in DOMAIN rows
  /\ n.job \in DOMAIN rows => rows[n.job].status = n.status
  /\ n.status \in Terminal

CalmInv ==
  faults = 0 =>
    /\ \A i \in DOMAIN rows : rows[i].owner = i
    /\ \A j \in Job : CalmStory(j, pc[j], rec[j])
    /\ \A n \in notices : Settled(n)

\* No store call fails in a calm step, and only a crash removes rows.
LEMMA StaysCalm ==
  ASSUME Base, [Next]_vars, faults' = 0
  PROVE  /\ faults = 0 /\ ~StoreFails
         /\ ~Crash => UNCHANGED crashes /\ DOMAIN rows \subseteq DOMAIN rows'
  <1>1. faults \in Nat
    BY ParameterAssumption DEF Base, TypeOK
  <1>2. ~StoreFails
    BY <1>1 DEF StoreFails
  <1>3. ASSUME NEW j \in Job, Request(j) \/ Goroutine(j) \/ Server(j)
        PROVE  UNCHANGED <<faults, crashes>> /\ DOMAIN rows \subseteq DOMAIN rows'
    <2>1. CASE Request(j)
      BY <1>2, <2>1 DEF Request, AcceptItem, RefuseItem, LoseItem, Put
    <2>2. CASE \/ SaveTriggering(j) \/ SaveQueued(j) \/ SaveRunning(j)
               \/ SaveFailed(j) \/ SaveFinal(j) \/ SaveNotified(j)
      <3>1. UNCHANGED <<faults, crashes>> /\ \E i \in SaveIds(rec[j]) : rows' = Put(i, rec[j])
        BY <1>2, <2>2 DEF SaveTriggering, SaveQueued, SaveRunning, SaveFailed, SaveFinal,
                          SaveNotified, SaveAndKeep, SaveAndDrop
      <3> QED BY <3>1 DEF Put
    <2>3. CASE \/ Server(j) \/ AcquireSlot(j) \/ LoadRecord(j) \/ LoadFails(j)
               \/ PostTrigger(j) \/ TriggerAccepted(j) \/ TriggerFails(j)
               \/ QueueStillWaits(j) \/ QueueLeft(j) \/ QueueFails(j) \/ ReadNumber(j)
               \/ BuildStillRuns(j) \/ BuildEnded(j) \/ BuildFails(j)
               \/ WebhookSent(j) \/ WebhookNotSent(j)
      BY <1>2, <2>3
      DEF Server, BuildStarts, ItemCancelled, BuildFinishes, AcquireSlot, LoadRecord,
          LoadFails, PostTrigger, TriggerAccepted, TriggerFails, QueueStillWaits,
          QueueLeft, QueueFails, ReadNumber, BuildStillRuns, BuildEnded, BuildFails,
          WebhookSent, WebhookNotSent, GiveUp, PollAgain
    <2> QED BY <1>3, <2>1, <2>2, <2>3 DEF Goroutine
  <1> QED BY <1>2, <1>3 DEF Next, vars, Crash

\* What a step leaves calm: the rest of the goroutines, and the rows.
LEMMA CalmOthers ==
  ASSUME Base, Base', CalmInv, [Next]_vars, ~Crash, faults' = 0,
         NEW j \in Job, pc[j] \in Notified => pc'[j] \in Notified,
         \A k \in Job : k \in DOMAIN rows' =>
           k \in DOMAIN rows \/ (k = j /\ pc[j] \notin Notified),
         \A k \in Job \ {j} : pc'[k] = pc[k] /\ rec'[k] = rec[k],
         CalmStory(j, pc[j], rec[j])',
         \/ UNCHANGED rows
         \/ \A i \in DOMAIN rows' : (i \in DOMAIN rows /\ rows'[i] = rows[i]) \/ rows'[i].owner = i,
         \/ UNCHANGED notices
         \/ UNCHANGED rows /\ pc[j] = "webhook" /\ notices' = notices \cup {Notice(j)}
  PROVE  CalmInv'
  <1>1. /\ faults = 0 /\ crashes' = crashes
        /\ DOMAIN rows \subseteq DOMAIN rows'
    BY StaysCalm
  <1>2. ASSUME NEW i \in DOMAIN rows, rows[i].status \in Terminal
        PROVE  i \in DOMAIN rows' /\ rows'[i].status = rows[i].status
    <2>1. rows'[i] \in {rows[i], [rows[i] EXCEPT !.notifySent = TRUE]} /\ rows[i] \in Record
      BY <1>1, <1>2, TerminalStep DEF Base, TypeOK
    <2> QED BY <1>1, <2>1 DEF Record
  <1>3. ASSUME NEW k \in Job \ {j} PROVE CalmStory(k, pc[k], rec[k])'
    BY <1>1, <1>2 DEF CalmInv, CalmStory, Kept
  <1>4. ASSUME NEW n \in notices' PROVE Settled(n)'
    <2>0. n.job \in Job
      BY DEF Base, TypeOK, NoticeSet
    <2>1. Settled(n)
      <3>1. CASE n \in notices
        BY <1>1, <3>1 DEF CalmInv
      <3>2. CASE n = Notice(j) /\ pc[j] = "webhook"
        <4>1. n.job = j /\ n.status = rec[j].status
          BY <3>2 DEF Notice
        <4>2. CalmStory(j, pc[j], rec[j])
          BY <1>1 DEF CalmInv
        <4> QED BY <3>2, <4>1, <4>2 DEF CalmStory, Settled, Notified
      <3> QED BY <3>1, <3>2
    <2>2. pc'[n.job] \in Notified
      BY <2>0, <2>1 DEF Settled
    <2>3. n.job \in DOMAIN rows' => n.job \in DOMAIN rows
      BY <2>0, <2>1 DEF Settled
    <2> QED BY <1>1, <1>2, <2>1, <2>2, <2>3 DEF Settled, Kept
  <1>5. \A i \in DOMAIN rows' : rows'[i].owner = i
    BY <1>1 DEF CalmInv
  <1> QED BY <1>3, <1>4, <1>5 DEF CalmInv

LEMMA CalmSaves ==
  ASSUME Base, Base', CalmInv, [Next]_vars, ~Crash, faults' = 0, NEW j \in Job,
         \/ SaveTriggering(j) \/ SaveQueued(j) \/ SaveRunning(j)
         \/ SaveFailed(j) \/ SaveFinal(j) \/ SaveNotified(j)
  PROVE  CalmInv'
  <1>1. faults = 0 /\ ~StoreFails
    BY StaysCalm
  <1>2. PICK p \in {"trigger", "pollQueue", "pollBuild", "webhook", "done"} :
          /\ pc' = [pc EXCEPT ![j] = p]
          /\ p \in {"webhook", "done"} => pc[j] \in {"saveFailed", "saveFinal", "saveNotified"}
    BY DEF SaveTriggering, SaveQueued, SaveRunning, SaveFailed, SaveFinal,
           SaveNotified, NotifyOrReturn, Return, Goto
  <1>3. pc[j] \in Tracking \ {"load"} /\ UNCHANGED notices
    BY DEF SaveTriggering, SaveQueued, SaveRunning, SaveFailed, SaveFinal,
           SaveNotified, Goto, Tracking
  <1>4. /\ rec[j] \in Record /\ rec[j].id = j /\ rec[j].owner = j
        /\ Story(j, pc[j], rec[j]) /\ j # None
    BY <1>1, <1>3, IdAssumption
    DEF Base, TypeOK, HistoryInv, RecTrue, StoryInv, CalmInv, CalmStory
  <1>5. [rec[j] EXCEPT !.id = j] = rec[j] /\ SaveIds(rec[j]) = {j}
    BY <1>4 DEF Record, SaveIds
  <1>6. rows' = Put(j, rec[j]) /\ rec' = rec
    <2>1. CASE SaveAndKeep(j, rec[j])
      <3>1. rec' = [rec EXCEPT ![j] = rec[j]]
        BY <1>1, <1>5, <2>1 DEF SaveAndKeep
      <3> QED BY <1>1, <1>5, <2>1, <3>1 DEF SaveAndKeep, Base, TypeOK
    <2>2. CASE SaveAndDrop(rec[j]) /\ UNCHANGED rec
      BY <1>1, <1>5, <2>2 DEF SaveAndDrop
    <2> QED
      BY <2>1, <2>2 DEF SaveTriggering, SaveQueued, SaveRunning, SaveFailed,
                        SaveFinal, SaveNotified
  <1>7. /\ \A k \in Job \ {j} : pc'[k] = pc[k] /\ rec'[k] = rec[k]
        /\ pc'[j] = p /\ rec'[j] = rec[j]
        /\ j \in DOMAIN rows' /\ rows'[j] = rec[j]
        /\ \A i \in DOMAIN rows' : (i \in DOMAIN rows /\ rows'[i] = rows[i]) \/ rows'[i].owner = i
    BY <1>2, <1>4, <1>5, <1>6 DEF Put, Base, TypeOK
  <1>8. p \in {"webhook", "done"} => rec[j].status \in Terminal
    BY <1>2, <1>4 DEF Story, StatusAt
  <1>9. CalmStory(j, pc[j], rec[j])'
    BY <1>2, <1>4, <1>7, <1>8 DEF CalmStory
  <1>10. pc[j] \in Notified => pc[j] = "saveNotified" /\ p = "done" /\ j \in DOMAIN rows
    <2>1. pc[j] \in Notified => pc[j] = "saveNotified" /\ p = "done"
      BY <1>2 DEF SaveTriggering, SaveQueued, SaveRunning, SaveFailed, SaveFinal,
                  SaveNotified, Goto, Return, Notified, Base, TypeOK
    <2> QED BY <1>1, <2>1 DEF CalmInv, CalmStory
  <1>11. \A k \in Job : k \in DOMAIN rows' =>
           k \in DOMAIN rows \/ (k = j /\ pc[j] \notin Notified)
    BY <1>6, <1>10 DEF Put
  <1>12. pc[j] \in Notified => pc'[j] \in Notified
    BY <1>7, <1>10 DEF Notified
  <1> QED BY <1>3, <1>7, <1>9, <1>11, <1>12, CalmOthers

LEMMA CalmWithin ==
  ASSUME Base, Base', CalmInv, [Next]_vars, ~Crash, faults' = 0, NEW j \in Job,
         \/ AcquireSlot(j) \/ LoadRecord(j) \/ LoadFails(j)
         \/ PostTrigger(j) \/ TriggerAccepted(j) \/ TriggerFails(j)
         \/ QueueStillWaits(j) \/ QueueLeft(j) \/ QueueFails(j) \/ ReadNumber(j)
         \/ BuildStillRuns(j) \/ BuildEnded(j) \/ BuildFails(j)
         \/ WebhookSent(j) \/ WebhookNotSent(j)
  PROVE  CalmInv'
  <1>1. faults = 0 /\ ~StoreFails /\ UNCHANGED <<rows, crashes>>
    BY StaysCalm
    DEF AcquireSlot, LoadRecord, LoadFails, PostTrigger, TriggerAccepted, TriggerFails,
        QueueStillWaits, QueueLeft, QueueFails, ReadNumber, BuildStillRuns, BuildEnded,
        BuildFails, WebhookSent, WebhookNotSent, GiveUp, PollAgain
  <1>2. rec[j] \in Record /\ CalmStory(j, pc[j], rec[j])
    BY <1>1 DEF Base, TypeOK, CalmInv
  <1>3. \A k \in Job \ {j} : pc'[k] = pc[k] /\ rec'[k] = rec[k]
    BY <1>1
    DEF AcquireSlot, LoadRecord, LoadFails, PostTrigger, TriggerAccepted, TriggerFails,
        QueueStillWaits, QueueLeft, QueueFails, ReadNumber, BuildStillRuns, BuildEnded,
        BuildFails, WebhookSent, WebhookNotSent, GiveUp, PollAgain, Goto, Return, Base, TypeOK
  <1>4. UNCHANGED notices \/ (pc[j] = "webhook" /\ notices' = notices \cup {Notice(j)})
    BY <1>1
    DEF AcquireSlot, LoadRecord, LoadFails, PostTrigger, TriggerAccepted, TriggerFails,
        QueueStillWaits, QueueLeft, QueueFails, ReadNumber, BuildStillRuns, BuildEnded,
        BuildFails, WebhookSent, WebhookNotSent, GiveUp, PollAgain, Goto
  <1>5. CalmStory(j, pc[j], rec[j])'
    <2>1. CASE AcquireSlot(j)
      BY <1>1, <2>1 DEF AcquireSlot, Goto, CalmStory, Kept, Base, TypeOK
    <2>2. CASE LoadRecord(j)
      <3>1. rows[j] \in Record /\ rows[j].id = j
        BY <2>2 DEF LoadRecord, Base, TypeOK
      <3>2. rec'[j].id = j
        BY <2>2, <3>1 DEF LoadRecord, Base, TypeOK, Record
      <3> QED BY <2>2, <3>2 DEF LoadRecord, Goto, CalmStory, Base, TypeOK
    <2>3. CASE LoadFails(j)
      BY <1>1, <2>3 DEF LoadFails
    <2>4. CASE QueueStillWaits(j) \/ BuildStillRuns(j)
      BY <1>1, <1>2, <2>4 DEF QueueStillWaits, BuildStillRuns, PollAgain, CalmStory, Kept
    <2>5. CASE WebhookSent(j) \/ WebhookNotSent(j)
      <3>1. /\ pc[j] = "webhook" /\ pc'[j] \in {"saveNotified", "done"}
            /\ rec'[j].id = rec[j].id /\ rec'[j].status = rec[j].status
        <4>1. /\ pc[j] = "webhook" /\ pc'[j] \in {"saveNotified", "done"}
              /\ rec'[j] \in {rec[j], [rec[j] EXCEPT !.notifySent = TRUE]}
          BY <2>5 DEF WebhookSent, WebhookNotSent, Goto, Return, Base, TypeOK
        <4> QED BY <1>2, <4>1 DEF Record
      <3> QED BY <1>1, <1>2, <3>1 DEF CalmStory, Kept, Tracking
    <2>6. CASE \/ PostTrigger(j) \/ TriggerAccepted(j) \/ TriggerFails(j)
               \/ QueueLeft(j) \/ QueueFails(j) \/ ReadNumber(j)
               \/ BuildEnded(j) \/ BuildFails(j)
      <3>1. /\ pc[j] \in Tracking \ {"load"}
            /\ pc'[j] \notin {"webhook", "saveNotified", "done"}
        BY <2>6 DEF PostTrigger, TriggerAccepted, TriggerFails, QueueLeft, QueueFails,
                    ReadNumber, BuildEnded, BuildFails, GiveUp, Goto, Base, TypeOK, Tracking
      <3>2. rec'[j] \in {rec[j], [[rec[j] EXCEPT !.queue = j] EXCEPT !.status = "queued"],
                       [rec[j] EXCEPT !.status = "FAILED"],
                       [[rec[j] EXCEPT !.build = j] EXCEPT !.status = "RUNNING"],
                       Numbered(rec[j]),
                       [[rec[j] EXCEPT !.number = TRUE] EXCEPT !.status = jenkins[j]]}
        BY <2>6 DEF PostTrigger, TriggerAccepted, TriggerFails, QueueLeft, QueueFails,
                    ReadNumber, BuildEnded, BuildFails, GiveUp, Base, TypeOK
      <3>3. rec'[j].id = rec[j].id
        BY <1>2, <3>2 DEF Numbered, Record
      <3> QED BY <1>2, <3>1, <3>3 DEF CalmStory
    <2> QED BY <2>1, <2>2, <2>3, <2>4, <2>5, <2>6
  <1>6. pc[j] \in Notified => pc'[j] \in Notified
    BY <1>1
    DEF AcquireSlot, LoadRecord, LoadFails, PostTrigger, TriggerAccepted, TriggerFails,
        QueueStillWaits, QueueLeft, QueueFails, ReadNumber, BuildStillRuns, BuildEnded,
        BuildFails, WebhookSent, WebhookNotSent, GiveUp, PollAgain, Goto, Return, Base,
        TypeOK, Notified
  <1> QED BY <1>1, <1>3, <1>4, <1>5, <1>6, CalmOthers

LEMMA CalmCrash ==
  ASSUME Base, CalmInv, Crash, faults' = 0 PROVE CalmInv'
  <1>1. /\ faults = 0 /\ UNCHANGED notices
        /\ rows' = rows \/ (~Durable /\ DOMAIN rows' = {})
        /\ Kept' => Durable
    <2>1. crashes \in Nat /\ crashes' = crashes + 1
      BY ParameterAssumption DEF Crash, Base, TypeOK
    <2> QED BY <2>1 DEF Crash, Kept
  <1>2. ASSUME NEW k \in Job
        PROVE  /\ pc'[k] \notin Tracking
               /\ pc'[k] = "done" => pc[k] = "done"
               /\ pc[k] \in Notified => pc'[k] \in Notified
    BY DEF Crash, Tracking, Notified
  <1>3. ASSUME NEW k \in Job PROVE CalmStory(k, pc[k], rec[k])'
    BY <1>1, <1>2 DEF CalmInv, CalmStory, Kept, Tracking
  <1>4. ASSUME NEW n \in notices' PROVE Settled(n)'
    <2>1. n.job \in Job /\ Settled(n)
      BY <1>1 DEF Base, TypeOK, NoticeSet, CalmInv
    <2> QED BY <1>1, <1>2, <2>1 DEF Settled, Kept
  <1> QED BY <1>1, <1>3, <1>4 DEF CalmInv

LEMMA CalmNext == Base /\ Base' /\ CalmInv /\ [Next]_vars => CalmInv'
  <1> SUFFICES ASSUME Base, Base', CalmInv, [Next]_vars, ~Crash, faults' = 0
               PROVE  CalmInv'
    BY CalmCrash DEF CalmInv
  <1>1. faults = 0 /\ ~StoreFails /\ UNCHANGED crashes
    BY StaysCalm
  <1>2. CASE UNCHANGED vars
    BY <1>1, <1>2 DEF vars, CalmInv, CalmStory, Settled, Kept
  <1>3. ASSUME NEW j \in Job, Request(j) PROVE CalmInv'
    <2>1. PICK p \in {"waiting", "refused"} :
            /\ pc[j] = "idle" /\ pc' = [pc EXCEPT ![j] = p]
            /\ rows' \in {rows, Put(j, FirstRecord(j))}
            /\ UNCHANGED <<rec, notices>>
      BY <1>1, <1>3 DEF Request, AcceptItem, RefuseItem, LoseItem, Goto
    <2>2. /\ \A k \in Job \ {j} : pc'[k] = pc[k] /\ rec'[k] = rec[k]
          /\ pc'[j] = p
      BY <2>1 DEF Base, TypeOK
    <2>3. [FirstRecord(j) EXCEPT !.id = j].owner = j
      BY DEF FirstRecord, BlankRecord
    <2>4. \A i \in DOMAIN rows' : (i \in DOMAIN rows /\ rows'[i] = rows[i]) \/ rows'[i].owner = i
      <3>1. CASE rows' = Put(j, FirstRecord(j))
        <4>1. /\ DOMAIN rows' = DOMAIN rows \cup {j}
              /\ rows'[j] = [FirstRecord(j) EXCEPT !.id = j]
              /\ \A i \in DOMAIN rows' : i # j => rows'[i] = rows[i]
          BY <3>1 DEF Put
        <4> QED BY <2>3, <4>1
      <3> QED BY <2>1, <3>1
    <2>5. CalmStory(j, pc[j], rec[j])'
      BY <2>2 DEF CalmStory, Tracking
    <2>6. \A k \in Job : k \in DOMAIN rows' =>
            k \in DOMAIN rows \/ (k = j /\ pc[j] \notin Notified)
      BY <2>1 DEF Put, Notified
    <2>7. pc[j] \notin Notified
      BY <2>1 DEF Notified
    <2> QED BY <2>1, <2>2, <2>4, <2>5, <2>6, <2>7, CalmOthers
  <1>4. ASSUME NEW j \in Job, Server(j) PROVE CalmInv'
    <2>1. UNCHANGED <<pc, rec, rows, notices>>
      BY <1>4 DEF Server, BuildStarts, ItemCancelled, BuildFinishes
    <2> QED BY <1>1, <2>1 DEF CalmInv, CalmStory, Settled, Kept
  <1>5. ASSUME NEW j \in Job, Goroutine(j) PROVE CalmInv'
    BY <1>5, CalmSaves, CalmWithin DEF Goroutine
  <1> QED BY <1>1, <1>2, <1>3, <1>4, <1>5 DEF Next

LEMMA CalmHolds == Spec => []CalmInv
  <1>1. Init => CalmInv
    BY DEF Init, CalmInv, CalmStory, Tracking
  <1> QED BY <1>1, CalmNext, BaseHolds, PTL DEF Spec

\* Without faults and crashes a goroutine that returns leaves a terminal row,
\* and every row has its service.
THEOREM HistoryIsComplete == Spec => []HistoryComplete
  <1>1. CalmInv => HistoryComplete
    BY DEF CalmInv, CalmStory, Kept, HistoryComplete
  <1> QED BY <1>1, CalmHolds, PTL

\* A notice of a verdict repeats Jenkins', and without faults and crashes the
\* history says the same as the notice for ever.
THEOREM NoticesAreTrue == Spec => []NoticesAgree
  <1>1. Base /\ CalmInv => NoticesAgree
    BY DEF Base, StoryInv, NoticesTrue, CalmInv, Settled, Kept, NoticesAgree
  <1> QED BY <1>1, BaseHolds, CalmHolds, PTL

\* What crashes alone can do to the history.  As long as no store call fails, a
\* goroutine that returned has left a terminal row, every row has its service,
\* and the history agrees with every notice: with PostgreSQL whenever and how
\* often the service crashes, in memory for the rows since the last crash.  So
\* only the items whose goroutine a crash has killed stay unfinished.
CrashesOnlyCutShort ==
  faults = 0 =>
    /\ \A i \in DOMAIN rows : rows[i].owner = i
    /\ \A j \in Job : pc[j] = "done" /\ (Durable \/ j \in DOMAIN rows) =>
         j \in DOMAIN rows /\ rows[j].status \in Terminal
    /\ \A n \in notices : Durable \/ n.job \in DOMAIN rows =>
         n.job \in DOMAIN rows /\ rows[n.job].status = n.status

\* It holds in every reachable state.
THEOREM CrashesCutShort == Spec => []CrashesOnlyCutShort
  <1>1. CalmInv => CrashesOnlyCutShort
    BY DEF CalmInv, CalmStory, Settled, Kept, CrashesOnlyCutShort
  <1> QED BY <1>1, CalmHolds, PTL

----------------------------------------------------------------------------
(***************************************************************************)
(* Rows without a service.  A failed Save leaves its goroutine a record    *)
(* without an id, and its next save makes a row of it: a blank one that    *)
(* says at most how the build ended.  A record that is lost just before    *)
(* the notification costs one such row, for the save that follows a        *)
(* message; one that is lost earlier can cost two, for SaveFailed keeps    *)
(* neither the id nor the row in mind and SaveNotified saves once more.    *)
(***************************************************************************)
StrayRows == {i \in DOMAIN rows : rows[i].owner = None}

\* Goroutines that hold a record without an id, and those of them that may
\* save it more than once.
Nameless == {j \in Job : pc[j] \in Tracking \ {"load"} /\ rec[j].id = None}
NamelessEarly == {j \in Nameless : pc[j] \notin {"webhook", "saveNotified"}}

Owed == Cardinality(Nameless) + Cardinality(NamelessEarly)

StrayInv ==
  /\ IsFiniteSet(StrayRows)
  /\ Cardinality(StrayRows) + Owed <= 2 * faults

\* The membership of x in S, as a number.
Has(S, x) == IF x \in S THEN 1 ELSE 0

\* Two finite sets that differ at most in x.
LEMMA OneElement ==
  ASSUME NEW S, NEW T, NEW x, IsFiniteSet(S), S \ {x} = T \ {x}
  PROVE  /\ IsFiniteSet(T)
         /\ Cardinality(T) = Cardinality(S) + Has(T, x) - Has(S, x)
         /\ Cardinality(S) \in Nat /\ Cardinality(T) \in Nat
  <1> DEFINE R == S \ {x}
  <1>1. /\ IsFiniteSet(R) /\ Cardinality(R) \in Nat
        /\ Cardinality(S) \in Nat
        /\ Cardinality(R) = IF x \in S THEN Cardinality(S) - 1 ELSE Cardinality(S)
    <2>1. IsFiniteSet(R)
      BY FS_RemoveElement
    <2> QED BY <2>1, FS_RemoveElement, FS_CardinalityType
  <1>2. IsFiniteSet(R \cup {x}) /\ Cardinality(R \cup {x}) = Cardinality(R) + 1
    BY <1>1, FS_AddElement
  <1>3. T = IF x \in T THEN R \cup {x} ELSE R
    OBVIOUS
  <1> HIDE DEF R
  <1>4. IsFiniteSet(T) /\ Cardinality(T) = Cardinality(R) + Has(T, x)
    <2>1. CASE x \in T
      <3>1. T = R \cup {x} /\ Has(T, x) = 1
        BY <1>3, <2>1 DEF Has
      <3> QED BY <1>2, <3>1
    <2>2. CASE x \notin T
      <3>1. T = R /\ Has(T, x) = 0
        BY <1>3, <2>2 DEF Has
      <3> QED BY <1>1, <3>1
    <2> QED BY <2>1, <2>2
  <1> QED BY <1>1, <1>4 DEF Has

LEMMA NamelessFinite == IsFiniteSet(Nameless) /\ IsFiniteSet(NamelessEarly)
  <1>1. Nameless \subseteq Job /\ NamelessEarly \subseteq Job
    BY DEF Nameless, NamelessEarly
  <1> QED BY <1>1, ParameterAssumption, FS_Subset

\* A step of one goroutine that touches one row.
LEMMA StrayStep ==
  ASSUME StrayInv, faults \in Nat, faults' \in Nat, NEW i, NEW j \in Job,
         StrayRows \ {i} = StrayRows' \ {i},
         \A k \in Job \ {j} : pc'[k] = pc[k] /\ rec'[k] = rec[k],
         Has(StrayRows', i) + Has(Nameless', j) + Has(NamelessEarly', j) - 2 * faults'
           <= Has(StrayRows, i) + Has(Nameless, j) + Has(NamelessEarly, j) - 2 * faults
  PROVE  StrayInv'
  <1>1. Nameless \ {j} = Nameless' \ {j} /\ NamelessEarly \ {j} = NamelessEarly' \ {j}
    BY DEF Nameless, NamelessEarly
  <1>2. /\ Cardinality(Nameless)' = Cardinality(Nameless) + Has(Nameless', j) - Has(Nameless, j)
        /\ Cardinality(Nameless) \in Nat
    BY <1>1, NamelessFinite, OneElement
  <1>3. /\ Cardinality(NamelessEarly)'
             = Cardinality(NamelessEarly) + Has(NamelessEarly', j) - Has(NamelessEarly, j)
        /\ Cardinality(NamelessEarly) \in Nat
    BY <1>1, NamelessFinite, OneElement
  <1>4. /\ IsFiniteSet(StrayRows')
        /\ Cardinality(StrayRows') = Cardinality(StrayRows) + Has(StrayRows', i) - Has(StrayRows, i)
        /\ Cardinality(StrayRows) \in Nat
    BY OneElement DEF StrayInv
  <1>5. \A S, x : Has(S, x) \in {0, 1}
    BY DEF Has
  <1>6. Owed' = Cardinality(Nameless)' + Cardinality(NamelessEarly)'
    BY DEF Owed
  <1> QED BY <1>2, <1>3, <1>4, <1>5, <1>6 DEF StrayInv, Owed

LEMMA StraySaves ==
  ASSUME Base, StrayInv, NEW j \in Job,
         \/ SaveTriggering(j) \/ SaveQueued(j) \/ SaveRunning(j)
         \/ SaveFailed(j) \/ SaveFinal(j) \/ SaveNotified(j)
  PROVE  StrayInv'
  <1>1. /\ rec[j] \in Record /\ pc[j] \in Tracking \ {"load"}
        /\ faults \in Nat
        /\ \A k \in Job \ {j} : pc'[k] = pc[k]
    BY ParameterAssumption
    DEF Base, TypeOK, SaveTriggering, SaveQueued, SaveRunning, SaveFailed, SaveFinal,
        SaveNotified, NotifyOrReturn, Return, Goto, Tracking
  <1>2. PICK i \in SaveIds(rec[j]) :
          /\ rows' \in {rows, Put(i, rec[j])}
          /\ \/ UNCHANGED faults \/ faults' = faults + 1
          /\ \/ /\ pc[j] \notin {"webhook", "saveNotified"}
                /\ \/ /\ rec' = [rec EXCEPT ![j] = [rec[j] EXCEPT !.id = i]]
                   \/ /\ rec' = [rec EXCEPT ![j] = BlankRecord]
                      /\ faults' = faults + 1
             \/ /\ pc[j] = "saveFailed" /\ pc'[j] \in {"webhook", "done"}
                /\ UNCHANGED rec
             \/ /\ pc[j] = "saveNotified" /\ pc'[j] = "done"
                /\ UNCHANGED rec
    <2>1. CASE SaveAndKeep(j, rec[j]) /\ pc[j] \notin {"webhook", "saveNotified"}
      BY <2>1 DEF SaveAndKeep, StoreFails
    <2>2. CASE /\ SaveAndDrop(rec[j]) /\ UNCHANGED rec
               /\ \/ pc[j] = "saveFailed" /\ pc'[j] \in {"webhook", "done"}
                  \/ pc[j] = "saveNotified" /\ pc'[j] = "done"
      BY <2>2 DEF SaveAndDrop, StoreFails
    <2> QED
      BY <2>1, <2>2 DEF SaveTriggering, SaveQueued, SaveRunning, SaveFailed,
                        SaveFinal, SaveNotified, NotifyOrReturn, Return, Goto, Base, TypeOK
  <1>3. /\ \A k \in Job \ {j} : rec'[k] = rec[k]
        /\ faults' \in Nat
    BY <1>1, <1>2 DEF Base, TypeOK
  <1>4. /\ i # None
        /\ \/ i = rec[j].id /\ i \in DOMAIN rows /\ rows[i].owner = rec[j].owner
           \/ rec[j].id = None /\ i \notin DOMAIN rows
    <2>1. /\ i \in Id
          /\ \/ i = rec[j].id /\ i \in DOMAIN rows /\ Advances(rows[i], rec[j])
             \/ rec[j].id = None /\ i \notin DOMAIN rows
      BY SaveIsOwn
    <2>2. i # None
      BY <2>1, IdAssumption DEF Id
    <2> QED BY <2>1, <2>2 DEF Advances, History!Advances
  <1>5. /\ StrayRows \ {i} = StrayRows' \ {i}
        /\ i = rec[j].id => Has(StrayRows', i) = Has(StrayRows, i)
        /\ rec[j].id = None => Has(StrayRows, i) = 0 /\ Has(StrayRows', i) \in {0, 1}
    <2>1. [rec[j] EXCEPT !.id = i].owner = rec[j].owner
      BY <1>1 DEF Record
    <2>2. \A k : k \in StrayRows' <=> k \in DOMAIN rows' /\ rows'[k].owner = None
      BY DEF StrayRows
    <2>3. \A k \in DOMAIN rows \ {i} : k \in DOMAIN rows' /\ rows'[k] = rows[k]
      BY <1>2 DEF Put
    <2>4. \A k \in DOMAIN rows' : k \in DOMAIN rows \/ k = i
      BY <1>2 DEF Put
    <2>5. StrayRows \ {i} = StrayRows' \ {i}
      BY <2>2, <2>3, <2>4 DEF StrayRows
    <2>6. i \in DOMAIN rows => i \in DOMAIN rows' /\ rows'[i].owner \in {rows[i].owner, rec[j].owner}
      BY <1>2, <2>1 DEF Put
    <2>7. i = rec[j].id => (i \in StrayRows' <=> i \in StrayRows)
      BY <1>4, <2>2, <2>6 DEF StrayRows
    <2> QED BY <1>4, <2>5, <2>7 DEF Has, StrayRows
  <1>6. /\ Has(Nameless, j) = IF rec[j].id = None THEN 1 ELSE 0
        /\ Has(NamelessEarly, j) =
             IF rec[j].id = None /\ pc[j] \notin {"webhook", "saveNotified"} THEN 1 ELSE 0
    BY <1>1 DEF Has, Nameless, NamelessEarly
  <1>7. /\ Has(Nameless', j) \in {0, 1} /\ Has(NamelessEarly', j) \in {0, 1}
        /\ rec'[j].id # None => Has(Nameless', j) = 0 /\ Has(NamelessEarly', j) = 0
        /\ pc'[j] \in {"webhook", "done"} => Has(NamelessEarly', j) = 0
        /\ pc'[j] = "done" => Has(Nameless', j) = 0
    BY DEF Has, Nameless, NamelessEarly, Tracking
  <1>8. Has(StrayRows', i) + Has(Nameless', j) + Has(NamelessEarly', j) - 2 * faults'
          <= Has(StrayRows, i) + Has(Nameless, j) + Has(NamelessEarly, j) - 2 * faults
    <2>1. Has(StrayRows', i) \in {0, 1} /\ Has(StrayRows, i) \in {0, 1}
      BY DEF Has
    <2>2. CASE rec' = [rec EXCEPT ![j] = [rec[j] EXCEPT !.id = i]] /\ pc[j] \notin {"webhook", "saveNotified"}
      <3>1. rec'[j].id = i
        BY <1>1, <2>2 DEF Base, TypeOK, Record
      <3>2. Has(Nameless', j) = 0 /\ Has(NamelessEarly', j) = 0
        BY <1>4, <1>7, <3>1
      <3> QED BY <1>1, <1>2, <1>3, <1>4, <1>5, <1>6, <2>1, <2>2, <3>2
    <2>3. CASE faults' = faults + 1 /\ pc[j] \notin {"webhook", "saveNotified"}
      BY <1>1, <1>3, <1>4, <1>5, <1>6, <1>7, <2>1, <2>3
    <2>4. CASE UNCHANGED rec /\ pc[j] = "saveFailed" /\ pc'[j] \in {"webhook", "done"}
      BY <1>1, <1>2, <1>3, <1>4, <1>5, <1>6, <1>7, <2>1, <2>4
    <2>5. CASE UNCHANGED rec /\ pc[j] = "saveNotified" /\ pc'[j] = "done"
      BY <1>1, <1>2, <1>3, <1>4, <1>5, <1>6, <1>7, <2>1, <2>5
    <2> QED BY <1>2, <2>2, <2>3, <2>4, <2>5
  <1> QED BY <1>1, <1>3, <1>5, <1>8, StrayStep

\* The other steps of a goroutine save nothing, and give no goroutine a record
\* without an id.
LEMMA StrayWithin ==
  ASSUME Base, StrayInv, NEW j \in Job,
         \/ AcquireSlot(j) \/ LoadRecord(j) \/ LoadFails(j)
         \/ PostTrigger(j) \/ TriggerAccepted(j) \/ TriggerFails(j)
         \/ QueueStillWaits(j) \/ QueueLeft(j) \/ QueueFails(j) \/ ReadNumber(j)
         \/ BuildStillRuns(j) \/ BuildEnded(j) \/ BuildFails(j)
         \/ WebhookSent(j) \/ WebhookNotSent(j)
  PROVE  StrayInv'
  <1>1. UNCHANGED rows /\ (faults' = faults \/ faults' = faults + 1) /\ faults \in Nat
    BY ParameterAssumption
    DEF AcquireSlot, LoadRecord, LoadFails, PostTrigger, TriggerAccepted, TriggerFails,
        QueueStillWaits, QueueLeft, QueueFails, ReadNumber, BuildStillRuns, BuildEnded,
        BuildFails, WebhookSent, WebhookNotSent, GiveUp, PollAgain, StoreFails, Base, TypeOK
  <1>2. \A k \in Job \ {j} : pc'[k] = pc[k] /\ rec'[k] = rec[k]
    BY DEF AcquireSlot, LoadRecord, LoadFails, PostTrigger, TriggerAccepted, TriggerFails,
        QueueStillWaits, QueueLeft, QueueFails, ReadNumber, BuildStillRuns, BuildEnded,
        BuildFails, WebhookSent, WebhookNotSent, GiveUp, PollAgain, Goto, Return, Base, TypeOK
  <1>3. /\ pc'[j] \in Tracking \ {"load"} =>
             pc[j] \in Tracking /\ (pc[j] = "load" => LoadRecord(j))
        /\ pc'[j] \in Tracking \ {"load", "webhook", "saveNotified"} =>
             pc[j] \notin {"webhook", "saveNotified"}
    BY DEF AcquireSlot, LoadRecord, LoadFails, PostTrigger, TriggerAccepted, TriggerFails,
        QueueStillWaits, QueueLeft, QueueFails, ReadNumber, BuildStillRuns, BuildEnded,
        BuildFails, WebhookSent, WebhookNotSent, GiveUp, PollAgain, Goto, Return, Base, TypeOK,
        Tracking
  <1>4. LoadRecord(j) => rec'[j].id # None
    <2> SUFFICES ASSUME LoadRecord(j) PROVE rec'[j].id = j
      BY IdAssumption
    <2>1. rows[j] \in Record /\ rows[j].id = j
      BY DEF LoadRecord, Base, TypeOK
    <2> QED BY <2>1 DEF LoadRecord, Base, TypeOK, Record
  <1>5. ~LoadRecord(j) => rec'[j].id = rec[j].id
    <2>1. rec[j] \in Record
      BY DEF Base, TypeOK
    <2>2. ~LoadRecord(j) =>
            rec'[j] \in {rec[j], [[rec[j] EXCEPT !.queue = j] EXCEPT !.status = "queued"],
                         [rec[j] EXCEPT !.status = "FAILED"],
                         [[rec[j] EXCEPT !.build = j] EXCEPT !.status = "RUNNING"],
                         Numbered(rec[j]), [rec[j] EXCEPT !.notifySent = TRUE],
                         [[rec[j] EXCEPT !.number = TRUE] EXCEPT !.status = jenkins[j]]}
      BY DEF AcquireSlot, LoadFails, PostTrigger, TriggerAccepted, TriggerFails,
        QueueStillWaits, QueueLeft, QueueFails, ReadNumber, BuildStillRuns, BuildEnded,
        BuildFails, WebhookSent, WebhookNotSent, GiveUp, PollAgain, Base, TypeOK
    <2> QED BY <2>1, <2>2 DEF Record, Numbered
  <1>6. /\ j \in Nameless' => j \in Nameless
        /\ j \in NamelessEarly' => j \in NamelessEarly
    BY <1>3, <1>4, <1>5 DEF Nameless, NamelessEarly
  <1>7. StrayRows' = StrayRows
    BY <1>1 DEF StrayRows
  <1>8. Has(StrayRows', j) + Has(Nameless', j) + Has(NamelessEarly', j) - 2 * faults'
          <= Has(StrayRows, j) + Has(Nameless, j) + Has(NamelessEarly, j) - 2 * faults
    BY <1>1, <1>6, <1>7 DEF Has
  <1>9. faults' \in Nat /\ StrayRows \ {j} = StrayRows' \ {j}
    BY <1>1, <1>7
  <1> QED BY <1>1, <1>2, <1>8, <1>9, StrayStep

LEMMA StrayRequest ==
  ASSUME Base, StrayInv, NEW j \in Job, Request(j) PROVE StrayInv'
  <1>1. /\ pc[j] = "idle" /\ rows' \in {rows, Put(j, FirstRecord(j))} /\ UNCHANGED rec
        /\ faults' = faults \/ faults' = faults + 1
        /\ faults \in Nat
        /\ pc'[j] \in {"waiting", "refused"} /\ \A k \in Job \ {j} : pc'[k] = pc[k]
    BY ParameterAssumption
    DEF Request, AcceptItem, RefuseItem, LoseItem, StoreFails, Goto, Base, TypeOK
  <1>2. j \notin DOMAIN rows
    BY <1>1 DEF Base, StoryInv, Story
  <1>3. [FirstRecord(j) EXCEPT !.id = j].owner = j /\ j # None
    BY IdAssumption DEF FirstRecord, BlankRecord
  <1>4. StrayRows' = StrayRows
    BY <1>1, <1>2, <1>3 DEF StrayRows, Put
  <1>5. j \notin Nameless' /\ j \notin NamelessEarly'
    BY <1>1 DEF Nameless, NamelessEarly, Tracking
  <1>6. /\ Has(StrayRows', j) + Has(Nameless', j) + Has(NamelessEarly', j) - 2 * faults'
             <= Has(StrayRows, j) + Has(Nameless, j) + Has(NamelessEarly, j) - 2 * faults
        /\ faults' \in Nat /\ StrayRows \ {j} = StrayRows' \ {j}
    BY <1>1, <1>4, <1>5 DEF Has
  <1> QED BY <1>1, <1>6, StrayStep

LEMMA StrayCrash ==
  ASSUME Base, StrayInv, Crash PROVE StrayInv'
  <1>1. StrayRows' \subseteq StrayRows /\ UNCHANGED faults /\ faults \in Nat
    BY ParameterAssumption DEF Crash, StrayRows, Base, TypeOK
  <1>2. Nameless' = {} /\ NamelessEarly' = {}
    BY DEF Crash, Nameless, NamelessEarly, Tracking
  <1>3. Owed' = 0
    <2>1. Owed' = Cardinality(Nameless') + Cardinality(NamelessEarly')
      BY DEF Owed
    <2> QED BY <1>2, <2>1, FS_EmptySet
  <1>4. /\ IsFiniteSet(StrayRows') /\ Cardinality(StrayRows') <= Cardinality(StrayRows)
        /\ Cardinality(StrayRows') \in Nat /\ Cardinality(StrayRows) \in Nat
    <2>1. IsFiniteSet(StrayRows') /\ Cardinality(StrayRows') <= Cardinality(StrayRows)
      BY <1>1, FS_Subset DEF StrayInv
    <2> QED BY <2>1, FS_CardinalityType DEF StrayInv
  <1>5. Owed \in Nat
    BY NamelessFinite, FS_CardinalityType DEF Owed
  <1> QED BY <1>1, <1>3, <1>4, <1>5 DEF StrayInv

LEMMA StrayNext == ASSUME Base, StrayInv, [Next]_vars PROVE StrayInv'
  <1>1. CASE UNCHANGED vars
    BY <1>1 DEF vars, StrayInv, StrayRows, Owed, Nameless, NamelessEarly
  <1>2. ASSUME NEW j \in Job, Server(j) PROVE StrayInv'
    BY <1>2 DEF Server, BuildStarts, ItemCancelled, BuildFinishes, StrayInv, StrayRows,
                Owed, Nameless, NamelessEarly
  <1>3. ASSUME NEW j \in Job, Goroutine(j) PROVE StrayInv'
    BY <1>3, StraySaves, StrayWithin DEF Goroutine
  <1> QED BY <1>1, <1>2, <1>3, StrayRequest, StrayCrash DEF Next

LEMMA StrayHolds == Spec => []StrayInv
  <1>1. Init => StrayInv
    <2> SUFFICES ASSUME Init PROVE StrayInv
      OBVIOUS
    <2>1. StrayRows = {} /\ Nameless = {} /\ NamelessEarly = {}
      BY DEF Init, StrayRows, Nameless, NamelessEarly, Tracking
    <2> QED BY <2>1, FS_EmptySet DEF Init, StrayInv, Owed
  <1> QED BY <1>1, StrayNext, BaseHolds, PTL DEF Spec

\* The history holds at most two rows without a service for every store call
\* that failed: no loop of saves fills the table with blank rows, however many
\* builds there are and however often the service crashes.  (One per failed
\* call is not enough: TLC finds two.)
StraysBounded == Cardinality(StrayRows) <= 2 * faults

THEOREM StraysAreBounded == Spec => []StraysBounded
  <1>1. Base /\ StrayInv => StraysBounded
    <2> SUFFICES ASSUME Base, StrayInv PROVE StraysBounded
      OBVIOUS
    <2>1. Owed \in Nat /\ Cardinality(StrayRows) \in Nat /\ faults \in Nat
      BY NamelessFinite, FS_CardinalityType, ParameterAssumption
      DEF Owed, StrayInv, Base, TypeOK
    <2> QED BY <2>1 DEF StrayInv, StraysBounded
  <1> QED BY <1>1, BaseHolds, StrayHolds, PTL

----------------------------------------------------------------------------
(***************************************************************************)
(* Nobody waits for ever by accident.  Whatever has failed before, a       *)
(* goroutine that tracks a build can make its next step, and then one of   *)
(* those that wait for a token can, or somebody in front of it.  CanStep   *)
(* is the guard of Goroutine(j), written out.                              *)
(***************************************************************************)
SavePlaces == {"saveTriggering", "saveQueued", "saveRunning", "saveFailed",
               "saveFinal", "saveNotified"}

CanStep(j) ==
  \/ pc[j] = "waiting" /\ slots < MaxConcurrent
  \/ pc[j] = "load" /\ j \in DOMAIN rows
  \/ pc[j] \in SavePlaces /\ SaveIds(rec[j]) # {}
  \/ pc[j] \in Tracking \ (SavePlaces \cup {"load"})

\* UUIDs do not run out: the set of them is infinite, or, in an instance of the
\* model, holds as many as the failing calls can use up (StraysBounded).
EnoughIds == IsFiniteSet(SpareId) => Cardinality(SpareId) >= 2 * MaxFaults

\* A row under a spare id has no service: it was saved by a goroutine that had
\* lost its record.
SparesOwnerless == \A i \in DOMAIN rows : i \in SpareId => rows[i].owner = None

LEMMA SparesHold == Spec => []SparesOwnerless
  <1>1. Init => SparesOwnerless
    BY DEF Init, SparesOwnerless
  <1>2. ASSUME SparesOwnerless, History!Next \/ UNCHANGED rows PROVE SparesOwnerless'
    <2>1. ASSUME NEW j \in Job, History!Accept(j) PROVE SparesOwnerless'
      BY <1>2, <2>1, IdAssumption DEF SparesOwnerless, History!Accept
    <2>2. ASSUME NEW i \in SpareId, History!Stray(i) PROVE SparesOwnerless'
      BY <1>2, <2>2 DEF SparesOwnerless, History!Stray
    <2>3. ASSUME NEW i \in DOMAIN rows, History!Advance(i) PROVE SparesOwnerless'
      BY <1>2, <2>3 DEF SparesOwnerless, History!Advance, History!Advances
    <2>4. CASE History!Forget
      BY <2>4 DEF SparesOwnerless, History!Forget
    <2>5. CASE UNCHANGED rows
      BY <1>2, <2>5 DEF SparesOwnerless
    <2> QED BY <1>2, <2>1, <2>2, <2>3, <2>4, <2>5 DEF History!Next
  <1> QED BY <1>1, <1>2, StoryNext, BaseHolds, PTL DEF Spec

\* A goroutine that has to save finds an id to save under.
LEMMA SaveFindsId ==
  ASSUME Base, StrayInv, SparesOwnerless, EnoughIds,
         NEW j \in Job, pc[j] \in SavePlaces
  PROVE  SaveIds(rec[j]) # {}
  <1> SUFFICES ASSUME rec[j].id = None, SpareId \ DOMAIN rows = {} PROVE FALSE
    BY DEF SaveIds
  <1>1. j \in Nameless
    BY DEF Nameless, SavePlaces, Tracking
  <1>2. /\ Cardinality(Nameless) \in Nat \ {0}
        /\ Cardinality(NamelessEarly) \in Nat
    BY <1>1, NamelessFinite, FS_CardinalityType, FS_EmptySet
  <1>3. SpareId \subseteq StrayRows
    BY DEF SparesOwnerless, StrayRows
  <1>4. /\ IsFiniteSet(SpareId) /\ Cardinality(SpareId) <= Cardinality(StrayRows)
        /\ Cardinality(SpareId) \in Nat /\ Cardinality(StrayRows) \in Nat
    <2>1. IsFiniteSet(SpareId) /\ Cardinality(SpareId) <= Cardinality(StrayRows)
      BY <1>3, FS_Subset DEF StrayInv
    <2> QED BY <2>1, FS_CardinalityType DEF StrayInv
  <1>5. faults \in Nat /\ faults <= MaxFaults /\ MaxFaults \in Nat
    BY ParameterAssumption DEF Base, TypeOK
  <1> QED BY <1>2, <1>4, <1>5 DEF StrayInv, Owed, EnoughIds

\* No goroutine is stuck, and the queue at buildSem moves: no store call that
\* fails, no lost record, no blank row and no crash leaves a goroutine with a
\* token and no way on.  This is the half of "every goroutine ends" that needs
\* no fairness; that its steps run out is GoroutinesRunOut.
NobodyStuck ==
  EnoughIds =>
    /\ \A j \in Job : pc[j] \in Tracking => CanStep(j)
    /\ (\E j \in Job : pc[j] = "waiting") => \E j \in Job : CanStep(j)

THEOREM NobodyIsStuck == Spec => []NobodyStuck
  <1>1. ASSUME Base, StrayInv, SparesOwnerless, SlotsExact PROVE NobodyStuck
    <2> SUFFICES ASSUME EnoughIds
                 PROVE  /\ \A j \in Job : pc[j] \in Tracking => CanStep(j)
                        /\ (\E j \in Job : pc[j] = "waiting") => \E j \in Job : CanStep(j)
      BY DEF NobodyStuck
    <2>1. ASSUME NEW j \in Job, pc[j] \in Tracking PROVE CanStep(j)
      <3>1. CASE pc[j] = "load"
        BY <1>1, <3>1 DEF CanStep, Base, StoryInv, Story
      <3>2. CASE pc[j] \in SavePlaces
        BY <1>1, <3>2, SaveFindsId DEF CanStep
      <3> QED BY <2>1, <3>1, <3>2 DEF CanStep
    <2>2. ASSUME NEW k \in Job, pc[k] = "waiting", ~(slots < MaxConcurrent)
          PROVE  \E j \in Job : CanStep(j)
      <3>1. slots # 0
        BY <1>1, <2>2, ParameterAssumption DEF Base, TypeOK
      <3>2. PICK j \in Job : pc[j] \in Tracking
        BY <1>1, <3>1, FS_EmptySet DEF SlotsExact, Holders
      <3> QED BY <2>1, <3>2
    <2> QED BY <2>1, <2>2 DEF CanStep
  <1> QED BY <1>1, BaseHolds, StrayHolds, SparesHold, SlotsAreExact, PTL

----------------------------------------------------------------------------
(***************************************************************************)
(* The tag of a row.  ReadNumber, which asks Jenkins for the number once,  *)
(* is the only step that gives a record its numbered tag, and SaveRunning  *)
(* the save that stores it: while a goroutine can still reach them, the    *)
(* row it names has not left the queue, and from then on the record keeps  *)
(* the tag of the row.                                                     *)
(***************************************************************************)
Decided == {"RUNNING"} \cup Terminal
BeforeRunning == {"saveTriggering", "trigger", "answer", "saveQueued", "pollQueue",
                  "readNumber", "saveRunning"}

TagStory(p, r, f) ==
  r.id # None =>
    /\ p \in BeforeRunning => f[r.id].status \notin Decided
    /\ f[r.id].status \in Decided => f[r.id].tag = r.tag

TagInv == \A j \in Job : TagStory(pc[j], rec[j], rows)

\* What a step may do to the tags of the rows.
TagsStay == \A i \in DOMAIN rows :
              i \in DOMAIN rows' /\ rows[i].status \in Decided => rows'[i].tag = rows[i].tag

LEMMA TagSaves ==
  ASSUME Base, TagInv, NEW j \in Job,
         \/ SaveTriggering(j) \/ SaveQueued(j) \/ SaveRunning(j)
         \/ SaveFailed(j) \/ SaveFinal(j) \/ SaveNotified(j)
  PROVE  TagInv' /\ TagsStay
  <1>1. rec[j] \in Record /\ Story(j, pc[j], rec[j]) /\ TagStory(pc[j], rec[j], rows)
    BY DEF Base, TypeOK, StoryInv, TagInv
  <1>2. PICK i \in SaveIds(rec[j]) :
          \/ /\ rows' = Put(i, rec[j])
             /\ rec' = [rec EXCEPT ![j] = [rec[j] EXCEPT !.id = i]]
             /\ \/ pc[j] = "saveTriggering" \/ pc[j] = "saveQueued"
                \/ pc'[j] \in {"pollBuild", "webhook", "done"}
          \/ /\ rows' \in {rows, Put(i, rec[j])}
             /\ rec' = [rec EXCEPT ![j] = BlankRecord]
          \/ /\ rows' \in {rows, Put(i, rec[j])}
             /\ pc'[j] \in {"webhook", "done"}
             /\ UNCHANGED rec
    <2>1. \/ pc[j] = "saveTriggering" \/ pc[j] = "saveQueued"
          \/ pc'[j] \in {"pollBuild", "webhook", "done"}
      BY DEF SaveTriggering, SaveQueued, SaveRunning, SaveFailed, SaveFinal,
             SaveNotified, NotifyOrReturn, Return, Goto, Base, TypeOK
    <2>2. CASE SaveAndKeep(j, rec[j])
      BY <2>1, <2>2 DEF SaveAndKeep
    <2>3. CASE SaveAndDrop(rec[j]) /\ UNCHANGED rec /\ pc'[j] \in {"webhook", "done"}
      BY <2>3 DEF SaveAndDrop
    <2> QED
      BY <2>2, <2>3 DEF SaveTriggering, SaveQueued, SaveRunning, SaveFailed,
                        SaveFinal, SaveNotified, NotifyOrReturn, Return, Goto, Base, TypeOK
  <1>3. /\ rows' \in {rows, Put(i, rec[j])}
        /\ \A k \in Job \ {j} : rec'[k] = rec[k] /\ pc'[k] = pc[k]
    BY <1>2 DEF Base, TypeOK, SaveTriggering, SaveQueued, SaveRunning, SaveFailed, SaveFinal,
                SaveNotified, NotifyOrReturn, Return, Goto
  <1> DEFINE s == [rec[j] EXCEPT !.id = i]
  <1>4. s.id = i /\ s.status = rec[j].status /\ s.tag = rec[j].tag
    BY <1>1 DEF Record
  <1>5. /\ \A k \in DOMAIN rows \ {i} : k \in DOMAIN rows' /\ rows'[k] = rows[k]
        /\ i \in DOMAIN rows => i \in DOMAIN rows' /\ rows'[i] \in {rows[i], s}
        /\ rows' = Put(i, rec[j]) => i \in DOMAIN rows' /\ rows'[i] = s
    BY <1>3 DEF Put
  <1>6. /\ i # None
        /\ i \in DOMAIN rows => i = rec[j].id
        /\ \A k \in Job \ {j} : i # rec[k].id
    BY SaveIsOwn, IdAssumption DEF Id
  <1> HIDE DEF s
  <1>7. TagsStay
    BY <1>1, <1>4, <1>5, <1>6 DEF TagsStay, TagStory
  <1>8. ASSUME NEW k \in Job \ {j} PROVE TagStory(pc'[k], rec'[k], rows')
    <2>1. TagStory(pc[k], rec[k], rows) /\ (rec[k].id # None => rec[k].id \in DOMAIN rows)
      BY DEF TagInv, Base, StoryInv, Story
    <2> QED BY <1>3, <1>5, <1>6, <2>1 DEF TagStory
  <1>9. TagStory(pc'[j], rec'[j], rows')
    <2>1. CASE /\ rows' = Put(i, rec[j]) /\ rec' = [rec EXCEPT ![j] = s]
               /\ \/ pc[j] = "saveTriggering" \/ pc[j] = "saveQueued"
                  \/ pc'[j] \in {"pollBuild", "webhook", "done"}
      <3>1. rec'[j] = s /\ rows'[i] = s
        BY <1>5, <2>1 DEF Base, TypeOK
      <3>2. pc'[j] \in BeforeRunning => s.status \notin Decided
        BY <1>1, <1>4, <2>1 DEF Story, StatusAt, Decided, Terminal, Verdict, BeforeRunning
      <3> QED BY <1>4, <3>1, <3>2 DEF TagStory
    <2>2. CASE rec' = [rec EXCEPT ![j] = BlankRecord]
      BY <2>2 DEF TagStory, BlankRecord, Base, TypeOK
    <2>3. CASE UNCHANGED rec /\ pc'[j] \in {"webhook", "done"}
      <3>1. pc'[j] \notin BeforeRunning
        BY <2>3 DEF BeforeRunning
      <3>2. rec[j].id # None => rec[j].id \in DOMAIN rows
        BY <1>1 DEF Story
      <3> QED BY <1>1, <1>4, <1>5, <2>3, <3>1, <3>2 DEF TagStory
    <2> QED BY <1>2, <2>1, <2>2, <2>3 DEF s
  <1> QED BY <1>7, <1>8, <1>9 DEF TagInv

LEMMA TagWithin ==
  ASSUME Base, TagInv, NEW j \in Job,
         \/ Server(j) \/ AcquireSlot(j) \/ LoadRecord(j) \/ LoadFails(j)
         \/ PostTrigger(j) \/ TriggerAccepted(j) \/ TriggerFails(j)
         \/ QueueStillWaits(j) \/ QueueLeft(j) \/ QueueFails(j) \/ ReadNumber(j)
         \/ BuildStillRuns(j) \/ BuildEnded(j) \/ BuildFails(j)
         \/ WebhookSent(j) \/ WebhookNotSent(j)
  PROVE  TagInv' /\ TagsStay
  <1>1. /\ UNCHANGED rows
        /\ \A k \in Job \ {j} : pc'[k] = pc[k] /\ rec'[k] = rec[k]
    BY DEF Server, BuildStarts, ItemCancelled, BuildFinishes, AcquireSlot, LoadRecord,
        LoadFails, PostTrigger, TriggerAccepted, TriggerFails,
        QueueStillWaits, QueueLeft, QueueFails, ReadNumber, BuildStillRuns, BuildEnded,
        BuildFails, WebhookSent, WebhookNotSent, GiveUp, PollAgain, Goto, Return, Base, TypeOK
  <1>2. rec[j] \in Record /\ Story(j, pc[j], rec[j]) /\ TagStory(pc[j], rec[j], rows)
    BY DEF Base, TypeOK, StoryInv, TagInv
  <1>3. TagStory(pc'[j], rec'[j], rows)
    <2>1. CASE LoadRecord(j)
      <3>1. rows[j] \in Record /\ rows[j] = FirstRecord(j)
        BY <1>2, <2>1 DEF LoadRecord, Goto, Story, Base, TypeOK
      <3>2. rows[j].status = "queued" /\ rows[j].id = j
        BY <3>1 DEF FirstRecord, BlankRecord
      <3>3. rec'[j].id = j
        BY <2>1, <3>1, <3>2 DEF LoadRecord, Base, TypeOK, Record
      <3> QED BY <3>2, <3>3 DEF TagStory, Decided, Terminal, Verdict
    <2>2. CASE ReadNumber(j)
      <3>1. pc[j] \in BeforeRunning /\ rec'[j] \in {rec[j], Numbered(rec[j])}
        BY <2>2 DEF ReadNumber, Goto, BeforeRunning, Base, TypeOK
      <3>2. rec'[j].id = rec[j].id
        BY <1>2, <3>1 DEF Numbered, Record
      <3> QED BY <1>2, <3>1, <3>2 DEF TagStory
    <2>3. CASE ~LoadRecord(j) /\ ~ReadNumber(j)
      <3>1. rec'[j] \in {rec[j], [[rec[j] EXCEPT !.queue = j] EXCEPT !.status = "queued"],
                         [rec[j] EXCEPT !.status = "FAILED"],
                         [[rec[j] EXCEPT !.build = j] EXCEPT !.status = "RUNNING"],
                         [rec[j] EXCEPT !.notifySent = TRUE],
                         [[rec[j] EXCEPT !.number = TRUE] EXCEPT !.status = jenkins[j]]}
        BY <2>3 DEF Server, BuildStarts, ItemCancelled, BuildFinishes, AcquireSlot,
          LoadFails, PostTrigger, TriggerAccepted, TriggerFails,
          QueueStillWaits, QueueLeft, QueueFails, BuildStillRuns, BuildEnded,
          BuildFails, WebhookSent, WebhookNotSent, GiveUp, PollAgain, Base, TypeOK
      <3>2. rec'[j].id = rec[j].id /\ rec'[j].tag = rec[j].tag
        BY <1>2, <3>1 DEF Record
      <3>3. pc'[j] \in BeforeRunning => pc[j] \in BeforeRunning
        BY <2>3 DEF Server, BuildStarts, ItemCancelled, BuildFinishes, AcquireSlot,
          LoadFails, PostTrigger, TriggerAccepted, TriggerFails,
          QueueStillWaits, QueueLeft, QueueFails, BuildStillRuns, BuildEnded,
          BuildFails, WebhookSent, WebhookNotSent, GiveUp, PollAgain, Goto, Return,
          Base, TypeOK, BeforeRunning
      <3> QED BY <1>2, <3>2, <3>3 DEF TagStory
    <2> QED BY <2>1, <2>2, <2>3
  <1> QED BY <1>1, <1>3 DEF TagInv, TagsStay

LEMMA TagRequest ==
  ASSUME Base, TagInv, NEW j \in Job, Request(j) PROVE TagInv' /\ TagsStay
  <1>1. /\ pc[j] = "idle" /\ rows' \in {rows, Put(j, FirstRecord(j))} /\ UNCHANGED rec
        /\ pc'[j] \in {"waiting", "refused"} /\ \A k \in Job \ {j} : pc'[k] = pc[k]
    BY DEF Request, AcceptItem, RefuseItem, LoseItem, Goto, Base, TypeOK
  <1>2. j \notin DOMAIN rows
    BY <1>1 DEF Base, StoryInv, Story
  <1>3. \A i \in DOMAIN rows : i \in DOMAIN rows' /\ rows'[i] = rows[i]
    BY <1>1, <1>2 DEF Put
  <1>4. \A k \in Job : rec[k].id # None => rec[k].id \in DOMAIN rows
    BY DEF Base, StoryInv, Story
  <1>5. \A k \in Job : pc'[k] \in BeforeRunning => pc[k] \in BeforeRunning
    BY <1>1 DEF BeforeRunning
  <1> QED BY <1>1, <1>3, <1>4, <1>5 DEF TagInv, TagStory, TagsStay

LEMMA TagNext == ASSUME Base, TagInv, [Next]_vars PROVE TagInv' /\ TagsStay
  <1>1. CASE UNCHANGED vars
    BY <1>1 DEF vars, TagInv, TagStory, TagsStay
  <1>2. CASE Crash
    <2>1. /\ \A j \in Job : rec'[j] = BlankRecord
          /\ \A i \in DOMAIN rows' : rows'[i] = rows[i]
      BY <1>2 DEF Crash
    <2>2. BlankRecord.id = None
      BY DEF BlankRecord
    <2> QED BY <2>1, <2>2 DEF TagInv, TagStory, TagsStay
  <1>3. ASSUME NEW j \in Job, Goroutine(j) \/ Server(j) PROVE TagInv' /\ TagsStay
    BY <1>3, TagSaves, TagWithin DEF Goroutine
  <1> QED BY <1>1, <1>2, <1>3, TagRequest DEF Next

\* Once the history says that a build runs or has ended, no step changes the
\* tag of its row: "<branch>-pending" stays if the one reading of the build
\* number failed.  The number is read again when the build ends, but no save
\* renames the image.  (SuccessHasNumberedTag fails for that reason.)
TagsAreDecided == [][TagsStay]_vars

THEOREM TagsDecidedOnce == Spec => TagsAreDecided
  <1>1. Init => TagInv
    <2>1. BlankRecord.id = None
      BY DEF BlankRecord
    <2> QED BY <2>1 DEF Init, TagInv, TagStory
  <1>2. Base /\ TagInv /\ [Next]_vars => TagInv' /\ [TagsStay]_vars
    BY TagNext
  <1> QED BY <1>1, <1>2, BaseHolds, PTL DEF Spec, TagsAreDecided
=============================================================================
