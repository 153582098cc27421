------------------------ MODULE DeployPipeline_proofs ------------------------
(***************************************************************************)
(* Proofs about DeployPipeline, for any number of builds and attempts.     *)
(***************************************************************************)
EXTENDS DeployPipeline, TLAPS

(***************************************************************************)
(* Type correctness.  TypeOK bounds the attempts, which is inductive only  *)
(* together with: a build that still waits has an attempt left.            *)
(***************************************************************************)
AttemptLeft == \A b \in Build : stage[b] \notin Ended \cup {"report", "answer"}
                                  => attempt[b] < MaxAttempts

TypeInv == TypeOK /\ AttemptLeft

\* The tag of every build is a tag.
LEMMA BuildTags == Build \subseteq Tag /\ 0 \in Tag /\ Build \subseteq Nat
BY PipelineAssumption DEF PipelineAssumption, Build, Tag

\* The initial state is type-correct.
LEMMA TypeInit == Init => TypeInv
BY PipelineAssumption, BuildTags
   DEF PipelineAssumption, Init, TypeInv, TypeOK, AttemptLeft, Build, Tag, Running,
       Ended, Health, Application

\* A step of a build's pipeline preserves type correctness.
LEMMA TypePipeline ==
  ASSUME TypeInv, NEW b \in Build, StartBuild(b) \/ Pipeline(b)
  PROVE  TypeInv'
<1> USE BuildTags DEF TypeInv, TypeOK, AttemptLeft, Running, Ended, To
<1>1. CASE StartBuild(b)
  BY <1>1 DEF StartBuild
<1>2. CASE Push(b)
  BY <1>2 DEF Push
<1>3. CASE PatchTag(b)
  BY <1>3 DEF PatchTag, Application
<1>4. CASE VerifyTag(b)
  BY <1>4 DEF VerifyTag
<1>5. CASE RequestSync(b)
  BY <1>5 DEF RequestSync, Application
<1>6. CASE SyncedAndHealthy(b)
  BY <1>6 DEF SyncedAndHealthy
<1>7. CASE WaitFails(b)
  BY <1>7 DEF WaitFails
<1>8. CASE WaitMore(b)
  <2>1. attempt' \in [Build -> 0 .. MaxAttempts]
    BY <1>8, PipelineAssumption DEF WaitMore, PipelineAssumption
  <2>2. stage' \in [Build -> {"none"} \cup Running \cup Ended]
    BY <1>8 DEF WaitMore
  <2>3. AttemptLeft'
    BY <1>8, PipelineAssumption DEF WaitMore, PipelineAssumption
  <2> QED
    BY <1>8, <2>1, <2>2, <2>3 DEF WaitMore
<1>9. CASE Report(b)
  BY <1>9 DEF Report
<1>10. CASE ReportAnswered(b)
  BY <1>10 DEF ReportAnswered
<1>11. CASE StageFails(b)
  BY <1>11 DEF StageFails
<1> QED
  BY <1>1, <1>2, <1>3, <1>4, <1>5, <1>6, <1>7, <1>8, <1>9, <1>10, <1>11 DEF Pipeline

\* So does a step of Argo CD or of the cluster.
LEMMA TypeCluster ==
  ASSUME TypeInv, TakeUp \/ EndOperation \/ Compare \/ PodsChange
  PROVE  TypeInv'
<1> USE BuildTags DEF TypeInv, TypeOK, AttemptLeft, Application, Health
<1>1. CASE TakeUp
  BY <1>1 DEF TakeUp
<1>2. CASE EndOperation
  BY <1>2 DEF EndOperation
<1>3. CASE Compare
  BY <1>3 DEF Compare
<1>4. CASE PodsChange
  BY <1>4 DEF PodsChange
<1> QED
  BY <1>1, <1>2, <1>3, <1>4

\* Every step preserves type correctness.
LEMMA TypeNext == TypeInv /\ [Next]_vars => TypeInv'
<1>1. ASSUME TypeInv, UNCHANGED vars PROVE TypeInv'
  BY <1>1 DEF TypeInv, TypeOK, AttemptLeft, vars
<1> QED
  BY <1>1, TypePipeline, TypeCluster DEF Next

\* The system is type-correct: in particular no wait polls more than
\* MaxAttempts times.
THEOREM TypeCorrect == Spec => []TypeOK
<1>1. TypeInv => TypeOK
  BY DEF TypeInv
<1> QED
  BY TypeInit, TypeNext, <1>1, PTL DEF Spec

----------------------------------------------------------------------------
(***************************************************************************)
(* Builds run one after the other: while one has not ended, no later one   *)
(* has started.  So the application keeps the tag a build has put there    *)
(* until that build ends.                                                  *)
(***************************************************************************)
InTurn == \A b, c \in Build :
            b < c /\ stage[b] \notin Ended => stage[c] = "none"

\* At most one build runs.
LEMMA OneRuns ==
  ASSUME TypeOK, InTurn, NEW b \in Build, NEW c \in Build,
         stage[b] \in Running, stage[c] \in Running
  PROVE  b = c
BY BuildTags DEF InTurn, Running, Ended

\* Every step keeps the builds in turn.
LEMMA InTurnNext == TypeInv /\ InTurn /\ [Next]_vars => InTurn'
<1> SUFFICES ASSUME TypeInv, InTurn, [Next]_vars PROVE InTurn'
  OBVIOUS
<1> USE DEF TypeInv, TypeOK
<1>1. ASSUME NEW b \in Build, StartBuild(b) PROVE InTurn'
  BY <1>1, BuildTags DEF StartBuild, InTurn, To, Ended
<1>2. ASSUME NEW b \in Build, Pipeline(b) PROVE InTurn'
  <2>1. /\ stage[b] \in Running
        /\ \A c \in Build \ {b} : stage'[c] = stage[c]
    BY <1>2 DEF Pipeline, Push, PatchTag, VerifyTag, RequestSync, SyncedAndHealthy,
                WaitFails, WaitMore, Report, ReportAnswered, StageFails, To, Running
  <2> QED
    BY <2>1, BuildTags DEF InTurn, Running, Ended
<1>3. CASE TakeUp \/ EndOperation \/ Compare \/ PodsChange
  BY <1>3 DEF TakeUp, EndOperation, Compare, PodsChange, InTurn
<1>4. CASE UNCHANGED vars
  BY <1>4 DEF vars, InTurn
<1> QED
  BY <1>1, <1>2, <1>3, <1>4 DEF Next

\* Every step leaves a deploying build its tag.
LEMMA OwnTagNext ==
  TypeInv /\ InTurn /\ DeploysItsOwnTag /\ [Next]_vars => DeploysItsOwnTag'
<1> SUFFICES ASSUME TypeInv, InTurn, DeploysItsOwnTag, [Next]_vars
             PROVE  DeploysItsOwnTag'
  OBVIOUS
<1> USE DEF TypeInv, TypeOK, DeploysItsOwnTag, To
<1>1. ASSUME NEW b \in Build, PatchTag(b) PROVE DeploysItsOwnTag'
  <2>1. \A c \in Build \ {b} : stage[c] \notin Running
    BY <1>1, OneRuns DEF PatchTag, Running
  <2> QED
    BY <1>1, <2>1 DEF PatchTag, Running
<1>2. ASSUME NEW b \in Build,
             \/ StartBuild(b) \/ Push(b) \/ VerifyTag(b) \/ SyncedAndHealthy(b)
             \/ WaitFails(b) \/ WaitMore(b) \/ Report(b) \/ ReportAnswered(b)
             \/ StageFails(b)
      PROVE  DeploysItsOwnTag'
  BY <1>2 DEF StartBuild, Push, VerifyTag, SyncedAndHealthy, WaitFails, WaitMore,
              Report, ReportAnswered, StageFails
<1>3. ASSUME NEW b \in Build, RequestSync(b) PROVE DeploysItsOwnTag'
  BY <1>3 DEF RequestSync, Application
<1>4. CASE TakeUp \/ EndOperation \/ Compare \/ PodsChange
  BY <1>4 DEF TakeUp, EndOperation, Compare, PodsChange, Application
<1>5. CASE UNCHANGED vars
  BY <1>5 DEF vars
<1> QED
  BY <1>1, <1>2, <1>3, <1>4, <1>5 DEF Next, Pipeline

\* disableConcurrentBuilds(): no other build moves the application's tag
\* between a build's check of it and the report.
THEOREM OwnTagDeployed == Spec => []DeploysItsOwnTag
<1>1. Init => InTurn /\ DeploysItsOwnTag
  BY DEF Init, InTurn, DeploysItsOwnTag
<1> QED
  BY <1>1, TypeInit, TypeNext, InTurnNext, OwnTagNext, PTL DEF Spec

----------------------------------------------------------------------------
(***************************************************************************)
(* What is known of a build by the stage it has reached.                   *)
(***************************************************************************)
Pushed == \A b \in Build :
            stage[b] \in (Running \ {"push"}) \cup {"SUCCESS"} => b \in registry

Reported == \A b \in Build : stage[b] \in {"answer", "SUCCESS"} => b \in records

\* A build that waits while no operation is requested has seen its own end.
OperationEnded == \A b \in Build :
  stage[b] \in {"report", "answer"} \/ (stage[b] = "wait" /\ ~app.operation)
    => b \in settled

StageInv == /\ Pushed
            /\ Reported
            /\ OperationEnded
            /\ NamesPushedImages
            /\ RecordedAfterOperation

\* A pipeline step preserves what the stages say.
LEMMA StagePipeline ==
  ASSUME TypeInv, StageInv, NEW b \in Build, StartBuild(b) \/ Pipeline(b)
  PROVE  StageInv'
<1> USE DEF TypeInv, TypeOK, StageInv, Pushed, Reported, OperationEnded,
            NamesPushedImages, RecordedAfterOperation, To, Running
<1>1. CASE StartBuild(b) \/ VerifyTag(b) \/ StageFails(b) \/ WaitFails(b)
  BY <1>1 DEF StartBuild, VerifyTag, StageFails, WaitFails
<1>2. CASE Push(b)
  BY <1>2 DEF Push
<1>3. CASE PatchTag(b)
  BY <1>3 DEF PatchTag, Application
<1>4. CASE RequestSync(b)
  BY <1>4 DEF RequestSync, Application
<1>5. CASE SyncedAndHealthy(b)
  <2>1. ~app.operation
    BY <1>5 DEF SyncedAndHealthy, SyncRead, Application, Health
  <2> QED
    BY <1>5, <2>1 DEF SyncedAndHealthy
<1>6. CASE WaitMore(b)
  BY <1>6 DEF WaitMore
<1>7. CASE Report(b)
  BY <1>7 DEF Report
<1>8. CASE ReportAnswered(b)
  BY <1>8 DEF ReportAnswered
<1> QED
  BY <1>1, <1>2, <1>3, <1>4, <1>5, <1>6, <1>7, <1>8 DEF Pipeline

\* So does a step of Argo CD or of the cluster.
LEMMA StageCluster ==
  ASSUME TypeInv, StageInv, TakeUp \/ EndOperation \/ Compare \/ PodsChange
  PROVE  StageInv'
<1> USE DEF TypeInv, TypeOK, StageInv, Pushed, Reported, OperationEnded,
            NamesPushedImages, RecordedAfterOperation, Application
<1>1. CASE TakeUp
  BY <1>1 DEF TakeUp
<1>2. CASE EndOperation
  BY <1>2 DEF EndOperation
<1>3. CASE Compare
  BY <1>3 DEF Compare
<1>4. CASE PodsChange
  BY <1>4 DEF PodsChange
<1> QED
  BY <1>1, <1>2, <1>3, <1>4

\* What the stages say is an invariant.
LEMMA StageInvariant == Spec => []StageInv
<1>1. Init => StageInv
  BY BuildTags DEF Init, StageInv, Pushed, Reported, OperationEnded, NamesPushedImages,
                   RecordedAfterOperation, Running
<1>2. ASSUME StageInv, UNCHANGED vars PROVE StageInv'
  BY <1>2 DEF vars, StageInv, Pushed, Reported, OperationEnded, NamesPushedImages,
              RecordedAfterOperation
<1>3. TypeInv /\ StageInv /\ [Next]_vars => StageInv'
  BY <1>2, StagePipeline, StageCluster DEF Next
<1> QED
  BY <1>1, <1>3, TypeInit, TypeNext, PTL DEF Spec

\* Argo CD is never given, and no record names, an image missing in Harbor.
THEOREM PushedImagesNamed == Spec => []NamesPushedImages
<1>1. StageInv => NamesPushedImages
  BY DEF StageInv
<1> QED
  BY <1>1, StageInvariant, PTL

\* A build Jenkins calls a success has its image and its release record.
THEOREM SuccessesRecorded == Spec => []SuccessIsRecorded
<1>1. StageInv => SuccessIsRecorded
  BY DEF StageInv, SuccessIsRecorded, Pushed, Reported
<1> QED
  BY <1>1, StageInvariant, PTL

\* A record is reported only when the operation its build asked for has ended.
THEOREM RecordsFollowOperations == Spec => []RecordedAfterOperation
<1>1. StageInv => RecordedAfterOperation
  BY DEF StageInv
<1> QED
  BY <1>1, StageInvariant, PTL

----------------------------------------------------------------------------
(***************************************************************************)
(* What "synced and healthy" does say.  The wait stage ends well only      *)
(* while no operation is requested, so it has seen the end of the one its  *)
(* build asked for.  That operation may have failed; and it is the build's *)
(* own only if no earlier build has left one behind, which a failed build  *)
(* can.                                                                    *)
(***************************************************************************)
\* No earlier build has failed.
Clean(b) == \A c \in Build : c < b => stage[c] = "SUCCESS"

\* The operation that was pending when b asked for a sync has ended.
Over(b) == \/ stage[b] \in {"report", "answer"}
           \/ stage[b] = "wait" /\ ~app.operation

BeforeSync == {"none", "push", "patch", "verify", "sync"}

OperationInv ==
  /\ app.phase = "Running" => app.operation
  /\ \A b \in Build : Over(b) =>
       /\ ~app.operation
       /\ app.phase = "Failed" \/ (app.phase = "Succeeded" /\ live \in {b, app.opTag})
  /\ \A b \in Build : Clean(b) =>
       /\ stage[b] \in BeforeSync => ~app.operation
       /\ stage[b] = "wait" /\ app.phase = "Running" => app.opTag = b
       /\ Over(b) => app.opTag = b

\* Everything the steps of a pipeline need to know.
PipelineInv == TypeInv /\ InTurn /\ DeploysItsOwnTag

\* A build that is alone: where it runs, no other build waits or reports, and
\* no later build is clean.
LEMMA OthersQuiet ==
  ASSUME PipelineInv, NEW b \in Build, stage[b] \in Running, NEW c \in Build \ {b}
  PROVE  /\ stage[c] \in {"none"} \cup Ended
         /\ ~Over(c)
         /\ b < c => ~Clean(c)
         /\ c < b => stage[c] \in Ended
<1>1. b \in Nat /\ c \in Nat /\ b # c /\ (b < c \/ c < b)
  BY BuildTags
<1>2. CASE b < c
  <2>1. stage[b] \notin Ended
    BY DEF Running, Ended
  <2>2. stage[c] = "none"
    BY <1>2, <2>1 DEF PipelineInv, InTurn
  <2>3. ~Clean(c)
    BY <1>2, <2>1 DEF Clean, Ended
  <2>4. ~Over(c) /\ stage[c] \in {"none"} \cup Ended
    BY <2>2 DEF Over
  <2>5. ~(c < b)
    BY <1>1, <1>2
  <2> QED
    BY <2>3, <2>4, <2>5
<1>3. CASE c < b
  <2>1. stage[c] \in Ended
    BY <1>3 DEF PipelineInv, InTurn, Running
  <2>2. ~Over(c)
    BY <2>1 DEF Ended, Over
  <2>3. ~(b < c)
    BY <1>1, <1>3
  <2> QED
    BY <2>1, <2>2, <2>3
<1> QED
  BY <1>1, <1>2, <1>3

\* A step of a pipeline keeps it.
LEMMA OperationPipeline ==
  ASSUME PipelineInv, PipelineInv', OperationInv, NEW b \in Build, StartBuild(b) \/ Pipeline(b)
  PROVE  OperationInv'
<1>1. CASE StartBuild(b)
  <2>1. /\ UNCHANGED <<app, live>> /\ stage[b] = "none" /\ stage'[b] = "push"
        /\ \A c \in Build \ {b} : stage'[c] = stage[c]
    BY <1>1 DEF StartBuild, To, PipelineInv, TypeInv, TypeOK
  <2>2. \A c \in Build : Clean(c)' => Clean(c)
    BY <2>1 DEF Clean
  <2>3. \A c \in Build : /\ Over(c)' => Over(c)
                         /\ stage'[c] \in BeforeSync => stage[c] \in BeforeSync
    BY <2>1 DEF Over, BeforeSync
  <2>4. \A c \in Build : stage'[c] = "wait" => stage[c] = "wait"
    BY <2>1
  <2> QED
    BY <2>1, <2>2, <2>3, <2>4 DEF OperationInv
<1>2. ASSUME Pipeline(b), ~RequestSync(b) PROVE OperationInv'
  <2>1. /\ live' = live /\ app'.operation = app.operation /\ app'.phase = app.phase
        /\ app'.opTag = app.opTag
    <3>1. app' \in {app, [app EXCEPT !.tag = b]} /\ app \in Application /\ live' = live
      BY <1>2 DEF Pipeline, Push, PatchTag, VerifyTag, SyncedAndHealthy, WaitFails,
                  WaitMore, Report, ReportAnswered, StageFails, PipelineInv, TypeInv, TypeOK
    <3> QED
      BY <3>1 DEF Application
  <2>2. /\ stage[b] \in Running
        /\ \A c \in Build \ {b} : stage'[c] = stage[c]
        /\ stage'[b] = "SUCCESS" => stage[b] = "answer"
        /\ stage'[b] \in {"report", "answer"} =>
             \/ stage[b] = "report"
             \/ stage[b] = "wait" /\ SyncRead = "Synced"
        /\ stage'[b] = "wait" => stage[b] = "wait"
        /\ stage'[b] \in BeforeSync => stage[b] \in BeforeSync
    BY <1>2 DEF Pipeline, Push, PatchTag, VerifyTag, SyncedAndHealthy, WaitFails, WaitMore,
                Report, ReportAnswered, StageFails, To, PipelineInv, TypeInv, TypeOK, Running,
                BeforeSync
  <2>3. SyncRead = "Synced" => ~app.operation
    BY DEF SyncRead, PipelineInv, TypeInv, TypeOK, Application, Health
  <2>4. \A c \in Build : Over(c)' => c = b /\ Over(b)
    BY <2>1, <2>2, <2>3, OthersQuiet DEF Over, Running, Ended
  <2>5. ASSUME NEW c \in Build, Clean(c)'
        PROVE  /\ stage'[c] \in BeforeSync => ~app.operation
               /\ stage'[c] = "wait" /\ app.phase = "Running" => app.opTag = c
               /\ Over(c)' => app.opTag = c
    <3>1. CASE c = b
      <4>1. Clean(b)
        BY <2>2, <2>5, <3>1, BuildTags DEF Clean
      <4> QED
        BY <2>2, <2>4, <3>1, <4>1 DEF OperationInv
    <3>2. CASE c # b
      <4>1. stage[c] \in {"none"} \cup Ended /\ (c < b => stage[c] \in Ended)
        BY <2>2, <3>2, OthersQuiet
      <4>2. c \in Nat /\ b \in Nat
        BY BuildTags
      <4>3. CASE c < b
        BY <2>2, <2>4, <3>2, <4>1, <4>3 DEF Ended, BeforeSync
      <4>4. CASE b < c
        <5>1. stage'[b] = "SUCCESS"
          BY <2>5, <4>4 DEF Clean
        <5>2. ~app.operation
          BY <2>2, <5>1 DEF OperationInv, Over
        <5> QED
          BY <2>2, <2>4, <3>2, <4>1, <5>2 DEF Ended
      <4> QED
        BY <3>2, <4>2, <4>3, <4>4
    <3> QED
      BY <3>1, <3>2
  <2> QED
    BY <2>1, <2>4, <2>5 DEF OperationInv
<1>3. ASSUME RequestSync(b) PROVE OperationInv'
  <2>1. /\ live' = live /\ app'.operation /\ app'.phase = app.phase
        /\ app'.opTag = app.opTag
        /\ stage[b] = "sync" /\ stage'[b] = "wait"
        /\ \A c \in Build \ {b} : stage'[c] = stage[c]
    BY <1>3 DEF RequestSync, To, PipelineInv, TypeInv, TypeOK, Application
  <2>2. \A c \in Build : ~Over(c)'
    BY <2>1, OthersQuiet DEF Over, Running, Ended
  <2>3. ASSUME NEW c \in Build, Clean(c)'
        PROVE  /\ stage'[c] \notin BeforeSync
               /\ stage'[c] = "wait" /\ app.phase = "Running" => app.opTag = c
    <3>1. CASE c = b
      <4>1. Clean(b)
        BY <2>1, <2>3, <3>1, BuildTags DEF Clean
      <4> QED
        BY <2>1, <3>1, <4>1 DEF OperationInv, BeforeSync
    <3>2. CASE c # b
      <4>1. stage[c] \in {"none"} \cup Ended /\ (c < b => stage[c] \in Ended)
        BY <2>1, <3>2, OthersQuiet DEF Running
      <4>2. ~(b < c)
        BY <2>1, <2>3 DEF Clean
      <4>3. c < b
        BY <3>2, <4>2, BuildTags
      <4> QED
        BY <2>1, <3>2, <4>1, <4>3 DEF Ended, BeforeSync
    <3> QED
      BY <3>1, <3>2
  <2> QED
    BY <2>1, <2>2, <2>3 DEF OperationInv
<1> QED
  BY <1>1, <1>2, <1>3

\* So does a step of Argo CD or of the cluster.
LEMMA OperationCluster ==
  ASSUME PipelineInv, OperationInv, TakeUp \/ EndOperation \/ Compare \/ PodsChange
  PROVE  OperationInv'
<1>1. /\ UNCHANGED stage /\ app \in Application
      /\ \A c \in Build : Clean(c)' <=> Clean(c)
  BY DEF TakeUp, EndOperation, Compare, PodsChange, Clean, PipelineInv, TypeInv, TypeOK
<1>2. CASE TakeUp
  <2>1. /\ live' = live /\ app.operation /\ app'.operation
        /\ app'.phase = "Running" /\ app'.opTag = app.tag
    BY <1>1, <1>2 DEF TakeUp, Application
  <2>2. \A c \in Build : ~Over(c)' /\ (stage[c] = "wait" => app.tag = c)
    BY <1>1, <2>1 DEF OperationInv, Over, PipelineInv, DeploysItsOwnTag
  <2>3. \A c \in Build : Clean(c) => stage[c] \notin BeforeSync
    BY <2>1 DEF OperationInv
  <2> QED
    BY <1>1, <2>1, <2>2, <2>3 DEF OperationInv
<1>3. CASE EndOperation
  <2>1. /\ app.operation /\ app.phase = "Running" /\ ~app'.operation
        /\ app'.opTag = app.opTag
        /\ \/ app'.phase = "Succeeded" /\ live' \in {app.opTag, app.tag}
           \/ app'.phase = "Failed"
    BY <1>1, <1>3 DEF EndOperation, Application
  <2>2. \A c \in Build : Over(c)' => stage[c] = "wait" /\ app.tag = c
    BY <1>1, <2>1 DEF OperationInv, Over, PipelineInv, DeploysItsOwnTag
  <2> QED
    BY <1>1, <2>1, <2>2 DEF OperationInv
<1>4. CASE Compare \/ PodsChange
  <2>1. /\ live' = live /\ app'.operation = app.operation /\ app'.phase = app.phase
        /\ app'.opTag = app.opTag
    <3>1. CASE Compare
      BY <1>1, <3>1 DEF Compare, Application
    <3> QED
      BY <1>4, <3>1 DEF PodsChange
  <2>2. \A c \in Build : Over(c)' <=> Over(c)
    BY <1>1, <2>1 DEF Over
  <2> QED
    BY <1>1, <2>1, <2>2 DEF OperationInv
<1> QED
  BY <1>2, <1>3, <1>4

\* What the release record of a build may claim when the wait stage has ended
\* well.  No operation is pending, and the last one either failed, or succeeded
\* and left in the cluster the manifests of this build or those of the tag it
\* had been taken up with.  After builds that were all successes it was taken
\* up with this build's tag: a sync that succeeded has then deployed this
\* build.  So SyncedMeansDeployed, which TLC refutes, fails only after a failed
\* sync or a failed build.
SyncedMeans ==
  \A b \in Build : stage[b] \in {"report", "answer"} =>
    /\ ~app.operation
    /\ app.phase = "Failed" \/ (app.phase = "Succeeded" /\ live \in {b, app.opTag})
    /\ (\A c \in Build : c < b => stage[c] = "SUCCESS") /\ app.phase = "Succeeded" => live = b

THEOREM WhatSyncedMeans == Spec => []SyncedMeans
<1>1. Init => InTurn /\ DeploysItsOwnTag /\ OperationInv
  BY DEF Init, InTurn, DeploysItsOwnTag, OperationInv, Over, Clean, BeforeSync
<1>2. TypeInv /\ InTurn /\ DeploysItsOwnTag => PipelineInv
  BY DEF PipelineInv
<1>3. PipelineInv /\ [Next]_vars => PipelineInv'
  BY TypeNext, InTurnNext, OwnTagNext DEF PipelineInv
<1>4. ASSUME OperationInv, UNCHANGED vars PROVE OperationInv'
  BY <1>4 DEF vars, OperationInv, Over, Clean
<1>5. PipelineInv /\ PipelineInv' /\ OperationInv /\ [Next]_vars => OperationInv'
  BY <1>4, OperationPipeline, OperationCluster DEF Next
<1>6. OperationInv => SyncedMeans
  BY DEF OperationInv, SyncedMeans, Over, Clean
<1> QED
  BY <1>1, <1>2, <1>3, <1>5, <1>6, TypeInit, PTL DEF Spec

----------------------------------------------------------------------------
(***************************************************************************)
(* A build runs out of steps: what it can still make before it has ended.  *)
(***************************************************************************)
StepsLeft(b) ==
  CASE stage[b] = "none"   -> MaxAttempts + 7
    [] stage[b] = "push"   -> MaxAttempts + 6
    [] stage[b] = "patch"  -> MaxAttempts + 5
    [] stage[b] = "verify" -> MaxAttempts + 4
    [] stage[b] = "sync"   -> MaxAttempts + 3
    [] stage[b] = "wait"   -> MaxAttempts - attempt[b] + 2
    [] stage[b] = "report" -> 2
    [] stage[b] = "answer" -> 1
    [] OTHER               -> 0

StepsBounded == \A b \in Build : StepsLeft(b) \in 0 .. MaxAttempts + 7

\* Every step of the pipeline uses one up, and nothing gives any back.
StepsRunOut ==
  [][\A b \in Build :
       /\ StartBuild(b) \/ Pipeline(b) => StepsLeft(b)' < StepsLeft(b)
       /\ StepsLeft(b)' <= StepsLeft(b)]_vars

LEMMA StepsType == TypeInv => StepsBounded
<1> SUFFICES ASSUME TypeInv, NEW b \in Build PROVE StepsLeft(b) \in 0 .. MaxAttempts + 7
  BY DEF StepsBounded
<1>1. attempt[b] \in 0 .. MaxAttempts /\ MaxAttempts \in Nat \ {0}
  BY PipelineAssumption DEF TypeInv, TypeOK
<1> QED
  BY <1>1 DEF StepsLeft

LEMMA StepsMove ==
  ASSUME TypeInv, NEW b \in Build, StartBuild(b) \/ Pipeline(b)
  PROVE  StepsLeft(b)' < StepsLeft(b)
<1>1. /\ attempt[b] \in 0 .. MaxAttempts /\ MaxAttempts \in Nat \ {0}
      /\ stage[b] = "wait" => attempt[b] < MaxAttempts
  BY PipelineAssumption DEF TypeInv, TypeOK, AttemptLeft, Ended
<1>2. \/ stage[b] = "none" /\ stage'[b] = "push"
      \/ stage[b] = "push" /\ stage'[b] = "patch"
      \/ stage[b] = "patch" /\ stage'[b] = "verify"
      \/ stage[b] = "verify" /\ stage'[b] = "sync"
      \/ stage[b] = "sync" /\ stage'[b] = "wait" /\ attempt'[b] = attempt[b]
      \/ stage[b] = "wait" /\ stage'[b] = "wait" /\ attempt'[b] = attempt[b] + 1
      \/ stage[b] = "wait" /\ stage'[b] = "report"
      \/ stage[b] = "report" /\ stage'[b] = "answer"
      \/ stage[b] = "answer" /\ stage'[b] = "SUCCESS"
      \/ stage[b] \in Running /\ stage'[b] = "FAILURE"
  BY DEF StartBuild, Pipeline, Push, PatchTag, VerifyTag, RequestSync, SyncedAndHealthy,
         WaitFails, WaitMore, Report, ReportAnswered, StageFails, To, TypeInv, TypeOK, Running
<1>3. CASE stage[b] \in Running /\ stage'[b] = "FAILURE"
  <2>1. StepsLeft(b)' = 0
    BY <1>3 DEF StepsLeft
  <2>2. StepsLeft(b) \in Nat /\ StepsLeft(b) # 0
    BY <1>1, <1>3 DEF StepsLeft, Running
  <2> QED
    BY <2>1, <2>2
<1> QED
  BY <1>1, <1>2, <1>3 DEF StepsLeft

\* A build ends after at most MaxAttempts + 7 steps of its own, whatever
\* Argo CD does.  (That Jenkins makes them is the fairness of FairSpec, which
\* only TLC looks at.)
THEOREM BuildsRunOut == Spec => []StepsBounded /\ StepsRunOut
<1>1. ASSUME TypeInv, TypeInv', [Next]_vars, NEW b \in Build
      PROVE  /\ StartBuild(b) \/ Pipeline(b) => StepsLeft(b)' < StepsLeft(b)
             /\ StepsLeft(b)' <= StepsLeft(b)
  <2>1. StepsLeft(b) \in Nat /\ StepsLeft(b)' \in Nat
    <3>1. StepsBounded /\ StepsBounded'
      BY <1>1, StepsType, PTL
    <3> QED
      BY <3>1, PipelineAssumption DEF StepsBounded
  <2>2. ASSUME ~(StartBuild(b) \/ Pipeline(b)) PROVE stage'[b] = stage[b] /\ attempt'[b] = attempt[b]
    <3>1. ASSUME NEW c \in Build \ {b}, StartBuild(c) \/ Pipeline(c)
          PROVE  stage'[b] = stage[b] /\ attempt'[b] = attempt[b]
      BY <1>1, <3>1
         DEF StartBuild, Pipeline, Push, PatchTag, VerifyTag, RequestSync, SyncedAndHealthy,
             WaitFails, WaitMore, Report, ReportAnswered, StageFails, To, TypeInv, TypeOK
    <3> QED
      BY <1>1, <2>2, <3>1 DEF Next, vars, TakeUp, EndOperation, Compare, PodsChange
  <2>3. stage'[b] = stage[b] /\ attempt'[b] = attempt[b] => StepsLeft(b)' = StepsLeft(b)
    BY DEF StepsLeft
  <2> QED
    BY <1>1, <2>1, <2>2, <2>3, StepsMove
<1>2. TypeInv /\ TypeInv' /\ [Next]_vars =>
        [\A b \in Build :
           /\ StartBuild(b) \/ Pipeline(b) => StepsLeft(b)' < StepsLeft(b)
           /\ StepsLeft(b)' <= StepsLeft(b)]_vars
  BY <1>1
<1> QED
  BY <1>2, StepsType, TypeInit, TypeNext, PTL DEF Spec, StepsRunOut
=============================================================================
