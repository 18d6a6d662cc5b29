--------------------------- MODULE BuilderProofs ---------------------------
(***************************************************************************)
(* Machine-checked proofs about module Builder, for any applications,      *)
(* builds, answers of the store and the cluster, and crash bound.          *)
(***************************************************************************)
EXTENDS Builder, StoreProofs

(***************************************************************************)
(* Types, component by component.                                          *)
(***************************************************************************)

\* The initial tables and objects are well-typed, with or without existing
\* applications in the database.
LEMMA InitTypes == Init => TypeOK
<1> SUFFICES ASSUME Init PROVE TypeOK
  OBVIOUS
<1>1. StoreTypeOK
  BY InitTables DEF Init
<1>2. DeployerTypeOK
  BY DEF Init, DeployerInit, DeployerTypeOK
<1>3. QED
  BY <1>1, <1>2, BuilderAssumption DEF Init, TypeOK, RunnerTypeOK

\* A SpinApp never asks for zero replicas: not from a request, not from a row.
LEMMA DeployReplicasPositive ==
  \A requested, row \in Nat : DeployReplicas(requested, row) \in Nat \ {0}
BY ClampPositive DEF DeployReplicas

\* Every call to the cluster keeps its objects well-typed.
LEMMA DeployerOperationsTyped ==
  ASSUME DeployerTypeOK, NEW a \in App, NEW answer
  PROVE  /\ \A s \in Snapshot, i \in Image, asked \in Nat :
               s.app = a /\ ApplySpinApp(s, i, asked, answer) => DeployerTypeOK'
         /\ ApplyVirtualService(NameOf[a], answer) => DeployerTypeOK'
         /\ DeleteSpinApp(NameOf[a], answer) => DeployerTypeOK'
         /\ DeleteVirtualService(NameOf[a], answer) => DeployerTypeOK'
         /\ UNCHANGED clusterVars => DeployerTypeOK'
<1> USE DEF DeployerTypeOK
<1>0. NameOf[a] \in Names
  BY DEF Names
<1>1. ASSUME NEW s \in Snapshot, NEW i \in Image, NEW asked \in Nat,
             s.app = a, ApplySpinApp(s, i, asked, answer)
      PROVE  DeployerTypeOK'
  <2>1. Desired(s, i, asked) \in SpinApp
    BY <1>1, DeployReplicasPositive DEF Desired, SpinApp, Snapshot
  <2>2. QED
    BY <1>0, <1>1, <2>1 DEF ApplySpinApp
<1>2. ApplyVirtualService(NameOf[a], answer) => DeployerTypeOK'
  BY <1>0 DEF ApplyVirtualService
<1>3. DeleteSpinApp(NameOf[a], answer) => DeployerTypeOK'
  BY <1>0 DEF DeleteSpinApp
<1>4. DeleteVirtualService(NameOf[a], answer) => DeployerTypeOK'
  BY <1>0 DEF DeleteVirtualService
<1>5. UNCHANGED clusterVars => DeployerTypeOK'
  BY DEF clusterVars
<1>6. QED
  BY <1>1, <1>2, <1>3, <1>4, <1>5

\* Only a snapshot's typing depends on two variables; the rest of a step of
\* build b moves its pc and adds to or keeps the other variables.
LEMMA RunnerStepTyped ==
  ASSUME RunnerTypeOK, NEW b \in Build, NEW from,
         NEW to \in Working \union {"done"},
         from # "idle", Step(b, from, to), snap' = snap
  PROVE  /\ pc' \in [Build -> Working \union {"idle", "done", "lost"}]
         /\ \A x \in Build : pc'[x] # "idle" => snap'[x] \in Snapshot
         /\ snap[b] \in Snapshot
BY DEF RunnerTypeOK, Step

\* Each step of a build's request and watcher keeps all the types.
LEMMA PipelineTyped ==
  ASSUME TypeOK, NEW b \in Build, Pipeline(b)
  PROVE  TypeOK'
<1> USE DEF TypeOK
<1> DEFINE Rest == /\ job' \in [Build -> {"none", "active", "complete", "failed", "gone"}]
                    /\ secrets' \subseteq Build /\ pushed' \subseteq Build
                    /\ sized' \subseteq Build /\ applied' \subseteq Build
                    /\ missed' \subseteq Build /\ crashes' \in 0..MaxCrashes
                    /\ snap' = snap
<1>b. ASSUME NEW from, NEW to \in Working \union {"done"}, from # "idle", Step(b, from, to),
             StoreTypeOK', DeployerTypeOK', Rest
      PROVE  TypeOK'
  BY <1>b, RunnerStepTyped DEF RunnerTypeOK
<1>c. ASSUME NEW from, from # "idle", pc[b] = from
      PROVE  snap[b] \in Snapshot /\ snap[b].app \in App
  BY <1>c DEF RunnerTypeOK, Snapshot
<1>d. ASSUME NEW s \in BuildStatus, NEW answer, WriteStatus(b, s, answer)
      PROVE  StoreTypeOK' /\ missed' \subseteq Build
  BY <1>d, StoreOperationsTyped, StoreAssumption
     DEF WriteStatus, StoreTypeOK, UpdateBuildStatus, storeVars, RunnerTypeOK
<1>1. CASE InsertBuildRow(b)
  <2>1. PICK fk \in ForeignKeys, answer \in StoreAnswers :
             \/ Step(b, "row", "secret") /\ CreateBuild(b, snap[b].app)
             \/ Step(b, "row", "done") /\ UNCHANGED storeVars
    BY <1>1 DEF InsertBuildRow
  <2>2. snap[b].app \in App
    BY <1>1, <1>c DEF InsertBuildRow
  <2>3. StoreTypeOK'
    BY <2>1, <2>2, StoreOperationsTyped
  <2>4. DeployerTypeOK' /\ Rest
    BY <1>1, <2>2, DeployerOperationsTyped DEF InsertBuildRow, RunnerTypeOK
  <2>5. QED
    BY <2>1, <2>3, <2>4, <1>b DEF Working, Starting
<1>2. CASE CreateSecret(b)
  <2>1. StoreTypeOK' /\ DeployerTypeOK' /\ Rest
    BY <1>2 DEF CreateSecret, RunnerTypeOK, storeVars, clusterVars, StoreTypeOK, DeployerTypeOK
  <2>2. PICK answer \in KubeAnswers : Step(b, "secret", IF answer = "ok" THEN "job" ELSE "fail")
    BY <1>2 DEF CreateSecret
  <2>3. QED
    BY <2>1, <2>2, <1>b DEF Working, Starting, Watching
<1>3. CASE CreateJob(b)
  <2>1. StoreTypeOK' /\ DeployerTypeOK' /\ Rest
    BY <1>3 DEF CreateJob, RunnerTypeOK, storeVars, clusterVars, StoreTypeOK, DeployerTypeOK
  <2>2. PICK answer \in KubeAnswers : Step(b, "job", IF answer = "ok" THEN "mark" ELSE "fail")
    BY <1>3 DEF CreateJob
  <2>3. QED
    BY <2>1, <2>2, <1>b DEF Working, Starting, Watching
<1>4. CASE MarkRunning(b)
  <2>1. StoreTypeOK' /\ missed' \subseteq Build
    BY <1>4, <1>d DEF MarkRunning, BuildStatus
  <2>2. DeployerTypeOK' /\ Rest
    BY <1>4, <2>1 DEF MarkRunning, RunnerTypeOK, clusterVars, DeployerTypeOK
  <2>3. QED
    BY <1>4, <2>1, <2>2, <1>b DEF MarkRunning, Working, Watching
<1>5. CASE PollComplete(b)
  <2>1. StoreTypeOK' /\ DeployerTypeOK' /\ Rest
    BY <1>5 DEF PollComplete, RunnerTypeOK, storeVars, clusterVars, StoreTypeOK, DeployerTypeOK
  <2>2. Step(b, "poll", "finish") \/ Step(b, "poll", "deploy")
    BY <1>5 DEF PollComplete
  <2>3. QED
    BY <2>1, <2>2, <1>b DEF Working, Watching
<1>6. CASE PollGivesUp(b)
  <2>1. StoreTypeOK' /\ DeployerTypeOK' /\ Rest
    BY <1>6 DEF PollGivesUp, RunnerTypeOK, storeVars, clusterVars, StoreTypeOK, DeployerTypeOK
  <2>2. QED
    BY <1>6, <2>1, <1>b DEF PollGivesUp, Working, Watching
<1>7. CASE DeployImage(b)
  <2>1. PICK answer \in KubeAnswers :
             /\ Step(b, "deploy", IF answer = "ok" THEN "ingress" ELSE "fail")
             /\ ApplySpinApp(snap[b], b, 1, answer)
    BY <1>7 DEF DeployImage
  <2>2. snap[b] \in Snapshot /\ snap[b].app \in App
    BY <1>7, <1>c DEF DeployImage
  <2>3. DeployerTypeOK'
    BY <2>1, <2>2, DeployerOperationsTyped DEF Image
  <2>4. StoreTypeOK' /\ Rest
    BY <1>7 DEF DeployImage, RunnerTypeOK, storeVars, StoreTypeOK
  <2>5. QED
    BY <2>1, <2>3, <2>4, <1>b DEF Working, Watching
<1>8. CASE ExposeImage(b)
  <2>1. snap[b].app \in App
    BY <1>8, <1>c DEF ExposeImage, Step
  <2>2. DeployerTypeOK'
    BY <1>8, <2>1, DeployerOperationsTyped DEF ExposeImage
  <2>3. StoreTypeOK' /\ Rest
    BY <1>8 DEF ExposeImage, RunnerTypeOK, storeVars, StoreTypeOK
  <2>4. QED
    BY <1>8, <2>2, <2>3, <1>b DEF ExposeImage, Working, Watching
<1>9. CASE FinishBuild(b)
  <2>1. StoreTypeOK' /\ missed' \subseteq Build
    BY <1>9, <1>d DEF FinishBuild, BuildStatus
  <2>2. DeployerTypeOK' /\ Rest
    BY <1>9, <2>1 DEF FinishBuild, RunnerTypeOK, clusterVars, DeployerTypeOK
  <2>3. QED
    BY <1>9, <2>1, <2>2, <1>b DEF FinishBuild
<1>10. CASE FailBuild(b)
  <2>1. StoreTypeOK' /\ missed' \subseteq Build
    BY <1>10, <1>d DEF FailBuild, BuildStatus
  <2>2. DeployerTypeOK' /\ Rest
    BY <1>10, <2>1 DEF FailBuild, RunnerTypeOK, clusterVars, DeployerTypeOK
  <2>3. QED
    BY <1>10, <2>1, <2>2, <1>b DEF FailBuild
<1>11. QED
  BY <1>1, <1>2, <1>3, <1>4, <1>5, <1>6, <1>7, <1>8, <1>9, <1>10 DEF Pipeline

\* Every step of the system keeps all the types.
LEMMA NextTyped == TypeOK /\ [Next]_vars => TypeOK'
<1> SUFFICES ASSUME TypeOK, [Next]_vars PROVE TypeOK'
  OBVIOUS
<1>1. CASE \E b \in Build : Pipeline(b)
  BY <1>1, PipelineTyped
<1>2. CASE \E b \in Build : PodPushes(b) \/ JobEnds(b)
  <2>1. StoreTypeOK' /\ DeployerTypeOK'
    BY <1>2 DEF PodPushes, JobEnds, TypeOK, storeVars, clusterVars, StoreTypeOK, DeployerTypeOK
  <2>2. PICK b \in Build : PodPushes(b) \/ JobEnds(b)
    BY <1>2
  <2>3. CASE PodPushes(b)
    BY <2>1, <2>3 DEF PodPushes, TypeOK, RunnerTypeOK
  <2>4. CASE JobEnds(b)
    <3>1. job' \in [Build -> {"none", "active", "complete", "failed", "gone"}]
      BY <2>4 DEF JobEnds, TypeOK, RunnerTypeOK
    <3>2. RunnerTypeOK'
      BY <2>4, <3>1 DEF JobEnds, TypeOK, RunnerTypeOK
    <3>3. QED
      BY <2>1, <3>2 DEF TypeOK
  <2>5. QED
    BY <2>2, <2>3, <2>4
<1>3. CASE \E b \in Build, a \in App : LoadForBuild(b, a)
  <2>1. PICK b \in Build, a \in App : LoadForBuild(b, a)
    BY <1>3
  <2>2. StoreTypeOK' /\ DeployerTypeOK'
    BY <2>1 DEF LoadForBuild, TypeOK, storeVars, clusterVars, StoreTypeOK, DeployerTypeOK
  <2>3. Row(a) \in Snapshot
    BY DEF TypeOK, StoreTypeOK, Application, Row, Snapshot
  <2>4. RunnerTypeOK'
    BY <2>1, <2>3 DEF LoadForBuild, Step, TypeOK, RunnerTypeOK, Working, Starting
  <2>5. QED
    BY <2>2, <2>4 DEF TypeOK
<1>4. CASE Crash
  <2>1. StoreTypeOK' /\ DeployerTypeOK'
    BY <1>4 DEF Crash, TypeOK, storeVars, clusterVars, StoreTypeOK, DeployerTypeOK
  <2>2. crashes' \in 0..MaxCrashes
    BY <1>4, BuilderAssumption DEF Crash, TypeOK, RunnerTypeOK
  <2>3. RunnerTypeOK'
    BY <1>4, <2>2 DEF Crash, TypeOK, RunnerTypeOK, Working, Starting, Watching
  <2>4. QED
    BY <2>1, <2>3 DEF TypeOK
<1>5. CASE StoreElsewhere
  <2>1. PICK a \in App :
          \/ CreateApplication(a)
          \/ \E v \in Vars, r \in Counts : UpdateApplicationConfig(a, v, r)
          \/ \E fk \in ForeignKeys : DeleteApplication(a, fk)
          \/ \E f \in Fn, fk \in ForeignKeys : CreateFunction(a, f, fk)
          \/ \E f \in Fn : DeleteFunction(a, f)
    BY <1>5 DEF StoreElsewhere
  <2>2. Counts \subseteq Nat /\ ForeignKeys \subseteq BOOLEAN
    BY BuilderAssumption, StoreAssumption DEF Counts
  <2>3. StoreTypeOK'
    <3>1. CASE CreateApplication(a)
      BY <3>1 DEF CreateApplication, TypeOK, StoreTypeOK, Application
    <3>2. CASE \E v \in Vars, r \in Counts : UpdateApplicationConfig(a, v, r)
      BY <2>2, <3>2, ConfigTyped DEF TypeOK
    <3>3. CASE \E fk \in ForeignKeys : DeleteApplication(a, fk)
      BY <3>3, DeletionTyped DEF TypeOK
    <3>4. CASE \E f \in Fn, fk \in ForeignKeys : CreateFunction(a, f, fk)
      BY <3>4 DEF CreateFunction, TypeOK, StoreTypeOK
    <3>5. CASE \E f \in Fn : DeleteFunction(a, f)
      BY <3>5 DEF DeleteFunction, TypeOK, StoreTypeOK
    <3>6. QED
      BY <2>1, <3>1, <3>2, <3>3, <3>4, <3>5
  <2>4. DeployerTypeOK' /\ RunnerTypeOK'
    BY <1>5 DEF StoreElsewhere, TypeOK, DeployerTypeOK, RunnerTypeOK, clusterVars, builderVars
  <2>5. QED
    BY <2>3, <2>4 DEF TypeOK
<1>6. CASE ClusterElsewhere
  <2>1. PICK a \in App, answer \in KubeAnswers :
          \/ \E v \in Vars, r \in Counts, asked \in Counts, i \in Image :
                ApplySpinApp([app |-> a, vars |-> v, replicas |-> r], i, asked, answer)
          \/ ApplyVirtualService(NameOf[a], answer)
          \/ DeleteSpinApp(NameOf[a], answer)
          \/ DeleteVirtualService(NameOf[a], answer)
    BY <1>6 DEF ClusterElsewhere
  <2>2. Counts \subseteq Nat
    BY BuilderAssumption, StoreAssumption DEF Counts
  <2>3. \A v \in Vars, r \in Counts : [app |-> a, vars |-> v, replicas |-> r] \in Snapshot
    BY <2>2 DEF Snapshot
  <2>4. DeployerTypeOK'
    BY <2>1, <2>2, <2>3, DeployerOperationsTyped DEF TypeOK
  <2>5. StoreTypeOK' /\ RunnerTypeOK'
    BY <1>6 DEF ClusterElsewhere, TypeOK, StoreTypeOK, RunnerTypeOK, storeVars, builderVars
  <2>6. QED
    BY <2>4, <2>5 DEF TypeOK
<1>7. CASE UNCHANGED vars
  BY <1>7 DEF vars, storeVars, clusterVars, builderVars, TypeOK, StoreTypeOK, DeployerTypeOK,
              RunnerTypeOK
<1>8. QED
  BY <1>1, <1>2, <1>3, <1>4, <1>5, <1>6, <1>7 DEF Next

\* Every reachable state is well-typed: in particular no stored row and no
\* SpinApp ever asks for zero replicas, whatever clients send.
THEOREM TypeCorrect == Spec => []TypeOK
<1>1. QED
  BY InitTypes, NextTyped, PTL DEF Spec

-----------------------------------------------------------------------------
(***************************************************************************)
(* The inductive invariant.  A step of one build leaves what is known of   *)
(* every other build alone (Untouched); the own step of a build is argued  *)
(* action by action; the rest of the control plane can only remove rows.   *)
(***************************************************************************)
Untouched(b) ==
    /\ pc'[b] = pc[b] /\ snap'[b] = snap[b] /\ job'[b] = job[b]
    /\ status'[b] = status[b] /\ owner'[b] = owner[b]
    /\ b \in pushed' <=> b \in pushed
    /\ b \in applied' <=> b \in applied
    /\ b \in missed => b \in missed'

\* What is known of an untouched build stays known.
LEMMA UntouchedKeeps ==
  ASSUME NEW b \in Build, BuildProgress(b), Untouched(b)
  PROVE  BuildProgress(b)'
BY DEF BuildProgress, Untouched

\* A status update of one build's row leaves every other build's alone.
LEMMA WriteStatusEffect ==
  ASSUME TypeOK, NEW b \in Build, NEW s, NEW answer, WriteStatus(b, s, answer)
  PROVE  /\ owner' = owner
         /\ \A x \in Build : x # b => status'[x] = status[x]
         /\ \A x \in missed : x \in missed'
         /\ status[b] = "absent" => status'[b] = "absent"
         /\ \/ status[b] # "absent" /\ status'[b] = s
            \/ status'[b] = status[b] /\ (status[b] = "absent" \/ b \in missed')
BY DEF WriteStatus, UpdateBuildStatus, TypeOK, StoreTypeOK, storeVars

\* Requests and watchers work on their own build only.
LEMMA PipelineLeavesOthers ==
  ASSUME TypeOK, NEW b \in Build, NEW x \in Build, x # b, Pipeline(b)
  PROVE  Untouched(x)
<1> USE DEF TypeOK, RunnerTypeOK, Untouched, Step
<1>1. CASE InsertBuildRow(b)
  BY <1>1 DEF InsertBuildRow, CreateBuild, storeVars, StoreTypeOK
<1>2. CASE CreateSecret(b)
  BY <1>2 DEF CreateSecret, storeVars
<1>3. CASE CreateJob(b)
  BY <1>3 DEF CreateJob, storeVars
<1>4. CASE MarkRunning(b)
  BY <1>4, WriteStatusEffect DEF MarkRunning
<1>5. CASE PollComplete(b)
  BY <1>5 DEF PollComplete, storeVars
<1>6. CASE PollGivesUp(b)
  BY <1>6 DEF PollGivesUp, storeVars
<1>7. CASE DeployImage(b)
  BY <1>7 DEF DeployImage, storeVars
<1>8. CASE ExposeImage(b)
  BY <1>8 DEF ExposeImage, storeVars
<1>9. CASE FinishBuild(b)
  BY <1>9, WriteStatusEffect DEF FinishBuild
<1>10. CASE FailBuild(b)
  BY <1>10, WriteStatusEffect DEF FailBuild
<1>11. QED
  BY <1>1, <1>2, <1>3, <1>4, <1>5, <1>6, <1>7, <1>8, <1>9, <1>10 DEF Pipeline

\* A request or watcher keeps what is known of its own build.
LEMMA PipelineKeepsOwn ==
  ASSUME TypeOK, NEW b \in Build, BuildProgress(b), Pipeline(b)
  PROVE  BuildProgress(b)'
<1> USE DEF TypeOK, RunnerTypeOK, BuildProgress, Terminal, Working, Starting, Watching
<1>1. CASE InsertBuildRow(b)
  <2>1. \/ Step(b, "row", "secret") /\ CreateBuild(b, snap[b].app)
        \/ Step(b, "row", "done") /\ UNCHANGED storeVars
    BY <1>1 DEF InsertBuildRow
  <2>2. UNCHANGED <<snap, job, pushed, applied, missed>>
    BY <1>1 DEF InsertBuildRow
  <2>3. CASE Step(b, "row", "secret") /\ CreateBuild(b, snap[b].app)
    <3>1. pc[b] = "row" /\ pc'[b] = "secret" /\ status'[b] = "pending" /\ owner'[b] = snap[b].app
      BY <2>3 DEF Step, CreateBuild, StoreTypeOK
    <3>2. QED
      BY <2>2, <3>1
  <2>4. CASE Step(b, "row", "done") /\ UNCHANGED storeVars
    BY <2>2, <2>4 DEF Step, storeVars
  <2>5. QED
    BY <2>1, <2>3, <2>4
<1>2. CASE CreateSecret(b)
  BY <1>2 DEF CreateSecret, Step, storeVars
<1>3. CASE CreateJob(b)
  BY <1>3 DEF CreateJob, Step, storeVars
<1>4. CASE MarkRunning(b)
  <2>1. pc[b] = "mark" /\ pc'[b] = "poll" /\ UNCHANGED <<snap, job, pushed, applied>>
    BY <1>4 DEF MarkRunning, Step
  <2>2. owner' = owner /\ (\/ status'[b] = "running" /\ status[b] # "absent"
                         \/ status'[b] = status[b])
    BY <1>4, WriteStatusEffect DEF MarkRunning
  <2>3. QED
    BY <2>1, <2>2
<1>5. CASE PollComplete(b)
  <2>1. /\ pc[b] = "poll" /\ job[b] = "complete"
        /\ UNCHANGED <<snap, job, pushed, applied, missed, status, owner>>
        /\ pc'[b] = IF RuntimeOf[snap[b].app] = "workerpool" THEN "finish" ELSE "deploy"
    BY <1>5 DEF PollComplete, Step, storeVars
  <2>2. RuntimeOf[snap[b].app] \in Runtime
    BY <2>1, StoreAssumption DEF Snapshot
  <2>3. QED
    BY <2>1, <2>2 DEF Runtime
<1>6. CASE PollGivesUp(b)
  BY <1>6 DEF PollGivesUp, Step, storeVars
<1>7. CASE DeployImage(b)
  <2>1. /\ pc[b] = "deploy" /\ UNCHANGED <<snap, job, pushed, missed, status, owner>>
        /\ \/ pc'[b] = "ingress" /\ applied' = applied \union {b}
           \/ pc'[b] = "fail" /\ applied' \in {applied, applied \union {b}}
    BY <1>7 DEF DeployImage, Step, storeVars, TakesEffect
  <2>2. QED
    BY <2>1
<1>8. CASE ExposeImage(b)
  BY <1>8 DEF ExposeImage, Step, storeVars
<1>9. CASE FinishBuild(b)
  <2>1. pc[b] = "finish" /\ pc'[b] = "done" /\ UNCHANGED <<snap, job, pushed, applied>>
    BY <1>9 DEF FinishBuild, Step
  <2>2. /\ owner' = owner /\ \A x \in missed : x \in missed'
        /\ \/ status[b] # "absent" /\ status'[b] = "succeeded"
           \/ status'[b] = status[b] /\ (status[b] = "absent" \/ b \in missed')
    BY <1>9, WriteStatusEffect DEF FinishBuild
  <2>3. QED
    BY <2>1, <2>2
<1>10. CASE FailBuild(b)
  <2>1. pc[b] = "fail" /\ pc'[b] = "done" /\ UNCHANGED <<snap, job, pushed, applied>>
    BY <1>10 DEF FailBuild, Step
  <2>2. /\ owner' = owner /\ \A x \in missed : x \in missed'
        /\ \/ status[b] # "absent" /\ status'[b] = "failed"
           \/ status'[b] = status[b] /\ (status[b] = "absent" \/ b \in missed')
    BY <1>10, WriteStatusEffect DEF FailBuild
  <2>3. QED
    BY <2>1, <2>2
<1>11. QED
  BY <1>1, <1>2, <1>3, <1>4, <1>5, <1>6, <1>7, <1>8, <1>9, <1>10 DEF Pipeline

\* Elsewhere, nothing of a build changes but that its row may vanish.
LEMMA ElsewhereOnlyRemoves ==
  ASSUME TypeOK, StoreElsewhere \/ ClusterElsewhere
  PROVE  /\ UNCHANGED <<pc, snap, job, pushed, applied, missed, owner>>
         /\ \A b \in Build : status'[b] \in {status[b], "absent"}
<1>1. CASE StoreElsewhere
  <2>1. UNCHANGED <<pc, snap, job, pushed, applied, missed>>
    BY <1>1 DEF StoreElsewhere, builderVars
  <2>2. PICK a \in App :
          \/ CreateApplication(a)
          \/ \E v \in Vars, r \in Counts : UpdateApplicationConfig(a, v, r)
          \/ \E fk \in ForeignKeys : DeleteApplication(a, fk)
          \/ \E f \in Fn, fk \in ForeignKeys : CreateFunction(a, f, fk)
          \/ \E f \in Fn : DeleteFunction(a, f)
    BY <1>1 DEF StoreElsewhere
  <2>3. owner' = owner /\ \A b \in Build : status'[b] \in {status[b], "absent"}
    <3>1. CASE \E fk \in ForeignKeys : DeleteApplication(a, fk)
      BY <3>1 DEF DeleteApplication
    <3>2. CASE UNCHANGED <<status, owner>>
      BY <3>2
    <3>3. QED
      BY <2>2, <3>1, <3>2 DEF CreateApplication, UpdateApplicationConfig, CreateFunction,
                              DeleteFunction
  <2>4. QED
    BY <2>1, <2>3
<1>2. CASE ClusterElsewhere
  BY <1>2 DEF ClusterElsewhere, storeVars, builderVars
<1>3. QED
  BY <1>1, <1>2

\* A step of the world around the builds keeps what is known of each.
LEMMA OthersKeep ==
  ASSUME TypeOK, NEW b \in Build, BuildProgress(b),
         \/ \E x \in Build : PodPushes(x) \/ JobEnds(x)
         \/ \E x \in Build, a \in App : LoadForBuild(x, a)
         \/ Crash \/ StoreElsewhere \/ ClusterElsewhere
  PROVE  BuildProgress(b)'
<1> USE DEF TypeOK, RunnerTypeOK, BuildProgress, Terminal, Working, Starting, Watching
<1>1. CASE \E x \in Build : PodPushes(x)
  BY <1>1 DEF PodPushes, storeVars
<1>2. CASE \E x \in Build : JobEnds(x)
  <2>1. PICK x \in Build : JobEnds(x)
    BY <1>2
  <2>2. /\ UNCHANGED <<pc, snap, pushed, applied, missed, status, owner>>
        /\ job'[b] = "complete" => job[b] = "complete" \/ b \in pushed
        /\ job[b] = "none" => job'[b] = "none"
    BY <2>1 DEF JobEnds, storeVars
  <2>3. QED
    BY <2>2
<1>3. CASE \E x \in Build, a \in App : LoadForBuild(x, a)
  <2>1. PICK x \in Build, a \in App : LoadForBuild(x, a)
    BY <1>3
  <2>2. CASE x = b
    BY <2>1, <2>2 DEF LoadForBuild, Step, storeVars
  <2>3. CASE x # b
    <3>1. Untouched(b)
      BY <2>1, <2>3 DEF LoadForBuild, Step, storeVars, Untouched
    <3>2. QED
      BY <3>1, UntouchedKeeps
  <2>4. QED
    BY <2>2, <2>3
<1>4. CASE Crash
  <2>1. /\ UNCHANGED <<snap, job, pushed, applied, missed, status, owner>>
        /\ pc'[b] = IF pc[b] \in Working THEN "lost" ELSE pc[b]
    BY <1>4 DEF Crash, storeVars
  <2>2. QED
    BY <2>1
<1>5. CASE StoreElsewhere \/ ClusterElsewhere
  <2>1. /\ UNCHANGED <<pc, snap, job, pushed, applied, missed, owner>>
        /\ status'[b] \in {status[b], "absent"}
    BY <1>5, ElsewhereOnlyRemoves
  <2>2. QED
    BY <2>1
<1>6. QED
  BY <1>1, <1>2, <1>3, <1>4, <1>5

\* The invariant holds at the start.
LEMMA InitProgress == Init => BuildInv
<1> SUFFICES ASSUME Init PROVE BuildInv
  OBVIOUS
<1>1. TypeOK
  BY InitTypes
<1>2. ASSUME NEW b \in Build PROVE BuildProgress(b)
  BY DEF Init, StoreInit, BuildProgress, Terminal
<1>3. QED
  BY <1>1, <1>2 DEF BuildInv

\* It is inductive.
LEMMA NextProgress == BuildInv /\ [Next]_vars => BuildInv'
<1> SUFFICES ASSUME BuildInv, [Next]_vars PROVE BuildInv'
  OBVIOUS
<1>1. TypeOK /\ TypeOK'
  BY NextTyped DEF BuildInv
<1>2. ASSUME NEW b \in Build PROVE BuildProgress(b)'
  <2>1. BuildProgress(b)
    BY DEF BuildInv
  <2>2. CASE \E x \in Build : Pipeline(x)
    <3>1. PICK x \in Build : Pipeline(x)
      BY <2>2
    <3>2. CASE x = b
      BY <1>1, <2>1, <3>1, <3>2, PipelineKeepsOwn
    <3>3. CASE x # b
      BY <1>1, <2>1, <3>1, <3>3, PipelineLeavesOthers, UntouchedKeeps
    <3>4. QED
      BY <3>2, <3>3
  <2>3. CASE UNCHANGED vars
    <3>1. Untouched(b)
      BY <2>3 DEF vars, storeVars, builderVars, Untouched
    <3>2. QED
      BY <2>1, <3>1, UntouchedKeeps
  <2>4. CASE \/ \E x \in Build : PodPushes(x) \/ JobEnds(x)
             \/ \E x \in Build, a \in App : LoadForBuild(x, a)
             \/ Crash \/ StoreElsewhere \/ ClusterElsewhere
    BY <1>1, <2>1, <2>4, OthersKeep
  <2>5. QED
    BY <2>2, <2>3, <2>4 DEF Next
<1>3. QED
  BY <1>1, <1>2 DEF BuildInv

\* The invariant holds of every reachable state: where a build stands
\* determines what is known of its row, its Job and its image.
THEOREM Invariance == Spec => []BuildInv
<1>1. QED
  BY InitProgress, NextProgress, PTL DEF Spec
-----------------------------------------------------------------------------
\* A row says succeeded only of an image that is in the registry and, for a
\* spinkube application, was put in a SpinApp by its own watcher.
THEOREM SucceededServed == Spec => []SucceededIsServed
<1>1. BuildInv => SucceededIsServed
  BY DEF BuildInv, BuildProgress, SucceededIsServed
<1>2. QED
  BY <1>1, Invariance, PTL

\* A watcher deploys only images that are in the registry.
THEOREM AppliedPushed == Spec => []AppliedIsPushed
<1>1. BuildInv => AppliedIsPushed
  BY DEF BuildInv, BuildProgress, AppliedIsPushed, TypeOK, RunnerTypeOK
<1>2. QED
  BY <1>1, Invariance, PTL

\* An unsettled row has somebody at work on it, unless a crash or a failed
\* update took that away.
THEOREM UnsettledAttended == Spec => []UnsettledIsAttended
<1>1. BuildInv => UnsettledIsAttended
  BY DEF BuildInv, BuildProgress, UnsettledIsAttended
<1>2. QED
  BY <1>1, Invariance, PTL

\* No image of a workerpool application's build is put in a SpinApp by its
\* watcher.
THEOREM WorkerpoolNeverApplied == Spec => []WorkerpoolIsNeverApplied
<1>1. BuildInv => WorkerpoolIsNeverApplied
  BY DEF BuildInv, BuildProgress, WorkerpoolIsNeverApplied, TypeOK, RunnerTypeOK
<1>2. QED
  BY <1>1, Invariance, PTL

\* An outcome, once written, stays or goes with its row: the row's only writer
\* has finished, although no statement checks the old status.
THEOREM OutcomesFinal == Spec => OutcomeIsFinal
<1>1. ASSUME BuildInv, [Next]_vars, NEW b \in Build, Settled(b)
      PROVE  status'[b] \in {status[b], "absent"}
  <2>1. TypeOK /\ BuildProgress(b) /\ pc[b] = "done"
    BY <1>1 DEF BuildInv, BuildProgress, Settled
  <2>2. CASE \E x \in Build : Pipeline(x)
    <3>1. PICK x \in Build : Pipeline(x)
      BY <2>2
    <3>2. x # b
      BY <2>1, <3>1 DEF Pipeline, Step, InsertBuildRow, CreateSecret, CreateJob, MarkRunning,
                        PollComplete, PollGivesUp, DeployImage, ExposeImage, FinishBuild, FailBuild
    <3>3. QED
      BY <2>1, <3>1, <3>2, PipelineLeavesOthers DEF Untouched
  <2>3. CASE StoreElsewhere \/ ClusterElsewhere
    BY <2>1, <2>3, ElsewhereOnlyRemoves
  <2>4. CASE status' = status
    BY <2>4
  <2>5. QED
    BY <1>1, <2>2, <2>3, <2>4 DEF Next, vars, storeVars, PodPushes, JobEnds, LoadForBuild, Crash
<1>2. BuildInv /\ [Next]_vars =>
        [\A b \in Build : Settled(b) => status'[b] \in {status[b], "absent"}]_vars
  BY <1>1
<1>3. QED
  BY <1>2, Invariance, PTL DEF Spec, OutcomeIsFinal
-----------------------------------------------------------------------------
(***************************************************************************)
(* The refinement: every step of the builder is a step of the life cycle   *)
(* or leaves both its variables alone.  A step of one build moves one      *)
(* state; a crash refuses every build whose row is not written yet; a      *)
(* deleted application takes a group of rows with it.                      *)
(***************************************************************************)
LifecycleStep == Lifecycle!Next \/ UNCHANGED <<RowState, pushed>>

\* Where the row of one build moves as an abstract action allows and no other
\* row moves, the life cycle takes that action.
LEMMA OneRowMoves ==
  ASSUME TypeOK, NEW b \in Build, pushed' = pushed,
         \A x \in Build : x # b => RowState'[x] = RowState[x],
         \/ RowState'[b] = RowState[b]
         \/ RowState[b] = "new" /\ RowState'[b] = "pending"
         \/ RowState[b] = "new" /\ RowState'[b] = "gone"
         \/ RowState[b] = "pending" /\ RowState'[b] = "running"
         \/ RowState[b] \in {"pending", "running"} /\ RowState'[b] = "failed"
         \/ /\ RowState[b] \in {"pending", "running"} /\ RowState'[b] = "succeeded"
            /\ b \in pushed
  PROVE  LifecycleStep
<1> DEFINE Moves(to) == RowState' = [RowState EXCEPT ![b] = to]
<1>0. ASSUME NEW to, RowState'[b] = to PROVE Moves(to)
  BY <1>0 DEF RowState
<1>1. CASE RowState'[b] = RowState[b]
  <2>1. RowState' = RowState
    BY <1>1 DEF RowState
  <2>2. QED
    BY <2>1 DEF LifecycleStep
<1>2. CASE RowState[b] = "new" /\ RowState'[b] = "pending"
  <2>1. Lifecycle!Create(b)
    BY <1>0, <1>2 DEF Lifecycle!Create, Lifecycle!Move
  <2>2. QED
    BY <2>1 DEF LifecycleStep, Lifecycle!Next
<1>3. CASE RowState[b] = "new" /\ RowState'[b] = "gone"
  <2>1. RowState' = [x \in Build |-> IF x \in {b} THEN "gone" ELSE RowState[x]]
    BY <1>3 DEF RowState
  <2>2. Lifecycle!RefuseAll
    BY <1>3, <2>1 DEF Lifecycle!RefuseAll
  <2>3. QED
    BY <2>2 DEF LifecycleStep, Lifecycle!Next
<1>4. CASE RowState[b] = "pending" /\ RowState'[b] = "running"
  <2>1. Lifecycle!Run(b)
    BY <1>0, <1>4 DEF Lifecycle!Run, Lifecycle!Move
  <2>2. QED
    BY <2>1 DEF LifecycleStep, Lifecycle!Next
<1>5. CASE RowState[b] \in {"pending", "running"} /\ RowState'[b] = "failed"
  <2>1. Lifecycle!Fail(b)
    BY <1>0, <1>5 DEF Lifecycle!Fail, Lifecycle!Move
  <2>2. QED
    BY <2>1 DEF LifecycleStep, Lifecycle!Next
<1>6. CASE /\ RowState[b] \in {"pending", "running"} /\ RowState'[b] = "succeeded"
           /\ b \in pushed
  <2>1. Lifecycle!Succeed(b)
    BY <1>0, <1>6 DEF Lifecycle!Succeed, Lifecycle!Move
  <2>2. QED
    BY <2>1 DEF LifecycleStep, Lifecycle!Next
<1>7. QED
  BY <1>1, <1>2, <1>3, <1>4, <1>5, <1>6

\* What a request or watcher does to the row of its own build.
LEMMA PipelineMovesRow ==
  ASSUME BuildInv, NEW b \in Build, Pipeline(b)
  PROVE  LifecycleStep
<1> USE DEF RowState
<1>1. TypeOK /\ BuildProgress(b)
  BY DEF BuildInv
<1>2. \A x \in Build : x # b => RowState'[x] = RowState[x]
  BY <1>1, PipelineLeavesOthers DEF Untouched
<1>3. pushed' = pushed
  BY DEF Pipeline, InsertBuildRow, CreateSecret, CreateJob, MarkRunning, PollComplete,
         PollGivesUp, DeployImage, ExposeImage, FinishBuild, FailBuild
<1>4. status[b] \in {"absent", "pending", "running", "succeeded", "failed"}
  BY <1>1 DEF TypeOK, StoreTypeOK, BuildStatus
<1>5. CASE InsertBuildRow(b)
  <2>1. RowState[b] = "new"
    BY <1>1, <1>5 DEF InsertBuildRow, BuildProgress
  <2>2. \/ pc'[b] = "secret" /\ status'[b] = "pending"
        \/ pc'[b] = "done" /\ status'[b] = status[b]
    BY <1>1, <1>5 DEF InsertBuildRow, Step, CreateBuild, storeVars, TypeOK, StoreTypeOK,
                      RunnerTypeOK
  <2>3. RowState'[b] = "pending" \/ RowState'[b] = "gone"
    BY <1>1, <1>5, <2>2 DEF InsertBuildRow, BuildProgress
  <2>4. QED
    BY <1>1, <1>2, <1>3, <2>1, <2>3, OneRowMoves
<1>6. CASE \/ CreateSecret(b) \/ CreateJob(b) \/ PollComplete(b) \/ PollGivesUp(b)
           \/ DeployImage(b) \/ ExposeImage(b)
  <2>1. status' = status /\ {pc[b], pc'[b]} \intersect {"idle", "row"} = {}
    BY <1>1, <1>6 DEF CreateSecret, CreateJob, PollComplete, PollGivesUp, DeployImage,
                      ExposeImage, Step, storeVars, TypeOK, RunnerTypeOK
  <2>2. RowState'[b] = RowState[b]
    BY <2>1
  <2>3. QED
    BY <1>1, <1>2, <1>3, <2>2, OneRowMoves
<1>7. CASE MarkRunning(b) \/ FinishBuild(b) \/ FailBuild(b)
  <2>1. /\ {pc[b], pc'[b]} \intersect {"idle", "row", "done"} \subseteq {"done"}
        /\ pc[b] # "done"
        /\ pc[b] = "finish" => b \in pushed
    BY <1>1, <1>7 DEF MarkRunning, FinishBuild, FailBuild, Step, TypeOK, RunnerTypeOK,
                      BuildProgress
  <2>2. status[b] \in {"absent", "pending", "running"}
    BY <1>1, <1>4, <2>1 DEF BuildProgress, Terminal
  <2>3. \/ status'[b] = status[b]
        \/ status[b] # "absent" /\ pc[b] = "mark" /\ status'[b] = "running"
        \/ status[b] # "absent" /\ pc[b] = "finish" /\ status'[b] = "succeeded"
        \/ status[b] # "absent" /\ pc[b] = "fail" /\ status'[b] = "failed"
    BY <1>1, <1>7, WriteStatusEffect DEF MarkRunning, FinishBuild, FailBuild, Step
  <2>4. \/ RowState'[b] = RowState[b]
        \/ RowState[b] = "pending" /\ RowState'[b] = "running"
        \/ RowState[b] \in {"pending", "running"} /\ RowState'[b] = "failed"
        \/ /\ RowState[b] \in {"pending", "running"} /\ RowState'[b] = "succeeded"
           /\ b \in pushed
    BY <2>1, <2>2, <2>3
  <2>5. QED
    BY <1>1, <1>2, <1>3, <2>4, OneRowMoves
<1>8. QED
  BY <1>5, <1>6, <1>7 DEF Pipeline

\* Every step of the builder is one of the life cycle, or a stutter.
LEMMA NextLifecycle == BuildInv /\ [Next]_vars => LifecycleStep
<1> SUFFICES ASSUME BuildInv, [Next]_vars PROVE LifecycleStep
  OBVIOUS
<1>0. TypeOK /\ \A b \in Build : BuildProgress(b)
  BY DEF BuildInv
<1>1. CASE \E b \in Build : Pipeline(b)
  BY <1>1, PipelineMovesRow
<1>2. CASE \E b \in Build : PodPushes(b)
  <2>1. PICK b \in Build : PodPushes(b)
    BY <1>2
  <2>2. RowState' = RowState /\ pushed' = pushed \union {b}
    BY <2>1 DEF PodPushes, storeVars, RowState
  <2>3. RowState[b] # "new"
    BY <1>0, <2>1 DEF PodPushes, RowState, BuildProgress, TypeOK, StoreTypeOK, BuildStatus
  <2>4. Lifecycle!Push(b)
    BY <2>2, <2>3 DEF Lifecycle!Push
  <2>5. QED
    BY <2>4 DEF LifecycleStep, Lifecycle!Next
<1>3. CASE UNCHANGED <<pc, status, pushed>>
  BY <1>3 DEF LifecycleStep, RowState
<1>4. CASE \E b \in Build, a \in App : LoadForBuild(b, a)
  <2>1. PICK b \in Build, a \in App : LoadForBuild(b, a)
    BY <1>4
  <2>2. status' = status /\ pushed' = pushed
    BY <2>1 DEF LoadForBuild, storeVars
  <2>3. RowState' = RowState
    BY <1>0, <2>1, <2>2 DEF LoadForBuild, Step, RowState, TypeOK, RunnerTypeOK
  <2>4. QED
    BY <2>2, <2>3 DEF LifecycleStep
<1>5. CASE Crash
  <2>1. status' = status /\ pushed' = pushed
    BY <1>5 DEF Crash, storeVars
  <2>2. DEFINE cut == {b \in Build : pc[b] = "row" /\ status[b] = "absent"}
  <2>3. RowState' = [b \in Build |-> IF b \in cut THEN "gone" ELSE RowState[b]]
    BY <1>5, <2>1 DEF Crash, RowState, Working, Starting, Watching
  <2>4. \A b \in cut : RowState[b] = "new"
    BY DEF RowState
  <2>5. Lifecycle!RefuseAll
    BY <2>1, <2>3, <2>4 DEF Lifecycle!RefuseAll
  <2>6. QED
    BY <2>5 DEF LifecycleStep, Lifecycle!Next
<1>6. CASE StoreElsewhere \/ ClusterElsewhere
  <2>1. /\ pc' = pc /\ pushed' = pushed
        /\ \A b \in Build : status'[b] \in {status[b], "absent"}
    BY <1>0, <1>6, ElsewhereOnlyRemoves
  <2>2. DEFINE removed == {b \in Build : status'[b] # status[b]}
  <2>3. \A b \in removed : status[b] # "absent" /\ status'[b] = "absent"
    BY <2>1
  <2>4. \A b \in removed : pc[b] \notin {"idle", "row"}
    BY <1>0, <2>3 DEF BuildProgress
  <2>5. RowState' = [b \in Build |-> IF b \in removed THEN "gone" ELSE RowState[b]]
    BY <2>1, <2>3, <2>4 DEF RowState
  <2>6. \A b \in removed : RowState[b] \notin {"new", "gone"}
    BY <1>0, <2>3 DEF RowState, TypeOK, StoreTypeOK, BuildStatus
  <2>7. Lifecycle!Cascade
    BY <2>1, <2>5, <2>6 DEF Lifecycle!Cascade
  <2>8. QED
    BY <2>7 DEF LifecycleStep, Lifecycle!Next
<1>7. QED
  BY <1>1, <1>2, <1>3, <1>4, <1>5, <1>6 DEF Next, vars, storeVars, builderVars, JobEnds

\* The builder, with everything that may happen elsewhere, implements the life
\* cycle its documentation draws.
THEOREM Refinement == Spec => LifecycleSpec
<1>1. Init => Lifecycle!Init
  BY DEF Init, StoreInit, Lifecycle!Init, RowState
<1>2. BuildInv /\ [Next]_vars => [Lifecycle!Next]_Lifecycle!lifecycleVars
  BY NextLifecycle DEF LifecycleStep, Lifecycle!lifecycleVars
<1>3. QED
  BY <1>1, <1>2, Invariance, PTL DEF Spec, LifecycleSpec, Lifecycle!Spec
-----------------------------------------------------------------------------
(***************************************************************************)
(* The tables, as their reader sees them.  A row is inserted at one place  *)
(* of the request, so that no build is inserted twice; the application it  *)
(* is for has been loaded, so that it was there.                           *)
(***************************************************************************)
Inserts(b) ==
    /\ pc[b] \in {"idle", "row"} => owner[b] = None
    /\ pc[b] # "idle" => app[snap[b].app].state # "absent"

TablesInv == BuildInv /\ \A b \in Build : Inserts(b)

\* No statement takes the trace of an application away.
LEMMA ApplicationsLeaveATrace ==
  ASSUME TypeOK, [Next]_vars, NEW a \in App, app[a].state # "absent"
  PROVE  app'[a].state # "absent"
<1> USE DEF TypeOK, StoreTypeOK
<1>1. CASE app' = app
  BY <1>1
<1>2. CASE StoreElsewhere
  <2>1. PICK x \in App :
          \/ CreateApplication(x)
          \/ \E v \in Vars, r \in Counts : UpdateApplicationConfig(x, v, r)
          \/ \E fk \in ForeignKeys : DeleteApplication(x, fk)
          \/ \E f \in Fn, fk \in ForeignKeys : CreateFunction(x, f, fk)
          \/ \E f \in Fn : DeleteFunction(x, f)
    BY <1>2 DEF StoreElsewhere
  <2>2. CASE CreateApplication(x) \/ \E fk \in ForeignKeys : DeleteApplication(x, fk)
    BY <2>2 DEF CreateApplication, DeleteApplication, Application
  <2>3. ASSUME NEW v, NEW r, UpdateApplicationConfig(x, v, r) PROVE app'[a].state # "absent"
    BY <2>3 DEF UpdateApplicationConfig, Application
  <2>4. QED
    BY <1>1, <2>1, <2>2, <2>3 DEF CreateFunction, DeleteFunction
<1>3. QED
  BY <1>1, <1>2
     DEF Next, Pipeline, InsertBuildRow, CreateBuild, CreateSecret, CreateJob, MarkRunning,
         PollComplete, PollGivesUp, DeployImage, ExposeImage, FinishBuild, FailBuild,
         WriteStatus, UpdateBuildStatus, PodPushes, JobEnds, LoadForBuild, Crash,
         ClusterElsewhere, storeVars, vars

\* Where a build's pc, snapshot and owner may move.
LEMMA InsertsKept ==
  ASSUME TablesInv, [Next]_vars, NEW b \in Build
  PROVE  Inserts(b)'
<1>1. /\ TypeOK /\ Inserts(b) /\ BuildProgress(b)
      /\ pc \in [Build -> Working \union {"idle", "done", "lost"}]
      /\ pc[b] # "idle" => snap[b].app \in App
  BY DEF TablesInv, BuildInv, TypeOK, RunnerTypeOK, Snapshot
<1>2. ASSUME pc'[b] = pc[b], snap'[b] = snap[b], owner'[b] = owner[b] PROVE Inserts(b)'
  BY <1>1, <1>2, ApplicationsLeaveATrace DEF Inserts
<1>3. CASE Pipeline(b)
  <2>1. snap' = snap /\ pc[b] # "idle" /\ pc'[b] \notin {"idle", "row"}
    BY <1>1, <1>3 DEF Pipeline, InsertBuildRow, CreateSecret, CreateJob, MarkRunning, PollComplete,
                      PollGivesUp, DeployImage, ExposeImage, FinishBuild, FailBuild, Step
  <2>2. QED
    BY <1>1, <2>1, ApplicationsLeaveATrace DEF Inserts
<1>4. ASSUME NEW x \in Build, x # b, Pipeline(x) PROVE Inserts(b)'
  BY <1>1, <1>2, <1>4, PipelineLeavesOthers DEF Untouched
<1>5. ASSUME NEW x \in Build, NEW a \in App, LoadForBuild(x, a) PROVE Inserts(b)'
  <2>1. CASE x = b
    <3>1. /\ pc[b] = "idle" /\ pc'[b] = "row" /\ snap'[b] = Row(a) /\ UNCHANGED <<owner, app>>
          /\ Live(a)
      BY <1>1, <1>5, <2>1 DEF LoadForBuild, Step, storeVars, TypeOK, RunnerTypeOK
    <3>2. QED
      BY <1>1, <3>1 DEF Inserts, Row, Live
  <2>2. CASE x # b
    BY <1>1, <1>2, <1>5, <2>2 DEF LoadForBuild, Step, storeVars
  <2>3. QED
    BY <2>1, <2>2
<1>6. CASE Crash
  <2>1. UNCHANGED <<owner, app, snap>> /\ pc'[b] \in {pc[b], "lost"} /\ (pc[b] = "idle" => pc'[b] = "idle")
    BY <1>1, <1>6 DEF Crash, storeVars, Working, Starting, Watching
  <2>2. QED
    BY <1>1, <2>1 DEF Inserts
<1>7. CASE StoreElsewhere \/ ClusterElsewhere
  BY <1>1, <1>2, <1>7, ElsewhereOnlyRemoves
<1>8. CASE UNCHANGED <<pc, snap, owner>>
  BY <1>2, <1>8
<1>9. QED
  BY <1>3, <1>4, <1>5, <1>6, <1>7, <1>8
     DEF Next, PodPushes, JobEnds, vars, storeVars, builderVars

LEMMA TablesInvariance == Spec => []TablesInv
<1>1. Init => TablesInv
  <2> SUFFICES ASSUME Init PROVE TablesInv
    OBVIOUS
  <2>1. \A b \in Build : Inserts(b)
    BY DEF Init, StoreInit, Inserts
  <2>2. QED
    BY <2>1, InitProgress DEF TablesInv
<1>2. TablesInv /\ [Next]_vars => TablesInv'
  BY NextProgress, InsertsKept DEF TablesInv
<1>3. QED
  BY <1>1, <1>2, PTL DEF Spec

\* What a build's own steps do to the tables.
LEMMA PipelineMovesTables ==
  ASSUME TablesInv, NEW b \in Build, Pipeline(b)
  PROVE  TableStep \/ UNCHANGED seenVars
<1>1. /\ TypeOK /\ StoreTypeOK /\ Inserts(b) /\ BuildProgress(b)
      /\ pc[b] # "idle" => snap[b].app \in App
  BY DEF TablesInv, BuildInv, TypeOK, RunnerTypeOK, Snapshot
<1>2. CASE InsertBuildRow(b)
  <2>1. PICK fk \in ForeignKeys :
          \/ CanInsertFor(snap[b].app, fk) /\ CreateBuild(b, snap[b].app)
          \/ UNCHANGED storeVars
    BY <1>2 DEF InsertBuildRow
  <2>2. pc[b] = "row"
    BY <1>2 DEF InsertBuildRow
  <2>3. QED
    BY <1>1, <2>1, <2>2 DEF Inserts, TableStep, storeVars, seenVars
<1>3. CASE MarkRunning(b) \/ FinishBuild(b) \/ FailBuild(b)
  <2>1. PICK s \in {"running", "succeeded", "failed"} :
          UpdateBuildStatus(b, s) \/ UNCHANGED storeVars
    BY <1>3 DEF MarkRunning, FinishBuild, FailBuild, WriteStatus
  <2>2. status[b] \in {"absent", "pending", "running"}
    BY <1>1, <1>3 DEF MarkRunning, FinishBuild, FailBuild, Step, BuildProgress, Terminal,
                      StoreTypeOK, BuildStatus
  <2>3. CASE UNCHANGED storeVars
    BY <2>3 DEF storeVars, seenVars
  <2>4. CASE UpdateBuildStatus(b, s) /\ status[b] \in {"absent", s}
    <3>1. status' = status /\ UNCHANGED <<app, owner, created>>
      BY <1>1, <2>4 DEF UpdateBuildStatus, StoreTypeOK
    <3>2. QED
      BY <3>1 DEF seenVars
  <2>5. CASE UpdateBuildStatus(b, s) /\ status[b] \notin {"absent", s}
    <3>1. s \in BuildStatus \ {"pending"} /\ status[b] \in {"pending", "running"} \ {s}
      BY <2>2, <2>5 DEF BuildStatus
    <3>2. QED
      BY <2>5, <3>1 DEF TableStep
  <2>6. QED
    BY <2>1, <2>3, <2>4, <2>5
<1>4. CASE UNCHANGED storeVars
  BY <1>4 DEF storeVars, seenVars
<1>5. QED
  BY <1>2, <1>3, <1>4
     DEF Pipeline, CreateSecret, CreateJob, PollComplete, PollGivesUp, DeployImage, ExposeImage

\* What everything else does to them.
LEMMA OthersMoveTables ==
  ASSUME TypeOK, StoreElsewhere
  PROVE  TableStep \/ UNCHANGED seenVars
<1>1. PICK a \in App :
        \/ CreateApplication(a)
        \/ \E v \in Vars, r \in Counts : UpdateApplicationConfig(a, v, r)
        \/ \E fk \in ForeignKeys : DeleteApplication(a, fk)
        \/ \E f \in Fn, fk \in ForeignKeys : CreateFunction(a, f, fk)
        \/ \E f \in Fn : DeleteFunction(a, f)
  BY DEF StoreElsewhere
<1>2. CASE CreateApplication(a) \/ \E fk \in ForeignKeys : DeleteApplication(a, fk)
  BY <1>2 DEF TableStep
<1>3. ASSUME NEW v, NEW r, UpdateApplicationConfig(a, v, r) PROVE UNCHANGED seenVars
  BY <1>3 DEF UpdateApplicationConfig, TypeOK, StoreTypeOK, Application, seenVars
<1>4. CASE \/ \E f \in Fn, fk \in ForeignKeys : CreateFunction(a, f, fk)
           \/ \E f \in Fn : DeleteFunction(a, f)
  BY <1>4 DEF CreateFunction, DeleteFunction, seenVars
<1>5. QED
  BY <1>1, <1>2, <1>3, <1>4

\* A reader of the tables sees rows inserted once, for applications that were
\* there, and one outcome each: what module WorkerPool takes for granted.
THEOREM TablesAsSeen == Spec => TablesSpec
<1>1. Init => StoreInit
  BY DEF Init
<1>2. TablesInv /\ [Next]_vars => [TableStep]_seenVars
  <2> SUFFICES ASSUME TablesInv, [Next]_vars PROVE TableStep \/ UNCHANGED seenVars
    OBVIOUS
  <2>1. CASE UNCHANGED storeVars
    BY <2>1 DEF storeVars, seenVars
  <2>2. CASE StoreElsewhere
    BY <2>2, OthersMoveTables DEF TablesInv, BuildInv
  <2>3. QED
    BY <2>1, <2>2, PipelineMovesTables
       DEF Next, PodPushes, JobEnds, LoadForBuild, Crash, ClusterElsewhere, vars
<1>3. QED
  BY <1>1, <1>2, TablesInvariance, PTL DEF Spec, TablesSpec
=============================================================================
