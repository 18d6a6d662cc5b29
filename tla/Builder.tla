------------------------------ MODULE Builder ------------------------------
(***************************************************************************)
(* The build pipeline: the handler of POST /builds (httpapi/builds.go) and *)
(* builder.Runner (builder/builder.go).  Starting a build is a sequence of *)
(* calls to the store and the cluster inside one request; the watcher it   *)
(* leaves behind is a goroutine per build that marks the row, polls the    *)
(* Job, deploys the image and writes the outcome.  Between two of its      *)
(* calls anything else of the control plane may run: here as the actions   *)
(* of Elsewhere, in module ControlPlane as the handlers that perform them. *)
(* The Job and its pod are Kubernetes' and the builder image's.            *)
(***************************************************************************)
EXTENDS Deployer

CONSTANTS StoreAnswers,  \* {"ok"} or {"ok", "err"}: may a statement fail?
          CallerImages,  \* images that callers of /deploy name
          Replicas,      \* replica counts that clients ask for
          MaxCrashes     \* bound: crashes of the control plane

ASSUME BuilderAssumption ==
    /\ StoreAnswers \subseteq {"ok", "err"}
    /\ "ok" \in StoreAnswers
    /\ CallerImages \subseteq Image
    /\ Replicas \subseteq Nat
    /\ MaxCrashes \in Nat

VARIABLES pc,       \* pc[b]: the next call of build b's request or watcher
          snap,     \* snap[b]: the application row as the request loaded it
          job,      \* the Job of build b in the cluster
          secrets,  \* builds whose source Secret exists
          pushed,   \* builds whose image is in the registry
          sized,    \* builds whose row has an image size
          applied,  \* history: builds whose image their watcher put in a SpinApp
          missed,   \* history: builds with a status update that failed
          crashes   \* crashes so far

builderVars == <<pc, snap, job, secrets, pushed, sized, applied, missed, crashes>>
vars == <<storeVars, clusterVars, builderVars>>

Starting == {"row", "secret", "job"}
Watching == {"mark", "poll", "fail", "deploy", "ingress", "finish"}
Working == Starting \union Watching
NoSnapshot == [app |-> None]

RunnerTypeOK ==
    /\ pc \in [Build -> Working \union {"idle", "done", "lost"}]
    /\ snap \in [Build -> Snapshot \union {NoSnapshot}]
    /\ \A b \in Build : pc[b] # "idle" => snap[b] \in Snapshot
    /\ job \in [Build -> {"none", "active", "complete", "failed", "gone"}]
    /\ secrets \subseteq Build
    /\ pushed \subseteq Build
    /\ sized \subseteq Build
    /\ applied \subseteq Build
    /\ missed \subseteq Build
    /\ crashes \in 0..MaxCrashes

TypeOK == StoreTypeOK /\ DeployerTypeOK /\ RunnerTypeOK

Init ==
    /\ StoreInit
    /\ DeployerInit
    /\ pc = [b \in Build |-> "idle"]
    /\ snap = [b \in Build |-> NoSnapshot]
    /\ job = [b \in Build |-> "none"]
    /\ secrets = {}
    /\ pushed = {}
    /\ sized = {}
    /\ applied = {}
    /\ missed = {}
    /\ crashes = 0

Step(b, from, to) ==
    /\ pc[b] = from
    /\ pc' = [pc EXCEPT ![b] = to]

\* Replica counts a snapshot or a deploy request can hold.
Counts == {0, 1} \union Replicas

Row(a) == [app |-> a, vars |-> app[a].vars, replicas |-> app[a].replicas]
-----------------------------------------------------------------------------
(***************************************************************************)
(* The request: load the application, then the three creations of Start.   *)
(***************************************************************************)
LoadForBuild(b, a) ==
    /\ Live(a)
    /\ functions[a] # {}
    /\ Step(b, "idle", "row")
    /\ snap' = [snap EXCEPT ![b] = Row(a)]
    /\ UNCHANGED <<storeVars, clusterVars, job, secrets, pushed, sized, applied, missed, crashes>>

\* No row was written when this fails: the request ends, nothing to clean up.
InsertBuildRow(b) ==
    /\ pc[b] = "row"
    /\ \E fk \in ForeignKeys, answer \in StoreAnswers :
          IF answer = "ok" /\ CanInsertFor(snap[b].app, fk)
          THEN Step(b, "row", "secret") /\ CreateBuild(b, snap[b].app)
          ELSE Step(b, "row", "done") /\ UNCHANGED storeVars
    /\ UNCHANGED <<clusterVars, snap, job, secrets, pushed, sized, applied, missed, crashes>>

CreateSecret(b) ==
    /\ \E answer \in KubeAnswers :
          /\ Step(b, "secret", IF answer = "ok" THEN "job" ELSE "fail")
          /\ secrets' = IF TakesEffect(answer) THEN secrets \union {b} ELSE secrets
    /\ UNCHANGED <<storeVars, clusterVars, snap, job, pushed, sized, applied, missed, crashes>>

\* Mutant: the row is left as it is when the Job is refused.
CreateJobOrLeave(b) ==
    /\ \E answer \in KubeAnswers :
          /\ Step(b, "job", IF answer = "ok" THEN "mark" ELSE "done")
          /\ job' = IF TakesEffect(answer) THEN [job EXCEPT ![b] = "active"] ELSE job
    /\ UNCHANGED <<storeVars, clusterVars, snap, secrets, pushed, sized, applied, missed, crashes>>

CreateJob(b) ==
    /\ \E answer \in KubeAnswers :
          /\ Step(b, "job", IF answer = "ok" THEN "mark" ELSE "fail")
          /\ job' = IF TakesEffect(answer) THEN [job EXCEPT ![b] = "active"] ELSE job
    /\ UNCHANGED <<storeVars, clusterVars, snap, secrets, pushed, sized, applied, missed, crashes>>
-----------------------------------------------------------------------------
(***************************************************************************)
(* The watcher.  WriteStatus is an UpdateBuildStatus whose error is        *)
(* dropped: the watcher goes on as if it had written.                      *)
(***************************************************************************)
WriteStatus(b, s, answer) ==
    \/ /\ answer = "ok"
       /\ UpdateBuildStatus(b, s)
       /\ missed' = missed
    \/ /\ answer = "err"
       /\ missed' = missed \union {b}
       /\ UNCHANGED storeVars

MarkRunning(b) ==
    /\ Step(b, "mark", "poll")
    /\ \E answer \in StoreAnswers : WriteStatus(b, "running", answer)
    /\ UNCHANGED <<clusterVars, snap, job, secrets, pushed, sized, applied, crashes>>

\* Mutant: any finished Job counts as a success.
PollFinished(b) ==
    /\ pc[b] = "poll"
    /\ job[b] \in {"complete", "failed"}
    /\ Step(b, "poll", IF RuntimeOf[snap[b].app] = "workerpool" THEN "finish" ELSE "deploy")
    /\ UNCHANGED <<storeVars, clusterVars, snap, job, secrets, pushed, sized, applied, missed, crashes>>

\* Mutant: the runtime is not looked at.
PollCompleteDeploysAll(b) ==
    /\ job[b] = "complete"
    /\ Step(b, "poll", "deploy")
    /\ UNCHANGED <<storeVars, clusterVars, snap, job, secrets, pushed, sized, applied, missed, crashes>>

\* Mutant: nothing is deployed after a build.
PollCompleteDeploysNone(b) ==
    /\ job[b] = "complete"
    /\ Step(b, "poll", "finish")
    /\ UNCHANGED <<storeVars, clusterVars, snap, job, secrets, pushed, sized, applied, missed, crashes>>

\* The poll sees a finished Job; the size marker of the pod's log is optional,
\* and so is its write.  Workerpool images are pulled, never deployed.
PollComplete(b) ==
    /\ job[b] = "complete"
    /\ pc[b] = "poll"
    /\ Step(b, "poll", IF RuntimeOf[snap[b].app] = "workerpool" THEN "finish" ELSE "deploy")
    /\ sized' \in {sized, sized \union {b}}
    /\ UNCHANGED <<storeVars, clusterVars, snap, job, secrets, pushed, applied, missed, crashes>>

\* Mutant: the poll has no deadline.
PollSeesFailure(b) ==
    /\ job[b] \in {"failed", "gone"}
    /\ Step(b, "poll", "fail")
    /\ UNCHANGED <<storeVars, clusterVars, snap, job, secrets, pushed, sized, applied, missed, crashes>>

\* A failed Job, any error of the Get (a finished Job is collected after its
\* TTL), or fifteen minutes since the watch began: each ends the watch, the
\* last two whatever became of the Job meanwhile.
PollGivesUp(b) ==
    /\ Step(b, "poll", "fail")
    /\ UNCHANGED <<storeVars, clusterVars, snap, job, secrets, pushed, sized, applied, missed, crashes>>

\* Deploy with the row of the request's start and a literal replica count.
DeployImage(b) ==
    /\ pc[b] = "deploy"
    /\ \E answer \in KubeAnswers :
          /\ Step(b, "deploy", IF answer = "ok" THEN "ingress" ELSE "fail")
          /\ ApplySpinApp(snap[b], b, 1, answer)
          /\ applied' = IF TakesEffect(answer) THEN applied \union {b} ELSE applied
    /\ UNCHANGED <<storeVars, snap, job, secrets, pushed, sized, missed, crashes>>

ExposeImage(b) ==
    /\ Step(b, "ingress", "finish")
    /\ \E answer \in KubeAnswers : ApplyVirtualService(NameOf[snap[b].app], answer)
    /\ UNCHANGED <<storeVars, snap, job, secrets, pushed, sized, applied, missed, crashes>>

FinishBuild(b) ==
    /\ Step(b, "finish", "done")
    /\ \E answer \in StoreAnswers : WriteStatus(b, "succeeded", answer)
    /\ UNCHANGED <<clusterVars, snap, job, secrets, pushed, sized, applied, crashes>>

\* Mutant: no return after the failure was recorded.
FailBuildAndGoOn(b) ==
    /\ Step(b, "fail", "finish")
    /\ \E answer \in StoreAnswers : WriteStatus(b, "failed", answer)
    /\ UNCHANGED <<clusterVars, snap, job, secrets, pushed, sized, applied, crashes>>

\* Shared by Start and the watcher: every failure after the row exists.
FailBuild(b) ==
    /\ Step(b, "fail", "done")
    /\ \E answer \in StoreAnswers : WriteStatus(b, "failed", answer)
    /\ UNCHANGED <<clusterVars, snap, job, secrets, pushed, sized, applied, crashes>>

Pipeline(b) ==
    \/ InsertBuildRow(b) \/ CreateSecret(b) \/ CreateJob(b)
    \/ MarkRunning(b) \/ PollComplete(b) \/ PollGivesUp(b)
    \/ DeployImage(b) \/ ExposeImage(b) \/ FinishBuild(b) \/ FailBuild(b)
-----------------------------------------------------------------------------
(***************************************************************************)
(* Outside the process: the Job's one pod (backoffLimit 0) builds, pushes  *)
(* and exits, the TTL controller collects the finished Job, and the        *)
(* control plane may die, which ends every request and watcher; nothing at *)
(* startup looks at the builds table.                                      *)
(***************************************************************************)
PodPushes(b) ==
    /\ job[b] = "active"
    /\ b \in secrets \ pushed
    /\ pushed' = pushed \union {b}
    /\ UNCHANGED <<storeVars, clusterVars, pc, snap, job, secrets, sized, applied, missed, crashes>>

JobEnds(b) ==
    /\ \/ job[b] = "active" /\ b \in pushed /\ job' = [job EXCEPT ![b] = "complete"]
       \/ job[b] = "active" /\ job' = [job EXCEPT ![b] = "failed"]
       \/ job[b] \in {"complete", "failed"} /\ job' = [job EXCEPT ![b] = "gone"]
    /\ UNCHANGED <<storeVars, clusterVars, pc, snap, secrets, pushed, sized, applied, missed, crashes>>

Crash ==
    /\ crashes < MaxCrashes
    /\ crashes' = crashes + 1
    /\ pc' = [b \in Build |-> IF pc[b] \in Working THEN "lost" ELSE pc[b]]
    /\ UNCHANGED <<storeVars, clusterVars, snap, job, secrets, pushed, sized, applied, missed>>
-----------------------------------------------------------------------------
(***************************************************************************)
(* What the rest of the control plane may do to the shared state between   *)
(* two steps of a build, one store or cluster call at a time.              *)
(***************************************************************************)
StoreElsewhere ==
    /\ \E a \in App :
          \/ CreateApplication(a)
          \/ \E v \in Vars, r \in Counts : UpdateApplicationConfig(a, v, r)
          \/ \E fk \in ForeignKeys : DeleteApplication(a, fk)
          \/ \E f \in Fn, fk \in ForeignKeys : CreateFunction(a, f, fk)
          \/ \E f \in Fn : DeleteFunction(a, f)
    /\ UNCHANGED <<clusterVars, builderVars>>

ClusterElsewhere ==
    /\ \E a \in App, answer \in KubeAnswers :
          \/ \E v \in Vars, r \in Counts, asked \in Counts, i \in Image :
                ApplySpinApp([app |-> a, vars |-> v, replicas |-> r], i, asked, answer)
          \/ ApplyVirtualService(NameOf[a], answer)
          \/ DeleteSpinApp(NameOf[a], answer)
          \/ DeleteVirtualService(NameOf[a], answer)
    /\ UNCHANGED <<storeVars, builderVars>>

Next ==
    \/ \E b \in Build : Pipeline(b) \/ PodPushes(b) \/ JobEnds(b)
    \/ \E b \in Build, a \in App : LoadForBuild(b, a)
    \/ Crash
    \/ StoreElsewhere
    \/ ClusterElsewhere

Spec == Init /\ [][Next]_vars

\* A started request or watcher is scheduled: goroutines run, calls return,
\* and the deadline ends a poll that nothing else ends.
Fairness == \A b \in Build : WF_vars(Pipeline(b))

FairSpec == Spec /\ Fairness
-----------------------------------------------------------------------------
(***************************************************************************)
(* Properties.                                                             *)
(***************************************************************************)
Settled(b) == status[b] \in Terminal

\* A row says succeeded only of a build whose image is in the registry and,
\* for a spinkube application, was put in a SpinApp by this very build: the
\* Job, the poll, the deploy and the last update happen in four places.
SucceededIsServed ==
    \A b \in Build : status[b] = "succeeded" =>
        /\ b \in pushed
        /\ RuntimeOf[owner[b]] = "spinkube" => b \in applied

\* The watcher deploys only images that are in the registry, whatever the
\* Job's collector, the deadline and failing calls do to its polls.
AppliedIsPushed == applied \subseteq pushed

\* A row that still says pending or running has a request or a watcher that
\* will settle it, unless the process died under it or the very update that
\* would have settled it failed (both are dropped silently by the code).
UnsettledIsAttended ==
    \A b \in Build : status[b] \in {"pending", "running"} =>
        pc[b] \in Working \/ pc[b] = "lost" \/ b \in missed

\* An outcome is written once: UpdateBuildStatus has no guard, so this rests
\* on there being one writer per build, in order.  A row may only vanish.
OutcomeIsFinal ==
    [][\A b \in Build : Settled(b) => status'[b] \in {status[b], "absent"}]_vars

\* No build of a workerpool application reaches the cluster's SpinApps.
WorkerpoolIsNeverApplied ==
    \A b \in applied : RuntimeOf[snap[b].app] = "spinkube"

\* What a reader of the tables sees of all this, and module WorkerPool takes
\* for granted: rows are inserted once, for applications that were loaded
\* before, and get one outcome each.
TablesSpec == StoreInit /\ [][TableStep]_seenVars

\* Every build row settles, or goes with its application, except after a
\* crash or a failed update: the deadline bounds the watch.
EveryBuildSettles ==
    \A b \in Build :
        status[b] = "pending" ~>
            Settled(b) \/ status[b] = "absent" \/ pc[b] = "lost" \/ b \in missed

\* docs/architecture/control-plane.md:83: "On CP startup, any `running`
\* builds are marked `failed`".
RestartFailsRunning ==
    \A b \in Build :
        status[b] = "running" /\ pc[b] = "lost" ~> status[b] \in {"failed", "absent"}

\* The inductive strengthening of the safety properties: where each build
\* stands determines what is known of its row, its Job and its image.
BuildProgress(b) ==
    /\ pc[b] \in {"idle", "row"} => status[b] = "absent" /\ job[b] = "none"
    /\ status[b] # "absent" => owner[b] = snap[b].app
    /\ job[b] = "complete" => b \in pushed
    /\ pc[b] \in {"deploy", "ingress", "finish"} => b \in pushed
    /\ pc[b] \in {"deploy", "ingress"} => RuntimeOf[snap[b].app] = "spinkube"
    /\ pc[b] \in {"ingress", "finish"} /\ RuntimeOf[snap[b].app] = "spinkube" => b \in applied
    /\ b \in applied => /\ pc[b] # "idle"
                        /\ b \in pushed
                        /\ RuntimeOf[snap[b].app] = "spinkube"
    /\ status[b] \in Terminal => pc[b] = "done"
    /\ status[b] = "succeeded" =>
          b \in pushed /\ (RuntimeOf[snap[b].app] = "spinkube" => b \in applied)
    /\ status[b] \in {"pending", "running"} =>
          pc[b] \in Working \/ pc[b] = "lost" \/ b \in missed

BuildInv == TypeOK /\ \A b \in Build : BuildProgress(b)
-----------------------------------------------------------------------------
(***************************************************************************)
(* The builder implements the life cycle that its documentation draws.     *)
(***************************************************************************)
RowState ==
    [b \in Build |-> IF status[b] # "absent" THEN status[b]
                     ELSE IF pc[b] \in {"idle", "row"} THEN "new"
                     ELSE "gone"]

Lifecycle == INSTANCE BuildLifecycle WITH state <- RowState, registry <- pushed

LifecycleSpec == Lifecycle!Spec
=============================================================================
