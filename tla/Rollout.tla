------------------------------ MODULE Rollout -------------------------------
(***************************************************************************)
(* What an application's page saves and what it is then told: the          *)
(* resources of one spinkube application from the form of its page through *)
(* the row and the platform's policy (module Policy) to the SpinApp, the   *)
(* rollout by SpinKube's operator and the Deployment controller, and the   *)
(* way back through the two reads of spinapp.Get and the page's polls.     *)
(* Variables and replica counts travel the same way as in ControlPlane and *)
(* are left out.                                                           *)
(***************************************************************************)
EXTENDS Policy, FiniteSets

CONSTANTS Image,        \* what builds, or POST /deploy, bring to the SpinApp
          Pod,          \* the pods that may exist at a time
          Replicas,     \* the replica count of the row and of the Deployment
          Poll,         \* the polls of the page that may be under way at a time
          None,         \* nothing
          Policies,     \* the policies a process may be started with
          MaxSaves,     \* bound: saves of the page's form
          MaxRestarts,  \* bound: restarts of the control plane
          MaxFaults,    \* bound: reads that fail
          Edits         \* the edits of the form in an instance

ASSUME RolloutAssumption ==
    /\ Policies \subseteq ResourcePolicy
    /\ Replicas \in Nat \ {0}
    /\ IsFiniteSet(Pod)
    /\ None \notin Image \union Resources \union [image : Image, res : Resources]
    /\ None \notin ResourcePolicy
    /\ None \notin [template : [image : Image, res : Resources], generation : Nat]
    /\ Edits \subseteq Field \X Value

VARIABLES policy,     \* of the running process
          row,        \* the resources in the applications table
          savedUnder, \* history: the policy under which the row was last saved
          save,       \* the PATCH of the page's form
          deploy,     \* deploy[i]: how far the deployment of image i is
          spin,       \* the SpinApp
          reported,   \* its status.readyReplicas
          dep,        \* the Deployment that the operator keeps for it
          status,     \* the status of the Deployment
          pods,
          full,       \* history: were all pods ready at once since dep changed?
          poll,       \* the page's polls
          shown,      \* the answer that the page shows
          saves, restarts, faults

request == <<policy, row, savedUnder, save, deploy, saves, restarts>>
cluster == <<reported, dep, status, pods, full>>
page == <<poll, shown, faults>>
vars == <<request, spin, cluster, page>>

Template == [image : Image, res : Resources]
NoStatus == [observed |-> 0, replicas |-> 0, updated |-> 0, available |-> 0]
Answer == [res : Resources, image : Image \union {None}, ready : BOOLEAN, progressing : BOOLEAN]
Bare(res) == [res |-> res, image |-> None, ready |-> FALSE, progressing |-> FALSE]

TypeOK ==
    /\ policy \in Policies /\ savedUnder \in Policies \union {None}
    /\ row \in Resources
    /\ save \in [pc : {"idle", "write", "get", "apply", "answer"},
                 res : Resources, image : Image \union {None}]
    /\ save.pc = "apply" => save.image \in Image
    /\ deploy \in [Image -> [pc : {"unbuilt", "apply", "over"}, res : Resources]]
    /\ spin \in Template \union {None}
    /\ reported \in Nat
    /\ dep \in [template : Template, generation : Nat] \union {None}
    /\ status \in [observed : Nat, replicas : Nat, updated : Nat, available : Nat]
    /\ pods \in [Pod -> [template : Template, ready : BOOLEAN] \union {None}]
    /\ full \in BOOLEAN
    /\ poll \in [Poll -> [pc : {"idle", "spin", "dep", "answer"}, answer : Answer]]
    /\ shown \in Answer

Nothing == [f \in Field |-> Unset]

Init ==
    /\ policy \in Policies
    /\ row = Nothing /\ savedUnder = None
    /\ save = [pc |-> "idle", res |-> Nothing, image |-> None]
    /\ deploy = [i \in Image |-> [pc |-> "unbuilt", res |-> Nothing]]
    /\ spin = None /\ reported = 0
    /\ dep = None /\ status = NoStatus
    /\ pods = [p \in Pod |-> None]
    /\ full = FALSE
    /\ poll = [p \in Poll |-> [pc |-> "idle", answer |-> Bare(Nothing)]]
    /\ shown = Bare(Nothing)
    /\ saves = 0 /\ restarts = 0 /\ faults = 0
-----------------------------------------------------------------------------
(***************************************************************************)
(* saveCfg and PATCH /applications/{appId}.  The form sends all resources, *)
(* those that were not touched as the page shows them, and is closed until *)
(* the answer is there.                                                    *)
(***************************************************************************)
Save ==
    /\ save.pc = "idle" /\ saves < MaxSaves
    /\ saves' = saves + 1
    /\ \E edit \in Edits :
          LET user == [shown.res EXCEPT ![edit[1]] = edit[2]] IN
          /\ ~Refuses(policy, user)
          /\ save' = [pc |-> "write", res |-> Cleaned(policy, user), image |-> None]
    /\ UNCHANGED <<policy, row, savedUnder, deploy, restarts, spin, cluster, page>>

\* An error of the store ends the request.
WriteRow ==
    /\ save.pc = "write"
    /\ \/ /\ row' = save.res /\ savedUnder' = policy
          /\ save' = [save EXCEPT !.pc = "get"]
       \/ /\ save' = [save EXCEPT !.pc = "idle"]
          /\ UNCHANGED <<row, savedUnder>>
    /\ UNCHANGED <<policy, deploy, saves, restarts, spin, cluster, page>>

\* No SpinApp, and a read of it that fails, leave the cluster as it is.
ReadImage ==
    /\ save.pc = "get"
    /\ \/ save' = [save EXCEPT !.pc = "answer"]
       \/ /\ spin # None
          /\ save' = [save EXCEPT !.pc = "apply", !.image = spin.image]
    /\ UNCHANGED <<policy, row, savedUnder, deploy, saves, restarts, spin, cluster, page>>

\* The schema of the SpinApp admits quantities only.
Admitted(res) == \A f \in Field : res[f] # Garbled

\* Deployer.Deploy: whatever the row says, the policy is applied again.  The
\* call may fail, with or without effect.
Deploys(image, res) ==
    \/ spin' = spin
    \/ /\ Admitted(Enforced(policy, res))
       /\ spin' = [image |-> image, res |-> Enforced(policy, res)]

Redeploy ==
    /\ save.pc = "apply"
    /\ Deploys(save.image, save.res)
    /\ save' = [save EXCEPT !.pc = "answer"]
    /\ UNCHANGED <<policy, row, savedUnder, deploy, saves, restarts, cluster, page>>

\* The answer of a PATCH says nothing of the deployment.
Saved ==
    /\ save.pc = "answer"
    /\ save' = [save EXCEPT !.pc = "idle"]
    /\ shown' = Bare(save.res)
    /\ UNCHANGED <<policy, row, savedUnder, deploy, saves, restarts, spin, cluster, poll, faults>>

\* A build, or POST /deploy, takes the row at its start and deploys with it.
StartDeploy(i) ==
    /\ deploy[i].pc = "unbuilt"
    /\ deploy' = [deploy EXCEPT ![i] = [pc |-> "apply", res |-> row]]
    /\ UNCHANGED <<policy, row, savedUnder, save, saves, restarts, spin, cluster, page>>

DeployImage(i) ==
    /\ deploy[i].pc = "apply"
    /\ Deploys(i, deploy[i].res)
    /\ deploy' = [deploy EXCEPT ![i].pc = "over"]
    /\ UNCHANGED <<policy, row, savedUnder, save, saves, restarts, cluster, page>>

\* The policy is read from the environment of a new process; what the old one
\* had under way is lost.
Restart ==
    /\ restarts < MaxRestarts /\ dep = None
    /\ restarts' = restarts + 1
    /\ policy' \in Policies
    /\ save' = [save EXCEPT !.pc = "idle"]
    /\ deploy' = [i \in Image |-> IF deploy[i].pc = "apply"
                                  THEN [deploy[i] EXCEPT !.pc = "over"] ELSE deploy[i]]
    /\ poll' = [p \in Poll |-> [poll[p] EXCEPT !.pc = "idle"]]
    /\ UNCHANGED <<row, savedUnder, saves, spin, cluster, shown, faults>>
-----------------------------------------------------------------------------
(***************************************************************************)
(* The cluster: the operator keeps a Deployment for the SpinApp and copies *)
(* its ready replicas back; the controller starts a pod too many, and      *)
(* stops one that is not of the template as soon as enough others are      *)
(* ready; its status is of the moment it was last written.                 *)
(***************************************************************************)
Reconcile ==
    /\ spin # None /\ (dep # None => dep.template # spin)
    /\ dep' = [template   |-> spin,
               generation |-> IF dep = None THEN 1 ELSE dep.generation + 1]
    /\ full' = FALSE
    /\ UNCHANGED <<request, spin, reported, status, pods, page>>

Report ==
    /\ dep # None
    /\ reported' = status.available
    /\ UNCHANGED <<request, spin, dep, status, pods, full, page>>

Running == {p \in Pod : pods[p] # None}
Ready == {p \in Running : pods[p].ready}
UpToDate == {p \in Running : pods[p].template = dep.template}

StartPod(p) ==
    /\ dep # None /\ pods[p] = None
    /\ Cardinality(UpToDate) < Replicas /\ Cardinality(Running) <= Replicas
    /\ pods' = [pods EXCEPT ![p] = [template |-> dep.template, ready |-> FALSE]]
    /\ UNCHANGED <<request, spin, reported, dep, status, full, page>>

PodReady(p) ==
    /\ p \in Running \ Ready
    /\ pods' = [pods EXCEPT ![p].ready = TRUE]
    /\ UNCHANGED <<request, spin, reported, dep, status, full, page>>

StopPod(p) ==
    /\ p \in Running \ UpToDate
    /\ p \in Ready => Cardinality(Ready) > Replicas
    /\ pods' = [pods EXCEPT ![p] = None]
    /\ UNCHANGED <<request, spin, reported, dep, status, full, page>>

SyncStatus ==
    /\ dep # None
    /\ status' = [observed |-> dep.generation,
                  replicas |-> Cardinality(Running),
                  updated |-> Cardinality(UpToDate),
                  available |-> Cardinality(Ready)]
    /\ full' = (full \/ (Running # {} /\ UpToDate = Running /\ Ready = Running))
    /\ UNCHANGED <<request, spin, reported, dep, pods, page>>
-----------------------------------------------------------------------------
(***************************************************************************)
(* getApplication and the page's polls: the row, then spinapp.Get's two    *)
(* reads, then the answer, which arrives when it does.                     *)
(***************************************************************************)
\* Mutant: a status of an earlier generation is taken for the present one's.
ProgressingOfAnyAge(s, generation) == s.updated < s.replicas \/ s.available < s.replicas

\* Mutant: one pod too many is asked for.
ProgressingAtLevel(s, generation) ==
    s.updated < s.replicas \/ s.available <= s.replicas \/ s.observed < generation

ProgressingOf(s, generation) ==
    s.updated < s.replicas \/ s.available < s.replicas \/ s.observed < generation

ReadyOf(s, generation) ==
    ~ProgressingOf(s, generation) /\ s.replicas > 0 /\ s.available >= s.replicas

PollGoes(p, from, to, answer) ==
    /\ poll[p].pc = from
    /\ poll' = [poll EXCEPT ![p] = [pc |-> to, answer |-> answer]]
    /\ UNCHANGED <<request, spin, cluster, shown>>

ReadRow(p) == PollGoes(p, "idle", "spin", Bare(row)) /\ faults' = faults

\* statusFrom; an error is logged and the answer has no deployment.
ReadSpinApp(p) ==
    \/ /\ spin # None
       /\ PollGoes(p, "spin", "dep", [poll[p].answer EXCEPT !.image = spin.image,
                                                            !.ready = (reported >= Replicas)])
       /\ faults' = faults
    \/ /\ spin = None
       /\ PollGoes(p, "spin", "answer", poll[p].answer) /\ faults' = faults
    \/ /\ faults < MaxFaults /\ faults' = faults + 1
       /\ PollGoes(p, "spin", "answer", poll[p].answer)

\* Without a Deployment, or without an answer, the SpinApp's word stands.
ReadDeployment(p) ==
    \/ /\ dep # None
       /\ PollGoes(p, "dep", "answer",
                   [poll[p].answer EXCEPT !.ready = ReadyOf(status, dep.generation),
                                          !.progressing = ProgressingOf(status, dep.generation)])
       /\ faults' = faults
    \/ /\ dep = None
       /\ PollGoes(p, "dep", "answer", poll[p].answer) /\ faults' = faults
    \/ /\ faults < MaxFaults /\ faults' = faults + 1
       /\ PollGoes(p, "dep", "answer", poll[p].answer)

Arrive(p) ==
    /\ poll[p].pc = "answer"
    /\ shown' = poll[p].answer
    /\ poll' = [poll EXCEPT ![p].pc = "idle"]
    /\ UNCHANGED <<request, spin, cluster, faults>>
-----------------------------------------------------------------------------
Next ==
    \/ Save \/ WriteRow \/ ReadImage \/ Redeploy \/ Saved \/ Restart
    \/ \E i \in Image : StartDeploy(i) \/ DeployImage(i)
    \/ Reconcile \/ Report \/ SyncStatus
    \/ \E p \in Pod : StartPod(p) \/ PodReady(p) \/ StopPod(p)
    \/ \E p \in Poll : ReadRow(p) \/ ReadSpinApp(p) \/ ReadDeployment(p) \/ Arrive(p)

Spec == Init /\ [][Next]_vars

\* Handlers go on, the operator and the controller do their work, pods become
\* ready, the page polls every five seconds and its answers arrive.
Fairness ==
    /\ WF_vars(WriteRow \/ ReadImage \/ Redeploy \/ Saved)
    /\ \A i \in Image : WF_vars(DeployImage(i))
    /\ WF_vars(Reconcile) /\ WF_vars(Report) /\ WF_vars(SyncStatus)
    /\ \A p \in Pod : WF_vars(StartPod(p)) /\ WF_vars(PodReady(p)) /\ WF_vars(StopPod(p))
    /\ \A p \in Poll : WF_vars(ReadRow(p) \/ ReadSpinApp(p) \/ ReadDeployment(p) \/ Arrive(p))

FairSpec == Spec /\ Fairness
-----------------------------------------------------------------------------
(***************************************************************************)
(* Properties.                                                             *)
(***************************************************************************)

\* policy/resources.go:6-19 and deploy.go:71-74: whatever was stored under an
\* earlier policy, and whoever deploys it, the SpinApp that a deployment leaves
\* behind is within the policy of the process that made it.
DeployedWithinPolicy == [][spin' # spin => Within(policy, spin'.res)]_vars

\* applications.go:312-314: "the stored state always agrees with what a fresh
\* Apply would produce", of the policy under which it was stored.
RowIsClean == savedUnder # None => Within(savedUnder, row)

\* spinapp.go:196-205: Ready and not progressing is said of a Deployment only
\* after all of its pods ran its template, and were ready, at one time.
ReadyWasComplete ==
    dep # None /\ ReadyOf(status, dep.generation) => full

\* The inductive strengthening: what a handler is about to store is within the
\* policy of the process that runs it, and a status that is not of an earlier
\* generation was written when dep was what it is.
RolloutInv ==
    /\ TypeOK
    /\ RowIsClean
    /\ save.pc = "write" => Within(policy, save.res)
    /\ dep = None => status = NoStatus
    /\ dep # None => dep.generation > 0 /\ status.observed <= dep.generation
    /\ ReadyWasComplete

\* Once saves and deployments have come to an end, so does the rollout, and the
\* page shows it: the stored values, the deployed image, ready and nothing else.
PageCatchesUp ==
    <>[](shown.res = row /\ (spin # None => /\ shown.image = spin.image
                                           /\ shown.ready /\ ~shown.progressing))
=============================================================================
