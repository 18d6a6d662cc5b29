--------------------------- MODULE RolloutProofs ----------------------------
(***************************************************************************)
(* Theorems about Policy and Rollout: what is stored and what is deployed  *)
(* is within the platform's policy, and Ready is not said too early of a   *)
(* Deployment, for any policies, fields, images, pods and polls.           *)
(***************************************************************************)
EXTENDS Rollout, FiniteSetTheorems, TLAPS

USE PolicyAssumption, RolloutAssumption

\* Apply's result is within the policy: policy/resources.go.
LEMMA CleanedWithin ==
  ASSUME NEW p \in ResourcePolicy, NEW res \in Resources, ~Refuses(p, res)
  PROVE  Cleaned(p, res) \in Resources /\ Within(p, Cleaned(p, res))
<1>1. p.mode \in Mode /\ p.caps \in Resources
  BY DEF ResourcePolicy
<1>2. CASE p.mode = "open"
  BY <1>1, <1>2 DEF Cleaned, Within
<1>3. CASE p.mode = "forced"
  BY <1>1, <1>3 DEF Cleaned, Within
<1>4. CASE p.mode = "max"
  <2>1. Cleaned(p, res) = res
    BY <1>4 DEF Cleaned
  <2>2. ASSUME NEW f \in Field
        PROVE  res[f] = Unset \/ p.caps[f] = Unset
               \/ (res[f] \in Nat /\ p.caps[f] \in Nat /\ res[f] <= p.caps[f])
    <3>1. res[f] \in Value /\ p.caps[f] \in Value
      BY <1>1 DEF Resources
    <3>2. ~Fails(res[f], p.caps[f])
      BY <1>4 DEF Refuses
    <3>3. QED
      BY <3>1, <3>2 DEF Fails, Value
  <2>3. QED
    BY <1>4, <2>1, <2>2 DEF Within
<1>5. CASE p.mode = "unknown"
  BY <1>5 DEF Refuses
<1>6. QED
  BY <1>1, <1>2, <1>3, <1>4, <1>5 DEF Mode

\* What the deployer makes of any row is within the policy, as soon as the
\* cluster admits it: deploy.go:71-89.
LEMMA EnforcedWithin ==
  ASSUME NEW p \in ResourcePolicy, NEW res \in Resources, Admitted(Enforced(p, res))
  PROVE  Enforced(p, res) \in Resources /\ Within(p, Enforced(p, res))
<1>1. CASE ~Refuses(p, res)
  BY <1>1, CleanedWithin DEF Enforced
<1>2. CASE Refuses(p, res)
  <2>1. Enforced(p, res) = p.caps /\ p.caps \in Resources /\ p.mode \in Mode
    BY <1>2 DEF Enforced, ResourcePolicy
  <2>2. ASSUME NEW f \in Field
        PROVE  p.caps[f] = Unset \/ (p.caps[f] \in Nat /\ p.caps[f] <= p.caps[f])
    BY <2>1 DEF Admitted, Resources, Value
  <2>3. QED
    BY <2>1, <2>2 DEF Within
<1>3. QED
  BY <1>1, <1>2

\* A row within a policy is what a fresh Apply makes of it.
LEMMA WithinIsFixed ==
  ASSUME NEW p \in ResourcePolicy, NEW res \in Resources,
         Within(p, res), p.mode # "unknown"
  PROVE  Enforced(p, res) = res
<1>1. p.mode \in Mode /\ p.caps \in Resources
  BY DEF ResourcePolicy
<1>2. CASE p.mode = "open"
  BY <1>2 DEF Enforced, Refuses, Cleaned
<1>3. CASE p.mode = "forced"
  BY <1>3 DEF Enforced, Refuses, Cleaned, Within
<1>4. CASE p.mode = "max"
  <2>1. ASSUME NEW f \in Field PROVE ~Fails(res[f], p.caps[f])
    <3>1. \/ res[f] = Unset \/ p.caps[f] = Unset
          \/ (res[f] \in Nat /\ p.caps[f] \in Nat /\ res[f] <= p.caps[f])
      BY <1>4 DEF Within
    <3>2. QED
      BY <3>1 DEF Fails
  <2>2. QED
    BY <1>4, <2>1 DEF Enforced, Refuses, Cleaned
<1>5. QED
  BY <1>1, <1>2, <1>3, <1>4 DEF Mode
-----------------------------------------------------------------------------
\* Nothing is stored, deployed or known at first.
LEMMA InitRolloutInv == Init => RolloutInv
<1>1. Nothing \in Resources
  BY DEF Nothing, Resources, Value
<1>2. Bare(Nothing) \in Answer
  BY <1>1 DEF Bare, Answer
<1>3. SUFFICES ASSUME Init PROVE RolloutInv
  OBVIOUS
<1>4. deploy \in [Image -> [pc : {"unbuilt", "apply", "over"}, res : Resources]]
  BY <1>1, <1>3 DEF Init
<1>5. /\ pods \in [Pod -> [template : Template, ready : BOOLEAN] \union {None}]
      /\ status \in [observed : Nat, replicas : Nat, updated : Nat, available : Nat]
  BY <1>3 DEF Init, NoStatus
<1>6. poll \in [Poll -> [pc : {"idle", "spin", "dep", "answer"}, answer : Answer]]
  BY <1>2, <1>3 DEF Init
<1>7. save \in [pc : {"idle"}, res : Resources, image : Image \union {None}]
  BY <1>1, <1>3 DEF Init
<1>8. TypeOK
  BY <1>1, <1>2, <1>3, <1>4, <1>5, <1>6, <1>7 DEF Init, TypeOK
<1>9. QED
  BY <1>3, <1>7, <1>8 DEF Init, RolloutInv, RowIsClean, ReadyWasComplete

\* A deployment keeps the SpinApp typed, and leaves it within the policy.
LEMMA DeploysTyped ==
  ASSUME TypeOK, NEW i \in Image, NEW res \in Resources, Deploys(i, res)
  PROVE  /\ spin' \in Template \union {None}
         /\ spin' # spin => Within(policy, spin'.res)
<1>1. policy \in ResourcePolicy
  BY DEF TypeOK
<1>2. CASE spin' = spin
  BY <1>2 DEF TypeOK
<1>3. CASE /\ Admitted(Enforced(policy, res))
           /\ spin' = [image |-> i, res |-> Enforced(policy, res)]
  BY <1>1, <1>3, EnforcedWithin DEF Template
<1>4. QED
  BY <1>2, <1>3 DEF Deploys

\* The steps of requests: none touches what is known of the Deployment.
LEMMA RequestStep ==
  ASSUME RolloutInv,
         \/ Save \/ WriteRow \/ ReadImage \/ Redeploy \/ Saved \/ Restart
         \/ \E i \in Image : StartDeploy(i) \/ DeployImage(i)
  PROVE  RolloutInv'
<1>0. TypeOK /\ policy \in ResourcePolicy
  BY DEF RolloutInv, TypeOK
<1>1. UNCHANGED <<dep, status, full>> /\ UNCHANGED cluster
  BY DEF Save, WriteRow, ReadImage, Redeploy, Saved, Restart, StartDeploy, DeployImage, cluster
<1>2. /\ dep' = None => status' = NoStatus
      /\ dep' # None => dep'.generation > 0 /\ status'.observed <= dep'.generation
      /\ ReadyWasComplete'
  BY <1>1 DEF RolloutInv, ReadyWasComplete, ReadyOf, ProgressingOf
<1>3. CASE Save
  <2>1. PICK edit \in Edits :
          LET user == [shown.res EXCEPT ![edit[1]] = edit[2]] IN
          /\ ~Refuses(policy, user)
          /\ save' = [pc |-> "write", res |-> Cleaned(policy, user), image |-> None]
    BY <1>3 DEF Save
  <2>2. [shown.res EXCEPT ![edit[1]] = edit[2]] \in Resources
    BY <1>0 DEF TypeOK, Answer, Resources
  <2>3. save'.res \in Resources /\ Within(policy, save'.res)
    BY <1>0, <2>1, <2>2, CleanedWithin
  <2>4. UNCHANGED <<policy, row, savedUnder, deploy, restarts, spin, cluster, page>>
    BY <1>3 DEF Save
  <2>5. TypeOK'
    BY <1>0, <2>1, <2>3, <2>4 DEF TypeOK, cluster, page
  <2>6. QED
    BY <1>2, <2>3, <2>4, <2>5 DEF RolloutInv, RowIsClean
<1>4. CASE WriteRow
  <2>1. UNCHANGED <<policy, deploy, saves, restarts, spin, cluster, page>>
    BY <1>4 DEF WriteRow
  <2>2. /\ save.pc = "write" /\ save'.pc # "write"
        /\ save' \in [pc : {"idle", "get"}, res : Resources, image : Image \union {None}]
    BY <1>0, <1>4 DEF WriteRow, TypeOK
  <2>3. \/ row' = save.res /\ savedUnder' = policy
        \/ UNCHANGED <<row, savedUnder>>
    BY <1>4 DEF WriteRow
  <2>4. TypeOK'
    BY <1>0, <2>1, <2>2, <2>3 DEF TypeOK, cluster, page
  <2>5. RowIsClean'
    BY <2>2, <2>3 DEF RolloutInv, RowIsClean
  <2>6. QED
    BY <1>2, <2>2, <2>4, <2>5 DEF RolloutInv
<1>5. CASE ReadImage
  <2>1. UNCHANGED <<policy, row, savedUnder, deploy, saves, restarts, spin, cluster, page>>
    BY <1>5 DEF ReadImage
  <2>2. /\ save' \in [pc : {"answer", "apply"}, res : Resources, image : Image \union {None}]
        /\ save'.pc = "apply" => save'.image \in Image
    BY <1>0, <1>5 DEF ReadImage, TypeOK, Template
  <2>3. TypeOK'
    BY <1>0, <2>1, <2>2 DEF TypeOK, cluster, page
  <2>4. QED
    BY <1>2, <2>1, <2>2, <2>3 DEF RolloutInv, RowIsClean
<1>6. CASE Redeploy
  <2>1. UNCHANGED <<policy, row, savedUnder, deploy, saves, restarts, cluster, page>>
    BY <1>6 DEF Redeploy
  <2>2. /\ save' \in [pc : {"answer"}, res : Resources, image : Image \union {None}]
    BY <1>0, <1>6 DEF Redeploy, TypeOK
  <2>3. spin' \in Template \union {None}
    BY <1>0, <1>6, DeploysTyped DEF Redeploy, TypeOK
  <2>4. TypeOK'
    BY <1>0, <2>1, <2>2, <2>3 DEF TypeOK, cluster, page
  <2>5. QED
    BY <1>2, <2>1, <2>2, <2>4 DEF RolloutInv, RowIsClean
<1>7. CASE Saved
  <2>1. UNCHANGED <<policy, row, savedUnder, deploy, saves, restarts, spin, cluster, poll, faults>>
    BY <1>7 DEF Saved
  <2>2. /\ save' \in [pc : {"idle"}, res : Resources, image : Image \union {None}]
        /\ shown' \in Answer
    BY <1>0, <1>7 DEF Saved, TypeOK, Bare, Answer
  <2>3. TypeOK'
    BY <1>0, <2>1, <2>2 DEF TypeOK, cluster
  <2>4. QED
    BY <1>2, <2>1, <2>2, <2>3 DEF RolloutInv, RowIsClean
<1>8. CASE Restart
  <2>1. UNCHANGED <<row, savedUnder, saves, spin, cluster, shown, faults>>
    BY <1>8 DEF Restart
  <2>2. /\ policy' \in Policies
        /\ save' \in [pc : {"idle"}, res : Resources, image : Image \union {None}]
        /\ deploy' \in [Image -> [pc : {"unbuilt", "apply", "over"}, res : Resources]]
        /\ poll' \in [Poll -> [pc : {"idle", "spin", "dep", "answer"}, answer : Answer]]
    <3>1. deploy' \in [Image -> [pc : {"unbuilt", "apply", "over"}, res : Resources]]
      BY SMTT(30), <1>0, <1>8 DEF Restart, TypeOK
    <3>2. poll' \in [Poll -> [pc : {"idle", "spin", "dep", "answer"}, answer : Answer]]
      BY <1>0, <1>8 DEF Restart, TypeOK
    <3>3. save' \in [pc : {"idle"}, res : Resources, image : Image \union {None}]
      BY <1>0, <1>8 DEF Restart, TypeOK
    <3>4. QED
      BY <1>8, <3>1, <3>2, <3>3 DEF Restart
  <2>3. TypeOK'
    BY <1>0, <2>1, <2>2 DEF TypeOK, cluster
  <2>4. QED
    BY <1>2, <2>1, <2>2, <2>3 DEF RolloutInv, RowIsClean
<1>9. ASSUME NEW i \in Image, StartDeploy(i) PROVE RolloutInv'
  <2>1. UNCHANGED <<policy, row, savedUnder, save, saves, restarts, spin, cluster, page>>
    BY <1>9 DEF StartDeploy
  <2>2. deploy' \in [Image -> [pc : {"unbuilt", "apply", "over"}, res : Resources]]
    BY <1>0, <1>9 DEF StartDeploy, TypeOK
  <2>3. TypeOK'
    BY <1>0, <2>1, <2>2 DEF TypeOK, cluster, page
  <2>4. QED
    BY <1>2, <2>1, <2>3 DEF RolloutInv, RowIsClean
<1>10. ASSUME NEW i \in Image, DeployImage(i) PROVE RolloutInv'
  <2>1. UNCHANGED <<policy, row, savedUnder, save, saves, restarts, cluster, page>>
    BY <1>10 DEF DeployImage
  <2>2. deploy' \in [Image -> [pc : {"unbuilt", "apply", "over"}, res : Resources]]
    BY <1>0, <1>10 DEF DeployImage, TypeOK
  <2>3. spin' \in Template \union {None}
    BY <1>0, <1>10, DeploysTyped DEF DeployImage, TypeOK
  <2>4. TypeOK'
    BY <1>0, <2>1, <2>2, <2>3 DEF TypeOK, cluster, page
  <2>5. QED
    BY <1>2, <2>1, <2>4 DEF RolloutInv, RowIsClean
<1>11. QED
  BY <1>3, <1>4, <1>5, <1>6, <1>7, <1>8, <1>9, <1>10

\* The steps of the operator and of the controller: only the controller's own
\* report, of the pods as they are, can complete a Deployment's status.
LEMMA ClusterStep ==
  ASSUME RolloutInv,
         \/ Reconcile \/ Report \/ SyncStatus
         \/ \E p \in Pod : StartPod(p) \/ PodReady(p) \/ StopPod(p)
  PROVE  RolloutInv'
<1>0. TypeOK
  BY DEF RolloutInv
<1>1. UNCHANGED <<request, spin, page>>
  BY DEF Reconcile, Report, SyncStatus, StartPod, PodReady, StopPod
<1>2. RowIsClean' /\ (save'.pc = "write" => Within(policy', save'.res))
  BY <1>1 DEF RolloutInv, RowIsClean, request
<1>3. CASE Reconcile
  <2>1. UNCHANGED <<reported, status, pods>> /\ full' = FALSE /\ spin # None
        /\ dep' = [template   |-> spin,
                   generation |-> IF dep = None THEN 1 ELSE dep.generation + 1]
    BY <1>3 DEF Reconcile
  <2>2. dep' \in [template : Template, generation : Nat]
    BY <1>0, <2>1 DEF TypeOK
  <2>3. TypeOK'
    BY <1>0, <1>1, <2>1, <2>2 DEF TypeOK, request, page
  <2>4. dep' # None
    <3>1. spin \in Template /\ dep'.generation \in Nat
      BY <1>0, <2>1, <2>2 DEF TypeOK
    <3>2. dep' = [template |-> spin, generation |-> dep'.generation]
      BY <2>1
    <3>3. QED
      BY <3>1, <3>2, RolloutAssumption DEF Template
  <2>5. dep'.generation > 0 /\ status'.observed < dep'.generation
    <3>1. CASE dep = None
      BY <2>1, <3>1 DEF RolloutInv, NoStatus
    <3>2. CASE dep # None
      BY <1>0, <2>1, <3>2 DEF RolloutInv, TypeOK
    <3>3. QED
      BY <3>1, <3>2
  <2>6. ~ReadyOf(status', dep'.generation)
    BY <2>5 DEF ReadyOf, ProgressingOf
  <2>7. QED
    BY <1>2, <2>2, <2>3, <2>4, <2>5, <2>6 DEF RolloutInv, ReadyWasComplete, TypeOK
<1>4. CASE Report
  <2>1. UNCHANGED <<dep, status, pods, full>> /\ reported' \in Nat
    BY <1>0, <1>4 DEF Report, TypeOK
  <2>2. TypeOK'
    BY <1>0, <1>1, <2>1 DEF TypeOK, request, page
  <2>3. QED
    BY <1>2, <2>1, <2>2 DEF RolloutInv, ReadyWasComplete, ReadyOf, ProgressingOf
<1>5. CASE SyncStatus
  <2>1. UNCHANGED <<reported, dep, pods>> /\ dep # None
    BY <1>5 DEF SyncStatus
  <2>2. /\ UpToDate \subseteq Running /\ Ready \subseteq Running
        /\ IsFiniteSet(Running) /\ IsFiniteSet(UpToDate) /\ IsFiniteSet(Ready)
    <3>1. UpToDate \subseteq Running /\ Ready \subseteq Running /\ Running \subseteq Pod
      BY DEF UpToDate, Ready, Running
    <3>2. QED
      BY <3>1, FS_Subset, RolloutAssumption
  <2>3. /\ Cardinality(Running) \in Nat
        /\ Cardinality(UpToDate) \in Nat /\ Cardinality(Ready) \in Nat
        /\ Cardinality(UpToDate) <= Cardinality(Running)
        /\ Cardinality(Ready) <= Cardinality(Running)
        /\ Cardinality(UpToDate) = Cardinality(Running) => UpToDate = Running
        /\ Cardinality(Ready) = Cardinality(Running) => Ready = Running
    BY <2>2, FS_Subset, FS_CardinalityType
  <2>4. /\ status' = [observed |-> dep.generation, replicas |-> Cardinality(Running),
                      updated |-> Cardinality(UpToDate), available |-> Cardinality(Ready)]
        /\ full' = (full \/ (Running # {} /\ UpToDate = Running /\ Ready = Running))
    BY <1>5 DEF SyncStatus
  <2>5. TypeOK'
    <3>1. status' \in [observed : Nat, replicas : Nat, updated : Nat, available : Nat]
      BY <1>0, <2>1, <2>3, <2>4 DEF TypeOK
    <3>2. full' \in BOOLEAN
      BY <2>4
    <3>3. QED
      BY <1>0, <1>1, <2>1, <3>1, <3>2 DEF TypeOK, request, page
  <2>6. ReadyOf(status', dep'.generation) => full'
    <3>1. SUFFICES ASSUME ReadyOf(status', dep'.generation)
                   PROVE  Running # {} /\ UpToDate = Running /\ Ready = Running
      BY <2>4
    <3>2. /\ Cardinality(UpToDate) = Cardinality(Running)
          /\ Cardinality(Ready) = Cardinality(Running)
          /\ Cardinality(Running) > 0
      BY <2>3, <2>4, <3>1 DEF ReadyOf, ProgressingOf
    <3>3. Running # {}
      BY SMTT(30), <3>2, FS_EmptySet
    <3>4. QED
      BY <2>3, <3>2, <3>3
  <2>7. dep'.generation > 0 /\ status'.observed <= dep'.generation
    BY <1>0, <2>1, <2>4 DEF RolloutInv, TypeOK
  <2>8. QED
    BY <1>2, <2>1, <2>5, <2>6, <2>7 DEF RolloutInv, ReadyWasComplete
<1>6. ASSUME NEW p \in Pod, StartPod(p) \/ PodReady(p) \/ StopPod(p) PROVE RolloutInv'
  <2>1. UNCHANGED <<reported, dep, status, full>>
    BY <1>6 DEF StartPod, PodReady, StopPod
  <2>2. pods' \in [Pod -> [template : Template, ready : BOOLEAN] \union {None}]
    <3>1. CASE StartPod(p)
      BY <1>0, <3>1 DEF StartPod, TypeOK
    <3>2. CASE PodReady(p)
      <4>1. pods[p] \in [template : Template, ready : BOOLEAN]
        BY <1>0, <3>2 DEF PodReady, TypeOK, Running
      <4>2. [pods[p] EXCEPT !.ready = TRUE] \in [template : Template, ready : BOOLEAN]
        BY <4>1
      <4>3. pods' = [pods EXCEPT ![p] = [pods[p] EXCEPT !.ready = TRUE]]
        BY <3>2 DEF PodReady
      <4>4. QED
        BY <1>0, <4>2, <4>3 DEF TypeOK
    <3>3. CASE StopPod(p)
      BY <1>0, <3>3 DEF StopPod, TypeOK
    <3>4. QED
      BY <1>6, <3>1, <3>2, <3>3
  <2>3. TypeOK'
    BY <1>0, <1>1, <2>1, <2>2 DEF TypeOK, request, page
  <2>4. QED
    BY <1>2, <2>1, <2>3 DEF RolloutInv, ReadyWasComplete, ReadyOf, ProgressingOf
<1>7. QED
  BY <1>3, <1>4, <1>5, <1>6

\* The page's polls read, and change nothing but themselves and what is shown.
LEMMA PollStep ==
  ASSUME RolloutInv, NEW p \in Poll,
         ReadRow(p) \/ ReadSpinApp(p) \/ ReadDeployment(p) \/ Arrive(p)
  PROVE  RolloutInv'
<1>0. TypeOK
  BY DEF RolloutInv
<1>1. UNCHANGED <<request, spin, cluster>>
  BY DEF ReadRow, ReadSpinApp, ReadDeployment, Arrive, PollGoes
<1>2. ASSUME NEW from \in {"idle", "spin", "dep"}, NEW to \in {"spin", "dep", "answer"},
             NEW answer \in Answer, PollGoes(p, from, to, answer)
      PROVE  /\ poll' \in [Poll -> [pc : {"idle", "spin", "dep", "answer"}, answer : Answer]]
             /\ shown' \in Answer
  BY <1>0, <1>2 DEF PollGoes, TypeOK
<1>3. poll[p].answer \in Answer /\ Bare(row) \in Answer
  BY <1>0 DEF TypeOK, Bare, Answer
<1>4. /\ poll' \in [Poll -> [pc : {"idle", "spin", "dep", "answer"}, answer : Answer]]
      /\ shown' \in Answer
  <2>1. CASE ReadRow(p)
    BY <1>2, <1>3, <2>1 DEF ReadRow
  <2>2. CASE ReadSpinApp(p)
    <3>1. spin # None =>
            [poll[p].answer EXCEPT !.image = spin.image, !.ready = (reported >= Replicas)] \in Answer
      <4>1. ASSUME NEW b \in BOOLEAN, spin # None
            PROVE  [poll[p].answer EXCEPT !.image = spin.image, !.ready = b] \in Answer
        BY <1>0, <1>3, <4>1 DEF TypeOK, Template, Answer
      <4>2. (reported >= Replicas) \in BOOLEAN
        BY <1>0, RolloutAssumption DEF TypeOK
      <4>3. QED
        BY <4>1, <4>2, Zenon
    <3>2. QED
      BY <1>2, <1>3, <2>2, <3>1 DEF ReadSpinApp
  <2>3. CASE ReadDeployment(p)
    <3>1. [poll[p].answer EXCEPT !.ready = ReadyOf(status, dep.generation),
                                 !.progressing = ProgressingOf(status, dep.generation)] \in Answer
      BY <1>3 DEF ReadyOf, ProgressingOf, Answer
    <3>2. QED
      BY <1>2, <1>3, <2>3, <3>1 DEF ReadDeployment
  <2>4. CASE Arrive(p)
    BY <1>0, <1>3, <2>4 DEF Arrive, TypeOK
  <2>5. QED
    BY <2>1, <2>2, <2>3, <2>4
<1>5. TypeOK'
  BY <1>0, <1>1, <1>4 DEF TypeOK, request, cluster
<1>6. QED
  BY <1>1, <1>5 DEF RolloutInv, RowIsClean, ReadyWasComplete, ReadyOf, ProgressingOf,
                    request, cluster

LEMMA StepRolloutInv == RolloutInv /\ [Next]_vars => RolloutInv'
<1>1. CASE Next
  BY <1>1, RequestStep, ClusterStep, PollStep DEF Next
<1>2. CASE UNCHANGED vars
  BY <1>2 DEF RolloutInv, TypeOK, RowIsClean, ReadyWasComplete, ReadyOf, ProgressingOf,
              vars, request, cluster, page
<1>3. QED
  BY <1>1, <1>2

\* The inductive invariant of saves, deployments, rollouts and polls.
THEOREM RolloutInvariance == Spec => []RolloutInv
<1>1. QED
  BY InitRolloutInv, StepRolloutInv, PTL DEF Spec

\* applications.go:312-314: every stored row is within the policy it was stored
\* under, across any number of restarts with other policies.
THEOREM RowsAreClean == Spec => []RowIsClean
<1>1. RolloutInv => RowIsClean
  BY DEF RolloutInv
<1>2. QED
  BY <1>1, RolloutInvariance, PTL

\* The same in the words of that comment: a fresh Apply gives the stored values.
THEOREM RowAgreesWithFreshApply ==
  Spec => [](savedUnder # None /\ savedUnder.mode # "unknown" => Enforced(savedUnder, row) = row)
<1>1. RolloutInv =>
        (savedUnder # None /\ savedUnder.mode # "unknown" => Enforced(savedUnder, row) = row)
  <2>1. RolloutInv /\ savedUnder # None => savedUnder \in ResourcePolicy /\ row \in Resources
    BY DEF RolloutInv, TypeOK
  <2>2. QED
    BY <2>1, WithinIsFixed DEF RolloutInv, RowIsClean
<1>2. QED
  BY <1>1, RolloutInvariance, PTL

\* deploy.go:71-74: the SpinApp is within the policy of whoever wrote it.
THEOREM DeploymentsWithinPolicy == Spec => DeployedWithinPolicy
<1>1. RolloutInv /\ [Next]_vars => (spin' # spin => Within(policy, spin'.res))
  <2>1. SUFFICES ASSUME RolloutInv, Next, spin' # spin PROVE Within(policy, spin'.res)
    BY DEF vars
  <2>2. TypeOK
    BY <2>1 DEF RolloutInv
  <2>3. Redeploy \/ \E i \in Image : DeployImage(i)
    BY <2>1 DEF Next, Save, WriteRow, ReadImage, Saved, Restart, StartDeploy, Reconcile, Report,
                SyncStatus, StartPod, PodReady, StopPod, ReadRow, ReadSpinApp, ReadDeployment,
                Arrive, PollGoes
  <2>4. CASE Redeploy
    BY <2>1, <2>2, <2>4, DeploysTyped DEF Redeploy, TypeOK
  <2>5. ASSUME NEW i \in Image, DeployImage(i) PROVE Within(policy, spin'.res)
    BY <2>1, <2>2, <2>5, DeploysTyped DEF DeployImage, TypeOK
  <2>6. QED
    BY <2>3, <2>4, <2>5
<1>2. [][RolloutInv /\ [Next]_vars => (spin' # spin => Within(policy, spin'.res))]_vars
  BY <1>1, PTL
<1>3. QED
  BY <1>1, RolloutInvariance, PTL DEF Spec, DeployedWithinPolicy

\* spinapp.go:196-205: Ready is said of a Deployment only after its rollout was
\* complete.
THEOREM ReadyWasEarned == Spec => []ReadyWasComplete
<1>1. RolloutInv => ReadyWasComplete
  BY DEF RolloutInv
<1>2. QED
  BY <1>1, RolloutInvariance, PTL
=============================================================================
