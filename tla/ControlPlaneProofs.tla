-------------------------- MODULE ControlPlaneProofs --------------------------
(***************************************************************************)
(* Theorems about ControlPlane: its handlers stay within what module       *)
(* Builder lets the rest of the control plane do, so that what is proved   *)
(* of builds holds among any number of requests, and no SpinApp carries an *)
(* image that was built for another name.  With one client at a time and   *)
(* no faults, store and cluster agree and the latest success is deployed.  *)
(***************************************************************************)
EXTENDS ControlPlane, BuilderProofs, FiniteSetTheorems

LEMMA CountsAreNatural == Counts \subseteq Nat
  BY BuilderAssumption DEF Counts

\* A clamped count of a client's is a count of a client's or one.
LEMMA ClampedCounts == \A n \in Counts : Clamp(n) \in Counts
  BY DEF Clamp, Counts

\* What the handlers' own state is like after a step of theirs that leaves the
\* rest alone: the arrival of a request, a read, a count.
LEMMA RequestWritten ==
  ASSUME CPInv, NEW r \in Req, NEW q \in Request, UNCHANGED vars,
         req' = [req EXCEPT ![r] = q],
         q.asked \in Counts, q.snap.replicas \in Counts,
         q.pc = "apply" => /\ q.image \in Image
                           /\ CallerImages \intersect Build = {} =>
                                 BuiltFor(q.image, NameOf[q.snap.app])
  PROVE  CPInv'
<1>1. /\ UNCHANGED <<app, spin, pc, snap>> /\ TypeOK'
  BY NextTyped DEF CPInv, CPTypeOK, vars, storeVars, clusterVars, builderVars
<1>2. CPTypeOK'
  BY <1>1 DEF CPInv, CPTypeOK
<1>3. ASSUME NEW x \in Req, req'[x] # Waiting PROVE RequestInv(x)'
  BY <1>3 DEF CPInv, CPTypeOK, RequestInv, At
<1>4. ASSUME CallerImages \intersect Build = {} PROVE NamesAgree'
  <2>1. ASSUME NEW x \in Req, req'[x].pc = "apply"
        PROVE  BuiltFor(req'[x].image, NameOf[req'[x].snap.app])
    BY <2>1, <1>4 DEF CPInv, CPTypeOK, NamesAgree, At, AppOf, TargetName
  <2>2. QED
    BY <1>1, <1>4, <2>1 DEF CPInv, NamesAgree, BuiltFor, At, AppOf, TargetName, Exists
<1>5. QED
  BY <1>1, <1>2, <1>3, <1>4 DEF CPInv

\* Where a handler's pc may go, but to the apply of an image.
Onward == {"insert", "default", "undo", "undeploy", "unexpose", "drop", "write", "get",
          "ingress", "addfn", "count", "delfn", "done", "refused", "lost"}

\* A request in service, and the moves of its pc.
LEMMA RequestMoved ==
  ASSUME CPInv, NEW r \in Req, req[r] # Waiting,
         NEW to \in Onward,
         Goto(r, to)
  PROVE  /\ req[r] \in Request /\ AppOf(r) \in App
         /\ req' \in [Req -> Request \union {Waiting}]
         /\ \A x \in Req : x # r => req'[x] = req[x]
         /\ req'[r] = [req[r] EXCEPT !.pc = to]
         /\ \A x \in Req : req'[x] # Waiting => req[x] # Waiting /\ RequestInv(x)'
         /\ \A x \in Req : req'[x].pc = "apply" =>
               req[x].pc = "apply" /\ req'[x].image = req[x].image /\ req'[x].snap = req[x].snap
<1>1. req[r] \in Request
  BY DEF CPInv, CPTypeOK
<1>2. req[r].snap \in Snapshot /\ AppOf(r) \in App
  BY <1>1 DEF Request, Snapshot, AppOf
<1>3. /\ req'[r] = [req[r] EXCEPT !.pc = to]
      /\ \A x \in Req : x # r => req'[x] = req[x]
  BY DEF Goto, CPInv, CPTypeOK
<1>4. [req[r] EXCEPT !.pc = to] \in Request
  BY <1>1 DEF Request, Onward
<1>5. req' \in [Req -> Request \union {Waiting}]
  BY <1>4 DEF Goto, CPInv, CPTypeOK
<1>6. ASSUME NEW x \in Req, req'[x] # Waiting PROVE req[x] # Waiting /\ RequestInv(x)'
  <2>1. CASE x = r
    BY <1>1, <1>3, <2>1, <1>6 DEF CPInv, RequestInv, At, Counts, Request, Onward
  <2>2. CASE x # r
    BY <1>3, <2>2, <1>6 DEF CPInv, RequestInv, At, Counts
  <2>3. QED
    BY <2>1, <2>2
<1>7. ASSUME NEW x \in Req, req'[x].pc = "apply"
      PROVE  req[x].pc = "apply" /\ req'[x].image = req[x].image /\ req'[x].snap = req[x].snap
  BY <1>1, <1>3, <1>7 DEF Request, Onward
<1>8. QED
  BY <1>1, <1>2, <1>3, <1>5, <1>6, <1>7

\* A call of a handler keeps the invariant if it keeps the rows' counts and
\* leaves in the SpinApps images of their names.
LEMMA CallKeeps ==
  ASSUME CPInv, NEW r \in Req, req[r] # Waiting, NEW to \in Onward, Goto(r, to),
         TypeOK', \A a \in App : app'[a].replicas \in Counts, UNCHANGED builderVars,
         NamesAgree => \A n \in Names : Exists(n)' => BuiltFor(spin'[n].image, n)
  PROVE  CPInv'
<1>1. UNCHANGED <<pc, snap>>
  BY DEF builderVars
<1>2. CPTypeOK' /\ \A x \in Req : req'[x] # Waiting => RequestInv(x)'
  BY RequestMoved DEF CPTypeOK
<1>3. ASSUME CallerImages \intersect Build = {} PROVE NamesAgree'
  <2>1. NamesAgree
    BY <1>3 DEF CPInv
  <2>2. ASSUME NEW x \in Req, req'[x].pc = "apply"
        PROVE  BuiltFor(req[x].image, NameOf[req[x].snap.app])
               /\ req'[x].image = req[x].image /\ req'[x].snap = req[x].snap
    BY <2>1, <2>2, RequestMoved DEF NamesAgree, At, AppOf, TargetName
  <2>3. ASSUME NEW n \in Names, Exists(n)' PROVE BuiltFor(spin[n].image, n)'
    BY <1>1, <2>1, <2>3 DEF BuiltFor
  <2>4. QED
    BY <1>1, <2>2, <2>3 DEF NamesAgree, BuiltFor, At, AppOf, TargetName
<1>4. QED
  BY <1>2, <1>3 DEF CPInv, Counts

\* A row as a handler loads it.
LEMMA LoadedRow ==
  ASSUME CPInv, NEW a \in App
  PROVE  Row(a) \in Snapshot /\ Row(a).app = a /\ Row(a).replicas \in Counts
  BY DEF CPInv, CPTypeOK, TypeOK, StoreTypeOK, Application, Row, Snapshot

\* What a request looks like when it arrives, before its first call.
LEMMA Openings ==
  ASSUME NEW op \in Operations, NEW s \in Snapshot,
         NEW pc0 \in {"insert", "undeploy", "drop", "write", "addfn", "count", "apply"}
  PROVE  Opening(op, pc0, s) \in Request
  BY StoreAssumption DEF Opening, Request

\* Clients' operations begin with a load and change nothing but the request.
LEMMA ArrivalKeeps ==
  ASSUME CPInv, NEW r \in Req, Arrival(r)
  PROVE  UNCHANGED vars /\ CPInv'
<1>0. PICK a \in App :
        \/ BeginCreate(r, a)
        \/ BeginDelete(r, a)
        \/ \E v \in Vars \union {Omitted}, n \in Replicas \union {Omitted} : BeginPatch(r, a, v, n)
        \/ \E i \in CallerImages, n \in Replicas : BeginDeploy(r, a, i, n)
        \/ \E op \in Ops, f \in Fn : BeginFunctionOp(r, a, op, f)
  BY DEF Arrival
<1>1. UNCHANGED vars
  BY <1>0 DEF BeginCreate, BeginDelete, BeginPatch, BeginDeploy, BeginFunctionOp
<1>2. Row(a) \in Snapshot /\ Row(a).app = a /\ Row(a).replicas \in Counts
  BY LoadedRow
<1>3. 0 \in Counts /\ 1 \in Counts
  BY DEF Counts
<1>4. CASE BeginCreate(r, a)
  <2> DEFINE s == [app |-> a, vars |-> NoVars, replicas |-> 1]
             q == Opening("create", "insert", s)
  <2>1. s \in Snapshot
    BY StoreAssumption DEF Snapshot
  <2>2. q \in Request /\ q.asked = 0 /\ q.snap.replicas = 1 /\ q.pc # "apply"
    BY <2>1, Openings DEF Opening, Operations
  <2>3. req' = [req EXCEPT ![r] = q]
    BY <1>4 DEF BeginCreate, Begin
  <2>4. QED
    BY <1>1, <1>3, <2>2, <2>3, RequestWritten
<1>5. CASE BeginDelete(r, a)
  <2> DEFINE pc0 == IF RuntimeOf[a] = "workerpool" THEN "drop" ELSE "undeploy"
             q == Opening("delete", pc0, Row(a))
  <2>1. pc0 \in {"drop", "undeploy"}
    OBVIOUS
  <2>2. q \in Request /\ q.asked = 0 /\ q.snap = Row(a) /\ q.pc = pc0
    BY <1>2, <2>1, Openings DEF Opening, Operations
  <2>3. req' = [req EXCEPT ![r] = q]
    BY <1>5 DEF BeginDelete, Begin
  <2>4. QED
    BY <1>1, <1>2, <1>3, <2>1, <2>2, <2>3, RequestWritten
<1>6. ASSUME NEW v \in Vars \union {Omitted}, NEW n \in Replicas \union {Omitted},
             BeginPatch(r, a, v, n)
      PROVE  CPInv'
  <2> DEFINE s == [app |-> a,
                   vars |-> IF v = Omitted THEN app[a].vars ELSE v,
                   replicas |-> IF n = Omitted THEN app[a].replicas ELSE n]
             keeps == {k \in {"vars", "replicas"} : IF k = "vars" THEN v = Omitted ELSE n = Omitted}
             q == [Opening("patch", "write", s) EXCEPT !.keeps = keeps]
  <2>1. app[a].vars \in Vars /\ app[a].replicas \in Counts
    BY DEF CPInv, CPTypeOK, TypeOK, StoreTypeOK, Application
  <2>2. s.replicas \in Counts /\ s \in Snapshot
    BY <2>1, CountsAreNatural DEF Counts, Snapshot
  <2>3. Opening("patch", "write", s) \in Request
    BY <2>2, Openings DEF Operations
  <2>4. q \in Request /\ q.asked = 0 /\ q.snap = s /\ q.pc = "write"
    <3>1. keeps \in SUBSET {"vars", "replicas"}
      OBVIOUS
    <3>2. QED
      BY <2>3, <3>1 DEF Request, Opening
  <2>5. req' = [req EXCEPT ![r] = q]
    BY <1>6 DEF BeginPatch, Begin
  <2>6. QED
    BY <1>1, <1>3, <2>2, <2>4, <2>5, RequestWritten
<1>7. ASSUME NEW i \in CallerImages, NEW n \in Replicas, BeginDeploy(r, a, i, n)
      PROVE  CPInv'
  <2> DEFINE q == [Opening("deploy", "apply", Row(a)) EXCEPT !.image = i, !.asked = Clamp(n)]
  <2>1. i \in Image /\ Clamp(n) \in Counts /\ Clamp(n) \in Nat
    BY BuilderAssumption, ClampedCounts, CountsAreNatural DEF Counts
  <2>2. Opening("deploy", "apply", Row(a)) \in Request
    BY <1>2, Openings DEF Operations
  <2>3. q \in Request /\ q.asked = Clamp(n) /\ q.snap = Row(a) /\ q.image = i
    BY <2>1, <2>2 DEF Request, Opening
  <2>4. req' = [req EXCEPT ![r] = q]
    BY <1>7 DEF BeginDeploy, Begin
  <2>5. CallerImages \intersect Build = {} => BuiltFor(i, NameOf[a])
    BY DEF BuiltFor
  <2>6. QED
    BY <1>1, <1>2, <2>1, <2>3, <2>4, <2>5, RequestWritten
<1>8. ASSUME NEW op \in Ops, NEW f \in Fn, BeginFunctionOp(r, a, op, f)
      PROVE  CPInv'
  <2> DEFINE pc0 == IF op = "addfn" THEN "addfn" ELSE "count"
             q == [Opening(op, pc0, Row(a)) EXCEPT !.fn = f]
  <2>1. op \in Operations /\ pc0 \in {"addfn", "count"}
    BY ControlPlaneAssumption
  <2>2. Opening(op, pc0, Row(a)) \in Request
    BY <1>2, <2>1, Openings
  <2>3. q \in Request /\ q.asked = 0 /\ q.snap = Row(a) /\ q.pc = pc0
    BY <2>2 DEF Request, Opening
  <2>4. req' = [req EXCEPT ![r] = q]
    BY <1>8 DEF BeginFunctionOp, Begin
  <2>5. QED
    BY <1>1, <1>2, <1>3, <2>1, <2>3, <2>4, RequestWritten
<1>9. QED
  BY <1>0, <1>1, <1>4, <1>5, <1>6, <1>7, <1>8

\* Whoever has a pc other than "waiting" is a request in service.
LEMMA InService ==
  ASSUME CPInv, NEW r \in Req, req[r].pc # "waiting"
  PROVE  /\ req[r] \in Request /\ req[r] # Waiting /\ RequestInv(r)
         /\ AppOf(r) \in App /\ req[r].fn \in Fn /\ req[r].snap \in Snapshot
         /\ req[r].snap.vars \in Vars /\ req[r].snap.replicas \in Counts
         /\ req[r].asked \in Counts
<1>1. req[r] # Waiting
  BY DEF Waiting
<1>2. req[r] \in Request /\ RequestInv(r)
  BY <1>1 DEF CPInv, CPTypeOK
<1>3. QED
  BY <1>1, <1>2 DEF Request, Snapshot, AppOf, RequestInv

\* The statements of the handlers are those that Builder lets others make.
StoreCall(r) ==
    \/ InsertApplication(r) \/ InsertDefaultFunction(r) \/ UndoCreate(r)
    \/ FinishDelete(r) \/ WriteConfig(r) \/ InsertFunction(r) \/ RemoveFunction(r)

LEMMA StoreCallIsElsewhere ==
  ASSUME CPInv, NEW r \in Req, StoreCall(r)
  PROVE  /\ req[r] # Waiting
         /\ \E to \in Onward : Goto(r, to)
         /\ StoreElsewhere \/ UNCHANGED vars
         /\ \A a \in App : app'[a].replicas \in Counts
         /\ UNCHANGED <<clusterVars, builderVars>>
<1>0. req[r].pc # "waiting"
  BY DEF StoreCall, InsertApplication, InsertDefaultFunction, UndoCreate, FinishDelete,
         WriteConfig, InsertFunction, RemoveFunction, At
<1>1. /\ req[r] # Waiting /\ AppOf(r) \in App /\ req[r].fn \in Fn
      /\ req[r].snap.vars \in Vars /\ req[r].snap.replicas \in Counts
  BY <1>0, InService
<1>2. UNCHANGED <<clusterVars, builderVars>>
  BY DEF StoreCall, InsertApplication, InsertDefaultFunction, UndoCreate, FinishDelete,
         WriteConfig, InsertFunction, RemoveFunction
<1>3. ASSUME UNCHANGED storeVars
      PROVE  UNCHANGED vars /\ \A a \in App : app'[a].replicas \in Counts
  BY <1>2, <1>3 DEF vars, storeVars, CPInv, Counts
<1>4. app \in [App -> Application] /\ \A a \in App : app[a].replicas \in Counts
  BY DEF CPInv, CPTypeOK, TypeOK, StoreTypeOK
<1>5. CASE InsertApplication(r)
  <2>1. CASE CreateApplication(AppOf(r)) /\ Goto(r, "default")
    <3>1. StoreElsewhere
      BY <1>1, <1>2, <2>1 DEF StoreElsewhere
    <3>2. \A a \in App : app'[a].replicas \in Counts
      BY <1>1, <1>4, <2>1 DEF CreateApplication, Application
    <3>3. QED
      BY <1>1, <1>2, <2>1, <3>1, <3>2 DEF Onward
  <2>2. CASE UNCHANGED storeVars /\ Goto(r, "refused")
    BY <1>1, <1>2, <1>3, <2>2 DEF Onward
  <2>3. QED
    BY <1>5, <2>1, <2>2 DEF InsertApplication
<1>6. CASE \E fk \in ForeignKeys, answer \in StoreAnswers, whenNot \in {"undo", "refused"} :
             InsertFn(r, fk, answer, whenNot)
  <2>1. PICK fk \in ForeignKeys, answer \in StoreAnswers, whenNot \in {"undo", "refused"} :
             InsertFn(r, fk, answer, whenNot)
    BY <1>6
  <2>2. CASE CreateFunction(AppOf(r), req[r].fn, fk) /\ Goto(r, "done")
    <3>1. StoreElsewhere
      BY <1>1, <1>2, <2>2 DEF StoreElsewhere
    <3>2. \A a \in App : app'[a].replicas \in Counts
      BY <1>4, <2>2 DEF CreateFunction, Counts
    <3>3. QED
      BY <1>1, <1>2, <2>2, <3>1, <3>2 DEF Onward
  <2>3. CASE UNCHANGED storeVars /\ Goto(r, whenNot)
    BY <1>1, <1>2, <1>3, <2>3 DEF Onward
  <2>4. QED
    BY <2>1, <2>2, <2>3 DEF InsertFn
<1>7. CASE \E whenOk \in {"done", "refused"} : DropRow(r, whenOk, "refused")
  <2>1. PICK whenOk \in {"done", "refused"}, fk \in ForeignKeys :
          \/ DeleteApplication(AppOf(r), fk) /\ Goto(r, whenOk)
          \/ UNCHANGED storeVars /\ Goto(r, "refused")
    BY <1>7 DEF DropRow
  <2>2. CASE DeleteApplication(AppOf(r), fk) /\ Goto(r, whenOk)
    <3>1. StoreElsewhere
      BY <1>1, <1>2, <2>2 DEF StoreElsewhere
    <3>2. \A a \in App : app'[a].replicas \in Counts
      BY <1>1, <1>4, <2>2 DEF DeleteApplication, Application
    <3>3. QED
      BY <1>1, <1>2, <2>2, <3>1, <3>2 DEF Onward
  <2>3. CASE UNCHANGED storeVars /\ Goto(r, "refused")
    BY <1>1, <1>2, <1>3, <2>3 DEF Onward
  <2>4. QED
    BY <2>1, <2>2, <2>3
<1>8. CASE WriteConfig(r)
  <2>1. \/ /\ UpdateApplicationConfig(AppOf(r), req[r].snap.vars, req[r].snap.replicas)
           /\ \E to \in {"done", "get"} : Goto(r, to)
        \/ UNCHANGED storeVars /\ Goto(r, "refused")
    BY <1>8 DEF WriteConfig
  <2>2. CASE /\ UpdateApplicationConfig(AppOf(r), req[r].snap.vars, req[r].snap.replicas)
             /\ \E to \in {"done", "get"} : Goto(r, to)
    <3>1. StoreElsewhere
      BY <1>1, <1>2, <2>2 DEF StoreElsewhere
    <3>2. \A a \in App : app'[a].replicas \in Counts
      <4>1. Clamp(req[r].snap.replicas) \in Counts
        BY <1>1, ClampedCounts
      <4>2. QED
        BY <1>1, <1>4, <2>2, <4>1 DEF UpdateApplicationConfig, Application
    <3>3. QED
      BY <1>1, <1>2, <2>2, <3>1, <3>2 DEF Onward
  <2>3. CASE UNCHANGED storeVars /\ Goto(r, "refused")
    BY <1>1, <1>2, <1>3, <2>3 DEF Onward
  <2>4. QED
    BY <2>1, <2>2, <2>3
<1>9. CASE RemoveFunction(r)
  <2>1. \/ DeleteFunction(AppOf(r), req[r].fn) /\ Goto(r, "done")
        \/ UNCHANGED storeVars /\ Goto(r, "refused")
    BY <1>9 DEF RemoveFunction
  <2>2. CASE DeleteFunction(AppOf(r), req[r].fn) /\ Goto(r, "done")
    <3>1. StoreElsewhere
      BY <1>1, <1>2, <2>2 DEF StoreElsewhere
    <3>2. \A a \in App : app'[a].replicas \in Counts
      BY <1>4, <2>2 DEF DeleteFunction, Counts
    <3>3. QED
      BY <1>1, <1>2, <2>2, <3>1, <3>2 DEF Onward
  <2>3. CASE UNCHANGED storeVars /\ Goto(r, "refused")
    BY <1>1, <1>2, <1>3, <2>3 DEF Onward
  <2>4. QED
    BY <2>1, <2>2, <2>3
<1>10. QED
  BY <1>5, <1>6, <1>7, <1>8, <1>9
     DEF StoreCall, InsertDefaultFunction, UndoCreate, FinishDelete, InsertFunction

LEMMA StoreCallKeeps ==
  ASSUME CPInv, NEW r \in Req, StoreCall(r)
  PROVE  [Next]_vars /\ CPInv'
<1>1. [Next]_vars
  BY StoreCallIsElsewhere DEF Next
<1>2. TypeOK'
  BY <1>1, NextTyped DEF CPInv, CPTypeOK
<1>3. NamesAgree => \A n \in Names : Exists(n)' => BuiltFor(spin'[n].image, n)
  BY StoreCallIsElsewhere DEF NamesAgree, clusterVars, Exists
<1>4. QED
  BY <1>1, <1>2, <1>3, StoreCallIsElsewhere, CallKeeps

-----------------------------------------------------------------------------
(***************************************************************************)
(* The calls that handlers make of the cluster.                            *)
(***************************************************************************)
ClusterCall(r) == Undeploy(r) \/ Unexpose(r) \/ ApplyForRequest(r) \/ ExposeForRequest(r)

LEMMA ClusterCallIsElsewhere ==
  ASSUME CPInv, NEW r \in Req, ClusterCall(r)
  PROVE  /\ req[r] # Waiting
         /\ \E to \in Onward : Goto(r, to)
         /\ ClusterElsewhere
         /\ NamesAgree => \A n \in Names : Exists(n)' => BuiltFor(spin'[n].image, n)
<1>0. req[r].pc # "waiting"
  BY DEF ClusterCall, Undeploy, Unexpose, ApplyForRequest, ExposeForRequest, At
<1>1. /\ req[r] # Waiting /\ req[r] \in Request /\ AppOf(r) \in App /\ RequestInv(r)
      /\ req[r].snap \in Snapshot /\ req[r].snap.vars \in Vars
      /\ req[r].snap.replicas \in Counts /\ req[r].asked \in Counts
  BY <1>0, InService
<1>2. UNCHANGED <<storeVars, builderVars>>
  BY DEF ClusterCall, Undeploy, Unexpose, ApplyForRequest, ExposeForRequest
<1>3. spin \in [Names -> SpinApp \union {NoSpinApp}]
  BY DEF CPInv, CPTypeOK, TypeOK, DeployerTypeOK
<1>4. CASE Undeploy(r)
  <2>1. PICK answer \in KubeAnswers :
          /\ DeleteSpinApp(TargetName(r), answer)
          /\ Goto(r, IF answer = "ok" THEN "unexpose" ELSE "refused")
    BY <1>4 DEF Undeploy
  <2>2. ClusterElsewhere
    BY <1>1, <1>2, <2>1 DEF ClusterElsewhere, TargetName
  <2>3. ASSUME NamesAgree, NEW n \in Names, Exists(n)' PROVE BuiltFor(spin'[n].image, n)
    BY <1>3, <2>1, <2>3 DEF DeleteSpinApp, Exists, NamesAgree
  <2>4. QED
    BY <1>1, <2>1, <2>2, <2>3 DEF Onward
<1>5. CASE Unexpose(r)
  <2>1. PICK answer \in KubeAnswers : DeleteVirtualService(TargetName(r), answer)
    BY <1>5 DEF Unexpose
  <2>2. ClusterElsewhere
    BY <1>1, <1>2, <2>1 DEF ClusterElsewhere, TargetName
  <2>3. QED
    BY <1>1, <1>5, <2>1, <2>2 DEF Unexpose, DeleteVirtualService, Exists, NamesAgree, Onward
<1>6. CASE ApplyForRequest(r)
  <2>1. PICK answer \in KubeAnswers :
          /\ ApplySpinApp(req[r].snap, req[r].image, req[r].asked, answer)
          /\ Goto(r, IF answer = "ok" THEN "ingress"
                     ELSE IF req[r].op = "patch" THEN "done" ELSE "refused")
    BY <1>6 DEF ApplyForRequest
  <2>2. req[r].image \in Image /\ At(r, "apply")
    BY <1>1, <1>6 DEF ApplyForRequest, RequestInv
  <2>3. req[r].snap = [app |-> AppOf(r), vars |-> req[r].snap.vars, replicas |-> req[r].snap.replicas]
    BY <1>1 DEF Snapshot, AppOf
  <2>4. ClusterElsewhere
    BY <1>1, <1>2, <2>1, <2>2, <2>3 DEF ClusterElsewhere
  <2>5. ASSUME NamesAgree, NEW n \in Names, Exists(n)' PROVE BuiltFor(spin'[n].image, n)
    <3>1. BuiltFor(req[r].image, TargetName(r)) /\ (Exists(n) => BuiltFor(spin[n].image, n))
      BY <2>2, <2>5 DEF NamesAgree
    <3>2. CASE spin'[n] = Desired(req[r].snap, req[r].image, req[r].asked) /\ n = TargetName(r)
      BY <3>1, <3>2 DEF Desired
    <3>3. CASE spin'[n] = spin[n]
      BY <2>5, <3>1, <3>3 DEF Exists
    <3>4. QED
      BY <1>3, <2>1, <3>2, <3>3 DEF ApplySpinApp, TargetName, AppOf
  <2>6. QED
    BY <1>1, <2>1, <2>4, <2>5 DEF Onward
<1>7. CASE ExposeForRequest(r)
  <2>1. PICK answer \in KubeAnswers : ApplyVirtualService(TargetName(r), answer)
    BY <1>7 DEF ExposeForRequest
  <2>2. ClusterElsewhere
    BY <1>1, <1>2, <2>1 DEF ClusterElsewhere, TargetName
  <2>3. QED
    BY <1>1, <1>7, <2>1, <2>2 DEF ExposeForRequest, ApplyVirtualService, Exists, NamesAgree, Onward
<1>8. QED
  BY <1>4, <1>5, <1>6, <1>7 DEF ClusterCall

LEMMA ClusterCallKeeps ==
  ASSUME CPInv, NEW r \in Req, ClusterCall(r)
  PROVE  [Next]_vars /\ CPInv'
<1>1. [Next]_vars
  BY ClusterCallIsElsewhere DEF Next
<1>2. TypeOK'
  BY <1>1, NextTyped DEF CPInv, CPTypeOK
<1>3. UNCHANGED builderVars /\ \A a \in App : app'[a].replicas \in Counts
  BY ClusterCallIsElsewhere DEF ClusterElsewhere, storeVars, CPInv, Counts
<1>4. QED
  BY <1>1, <1>2, <1>3, ClusterCallIsElsewhere, CallKeeps

\* The two reads of handlers: of a SpinApp's image and of the functions' count.
LEMMA ReadKeeps ==
  ASSUME CPInv, NEW r \in Req, ReadSpinApp(r) \/ CountFunctions(r)
  PROVE  [Next]_vars /\ CPInv'
<1>0. req[r].pc # "waiting" /\ UNCHANGED vars
  BY DEF ReadSpinApp, CountFunctions, At
<1>1. /\ req[r] # Waiting /\ req[r] \in Request /\ AppOf(r) \in App
      /\ req[r].snap.replicas \in Counts /\ req[r].asked \in Counts
  BY <1>0, InService
<1>2. TypeOK' /\ \A a \in App : app'[a].replicas \in Counts
  BY <1>0, NextTyped DEF CPInv, CPTypeOK, vars, storeVars, Counts
<1>3. CASE \E to \in Onward : Goto(r, to)
  <2>1. NamesAgree => \A n \in Names : Exists(n)' => BuiltFor(spin'[n].image, n)
    BY <1>0 DEF NamesAgree, Exists, vars, clusterVars
  <2>2. QED
    BY <1>0, <1>1, <1>2, <1>3, <2>1, CallKeeps DEF vars
<1>4. CASE /\ Exists(TargetName(r))
           /\ req' = [req EXCEPT ![r].pc = "apply", ![r].image = spin[TargetName(r)].image]
  <2> DEFINE n == TargetName(r)
             q == [req[r] EXCEPT !.pc = "apply", !.image = spin[n].image]
  <2>1. n \in Names /\ spin[n] \in SpinApp
    BY <1>1, <1>4 DEF Names, TargetName, Exists, CPInv, CPTypeOK, TypeOK, DeployerTypeOK
  <2>2. spin[n].image \in Image
    BY <2>1 DEF SpinApp
  <2>3. /\ q \in Request /\ q.pc = "apply" /\ q.image = spin[n].image
        /\ q.asked = req[r].asked /\ q.snap = req[r].snap
    BY <1>1, <2>2 DEF Request
  <2>4. req' = [req EXCEPT ![r] = q]
    BY <1>4 DEF CPInv, CPTypeOK
  <2>5. CallerImages \intersect Build = {} => BuiltFor(q.image, NameOf[q.snap.app])
    BY <1>4, <2>1, <2>3 DEF CPInv, NamesAgree, TargetName, AppOf
  <2>6. QED
    BY <1>0, <1>1, <2>2, <2>3, <2>4, <2>5, RequestWritten
<1>5. QED
  BY <1>3, <1>4 DEF ReadSpinApp, CountFunctions, Onward

-----------------------------------------------------------------------------
(***************************************************************************)
(* The steps of builds, of their Jobs and of the process itself: a build   *)
(* that has begun stays begun, with the row it loaded.                     *)
(***************************************************************************)
BuildStep ==
    \/ \E b \in Build : Pipeline(b) \/ PodPushes(b) \/ JobEnds(b)
    \/ \E b \in Build, a \in App : LoadForBuild(b, a)
    \/ Crash

LEMMA BegunStaysBegun ==
  ASSUME TypeOK, BuildStep
  PROVE  \A x \in Build : pc[x] # "idle" => pc'[x] # "idle" /\ snap'[x] = snap[x]
<1> USE DEF TypeOK, RunnerTypeOK, Step
<1>1. ASSUME NEW b \in Build, Pipeline(b)
      PROVE  \A x \in Build : pc[x] # "idle" => pc'[x] # "idle" /\ snap'[x] = snap[x]
  <2>1. snap' = snap /\ \E to \in Working \union {"done"} : pc' = [pc EXCEPT ![b] = to]
    BY <1>1 DEF Pipeline, InsertBuildRow, CreateSecret, CreateJob, MarkRunning, PollComplete,
                PollGivesUp, DeployImage, ExposeImage, FinishBuild, FailBuild,
                Working, Starting, Watching
  <2>2. QED
    BY <2>1 DEF Working, Starting, Watching
<1>2. CASE \E b \in Build : PodPushes(b) \/ JobEnds(b)
  BY <1>2 DEF PodPushes, JobEnds
<1>3. CASE \E b \in Build, a \in App : LoadForBuild(b, a)
  BY <1>3 DEF LoadForBuild
<1>4. CASE Crash
  BY <1>4 DEF Crash
<1>5. QED
  BY <1>1, <1>2, <1>3, <1>4 DEF BuildStep

\* The only image a build puts in a SpinApp is its own, under its own name.
LEMMA BuildStepWritesItsImage ==
  ASSUME TypeOK, NamesAgree, BuildStep, NEW n \in Names, Exists(n)'
  PROVE  BuiltFor(spin[n].image, n)'
<1>1. \A x \in Build : pc[x] # "idle" => pc'[x] # "idle" /\ snap'[x] = snap[x]
  BY BegunStaysBegun
<1>2. CASE spin'[n] = spin[n]
  BY <1>1, <1>2 DEF NamesAgree, BuiltFor, Exists
<1>3. ASSUME NEW b \in Build, DeployImage(b), spin'[n] # spin[n]
      PROVE  BuiltFor(spin[n].image, n)'
  <2>1. pc[b] = "deploy" /\ snap'[b] = snap[b] /\ pc'[b] # "idle"
    BY <1>1, <1>3 DEF DeployImage
  <2>2. n = NameOf[snap[b].app] /\ spin'[n] = Desired(snap[b], b, 1)
    BY <1>3 DEF DeployImage, ApplySpinApp, TypeOK, DeployerTypeOK
  <2>3. spin'[n].image = b
    BY <2>2 DEF Desired
  <2>4. QED
    BY <2>1, <2>2, <2>3 DEF BuiltFor
<1>4. spin' = spin \/ \E b \in Build : DeployImage(b)
  BY DEF BuildStep, Pipeline, InsertBuildRow, CreateSecret, CreateJob, MarkRunning, PollComplete,
         PollGivesUp, ExposeImage, ApplyVirtualService, FinishBuild, FailBuild,
         PodPushes, JobEnds, LoadForBuild, Crash, clusterVars
<1>5. QED
  BY <1>2, <1>3, <1>4

LEMMA BuildStepKeepsRows ==
  BuildStep => app' = app /\ functions' = functions
BY DEF BuildStep, Pipeline, InsertBuildRow, CreateBuild, CreateSecret, CreateJob, MarkRunning,
       PollComplete, PollGivesUp, DeployImage, ExposeImage, FinishBuild, FailBuild, WriteStatus,
       UpdateBuildStatus, PodPushes, JobEnds, LoadForBuild, Crash, storeVars

\* A crash answers no request: those in service stop where they are.
LEMMA BuildStepKeeps ==
  ASSUME CPInv, BuildStep,
         req' \in [Req -> Request \union {Waiting}],
         \A r \in Req : \/ req'[r] = req[r]
                        \/ req[r] # Waiting /\ req'[r] = [req[r] EXCEPT !.pc = "lost"]
  PROVE  [Next]_vars /\ CPInv'
<1>1. [Next]_vars
  BY DEF BuildStep, Next
<1>2. TypeOK /\ TypeOK' /\ CPTypeOK'
  BY <1>1, NextTyped DEF CPInv, CPTypeOK
<1>3. \A a \in App : app'[a].replicas \in Counts
  BY BuildStepKeepsRows DEF CPInv, Counts
<1>4. ASSUME NEW r \in Req, req'[r] # Waiting PROVE RequestInv(r)'
  <2>1. CASE req'[r] = req[r]
    BY <1>4, <2>1 DEF CPInv, RequestInv, At, Counts
  <2>2. CASE req[r] # Waiting /\ req'[r] = [req[r] EXCEPT !.pc = "lost"]
    BY <2>2 DEF CPInv, CPTypeOK, RequestInv, At, Counts, Request
  <2>3. QED
    BY <2>1, <2>2
<1>5. ASSUME CallerImages \intersect Build = {} PROVE NamesAgree'
  <2>1. NamesAgree
    BY <1>5 DEF CPInv
  <2>2. ASSUME NEW r \in Req, req'[r].pc = "apply" PROVE BuiltFor(req[r].image, NameOf[req[r].snap.app])'
    <3>1. req'[r] = req[r]
      BY <2>2 DEF CPInv, CPTypeOK, Request
    <3>2. BuiltFor(req[r].image, NameOf[req[r].snap.app])
      BY <2>1, <2>2, <3>1 DEF NamesAgree, At, TargetName, AppOf
    <3>3. QED
      BY <1>2, <3>1, <3>2, BegunStaysBegun DEF BuiltFor
  <2>3. QED
    BY <1>2, <2>1, <2>2, BuildStepWritesItsImage DEF NamesAgree, At, TargetName, AppOf
<1>6. QED
  BY <1>1, <1>2, <1>3, <1>4, <1>5 DEF CPInv

-----------------------------------------------------------------------------
(***************************************************************************)
(* The whole program.                                                      *)
(***************************************************************************)
LEMMA CPInitInv == CPInit => CPInv
<1> SUFFICES ASSUME CPInit PROVE CPInv
  OBVIOUS
<1>1. CPTypeOK
  BY InitTypes DEF CPInit, CPTypeOK
<1>2. \A a \in App : app[a].replicas \in Counts
  BY DEF CPInit, Init, StoreInit, Counts
<1>3. NamesAgree
  BY DEF CPInit, Init, DeployerInit, NamesAgree, Exists, At, Waiting
<1>4. \A r \in Req : req[r] = Waiting
  BY DEF CPInit
<1>5. QED
  BY <1>1, <1>2, <1>3, <1>4 DEF CPInv

LEMMA CPNextKeeps == CPInv /\ [CPNext]_cpVars => [Next]_vars /\ CPInv'
<1> SUFFICES ASSUME CPInv, [CPNext]_cpVars PROVE [Next]_vars /\ CPInv'
  OBVIOUS
<1>1. CASE \E r \in Req : Arrival(r)
  BY <1>1, ArrivalKeeps
<1>2. ASSUME NEW r \in Req, Handler(r) PROVE [Next]_vars /\ CPInv'
  <2>1. StoreCall(r) \/ ClusterCall(r) \/ ReadSpinApp(r) \/ CountFunctions(r)
    BY <1>2 DEF Handler, StoreCall, ClusterCall
  <2>2. QED
    BY <2>1, StoreCallKeeps, ClusterCallKeeps, ReadKeeps
<1>3. CASE BuildStep /\ req' = req
  BY <1>3, BuildStepKeeps DEF CPInv, CPTypeOK
<1>4. CASE Die
  <2>1. BuildStep
    BY <1>4 DEF Die, BuildStep
  <2>2. \A r \in Req : \/ req'[r] = req[r]
                       \/ /\ req[r] \in Request /\ req[r] # Waiting
                          /\ req'[r] = [req[r] EXCEPT !.pc = "lost"]
    BY <1>4 DEF Die, BusyRequests, AtRest, CPInv, CPTypeOK, Waiting
  <2>3. \A r \in Req : req'[r] \in Request \union {Waiting}
    <3>1. \A q \in Request : [q EXCEPT !.pc = "lost"] \in Request
      BY DEF Request
    <3>2. QED
      BY <2>2, <3>1 DEF CPInv, CPTypeOK
  <2>4. req' \in [Req -> Request \union {Waiting}]
    BY <1>4, <2>3 DEF Die
  <2>5. QED
    BY <2>1, <2>2, <2>4, BuildStepKeeps
<1>5. CASE UNCHANGED cpVars
  <2>1. UNCHANGED vars /\ req' = req
    BY <1>5 DEF cpVars
  <2>2. TypeOK'
    BY <2>1, NextTyped DEF CPInv, CPTypeOK
  <2>3. QED
    BY <2>1, <2>2 DEF vars, storeVars, clusterVars, builderVars, CPInv, CPTypeOK, RequestInv,
                      NamesAgree, BuiltFor, At, AppOf, TargetName, Exists, Counts
<1>6. QED
  BY <1>1, <1>2, <1>3, <1>4, <1>5 DEF CPNext, StartBuild, BuildStep

\* Every handler touches the store and the cluster only by the calls module
\* Builder lets the rest of the control plane make, one at a time.
THEOREM HandlersWithinBuilder == CPSpec => BuilderSpec
<1>1. CPInit => Init
  BY DEF CPInit
<1>2. QED
  BY <1>1, CPInitInv, CPNextKeeps, PTL DEF CPSpec, BuilderSpec, Spec

\* The rows, the requests and the SpinApps of the whole write side are what
\* its types say, and CPInv's strengthening holds among any requests.
THEOREM CPInvariance == CPSpec => []CPInv
<1>1. QED
  BY CPInitInv, CPNextKeeps, PTL DEF CPSpec

\* The control plane's state is well-typed, requests in service included.
THEOREM CPTypes == CPSpec => []CPTypeOK
<1>1. CPInv => CPTypeOK
  BY DEF CPInv
<1>2. QED
  BY <1>1, CPInvariance, PTL

\* A SpinApp runs images built for applications of its name, as long as no
\* caller of POST /deploy names a build's image: among any number of requests,
\* failing calls and crashes.
THEOREM ImagesOfThatName ==
  ASSUME CallerImages \intersect Build = {}
  PROVE  CPSpec => []ImageIsOfThatName
<1>1. CPInv => ImageIsOfThatName
  BY DEF CPInv, NamesAgree, BuiltFor, ImageIsOfThatName
<1>2. QED
  BY <1>1, CPInvariance, PTL

\* What is proved of builds holds among the handlers: the inductive invariant
\* of the pipeline, the finality of outcomes and the documented life cycle.
THEOREM BuildsAmongHandlers == CPSpec => []BuildInv /\ OutcomeIsFinal /\ LifecycleSpec
<1>1. QED
  BY HandlersWithinBuilder, Invariance, OutcomesFinal, Refinement, PTL DEF BuilderSpec

\* The handlers and watchers of the whole control plane move the columns that a
\* worker reads only as module WorkerPool lets them, and leave those columns
\* alone in every other step: WorkerPoolProofs!OpenSpec assumes no more.
THEOREM TablesAmongHandlers == CPSpec => TablesSpec
<1>1. QED
  BY HandlersWithinBuilder, TablesAsSeen, PTL DEF BuilderSpec
-----------------------------------------------------------------------------
(***************************************************************************)
(* One client at a time.  Of requests and builds at most one is at work,   *)
(* so a step is judged by what its own request or build knows; the lemmas  *)
(* below say what such a step must establish.                              *)
(***************************************************************************)
OneClient == ~Overlap /\ KubeAnswers = {"ok"} /\ StoreAnswers = {"ok"} /\ MaxCrashes = 0

\* POST /deploy puts an image in a SpinApp whatever the runtime.
NoStrayDeploy == "deploy" \in Ops => \A a \in App : RuntimeOf[a] = "spinkube"

\* A request at work is the only one, and no build is at work.
LEMMA OnlyThisRequest ==
  ASSUME CPInv, OneAtATime, NEW r \in Req, req[r].pc \notin AtRest
  PROVE  /\ r \in BusyRequests /\ req[r] # Waiting /\ req[r] \in Request /\ AppOf(r) \in App
         /\ TargetName(r) \in Names
         /\ BusyBuilds = {}
         /\ \A x \in Req : x # r => req[x].pc \in AtRest
<1>1. r \in BusyRequests /\ req[r].pc # "waiting"
  BY DEF BusyRequests, AtRest
<1>2. req[r] # Waiting /\ req[r] \in Request /\ AppOf(r) \in App
  BY <1>1, InService
<1>3. QED
  BY <1>1, <1>2 DEF OneAtATime, BusyRequests, TargetName, Names

\* What the SpinApps say while at most this request is at work.
LEMMA SpinAppsWith ==
  ASSUME AgreementInv, NEW r \in Req, \A x \in Req : x # r => req[x].pc \in AtRest,
         NEW n \in Names, Exists(n)
  PROVE  /\ Live(spin[n].app) /\ NameOf[spin[n].app] = n /\ RuntimeOf[spin[n].app] = "spinkube"
         /\ \/ spin[n].vars = app[spin[n].app].vars
            \/ req[r].pc \in {"get", "apply"} /\ AppOf(r) = spin[n].app
  BY DEF AgreementInv, SpinAppsAgree, Serving, AtRest

LEMMA FunctionsWith ==
  ASSUME AgreementInv, NEW r \in Req, \A x \in Req : x # r => req[x].pc \in AtRest,
         NEW a \in App, Live(a)
  PROVE  functions[a] # {} \/ (req[r].pc = "default" /\ AppOf(r) = a)
  BY DEF AgreementInv, Serving, AtRest

\* What a step of a request has to establish of the request it leaves behind.
LEMMA RequestAgrees ==
  ASSUME CPInv, AgreementInv, NEW r \in Req, BusyBuilds = {},
         \A x \in Req : x # r => req[x].pc \in AtRest,
         NEW q \in Request, req' = [req EXCEPT ![r] = q], UNCHANGED <<pc, snap>>,
         OneLivePerName',
         q.pc \notin AtRest \union {"insert"} => app'[q.snap.app].state = "live",
         q.pc \in {"default", "undo", "unexpose", "drop"} => spin'[NameOf[q.snap.app]] = NoSpinApp,
         q.pc = "write" /\ "vars" \in q.keeps => q.snap.vars = app'[q.snap.app].vars,
         q.pc \in {"get", "apply"} =>
            RuntimeOf[q.snap.app] = "spinkube" /\ q.snap.vars = app'[q.snap.app].vars,
         q.pc = "delfn" => functions'[q.snap.app] \ {q.fn} # {},
         \A n \in Names : spin'[n] # NoSpinApp =>
            /\ app'[spin'[n].app].state = "live"
            /\ NameOf[spin'[n].app] = n /\ RuntimeOf[spin'[n].app] = "spinkube"
            /\ \/ spin'[n].vars = app'[spin'[n].app].vars
               \/ q.pc \in {"get", "apply"} /\ q.snap.app = spin'[n].app,
         \A a \in App : app'[a].state = "live" =>
            functions'[a] # {} \/ (q.pc = "default" /\ q.snap.app = a)
  PROVE  AgreementInv'
<1>1. req'[r] = q /\ \A x \in Req : x # r => req'[x] = req[x]
  BY DEF CPInv, CPTypeOK
<1>2. BusyBuilds' = {} /\ BusyRequests' \subseteq {r}
  BY <1>1 DEF BusyBuilds, BusyRequests
<1>3. OneAtATime'
  BY <1>2 DEF OneAtATime
<1>4. ASSUME NEW x \in Req PROVE RequestStands(x)'
  <2>1. CASE x = r
    BY <1>1, <2>1 DEF RequestStands, BusyRequests, At, AppOf, TargetName, Live, Exists
  <2>2. CASE x # r
    BY <1>1, <2>2 DEF RequestStands, BusyRequests, At, AtRest
  <2>3. QED
    BY <2>1, <2>2
<1>5. \A b \in Build : BuildStands(b)'
  BY <1>2 DEF BuildStands
<1>6. ASSUME NEW a, NEW C, q.pc \in C, q.snap.app = a PROVE Serving(a, C)'
  BY <1>1, <1>6 DEF Serving, AppOf
<1>7. SpinAppsAgree'
  BY <1>6 DEF SpinAppsAgree, Live, Exists
<1>8. \A a \in App : Live(a)' => functions'[a] # {} \/ Serving(a, {"default"})'
  BY <1>6 DEF Live
<1>9. QED
  BY <1>3, <1>4, <1>5, <1>7, <1>8 DEF AgreementInv

\* The same of a call that moves the request's pc.
LEMMA CallAgrees ==
  ASSUME CPInv, AgreementInv, NEW r \in Req, req[r].pc \notin AtRest,
         NEW to \in Onward \ {"write"}, Goto(r, to), UNCHANGED builderVars,
         OneLivePerName',
         to \notin AtRest \union {"insert"} => app'[AppOf(r)].state = "live",
         to \in {"default", "undo", "unexpose", "drop"} => spin'[TargetName(r)] = NoSpinApp,
         to = "get" =>
            RuntimeOf[AppOf(r)] = "spinkube" /\ req[r].snap.vars = app'[AppOf(r)].vars,
         to = "delfn" => functions'[AppOf(r)] \ {req[r].fn} # {},
         \A n \in Names : spin'[n] # NoSpinApp =>
            /\ app'[spin'[n].app].state = "live"
            /\ NameOf[spin'[n].app] = n /\ RuntimeOf[spin'[n].app] = "spinkube"
            /\ \/ spin'[n].vars = app'[spin'[n].app].vars
               \/ to = "get" /\ AppOf(r) = spin'[n].app,
         \A a \in App : app'[a].state = "live" =>
            functions'[a] # {} \/ (to = "default" /\ AppOf(r) = a)
  PROVE  AgreementInv'
<1> DEFINE q == [req[r] EXCEPT !.pc = to]
<1>1. OneAtATime
  BY DEF AgreementInv
<1>2. /\ req[r] # Waiting /\ req[r] \in Request /\ BusyBuilds = {}
      /\ \A x \in Req : x # r => req[x].pc \in AtRest
  BY <1>1, OnlyThisRequest
<1>3. q \in Request /\ q.pc = to /\ q.snap = req[r].snap /\ q.fn = req[r].fn
  BY <1>2 DEF Request, Onward
<1>4. req' = [req EXCEPT ![r] = q]
  BY DEF Goto, CPInv, CPTypeOK
<1>5. UNCHANGED <<pc, snap>>
  BY DEF builderVars
<1>6. q.pc # "apply" /\ q.pc # "write"
  BY <1>3 DEF Onward
<1> HIDE DEF q
<1>7. /\ q.pc \notin AtRest \union {"insert"} => app'[q.snap.app].state = "live"
      /\ q.pc \in {"default", "undo", "unexpose", "drop"} => spin'[NameOf[q.snap.app]] = NoSpinApp
      /\ q.pc \in {"get", "apply"} =>
            RuntimeOf[q.snap.app] = "spinkube" /\ q.snap.vars = app'[q.snap.app].vars
      /\ q.pc = "delfn" => functions'[q.snap.app] \ {q.fn} # {}
  BY <1>3, <1>6 DEF AppOf, TargetName
<1>8. \A n \in Names : spin'[n] # NoSpinApp =>
        /\ app'[spin'[n].app].state = "live"
        /\ NameOf[spin'[n].app] = n /\ RuntimeOf[spin'[n].app] = "spinkube"
        /\ \/ spin'[n].vars = app'[spin'[n].app].vars
           \/ q.pc \in {"get", "apply"} /\ q.snap.app = spin'[n].app
  BY <1>3 DEF AppOf
<1>9. \A a \in App : app'[a].state = "live" =>
        functions'[a] # {} \/ (q.pc = "default" /\ q.snap.app = a)
  BY <1>3 DEF AppOf
<1>10. q.pc = "write" /\ "vars" \in q.keeps => q.snap.vars = app'[q.snap.app].vars
  BY <1>6
<1>11. QED
  BY <1>2, <1>3, <1>4, <1>5, <1>7, <1>8, <1>9, <1>10, RequestAgrees

\* What a request at work knows, in one place.
LEMMA AtWork ==
  ASSUME CPInv, AgreementInv, NEW r \in Req, req[r].pc \notin AtRest
  PROVE  /\ AppOf(r) \in App /\ TargetName(r) \in Names /\ TargetName(r) = NameOf[AppOf(r)]
         /\ req[r] \in Request /\ req[r] # Waiting /\ RequestStands(r)
         /\ ~At(r, "insert") => app[AppOf(r)].state = "live"
         /\ OneLivePerName
         /\ \A n \in Names : spin[n] # NoSpinApp =>
              /\ app[spin[n].app].state = "live"
              /\ NameOf[spin[n].app] = n /\ RuntimeOf[spin[n].app] = "spinkube"
              /\ spin[n].app \in App
              /\ \/ spin[n].vars = app[spin[n].app].vars
                 \/ req[r].pc \in {"get", "apply"} /\ AppOf(r) = spin[n].app
         /\ \A a \in App : app[a].state = "live" =>
              functions[a] # {} \/ (req[r].pc = "default" /\ AppOf(r) = a)
<1>1. OneAtATime /\ OneLivePerName /\ RequestStands(r)
  BY DEF AgreementInv
<1>2. /\ AppOf(r) \in App /\ TargetName(r) \in Names /\ req[r] \in Request /\ req[r] # Waiting
      /\ r \in BusyRequests
      /\ \A x \in Req : x # r => req[x].pc \in AtRest
  BY <1>1, OnlyThisRequest
<1>3. \A n \in Names : spin[n] # NoSpinApp => spin[n].app \in App
  BY DEF CPInv, CPTypeOK, TypeOK, DeployerTypeOK, SpinApp
<1>4. ~At(r, "insert") => app[AppOf(r)].state = "live"
  BY <1>1, <1>2 DEF RequestStands, Live
<1>5. QED
  BY <1>1, <1>2, <1>3, <1>4, SpinAppsWith, FunctionsWith DEF TargetName, Live, Exists

\* A call that leaves rows, functions and SpinApps alone.
LEMMA QuietCallAgrees ==
  ASSUME CPInv, AgreementInv, NEW r \in Req, req[r].pc \notin AtRest \union {"apply"},
         NEW to \in {"undo", "drop", "done", "refused", "delfn"}, Goto(r, to),
         UNCHANGED builderVars, UNCHANGED <<app, functions, spin>>,
         to \in {"undo", "drop", "delfn"} => ~At(r, "insert"),
         to \in {"undo", "drop"} => ~Exists(TargetName(r)),
         to = "delfn" => functions[AppOf(r)] \ {req[r].fn} # {},
         At(r, "get") => ~Exists(TargetName(r)),
         At(r, "default") => functions[AppOf(r)] # {}
  PROVE  AgreementInv'
<1>1. to \in Onward \ {"write"}
  BY DEF Onward
<1>2. to \notin AtRest \union {"insert"} => app'[AppOf(r)].state = "live"
  BY AtWork DEF AtRest
<1>3. OneLivePerName'
  BY AtWork DEF OneLivePerName, Live
<1>4. \A n \in Names : spin'[n] # NoSpinApp =>
        /\ app'[spin'[n].app].state = "live"
        /\ NameOf[spin'[n].app] = n /\ RuntimeOf[spin'[n].app] = "spinkube"
        /\ spin'[n].vars = app'[spin'[n].app].vars
  BY AtWork DEF Exists, At
<1>5. \A a \in App : app'[a].state = "live" => functions'[a] # {}
  BY AtWork DEF At
<1>6. QED
  BY <1>1, <1>2, <1>3, <1>4, <1>5, CallAgrees DEF Exists

\* POST /applications: the name is free, so no SpinApp carries it.
LEMMA CreateAgrees ==
  ASSUME OneClient, CPInv, AgreementInv, NEW r \in Req,
         InsertApplication(r) \/ InsertDefaultFunction(r)
  PROVE  AgreementInv'
<1> DEFINE a == AppOf(r)
<1>1. req[r].pc \in {"insert", "default"} /\ UNCHANGED <<clusterVars, builderVars>>
  BY DEF InsertApplication, InsertDefaultFunction, At
<1>2. req[r].pc \notin AtRest \union {"apply", "get"}
  BY <1>1 DEF AtRest
<1>3. /\ a \in App /\ TargetName(r) = NameOf[a] /\ TargetName(r) \in Names
      /\ RequestStands(r) /\ OneLivePerName
  BY <1>2, AtWork
<1>4. /\ app \in [App -> Application] /\ functions \in [App -> SUBSET Fn] /\ StoreTypeOK
      /\ spin' = spin
  BY <1>1 DEF CPInv, CPTypeOK, TypeOK, StoreTypeOK, clusterVars
<1>5. \A n \in Names : spin[n] # NoSpinApp =>
        /\ app[spin[n].app].state = "live" /\ spin[n].app \in App
        /\ NameOf[spin[n].app] = n /\ RuntimeOf[spin[n].app] = "spinkube"
        /\ spin[n].vars = app[spin[n].app].vars
  BY <1>1, <1>2, AtWork
<1>6. CASE InsertApplication(r) /\ CreateApplication(a)
  <2>1. /\ app[a].state = "absent" /\ NameFree(a)
        /\ app'[a].state = "live" /\ functions' = functions
        /\ \A x \in App : x # a => app'[x] = app[x]
    BY <1>3, <1>4, <1>6 DEF CreateApplication, Application
  <2>2. Goto(r, "default") /\ At(r, "insert")
    BY <1>3, <1>6, <2>1 DEF InsertApplication, OneClient
  <2>3. OneLivePerName'
    BY <1>3, <1>4, <1>6, NamesStayUnique
  <2>4. spin'[TargetName(r)] = NoSpinApp
    BY <1>3, <1>4, <1>5, <2>1 DEF NameFree, Live
  <2>5. \A n \in Names : spin'[n] # NoSpinApp =>
          /\ app'[spin'[n].app].state = "live"
          /\ NameOf[spin'[n].app] = n /\ RuntimeOf[spin'[n].app] = "spinkube"
          /\ spin'[n].vars = app'[spin'[n].app].vars
    BY <1>4, <1>5, <2>1
  <2>6. \A x \in App : app'[x].state = "live" => functions'[x] # {} \/ a = x
    BY <1>2, <2>1, <2>2, AtWork DEF At
  <2>7. QED
    BY ZenonT(30), <1>1, <1>2, <2>1, <2>2, <2>3, <2>4, <2>5, <2>6, CallAgrees DEF Onward, AtRest
<1>7. CASE UNCHANGED storeVars /\ Goto(r, "refused") /\ At(r, "insert")
  BY <1>1, <1>2, <1>4, <1>7, QuietCallAgrees DEF storeVars, At
<1>8. CASE InsertDefaultFunction(r)
  <2>1. PICK fk \in ForeignKeys :
          \/ CreateFunction(a, req[r].fn, fk) /\ Goto(r, "done")
          \/ ~CanInsertFor(a, fk) /\ UNCHANGED storeVars
          \/ req[r].fn \in functions[a] /\ UNCHANGED storeVars /\ Goto(r, "undo")
    BY <1>8 DEF InsertDefaultFunction, InsertFn, OneClient
  <2>2. app[a].state = "live" /\ CanInsertFor(a, fk) /\ At(r, "default") /\ ~Exists(TargetName(r))
    BY <1>2, <1>8, AtWork DEF InsertDefaultFunction, RequestStands, At, CanInsertFor, Live
  <2>3. CASE CreateFunction(a, req[r].fn, fk) /\ Goto(r, "done")
    <3>1. app' = app /\ functions'[a] # {} /\ \A x \in App : x # a => functions'[x] = functions[x]
      BY <1>3, <1>4, <2>3 DEF CreateFunction
    <3>2. OneLivePerName'
      BY <1>3, <3>1 DEF OneLivePerName, Live
    <3>3. \A x \in App : app'[x].state = "live" => functions'[x] # {}
      BY <1>2, <3>1, AtWork
    <3>4. QED
      BY <1>1, <1>2, <1>4, <1>5, <2>3, <3>1, <3>2, <3>3, CallAgrees DEF Onward, AtRest
  <2>4. CASE req[r].fn \in functions[a] /\ UNCHANGED storeVars /\ Goto(r, "undo")
    BY <1>1, <1>2, <1>4, <2>2, <2>4, QuietCallAgrees DEF storeVars, At
  <2>5. QED
    BY <2>1, <2>2, <2>3, <2>4
<1>9. QED
  BY <1>6, <1>7, <1>8 DEF InsertApplication

\* The row goes when no SpinApp carries its name any more.
LEMMA DropAgrees ==
  ASSUME OneClient, CPInv, AgreementInv, NEW r \in Req, UndoCreate(r) \/ FinishDelete(r)
  PROVE  AgreementInv'
<1> DEFINE a == AppOf(r)
<1>1. req[r].pc \in {"undo", "drop"} /\ UNCHANGED <<clusterVars, builderVars>>
  BY DEF UndoCreate, FinishDelete, At
<1>2. req[r].pc \notin AtRest \union {"apply", "get", "default", "insert"}
  BY <1>1 DEF AtRest
<1>3. /\ a \in App /\ TargetName(r) = NameOf[a] /\ TargetName(r) \in Names
      /\ app[a].state = "live" /\ OneLivePerName /\ spin[TargetName(r)] = NoSpinApp
  BY <1>1, <1>2, AtWork DEF At, RequestStands, Exists
<1>4. PICK fk \in ForeignKeys, to \in {"done", "refused"} : DeleteApplication(a, fk) /\ Goto(r, to)
  BY <1>3 DEF UndoCreate, FinishDelete, DropRow, OneClient, Live
<1>5. /\ app \in [App -> Application] /\ functions \in [App -> SUBSET Fn] /\ StoreTypeOK
      /\ spin' = spin
  BY <1>1 DEF CPInv, CPTypeOK, TypeOK, StoreTypeOK, clusterVars
<1>6. /\ app'[a].state = "deleted"
      /\ \A x \in App : x # a => app'[x] = app[x] /\ functions'[x] = functions[x]
  BY <1>3, <1>4, <1>5 DEF DeleteApplication, Application
<1>7. OneLivePerName'
  BY <1>3, <1>5, <1>6, NamesStayUnique DEF Live
<1>8. \A n \in Names : spin'[n] # NoSpinApp =>
        /\ app'[spin'[n].app].state = "live"
        /\ NameOf[spin'[n].app] = n /\ RuntimeOf[spin'[n].app] = "spinkube"
        /\ spin'[n].vars = app'[spin'[n].app].vars
  <2> SUFFICES ASSUME NEW n \in Names, spin[n] # NoSpinApp
               PROVE  /\ app'[spin[n].app].state = "live"
                      /\ NameOf[spin[n].app] = n /\ RuntimeOf[spin[n].app] = "spinkube"
                      /\ spin[n].vars = app'[spin[n].app].vars
    BY <1>5
  <2>1. /\ app[spin[n].app].state = "live" /\ spin[n].app \in App
        /\ NameOf[spin[n].app] = n /\ RuntimeOf[spin[n].app] = "spinkube"
        /\ spin[n].vars = app[spin[n].app].vars
    BY <1>2, AtWork
  <2>2. spin[n].app # a
    BY <1>3, <2>1
  <2>3. QED
    BY <1>6, <2>1, <2>2
<1>9. \A x \in App : app'[x].state = "live" => functions'[x] # {}
  BY <1>2, <1>6, AtWork
<1>10. QED
  BY <1>1, <1>2, <1>4, <1>7, <1>8, <1>9, CallAgrees DEF Onward, AtRest

\* PATCH: between the row's update and the apply of its image the SpinApp lags.
LEMMA PatchAgrees ==
  ASSUME OneClient, CPInv, AgreementInv, NEW r \in Req, WriteConfig(r) \/ ReadSpinApp(r)
  PROVE  AgreementInv'
<1> DEFINE a == AppOf(r)
           n0 == TargetName(r)
<1>1. req[r].pc \in {"write", "get"} /\ UNCHANGED <<clusterVars, builderVars>>
  BY DEF WriteConfig, ReadSpinApp, At, vars
<1>2. req[r].pc \notin AtRest \union {"apply", "default", "insert"}
  BY <1>1 DEF AtRest
<1>3. /\ a \in App /\ n0 = NameOf[a] /\ n0 \in Names /\ req[r] \in Request
      /\ app[a].state = "live" /\ OneLivePerName /\ RequestStands(r)
  BY <1>1, <1>2, AtWork DEF At
<1>4. /\ app \in [App -> Application] /\ functions \in [App -> SUBSET Fn] /\ StoreTypeOK
      /\ spin \in [Names -> SpinApp \union {NoSpinApp}] /\ spin' = spin
  BY <1>1 DEF CPInv, CPTypeOK, TypeOK, StoreTypeOK, DeployerTypeOK, clusterVars
<1>5. \A n \in Names : spin[n] # NoSpinApp =>
        /\ app[spin[n].app].state = "live" /\ spin[n].app \in App
        /\ NameOf[spin[n].app] = n /\ RuntimeOf[spin[n].app] = "spinkube"
        /\ spin[n].vars = app[spin[n].app].vars \/ (At(r, "get") /\ spin[n].app = a)
  BY <1>2, AtWork DEF At
<1>6. CASE WriteConfig(r)
  <2> DEFINE v == req[r].snap.vars
             to == IF RuntimeOf[a] = "workerpool" \/ req[r].keeps = {"vars", "replicas"}
                   THEN "done" ELSE "get"
  <2>1. UpdateApplicationConfig(a, v, req[r].snap.replicas) /\ Goto(r, to) /\ At(r, "write")
    BY <1>3, <1>6 DEF WriteConfig, OneClient, Live
  <2>2. /\ app'[a].state = "live" /\ app'[a].vars = v /\ functions' = functions
        /\ \A x \in App : app'[x].state = app[x].state
        /\ \A x \in App : x # a => app'[x] = app[x]
    BY <1>3, <1>4, <2>1 DEF UpdateApplicationConfig, Application
  <2>3. OneLivePerName'
    BY <1>3, <2>2 DEF OneLivePerName, Live
  <2>4. to = "get" => RuntimeOf[a] = "spinkube"
    BY <1>3, StoreAssumption DEF Runtime
  <2>5. ASSUME NEW n \in Names, spin[n] # NoSpinApp
        PROVE  spin[n].vars = app'[spin[n].app].vars \/ (to = "get" /\ a = spin[n].app)
    <3>1. CASE spin[n].app # a
      BY <1>5, <2>1, <2>2, <2>5, <3>1 DEF At
    <3>2. CASE spin[n].app = a /\ to # "get"
      <4>1. req[r].keeps = {"vars", "replicas"} /\ spin[n].vars = app[a].vars
        BY <1>5, <2>1, <2>5, <3>2 DEF At
      <4>2. v = app[a].vars
        BY <1>3, <2>1, <4>1 DEF RequestStands
      <4>3. QED
        BY <2>2, <3>2, <4>1, <4>2
    <3>3. QED
      BY <3>1, <3>2
  <2>6. \A n \in Names : spin'[n] # NoSpinApp =>
          /\ app'[spin'[n].app].state = "live"
          /\ NameOf[spin'[n].app] = n /\ RuntimeOf[spin'[n].app] = "spinkube"
          /\ \/ spin'[n].vars = app'[spin'[n].app].vars
             \/ to = "get" /\ a = spin'[n].app
    BY <1>4, <1>5, <2>2, <2>5
  <2>7. \A x \in App : app'[x].state = "live" => functions'[x] # {}
    BY <1>2, <2>2, AtWork
  <2>8. to \in {"done", "get"}
    OBVIOUS
  <2> HIDE DEF to, v
  <2>9. QED
    BY <1>1, <1>2, <2>1, <2>2, <2>3, <2>4, <2>6, <2>7, <2>8, CallAgrees DEF Onward, AtRest, v
<1>7. CASE ReadSpinApp(r) /\ Exists(n0)
  <2> DEFINE q == [req[r] EXCEPT !.pc = "apply", !.image = spin[n0].image]
  <2>1. At(r, "get") /\ UNCHANGED vars /\ req' = [req EXCEPT ![r].pc = "apply", ![r].image = spin[n0].image]
    BY <1>7 DEF ReadSpinApp, OneClient
  <2>2. spin[n0].image \in Image
    BY <1>3, <1>4, <1>7 DEF Exists, SpinApp
  <2>3. q \in Request /\ q.pc = "apply" /\ q.snap = req[r].snap
    BY <1>3, <2>2 DEF Request
  <2>4. req' = [req EXCEPT ![r] = q]
    BY <2>1 DEF CPInv, CPTypeOK
  <2>5. UNCHANGED <<pc, snap, app, functions, spin>>
    BY <2>1 DEF vars, storeVars, clusterVars, builderVars
  <2>6. BusyBuilds = {} /\ \A x \in Req : x # r => req[x].pc \in AtRest
    BY <1>2, OnlyThisRequest DEF AgreementInv
  <2>7. OneLivePerName'
    BY <1>3, <2>5 DEF OneLivePerName, Live
  <2>8. RuntimeOf[a] = "spinkube" /\ req[r].snap.vars = app[a].vars
    BY <1>3, <2>1 DEF RequestStands, At
  <2>9. \A x \in App : app[x].state = "live" => functions[x] # {}
    BY <1>2, AtWork
  <2> HIDE DEF q
  <2>10. /\ q.pc \notin AtRest \union {"insert"} => app'[q.snap.app].state = "live"
         /\ q.pc \in {"default", "undo", "unexpose", "drop"} => spin'[NameOf[q.snap.app]] = NoSpinApp
         /\ q.pc = "write" /\ "vars" \in q.keeps => q.snap.vars = app'[q.snap.app].vars
         /\ q.pc \in {"get", "apply"} =>
               RuntimeOf[q.snap.app] = "spinkube" /\ q.snap.vars = app'[q.snap.app].vars
         /\ q.pc = "delfn" => functions'[q.snap.app] \ {q.fn} # {}
    BY <1>3, <2>3, <2>5, <2>8 DEF AppOf
  <2>11. \A n \in Names : spin'[n] # NoSpinApp =>
            /\ app'[spin'[n].app].state = "live"
            /\ NameOf[spin'[n].app] = n /\ RuntimeOf[spin'[n].app] = "spinkube"
            /\ \/ spin'[n].vars = app'[spin'[n].app].vars
               \/ q.pc \in {"get", "apply"} /\ q.snap.app = spin'[n].app
    BY <1>5, <2>3, <2>5 DEF AppOf
  <2>12. QED
    BY <2>3, <2>4, <2>5, <2>6, <2>7, <2>9, <2>10, <2>11, RequestAgrees
<1>8. CASE ReadSpinApp(r) /\ ~Exists(n0)
  <2>1. Goto(r, "done") /\ UNCHANGED vars /\ At(r, "get")
    BY <1>8 DEF ReadSpinApp
  <2>2. UNCHANGED <<builderVars, app, functions, spin>>
    BY <2>1 DEF vars, storeVars, clusterVars
  <2>3. QED
    BY <1>2, <1>8, <2>1, <2>2, QuietCallAgrees DEF At
<1>9. QED
  BY <1>6, <1>7, <1>8

\* The calls of the cluster.
LEMMA ClusterCallAgrees ==
  ASSUME OneClient, CPInv, AgreementInv, NEW r \in Req, ClusterCall(r)
  PROVE  AgreementInv'
<1> DEFINE a == AppOf(r)
           n0 == TargetName(r)
<1>1. /\ req[r].pc \in {"undeploy", "unexpose", "apply", "ingress"}
      /\ UNCHANGED <<storeVars, builderVars>>
  BY DEF ClusterCall, Undeploy, Unexpose, ApplyForRequest, ExposeForRequest, At
<1>2. req[r].pc \notin AtRest \union {"get", "default", "insert"}
  BY <1>1 DEF AtRest
<1>3. /\ a \in App /\ n0 = NameOf[a] /\ n0 \in Names /\ req[r] \in Request
      /\ app[a].state = "live" /\ OneLivePerName /\ RequestStands(r)
  BY <1>2, AtWork DEF At
<1>4. /\ spin \in [Names -> SpinApp \union {NoSpinApp}] /\ UNCHANGED <<app, functions>>
      /\ OneLivePerName'
  BY <1>1, <1>3 DEF CPInv, CPTypeOK, TypeOK, DeployerTypeOK, storeVars, OneLivePerName, Live
<1>5. \A n \in Names : spin[n] # NoSpinApp =>
        /\ app[spin[n].app].state = "live" /\ spin[n].app \in App
        /\ NameOf[spin[n].app] = n /\ RuntimeOf[spin[n].app] = "spinkube"
        /\ spin[n].vars = app[spin[n].app].vars \/ (At(r, "apply") /\ spin[n].app = a)
  BY <1>2, AtWork DEF At
<1>6. \A x \in App : app'[x].state = "live" => functions'[x] # {}
  BY <1>2, <1>4, AtWork
<1>7. CASE Undeploy(r)
  <2>1. Goto(r, "unexpose") /\ spin' = [spin EXCEPT ![n0] = NoSpinApp]
    BY <1>7 DEF Undeploy, DeleteSpinApp, TakesEffect, OneClient
  <2>2. At(r, "undeploy")
    BY <1>7 DEF Undeploy
  <2>3. spin'[n0] = NoSpinApp
    BY <1>3, <1>4, <2>1
  <2>4. \A n \in Names : spin'[n] # NoSpinApp =>
          /\ app'[spin'[n].app].state = "live"
          /\ NameOf[spin'[n].app] = n /\ RuntimeOf[spin'[n].app] = "spinkube"
          /\ spin'[n].vars = app'[spin'[n].app].vars
    BY <1>4, <1>5, <2>1, <2>2 DEF At
  <2>5. /\ req[r].pc \notin AtRest /\ "unexpose" \in Onward \ {"write"} /\ UNCHANGED builderVars
        /\ app'[AppOf(r)].state = "live" /\ spin'[TargetName(r)] = NoSpinApp
    BY <1>1, <1>2, <1>3, <1>4, <2>3 DEF Onward
  <2>6. QED
    BY ZenonT(30), <1>4, <1>6, <2>1, <2>4, <2>5, CallAgrees
<1>8. CASE Unexpose(r)
  <2>1. Goto(r, "drop") /\ spin' = spin /\ At(r, "unexpose")
    BY <1>8 DEF Unexpose, DeleteVirtualService
  <2>2. QED
    BY <1>1, <1>2, <1>3, <1>4, <2>1, QuietCallAgrees DEF At, RequestStands
<1>9. CASE ApplyForRequest(r)
  <2> DEFINE d == Desired(req[r].snap, req[r].image, req[r].asked)
  <2>1. Goto(r, "ingress") /\ spin' = [spin EXCEPT ![n0] = d] /\ At(r, "apply")
    BY <1>9 DEF ApplyForRequest, ApplySpinApp, TakesEffect, OneClient, TargetName, AppOf
  <2>2. /\ d.app = a /\ d.vars = app[a].vars /\ RuntimeOf[a] = "spinkube"
    BY <1>3, <2>1 DEF RequestStands, At, Desired, AppOf
  <2>3. ASSUME NEW n \in Names, spin'[n] # NoSpinApp
        PROVE  /\ app'[spin'[n].app].state = "live"
               /\ NameOf[spin'[n].app] = n /\ RuntimeOf[spin'[n].app] = "spinkube"
               /\ spin'[n].vars = app'[spin'[n].app].vars
    <3>1. CASE n = n0
      BY <1>3, <1>4, <2>1, <2>2, <3>1
    <3>2. CASE n # n0
      <4>1. spin'[n] = spin[n] /\ spin[n].app # a
        BY <1>3, <1>4, <1>5, <2>1, <2>3, <3>2
      <4>2. QED
        BY <1>4, <1>5, <2>3, <4>1
    <3>3. QED
      BY <3>1, <3>2
  <2>4. /\ req[r].pc \notin AtRest /\ "ingress" \in Onward \ {"write"} /\ UNCHANGED builderVars
        /\ app'[AppOf(r)].state = "live"
    BY <1>1, <1>2, <1>3, <1>4 DEF Onward
  <2>5. QED
    BY ZenonT(30), <1>4, <1>6, <2>1, <2>3, <2>4, CallAgrees
<1>10. CASE ExposeForRequest(r)
  <2>1. Goto(r, "done") /\ spin' = spin /\ At(r, "ingress")
    BY <1>10 DEF ExposeForRequest, ApplyVirtualService
  <2>2. QED
    BY <1>1, <1>2, <1>4, <2>1, QuietCallAgrees DEF At
<1>11. QED
  BY <1>7, <1>8, <1>9, <1>10 DEF ClusterCall

\* Functions: the one that is left is not removed, which the count sees to.
LEMMA FunctionCallAgrees ==
  ASSUME CPInv, AgreementInv, NEW r \in Req,
         InsertFunction(r) \/ CountFunctions(r) \/ RemoveFunction(r)
  PROVE  AgreementInv'
<1> DEFINE a == AppOf(r)
<1>1. req[r].pc \in {"addfn", "count", "delfn"} /\ UNCHANGED <<clusterVars, builderVars>>
  BY DEF InsertFunction, CountFunctions, RemoveFunction, At, vars
<1>2. req[r].pc \notin AtRest \union {"get", "apply", "default", "insert"}
  BY <1>1 DEF AtRest
<1>3. /\ a \in App /\ app[a].state = "live" /\ OneLivePerName /\ RequestStands(r)
      /\ functions[a] # {} /\ spin' = spin /\ UNCHANGED builderVars
  BY <1>1, <1>2, AtWork DEF At, clusterVars
<1>4. functions \in [App -> SUBSET Fn]
  BY DEF CPInv, CPTypeOK, TypeOK, StoreTypeOK
<1>5. ASSUME Goto(r, "done"), UNCHANGED app, functions'[a] # {},
             \A x \in App : x # a => functions'[x] = functions[x]
      PROVE  AgreementInv'
  <2>1. "done" \in Onward \ {"write"} /\ req[r].pc \notin AtRest
    BY <1>2 DEF Onward
  <2>2. OneLivePerName'
    BY <1>3, <1>5 DEF OneLivePerName, Live
  <2>3. \A x \in App : app'[x].state = "live" => functions'[x] # {}
    BY <1>2, <1>5, AtWork
  <2>4. \A n \in Names : spin'[n] # NoSpinApp =>
          /\ app'[spin'[n].app].state = "live"
          /\ NameOf[spin'[n].app] = n /\ RuntimeOf[spin'[n].app] = "spinkube"
          /\ spin'[n].vars = app'[spin'[n].app].vars
    BY <1>2, <1>3, <1>5, AtWork
  <2>5. "done" \in AtRest
    BY DEF AtRest
  <2>6. QED
    BY <1>3, <1>5, <2>1, <2>2, <2>3, <2>4, <2>5, CallAgrees
<1>6. CASE UNCHANGED storeVars /\ Goto(r, "refused")
  BY <1>2, <1>3, <1>6, QuietCallAgrees DEF storeVars, At
<1>7. CASE InsertFunction(r)
  <2>1. (\E fk \in ForeignKeys : CreateFunction(a, req[r].fn, fk) /\ Goto(r, "done"))
        \/ (UNCHANGED storeVars /\ Goto(r, "refused"))
    BY <1>7 DEF InsertFunction, InsertFn
  <2>2. QED
    BY <1>3, <1>4, <1>5, <1>6, <2>1 DEF CreateFunction
<1>8. CASE RemoveFunction(r)
  <2>1. (DeleteFunction(a, req[r].fn) /\ Goto(r, "done")) \/ (UNCHANGED storeVars /\ Goto(r, "refused"))
    BY <1>8 DEF RemoveFunction
  <2>2. functions[a] \ {req[r].fn} # {}
    BY <1>3, <1>8 DEF RemoveFunction, RequestStands
  <2>3. QED
    BY <1>3, <1>4, <1>5, <1>6, <2>1, <2>2 DEF DeleteFunction
<1>9. CASE CountFunctions(r)
  <2>1. UNCHANGED <<app, functions, spin>>
    BY <1>9 DEF CountFunctions, vars, storeVars, clusterVars
  <2>2. CASE Cardinality(functions[a]) <= 1
    BY <1>2, <1>3, <1>9, <2>1, <2>2, QuietCallAgrees DEF CountFunctions, At
  <2>3. CASE ~(Cardinality(functions[a]) <= 1)
    <3>1. functions[a] \ {req[r].fn} # {}
      <4>1. SUFFICES ASSUME functions[a] = {req[r].fn} PROVE FALSE
        BY <1>3
      <4>2. Cardinality({req[r].fn}) = 1
        BY FS_Singleton
      <4>3. QED
        BY <2>3, <4>1, <4>2
    <3>2. At(r, "count") /\ (Goto(r, "delfn") \/ Goto(r, "refused"))
      BY <1>9, <2>3 DEF CountFunctions
    <3>3. CASE Goto(r, "delfn")
      BY <1>2, <1>3, <2>1, <3>1, <3>2, <3>3, QuietCallAgrees DEF At
    <3>4. CASE Goto(r, "refused")
      BY <1>2, <1>3, <2>1, <3>2, <3>4, QuietCallAgrees DEF At
    <3>5. QED
      BY <3>2, <3>3, <3>4
  <2>4. QED
    BY <2>2, <2>3
<1>10. QED
  BY <1>7, <1>8, <1>9

\* A client's operation begins while nothing is at work.
LEMMA ArrivalAgrees ==
  ASSUME OneClient, NoStrayDeploy, CPInv, AgreementInv, NEW r \in Req, Arrival(r)
  PROVE  AgreementInv'
<1>1. PICK a \in App :
        \/ BeginCreate(r, a)
        \/ BeginDelete(r, a)
        \/ \E v \in Vars \union {Omitted}, n \in Replicas \union {Omitted} : BeginPatch(r, a, v, n)
        \/ \E i \in CallerImages, n \in Replicas : BeginDeploy(r, a, i, n)
        \/ \E op \in Ops, f \in Fn : BeginFunctionOp(r, a, op, f)
  BY DEF Arrival
<1>2. Quiet /\ UNCHANGED vars
  BY <1>1 DEF BeginCreate, BeginDelete, BeginPatch, BeginDeploy, BeginFunctionOp, Begin, OneClient
<1>3. /\ BusyBuilds = {} /\ \A x \in Req : req[x].pc \in AtRest
      /\ UNCHANGED <<pc, snap, app, functions, spin>>
  BY <1>2 DEF Quiet, BusyRequests, vars, storeVars, clusterVars, builderVars
<1>4. OneLivePerName /\ OneLivePerName'
  BY <1>3 DEF AgreementInv, OneLivePerName, Live
<1>5. \A n \in Names : spin[n] # NoSpinApp =>
        /\ app[spin[n].app].state = "live" /\ spin[n].app \in App
        /\ NameOf[spin[n].app] = n /\ RuntimeOf[spin[n].app] = "spinkube"
        /\ spin[n].vars = app[spin[n].app].vars
  BY <1>3 DEF AgreementInv, SpinAppsAgree, Serving, AtRest, Live, Exists,
              CPInv, CPTypeOK, TypeOK, DeployerTypeOK, SpinApp
<1>6. \A x \in App : app[x].state = "live" => functions[x] # {}
  BY <1>3 DEF AgreementInv, Serving, AtRest, Live
<1>7. ASSUME NEW q \in Request, req' = [req EXCEPT ![r] = q], q.snap.app = a,
             q.pc # "insert" => Live(a),
             q.pc \in {"insert", "undeploy", "drop", "write", "apply", "addfn", "count"},
             q.pc = "drop" => RuntimeOf[a] = "workerpool",
             q.pc = "write" /\ "vars" \in q.keeps => q.snap.vars = app[a].vars,
             q.pc = "apply" => RuntimeOf[a] = "spinkube" /\ q.snap.vars = app[a].vars
      PROVE  AgreementInv'
  <2>1. q.pc = "drop" => spin[NameOf[a]] = NoSpinApp
    BY <1>4, <1>5, <1>7 DEF OneLivePerName, Live, Names
  <2>2. /\ q.pc \notin AtRest \union {"insert"} => app'[q.snap.app].state = "live"
        /\ q.pc \in {"default", "undo", "unexpose", "drop"} => spin'[NameOf[q.snap.app]] = NoSpinApp
        /\ q.pc = "write" /\ "vars" \in q.keeps => q.snap.vars = app'[q.snap.app].vars
        /\ q.pc \in {"get", "apply"} =>
              RuntimeOf[q.snap.app] = "spinkube" /\ q.snap.vars = app'[q.snap.app].vars
        /\ q.pc = "delfn" => functions'[q.snap.app] \ {q.fn} # {}
    BY <1>3, <1>7, <2>1 DEF Live
  <2>3. \A n \in Names : spin'[n] # NoSpinApp =>
          /\ app'[spin'[n].app].state = "live"
          /\ NameOf[spin'[n].app] = n /\ RuntimeOf[spin'[n].app] = "spinkube"
          /\ spin'[n].vars = app'[spin'[n].app].vars
    BY <1>3, <1>5
  <2>4. \A x \in App : app'[x].state = "live" => functions'[x] # {}
    BY <1>3, <1>6
  <2>5. UNCHANGED <<pc, snap>> /\ BusyBuilds = {} /\ \A x \in Req : x # r => req[x].pc \in AtRest
    BY <1>3
  <2>6. QED
    BY ZenonT(30), <1>4, <1>7, <2>2, <2>3, <2>4, <2>5, RequestAgrees
<1>8. Row(a) \in Snapshot /\ Row(a).app = a /\ Row(a).vars = app[a].vars
  BY LoadedRow DEF Row
<1>9. CASE BeginCreate(r, a)
  <2> DEFINE s == [app |-> a, vars |-> NoVars, replicas |-> 1]
             q == Opening("create", "insert", s)
  <2>1. s \in Snapshot
    BY StoreAssumption DEF Snapshot
  <2>2. q \in Request /\ q.snap = s /\ q.pc = "insert"
    BY <2>1, Openings DEF Opening, Operations
  <2>3. req' = [req EXCEPT ![r] = q]
    BY <1>9 DEF BeginCreate, Begin
  <2>4. q.snap.app = a
    BY <2>2
  <2> HIDE DEF q, s
  <2>5. QED
    BY <1>7, <2>2, <2>3, <2>4
<1>10. CASE BeginDelete(r, a)
  <2> DEFINE pc0 == IF RuntimeOf[a] = "workerpool" THEN "drop" ELSE "undeploy"
             q == Opening("delete", pc0, Row(a))
  <2>1. pc0 \in {"drop", "undeploy"} /\ (pc0 = "drop" => RuntimeOf[a] = "workerpool")
    OBVIOUS
  <2>2. q \in Request /\ q.snap = Row(a) /\ q.pc = pc0
    BY <1>8, <2>1, Openings DEF Opening, Operations
  <2>3. req' = [req EXCEPT ![r] = q] /\ Live(a)
    BY <1>10 DEF BeginDelete, Begin
  <2> HIDE DEF q, pc0
  <2>4. QED
    BY <1>7, <1>8, <2>1, <2>2, <2>3
<1>11. ASSUME NEW v \in Vars \union {Omitted}, NEW n \in Replicas \union {Omitted},
              BeginPatch(r, a, v, n)
       PROVE  AgreementInv'
  <2> DEFINE s == [app |-> a,
                   vars |-> IF v = Omitted THEN app[a].vars ELSE v,
                   replicas |-> IF n = Omitted THEN app[a].replicas ELSE n]
             keeps == {k \in {"vars", "replicas"} : IF k = "vars" THEN v = Omitted ELSE n = Omitted}
             q == [Opening("patch", "write", s) EXCEPT !.keeps = keeps]
  <2>1. app[a].vars \in Vars /\ app[a].replicas \in Counts
    BY DEF CPInv, CPTypeOK, TypeOK, StoreTypeOK, Application
  <2>2. s \in Snapshot
    BY <2>1, CountsAreNatural DEF Counts, Snapshot
  <2>3. Opening("patch", "write", s) \in Request
    BY <2>2, Openings DEF Operations
  <2>4. q \in Request /\ q.keeps = keeps /\ q.snap = s /\ q.pc = "write"
    <3>1. keeps \in SUBSET {"vars", "replicas"}
      OBVIOUS
    <3>2. QED
      BY <2>3, <3>1 DEF Request, Opening
  <2>5. req' = [req EXCEPT ![r] = q] /\ Live(a)
    BY <1>11 DEF BeginPatch, Begin
  <2>6. q.snap.app = a /\ ("vars" \in q.keeps => q.snap.vars = app[a].vars)
    BY <2>4
  <2> HIDE DEF q, s, keeps
  <2>7. QED
    BY <1>7, <2>4, <2>5, <2>6
<1>12. ASSUME NEW i \in CallerImages, NEW n \in Replicas, BeginDeploy(r, a, i, n)
       PROVE  AgreementInv'
  <2> DEFINE q == [Opening("deploy", "apply", Row(a)) EXCEPT !.image = i, !.asked = Clamp(n)]
  <2>1. i \in Image /\ Clamp(n) \in Nat
    BY BuilderAssumption, ClampedCounts, CountsAreNatural DEF Counts
  <2>2. Opening("deploy", "apply", Row(a)) \in Request
    BY <1>8, Openings DEF Operations
  <2>3. q \in Request /\ q.snap = Row(a) /\ q.pc = "apply"
    BY <2>1, <2>2 DEF Request, Opening
  <2>4. req' = [req EXCEPT ![r] = q] /\ Live(a) /\ q.op \in Ops
    BY <1>12 DEF BeginDeploy, Begin
  <2>5. "deploy" \in Ops
    BY <2>4 DEF Opening
  <2>6. RuntimeOf[a] = "spinkube"
    BY <2>5 DEF NoStrayDeploy
  <2> HIDE DEF q
  <2>7. QED
    BY <1>7, <1>8, <2>3, <2>4, <2>6
<1>13. ASSUME NEW op \in Ops, NEW f \in Fn, BeginFunctionOp(r, a, op, f)
       PROVE  AgreementInv'
  <2> DEFINE pc0 == IF op = "addfn" THEN "addfn" ELSE "count"
             q == [Opening(op, pc0, Row(a)) EXCEPT !.fn = f]
  <2>1. op \in Operations /\ pc0 \in {"addfn", "count"}
    BY ControlPlaneAssumption
  <2>2. Opening(op, pc0, Row(a)) \in Request
    BY <1>8, <2>1, Openings
  <2>3. q \in Request /\ q.snap = Row(a) /\ q.pc = pc0
    BY <2>2 DEF Request, Opening
  <2>4. req' = [req EXCEPT ![r] = q] /\ Live(a)
    BY <1>13 DEF BeginFunctionOp, Begin
  <2> HIDE DEF q, pc0
  <2>5. QED
    BY <1>7, <1>8, <2>1, <2>3, <2>4
<1>14. QED
  BY <1>1, <1>9, <1>10, <1>11, <1>12, <1>13

LEMMA NothingMovedAgrees ==
  ASSUME AgreementInv, UNCHANGED <<app, functions, spin, req, pc, snap>>
  PROVE  AgreementInv'
<1>1. BusyRequests' = BusyRequests /\ BusyBuilds' = BusyBuilds /\ OneAtATime'
  BY DEF AgreementInv, OneAtATime, BusyRequests, BusyBuilds
<1>2. OneLivePerName'
  BY DEF AgreementInv, OneLivePerName, Live
<1>3. \A r \in Req : RequestStands(r)'
  BY <1>1 DEF AgreementInv, RequestStands, At, AppOf, TargetName, Live, Exists
<1>4. \A b \in Build : BuildStands(b)'
  BY <1>1 DEF AgreementInv, BuildStands, Live
<1>5. SpinAppsAgree'
  BY DEF AgreementInv, SpinAppsAgree, Serving, AppOf, Live, Exists
<1>6. \A a \in App : Live(a)' => functions'[a] # {} \/ Serving(a, {"default"})'
  BY DEF AgreementInv, Serving, AppOf, Live
<1>7. QED
  BY <1>1, <1>2, <1>3, <1>4, <1>5, <1>6 DEF AgreementInv

\* What a build at work knows: that nothing else is.
LEMMA OnlyThisBuild ==
  ASSUME AgreementInv, NEW b \in Build, pc[b] \in Working
  PROVE  /\ BusyRequests = {} /\ \A x \in Req : req[x].pc \in AtRest
         /\ \A x \in Build : x # b => pc[x] \notin Working
         /\ Live(snap[b].app) /\ snap[b].vars = app[snap[b].app].vars
BY DEF AgreementInv, OneAtATime, BuildStands, BusyBuilds, BusyRequests

\* Only a build or nothing is at work after a step of a build, so that every
\* SpinApp has to agree with its row.
LEMMA BuildMoveAgrees ==
  ASSUME CPInv, AgreementInv, NEW b \in Build, BusyRequests = {}, req' = req,
         \A x \in Build : x # b => pc'[x] \notin Working,
         UNCHANGED <<app, functions>>,
         pc'[b] \in Working => Live(snap'[b].app) /\ snap'[b].vars = app[snap'[b].app].vars,
         \A n \in Names : spin'[n] # NoSpinApp =>
            /\ Live(spin'[n].app) /\ NameOf[spin'[n].app] = n
            /\ RuntimeOf[spin'[n].app] = "spinkube"
            /\ spin'[n].vars = app[spin'[n].app].vars
  PROVE  AgreementInv'
<1>1. BusyRequests' = {} /\ \A x \in Req : req[x].pc \in AtRest
  BY DEF BusyRequests
<1>2. BusyBuilds' \subseteq {b}
  BY DEF BusyBuilds
<1>3. OneAtATime' /\ OneLivePerName'
  BY <1>1, <1>2 DEF AgreementInv, OneAtATime, OneLivePerName, Live
<1>4. ASSUME NEW x \in Req PROVE RequestStands(x)'
  BY <1>1 DEF RequestStands, At, AtRest
<1>5. ASSUME NEW x \in Build PROVE BuildStands(x)'
  BY <1>2 DEF BuildStands, BusyBuilds, Live
<1>6. SpinAppsAgree'
  BY DEF SpinAppsAgree, Live, Exists
<1>7. ASSUME NEW a \in App, Live(a)' PROVE functions'[a] # {}
  BY <1>1, <1>7 DEF AgreementInv, Serving, AtRest, Live
<1>8. QED
  BY <1>3, <1>4, <1>5, <1>6, <1>7 DEF AgreementInv

LEMMA BuildAgrees ==
  ASSUME OneClient, CPInv, BuildInv, AgreementInv, NEW b \in Build,
         StartBuild(b) \/ ((Pipeline(b) \/ PodPushes(b) \/ JobEnds(b)) /\ req' = req)
  PROVE  AgreementInv'
<1>1. req' = req /\ UNCHANGED <<app, functions>>
  <2>1. BuildStep
    BY DEF BuildStep, StartBuild
  <2>2. QED
    BY <2>1, BuildStepKeepsRows DEF StartBuild
<1>2. /\ pc \in [Build -> Working \union {"idle", "done", "lost"}]
      /\ snap \in [Build -> Snapshot \union {NoSnapshot}]
      /\ spin \in [Names -> SpinApp \union {NoSpinApp}]
      /\ \A x \in Build : pc[x] # "idle" => snap[x] \in Snapshot
  BY DEF CPInv, CPTypeOK, TypeOK, DeployerTypeOK, RunnerTypeOK
<1>3. ASSUME \A x \in Req : req[x].pc \in AtRest
      PROVE  \A n \in Names : spin[n] # NoSpinApp =>
                /\ Live(spin[n].app) /\ NameOf[spin[n].app] = n
                /\ RuntimeOf[spin[n].app] = "spinkube"
                /\ spin[n].vars = app[spin[n].app].vars
  BY <1>3 DEF AgreementInv, SpinAppsAgree, Serving, AtRest, Live, Exists
<1>4. CASE StartBuild(b)
  <2>1. PICK a \in App : LoadForBuild(b, a)
    BY <1>4 DEF StartBuild
  <2>2. Quiet
    BY <1>4 DEF StartBuild, OneClient
  <2>3. BusyRequests = {} /\ \A x \in Req : req[x].pc \in AtRest
    BY <2>2 DEF Quiet, BusyRequests
  <2>4. \A x \in Build : x # b => pc'[x] \notin Working
    BY <1>2, <2>1, <2>2 DEF LoadForBuild, Step, Quiet, BusyBuilds
  <2>5. Live(snap'[b].app) /\ snap'[b].vars = app[snap'[b].app].vars /\ spin' = spin
    BY <1>2, <2>1 DEF LoadForBuild, Row, clusterVars
  <2>6. QED
    BY <1>1, <1>3, <2>3, <2>4, <2>5, BuildMoveAgrees
<1>5. CASE PodPushes(b) \/ JobEnds(b)
  <2>1. UNCHANGED <<app, functions, spin, req, pc, snap>>
    BY <1>1, <1>5 DEF PodPushes, JobEnds, clusterVars
  <2>2. QED
    BY <2>1, NothingMovedAgrees
<1>6. CASE Pipeline(b)
  <2>1. pc[b] \in Working /\ snap' = snap /\ \A x \in Build : x # b => pc'[x] = pc[x]
    BY <1>2, <1>6 DEF Pipeline, InsertBuildRow, CreateSecret, CreateJob, MarkRunning, PollComplete,
                PollGivesUp, DeployImage, ExposeImage, FinishBuild, FailBuild, Step,
                Working, Starting, Watching
  <2>2. /\ BusyRequests = {} /\ \A x \in Req : req[x].pc \in AtRest
        /\ \A x \in Build : x # b => pc'[x] \notin Working
        /\ Live(snap[b].app) /\ snap[b].vars = app[snap[b].app].vars
    BY <2>1, OnlyThisBuild
  <2>3. spin' = spin \/ DeployImage(b)
    BY <1>6 DEF Pipeline, InsertBuildRow, CreateSecret, CreateJob, MarkRunning, PollComplete,
                PollGivesUp, ExposeImage, ApplyVirtualService, FinishBuild, FailBuild, clusterVars
  <2>4. ASSUME DeployImage(b), NEW n \in Names, spin'[n] # NoSpinApp
        PROVE  /\ Live(spin'[n].app) /\ NameOf[spin'[n].app] = n
               /\ RuntimeOf[spin'[n].app] = "spinkube"
               /\ spin'[n].vars = app[spin'[n].app].vars
    <3>1. RuntimeOf[snap[b].app] = "spinkube" /\ snap[b] \in Snapshot
      BY <1>2, <2>4 DEF DeployImage, BuildInv, BuildProgress
    <3>2. CASE n = NameOf[snap[b].app] /\ spin'[n] = Desired(snap[b], b, 1)
      BY <2>2, <3>1, <3>2 DEF Desired
    <3>3. CASE spin'[n] = spin[n]
      BY <1>3, <2>2, <2>4, <3>3
    <3>4. QED
      BY <1>2, <2>4, <3>1, <3>2, <3>3 DEF DeployImage, ApplySpinApp
  <2>5. \A n \in Names : spin'[n] # NoSpinApp =>
            /\ Live(spin'[n].app) /\ NameOf[spin'[n].app] = n
            /\ RuntimeOf[spin'[n].app] = "spinkube"
            /\ spin'[n].vars = app[spin'[n].app].vars
    BY <1>3, <2>2, <2>3, <2>4
  <2>6. QED
    BY <1>1, <2>1, <2>2, <2>5, BuildMoveAgrees
<1>7. QED
  BY <1>4, <1>5, <1>6

LEMMA InitAgrees == CPInit => AgreementInv
<1> SUFFICES ASSUME CPInit PROVE AgreementInv
  OBVIOUS
<1>1. BusyRequests = {} /\ BusyBuilds = {} /\ \A r \in Req : req[r].pc = "waiting"
  BY DEF CPInit, Init, Waiting, BusyRequests, BusyBuilds, AtRest, Working, Starting, Watching
<1>2. OneLivePerName
  BY InitNames DEF CPInit, Init
<1>3. \A a \in App : Live(a) => functions[a] # {}
  BY DEF CPInit, Init, StoreInit, Live
<1>4. \A n \in Names : ~Exists(n)
  BY DEF CPInit, Init, DeployerInit, Exists
<1>5. QED
  BY <1>1, <1>2, <1>3, <1>4
     DEF AgreementInv, OneAtATime, RequestStands, BuildStands, SpinAppsAgree, At

LEMMA NextAgrees ==
  ASSUME OneClient, NoStrayDeploy
  PROVE  CPInv /\ BuildInv /\ AgreementInv /\ [CPNext]_cpVars => AgreementInv'
<1> SUFFICES ASSUME CPInv, BuildInv, AgreementInv, [CPNext]_cpVars PROVE AgreementInv'
  OBVIOUS
<1>1. ASSUME NEW r \in Req, Handler(r) PROVE AgreementInv'
  BY <1>1, CreateAgrees, DropAgrees, PatchAgrees, ClusterCallAgrees, FunctionCallAgrees
     DEF Handler, ClusterCall
<1>2. ~Die
  BY DEF Die, Crash, OneClient, CPInv, CPTypeOK, TypeOK, RunnerTypeOK
<1>3. CASE UNCHANGED cpVars
  BY <1>3, NothingMovedAgrees DEF cpVars, vars, storeVars, clusterVars, builderVars
<1>4. QED
  BY <1>1, <1>2, <1>3, ArrivalAgrees, BuildAgrees DEF CPNext

\* Used by one client at a time and without faults, rows, SpinApps and
\* functions agree whenever nothing is at work, whatever the operations, the
\* names and the runtimes (POST /deploy of a workerpool application, which
\* puts it in the cluster, excepted).
THEOREM AgreementInvariance ==
  ASSUME OneClient, NoStrayDeploy
  PROVE  CPSpec => []AgreementInv
<1>1. QED
  BY InitAgrees, NextAgrees, CPInvariance, BuildsAmongHandlers, PTL DEF CPSpec

\* SequentialAgreement, which the invariant strengthens by what the operation
\* at work has done so far: between operations rows, SpinApps and functions agree.
THEOREM PartsAgree ==
  ASSUME OneClient, NoStrayDeploy
  PROVE  CPSpec => []SequentialAgreement
<1>1. CPInv /\ AgreementInv => SequentialAgreement
  <2> SUFFICES ASSUME CPInv, AgreementInv, Quiet, NEW a \in App
               PROVE  /\ spin[NameOf[a]].app = a /\ RuntimeOf[a] = "spinkube" => Live(a)
                      /\ spin[NameOf[a]].app = a /\ Live(a) => spin[NameOf[a]].vars = app[a].vars
                      /\ Live(a) => functions[a] # {}
    BY DEF SequentialAgreement
  <2>1. \A r \in Req : req[r].pc \in AtRest
    BY DEF Quiet, BusyRequests
  <2>2. \A x, C : C \intersect AtRest = {} => ~Serving(x, C)
    BY <2>1 DEF Serving
  <2>3. ASSUME spin[NameOf[a]].app = a PROVE Live(a) /\ spin[NameOf[a]].vars = app[a].vars
    <3>1. NameOf[a] \in Names /\ Exists(NameOf[a])
      BY <2>3, StoreAssumption DEF Names, Exists, NoSpinApp
    <3>2. QED
      BY <2>2, <2>3, <3>1 DEF AgreementInv, SpinAppsAgree, AtRest
  <2>4. Live(a) => functions[a] # {}
    BY <2>2 DEF AgreementInv, AtRest
  <2>5. QED
    BY <2>3, <2>4
<1>2. QED
  BY <1>1, CPInvariance, AgreementInvariance, PTL

\* docs/reference/http-api.md:49, as far as it is true: after the delete of an
\* application by the only client no SpinApp of it is left.
THEOREM DeletesCascade ==
  ASSUME OneClient, NoStrayDeploy
  PROVE  CPSpec => []DeleteCascades
<1>1. AgreementInv => DeleteCascades
  <2> SUFFICES ASSUME AgreementInv, NEW a \in App, app[a].state = "deleted", spin[NameOf[a]].app = a
               PROVE  FALSE
    BY DEF DeleteCascades
  <2>1. NameOf[a] \in Names /\ Exists(NameOf[a])
    BY StoreAssumption DEF Names, Exists, NoSpinApp
  <2>2. QED
    BY <2>1 DEF AgreementInv, SpinAppsAgree, Live
<1>2. QED
  BY <1>1, AgreementInvariance, PTL
-----------------------------------------------------------------------------
(***************************************************************************)
(* What is deployed, where nobody names an image of their own by POST      *)
(* /deploy: the last success of each application, but while its delete or  *)
(* its next build is between two calls.                                    *)
(***************************************************************************)
SequentialPremise == CPInv /\ TablesInv /\ AgreementInv /\ DeploymentInv

LEMMA SucceededAreBuilds ==
  ASSUME NEW a \in App
  PROVE  /\ SucceededOf(a) \subseteq Build
         /\ UNCHANGED <<status, owner>> => SucceededOf(a)' = SucceededOf(a)
BY DEF SucceededOf

\* The newest success stays the deployed one while successes, order and image stay.
LEMMA NewestStays ==
  ASSUME NEW a \in App, NewestIsDeployed(a), UNCHANGED created,
         SucceededOf(a)' = SucceededOf(a), Exists(NameOf[a])',
         spin'[NameOf[a]].image = spin[NameOf[a]].image
  PROVE  NewestIsDeployed(a)'
BY DEF NewestIsDeployed

\* What a request at work knows of the deployments, and what it has to leave.
LEMMA DeployedBefore ==
  ASSUME SequentialPremise, NEW r \in Req, req[r].pc \notin AtRest,
         NEW a \in App, HasSuccess(a)
  PROVE  NewestIsDeployed(a) \/ (req[r].pc \in {"unexpose", "drop"} /\ AppOf(r) = a)
<1>1. BusyBuilds = {} /\ \A x \in Req : x # r => req[x].pc \in AtRest
  BY OnlyThisRequest DEF SequentialPremise, AgreementInv
<1>2. \A b \in Build : pc[b] \notin {"ingress", "finish"}
  BY <1>1 DEF BusyBuilds, Working, Watching
<1>3. QED
  BY <1>1, <1>2 DEF SequentialPremise, DeploymentInv, Serving, AtRest

LEMMA RequestDeploys ==
  ASSUME SequentialPremise, NEW r \in Req, BusyBuilds = {},
         \A x \in Req : x # r => req[x].pc \in AtRest /\ req'[x] = req[x],
         UNCHANGED <<pc, snap>>,
         req'[r].pc = "apply" =>
            Exists(TargetName(r))' /\ req'[r].image = spin'[TargetName(r)'].image,
         \A a \in App : HasSuccess(a)' =>
            NewestIsDeployed(a)' \/ (req'[r].pc \in {"unexpose", "drop"} /\ AppOf(r)' = a)
  PROVE  DeploymentInv'
<1>1. BusyBuilds' = {}
  BY DEF BusyBuilds
<1>2. ASSUME NEW x \in Req, req'[x].pc = "apply"
      PROVE  Exists(TargetName(x))' /\ req'[x].image = spin'[TargetName(x)'].image
  <2>1. x = r
    BY <1>2 DEF AtRest
  <2>2. QED
    BY <1>2, <2>1
<1>3. \A a \in App : HasSuccess(a)' => NewestIsDeployed(a)' \/ Serving(a, {"unexpose", "drop"})'
  BY DEF Serving
<1>4. QED
  BY <1>1, <1>2, <1>3 DEF DeploymentInv, At

\* A call that leaves SpinApps and builds alone, and brings no application back.
LEMMA QuietCallDeploys ==
  ASSUME SequentialPremise, NEW r \in Req, req[r].pc \notin AtRest,
         NEW to \in Onward, Goto(r, to),
         UNCHANGED <<builderVars, spin, status, owner, created>>,
         \A a \in App : HasSuccess(a)' => HasSuccess(a),
         req[r].pc \in {"unexpose", "drop"} => to \in {"unexpose", "drop"}
  PROVE  DeploymentInv'
<1>1. BusyBuilds = {} /\ \A x \in Req : x # r => req[x].pc \in AtRest
  BY OnlyThisRequest DEF SequentialPremise, AgreementInv
<1>2. /\ req[r] \in Request /\ req'[r] = [req[r] EXCEPT !.pc = to]
      /\ \A x \in Req : x # r => req'[x] = req[x]
  <2>1. req[r] # Waiting
    BY DEF Waiting, AtRest
  <2>2. QED
    BY <2>1, RequestMoved DEF SequentialPremise
<1>3. req'[r].pc = to /\ AppOf(r)' = AppOf(r) /\ to # "apply"
  BY <1>2 DEF Request, AppOf, Onward
<1>4. ASSUME NEW a \in App, HasSuccess(a)'
      PROVE  NewestIsDeployed(a)' \/ (to \in {"unexpose", "drop"} /\ AppOf(r) = a)
  <2>1. CASE NewestIsDeployed(a)
    <3>1. Exists(NameOf[a])'
      BY <2>1 DEF NewestIsDeployed, Exists
    <3>2. QED
      BY <2>1, <3>1, NewestStays, SucceededAreBuilds
  <2>2. CASE req[r].pc \in {"unexpose", "drop"} /\ AppOf(r) = a
    BY <2>2
  <2>3. QED
    BY <1>4, <2>1, <2>2, DeployedBefore
<1>5. UNCHANGED <<pc, snap>>
  BY DEF builderVars
<1>6. QED
  BY <1>1, <1>2, <1>3, <1>4, <1>5, RequestDeploys

\* An application that is not there yet has no builds.
LEMMA NoBuildsYet ==
  ASSUME TablesInv, NEW a \in App, app[a].state = "absent"
  PROVE  SucceededOf(a) = {}
<1> SUFFICES ASSUME NEW b \in Build, status[b] = "succeeded", owner[b] = a PROVE FALSE
  BY DEF SucceededOf
<1>1. Inserts(b) /\ BuildProgress(b)
  BY DEF TablesInv, BuildInv
<1>2. owner[b] = snap[b].app /\ pc[b] # "idle"
  BY <1>1 DEF BuildProgress
<1>3. QED
  BY <1>1, <1>2 DEF Inserts

\* Calls of the handlers that create, delete and change rows.
LEMMA StoreCallDeploys ==
  ASSUME OneClient, SequentialPremise, NEW r \in Req, StoreCall(r)
  PROVE  DeploymentInv'
<1> DEFINE a == AppOf(r)
<1>1. /\ req[r].pc \in {"insert", "default", "undo", "drop", "write", "addfn", "delfn"}
      /\ UNCHANGED <<clusterVars, builderVars>>
  BY DEF StoreCall, InsertApplication, InsertDefaultFunction, UndoCreate, FinishDelete,
         WriteConfig, InsertFunction, RemoveFunction, At
<1>2. req[r].pc \notin AtRest
  BY <1>1 DEF AtRest
<1>3. /\ a \in App /\ req[r] \in Request /\ CPInv
      /\ ~At(r, "insert") => app[a].state = "live"
  BY <1>2, AtWork DEF SequentialPremise
<1>4. /\ app \in [App -> Application] /\ status \in [Build -> BuildStatus \union {"absent"}]
      /\ UNCHANGED <<builderVars, spin>>
  BY <1>1 DEF SequentialPremise, CPInv, CPTypeOK, TypeOK, StoreTypeOK, clusterVars
<1>5. PICK to \in Onward : Goto(r, to)
  BY StoreCallIsElsewhere DEF SequentialPremise
<1>6. ASSUME req[r].pc # "drop", UNCHANGED <<status, owner, created>>,
             \A x \in App : HasSuccess(x)' => HasSuccess(x)
      PROVE  DeploymentInv'
  BY <1>1, <1>2, <1>4, <1>5, <1>6, QuietCallDeploys
<1>7. CASE InsertApplication(r)
  <2>1. req[r].pc # "drop" /\ UNCHANGED <<status, owner, created>>
    BY <1>7 DEF InsertApplication, At, CreateApplication, storeVars
  <2>2. ASSUME NEW x \in App, HasSuccess(x)' PROVE HasSuccess(x)
    <3>1. SucceededOf(x) # {} /\ SucceededOf(x)' = SucceededOf(x)
      BY <2>1, <2>2, SucceededAreBuilds DEF HasSuccess
    <3>2. app[x].state # "absent"
      BY <3>1, NoBuildsYet DEF SequentialPremise
    <3>3. app'[x] = app[x]
      BY <1>3, <1>4, <1>7, <3>2 DEF InsertApplication, CreateApplication, storeVars
    <3>4. QED
      BY <2>2, <3>1, <3>3 DEF HasSuccess, Live
  <2>3. QED
    BY <1>6, <2>1, <2>2
<1>8. CASE InsertDefaultFunction(r) \/ InsertFunction(r) \/ RemoveFunction(r)
  <2>1. req[r].pc # "drop" /\ UNCHANGED <<app, status, owner, created>>
    BY <1>8 DEF InsertDefaultFunction, InsertFunction, InsertFn, CreateFunction, RemoveFunction,
                DeleteFunction, At, storeVars
  <2>2. \A x \in App : HasSuccess(x)' => HasSuccess(x)
    BY <2>1 DEF HasSuccess, SucceededOf, Live
  <2>3. QED
    BY <1>6, <2>1, <2>2
<1>9. CASE WriteConfig(r)
  <2>1. req[r].pc # "drop" /\ UNCHANGED <<status, owner, created>>
    BY <1>9 DEF WriteConfig, UpdateApplicationConfig, At, storeVars
  <2>2. \A x \in App : app'[x].state = app[x].state
    BY <1>3, <1>4, <1>9 DEF WriteConfig, UpdateApplicationConfig, Application, storeVars
  <2>3. \A x \in App : HasSuccess(x)' => HasSuccess(x)
    BY <2>1, <2>2 DEF HasSuccess, SucceededOf, Live
  <2>4. QED
    BY <1>6, <2>1, <2>3
<1>10. CASE UndoCreate(r) \/ FinishDelete(r)
  <2>1. PICK fk \in ForeignKeys, whenOk \in {"done", "refused"} :
          DeleteApplication(a, fk) /\ Goto(r, whenOk)
    BY <1>3, <1>10 DEF UndoCreate, FinishDelete, DropRow, OneClient, Live, At
  <2>2. /\ app'[a].state = "deleted" /\ UNCHANGED created
        /\ \A x \in App : x # a => app'[x] = app[x] /\ SucceededOf(x)' = SucceededOf(x)
    BY <1>3, <1>4, <2>1 DEF DeleteApplication, Application, SucceededOf
  <2>3. /\ BusyBuilds = {} /\ \A x \in Req : x # r => req[x].pc \in AtRest
    BY <1>2, OnlyThisRequest DEF SequentialPremise, AgreementInv
  <2>4. whenOk \in Onward /\ req[r] # Waiting
    BY <1>2 DEF Onward, Waiting, AtRest
  <2>5. /\ req'[r] = [req[r] EXCEPT !.pc = whenOk]
        /\ \A x \in Req : x # r => req'[x] = req[x]
    BY <1>3, <2>1, <2>4, RequestMoved
  <2>6. req'[r].pc # "apply"
    BY <1>3, <2>5 DEF Request
  <2>7. ASSUME NEW x \in App, HasSuccess(x)' PROVE NewestIsDeployed(x)'
    <3>1. x # a /\ HasSuccess(x)
      BY <2>2, <2>7 DEF HasSuccess, Live
    <3>2. NewestIsDeployed(x)
      BY <1>2, <3>1, DeployedBefore
    <3>3. Exists(NameOf[x])'
      BY <1>4, <3>2 DEF NewestIsDeployed, Exists
    <3>4. QED
      BY <1>4, <2>2, <3>1, <3>2, <3>3, NewestStays
  <2>8. UNCHANGED <<pc, snap>>
    BY <1>4 DEF builderVars
  <2>9. QED
    BY <2>3, <2>5, <2>6, <2>7, <2>8, RequestDeploys
<1>11. QED
  BY <1>7, <1>8, <1>9, <1>10 DEF StoreCall

\* The calls of the cluster, and the read of the image that a PATCH re-applies.
LEMMA ClusterCallDeploys ==
  ASSUME OneClient, SequentialPremise, NEW r \in Req,
         ClusterCall(r) \/ ReadSpinApp(r) \/ CountFunctions(r)
  PROVE  DeploymentInv'
<1> DEFINE a == AppOf(r)
           n0 == TargetName(r)
<1>1. /\ req[r].pc \in {"undeploy", "unexpose", "apply", "ingress", "get", "count"}
      /\ UNCHANGED <<storeVars, builderVars>>
  BY DEF ClusterCall, Undeploy, Unexpose, ApplyForRequest, ExposeForRequest, ReadSpinApp,
         CountFunctions, At, vars
<1>2. req[r].pc \notin AtRest /\ ~At(r, "insert")
  BY <1>1 DEF AtRest, At
<1>3. /\ a \in App /\ n0 = NameOf[a] /\ n0 \in Names /\ req[r] \in Request /\ req[r] # Waiting
      /\ Live(a) /\ OneLivePerName /\ CPInv
  BY <1>2, AtWork DEF SequentialPremise, Live
<1>4. /\ spin \in [Names -> SpinApp \union {NoSpinApp}]
      /\ UNCHANGED <<app, status, owner, created, pc, snap>>
      /\ \A x \in App : /\ HasSuccess(x)' => HasSuccess(x)
                        /\ SucceededOf(x)' = SucceededOf(x)
  <2>1. UNCHANGED <<app, status, owner, created, pc, snap>>
    BY <1>1 DEF storeVars, builderVars
  <2>2. QED
    BY <1>3, <2>1 DEF CPInv, CPTypeOK, TypeOK, DeployerTypeOK, HasSuccess, SucceededOf, Live
<1>5. BusyBuilds = {} /\ \A x \in Req : x # r => req[x].pc \in AtRest
  BY <1>2, OnlyThisRequest DEF SequentialPremise, AgreementInv
<1>6. ASSUME NEW x \in App, HasSuccess(x)', req[r].pc # "unexpose" PROVE NewestIsDeployed(x)
  BY <1>1, <1>2, <1>4, <1>6, DeployedBefore
<1>7. CASE spin' = spin /\ \E to \in Onward : Goto(r, to) /\ (At(r, "unexpose") => to = "drop")
  <2>1. PICK to \in Onward : Goto(r, to) /\ (At(r, "unexpose") => to = "drop")
    BY <1>7
  <2>2. UNCHANGED <<builderVars, spin, status, owner, created>>
    BY <1>1, <1>4, <1>7
  <2>3. req[r].pc \in {"unexpose", "drop"} => to \in {"unexpose", "drop"}
    BY <1>1, <2>1 DEF At
  <2>4. QED
    BY <1>2, <1>4, <2>1, <2>2, <2>3, QuietCallDeploys
<1>8. CASE Undeploy(r)
  <2>1. Goto(r, "unexpose") /\ spin' = [spin EXCEPT ![n0] = NoSpinApp] /\ At(r, "undeploy")
    BY <1>8 DEF Undeploy, DeleteSpinApp, TakesEffect, OneClient
  <2>2. /\ req'[r] = [req[r] EXCEPT !.pc = "unexpose"]
        /\ \A x \in Req : x # r => req'[x] = req[x]
    BY <1>3, <2>1, RequestMoved DEF Onward
  <2>3. req'[r].pc = "unexpose" /\ AppOf(r)' = a
    BY <1>3, <2>2 DEF Request, AppOf
  <2>4. ASSUME NEW x \in App, HasSuccess(x)', x # a PROVE NewestIsDeployed(x)'
    <3>1. NewestIsDeployed(x) /\ Live(x)
      BY <1>4, <1>6, <2>1, <2>4 DEF HasSuccess, At
    <3>2. NameOf[x] # n0
      BY <1>3, <2>4, <3>1 DEF OneLivePerName
    <3>3. spin'[NameOf[x]] = spin[NameOf[x]]
      BY <1>4, <2>1, <3>2 DEF Names
    <3>4. Exists(NameOf[x])'
      BY <3>1, <3>3 DEF NewestIsDeployed, Exists
    <3>5. QED
      BY <1>4, <3>1, <3>3, <3>4, NewestStays
  <2>5. QED
    BY <1>4, <1>5, <2>2, <2>3, <2>4, RequestDeploys
<1>9. CASE ApplyForRequest(r)
  <2> DEFINE d == Desired(req[r].snap, req[r].image, req[r].asked)
  <2>1. Goto(r, "ingress") /\ spin' = [spin EXCEPT ![n0] = d] /\ At(r, "apply")
    BY <1>9 DEF ApplyForRequest, ApplySpinApp, TakesEffect, OneClient, TargetName, AppOf
  <2>2. Exists(n0) /\ spin[n0].image = req[r].image
    BY <2>1 DEF SequentialPremise, DeploymentInv
  <2>3. d.image = req[r].image /\ d.app = a /\ d # NoSpinApp
    BY <1>3, StoreAssumption DEF Desired, AppOf, NoSpinApp
  <2>4. /\ req'[r] = [req[r] EXCEPT !.pc = "ingress"]
        /\ \A x \in Req : x # r => req'[x] = req[x]
    BY <1>3, <2>1, RequestMoved DEF Onward
  <2>5. req'[r].pc # "apply"
    BY <1>3, <2>4 DEF Request
  <2>6. ASSUME NEW x \in App, HasSuccess(x)' PROVE NewestIsDeployed(x)'
    <3>1. NewestIsDeployed(x)
      BY <1>6, <2>1, <2>6 DEF At
    <3>2. spin'[NameOf[x]].image = spin[NameOf[x]].image /\ spin'[NameOf[x]] # NoSpinApp
      BY <1>3, <1>4, <2>1, <2>2, <2>3, <3>1 DEF NewestIsDeployed, Exists, Names
    <3>3. QED
      BY <1>4, <3>1, <3>2, NewestStays DEF Exists
  <2>7. QED
    BY <1>4, <1>5, <2>4, <2>5, <2>6, RequestDeploys
<1>10. CASE ReadSpinApp(r) /\ Exists(n0)
  <2>1. /\ At(r, "get") /\ UNCHANGED spin
        /\ req' = [req EXCEPT ![r].pc = "apply", ![r].image = spin[n0].image]
    BY <1>10 DEF ReadSpinApp, OneClient, vars, clusterVars
  <2>2. /\ req'[r] = [req[r] EXCEPT !.pc = "apply", !.image = spin[n0].image]
        /\ \A x \in Req : x # r => req'[x] = req[x]
    BY <1>3, <2>1 DEF CPInv, CPTypeOK
  <2>3. req'[r].image = spin[n0].image /\ TargetName(r)' = n0
    BY <1>3, <2>2 DEF Request, TargetName, AppOf
  <2>4. Exists(TargetName(r))' /\ req'[r].image = spin'[TargetName(r)'].image
    BY <1>10, <2>1, <2>3 DEF Exists
  <2>5. ASSUME NEW x \in App, HasSuccess(x)' PROVE NewestIsDeployed(x)'
    <3>1. NewestIsDeployed(x)
      BY <1>6, <2>1, <2>5 DEF At
    <3>2. QED
      BY <1>4, <2>1, <3>1, NewestStays DEF NewestIsDeployed, Exists
  <2>6. QED
    BY <1>4, <1>5, <2>2, <2>4, <2>5, RequestDeploys
<1>11. CASE Unexpose(r) \/ ExposeForRequest(r) \/ CountFunctions(r) \/ (ReadSpinApp(r) /\ ~Exists(n0))
  <2>1. spin' = spin
    BY <1>11 DEF Unexpose, ExposeForRequest, CountFunctions, ReadSpinApp, DeleteVirtualService,
                 ApplyVirtualService, vars, clusterVars
  <2>2. \E to \in {"drop", "done", "refused", "delfn"} : Goto(r, to) /\ (At(r, "unexpose") => to = "drop")
    BY <1>11 DEF Unexpose, ExposeForRequest, CountFunctions, ReadSpinApp, At
  <2>3. {"drop", "done", "refused", "delfn"} \subseteq Onward
    BY DEF Onward
  <2>4. QED
    BY <1>7, <2>1, <2>2, <2>3
<1>12. QED
  BY <1>8, <1>9, <1>10, <1>11 DEF ClusterCall

LEMMA ArrivalDeploys ==
  ASSUME OneClient, "deploy" \notin Ops, SequentialPremise, NEW r \in Req, Arrival(r)
  PROVE  DeploymentInv'
<1>1. PICK a \in App :
        \/ BeginCreate(r, a)
        \/ BeginDelete(r, a)
        \/ \E v \in Vars \union {Omitted}, n \in Replicas \union {Omitted} : BeginPatch(r, a, v, n)
        \/ \E i \in CallerImages, n \in Replicas : BeginDeploy(r, a, i, n)
        \/ \E op \in Ops, f \in Fn : BeginFunctionOp(r, a, op, f)
  BY DEF Arrival
<1>2. Quiet /\ UNCHANGED vars
  BY <1>1 DEF BeginCreate, BeginDelete, BeginPatch, BeginDeploy, BeginFunctionOp, Begin, OneClient
<1>3. /\ BusyBuilds = {} /\ \A x \in Req : req[x].pc \in AtRest
      /\ UNCHANGED <<pc, snap, app, status, owner, created, spin>>
  BY <1>2 DEF Quiet, BusyRequests, vars, storeVars, clusterVars, builderVars
<1>4. ~\E i \in CallerImages, n \in Replicas : BeginDeploy(r, a, i, n)
  BY DEF BeginDeploy, Begin, Opening
<1>5. \E q : q.pc # "apply" /\ req' = [req EXCEPT ![r] = q]
  BY <1>1, <1>4 DEF BeginCreate, BeginDelete, BeginPatch, BeginFunctionOp, Begin, Opening
<1>6. req'[r].pc # "apply" /\ \A x \in Req : x # r => req'[x] = req[x]
  BY <1>5 DEF SequentialPremise, CPInv, CPTypeOK
<1>7. ASSUME NEW x \in App, HasSuccess(x)' PROVE NewestIsDeployed(x)'
  <2>1. HasSuccess(x) /\ SucceededOf(x)' = SucceededOf(x)
    BY <1>3, <1>7 DEF HasSuccess, SucceededOf, Live
  <2>2. \A b \in Build : pc[b] \notin {"ingress", "finish"}
    BY <1>3 DEF BusyBuilds, Working, Watching
  <2>3. NewestIsDeployed(x)
    BY <1>3, <2>1, <2>2 DEF SequentialPremise, DeploymentInv, Serving, AtRest
  <2>4. QED
    BY <1>3, <2>1, <2>3, NewestStays DEF NewestIsDeployed, Exists
<1>8. QED
  BY <1>3, <1>6, <1>7, RequestDeploys

LEMMA NothingMovedDeploys ==
  ASSUME DeploymentInv, UNCHANGED <<app, status, owner, created, spin, req, pc, snap>>
  PROVE  DeploymentInv'
<1>1. BusyBuilds' = BusyBuilds
  BY DEF BusyBuilds
<1>2. \A b \in BusyBuilds : BuildIsNewest(b)'
  BY DEF DeploymentInv, BuildIsNewest, Exists
<1>3. ASSUME NEW a \in App
      PROVE  /\ HasSuccess(a)' => HasSuccess(a)
             /\ NewestIsDeployed(a) => NewestIsDeployed(a)'
             /\ Serving(a, {"unexpose", "drop"}) => Serving(a, {"unexpose", "drop"})'
  BY DEF HasSuccess, NewestIsDeployed, SucceededOf, Serving, AppOf, Live, Exists
<1>4. \A r \in Req : At(r, "apply")' =>
        Exists(TargetName(r))' /\ req'[r].image = spin'[TargetName(r)'].image
  BY DEF DeploymentInv, At, TargetName, AppOf, Exists
<1>5. \A a \in App : HasSuccess(a)' =>
        \/ NewestIsDeployed(a)'
        \/ \E b \in Build : pc'[b] \in {"ingress", "finish"} /\ snap'[b].app = a
        \/ Serving(a, {"unexpose", "drop"})'
  BY <1>3 DEF DeploymentInv
<1>6. QED
  BY <1>1, <1>2, <1>4, <1>5 DEF DeploymentInv

\* The same of a step of the only build at work.
LEMMA BuildMoveDeploys ==
  ASSUME SequentialPremise, NEW b \in Build, BusyRequests = {}, req' = req,
         \A x \in Build : x # b => pc'[x] \notin Working,
         pc'[b] \in Working => BuildIsNewest(b)',
         \A a \in App : HasSuccess(a)' =>
            NewestIsDeployed(a)' \/ (pc'[b] \in {"ingress", "finish"} /\ snap'[b].app = a)
  PROVE  DeploymentInv'
<1>1. BusyBuilds' \subseteq {b} /\ (b \in BusyBuilds' => pc'[b] \in Working)
  BY DEF BusyBuilds
<1>2. \A x \in Req : req'[x].pc # "apply"
  BY DEF BusyRequests, AtRest
<1>3. QED
  BY <1>1, <1>2 DEF DeploymentInv, At

LEMMA DeployedBeforeBuild ==
  ASSUME SequentialPremise, NEW b \in Build, BusyRequests = {},
         \A x \in Build : x # b => pc[x] \notin Working, NEW a \in App, HasSuccess(a)
  PROVE  NewestIsDeployed(a) \/ (pc[b] \in {"ingress", "finish"} /\ snap[b].app = a)
<1>1. ~Serving(a, {"unexpose", "drop"})
  BY DEF Serving, BusyRequests, AtRest
<1>2. \A x \in Build : pc[x] \in {"ingress", "finish"} => x = b
  BY DEF Working, Watching
<1>3. QED
  BY <1>1, <1>2 DEF SequentialPremise, DeploymentInv

LEMMA BuildDeploys ==
  ASSUME OneClient, SequentialPremise, NEW b \in Build,
         StartBuild(b) \/ ((Pipeline(b) \/ PodPushes(b) \/ JobEnds(b)) /\ req' = req)
  PROVE  DeploymentInv'
<1>1. req' = req /\ app' = app
  <2>1. BuildStep
    BY DEF BuildStep, StartBuild
  <2>2. QED
    BY <2>1, BuildStepKeepsRows DEF StartBuild
<1>2. /\ pc \in [Build -> Working \union {"idle", "done", "lost"}]
      /\ snap \in [Build -> Snapshot \union {NoSnapshot}]
      /\ spin \in [Names -> SpinApp \union {NoSpinApp}]
      /\ pc[b] # "idle" => snap[b] \in Snapshot
      /\ status \in [Build -> BuildStatus \union {"absent"}] /\ created \in Seq(Build)
      /\ owner \in [Build -> App \union {None}]
  BY DEF SequentialPremise, CPInv, CPTypeOK, TypeOK, DeployerTypeOK, RunnerTypeOK, StoreTypeOK
<1>3. CASE PodPushes(b) \/ JobEnds(b)
  <2>1. UNCHANGED <<app, status, owner, created, spin, req, pc, snap>>
    BY <1>1, <1>3 DEF PodPushes, JobEnds, clusterVars, storeVars
  <2>2. QED
    BY <2>1, NothingMovedDeploys DEF SequentialPremise
<1>4. CASE StartBuild(b)
  <2>1. PICK a \in App : LoadForBuild(b, a)
    BY <1>4 DEF StartBuild
  <2>2. Quiet
    BY <1>4 DEF StartBuild, OneClient
  <2>3. /\ BusyRequests = {} /\ \A x \in Build : pc[x] \notin Working
        /\ UNCHANGED <<status, owner, created, spin>>
    BY <2>1, <2>2 DEF Quiet, BusyBuilds, LoadForBuild, storeVars, clusterVars
  <2>4. pc'[b] = "row" /\ \A x \in Build : x # b => pc'[x] \notin Working
    BY <1>2, <2>1, <2>3 DEF LoadForBuild, Step
  <2>5. ASSUME NEW x \in App, HasSuccess(x)' PROVE NewestIsDeployed(x)'
    <3>1. HasSuccess(x) /\ SucceededOf(x)' = SucceededOf(x)
      BY <1>1, <2>3, <2>5 DEF HasSuccess, SucceededOf, Live
    <3>2. NewestIsDeployed(x)
      BY <2>3, <3>1, DeployedBeforeBuild DEF Working, Watching
    <3>3. QED
      BY <2>3, <3>1, <3>2, NewestStays DEF NewestIsDeployed, Exists
  <2>6. BuildIsNewest(b)'
    BY <2>4 DEF BuildIsNewest
  <2>7. QED
    BY <1>1, <2>3, <2>4, <2>5, <2>6, BuildMoveDeploys
<1>5. CASE Pipeline(b)
  <2> DEFINE a == snap[b].app
  <2>1. /\ pc[b] \in Working /\ snap' = snap /\ \A x \in Build : x # b => pc'[x] = pc[x]
    BY <1>2, <1>5 DEF Pipeline, InsertBuildRow, CreateSecret, CreateJob, MarkRunning, PollComplete,
                PollGivesUp, DeployImage, ExposeImage, FinishBuild, FailBuild, Step,
                Working, Starting, Watching
  <2>2. /\ BusyRequests = {} /\ \A x \in Build : x # b => pc[x] \notin Working /\ pc'[x] \notin Working
        /\ Live(a)
    BY <2>1, OnlyThisBuild DEF SequentialPremise
  <2>3. a \in App /\ NameOf[a] \in Names /\ BuildIsNewest(b) /\ BuildProgress(b)
    <3>1. snap[b] \in Snapshot
      BY <1>2, <2>1 DEF Working, Starting, Watching
    <3>2. BuildIsNewest(b) /\ BuildProgress(b)
      BY <2>1 DEF SequentialPremise, DeploymentInv, BusyBuilds, TablesInv, BuildInv
    <3>3. QED
      BY <3>1, <3>2 DEF Snapshot, Names
  <2>4. status[b] # "succeeded"
    BY <2>1, <2>3 DEF BuildProgress, Terminal, Working, Starting, Watching
  <2>5. ASSUME UNCHANGED <<created, spin>>, \A x \in App : SucceededOf(x)' = SucceededOf(x),
               pc[b] \in {"ingress", "finish"} => pc'[b] = "finish",
               pc'[b] \in Working => BuildIsNewest(b)'
        PROVE  DeploymentInv'
    <3>1. ASSUME NEW x \in App, HasSuccess(x)'
          PROVE  NewestIsDeployed(x)' \/ (pc'[b] \in {"ingress", "finish"} /\ snap'[b].app = x)
      <4>1. HasSuccess(x)
        BY <1>1, <2>5, <3>1 DEF HasSuccess, Live
      <4>2. CASE NewestIsDeployed(x)
        BY <2>5, <4>2, NewestStays DEF NewestIsDeployed, Exists
      <4>3. CASE pc[b] \in {"ingress", "finish"} /\ a = x
        BY <2>1, <2>5, <4>3
      <4>4. QED
        BY <2>2, <4>1, <4>2, <4>3, DeployedBeforeBuild
    <3>2. QED
      BY <1>1, <2>2, <2>5, <3>1, BuildMoveDeploys
  <2>6. CASE \/ CreateSecret(b) \/ CreateJob(b) \/ PollComplete(b) \/ PollGivesUp(b) \/ ExposeImage(b)
    <3>1. UNCHANGED <<status, owner, created, spin>> /\ pc[b] # "row" /\ pc'[b] # "row"
      BY <1>2, <2>6 DEF CreateSecret, CreateJob, PollComplete, PollGivesUp, ExposeImage, Step,
                        ApplyVirtualService, storeVars, clusterVars
    <3>2. /\ pc[b] \in {"ingress", "finish"} => pc'[b] = "finish" /\ pc[b] = "ingress"
          /\ pc'[b] \in {"ingress", "finish"} => pc[b] = "ingress" \/ RuntimeOf[a] = "workerpool"
      BY <1>2, <2>6 DEF CreateSecret, CreateJob, PollComplete, PollGivesUp, ExposeImage, Step
    <3>3. BuildIsNewest(b)'
      BY <2>1, <2>3, <3>1, <3>2 DEF BuildIsNewest, Exists
    <3>4. QED
      BY <2>5, <3>1, <3>2, <3>3, SucceededAreBuilds
  <2>7. CASE MarkRunning(b) \/ FailBuild(b)
    <3>1. PICK s \in {"running", "failed"} : UpdateBuildStatus(b, s)
      BY <2>7 DEF MarkRunning, FailBuild, WriteStatus, OneClient
    <3>2. /\ UNCHANGED <<owner, created, spin>>
          /\ status'[b] # "succeeded" /\ (status[b] # "absent" => status'[b] # "absent")
          /\ \A x \in Build : x # b => status'[x] = status[x]
      BY <1>2, <2>4, <2>7, <3>1 DEF UpdateBuildStatus, MarkRunning, FailBuild, clusterVars
    <3>3. pc[b] \in {"mark", "fail"} /\ pc'[b] \in {"poll", "done"}
      BY <1>2, <2>7 DEF MarkRunning, FailBuild, Step
    <3>4. BuildIsNewest(b)'
      BY <2>3, <3>2, <3>3 DEF BuildIsNewest
    <3>5. \A x \in App : SucceededOf(x)' = SucceededOf(x)
      BY <2>4, <3>2 DEF SucceededOf
    <3>6. QED
      BY <2>5, <3>2, <3>3, <3>4, <3>5
  <2>8. CASE InsertBuildRow(b)
    <3>1. CASE UNCHANGED storeVars /\ pc'[b] = "done"
      <4>1. UNCHANGED <<status, owner, created, spin>> /\ pc[b] = "row"
        BY <2>8, <3>1 DEF InsertBuildRow, storeVars, clusterVars
      <4>2. QED
        BY <2>5, <3>1, <4>1, SucceededAreBuilds DEF Working, Starting, Watching
    <3>2. CASE CreateBuild(b, a) /\ pc'[b] = "secret"
      <4> DEFINE n == Len(created)
      <4>1. /\ spin' = spin /\ pc[b] = "row"
            /\ status'[b] = "pending" /\ \A x \in Build : x # b => status'[x] = status[x] /\ owner'[x] = owner[x]
        BY <1>2, <2>8, <3>2 DEF InsertBuildRow, CreateBuild, clusterVars
      <4>2. /\ n \in Nat /\ DOMAIN created = 1..n /\ DOMAIN created' = 1..(n + 1)
            /\ created'[n + 1] = b /\ Len(created') = n + 1 /\ created' # <<>>
            /\ \A i \in 1..n : created'[i] = created[i]
        BY <1>2, <3>2 DEF CreateBuild
      <4>3. \A x \in App : SucceededOf(x)' = SucceededOf(x) /\ b \notin SucceededOf(x)
        BY <2>4, <4>1 DEF SucceededOf
      <4>4. BuildIsNewest(b)'
        BY <3>2, <4>1, <4>2 DEF BuildIsNewest
      <4>5. ASSUME NEW x \in App, HasSuccess(x)' PROVE NewestIsDeployed(x)'
        <5>1. HasSuccess(x)
          BY <1>1, <4>3, <4>5 DEF HasSuccess, Live
        <5>2. NewestIsDeployed(x)
          BY <2>2, <4>1, <5>1, DeployedBeforeBuild
        <5>3. PICK i \in 1..n :
                /\ created[i] \in SucceededOf(x)
                /\ Exists(NameOf[x]) /\ spin[NameOf[x]].image = created[i]
                /\ \A j \in 1..n : created[j] \in SucceededOf(x) => j <= i
          BY <4>2, <5>2 DEF NewestIsDeployed
        <5>4. i \in DOMAIN created' /\ created'[i] = created[i]
          BY <4>2
        <5>5. ASSUME NEW j \in 1..(n + 1), created'[j] \in SucceededOf(x) PROVE j <= i
          <6>1. j \in 1..n
            BY <4>2, <4>3, <5>5
          <6>2. QED
            BY <4>2, <5>3, <5>5, <6>1
        <5>6. Exists(NameOf[x])' /\ spin'[NameOf[x]].image = created'[i]
          BY <4>1, <5>3, <5>4 DEF Exists
        <5>7. QED
          BY <4>2, <4>3, <5>3, <5>4, <5>5, <5>6 DEF NewestIsDeployed
      <4>6. QED
        BY <1>1, <2>2, <4>4, <4>5, BuildMoveDeploys
    <3>3. QED
      BY <1>2, <2>8, <3>1, <3>2 DEF InsertBuildRow, Step
  <2>9. CASE DeployImage(b)
    <3> DEFINE d == Desired(snap[b], b, 1)
    <3>1. /\ spin' = [spin EXCEPT ![NameOf[a]] = d] /\ pc[b] = "deploy" /\ pc'[b] = "ingress"
          /\ UNCHANGED <<status, owner, created>>
      BY <1>2, <2>9 DEF DeployImage, ApplySpinApp, TakesEffect, OneClient, Step, storeVars
    <3>2. d.image = b /\ d # NoSpinApp
      BY <2>3, StoreAssumption DEF Desired, NoSpinApp
    <3>3. spin'[NameOf[a]] = d /\ Exists(NameOf[a])'
      <4>1. spin'[NameOf[a]] = d
        BY <1>2, <2>3, <3>1
      <4>2. QED
        BY <2>1, <3>2, <4>1 DEF Exists
    <3>4. BuildIsNewest(b)'
      BY <2>1, <2>3, <3>1, <3>2, <3>3 DEF BuildIsNewest
    <3>5. ASSUME NEW x \in App, HasSuccess(x)', x # a PROVE NewestIsDeployed(x)'
      <4>1. HasSuccess(x) /\ SucceededOf(x)' = SucceededOf(x) /\ Live(x)
        BY <1>1, <3>1, <3>5 DEF HasSuccess, SucceededOf, Live
      <4>2. NewestIsDeployed(x)
        BY <2>2, <3>1, <4>1, DeployedBeforeBuild
      <4>3. NameOf[x] # NameOf[a]
        BY <2>2, <2>3, <3>5, <4>1 DEF SequentialPremise, AgreementInv, OneLivePerName
      <4>4. spin'[NameOf[x]] = spin[NameOf[x]]
        BY <1>2, <3>1, <4>3 DEF Names
      <4>5. QED
        BY <3>1, <4>1, <4>2, <4>4, NewestStays DEF NewestIsDeployed, Exists
    <3>6. QED
      BY <1>1, <2>1, <2>2, <3>1, <3>4, <3>5, BuildMoveDeploys
  <2>10. CASE FinishBuild(b)
    <3> DEFINE n == Len(created)
    <3>1. UpdateBuildStatus(b, "succeeded") /\ pc[b] = "finish" /\ pc'[b] = "done" /\ spin' = spin
      BY <1>2, <2>10 DEF FinishBuild, WriteStatus, OneClient, Step, clusterVars
    <3>2. /\ UNCHANGED <<owner, created>> /\ \A x \in Build : x # b => status'[x] = status[x]
          /\ status'[b] = "succeeded" /\ owner[b] = a
      BY <1>2, <2>3, <3>1 DEF UpdateBuildStatus, BuildIsNewest, BuildProgress
    <3>3. n \in Nat /\ DOMAIN created = 1..n /\ n \in 1..n /\ created[n] = b
      BY <1>2, <2>3, <3>1 DEF BuildIsNewest
    <3>4. ASSUME NEW x \in App, HasSuccess(x)' PROVE NewestIsDeployed(x)'
      <4>1. CASE x = a
        <5>1. b \in SucceededOf(x)' /\ RuntimeOf[a] = "spinkube"
          BY <3>2, <3>4, <4>1 DEF SucceededOf, HasSuccess
        <5>2. Exists(NameOf[x])' /\ spin'[NameOf[x]].image = b
          BY <2>3, <3>1, <4>1, <5>1 DEF BuildIsNewest, Exists
        <5>3. \A j \in 1..n : j <= n
          BY <3>3
        <5>4. QED
          BY <3>2, <3>3, <5>1, <5>2, <5>3 DEF NewestIsDeployed
      <4>2. CASE x # a
        <5>1. SucceededOf(x)' = SucceededOf(x)
          BY <3>2, <4>2 DEF SucceededOf
        <5>2. HasSuccess(x)
          BY <1>1, <3>4, <5>1 DEF HasSuccess, Live
        <5>3. NewestIsDeployed(x)
          BY <2>2, <4>2, <5>2, DeployedBeforeBuild
        <5>4. QED
          BY <3>1, <3>2, <5>1, <5>3, NewestStays DEF NewestIsDeployed, Exists
      <4>3. QED
        BY <4>1, <4>2
    <3>5. pc'[b] \notin Working
      BY <3>1 DEF Working, Starting, Watching
    <3>6. QED
      BY <1>1, <2>2, <3>4, <3>5, BuildMoveDeploys
  <2>11. QED
    BY <1>5, <2>6, <2>7, <2>8, <2>9, <2>10 DEF Pipeline
<1>6. QED
  BY <1>3, <1>4, <1>5

LEMMA InitDeploys == CPInit => DeploymentInv
<1> SUFFICES ASSUME CPInit PROVE DeploymentInv
  OBVIOUS
<1>1. BusyBuilds = {} /\ \A r \in Req : req[r].pc = "waiting"
  BY DEF CPInit, Init, Waiting, BusyBuilds, Working, Starting, Watching
<1>2. \A a \in App : SucceededOf(a) = {}
  BY DEF CPInit, Init, StoreInit, SucceededOf
<1>3. QED
  BY <1>1, <1>2 DEF DeploymentInv, HasSuccess, At

LEMMA NextDeploys ==
  ASSUME OneClient, "deploy" \notin Ops
  PROVE  SequentialPremise /\ [CPNext]_cpVars => DeploymentInv'
<1> SUFFICES ASSUME SequentialPremise, [CPNext]_cpVars PROVE DeploymentInv'
  OBVIOUS
<1>1. ASSUME NEW r \in Req, Handler(r) PROVE DeploymentInv'
  BY <1>1, StoreCallDeploys, ClusterCallDeploys DEF Handler, StoreCall, ClusterCall
<1>2. ~Die
  BY DEF Die, Crash, OneClient, SequentialPremise, CPInv, CPTypeOK, TypeOK, RunnerTypeOK
<1>3. CASE UNCHANGED cpVars
  BY <1>3, NothingMovedDeploys
     DEF SequentialPremise, cpVars, vars, storeVars, clusterVars, builderVars
<1>4. QED
  BY <1>1, <1>2, <1>3, ArrivalDeploys, BuildDeploys DEF CPNext

\* The two inductive invariants of the sequential control plane, together.
THEOREM SequentialInvariance ==
  ASSUME OneClient, "deploy" \notin Ops
  PROVE  CPSpec => []SequentialInv
<1>1. NoStrayDeploy
  BY DEF NoStrayDeploy
<1>2. CPSpec => []AgreementInv
  BY <1>1, AgreementInvariance
<1>3. CPSpec => []TablesInv
  BY HandlersWithinBuilder, TablesInvariance, PTL DEF BuilderSpec
<1>4. CPInv /\ TablesInv /\ AgreementInv /\ DeploymentInv /\ [CPNext]_cpVars => DeploymentInv'
  BY NextDeploys DEF SequentialPremise
<1>5. AgreementInv /\ DeploymentInv => SequentialInv
  BY DEF SequentialInv
<1>6. QED
  BY <1>2, <1>3, <1>4, <1>5, InitDeploys, CPInvariance, PTL DEF CPSpec

\* The stamps of the builds table hold among the handlers: one per row.
LEMMA StampsInvariance == CPSpec => []StampsInv
<1>1. CPSpec => StoreInit /\ [][TableStep]_seenVars
  BY TablesAmongHandlers DEF TablesSpec
<1>2. CPInv => StoreTypeOK
  BY DEF CPInv, CPTypeOK, TypeOK
<1>3. QED
  BY <1>1, <1>2, InitStamps, StampsKept, CPInvariance, PTL

\* docs/guide/concepts.md:80, as far as it is true: with one client at a time,
\* no fault and no POST /deploy, every spinkube application with a success runs
\* the image of its latest whenever nothing is at work.
THEOREM LatestDeployed ==
  ASSUME OneClient, "deploy" \notin Ops
  PROVE  CPSpec => []LatestIsDeployed
<1>1. CPInv /\ BuildInv /\ SequentialInv /\ StampsInv => LatestIsDeployed
  <2> SUFFICES ASSUME CPInv, BuildInv, SequentialInv, StampsInv, Quiet, NEW a \in App,
                      Live(a), RuntimeOf[a] = "spinkube", SucceededOf(a) # {}
               PROVE  \E b \in SucceededOf(a) :
                        /\ spin[NameOf[a]] # NoSpinApp
                        /\ spin[NameOf[a]].image = b
                        /\ \A b2 \in SucceededOf(a) : Position(b2) <= Position(b)
    BY DEF LatestIsDeployed
  <2>1. ~Serving(a, {"unexpose", "drop"})
    BY DEF Quiet, BusyRequests, Serving, AtRest
  <2>2. \A b \in Build : pc[b] \notin {"ingress", "finish"}
    BY DEF Quiet, BusyBuilds, Working, Watching
  <2>3. NewestIsDeployed(a)
    BY <2>1, <2>2 DEF SequentialInv, DeploymentInv, HasSuccess
  <2>4. PICK i \in DOMAIN created :
          /\ created[i] \in SucceededOf(a)
          /\ Exists(NameOf[a]) /\ spin[NameOf[a]].image = created[i]
          /\ \A j \in DOMAIN created : created[j] \in SucceededOf(a) => j <= i
    BY <2>3 DEF NewestIsDeployed
  <2>5. ASSUME NEW b \in SucceededOf(a)
        PROVE  Position(b) \in DOMAIN created /\ created[Position(b)] = b
    <3>1. b \in Build /\ owner[b] # None
      BY StoreAssumption DEF SucceededOf
    <3>2. \E k \in DOMAIN created : created[k] = b
      BY <3>1 DEF StampsInv, Stamped
    <3>3. QED
      BY <3>2 DEF Position
  <2>6. Position(created[i]) = i
    BY <2>4, <2>5 DEF StampsInv, Distinct
  <2>7. \A b2 \in SucceededOf(a) : Position(b2) <= Position(created[i])
    BY <2>4, <2>5, <2>6
  <2>8. QED
    BY <2>4, <2>7 DEF Exists
<1>2. QED
  BY <1>1, SequentialInvariance, StampsInvariance, CPInvariance, BuildsAmongHandlers, PTL
=============================================================================
