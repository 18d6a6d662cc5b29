---------------------------- MODULE ControlPlane ----------------------------
(***************************************************************************)
(* The control plane's write side as one program: the build pipeline of    *)
(* module Builder together with the handlers of httpapi/applications.go    *)
(* and httpapi/functions.go.  A handler is a sequence of store and cluster *)
(* calls on a row it loaded at its start; net/http runs every request on   *)
(* its own goroutine and no lock is taken, so the calls of any number of   *)
(* requests and watchers interleave.                                       *)
(***************************************************************************)
EXTENDS Builder, FiniteSets

CONSTANTS Req,        \* requests of an instance; each is served once
          Ops,        \* the operations clients use in an instance
          Overlap,    \* may clients start an operation while another is at work?
          Omitted     \* a field that the body of a PATCH leaves out

Operations == {"create", "delete", "patch", "deploy", "addfn", "delfn"}

ASSUME ControlPlaneAssumption ==
    /\ Ops \subseteq Operations
    /\ Overlap \in BOOLEAN
    /\ Omitted \notin Vars \union Nat

VARIABLE req    \* req[r]: the state of request r

cpVars == <<vars, req>>

\* pc is the call the handler makes next; keeps are the fields a PATCH omits.
Request ==
    [op : Operations, pc : {"insert", "default", "undo", "undeploy", "unexpose",
                            "drop", "write", "get", "apply", "ingress", "addfn",
                            "count", "delfn", "done", "refused", "lost"},
     snap : Snapshot, image : Image \union {None}, asked : Nat,
     fn : Fn, keeps : SUBSET {"vars", "replicas"}]
Waiting == [pc |-> "waiting"]

CPTypeOK ==
    /\ TypeOK
    /\ req \in [Req -> Request \union {Waiting}]

CPInit == Init /\ req = [r \in Req |-> Waiting]

AtRest == {"waiting", "done", "refused", "lost"}
BusyRequests == {r \in Req : req[r].pc \notin AtRest}
BusyBuilds == {b \in Build : pc[b] \in Working}
Quiet == BusyRequests = {} /\ BusyBuilds = {}

Begin(r, request) ==
    /\ req[r] = Waiting
    /\ request.op \in Ops
    /\ Overlap \/ Quiet
    /\ req' = [req EXCEPT ![r] = request]

Opening(op, pc0, snap0) ==
    [op |-> op, pc |-> pc0, snap |-> snap0, image |-> None, asked |-> 0,
     fn |-> DefaultFn, keeps |-> {}]

Goto(r, to) == req' = [req EXCEPT ![r].pc = to]

At(r, at) == req[r].pc = at
AppOf(r) == req[r].snap.app
TargetName(r) == NameOf[AppOf(r)]
-----------------------------------------------------------------------------
(***************************************************************************)
(* POST /applications: the row, its first function, and on failure of the  *)
(* latter a best-effort removal of the former.                             *)
(***************************************************************************)
BeginCreate(r, a) ==
    /\ app[a].state = "absent"
    /\ Begin(r, Opening("create", "insert", [app |-> a, vars |-> NoVars, replicas |-> 1]))
    /\ UNCHANGED vars

InsertApplication(r) ==
    /\ At(r, "insert")
    /\ \/ /\ CreateApplication(AppOf(r))
          /\ Goto(r, "default")
       \/ /\ StoreAnswers # {"ok"} \/ ~NameFree(AppOf(r))
          /\ Goto(r, "refused")
          /\ UNCHANGED storeVars
    /\ UNCHANGED <<clusterVars, builderVars>>

InsertFn(r, fk, answer, whenNot) ==
    IF answer = "ok" /\ CanInsertFor(AppOf(r), fk) /\ req[r].fn \notin functions[AppOf(r)]
    THEN CreateFunction(AppOf(r), req[r].fn, fk) /\ Goto(r, "done")
    ELSE UNCHANGED storeVars /\ Goto(r, whenNot)

InsertDefaultFunction(r) ==
    /\ At(r, "default")
    /\ \E fk \in ForeignKeys, answer \in StoreAnswers :
          InsertFn(r, fk, answer, "undo")
    /\ UNCHANGED <<clusterVars, builderVars>>

\* Mutant: the builds are failed instead of deleted.
DropRowFailingBuilds(r, whenOk, whenNot) ==
    /\ app' = [app EXCEPT ![AppOf(r)].state = "deleted"]
    /\ status' = [b \in Build |-> IF owner[b] = AppOf(r) THEN "failed" ELSE status[b]]
    /\ Goto(r, whenOk)
    /\ UNCHANGED <<functions, owner, created>>

\* The last statement of a create that failed and of every delete.
DropRow(r, whenOk, whenNot) ==
    \E fk \in ForeignKeys, answer \in StoreAnswers :
        IF answer = "ok" /\ Live(AppOf(r))
        THEN DeleteApplication(AppOf(r), fk) /\ Goto(r, whenOk)
        ELSE UNCHANGED storeVars /\ Goto(r, whenNot)

UndoCreate(r) ==
    /\ At(r, "undo")
    /\ DropRow(r, "refused", "refused")
    /\ UNCHANGED <<clusterVars, builderVars>>
-----------------------------------------------------------------------------
(***************************************************************************)
(* DELETE /applications/{appId}: the cluster first, and the row only when  *)
(* that succeeded; a workerpool application has nothing to undeploy.       *)
(***************************************************************************)
\* Mutant: the SpinApp is left to somebody else.
BeginDeleteOfRow(r, a) ==
    /\ Live(a)
    /\ Begin(r, Opening("delete", "drop", Row(a)))
    /\ UNCHANGED vars

BeginDelete(r, a) ==
    /\ Live(a)
    /\ Begin(r, Opening("delete",
                        IF RuntimeOf[a] = "workerpool" THEN "drop" ELSE "undeploy",
                        Row(a)))
    /\ UNCHANGED vars

Undeploy(r) ==
    /\ At(r, "undeploy")
    /\ \E answer \in KubeAnswers :
          /\ DeleteSpinApp(TargetName(r), answer)
          /\ Goto(r, IF answer = "ok" THEN "unexpose" ELSE "refused")
    /\ UNCHANGED <<storeVars, builderVars>>

Unexpose(r) ==
    /\ At(r, "unexpose")
    /\ \E answer \in KubeAnswers : DeleteVirtualService(TargetName(r), answer)
    /\ Goto(r, "drop")
    /\ UNCHANGED <<storeVars, builderVars>>

FinishDelete(r) ==
    /\ At(r, "drop")
    /\ DropRow(r, "done", "refused")
    /\ UNCHANGED <<clusterVars, builderVars>>
-----------------------------------------------------------------------------
(***************************************************************************)
(* PATCH /applications/{appId}: every column is written from the row       *)
(* loaded at the start with the fields of the body put over it; then, if   *)
(* the body had a field that matters, the SpinApp is read and re-applied   *)
(* with the image found there.  The re-deploy's error is only logged.      *)
(***************************************************************************)
BeginPatch(r, a, v, n) ==
    /\ Live(a)
    /\ Begin(r, [Opening("patch", "write",
                         [app |-> a,
                          vars |-> IF v = Omitted THEN app[a].vars ELSE v,
                          replicas |-> IF n = Omitted THEN app[a].replicas ELSE n])
                 EXCEPT !.keeps = {k \in {"vars", "replicas"} :
                                      IF k = "vars" THEN v = Omitted ELSE n = Omitted}])
    /\ UNCHANGED vars

WriteConfig(r) ==
    /\ At(r, "write")
    /\ \E answer \in StoreAnswers :
          IF answer = "ok" /\ Live(AppOf(r))
          THEN /\ UpdateApplicationConfig(AppOf(r), req[r].snap.vars, req[r].snap.replicas)
               /\ Goto(r, IF RuntimeOf[AppOf(r)] = "workerpool" \/ req[r].keeps = {"vars", "replicas"}
                          THEN "done" ELSE "get")
          ELSE UNCHANGED storeVars /\ Goto(r, "refused")
    /\ UNCHANGED <<clusterVars, builderVars>>

\* Mutant: the first SpinApp found, whoever's it is.
ReadAnySpinApp(r) ==
    /\ At(r, "get")
    /\ \E n \in Names :
          /\ Exists(n)
          /\ req' = [req EXCEPT ![r].pc = "apply", ![r].image = spin[n].image]
    /\ UNCHANGED vars

ReadSpinApp(r) ==
    /\ At(r, "get")
    /\ \/ /\ Exists(TargetName(r))
          /\ req' = [req EXCEPT ![r].pc = "apply", ![r].image = spin[TargetName(r)].image]
       \/ /\ ~Exists(TargetName(r)) \/ KubeAnswers # {"ok"}
          /\ Goto(r, "done")
    /\ UNCHANGED vars
-----------------------------------------------------------------------------
(***************************************************************************)
(* POST /applications/{appId}/deploy: an image and a replica count of the  *)
(* caller's, whatever the runtime of the application.  The two halves of   *)
(* Deploy also end a PATCH.                                                *)
(***************************************************************************)
BeginDeploy(r, a, image, n) ==
    /\ Live(a)
    /\ Begin(r, [Opening("deploy", "apply", Row(a))
                 EXCEPT !.image = image, !.asked = Clamp(n)])
    /\ UNCHANGED vars

ApplyForRequest(r) ==
    /\ At(r, "apply")
    /\ \E answer \in KubeAnswers :
          /\ ApplySpinApp(req[r].snap, req[r].image, req[r].asked, answer)
          /\ Goto(r, IF answer = "ok" THEN "ingress"
                     ELSE IF req[r].op = "patch" THEN "done" ELSE "refused")
    /\ UNCHANGED <<storeVars, builderVars>>

ExposeForRequest(r) ==
    /\ At(r, "ingress")
    /\ \E answer \in KubeAnswers : ApplyVirtualService(TargetName(r), answer)
    /\ Goto(r, "done")
    /\ UNCHANGED <<storeVars, builderVars>>
-----------------------------------------------------------------------------
(***************************************************************************)
(* POST and DELETE of a function: the count that protects the last one is  *)
(* taken in a statement of its own.                                        *)
(***************************************************************************)
BeginFunctionOp(r, a, op, f) ==
    /\ op \in {"addfn", "delfn"}
    /\ Live(a)
    /\ op = "delfn" => f \in functions[a]
    /\ Begin(r, [Opening(op, IF op = "addfn" THEN "addfn" ELSE "count", Row(a)) EXCEPT !.fn = f])
    /\ UNCHANGED vars

InsertFunction(r) ==
    /\ At(r, "addfn")
    /\ \E fk \in ForeignKeys, answer \in StoreAnswers :
          InsertFn(r, fk, answer, "refused")
    /\ UNCHANGED <<clusterVars, builderVars>>

\* Mutant: the check is off by one.
CountBelowOne(r) ==
    /\ At(r, "count")
    /\ \/ Goto(r, IF Cardinality(functions[AppOf(r)]) < 1 THEN "refused" ELSE "delfn")
       \/ StoreAnswers # {"ok"} /\ Goto(r, "refused")
    /\ UNCHANGED vars

CountFunctions(r) ==
    /\ At(r, "count")
    /\ \/ Goto(r, IF Cardinality(functions[AppOf(r)]) <= 1 THEN "refused" ELSE "delfn")
       \/ StoreAnswers # {"ok"} /\ Goto(r, "refused")
    /\ UNCHANGED vars

RemoveFunction(r) ==
    /\ At(r, "delfn")
    /\ \E answer \in StoreAnswers :
          IF answer = "ok" /\ req[r].fn \in functions[AppOf(r)]
          THEN DeleteFunction(AppOf(r), req[r].fn) /\ Goto(r, "done")
          ELSE UNCHANGED storeVars /\ Goto(r, "refused")
    /\ UNCHANGED <<clusterVars, builderVars>>
-----------------------------------------------------------------------------
Handler(r) ==
    \/ InsertApplication(r) \/ InsertDefaultFunction(r) \/ UndoCreate(r)
    \/ Undeploy(r) \/ Unexpose(r) \/ FinishDelete(r)
    \/ WriteConfig(r) \/ ReadSpinApp(r) \/ ApplyForRequest(r) \/ ExposeForRequest(r)
    \/ InsertFunction(r) \/ CountFunctions(r) \/ RemoveFunction(r)

Arrival(r) ==
    \E a \in App :
        \/ BeginCreate(r, a)
        \/ BeginDelete(r, a)
        \/ \E v \in Vars \union {Omitted}, n \in Replicas \union {Omitted} : BeginPatch(r, a, v, n)
        \/ \E i \in CallerImages, n \in Replicas : BeginDeploy(r, a, i, n)
        \/ \E op \in Ops, f \in Fn : BeginFunctionOp(r, a, op, f)

StartBuild(b) ==
    /\ Overlap \/ Quiet
    /\ \E a \in App : LoadForBuild(b, a)
    /\ req' = req

\* The process dies with the watchers and the requests it serves.
Die ==
    /\ Crash
    /\ req' = [r \in Req |-> IF r \in BusyRequests THEN [req[r] EXCEPT !.pc = "lost"] ELSE req[r]]

CPNext ==
    \/ \E r \in Req : Arrival(r) \/ Handler(r)
    \/ \E b \in Build :
          \/ StartBuild(b)
          \/ (Pipeline(b) \/ PodPushes(b) \/ JobEnds(b)) /\ req' = req
    \/ Die

CPSpec == CPInit /\ [][CPNext]_cpVars
-----------------------------------------------------------------------------
(***************************************************************************)
(* Properties.                                                             *)
(***************************************************************************)

\* Every handler touches the store and the cluster only through the calls
\* that module Builder allows the rest of the control plane, one at a time:
\* what holds of builds whatever happens elsewhere holds among the handlers.
BuilderSpec == Spec

\* A SpinApp named n carries images built for applications of that name: the
\* PATCH that re-applies the image it read, the watcher with a row that may
\* be gone, and a name that is used again all keep this.
ImageIsOfThatName ==
    \A n \in Names : \A b \in Build :
        Exists(n) /\ spin[n].image = b => NameOf[snap[b].app] = n

\* The inductive strengthening: the counts in rows and requests are clients' or
\* the default, what is about to be applied is an image, and as long as callers
\* name no builds, an image in a SpinApp, or on its way there, is of that name.
BuiltFor(image, n) ==
    \A b \in Build : image = b => pc[b] # "idle" /\ NameOf[snap[b].app] = n

RequestInv(r) ==
    /\ req[r].asked \in Counts /\ req[r].snap.replicas \in Counts
    /\ At(r, "apply") => req[r].image \in Image

NamesAgree ==
    /\ \A n \in Names : Exists(n) => BuiltFor(spin[n].image, n)
    /\ \A r \in Req : At(r, "apply") => BuiltFor(req[r].image, TargetName(r))

CPInv ==
    /\ CPTypeOK
    /\ \A a \in App : app[a].replicas \in Counts
    /\ \A r \in Req : req[r] # Waiting => RequestInv(r)
    /\ CallerImages \intersect Build = {} => NamesAgree

\* Used by one client at a time, without faults, the parts agree whenever
\* nothing is at work: no SpinApp outlives its (spinkube) application, a
\* SpinApp runs with the variables of its row, and an application has a
\* function.  Each conjunct needs the writes of several handlers in order.
SequentialAgreement ==
    Quiet => \A a \in App :
        /\ spin[NameOf[a]].app = a /\ RuntimeOf[a] = "spinkube" => Live(a)
        /\ spin[NameOf[a]].app = a /\ Live(a) => spin[NameOf[a]].vars = app[a].vars
        /\ Live(a) => functions[a] # {}

Position(b) == CHOOSE i \in DOMAIN created : created[i] = b
SucceededOf(a) == {b \in Build : status[b] = "succeeded" /\ owner[b] = a}

\* docs/guide/concepts.md:80: "the latest successful build is always deployed".
LatestIsDeployed ==
    Quiet => \A a \in App :
        Live(a) /\ RuntimeOf[a] = "spinkube" /\ SucceededOf(a) # {} =>
            \E b \in SucceededOf(a) :
                /\ spin[NameOf[a]] # NoSpinApp
                /\ spin[NameOf[a]].image = b
                /\ \A b2 \in SucceededOf(a) : Position(b2) <= Position(b)

\* The inductive strengthening of the two, where clients come one at a time and
\* nothing fails: first of the agreement, that is what the one operation at work
\* has established at each of its calls.
OneAtATime ==
    /\ \A r1, r2 \in BusyRequests : r1 = r2
    /\ \A b1, b2 \in BusyBuilds : b1 = b2
    /\ BusyRequests = {} \/ BusyBuilds = {}

Serving(a, calls) == \E r \in Req : req[r].pc \in calls /\ AppOf(r) = a

RequestStands(r) ==
    /\ r \in BusyRequests /\ ~At(r, "insert") => Live(AppOf(r))
    /\ req[r].pc \in {"default", "undo", "unexpose", "drop"} => ~Exists(TargetName(r))
    /\ At(r, "write") /\ "vars" \in req[r].keeps => req[r].snap.vars = app[AppOf(r)].vars
    /\ req[r].pc \in {"get", "apply"} =>
          RuntimeOf[AppOf(r)] = "spinkube" /\ req[r].snap.vars = app[AppOf(r)].vars
    /\ At(r, "delfn") => functions[AppOf(r)] \ {req[r].fn} # {}

BuildStands(b) ==
    b \in BusyBuilds => Live(snap[b].app) /\ snap[b].vars = app[snap[b].app].vars

SpinAppsAgree ==
    \A n \in Names : Exists(n) =>
        LET a == spin[n].app
        IN  /\ Live(a) /\ NameOf[a] = n /\ RuntimeOf[a] = "spinkube"
            /\ spin[n].vars = app[a].vars \/ Serving(a, {"get", "apply"})

AgreementInv ==
    /\ OneAtATime
    /\ OneLivePerName
    /\ \A r \in Req : RequestStands(r)
    /\ \A b \in Build : BuildStands(b)
    /\ SpinAppsAgree
    /\ \A a \in App : Live(a) => functions[a] # {} \/ Serving(a, {"default"})

\* Then of what is deployed: a build at work is the newest of all, and between
\* its deployment and its outcome the one that runs.
BuildIsNewest(b) ==
    /\ pc[b] # "row" => status[b] # "absent" /\ created # <<>> /\ created[Len(created)] = b
    /\ pc[b] \in {"ingress", "finish"} /\ RuntimeOf[snap[b].app] = "spinkube" =>
          Exists(NameOf[snap[b].app]) /\ spin[NameOf[snap[b].app]].image = b

NewestIsDeployed(a) ==
    \E i \in DOMAIN created :
        /\ created[i] \in SucceededOf(a)
        /\ Exists(NameOf[a]) /\ spin[NameOf[a]].image = created[i]
        /\ \A j \in DOMAIN created : created[j] \in SucceededOf(a) => j <= i

HasSuccess(a) == Live(a) /\ RuntimeOf[a] = "spinkube" /\ SucceededOf(a) # {}

DeploymentInv ==
    /\ \A r \in Req : At(r, "apply") =>
          Exists(TargetName(r)) /\ req[r].image = spin[TargetName(r)].image
    /\ \A b \in BusyBuilds : BuildIsNewest(b)
    /\ \A a \in App : HasSuccess(a) =>
          \/ NewestIsDeployed(a)
          \/ \E b \in Build : pc[b] \in {"ingress", "finish"} /\ snap[b].app = a
          \/ Serving(a, {"unexpose", "drop"})

SequentialInv == AgreementInv /\ DeploymentInv

\* docs/reference/http-api.md:49 on DELETE: "Cascades: functions, sources,
\* builds, the SpinApp CR, and any pods/Services."
DeleteCascades ==
    Quiet => \A a \in App : app[a].state = "deleted" => spin[NameOf[a]].app # a
=============================================================================
