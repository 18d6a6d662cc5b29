------------------------------ MODULE Deployer ------------------------------
(***************************************************************************)
(* deploy/deploy.go over the cluster objects it writes: the SpinApp custom *)
(* resource (spinapp/spinapp.go) and the Istio VirtualService              *)
(* (istio/virtualservice.go), both keyed by the application's NAME and     *)
(* written by forced server-side apply, the last writer winning.           *)
(* A call to the API server is answered "ok", fails without effect         *)
(* ("err"), or takes effect while its caller sees an error ("lost": the    *)
(* connection drops before the answer).                                    *)
(***************************************************************************)
EXTENDS Store

CONSTANTS External,     \* image references that no build produced
          Ingress,      \* are a public domain and a gateway configured?
          KubeAnswers   \* the answers the API server may give in an instance

ASSUME DeployerAssumption ==
    /\ KubeAnswers \subseteq {"ok", "err", "lost"}
    /\ "ok" \in KubeAnswers
    /\ External \intersect Build = {}
    /\ Ingress \in BOOLEAN

VARIABLES spin,  \* spin[n]: the SpinApp named n, as the control plane wrote it
          vs     \* the names that have a VirtualService

clusterVars == <<spin, vs>>

Image == Build \union External     \* a build's image reference is its id

SpinApp == [app : App, image : Image, vars : Vars, replicas : Nat \ {0}]
NoSpinApp == [app |-> None]
Exists(n) == spin[n] # NoSpinApp

\* An application row as a handler or a watcher holds it in memory.
Snapshot == [app : App, vars : Vars, replicas : Nat]

DeployerTypeOK ==
    /\ spin \in [Names -> SpinApp \union {NoSpinApp}]
    /\ vs \subseteq Names

DeployerInit ==
    /\ spin = [n \in Names |-> NoSpinApp]
    /\ vs = {}
-----------------------------------------------------------------------------
\* deploy.Request.Replicas wins over the row, the row over the default of one.
DeployReplicas(requested, row) ==
    IF requested > 0 THEN requested ELSE Clamp(row)

Desired(snap, image, requested) ==
    [app      |-> snap.app,
     image    |-> image,
     vars     |-> snap.vars,
     replicas |-> DeployReplicas(requested, snap.replicas)]

TakesEffect(answer) == answer \in {"ok", "lost"}

\* First half of Deploy: spinapp.Client.Apply, whose error ends the call.
ApplySpinApp(snap, image, requested, answer) ==
    /\ spin' = IF TakesEffect(answer)
               THEN [spin EXCEPT ![NameOf[snap.app]] = Desired(snap, image, requested)]
               ELSE spin
    /\ vs' = vs

\* Second half: the VirtualService, whose error is only logged.
ApplyVirtualService(n, answer) ==
    /\ vs' = IF Ingress /\ TakesEffect(answer) THEN vs \union {n} ELSE vs
    /\ spin' = spin

\* Undeploy: the SpinApp (an error ends the call; a missing one is no error),
\* then the VirtualService (an error is only logged).
DeleteSpinApp(n, answer) ==
    /\ spin' = IF TakesEffect(answer) THEN [spin EXCEPT ![n] = NoSpinApp] ELSE spin
    /\ vs' = vs

DeleteVirtualService(n, answer) ==
    /\ vs' = IF TakesEffect(answer) THEN vs \ {n} ELSE vs
    /\ spin' = spin
=============================================================================
