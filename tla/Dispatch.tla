------------------------------ MODULE Dispatch ------------------------------
(***************************************************************************)
(* From a function's page to its guest: one application's table of         *)
(* functions, the images that builds make of it, the image that is loaded  *)
(* by the worker (or runs in the pods), and the calls that are relayed to  *)
(* it and dispatched by worker/src/server.rs to the guests of module       *)
(* Invocation.  Tables, images and what is loaded move under the calls.    *)
(***************************************************************************)
EXTENDS Invocation, Routes

CONSTANTS Routes,    \* the routes that clients write in an instance
          Typed,     \* the paths that callers type
          Unfit,     \* segments that are no URI text once they are decoded
          Body,      \* the bodies of an instance: "fits", "over1MiB", "over8MiB"
          MaxEdits,  \* bound: changes of the table
          MaxBuilds, \* bound: builds started
          Together   \* bound: may two calls of the application, or an edited
                     \* table and a call elsewhere, meet in one behaviour?

ASSUME DispatchAssumption ==
    /\ Together \in BOOLEAN
    /\ Fn \subseteq Segment
    /\ Routes \subseteq Text \ {NoRoute}
    /\ \A typed \in Typed : typed = <<>> \/ RelayPath(typed) \in Path
    /\ Unfit \subseteq Segment
    /\ Body \subseteq {"fits", "over1MiB", "over8MiB"}

VARIABLES runtime,   \* who serves the application
          table,     \* the functions table of the control plane
          manifest,  \* the spin.toml of the build under way
          latest,    \* the image of the latest successful build
          loaded,    \* the image in the worker's catalog, or in the pods
          call,      \* what is known of each call before and after its dispatch
          edits, builds

routeVars == <<runtime, table, manifest, latest, loaded, edits, builds>>
allVars == <<vars, routeVars, call>>

NoImage == [f \in Fn |-> NoRoute]
Defined(t) == {f \in Fn : t[f] # NoRoute}

\* Who waits: the control plane's client, or whoever called the address itself.
Caller == {"relay", "direct"}

\* A call until its dispatch, and what came of it.
Refusals == {"noapp", "noroute", "badpath", "toolarge", "unreachable"}
Calls == [at : {"sent", "refused"}, by : Caller, path : Path, body : Body]
         \union [at : {"invoked", "served"}, by : Caller, component : Fn, seen : Path]
         \union [at : Refusals]
NoCall == [at |-> "none"]

Own == {c \in Call : call[c] # NoCall}
Elsewhere == {c \in Call : call[c] = NoCall /\ stage[c] # "new"}

DispatchTypeOK ==
    /\ TypeOK
    /\ runtime \in {"spinkube", "workerpool"}
    /\ {table, manifest, latest, loaded} \subseteq Table
    /\ call \in [Call -> Calls \union {NoCall}]

\* POST /applications leaves one function behind the route "/...".
DispatchInit ==
    /\ Init
    /\ runtime \in {"spinkube", "workerpool"}
    /\ \E f \in Fn : table = [NoImage EXCEPT ![f] = <<Dots>>]
    /\ manifest = NoImage /\ latest = NoImage /\ loaded = NoImage
    /\ call = [c \in Call |-> NoCall]
    /\ edits = 0 /\ builds = 0
-----------------------------------------------------------------------------
(***************************************************************************)
(* The table, the builds made of it and what serves them.                  *)
(***************************************************************************)
Write(f, route) ==
    /\ edits < MaxEdits
    /\ Together \/ Elsewhere = {}
    /\ edits' = edits + 1
    /\ table' = [table EXCEPT ![f] = route]
    /\ UNCHANGED <<vars, runtime, manifest, latest, loaded, call, builds>>

\* Any text at all is taken for a route; none means the default.
CreateFunction(f) ==
    /\ table[f] = NoRoute
    /\ \E route \in Routes \union {<<f, Dots>>} : Write(f, route)

UpdateFunction(f) ==
    /\ table[f] # NoRoute
    /\ \E route \in Routes : Head(route) # NoSlash /\ Write(f, route)

DeleteFunction(f) ==
    /\ table[f] # NoRoute
    /\ Defined(table) # {f}
    /\ Write(f, NoRoute)

\* synthesizeSpinToml: one trigger and one component for each function.
StartBuild ==
    /\ builds < MaxBuilds
    /\ manifest = NoImage
    /\ manifest' = table
    /\ builds' = builds + 1
    /\ UNCHANGED <<vars, runtime, table, latest, loaded, call, edits>>

EndBuild ==
    /\ manifest # NoImage
    /\ latest' \in {manifest, latest}
    /\ manifest' = NoImage
    /\ UNCHANGED <<vars, runtime, table, loaded, call, edits, builds>>

\* Router::sync pulls and compiles the image; the rollout of a SpinApp ends.
Load ==
    /\ loaded # latest
    /\ loaded' = latest
    /\ UNCHANGED <<vars, runtime, table, manifest, latest, call, edits, builds>>
-----------------------------------------------------------------------------
(***************************************************************************)
(* A call: through the control plane, on behalf of some function of the    *)
(* table, or straight to the address of the worker or the pods.            *)
(***************************************************************************)
Send(c, at, by, path, body) ==
    /\ call[c] = NoCall /\ stage[c] = "new"
    /\ Together \/ Own = {}
    /\ call' = [call EXCEPT ![c] = [at |-> at, by |-> by, path |-> path, body |-> body]]
    /\ UNCHANGED <<vars, routeVars>>

\* The function must exist, and is not looked at again: the path decides.
InvokeFunction(c) ==
    /\ Defined(table) # {}
    /\ \E typed \in Typed, body \in Body :
          Send(c, IF body = "fits" THEN "sent" ELSE "refused", "relay", RelayPath(typed), body)

InvokeDirectly(c) ==
    \E path \in Typed \intersect Path, body \in Body : Send(c, "sent", "direct", path, body)

Concludes(c, at) == call' = [call EXCEPT ![c] = [at |-> at]]

Reaches(c, at, f, seen) ==
    call' = [call EXCEPT ![c] = [at |-> at, by |-> @.by, component |-> f, seen |-> seen]]

\* Spin's own router, in a pod: longest prefix, exact before wildcard.
PodResolve(image, path) ==
    CHOOSE f \in Matching(image, path) :
        \A g \in Matching(image, path) \ {f} :
            \/ Len(FixedPart(image[f])) > Len(FixedPart(image[g]))
            \/ /\ FixedPart(image[f]) = FixedPart(image[g])
               /\ \/ IsWildcard(image[g]) /\ ~IsWildcard(image[f])
                  \/ /\ IsWildcard(image[g]) = IsWildcard(image[f])
                     /\ Rank[f] < Rank[g]

PodServes(c) ==
    /\ runtime = "spinkube" /\ call[c].at = "sent"
    /\ LET path == call[c].path IN
       \/ loaded = NoImage /\ Concludes(c, "unreachable")
       \/ loaded # NoImage /\ Matching(loaded, path) = {} /\ Concludes(c, "noroute")
       \/ Matching(loaded, path) # {} /\ Reaches(c, "served", PodResolve(loaded, path), path)
    /\ UNCHANGED <<vars, routeVars>>

\* dispatch up to the call of Host::invoke.  Every trigger of a synthesized
\* manifest has its component, so "not compiled" does not occur.
Turned(c) ==
    /\ runtime = "workerpool" /\ call[c].at = "sent"
    /\ LET path == call[c].path
           route == loaded[Resolve(loaded, path)]
       IN  \/ loaded = NoImage /\ Concludes(c, "noapp")
           \/ loaded # NoImage /\ Matching(loaded, path) = {} /\ Concludes(c, "noroute")
           \/ /\ Matching(loaded, path) # {}
              /\ \/ call[c].body = "over8MiB" /\ Concludes(c, "toolarge")
                 \/ /\ call[c].body # "over8MiB"
                    /\ \E i \in DOMAIN Rest(route, path) : Rest(route, path)[i] \in Unfit
                    /\ Concludes(c, "badpath")
    /\ UNCHANGED <<vars, routeVars>>

Dispatched(c) ==
    /\ runtime = "workerpool" /\ call[c].at = "sent" /\ call[c].body # "over8MiB"
    /\ LET path == call[c].path
           f == Resolve(loaded, path)
       IN  /\ Matching(loaded, path) # {}
           /\ \A i \in DOMAIN Rest(loaded[f], path) : Rest(loaded[f], path)[i] \notin Unfit
           /\ Reaches(c, "invoked", f, Rest(loaded[f], path))
    /\ Invoke(c) \/ SetupFails(c)
    /\ UNCHANGED routeVars

\* A call of another application of this worker, on the same engine.
DispatchedElsewhere(c) ==
    /\ call[c] = NoCall
    /\ Together \/ edits = 0
    /\ Invoke(c) \/ SetupFails(c)
    /\ UNCHANGED <<routeVars, call>>

\* Calls that were invoked run by themselves; a client may go when it likes.
GoesOn(c) ==
    /\ \/ Block(c) \/ Unblock(c) \/ Respond(c) \/ Return(c) \/ Trap(c)
       \/ TenSeconds(c) \/ Fire(c) \/ Receive(c) \/ ReceiveNothing(c) \/ ClientGone(c)
    /\ UNCHANGED <<routeVars, call>>
-----------------------------------------------------------------------------
DispatchNext ==
    \/ StartBuild \/ EndBuild \/ Load
    \/ \E f \in Fn : CreateFunction(f) \/ UpdateFunction(f) \/ DeleteFunction(f)
    \/ \E c \in Call :
          \/ InvokeFunction(c) \/ InvokeDirectly(c)
          \/ PodServes(c) \/ Turned(c) \/ Dispatched(c) \/ DispatchedElsewhere(c)
          \/ GoesOn(c)

DispatchSpec == DispatchInit /\ [][DispatchNext]_allVars

\* The control plane's clients give up after 30 seconds; no other need ever.
Relayed(c) == call[c].at = "invoked" /\ call[c].by = "relay"
ThirtySeconds(c) == Relayed(c) /\ ClientGone(c) /\ UNCHANGED <<routeVars, call>>

\* A request that arrived is dispatched; the rest as in module Invocation: no
\* host call need ever return.
DispatchFairness ==
    \A c \in Call :
        /\ WF_allVars(PodServes(c)) /\ WF_allVars(Turned(c) \/ Dispatched(c))
        /\ WF_allVars(TenSeconds(c) /\ UNCHANGED <<routeVars, call>>)
        /\ WF_allVars(Fire(c) /\ UNCHANGED <<routeVars, call>>)
        /\ WF_allVars(Receive(c) /\ UNCHANGED <<routeVars, call>>)
        /\ WF_allVars(ReceiveNothing(c) /\ UNCHANGED <<routeVars, call>>)
        /\ WF_allVars(ThirtySeconds(c))
        /\ SF_allVars(Trap(c) /\ UNCHANGED <<routeVars, call>>)

DispatchFairSpec == DispatchSpec /\ DispatchFairness
-----------------------------------------------------------------------------
(***************************************************************************)
(* Properties.                                                             *)
(***************************************************************************)
DispatchInv == CallInv /\ DispatchTypeOK

\* A step that hands call c to a component of the image loaded at that moment.
HandsOver(c) == call[c].at = "sent" /\ call'[c].at \in {"invoked", "served"}

\* docs/user-guide/writing-functions.md:120: the router "matches the longest
\* prefix", in whatever order the functions were added and whatever has been
\* edited since the build.  No route that matches is passed over for a shorter
\* one, except by a worker one with dots before its end: that is sorted by
\* what stands before them, so "/a/.../b" ties with "/a/..." (README 3.3).
LongestPrefixWins ==
    [][\A c \in Call : HandsOver(c) =>
          \A f \in Matching(loaded, call[c].path) :
              runtime = "spinkube" \/ DotsLast(loaded[f]) =>
                  Len(FixedPart(loaded[f])) <= Len(FixedPart(loaded[call'[c].component]))]_allVars

\* apps/ui/src/lib/InvokePanel.svelte:9-11: the path that a function's page
\* offers first "hits the function", whenever the loaded image has the route
\* of that page and its routes are well-formed and offer separate paths.
FirstSendReaches ==
    [][\A c \in Call : Separate(loaded) /\ call[c].at = "sent" /\ call'[c].at # "sent" =>
          \A f \in Defined(loaded) : FirstPath(loaded[f]) = call[c].path =>
              /\ call'[c].at # "noroute"
              /\ HandsOver(c) => call'[c].component = f]_allVars

\* services/worker/src/server.rs:99: the guest sees "a path relative to its
\* trigger route": prefix and rest give the caller's path back, or nothing
\* was left and it sees "/".
GuestSeesTheRest ==
    [][\A c \in Call : HandsOver(c) /\ runtime = "workerpool" =>
          LET prefix == FixedPart(loaded[call'[c].component])
          IN  \/ prefix \o call'[c].seen = call[c].path
              \/ prefix = call[c].path /\ call'[c].seen = Root]_allVars

\* runtime.rs:124-154, invoke.go:196, proxy.go:45: every request is dispatched
\* and every wait for a guest ends, though guests compute without end and
\* calls of other applications move the same epoch.  The one exception: a
\* guest that stays in a host call for ever, which no epoch reaches, keeps a
\* caller waiting that is not the control plane.
EveryRequestEnds ==
    \A c \in Call :
        call[c].at = "sent" \/ stage[c] = "waiting" ~>
            /\ call[c].at # "sent"
            /\ \/ stage[c] # "waiting"
               \/ ~Relayed(c) /\ [](guest[c] = "blocked")
=============================================================================
