# Spinup: a verification development in TLA+

Spinup is a small function platform. Users edit functions in a browser, the
*control plane* (Go) keeps applications, functions, sources and builds in
SQLite, turns an application into one OCI image with a Kubernetes Job, and
serves it in one of two ways: as a SpinKube `SpinApp` (runtime `spinkube`), or
from a pool of *workers* (Rust, wasmtime) that poll the control plane and pull
images themselves (runtime `workerpool`).

This directory holds TLA+ modules translated from that code, TLC configurations
that check them on small instances, and proofs that TLAPS checks for all
instances. `PROJECT.json` records, for every definition that models code, the
lines it stands for. Abbreviations below: `CP` is
`services/control-plane/internal`, `W` is `services/worker/src`.

## 1. The system

### 1.1 Components

| Component | State it keeps | Operations | What makes it correct |
|---|---|---|---|
| Store (`CP/store`) | tables `applications`, `functions`, `sources`, `builds`; one atomic SQL statement per method, no transaction spans two | create, update and delete of each; listings | unique names, clamped replica counts, cascades, no resurrected rows |
| Build pipeline (`CP/builder`, `CP/httpapi/builds.go`) | per build: a row, a Secret, a Job, a pushed image; one watcher goroutine in memory | `POST /builds`, `watch` | an outcome is truthful, written once, and owed to somebody as long as it is missing |
| Builder images (`builders/*/entrypoint.sh`) | the pod's work directory | unpack, `spin build`, `spin registry push` | ends well only after a push |
| Deployer (`CP/deploy`, `CP/spinapp`, `CP/istio`) | nothing of its own; writes the `SpinApp` and the `VirtualService`, keyed by the application's *name*; reads the `SpinApp` and its Deployment | `Deploy`, `Undeploy`, status | the objects agree with the row of the application; Ready is said of finished rollouts only |
| Handlers (`CP/httpapi/applications.go`, `functions.go`) | a row loaded at the start of each request | create, delete, PATCH, deploy; create, update, delete of functions | overlapping requests keep store and cluster in agreement |
| Sources (`builds.go`, `archive.go`, the UI's page of a function) | `sources` table; per tab the tree in its editor and the calls under way | load, edit, save, import; the reads of a build | editor, table and build differ in unsaved edits only |
| Manifest synthesis (`CP/builder/manifest.go`) | the `spin.toml` of a build | one trigger and one component per function | the image routes as the functions were when the build began |
| Resource policy (`CP/policy`) | a mode and caps, read from the environment by a new process | refuse (`max`), replace (`forced`), or let through (`open`) | what is stored and deployed is within the policy that let it through; applying it again changes nothing |
| Worker configuration (`CP/httpapi/worker.go`) | nothing | `GET /worker-config` | every workerpool application with its latest successful image |
| Worker pool (`W/config.rs`, `router.rs`, `loader.rs`) | catalog: name to compiled application, in memory | `poll_loop`, `sync`, routing | converges to the tables; never steps back; never drops without cause |
| Worker runtime (`W/runtime.rs`, `server.rs`) | per call: a Store, a handler task, a timer task; one engine-wide epoch | `invoke`, `dispatch` | a runaway guest is stopped, others are left alone |
| Login and sessions (`CP/auth`, `CP/session`) | login cookies in the browser; session map in memory | login, callback, logout, me, the check before every API request | a session needs a completed login of its own; requests are answered for it exactly while it is in force |
| Relay and proxy (`CP/httpapi/invoke.go`, `CP/proxy`) | nothing between requests | bring one call to a worker or a pod | the longest matching route gets it, the guest sees the rest of the path, nobody waits for ever for a guest that computes |
| Logs, metrics, telemetry | nothing that is read back | streams, queries | pass-through |
| Configuration, start-up, embedded UI | the resource policy, everything else read once | — | nothing of an earlier process is taken for granted |
| Browser UI (`apps/ui`) | page state | edits sources and configuration, polls an application's status | ends up showing what is stored and served |

### 1.2 How they interact

```
 browser --HTTP--> handlers --SQL--> store <--SQL-- watcher (goroutine per build)
                      |                ^                 |      |
                      | apply/delete   | GET             | poll | apply
                      v                | /worker-config  v      v
               SpinApp, VirtualService |               Job    SpinApp
                                       |                |
                                    worker <--pull-- registry <--push-- builder pod

 caller --> relay, proxy --> worker: route, invoke, epoch   or   pod of the SpinApp
 page   --poll--> getApplication --> row, SpinApp, Deployment <-- operator, controller
```

Every HTTP request runs on a goroutine of its own and no lock is held across
the calls of a handler. A handler loads a row once and works with that copy to
its end; a watcher works with it for up to fifteen minutes. Store and cluster
are written by separate calls, each of which may fail, and a cluster call may
take effect although its caller sees an error.

### 1.3 What is hard here

* **Interleaving**: requests, watchers and polls, all on the same rows and on
  objects that are keyed by a name that can be used again.
* **Stale copies**: the row of a handler, the row of a watcher, the image a
  PATCH reads before it applies it again, the reply a worker works through.
* **Partial failure**: a row without a Job, a Job whose creation was reported as
  failed, a `SpinApp` without a row, an outcome whose update failed.
* **Crashes**: watchers exist in memory only, and so do a worker's catalog and the
  session map.
* **Shared cookies**: the tabs of a browser overwrite the cookies of each other's
  logins, and an answer clears whatever is there when it arrives.
* **Reports that lag**: the status of a Deployment is of the generation its
  controller last saw, the page's answers arrive when they do, and routes are edited,
  built and loaded while calls are on their way.
* **Time**: the fifteen minutes of a watch, the TTL of a finished Job, the ten
  seconds of an invocation on an epoch that all calls share.

`PROJECT.json` lists these one by one, with their lines, under `hazards`.

## 2. The modules

```
Store  <-  Deployer  <-  Builder  <-  ControlPlane        BuildLifecycle
  ^                            \__________ implements _________/
  |
WorkerPool      Invocation  <-  Dispatch  ->  Routes      Session      Sources
                                              Policy  <-  Rollout

StoreProofs  <-  BuilderProofs  <-  ControlPlaneProofs
     ^
WorkerPoolProofs     InvocationProofs     RolloutProofs     SessionProofs     SourcesProofs
```

| Module | Models | State | Actions |
|---|---|---|---|
| `Store` | `store.go`, `sqlite.go` | `app`, `functions`, `status`, `owner`, `created` | operators, one per writing statement, used by the modules above it; `TableStep`, what all of them together do to the columns that a worker reads |
| `Deployer` | `deploy.go`, `spinapp.go` (writes), `virtualservice.go` | `spin`, `vs` | `ApplySpinApp`, `ApplyVirtualService`, `DeleteSpinApp`, `DeleteVirtualService` |
| `Builder` | `builder.go`, `startBuild` | per build `pc`, `snap`, `job`; sets `secrets`, `pushed`, `sized`; histories `applied`, `missed`, `crashes` | one per call of the request and of the watcher; the pod; the Job and its TTL; `Crash`; `StoreElsewhere` and `ClusterElsewhere` for all else |
| `BuildLifecycle` | the life cycle of a build as documented | `state`, `registry` | `Create`, `Run`, `Succeed`, `Fail`, `Push`, `Cascade`, `RefuseAll` |
| `ControlPlane` | the handlers of applications and functions, composed with `Builder` | `req[r]`: operation, next call, loaded row | one per call of each handler; `Die` |
| `WorkerPool` | `worker.go`, `config.rs`, `router.rs` | `phase`, `asked`, `reply`, `todo`, `catalog`; history `blank` | `Poll`, `List`, `Answer`, `PollFails`, `Load`, `Evict`, `Restart`, `StoreStep` |
| `Invocation` | `runtime.rs`, the awaiting side in `server.rs` | `stage`, `guest`, `responded`, `timer`, `limit`, `epoch` | two tasks and the awaiting future of every call |
| `Routes` | `match_route`, `prefix_of`, `resolve`; the relay's path; the path a page offers | — | operators on paths as sequences of segments: `FixedPart`, `PrefixOf`, `Matches`, `Rest`, `TriedBefore`, `Resolve`, `FirstPath`; `DotsLast` and `Separate` say which routes are harmless |
| `Dispatch` | `invoke.go`, `proxy.go`, `dispatch` in `server.rs`, `manifest.go`, the routes' handlers; composed with `Invocation` | `table`, `manifest`, `latest`, `loaded`, `runtime`; `call[c]`: who waits, and what came of the call | edits of the table, `StartBuild`, `EndBuild`, `Load`; `InvokeFunction`, `InvokeDirectly`, `PodServes`, `Turned`, `Dispatched`; `DispatchedElsewhere` for other applications' calls |
| `Policy` | `resources.go` | — | operators: `Fails`, `Refuses`, `Cleaned`, `Enforced`, and the specification `Within` |
| `Rollout` | the configuration form and the polls of an application's page, PATCH and deploy as far as resources go, `spinapp.Get`; the operator and the Deployment's controller | `policy`, `row`, `save`, `deploy`, `spin`, `dep`, `status`, `pods`, `poll`, `shown`; histories `savedUnder`, `full` | the calls of a save, a deployment, a poll; `Restart`; `Reconcile`, `SyncStatus`, `Report`, the pods |
| `Session` | `oauth.go`, `oidc.go`, `authz.go`, `memory.go` | the browser: `cookies`, `url`, per tab `pc`, `sent`, `got`; the provider: `code`, `who`; the server: `grant`, `live`, `sinceGC`; `now`; history `closed` | the two halves of a login, a request's check, logout, each with its answer as a step of its own; `Tick`, `DropCookie`, `Restart` |
| `Sources` | the editor (`functions/[fnId]/+page.svelte`, `addFunction`), `getSource`, `putSource`, `importSource`, the reads of `startBuild` | the tables `functions`, `rows`, `sources`; per tab `view`, `page`, `files`, `loaded`, `call`; the build's `todo`, `inputs`; histories `dirty`, `sending`, `astray`, `steady` | the user's edits and calls, the server's steps of a call, the answers, deletion of a function, the reads of a build |
| `StoreProofs` | — | — | lemmas about the tables' operators |
| `BuilderProofs`, `ControlPlaneProofs`, `WorkerPoolProofs`, `InvocationProofs`, `RolloutProofs`, `SessionProofs`, `SourcesProofs` | — | — | theorems about the module they are named for; `InvocationProofs` also about `Routes` and `Dispatch` |

`MC*` modules give the constants of an instance their values.

### 2.1 Correspondence

*Granularity.* An action is one call that another process can observe: one SQL
statement, one API request, one await. Between two actions of a request or a
watcher anything else may happen. What a goroutine computes between two such
calls belongs to the action before it. `pc[b]` and `req[r].pc` name the call
that comes next.

*Builder.* `InsertBuildRow`, `CreateSecret`, `CreateJob` are the three creations
of `Runner.Start`; failure of the first ends the request, failure of either of the
others goes to `FailBuild`, which is also where every failing branch of `watch`
ends, since all of them make the same update. `MarkRunning`, `PollComplete`,
`PollGivesUp`, `DeployImage`, `ExposeImage`, `FinishBuild` follow `watch` from top
to bottom. `PollGivesUp` has no guard on the Job: an error of `Get` of any kind,
including the not-found after the TTL, and the deadline end the watch whatever
became of the Job. An error of `UpdateBuildStatus` is dropped by the code; such a
build is remembered in `missed`. `snap[b]` is the row as the request loaded it,
and it is that row which is deployed.

*Answers.* A statement is answered "ok" or "err". A call to the API server is
answered "ok", "err" (no effect) or "lost" (effect, and an error for the caller).
A cancelled request context shows up as one of the last two.

*ControlPlane.* A request begins with the load of its row (`Row(a)`) and then
makes its calls in the order of the handler. `deleteApplication` removes the
cluster objects first and the row last, and a workerpool application has no
objects to remove. `updateApplication` writes every column from the loaded row
with the body's fields put over it, then reads the `SpinApp` and applies it again
with the image found. `createApplication` undoes its first insert when the second
fails.

*WorkerPool.* `Poll` is the one statement of the handler that lists the
applications, `List(a)` the lookup for one of them (with its silent failure),
`Answer` the reply as it arrives whole, `Load(e)` one entry of `Router::sync`,
`Evict` the removals at its end. An entry of an unchanged image is a `Load` that
changes nothing. `StoreStep` is what the rest of the control plane does to the
tables, in any order: a step of `Store!TableStep`, whose statements have the guards
that the handlers and watchers give them (a build is inserted for an application that
was loaded before, and settles once). That they do, `CPOverlap` checks and
`TablesAmongHandlers` proves, as `TablesSpec`.

*Invocation.* `Invoke` gives the call its deadline (`epoch + 1`) and starts the
handler task and the timer task. `Trap` is wasmtime's check of the epoch in
compiled code; a guest inside a host call is `blocked` and is not checked.
`Receive` and `ReceiveNothing` are the two ends of `receiver.await`, both of which
abort the timer; `ClientGone` drops the future and detaches both tasks. A host call
has no deadline, and neither has `receiver.await`.

*Session.* The tabs of one browser share `cookies`; `sent[t]` is the copy that the
request of tab `t` carries, and an answer changes `cookies` when it arrives. A
request is sent (`Ask`, `Logout`, `Authenticate`, `Reload`), handled (`Resolve`,
`EndSession`, `Callback` and `Exchange`) and answered (`Receive`, `Goodbye`,
`Welcome`), and the other tab may do anything in between. `Callback` is
`handleCallback` up to the call of the provider, `Exchange` that call and what
follows up to `sessions.Create`. `Resolve` is `MemoryStore.Get`, with its sweep, and
the policy. `grant[s]` is what was stored under `s` and is never forgotten; `live`
are the ids that the map still has.

*Sources.* A tab's calls of one kind never overlap (the page disables the
button), calls of different kinds do. A call is sent by the user's action
(`Open`, `Save`, `Import`, `AddFunction`), passes `loadFunction` (`Check`), meets
the table (`Read`, `Write`) and is answered (`Loaded`, `Saved`, `Imported`); the
user may edit in between. `Check` and the failing halves of `Read` and `Write`
stand for every error up to their point, refused file names and archives
included; `Write` with the stage "error" is a write whose answer is lost.
`dirty[t]` are the files that the user of tab `t` has edited since the tab last
loaded, imported or sent a save; `sending[t]` what that save carries, given back
to `dirty` if it fails.

*Dispatch.* A call is sent (`InvokeFunction` through the control plane, which looks
whether the function exists and caps the body at 1 MiB; `InvokeDirectly` to the
address of the worker or the pods) and later meets what is loaded at that moment:
`PodServes`, or `Turned` and `Dispatched`, which between them are `dispatch` up to the
call of `Host::invoke`, in its order (application, route, body, URI). From there on
the steps are those of `Invocation`, whose variables `Dispatch` shares. `by` says who
waits: the control plane, whose two clients give up after thirty seconds (`ThirtySeconds`),
or a direct caller, who need never do so.
`StartBuild` is `synthesizeSpinToml`, `EndBuild` the outcome of that build, `Load` the
worker's pull or the end of a rollout. A path is the sequence of what stands
between its slashes, and a route ends in `Dots` where the text ends in "/...":
what the code does with string prefixes that end at a slash is done with
prefixes of sequences. Dots are text like any other in a caller's path, and in a route
before its end: `match_route` strips them from the end only (`FixedPart`), `prefix_of` cuts
at the first segment that begins with three of them (`Dotted`), so what a route is sorted
by may be shorter than what it matches by. `Routes` also has the texts that the
handlers let through by mistake: no leading slash (`NoSlash`), two functions on one route.

*Rollout.* The resources of one application go from the form (`Save`) through `Apply`
to the row (`WriteRow`), to the `SpinApp` (`ReadImage`, `Redeploy`) and into the
Deployment (`Reconcile`). `Deploys` is `Deployer.Deploy`: the policy is applied once more,
and where it refuses the platform's values are taken. The way back is `getApplication`:
`ReadRow`, `ReadSpinApp` with the `SpinApp`'s own ready count, `ReadDeployment` with
`ProgressingOf` and `ReadyOf`, which override it when the read succeeds, and `Arrive`,
the answer at the page. `Save` is closed while a save is under way; it sends the
resources that the page shows with the user's edit put over them, which is what
`syncCfgFromApp` leaves in the form.

### 2.2 Abstractions

* Names, images, variable lists and functions are model values; an image
  reference is the id of its build (the code makes it from name and id).
* `LoadForBuild` takes the reads of `startBuild` (row, functions, sources) as one
  step: of what they read only the row is used later, and it never changes in the
  request's hands. What they read of the sources is in `Sources`.
* `created` orders builds by their insert; the code stamps `created_at` just
  before it.
* In `ControlPlane` the description of an application behaves like `vars` (written by the
  same statement) and is left out, and so are its resources, which are in `Rollout`;
  functions are names there, and their routes are in `Dispatch`.
* Outside `Rollout` the cluster's objects are what the control plane wrote. In
  `Rollout` SpinKube's operator and the Deployment's controller are modelled from
  what `spinapp.Get` relies on: the template is copied, a generation counts its
  changes, a surge of one pod, a status that is right when it is written.
* In `Dispatch` the deletion of a function is one step, since the two statements of its
  handler are in `ControlPlane`; a call's headers, query and method are passed through
  and left out; lengths of prefixes are counted in segments where the code counts
  bytes, which orders the prefixes of one path alike.
* A resource value is unset, a quantity (its size) or a text that is none. The two
  errors of `checkMax` (400 and 500) are one refusal.
* Secret and Job are never deleted by the code; the Secret is left in the model too.
* State, verifier, return address and session id are random or opaque to the code
  and only ever compared: a login's three values are one number each, given out in
  order. That the provider takes a code once and only with the verifier of the
  login it belongs to is the provider's promise (`Spend`), not this code's.
* A handler keeps the cookies it reads: `Send` drops the others. Bearer tokens touch
  no state and are left out, as is the development switch that turns
  authentication off. An exchange that fails stands for every error of
  `handleCallback` from the exchange on.
* The browser drops the three cookies of a login in the order in which they were
  stamped, which is when they expire; time is counted in coarse ticks, and those
  cookies may expire at any of them.
* In `Sources` a text is a number: the template, an empty file, or the result of
  one edit; a tree gives each file name a text or none. Editing passes texts through as they are
  (Monaco may normalise line ends). A page that is left with a call under way is
  a tab that is never answered. The application stays; `DeleteFunction` is the
  statement alone, since `ControlPlane` has its handler.
* `OthersAsk` is a request from elsewhere whose id is not in the map: all it does
  is to run the sweep.

## 3. Runs

`tlc -config <name>.cfg <module>`, each within a few minutes on two cores.

| Run | Module | Expected | Shows |
|---|---|---|---|
| `Builder` | `MCBuilder` | pass | outcomes are truthful and owed to somebody, whatever else the control plane does; every build settles, but for a crash or a failed last update |
| `CPSequential` | `MCControlPlane` | pass | one client at a time, no faults: store and cluster agree when nothing is at work, the latest success is deployed, workerpool images never are; `SequentialInv`, the invariant of every step between, from which the first two are proved |
| `CPOverlap` | `MCControlPlane` | pass | two overlapping requests and a build with every kind of failure: the handlers stay within what `Builder` assumes of them; no `SpinApp` carries another name's image; an outcome is final and the pipeline implements `BuildLifecycle`; the tables move only as `WorkerPool` assumes |
| `WorkerPool` | `MCWorkerPool` | pass | the catalog is built for its names, never steps back, drops nothing without cause, and converges |
| `Dispatch` | `MCDispatch` | pass | the longest prefix decides, but for a worker's routes with dots before their end; a page's first call reaches its function, the guest sees the rest of the path; a waiting caller's computing guest will be stopped, the shared epoch is bumped only for an overdue call; every request is dispatched and every wait ends, but for a direct caller of a guest that stays in a host call |
| `Session` | `MCSession` | pass | two tabs' logins never mix; one login makes one session; requests are answered for a session exactly while it is in force, and with the roles of its token |
| `Sources` | `MCSources` | pass | a tab that has kept in touch differs from the table, and from what a build has read, in its user's edits only |
| `Rollout` | `MCRollout` | pass | rows and `SpinApp`s are within the policy that let them through; Ready is said of complete rollouts only; in the end the page shows what is stored and served |
| `BuilderRestart` | `MCBuilder` | violation | a crash leaves a running row running |
| `CPOutOfOrder` | `MCControlPlane` | violation | an older build that ends last stays deployed |
| `CPDeleteRace` | `MCControlPlane` | violation | a build that outlives its application leaves a `SpinApp` |
| `InvocationRunaway` | `MCInvocation` | violation | a guest that has answered is never stopped |

### 3.1 Bounds

* *Applications and names.* One application where only builds race
  (`Builder*`, `CPOutOfOrder`); two of one name where a name is used again
  (`CPSequential`); two of two names where objects of different names might be
  mixed up (`CPOverlap`); three over two names, one of them spinkube, in
  `WorkerPool`.
* *Builds and requests.* Two builds race in every way any two can; builds do not
  read each other's state, so a third brings no new conflict. Two overlapping
  requests and a build in `CPOverlap`, three requests and two builds one after the
  other in `CPSequential`. `WorkerPool` has three builds because the interesting
  case is an older one that succeeds after a newer one.
* *`Limit`* is 30 in the code and 2 in the runs: what matters is that an
  application can have more builds than the handler lists.
* *Faults.* `MaxCrashes`, `MaxFaults`, `MaxRestarts` are 1. `StoreAnswers` and
  `KubeAnswers` put no bound on the number of failing calls.
* *`Dispatch`* has two functions, two edits and one build: two routes that nest, tie
  or are the same, and a table that has moved on from the image that is loaded. Six
  routes (both wildcards, an exact one, one without a leading slash, the root, one with
  dots in its middle) meet typed paths that fall short of, reach and exceed them, one with a
  slash at its end, one with dots in its middle, one with a segment that is no URI text.
  There are two calls. `Together` is FALSE: a call of this application meets calls of
  others, which share the epoch, over a table that nobody has edited, or it is the only call
  over one that moves; two calls of this application are not in one behaviour. Edits
  touch nothing that the guests or their epoch depend on, and the proofs have no such bound.
* *`Rollout`* has one image, two pods for one replica (the surge), one poll at a time,
  five policies (every mode, an unknown one, a cap that is no quantity), and one each
  of saves, restarts and failed reads. One image suffices for a new template,
  since a save changes it too. The process restarts only before the Deployment exists;
  afterwards it would only repeat what a policy does to a stored row. The proofs have
  none of these bounds but that one.
* *`Builder`* gives the rest of the control plane no images and no replica counts
  of its own (`CallerImages`, `Replicas` empty) but every write to the tables;
  the proofs have neither restriction, and `CPOverlap` checks with both.
* *`Session`* has two tabs and two logins, so that one can overwrite the other's
  cookies in every way, and two sessions, so that a logout can end one and its
  answer clear the other's cookie. Tokens expire at 1 and the clock ends at 2, so a
  session is asked for before, in and after the moment of its expiry; the sweep runs
  every second tick, so an expired session is asked for both before and after it was
  swept. One user has the required role and one has not. One restart.
* *`Sources`* has two tabs (a second writer), two functions of which one is added
  on the way (so that one may have no source), two file names (so that trees differ in
  what they have and in what it says), archives of one file and of both, one edit
  and three calls in all. A load with a save and an import that overlap takes three
  calls, and so does a second tab's save; an edit before, during or after them is what
  may get lost. Longer histories are the proof's.
* *Symmetry* is declared over builds, requests and tabs, in runs that check no
  liveness; they are used in no other way than as members of their sets.
* Runs that stop when requests and builds are used up check no deadlock, since
  an idle control plane is a legal state; in `Session` the clock always goes on.

### 3.2 Fairness

* `Builder!Fairness`: each build's request and watcher are scheduled. The Go
  runtime does that, each store or cluster call returns (with an error at
  the latest when its connection breaks), and `PollUntilContextTimeout` ends the
  poll after fifteen minutes. Neither the Job nor the pod is assumed to do
  anything.
* `WorkerPool!FairSpec`: the poll loop goes on. The interval ticks, the client has
  a ten-second timeout, the loop has no way out. That a *pull* ends is an
  assumption on the registry: the code sets no deadline for it.
* `Dispatch!DispatchFairness`: a request that arrived is dispatched, and the control
  plane's HTTP clients give up after thirty seconds (`invoke.go:196`, `proxy.go:45`);
  otherwise as `Invocation!Fairness`. Nobody is assumed to edit, build or load anything, nor
  a caller who went straight to the worker to give up.
* `Rollout!Fairness`: the handlers of a save and of a deployment go on, the operator and
  the controller do their work and started pods become ready, the page polls every five
  seconds and its answers arrive. Saves, deployments, restarts and failed reads are bounded,
  not fair.
* `Invocation!Fairness`: timers and tasks run, and a guest that computes reaches an
  epoch check again and again (`SF` on `Trap`, since it may block in between). Nothing
  makes a guest return, and nothing makes a host call return: the code sets no deadline
  for either.

### 3.3 Divergences

The violation runs are the disagreements between code and documentation, or code
and comment, that have a run; `PROJECT.json` quotes both sides. Noticed besides:

* `docs/user-guide/building-and-deploying.md:106` says that one build per
  application runs at a time; `Start` does not look for another one.
* `docs/reference/http-api.md:51` calls `POST /deploy` "spinkube only"; the handler
  (`applications.go:423`) does not look at the runtime.
* The watcher deploys the row that its request loaded (`builder.go:441`), so variables that a
  PATCH has stored and deployed since are rolled back in the cluster, and stay so until
  the next deployment.
* A PATCH reads the image that is deployed and then deploys it again
  (`applications.go:348-349`); a build that deploys between the two calls is overwritten by the
  image before it. An error of that read counts as "nothing deployed": the PATCH
  answers 200 and the `SpinApp` keeps its old configuration.
* When the default function cannot be inserted, the application is deleted again and the
  error of that is dropped (`applications.go:195-197`): an application without a function may
  be left behind, under a name that is then taken.
* A deletion whose second step fails (`applications.go:381-392`) leaves an application that is
  listed but no longer deployed.
* The watcher deploys with a literal replica count of one (`builder.go:443`), which
  wins over the row, so a build resets the count that `store.go:33` calls the
  desired one.
* `functions.go:122-123` promises to keep the last function of an application; count
  and delete are two statements, and two overlapping deletions empty it.
* `applications.go:257-259` says that an omitted key "leaves the existing value
  alone"; `updateApplication` writes every column from the row loaded at the start
  (`applications.go:337`), so of two overlapping PATCHes of different fields one is
  lost.
* `worker.go:30` promises every workerpool application "that has a successful
  build"; `latestSuccessfulImage` looks at the newest thirty builds (`worker.go:73`),
  so thirty failures hide an earlier success and the workers drop the application.
* `docs/user-guide/writing-functions.md:89` says that the builder sees the set of files
  in the editor. Unsaved edits apart, it fails for the tabs in `astray`: Import
  stays open while a save is under way, and of the two answers the later to arrive
  decides what the editor shows while the later to be served decides what is stored; a
  failed load leaves an empty editor whose Save is open (`+page.svelte:73-75`), so
  one added file replaces the whole tree; another tab's write is never noticed.
* `addFunction` (`+page.svelte:246-250`) creates and then saves the template: when the
  second call fails the editor shows the template, the table has no source, and every
  build of the application is refused until somebody saves.
* A build reads the sources one by one (`builds.go:145`), so it may pack the new tree of
  one function with the old tree of another although the second was saved first.
* `PUT` refuses a file name with ".." anywhere in it (`builds.go:75`), which the upload of
  an archive accepts when it is no path component (`archive.go:133`): after such an import every save is refused. A
  file named "." is stored and then makes exports and builds fail.
* `spinapp.go:196-201` says that the generation check "catches the instant right after
  Apply": it compares the generations of the Deployment, which the operator has not
  touched at that instant, so until then the page shows the new image as Ready.
  `ReadyWasComplete` is therefore about the Deployment, not about the `SpinApp`.
* `Get` takes the Deployment's `Status.Replicas` for the desired number, so scaling up
  is Ready until the new pods exist; and when the read of the Deployment fails, the
  answer falls back to the `SpinApp`'s ready count without saying so.
* The page's poll copies every answer into the configuration form
  (`applications/[id]/+page.svelte:126`), so unsaved edits last five seconds at most,
  and a late answer puts the values back that a save has just replaced.
* A PATCH applies the policy to the stored resources even when its body has none
  (`applications.go:303`): after caps were tightened, a change of the description alone is
  refused. A mode that nobody knows makes every PATCH fail with 500 and every
  deployment take the platform's values.
* Under `open`, and under `max` without a cap, a text that is no quantity is stored
  (`resources.go:102`); the schema of the `SpinApp` then refuses every deployment. A request
  larger than its limit is stored too.
* `functions.go:47` and `:102` speak of a duplicate route; the table has no such
  constraint, two functions may have one route, and the one whose name sorts first gets
  the calls. `createFunction` takes a route without a leading slash, which `updateFunction`
  refuses and no path ever matches.
* `invokeFunction` looks up the function of its URL and then forgets it
  (`invoke.go:48`): the path of the body decides who is called.
* `docs/user-guide/invoking.md:77` promises a 413 for bodies over 1 MiB. The decoder's own cap
  (`invoke.go:54`) is on the JSON around the body, so a body that grows in JSON or base64
  is refused with 400, also when it is smaller than that.
* A path with an escape that is no URI text once decoded is answered with 500
  (`server.rs:101`).
* `docs/user-guide/writing-functions.md:120` says that the router "matches the longest prefix".
  The worker's `prefix_of` (`loader.rs:186-192`) cuts a route at its first "/...", which
  `match_route` reads as a wildcard only at the end. Of "/a/..." and "/a/.../b" both sort
  by "/a", and for the path "/a/.../b" the function whose name comes first answers, although the
  other route is the whole path. `LongestPrefixWins` leaves a worker's routes with dots
  before their end out (`DotsLast`); the run has this very pair of routes and the path.
* `runtime.rs:125` promises an end of "any runaway invocation". The bump of the epoch does
  not reach a guest inside a host call, and `receiver.await` (`runtime.rs:145`) has no timeout:
  a guest that sleeps without end, or fills its body's stream before it has handed the
  response over, keeps a direct caller waiting for ever. Through the control plane
  the wait ends after thirty seconds; the guest stays. `EveryRequestEnds` names this exception.
* The bump of an overdue call's timer reaches every call on the engine that was
  started before it, also one that has just begun (`runtime.rs:130`).

## 4. Proofs

`tlapm <module>.tla` checks all of the following for any values of the
constants: any sets of applications, builds, functions, files, calls, tabs and users, any answers, any
number of crashes, and in `Builder` everything the rest of the control plane may
do (`StoreElsewhere`, `ClusterElsewhere`).

| Module | Theorem | States |
|---|---|---|
| `StoreProofs` | `InitTables`, `ClampPositive`, `ConfigTyped`, `StoreOperationsTyped` | lemmas: the tables begin typed, every statement keeps them typed |
| | `DeletionTyped`, `NamesStayUnique`, `InsertStamps`, `StampsKept` | lemmas: a deletion keeps the tables typed; one live application per name; `created` has every inserted build once, with its owner (`StampsInv`) |
| `BuilderProofs` | `TypeCorrect` | `Spec => []TypeOK` |
| | `Invariance` | `Spec => []BuildInv` |
| | `SucceededServed` | a succeeded row speaks of a pushed, and for spinkube applied, image |
| | `AppliedPushed` | watchers apply pushed images only |
| | `UnsettledAttended` | an unsettled row has somebody at work on it, or the process died under it, or its update failed |
| | `WorkerpoolNeverApplied` | no watcher applies an image of a workerpool application |
| | `OutcomesFinal` | an outcome stays, or goes with its row |
| | `Refinement` | `Spec` implements `BuildLifecycle!Spec` |
| | `TablesAsSeen` | `Spec => TablesSpec`: the columns that a worker reads move by `TableStep` |
| `ControlPlaneProofs` | `HandlersWithinBuilder` | `CPSpec => BuilderSpec` |
| | `CPInvariance`, `CPTypes` | `CPSpec => []CPInv`, and of it `CPTypeOK` |
| | `ImagesOfThatName` | a `SpinApp` runs images built for applications of its name, if no caller of `POST /deploy` names a build's image |
| | `BuildsAmongHandlers` | `BuildInv`, `OutcomeIsFinal` and `BuildLifecycle!Spec` hold of `CPSpec` |
| | `TablesAmongHandlers` | so does `TablesSpec` |
| | `AgreementInvariance` | one client at a time, no stray deploy: `CPSpec => []AgreementInv` |
| | `PartsAgree`, `DeletesCascade` | of it, `SequentialAgreement` and `DeleteCascades` |
| | `SequentialInvariance` | one client at a time, no `POST /deploy`: `CPSpec => []SequentialInv` |
| | `LatestDeployed` | of it, `LatestIsDeployed` |
| `WorkerPoolProofs` | `WorkerInvariance` | `Spec => []WorkerInv` |
| | `ServedIsBuilt` | a name is served with a successful build of a workerpool application of that name |
| | `ImagesNeverStepBack` | a name never goes from an image to an older one of the same application |
| | `DroppedOnlyForCause` | a served name is dropped only for a cause in the tables or a failed lookup since the poll began, or with the process |
| | `WorkerAmongHandlers` | the last three hold of `OpenSpec`, where columns that a worker does not see change too |
| `InvocationProofs` | `CallInvariance` | `Spec => []CallInv` |
| | `WaitersGuarded` | a waiting caller's guest is always about to be stopped |
| | `BumpsAreOverdue` | the shared epoch is bumped only for an overdue call |
| | `DispatchInvariance` | `DispatchSpec => []DispatchInv` |
| | `DispatchImplementsInvocation` | `DispatchSpec => Spec`; with it `DispatchWaitersGuarded` and `DispatchBumpsAreOverdue` |
| | `LongestPrefixFirst` | no matching route is passed over for one that fixes less of the path, in a pod, and in a worker unless it has dots before its end |
| | `PrefixAndRest` | prefix and what the guest is shown make the caller's path |
| | `OfferedPathsReach` | a path that a page offers is never answered by another function, nor by "no such route" |
| `RolloutProofs` | `RolloutInvariance` | `Spec => []RolloutInv` |
| | `RowsAreClean` | a row is within the policy under which it was saved |
| | `RowAgreesWithFreshApply` | that policy, applied to the row again, neither fails nor changes it |
| | `DeploymentsWithinPolicy` | a deployment leaves a `SpinApp` within the policy of the process that made it |
| | `ReadyWasEarned` | Ready is said of a Deployment only after its rollout was complete |
| `SessionProofs` | `SessionInvariance` | `Spec => []SessionInv` |
| | `LoginsMatched` | a code is exchanged only with the cookies of its own login |
| | `SessionsEarned` | a session speaks for the user of the one login that made it |
| | `AnswersInForce` | nobody is served for a session that is over |
| | `ForceHonoured` | nobody is turned away as anonymous while the session is in force |
| | `RolesDecide` | the roles of the token decide who is let in |
| `SourcesProofs` | `SourcesInvariance` | `Spec => []SourcesInv` |
| | `TabsInvariance` | `Spec => []TabsAgree`, the strengthening of the next |
| | `EditsExplained` | a tab in touch and at rest differs from a reload of its page in edited files only |
| | `BuildsReadEditors` | so does what a build has read of its function, while nobody writes |

*Assumptions*: those named in the modules (`StoreAssumption`,
`DeployerAssumption`, `BuilderAssumption`, `ControlPlaneAssumption`, `WorkerAssumption`,
`SessionAssumption`, `SourcesAssumption`, `RoutesAssumption`, `DispatchAssumption`,
`PolicyAssumption`, `RolloutAssumption`), which give the
constants their types and keep `None`, `Unset` and the like apart from values; TLC
evaluates them in every run.

*Builder.* None of the safety properties is inductive alone: that
a row says succeeded only of a pushed image rests on the poll, two or three
calls earlier. `BuildInv` ties all state to the program counter of the build:
before the row there is no Job; a complete Job has pushed; from `deploy` on the
image is pushed; from `ingress` on it is applied if the application is spinkube;
a terminal row has no worker left; an unsettled one has one, or is in
`missed`, or was lost. The steps of one build touch another's part nowhere, so
the proof goes action by action for one build, with a lemma for the frame, and
the two `Elsewhere` actions change of a build's part at most its status, to
"absent". Every run of `Builder` also checks `BuildInv`.

*The refinement* maps `status` and `pc` to the life cycle's state: "new" until
the row is inserted, "gone" when the request failed before it or the row went
with its application. A `missed` update maps to a stutter, a cascade to
`Cascade`, a crash of requests that had no row yet to `RefuseAll`.

*ControlPlane.* `HandlersWithinBuilder` is the composition: each call of a handler is
a step of `Builder`'s `StoreElsewhere` or `ClusterElsewhere`, or changes nothing
that `Builder` knows of. For that the counts and lists in a request's hands have to be ones
that clients may ask for, and what a PATCH read out of a `SpinApp` has to be an image:
the first three parts of `CPInv`. The fourth, `NamesAgree`, follows an image on its
way, which has no bounds in time: from the build to the `SpinApp` (`DeployImage`, with a
row that may be long gone), out of it into the hands of a PATCH (`ReadSpinApp`), and
back (`ApplyForRequest`), perhaps after the name was given up and used again. A build
that has begun stays begun with the row it loaded (`BegunStaysBegun`), so an image
never changes its name. The theorem needs its condition: `POST /deploy` puts any image
under any name.

*One client at a time.* `SequentialAgreement` and `LatestIsDeployed` speak of moments
at which nothing is at work, so neither is inductive. `AgreementInv` says what holds at
every step between: at most one request or build is at work (`OneAtATime`) and it
has the row as it is stored (`RequestStands`, `BuildStands`); a `SpinApp` is that of
the live spinkube application of its name, with the stored variables unless a PATCH has
still to apply them (`SpinAppsAgree`); an application has a function unless its
creation has still to insert it. `DeploymentInv` adds the order of builds: one at work is the
newest of all (`BuildIsNewest`), so deploying it leaves the newest success deployed
(`NewestIsDeployed`), what a PATCH has read is what runs, and only between the two halves
of a deletion, or before the outcome of a deployed build is written, may the newest success
not be what runs. The theorems state their
conditions, each of which the code needs. `OneClient`: no overlap, no failing call and no
crash; the runs `CPOutOfOrder` and `CPDeleteRace` show what happens otherwise, and a
failed second step of a deletion leaves a listed application that is not deployed.
`NoStrayDeploy`: `POST /deploy` does not look at the runtime, so of a workerpool
application it makes a `SpinApp` that no deletion removes. For
`LatestDeployed` there is no `POST /deploy` at all, since it puts any image in place of
the latest. Under `OneClient` any number of applications, requests and builds follow
each other, over any names.

*What a worker may assume.* `WorkerPool` has the rest of the control plane as
`StoreStep`. `TablesAsSeen` discharges that: of every step of `Builder`, and so of every
handler, the columns `seenVars` see a `TableStep` or nothing. The guards that `TableStep` puts on inserting and updating
builds are not in the statements; they follow from the invariant of the builds
(`TablesInv`): a watcher whose outcome is due finds its row unsettled or gone, and a row
that is about to be inserted has an id of its own and an application that was loaded.
The steps that a worker does not see are `Unseen` in `WorkerPoolProofs`; `OpenSpec` admits
them, and what is proved of `Spec` is proved of it.

*WorkerPool.* `ServedIsBuilt` follows `WorkerInv`, which says of a reply under
way, of the entries still to be worked through and of the catalog that each
image belongs to a build that once succeeded for a workerpool application of
that name; it holds although the tables move on, because a build's owner and the
order of `created` are never rewritten. `ImagesNeverStepBack` needs a
stronger invariant, `OrderInv`: a name is in a reply at most once (`Distinct`), a
row that went does not come back (`GoneForGood`), and no image of a reply is older
than what the catalog holds of the same application (`ReplyIsCurrent`). The last
one is what the lookup promises: the newest successful row among the newest
`Limit` is at least as new as any row the catalog was filled from, which is the
lemma `LookupIsNotOlder`. Its proof needs a newest row in every set of rows;
instead of an induction over sets, `BuildsAreOrdered` carries that fact through
the steps: an insert makes the new row the newest of every set it is in.
`DroppedOnlyForCause` is about a name that is missing in a reply, so its invariant
(`DropInv`) is about what is *not* forgotten: a name for which the tables have named an image since the
poll began is in the reply, or its application has still to be looked up
(`NothingForgotten`). For that the application which is asked for has to be the one that
the tables name an image for at the end, and this is the unique name
(`OneLivePerName`): it cannot be deleted and created again without the name being blank
in between.

*Invocation.* `CallInv` says for each stage of a call which timers, limits and
guests go with it: while somebody waits the timer is set, the limit is
within one bump of the epoch as long as the timer has not fired, and a timer
that was aborted belongs to a call that got its answer.

*Dispatch.* Its steps are those of `Invocation` or leave a call's guest alone, hence
`DispatchImplementsInvocation`, and with it the theorems about calls. Routing is decided
by `CHOOSE`, so a theorem about it has to show that there is something to choose:
`MostExists` and `LeastRank` find, among any functions that match, one with a longest
measure and the least name (`LeastExists`: numbers are well-founded, from the library),
and `WorkerResolves` and `PodResolves` conclude of the two routers whom they pick. A
worker sorts by `PrefixOf`, which cuts a route at its *first* dots, and matches by
`FixedPart`, which drops the *last*. `SortedByPrefix` relates the two: what a route is
sorted by lies within what it fixes, and is all of that when nothing in it begins with
dots. Hence a route that lost was sorted by no more than the winner's, which fixes at
least what it is sorted by; if the loser is `DotsLast`, it fixes no more than the winner.
No such condition is needed of the winner, nor of the caller's path. `RestIsLeft` glues prefix and rest together, and
`FirstPathIsOwn` shows that of an image with separate first paths one function alone has
a longest prefix of what its page offers.

*Rollout.* The policy half rests on three facts about the operators, for any sizes:
what `Cleaned` lets through is `Within`, what is within is not refused, and what the
deployer falls back to is within as well. The other half is `ReadyWasComplete`, which
is not inductive because `full` is about a moment that is over: the invariant adds that a
status whose generation is not an earlier one was written since the template last
changed (`status.observed <= dep.generation`, and no status without a Deployment), and
the step of `SyncStatus` turns its numbers into sets: as many pods of the
template, and as many ready ones, as there are pods means all of them.

*Session.* That a code meets its own verifier is not visible in `handleCallback`,
which compares the state only. It follows from what a browser's jar can hold:
`JarIsConsistent` says that the login cookies which are left are of one login and
leave in order, so that a state that matches vouches for the other two. A jar is
made consistent by a login, which replaces all three, and stays so when cookies
expire or an answer clears them; requests carry copies of such jars. The rest
of `SessionInv` ties the code of a login to its session (a session's code is
spent, and a spent code makes no other) and the map to its history: a
session that was made is in the map, or closed, or expired. From the last
part the three action properties follow with one look at `Resolve`
(`Answers`, `ServedAnswer`).

*Sources.* `EditsExplainDifferences` speaks of tabs without a call under way, so it
cannot be inductive. `Agrees` says what each stage of each call leaves of it: while
a save is under way the editor differs from the tree that was *sent* in what was
edited since (`dirty`), and from the table in that or in what the save carries
(`sending`), whichever of the two the table turns out to hold; when the
save is answered well, the table holds what was sent. A step of another tab, or of
the server for it, leaves a tab's page as it is (`OthersAreBystanders`), and the row of
that page too unless the tab goes astray or the function goes (`RowStays`).
`BuildsReadEditors` combines it with `InputsCurrent`: what was read is what is
stored, of functions not written since the request began.

*Only model-checked*: liveness, which needs fairness and `ENABLED`, outside the
prover (`EveryBuildSettles`, `CatalogConverges`, `EveryRequestEnds`, `PageCatchesUp`).
Every other property of a passing run is a theorem.

## 5. Not modelled

Logs, metrics and telemetry keep no state that is read back. Of configuration and
start-up only what outlives a process is modelled (the policy it reads, the builds it
does not look at); the rest is read once and passed on. Headers, queries and the
wrapping of responses, manifest text apart from routes, compilers in the builder images
and the Helm chart have no control flow of the system's own. Of the UI, lists,
creation forms and the log view are left out: they show one answer of one call each.

Some hazards are listed without a property, since the code does go wrong there: lost
updates of overlapping PATCHes, a watcher that deploys a row of long ago, a PATCH that
re-applies an older image, a creation or a deletion that stops half way, a function whose
template was not saved, two deletions of the last two functions, thirty failures
that hide a success, an Import across a save, a registry that hangs. The modules have the steps
of all of them; sections 3.2 and 3.3 describe what comes of them. Polls of one page that
overlap are not in `Rollout`'s run, since two of them exceed what TLC can do with it;
`RolloutInv` and the theorems that follow from it hold for any number.

## 6. Plan

1. *Core* (done): `Store`, `Deployer`, `Builder` with `BuildLifecycle`,
   `ControlPlane`; the invariant and the refinement proved in `BuilderProofs`;
   `WorkerPool`, `Invocation`, `Session` and `Sources` with their invariants proved.
2. *Extend* (done): `Routes` and `Dispatch`, composed with `Invocation`; `Policy` and
   `Rollout`, with the operator and the page's polls; their hazards.
3. *Prove* (done: the invariant of every component; `ControlPlane` implements
   `Builder!Spec` and `Dispatch` implements `Invocation!Spec`; routing for any table;
   what a worker assumes of the tables; the agreement of store and cluster for one
   client at a time). Left: weaker conditions for the last, such as overlapping requests to
   different applications.
