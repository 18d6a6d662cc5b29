-------------------------- MODULE WorkerPoolProofs --------------------------
(***************************************************************************)
(* Theorems about WorkerPool, for any applications, builds, listing limit  *)
(* and number of faults and restarts: whatever the tables do during a      *)
(* poll, a worker serves under a name only images that were built for it.  *)
(***************************************************************************)
EXTENDS WorkerPool, StoreProofs, FiniteSetTheorems

\* What WorkerInv says of the image of a reply's entry or of the catalog.
IsBuiltFor(b, n) ==
    /\ status[b] \in {"succeeded", "absent"}
    /\ owner[b] \in App
    /\ NameOf[owner[b]] = n
    /\ RuntimeOf[owner[b]] = "workerpool"

\* The parts of WorkerInv in terms of IsBuiltFor.
LEMMA InvInTermsOfImages ==
  WorkerInv <=>
    /\ WorkerTypeOK
    /\ \A n \in Names : catalog[n] # None => IsBuiltFor(catalog[n], n)
    /\ \A e \in reply : IsBuiltFor(e.image, e.name)
    /\ phase # "load" => todo = {}
    /\ \A a \in asked : RuntimeOf[a] = "workerpool"
    /\ BuildsAreOrdered
  BY DEF WorkerInv, CatalogIsBuilt, ReplyIsBuilt, IsBuiltFor

\* latestSuccessfulImage returns a successful build of the application it was
\* asked for, or nothing.
LEMMA LatestIsBuilt ==
  ASSUME BuildsAreOrdered, NEW a \in App, LatestSuccessfulImage(a) # None
  PROVE  /\ LatestSuccessfulImage(a) \in Succeeded(ListBuilds(a))
         /\ \A x \in Succeeded(ListBuilds(a)) : ~Newer(x, LatestSuccessfulImage(a))
<1> DEFINE S == Succeeded(ListBuilds(a))
<1>1. S \in SUBSET Build
  BY DEF Succeeded, ListBuilds, Rows
<1>2. S # {}
  BY DEF LatestSuccessfulImage
<1>3. \E b \in S : \A x \in S : ~Newer(x, b)
  BY <1>1, <1>2 DEF BuildsAreOrdered
<1>4. LatestSuccessfulImage(a) = CHOOSE b \in S : \A x \in S : ~Newer(x, b)
  BY <1>2 DEF LatestSuccessfulImage
<1>5. QED
  BY <1>3, <1>4

\* A new row is the newest of every set it belongs to, and changes nothing
\* between the others.
LEMMA CreateBuildKeepsOrder ==
  ASSUME WorkerTypeOK, BuildsAreOrdered, NEW a \in App, NEW b \in Build,
         owner[b] = None, CreateBuild(b, a)
  PROVE  BuildsAreOrdered'
<1> DEFINE n == Len(created)
<1>1. /\ created \in Seq(Build) /\ n \in Nat /\ DOMAIN created = 1..n
      /\ created' = Append(created, b)
      /\ owner' = [owner EXCEPT ![b] = a]
      /\ owner \in [Build -> App \union {None}]
  BY DEF CreateBuild, WorkerTypeOK, StoreTypeOK
<1>2. /\ created' \in Seq(Build) /\ DOMAIN created' = 1..(n + 1)
      /\ created'[n + 1] = b
      /\ \A i \in 1..n : created'[i] = created[i]
  BY <1>1
<1>3. \A i \in 1..n : created[i] \in Build /\ created[i] # b
  BY <1>1 DEF BuildsAreOrdered
<1>4. ASSUME NEW i \in DOMAIN created' PROVE owner'[created'[i]] # None
  <2>1. CASE i = n + 1
    BY <1>1, <1>2, <2>1, StoreAssumption
  <2>2. CASE i # n + 1
    <3>1. i \in 1..n
      BY <1>1, <1>2, <2>2
    <3>2. created'[i] = created[i] /\ created[i] \in Build \ {b} /\ owner[created[i]] # None
      BY <1>1, <1>2, <1>3, <3>1 DEF BuildsAreOrdered
    <3>3. QED
      BY <1>1, <3>2
  <2>3. QED
    BY <2>1, <2>2
<1>5. ASSUME NEW x \in Build PROVE ~Newer(x, b)'
  <2> SUFFICES ASSUME NEW i \in 1..(n + 1), NEW j \in 1..(n + 1), i > j, created'[j] = b
               PROVE  FALSE
    BY <1>2 DEF Newer
  <2>1. j \in 1..n
    BY <1>1
  <2>2. QED
    BY <1>2, <1>3, <2>1
<1>6. ASSUME NEW x \in Build \ {b}, NEW y \in Build \ {b}, Newer(x, y)' PROVE Newer(x, y)
  <2>1. PICK i \in 1..(n + 1), j \in 1..(n + 1) : i > j /\ created'[i] = x /\ created'[j] = y
    BY <1>2, <1>6 DEF Newer
  <2>2. i \in 1..n /\ j \in 1..n
    BY SMTT(30), <1>1, <1>2, <2>1
  <2>3. QED
    BY <1>1, <1>2, <2>1, <2>2 DEF Newer
<1>7. ASSUME NEW S \in SUBSET Build, S # {}
      PROVE  \E c \in S : \A x \in S : ~Newer(x, c)'
  <2>1. CASE b \in S
    BY <1>5, <2>1
  <2>2. CASE b \notin S
    <3>1. PICK c \in S : \A x \in S : ~Newer(x, c)
      BY <1>7 DEF BuildsAreOrdered
    <3>2. QED
      BY <1>6, <2>2, <3>1
  <2>3. QED
    BY <2>1, <2>2
<1>8. QED
  BY <1>4, <1>7 DEF BuildsAreOrdered
-----------------------------------------------------------------------------
\* The worker starts with an empty catalog and no poll under way.
LEMMA InitWorkerInv == Init => WorkerInv
<1> SUFFICES ASSUME Init PROVE WorkerInv
  OBVIOUS
<1>1. WorkerTypeOK
  BY InitTables, WorkerAssumption DEF Init, WorkerTypeOK
<1>2. BuildsAreOrdered
  BY DEF Init, StoreInit, BuildsAreOrdered, Newer
<1>3. QED
  BY <1>1, <1>2, InvInTermsOfImages DEF Init

\* Each statement on the tables keeps them in order, and keeps the images that
\* were built for a name so: outcomes are final and ids are fresh.
TablesKept ==
    /\ StoreTypeOK'
    /\ BuildsAreOrdered'
    /\ \A b \in Build, n \in Names : IsBuiltFor(b, n) => IsBuiltFor(b, n)'

LEMMA TablesKeep ==
  ASSUME WorkerTypeOK, BuildsAreOrdered, StoreStep
  PROVE  TablesKept
<1>1. StoreTypeOK
  BY DEF WorkerTypeOK
<1>2. ASSUME UNCHANGED <<owner, created>>,
             \A b \in Build : status[b] \in {"succeeded", "absent"}
                                => status'[b] \in {"succeeded", "absent"},
             StoreTypeOK'
      PROVE  TablesKept
  BY <1>2 DEF TablesKept, BuildsAreOrdered, Newer, IsBuiltFor
<1>3. ASSUME NEW a \in App, CreateApplication(a) PROVE TablesKept
  BY <1>1, <1>2, <1>3 DEF CreateApplication, StoreTypeOK, Application
<1>4. ASSUME NEW a \in App, NEW fk \in ForeignKeys, DeleteApplication(a, fk) PROVE TablesKept
  <2>1. StoreTypeOK'
    <3>1. fk \in BOOLEAN
      BY StoreAssumption
    <3>2. Build # {} => StoreTypeOK'
      BY <1>1, <1>4, <3>1, StoreOperationsTyped
    <3>3. Build = {} => StoreTypeOK'
      BY <1>1, <1>4 DEF DeleteApplication, StoreTypeOK, Application
    <3>4. QED
      BY <3>2, <3>3
  <2>2. QED
    BY <1>2, <1>4, <2>1 DEF DeleteApplication
<1>5. ASSUME NEW a \in App, NEW b \in Build, owner[b] = None, CreateBuild(b, a)
      PROVE  TablesKept
  <2>1. StoreTypeOK'
    BY <1>1, <1>5, StoreOperationsTyped
  <2>2. BuildsAreOrdered'
    BY <1>5, CreateBuildKeepsOrder
  <2>3. ASSUME NEW c \in Build, NEW n \in Names, IsBuiltFor(c, n) PROVE IsBuiltFor(c, n)'
    <3>1. c # b
      BY <1>5, <2>3, StoreAssumption DEF IsBuiltFor
    <3>2. QED
      BY <1>1, <1>5, <2>3, <3>1 DEF CreateBuild, IsBuiltFor, StoreTypeOK
  <2>4. QED
    BY <2>1, <2>2, <2>3 DEF TablesKept
<1>6. ASSUME NEW b \in Build, NEW s \in BuildStatus, status[b] \in {"pending", "running"},
             UpdateBuildStatus(b, s)
      PROVE  TablesKept
  <2>1. StoreTypeOK'
    BY <1>1, <1>6 DEF UpdateBuildStatus, StoreTypeOK
  <2>2. QED
    BY <1>1, <1>2, <1>6, <2>1 DEF UpdateBuildStatus, StoreTypeOK
<1>7. QED
  BY <1>3, <1>4, <1>5, <1>6 DEF StoreStep, TableStep

\* So every image that is served or on its way stays one that was built for
\* its name.
LEMMA StoreStepInv == WorkerInv /\ StoreStep => WorkerInv'
<1> SUFFICES ASSUME WorkerInv, StoreStep PROVE WorkerInv'
  OBVIOUS
<1>1. /\ WorkerTypeOK /\ BuildsAreOrdered
      /\ \A n \in Names : catalog[n] # None => IsBuiltFor(catalog[n], n)
      /\ \A e \in reply : IsBuiltFor(e.image, e.name)
      /\ phase # "load" => todo = {}
      /\ \A a \in asked : RuntimeOf[a] = "workerpool"
  BY InvInTermsOfImages
<1>2. /\ UNCHANGED <<phase, asked, reply, todo, catalog, faults, restarts>>
      /\ blank' = blank \union Blank'
  BY DEF StoreStep
<1>3. TablesKept
  BY <1>1, TablesKeep
<1>4. WorkerTypeOK'
  BY <1>1, <1>2, <1>3 DEF WorkerTypeOK, TablesKept, Blank
<1>5. (\A n \in Names : catalog[n] # None => IsBuiltFor(catalog[n], n))'
  <2> SUFFICES ASSUME NEW n \in Names, catalog[n] # None PROVE IsBuiltFor(catalog[n], n)'
    BY <1>2
  <2>1. catalog[n] \in Build /\ IsBuiltFor(catalog[n], n)
    BY <1>1 DEF WorkerTypeOK
  <2>2. QED
    BY <1>2, <1>3, <2>1 DEF TablesKept, IsBuiltFor
<1>6. \A e \in reply' : IsBuiltFor(e.image, e.name)'
  <2> SUFFICES ASSUME NEW e \in reply PROVE IsBuiltFor(e.image, e.name)'
    BY <1>2
  <2>1. e.image \in Build /\ e.name \in Names /\ IsBuiltFor(e.image, e.name)
    BY <1>1 DEF WorkerTypeOK, Entry
  <2>2. QED
    BY <1>3, <2>1 DEF TablesKept, IsBuiltFor
<1>7. QED
  BY <1>1, <1>2, <1>3, <1>4, <1>5, <1>6
     DEF TablesKept, WorkerInv, CatalogIsBuilt, ReplyIsBuilt, IsBuiltFor
-----------------------------------------------------------------------------
\* A step of the poll loop, of the handler, or a restart.
LEMMA WorkerStepInv == WorkerInv /\ (WorkerStep \/ Restart) => WorkerInv'
<1> SUFFICES ASSUME WorkerInv, WorkerStep \/ Restart PROVE WorkerInv'
  OBVIOUS
<1>1. /\ WorkerTypeOK /\ StoreTypeOK /\ BuildsAreOrdered
      /\ \A n \in Names : catalog[n] # None => IsBuiltFor(catalog[n], n)
      /\ \A e \in reply : IsBuiltFor(e.image, e.name)
      /\ phase # "load" => todo = {}
      /\ \A a \in asked : RuntimeOf[a] = "workerpool"
  BY InvInTermsOfImages DEF WorkerTypeOK
<1>2. UNCHANGED storeVars
  BY DEF WorkerStep, Restart, Poll, List, Answer, PollFails, Load, Evict
<1>3. StoreTypeOK' /\ BuildsAreOrdered'
  BY SMTT(20), <1>1, <1>2 DEF storeVars, StoreTypeOK, BuildsAreOrdered, Newer
<1> DEFINE Rest ==
      /\ WorkerTypeOK'
      /\ \A n \in Names : catalog'[n] # None => IsBuiltFor(catalog'[n], n)
      /\ \A e \in reply' : IsBuiltFor(e.image, e.name)
      /\ phase' # "load" => todo' = {}
      /\ \A a \in asked' : RuntimeOf[a] = "workerpool"
<1>5. SUFFICES Rest
  BY <1>2, <1>3 DEF storeVars, WorkerInv, CatalogIsBuilt, ReplyIsBuilt, IsBuiltFor
<1>6. CASE Poll
  BY <1>1, <1>3, <1>6 DEF Poll, WorkerTypeOK, Workerpool, Blank
<1>7. ASSUME NEW a \in App, List(a) PROVE Rest
  <2>1. RuntimeOf[a] = "workerpool" /\ NameOf[a] \in Names
    BY <1>1, <1>7 DEF List, Names
  <2>2. ASSUME NEW b \in {LatestSuccessfulImage(a)} \ {None}
        PROVE  b \in Build /\ IsBuiltFor(b, NameOf[a])
    <3>1. b = LatestSuccessfulImage(a) /\ b # None
      BY <2>2
    <3>2. b \in Succeeded(ListBuilds(a))
      BY <1>1, <3>1, LatestIsBuilt
    <3>3. b \in Build /\ status[b] = "succeeded" /\ owner[b] = a
      BY <3>2 DEF Succeeded, ListBuilds, Rows
    <3>4. QED
      BY <2>1, <3>3 DEF IsBuiltFor
  <2>3. \A e \in reply' \ reply : e \in Entry /\ IsBuiltFor(e.image, e.name)
    BY <1>7, <2>1, <2>2 DEF List, Entry
  <2>4. WorkerTypeOK'
    BY <1>1, <1>3, <1>7, <2>1, <2>3, WorkerAssumption DEF List, WorkerTypeOK, Fault
  <2>5. QED
    BY <1>1, <1>7, <2>3, <2>4 DEF List
<1>8. CASE Answer
  BY <1>1, <1>3, <1>8 DEF Answer, WorkerTypeOK
<1>9. CASE PollFails
  BY <1>1, <1>3, <1>9, WorkerAssumption DEF PollFails, WorkerTypeOK, Fault
<1>10. ASSUME NEW e \in Entry, Load(e) PROVE Rest
  <2>1. e \in reply /\ e.name \in Names /\ e.image \in Build
    BY <1>1, <1>10 DEF Load, WorkerTypeOK, Entry
  <2>2. \A n \in Names : catalog'[n] \in {catalog[n], e.image} /\
                         (catalog'[n] # catalog[n] => n = e.name)
    BY <1>1, <1>10, <2>1 DEF Load, WorkerTypeOK
  <2>3. WorkerTypeOK'
    BY <1>1, <1>3, <1>10, <2>1, WorkerAssumption DEF Load, WorkerTypeOK, Fault
  <2>4. \A n \in Names : catalog'[n] # None => IsBuiltFor(catalog'[n], n)
    BY <1>1, <2>1, <2>2
  <2>5. QED
    BY <1>1, <1>10, <2>3, <2>4 DEF Load
<1>11. CASE Evict
  <2>1. WorkerTypeOK'
    BY <1>1, <1>3, <1>11 DEF Evict, WorkerTypeOK
  <2>2. \A n \in Names : catalog'[n] \in {catalog[n], None}
    BY <1>11 DEF Evict
  <2>3. QED
    BY <1>1, <1>11, <2>1, <2>2 DEF Evict
<1>12. CASE Restart
  BY <1>1, <1>3, <1>12, WorkerAssumption DEF Restart, WorkerTypeOK
<1>13. QED
  BY <1>6, <1>7, <1>8, <1>9, <1>10, <1>11, <1>12 DEF WorkerStep
-----------------------------------------------------------------------------
(***************************************************************************)
(* The worker among the handlers.  Besides the steps of Next the rest of   *)
(* the control plane writes columns that a worker does not see: functions, *)
(* SpinApp names, tags.  Module ControlPlaneProofs shows that the handlers *)
(* do nothing else to the tables (TablesAmongHandlers), so what holds of   *)
(* OpenSpec holds of a worker that polls the whole control plane.          *)
(***************************************************************************)
Unseen == StoreTypeOK' /\ UNCHANGED <<seenVars, workerVars>>

OpenSpec == Init /\ [][Next \/ Unseen]_vars

LEMMA SpecIsOpen == Spec => OpenSpec
<1>1. [Next]_vars => [Next \/ Unseen]_vars
  OBVIOUS
<1>2. QED
  BY <1>1, PTL DEF Spec, OpenSpec

\* A step of Next, or one that a worker cannot tell from no step at all.
LEMMA SeenOrUnseen ==
  ASSUME WorkerInv, [Next \/ Unseen]_vars
  PROVE  StoreStep \/ WorkerStep \/ Restart \/ Unseen
BY DEF Next, Unseen, vars, storeVars, workerVars, seenVars, WorkerInv, WorkerTypeOK, StoreTypeOK

\* All that a worker reads of the tables stays.
LEMMA UnseenReads ==
  ASSUME StoreTypeOK, Unseen
  PROVE  /\ UNCHANGED <<status, owner, created, phase, asked, reply, todo, catalog, blank,
                        faults, restarts>>
         /\ \A a \in App : app'[a].state = app[a].state
         /\ \A a \in App : Live(a)' <=> Live(a)
         /\ \A x, y : Newer(x, y)' <=> Newer(x, y)
         /\ \A n : Served(n)' = Served(n)
<1>1. /\ UNCHANGED <<status, owner, created, phase, asked, reply, todo, catalog, blank,
                     faults, restarts>>
      /\ [a \in App |-> app[a].state]' = [a \in App |-> app[a].state]
  BY DEF Unseen, seenVars, workerVars
<1>2. \A a \in App : app'[a].state = app[a].state
  <2>1. ASSUME NEW a \in App PROVE app'[a].state = app[a].state
    <3>1. /\ [x \in App |-> app[x].state]'[a] = app'[a].state
          /\ [x \in App |-> app[x].state][a] = app[a].state
      BY <2>1
    <3>2. QED
      BY <1>1, <3>1
  <2>2. QED
    BY <2>1
<1>3. \A a \in App : Live(a)' <=> Live(a)
  BY <1>2 DEF Live
<1>4. \A x, y : Newer(x, y)' <=> Newer(x, y)
  BY <1>1 DEF Newer
<1>5. Workerpool' = Workerpool
  BY <1>3 DEF Workerpool
<1>6. \A n : Served(n)' = Served(n)
  BY <1>1, <1>5 DEF Served, LatestSuccessfulImage, Succeeded, ListBuilds, Rows, Newer
<1>7. QED
  BY <1>1, <1>2, <1>3, <1>4, <1>6

LEMMA UnseenInv ==
  ASSUME WorkerInv, Unseen
  PROVE  WorkerInv'
<1>1. StoreTypeOK /\ StoreTypeOK'
  BY DEF WorkerInv, WorkerTypeOK, Unseen
<1>2. QED
  BY <1>1, UnseenReads DEF WorkerInv, WorkerTypeOK, CatalogIsBuilt, ReplyIsBuilt,
                           BuildsAreOrdered, Newer

LEMMA OpenInvariance == OpenSpec => []WorkerInv
<1>1. Init => WorkerInv
  BY InitWorkerInv
<1>2. WorkerInv /\ [Next \/ Unseen]_vars => WorkerInv'
  BY SeenOrUnseen, StoreStepInv, WorkerStepInv, UnseenInv
<1>3. QED
  BY <1>1, <1>2, PTL DEF OpenSpec

\* What is served, what a reply names and what the tables hold stay together
\* through every interleaving of polls, builds, deletions and restarts.
THEOREM WorkerInvariance == Spec => []WorkerInv
  BY SpecIsOpen, OpenInvariance, PTL

\* router.rs, worker.go: under a name a worker serves only the image of a
\* successful build of a workerpool application that has, or had, that name.
THEOREM ServedIsBuilt == Spec => []CatalogIsBuilt
  BY WorkerInvariance, PTL DEF WorkerInv
-----------------------------------------------------------------------------
(***************************************************************************)
(* The order of images.  Two polls look an application up one after the    *)
(* other; between them builds succeed, are added and go.  The second never *)
(* returns an older image than the first: a success stays one, the listing *)
(* is closed upwards, and what a deleted application still gets is newer.  *)
(***************************************************************************)
GoneForGood ==
    \A b \in Build : owner[b] # None /\ status[b] = "absent" =>
        app[owner[b]].state = "deleted" /\ \A x \in Rows(owner[b]) : Newer(x, b)

ReplyIsCurrent ==
    /\ \A e \in reply : owner[e.image] \notin asked
    /\ \A e1, e2 \in reply : owner[e1.image] = owner[e2.image] => e1.image = e2.image
    /\ \A e \in reply, n \in Names :
          catalog[n] # None /\ owner[catalog[n]] = owner[e.image] => ~Newer(catalog[n], e.image)

OrderInv == WorkerInv /\ Distinct /\ Stamped /\ GoneForGood /\ ReplyIsCurrent

\* created_at orders the builds strictly.
LEMMA NewerIsStrict ==
  ASSUME StoreTypeOK, Distinct
  PROVE  /\ \A x : ~Newer(x, x)
         /\ \A x, y, z : Newer(x, y) /\ Newer(y, z) => Newer(x, z)
<1>1. created \in Seq(Build) /\ Len(created) \in Nat /\ DOMAIN created = 1..Len(created)
  BY DEF StoreTypeOK
<1>2. ASSUME NEW x PROVE ~Newer(x, x)
  BY <1>1 DEF Newer, Distinct
<1>3. ASSUME NEW x, NEW y, NEW z, Newer(x, y), Newer(y, z) PROVE Newer(x, z)
  <2>1. PICK i, j \in DOMAIN created : i > j /\ created[i] = x /\ created[j] = y
    BY <1>3 DEF Newer
  <2>2. PICK k, l \in DOMAIN created : k > l /\ created[k] = y /\ created[l] = z
    BY <1>3 DEF Newer
  <2>3. j = k
    BY <2>1, <2>2 DEF Distinct
  <2>4. i > l
    BY <1>1, <2>1, <2>2, <2>3
  <2>5. QED
    BY <2>1, <2>2, <2>4 DEF Newer
<1>4. QED
  BY <1>2, <1>3

\* Only finitely many builds are newer than a given one.
LEMMA NewerAreFinite ==
  ASSUME StoreTypeOK, NEW S, NEW b
  PROVE  IsFiniteSet({x \in S : Newer(x, b)})
<1> DEFINE T == {x \in S : Newer(x, b)}
           n == Len(created)
           f == [x \in T |-> CHOOSE i \in 1..n : created[i] = x]
<1>1. n \in Nat /\ DOMAIN created = 1..n
  BY DEF StoreTypeOK
<1>2. ASSUME NEW x \in T PROVE f[x] \in 1..n /\ created[f[x]] = x
  <2>1. \E i \in 1..n : created[i] = x
    BY <1>1 DEF Newer
  <2>2. QED
    BY <2>1
<1>3. f \in Injection(T, 1..n)
  <2>1. f \in [T -> 1..n]
    BY <1>2
  <2>2. \A x, y \in T : f[x] = f[y] => x = y
    BY <1>2
  <2> HIDE DEF f, T
  <2>3. QED
    BY <2>1, <2>2 DEF Injection, IsInjective
<1>4. IsFiniteSet(1..n)
  BY <1>1, FS_Interval
<1>5. QED
  BY <1>3, <1>4, FS_Injection

\* sqlite.go:367: a listing of the newest rows has, with a row, the newer ones.
LEMMA ListingIsClosed ==
  ASSUME StoreTypeOK, Distinct, NEW a \in App, NEW c \in Rows(a), NEW d \in ListBuilds(a),
         Newer(c, d)
  PROVE  c \in ListBuilds(a)
<1> DEFINE Above(b) == {x \in Rows(a) : Newer(x, b)}
<1>1. IsFiniteSet(Above(c)) /\ IsFiniteSet(Above(d))
  BY NewerAreFinite
<1>2. Above(c) \in SUBSET Above(d)
  BY NewerIsStrict
<1>3. Cardinality(Above(c)) <= Cardinality(Above(d))
  BY <1>1, <1>2, FS_Subset
<1>4. Cardinality(Above(c)) \in Nat /\ Cardinality(Above(d)) \in Nat
  BY <1>1, FS_CardinalityType
<1>5. Cardinality(Above(d)) < Limit
  BY DEF ListBuilds
<1>6. Cardinality(Above(c)) < Limit
  BY <1>3, <1>4, <1>5, WorkerAssumption
<1>7. QED
  BY <1>6 DEF ListBuilds

\* A lookup never returns an image older than one that was returned before.
LEMMA LookupIsNotOlder ==
  ASSUME OrderInv, NEW a \in App, NEW c \in Build,
         owner[c] = a, status[c] \in {"succeeded", "absent"},
         LatestSuccessfulImage(a) # None
  PROVE  ~Newer(c, LatestSuccessfulImage(a))
<1> DEFINE d == LatestSuccessfulImage(a)
<1>1. StoreTypeOK /\ Distinct /\ GoneForGood /\ BuildsAreOrdered
  BY DEF OrderInv, WorkerInv, WorkerTypeOK
<1>2. d \in Succeeded(ListBuilds(a)) /\ \A x \in Succeeded(ListBuilds(a)) : ~Newer(x, d)
  BY <1>1, LatestIsBuilt
<1>3. d \in ListBuilds(a) /\ d \in Rows(a)
  BY <1>2 DEF Succeeded, ListBuilds
<1>4. status[c] = "absent" => Newer(d, c)
  BY <1>1, <1>3, StoreAssumption DEF GoneForGood
<1>5. status[c] = "succeeded" => c \in Rows(a)
  BY DEF Rows
<1>6. ASSUME Newer(c, d), status[c] = "succeeded" PROVE FALSE
  <2>1. c \in ListBuilds(a)
    BY <1>1, <1>3, <1>5, <1>6, ListingIsClosed
  <2>2. QED
    BY <1>2, <1>6, <2>1 DEF Succeeded
<1>7. QED
  BY <1>1, <1>4, <1>6, NewerIsStrict

\* A statement other than an insert of a build leaves the order alone, and at
\* most removes rows.
LEMMA TablesKeepOrder ==
  ASSUME StoreTypeOK, Distinct, Stamped, GoneForGood, UNCHANGED <<owner, created>>,
         \A a \in App : app[a].state = "deleted" => app'[a].state = "deleted",
         \A b \in Build : \/ status'[b] = "absent" <=> status[b] = "absent"
                         \/ /\ app'[owner[b]].state = "deleted"
                            /\ Rows(owner[b])' = {}
  PROVE  Distinct' /\ Stamped' /\ GoneForGood'
<1>1. Distinct' /\ Stamped'
  BY DEF Distinct, Stamped
<1>2. ASSUME NEW b \in Build, owner[b] # None, status'[b] = "absent"
      PROVE  app'[owner[b]].state = "deleted" /\ \A x \in Rows(owner[b])' : Newer(x, b)
  <2>1. owner[b] \in App
    BY <1>2 DEF StoreTypeOK
  <2>2. CASE Rows(owner[b])' = {} /\ app'[owner[b]].state = "deleted"
    BY <2>2
  <2>3. CASE status[b] = "absent"
    <3>1. app'[owner[b]].state = "deleted" /\ \A x \in Rows(owner[b]) : Newer(x, b)
      BY <1>2, <2>1, <2>3 DEF GoneForGood
    <3>2. CASE Rows(owner[b])' \subseteq Rows(owner[b])
      BY <3>1, <3>2
    <3>3. CASE \E x \in Rows(owner[b])' : x \notin Rows(owner[b])
      BY <3>3 DEF Rows
    <3>4. QED
      BY <3>2, <3>3
  <2>4. QED
    BY <1>2, <2>2, <2>3
<1>3. QED
  BY <1>1, <1>2 DEF GoneForGood, Newer

\* A new row is newer than every other, those of its application that are
\* gone included.
LEMMA CreateBuildKeepsAge ==
  ASSUME StoreTypeOK, Distinct, Stamped, GoneForGood, BuildsAreOrdered,
         NEW a \in App, NEW b \in Build, owner[b] = None, CreateBuild(b, a)
  PROVE  /\ Distinct' /\ Stamped' /\ GoneForGood'
         /\ \A c \in Build \ {b} : owner'[c] = owner[c]
         /\ \A x, y \in Build \ {b} : Newer(x, y)' <=> Newer(x, y)
<1> DEFINE n == Len(created)
<1>1. /\ created \in Seq(Build) /\ n \in Nat /\ DOMAIN created = 1..n
      /\ DOMAIN created' = 1..(n + 1) /\ created'[n + 1] = b
      /\ \A i \in 1..n : created'[i] = created[i] /\ created[i] \in Build \ {b}
  BY DEF CreateBuild, StoreTypeOK, BuildsAreOrdered
<1>2. /\ app' = app
      /\ owner'[b] = a /\ \A c \in Build \ {b} : owner'[c] = owner[c]
      /\ status'[b] = "pending" /\ \A c \in Build \ {b} : status'[c] = status[c]
  BY DEF CreateBuild, StoreTypeOK
<1>3. Distinct' /\ Stamped'
  <2>1. StampsInv
    BY DEF StampsInv, Owned, BuildsAreOrdered
  <2>2. QED
    BY <2>1, InsertStamps DEF StampsInv
<1>4. \A c \in Build \ {b} : owner[c] # None => \E i \in 1..n : created[i] = c
  BY <1>1 DEF Stamped
<1>5. ASSUME NEW x \in Build \ {b}, NEW y \in Build \ {b} PROVE Newer(x, y)' <=> Newer(x, y)
  <2>1. ASSUME Newer(x, y)' PROVE Newer(x, y)
    <3>1. PICK i \in 1..(n + 1), j \in 1..(n + 1) : i > j /\ created'[i] = x /\ created'[j] = y
      BY <1>1, <2>1 DEF Newer
    <3>2. i \in 1..n /\ j \in 1..n
      BY <1>1, <3>1
    <3>3. QED
      BY <1>1, <3>1, <3>2 DEF Newer
  <2>2. ASSUME Newer(x, y) PROVE Newer(x, y)'
    <3>1. PICK i \in 1..n, j \in 1..n : i > j /\ created[i] = x /\ created[j] = y
      BY <1>1, <2>2 DEF Newer
    <3>2. i \in DOMAIN created' /\ j \in DOMAIN created' /\ created'[i] = x /\ created'[j] = y
      BY <1>1, <3>1
    <3>3. QED
      BY <3>1, <3>2 DEF Newer
  <2>3. QED
    BY <2>1, <2>2
<1>6. ASSUME NEW c \in Build \ {b}, owner[c] # None PROVE Newer(b, c)'
  <2>1. PICK i \in 1..n : created[i] = c
    BY <1>4, <1>6
  <2>2. i \in DOMAIN created' /\ n + 1 \in DOMAIN created' /\ n + 1 > i /\ created'[i] = c
    BY <1>1, <2>1
  <2>3. QED
    BY <1>1, <2>2 DEF Newer
<1>7. GoneForGood'
  <2> SUFFICES ASSUME NEW c \in Build, owner'[c] # None, status'[c] = "absent"
               PROVE  /\ app'[owner'[c]].state = "deleted"
                      /\ \A x \in Rows(owner[c])' : Newer(x, c)'
    BY DEF GoneForGood, Rows
  <2>1. c \in Build \ {b} /\ owner'[c] = owner[c] /\ owner[c] # None /\ status[c] = "absent"
    BY <1>2
  <2>2. app[owner[c]].state = "deleted" /\ \A x \in Rows(owner[c]) : Newer(x, c)
    BY <2>1 DEF GoneForGood
  <2>3. ASSUME NEW x \in Rows(owner[c])' PROVE Newer(x, c)'
    <3>1. CASE x = b
      BY <1>6, <2>1, <3>1
    <3>2. CASE x # b
      <4>1. x \in Build \ {b} /\ x \in Rows(owner[c])
        BY <1>2, <2>1, <2>3, <3>2 DEF Rows
      <4>2. QED
        BY <1>5, <2>1, <2>2, <4>1
    <3>3. QED
      BY <3>1, <3>2
  <2>4. QED
    BY <1>2, <2>1, <2>2, <2>3
<1>8. QED
  BY <1>2, <1>3, <1>5, <1>7

\* The statements on the tables keep the order of the builds, and with it what
\* the reply and the catalog may name.
LEMMA StoreStepOrder ==
  ASSUME OrderInv, StoreStep
  PROVE  Distinct' /\ Stamped' /\ GoneForGood' /\ ReplyIsCurrent'
<1>1. /\ StoreTypeOK /\ Distinct /\ Stamped /\ GoneForGood /\ ReplyIsCurrent
      /\ BuildsAreOrdered
      /\ \A n \in Names : catalog[n] # None => catalog[n] \in Build /\ owner[catalog[n]] \in App
      /\ \A e \in reply : e.image \in Build /\ owner[e.image] \in App
      /\ UNCHANGED <<asked, reply, catalog>>
  BY DEF OrderInv, WorkerInv, WorkerTypeOK, ReplyIsBuilt, Entry, StoreStep
<1>2. UNCHANGED <<owner, created>> => ReplyIsCurrent'
  BY <1>1 DEF ReplyIsCurrent, Newer
<1>3. ASSUME NEW a \in App, CreateApplication(a)
      PROVE  Distinct' /\ Stamped' /\ GoneForGood' /\ ReplyIsCurrent'
  <2>1. UNCHANGED <<status, owner, created>>
    BY <1>3 DEF CreateApplication
  <2>2. \A x \in App : app[x].state = "deleted" => app'[x].state = "deleted"
    BY <1>1, <1>3 DEF CreateApplication, StoreTypeOK
  <2>3. QED
    BY <1>1, <1>2, <2>1, <2>2, TablesKeepOrder
<1>4. ASSUME NEW a \in App, NEW fk \in ForeignKeys, DeleteApplication(a, fk)
      PROVE  Distinct' /\ Stamped' /\ GoneForGood' /\ ReplyIsCurrent'
  <2>1. /\ UNCHANGED <<owner, created>> /\ app'[a].state = "deleted"
        /\ \A x \in App : app[x].state = "deleted" => app'[x].state = "deleted"
    BY <1>1, <1>4 DEF DeleteApplication, StoreTypeOK, Application
  <2>2. \A b \in Build : status'[b] = IF fk /\ owner[b] = a THEN "absent" ELSE status[b]
    BY <1>4 DEF DeleteApplication
  <2>3. fk => Rows(a)' = {}
    BY <2>1, <2>2 DEF Rows
  <2>4. QED
    BY <1>1, <1>2, <2>1, <2>2, <2>3, TablesKeepOrder
<1>5. ASSUME NEW b \in Build, NEW s \in BuildStatus, UpdateBuildStatus(b, s)
      PROVE  Distinct' /\ Stamped' /\ GoneForGood' /\ ReplyIsCurrent'
  <2>1. UNCHANGED <<app, owner, created>>
    BY <1>5 DEF UpdateBuildStatus
  <2>2. \A c \in Build : status'[c] = "absent" <=> status[c] = "absent"
    BY <1>1, <1>5 DEF UpdateBuildStatus, StoreTypeOK, BuildStatus
  <2>3. QED
    BY <1>1, <1>2, <2>1, <2>2, TablesKeepOrder
<1>6. ASSUME NEW a \in App, NEW b \in Build, owner[b] = None, CreateBuild(b, a)
      PROVE  Distinct' /\ Stamped' /\ GoneForGood' /\ ReplyIsCurrent'
  <2>1. /\ Distinct' /\ Stamped' /\ GoneForGood'
        /\ \A c \in Build \ {b} : owner'[c] = owner[c]
        /\ \A x, y \in Build \ {b} : Newer(x, y)' <=> Newer(x, y)
    BY <1>1, <1>6, CreateBuildKeepsAge
  <2>2. \A e \in reply : e.image \in Build \ {b}
    BY <1>1, <1>6, StoreAssumption
  <2>3. \A m \in Names : catalog[m] # None => catalog[m] \in Build \ {b}
    BY <1>1, <1>6, StoreAssumption
  <2>4. ReplyIsCurrent'
    BY <1>1, <2>1, <2>2, <2>3 DEF ReplyIsCurrent
  <2>5. QED
    BY <2>1, <2>4
<1>7. QED
  BY <1>3, <1>4, <1>5, <1>6 DEF StoreStep, TableStep

\* A lookup adds an image that is not behind the catalog; loading it makes the
\* catalog equal to it.
LEMMA WorkerStepOrder ==
  ASSUME OrderInv, WorkerStep \/ Restart
  PROVE  Distinct' /\ Stamped' /\ GoneForGood' /\ ReplyIsCurrent'
<1>1. /\ StoreTypeOK /\ Distinct /\ Stamped /\ GoneForGood /\ ReplyIsCurrent /\ BuildsAreOrdered
      /\ \A n \in Names : catalog[n] # None =>
            /\ catalog[n] \in Build /\ owner[catalog[n]] \in App
            /\ status[catalog[n]] \in {"succeeded", "absent"}
      /\ catalog \in [Names -> Build \union {None}]
      /\ \A e \in reply : e.image \in Build
      /\ todo \subseteq reply
      /\ \A x : ~Newer(x, x)
  BY NewerIsStrict DEF OrderInv, WorkerInv, WorkerTypeOK, CatalogIsBuilt, Entry
<1>2. UNCHANGED storeVars
  BY DEF WorkerStep, Restart, Poll, List, Answer, PollFails, Load, Evict
<1>3. Distinct' /\ Stamped' /\ GoneForGood'
  BY <1>1, <1>2 DEF storeVars, Distinct, Stamped, GoneForGood, Rows, Newer
<1>4. \A x, y : Newer(x, y)' <=> Newer(x, y)
  BY <1>2 DEF storeVars, Newer
<1>5. owner' = owner
  BY <1>2 DEF storeVars
<1>6. CASE Poll \/ PollFails \/ Restart
  <2>1. reply' = {}
    BY <1>6 DEF Poll, PollFails, Restart
  <2>2. QED
    BY <1>3, <2>1 DEF ReplyIsCurrent
<1>7. ASSUME NEW a \in App, List(a) PROVE ReplyIsCurrent'
  <2> DEFINE d == LatestSuccessfulImage(a)
  <2>1. a \in asked /\ asked' = asked \ {a} /\ catalog' = catalog
    BY <1>7 DEF List
  <2>2. ASSUME NEW e \in reply' \ reply PROVE e.image = d /\ d # None
    BY <1>7, <2>2 DEF List
  <2>3. d # None => owner[d] = a
    BY <1>1, LatestIsBuilt DEF Succeeded, ListBuilds, Rows
  <2>4. d # None => \A n \in Names : catalog[n] # None /\ owner[catalog[n]] = a => ~Newer(catalog[n], d)
    BY <1>1, LookupIsNotOlder
  <2>5. \A e \in reply' : owner[e.image] \notin asked'
    BY <1>1, <2>1, <2>2, <2>3 DEF ReplyIsCurrent
  <2>6. \A e1, e2 \in reply' : owner[e1.image] = owner[e2.image] => e1.image = e2.image
    BY <1>1, <2>1, <2>2, <2>3 DEF ReplyIsCurrent
  <2>7. \A e \in reply', n \in Names :
            catalog[n] # None /\ owner[catalog[n]] = owner[e.image] => ~Newer(catalog[n], e.image)
    BY <1>1, <2>2, <2>3, <2>4 DEF ReplyIsCurrent
  <2>8. QED
    BY <1>4, <1>5, <2>1, <2>5, <2>6, <2>7 DEF ReplyIsCurrent
<1>8. CASE Answer
  <2>1. UNCHANGED <<asked, reply, catalog>>
    BY <1>8 DEF Answer
  <2>2. QED
    BY <1>1, <1>3, <1>4, <1>5, <2>1 DEF ReplyIsCurrent
<1>9. ASSUME NEW e \in Entry, Load(e) PROVE ReplyIsCurrent'
  <2>1. e \in reply /\ reply' = reply /\ asked' = asked
    BY <1>1, <1>9 DEF Load
  <2>2. \A n \in Names : catalog'[n] \in {catalog[n], e.image}
    BY <1>1, <1>9 DEF Load
  <2>3. \A e2 \in reply, n \in Names :
            catalog'[n] # None /\ owner[catalog'[n]] = owner[e2.image] => ~Newer(catalog'[n], e2.image)
    BY <1>1, <2>1, <2>2 DEF ReplyIsCurrent
  <2>4. QED
    BY <1>1, <1>4, <1>5, <2>1, <2>3 DEF ReplyIsCurrent
<1>10. CASE Evict
  <2>1. reply' = {}
    BY <1>10 DEF Evict
  <2>2. QED
    BY <1>3, <2>1 DEF ReplyIsCurrent
<1>11. QED
  BY <1>3, <1>6, <1>7, <1>8, <1>9, <1>10 DEF WorkerStep

\* The order of the images is kept by every step.
LEMMA OrderInvariance == OpenSpec => []OrderInv
<1>1. Init => OrderInv
  BY InitWorkerInv DEF Init, StoreInit, OrderInv, Distinct, Stamped, GoneForGood, ReplyIsCurrent
<1>2. OrderInv /\ WorkerInv' /\ [Next \/ Unseen]_vars => OrderInv'
  <2> SUFFICES ASSUME OrderInv, WorkerInv', [Next \/ Unseen]_vars PROVE OrderInv'
    OBVIOUS
  <2>1. CASE Unseen
    <3>1. StoreTypeOK
      BY DEF OrderInv, WorkerInv, WorkerTypeOK
    <3>2. Distinct' /\ Stamped' /\ ReplyIsCurrent'
      BY <2>1, <3>1, UnseenReads DEF OrderInv, Distinct, Stamped, ReplyIsCurrent
    <3>3. GoneForGood'
      BY <2>1, <3>1, UnseenReads DEF OrderInv, GoneForGood, Rows, StoreTypeOK
    <3>4. QED
      BY <3>2, <3>3 DEF OrderInv
  <2>2. CASE StoreStep
    BY <2>2, StoreStepOrder DEF OrderInv
  <2>3. CASE WorkerStep \/ Restart
    BY <2>3, WorkerStepOrder DEF OrderInv
  <2>4. QED
    BY <2>1, <2>2, <2>3, SeenOrUnseen DEF OrderInv
<1>3. QED
  BY <1>1, <1>2, OpenInvariance, PTL DEF OpenSpec

LEMMA OpenNeverStepsBack == OpenSpec => NeverStepsBack
<1> DEFINE Step ==
      \A n \in Names :
          catalog[n] # None /\ catalog'[n] # None /\ owner[catalog[n]] = owner'[catalog'[n]]
              => ~Newer(catalog[n], catalog'[n])
<1>1. OrderInv /\ [Next \/ Unseen]_vars => Step
  <2> SUFFICES ASSUME OrderInv, [Next \/ Unseen]_vars PROVE Step
    OBVIOUS
  <2>1. /\ ReplyIsCurrent /\ todo \subseteq reply /\ catalog \in [Names -> Build \union {None}]
        /\ \A x : ~Newer(x, x)
    BY NewerIsStrict DEF OrderInv, WorkerInv, WorkerTypeOK
  <2>2. ASSUME NEW e \in Entry, Load(e) PROVE Step
    <3>1. e \in reply /\ owner' = owner
      BY <2>1, <2>2 DEF Load, storeVars
    <3>2. \A n \in Names : catalog'[n] \in {catalog[n], e.image}
      BY <2>1, <2>2 DEF Load
    <3>3. QED
      BY <2>1, <3>1, <3>2 DEF ReplyIsCurrent
  <2>3. ASSUME \A n \in Names : catalog'[n] \in {catalog[n], None} PROVE Step
    BY <2>1, <2>3
  <2>4. CASE Evict
    BY <2>3, <2>4 DEF Evict
  <2>5. CASE Restart
    BY <2>3, <2>5 DEF Restart
  <2>6. CASE catalog' = catalog
    BY <2>3, <2>6
  <2>7. QED
    BY <2>2, <2>4, <2>5, <2>6
       DEF Next, Unseen, WorkerStep, Poll, List, Answer, PollFails, StoreStep, vars, workerVars
<1>2. QED
  BY <1>1, OrderInvariance, PTL DEF OpenSpec, NeverStepsBack

\* worker.go:77, router.rs:66: the image served for an application never steps
\* back to an older build of it, whatever the length of the listing, the order
\* in which builds settle, and the faults between.
THEOREM ImagesNeverStepBack == Spec => NeverStepsBack
  BY SpecIsOpen, OpenNeverStepsBack, PTL
-----------------------------------------------------------------------------
(***************************************************************************)
(* No name is forgotten: a name that the tables have named an image for    *)
(* since the poll began is in the reply once the lookups are done, because *)
(* it has had one live application throughout.                             *)
(***************************************************************************)
DropInv == WorkerInv /\ OneLivePerName /\ NothingForgotten

\* What the tables name for n is the image of a live workerpool application.
LEMMA ServedHasApplication ==
  ASSUME NEW n, Served(n) # None
  PROVE  \E a \in Workerpool : NameOf[a] = n /\ LatestSuccessfulImage(a) # None
BY DEF Served

\* The statements on the tables: the one live application of a name that keeps
\* an image is not deleted.
LEMMA StoreStepForgetsNothing ==
  ASSUME DropInv, StoreStep
  PROVE  OneLivePerName' /\ NothingForgotten'
<1>1. StoreTypeOK /\ OneLivePerName /\ NothingForgotten
  BY DEF DropInv, WorkerInv, WorkerTypeOK
<1>2. UNCHANGED <<phase, asked, reply>> /\ blank' = blank \union Blank'
  BY DEF StoreStep
<1>3. \/ \E a \in App : CreateApplication(a)
      \/ \E a \in App, fk \in ForeignKeys : DeleteApplication(a, fk)
      \/ app' = app
  BY DEF StoreStep, TableStep, CreateBuild, UpdateBuildStatus
<1>4. ASSUME NEW a \in App, NEW fk \in ForeignKeys, DeleteApplication(a, fk)
      PROVE  \A x \in App : Live(x)' <=> Live(x) /\ x # a
  BY <1>1, <1>4 DEF DeleteApplication, Live, StoreTypeOK, Application
<1>5. OneLivePerName'
  <2>1. app' = app => \A a \in App : Live(a)' => Live(a)
    BY DEF Live
  <2>2. QED
    BY <1>1, <1>3, <1>4, <2>1, NamesStayUnique
<1>6. ASSUME NEW n \in Names, n \notin blank', phase = "list"
      PROVE  /\ Served(n)' # None
             /\ (\E e \in reply : e.name = n) \/ \E a \in asked : Live(a)' /\ NameOf[a] = n
  <2>1. Served(n)' # None
    BY <1>2, <1>6 DEF Blank
  <2>2. PICK x \in App : Live(x)' /\ NameOf[x] = n
    BY <2>1 DEF Served, Workerpool
  <2>3. CASE \E e \in reply : e.name = n
    BY <2>1, <2>3
  <2>4. CASE \E a \in asked : Live(a) /\ NameOf[a] = n
    <3>1. PICK a \in asked : Live(a) /\ NameOf[a] = n
      BY <2>4
    <3>2. a \in App
      BY <3>1 DEF DropInv, WorkerInv, WorkerTypeOK
    <3>3. Live(a)'
      <4>1. CASE app' = app \/ \E y \in App : CreateApplication(y)
        BY <1>1, <3>1, <3>2, <4>1 DEF CreateApplication, Live, StoreTypeOK
      <4>2. ASSUME NEW y \in App, NEW fk \in ForeignKeys, DeleteApplication(y, fk)
            PROVE  Live(a)'
        BY <1>1, <1>4, <2>2, <3>1, <3>2, <4>2 DEF OneLivePerName
      <4>3. QED
        BY <1>3, <4>1, <4>2
    <3>4. QED
      BY <2>1, <3>1, <3>3
  <2>5. QED
    BY <1>1, <1>2, <1>6, <2>3, <2>4 DEF NothingForgotten
<1>7. QED
  BY <1>1, <1>2, <1>5, <1>6 DEF NothingForgotten

\* A lookup answers for its application, or its failure is on record.
LEMMA WorkerStepForgetsNothing ==
  ASSUME DropInv, WorkerStep \/ Restart
  PROVE  OneLivePerName' /\ NothingForgotten'
<1>1. OneLivePerName /\ NothingForgotten
  BY DEF DropInv
<1>2. UNCHANGED storeVars
  BY DEF WorkerStep, Restart, Poll, List, Answer, PollFails, Load, Evict
<1>3. OneLivePerName' /\ (\A a : Live(a)' <=> Live(a)) /\ \A n : Served(n)' = Served(n)
  BY <1>1, <1>2 DEF storeVars, OneLivePerName, Live, Served, Workerpool, LatestSuccessfulImage,
                    Succeeded, ListBuilds, Rows, Newer
<1>4. CASE Poll
  <2>1. /\ phase' = "list" /\ asked' = Workerpool /\ blank' = Blank
    BY <1>4 DEF Poll
  <2>2. ASSUME NEW n \in Names, n \notin blank'
        PROVE  Served(n) # None /\ \E a \in asked' : Live(a) /\ NameOf[a] = n
    BY <2>1, <2>2, ServedHasApplication DEF Blank, Workerpool
  <2>3. QED
    BY <1>3, <2>1, <2>2 DEF NothingForgotten
<1>5. ASSUME NEW a \in App, List(a) PROVE NothingForgotten'
  <2>1. /\ phase = "list" /\ phase' = "list" /\ asked' = asked \ {a} /\ a \in asked
        /\ reply \subseteq reply' /\ blank \subseteq blank'
        /\ \/ reply' = reply \union
                   {[name |-> NameOf[a], image |-> b] : b \in {LatestSuccessfulImage(a)} \ {None}}
           \/ NameOf[a] \in blank'
    BY <1>5 DEF List
  <2>2. ASSUME NEW n \in Names, n \notin blank'
        PROVE  (\E e \in reply' : e.name = n) \/ \E x \in asked' : Live(x) /\ NameOf[x] = n
    <3>1. /\ Served(n) # None
          /\ (\E e \in reply : e.name = n) \/ \E x \in asked : Live(x) /\ NameOf[x] = n
      BY <1>1, <2>1, <2>2 DEF NothingForgotten
    <3>2. CASE Live(a) /\ NameOf[a] = n
      <4>1. PICK x \in Workerpool : NameOf[x] = n /\ LatestSuccessfulImage(x) # None
        BY <3>1, ServedHasApplication
      <4>2. x = a
        BY <1>1, <3>2, <4>1 DEF OneLivePerName, Workerpool
      <4>3. [name |-> NameOf[a], image |-> LatestSuccessfulImage(a)] \in reply'
        BY <2>1, <2>2, <3>2, <4>1, <4>2
      <4>4. QED
        BY <3>2, <4>3
    <3>3. QED
      BY <2>1, <3>1, <3>2
  <2>3. QED
    BY <1>1, <1>3, <2>1, <2>2 DEF NothingForgotten
<1>6. CASE Answer
  <2>1. /\ phase = "list" /\ asked = {} /\ phase' = "load"
        /\ UNCHANGED <<reply, blank>>
    BY <1>6 DEF Answer
  <2>2. \A n \in Names \ blank' : \E e \in reply' : e.name = n
    BY <1>1, <2>1 DEF NothingForgotten
  <2>3. QED
    BY <1>3, <2>1, <2>2 DEF NothingForgotten
<1>7. CASE PollFails \/ Evict \/ Restart
  <2>1. phase' = "idle"
    BY <1>7 DEF PollFails, Evict, Restart
  <2>2. QED
    BY <1>3, <2>1 DEF NothingForgotten
<1>8. ASSUME NEW e \in Entry, Load(e) PROVE NothingForgotten'
  BY <1>1, <1>3, <1>8 DEF Load, NothingForgotten
<1>9. QED
  BY <1>3, <1>4, <1>5, <1>6, <1>7, <1>8 DEF WorkerStep

LEMMA DropInvariance == OpenSpec => []DropInv
<1>1. Init => DropInv
  BY InitWorkerInv, InitNames DEF Init, DropInv, NothingForgotten
<1>2. DropInv /\ WorkerInv' /\ [Next \/ Unseen]_vars => DropInv'
  <2> SUFFICES ASSUME DropInv, WorkerInv', [Next \/ Unseen]_vars PROVE DropInv'
    OBVIOUS
  <2>1. CASE Unseen
    <3>1. StoreTypeOK /\ asked \subseteq App
      BY DEF DropInv, WorkerInv, WorkerTypeOK
    <3>2. OneLivePerName' /\ NothingForgotten'
      BY <2>1, <3>1, UnseenReads DEF DropInv, OneLivePerName, NothingForgotten
    <3>3. QED
      BY <3>2 DEF DropInv
  <2>2. CASE StoreStep
    BY <2>2, StoreStepForgetsNothing DEF DropInv
  <2>3. CASE WorkerStep \/ Restart
    BY <2>3, WorkerStepForgetsNothing DEF DropInv
  <2>4. QED
    BY <2>1, <2>2, <2>3, SeenOrUnseen DEF DropInv
<1>3. QED
  BY <1>1, <1>2, OpenInvariance, PTL DEF OpenSpec

LEMMA OpenDroppedForCause == OpenSpec => DroppedForCause
<1> DEFINE Kept ==
      \A n \in Names :
          phase = "load" /\ catalog[n] # None /\ catalog'[n] = None =>
              n \in blank \/ restarts' # restarts
<1>1. DropInv /\ [Next \/ Unseen]_vars => Kept
  <2> SUFFICES ASSUME DropInv, [Next \/ Unseen]_vars PROVE Kept
    OBVIOUS
  <2>1. WorkerTypeOK /\ NothingForgotten
    BY DEF DropInv, WorkerInv
  <2>2. ASSUME NEW e \in Entry, Load(e) PROVE Kept
    <3>1. \A n \in Names : catalog'[n] \in {catalog[n], e.image}
      BY <2>1, <2>2 DEF Load, WorkerTypeOK
    <3>2. e.image # None
      BY StoreAssumption DEF Entry
    <3>3. QED
      BY <3>1, <3>2
  <2>3. CASE Evict
    BY <2>1, <2>3 DEF Evict, NothingForgotten
  <2>4. CASE Restart
    BY <2>1, <2>4, WorkerAssumption DEF Restart, WorkerTypeOK
  <2>5. CASE catalog' = catalog
    BY <2>5
  <2>6. QED
    BY <2>2, <2>3, <2>4, <2>5
       DEF Next, Unseen, WorkerStep, Poll, List, Answer, PollFails, StoreStep, vars, workerVars
<1>2. QED
  BY <1>1, DropInvariance, PTL DEF OpenSpec, DroppedForCause

\* router.rs:97: a served name is dropped only if, at some moment since the poll
\* began, the tables named no image for it or its lookup failed; or with the
\* process.
THEOREM DroppedOnlyForCause == Spec => DroppedForCause
  BY SpecIsOpen, OpenDroppedForCause, PTL

\* All that is proved of a worker holds while it polls the whole control plane,
\* whose other statements it does not see.
THEOREM WorkerAmongHandlers ==
  OpenSpec => []CatalogIsBuilt /\ NeverStepsBack /\ DroppedForCause
<1>1. WorkerInv => CatalogIsBuilt
  BY DEF WorkerInv
<1>2. QED
  BY <1>1, OpenInvariance, OpenNeverStepsBack, OpenDroppedForCause, PTL
=============================================================================
