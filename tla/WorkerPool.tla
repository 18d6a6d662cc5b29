----------------------------- MODULE WorkerPool -----------------------------
(***************************************************************************)
(* How workerpool applications come to be served: the worker polls the     *)
(* control plane's /worker-config (httpapi/worker.go), and reconciles its  *)
(* catalog with each reply (worker/src/config.rs, router.rs): pull and     *)
(* compile what is new, entry by entry, then drop what is no longer named. *)
(* The store moves between any two of these steps: applications come and   *)
(* go, builds are started and settle.                                      *)
(***************************************************************************)
EXTENDS Store, FiniteSets

CONSTANTS Limit,        \* how many builds the handler lists per application: 30
          MaxFaults,    \* bound: failing statements, polls and pulls
          MaxRestarts   \* bound: restarts of the worker

ASSUME WorkerAssumption ==
    /\ Limit \in Nat \ {0}
    /\ MaxFaults \in Nat
    /\ MaxRestarts \in Nat

VARIABLES phase,    \* where the poll loop is
          asked,    \* applications the handler has still to look up
          reply,    \* entries it has found: the body of its answer
          todo,     \* entries of the reply the worker has not reconciled yet
          catalog,  \* catalog[n]: the image served for name n, if any
          blank,    \* history: names with nothing to serve since the poll began
          faults,   \* faults so far
          restarts  \* restarts so far

workerVars == <<phase, asked, reply, todo, catalog, blank, faults, restarts>>
vars == <<storeVars, workerVars>>

Entry == [name : Names, image : Build]

WorkerTypeOK ==
    /\ StoreTypeOK
    /\ phase \in {"idle", "list", "load"}
    /\ asked \subseteq App
    /\ reply \subseteq Entry
    /\ todo \subseteq reply
    /\ catalog \in [Names -> Build \union {None}]
    /\ blank \subseteq Names
    /\ faults \in 0..MaxFaults
    /\ restarts \in 0..MaxRestarts

Init ==
    /\ StoreInit
    /\ phase = "idle"
    /\ asked = {}
    /\ reply = {}
    /\ todo = {}
    /\ catalog = [n \in Names |-> None]
    /\ blank = {}
    /\ faults = 0
    /\ restarts = 0

Fault == faults < MaxFaults /\ faults' = faults + 1
-----------------------------------------------------------------------------
(***************************************************************************)
(* ListBuilds and latestSuccessfulImage.                                   *)
(***************************************************************************)
Rows(a) == {b \in Build : status[b] # "absent" /\ owner[b] = a}

Newer(b1, b2) ==
    \E i, j \in DOMAIN created : i > j /\ created[i] = b1 /\ created[j] = b2

\* ORDER BY created_at DESC LIMIT ?
ListBuilds(a) == {b \in Rows(a) : Cardinality({x \in Rows(a) : Newer(x, b)}) < Limit}

Succeeded(bs) == {b \in bs : status[b] = "succeeded"}

\* Mutant: ORDER BY created_at, the oldest first.
OldestSuccessfulImage(a) ==
    IF Succeeded(ListBuilds(a)) = {} THEN None
    ELSE CHOOSE b \in Succeeded(ListBuilds(a)) :
            \A x \in Succeeded(ListBuilds(a)) : ~Newer(b, x)

\* Mutant: the newest build, whatever became of it.
LatestImage(a) ==
    IF ListBuilds(a) = {} THEN None
    ELSE CHOOSE b \in ListBuilds(a) : \A x \in ListBuilds(a) : ~Newer(x, b)

LatestSuccessfulImage(a) ==
    IF Succeeded(ListBuilds(a)) = {} THEN None
    ELSE CHOOSE b \in Succeeded(ListBuilds(a)) :
            \A x \in Succeeded(ListBuilds(a)) : ~Newer(x, b)

Workerpool == {a \in App : Live(a) /\ RuntimeOf[a] = "workerpool"}

\* The image that the tables name for n at this moment.
Served(n) ==
    LET found == {LatestSuccessfulImage(a) : a \in {x \in Workerpool : NameOf[x] = n}} \ {None}
    IN  IF found = {} THEN None ELSE CHOOSE b \in found : TRUE

Blank == {n \in Names : Served(n) = None}
-----------------------------------------------------------------------------
(***************************************************************************)
(* GET /worker-config: one statement for the applications, then one per    *)
(* application, whose failure leaves the application out of the answer.    *)
(***************************************************************************)
Poll ==
    /\ phase = "idle"
    /\ phase' = "list"
    /\ asked' = Workerpool
    /\ reply' = {}
    /\ blank' = Blank
    /\ UNCHANGED <<storeVars, todo, catalog, faults, restarts>>

\* Mutant: applications without an image are answered too.
ListEmpty(a) ==
    /\ phase = "list"
    /\ a \in asked
    /\ asked' = asked \ {a}
    /\ reply' = reply \union {[name |-> NameOf[a], image |-> LatestSuccessfulImage(a)]}
    /\ UNCHANGED <<storeVars, phase, todo, catalog, blank, faults, restarts>>

List(a) ==
    /\ phase = "list"
    /\ a \in asked
    /\ asked' = asked \ {a}
    /\ \/ /\ reply' = reply \union
                {[name |-> NameOf[a], image |-> b] : b \in {LatestSuccessfulImage(a)} \ {None}}
          /\ UNCHANGED <<blank, faults>>
       \/ /\ Fault
          /\ blank' = blank \union {NameOf[a]}
          /\ reply' = reply
    /\ UNCHANGED <<storeVars, phase, todo, catalog, restarts>>

\* The reply arrives whole.
Answer ==
    /\ phase = "list"
    /\ asked = {}
    /\ phase' = "load"
    /\ todo' = reply
    /\ UNCHANGED <<storeVars, asked, reply, catalog, blank, faults, restarts>>

\* A timeout, a status other than 2xx or a body that does not decode: the
\* catalog stays as it is until the next tick.
PollFails ==
    /\ phase = "list"
    /\ Fault
    /\ phase' = "idle"
    /\ asked' = {}
    /\ reply' = {}
    /\ UNCHANGED <<storeVars, todo, catalog, blank, restarts>>
-----------------------------------------------------------------------------
(***************************************************************************)
(* Router::sync.                                                           *)
(***************************************************************************)
\* Mutant: an entry of that name is taken for the right one.
LoadMissing(e) ==
    /\ phase = "load"
    /\ e \in todo
    /\ todo' = todo \ {e}
    /\ \/ /\ catalog' = [catalog EXCEPT ![e.name] = IF @ = None THEN e.image ELSE @]
          /\ faults' = faults
       \/ Fault /\ catalog' = catalog
    /\ UNCHANGED <<storeVars, phase, asked, reply, blank, restarts>>

\* One entry: nothing to do if its image is loaded; else the pull and the
\* compilation replace what is there, or fail and leave it.
Load(e) ==
    /\ phase = "load"
    /\ e \in todo
    /\ todo' = todo \ {e}
    /\ \/ catalog' = [catalog EXCEPT ![e.name] = e.image] /\ faults' = faults
       \/ catalog[e.name] # e.image /\ Fault /\ catalog' = catalog
    /\ UNCHANGED <<storeVars, phase, asked, reply, blank, restarts>>

\* Mutant: so do names whose new image could not be pulled.
EvictStale ==
    /\ phase = "load"
    /\ todo = {}
    /\ phase' = "idle"
    /\ catalog' = [n \in Names |-> IF \E e \in reply : e.name = n /\ e.image = catalog[n]
                                  THEN catalog[n] ELSE None]
    /\ reply' = {}
    /\ UNCHANGED <<storeVars, asked, todo, blank, faults, restarts>>

\* Names the reply does not have go, whether their pull failed or not.
Evict ==
    /\ phase = "load"
    /\ todo = {}
    /\ phase' = "idle"
    /\ catalog' = [n \in Names |-> IF \E e \in reply : e.name = n THEN catalog[n] ELSE None]
    /\ reply' = {}
    /\ UNCHANGED <<storeVars, asked, todo, blank, faults, restarts>>

\* The catalog is memory only.
Restart ==
    /\ restarts < MaxRestarts
    /\ restarts' = restarts + 1
    /\ phase' = "idle"
    /\ asked' = {}
    /\ reply' = {}
    /\ todo' = {}
    /\ catalog' = [n \in Names |-> None]
    /\ UNCHANGED <<storeVars, blank, faults>>

WorkerStep ==
    \/ Poll \/ Answer \/ PollFails \/ Evict
    \/ \E a \in App : List(a)
    \/ \E e \in Entry : Load(e)
-----------------------------------------------------------------------------
\* What the control plane's other handlers and its watchers do to the columns
\* that the worker configuration is made of: see Builder!TablesSpec.
StoreStep ==
    /\ TableStep
    /\ blank' = blank \union Blank'
    /\ UNCHANGED <<phase, asked, reply, todo, catalog, faults, restarts>>

Next == WorkerStep \/ StoreStep \/ Restart

Spec == Init /\ [][Next]_vars

\* The poll interval ticks, the client times out, a pull ends.
FairSpec == Spec /\ WF_vars(WorkerStep)
-----------------------------------------------------------------------------
(***************************************************************************)
(* Properties.                                                             *)
(***************************************************************************)

\* What is served under a name is the image of a successful build of a
\* workerpool application of that name: the tables change while a poll walks
\* through them, and a name may be used again.
CatalogIsBuilt ==
    \A n \in Names : catalog[n] # None =>
        /\ status[catalog[n]] \in {"succeeded", "absent"}
        /\ NameOf[owner[catalog[n]]] = n
        /\ RuntimeOf[owner[catalog[n]]] = "workerpool"

\* The served image of an application never steps back to an older build of
\* it, although builds settle in any order and the lookups of a poll are
\* spread over time.
NeverStepsBack ==
    [][\A n \in Names :
          catalog[n] # None /\ catalog'[n] # None /\ owner[catalog[n]] = owner'[catalog'[n]]
              => ~Newer(catalog[n], catalog'[n])]_vars

\* A served name is dropped only if, at some moment since the poll began, the
\* tables named no image for it or its lookup failed: replacing an image, and
\* failing to, never interrupts the service.
DroppedForCause ==
    [][\A n \in Names :
          phase = "load" /\ catalog[n] # None /\ catalog'[n] = None =>
              n \in blank \/ restarts' # restarts]_vars

\* When faults, restarts and changes of the tables have ended, the catalog is
\* that of the tables, and stays so: every poll repairs what earlier ones
\* missed, failed to pull or had to leave out.
CatalogConverges == <>[](\A n \in Names : catalog[n] = Served(n))

\* The inductive strengthening of CatalogIsBuilt: the replies on their way
\* name the images of successful builds too, whatever was deleted since.
ReplyIsBuilt ==
    \A e \in reply :
        /\ status[e.image] \in {"succeeded", "absent"}
        /\ owner[e.image] \in App
        /\ NameOf[owner[e.image]] = e.name
        /\ RuntimeOf[owner[e.image]] = "workerpool"

\* A name that the tables have named an image for since the poll began is in
\* the reply, or its one live application has still to be looked up: the
\* strengthening of DroppedForCause.
NothingForgotten ==
    \A n \in Names \ blank :
        LET answered == \E e \in reply : e.name = n
        IN  /\ phase = "load" => answered
            /\ phase = "list" =>
                  /\ Served(n) # None
                  /\ answered \/ \E a \in asked : Live(a) /\ NameOf[a] = n

\* ORDER BY created_at has a first row: every set of builds has a newest.
BuildsAreOrdered ==
    /\ \A i \in DOMAIN created : owner[created[i]] # None
    /\ \A S \in SUBSET Build : S # {} => \E b \in S : \A x \in S : ~Newer(x, b)

WorkerInv ==
    /\ WorkerTypeOK
    /\ CatalogIsBuilt
    /\ \A n \in Names : catalog[n] # None => owner[catalog[n]] \in App
    /\ ReplyIsBuilt
    /\ phase # "load" => todo = {}
    /\ \A a \in asked : RuntimeOf[a] = "workerpool"
    /\ BuildsAreOrdered
=============================================================================
