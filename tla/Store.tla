------------------------------- MODULE Store -------------------------------
(***************************************************************************)
(* The persistence contract of the control plane (store/store.go) as its   *)
(* SQLite implementation (store/sqlite.go) fulfils it: the applications,   *)
(* functions and builds tables.  One operator per statement; each is       *)
(* atomic, as one SQL statement is, and nothing groups two of them in a    *)
(* transaction.                                                            *)
(***************************************************************************)
EXTENDS Naturals, Sequences

CONSTANTS App,         \* application ids, fresh for every created application
          Build,       \* build ids, fresh for every started build
          Fn,          \* names of functions (unique within an application)
          DefaultFn,   \* the function created with an application
          Existing,    \* applications of the database the process starts on
          NameOf,      \* the name each application is created with (immutable)
          RuntimeOf,   \* the runtime it is created with (immutable)
          Vars,        \* values of an application's variables list
          NoVars,      \* the empty list
          None,        \* no value
          ForeignKeys  \* {TRUE}, or BOOLEAN when the pool has further connections

Names == {NameOf[a] : a \in App}
Runtime == {"spinkube", "workerpool"}
BuildStatus == {"pending", "running", "succeeded", "failed"}
Terminal == {"succeeded", "failed"}

ASSUME StoreAssumption ==
    /\ NoVars \in Vars
    /\ DefaultFn \in Fn
    /\ Existing \subseteq App
    /\ \A a1, a2 \in Existing : NameOf[a1] = NameOf[a2] => a1 = a2
    /\ None \notin App \union Build
    /\ RuntimeOf \in [App -> Runtime]
    /\ ForeignKeys \subseteq BOOLEAN

VARIABLES app,     \* applications: is the row there, and its mutable columns
          functions, \* functions[a]: the functions of application a
          status,  \* builds.status, or "absent" without a row
          owner,   \* builds.application_id
          created  \* build ids by created_at (stamped with the insert), the oldest first

storeVars == <<app, functions, status, owner, created>>

Application == [state    : {"absent", "live", "deleted"},
                vars     : Vars,
                replicas : Nat \ {0}]

StoreTypeOK ==
    /\ app \in [App -> Application]
    /\ functions \in [App -> SUBSET Fn]
    /\ status \in [Build -> BuildStatus \union {"absent"}]
    /\ owner \in [Build -> App \union {None}]
    /\ created \in Seq(Build)

Live(a) == app[a].state = "live"

StoreInit ==
    /\ app = [a \in App |-> [state |-> IF a \in Existing THEN "live" ELSE "absent",
                            vars |-> NoVars, replicas |-> 1]]
    /\ functions = [a \in App |-> IF a \in Existing THEN {DefaultFn} ELSE {}]
    /\ status = [b \in Build |-> "absent"]
    /\ owner = [b \in Build |-> None]
    /\ created = <<>>
-----------------------------------------------------------------------------
\* UNIQUE (tenant_id, name): of two rows with one name the second is refused.
NameFree(a) == \A a2 \in App : NameOf[a2] = NameOf[a] => ~Live(a2)

CreateApplication(a) ==
    /\ app[a].state = "absent"
    /\ NameFree(a)
    /\ app' = [app EXCEPT ![a].state = "live"]
    /\ UNCHANGED <<functions, status, owner, created>>

\* Mutant: the count is stored as the client sent it.
ClampNothing(r) == r

\* A replica count below one is stored as one.
Clamp(r) == IF r <= 0 THEN 1 ELSE r

\* All the mutable columns at once; no row is ErrNotFound.
UpdateApplicationConfig(a, v, r) ==
    /\ Live(a)
    /\ app' = [app EXCEPT ![a].vars = v, ![a].replicas = Clamp(r)]
    /\ UNCHANGED <<functions, status, owner, created>>

\* Functions and builds go with the application where the connection that runs the
\* statement enforces foreign keys (fk): the pragma is set on one connection
\* of the pool.
DeleteApplication(a, fk) ==
    /\ Live(a)
    /\ app' = [app EXCEPT ![a].state = "deleted"]
    /\ functions' = IF fk THEN [functions EXCEPT ![a] = {}] ELSE functions
    /\ status' = [b \in Build |-> IF fk /\ owner[b] = a THEN "absent" ELSE status[b]]
    /\ UNCHANGED <<owner, created>>
-----------------------------------------------------------------------------
\* An INSERT whose application is gone is refused by the foreign key.
CanInsertFor(a, fk) == fk => Live(a)

\* UNIQUE (application_id, name).
CreateFunction(a, f, fk) ==
    /\ CanInsertFor(a, fk)
    /\ f \notin functions[a]
    /\ functions' = [functions EXCEPT ![a] = @ \union {f}]
    /\ UNCHANGED <<app, status, owner, created>>

\* No row is ErrNotFound.
DeleteFunction(a, f) ==
    /\ f \in functions[a]
    /\ functions' = [functions EXCEPT ![a] = @ \ {f}]
    /\ UNCHANGED <<app, status, owner, created>>

CreateBuild(b, a) ==
    /\ status' = [status EXCEPT ![b] = "pending"]
    /\ owner' = [owner EXCEPT ![b] = a]
    /\ created' = Append(created, b)
    /\ UNCHANGED <<app, functions>>

\* Mutant: an upsert, which brings a deleted row back.
UpsertBuildStatus(b, s) ==
    /\ status' = [status EXCEPT ![b] = s]
    /\ UNCHANGED <<app, functions, owner, created>>

\* UPDATE ... WHERE id = ?: no guard on the old status, and an update of no
\* row is no error.
UpdateBuildStatus(b, s) ==
    /\ status' = [status EXCEPT ![b] = IF @ = "absent" THEN @ ELSE s]
    /\ UNCHANGED <<app, functions, owner, created>>
-----------------------------------------------------------------------------
(***************************************************************************)
(* What a reader of the tables (module WorkerPool) relies on, whatever the *)
(* handlers and the watchers (module ControlPlane) do: which statements    *)
(* move the columns it sees, and in which order those move.                *)
(***************************************************************************)
seenVars == <<[a \in App |-> app[a].state], status, owner, created>>

\* A build is inserted once, for an application that was loaded before, and
\* gets one outcome.
TableStep ==
    \/ \E a \in App : CreateApplication(a)
    \/ \E a \in App, fk \in ForeignKeys : DeleteApplication(a, fk)
    \/ \E a \in App, b \in Build, fk \in ForeignKeys :
          /\ app[a].state # "absent"
          /\ CanInsertFor(a, fk)
          /\ owner[b] = None
          /\ CreateBuild(b, a)
    \/ \E b \in Build, s \in BuildStatus \ {"pending"} :
          /\ status[b] \in {"pending", "running"} \ {s}
          /\ UpdateBuildStatus(b, s)

\* UNIQUE (tenant_id, name), as the statements above keep it: two
\* applications never have one name at the same time.
OneLivePerName ==
    \A a1, a2 \in App : Live(a1) /\ Live(a2) /\ NameOf[a1] = NameOf[a2] => a1 = a2
=============================================================================
