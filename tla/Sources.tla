------------------------------ MODULE Sources ------------------------------
(***************************************************************************)
(* How a function's source gets from the editor to a build.  Tabs of the   *)
(* UI (apps/ui, the page of a function and the form that adds one) load,   *)
(* edit, save and import file trees of one application's functions; the    *)
(* control plane serves these calls (httpapi/builds.go, archive.go) and    *)
(* collects the trees when a build is requested.  Nothing orders the       *)
(* calls: a tab may have a save and an import under way, tabs do not know  *)
(* of each other, and an answer may be lost.                               *)
(***************************************************************************)
EXTENDS Naturals

CONSTANTS Tab,          \* pages of the UI
          Fn,           \* function ids, fresh for every created function
          Existing,     \* functions of the database at the start
          Name,         \* file names
          Main,         \* the file name of the language's template
          Archive,      \* file trees of the tarballs that users import
          Absent,       \* no such file in a tree
          None,         \* no function
          ForeignKeys,  \* values of the foreign-key pragma over the connections
          MaxEdits,     \* bound: edits of the users
          MaxCalls      \* bound: calls of the tabs

Content == Nat
Blank == 0              \* the text of a file that was just added
TemplateText == 1       \* the text of the language's template

\* files: Record<string, string> of the UI, map[string]string of the server.
Tree == [Name -> Content \union {Absent}]

ASSUME SourcesAssumption ==
    /\ Existing \subseteq Fn
    /\ Main \in Name
    /\ Archive \subseteq Tree
    /\ Absent \notin Nat
    /\ None \notin Fn
    /\ ForeignKeys \subseteq BOOLEAN
    /\ MaxEdits \in Nat
    /\ MaxCalls \in Nat

NoFiles == [n \in Name |-> Absent]

\* initialFiles(language).
Template == [n \in Name |-> IF n = Main THEN TemplateText ELSE Absent]

Diff(T, U) == {n \in Name : T[n] # U[n]}

VARIABLES functions,  \* functions[f]: the row of function f
          rows,       \* functions with a row in the sources table
          sources,    \* sources[f]: the tree of that row
          view,       \* what a tab shows: the application, the form that adds a function, the editor
          page,       \* the function a tab is about
          files,      \* the tree in a tab's editor
          loaded,     \* sourceLoaded
          call,       \* call[t][k]: a tab's call of kind k, if it has one under way
          edits,      \* edits so far
          calls,      \* calls so far
          dirty,      \* history: names edited since the last load, import or save
          sending,    \* history: names whose edits the save under way carries
          astray,     \* history: tabs that may have lost touch with the table (see EditsExplainDifferences)
          build,      \* where the request for a build is
          todo,       \* functions it has still to read
          inputs,     \* the trees it has read
          steady      \* history: functions of the build not written or deleted since it began

tableVars == <<functions, rows, sources>>
editVars == <<view, page, files, loaded, edits, dirty>>
callVars == <<call, calls>>
buildVars == <<build, todo, inputs>>
vars == <<tableVars, editVars, callVars, sending, astray, buildVars, steady>>

Kind == {"load", "save", "import"}
Call == [stage : {"none", "sent", "checked", "ok", "error"}, tree : Tree]
NoCall == [stage |-> "none", tree |-> NoFiles]

SourcesTypeOK ==
    /\ functions \in [Fn -> {"absent", "listed", "deleted"}]
    /\ rows \subseteq Fn
    /\ sources \in [Fn -> Tree]
    /\ view \in [Tab -> {"application", "adding", "editor"}]
    /\ page \in [Tab -> Fn \union {None}]
    /\ files \in [Tab -> Tree]
    /\ loaded \in [Tab -> BOOLEAN]
    /\ call \in [Tab -> [Kind -> Call]]
    /\ edits \in 0..MaxEdits
    /\ calls \in 0..MaxCalls
    /\ dirty \in [Tab -> SUBSET Name]
    /\ sending \in [Tab -> SUBSET Name]
    /\ astray \subseteq Tab
    /\ build \in {"idle", "reading"}
    /\ todo \subseteq Fn
    /\ inputs \in [Fn -> Tree]
    /\ steady \subseteq Fn

Listed == {f \in Fn : functions[f] = "listed"}

\* What getSource answers: no files where there is no row.
GetSource(f) == IF f \in rows THEN sources[f] ELSE NoFiles

\* What an editor makes of the answer: the template where there are no files.
Shown(T) == IF T = NoFiles THEN Template ELSE T

InFlight(t) == {k \in Kind : call[t][k].stage # "none"}

Init ==
    /\ functions = [f \in Fn |-> IF f \in Existing THEN "listed" ELSE "absent"]
    /\ rows = Existing
    /\ sources = [f \in Fn |-> IF f \in Existing THEN Template ELSE NoFiles]
    /\ view = [t \in Tab |-> "application"]
    /\ page = [t \in Tab |-> None]
    /\ files = [t \in Tab |-> NoFiles]
    /\ loaded = [t \in Tab |-> FALSE]
    /\ call = [t \in Tab |-> [k \in Kind |-> NoCall]]
    /\ edits = 0
    /\ calls = 0
    /\ dirty = [t \in Tab |-> {}]
    /\ sending = [t \in Tab |-> {}]
    /\ astray = {}
    /\ build = "idle"
    /\ todo = {}
    /\ inputs = [f \in Fn |-> NoFiles]
    /\ steady = {}
-----------------------------------------------------------------------------
(***************************************************************************)
(* The tab.                                                                *)
(***************************************************************************)
Send(t, k, T) ==
    /\ calls < MaxCalls
    /\ calls' = calls + 1
    /\ call' = [call EXCEPT ![t][k] = [stage |-> "sent", tree |-> T]]

\* Calls of one tab that overlap are served and answered in any order.
Overlap(t) == IF InFlight(t) = {} THEN {} ELSE {t}

\* addFunction: createFunction, and when that has answered, putSource of the
\* template.  Without an answer there is no second call.
AddFunction(t, f) ==
    /\ view[t] = "application"
    /\ functions[f] = "absent"
    /\ functions' = [functions EXCEPT ![f] = "listed"]
    /\ \/ /\ view' = [view EXCEPT ![t] = "adding"]
          /\ page' = [page EXCEPT ![t] = f]
          /\ Send(t, "save", Template)
       \/ UNCHANGED <<view, page, callVars>>
    /\ UNCHANGED <<rows, sources, files, loaded, edits, dirty, sending, astray, buildVars, steady>>

\* load() finds the function in the application, then loadSource() asks.
Open(t, f) ==
    /\ view[t] = "application"
    /\ f \in Listed
    /\ view' = [view EXCEPT ![t] = "editor"]
    /\ page' = [page EXCEPT ![t] = f]
    /\ Send(t, "load", NoFiles)
    /\ UNCHANGED <<tableVars, files, loaded, edits, dirty, sending, astray, buildVars, steady>>

\* A page that is left while a call is under way is a tab whose calls are
\* never answered.
Leave(t) ==
    /\ view[t] = "editor"
    /\ InFlight(t) = {}
    /\ view' = [view EXCEPT ![t] = "application"]
    /\ page' = [page EXCEPT ![t] = None]
    /\ files' = [files EXCEPT ![t] = NoFiles]
    /\ loaded' = [loaded EXCEPT ![t] = FALSE]
    /\ dirty' = [dirty EXCEPT ![t] = {}]
    /\ astray' = astray \ {t}
    /\ UNCHANGED <<tableVars, callVars, edits, sending, buildVars, steady>>

Edit(t, n, text) ==
    /\ edits < MaxEdits
    /\ edits' = edits + 1
    /\ files' = [files EXCEPT ![t][n] = text]
    /\ dirty' = [dirty EXCEPT ![t] = @ \union {n}]
    /\ UNCHANGED <<tableVars, view, page, loaded, callVars, sending, astray, buildVars, steady>>

Type(t, n) ==
    /\ view[t] = "editor"
    /\ files[t][n] # Absent
    /\ Edit(t, n, TemplateText + edits + 1)

AddFile(t, n) ==
    /\ view[t] = "editor"
    /\ files[t][n] = Absent
    /\ Edit(t, n, Blank)

\* Not the last one.
RemoveFile(t, n) ==
    /\ view[t] = "editor"
    /\ files[t][n] # Absent
    /\ \E m \in Name \ {n} : files[t][m] # Absent
    /\ Edit(t, n, Absent)

\* saveSource: not while one is under way, and not before the load.
Save(t) ==
    /\ view[t] = "editor"
    /\ loaded[t]
    /\ call[t]["save"].stage = "none"
    /\ Send(t, "save", files[t])
    /\ sending' = [sending EXCEPT ![t] = dirty[t]]
    /\ dirty' = [dirty EXCEPT ![t] = {}]
    /\ astray' = astray \union Overlap(t)
    /\ UNCHANGED <<tableVars, view, page, files, loaded, edits, buildVars, steady>>

\* importArchive: not while one is under way.
Import(t, T) ==
    /\ view[t] = "editor"
    /\ call[t]["import"].stage = "none"
    /\ Send(t, "import", T)
    /\ astray' = astray \union Overlap(t)
    /\ UNCHANGED <<tableVars, editVars, sending, buildVars, steady>>
-----------------------------------------------------------------------------
(***************************************************************************)
(* The control plane.                                                      *)
(***************************************************************************)
Stage(t, k, s) ==
    /\ call' = [call EXCEPT ![t][k].stage = s]
    /\ calls' = calls

\* loadFunction.  The error stands for every failure before the table is
\* touched as well: the network, a body that does not decode, a file name
\* or an archive that is refused.
Check(t, k) ==
    /\ call[t][k].stage = "sent"
    /\ \/ page[t] \in Listed /\ Stage(t, k, "checked")
       \/ Stage(t, k, "error")
    /\ UNCHANGED <<tableVars, editVars, sending, astray, buildVars, steady>>

\* getSource: the tab learns what the table holds, unless an import of its
\* own is under way as well.
Read(t) ==
    /\ call[t]["load"].stage = "checked"
    /\ \/ /\ call' = [call EXCEPT ![t]["load"] = [stage |-> "ok", tree |-> GetSource(page[t])]]
          /\ calls' = calls
          /\ astray' = IF InFlight(t) = {"load"} THEN astray \ {t} ELSE astray
       \/ Stage(t, "load", "error") /\ UNCHANGED astray
    /\ UNCHANGED <<tableVars, editVars, sending, buildVars, steady>>

\* Mutant: the files that are put are merged into those of the row.
MergeSource(f, T) ==
    /\ rows' = rows \union {f}
    /\ sources' = [sources EXCEPT ![f] = [n \in Name |-> IF T[n] = Absent THEN @[n] ELSE T[n]]]

\* INSERT ... ON CONFLICT DO UPDATE: the whole tree at once.
PutSource(f, T) ==
    /\ rows' = rows \union {f}
    /\ sources' = [sources EXCEPT ![f] = T]

\* Tabs on the same page, and this one if it does not learn that its import
\* took effect.
LosesTouch(t, k, s) ==
    {u \in Tab \ {t} : page[u] = page[t]} \union (IF k = "import" /\ s = "error" THEN {t} ELSE {})

\* Mutant: a tree without files is accepted.
WriteAnything(t, k) ==
    /\ k # "load"
    /\ call[t][k].stage = "checked"
    /\ \/ \E fk \in ForeignKeys, s \in {"ok", "error"} :
             /\ fk => page[t] \in Listed
             /\ PutSource(page[t], call[t][k].tree)
             /\ Stage(t, k, s)
             /\ astray' = astray \union LosesTouch(t, k, s)
             /\ steady' = steady \ {page[t]}
       \/ Stage(t, k, "error") /\ UNCHANGED <<rows, sources, astray, steady>>
    /\ UNCHANGED <<functions, editVars, sending, buildVars>>

\* putSource and importSource: a tree without files is refused, and a row
\* for a function that was deleted since loadFunction is refused where the
\* connection enforces foreign keys.
Write(t, k) ==
    /\ k # "load"
    /\ call[t][k].stage = "checked"
    /\ \/ \E fk \in ForeignKeys, s \in {"ok", "error"} :
             /\ call[t][k].tree # NoFiles
             /\ fk => page[t] \in Listed
             /\ PutSource(page[t], call[t][k].tree)
             /\ Stage(t, k, s)
             /\ astray' = astray \union LosesTouch(t, k, s)
             /\ steady' = steady \ {page[t]}
       \/ Stage(t, k, "error") /\ UNCHANGED <<rows, sources, astray, steady>>
    /\ UNCHANGED <<functions, editVars, sending, buildVars>>

\* DELETE FROM functions (the handler around it is in ControlPlane).
DeleteFunction(f, fk) ==
    /\ f \in Listed
    /\ functions' = [functions EXCEPT ![f] = "deleted"]
    /\ rows' = IF fk THEN rows \ {f} ELSE rows
    /\ sources' = IF fk THEN [sources EXCEPT ![f] = NoFiles] ELSE sources
    /\ steady' = steady \ {f}
    /\ UNCHANGED <<editVars, callVars, sending, astray, buildVars>>
-----------------------------------------------------------------------------
(***************************************************************************)
(* The answers.                                                            *)
(***************************************************************************)
Answered(t, k) == call[t][k].stage \in {"ok", "error"}

Done(t, k) ==
    /\ call' = [call EXCEPT ![t][k] = NoCall]
    /\ calls' = calls

\* loadSource: after a failure the editor is there as after a success.
Loaded(t) ==
    /\ Answered(t, "load")
    /\ Done(t, "load")
    /\ loaded' = [loaded EXCEPT ![t] = TRUE]
    /\ \/ /\ call[t]["load"].stage = "ok"
          /\ files' = [files EXCEPT ![t] = Shown(call[t]["load"].tree)]
          /\ dirty' = [dirty EXCEPT ![t] = {}]
          /\ UNCHANGED astray
       \/ /\ call[t]["load"].stage = "error"
          /\ astray' = astray \union {t}
          /\ UNCHANGED <<files, dirty>>
    /\ UNCHANGED <<tableVars, view, page, edits, sending, buildVars, steady>>

\* saveSource and, on the application's page, addFunction: the editor is
\* left as it is.  Edits whose save failed are edits still.
Saved(t) ==
    /\ Answered(t, "save")
    /\ Done(t, "save")
    /\ dirty' = IF call[t]["save"].stage = "error"
                THEN [dirty EXCEPT ![t] = @ \union sending[t]] ELSE dirty
    /\ sending' = [sending EXCEPT ![t] = {}]
    /\ IF view[t] = "adding"
       THEN /\ view' = [view EXCEPT ![t] = "application"]
            /\ page' = [page EXCEPT ![t] = None]
       ELSE UNCHANGED <<view, page>>
    /\ UNCHANGED <<tableVars, files, loaded, edits, astray, buildVars, steady>>

\* Mutant: the editor keeps the files that the archive does not have.
KeepOthers(t) ==
    /\ Answered(t, "import")
    /\ Done(t, "import")
    /\ IF call[t]["import"].stage = "ok"
       THEN /\ files' = [files EXCEPT ![t] =
                    [n \in Name |-> IF call[t]["import"].tree[n] = Absent
                                    THEN @[n] ELSE call[t]["import"].tree[n]]]
            /\ dirty' = [dirty EXCEPT ![t] = {}]
       ELSE UNCHANGED <<files, dirty>>
    /\ UNCHANGED <<tableVars, view, page, loaded, edits, sending, astray, buildVars, steady>>

\* importArchive: the editor shows what was imported and nothing else.
Imported(t) ==
    /\ Answered(t, "import")
    /\ Done(t, "import")
    /\ IF call[t]["import"].stage = "ok"
       THEN /\ files' = [files EXCEPT ![t] = call[t]["import"].tree]
            /\ dirty' = [dirty EXCEPT ![t] = {}]
       ELSE UNCHANGED <<files, dirty>>
    /\ UNCHANGED <<tableVars, view, page, loaded, edits, sending, astray, buildVars, steady>>
-----------------------------------------------------------------------------
(***************************************************************************)
(* The request for a build: startBuild up to the packing in Start.         *)
(***************************************************************************)
ListFunctions ==
    /\ build = "idle"
    /\ Listed # {}
    /\ build' = "reading"
    /\ todo' = Listed
    /\ steady' = Listed
    /\ UNCHANGED <<tableVars, editVars, callVars, sending, astray, inputs>>

\* Back to idle, with nothing read.
Drop ==
    /\ build' = "idle"
    /\ todo' = {}
    /\ inputs' = [f \in Fn |-> NoFiles]
    /\ steady' = {}

\* Mutant: the answer for one function is used for all that are still to come.
ReadOnce(f) ==
    /\ build = "reading"
    /\ f \in todo
    /\ IF f \in rows
       THEN /\ inputs' = [g \in Fn |-> IF g \in todo THEN sources[f] ELSE inputs[g]]
            /\ todo' = {}
            /\ UNCHANGED <<build, steady>>
       ELSE Drop
    /\ UNCHANGED <<tableVars, editVars, callVars, sending, astray>>

\* One statement per function; a function without a source ends the request.
ReadInput(f) ==
    /\ build = "reading"
    /\ f \in todo
    /\ IF f \in rows
       THEN /\ inputs' = [inputs EXCEPT ![f] = sources[f]]
            /\ todo' = todo \ {f}
            /\ UNCHANGED <<build, steady>>
       ELSE Drop
    /\ UNCHANGED <<tableVars, editVars, callVars, sending, astray>>

\* The inputs are packed, or a statement has failed.
EndRequest ==
    /\ build = "reading"
    /\ Drop
    /\ UNCHANGED <<tableVars, editVars, callVars, sending, astray>>

TabStep(t) ==
    \/ \E f \in Fn : AddFunction(t, f) \/ Open(t, f)
    \/ Leave(t) \/ Save(t)
    \/ \E n \in Name : Type(t, n) \/ AddFile(t, n) \/ RemoveFile(t, n)
    \/ \E T \in Archive : Import(t, T)
    \/ Loaded(t) \/ Saved(t) \/ Imported(t)

ServerStep ==
    \/ \E t \in Tab : Read(t)
    \/ \E t \in Tab, k \in Kind : Check(t, k) \/ Write(t, k)
    \/ \E f \in Fn, fk \in ForeignKeys : DeleteFunction(f, fk)
    \/ ListFunctions \/ EndRequest
    \/ \E f \in Fn : ReadInput(f)

Next == ServerStep \/ \E t \in Tab : TabStep(t)

Spec == Init /\ [][Next]_vars
-----------------------------------------------------------------------------
(***************************************************************************)
(* Properties.                                                             *)
(***************************************************************************)

AtRest(t) == view[t] = "editor" /\ page[t] \in Listed /\ loaded[t] /\ InFlight(t) = {}

\* apps/ui's editor keeps no version and saves no diff: a tab at rest must
\* differ from what a reload of its page would show in files that its user
\* has edited since, and in nothing else - whatever was typed while a call
\* was under way, whichever call failed or lost its answer.  Out of it are
\* the tabs in astray: those whose load failed, whose calls overlapped, which
\* do not know that their import took effect, or whose function another tab
\* has written since they read it.
EditsExplainDifferences ==
    \A t \in Tab \ astray : AtRest(t) =>
        Diff(files[t], Shown(GetSource(page[t]))) \subseteq dirty[t]

\* docs/user-guide/writing-functions.md:89: "The set of files in the editor is
\* the set of files the builder Job sees."  While a request for a build walks
\* through the functions, what it has read of one that nobody has written since
\* it began is what an editor at rest shows, up to the user's unsaved edits.
BuildReadsEditors ==
    \A t \in Tab \ astray :
        AtRest(t) /\ build = "reading" /\ page[t] \in steady \ todo =>
            Diff(files[t], inputs[page[t]]) \subseteq dirty[t]

RowsHaveFiles ==
    /\ \A f \in Fn : f \in rows <=> sources[f] # NoFiles
    /\ \A f \in rows : functions[f] # "absent"

TabOK(t) ==
    /\ page[t] # None => functions[page[t]] # "absent"
    /\ loaded[t] => view[t] = "editor"
    /\ view[t] = "application" => page[t] = None /\ InFlight(t) = {}
    /\ view[t] = "adding" => page[t] # None /\ InFlight(t) = {"save"}
    /\ view[t] = "editor" => page[t] # None /\ (loaded[t] <=> "load" \notin InFlight(t))

InputsCurrent ==
    /\ build = "idle" => steady = {}
    /\ steady \subseteq Listed
    /\ \A f \in steady \ todo : inputs[f] = sources[f] /\ f \in rows

\* The tables and what the calls of a tab are about: a row has files, no row
\* is there for a function that never was, a tab's calls belong to what it
\* shows, and what a build has read is still there if nobody wrote since.
SourcesInv ==
    /\ SourcesTypeOK
    /\ RowsHaveFiles
    /\ \A t \in Tab : TabOK(t)
    /\ InputsCurrent
=============================================================================
