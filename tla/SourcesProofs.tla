--------------------------- MODULE SourcesProofs ---------------------------
(***************************************************************************)
(* Theorems about Sources: what a tab at rest shows is what the table      *)
(* holds, up to its user's edits, for any number of tabs, functions, files *)
(* and calls.                                                              *)
(***************************************************************************)
EXTENDS Sources, TLAPS

LEMMA Trees ==
    NoFiles \in Tree /\ Template \in Tree /\ NoFiles # Template
BY SourcesAssumption DEF NoFiles, Template, Tree, Content, TemplateText

LEMMA ReadsAreTrees ==
    ASSUME SourcesTypeOK, NEW f \in Fn
    PROVE  GetSource(f) \in Tree /\ Shown(GetSource(f)) \in Tree
BY Trees DEF SourcesTypeOK, GetSource, Shown

\* The moves of a call's record.
LEMMA CallTypes ==
    ASSUME call \in [Tab -> [Kind -> Call]], NEW t \in Tab, NEW k \in Kind
    PROVE  /\ \A T \in Tree, s \in {"sent", "ok"} :
                [call EXCEPT ![t][k] = [stage |-> s, tree |-> T]] \in [Tab -> [Kind -> Call]]
           /\ \A s \in {"checked", "ok", "error"} :
                [call EXCEPT ![t][k].stage = s] \in [Tab -> [Kind -> Call]]
           /\ [call EXCEPT ![t][k] = NoCall] \in [Tab -> [Kind -> Call]]
           /\ call[t][k].tree \in Tree
<1>1. \A T \in Tree, s \in {"sent", "ok"} : [stage |-> s, tree |-> T] \in Call
  BY DEF Call
<1>2. \A s \in {"checked", "ok", "error"} : [call[t][k] EXCEPT !.stage = s] \in Call
  BY DEF Call
<1>3. NoCall \in Call
  BY Trees DEF Call, NoCall
<1>4. \A c \in Call : [call EXCEPT ![t][k] = c] \in [Tab -> [Kind -> Call]]
  OBVIOUS
<1>5. \A s : [call EXCEPT ![t][k].stage = s] = [call EXCEPT ![t][k] = [call[t][k] EXCEPT !.stage = s]]
  OBVIOUS
<1>6. call[t][k].tree \in Tree
  BY DEF Call
<1>. QED BY <1>1, <1>2, <1>3, <1>4, <1>5, <1>6

LEMMA StageTypes ==
    ASSUME SourcesTypeOK, NEW t \in Tab, NEW k \in Kind,
           NEW s \in {"checked", "ok", "error"}, Stage(t, k, s)
    PROVE  call' \in [Tab -> [Kind -> Call]] /\ calls' \in 0..MaxCalls
BY CallTypes DEF Stage, SourcesTypeOK

LEMMA TypeInit == Init => SourcesTypeOK
<1>. SUFFICES ASSUME Init PROVE SourcesTypeOK
  OBVIOUS
<1>1. NoCall \in Call
  BY Trees DEF Call, NoCall
<1>2. sources \in [Fn -> Tree] /\ inputs \in [Fn -> Tree] /\ files \in [Tab -> Tree]
  BY Trees DEF Init
<1>3. call \in [Tab -> [Kind -> Call]]
  BY <1>1 DEF Init
<1>4. rows \subseteq Fn /\ edits \in 0..MaxEdits /\ calls \in 0..MaxCalls
  BY SourcesAssumption DEF Init
<1>. QED BY <1>2, <1>3, <1>4 DEF Init, SourcesTypeOK

LEMMA TypeNext == SourcesInv /\ [Next]_vars => SourcesTypeOK'
<1>. SUFFICES ASSUME SourcesInv, [Next]_vars PROVE SourcesTypeOK'
  OBVIOUS
<1>. SourcesTypeOK
  BY DEF SourcesInv
<1>0. (calls < MaxCalls => calls + 1 \in 0..MaxCalls) /\ (edits < MaxEdits => edits + 1 \in 0..MaxEdits)
  BY SourcesAssumption DEF SourcesTypeOK
<1>k. {"load", "save", "import"} = Kind
  BY DEF Kind
<1>1. ASSUME NEW t \in Tab, NEW f \in Fn, AddFunction(t, f) PROVE SourcesTypeOK'
  <2>1. call' \in [Tab -> [Kind -> Call]] /\ calls' \in 0..MaxCalls
    <3>1. CASE Send(t, "save", Template)
      BY <1>0, <1>k, <3>1, Trees, CallTypes DEF Send, SourcesTypeOK
    <3>2. CASE UNCHANGED callVars
      BY <3>2 DEF callVars, SourcesTypeOK
    <3>. QED BY <1>1, <3>1, <3>2 DEF AddFunction, callVars
  <2>. QED BY SMTT(30), <1>1, <2>1 DEF AddFunction, buildVars, SourcesTypeOK
<1>2. ASSUME NEW t \in Tab, NEW f \in Fn, Open(t, f) PROVE SourcesTypeOK'
  BY <1>0, <1>2, <1>k, Trees, CallTypes DEF Open, Send, buildVars, tableVars, SourcesTypeOK
<1>3. ASSUME NEW t \in Tab, Leave(t) PROVE SourcesTypeOK'
  BY <1>3, Trees DEF Leave, buildVars, tableVars, callVars, SourcesTypeOK
<1>4. ASSUME NEW t \in Tab, NEW n \in Name, NEW x \in Content \union {Absent}, Edit(t, n, x)
      PROVE  SourcesTypeOK'
  <2>1. [files[t] EXCEPT ![n] = x] \in Tree
    BY DEF Tree, SourcesTypeOK
  <2>. QED BY <1>0, <1>4, <2>1 DEF Edit, buildVars, tableVars, callVars, SourcesTypeOK
<1>5. ASSUME NEW t \in Tab, NEW n \in Name, Type(t, n) \/ AddFile(t, n) \/ RemoveFile(t, n)
      PROVE  SourcesTypeOK'
  <2>1. TemplateText + edits + 1 \in Content
    BY DEF TemplateText, Content, SourcesTypeOK
  <2>2. Blank \in Content
    BY DEF Blank, Content
  <2>. QED BY <1>4, <1>5, <2>1, <2>2 DEF Type, AddFile, RemoveFile
<1>6. ASSUME NEW t \in Tab, Save(t) PROVE SourcesTypeOK'
  BY <1>0, <1>6, <1>k, CallTypes DEF Save, Send, Overlap, buildVars, tableVars, SourcesTypeOK
<1>7. ASSUME NEW t \in Tab, NEW T \in Archive, Import(t, T) PROVE SourcesTypeOK'
  BY <1>0, <1>7, <1>k, CallTypes, SourcesAssumption
  DEF Import, Send, Overlap, buildVars, tableVars, editVars, SourcesTypeOK
<1>8. ASSUME NEW t \in Tab, NEW k \in Kind, Check(t, k) PROVE SourcesTypeOK'
  BY <1>8, StageTypes DEF Check, buildVars, tableVars, editVars, SourcesTypeOK
<1>9. ASSUME NEW t \in Tab, Read(t) PROVE SourcesTypeOK'
  <2>1. GetSource(page[t]) \in Tree
    BY Trees DEF GetSource, SourcesTypeOK
  <2>2. call' \in [Tab -> [Kind -> Call]] /\ calls' \in 0..MaxCalls
    <3>1. CASE Stage(t, "load", "error")
      BY <1>k, <3>1, StageTypes
    <3>2. CASE ~Stage(t, "load", "error")
      <4>1. /\ call' = [call EXCEPT ![t]["load"] = [stage |-> "ok", tree |-> GetSource(page[t])]]
            /\ calls' = calls
        BY <1>9, <3>2 DEF Read
      <4>2. "load" \in Kind /\ call \in [Tab -> [Kind -> Call]] /\ calls \in 0..MaxCalls
        BY DEF Kind, SourcesTypeOK
      <4>. QED BY <2>1, <4>1, <4>2, CallTypes
    <3>. QED BY <3>1, <3>2
  <2>. QED BY <1>9, <2>2 DEF Read, buildVars, tableVars, editVars, SourcesTypeOK
<1>10. ASSUME NEW t \in Tab, NEW k \in Kind, Write(t, k) PROVE SourcesTypeOK'
  <2>1. page[t] \in Fn
    <3>1. k \in InFlight(t)
      BY <1>10 DEF Write, InFlight
    <3>. QED BY <3>1 DEF SourcesInv, TabOK, SourcesTypeOK
  <2>2. call' \in [Tab -> [Kind -> Call]] /\ calls' \in 0..MaxCalls
    BY <1>10, StageTypes DEF Write
  <2>3. sources' \in [Fn -> Tree] /\ rows' \subseteq Fn
    BY <1>10, <2>1, CallTypes DEF Write, PutSource, SourcesTypeOK
  <2>. QED BY <1>10, <2>2, <2>3 DEF Write, LosesTouch, buildVars, editVars, SourcesTypeOK
<1>11. ASSUME NEW f \in Fn, NEW fk \in ForeignKeys, DeleteFunction(f, fk) PROVE SourcesTypeOK'
  BY <1>11, Trees DEF DeleteFunction, buildVars, editVars, callVars, SourcesTypeOK
<1>12. ASSUME NEW t \in Tab, NEW k \in Kind, Done(t, k)
       PROVE  call' \in [Tab -> [Kind -> Call]] /\ calls' \in 0..MaxCalls
  BY <1>12, CallTypes DEF Done, SourcesTypeOK
<1>13. ASSUME NEW t \in Tab, Loaded(t) PROVE SourcesTypeOK'
  <2>1. Shown(call[t]["load"].tree) \in Tree
    BY <1>k, Trees, CallTypes DEF Shown, SourcesTypeOK
  <2>. QED BY SMTT(30), <1>12, <1>13, <1>k, <2>1 DEF Loaded, buildVars, tableVars, SourcesTypeOK
<1>14. ASSUME NEW t \in Tab, Saved(t) PROVE SourcesTypeOK'
  BY <1>12, <1>14, <1>k DEF Saved, buildVars, tableVars, SourcesTypeOK
<1>15. ASSUME NEW t \in Tab, Imported(t) PROVE SourcesTypeOK'
  <2>1. call[t]["import"].tree \in Tree
    BY <1>k, CallTypes DEF SourcesTypeOK
  <2>. QED BY <1>12, <1>15, <1>k, <2>1 DEF Imported, buildVars, tableVars, SourcesTypeOK
<1>16. ASSUME Drop, UNCHANGED <<tableVars, editVars, callVars, sending, astray>> PROVE SourcesTypeOK'
  BY <1>16, Trees DEF Drop, tableVars, editVars, callVars, SourcesTypeOK
<1>17. ASSUME ListFunctions \/ EndRequest PROVE SourcesTypeOK'
  <2>1. Listed \subseteq Fn
    BY DEF Listed
  <2>. QED BY <1>16, <1>17, <2>1
       DEF ListFunctions, EndRequest, tableVars, editVars, callVars, SourcesTypeOK
<1>18. ASSUME NEW f \in Fn, ReadInput(f) PROVE SourcesTypeOK'
  BY <1>16, <1>18 DEF ReadInput, tableVars, editVars, callVars, SourcesTypeOK
<1>19. CASE UNCHANGED vars
  BY <1>19 DEF vars, tableVars, editVars, callVars, buildVars, SourcesTypeOK
<1>. QED
  BY <1>1, <1>2, <1>3, <1>5, <1>6, <1>7, <1>8, <1>9, <1>10, <1>11, <1>13, <1>14, <1>15, <1>17,
     <1>18, <1>19 DEF Next, ServerStep, TabStep
-----------------------------------------------------------------------------
(***************************************************************************)
(* Who a step leaves alone.                                                *)
(***************************************************************************)
\* Nothing of tab u changes.
Bystander(u) ==
    /\ view'[u] = view[u] /\ page'[u] = page[u]
    /\ files'[u] = files[u] /\ loaded'[u] = loaded[u]
    /\ dirty'[u] = dirty[u] /\ sending'[u] = sending[u]
    /\ call'[u] = call[u]

\* The steps that tab t takes, or the server for one of its calls.
Concerns(t) ==
    TabStep(t) \/ Read(t) \/ \E k \in Kind : Check(t, k) \/ Write(t, k)

\* The steps that no tab has a part in.
Elsewhere ==
    \/ \E f \in Fn, fk \in ForeignKeys : DeleteFunction(f, fk)
    \/ ListFunctions \/ EndRequest
    \/ \E f \in Fn : ReadInput(f)
    \/ UNCHANGED vars

LEMMA StepKinds == [Next]_vars => Elsewhere \/ \E t \in Tab : Concerns(t)
BY DEF Next, ServerStep, Elsewhere, Concerns

LEMMA ElsewhereBystanders ==
    ASSUME Elsewhere, NEW u \in Tab
    PROVE  Bystander(u) /\ astray' = astray
BY DEF Elsewhere, DeleteFunction, ListFunctions, EndRequest, ReadInput, Bystander, vars,
       editVars, callVars

LEMMA OthersAreBystanders ==
    ASSUME SourcesTypeOK, NEW t \in Tab, Concerns(t), NEW u \in Tab, u # t
    PROVE  Bystander(u)
<1>. USE DEF Bystander, SourcesTypeOK
<1>1. CASE \E f \in Fn : AddFunction(t, f)
  BY <1>1 DEF AddFunction, Send, callVars
<1>2. CASE \E f \in Fn : Open(t, f)
  BY <1>2 DEF Open, Send
<1>3. CASE Leave(t)
  BY <1>3 DEF Leave, callVars
<1>4. CASE \E n \in Name : Type(t, n) \/ AddFile(t, n) \/ RemoveFile(t, n)
  BY <1>4 DEF Type, AddFile, RemoveFile, Edit, callVars
<1>5. CASE Save(t)
  BY <1>5 DEF Save, Send
<1>6. CASE \E T \in Archive : Import(t, T)
  BY <1>6 DEF Import, Send, editVars
<1>7. CASE Loaded(t)
  BY <1>7 DEF Loaded, Done
<1>8. CASE Saved(t)
  BY <1>8 DEF Saved, Done
<1>9. CASE Imported(t)
  BY <1>9 DEF Imported, Done
<1>10. CASE Read(t)
  BY <1>10 DEF Read, Stage, editVars
<1>11. CASE \E k \in Kind : Check(t, k) \/ Write(t, k)
  BY <1>11 DEF Check, Write, Stage, editVars
<1>. QED BY <1>1, <1>2, <1>3, <1>4, <1>5, <1>6, <1>7, <1>8, <1>9, <1>10, <1>11 DEF Concerns, TabStep

\* What a move of one call does to the calls of its tab.
LEMMA CallMoves ==
    ASSUME SourcesTypeOK, NEW t \in Tab, NEW k \in Kind
    PROVE  /\ \A T : Send(t, k, T) =>
                /\ InFlight(t)' = InFlight(t) \union {k}
                /\ call'[t][k] = [stage |-> "sent", tree |-> T]
                /\ \A j \in Kind \ {k} : call'[t][j] = call[t][j]
           /\ \A s : Stage(t, k, s) =>
                /\ s # "none" /\ k \in InFlight(t) => InFlight(t)' = InFlight(t)
                /\ call'[t][k].stage = s /\ call'[t][k].tree = call[t][k].tree
                /\ \A j \in Kind \ {k} : call'[t][j] = call[t][j]
           /\ Done(t, k) =>
                /\ InFlight(t)' = InFlight(t) \ {k}
                /\ \A j \in Kind \ {k} : call'[t][j] = call[t][j]
<1>. USE DEF SourcesTypeOK, Call
<1>1. ASSUME NEW T, Send(t, k, T)
      PROVE  /\ InFlight(t)' = InFlight(t) \union {k}
             /\ call'[t][k] = [stage |-> "sent", tree |-> T]
             /\ \A j \in Kind \ {k} : call'[t][j] = call[t][j]
  BY <1>1 DEF Send, InFlight
<1>2. ASSUME NEW s, Stage(t, k, s)
      PROVE  /\ s # "none" /\ k \in InFlight(t) => InFlight(t)' = InFlight(t)
             /\ call'[t][k].stage = s /\ call'[t][k].tree = call[t][k].tree
             /\ \A j \in Kind \ {k} : call'[t][j] = call[t][j]
  BY <1>2 DEF Stage, InFlight
<1>3. ASSUME Done(t, k)
      PROVE  /\ InFlight(t)' = InFlight(t) \ {k}
             /\ \A j \in Kind \ {k} : call'[t][j] = call[t][j]
  BY <1>3 DEF Done, NoCall, InFlight
<1>. QED BY <1>1, <1>2, <1>3
-----------------------------------------------------------------------------
(***************************************************************************)
(* The tables.                                                             *)
(***************************************************************************)
\* A step writes no row but in Write, and removes none but with its function.
LEMMA TablesStay ==
    ASSUME SourcesInv, [Next]_vars
    PROVE  \/ UNCHANGED <<rows, sources>>
           \/ \E t \in Tab, k \in Kind : Write(t, k)
           \/ \E f \in Fn, fk \in ForeignKeys : DeleteFunction(f, fk)
BY DEF Next, ServerStep, TabStep, vars, tableVars, AddFunction, Open, Leave, Save, Type, AddFile,
       RemoveFile, Edit, Import, Loaded, Saved, Imported, Read, Check, ListFunctions, EndRequest,
       ReadInput

\* Ids are used once.
LEMMA FunctionsStay ==
    ASSUME SourcesInv, [Next]_vars, NEW f \in Fn, functions[f] # "absent"
    PROVE  functions'[f] # "absent" /\ (f \in Listed' => f \in Listed)
BY DEF Next, ServerStep, TabStep, vars, tableVars, AddFunction, Open, Leave, Save, Type, AddFile,
       RemoveFile, Edit, Import, Loaded, Saved, Imported, Read, Check, Write, DeleteFunction,
       ListFunctions, EndRequest, ReadInput, SourcesInv, SourcesTypeOK, Listed

\* A write puts a tree with files into the row of the tab's own function.
LEMMA WriteTables ==
    ASSUME SourcesInv, NEW t \in Tab, NEW k \in Kind, Write(t, k)
    PROVE  /\ page[t] \in Fn
           /\ UNCHANGED <<functions, build, todo, inputs>>
           /\ \/ UNCHANGED <<rows, sources, astray, steady>> /\ Stage(t, k, "error")
              \/ /\ rows' = rows \union {page[t]}
                 /\ sources' = [sources EXCEPT ![page[t]] = call[t][k].tree]
                 /\ call[t][k].tree # NoFiles
                 /\ steady' = steady \ {page[t]}
                 /\ \E s \in {"ok", "error"} :
                        Stage(t, k, s) /\ astray' = astray \union LosesTouch(t, k, s)
<1>1. k \in InFlight(t)
  BY DEF Write, InFlight
<1>2. page[t] \in Fn
  BY <1>1 DEF SourcesInv, TabOK, SourcesTypeOK
<1>. QED BY <1>2 DEF Write, PutSource, buildVars

LEMMA RowsNext == SourcesInv /\ [Next]_vars => RowsHaveFiles'
<1>. SUFFICES ASSUME SourcesInv, [Next]_vars PROVE RowsHaveFiles'
  OBVIOUS
<1>. USE DEF SourcesInv, RowsHaveFiles, SourcesTypeOK
<1>1. \A f \in rows : functions'[f] # "absent"
  BY FunctionsStay
<1>2. CASE UNCHANGED <<rows, sources>>
  BY <1>1, <1>2
<1>3. ASSUME NEW t \in Tab, NEW k \in Kind, Write(t, k) PROVE RowsHaveFiles'
  <2>1. functions[page[t]] # "absent"
    BY <1>3, WriteTables, SourcesAssumption DEF TabOK
  <2>2. functions' = functions /\ page[t] \in Fn
    BY <1>3, WriteTables
  <2>3. CASE UNCHANGED <<rows, sources>>
    BY <1>2, <2>3
  <2>4. CASE /\ rows' = rows \union {page[t]}
             /\ sources' = [sources EXCEPT ![page[t]] = call[t][k].tree]
             /\ call[t][k].tree # NoFiles
    BY <2>1, <2>2, <2>4
  <2>. QED BY <1>3, <2>3, <2>4, WriteTables
<1>4. ASSUME NEW f \in Fn, NEW fk \in ForeignKeys, DeleteFunction(f, fk) PROVE RowsHaveFiles'
  BY <1>1, <1>4 DEF DeleteFunction
<1>. QED BY <1>2, <1>3, <1>4, TablesStay

LEMMA InputsNext == SourcesInv /\ [Next]_vars => InputsCurrent'
<1>. SUFFICES ASSUME SourcesInv, [Next]_vars PROVE InputsCurrent'
  OBVIOUS
<1>. USE DEF SourcesInv, InputsCurrent, SourcesTypeOK
<1>1. ASSUME NEW t \in Tab, NEW k \in Kind, Write(t, k) PROVE InputsCurrent'
  BY SMTT(20), <1>1, WriteTables DEF Listed
<1>2. ASSUME NEW f \in Fn, NEW fk \in ForeignKeys, DeleteFunction(f, fk) PROVE InputsCurrent'
  BY <1>2 DEF DeleteFunction, buildVars, Listed
<1>3. ASSUME NEW f \in Fn, ReadInput(f) PROVE InputsCurrent'
  <2>1. CASE f \in rows
    BY <1>3, <2>1 DEF ReadInput, tableVars, Listed
  <2>2. CASE f \notin rows
    BY <1>3, <2>2 DEF ReadInput, Drop
  <2>. QED BY <2>1, <2>2
<1>4. CASE ListFunctions \/ EndRequest
  BY <1>4 DEF ListFunctions, EndRequest, Drop, tableVars, Listed
<1>5. CASE UNCHANGED <<rows, sources, buildVars, steady>> /\ (\A f \in Listed : f \in Listed')
  BY <1>5 DEF buildVars, Listed
<1>6. CASE \E t \in Tab, f \in Fn : AddFunction(t, f)
  BY <1>5, <1>6 DEF AddFunction, Listed
<1>7. CASE \/ \E t \in Tab : Read(t)
           \/ \E t \in Tab, k \in Kind : Check(t, k)
  BY <1>5, <1>7 DEF Read, Check, tableVars, Listed
<1>8. ASSUME NEW t \in Tab,
             \/ \E f \in Fn : Open(t, f)
             \/ Leave(t) \/ Save(t)
             \/ \E n \in Name : Type(t, n) \/ AddFile(t, n) \/ RemoveFile(t, n)
             \/ \E T \in Archive : Import(t, T)
             \/ Loaded(t) \/ Saved(t) \/ Imported(t)
      PROVE  InputsCurrent'
  BY <1>5, <1>8 DEF Open, Leave, Save, Type, AddFile, RemoveFile, Edit, Import, Loaded, Saved,
                    Imported, tableVars, Listed
<1>9. CASE UNCHANGED vars
  BY <1>5, <1>9 DEF vars, tableVars, Listed
<1>10. CASE ServerStep
  BY <1>1, <1>2, <1>3, <1>4, <1>7, <1>10 DEF ServerStep
<1>11. CASE \E t \in Tab : TabStep(t)
  <2>1. PICK t \in Tab : TabStep(t)
    BY <1>11
  <2>2. CASE \E f \in Fn : AddFunction(t, f)
    BY <1>6, <2>2
  <2>3. CASE ~ \E f \in Fn : AddFunction(t, f)
    <3>1. \/ \E f \in Fn : Open(t, f)
          \/ Leave(t) \/ Save(t)
          \/ \E n \in Name : Type(t, n) \/ AddFile(t, n) \/ RemoveFile(t, n)
          \/ \E T \in Archive : Import(t, T)
          \/ Loaded(t) \/ Saved(t) \/ Imported(t)
      BY <2>1, <2>3 DEF TabStep
    <3>. QED BY <1>8, <3>1
  <2>. QED BY <2>2, <2>3
<1>. QED BY <1>9, <1>10, <1>11 DEF Next
-----------------------------------------------------------------------------
(***************************************************************************)
(* The tabs, and SourcesInv.                                               *)
(***************************************************************************)
LEMMA BystanderInFlight ==
    ASSUME NEW u \in Tab, Bystander(u) PROVE InFlight(u)' = InFlight(u)
BY DEF Bystander, InFlight

LEMMA PageStays ==
    ASSUME SourcesInv, [Next]_vars, NEW u \in Tab, page'[u] = page[u], page[u] # None
    PROVE  functions'[page[u]] # "absent"
BY FunctionsStay DEF SourcesInv, SourcesTypeOK, TabOK

LEMMA BystanderTabOK ==
    ASSUME SourcesInv, [Next]_vars, NEW u \in Tab, Bystander(u) PROVE TabOK(u)'
BY BystanderInFlight, PageStays DEF SourcesInv, TabOK, Bystander

LEMMA TabNext ==
    ASSUME SourcesInv, [Next]_vars, NEW t \in Tab, Concerns(t) PROVE TabOK(t)'
<1>. SourcesTypeOK /\ TabOK(t)
  BY DEF SourcesInv
<1>k. Kind = {"load", "save", "import"}
  BY DEF Kind
<1>n. None \notin Fn
  BY SourcesAssumption
<1>. USE DEF SourcesTypeOK, TabOK
<1>1. ASSUME NEW f \in Fn, AddFunction(t, f) PROVE TabOK(t)'
  <2>1. CASE UNCHANGED <<view, page, callVars>>
    BY <1>1, <2>1, PageStays DEF AddFunction, callVars, InFlight
  <2>2. CASE view' = [view EXCEPT ![t] = "adding"] /\ page' = [page EXCEPT ![t] = f] /\ Send(t, "save", Template)
    <3>1. InFlight(t)' = InFlight(t) \union {"save"}
      BY <1>k, <2>2, CallMoves
    <3>. QED BY <1>1, <1>n, <2>2, <3>1 DEF AddFunction
  <2>. QED BY <1>1, <2>1, <2>2 DEF AddFunction
<1>2. ASSUME NEW f \in Fn, Open(t, f) PROVE TabOK(t)'
  <2>1. InFlight(t)' = InFlight(t) \union {"load"}
    BY <1>2, <1>k, CallMoves DEF Open
  <2>. QED BY <1>2, <1>n, <2>1 DEF Open, tableVars, Listed
<1>3. CASE Leave(t)
  <2>1. InFlight(t)' = {}
    BY <1>3 DEF Leave, callVars, InFlight
  <2>. QED BY <1>3, <2>1 DEF Leave, tableVars
<1>4. ASSUME NEW n \in Name, Type(t, n) \/ AddFile(t, n) \/ RemoveFile(t, n) PROVE TabOK(t)'
  <2>1. UNCHANGED <<functions, page, view, loaded, call>>
    BY <1>4 DEF Type, AddFile, RemoveFile, Edit, tableVars, callVars
  <2>. QED BY <2>1 DEF InFlight
<1>5. CASE Save(t)
  <2>1. InFlight(t)' = InFlight(t) \union {"save"}
    BY <1>5, <1>k, CallMoves DEF Save
  <2>. QED BY <1>5, <2>1 DEF Save, tableVars
<1>6. ASSUME NEW T \in Archive, Import(t, T) PROVE TabOK(t)'
  <2>1. InFlight(t)' = InFlight(t) \union {"import"}
    BY <1>6, <1>k, CallMoves DEF Import
  <2>. QED BY <1>6, <2>1 DEF Import, tableVars, editVars
<1>7. CASE Loaded(t)
  <2>1. InFlight(t)' = InFlight(t) \ {"load"} /\ "load" \in InFlight(t)
    BY <1>7, <1>k, CallMoves DEF Loaded, Answered, InFlight
  <2>. QED BY <1>7, <2>1 DEF Loaded, tableVars
<1>8. CASE Saved(t)
  <2>1. InFlight(t)' = InFlight(t) \ {"save"} /\ "save" \in InFlight(t)
    BY <1>8, <1>k, CallMoves DEF Saved, Answered, InFlight
  <2>2. CASE view[t] = "adding"
    BY <1>8, <2>1, <2>2 DEF Saved, tableVars
  <2>3. CASE view[t] # "adding"
    BY <1>8, <2>1, <2>3 DEF Saved, tableVars
  <2>. QED BY <2>2, <2>3
<1>9. CASE Imported(t)
  <2>1. InFlight(t)' = InFlight(t) \ {"import"} /\ "import" \in InFlight(t)
    BY <1>9, <1>k, CallMoves DEF Imported, Answered, InFlight
  <2>. QED BY <1>9, <2>1 DEF Imported, tableVars
<1>10. ASSUME NEW k \in Kind, NEW s \in {"checked", "ok", "error"}, Stage(t, k, s),
              k \in InFlight(t), UNCHANGED <<functions, editVars>>
       PROVE  TabOK(t)'
  <2>1. InFlight(t)' = InFlight(t)
    BY <1>10, CallMoves
  <2>. QED BY <1>10, <2>1 DEF editVars
<1>11. CASE Read(t)
  <2>1. "load" \in InFlight(t)
    BY <1>11, <1>k DEF Read, InFlight
  <2>2. InFlight(t)' = InFlight(t)
    <3>1. CASE Stage(t, "load", "error")
      BY <1>k, <2>1, <3>1, CallMoves
    <3>2. CASE call' = [call EXCEPT ![t]["load"] = [stage |-> "ok", tree |-> GetSource(page[t])]]
      BY <1>k, <2>1, <3>2 DEF InFlight
    <3>. QED BY <1>11, <3>1, <3>2 DEF Read
  <2>. QED BY <1>11, <2>2 DEF Read, tableVars, editVars
<1>12. ASSUME NEW k \in Kind, Check(t, k) \/ Write(t, k) PROVE TabOK(t)'
  <2>1. k \in InFlight(t)
    BY <1>12 DEF Check, Write, InFlight
  <2>. QED BY <1>10, <1>12, <2>1 DEF Check, Write, tableVars
<1>. QED
  BY <1>1, <1>2, <1>3, <1>4, <1>5, <1>6, <1>7, <1>8, <1>9, <1>11, <1>12 DEF Concerns, TabStep

LEMMA TabsInit == Init => SourcesInv
<1>. SUFFICES ASSUME Init PROVE SourcesInv
  OBVIOUS
<1>1. \A t \in Tab : InFlight(t) = {}
  BY DEF Init, InFlight, NoCall
<1>2. \A t \in Tab : TabOK(t)
  BY <1>1 DEF Init, TabOK
<1>3. RowsHaveFiles
  BY Trees, SourcesAssumption DEF Init, RowsHaveFiles
<1>. QED BY <1>2, <1>3, TypeInit DEF Init, InputsCurrent, SourcesInv

\* The tables, the tabs and the request for a build, whatever the order of
\* calls and answers (httpapi/builds.go, archive.go, the page of a function).
THEOREM SourcesInvariance == Spec => []SourcesInv
<1>1. ASSUME SourcesInv, [Next]_vars PROVE SourcesInv'
  <2>1. ASSUME NEW u \in Tab PROVE TabOK(u)'
    <3>1. CASE Elsewhere
      BY <1>1, <3>1, ElsewhereBystanders, BystanderTabOK
    <3>2. ASSUME NEW t \in Tab, Concerns(t) PROVE TabOK(u)'
      <4>1. CASE u = t
        BY <1>1, <3>2, <4>1, TabNext
      <4>2. CASE u # t
        BY <1>1, <3>2, <4>2, OthersAreBystanders, BystanderTabOK DEF SourcesInv
      <4>. QED BY <4>1, <4>2
    <3>. QED BY <1>1, <3>1, <3>2, StepKinds
  <2>. QED BY <1>1, <2>1, TypeNext, RowsNext, InputsNext DEF SourcesInv
<1>. QED BY <1>1, TabsInit, PTL DEF Spec
-----------------------------------------------------------------------------
(***************************************************************************)
(* EditsExplainDifferences says nothing of a tab with a call under way.    *)
(* The strengthening says what each stage of each call leaves of it.       *)
(***************************************************************************)
Stored(t) == GetSource(page[t])

LoadAgrees(t, c) == c.stage = "ok" => c.tree = Stored(t)

SaveAgrees(t, c) ==
    /\ Diff(files[t], Shown(Stored(t))) \subseteq dirty[t] \union sending[t]
    /\ Diff(files[t], c.tree) \subseteq dirty[t]
    /\ c.stage = "ok" => c.tree = Stored(t) /\ page[t] \in rows

ImportAgrees(t, c) ==
    IF c.stage = "ok" THEN c.tree = Stored(t) /\ page[t] \in rows
    ELSE Diff(files[t], Shown(Stored(t))) \subseteq dirty[t]

Agrees(t) ==
    /\ \A k1, k2 \in InFlight(t) : k1 = k2
    /\ page[t] \in Listed =>
        /\ "load" \in InFlight(t) => LoadAgrees(t, call[t]["load"])
        /\ "save" \in InFlight(t) => SaveAgrees(t, call[t]["save"])
        /\ "import" \in InFlight(t) => ImportAgrees(t, call[t]["import"])
        /\ InFlight(t) = {} => Diff(files[t], Shown(Stored(t))) \subseteq dirty[t]

TabsAgree == \A t \in Tab \ astray : view[t] = "editor" => Agrees(t)

\* The row of a tab's page changes by the tab's own writes, by its deletion,
\* and by writes that leave the tab astray.
LEMMA RowStays ==
    ASSUME SourcesInv, [Next]_vars, NEW u \in Tab, page[u] \in Fn, page'[u] = page[u],
           u \notin astray', page[u] \in Listed',
           \A k \in Kind : ~Write(u, k)
    PROVE  Stored(u)' = Stored(u) /\ (page[u] \in rows' <=> page[u] \in rows)
<1>. USE DEF Stored, GetSource
<1>1. CASE UNCHANGED <<rows, sources>>
  BY <1>1
<1>2. ASSUME NEW t \in Tab, NEW k \in Kind, Write(t, k)
      PROVE  Stored(u)' = Stored(u) /\ (page[u] \in rows' <=> page[u] \in rows)
  <2>1. t # u
    BY <1>2
  <2>2. UNCHANGED <<rows, sources>> \/ page[t] # page[u]
    BY <1>2, <2>1, WriteTables DEF LosesTouch
  <2>3. CASE page[t] # page[u]
    <3>1. /\ rows' = rows \/ rows' = rows \union {page[t]}
          /\ sources' = sources \/ sources' = [sources EXCEPT ![page[t]] = call[t][k].tree]
      BY <1>2, WriteTables
    <3>. QED BY <2>3, <3>1 DEF SourcesInv, SourcesTypeOK
  <2>. QED BY <1>1, <2>2, <2>3
<1>3. ASSUME NEW f \in Fn, NEW fk \in ForeignKeys, DeleteFunction(f, fk)
      PROVE  Stored(u)' = Stored(u) /\ (page[u] \in rows' <=> page[u] \in rows)
  <2>1. f # page[u]
    BY <1>3 DEF DeleteFunction, Listed, SourcesInv, SourcesTypeOK
  <2>. QED BY <1>3, <2>1 DEF DeleteFunction
<1>. QED BY <1>1, <1>2, <1>3, TablesStay

LEMMA BystanderAgrees ==
    ASSUME SourcesInv, [Next]_vars, NEW u \in Tab, Bystander(u), view[u] = "editor", Agrees(u),
           u \notin astray', \A k \in Kind : ~Write(u, k)
    PROVE  Agrees(u)'
<1>1. InFlight(u)' = InFlight(u)
  BY BystanderInFlight
<1>2. CASE page[u] \notin Listed'
  BY <1>1, <1>2 DEF Agrees, Bystander
<1>3. CASE page[u] \in Listed'
  <2>1. page[u] \in Fn /\ page'[u] = page[u] /\ page[u] \in Listed
    BY <1>3, FunctionsStay DEF SourcesInv, SourcesTypeOK, TabOK, Bystander
  <2>2. Stored(u)' = Stored(u) /\ (page[u] \in rows' <=> page[u] \in rows)
    BY <1>3, <2>1, RowStays
  <2>. QED BY <1>1, <2>1, <2>2 DEF Agrees, LoadAgrees, SaveAgrees, ImportAgrees, Bystander
<1>. QED BY <1>2, <1>3

LEMMA EditAgrees ==
    ASSUME SourcesInv, NEW t \in Tab, NEW n \in Name, view[t] = "editor", Agrees(t),
           Type(t, n) \/ AddFile(t, n) \/ RemoveFile(t, n)
    PROVE  Agrees(t)'
<1>1. PICK x : Edit(t, n, x)
  BY DEF Type, AddFile, RemoveFile
<1>2. \A U : Diff(files'[t], U) \subseteq Diff(files[t], U) \union {n}
  BY <1>1 DEF Edit, Diff, SourcesInv, SourcesTypeOK, Tree
<1>3. dirty'[t] = dirty[t] \union {n}
  BY <1>1 DEF Edit, SourcesInv, SourcesTypeOK
<1>4. UNCHANGED <<functions, rows, sources, page, call, sending>>
  BY <1>1 DEF Edit, tableVars, callVars
<1>5. InFlight(t)' = InFlight(t) /\ Stored(t)' = Stored(t) /\ Listed' = Listed
  BY <1>4 DEF InFlight, Stored, GetSource, Listed
<1>. QED BY <1>2, <1>3, <1>4, <1>5 DEF Agrees, LoadAgrees, SaveAgrees, ImportAgrees

\* A tab that sends a call keeps in touch only if it is the tab's only one.
LEMMA SendAgrees ==
    ASSUME SourcesInv, NEW t \in Tab, view[t] = "editor", Agrees(t), t \notin astray',
           Save(t) \/ \E T \in Archive : Import(t, T)
    PROVE  Agrees(t)'
<1>. Kind = {"load", "save", "import"}
  BY DEF Kind
<1>1. InFlight(t) = {}
  BY DEF Save, Import, Overlap
<1>2. UNCHANGED <<functions, rows, sources, page, files>>
  BY DEF Save, Import, tableVars, editVars
<1>3. Stored(t)' = Stored(t) /\ Listed' = Listed
  BY <1>2 DEF Stored, GetSource, Listed
<1>4. page[t] \in Listed => Diff(files[t], Shown(Stored(t))) \subseteq dirty[t]
  BY <1>1 DEF Agrees
<1>5. CASE Save(t)
  <2>1. InFlight(t)' = {"save"} /\ call'[t]["save"] = [stage |-> "sent", tree |-> files[t]]
    BY <1>1, <1>5, CallMoves DEF Save, SourcesInv
  <2>2. Diff(files[t], files[t]) = {}
    BY DEF Diff
  <2>3. sending'[t] = dirty[t] /\ dirty'[t] = {}
    BY <1>5 DEF Save, SourcesInv, SourcesTypeOK
  <2>. QED BY <1>2, <1>3, <1>4, <2>1, <2>2, <2>3 DEF Agrees, SaveAgrees
<1>6. ASSUME NEW T \in Archive, Import(t, T) PROVE Agrees(t)'
  <2>1. InFlight(t)' = {"import"} /\ call'[t]["import"] = [stage |-> "sent", tree |-> T]
    BY <1>1, <1>6, CallMoves DEF Import, SourcesInv
  <2>2. dirty' = dirty
    BY <1>6 DEF Import, editVars
  <2>. QED BY <1>2, <1>3, <1>4, <2>1, <2>2 DEF Agrees, ImportAgrees
<1>. QED BY <1>5, <1>6

\* What an answer brings to the editor.
LEMMA AnswerAgrees ==
    ASSUME SourcesInv, NEW t \in Tab, view[t] = "editor", Agrees(t), t \notin astray',
           Loaded(t) \/ Saved(t) \/ Imported(t)
    PROVE  Agrees(t)'
<1>. /\ Kind = {"load", "save", "import"}
     /\ SourcesTypeOK
  BY DEF Kind, SourcesInv
<1>. DEFINE c(k) == call[t][k]
<1>1. UNCHANGED <<functions, rows, sources>> /\ page'[t] = page[t]
  BY DEF Loaded, Saved, Imported, tableVars
<1>2. Stored(t)' = Stored(t) /\ Listed' = Listed
  BY <1>1 DEF Stored, GetSource, Listed
<1>3. ASSUME NEW k \in Kind, Answered(t, k), Done(t, k)
      PROVE  k \in InFlight(t) /\ InFlight(t)' = {}
  <2>1. k \in InFlight(t)
    BY <1>3 DEF Answered, InFlight
  <2>. QED BY <1>3, <2>1, CallMoves DEF Agrees, InFlight
<1>4. \A T : Diff(T, T) = {}
  BY DEF Diff
<1>5. Stored(t) # NoFiles => Shown(Stored(t)) = Stored(t)
  BY DEF Shown
<1>6. page[t] \in rows => Stored(t) # NoFiles
  BY DEF Stored, GetSource, SourcesInv, RowsHaveFiles, SourcesTypeOK
<1>7. CASE Loaded(t)
  <2>1. c("load").stage = "ok" /\ files'[t] = Shown(c("load").tree)
    BY <1>7 DEF Loaded, SourcesTypeOK
  <2>. QED BY <1>1, <1>2, <1>3, <1>4, <1>7, <2>1 DEF Loaded, Agrees, LoadAgrees
<1>8. CASE Saved(t)
  <2>1. files'[t] = files[t]
    BY <1>8 DEF Saved
  <2>2. CASE c("save").stage = "ok"
    <3>1. dirty'[t] = dirty[t]
      BY <1>8, <2>2 DEF Saved
    <3>. QED BY <1>1, <1>2, <1>3, <1>5, <1>6, <1>8, <2>1, <2>2, <3>1 DEF Saved, Agrees, SaveAgrees
  <2>3. CASE c("save").stage = "error"
    <3>1. dirty'[t] = dirty[t] \union sending[t]
      BY <1>8, <2>3 DEF Saved, SourcesTypeOK
    <3>. QED BY <1>1, <1>2, <1>3, <1>8, <2>1, <2>3, <3>1 DEF Saved, Agrees, SaveAgrees
  <2>. QED BY <1>8, <2>2, <2>3 DEF Saved, Answered
<1>9. CASE Imported(t)
  <2>1. CASE c("import").stage = "ok"
    <3>1. files'[t] = c("import").tree
      BY <1>9, <2>1 DEF Imported, SourcesTypeOK
    <3>. QED BY <1>1, <1>2, <1>3, <1>4, <1>5, <1>6, <1>9, <2>1, <3>1
         DEF Imported, Agrees, ImportAgrees
  <2>2. CASE c("import").stage # "ok"
    <3>1. files'[t] = files[t] /\ dirty'[t] = dirty[t]
      BY <1>9, <2>2 DEF Imported
    <3>. QED BY <1>1, <1>2, <1>3, <1>9, <2>2, <3>1 DEF Imported, Agrees, ImportAgrees
  <2>. QED BY <2>1, <2>2
<1>. QED BY <1>7, <1>8, <1>9

LEMMA CheckAgrees ==
    ASSUME SourcesInv, NEW t \in Tab, Agrees(t), NEW k \in Kind, Check(t, k)
    PROVE  Agrees(t)'
<1>1. k \in InFlight(t) /\ call[t][k].stage = "sent"
  BY DEF Check, InFlight
<1>2. PICK s \in {"checked", "error"} : Stage(t, k, s)
  BY DEF Check
<1>3. /\ InFlight(t)' = InFlight(t)
      /\ call'[t][k].stage = s /\ call'[t][k].tree = call[t][k].tree
      /\ \A j \in Kind \ {k} : call'[t][j] = call[t][j]
  BY <1>1, <1>2, CallMoves DEF SourcesInv
<1>4. UNCHANGED <<functions, rows, sources, page, files, dirty, sending>>
  BY DEF Check, tableVars, editVars
<1>5. Stored(t)' = Stored(t) /\ Listed' = Listed
  BY <1>4 DEF Stored, GetSource, Listed
<1>. QED
  BY <1>1, <1>3, <1>4, <1>5 DEF Agrees, LoadAgrees, SaveAgrees, ImportAgrees, InFlight

\* A read that is not disturbed brings a tab back in touch.
LEMMA ReadAgrees ==
    ASSUME SourcesInv, NEW t \in Tab, Read(t), t \in astray \/ Agrees(t), t \notin astray'
    PROVE  Agrees(t)'
<1>. "load" \in Kind
  BY DEF Kind
<1>1. "load" \in InFlight(t)
  BY DEF Read, InFlight
<1>2. InFlight(t) = {"load"}
  BY <1>1 DEF Read, Agrees
<1>3. UNCHANGED <<functions, rows, sources, page>>
  BY DEF Read, tableVars, editVars
<1>4. Stored(t)' = Stored(t)
  BY <1>3 DEF Stored, GetSource
<1>5. CASE Stage(t, "load", "error")
  <2>1. InFlight(t)' = {"load"} /\ call'[t]["load"].stage = "error"
    BY <1>2, <1>5, CallMoves DEF SourcesInv
  <2>. QED BY <2>1 DEF Agrees, LoadAgrees
<1>6. CASE call' = [call EXCEPT ![t]["load"] = [stage |-> "ok", tree |-> GetSource(page[t])]]
  <2>1. call'[t]["load"].tree = Stored(t)
    BY <1>6 DEF Stored, SourcesInv, SourcesTypeOK
  <2>2. InFlight(t)' = {"load"}
    BY <1>2, <1>6 DEF InFlight, SourcesInv, SourcesTypeOK
  <2>. QED BY <1>4, <2>1, <2>2 DEF Agrees, LoadAgrees
<1>. QED BY <1>5, <1>6 DEF Read

LEMMA WriteAgrees ==
    ASSUME SourcesInv, NEW t \in Tab, view[t] = "editor", Agrees(t), t \notin astray',
           NEW k \in Kind, Write(t, k)
    PROVE  Agrees(t)'
<1>. Kind = {"load", "save", "import"}
  BY DEF Kind
<1>1. k \in InFlight(t) /\ call[t][k].stage = "checked" /\ k # "load"
  BY DEF Write, InFlight
<1>2. InFlight(t) = {k}
  BY <1>1 DEF Agrees
<1>3. UNCHANGED <<functions, page, files, dirty, sending>> /\ Listed' = Listed
  BY WriteTables DEF Write, editVars, Listed
<1>4. ASSUME NEW s \in {"ok", "error"}, Stage(t, k, s)
      PROVE  /\ InFlight(t)' = {k}
             /\ call'[t][k].stage = s /\ call'[t][k].tree = call[t][k].tree
  BY <1>1, <1>2, <1>4, CallMoves DEF SourcesInv
<1>5. CASE UNCHANGED <<rows, sources>> /\ Stage(t, k, "error")
  <2>1. Stored(t)' = Stored(t)
    BY <1>3, <1>5 DEF Stored, GetSource
  <2>. QED BY <1>1, <1>2, <1>3, <1>4, <1>5, <2>1 DEF Agrees, SaveAgrees, ImportAgrees
<1>6. CASE /\ rows' = rows \union {page[t]}
           /\ sources' = [sources EXCEPT ![page[t]] = call[t][k].tree]
           /\ call[t][k].tree # NoFiles
           /\ \E s \in {"ok", "error"} :
                  Stage(t, k, s) /\ astray' = astray \union LosesTouch(t, k, s)
  <2>1. PICK s \in {"ok", "error"} : Stage(t, k, s) /\ astray' = astray \union LosesTouch(t, k, s)
    BY <1>6
  <2>2. Stored(t)' = call[t][k].tree /\ page'[t] \in rows'
    BY <1>3, <1>6, WriteTables DEF Stored, GetSource, SourcesInv, SourcesTypeOK
  <2>3. Shown(Stored(t))' = call[t][k].tree
    BY <1>6, <2>2 DEF Shown
  <2>4. CASE k = "save"
    BY <1>1, <1>2, <1>3, <1>4, <2>1, <2>2, <2>3, <2>4 DEF Agrees, SaveAgrees
  <2>5. CASE k = "import"
    <3>1. s = "ok"
      BY <2>1, <2>5 DEF LosesTouch
    <3>. QED BY <1>1, <1>2, <1>3, <1>4, <2>1, <2>2, <2>5, <3>1 DEF Agrees, ImportAgrees
  <2>. QED BY <1>1, <2>4, <2>5
<1>. QED BY <1>5, <1>6, WriteTables
-----------------------------------------------------------------------------
LEMMA AstrayStays ==
    ASSUME [Next]_vars, NEW t \in Tab, t \in astray, t \notin astray'
    PROVE  Leave(t) \/ Read(t)
BY DEF Next, ServerStep, TabStep, vars, AddFunction, Open, Leave, Save, Type, AddFile, RemoveFile,
       Edit, Import, Loaded, Saved, Imported, Read, Check, Write, DeleteFunction, ListFunctions,
       EndRequest, ReadInput

LEMMA OwnStepAgrees ==
    ASSUME SourcesInv, [Next]_vars, NEW t \in Tab, Concerns(t), t \notin astray',
           view'[t] = "editor", t \notin astray /\ view[t] = "editor" => Agrees(t)
    PROVE  Agrees(t)'
<1>. SourcesTypeOK
  BY DEF SourcesInv
<1>1. ASSUME NEW f \in Fn, AddFunction(t, f) PROVE FALSE
  BY <1>1 DEF AddFunction, SourcesTypeOK
<1>2. ASSUME NEW f \in Fn, Open(t, f) PROVE Agrees(t)'
  <2>1. InFlight(t)' = {"load"} /\ call'[t]["load"].stage = "sent"
    <3>1. InFlight(t) = {} /\ "load" \in Kind
      BY <1>2 DEF Open, SourcesInv, TabOK, Kind
    <3>2. Send(t, "load", NoFiles)
      BY <1>2 DEF Open
    <3>3. /\ InFlight(t)' = InFlight(t) \union {"load"}
          /\ call'[t]["load"] = [stage |-> "sent", tree |-> NoFiles]
      BY <3>1, <3>2, CallMoves
    <3>. QED BY <3>1, <3>3
  <2>. QED BY <2>1 DEF Agrees, LoadAgrees
<1>3. CASE Leave(t)
  BY <1>3 DEF Leave, SourcesTypeOK
<1>4. CASE Read(t)
  <2>1. view[t] = "editor"
    BY <1>4 DEF Read, editVars
  <2>. QED BY <1>4, <2>1, ReadAgrees
<1>5. CASE ~Leave(t) /\ ~Read(t) /\ ~(\E f \in Fn : AddFunction(t, f) \/ Open(t, f))
  <2>1. t \notin astray
    BY <1>5, AstrayStays
  <2>2. view[t] = "editor"
    BY <1>5 DEF Concerns, TabStep, Save, Type, AddFile, RemoveFile, Import, Loaded, Saved, Imported,
                Check, Write, editVars, SourcesTypeOK
  <2>3. Agrees(t)
    BY <2>1, <2>2
  <2>. QED BY <1>5, <2>1, <2>2, <2>3, EditAgrees, SendAgrees, AnswerAgrees, CheckAgrees, WriteAgrees
       DEF Concerns, TabStep
<1>. QED BY <1>1, <1>2, <1>3, <1>4, <1>5

LEMMA OtherStepAgrees ==
    ASSUME SourcesInv, [Next]_vars, NEW u \in Tab, Bystander(u), u \notin astray',
           view'[u] = "editor", u \notin astray /\ view[u] = "editor" => Agrees(u),
           ~Concerns(u)
    PROVE  Agrees(u)'
BY AstrayStays, BystanderAgrees DEF Bystander, Concerns, TabStep

THEOREM TabsInvariance == Spec => []TabsAgree
<1>1. Init => TabsAgree
  BY DEF Init, TabsAgree
<1>2. ASSUME SourcesInv, TabsAgree, [Next]_vars PROVE TabsAgree'
  <2>1. SUFFICES ASSUME NEW u \in Tab, u \notin astray', view'[u] = "editor" PROVE Agrees(u)'
    BY DEF TabsAgree
  <2>2. u \notin astray /\ view[u] = "editor" => Agrees(u)
    BY <1>2 DEF TabsAgree
  <2>3. CASE Concerns(u)
    BY <1>2, <2>1, <2>2, <2>3, OwnStepAgrees
  <2>4. CASE ~Concerns(u)
    <3>1. Bystander(u)
      BY <1>2, <2>4, StepKinds, ElsewhereBystanders, OthersAreBystanders DEF SourcesInv
    <3>. QED BY <1>2, <2>1, <2>2, <2>4, <3>1, OtherStepAgrees
  <2>. QED BY <2>3, <2>4
<1>. QED BY <1>1, <1>2, SourcesInvariance, PTL DEF Spec

\* A tab at rest that has kept in touch differs from what a reload of its page
\* would show in files its user has edited, and in nothing else (the page's
\* loadSource, saveSource and importArchive against putSource and
\* importSource).
THEOREM EditsExplained == Spec => []EditsExplainDifferences
<1>1. TabsAgree => EditsExplainDifferences
  BY DEF TabsAgree, EditsExplainDifferences, AtRest, Agrees, Stored
<1>. QED BY <1>1, TabsInvariance, PTL

\* writing-functions.md:89: what a build reads is what an editor at rest shows,
\* for as long as nobody writes (startBuild against the page of a function).
THEOREM BuildsReadEditors == Spec => []BuildReadsEditors
<1>1. SourcesInv /\ EditsExplainDifferences => BuildReadsEditors
  <2>. SUFFICES ASSUME SourcesInv, EditsExplainDifferences, NEW t \in Tab \ astray, AtRest(t),
                       page[t] \in steady \ todo
                PROVE  Diff(files[t], inputs[page[t]]) \subseteq dirty[t]
    BY DEF BuildReadsEditors
  <2>1. inputs[page[t]] = sources[page[t]] /\ page[t] \in rows
    BY DEF SourcesInv, InputsCurrent
  <2>2. Shown(GetSource(page[t])) = inputs[page[t]]
    BY <2>1 DEF Shown, GetSource, SourcesInv, RowsHaveFiles, SourcesTypeOK
  <2>. QED BY <2>2 DEF EditsExplainDifferences
<1>. QED BY <1>1, SourcesInvariance, EditsExplained, PTL
=============================================================================
