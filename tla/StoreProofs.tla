----------------------------- MODULE StoreProofs -----------------------------
(***************************************************************************)
(* Lemmas about the statements of module Store, for the modules whose      *)
(* processes issue them.                                                   *)
(***************************************************************************)
EXTENDS Store, TLAPS

\* The tables are well-typed at the start, with or without applications that
\* the database already has.
LEMMA InitTables == StoreInit => StoreTypeOK
  BY StoreAssumption DEF StoreInit, StoreTypeOK, Application, BuildStatus

\* A stored replica count is at least one, whatever the client asked for.
LEMMA ClampPositive == \A r \in Nat : Clamp(r) \in Nat \ {0}
BY DEF Clamp

\* Writing an application's columns keeps the tables well-typed.
LEMMA ConfigTyped ==
  ASSUME StoreTypeOK, NEW a \in App, NEW v \in Vars, NEW r \in Nat,
         UpdateApplicationConfig(a, v, r)
  PROVE  StoreTypeOK'
<1> USE DEF StoreTypeOK
<1>1. Clamp(r) \in Nat \ {0}
  BY ClampPositive
<1>2. app[a] \in Application
  OBVIOUS
<1>3. [app[a] EXCEPT !.vars = v, !.replicas = Clamp(r)] \in Application
  BY <1>1, <1>2 DEF Application
<1>4. app' = [app EXCEPT ![a] = [app[a] EXCEPT !.vars = v, !.replicas = Clamp(r)]]
  BY <1>2 DEF UpdateApplicationConfig
<1>5. app' \in [App -> Application]
  BY <1>3, <1>4
<1>6. QED
  BY <1>5 DEF UpdateApplicationConfig

\* A deleted application is still one, and its rows go.
LEMMA DeletionTyped ==
  ASSUME StoreTypeOK, NEW a \in App, NEW fk, DeleteApplication(a, fk)
  PROVE  StoreTypeOK'
<1> USE DEF StoreTypeOK
<1>1. [app[a] EXCEPT !.state = "deleted"] \in Application
  <2>1. app[a] \in Application
    OBVIOUS
  <2>2. QED
    BY <2>1 DEF Application
<1>2. app' = [app EXCEPT ![a] = [app[a] EXCEPT !.state = "deleted"]]
  BY DEF DeleteApplication
<1>3. app' \in [App -> Application]
  BY <1>1, <1>2
<1>4. functions' \in [App -> SUBSET Fn]
  BY DEF DeleteApplication
<1>5. /\ status' \in [Build -> BuildStatus \union {"absent"}]
      /\ UNCHANGED <<owner, created>>
  BY DEF DeleteApplication
<1>6. QED
  BY <1>3, <1>4, <1>5

\* Every statement on the store keeps the tables well-typed.
LEMMA StoreOperationsTyped ==
  ASSUME StoreTypeOK, NEW a \in App, NEW b \in Build
  PROVE  /\ CreateApplication(a) => StoreTypeOK'
         /\ \A v \in Vars, r \in Nat : UpdateApplicationConfig(a, v, r) => StoreTypeOK'
         /\ \A fk \in BOOLEAN : DeleteApplication(a, fk) => StoreTypeOK'
         /\ \A f \in Fn, fk \in BOOLEAN : CreateFunction(a, f, fk) => StoreTypeOK'
         /\ \A f \in Fn : DeleteFunction(a, f) => StoreTypeOK'
         /\ CreateBuild(b, a) => StoreTypeOK'
         /\ \A s \in BuildStatus : UpdateBuildStatus(b, s) => StoreTypeOK'
         /\ UNCHANGED storeVars => StoreTypeOK'
<1> USE DEF StoreTypeOK
<1>1. CreateApplication(a) => StoreTypeOK'
  BY DEF CreateApplication, Application
<1>2. \A v \in Vars, r \in Nat : UpdateApplicationConfig(a, v, r) => StoreTypeOK'
  BY ConfigTyped
<1>3. \A fk \in BOOLEAN : DeleteApplication(a, fk) => StoreTypeOK'
  BY DeletionTyped
<1>4. \A f \in Fn, fk \in BOOLEAN : CreateFunction(a, f, fk) => StoreTypeOK'
  BY DEF CreateFunction
<1>5. \A f \in Fn : DeleteFunction(a, f) => StoreTypeOK'
  BY DEF DeleteFunction
<1>6. CreateBuild(b, a) => StoreTypeOK'
  BY DEF CreateBuild, BuildStatus
<1>7. \A s \in BuildStatus : UpdateBuildStatus(b, s) => StoreTypeOK'
  BY DEF UpdateBuildStatus
<1>8. UNCHANGED storeVars => StoreTypeOK'
  BY DEF storeVars
<1>9. QED
  BY <1>1, <1>2, <1>3, <1>4, <1>5, <1>6, <1>7, <1>8

\* UNIQUE (tenant_id, name): the database starts with one application per name,
\* and a name is taken again only when its last application is gone.
LEMMA InitNames == StoreInit => OneLivePerName
  BY StoreAssumption DEF StoreInit, OneLivePerName, Live

LEMMA NamesStayUnique ==
  ASSUME StoreTypeOK, OneLivePerName,
         \/ \E a \in App : CreateApplication(a)
         \/ \A a \in App : Live(a)' => Live(a)
  PROVE  OneLivePerName'
<1>1. ASSUME NEW a \in App, CreateApplication(a) PROVE OneLivePerName'
  <2>1. \A x \in App : Live(x)' => x = a \/ Live(x)
    BY <1>1 DEF CreateApplication, Live, StoreTypeOK
  <2>2. \A x \in App : NameOf[x] = NameOf[a] => ~Live(x)
    BY <1>1 DEF CreateApplication, NameFree
  <2>3. QED
    BY <2>1, <2>2 DEF OneLivePerName
<1>2. CASE \A a \in App : Live(a)' => Live(a)
  BY <1>2 DEF OneLivePerName
<1>3. QED
  BY <1>1, <1>2

\* An insert stamps its row once; the stamp outlives the row.
Distinct == \A i, j \in DOMAIN created : created[i] = created[j] => i = j
Stamped == \A b \in Build : owner[b] # None => \E i \in DOMAIN created : created[i] = b
Owned == \A i \in DOMAIN created : owner[created[i]] # None
StampsInv == Distinct /\ Stamped /\ Owned

LEMMA InsertStamps ==
  ASSUME StoreTypeOK, StampsInv, NEW a \in App, NEW b \in Build,
         owner[b] = None, CreateBuild(b, a)
  PROVE  StampsInv'
<1> DEFINE n == Len(created)
<1>1. /\ created \in Seq(Build) /\ n \in Nat /\ DOMAIN created = 1..n
      /\ DOMAIN created' = 1..(n + 1) /\ created'[n + 1] = b
      /\ \A i \in 1..n : created'[i] = created[i] /\ created[i] \in Build \ {b}
  BY DEF CreateBuild, StoreTypeOK, StampsInv, Owned
<1>2. owner'[b] = a /\ \A c \in Build \ {b} : owner'[c] = owner[c]
  BY DEF CreateBuild, StoreTypeOK
<1>3. Distinct'
  <2> SUFFICES ASSUME NEW i \in 1..(n + 1), NEW j \in 1..(n + 1), created'[i] = created'[j]
               PROVE  i = j
    BY <1>1 DEF Distinct
  <2>1. (i = n + 1 \/ i \in 1..n) /\ (j = n + 1 \/ j \in 1..n)
    BY <1>1
  <2>2. QED
    BY <1>1, <2>1 DEF StampsInv, Distinct
<1>4. \A c \in Build \ {b} : owner[c] # None => \E i \in 1..n : created[i] = c
  BY <1>1 DEF StampsInv, Stamped
<1>5. Stamped'
  <2>1. \A i \in 1..n : i \in 1..(n + 1)
    BY <1>1
  <2>2. n + 1 \in 1..(n + 1)
    BY <1>1
  <2>3. QED
    BY <1>1, <1>2, <1>4, <2>1, <2>2 DEF Stamped
<1>6. Owned'
  <2> SUFFICES ASSUME NEW i \in 1..(n + 1) PROVE owner'[created'[i]] # None
    BY <1>1 DEF Owned
  <2>1. CASE i = n + 1
    BY <1>1, <1>2, <2>1, StoreAssumption
  <2>2. CASE i # n + 1
    <3>1. i \in 1..n
      BY <1>1, <2>2
    <3>2. QED
      BY <1>1, <1>2, <3>1 DEF StampsInv, Owned
  <2>3. QED
    BY <2>1, <2>2
<1>7. QED
  BY <1>3, <1>5, <1>6 DEF StampsInv

\* What a reader of the tables sees move keeps the stamps.
LEMMA StampsKept ==
  ASSUME StoreTypeOK, StampsInv, [TableStep]_seenVars
  PROVE  StampsInv'
<1>1. CASE UNCHANGED <<owner, created>>
  BY <1>1 DEF StampsInv, Distinct, Stamped, Owned
<1>2. ASSUME NEW a \in App, NEW b \in Build, owner[b] = None, CreateBuild(b, a)
      PROVE  StampsInv'
  BY <1>2, InsertStamps
<1>3. QED
  BY <1>1, <1>2
     DEF TableStep, seenVars, CreateApplication, DeleteApplication, UpdateBuildStatus

LEMMA InitStamps == StoreInit => StampsInv
  BY DEF StoreInit, StampsInv, Distinct, Stamped, Owned
=============================================================================
