---------------------------- MODULE SessionProofs ----------------------------
(* What Session promises, for any number of tabs, logins, sessions and users,
   any expiries and any number of restarts. *)
EXTENDS Session, TLAPS

LEMMA InitTyped == Init => TypeOK
  BY SessionAssumption DEF Init, TypeOK, Jar, NoCookies, Stages, Id, Login

\* What the helpers of the actions do to the types.
LEMMA HelpersTyped ==
  ASSUME TypeOK, NEW t \in Tab
  PROVE  /\ \A stage \in Stages : Go(t, stage) => pc' \in [Tab -> Stages]
         /\ \A stage \in Stages : Send(t, stage) =>
               pc' \in [Tab -> Stages] /\ sent' \in [Tab -> Jar] /\ got' = got
         /\ \A stage \in Stages : Reply(t, stage) =>
               pc' \in [Tab -> Stages] /\ sent' \in [Tab -> Jar]
         /\ Finish(t) => /\ pc' \in [Tab -> Stages]
                         /\ sent' \in [Tab -> Jar]
                         /\ got' \in [Tab -> Id \union {None}]
<1>1. NoCookies \in Jar /\ [cookies EXCEPT !.session = None] \in Jar
      /\ [NoCookies EXCEPT !.session = cookies.session] \in Jar
  BY DEF TypeOK, Jar, NoCookies
<1>2. "idle" \in Stages
  BY DEF Stages
<1> QED
  BY <1>1, <1>2 DEF TypeOK, Go, Send, Reply, Finish

LEMMA LoginTyped ==
  ASSUME SessionInv, NEW t \in Tab, LoginStep(t)
  PROVE  TypeOK'
<1> TypeOK BY DEF SessionInv
<1> USE HelpersTyped
<1>s. {"idp", "callback", "exchange", "welcome"} \subseteq Stages
  BY DEF Stages, InServer
<1>1. ASSUME NEW l \in Login, BeginLogin(t, l) PROVE TypeOK'
  BY <1>1, <1>s DEF BeginLogin, TypeOK, storeVars, Jar
<1>2. CASE Authenticate(t)
  BY <1>2, <1>s DEF Authenticate, TypeOK, storeVars
<1>3. CASE Reload(t)
  BY <1>3, <1>s DEF Reload, TypeOK, storeVars, loginVars
<1>4. CASE Callback(t)
  BY <1>4, <1>s DEF Callback, TypeOK, storeVars, loginVars
<1>5. CASE Exchange(t)
  <2>1. CASE ExchangeFails(t)
    BY <1>5, <2>1 DEF Exchange, ExchangeFails, Spend, TypeOK, storeVars
  <2>2. ASSUME Spend(t), NEW s \in Id, NEW e \in Expiries,
               Create(t, s, [login |-> url[t], user |-> who[url[t]],
                             roles |-> RolesOf[who[url[t]]], expires |-> e])
        PROVE  TypeOK'
    <3>1. url[t] \in Login /\ who[url[t]] \in User
      BY <1>5, <2>2 DEF Exchange, Spend, SessionInv, TabInv, TypeOK
    <3>2. [login |-> url[t], user |-> who[url[t]], roles |-> RolesOf[who[url[t]]],
           expires |-> e] \in Session
      BY <3>1, <2>2 DEF Session
    <3> QED BY <1>5, <2>2, <3>2, <1>s DEF Exchange, Create, Spend, TypeOK
  <2> QED BY <1>5, <2>1, <2>2 DEF Exchange
<1>6. CASE Welcome(t)
  <2>1. [NoCookies EXCEPT !.session = got[t]] \in Jar
    BY DEF TypeOK, Jar, NoCookies
  <2> QED BY <1>6, <2>1 DEF Welcome, TypeOK, storeVars, loginVars
<1> QED
  BY <1>1, <1>2, <1>3, <1>4, <1>5, <1>6 DEF LoginStep

LEMMA RequestTyped ==
  ASSUME SessionInv, NEW t \in Tab, SessionStep(t)
  PROVE  TypeOK'
<1> TypeOK BY DEF SessionInv
<1> USE HelpersTyped
<1>s. {"ask", "logout", "goodbye", "anonymous", "served", "forbidden"} \subseteq Stages
  BY DEF Stages, InServer, Served
<1>1. CASE Ask(t)
  BY <1>1, <1>s DEF Ask, TypeOK, storeVars, loginVars
<1>2. CASE Resolve(t)
  <2>1. sinceGC' \in 0..GCInterval
    BY <1>2, SessionAssumption DEF Resolve, GC, TypeOK
  <2>2. live' \subseteq Id
    BY <1>2 DEF Resolve, TypeOK
  <2>3. pc' \in [Tab -> Stages] /\ sent' \in [Tab -> Jar]
    BY <1>2, <1>s DEF Resolve
  <2> QED BY <1>2, <2>1, <2>2, <2>3 DEF Resolve, TypeOK, loginVars
<1>3. CASE Receive(t)
  BY <1>3 DEF Receive, TypeOK, storeVars, loginVars
<1>4. CASE Logout(t)
  BY <1>4, <1>s DEF Logout, TypeOK, storeVars, loginVars
<1>5. CASE EndSession(t)
  <2>1. closed' \subseteq Id
    BY <1>5 DEF EndSession, TypeOK, Jar
  <2> QED BY <1>5, <1>s, <2>1 DEF EndSession, TypeOK, loginVars
<1>6. CASE Goodbye(t)
  <2>1. [cookies EXCEPT !.session = None] \in Jar
    BY DEF TypeOK, Jar
  <2> QED BY <1>6, <2>1 DEF Goodbye, TypeOK, storeVars, loginVars
<1> QED
  BY <1>1, <1>2, <1>3, <1>4, <1>5, <1>6 DEF SessionStep

LEMMA SurroundingsTyped ==
  ASSUME TypeOK, \/ OthersAsk \/ Tick \/ Restart \/ UNCHANGED vars
                 \/ \E k \in DOMAIN NoCookies : DropCookie(k)
  PROVE  TypeOK'
<1>1. CASE OthersAsk
  BY <1>1, SessionAssumption DEF OthersAsk, GC, TypeOK, loginVars
<1>2. CASE Tick
  BY <1>2, SessionAssumption DEF Tick, TypeOK, loginVars
<1>3. CASE Restart
  <2>1. NoCookies \in Jar /\ "idle" \in Stages
    BY DEF NoCookies, Jar, Stages
  <2>2. pc' \in [Tab -> Stages] /\ sent' \in [Tab -> Jar]
    BY <1>3, <2>1 DEF Restart, TypeOK
  <2>3. restarts' \in 0..MaxRestarts /\ sinceGC' \in 0..GCInterval
        /\ closed' \subseteq Id /\ live' \subseteq Id
    BY <1>3, SessionAssumption DEF Restart, TypeOK
  <2> QED BY <1>3, <2>2, <2>3 DEF Restart, TypeOK, loginVars
<1>4. ASSUME NEW k \in DOMAIN NoCookies, DropCookie(k) PROVE TypeOK'
  <2>1. cookies' \in Jar
    BY <1>4 DEF DropCookie, TypeOK, Jar, NoCookies
  <2> QED BY <1>4, <2>1 DEF DropCookie, TypeOK, loginVars, storeVars
<1>5. CASE UNCHANGED vars
  BY <1>5 DEF vars, loginVars, storeVars, TypeOK
<1> QED
  BY <1>1, <1>2, <1>3, <1>4, <1>5
-----------------------------------------------------------------------------
LEMMA TypePreserved == SessionInv /\ [Next]_vars => TypeOK'
  BY LoginTyped, RequestTyped, SurroundingsTyped DEF Next, SessionInv

\* Random values are new.
LEMMA FreshValues ==
  /\ \A t \in Tab, l \in Login : BeginLogin(t, l) => code[l] = "unborn"
  /\ \A t, session : \A s \in Id : Create(t, s, session) => grant[s] = None
<1>1. ASSUME NEW l \in Login PROVE l \in l..MaxLogins
  BY SessionAssumption DEF Login
<1>2. ASSUME NEW s \in Id PROVE s \in s..MaxSessions
  BY SessionAssumption DEF Id
<1> QED
  BY <1>1, <1>2 DEF BeginLogin, Create

\* The exchange, taken apart.
LEMMA ExchangeCases ==
  ASSUME SessionInv, NEW t \in Tab, Exchange(t)
  PROVE  LET l == url[t] IN
         /\ pc[t] = "exchange" /\ l \in Login /\ sent[t].state = l
         /\ UNCHANGED <<cookies, url, who, now, restarts>>
         /\ sent' = [sent EXCEPT ![t] = NoCookies]
         /\ code' = code \/ (code[l] = "issued" /\ code' = [code EXCEPT ![l] = "spent"])
         /\ \/ /\ pc' = [pc EXCEPT ![t] = "idle"]
               /\ got' = [got EXCEPT ![t] = None]
               /\ UNCHANGED storeVars
            \/ \E s \in Id, e \in Expiries :
                  /\ grant[s] = None
                  /\ grant' = [grant EXCEPT ![s] =
                        [login |-> l, user |-> who[l], roles |-> RolesOf[who[l]],
                         expires |-> e]]
                  /\ live' = live \union {s}
                  /\ got' = [got EXCEPT ![t] = s]
                  /\ pc' = [pc EXCEPT ![t] = "welcome"]
                  /\ code[l] = "issued" /\ code' = [code EXCEPT ![l] = "spent"]
                  /\ UNCHANGED <<sinceGC, closed>>
<1>1. pc[t] = "exchange" /\ url[t] \in Login /\ sent[t].state = url[t]
  BY DEF Exchange, SessionInv, TypeOK, TabInv, LoginsAreMatched
<1>2. CASE ExchangeFails(t)
  BY <1>1, <1>2 DEF Exchange, ExchangeFails, Spend, Finish, Reply, Go
<1>3. ASSUME Spend(t), NEW s \in Id, NEW e \in Expiries,
             Create(t, s, [login |-> url[t], user |-> who[url[t]],
                           roles |-> RolesOf[who[url[t]]], expires |-> e])
      PROVE  /\ grant[s] = None
             /\ grant' = [grant EXCEPT ![s] =
                   [login |-> url[t], user |-> who[url[t]], roles |-> RolesOf[who[url[t]]],
                    expires |-> e]]
             /\ live' = live \union {s}
             /\ got' = [got EXCEPT ![t] = s]
             /\ pc' = [pc EXCEPT ![t] = "welcome"]
             /\ sent' = [sent EXCEPT ![t] = NoCookies]
             /\ code[url[t]] = "issued" /\ code' = [code EXCEPT ![url[t]] = "spent"]
             /\ UNCHANGED <<sinceGC, closed>>
  BY <1>3, FreshValues DEF Create, Spend, Reply, Go
<1> QED
  BY <1>1, <1>2, <1>3 DEF Exchange
-----------------------------------------------------------------------------
(***************************************************************************)
(* The steps that make no session and end none.                            *)
(***************************************************************************)
Quiet == UNCHANGED <<grant, live, closed>>

\* Without a change of the store the store's part is kept as time passes, if
\* codes and users keep what they are.
LEMMA StoreKept ==
  ASSUME SessionInv, TypeOK', Quiet, now <= now',
         \A l \in Login : code[l] = "spent" => code'[l] = "spent" /\ who'[l] = who[l],
         \A l \in Login : code'[l] \in {"issued", "spent"} => who'[l] # None
  PROVE  /\ SessionsAreEarned'
         /\ \A s \in Made' : code'[grant'[s].login] = "spent"
         /\ live' \subseteq Made' /\ closed' \subseteq Made' /\ live' \intersect closed' = {}
         /\ \A s \in Made' : s \in (live \union closed)' \/ Expired(s)'
<1>1. Made' = Made
  BY DEF Quiet, Made
<1>2. \A s \in Made : grant[s] \in Session
  BY DEF Made, SessionInv, TypeOK
<1>3. SessionsAreEarned'
  BY <1>1, <1>2 DEF Quiet, SessionInv, SessionsAreEarned, Session
<1>4. \A s \in Made : Expired(s) => Expired(s)'
  <2>1. now \in Nat /\ now' \in Nat
    BY SessionAssumption DEF SessionInv, TypeOK
  <2>2. \A s \in Made : grant[s].expires \in Nat
    BY <1>2, SessionAssumption DEF Session
  <2> QED BY <2>1, <2>2 DEF Quiet, Expired
<1> QED
  BY <1>1, <1>2, <1>3, <1>4 DEF Quiet, SessionInv, Session

Matched(t) ==
    pc[t] = "exchange" =>
        sent[t].state = url[t] /\ sent[t].verifier = url[t] /\ sent[t].returnTo \in {url[t], None}

\* A tab that a step does not touch stays as it should be.
LEMMA TabKept ==
  ASSUME SessionInv, NEW x \in Tab,
         pc'[x] = pc[x], sent'[x] = sent[x], got'[x] = got[x], url' = url,
         url[x] # None => code'[url[x]] = code[url[x]],
         Made \subseteq Made'
  PROVE  TabInv(x)' /\ Matched(x)'
<1>1. TabInv(x) /\ Matched(x)
  BY DEF SessionInv, LoginsAreMatched, Matched
<1>2. JarIsConsistent(sent[x])'
  BY <1>1 DEF TabInv, JarIsConsistent
<1> QED
  BY <1>1, <1>2 DEF TabInv, Matched

\* A step of one tab that leaves store and logins alone.
LEMMA TabMoves ==
  ASSUME SessionInv, TypeOK', NEW t \in Tab, NEW stage, NEW jar, NEW g,
         pc' = [pc EXCEPT ![t] = stage],
         sent' = [sent EXCEPT ![t] = jar],
         got' = [got EXCEPT ![t] = g],
         UNCHANGED <<loginVars, grant>>,
         JarIsConsistent(jar), JarIsConsistent(cookies'),
         stage \notin {"idp", "welcome"},
         stage \in {"callback", "exchange"} => url[t] # None,
         stage = "exchange" =>
            code[url[t]] # "pending" /\ jar.state = url[t]
  PROVE  LoginsAreMatched' /\ JarIsConsistent(cookies)' /\ \A x \in Tab : TabInv(x)'
<1>1. Made' = Made /\ UNCHANGED <<url, code, who>>
  BY DEF Made, loginVars
<1>2. ASSUME NEW x \in Tab, x # t PROVE TabInv(x)' /\ Matched(x)'
  <2>1. pc'[x] = pc[x] /\ sent'[x] = sent[x] /\ got'[x] = got[x]
    BY <1>2 DEF SessionInv, TypeOK
  <2> QED BY <1>1, <2>1, TabKept
<1>3. pc'[t] = stage /\ sent'[t] = jar
  BY DEF SessionInv, TypeOK
<1>4. TabInv(t)
  BY DEF SessionInv
<1>5. JarIsConsistent(sent[t])'
  BY <1>1, <1>3 DEF JarIsConsistent
<1>6. TabInv(t)'
  BY <1>1, <1>3, <1>4, <1>5 DEF TabInv
<1>7. Matched(t)'
  BY <1>1, <1>3 DEF Matched, JarIsConsistent
<1>8. JarIsConsistent(cookies)'
  BY <1>1 DEF JarIsConsistent
<1> QED
  BY <1>2, <1>6, <1>7, <1>8 DEF LoginsAreMatched, Matched

LEMMA JarsOfRequests ==
  ASSUME SessionInv
  PROVE  /\ JarIsConsistent(NoCookies)
         /\ JarIsConsistent([cookies EXCEPT !.session = None])
         /\ JarIsConsistent([NoCookies EXCEPT !.session = cookies.session])
         /\ \A s \in Made : JarIsConsistent([NoCookies EXCEPT !.session = s])
<1>1. cookies \in Jar /\ JarIsConsistent(cookies)
  BY DEF SessionInv, TypeOK
<1> QED
  BY <1>1 DEF JarIsConsistent, NoCookies, Jar

\* The helpers, as TabMoves wants them.
LEMMA HelpersMove ==
  ASSUME TypeOK, NEW t \in Tab
  PROVE  /\ \A stage : Send(t, stage) =>
               /\ pc' = [pc EXCEPT ![t] = stage]
               /\ \E jar \in {[cookies EXCEPT !.session = None],
                              [NoCookies EXCEPT !.session = cookies.session]} :
                     sent' = [sent EXCEPT ![t] = jar]
               /\ got' = [got EXCEPT ![t] = got[t]]
         /\ \A stage : Reply(t, stage) =>
               /\ pc' = [pc EXCEPT ![t] = stage]
               /\ sent' = [sent EXCEPT ![t] = NoCookies]
         /\ Finish(t) =>
               /\ pc' = [pc EXCEPT ![t] = "idle"]
               /\ sent' = [sent EXCEPT ![t] = NoCookies]
               /\ got' = [got EXCEPT ![t] = None]
         /\ UNCHANGED sent => sent' = [sent EXCEPT ![t] = sent[t]]
         /\ UNCHANGED got => got' = [got EXCEPT ![t] = got[t]]
  BY DEF TypeOK, Send, Reply, Finish, Go

\* Steps that leave the store and the logins alone.
LEMMA QuietStep ==
  ASSUME SessionInv, NEW t \in Tab,
         \/ Reload(t) \/ Callback(t) \/ Welcome(t) \/ Ask(t)
         \/ Receive(t) \/ Logout(t) \/ Goodbye(t)
  PROVE  SessionInv'
<1> TypeOK BY DEF SessionInv
<1>0. TypeOK'
  BY TypePreserved DEF Next, LoginStep, SessionStep
<1>1. UNCHANGED <<loginVars, storeVars, now>> /\ Quiet
  BY DEF Reload, Callback, Welcome, Ask, Receive, Logout, Goodbye, storeVars, Quiet
<1>2. LoginsAreMatched' /\ JarIsConsistent(cookies)' /\ \A x \in Tab : TabInv(x)'
  <2> USE HelpersMove, JarsOfRequests, <1>0, <1>1
  <2>t. TabInv(t) /\ JarIsConsistent(cookies)
    BY DEF SessionInv
  <2>1. CASE Reload(t)
    BY <2>1, <2>t, TabMoves DEF Reload, storeVars
  <2>2. CASE Callback(t)
    <3>1. CASE Go(t, "exchange") /\ UNCHANGED <<sent, got>> /\ sent[t].state = url[t]
               /\ code[url[t]] # "pending"
      <4>1. JarIsConsistent(sent[t]) /\ url[t] # None
        BY <2>2, <2>t DEF Callback, TabInv
      <4>2. /\ pc' = [pc EXCEPT ![t] = "exchange"]
            /\ sent' = [sent EXCEPT ![t] = sent[t]]
            /\ got' = [got EXCEPT ![t] = got[t]]
            /\ UNCHANGED <<loginVars, grant>> /\ cookies' = cookies
        BY <2>2, <3>1 DEF Callback, Go, storeVars
      <4>3. JarIsConsistent(cookies')
        BY <4>2, <2>t
      <4>4. PICK jar, g : jar = sent[t] /\ g = got[t]
        OBVIOUS
      <4>5. /\ sent' = [sent EXCEPT ![t] = jar] /\ got' = [got EXCEPT ![t] = g]
            /\ JarIsConsistent(jar) /\ jar.state = url[t]
        BY <3>1, <4>1, <4>2, <4>4
      <4> HIDE HelpersMove, JarsOfRequests
      <4>6. url[t] # None /\ code[url[t]] # "pending" /\ "exchange" \notin {"idp", "welcome"}
        BY <3>1, <4>1
      <4> QED BY <1>0, <4>2, <4>3, <4>5, <4>6, TabMoves
    <3>2. CASE Finish(t)
      BY SMTT(30), <2>2, <2>t, <3>2, TabMoves DEF Callback, storeVars
    <3> QED BY <2>2, <3>1, <3>2 DEF Callback
  <2>3. CASE Welcome(t)
    <3>1. JarIsConsistent(cookies')
      BY <2>3, <2>t DEF Welcome, TabInv
    <3>2. /\ pc' = [pc EXCEPT ![t] = "idle"]
          /\ sent' = [sent EXCEPT ![t] = NoCookies]
          /\ got' = [got EXCEPT ![t] = None]
          /\ UNCHANGED <<loginVars, grant>>
      BY <2>3 DEF Welcome, storeVars
    <3> QED BY ZenonT(30), <3>1, <3>2, TabMoves
  <2>4. CASE Ask(t)
    BY SMTT(30), <2>4, <2>t, TabMoves DEF Ask, storeVars
  <2>5. CASE Receive(t)
    BY SMTT(30), <2>5, <2>t, TabMoves DEF Receive, storeVars
  <2>6. CASE Logout(t)
    BY SMTT(30), <2>6, <2>t, TabMoves DEF Logout, storeVars
  <2>7. CASE Goodbye(t)
    <3>1. JarIsConsistent(cookies')
      BY <2>7, <2>t DEF Goodbye
    <3>2. /\ pc' = [pc EXCEPT ![t] = "idle"]
          /\ sent' = [sent EXCEPT ![t] = NoCookies]
          /\ got' = [got EXCEPT ![t] = None]
          /\ UNCHANGED <<loginVars, grant>>
      BY <2>7 DEF Goodbye, storeVars
    <3> QED BY ZenonT(30), <3>1, <3>2, TabMoves
  <2> QED BY <2>1, <2>2, <2>3, <2>4, <2>5, <2>6, <2>7
<1>3. code' = code /\ who' = who /\ now <= now'
  BY <1>1, SessionAssumption DEF loginVars, TypeOK
<1>4. \A l \in Login : code'[l] \in {"issued", "spent"} => who'[l] # None
  BY <1>3 DEF SessionInv
<1> QED
  BY <1>0, <1>1, <1>2, <1>3, <1>4, StoreKept DEF SessionInv
-----------------------------------------------------------------------------
(***************************************************************************)
(* The steps that move a login.                                            *)
(***************************************************************************)
LEMMA BeginLoginInv ==
  ASSUME SessionInv, NEW t \in Tab, NEW l \in Login, BeginLogin(t, l)
  PROVE  SessionInv'
<1> TypeOK BY DEF SessionInv
<1>0. TypeOK'
  BY TypePreserved DEF Next, LoginStep
<1>1. /\ Quiet /\ Made' = Made /\ now' = now /\ who' = who
      /\ code[l] = "unborn" /\ code' = [code EXCEPT ![l] = "pending"]
      /\ url' = [url EXCEPT ![t] = l]
      /\ pc' = [pc EXCEPT ![t] = "idp"] /\ sent' = sent /\ got' = got
  BY FreshValues DEF BeginLogin, Quiet, Made, storeVars, Go
<1>2. \A x \in Tab : url[x] # l
  BY <1>1, SessionAssumption DEF SessionInv, TabInv, TypeOK
<1>3. ASSUME NEW x \in Tab, x # t PROVE TabInv(x)' /\ Matched(x)'
  <2>1. pc'[x] = pc[x] /\ sent'[x] = sent[x] /\ got'[x] = got[x] /\ url'[x] = url[x]
        /\ (url[x] # None => code'[url[x]] = code[url[x]] /\ url'[x] # url'[t])
    BY <1>1, <1>2, <1>3 DEF TypeOK
  <2>2. TabInv(x) /\ Matched(x)
    BY DEF SessionInv, LoginsAreMatched, Matched
  <2>3. JarIsConsistent(sent[x])'
    BY <1>1, <2>1, <2>2 DEF TabInv, JarIsConsistent
  <2>4. url'[x] # None => \A y \in Tab : url'[y] = url'[x] => y = x
    BY <1>1, <2>1, <2>2 DEF TabInv, TypeOK
  <2>5. Made' = Made
    BY <1>1
  <2> QED BY <2>1, <2>2, <2>3, <2>4, <2>5 DEF TabInv, Matched
<1>4. TabInv(t)' /\ Matched(t)'
  <2>1. pc'[t] = "idp" /\ url'[t] = l /\ code'[l] = "pending" /\ l # None
    BY <1>1, SessionAssumption DEF TypeOK
  <2>2. JarIsConsistent(sent[t])'
    BY <1>1 DEF SessionInv, TabInv, JarIsConsistent
  <2>3. \A y \in Tab : url'[y] = url'[t] => y = t
    BY <1>1, <1>2, <2>1 DEF TypeOK
  <2> QED BY <2>1, <2>2, <2>3 DEF TabInv, Matched
<1>5. JarIsConsistent(cookies)'
  BY <1>1 DEF BeginLogin, SessionInv, TypeOK, Jar, JarIsConsistent
<1>6. \A x \in Login : code[x] = "spent" => code'[x] = "spent" /\ who'[x] = who[x]
  BY <1>1 DEF TypeOK
<1>7. \A x \in Login : code'[x] \in {"issued", "spent"} => who'[x] # None
  BY <1>1 DEF TypeOK, SessionInv
<1>8. now <= now'
  BY <1>1, SessionAssumption DEF TypeOK
<1> QED
  BY <1>0, <1>1, <1>3, <1>4, <1>5, <1>6, <1>7, <1>8, StoreKept
     DEF SessionInv, LoginsAreMatched, Matched

LEMMA AuthenticateInv ==
  ASSUME SessionInv, NEW t \in Tab, Authenticate(t)
  PROVE  SessionInv'
<1> TypeOK BY DEF SessionInv
<1>0. TypeOK'
  BY TypePreserved DEF Next, LoginStep
<1>1. /\ Quiet /\ Made' = Made /\ now' = now /\ cookies' = cookies /\ url' = url
      /\ pc[t] = "idp" /\ url[t] \in Login /\ code[url[t]] = "pending"
      /\ pc' = [pc EXCEPT ![t] = "callback"] /\ got' = got
      /\ \/ \E u \in User : /\ who' = [who EXCEPT ![url[t]] = u]
                            /\ code' = [code EXCEPT ![url[t]] = "issued"]
         \/ who' = who /\ code' = code
  BY DEF Authenticate, Quiet, Made, storeVars, Send, Go, SessionInv, TabInv, TypeOK
<1>2. sent' = [sent EXCEPT ![t] = [cookies EXCEPT !.session = None]]
  BY DEF Authenticate, Send
<1>3. ASSUME NEW x \in Tab, x # t PROVE TabInv(x)' /\ Matched(x)'
  <2>1. pc'[x] = pc[x] /\ sent'[x] = sent[x] /\ got'[x] = got[x]
    BY <1>1, <1>2, <1>3 DEF TypeOK
  <2>2. url[x] # None => code'[url[x]] = code[url[x]]
    BY <1>1, <1>3 DEF TypeOK, SessionInv, TabInv
  <2> QED BY <1>1, <2>1, <2>2, TabKept
<1>4. TabInv(t)' /\ Matched(t)'
  <2>1. pc'[t] = "callback" /\ code'[url[t]] # "unborn"
    BY <1>1 DEF TypeOK
  <2>2. JarIsConsistent(sent[t])'
    <3>1. sent'[t] = [cookies EXCEPT !.session = None]
      BY <1>2 DEF TypeOK
    <3> QED BY <1>1, <3>1, JarsOfRequests DEF JarIsConsistent
  <2>3. TabInv(t)
    BY DEF SessionInv
  <2> QED BY <1>1, <2>1, <2>2, <2>3 DEF TabInv, Matched
<1>5. JarIsConsistent(cookies)'
  BY <1>1 DEF SessionInv, JarIsConsistent
<1>6. \A x \in Login : code[x] = "spent" => code'[x] = "spent" /\ who'[x] = who[x]
  BY <1>1 DEF TypeOK
<1>7. \A x \in Login : code'[x] \in {"issued", "spent"} => who'[x] # None
  BY <1>1, SessionAssumption DEF TypeOK, SessionInv
<1>8. now <= now'
  BY <1>1, SessionAssumption DEF TypeOK
<1> QED
  BY <1>0, <1>1, <1>3, <1>4, <1>5, <1>6, <1>7, <1>8, StoreKept
     DEF SessionInv, LoginsAreMatched, Matched

LEMMA ExchangeInv ==
  ASSUME SessionInv, NEW t \in Tab, Exchange(t)
  PROVE  SessionInv'
<1> TypeOK BY DEF SessionInv
<1> DEFINE l == url[t]
<1>0. TypeOK'
  BY TypePreserved DEF Next, LoginStep
<1>1. /\ pc[t] = "exchange" /\ l \in Login
      /\ UNCHANGED <<cookies, url, who, now, restarts>>
      /\ sent' = [sent EXCEPT ![t] = NoCookies]
      /\ code' = code \/ (code[l] = "issued" /\ code' = [code EXCEPT ![l] = "spent"])
  BY ExchangeCases
<1>2. /\ \A x \in Tab : x # t /\ url[x] # None => code'[url[x]] = code[url[x]]
      /\ code'[l] # "unborn"
      /\ \A x \in Login : code[x] = "spent" => code'[x] = "spent" /\ who'[x] = who[x]
      /\ \A x \in Login : code'[x] \in {"issued", "spent"} => who'[x] # None
  BY <1>1, SessionAssumption DEF SessionInv, TypeOK, TabInv
<1>3. now <= now'
  BY <1>1, SessionAssumption DEF TypeOK
\* What the two outcomes have in common.
<1>4. ASSUME NEW stage \in {"idle", "welcome"}, NEW g,
             pc' = [pc EXCEPT ![t] = stage], got' = [got EXCEPT ![t] = g],
             Made \subseteq Made', stage = "welcome" => g \in Made'
      PROVE  LoginsAreMatched' /\ JarIsConsistent(cookies)' /\ \A x \in Tab : TabInv(x)'
  <2>1. ASSUME NEW x \in Tab, x # t PROVE TabInv(x)' /\ Matched(x)'
    <3>1. pc'[x] = pc[x] /\ sent'[x] = sent[x] /\ got'[x] = got[x]
      BY <1>1, <1>4, <2>1 DEF TypeOK
    <3> QED BY <1>1, <1>2, <1>4, <2>1, <3>1, TabKept
  <2>2. pc'[t] = stage /\ got'[t] = g /\ sent'[t] = NoCookies /\ url' = url
    BY <1>1, <1>4 DEF TypeOK
  <2>3. TabInv(t)
    BY DEF SessionInv
  <2>4. JarIsConsistent(sent[t])'
    BY <2>2 DEF JarIsConsistent, NoCookies
  <2>5. TabInv(t)' /\ Matched(t)'
    BY <1>2, <1>4, <2>2, <2>3, <2>4 DEF TabInv, Matched
  <2>6. JarIsConsistent(cookies)'
    BY <1>1, <1>4 DEF SessionInv, JarIsConsistent
  <2> QED BY <2>1, <2>5, <2>6 DEF LoginsAreMatched, Matched
<1>5. CASE /\ pc' = [pc EXCEPT ![t] = "idle"]
           /\ got' = [got EXCEPT ![t] = None]
           /\ UNCHANGED storeVars
  <2>1. Quiet /\ Made' = Made
    BY <1>5 DEF Quiet, storeVars, Made
  <2>2. LoginsAreMatched' /\ JarIsConsistent(cookies)' /\ \A x \in Tab : TabInv(x)'
    BY <1>4, <1>5, <2>1
  <2> QED BY <1>0, <1>2, <1>3, <2>1, <2>2, StoreKept DEF SessionInv
<1>6. ASSUME NEW s \in Id, NEW e \in Expiries,
             /\ grant[s] = None
             /\ grant' = [grant EXCEPT ![s] =
                   [login |-> l, user |-> who[l], roles |-> RolesOf[who[l]], expires |-> e]]
             /\ live' = live \union {s}
             /\ got' = [got EXCEPT ![t] = s]
             /\ pc' = [pc EXCEPT ![t] = "welcome"]
             /\ code[l] = "issued" /\ code' = [code EXCEPT ![l] = "spent"]
             /\ UNCHANGED <<sinceGC, closed>>
      PROVE  SessionInv'
  <2>1. s \notin Made /\ Made' = Made \union {s} /\ \A x \in Made : grant'[x] = grant[x]
    <3>1. [login |-> l, user |-> who[l], roles |-> RolesOf[who[l]], expires |-> e] # None
      <4>1. who[l] \in User
        BY <1>1, <1>6 DEF SessionInv, TypeOK
      <4> QED BY <1>1, <1>6, <4>1, SessionAssumption DEF Session
    <3> QED BY <1>6, <3>1 DEF Made, TypeOK
  <2>2. grant'[s].login = l /\ grant'[s].user = who[l] /\ grant'[s].roles = RolesOf[who[l]]
        /\ code'[l] = "spent"
    BY <1>1, <1>6 DEF TypeOK
  <2>3. LoginsAreMatched' /\ JarIsConsistent(cookies)' /\ \A x \in Tab : TabInv(x)'
    BY <1>4, <1>6, <2>1
  <2>4. \A x \in Made : code[grant[x].login] = "spent" /\ grant[x].login \in Login
    BY DEF SessionInv, TypeOK, Made, Session
  <2>5. SessionsAreEarned'
    <3>1. \A x \in Made : grant[x].login # l
      BY <1>6, <2>4
    <3> QED BY <1>1, <2>1, <2>2, <2>4, <3>1 DEF SessionsAreEarned, SessionInv
  <2>6. \A x \in Made' : code'[grant'[x].login] = "spent"
    BY <1>2, <2>1, <2>2, <2>4
  <2>7. live' \subseteq Made' /\ closed' \subseteq Made' /\ live' \intersect closed' = {}
    BY <1>6, <2>1 DEF SessionInv
  <2>8. \A x \in Made' : x \in (live \union closed)' \/ Expired(x)'
    BY <1>1, <1>6, <2>1 DEF SessionInv, Expired
  <2> QED BY <1>0, <1>2, <2>3, <2>5, <2>6, <2>7, <2>8 DEF SessionInv
<1> QED
  BY <1>5, <1>6, ExchangeCases
-----------------------------------------------------------------------------
(***************************************************************************)
(* The steps that may end sessions.                                        *)
(***************************************************************************)
LEMMA StoreEnds ==
  ASSUME SessionInv, UNCHANGED <<grant, loginVars>>, now' \in Nat, now <= now',
         live' \subseteq live \ closed',
         closed \subseteq closed', closed' \subseteq closed \union Made,
         \A s \in live : s \in live' \/ s \in closed' \/ Expired(s)
  PROVE  /\ Made' = Made
         /\ SessionsAreEarned'
         /\ \A l \in Login : code'[l] \in {"issued", "spent"} => who'[l] # None
         /\ \A s \in Made' : code'[grant'[s].login] = "spent"
         /\ live' \subseteq Made' /\ closed' \subseteq Made' /\ live' \intersect closed' = {}
         /\ \A s \in Made' : s \in (live \union closed)' \/ Expired(s)'
<1>1. Made' = Made /\ code' = code /\ who' = who
  BY DEF Made, loginVars
<1>2. SessionsAreEarned'
  BY <1>1 DEF SessionInv, SessionsAreEarned
<1>3. \A s \in Made : Expired(s) => Expired(s)'
  <2>1. now \in Nat
    BY SessionAssumption DEF SessionInv, TypeOK
  <2>2. \A s \in Made : grant[s].expires \in Nat
    BY SessionAssumption DEF Session, Made, SessionInv, TypeOK
  <2> QED BY <2>1, <2>2 DEF Expired
<1>4. live \subseteq Made /\ closed \subseteq Made
      /\ \A s \in Made : s \in live \union closed \/ Expired(s)
  BY DEF SessionInv
<1> QED
  BY <1>1, <1>2, <1>3, <1>4 DEF SessionInv

LEMMA ResolveInv ==
  ASSUME SessionInv, NEW t \in Tab, Resolve(t)
  PROVE  SessionInv'
<1> TypeOK BY DEF SessionInv
<1>0. TypeOK'
  BY TypePreserved DEF Next, SessionStep
<1>1. /\ UNCHANGED <<grant, loginVars>> /\ now' = now /\ closed' = closed /\ cookies' = cookies
      /\ live' \subseteq live /\ \A s \in live : s \in live' \/ Expired(s)
  BY DEF Resolve, Swept
<1>2. now \in Nat
  BY SessionAssumption DEF TypeOK
<1>3. PICK stage \in {"anonymous", "served", "forbidden"} : Reply(t, stage) /\ got' = got
  BY DEF Resolve
<1>4. LoginsAreMatched' /\ JarIsConsistent(cookies)' /\ \A x \in Tab : TabInv(x)'
  <2>1. JarIsConsistent(cookies')
    BY <1>1 DEF SessionInv
  <2>2. /\ pc' = [pc EXCEPT ![t] = stage]
        /\ sent' = [sent EXCEPT ![t] = NoCookies]
        /\ got' = [got EXCEPT ![t] = got[t]]
    BY <1>3, HelpersMove
  <2>3. PICK g : g = got[t]
    OBVIOUS
  <2>4. UNCHANGED <<loginVars, grant>>
    BY <1>1
  <2> QED BY <1>0, <1>3, <2>1, <2>2, <2>3, <2>4, JarsOfRequests, TabMoves
<1>5. live \intersect closed = {}
  BY DEF SessionInv
<1> QED
  BY <1>0, <1>1, <1>2, <1>4, <1>5, StoreEnds DEF SessionInv

LEMMA EndSessionInv ==
  ASSUME SessionInv, NEW t \in Tab, EndSession(t)
  PROVE  SessionInv'
<1> TypeOK BY DEF SessionInv
<1>0. TypeOK'
  BY TypePreserved DEF Next, SessionStep
<1>1. /\ UNCHANGED <<grant, loginVars>> /\ now' = now /\ cookies' = cookies
      /\ live' = live \ {sent[t].session}
      /\ closed' = closed \union ({sent[t].session} \ {None})
      /\ Reply(t, "goodbye") /\ got' = got
  BY DEF EndSession
<1>2. now \in Nat
  BY SessionAssumption DEF TypeOK
<1>3. LoginsAreMatched' /\ JarIsConsistent(cookies)' /\ \A x \in Tab : TabInv(x)'
  <2>1. JarIsConsistent(cookies')
    BY <1>1 DEF SessionInv
  <2>2. /\ pc' = [pc EXCEPT ![t] = "goodbye"]
        /\ sent' = [sent EXCEPT ![t] = NoCookies]
        /\ got' = [got EXCEPT ![t] = got[t]]
    BY <1>1, HelpersMove
  <2>3. PICK stage, g : stage = "goodbye" /\ g = got[t]
    OBVIOUS
  <2>4. UNCHANGED <<loginVars, grant>>
    BY <1>1
  <2>5. /\ pc' = [pc EXCEPT ![t] = stage]
        /\ got' = [got EXCEPT ![t] = g]
        /\ stage \notin {"idp", "welcome", "callback", "exchange"}
    BY <2>2, <2>3
  <2>6. JarIsConsistent(NoCookies)
    BY JarsOfRequests
  <2> QED BY <1>0, <2>1, <2>2, <2>4, <2>5, <2>6, TabMoves
<1>4. sent[t].session \in Made \union {None} /\ live \intersect closed = {} /\ live \subseteq Id
  BY DEF SessionInv, TabInv, JarIsConsistent, TypeOK
<1>5. /\ live' \subseteq live \ closed'
      /\ closed \subseteq closed' /\ closed' \subseteq closed \union Made
      /\ \A s \in live : s \in live' \/ s \in closed'
  <2>1. None \notin live
    BY <1>4, SessionAssumption
  <2> QED BY <1>1, <1>4, <2>1
<1> QED
  BY <1>0, <1>1, <1>2, <1>3, <1>5, StoreEnds DEF SessionInv

LEMMA SurroundingsInv ==
  ASSUME SessionInv, \/ OthersAsk \/ Tick \/ Restart \/ UNCHANGED vars
                     \/ \E k \in DOMAIN NoCookies : DropCookie(k)
  PROVE  SessionInv'
<1> TypeOK BY DEF SessionInv
<1>0. TypeOK'
  BY SurroundingsTyped
<1>1. now \in Nat /\ now' \in Nat /\ now <= now'
  BY SessionAssumption DEF TypeOK, OthersAsk, Tick, Restart, DropCookie, vars
<1>2. /\ UNCHANGED <<grant, loginVars, got>>
      /\ live' \subseteq live \ closed'
      /\ closed \subseteq closed' /\ closed' \subseteq closed \union Made
      /\ \A s \in live : s \in live' \/ s \in closed' \/ Expired(s)
  BY DEF SessionInv, OthersAsk, Swept, Tick, Restart, DropCookie, vars, loginVars, storeVars
<1>3. \A x \in Tab : \/ pc'[x] = pc[x] /\ sent'[x] = sent[x]
                     \/ pc'[x] = "idle" /\ sent'[x] = NoCookies
  BY DEF OthersAsk, Tick, Restart, DropCookie, vars, TypeOK
<1>4. Made' = Made /\ url' = url /\ code' = code /\ got' = got
  BY <1>2 DEF Made, loginVars
<1>5. ASSUME NEW x \in Tab PROVE TabInv(x)' /\ Matched(x)'
  <2>1. CASE pc'[x] = pc[x] /\ sent'[x] = sent[x]
    BY <1>4, <2>1, TabKept
  <2>2. CASE pc'[x] = "idle" /\ sent'[x] = NoCookies
    <3>1. JarIsConsistent(sent[x])'
      BY <2>2 DEF JarIsConsistent, NoCookies
    <3>2. TabInv(x)
      BY DEF SessionInv
    <3> QED BY <1>4, <2>2, <3>1, <3>2 DEF TabInv, Matched
  <2> QED BY <1>3, <2>1, <2>2
<1>6. JarIsConsistent(cookies)'
  <2>1. CASE cookies' = cookies
    BY <1>4, <2>1 DEF JarIsConsistent, SessionInv
  <2>2. ASSUME NEW k \in DOMAIN NoCookies, DropCookie(k)
        PROVE  JarIsConsistent(cookies)'
    BY <1>4, <2>2 DEF DropCookie, NoCookies, JarIsConsistent, SessionInv, TypeOK, Jar
  <2> QED BY <2>1, <2>2 DEF OthersAsk, Tick, Restart, vars
<1> QED
  BY <1>0, <1>1, <1>2, <1>5, <1>6, StoreEnds DEF SessionInv, LoginsAreMatched, Matched

LEMMA InvPreserved == SessionInv /\ [Next]_vars => SessionInv'
  BY QuietStep, BeginLoginInv, AuthenticateInv, ExchangeInv, ResolveInv, EndSessionInv,
     SurroundingsInv
     DEF Next, LoginStep, SessionStep

LEMMA InvInit == Init => SessionInv
<1> SUFFICES ASSUME Init PROVE SessionInv
  OBVIOUS
<1>1. TypeOK
  BY InitTyped
<1>2. Made = {}
  BY DEF Init, Made
<1>3. JarIsConsistent(NoCookies)
  BY DEF JarIsConsistent, NoCookies
<1> QED
  BY <1>1, <1>2, <1>3 DEF Init, SessionInv, LoginsAreMatched, SessionsAreEarned, TabInv
-----------------------------------------------------------------------------
(***************************************************************************)
(* The theorems.                                                           *)
(***************************************************************************)
\* handleLogin, handleCallback, handleLogout and the session store, for any
\* number of tabs and logins: cookies, codes and sessions fit together.
THEOREM SessionInvariance == Spec => []SessionInv
  BY InvInit, InvPreserved, PTL DEF Spec

\* handleCallback exchanges a code only with the cookies of the login it
\* belongs to.
THEOREM LoginsMatched == Spec => []LoginsAreMatched
<1>1. SessionInv => LoginsAreMatched
  BY DEF SessionInv
<1> QED
  BY <1>1, SessionInvariance, PTL

\* A stored session speaks for the user of the one login that made it.
THEOREM SessionsEarned == Spec => []SessionsAreEarned
<1>1. SessionInv => SessionsAreEarned
  BY DEF SessionInv
<1> QED
  BY <1>1, SessionInvariance, PTL

\* Only Resolve answers a request, and it answers by what the map has left.
LEMMA Answers ==
  ASSUME SessionInv, [Next]_vars, NEW t \in Tab, pc[t] = "ask",
         pc'[t] \in Served \union {"anonymous"}
  PROVE  LET s == sent[t].session IN
         /\ s \in Made \union {None}
         /\ IF s = None
            THEN pc'[t] = "anonymous"
            ELSE /\ live' = live \ (Swept \union {x \in live \intersect {s} : Expired(x)})
                 /\ pc'[t] = IF s \notin live' THEN "anonymous"
                             ELSE IF Authorize(grant[s].roles) THEN "served" ELSE "forbidden"
<1> TypeOK BY DEF SessionInv
<1>1. sent[t].session \in Made \union {None}
  BY DEF SessionInv, TabInv, JarIsConsistent
<1>2. pc'[t] # pc[t] /\ pc'[t] # "idle"
  BY DEF Served
<1>3. Resolve(t)
  <2>1. ASSUME NEW x \in Tab, LoginStep(x) \/ SessionStep(x) PROVE x = t
    <3>1. \E stage : pc' = [pc EXCEPT ![x] = stage]
      BY <2>1 DEF LoginStep, SessionStep, BeginLogin, Authenticate, Reload, Callback, Exchange,
                  ExchangeFails, Create, Welcome, Ask, Resolve, Receive, Logout, EndSession,
                  Goodbye, Send, Reply, Finish, Go
    <3> QED BY <1>2, <3>1 DEF TypeOK
  <2>2. ~(OthersAsk \/ Tick \/ Restart \/ UNCHANGED vars
          \/ \E k \in DOMAIN NoCookies : DropCookie(k))
    BY <1>2 DEF OthersAsk, Tick, Restart, vars, DropCookie
  <2>3. LoginStep(t) \/ SessionStep(t)
    BY <2>1, <2>2 DEF Next
  <2> QED BY <2>3 DEF LoginStep, SessionStep, BeginLogin, Authenticate, Reload, Callback, Exchange,
                      Welcome, Ask, Receive, Logout, EndSession, Goodbye, Served
<1>4. CASE sent[t].session = None
  BY <1>1, <1>3, <1>4 DEF Resolve, Reply, Go, TypeOK
<1>5. CASE sent[t].session # None
  BY <1>1, <1>3, <1>5 DEF Resolve, Reply, Go, TypeOK
<1> QED
  BY <1>4, <1>5

\* What a served request found: its session was made, is in force, and keeps
\* the roles of the token.
LEMMA ServedAnswer ==
  ASSUME SessionInv, [Next]_vars, NEW t \in Tab, pc[t] = "ask", pc'[t] \in Served
  PROVE  LET s == sent[t].session IN
         /\ s \in Made /\ InForce(s)
         /\ pc'[t] = "served" <=> Authorize(grant[s].roles)
<1> DEFINE s == sent[t].session
<1>1. s # None /\ s \in Made /\ pc'[t] # "anonymous"
  BY Answers DEF Served
<1>2. /\ live' = live \ (Swept \union {x \in live \intersect {s} : Expired(x)})
      /\ pc'[t] = IF s \notin live' THEN "anonymous"
                  ELSE IF Authorize(grant[s].roles) THEN "served" ELSE "forbidden"
  BY <1>1, Answers
<1>3. s \in live /\ ~Expired(s)
  BY <1>1, <1>2
<1>4. s \notin closed
  BY <1>3 DEF SessionInv
<1> QED
  BY <1>1, <1>2, <1>3, <1>4 DEF InForce

\* MemoryStore.Get and handleLogout: nobody is served for a session that is
\* over, whenever the sweep runs.
THEOREM AnswersInForce == Spec => AnsweredInForce
<1>1. ASSUME SessionInv, [Next]_vars, NEW t \in Tab, pc[t] = "ask", pc'[t] \in Served
      PROVE  InForce(sent[t].session)
  BY <1>1, ServedAnswer
<1>2. SessionInv /\ [Next]_vars =>
         [\A t \in Tab : pc[t] = "ask" /\ pc'[t] \in Served => InForce(sent[t].session)]_vars
  BY <1>1
<1> QED
  BY <1>2, SessionInvariance, PTL DEF Spec, AnsweredInForce

\* gcLocked and Get take no session away that is in force.
THEOREM ForceHonoured == Spec => ForceIsHonoured
<1>1. ASSUME SessionInv, [Next]_vars, NEW t \in Tab, pc[t] = "ask", pc'[t] = "anonymous"
      PROVE  ~InForce(sent[t].session)
  <2> DEFINE s == sent[t].session
  <2> SUFFICES ASSUME s # None PROVE s \in closed \/ Expired(s)
    BY DEF InForce
  <2>1. /\ s \in Made
        /\ live' = live \ (Swept \union {x \in live \intersect {s} : Expired(x)})
        /\ pc'[t] = IF s \notin live' THEN "anonymous"
                    ELSE IF Authorize(grant[s].roles) THEN "served" ELSE "forbidden"
    BY <1>1, Answers
  <2>2. s \notin live'
    BY <1>1, <2>1
  <2>3. s \notin live \/ Expired(s)
    BY <2>1, <2>2 DEF Swept
  <2>4. \A x \in Made : x \in live \union closed \/ Expired(x)
    BY <1>1 DEF SessionInv
  <2> QED BY <2>1, <2>3, <2>4
<1>2. SessionInv /\ [Next]_vars =>
         [\A t \in Tab : pc[t] = "ask" /\ pc'[t] = "anonymous" => ~InForce(sent[t].session)]_vars
  BY <1>1
<1> QED
  BY <1>2, SessionInvariance, PTL DEF Spec, ForceIsHonoured

\* Session.Roles decides as the roles of the ID token would.
THEOREM RolesDecide == Spec => RolesSurvive
<1>1. ASSUME SessionInv, [Next]_vars, NEW t \in Tab, pc[t] = "ask", pc'[t] \in Served
      PROVE  pc'[t] = "served" <=> Authorize(RolesOf[who[grant[sent[t].session].login]])
  <2>1. /\ sent[t].session \in Made
        /\ pc'[t] = "served" <=> Authorize(grant[sent[t].session].roles)
    BY <1>1, ServedAnswer
  <2>2. grant[sent[t].session].roles = RolesOf[who[grant[sent[t].session].login]]
    BY <1>1, <2>1 DEF SessionInv, SessionsAreEarned
  <2> QED BY <2>1, <2>2
<1>2. SessionInv /\ [Next]_vars =>
         [\A t \in Tab : pc[t] = "ask" /\ pc'[t] \in Served =>
             (pc'[t] = "served" <=> Authorize(RolesOf[who[grant[sent[t].session].login]]))]_vars
  BY <1>1
<1> QED
  BY <1>2, SessionInvariance, PTL DEF Spec, RolesSurvive
=============================================================================
