------------------------------- MODULE Session -------------------------------
(***************************************************************************)
(* Logging in and being logged in (auth/oauth.go, auth/oidc.go,            *)
(* auth/authz.go, session/memory.go): the tabs of one browser share its    *)
(* cookies; each has a request of its own under way, which carries the     *)
(* cookies as they were when it was sent.  The control plane keeps its     *)
(* sessions in memory; what it needs between the two halves of a login is  *)
(* in the cookies.                                                         *)
(***************************************************************************)
EXTENDS Naturals

CONSTANTS Tab,            \* the browser's tabs
          MaxLogins,      \* bound: attempts to log in, each with its random state
          MaxSessions,    \* bound: session ids
          User,           \* who may prove to be whom at the identity provider
          RolesOf,        \* the roles claim of a user's tokens
          RequiredRoles,  \* the platform's any-of requirement, {} for none
          None,           \* no cookie, no login, nobody
          Expiries,       \* moments at which an ID token may expire
          MaxTime,        \* bound: the clock stands still there
          GCInterval,     \* the sweep runs once in so many ticks
          MaxRestarts     \* bound: restarts of the control plane

\* Random values are told apart only, and numbered as they are made.
Login == 1..MaxLogins
Id == 1..MaxSessions

Session == [login : Login, user : User, roles : {RolesOf[u] : u \in User}, expires : Expiries]

ASSUME SessionAssumption ==
    /\ MaxLogins \in Nat
    /\ MaxSessions \in Nat
    /\ None \notin Login \union Id \union User \union Session
    /\ Expiries \subseteq Nat
    /\ MaxTime \in Nat
    /\ GCInterval \in Nat
    /\ MaxRestarts \in Nat

VARIABLES cookies,   \* the browser's cookies
          pc,        \* pc[t]: what tab t is waiting for, or its request comes to next
          url,       \* url[t]: the login whose callback URL the tab has been sent to
          sent,      \* sent[t]: the cookies of the request under way
          got,       \* got[t]: the id of the session the request made
          code,      \* code[l]: the authorization code of login l
          who,       \* who[l]: who proved to be whom in login l
          grant,     \* grant[s]: what was stored under id s when it was made
          live,      \* the ids in the session map
          now,       \* the clock
          sinceGC,   \* ticks since the last sweep
          closed,    \* history: ids that a logout or a restart has ended
          restarts   \* restarts so far

loginVars == <<url, code, who>>
storeVars == <<grant, live, sinceGC, closed>>
vars == <<cookies, pc, sent, got, now, restarts, loginVars, storeVars>>

Jar == [state : Login \union {None}, verifier : Login \union {None},
        returnTo : Login \union {None}, session : Id \union {None}]

NoCookies == [state |-> None, verifier |-> None, returnTo |-> None, session |-> None]

Served == {"served", "forbidden"}
InServer == {"callback", "exchange", "ask", "logout"}
Stages == {"idle", "idp", "welcome", "goodbye", "anonymous"} \union Served \union InServer

TypeOK ==
    /\ cookies \in Jar
    /\ pc \in [Tab -> Stages]
    /\ url \in [Tab -> Login \union {None}]
    /\ sent \in [Tab -> Jar]
    /\ got \in [Tab -> Id \union {None}]
    /\ code \in [Login -> {"unborn", "pending", "issued", "spent"}]
    /\ who \in [Login -> User \union {None}]
    /\ grant \in [Id -> Session \union {None}]
    /\ live \subseteq Id
    /\ now \in 0..MaxTime
    /\ sinceGC \in 0..GCInterval
    /\ closed \subseteq Id
    /\ restarts \in 0..MaxRestarts

\* lastGC is the zero time at first: the first lookup sweeps.
Init ==
    /\ cookies = NoCookies
    /\ pc = [t \in Tab |-> "idle"]
    /\ url = [t \in Tab |-> None]
    /\ sent = [t \in Tab |-> NoCookies]
    /\ got = [t \in Tab |-> None]
    /\ code = [l \in Login |-> "unborn"]
    /\ who = [l \in Login |-> None]
    /\ grant = [s \in Id |-> None]
    /\ live = {}
    /\ now = 0
    /\ sinceGC = GCInterval
    /\ closed = {}
    /\ restarts = 0
-----------------------------------------------------------------------------
Go(t, stage) == pc' = [pc EXCEPT ![t] = stage]

\* The browser sends a request with the cookies it has now; kept are those
\* that the handler reads.
Send(t, stage) ==
    /\ Go(t, stage)
    /\ sent' = [sent EXCEPT ![t] =
          IF stage = "callback" THEN [cookies EXCEPT !.session = None]
                                ELSE [NoCookies EXCEPT !.session = cookies.session]]
    /\ UNCHANGED got

\* The handler has read its cookies; what is left is to answer.
Reply(t, stage) ==
    /\ Go(t, stage)
    /\ sent' = [sent EXCEPT ![t] = NoCookies]

Finish(t) ==
    /\ Reply(t, "idle")
    /\ got' = [got EXCEPT ![t] = None]
-----------------------------------------------------------------------------
(***************************************************************************)
(* A login: handleLogin, the identity provider, handleCallback.            *)
(***************************************************************************)
\* The three cookies of a login replace those of an earlier one.
BeginLogin(t, l) ==
    /\ pc[t] = "idle"
    /\ {x \in Login : code[x] = "unborn"} = l..MaxLogins
    /\ code' = [code EXCEPT ![l] = "pending"]
    /\ url' = [url EXCEPT ![t] = l]
    /\ cookies' = [cookies EXCEPT !.state = l, !.verifier = l, !.returnTo = l]
    /\ Go(t, "idp")
    /\ UNCHANGED <<sent, got, who, now, restarts, storeVars>>

\* The provider sends the browser to the callback with a code, or without one.
Authenticate(t) ==
    /\ pc[t] = "idp"
    /\ \/ \E u \in User :
             /\ who' = [who EXCEPT ![url[t]] = u]
             /\ code' = [code EXCEPT ![url[t]] = "issued"]
       \/ UNCHANGED <<who, code>>
    /\ Send(t, "callback")
    /\ UNCHANGED <<cookies, url, now, restarts, storeVars>>

\* The user reloads the callback URL, or comes back to it.
Reload(t) ==
    /\ pc[t] = "idle"
    /\ url[t] # None
    /\ Send(t, "callback")
    /\ UNCHANGED <<cookies, now, restarts, loginVars, storeVars>>

\* Mutant: the state is looked for, and not compared.
CallbackOfAnyState(t) ==
    /\ pc[t] = "callback"
    /\ IF sent[t].state # None /\ sent[t].verifier # None /\ code[url[t]] # "pending"
       THEN Go(t, "exchange") /\ UNCHANGED <<sent, got>>
       ELSE Finish(t)
    /\ UNCHANGED <<cookies, now, restarts, loginVars, storeVars>>

\* The checks before the exchange: the state of the URL is that of the cookie,
\* there is a verifier, and a code.
Callback(t) ==
    /\ pc[t] = "callback"
    /\ IF sent[t].state = url[t] /\ sent[t].verifier # None /\ code[url[t]] # "pending"
       THEN Go(t, "exchange") /\ UNCHANGED <<sent, got>>
       ELSE Finish(t)
    /\ UNCHANGED <<cookies, now, restarts, loginVars, storeVars>>

\* The provider takes a code once, and with the verifier of its own challenge.
Spend(t) ==
    /\ code[url[t]] = "issued"
    /\ sent[t].verifier = url[t]
    /\ code' = [code EXCEPT ![url[t]] = "spent"]

\* sessions.Create under a new random id; the token says who it is and when it
\* expires.
Create(t, s, session) ==
    /\ {x \in Id : grant[x] = None} = s..MaxSessions
    /\ grant' = [grant EXCEPT ![s] = session]
    /\ live' = live \union {s}
    /\ got' = [got EXCEPT ![t] = s]
    /\ Reply(t, "welcome")
    /\ UNCHANGED <<sinceGC, closed>>

\* The exchange or the check of the token fails, before or after the code is
\* spent.
ExchangeFails(t) ==
    /\ Spend(t) \/ UNCHANGED code
    /\ Finish(t)
    /\ UNCHANGED storeVars

\* Mutant: the session does not keep the roles.
ExchangeWithoutRoles(t) ==
    /\ pc[t] = "exchange"
    /\ \/ /\ Spend(t)
          /\ \E s \in Id, e \in Expiries :
                Create(t, s, [login |-> url[t], user |-> who[url[t]],
                              roles |-> {}, expires |-> e])
       \/ ExchangeFails(t)
    /\ UNCHANGED <<cookies, url, who, now, restarts>>

Exchange(t) ==
    /\ pc[t] = "exchange"
    /\ \/ /\ Spend(t)
          /\ \E s \in Id, e \in Expiries :
                Create(t, s, [login |-> url[t], user |-> who[url[t]],
                              roles |-> RolesOf[who[url[t]]], expires |-> e])
       \/ ExchangeFails(t)
    /\ UNCHANGED <<cookies, url, who, now, restarts>>

\* The response sets the session's cookie and takes the login's, whichever
\* login's they are by now; or it is lost on its way.
Welcome(t) ==
    /\ pc[t] = "welcome"
    /\ cookies' \in {cookies, [NoCookies EXCEPT !.session = got[t]]}
    /\ Finish(t)
    /\ UNCHANGED <<now, restarts, loginVars, storeVars>>
-----------------------------------------------------------------------------
(***************************************************************************)
(* Requests with a session: MemoryStore.Get under Verifier.resolve,        *)
(* Middleware, handleMe; handleLogout.                                     *)
(***************************************************************************)
Expired(s) == now > grant[s].expires

\* Mutant: a session is swept in the moment in which it is still valid.
SweptEarly ==
    IF sinceGC >= GCInterval THEN {s \in live : now >= grant[s].expires} ELSE {}

\* gcLocked, within every Get.
Swept == IF sinceGC >= GCInterval THEN {s \in live : Expired(s)} ELSE {}

GC == sinceGC' = IF sinceGC >= GCInterval THEN 0 ELSE sinceGC

\* Policy.Authorize
Authorize(roles) == RequiredRoles = {} \/ RequiredRoles \intersect roles # {}

Ask(t) ==
    /\ pc[t] = "idle"
    /\ Send(t, "ask")
    /\ UNCHANGED <<cookies, now, restarts, loginVars, storeVars>>

\* Mutant: what the sweep has left is taken to be valid.
ResolveSwept(t) ==
    LET s == sent[t].session IN
    /\ pc[t] = "ask"
    /\ IF s = None
       THEN Reply(t, "anonymous") /\ UNCHANGED <<live, sinceGC>>
       ELSE /\ GC
            /\ live' = live \ Swept
            /\ Reply(t, IF s \notin live \ Swept THEN "anonymous"
                        ELSE IF Authorize(grant[s].roles) THEN "served" ELSE "forbidden")
    /\ UNCHANGED <<cookies, got, now, restarts, loginVars, grant, closed>>

\* Without a cookie the store is not asked.
Resolve(t) ==
    LET s == sent[t].session IN
    /\ pc[t] = "ask"
    /\ IF s = None
       THEN Reply(t, "anonymous") /\ UNCHANGED <<live, sinceGC>>
       ELSE /\ GC
            /\ live' = live \ (Swept \union {x \in live \intersect {s} : Expired(x)})
            /\ Reply(t, IF s \notin live' THEN "anonymous"
                        ELSE IF Authorize(grant[s].roles) THEN "served" ELSE "forbidden")
    /\ UNCHANGED <<cookies, got, now, restarts, loginVars, grant, closed>>

Receive(t) ==
    /\ pc[t] \in Served \union {"anonymous"}
    /\ Finish(t)
    /\ UNCHANGED <<cookies, now, restarts, loginVars, storeVars>>

\* A request of somebody else, with an id that is not in the map.
OthersAsk ==
    /\ GC
    /\ live' = live \ Swept
    /\ UNCHANGED <<cookies, pc, sent, got, now, restarts, loginVars, grant, closed>>

Logout(t) ==
    /\ pc[t] = "idle"
    /\ Send(t, "logout")
    /\ UNCHANGED <<cookies, now, restarts, loginVars, storeVars>>

\* Mutant: only the cookie is taken away.
ForgetCookie(t) ==
    /\ pc[t] = "logout"
    /\ closed' = closed \union ({sent[t].session} \ {None})
    /\ Reply(t, "goodbye")
    /\ UNCHANGED <<cookies, got, now, restarts, loginVars, grant, live, sinceGC>>

EndSession(t) ==
    /\ pc[t] = "logout"
    /\ live' = live \ {sent[t].session}
    /\ closed' = closed \union ({sent[t].session} \ {None})
    /\ Reply(t, "goodbye")
    /\ UNCHANGED <<cookies, got, now, restarts, loginVars, grant, sinceGC>>

\* The response takes whichever session cookie the browser has by now.
Goodbye(t) ==
    /\ pc[t] = "goodbye"
    /\ cookies' \in {cookies, [cookies EXCEPT !.session = None]}
    /\ Finish(t)
    /\ UNCHANGED <<now, restarts, loginVars, storeVars>>
-----------------------------------------------------------------------------
(***************************************************************************)
(* Time and restarts.                                                      *)
(***************************************************************************)
Tick ==
    /\ now' = IF now < MaxTime THEN now + 1 ELSE now
    /\ sinceGC' = IF sinceGC < GCInterval THEN sinceGC + 1 ELSE sinceGC
    /\ UNCHANGED <<cookies, pc, sent, got, restarts, loginVars, grant, live, closed>>

\* The browser drops the cookies of a login ten minutes after it began, in the
\* order in which they were stamped, and that of a session when it expires.
DropCookie(k) ==
    /\ cookies[k] # None
    /\ k = "session" => now >= grant[cookies[k]].expires
    /\ k \in {"verifier", "returnTo"} => cookies.state = None
    /\ k = "returnTo" => cookies.verifier = None
    /\ cookies' = [cookies EXCEPT ![k] = None]
    /\ UNCHANGED <<pc, sent, got, now, restarts, loginVars, storeVars>>

\* The sessions, and the requests being handled, go with the process.
Restart ==
    /\ restarts < MaxRestarts
    /\ restarts' = restarts + 1
    /\ closed' = closed \union live
    /\ live' = {}
    /\ sinceGC' = GCInterval
    /\ pc' = [t \in Tab |-> IF pc[t] \in InServer THEN "idle" ELSE pc[t]]
    /\ sent' = [t \in Tab |-> IF pc[t] \in InServer THEN NoCookies ELSE sent[t]]
    /\ UNCHANGED <<cookies, got, now, loginVars, grant>>

LoginStep(t) ==
    \/ \E l \in Login : BeginLogin(t, l)
    \/ Authenticate(t) \/ Reload(t) \/ Callback(t) \/ Exchange(t) \/ Welcome(t)

SessionStep(t) == Ask(t) \/ Resolve(t) \/ Receive(t) \/ Logout(t) \/ EndSession(t) \/ Goodbye(t)

Next ==
    \/ \E t \in Tab : LoginStep(t) \/ SessionStep(t)
    \/ OthersAsk \/ Tick \/ Restart
    \/ \E k \in DOMAIN NoCookies : DropCookie(k)

Spec == Init /\ [][Next]_vars
-----------------------------------------------------------------------------
(***************************************************************************)
(* Properties.                                                             *)
(***************************************************************************)
Made == {s \in Id : grant[s] # None}

\* Tabs overwrite each other's cookies and callbacks are reloaded, yet a code
\* is only ever exchanged for the login that the cookies sent with it began,
\* and the tab returns to where that login began, or to the start page.
LoginsAreMatched ==
    \A t \in Tab : pc[t] = "exchange" =>
        /\ sent[t].state = url[t]
        /\ sent[t].verifier = url[t]
        /\ sent[t].returnTo \in {url[t], None}

\* A session says of its user what the provider said in the login that made
\* it, and one login makes one session at most, however often its callback
\* comes.
SessionsAreEarned ==
    /\ \A s \in Made : /\ grant[s].user = who[grant[s].login]
                       /\ grant[s].roles = RolesOf[grant[s].user]
    /\ \A s1, s2 \in Made : grant[s1].login = grant[s2].login => s1 = s2

\* A request is answered for the session it carries only as long as that one
\* is in force, whatever was swept or not: not after its expiry, a logout in
\* another tab, or a restart.
InForce(s) == s # None /\ s \notin closed /\ ~Expired(s)

AnsweredInForce ==
    [][\A t \in Tab : pc[t] = "ask" /\ pc'[t] \in Served => InForce(sent[t].session)]_vars

\* Nobody is sent to the login page before that.
ForceIsHonoured ==
    [][\A t \in Tab : pc[t] = "ask" /\ pc'[t] = "anonymous" => ~InForce(sent[t].session)]_vars

\* session.go:25-27: dropping the roles "would silently deny every logged-in
\* user": whether a user is let in is decided as the token would have.
RolesSurvive ==
    [][\A t \in Tab : pc[t] = "ask" /\ pc'[t] \in Served =>
          (pc'[t] = "served" <=> Authorize(RolesOf[who[grant[sent[t].session].login]]))]_vars

\* The inductive strengthening: whichever cookies a jar has left, they are of
\* one login; a spent code is what a session rests on; a session that was made
\* is in the map until it is over.
JarIsConsistent(jar) ==
    /\ jar.state # None => jar.verifier = jar.state /\ jar.returnTo = jar.state
    /\ jar.verifier # None => jar.returnTo = jar.verifier
    /\ jar.session \in Made \union {None}

TabInv(t) ==
    /\ JarIsConsistent(sent[t])
    /\ pc[t] \in {"idp", "callback", "exchange"} => url[t] # None
    /\ pc[t] = "idp" => code[url[t]] = "pending"
    /\ pc[t] = "exchange" => code[url[t]] # "pending"
    /\ pc[t] = "welcome" => got[t] \in Made
    /\ url[t] # None => code[url[t]] # "unborn" /\ \A x \in Tab : url[x] = url[t] => x = t

SessionInv ==
    /\ TypeOK
    /\ LoginsAreMatched
    /\ SessionsAreEarned
    /\ JarIsConsistent(cookies)
    /\ \A t \in Tab : TabInv(t)
    /\ \A l \in Login : code[l] \in {"issued", "spent"} => who[l] # None
    /\ \A s \in Made : code[grant[s].login] = "spent"
    /\ live \subseteq Made
    /\ closed \subseteq Made
    /\ live \intersect closed = {}
    /\ \A s \in Made : s \in live \union closed \/ Expired(s)
=============================================================================
