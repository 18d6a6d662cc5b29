-------------------------- MODULE InvocationProofs --------------------------
(***************************************************************************)
(* Theorems about Invocation: the guard of every waiting call and the      *)
(* discipline of the shared epoch, for any number of overlapping calls;    *)
(* and about Dispatch, which implements it: who gets a call and what it is *)
(* shown, for any routes, paths and tables.                                *)
(***************************************************************************)
EXTENDS Dispatch, SequenceTheorems, WellFoundedInduction, TLAPS

\* A call starts with neither tasks nor timer: runtime.rs, Host::new.
LEMMA InitCallInv == Init => CallInv
  BY DEF Init, CallInv, TypeOK, CallProgress, Stage, Guest, Timer

\* What a call keeps of its invariant when only the others move and the epoch,
\* if it moves, grows.
LEMMA OthersMove ==
  ASSUME TypeOK, TypeOK', NEW c \in Call, CallProgress(c),
         stage'[c] = stage[c], guest'[c] = guest[c],
         timer'[c] = timer[c], limit'[c] = limit[c], epoch' >= epoch
  PROVE  CallProgress(c)'
  BY DEF TypeOK, CallProgress

\* A step of the guest changes nothing but the guest and its response.
LEMMA GuestStep ==
  ASSUME CallInv, NEW c \in Call, NEW from \in Running, NEW to \in Guest \ {"none"},
         to = "trapped" => epoch >= limit[c],
         Guests(c, from, to),
         responded' \in {responded, responded \union {c}}
  PROVE  CallInv'
<1>1. TypeOK'
  BY DEF CallInv, TypeOK, Guests, Guest
<1>2. ASSUME NEW d \in Call PROVE CallProgress(d)'
  <2>1. CASE d = c
    <3>1. guest[c] \in Running /\ guest'[c] = to /\ to # "none"
      BY DEF Guests, CallInv, TypeOK
    <3>2. UNCHANGED <<stage, timer, limit, epoch>>
      BY DEF Guests
    <3>3. QED
      BY <2>1, <3>1, <3>2 DEF CallInv, CallProgress, Running
  <2>2. CASE d # c
    <3>1. guest'[d] = guest[d] /\ UNCHANGED <<stage, timer, limit, epoch>>
      BY <2>2 DEF Guests, CallInv, TypeOK
    <3>2. QED
      BY <3>1 DEF CallInv, CallProgress
  <2>3. QED
    BY <2>1, <2>2
<1>3. QED
  BY <1>1, <1>2 DEF CallInv

\* The awaiting side: an answer takes its own timer along and no other.
LEMMA EndOfWait ==
  ASSUME CallInv, NEW c \in Call, stage[c] = "waiting",
         NEW outcome \in {"answered", "failed"},
         stage' = [stage EXCEPT ![c] = outcome],
         AbortTimer(c),
         UNCHANGED <<guest, responded, limit, epoch>>
  PROVE  CallInv'
<1>1. TypeOK'
  BY DEF CallInv, TypeOK, AbortTimer, Stage, Timer
<1>2. ASSUME NEW d \in Call PROVE CallProgress(d)'
  <2>1. CASE d = c
    <3>1. stage'[c] = outcome /\ timer'[c] \in {"fired", "aborted"}
          /\ (timer'[c] = "fired" => timer[c] = "fired")
      BY DEF CallInv, TypeOK, AbortTimer
    <3>2. QED
      BY <2>1, <3>1 DEF CallInv, CallProgress
  <2>2. CASE d # c
    <3>1. stage'[d] = stage[d] /\ timer'[d] = timer[d]
      BY <2>2 DEF CallInv, TypeOK, AbortTimer
    <3>2. QED
      BY <3>1 DEF CallInv, CallProgress
  <2>3. QED
    BY <2>1, <2>2
<1>3. QED
  BY <1>1, <1>2 DEF CallInv

\* Every step of every call keeps the invariant of all calls.
LEMMA StepCallInv == CallInv /\ [Next]_vars => CallInv'
<1> SUFFICES ASSUME CallInv, [Next]_vars PROVE CallInv'
  OBVIOUS
<1> USE DEF CallInv
<1>1. CASE UNCHANGED vars
  BY <1>1 DEF vars, TypeOK, CallProgress
<1>2. ASSUME NEW c \in Call, Invoke(c) PROVE CallInv'
  <2>1. TypeOK'
    BY <1>2 DEF Invoke, TypeOK, Stage, Guest, Timer
  <2>2. CallProgress(c)'
    BY <1>2 DEF Invoke, TypeOK, CallProgress
  <2>3. ASSUME NEW d \in Call \ {c} PROVE CallProgress(d)'
    BY <1>2 DEF Invoke, TypeOK, CallProgress
  <2>4. QED
    BY <2>1, <2>2, <2>3
<1>3. ASSUME NEW c \in Call, SetupFails(c) PROVE CallInv'
  <2>1. TypeOK'
    BY <1>3 DEF SetupFails, TypeOK, Stage
  <2>2. CallProgress(c)'
    BY <1>3 DEF SetupFails, TypeOK, CallProgress
  <2>3. ASSUME NEW d \in Call \ {c} PROVE CallProgress(d)'
    BY <1>3 DEF SetupFails, TypeOK, CallProgress
  <2>4. QED
    BY <2>1, <2>2, <2>3
<1>4. ASSUME NEW c \in Call, Block(c) \/ Unblock(c) \/ Respond(c) \/ Return(c)
      PROVE CallInv'
  <2>1. PICK from \in Running, to \in Guest \ {"none", "trapped"} : Guests(c, from, to)
    BY <1>4 DEF Block, Unblock, Respond, Return, Running, Guest
  <2>2. responded' \in {responded, responded \union {c}}
    BY <1>4 DEF Block, Unblock, Respond, Return
  <2>3. QED
    BY <2>1, <2>2, GuestStep
<1>5. ASSUME NEW c \in Call, Trap(c) PROVE CallInv'
  BY <1>5, GuestStep DEF Trap, Running, Guest
<1>6. ASSUME NEW c \in Call, TenSeconds(c) PROVE CallInv'
  <2>1. TypeOK'
    BY <1>6 DEF TenSeconds, TypeOK, Timer
  <2>2. CallProgress(c)'
    BY <1>6 DEF TenSeconds, TypeOK, CallProgress
  <2>3. ASSUME NEW d \in Call \ {c} PROVE CallProgress(d)'
    BY <1>6 DEF TenSeconds, TypeOK, CallProgress
  <2>4. QED
    BY <2>1, <2>2, <2>3
<1>7. ASSUME NEW c \in Call, Fire(c) PROVE CallInv'
  <2>1. TypeOK' /\ epoch' = epoch + 1 /\ UNCHANGED <<stage, guest, limit>>
    BY <1>7 DEF Fire, TypeOK, Timer
  <2>2. CallProgress(c)'
    <3>1. timer[c] = "due" /\ timer'[c] = "fired"
      BY <1>7 DEF Fire, TypeOK
    <3>2. limit[c] \in Nat /\ epoch \in Nat /\ limit[c] <= epoch + 1
      BY <3>1 DEF TypeOK, CallProgress
    <3>3. QED
      BY <2>1, <3>1, <3>2 DEF CallProgress
  <2>3. ASSUME NEW d \in Call \ {c} PROVE CallProgress(d)'
    <3>1. timer'[d] = timer[d] /\ epoch' >= epoch
      BY <1>7, <2>1 DEF Fire, TypeOK
    <3>2. QED
      BY <2>1, <3>1, OthersMove
  <2>4. QED
    BY <2>1, <2>2, <2>3
<1>8. ASSUME NEW c \in Call, Receive(c) \/ ReceiveNothing(c) PROVE CallInv'
  <2>1. stage[c] = "waiting" /\ AbortTimer(c) /\ UNCHANGED <<guest, responded, limit, epoch>>
    BY <1>8 DEF Receive, ReceiveNothing
  <2>2. PICK outcome \in {"answered", "failed"} : stage' = [stage EXCEPT ![c] = outcome]
    BY <1>8 DEF Receive, ReceiveNothing
  <2>3. QED
    BY <2>1, <2>2, EndOfWait
<1>9. ASSUME NEW c \in Call, ClientGone(c) PROVE CallInv'
  <2>1. TypeOK'
    BY <1>9 DEF ClientGone, TypeOK, Stage
  <2>2. CallProgress(c)'
    BY <1>9 DEF ClientGone, TypeOK, CallProgress
  <2>3. ASSUME NEW d \in Call \ {c} PROVE CallProgress(d)'
    BY <1>9 DEF ClientGone, TypeOK, CallProgress
  <2>4. QED
    BY <2>1, <2>2, <2>3
<1>10. QED
  BY <1>1, <1>2, <1>3, <1>4, <1>5, <1>6, <1>7, <1>8, <1>9 DEF Next
-----------------------------------------------------------------------------
\* Host::invoke keeps, for every call, its timer, its limit and the engine's
\* epoch in the relation that the code's one-shot bump relies on.
THEOREM CallInvariance == Spec => []CallInv
<1>1. Init => CallInv
  BY InitCallInv
<1>2. CallInv /\ [Next]_vars => CallInv'
  BY StepCallInv
<1>3. QED
  BY <1>1, <1>2, PTL DEF Spec

\* A caller never waits for a running guest that nothing is going to stop:
\* its timer is to bump the epoch, or the epoch has reached its limit.
THEOREM WaitersGuarded == Spec => []WaiterIsGuarded
<1>1. CallInv => WaiterIsGuarded
  <2> SUFFICES ASSUME CallInv, NEW c \in Call, stage[c] = "waiting", guest[c] \in Running
               PROVE  timer[c] \in {"armed", "due"} \/ epoch >= limit[c]
    BY DEF WaiterIsGuarded
  <2>1. timer[c] \notin {"off", "aborted"}
    BY DEF CallInv, CallProgress, Running
  <2>2. timer[c] = "fired" => epoch >= limit[c]
    BY DEF CallInv, CallProgress, TypeOK
  <2>3. QED
    BY <2>1, <2>2 DEF CallInv, TypeOK, Timer
<1>2. QED
  BY <1>1, CallInvariance, PTL

\* runtime.rs:130 and :154: the epoch that all calls share moves only for a
\* call that was not answered within its ten seconds.
THEOREM BumpsAreOverdue == Spec => OnlyOverdueCallsBump
<1> DEFINE Overdue ==
      epoch' # epoch =>
        \E c \in Call : timer[c] = "due" /\ stage[c] \in {"waiting", "abandoned"}
<1>1. CallInv /\ [Next]_vars => Overdue
  <2> SUFFICES ASSUME CallInv, Next, epoch' # epoch
               PROVE  \E c \in Call : timer[c] = "due" /\ stage[c] \in {"waiting", "abandoned"}
    BY DEF vars
  <2>1. PICK c \in Call : Fire(c)
    BY DEF Next, Invoke, SetupFails, Block, Unblock, Respond, Return, Trap, Guests,
           TenSeconds, Receive, ReceiveNothing, ClientGone
  <2>2. timer[c] = "due"
    BY <2>1 DEF Fire
  <2>3. stage[c] \in {"waiting", "abandoned"}
    BY <2>2 DEF CallInv, CallProgress, TypeOK, Stage
  <2>4. QED
    BY <2>2, <2>3
<1>2. QED
  BY <1>1, CallInvariance, PTL DEF Spec, OnlyOverdueCallsBump
-----------------------------------------------------------------------------
(***************************************************************************)
(* Routes: least elements, then what matches, and which of it is first.    *)
(***************************************************************************)
Less == {p \in Nat \X Nat : p[1] < p[2]}

\* The order of the natural numbers, as the library's pairs.
LEMMA LessIsWellFounded == IsWellFoundedOn(Less, Nat)
<1>1. Less = OpToRel(<, Nat)
  BY DEF Less, OpToRel
<1>2. QED
  BY <1>1, NatLessThanWellFounded

\* Some numbers have a least one among them.
LEMMA LeastExists ==
  ASSUME NEW T, T \subseteq Nat, T # {}
  PROVE  \E x \in T : \A y \in T : x <= y
<1>1. PICK x \in T : \A y \in T : <<y, x>> \notin Less
  BY LessIsWellFounded, WFMin
<1>2. \A y \in T : ~(y < x)
  BY <1>1 DEF Less
<1>3. QED
  BY <1>2

\* What a route that matches a path fixes is a prefix of the path.
LEMMA MatchingRoutes ==
  ASSUME NEW route \in Text, NEW path \in Path, Matches(route, path)
  PROVE  /\ FixedPart(route) \in Seq(Segment)
         /\ Len(FixedPart(route)) \in 0..Len(path)
         /\ FixedPart(route) = SubSeq(path, 1, Len(FixedPart(route)))
<1> DEFINE T == Segment \union {NoSlash}
<1>1. route \in Seq(T) /\ path \in Seq(Segment) /\ path # <<>>
  BY DEF Text, Path
<1>2. Len(path) \in Nat /\ DOMAIN path = 1..Len(path) /\ \A i \in 1..Len(path) : path[i] \in Segment
  BY <1>1, LenProperties
<1>3. CASE ~IsWildcard(route)
  <2>1. FixedPart(route) = path
    BY <1>3 DEF Matches, FixedPart
  <2>2. SubSeq(path, 1, Len(path)) = path
    BY <1>1, SubSeqFull
  <2>3. QED
    BY <1>1, <1>2, <2>1, <2>2
<1>4. CASE IsWildcard(route)
  <2> DEFINE n == Len(route) - 1
             fixed == BeforeDots(route)
  <2>1. Len(route) \in Nat \ {0} /\ n \in Nat /\ \A i \in 1..n : route[i] \in T
    BY <1>1, <1>4, LenProperties, EmptySeq DEF IsWildcard
  <2>2. fixed \in Seq(T) /\ Len(fixed) = n
    <3>1. PICK k \in Nat : k = n
      BY <2>1
    <3>2. SubSeq(route, 1, k) \in Seq(T) /\ Len(SubSeq(route, 1, k)) = IF 1 <= k THEN k - 1 + 1 ELSE 0
      <4>1. k \in Int /\ 1 \in Int /\ \A i \in 1..k : route[i] \in T
        BY <2>1, <3>1
      <4>2. QED
        BY <4>1, SubSeqProperties
    <3>3. QED
      BY <3>1, <3>2 DEF BeforeDots
  <2>3. n <= Len(path) /\ SubSeq(fixed, 1, n) = SubSeq(path, 1, n) /\ FixedPart(route) = fixed
    BY <1>4, <2>2 DEF Matches, IsPrefix, FixedPart
  <2>4. fixed = SubSeq(path, 1, n)
    BY <2>2, <2>3, SubSeqFull
  <2>5. fixed \in Seq(Segment)
    BY <1>2, <2>1, <2>3, <2>4, SubSeqProperties
  <2>6. QED
    BY <1>2, <2>1, <2>2, <2>3, <2>4, <2>5
<1>5. QED
  BY <1>3, <1>4

\* What a route is sorted by lies within what it fixes, and is all of that when
\* nothing in it begins with dots.
LEMMA SortedByPrefix ==
  ASSUME NEW route \in Text
  PROVE  /\ Len(FixedPart(route)) \in Nat
         /\ Len(PrefixOf(route)) \in 0..Len(FixedPart(route))
         /\ DotsLast(route) => PrefixOf(route) = FixedPart(route)
<1> DEFINE T == Segment \union {NoSlash}
           n == Len(route)
           D == {i \in DOMAIN route : route[i] \in Dotted}
           first(i) == route[i] \in Dotted /\ \A j \in 1..(i - 1) : route[j] \notin Dotted
<1>1. route \in Seq(T)
  BY DEF Text
<1>2. n \in Nat /\ DOMAIN route = 1..n /\ \A i \in 1..n : route[i] \in T
  BY <1>1, LenProperties
<1>3. IsWildcard(route) => n \in D
  BY <1>1, <1>2, EmptySeq, RoutesAssumption DEF IsWildcard
<1>4. CASE D = {}
  <2>1. PrefixOf(route) = route /\ FixedPart(route) = route
    BY <1>3, <1>4 DEF PrefixOf, FixedPart
  <2>2. QED
    BY <1>2, <2>1
<1>5. CASE D # {}
  <2>1. D \subseteq Nat
    BY <1>2
  <2>2. PICK k \in D : \A i \in D : k <= i
    BY <1>5, <2>1, LeastExists
  <2>3. k \in 1..n /\ first(k)
    BY <1>2, <2>2
  <2>4. ASSUME NEW i \in DOMAIN route, first(i) PROVE i = k
    <3>1. k <= i /\ i \in 1..n
      BY <1>2, <2>2, <2>4
    <3>2. ~(k \in 1..(i - 1))
      BY <2>3, <2>4
    <3>3. QED
      BY <1>2, <2>3, <3>1, <3>2
  <2>5. (CHOOSE i \in DOMAIN route : first(i)) = k
    BY <1>2, <2>3, <2>4
  <2>6. PrefixOf(route) = SubSeq(route, 1, k - 1)
    <3>1. PrefixOf(route) = SubSeq(route, 1, (CHOOSE i \in DOMAIN route : first(i)) - 1)
      BY <2>2 DEF PrefixOf
    <3>2. QED
      BY <2>5, <3>1
  <2>7. k - 1 \in 0..n /\ Len(SubSeq(route, 1, k - 1)) = k - 1
    BY <1>2, <2>3, SubSeqProperties
  <2>8. CASE ~IsWildcard(route)
    <3>1. FixedPart(route) = route /\ ~DotsLast(route)
      BY <2>2, <2>8 DEF FixedPart, DotsLast
    <3>2. QED
      BY <1>2, <2>6, <2>7, <3>1
  <2>9. CASE IsWildcard(route)
    <3>1. n - 1 \in Nat /\ k - 1 \in 0..(n - 1)
      BY <1>2, <2>3
    <3>2. FixedPart(route) = SubSeq(route, 1, n - 1)
      BY <2>9 DEF FixedPart, BeforeDots
    <3>3. /\ Len(SubSeq(route, 1, n - 1)) = n - 1
          /\ DOMAIN SubSeq(route, 1, n - 1) = 1..(n - 1)
          /\ \A i \in 1..(n - 1) : SubSeq(route, 1, n - 1)[i] = route[i]
      BY <1>2, <3>1, SubSeqProperties
    <3>4. ASSUME DotsLast(route) PROVE k = n
      <4>1. ~(k \in 1..(n - 1))
        BY <2>2, <3>2, <3>3, <3>4 DEF DotsLast
      <4>2. QED
        BY <1>2, <2>3, <4>1
    <3>5. QED
      BY <2>6, <2>7, <3>1, <3>2, <3>3, <3>4
  <2>10. QED
    BY <2>8, <2>9
<1>6. QED
  BY <1>4, <1>5

\* Of some functions one is the first by name.
LEMMA LeastRank ==
  ASSUME NEW E, E \subseteq Fn, E # {}
  PROVE  \E f \in E : \A g \in E \ {f} : Rank[f] < Rank[g]
<1> DEFINE ranks == {Rank[f] : f \in E}
<1>1. \A f \in E : Rank[f] \in Nat
  BY RoutesAssumption
<1>2. PICK least \in ranks : \A r \in ranks : least <= r
  BY <1>1, LeastExists
<1>3. PICK f \in E : Rank[f] = least
  BY <1>2
<1>4. ASSUME NEW g \in E \ {f} PROVE Rank[f] < Rank[g]
  BY <1>1, <1>2, <1>3, RoutesAssumption
<1>5. QED
  BY <1>4

\* Of some functions that are measured within a bound one measures most.
LEMMA MostExists ==
  ASSUME NEW M, M # {}, NEW bound \in Nat, NEW len \in [M -> 0..bound]
  PROVE  \E f \in M : \A g \in M : len[g] <= len[f]
<1> DEFINE left == {bound - len[f] : f \in M}
<1>1. left \subseteq Nat /\ left # {}
  OBVIOUS
<1>2. PICK least \in left : \A n \in left : least <= n
  BY <1>1, LeastExists
<1>3. PICK f \in M : bound - len[f] = least
  BY <1>2
<1>4. ASSUME NEW g \in M PROVE len[g] <= len[f]
  <2>1. bound - len[f] <= bound - len[g]
    BY <1>2, <1>3
  <2>2. len[f] \in 0..bound /\ len[g] \in 0..bound
    OBVIOUS
  <2>3. QED
    BY <2>1, <2>2
<1>5. QED
  BY <1>4

\* What the worker's router picks of the functions that match: only a route
\* with dots before its end may fix more of the path than the winner's.
LEMMA WorkerResolves ==
  ASSUME NEW image \in Table, NEW path \in Path, Matching(image, path) # {}
  PROVE  /\ Resolve(image, path) \in Matching(image, path)
         /\ \A g \in Matching(image, path) : DotsLast(image[g]) =>
               Len(FixedPart(image[g])) <= Len(FixedPart(image[Resolve(image, path)]))
<1> DEFINE M == Matching(image, path)
           len(f) == Len(PrefixOf(image[f]))
           fix(f) == Len(FixedPart(image[f]))
<1>1. ASSUME NEW f \in M
      PROVE  /\ fix(f) \in 0..Len(path) /\ len(f) \in 0..Len(path) /\ len(f) <= fix(f)
             /\ DotsLast(image[f]) => len(f) = fix(f)
  <2>1. image[f] \in Text /\ Matches(image[f], path)
    BY DEF Matching, Table
  <2>2. fix(f) \in 0..Len(path)
    BY <2>1, MatchingRoutes
  <2>3. len(f) \in 0..fix(f) /\ (DotsLast(image[f]) => len(f) = fix(f))
    BY <2>1, SortedByPrefix
  <2>4. Len(path) \in Nat
    BY LenProperties DEF Path
  <2>5. QED
    BY <2>2, <2>3, <2>4
<1>2. PICK longest \in M : \A g \in M : len(g) <= len(longest)
  <2> DEFINE measure == [f \in M |-> len(f)]
  <2>1. Len(path) \in Nat /\ measure \in [M -> 0..Len(path)]
    BY <1>1, LenProperties DEF Path
  <2>2. \E f \in M : \A g \in M : measure[g] <= measure[f]
    <3> HIDE DEF measure
    <3> QED
      BY <2>1, MostExists
  <2>3. QED
    BY <2>2
<1>3. PICK first \in {f \in M : len(f) = len(longest)} :
         \A g \in {f \in M : len(f) = len(longest)} \ {first} : Rank[first] < Rank[g]
  <2>1. {f \in M : len(f) = len(longest)} \subseteq Fn
    BY DEF Matching
  <2>2. longest \in {f \in M : len(f) = len(longest)}
    OBVIOUS
  <2>3. QED
    BY <2>1, <2>2, LeastRank
<1>4. ASSUME NEW g \in M \ {first} PROVE TriedBefore(image, first, g)
  <2>1. len(g) <= len(first) /\ len(g) \in Nat /\ len(first) \in Nat
    BY <1>1, <1>2, <1>3
  <2>2. len(g) = len(first) => Rank[first] < Rank[g]
    BY <1>3
  <2>3. QED
    BY <2>1, <2>2 DEF TriedBefore
<1>5. /\ Resolve(image, path) \in M
      /\ \A g \in M \ {Resolve(image, path)} : TriedBefore(image, Resolve(image, path), g)
  BY <1>3, <1>4 DEF Resolve
<1>6. ASSUME NEW g \in M, DotsLast(image[g]) PROVE fix(g) <= fix(Resolve(image, path))
  <2> DEFINE r == Resolve(image, path)
  <2>1. len(g) <= len(r)
    <3>1. CASE g = r
      BY <1>1, <3>1
    <3>2. CASE g # r
      BY <1>1, <1>5, <3>2 DEF TriedBefore
    <3>3. QED
      BY <3>1, <3>2
  <2>2. fix(g) = len(g) /\ len(r) <= fix(r) /\ len(g) \in Nat /\ len(r) \in Nat /\ fix(r) \in Nat
    BY <1>1, <1>5, <1>6
  <2> HIDE DEF r, len, fix
  <2>3. fix(g) <= fix(r)
    BY <2>1, <2>2
  <2>4. QED
    BY <2>3 DEF r, fix
<1>7. QED
  BY <1>5, <1>6

\* What Spin's router in a pod picks of them.
LEMMA PodResolves ==
  ASSUME NEW image \in Table, NEW path \in Path, Matching(image, path) # {}
  PROVE  /\ PodResolve(image, path) \in Matching(image, path)
         /\ \A g \in Matching(image, path) :
               Len(FixedPart(image[g])) <= Len(FixedPart(image[PodResolve(image, path)]))
<1> DEFINE M == Matching(image, path)
           len(f) == Len(FixedPart(image[f]))
           before(f, g) ==
              \/ len(f) > len(g)
              \/ /\ FixedPart(image[f]) = FixedPart(image[g])
                 /\ \/ IsWildcard(image[g]) /\ ~IsWildcard(image[f])
                    \/ /\ IsWildcard(image[g]) = IsWildcard(image[f])
                       /\ Rank[f] < Rank[g]
<1>1. \A f \in M : /\ len(f) \in 0..Len(path) /\ len(f) \in Nat
                   /\ FixedPart(image[f]) = SubSeq(path, 1, len(f))
  BY MatchingRoutes DEF Matching, Table
<1>2. PICK longest \in M : \A g \in M : len(g) <= len(longest)
  <2> DEFINE measure == [f \in M |-> len(f)]
  <2>1. Len(path) \in Nat /\ measure \in [M -> 0..Len(path)]
    BY <1>1, LenProperties DEF Path
  <2>2. \E f \in M : \A g \in M : measure[g] <= measure[f]
    <3> HIDE DEF measure
    <3> QED
      BY <2>1, MostExists
  <2>3. QED
    BY <2>2
<1> DEFINE E == {f \in M : len(f) = len(longest)}
           X == {f \in E : ~IsWildcard(image[f])}
<1>3. E \subseteq Fn /\ X \subseteq Fn /\ longest \in E
  BY DEF Matching
<1>0. \A f \in M : IsWildcard(image[f]) \in BOOLEAN
  BY DEF IsWildcard
<1>4. ASSUME NEW D \in {E, X}, D # {}, D = X \/ X = {}
      PROVE  \E f \in M : \A g \in M \ {f} : before(f, g)
  <2>1. PICK f \in D : \A g \in D \ {f} : Rank[f] < Rank[g]
    BY <1>3, <1>4, LeastRank
  <2>2. ASSUME NEW g \in M \ {f} PROVE before(f, g)
    <3>1. f \in E /\ len(g) <= len(f) /\ len(g) \in Nat /\ len(f) \in Nat
      BY <1>1, <1>2
    <3>2. CASE len(g) < len(f)
      BY <1>1, <3>1, <3>2
    <3>3. CASE len(g) = len(f)
      <4>1. FixedPart(image[f]) = FixedPart(image[g]) /\ g \in E
        BY <1>1, <3>1, <3>3
      <4>2. CASE D = X
        BY <1>0, <2>1, <4>1, <4>2
      <4>3. CASE D = E /\ X = {}
        BY <1>0, <1>4, <2>1, <4>1, <4>3
      <4>4. QED
        BY <1>4, <4>2, <4>3
    <3>4. QED
      BY <3>1, <3>2, <3>3
  <2>3. QED
    BY <2>1, <2>2
<1>5. \E f \in M : \A g \in M \ {f} : before(f, g)
  <2>1. CASE X = {}
    BY <1>3, <1>4, <2>1
  <2>2. CASE X # {}
    BY <1>4, <2>2
  <2>3. QED
    BY <2>1, <2>2
<1>6. /\ PodResolve(image, path) \in M
      /\ \A g \in M \ {PodResolve(image, path)} : before(PodResolve(image, path), g)
  BY <1>5 DEF PodResolve
<1>7. ASSUME NEW g \in M PROVE len(g) <= len(PodResolve(image, path))
  <2>1. CASE g = PodResolve(image, path)
    BY <1>1, <2>1
  <2>2. CASE g # PodResolve(image, path)
    BY <1>1, <1>6, <2>2
  <2>3. QED
    BY <2>1, <2>2
<1>8. QED
  BY <1>6, <1>7

\* Prefix and rest make the path, and the guest is shown a path.
LEMMA RestIsLeft ==
  ASSUME NEW route \in Text, NEW path \in Path, Matches(route, path)
  PROVE  /\ Rest(route, path) \in Path
         /\ \/ FixedPart(route) \o Rest(route, path) = path
            \/ FixedPart(route) = path /\ Rest(route, path) = Root
<1>1. Root \in Path
  BY RoutesAssumption DEF Root, Path
<1>2. CASE IsWildcard(route) /\ path # BeforeDots(route)
  <2> DEFINE n == Len(FixedPart(route))
             m == Len(path)
  <2>1. path \in Seq(Segment) /\ m \in Nat /\ \A i \in 1..m : path[i] \in Segment
    BY LenProperties DEF Path
  <2>2. n \in 0..m /\ FixedPart(route) = SubSeq(path, 1, n) /\ FixedPart(route) = BeforeDots(route)
    BY <1>2, MatchingRoutes DEF FixedPart
  <2>3. SubSeq(path, 1, m) = path
    BY <2>1, SubSeqFull
  <2>4. n < m
    BY <1>2, <2>1, <2>2, <2>3
  <2>5. Len(route) = n + 1
    <3>1. route \in Seq(Segment \union {NoSlash}) /\ route # <<>>
      BY <1>2 DEF Text, IsWildcard
    <3>2. Len(route) \in Nat \ {0} /\ \A i \in 1..(Len(route) - 1) : route[i] \in Segment \union {NoSlash}
      BY <3>1, LenProperties, EmptySeq
    <3>3. Len(BeforeDots(route)) = Len(route) - 1
      <4>1. PICK k \in Nat : k = Len(route) - 1
        <5>1. Len(route) - 1 \in Nat
          BY <3>2
        <5>2. QED
          BY <5>1
      <4>2. \A i \in 1..k : route[i] \in Segment \union {NoSlash}
        BY <3>2, <4>1
      <4>3. Len(SubSeq(route, 1, k)) = IF 1 <= k THEN k - 1 + 1 ELSE 0
        <5>1. k \in Int /\ 1 \in Int
          BY <4>1
        <5>2. QED
          BY <4>2, <5>1, SubSeqProperties
      <4>4. Len(SubSeq(route, 1, k)) = k
        BY <4>3
      <4>5. QED
        BY <4>1, <4>4 DEF BeforeDots
    <3>4. QED
      BY <2>2, <3>2, <3>3
  <2>6. Rest(route, path) = SubSeq(path, n + 1, m)
    BY <1>2, <2>5 DEF Rest
  <2>7. SubSeq(path, n + 1, m) \in Seq(Segment) /\ Len(SubSeq(path, n + 1, m)) = m - n
    BY <2>1, <2>2, <2>4, SubSeqProperties
  <2>8. SubSeq(path, n + 1, m) \in Path
    <3>1. SubSeq(path, n + 1, m) # <<>>
      <4>1. m - n # 0
        BY <2>1, <2>2, <2>4
      <4>2. QED
        BY <2>7, <4>1, EmptySeq, Zenon
    <3>2. QED
      BY <2>7, <3>1 DEF Path
  <2>9. SubSeq(path, 1, n) \o SubSeq(path, n + 1, m) = SubSeq(path, 1, m)
    <3>1. 1 \in 1..(m + 1) /\ n \in (1 - 1)..m /\ m \in n..m
      BY <2>1, <2>2
    <3>2. QED
      BY <2>1, <3>1, ConcatAdjacentSubSeq
  <2>10. QED
    BY <2>2, <2>3, <2>6, <2>8, <2>9
<1>3. CASE ~(IsWildcard(route) /\ path # BeforeDots(route))
  BY <1>1, <1>3 DEF Rest, FixedPart, Matches
<1>4. QED
  BY <1>2, <1>3

-----------------------------------------------------------------------------
(***************************************************************************)
(* Dispatch.                                                               *)
(***************************************************************************)
\* The default routes of created applications and functions are texts.
LEMMA DefaultRoutes ==
  /\ NoRoute \in Text /\ <<Dots>> \in Text
  /\ \A f \in Fn : <<f, Dots>> \in Text
BY DispatchAssumption, RoutesAssumption DEF NoRoute, Text

\* What callers type becomes a path.
LEMMA RelayedPaths == \A typed \in Typed : RelayPath(typed) \in Path
BY DispatchAssumption, RoutesAssumption DEF RelayPath, Root, Path

\* A call on its way has a path and a body.
LEMMA SentCall ==
  ASSUME DispatchTypeOK, NEW c \in Call, call[c].at = "sent"
  PROVE  call[c].path \in Path /\ call[c].body \in Body /\ call[c].by \in Caller
<1>1. call[c] \in Calls
  BY DEF DispatchTypeOK, NoCall
<1>2. QED
  BY <1>1 DEF Calls, Refusals

\* Every step is one of Host::invoke's or leaves all of it alone.
LEMMA StepsOfInvocation == [DispatchNext]_allVars => [Next]_vars
<1> SUFFICES ASSUME [DispatchNext]_allVars PROVE [Next]_vars
  OBVIOUS
<1>1. CASE StartBuild \/ EndBuild \/ Load
  BY <1>1 DEF StartBuild, EndBuild, Load
<1>2. CASE \E f \in Fn : CreateFunction(f) \/ UpdateFunction(f) \/ DeleteFunction(f)
  BY <1>2 DEF CreateFunction, UpdateFunction, DeleteFunction, Write
<1>3. ASSUME NEW c \in Call, InvokeFunction(c) \/ InvokeDirectly(c) \/ PodServes(c) \/ Turned(c)
      PROVE  UNCHANGED vars
  BY <1>3 DEF InvokeFunction, InvokeDirectly, Send, PodServes, Turned
<1>4. ASSUME NEW c \in Call, Dispatched(c) \/ DispatchedElsewhere(c) \/ GoesOn(c)
      PROVE  Next
  BY <1>4 DEF Dispatched, DispatchedElsewhere, GoesOn, Next
<1>5. CASE UNCHANGED allVars
  BY <1>5 DEF allVars
<1>6. QED
  BY <1>1, <1>2, <1>3, <1>4, <1>5 DEF DispatchNext

\* A step keeps the types of Dispatch: what is shown to a guest is a path.
LEMMA DispatchStepTyped ==
  ASSUME DispatchInv, DispatchNext
  PROVE  DispatchTypeOK'
<1> USE DEF DispatchInv
<1>1. TypeOK'
  BY StepsOfInvocation, StepCallInv DEF CallInv
<1>2. /\ runtime \in {"spinkube", "workerpool"}
      /\ table \in Table /\ manifest \in Table /\ latest \in Table /\ loaded \in Table
      /\ call \in [Call -> Calls \union {NoCall}]
  BY DEF DispatchTypeOK
<1>3. NoImage \in Table
  BY DefaultRoutes DEF NoImage, Table
<1>4. CASE StartBuild \/ EndBuild \/ Load
  BY <1>1, <1>2, <1>3, <1>4 DEF StartBuild, EndBuild, Load, DispatchTypeOK
<1>5. ASSUME NEW f \in Fn, CreateFunction(f) \/ UpdateFunction(f) \/ DeleteFunction(f)
      PROVE  DispatchTypeOK'
  <2>1. PICK route \in Text : Write(f, route)
    BY <1>5, DefaultRoutes, DispatchAssumption DEF CreateFunction, UpdateFunction, DeleteFunction
  <2>2. table' \in Table
    BY <1>2, <2>1 DEF Write, Table
  <2>3. QED
    BY <1>1, <1>2, <2>1, <2>2 DEF Write, DispatchTypeOK
<1>6. ASSUME NEW c \in Call, NEW what \in Calls, call' = [call EXCEPT ![c] = what],
             UNCHANGED routeVars
      PROVE  DispatchTypeOK'
  BY <1>1, <1>2, <1>6 DEF DispatchTypeOK, routeVars
<1>7. ASSUME NEW c \in Call, InvokeFunction(c) \/ InvokeDirectly(c)
      PROVE  DispatchTypeOK'
  <2>1. PICK at \in {"sent", "refused"}, by \in Caller, path \in Path, body \in Body :
           Send(c, at, by, path, body)
    BY <1>7, RelayedPaths DEF InvokeFunction, InvokeDirectly, Caller
  <2>2. [at |-> at, by |-> by, path |-> path, body |-> body] \in Calls
    BY DEF Calls
  <2>3. QED
    BY <1>6, <2>1, <2>2 DEF Send
<1>8. ASSUME NEW c \in Call, NEW at \in Refusals, Concludes(c, at), UNCHANGED routeVars
      PROVE  DispatchTypeOK'
  <2>1. [at |-> at] \in Calls
    BY DEF Calls
  <2>2. QED
    BY <1>6, <1>8, <2>1 DEF Concludes
<1>9. ASSUME NEW c \in Call, NEW at \in {"invoked", "served"}, NEW f \in Fn, NEW seen \in Path,
             call[c].at = "sent", Reaches(c, at, f, seen), UNCHANGED routeVars
      PROVE  DispatchTypeOK'
  <2>1. [at |-> at, by |-> call[c].by, component |-> f, seen |-> seen] \in Calls
    BY <1>9, SentCall DEF Calls
  <2>2. QED
    BY <1>6, <1>9, <2>1 DEF Reaches
<1>10. ASSUME NEW c \in Call, PodServes(c) PROVE DispatchTypeOK'
  <2>1. call[c].path \in Path /\ call[c].at = "sent" /\ UNCHANGED routeVars
    BY <1>10, SentCall DEF PodServes
  <2>2. CASE \E at \in Refusals : Concludes(c, at)
    BY <1>8, <2>1, <2>2
  <2>3. CASE Matching(loaded, call[c].path) # {}
             /\ Reaches(c, "served", PodResolve(loaded, call[c].path), call[c].path)
    <3>1. PodResolve(loaded, call[c].path) \in Fn
      BY <1>2, <2>1, <2>3, PodResolves DEF Matching
    <3>2. QED
      BY <1>9, <2>1, <2>3, <3>1
  <2>4. QED
    BY <1>10, <2>2, <2>3 DEF PodServes, Refusals
<1>11. ASSUME NEW c \in Call, Turned(c) PROVE DispatchTypeOK'
  <2>1. UNCHANGED routeVars /\ \E at \in Refusals : Concludes(c, at)
    BY <1>11 DEF Turned, Refusals
  <2>2. QED
    BY <1>8, <2>1
<1>12. ASSUME NEW c \in Call, Dispatched(c) PROVE DispatchTypeOK'
  <2> DEFINE path == call[c].path
             f == Resolve(loaded, path)
  <2>1. path \in Path /\ call[c].at = "sent" /\ UNCHANGED routeVars /\ Matching(loaded, path) # {}
    BY <1>12, SentCall DEF Dispatched
  <2>2. f \in Fn /\ Matches(loaded[f], path)
    BY <1>2, <2>1, WorkerResolves DEF Matching
  <2>3. Rest(loaded[f], path) \in Path
    BY <1>2, <2>1, <2>2, RestIsLeft DEF Table
  <2>4. Reaches(c, "invoked", f, Rest(loaded[f], path))
    BY <1>12 DEF Dispatched
  <2>5. QED
    BY <1>9, <2>1, <2>2, <2>3, <2>4
<1>13. ASSUME NEW c \in Call, DispatchedElsewhere(c) \/ GoesOn(c) PROVE DispatchTypeOK'
  BY <1>1, <1>2, <1>13 DEF DispatchedElsewhere, GoesOn, routeVars, DispatchTypeOK
<1>14. QED
  BY <1>4, <1>5, <1>7, <1>10, <1>11, <1>12, <1>13 DEF DispatchNext

\* Nothing is built, loaded or called at first: module Invocation's own start.
LEMMA InitDispatchInv == DispatchInit => DispatchInv
<1> SUFFICES ASSUME DispatchInit PROVE DispatchInv
  OBVIOUS
<1>1. CallInv
  BY InitCallInv DEF DispatchInit
<1>2. PICK f \in Fn : table = [NoImage EXCEPT ![f] = <<Dots>>]
  BY DEF DispatchInit
<1>3. NoImage \in Table /\ table \in Table
  BY <1>2, DefaultRoutes DEF NoImage, Table
<1>4. QED
  BY <1>1, <1>3 DEF DispatchInit, DispatchInv, DispatchTypeOK, CallInv

\* The invariant of Dispatch is Invocation's and the types of the rest.
LEMMA StepDispatchInv == DispatchInv /\ [DispatchNext]_allVars => DispatchInv'
<1> SUFFICES ASSUME DispatchInv, [DispatchNext]_allVars PROVE DispatchInv'
  OBVIOUS
<1>1. CallInv'
  BY StepsOfInvocation, StepCallInv DEF DispatchInv
<1>2. DispatchTypeOK'
  <2>1. CASE DispatchNext
    BY <2>1, DispatchStepTyped
  <2>2. CASE UNCHANGED allVars
    BY <1>1, <2>2 DEF DispatchInv, DispatchTypeOK, allVars, routeVars, CallInv
  <2>3. QED
    BY <2>1, <2>2
<1>3. QED
  BY <1>1, <1>2 DEF DispatchInv

\* server.rs and runtime.rs: whatever callers ask for and whatever is edited,
\* built and loaded meanwhile, DispatchInv holds.
THEOREM DispatchInvariance == DispatchSpec => []DispatchInv
<1>1. QED
  BY InitDispatchInv, StepDispatchInv, PTL DEF DispatchSpec

\* server.rs, dispatch, reaches the guests by Host::invoke alone: Dispatch
\* implements Invocation.
THEOREM DispatchImplementsInvocation == DispatchSpec => Spec
<1>1. DispatchInit => Init
  BY DEF DispatchInit
<1>2. QED
  BY <1>1, StepsOfInvocation, PTL DEF DispatchSpec, Spec

\* A waiting call is guarded behind the router as well: runtime.rs, Host::invoke.
THEOREM DispatchWaitersGuarded == DispatchSpec => []WaiterIsGuarded
BY DispatchImplementsInvocation, WaitersGuarded

\* Calls of this application and of others share one engine: runtime.rs.
THEOREM DispatchBumpsAreOverdue == DispatchSpec => OnlyOverdueCallsBump
BY DispatchImplementsInvocation, BumpsAreOverdue

\* Only its own dispatch, here or in a pod, ends a call's way.
LEMMA WayEnds ==
  ASSUME DispatchInv, [DispatchNext]_allVars, NEW c \in Call,
         call[c].at = "sent", call'[c] # call[c]
  PROVE  PodServes(c) \/ Turned(c) \/ Dispatched(c)
<1>1. call \in [Call -> Calls \union {NoCall}] /\ call[c] # NoCall
  BY DEF DispatchInv, DispatchTypeOK, NoCall
<1>2. ASSUME NEW d \in Call, d # c, NEW v, call' = [call EXCEPT ![d] = v] PROVE FALSE
  BY <1>1, <1>2
<1>3. CASE StartBuild \/ EndBuild \/ Load \/ UNCHANGED allVars
  BY <1>3 DEF StartBuild, EndBuild, Load, allVars
<1>4. CASE \E f \in Fn : CreateFunction(f) \/ UpdateFunction(f) \/ DeleteFunction(f)
  BY <1>4 DEF CreateFunction, UpdateFunction, DeleteFunction, Write
<1>5. ASSUME NEW d \in Call, InvokeFunction(d) \/ InvokeDirectly(d) PROVE FALSE
  BY <1>1, <1>2, <1>5 DEF InvokeFunction, InvokeDirectly, Send
<1>6. ASSUME NEW d \in Call, PodServes(d) \/ Turned(d) \/ Dispatched(d) PROVE d = c
  BY <1>2, <1>6 DEF PodServes, Turned, Dispatched, Concludes, Reaches
<1>7. ASSUME NEW d \in Call, DispatchedElsewhere(d) \/ GoesOn(d) PROVE FALSE
  BY <1>7 DEF DispatchedElsewhere, GoesOn
<1>8. QED
  BY <1>3, <1>4, <1>5, <1>6, <1>7 DEF DispatchNext

\* Who gets a call, and what a worker shows it.
LEMMA WhoIsReached ==
  ASSUME DispatchInv, [DispatchNext]_allVars, NEW c \in Call, HandsOver(c)
  PROVE  LET path == call[c].path
             f == call'[c].component
         IN  /\ f \in Matching(loaded, path)
             /\ \A g \in Matching(loaded, path) :
                   runtime = "spinkube" \/ DotsLast(loaded[g]) =>
                      Len(FixedPart(loaded[g])) <= Len(FixedPart(loaded[f]))
             /\ runtime = "workerpool" => call'[c].seen = Rest(loaded[f], path)
<1> DEFINE path == call[c].path
<1>1. call[c].at = "sent" /\ call'[c].at \in {"invoked", "served"} /\ call'[c] # call[c]
  BY DEF HandsOver
<1>2. path \in Path /\ loaded \in Table /\ call \in [Call -> Calls \union {NoCall}]
  BY <1>1, SentCall DEF DispatchInv, DispatchTypeOK
<1>3. ASSUME NEW at \in Refusals, Concludes(c, at) PROVE FALSE
  <2>1. call'[c].at = at
    BY <1>2, <1>3 DEF Concludes
  <2>2. QED
    BY <1>1, <2>1 DEF Refusals
<1>4. ASSUME NEW at, NEW f, NEW seen, Reaches(c, at, f, seen)
      PROVE  call'[c].component = f /\ call'[c].seen = seen
  BY <1>2, <1>4 DEF Reaches
<1>5. ~Turned(c)
  BY <1>3 DEF Turned, Refusals
<1>6. CASE PodServes(c)
  <2>1. /\ Matching(loaded, path) # {} /\ runtime = "spinkube"
        /\ Reaches(c, "served", PodResolve(loaded, path), path)
    BY <1>3, <1>6 DEF PodServes, Refusals
  <2>2. call'[c].component = PodResolve(loaded, path) /\ runtime # "workerpool"
    BY <1>4, <2>1
  <2>3. QED
    BY <1>2, <2>1, <2>2, PodResolves
<1>7. CASE Dispatched(c)
  <2> DEFINE f == Resolve(loaded, path)
  <2>1. /\ Matching(loaded, path) # {} /\ runtime # "spinkube"
        /\ Reaches(c, "invoked", f, Rest(loaded[f], path))
    BY <1>7 DEF Dispatched
  <2>2. call'[c].component = f /\ call'[c].seen = Rest(loaded[f], path)
    BY <1>4, <2>1
  <2>3. QED
    BY <1>2, <2>1, <2>2, WorkerResolves
<1>8. QED
  BY <1>1, <1>5, <1>6, <1>7, WayEnds

\* loader.rs, LoadedApp::resolve: of all routes that match a path, none is
\* longer than that of the component that gets the call, but, in a worker, one
\* with dots before its end.  Callers' paths may hold dots anywhere.
THEOREM LongestPrefixFirst == DispatchSpec => LongestPrefixWins
<1>1. DispatchInv /\ [DispatchNext]_allVars =>
        \A c \in Call : HandsOver(c) =>
           \A f \in Matching(loaded, call[c].path) :
              runtime = "spinkube" \/ DotsLast(loaded[f]) =>
                 Len(FixedPart(loaded[f])) <= Len(FixedPart(loaded[call'[c].component]))
  BY WhoIsReached
<1>2. QED
  BY <1>1, DispatchInvariance, PTL DEF DispatchSpec, LongestPrefixWins

\* server.rs, dispatch: what the router took for the prefix and what the guest
\* is shown make the path that was asked for.
THEOREM PrefixAndRest == DispatchSpec => GuestSeesTheRest
<1> DEFINE Shown ==
      \A c \in Call : HandsOver(c) /\ runtime = "workerpool" =>
          LET prefix == FixedPart(loaded[call'[c].component])
          IN  \/ prefix \o call'[c].seen = call[c].path
              \/ prefix = call[c].path /\ call'[c].seen = Root
<1>1. DispatchInv /\ [DispatchNext]_allVars => Shown
  <2> SUFFICES ASSUME DispatchInv, [DispatchNext]_allVars,
                      NEW c \in Call, HandsOver(c), runtime = "workerpool"
               PROVE  LET prefix == FixedPart(loaded[call'[c].component])
                      IN  \/ prefix \o call'[c].seen = call[c].path
                          \/ prefix = call[c].path /\ call'[c].seen = Root
    OBVIOUS
  <2>1. call[c].path \in Path /\ loaded \in Table
    BY SentCall DEF HandsOver, DispatchInv, DispatchTypeOK
  <2>2. /\ call'[c].component \in Matching(loaded, call[c].path)
        /\ call'[c].seen = Rest(loaded[call'[c].component], call[c].path)
    BY WhoIsReached
  <2>3. loaded[call'[c].component] \in Text /\ Matches(loaded[call'[c].component], call[c].path)
    BY <2>1, <2>2 DEF Matching, Table
  <2>4. QED
    BY <2>1, <2>2, <2>3, RestIsLeft
<1>2. QED
  BY <1>1, DispatchInvariance, PTL DEF DispatchSpec, GuestSeesTheRest

\* A function whose page offers a path matches that path, and of an image with
\* separate first paths it alone has a longest prefix of it.
LEMMA FirstPathIsOwn ==
  ASSUME NEW image \in Table, NEW path \in Path, Separate(image),
         NEW f \in Defined(image), FirstPath(image[f]) = path
  PROVE  /\ f \in Matching(image, path)
         /\ \A g \in Matching(image, path) :
               Len(FixedPart(image[f])) <= Len(FixedPart(image[g])) => g = f
<1>1. f \in Fn /\ image[f] # NoRoute /\ image[f] \in Text
  BY DEF Defined, Table
<1>2. FixedPart(image[f]) = path \/ (FixedPart(image[f]) = <<>> /\ path = Root)
  BY DEF FirstPath, FixedPart
<1>3. f \in Matching(image, path)
  <2>1. CASE ~IsWildcard(image[f])
    BY <1>1, <1>2, <2>1 DEF Matching, Matches, FixedPart, FirstPath, NoRoute
  <2>2. CASE IsWildcard(image[f])
    <3>1. path \in Seq(Segment) /\ Len(path) \in Nat /\ Len(<<>>) = 0
      BY LenProperties, EmptySeq DEF Path
    <3>2. SubSeq(path, 1, Len(path)) = path /\ SubSeq(path, 1, 0) = <<>>
      BY <3>1, SubSeqFull, SubSeqEmpty
    <3>3. IsPrefix(path, path) /\ IsPrefix(<<>>, path)
      BY <3>1, <3>2, SubSeqEmpty DEF IsPrefix
    <3>4. QED
      BY <1>1, <1>2, <2>2, <3>3 DEF Matching, Matches, FixedPart
  <2>3. QED
    BY <2>1, <2>2
<1>4. ASSUME NEW g \in Matching(image, path),
             Len(FixedPart(image[f])) <= Len(FixedPart(image[g]))
      PROVE  g = f
  <2>1. g \in Fn /\ Matches(image[g], path) /\ image[g] \in Text /\ image[g] # NoRoute
    BY DEF Matching, Matches, Table, IsWildcard, NoRoute
  <2>2. /\ Len(FixedPart(image[g])) \in 0..Len(path)
        /\ FixedPart(image[g]) = SubSeq(path, 1, Len(FixedPart(image[g])))
    BY <2>1, MatchingRoutes
  <2>3. path \in Seq(Segment) /\ path # <<>> /\ Len(path) \in Nat \ {0}
    BY EmptySeq DEF Path
  <2>4. FirstPath(image[g]) = path
    <3>1. CASE Len(FixedPart(image[g])) = Len(path)
      BY <2>2, <2>3, <3>1, SubSeqFull DEF FixedPart, FirstPath
    <3>2. CASE Len(FixedPart(image[g])) # Len(path)
      <4>1. FixedPart(image[f]) = <<>> /\ path = Root
        BY <1>2, <1>4, <2>2, <2>3, <3>2
      <4>2. Len(path) = 1
        BY <4>1 DEF Root
      <4>3. Len(FixedPart(image[g])) = 0
        BY <2>2, <3>2, <4>2
      <4>4. FixedPart(image[g]) = <<>>
        BY <2>2, <2>3, <4>3, SubSeqEmpty
      <4>5. QED
        BY <2>3, <4>1, <4>4 DEF FixedPart, FirstPath
    <3>3. QED
      BY <3>1, <3>2
  <2>5. QED
    BY <1>1, <2>1, <2>4 DEF Separate
<1>5. QED
  BY <1>3, <1>4

\* InvokePanel.svelte: the offered path is answered by the function whose page
\* offers it, in the worker and in a pod.
THEOREM OfferedPathsReach == DispatchSpec => FirstSendReaches
<1> DEFINE Hits ==
      \A c \in Call : Separate(loaded) /\ call[c].at = "sent" /\ call'[c].at # "sent" =>
          \A f \in Defined(loaded) : FirstPath(loaded[f]) = call[c].path =>
              /\ call'[c].at # "noroute"
              /\ HandsOver(c) => call'[c].component = f
<1>1. DispatchInv /\ [DispatchNext]_allVars => Hits
  <2> SUFFICES ASSUME DispatchInv, [DispatchNext]_allVars,
                      NEW c \in Call, Separate(loaded),
                      call[c].at = "sent", call'[c].at # "sent",
                      NEW f \in Defined(loaded), FirstPath(loaded[f]) = call[c].path
               PROVE  /\ call'[c].at # "noroute"
                      /\ HandsOver(c) => call'[c].component = f
    OBVIOUS
  <2> DEFINE path == call[c].path
  <2>1. path \in Path /\ loaded \in Table /\ call \in [Call -> Calls \union {NoCall}]
    BY SentCall DEF DispatchInv, DispatchTypeOK
  <2>2. /\ f \in Matching(loaded, path)
        /\ \A g \in Matching(loaded, path) :
              Len(FixedPart(loaded[f])) <= Len(FixedPart(loaded[g])) => g = f
    BY <2>1, FirstPathIsOwn
  <2>3. ASSUME call'[c].at = "noroute" PROVE FALSE
    <3>1. PodServes(c) \/ Turned(c) \/ Dispatched(c)
      BY WayEnds
    <3>2. ASSUME NEW at, Concludes(c, at) PROVE call'[c].at = at
      BY <2>1, <3>2 DEF Concludes
    <3>3. ASSUME NEW at, NEW g, NEW seen, Reaches(c, at, g, seen) PROVE call'[c].at = at
      BY <2>1, <3>3 DEF Reaches
    <3>4. CASE PodServes(c)
      BY <2>2, <2>3, <3>2, <3>3, <3>4 DEF PodServes
    <3>5. CASE Turned(c)
      BY <2>2, <2>3, <3>2, <3>5 DEF Turned
    <3>6. CASE Dispatched(c)
      BY <2>3, <3>3, <3>6 DEF Dispatched
    <3>7. QED
      BY <3>1, <3>4, <3>5, <3>6
  <2>4. HandsOver(c) => call'[c].component = f
    <3>1. DotsLast(loaded[f])
      BY DEF Separate, WellFormed, DotsLast, Defined
    <3>2. QED
      BY <2>2, <3>1, WhoIsReached
  <2>5. QED
    BY <2>3, <2>4
<1>2. QED
  BY <1>1, DispatchInvariance, PTL DEF DispatchSpec, FirstSendReaches
=============================================================================
