----------------------------- MODULE Invocation -----------------------------
(***************************************************************************)
(* Host::invoke of worker/src/runtime.rs: the calls of one worker process, *)
(* all on one wasmtime Engine.  A call's guest runs in a task of its own   *)
(* and is stopped, at its next check, once the ENGINE's epoch has reached  *)
(* the deadline its Store was given; a timer task per call bumps that      *)
(* epoch once, ten seconds on, unless it is aborted first.  Time appears   *)
(* as the order of events only: the ten seconds of a timer may be over at  *)
(* any moment after it was armed.                                          *)
(***************************************************************************)
EXTENDS Naturals

CONSTANT Call   \* the calls of an instance

VARIABLES stage,     \* the awaiting side of a call: the handler's future
          guest,     \* its guest, in the handler task
          responded, \* calls whose guest has set the response outparam
          timer,     \* its timer task
          limit,     \* the epoch at which its guest is stopped
          epoch      \* the engine's epoch

vars == <<stage, guest, responded, timer, limit, epoch>>

Stage == {"new", "waiting", "answered", "failed", "abandoned"}
Guest == {"none", "computing", "blocked", "returned", "trapped"}
Timer == {"off", "armed", "due", "fired", "aborted"}
Running == {"computing", "blocked"}

TypeOK ==
    /\ stage \in [Call -> Stage]
    /\ guest \in [Call -> Guest]
    /\ responded \subseteq Call
    /\ timer \in [Call -> Timer]
    /\ limit \in [Call -> Nat]
    /\ epoch \in Nat

Init ==
    /\ stage = [c \in Call |-> "new"]
    /\ guest = [c \in Call |-> "none"]
    /\ responded = {}
    /\ timer = [c \in Call |-> "off"]
    /\ limit = [c \in Call |-> 0]
    /\ epoch = 0
-----------------------------------------------------------------------------
\* Mutant: a deadline that one bump does not reach.
InvokeWithSlack(c) ==
    /\ stage[c] = "new"
    /\ stage' = [stage EXCEPT ![c] = "waiting"]
    /\ guest' = [guest EXCEPT ![c] = "computing"]
    /\ timer' = [timer EXCEPT ![c] = "armed"]
    /\ limit' = [limit EXCEPT ![c] = epoch + 2]
    /\ UNCHANGED <<responded, epoch>>

\* The Store with its deadline, then the two tasks.
Invoke(c) ==
    /\ stage[c] = "new"
    /\ stage' = [stage EXCEPT ![c] = "waiting"]
    /\ guest' = [guest EXCEPT ![c] = "computing"]
    /\ timer' = [timer EXCEPT ![c] = "armed"]
    /\ limit' = [limit EXCEPT ![c] = epoch + 1]
    /\ UNCHANGED <<responded, epoch>>

\* Instantiation or one of the resources fails before there is any task.
SetupFails(c) ==
    /\ stage[c] = "new"
    /\ stage' = [stage EXCEPT ![c] = "failed"]
    /\ UNCHANGED <<guest, responded, timer, limit, epoch>>
-----------------------------------------------------------------------------
(***************************************************************************)
(* The guest: it computes, waits in a host call, may set its response and  *)
(* go on (with the body of the response, say), and returns.  Checks of the *)
(* epoch are compiled into its code, so a host call in progress is none.   *)
(***************************************************************************)
Guests(c, from, to) ==
    /\ guest[c] = from
    /\ guest' = [guest EXCEPT ![c] = to]
    /\ UNCHANGED <<stage, timer, limit, epoch>>

Block(c) == Guests(c, "computing", "blocked") /\ responded' = responded
Unblock(c) == Guests(c, "blocked", "computing") /\ responded' = responded
Respond(c) == Guests(c, "computing", "computing") /\ responded' = responded \union {c}
Return(c) == Guests(c, "computing", "returned") /\ responded' = responded

Trap(c) ==
    /\ epoch >= limit[c]
    /\ Guests(c, "computing", "trapped")
    /\ responded' = responded
-----------------------------------------------------------------------------
(***************************************************************************)
(* The timer and the awaiting side.                                        *)
(***************************************************************************)
TenSeconds(c) ==
    /\ timer[c] = "armed"
    /\ timer' = [timer EXCEPT ![c] = "due"]
    /\ UNCHANGED <<stage, guest, responded, limit, epoch>>

Fire(c) ==
    /\ timer[c] = "due"
    /\ timer' = [timer EXCEPT ![c] = "fired"]
    /\ epoch' = epoch + 1
    /\ UNCHANGED <<stage, guest, responded, limit>>

\* Mutant: the timer of an answered call is left to itself.
LeaveTimer(c) == timer' = timer

AbortTimer(c) == timer' = [timer EXCEPT ![c] = IF @ = "fired" THEN @ ELSE "aborted"]

\* The response's head, or an error code in its place.
Receive(c) ==
    /\ stage[c] = "waiting"
    /\ c \in responded
    /\ \E outcome \in {"answered", "failed"} : stage' = [stage EXCEPT ![c] = outcome]
    /\ AbortTimer(c)
    /\ UNCHANGED <<guest, responded, limit, epoch>>

\* The outparam was dropped: the handler task is joined and its end reported.
ReceiveNothing(c) ==
    /\ stage[c] = "waiting"
    /\ c \notin responded
    /\ guest[c] \in {"returned", "trapped"}
    /\ stage' = [stage EXCEPT ![c] = "failed"]
    /\ AbortTimer(c)
    /\ UNCHANGED <<guest, responded, limit, epoch>>

\* The client goes and the handler's future is dropped at its await: the two
\* tasks are detached and run on.
ClientGone(c) ==
    /\ stage[c] = "waiting"
    /\ stage' = [stage EXCEPT ![c] = "abandoned"]
    /\ UNCHANGED <<guest, responded, timer, limit, epoch>>
-----------------------------------------------------------------------------
Next ==
    \E c \in Call :
        \/ Invoke(c) \/ SetupFails(c)
        \/ Block(c) \/ Unblock(c) \/ Respond(c) \/ Return(c) \/ Trap(c)
        \/ TenSeconds(c) \/ Fire(c)
        \/ Receive(c) \/ ReceiveNothing(c) \/ ClientGone(c)

Spec == Init /\ [][Next]_vars

\* Clocks and tasks run; a guest that computes reaches a check again and
\* again, whatever it does between.  Nothing makes it return, and nothing
\* makes a host call return: neither has a deadline.
Fairness ==
    \A c \in Call :
        /\ WF_vars(TenSeconds(c)) /\ WF_vars(Fire(c))
        /\ WF_vars(Receive(c)) /\ WF_vars(ReceiveNothing(c))
        /\ SF_vars(Trap(c))

FairSpec == Spec /\ Fairness
-----------------------------------------------------------------------------
(***************************************************************************)
(* Properties.                                                             *)
(***************************************************************************)

\* While somebody waits for a guest that still runs, that guest will be
\* stopped at a check: its own timer is still to bump the epoch, or its limit
\* is reached.  Other calls bump and abort around it.
WaiterIsGuarded ==
    \A c \in Call : stage[c] = "waiting" /\ guest[c] \in Running =>
        timer[c] \in {"armed", "due"} \/ epoch >= limit[c]

\* The inductive strengthening: a timer that can still fire suffices, one that
\* fired has sufficed, and an answer, but nothing else, takes one away.
CallProgress(c) ==
    /\ stage[c] = "new" => guest[c] = "none" /\ timer[c] = "off"
    /\ timer[c] = "off" => guest[c] = "none"
    /\ timer[c] \in {"armed", "due"} => limit[c] <= epoch + 1
    /\ timer[c] = "fired" => limit[c] <= epoch
    /\ timer[c] = "aborted" => stage[c] \in {"answered", "failed"}
    /\ stage[c] \in {"answered", "failed"} => timer[c] \in {"off", "fired", "aborted"}
    /\ guest[c] = "trapped" => limit[c] <= epoch

CallInv == TypeOK /\ \A c \in Call : CallProgress(c)

\* The epoch that all calls share is only bumped for a call that had ten
\* seconds and was not answered in them: an answer takes its timer with it.
OnlyOverdueCallsBump ==
    [][epoch' # epoch =>
          \E c \in Call : timer[c] = "due" /\ stage[c] \in {"waiting", "abandoned"}]_vars

\* services/worker/src/runtime.rs:125-126: the bump "after ~10s ends any
\* runaway invocation", so no guest computes for ever.
RunawaysEnd == \A c \in Call : guest[c] = "computing" ~> guest[c] # "computing"
=============================================================================
