--------------------------- MODULE BuildLifecycle ---------------------------
(***************************************************************************)
(* What a reader of the builds table is promised: every build goes through *)
(* new -> pending -> (running) -> succeeded | failed, an outcome is final, *)
(* success is claimed of an image in the registry only, and a row can only *)
(* disappear for good.                                                     *)
(***************************************************************************)
CONSTANT Build

VARIABLES state,    \* state[b]: builds.status, "new" before and "gone" after the row
          registry  \* builds whose image has been pushed

lifecycleVars == <<state, registry>>

Init ==
    /\ state = [b \in Build |-> "new"]
    /\ registry = {}

Move(b, from, to) ==
    /\ state[b] \in from
    /\ state' = [state EXCEPT ![b] = to]
    /\ registry' = registry

Create(b) == Move(b, {"new"}, "pending")
Run(b) == Move(b, {"pending"}, "running")
Fail(b) == Move(b, {"pending", "running"}, "failed")
Succeed(b) == b \in registry /\ Move(b, {"pending", "running"}, "succeeded")

Push(b) ==
    /\ state[b] # "new"
    /\ registry' = registry \union {b}
    /\ state' = state

\* Rows go in groups, with the application they belong to.
Cascade ==
    /\ \E gone \in SUBSET Build :
          /\ \A b \in gone : state[b] \notin {"new", "gone"}
          /\ state' = [b \in Build |-> IF b \in gone THEN "gone" ELSE state[b]]
    /\ registry' = registry

\* Builds whose row was never written: its insert failed, or a crash cut them.
RefuseAll ==
    /\ \E refused \in SUBSET Build :
          /\ \A b \in refused : state[b] = "new"
          /\ state' = [b \in Build |-> IF b \in refused THEN "gone" ELSE state[b]]
    /\ registry' = registry

Next ==
    \/ \E b \in Build : Create(b) \/ Run(b) \/ Fail(b) \/ Succeed(b) \/ Push(b)
    \/ Cascade
    \/ RefuseAll

Spec == Init /\ [][Next]_lifecycleVars
=============================================================================
