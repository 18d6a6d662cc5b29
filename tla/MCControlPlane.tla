--------------------------- MODULE MCControlPlane ---------------------------
(* Instances of ControlPlane, over the same applications as MCBuilder. *)
EXTENDS ControlPlane, TLC

CONSTANTS a1, a2, b1, b2, n1, n2, x1, v0, v1, f0, f1, r1, r2, r3

OneApp == {a1}
TwoApps == {a1, a2}
OneName == (a1 :> n1)
SameName == (a1 :> n1) @@ (a2 :> n1)
TwoNames == (a1 :> n1) @@ (a2 :> n2)
Spinkube == [a \in App |-> "spinkube"]
Workerpool == [a \in App |-> "workerpool"]
MixedRuntimes == (a1 :> "spinkube") @@ (a2 :> "workerpool")
Symmetry == Permutations(Req) \union Permutations(Build)
=============================================================================
