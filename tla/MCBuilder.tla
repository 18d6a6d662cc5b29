----------------------------- MODULE MCBuilder -----------------------------
(* Instances of Builder: two builds of one application, or of two applications
   that were given the same name one after the other. *)
EXTENDS Builder, TLC

CONSTANTS a1, a2, b1, b2, n1, x1, v0, v1, f0, f1

OneApp == {a1}
OneName == (a1 :> n1)
Spinkube == (a1 :> "spinkube")
Workerpool == (a1 :> "workerpool")
TwoApps == {a1, a2}
SameName == (a1 :> n1) @@ (a2 :> n1)
MixedRuntimes == (a1 :> "spinkube") @@ (a2 :> "workerpool")
BuildSymmetry == Permutations(Build)
=============================================================================
