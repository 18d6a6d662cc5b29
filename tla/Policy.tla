------------------------------- MODULE Policy -------------------------------
(***************************************************************************)
(* policy/resources.go: what the platform makes of the CPU and memory      *)
(* values of an application, when they are saved and when they are         *)
(* deployed.  A value is unset, a quantity (its size), or a text that      *)
(* Kubernetes does not parse.                                              *)
(***************************************************************************)
EXTENDS Naturals

CONSTANTS Field,    \* requests and limits, of CPU and of memory
          Size,     \* the sizes of the quantities of an instance
          Unset,    \* ""
          Garbled   \* a text that is no quantity

ASSUME PolicyAssumption ==
    /\ Size \subseteq Nat
    /\ Unset \notin Nat /\ Garbled \notin Nat /\ Unset # Garbled

Value == Size \union {Unset, Garbled}
Resources == [Field -> Value]
Mode == {"open", "max", "forced", "unknown"}
ResourcePolicy == [mode : Mode, caps : Resources]

\* Mutant: a quantity that cannot be parsed is let through.
FailsOnSizes(user, cap) ==
    /\ user \in Size /\ cap \in Size
    /\ user > cap

\* checkMax's error, whichever of the two it is: too much, or no quantity.
Fails(user, cap) ==
    /\ user # Unset /\ cap # Unset
    /\ user = Garbled \/ cap = Garbled \/ user > cap

\* Apply's error and, without one, its result.
Refuses(policy, user) ==
    \/ policy.mode = "unknown"
    \/ policy.mode = "max" /\ \E f \in Field : Fails(user[f], policy.caps[f])

\* Mutant: the user's values stand.
CleanedOnOpen(policy, user) == user

Cleaned(policy, user) == IF policy.mode = "forced" THEN policy.caps ELSE user

\* Mutant: the deployer trusts the row.
TrustRow(policy, user) == user

\* The deployer refuses nothing: after an error the platform's values are taken.
Enforced(policy, user) ==
    IF Refuses(policy, user) THEN policy.caps ELSE Cleaned(policy, user)
-----------------------------------------------------------------------------
\* What a policy is for, said without its algorithm: forced values, and so those
\* of a mode that nobody knows, are the platform's; a cap is an upper bound.
Within(policy, res) ==
    CASE policy.mode = "open" -> TRUE
      [] policy.mode = "max" ->
            \A f \in Field : res[f] = Unset \/ policy.caps[f] = Unset
                             \/ (res[f] \in Nat /\ policy.caps[f] \in Nat /\ res[f] <= policy.caps[f])
      [] OTHER -> res = policy.caps
=============================================================================
