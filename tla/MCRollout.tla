------------------------------ MODULE MCRollout -----------------------------
(* An instance of Rollout: two fields, policies of every mode, of which one
   caps one field only and one has a cap that is no quantity. *)
EXTENDS Rollout, TLC

CONSTANTS cpu, mem, i1, i2, p1, p2, q1

Of(m, c, d) == [mode |-> m, caps |-> (cpu :> c) @@ (mem :> d)]
PoliciesDef == {Of("open", Unset, Unset), Of("max", 1, Unset), Of("max", Garbled, 2),
                Of("forced", 2, 1), Of("unknown", 1, Unset)}
EditsDef == {<<cpu, 1>>, <<cpu, 2>>, <<mem, Garbled>>}
=============================================================================
