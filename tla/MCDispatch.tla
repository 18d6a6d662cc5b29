----------------------------- MODULE MCDispatch -----------------------------
(* An instance of Dispatch: two functions, routes that nest, tie, repeat, lack
   their slash or have dots before their end, and callers that type paths on
   every side of them, dots included. *)
EXTENDS Dispatch, TLC

CONSTANTS c1, c2, f1, f2, sp

RankDef == (f1 :> 1) @@ (f2 :> 2)
RoutesDef == {<<Dots>>, <<f1>>, <<f1, Dots>>, <<NoSlash, f1>>, Root, <<f1, Dots, f2>>}
TypedDef == {<<>>, <<f1>>, <<f1, sp>>, <<NoSlash, f1, Empty>>, <<f1, Dots, f2>>}
=============================================================================
