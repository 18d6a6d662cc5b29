---------------------------- MODULE MCWorkerPool ----------------------------
(* Instances of WorkerPool: two applications that carry one name one after the
   other, and a spinkube application beside them. *)
EXTENDS WorkerPool, TLC

CONSTANTS a1, a2, a3, b1, b2, b3, n1, n2, v0, f0

NamesOf == (a1 :> n1) @@ (a2 :> n1) @@ (a3 :> n2)
Runtimes == (a1 :> "workerpool") @@ (a2 :> "workerpool") @@ (a3 :> "spinkube")
PoolOnly == [a \in App |-> "workerpool"]
=============================================================================
