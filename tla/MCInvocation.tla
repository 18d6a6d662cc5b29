---------------------------- MODULE MCInvocation ----------------------------
(* Two calls: one whose guest runs away and one that shares its engine. *)
EXTENDS Invocation, TLC

CONSTANTS c1, c2
=============================================================================
