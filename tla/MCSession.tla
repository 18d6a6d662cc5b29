----------------------------- MODULE MCSession -----------------------------
(* An instance of Session: an operator and a guest, one of whom the platform
   admits. *)
EXTENDS Session, TLC

CONSTANTS t1, t2, operator, guest, admin

Roles == (operator :> {admin}) @@ (guest :> {})
=============================================================================
