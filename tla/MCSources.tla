----------------------------- MODULE MCSources -----------------------------
(* A small instance of Sources. *)
EXTENDS Sources, TLC

\* Tarballs of one file and of all.
ArchiveDef ==
    {[n \in Name |-> IF n = Main THEN Blank ELSE Absent], [n \in Name |-> Blank]}

Symmetry == Permutations(Tab)
=============================================================================
