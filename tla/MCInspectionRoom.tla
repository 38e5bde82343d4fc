---------------------------- MODULE MCInspectionRoom ----------------------------
(* A small instance of InspectionRoom for TLC.  The members are           *)
(* interchangeable, and so are the items. *)
EXTENDS InspectionRoom, TLC

Symmetry == Permutations(Members) \cup Permutations(Items)
=============================================================================
