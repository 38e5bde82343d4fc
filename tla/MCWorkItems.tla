------------------------------ MODULE MCWorkItems ------------------------------
(* A small instance of WorkItems for TLC.  The vendors and the items are  *)
(* interchangeable, and so are the workers. *)
EXTENDS WorkItems, TLC

Symmetry == Permutations(Items) \cup Permutations(Vendors) \cup Permutations(Workers)
=============================================================================
