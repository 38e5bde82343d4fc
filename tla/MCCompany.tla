-------------------------------- MODULE MCCompany --------------------------------
(* A small instance of Company for TLC: a plan with one dealership and a  *)
(* plan with two.  The workers are interchangeable. *)
EXTENDS Company, TLC

TwoPlans == {"starter", "growth"}
Growth == {"growth"}
Limits == "starter" :> 1 @@ "growth" :> 2

Symmetry == Permutations(Workers)
=============================================================================
