------------------------------- MODULE MCInvites -------------------------------
(* A small instance of Invites for TLC: people and workers are             *)
(* interchangeable. *)
EXTENDS Invites, TLC

Symmetry == Permutations(Emails) \cup Permutations(Workers)
=============================================================================
