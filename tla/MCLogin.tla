-------------------------------- MODULE MCLogin --------------------------------
(* A small instance of Login for TLC.  The devices are interchangeable,   *)
(* and so are the workers. *)
EXTENDS Login, TLC

Symmetry == Permutations(Devices) \cup Permutations(Workers)
=============================================================================
