------------------------------- MODULE MCAccounts -------------------------------
(* A small instance of Accounts for TLC, with names like "Acme" and        *)
(* "Acme!" that have all their slugs in common.  The people are            *)
(* interchangeable, as are the names and the workers.                      *)
EXTENDS Accounts, TLC

MCSlug(n, i) == i

Symmetry == Permutations(Emails) \cup Permutations(Names) \cup Permutations(Workers)
=============================================================================
