----------------------------- MODULE MCFolderNames -----------------------------
(* A small instance of FolderNames for TLC.  A name is a sequence: the     *)
(* case "Lot" is written in (0 or 1), then the numbers after it.           *)
EXTENDS FolderNames, Sequences, TLC

Lot == <<0>>
MCAsked == {Lot, <<1>>, <<0, 3>>}
MCScanNames == {<<0, 9>>}
MCNumbered(b, n) == Append(b, n)
MCNames == MCAsked \cup MCScanNames \cup {MCNumbered(b, n) : b \in MCAsked, n \in 1..5}
MCStartsWith(a, b) == Len(a) >= Len(b) /\ \A i \in 2..Len(b) : a[i] = b[i]

Symmetry == Permutations(Requests)
=============================================================================
