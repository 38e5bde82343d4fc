------------------------------ MODULE MCCatalogue ------------------------------
(* A small instance of Catalogue for TLC: two vehicles and two dealerships *)
(* of one company.                                                         *)
EXTENDS Catalogue

CONSTANTS d1, d2, v1, v2

MCStock == {<<d1, v1>>, <<d2, v2>>}

Import(mode, d, file, dry) == [kind |-> mode, at |-> d, rows |-> file, dry |-> dry]

(* Files in either order, one that names a vehicle twice, and dry runs.    *)
MCJobs ==
  [kind : {"create", "scan"}, at : {d1, d2}, rows : {<<v1>>, <<v2>>}, dry : {FALSE}]
    \cup {Import(mode, d1, file, FALSE) :
            mode \in OnConflict, file \in {<<v1, v2>>, <<v2, v1>>, <<v1, v1>>}}
    \cup {Import(mode, d2, <<v2, v1>>, FALSE) : mode \in OnConflict}
    \cup {Import(mode, d1, <<v1, v2>>, TRUE) : mode \in OnConflict}
=============================================================================
