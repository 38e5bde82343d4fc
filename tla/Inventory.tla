------------------------------- MODULE Inventory -------------------------------
(***************************************************************************)
(* What the entry of vehicles promises of a company's inventory, every     *)
(* request being one step: a vehicle comes with a folder of its            *)
(* dealership, a scanned one with a folder made for it alone, and neither  *)
(* vehicles nor their places are ever lost.                                *)
(*                                                                         *)
(* Catalogue, where the same requests look up, insert, wait, fail and go   *)
(* on row by row, is checked and proved to implement this module.          *)
(***************************************************************************)
CONSTANTS
  Vehicles,          \* pairs of a dealership and a VIN
  Folders,           \* pairs of a dealership and a minute, 0 for a manual folder
  Stock              \* vehicles there may be from before

VARIABLES
  vehicles,          \* the Vehicle rows
  filed              \* the FolderVehicle rows, pairs of a folder and a vehicle

vars == <<vehicles, filed>>

ManualFolder(x) == <<x[1], 0>>
InFolder(f) == {x \in Vehicles : <<f, x>> \in filed}

Init ==
  /\ vehicles \in SUBSET Stock
  /\ filed = {<<ManualFolder(x), x>> : x \in vehicles}

(* New vehicles of the folder's dealership and any that are there already. *)
Enter(f, new, known) ==
  /\ f[2] = 0
  /\ \A x \in new : x[1] = f[1]
  /\ vehicles' = vehicles \cup new
  /\ filed' = filed \cup ({f} \X (new \cup known))

Scan(f, x) ==
  /\ f[2] # 0 /\ f[1] = x[1]
  /\ InFolder(f) = {}
  /\ vehicles' = vehicles \cup {x}
  /\ filed' = filed \cup {<<f, x>>}

Next == \E f \in Folders :
  \/ \E new \in SUBSET (Vehicles \ vehicles), known \in SUBSET vehicles : Enter(f, new, known)
  \/ \E x \in Vehicles \ vehicles : Scan(f, x)

Spec == Init /\ [][Next]_vars
=============================================================================
