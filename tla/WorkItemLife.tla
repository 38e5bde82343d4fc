----------------------------- MODULE WorkItemLife -----------------------------
(***************************************************************************)
(* What the recon and vendor pages promise of a vehicle's work items: an   *)
(* item has no vendor until it is started; starting it, again or for       *)
(* somebody else, names the vendor and files the vehicle in that vendor's  *)
(* folder of the day at once; it is finished from there and never goes     *)
(* back to the start.                                                      *)
(***************************************************************************)
CONSTANTS Items, Vendors, Nobody

VARIABLES
  status,            \* WorkItem.status of each item
  vendor,            \* WorkItem.assigned_vendor of each item
  filed              \* the vendors whose folder of the day holds the vehicle

vars == <<status, vendor, filed>>

Init ==
  /\ status = [i \in Items |-> "not_started"]
  /\ vendor = [i \in Items |-> Nobody]
  /\ filed = {}

Start(i, v) ==
  /\ status' = [status EXCEPT ![i] = "in_progress"]
  /\ vendor' = [vendor EXCEPT ![i] = v]
  /\ filed' = filed \cup {v}

Finish(i) ==
  /\ status[i] = "in_progress"
  /\ status' = [status EXCEPT ![i] = "done"]
  /\ UNCHANGED <<vendor, filed>>

Next == \E i \in Items : Finish(i) \/ \E v \in Vendors : Start(i, v)

Spec == Init /\ [][Next]_vars
=============================================================================
