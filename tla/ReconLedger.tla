---------------------------- MODULE ReconLedger ----------------------------
(***************************************************************************)
(* What the buying and recon endpoints promise about one vehicle, with     *)
(* every request taken as one indivisible step: a buying decision is       *)
(* replaced as a whole, a WIN opens the recon case if there is none and    *)
(* gives each inspection item that has no work item exactly one, and a     *)
(* recon case, once closed, is only ever closed again.                     *)
(*                                                                         *)
(* VehiclePipeline, where the same requests read first and write later     *)
(* under row locks, is checked and proved to implement this module.        *)
(***************************************************************************)
EXTENDS Naturals

CONSTANT Items              \* inspection items of the vehicle

VARIABLES
  decision,                 \* the BuyingDecision row, "none" before it exists
  case,                     \* the ReconCase row's status, "none" before it exists
  workItems                 \* number of WorkItem rows sourced from each item

vars == <<decision, case, workItems>>

BuyingDecisionStatus == {"win", "loss", "pending"}
ReconStatus == {"open", "fail", "complete"}

Init ==
  /\ decision = "none"
  /\ case = "none"
  /\ workItems = [i \in Items |-> 0]

(* A decision other than WIN touches nothing but the decision row. *)
Decide ==
  /\ decision' \in BuyingDecisionStatus \ {"win"}
  /\ UNCHANGED <<case, workItems>>

(* A WIN opens the case when there is none (it does not reopen a closed    *)
(* one) and creates a work item for some items that have none.             *)
Win ==
  /\ decision' = "win"
  /\ case' = IF case = "none" THEN "open" ELSE case
  /\ \E new \in SUBSET {i \in Items : workItems[i] = 0} :
       workItems' = [i \in Items |-> IF i \in new THEN 1 ELSE workItems[i]]

(* Recon is closed, or closed again with another outcome. *)
Close ==
  /\ case # "none"
  /\ case' \in {"fail", "complete"}
  /\ UNCHANGED <<decision, workItems>>

Next == Decide \/ Win \/ Close

Spec == Init /\ [][Next]_vars
=============================================================================
