----------------------- MODULE VehiclePipelineProofs -----------------------
(***************************************************************************)
(* What is proved of VehiclePipeline for every set of requests, items, VHR *)
(* fields and folders, and whatever the database makes of the locking      *)
(* query; and of the hammer session of a vehicle, for every set of         *)
(* requests, managers and items, every bound on an estimate and every      *)
(* length of a body.                                                       *)
(***************************************************************************)
EXTENDS VehiclePipeline, SequenceTheorems, FiniteSetTheorems, WellFoundedInduction, TLAPS

----------------------------------------------------------------------------
(* The timeline only ever gets events. *)

LEMMA SingleEvent == ASSUME NEW e \in Event PROVE <<e>> \in Seq(Event)
OBVIOUS

LEMMA MovedIsEvent ==
  ASSUME NEW from \in VehicleStatus \cup {""}, NEW to \in VehicleStatus \cup {""}
  PROVE  Moved(from, to) \in Event
BY DEF Moved, Event

LEMMA NoteIsEvent == Note \in Event
BY MovedIsEvent DEF Note

LEMMA EventsExtendHistory ==
  ASSUME NEW h \in Seq(Event), NEW e \in Seq(Event)
  PROVE  h \o e \in Seq(Event)
BY ConcatProperties

LEMMA OptionalEvent ==
  ASSUME NEW e \in Event, NEW c \in BOOLEAN
  PROVE  (IF c THEN <<e>> ELSE <<>>) \in Seq(Event)
BY SingleEvent, EmptySeq

LEMMA VhrEventsType ==
  ASSUME NEW before \in VehicleStatus, NEW changed \in BOOLEAN
  PROVE  VhrEvents(before, changed) \in Seq(Event)
<1>1. AfterVhr(before) \in VehicleStatus
  BY DEF AfterVhr, VehicleStatus
<1>2. Moved(before, AfterVhr(before)) \in Event
  BY <1>1, MovedIsEvent
<1>3. QED
  BY <1>2, OptionalEvent DEF VhrEvents

LEMMA WinEventsType ==
  ASSUME TypeOK, NEW r \in Requests
  PROVE  WinEvents(r) \in Seq(Event)
<1>1. snap[r].status \in VehicleStatus
  BY DEF TypeOK, Snapshot
<1>2. Moved(snap[r].status, "recon") \in Event
  BY <1>1, MovedIsEvent DEF VehicleStatus
<1>3. (IF MovesToRecon(r) THEN <<Moved(snap[r].status, "recon")>> ELSE <<>>) \in Seq(Event)
  BY <1>2, SingleEvent, EmptySeq
<1>4. (IF toSeed[r] # {} THEN <<Note>> ELSE <<>>) \in Seq(Event)
  BY NoteIsEvent, SingleEvent, EmptySeq
<1>5. <<Note>> \in Seq(Event)
  BY NoteIsEvent, SingleEvent
<1>6. QED
  BY <1>3, <1>4, <1>5, EventsExtendHistory DEF WinEvents

----------------------------------------------------------------------------
(* Type correctness. *)

LEMMA FinishType ==
  ASSUME TypeOK, NEW r \in Requests, NEW outcome \in Final, Finish(r, outcome)
  PROVE  /\ pc' \in [Requests -> Stage]
         /\ snap' \in [Requests -> Snapshot]
         /\ toSeed' \in [Requests -> SUBSET Items]
         /\ lock' \in [Rows -> Requests \cup {NoRequest}]
BY DEF TypeOK, Finish, Stage

LEMMA GotoType ==
  ASSUME TypeOK, NEW r \in Requests, NEW stage \in Stage, Goto(r, stage)
  PROVE  pc' \in [Requests -> Stage]
BY DEF TypeOK, Goto

LEMMA NextPhaseType ==
  ASSUME NEW to \in NextPhase
  PROVE  to \in VehicleStatus /\ to \in PHASE_TIMESTAMP_FIELD
BY DEF NextPhase, SUCCESSOR, VehicleStatus, PHASE_TIMESTAMP_FIELD

LEMMA InitType == Init => TypeOK
<1> SUFFICES ASSUME Init PROVE TypeOK
  OBVIOUS
<1>1. status \in VehicleStatus
  BY StatusesAssumption DEF Init
<1>2. history \in Seq(Event)
  BY <1>1, MovedIsEvent, SingleEvent DEF Init
<1>3. QED
  BY <1>1, <1>2 DEF Init, TypeOK, Report, Snapshot, Stage, Rows

LEMMA StepType == TypeOK /\ [Next]_vars => TypeOK'
<1> SUFFICES ASSUME TypeOK, [Next]_vars PROVE TypeOK'
  OBVIOUS
<1> USE DEF TypeOK
<1>1. ASSUME NEW r \in Requests, ReadVehicle(r) PROVE TypeOK'
  <2>1. snap' \in [Requests -> Snapshot]
    BY <1>1 DEF ReadVehicle, Snapshot
  <2>2. pc' \in [Requests -> Stage]
    BY <1>1, GotoType DEF ReadVehicle, Stage, InFlight
  <2>3. QED
    BY <1>1, <2>1, <2>2 DEF ReadVehicle, vehicleVars, ledgerVars, itemVars
<1>2. ASSUME NEW r \in Requests, Advance(r) PROVE TypeOK'
  <2>1. PICK to \in NextPhase, assignee \in {{}} \cup {{b} : b \in Buckets} :
          AdvanceVehiclePhase(to, assignee)
    BY <1>2 DEF Advance
  <2>2. to \in VehicleStatus /\ to \in PHASE_TIMESTAMP_FIELD
    BY NextPhaseType
  <2>3. status' \in VehicleStatus /\ stamps' \subseteq PHASE_TIMESTAMP_FIELD
    BY <2>1, <2>2 DEF AdvanceVehiclePhase
  <2>4. links' \subseteq AUTO_FOLDER_TYPE_FOR_PHASE \X Buckets
    BY <2>1 DEF AdvanceVehiclePhase, PhaseFolders
  <2>5. (IF PhaseFolders(to, assignee) \subseteq links THEN <<>> ELSE <<Note>>) \in Seq(Event)
    BY NoteIsEvent, SingleEvent, EmptySeq
  <2>6. <<Moved(status, to)>> \in Seq(Event)
    BY <2>2, MovedIsEvent, SingleEvent
  <2>7. history' \in Seq(Event)
    BY <2>1, <2>5, <2>6, EventsExtendHistory DEF AdvanceVehiclePhase
  <2>8. QED
    BY <1>2, <2>3, <2>4, <2>7, FinishType DEF Advance, ledgerVars, itemVars, Final
<1>3. ASSUME NEW r \in Requests,
             AdvanceRefused(r) \/ PatchNothing(r) \/ ReconRefused(r) \/ Abort(r)
      PROVE  TypeOK'
  BY <1>3, FinishType
     DEF AdvanceRefused, PatchNothing, ReconRefused, Abort, vehicleVars, ledgerVars, itemVars, Final
<1>4. ASSUME NEW r \in Requests, PatchCommit(r) PROVE TypeOK'
  <2>1. status' \in VehicleStatus
    BY <1>4, StatusesAssumption DEF PatchCommit
  <2>2. history' \in Seq(Event)
    BY <1>4, NoteIsEvent, AppendProperties DEF PatchCommit
  <2>3. QED
    BY <1>4, <2>1, <2>2, FinishType DEF PatchCommit, ledgerVars, itemVars, Final
<1>5. ASSUME NEW r \in Requests, VhrReport(r) PROVE TypeOK'
  <2>0. [snap[r] EXCEPT !.report = report] \in Snapshot
    BY DEF Snapshot
  <2>1. snap' \in [Requests -> Snapshot]
    BY <1>5, <2>0 DEF VhrReport
  <2>2. lock' \in [Rows -> Requests \cup {NoRequest}]
    BY <1>5 DEF VhrReport, Rows
  <2>3. pc' \in [Requests -> Stage]
    BY <1>5, GotoType DEF VhrReport, Stage, InFlight
  <2>4. QED
    BY <1>5, <2>1, <2>2, <2>3 DEF VhrReport, vehicleVars, ledgerVars, itemVars
<1>6. ASSUME NEW r \in Requests, VhrCommit(r) PROVE TypeOK'
  <2>1. snap[r] \in Snapshot
    OBVIOUS
  <2>2. snap[r].status \in VehicleStatus /\ snap[r].report \in Report
    BY <2>1 DEF Snapshot
  <2>3. AfterVhr(snap[r].status) \in VehicleStatus
    BY <2>2 DEF AfterVhr, VehicleStatus
  <2>4. report' \in Report
    BY <1>6, <2>2 DEF VhrCommit, Report
  <2>5. history' \in Seq(Event)
    BY <1>6, <2>2, VhrEventsType, EventsExtendHistory DEF VhrCommit
  <2>6. status' \in VehicleStatus /\ stamps' \subseteq PHASE_TIMESTAMP_FIELD
    BY <1>6, <2>3 DEF VhrCommit, PHASE_TIMESTAMP_FIELD, VehicleStatus
  <2>7. QED
    BY <1>6, <2>4, <2>5, <2>6, FinishType DEF VhrCommit, ledgerVars, itemVars, Final
<1>7. ASSUME NEW r \in Requests, BuyingDecide(r) PROVE TypeOK'
  <2>1. history' \in Seq(Event)
    BY <1>7, NoteIsEvent, AppendProperties DEF BuyingDecide
  <2>2. QED
    BY <1>7, <2>1, FinishType DEF BuyingDecide, itemVars, Final
<1>8. ASSUME NEW r \in Requests, BuyingWin(r) PROVE TypeOK'
  <2>1. lock' \in [Rows -> Requests \cup {NoRequest}]
    BY <1>8 DEF BuyingWin, Rows
  <2>2. pc' \in [Requests -> Stage]
    BY <1>8, GotoType DEF BuyingWin, Stage, InFlight
  <2>3. QED
    BY <1>8, <2>1, <2>2 DEF BuyingWin, vehicleVars, ledgerVars, itemVars
<1>9. ASSUME NEW r \in Requests, SeedRead(r) PROVE TypeOK'
  <2>1. pc' \in [Requests -> Stage]
    BY <1>9, GotoType DEF SeedRead, Stage, InFlight
  <2>2. toSeed' \in [Requests -> SUBSET Items]
    BY <1>9 DEF SeedRead
  <2>3. QED
    BY <1>9, <2>1, <2>2 DEF SeedRead, vehicleVars, ledgerVars, itemVars
<1>10. ASSUME NEW r \in Requests, WinCommit(r) PROVE TypeOK'
  <2>1. status' \in VehicleStatus /\ stamps' \subseteq PHASE_TIMESTAMP_FIELD
    BY <1>10 DEF WinCommit, MoveVehicleToRecon, PHASE_TIMESTAMP_FIELD, VehicleStatus
  <2>2. history' \in Seq(Event)
    BY <1>10, WinEventsType, EventsExtendHistory DEF WinCommit
  <2>3. workItems' \in [Items -> Nat]
    BY <1>10 DEF WinCommit
  <2>4. decision' \in BuyingDecisionStatus \cup {"none"} /\ case' \in ReconStatus \cup {"none"}
    BY <1>10 DEF WinCommit, EnsureReconCase, BuyingDecisionStatus, ReconStatus
  <2>5. QED
    BY <1>10, <2>1, <2>2, <2>3, <2>4, FinishType DEF WinCommit, itemVars, Final
<1>11. ASSUME NEW r \in Requests, ReconLock(r) PROVE TypeOK'
  <2>1. lock' \in [Rows -> Requests \cup {NoRequest}]
    BY <1>11 DEF ReconLock, Rows
  <2>2. pc' \in [Requests -> Stage]
    BY <1>11, GotoType DEF ReconLock, Stage, InFlight
  <2>3. QED
    BY <1>11, <2>1, <2>2 DEF ReconLock, vehicleVars, ledgerVars, itemVars
<1>12. ASSUME NEW r \in Requests, ReconCommit(r) PROVE TypeOK'
  <2>1. PICK outcome \in {"fail", "complete"} :
          /\ case' = outcome
          /\ status' = ClosedStatus(outcome)
          /\ stamps' = StampsAfterClose(r, outcome)
          /\ history' = Append(history, Moved(snap[r].status, ClosedStatus(outcome)))
    BY <1>12 DEF ReconCommit
  <2>2. ClosedStatus(outcome) \in VehicleStatus
    BY DEF ClosedStatus, VehicleStatus
  <2>3. stamps' \subseteq PHASE_TIMESTAMP_FIELD
    BY <2>1 DEF StampsAfterClose, ClosedStamp, ReconTimestamps, PHASE_TIMESTAMP_FIELD, VehicleStatus
  <2>4. snap[r].status \in VehicleStatus
    BY DEF Snapshot
  <2>5. Moved(snap[r].status, ClosedStatus(outcome)) \in Event
    BY <2>2, <2>4, MovedIsEvent
  <2>6. history' \in Seq(Event)
    BY <2>1, <2>5, AppendProperties
  <2>7. case' \in ReconStatus \cup {"none"}
    BY <2>1 DEF ReconStatus
  <2>8. QED
    BY <1>12, <2>1, <2>2, <2>3, <2>6, <2>7, FinishType DEF ReconCommit, itemVars, Final
<1>13. ASSUME NEW i \in Items, AddItem(i) PROVE TypeOK'
  BY <1>13 DEF AddItem, vehicleVars, ledgerVars
<1>14. CASE StartInspection
  BY <1>14 DEF StartInspection, vehicleVars, ledgerVars
<1>15. CASE UNCHANGED vars
  BY <1>15 DEF vars
<1>16. QED
  BY <1>1, <1>2, <1>3, <1>4, <1>5, <1>6, <1>7, <1>8, <1>9, <1>10, <1>11, <1>12,
     <1>13, <1>14, <1>15
  DEF Next, Serve, Finished

(* Every reachable state is well typed (TypeOK). *)
THEOREM TypeCorrect == Spec => []TypeOK
BY InitType, StepType, PTL DEF Spec

----------------------------------------------------------------------------
(* Work items stay unique.  NoDuplicateWorkItems is not inductive: what    *)
(* keeps a WIN from inserting an item twice is that the items it found     *)
(* missing are still missing when it commits, and they are because it      *)
(* holds the decision row, which every other WIN must hold to insert any.  *)

WinHoldsDecision ==
  \A r \in Requests : pc[r] \in {"win", "seeded"} => lock["decision"] = r

SeedsStillMissing ==
  \A r \in Requests : pc[r] = "seeded" => \A i \in toSeed[r] : workItems[i] = 0

SeedInv == WinHoldsDecision /\ SeedsStillMissing /\ NoDuplicateWorkItems

(* Ending a request, or one that takes neither lock nor item, keeps it. *)
LEMMA FinishKeepsSeedInv ==
  ASSUME TypeOK, SeedInv, NEW r \in Requests, NEW outcome \in Final,
         Finish(r, outcome), UNCHANGED workItems
  PROVE  SeedInv'
BY DEF TypeOK, SeedInv, WinHoldsDecision, SeedsStillMissing, NoDuplicateWorkItems,
       Finish, Final, Rows, Stage, InFlight

LEMMA GotoKeepsSeedInv ==
  ASSUME TypeOK, SeedInv, NEW r \in Requests, NEW stage \in Stage \ {"win", "seeded"},
         Goto(r, stage), UNCHANGED <<workItems, toSeed>>, lock'["decision"] = lock["decision"]
  PROVE  SeedInv'
BY DEF TypeOK, SeedInv, WinHoldsDecision, SeedsStillMissing, NoDuplicateWorkItems, Goto

LEMMA SeedInvStep == TypeOK /\ SeedInv /\ [Next]_vars => SeedInv'
<1> SUFFICES ASSUME TypeOK, SeedInv, [Next]_vars PROVE SeedInv'
  OBVIOUS
<1>1. ASSUME NEW r \in Requests,
             \/ Advance(r) \/ AdvanceRefused(r) \/ PatchCommit(r) \/ PatchNothing(r)
             \/ VhrCommit(r) \/ BuyingDecide(r) \/ ReconRefused(r) \/ ReconCommit(r) \/ Abort(r)
      PROVE  SeedInv'
  <2>1. \E outcome \in Final : Finish(r, outcome)
    BY <1>1 DEF Advance, AdvanceRefused, PatchCommit, PatchNothing, VhrCommit, BuyingDecide,
                ReconRefused, ReconCommit, Abort, Final
  <2>2. UNCHANGED workItems
    BY <1>1 DEF Advance, AdvanceRefused, PatchCommit, PatchNothing, VhrCommit, BuyingDecide,
                ReconRefused, ReconCommit, Abort, ledgerVars
  <2>3. QED
    BY <2>1, <2>2, FinishKeepsSeedInv
<1>2. ASSUME NEW r \in Requests, ReadVehicle(r) \/ VhrReport(r) \/ ReconLock(r)
      PROVE  SeedInv'
  <2>1. \E stage \in Stage \ {"win", "seeded"} : Goto(r, stage)
    BY <1>2 DEF ReadVehicle, VhrReport, ReconLock, Stage, InFlight
  <2>2. UNCHANGED <<workItems, toSeed>>
    BY <1>2 DEF ReadVehicle, VhrReport, ReconLock, ledgerVars
  <2>3. lock'["decision"] = lock["decision"]
    BY <1>2 DEF ReadVehicle, VhrReport, ReconLock, TypeOK, Rows
  <2>4. QED
    BY <2>1, <2>2, <2>3, GotoKeepsSeedInv
<1>3. ASSUME NEW r \in Requests, BuyingWin(r) PROVE SeedInv'
  <2>1. \A q \in Requests : pc[q] \notin {"win", "seeded"}
    BY <1>3, RequestsAssumption DEF BuyingWin, Free, SeedInv, WinHoldsDecision
  <2>2. WinHoldsDecision'
    BY <1>3, <2>1 DEF BuyingWin, Goto, TypeOK, WinHoldsDecision, Rows
  <2>3. SeedsStillMissing'
    BY <1>3, <2>1 DEF BuyingWin, Goto, TypeOK, SeedsStillMissing
  <2>4. QED
    BY <1>3, <2>2, <2>3 DEF BuyingWin, SeedInv, NoDuplicateWorkItems, ledgerVars
<1>4. ASSUME NEW r \in Requests, SeedRead(r) PROVE SeedInv'
  BY <1>4 DEF SeedRead, Goto, TypeOK, SeedInv, WinHoldsDecision, SeedsStillMissing,
              NoDuplicateWorkItems, ledgerVars
<1>5. ASSUME NEW r \in Requests, WinCommit(r) PROVE SeedInv'
  <2>1. \A i \in toSeed[r] : workItems[i] = 0
    BY <1>5 DEF WinCommit, SeedInv, SeedsStillMissing
  <2>2. NoDuplicateWorkItems'
    BY <1>5, <2>1 DEF WinCommit, SeedInv, NoDuplicateWorkItems, TypeOK
  <2>3. \A q \in Requests \ {r} : pc[q] \notin {"win", "seeded"}
    BY <1>5 DEF WinCommit, SeedInv, WinHoldsDecision
  <2>4. \A q \in Requests : pc'[q] \notin {"win", "seeded"}
    BY <1>5, <2>3 DEF WinCommit, Finish, TypeOK
  <2>5. QED
    BY <2>2, <2>4 DEF SeedInv, WinHoldsDecision, SeedsStillMissing
<1>6. CASE (\E i \in Items : AddItem(i)) \/ StartInspection \/ UNCHANGED vars
  BY <1>6 DEF AddItem, StartInspection, vars, ledgerVars, SeedInv, WinHoldsDecision,
              SeedsStillMissing, NoDuplicateWorkItems
<1>7. QED
  BY <1>1, <1>2, <1>3, <1>4, <1>5, <1>6 DEF Next, Serve, Finished

LEMMA SeedInvHolds == Spec => []SeedInv
<1>1. Init => SeedInv
  <2> SUFFICES ASSUME Init PROVE SeedInv
    OBVIOUS
  <2>1. \A r \in Requests : pc[r] = "idle"
    BY DEF Init
  <2>2. \A i \in Items : workItems[i] = 0
    BY DEF Init
  <2>3. QED
    BY <2>1, <2>2 DEF SeedInv, WinHoldsDecision, SeedsStillMissing, NoDuplicateWorkItems
<1>2. QED
  BY <1>1, SeedInvStep, TypeCorrect, PTL DEF Spec

(* However many WINs overlap, an inspection item has one work item at most *)
(* (update_buying_decision, _seed_recon_work_items).                       *)
THEOREM WorkItemsUnique == Spec => []NoDuplicateWorkItems
<1>1. SeedInv => NoDuplicateWorkItems
  BY DEF SeedInv
<1>2. QED
  BY <1>1, SeedInvHolds, PTL

----------------------------------------------------------------------------
(* A recon close has a case to close, and leaves the case and the          *)
(* timestamps in agreement.                                                *)

ClosingHasCase == \A r \in Requests : pc[r] = "closing" => case # "none"

CaseInv == ClosingHasCase /\ CaseStamped

LEMMA CaseInvStep == TypeOK /\ CaseInv /\ [Next]_vars => CaseInv'
<1> SUFFICES ASSUME TypeOK, CaseInv, [Next]_vars PROVE CaseInv'
  OBVIOUS
<1> USE DEF CaseInv, ClosingHasCase, CaseStamped
(* Timestamps and the case stay, and no request starts closing. *)
<1>1. ASSUME NEW r \in Requests,
             \/ ReadVehicle(r) \/ Advance(r) \/ AdvanceRefused(r) \/ PatchCommit(r)
             \/ PatchNothing(r) \/ VhrReport(r) \/ VhrCommit(r) \/ BuyingDecide(r)
             \/ BuyingWin(r) \/ SeedRead(r) \/ ReconRefused(r) \/ Abort(r)
      PROVE  CaseInv'
  <2>1. case' = case
    BY <1>1 DEF ReadVehicle, Advance, AdvanceRefused, PatchCommit, PatchNothing, VhrReport,
                VhrCommit, BuyingDecide, BuyingWin, SeedRead, ReconRefused, Abort, ledgerVars
  <2>2. stamps \subseteq stamps'
    BY <1>1 DEF ReadVehicle, Advance, AdvanceVehiclePhase, AdvanceRefused, PatchCommit,
                PatchNothing, VhrReport, VhrCommit, BuyingDecide, BuyingWin, SeedRead,
                ReconRefused, Abort, vehicleVars
  <2>3. \E stage \in Stage \ {"closing"} : pc' = [pc EXCEPT ![r] = stage]
    BY <1>1 DEF ReadVehicle, Advance, AdvanceRefused, PatchCommit, PatchNothing, VhrReport,
                VhrCommit, BuyingDecide, BuyingWin, SeedRead, ReconRefused, Abort,
                Goto, Finish, Stage, InFlight, Final
  <2>4. QED
    BY <2>1, <2>2, <2>3 DEF TypeOK
<1>2. ASSUME NEW r \in Requests, WinCommit(r) PROVE CaseInv'
  <2>1. case' # "none" /\ (case' = case \/ case' = "open")
    BY <1>2 DEF WinCommit, EnsureReconCase
  <2>2. stamps \subseteq stamps'
    BY <1>2 DEF WinCommit, MoveVehicleToRecon
  <2>3. QED
    BY <2>1, <2>2
<1>3. ASSUME NEW r \in Requests, ReconLock(r) PROVE CaseInv'
  BY <1>3 DEF ReconLock, Goto, TypeOK, vehicleVars, ledgerVars
<1>4. ASSUME NEW r \in Requests, ReconCommit(r) PROVE CaseInv'
  BY <1>4 DEF ReconCommit, StampsAfterClose, ClosedStamp
<1>5. CASE (\E i \in Items : AddItem(i)) \/ StartInspection \/ UNCHANGED vars
  BY <1>5 DEF AddItem, StartInspection, vars, vehicleVars, ledgerVars
<1>6. QED
  BY <1>1, <1>2, <1>3, <1>4, <1>5 DEF Next, Serve, Finished

LEMMA CaseInvHolds == Spec => []CaseInv
<1>1. Init => CaseInv
  BY DEF Init, CaseInv, ClosingHasCase, CaseStamped
<1>2. QED
  BY <1>1, CaseInvStep, TypeCorrect, PTL DEF Spec

(* A failed recon case has recon_at set and a completed one complete_at,   *)
(* though ReconStatusView saves both from a row it read before the lock.   *)
THEOREM CaseAndStampsAgree == Spec => []CaseStamped
<1>1. CaseInv => CaseStamped
  BY DEF CaseInv
<1>2. QED
  BY <1>1, CaseInvHolds, PTL

----------------------------------------------------------------------------
(* The decision, the recon case and the work items change as ReconLedger   *)
(* says: every step of a request is one step of it or none.                *)

LEMMA LedgerStep ==
  TypeOK /\ SeedInv /\ CaseInv /\ [Next]_vars => [Ledger!Next]_(Ledger!vars)
<1> SUFFICES ASSUME TypeOK, SeedInv, CaseInv, [Next]_vars
             PROVE  [Ledger!Next]_(Ledger!vars)
  OBVIOUS
<1>1. ASSUME NEW r \in Requests, BuyingDecide(r) PROVE Ledger!Decide
  BY <1>1 DEF BuyingDecide, Ledger!Decide, BuyingDecisionStatus, Ledger!BuyingDecisionStatus
<1>2. ASSUME NEW r \in Requests, WinCommit(r) PROVE Ledger!Win
  <2>1. \A i \in toSeed[r] : workItems[i] = 0
    BY <1>2 DEF WinCommit, SeedInv, SeedsStillMissing
  <2>2. toSeed[r] \in SUBSET {i \in Items : workItems[i] = 0}
    BY <2>1 DEF TypeOK
  <2>3. workItems' = [i \in Items |-> IF i \in toSeed[r] THEN 1 ELSE workItems[i]]
    BY <1>2, <2>1 DEF WinCommit, TypeOK
  <2>4. QED
    BY <1>2, <2>2, <2>3 DEF WinCommit, EnsureReconCase, Ledger!Win
<1>3. ASSUME NEW r \in Requests, ReconCommit(r) PROVE Ledger!Close
  BY <1>3 DEF ReconCommit, Ledger!Close, CaseInv, ClosingHasCase
<1>4. ASSUME NEW r \in Requests,
             \/ ReadVehicle(r) \/ Advance(r) \/ AdvanceRefused(r) \/ PatchCommit(r)
             \/ PatchNothing(r) \/ VhrReport(r) \/ VhrCommit(r) \/ BuyingWin(r)
             \/ SeedRead(r) \/ ReconLock(r) \/ ReconRefused(r) \/ Abort(r)
      PROVE  UNCHANGED Ledger!vars
  BY <1>4 DEF ReadVehicle, Advance, AdvanceRefused, PatchCommit, PatchNothing, VhrReport,
              VhrCommit, BuyingWin, SeedRead, ReconLock, ReconRefused, Abort,
              ledgerVars, Ledger!vars
<1>5. CASE (\E i \in Items : AddItem(i)) \/ StartInspection \/ UNCHANGED vars
  BY <1>5 DEF AddItem, StartInspection, vars, ledgerVars, Ledger!vars
<1>6. QED
  BY <1>1, <1>2, <1>3, <1>4, <1>5 DEF Next, Serve, Finished, Ledger!Next

(* VehiclePipeline implements ReconLedger: interleaved buying and recon    *)
(* requests change the ledger rows as if each were one indivisible step.   *)
THEOREM LedgerRefinement == Spec => LedgerIsAtomic
<1>1. Init => Ledger!Init
  BY DEF Init, Ledger!Init
<1>2. QED
  BY <1>1, LedgerStep, TypeCorrect, SeedInvHolds, CaseInvHolds, PTL
     DEF Spec, LedgerIsAtomic, Ledger!Spec

----------------------------------------------------------------------------
(* What overlapping requests can lose.  A VHR save that found no report    *)
(* created it and kept every other save out until it committed.            *)

ReportInv ==
  /\ ~report.exists => report.data = {}
  /\ \A r \in Requests :
       pc[r] = "vhr_save" /\ ~snap[r].report.exists =>
         lock["report"] = r /\ ~report.exists /\ snap[r].report.data = {}

LEMMA ReportInvStep == TypeOK /\ ReportInv /\ [Next]_vars => ReportInv'
<1> SUFFICES ASSUME TypeOK, ReportInv, [Next]_vars PROVE ReportInv'
  OBVIOUS
<1> USE DEF ReportInv
<1>1. ASSUME NEW r \in Requests,
             \/ Advance(r) \/ AdvanceRefused(r) \/ PatchCommit(r) \/ PatchNothing(r)
             \/ BuyingDecide(r) \/ WinCommit(r) \/ ReconRefused(r) \/ ReconCommit(r) \/ Abort(r)
      PROVE  ReportInv'
  <2>1. report' = report
    BY <1>1 DEF Advance, AdvanceRefused, PatchCommit, PatchNothing, BuyingDecide, WinCommit,
                ReconRefused, ReconCommit, Abort
  <2>2. \E outcome \in Final : Finish(r, outcome)
    BY <1>1 DEF Advance, AdvanceRefused, PatchCommit, PatchNothing, BuyingDecide, WinCommit,
                ReconRefused, ReconCommit, Abort, Final
  <2>3. QED
    BY <2>1, <2>2 DEF Finish, Final, TypeOK, Rows
<1>2. ASSUME NEW r \in Requests,
             ReadVehicle(r) \/ BuyingWin(r) \/ SeedRead(r) \/ ReconLock(r)
      PROVE  ReportInv'
  <2>1. report' = report
    BY <1>2 DEF ReadVehicle, BuyingWin, SeedRead, ReconLock
  <2>2. \E stage \in Stage \ {"vhr_save"} : pc' = [pc EXCEPT ![r] = stage]
    BY <1>2 DEF ReadVehicle, BuyingWin, SeedRead, ReconLock, Goto, Stage, InFlight
  <2>3. \A q \in Requests : snap'[q].report = snap[q].report
    BY <1>2 DEF ReadVehicle, BuyingWin, SeedRead, ReconLock, TypeOK, Snapshot
  <2>4. lock'["report"] = lock["report"]
    BY <1>2 DEF ReadVehicle, BuyingWin, SeedRead, ReconLock, TypeOK, Rows
  <2>5. QED
    BY <2>1, <2>2, <2>3, <2>4 DEF TypeOK
<1>3. ASSUME NEW r \in Requests, VhrReport(r) PROVE ReportInv'
  <2>1. report' = report /\ pc' = [pc EXCEPT ![r] = "vhr_save"]
    BY <1>3 DEF VhrReport, Goto
  <2>2. \A q \in Requests : snap'[q].report = IF q = r THEN report ELSE snap[q].report
    BY <1>3 DEF VhrReport, TypeOK, Snapshot
  <2>3. CASE report.exists
    BY <1>3, <2>1, <2>2, <2>3 DEF VhrReport, TypeOK
  <2>4. CASE ~report.exists
    <3>1. lock["report"] = NoRequest /\ lock'["report"] = r
      BY <1>3, <2>4 DEF VhrReport, Free, TypeOK, Rows
    <3>2. \A q \in Requests : pc[q] = "vhr_save" => snap[q].report.exists
      BY <3>1, RequestsAssumption
    <3>3. QED
      BY <2>1, <2>2, <2>4, <3>1, <3>2 DEF TypeOK
  <2>5. QED
    BY <2>3, <2>4
<1>4. ASSUME NEW r \in Requests, VhrCommit(r) PROVE ReportInv'
  <2>1. report'.exists
    BY <1>4 DEF VhrCommit
  <2>2. \A q \in Requests \ {r} : pc[q] = "vhr_save" => snap[q].report.exists
    BY <1>4, RequestsAssumption DEF VhrCommit, FreeFor
  <2>3. pc' = [pc EXCEPT ![r] = "answered"] /\ snap' = snap
    BY <1>4 DEF VhrCommit, Finish
  <2>4. QED
    BY <2>1, <2>2, <2>3 DEF TypeOK
<1>5. CASE (\E i \in Items : AddItem(i)) \/ StartInspection \/ UNCHANGED vars
  BY <1>5 DEF AddItem, StartInspection, vars
<1>6. QED
  BY <1>1, <1>2, <1>3, <1>4, <1>5 DEF Next, Serve, Finished

LEMMA ReportInvHolds == Spec => []ReportInv
<1>1. Init => ReportInv
  <2> SUFFICES ASSUME Init PROVE ReportInv
    OBVIOUS
  <2>1. report.data = {}
    BY DEF Init
  <2>2. \A r \in Requests : pc[r] = "idle"
    BY DEF Init
  <2>3. QED
    BY <2>1, <2>2 DEF ReportInv
<1>2. QED
  BY <1>1, ReportInvStep, TypeCorrect, PTL DEF Spec

LEMMA AnswerLossStep == TypeOK /\ ReportInv /\ [Next]_vars => NoAnswerLost
<1> SUFFICES ASSUME TypeOK, ReportInv, [Next]_vars PROVE NoAnswerLost
  OBVIOUS
<1>1. ASSUME NEW r \in Requests, VhrCommit(r) PROVE NoAnswerLost
  <2>1. pc[r] = "vhr_save" /\ Answers(r)
    BY <1>1 DEF VhrCommit, Finish, Answers, InFlight, TypeOK
  <2>2. snap[r].report.data \subseteq report'.data
    BY <1>1 DEF VhrCommit
  <2>3. CASE snap[r].report.exists
    BY <2>1, <2>2, <2>3 DEF NoAnswerLost
  <2>4. CASE ~snap[r].report.exists
    BY <2>1, <2>4 DEF NoAnswerLost, ReportInv
  <2>5. QED
    BY <2>3, <2>4
<1>2. ASSUME NEW r \in Requests,
             \/ ReadVehicle(r) \/ Advance(r) \/ AdvanceRefused(r) \/ PatchCommit(r)
             \/ PatchNothing(r) \/ VhrReport(r) \/ BuyingDecide(r) \/ BuyingWin(r)
             \/ SeedRead(r) \/ WinCommit(r) \/ ReconLock(r) \/ ReconRefused(r)
             \/ ReconCommit(r) \/ Abort(r)
      PROVE  report' = report
  BY <1>2 DEF ReadVehicle, Advance, AdvanceRefused, PatchCommit, PatchNothing, VhrReport,
              BuyingDecide, BuyingWin, SeedRead, WinCommit, ReconLock, ReconRefused,
              ReconCommit, Abort
<1>3. CASE (\E i \in Items : AddItem(i)) \/ StartInspection \/ UNCHANGED vars
  BY <1>3 DEF AddItem, StartInspection, vars, NoAnswerLost
<1>4. QED
  BY <1>1, <1>2, <1>3 DEF Next, Serve, Finished, NoAnswerLost

LEMMA StampLossStep == TypeOK /\ [Next]_vars => NoStampLost
<1> SUFFICES ASSUME TypeOK, [Next]_vars PROVE NoStampLost
  OBVIOUS
<1>1. ASSUME NEW r \in Requests, ReconCommit(r) PROVE NoStampLost
  <2>1. pc[r] = "closing" /\ Answers(r)
    BY <1>1 DEF ReconCommit, Finish, Answers, InFlight, TypeOK
  <2>2. PICK outcome \in {"fail", "complete"} : stamps' = StampsAfterClose(r, outcome)
    BY <1>1 DEF ReconCommit
  <2>3. stamps \ stamps' \subseteq {"recon", "complete"}
    BY <2>2 DEF StampsAfterClose, ReconTimestamps
  <2>4. snap[r].stamps = stamps => stamps \subseteq stamps'
    BY <2>2 DEF StampsAfterClose
  <2>5. QED
    BY <2>1, <2>3, <2>4 DEF NoStampLost
<1>2. ASSUME NEW r \in Requests,
             \/ ReadVehicle(r) \/ Advance(r) \/ AdvanceRefused(r) \/ PatchCommit(r)
             \/ PatchNothing(r) \/ VhrReport(r) \/ VhrCommit(r) \/ BuyingDecide(r)
             \/ BuyingWin(r) \/ SeedRead(r) \/ WinCommit(r) \/ ReconLock(r)
             \/ ReconRefused(r) \/ Abort(r)
      PROVE  stamps \subseteq stamps'
  BY <1>2 DEF ReadVehicle, Advance, AdvanceVehiclePhase, AdvanceRefused, PatchCommit,
              PatchNothing, VhrReport, VhrCommit, BuyingDecide, BuyingWin, SeedRead, WinCommit,
              MoveVehicleToRecon, ReconLock, ReconRefused, Abort, vehicleVars
<1>3. CASE (\E i \in Items : AddItem(i)) \/ StartInspection \/ UNCHANGED vars
  BY <1>3 DEF AddItem, StartInspection, vars, vehicleVars, NoStampLost
<1>4. QED
  BY <1>1, <1>2, <1>3 DEF Next, Serve, Finished, NoStampLost

(* Only overlapping requests lose data, whatever their number: an answer   *)
(* of the vehicle history report goes only under a save made from a report *)
(* that has changed since, a timestamp only under a recon close made from  *)
(* a row that has.                                                         *)
THEOREM LossOnlyByOverlap == Spec => LossNeedsOverlap
<1>1. TypeOK /\ ReportInv /\ [Next]_vars => [NoAnswerLost /\ NoStampLost]_vars
  BY AnswerLossStep, StampLossStep
<1>2. QED
  BY <1>1, TypeCorrect, ReportInvHolds, PTL DEF Spec, LossNeedsOverlap
----------------------------------------------------------------------------
(* The timeline.  A step that appends an event e and changes the status    *)
(* from what e says it was to what e says it is has recorded the movement. *)

MoveStep ==
  status' # status =>
    \/ MovementRecorded
    \/ \E r \in Requests :
         /\ Answers(r)
         /\ \/ pc[r] = "patch"
            \/ /\ snap[r].status # status
               /\ \/ pc[r] = "vhr_save"
                  \/ \E n \in (Len(history) + 1)..Len(history') : history'[n].to = status'

(* An event anywhere behind the old timeline is a new one. *)
LEMMA AppendedEvent ==
  \A h, a, b \in Seq(Event), e \in Event :
    \E n \in (Len(h) + 1)..Len(h \o (a \o <<e>> \o b)) : (h \o (a \o <<e>> \o b))[n] = e
<1> TAKE h, a, b \in Seq(Event), e \in Event
<1>1. Len(h) + Len(a) + 1 \in (Len(h) + 1)..Len(h \o (a \o <<e>> \o b))
  OBVIOUS
<1>2. (a \o <<e>> \o b)[Len(a) + 1] = e
  OBVIOUS
<1>3. (h \o (a \o <<e>> \o b))[Len(h) + Len(a) + 1] = e
  BY <1>2
<1>4. QED
  BY <1>1, <1>3

LEMMA AppendedLast ==
  ASSUME NEW h \in Seq(Event), NEW a \in Seq(Event), NEW e \in Event
  PROVE  \E n \in (Len(h) + 1)..Len(h \o a \o <<e>>) : (h \o a \o <<e>>)[n] = e
<1>1. Len(h) + Len(a) + 1 \in (Len(h) + 1)..Len(h \o a \o <<e>>)
  OBVIOUS
<1>2. (h \o a \o <<e>>)[Len(h) + Len(a) + 1] = e
  OBVIOUS
<1>3. QED
  BY <1>1, <1>2

LEMMA AppendedOnly ==
  ASSUME NEW h \in Seq(Event), NEW e \in Event
  PROVE  \E n \in (Len(h) + 1)..Len(h \o <<e>>) : (h \o <<e>>)[n] = e
<1>1. Len(h) + 1 \in (Len(h) + 1)..Len(h \o <<e>>) /\ (h \o <<e>>)[Len(h) + 1] = e
  OBVIOUS
<1>2. QED
  BY <1>1

LEMMA MoveStepHolds == TypeOK /\ [Next]_vars => MoveStep
<1> SUFFICES ASSUME TypeOK, [Next]_vars, status' # status PROVE MoveStep
  BY DEF MoveStep
<1>1. ASSUME NEW r \in Requests, Advance(r) PROVE MoveStep
  <2>1. PICK to \in NextPhase, assignee \in {{}} \cup {{b} : b \in Buckets} :
          AdvanceVehiclePhase(to, assignee)
    BY <1>1 DEF Advance
  <2>2. to \in VehicleStatus /\ status \in VehicleStatus
    BY NextPhaseType DEF TypeOK
  <2> DEFINE linked == IF PhaseFolders(to, assignee) \subseteq links THEN <<>> ELSE <<Note>>
  <2>3. Moved(status, to) \in Event /\ linked \in Seq(Event)
    BY <2>2, MovedIsEvent, NoteIsEvent, SingleEvent, EmptySeq
  <2>4. history' = history \o linked \o <<Moved(status, to)>>
    BY <2>1 DEF AdvanceVehiclePhase
  <2>5. \E n \in (Len(history) + 1)..Len(history') : history'[n] = Moved(status, to)
    <3>1. history \in Seq(Event)
      BY DEF TypeOK
    <3> HIDE DEF linked
    <3>2. QED
      BY <2>3, <2>4, <3>1, AppendedLast, Zenon
  <2>6. status' = to
    BY <2>1 DEF AdvanceVehiclePhase
  <2>7. QED
    BY <2>5, <2>6 DEF MoveStep, MovementRecorded
<1>2. ASSUME NEW r \in Requests, PatchCommit(r) PROVE MoveStep
  BY <1>2 DEF PatchCommit, Finish, Answers, InFlight, TypeOK, MoveStep
<1>3. ASSUME NEW r \in Requests, VhrCommit(r) PROVE MoveStep
  <2>1. Answers(r) /\ pc[r] = "vhr_save"
    BY <1>3 DEF VhrCommit, Finish, Answers, InFlight, TypeOK
  <2>2. CASE snap[r].status # status
    BY <2>1, <2>2 DEF MoveStep
  <2>3. CASE snap[r].status = status
    <3>1. status' = AfterVhr(status)
      BY <1>3, <2>3 DEF VhrCommit
    <3>2. history' = history \o <<Moved(status, status')>>
      BY <1>3, <2>3, <3>1 DEF VhrCommit, VhrEvents
    <3>3. Moved(status, status') \in Event
      BY <3>1 DEF AfterVhr, Event, Moved, TypeOK, VehicleStatus
    <3>4. \E n \in (Len(history) + 1)..Len(history') : history'[n] = Moved(status, status')
      BY <3>2, <3>3, AppendedOnly DEF TypeOK
    <3>5. QED
      BY <3>4 DEF MoveStep, MovementRecorded
  <2>4. QED
    BY <2>2, <2>3
<1>4. ASSUME NEW r \in Requests, WinCommit(r) PROVE MoveStep
  <2>1. Answers(r)
    BY <1>4 DEF WinCommit, Finish, Answers, InFlight, TypeOK
  <2>2. MovesToRecon(r) /\ status' = "recon"
    BY <1>4 DEF WinCommit, MoveVehicleToRecon
  <2> DEFINE seeded == IF toSeed[r] # {} THEN <<Note>> ELSE <<>>
  <2>3. /\ Moved(snap[r].status, "recon") \in Event
        /\ <<Note>> \in Seq(Event)
        /\ seeded \in Seq(Event)
    <3>1. snap[r].status \in VehicleStatus /\ "recon" \in VehicleStatus
      BY DEF TypeOK, Snapshot, VehicleStatus
    <3>2. QED
      BY <3>1, MovedIsEvent, NoteIsEvent, SingleEvent, EmptySeq
  <2>4. history' = history \o (<<Note>> \o <<Moved(snap[r].status, "recon")>> \o seeded)
    BY <1>4, <2>2 DEF WinCommit, WinEvents
  <2>5. PICK n \in (Len(history) + 1)..Len(history') :
          history'[n] = Moved(snap[r].status, "recon")
    <3>1. history \in Seq(Event)
      BY DEF TypeOK
    <3> DEFINE noted == <<Note>>
    <3> DEFINE move == Moved(snap[r].status, "recon")
    <3>2. noted \in Seq(Event) /\ move \in Event /\ seeded \in Seq(Event)
      BY <2>3
    <3>3. history' = history \o (noted \o <<move>> \o seeded)
      BY <2>4
    <3> SUFFICES \E n \in (Len(history) + 1)..Len(history') : history'[n] = move
      OBVIOUS
    <3> HIDE DEF seeded, noted, move
    <3>4. \A a, b \in Seq(Event), e \in Event :
            \E n \in (Len(history) + 1)..Len(history \o (a \o <<e>> \o b)) :
              (history \o (a \o <<e>> \o b))[n] = e
      BY <3>1, AppendedEvent, Zenon
    <3>5. QED
      BY <3>2, <3>3, <3>4, Zenon
  <2>6. QED
    BY <2>1, <2>2, <2>5 DEF MoveStep, MovementRecorded, Moved
<1>5. ASSUME NEW r \in Requests, ReconCommit(r) PROVE MoveStep
  <2>1. Answers(r)
    BY <1>5 DEF ReconCommit, Finish, Answers, InFlight, TypeOK
  <2>2. PICK outcome \in {"fail", "complete"} :
          /\ status' = ClosedStatus(outcome)
          /\ history' = Append(history, Moved(snap[r].status, ClosedStatus(outcome)))
    BY <1>5 DEF ReconCommit
  <2>3. Moved(snap[r].status, status') \in Event
    <3>1. snap[r].status \in VehicleStatus /\ status' \in VehicleStatus
      BY <2>2 DEF TypeOK, Snapshot, VehicleStatus, ClosedStatus
    <3>2. QED
      BY <3>1, MovedIsEvent
  <2>4. history' = history \o <<Moved(snap[r].status, status')>>
    BY <2>2, <2>3 DEF TypeOK
  <2>5. PICK n \in (Len(history) + 1)..Len(history') :
          history'[n] = Moved(snap[r].status, status')
    BY <2>3, <2>4, AppendedOnly DEF TypeOK
  <2>6. QED
    BY <2>1, <2>5 DEF MoveStep, MovementRecorded, Moved
<1>6. ASSUME NEW r \in Requests,
             \/ ReadVehicle(r) \/ AdvanceRefused(r) \/ PatchNothing(r) \/ VhrReport(r)
             \/ BuyingDecide(r) \/ BuyingWin(r) \/ SeedRead(r) \/ ReconLock(r)
             \/ ReconRefused(r) \/ Abort(r)
      PROVE  status' = status
  BY <1>6 DEF ReadVehicle, AdvanceRefused, PatchNothing, VhrReport, BuyingDecide, BuyingWin,
              SeedRead, ReconLock, ReconRefused, Abort, vehicleVars
<1>7. CASE (\E i \in Items : AddItem(i)) \/ StartInspection \/ UNCHANGED vars
  BY <1>7 DEF AddItem, StartInspection, vars, vehicleVars
<1>8. QED
  BY <1>1, <1>2, <1>3, <1>4, <1>5, <1>6, <1>7 DEF Next, Serve, Finished

(* The timeline records every movement except the two kinds named: a PATCH *)
(* that carries a status, and an answer from a row that has changed.       *)
THEOREM TimelineGapsNamed == Spec => MovesRecordedUnlessStale
<1>1. TypeOK /\ [Next]_vars => [MoveStep]_vars
  BY MoveStepHolds
<1>2. QED
  BY <1>1, TypeCorrect, PTL DEF Spec, MovesRecordedUnlessStale, MoveStep

----------------------------------------------------------------------------
(* The hammer session of the vehicle, in the requests of its own endpoint. *)
CONSTANTS Managers, MaxCost, MaxLines
VARIABLES session, lines, holder, stage, copy, draft, line, body, seen
Hammer == INSTANCE HammerSession WITH lock <- holder, pc <- stage

(* The sum over the lines is only ever compared, so its values are taken   *)
(* as they come.                                                           *)
Estimates == [Items -> Hammer!Costs \cup {Hammer!NoLine}]
Sums == {0} \cup {Hammer!Total(ls) : ls \in Estimates}
HammerRow ==
  [exists : BOOLEAN, status : Hammer!HammerSessionStatus, manager : Managers,
   completed : BOOLEAN, total : Sums]
HammerTypes ==
  /\ session \in HammerRow
  /\ lines \in Estimates
  /\ stage \in [Requests -> Hammer!Stage]
  /\ copy \in [Requests -> HammerRow]
  /\ draft \in [Requests -> Estimates]
  /\ line \in [Requests -> (Items \X Hammer!Costs) \cup {<<>>}]
  /\ body \in [Requests -> Nat]
  /\ seen \in [Requests -> Estimates]

Empty(ls) == \A i \in Items : ls[i] = Hammer!NoLine

(* A request goes past the check of the status only with a copy that is a  *)
(* draft, has written nothing before its first line, and saves the sum of  *)
(* the lines it has seen under its own.                                    *)
HammerSound(r) ==
  /\ stage[r] \in {"line", "sum", "save"} => copy[r].status = "draft"
  /\ body[r] = 0 \/ copy[r].status = "finalized" => Empty(draft[r])
  /\ stage[r] = "line" => body[r] > 0 /\ line[r] \in Items \X Hammer!Costs
  /\ stage[r] = "save" => copy[r].total = Hammer!Total(Hammer!Over(draft[r], seen[r]))
  /\ stage[r] = "idle" => body[r] = 0 /\ Empty(draft[r])

HammerInv == HammerTypes /\ \A r \in Requests : HammerSound(r)

LEMMA OverType ==
  ASSUME NEW w \in Estimates, NEW b \in Estimates
  PROVE  /\ Hammer!Over(w, b) \in Estimates
         /\ Empty(w) => Hammer!Over(w, b) = b
         /\ Hammer!Total(b) \in Sums
<1>1. Hammer!Over(w, b) \in Estimates
  BY DEF Hammer!Over, Estimates
<1>2. ASSUME Empty(w) PROVE Hammer!Over(w, b) = b
  BY <1>2 DEF Hammer!Over, Estimates, Empty
<1>3. Hammer!Total(b) \in Sums
  BY DEF Sums
<1>4. QED
  BY <1>1, <1>2, <1>3

LEMMA HammerInit == Hammer!Init => HammerInv
<1> SUFFICES ASSUME Hammer!Init PROVE HammerInv
  OBVIOUS
<1>1. lines \in Estimates /\ Empty(lines)
  BY DEF Hammer!Init, Estimates, Empty
<1>2. session \in HammerRow /\ session.status = "draft"
  BY DEF Hammer!Init, HammerRow, Sums, Hammer!HammerSessionStatus
<1>3. /\ stage = [r \in Requests |-> "idle"]
      /\ copy = [r \in Requests |-> session]
      /\ draft = [r \in Requests |-> lines]
      /\ line = [r \in Requests |-> <<>>]
      /\ body = [r \in Requests |-> 0]
      /\ seen = [r \in Requests |-> lines]
  BY DEF Hammer!Init
<1>4. HammerTypes
  BY <1>1, <1>2, <1>3 DEF HammerTypes, Hammer!Stage, Hammer!InFlight, Hammer!Final
<1>5. \A r \in Requests : HammerSound(r)
  BY <1>1, <1>2, <1>3 DEF HammerSound
<1>6. QED
  BY <1>4, <1>5 DEF HammerInv

(* A request ends and its writes are dropped. *)
LEMMA HammerEnd ==
  ASSUME HammerInv, NEW r \in Requests, NEW o \in {"answered", "refused", "aborted"},
         Hammer!End(r, o), session' \in HammerRow, lines' \in Estimates
  PROVE  HammerInv'
<1> DEFINE none == [i \in Items |-> Hammer!NoLine]
<1>1. none \in Estimates /\ Empty(none)
  BY DEF Estimates, Empty
<1>2. /\ stage' = [stage EXCEPT ![r] = o]
      /\ draft' = [draft EXCEPT ![r] = none]
      /\ line' = [line EXCEPT ![r] = <<>>]
      /\ copy' = copy /\ body' = body /\ seen' = seen
  BY DEF Hammer!End, Hammer!Goto
<1> HIDE DEF none
<1>3. HammerTypes'
  BY <1>1, <1>2 DEF HammerInv, HammerTypes, Hammer!Stage, Hammer!InFlight, Hammer!Final
<1>4. ASSUME NEW q \in Requests PROVE HammerSound(q)'
  <2>1. CASE q = r
    <3>1. stage'[r] = o /\ draft'[r] = none
      BY <1>2 DEF HammerInv, HammerTypes
    <3>2. Empty(draft[r])'
      BY <1>1, <3>1 DEF Empty
    <3>3. QED
      BY <2>1, <3>1, <3>2 DEF HammerSound
  <2>2. CASE q # r
    <3>1. /\ stage'[q] = stage[q] /\ draft'[q] = draft[q] /\ line'[q] = line[q]
          /\ copy'[q] = copy[q] /\ body'[q] = body[q] /\ seen'[q] = seen[q]
      BY <1>2, <2>2 DEF HammerInv, HammerTypes
    <3>2. QED
      BY <3>1 DEF HammerInv, HammerSound, Empty
  <2>3. QED
    BY <2>1, <2>2
<1>5. QED
  BY <1>3, <1>4 DEF HammerInv

(* A request goes on, and no committed row changes. *)
HammerGoesOn(r) ==
  /\ UNCHANGED <<session, lines>>
  /\ stage' \in [Requests -> Hammer!Stage]
  /\ copy' \in [Requests -> HammerRow]
  /\ draft' \in [Requests -> Estimates]
  /\ line' \in [Requests -> (Items \X Hammer!Costs) \cup {<<>>}]
  /\ body' \in [Requests -> Nat]
  /\ seen' \in [Requests -> Estimates]
  /\ \A q \in Requests \ {r} :
       /\ stage'[q] = stage[q] /\ draft'[q] = draft[q] /\ line'[q] = line[q]
       /\ copy'[q] = copy[q] /\ body'[q] = body[q] /\ seen'[q] = seen[q]

LEMMA HammerOn ==
  ASSUME HammerInv, NEW r \in Requests, HammerGoesOn(r), HammerSound(r)'
  PROVE  HammerInv'
<1>1. HammerTypes'
  BY DEF HammerInv, HammerTypes, HammerGoesOn
<1>2. ASSUME NEW q \in Requests PROVE HammerSound(q)'
  <2>1. CASE q = r
    BY <2>1
  <2>2. CASE q # r
    <3>1. /\ stage'[q] = stage[q] /\ draft'[q] = draft[q] /\ line'[q] = line[q]
          /\ copy'[q] = copy[q] /\ body'[q] = body[q] /\ seen'[q] = seen[q]
      BY <2>2 DEF HammerGoesOn
    <3>2. QED
      BY <3>1 DEF HammerInv, HammerSound, Empty
  <2>3. QED
    BY <2>1, <2>2
<1>3. QED
  BY <1>1, <1>2 DEF HammerInv

LEMMA HammerReads ==
  ASSUME HammerInv, NEW r \in Requests,
         Hammer!CreateSession(r) \/ Hammer!ReadSession(r) \/ Hammer!ClaimSession(r)
  PROVE  HammerInv'
<1>1. /\ UNCHANGED <<session, lines, draft, line, body, seen>>
      /\ stage[r] \in {"idle", "claim"}
      /\ \E s \in {"lines", "claim"} : stage' = [stage EXCEPT ![r] = s]
  BY DEF Hammer!CreateSession, Hammer!ReadSession, Hammer!ClaimSession, Hammer!Goto
<1>2. \/ copy' = copy /\ stage[r] = "claim"
      \/ \E c \in HammerRow : copy' = [copy EXCEPT ![r] = c] /\ stage[r] = "idle"
  <2>1. CASE Hammer!CreateSession(r)
    <3>1. PICK m \in Managers :
            copy' = [copy EXCEPT ![r] = [session EXCEPT !.exists = TRUE, !.manager = m]]
      BY <2>1 DEF Hammer!CreateSession
    <3>2. [session EXCEPT !.exists = TRUE, !.manager = m] \in HammerRow
      BY DEF HammerInv, HammerTypes, HammerRow
    <3>3. QED
      BY <2>1, <3>1, <3>2 DEF Hammer!CreateSession
  <2>2. CASE Hammer!ReadSession(r)
    <3>1. PICK m \in Managers : copy' = [copy EXCEPT ![r] = [session EXCEPT !.manager = m]]
      BY <2>2 DEF Hammer!ReadSession
    <3>2. [session EXCEPT !.manager = m] \in HammerRow
      BY DEF HammerInv, HammerTypes, HammerRow
    <3>3. QED
      BY <2>2, <3>1, <3>2 DEF Hammer!ReadSession
  <2>3. CASE Hammer!ClaimSession(r)
    BY <2>3 DEF Hammer!ClaimSession
  <2>4. QED
    BY <2>1, <2>2, <2>3
<1>3. HammerGoesOn(r)
  BY <1>1, <1>2
  DEF HammerInv, HammerTypes, HammerGoesOn, Hammer!Stage, Hammer!InFlight
<1>4. HammerSound(r)'
  <2>1. stage'[r] \in {"lines", "claim"}
    BY <1>1 DEF HammerInv, HammerTypes
  <2>2. copy'[r] = copy[r] \/ (body[r] = 0 /\ Empty(draft[r]))
    BY <1>1, <1>2 DEF HammerInv, HammerTypes, HammerSound
  <2>3. QED
    BY <1>1, <2>1, <2>2 DEF HammerInv, HammerSound, Empty
<1>5. QED
  BY <1>3, <1>4, HammerOn

LEMMA HammerLines ==
  ASSUME HammerInv, NEW r \in Requests,
         Hammer!ReadLine(r) \/ Hammer!SaveLine(r) \/ Hammer!LinesDone(r) \/ Hammer!SumLines(r)
  PROVE  HammerInv'
<1>1. HammerTypes /\ HammerSound(r)
  BY DEF HammerInv
<1>2. CASE Hammer!ReadLine(r)
  <2>1. /\ UNCHANGED <<session, lines, copy, draft, seen>>
        /\ copy[r].status # "finalized" /\ copy[r].status \in Hammer!HammerSessionStatus
        /\ body' = [body EXCEPT ![r] = @ + 1]
    BY <1>1, <1>2 DEF Hammer!ReadLine, Hammer!Finalized, HammerTypes, HammerRow
  <2>2. \/ UNCHANGED <<stage, line>> /\ stage[r] = "lines"
        \/ \E x \in Items \X Hammer!Costs :
             line' = [line EXCEPT ![r] = x] /\ stage' = [stage EXCEPT ![r] = "line"]
    BY <1>2 DEF Hammer!ReadLine, Hammer!Goto
  <2>3. body' \in [Requests -> Nat] /\ body'[r] > 0
        /\ \A q \in Requests \ {r} : body'[q] = body[q]
    BY <1>1, <2>1 DEF HammerTypes
  <2>4. HammerGoesOn(r)
    <3>1. /\ stage' \in [Requests -> Hammer!Stage]
          /\ line' \in [Requests -> (Items \X Hammer!Costs) \cup {<<>>}]
          /\ \A q \in Requests \ {r} : stage'[q] = stage[q] /\ line'[q] = line[q]
      BY <1>1, <2>2 DEF HammerTypes, Hammer!Stage, Hammer!InFlight
    <3>2. /\ copy' \in [Requests -> HammerRow] /\ draft' \in [Requests -> Estimates]
          /\ seen' \in [Requests -> Estimates]
      BY <1>1, <2>1 DEF HammerTypes
    <3>3. QED
      BY <2>1, <2>3, <3>1, <3>2 DEF HammerGoesOn
  <2>5. /\ stage'[r] \in {"lines", "line"}
        /\ stage'[r] = "line" => line'[r] \in Items \X Hammer!Costs
        /\ copy'[r].status = "draft"
    BY <1>1, <2>1, <2>2 DEF HammerTypes, Hammer!HammerSessionStatus
  <2>6. HammerSound(r)'
    BY <2>3, <2>5 DEF HammerSound
  <2>7. QED
    BY <2>4, <2>6, HammerOn
<1>3. CASE Hammer!SaveLine(r)
  <2>1. /\ UNCHANGED <<session, lines, copy, line, body, seen>>
        /\ draft' = [draft EXCEPT ![r] = [draft[r] EXCEPT ![line[r][1]] = line[r][2]]]
        /\ stage[r] = "line" /\ stage' = [stage EXCEPT ![r] = "lines"]
    BY <1>3 DEF Hammer!SaveLine, Hammer!Goto
  <2>2. body[r] > 0 /\ copy[r].status = "draft" /\ line[r] \in Items \X Hammer!Costs
    BY <1>1, <2>1 DEF HammerSound
  <2>3. [draft[r] EXCEPT ![line[r][1]] = line[r][2]] \in Estimates
    BY <1>1, <2>2 DEF HammerTypes, Estimates
  <2>4. HammerGoesOn(r)
    BY <1>1, <2>1, <2>3 DEF HammerTypes, HammerGoesOn, Hammer!Stage, Hammer!InFlight
  <2>5. stage'[r] = "lines" /\ body[r] # 0
    BY <1>1, <2>1, <2>2 DEF HammerTypes
  <2>6. HammerSound(r)'
    BY <2>1, <2>2, <2>5 DEF HammerSound
  <2>7. QED
    BY <2>4, <2>6, HammerOn
<1>4. CASE Hammer!LinesDone(r)
  <2>1. /\ UNCHANGED <<session, lines, copy, draft, line, body, seen>>
        /\ stage' = [stage EXCEPT ![r] = "sum"]
        /\ copy[r].status # "finalized" /\ copy[r].status \in Hammer!HammerSessionStatus
    BY <1>1, <1>4
    DEF Hammer!LinesDone, Hammer!Goto, Hammer!Finalized, HammerTypes, HammerRow
  <2>2. HammerGoesOn(r)
    BY <1>1, <2>1 DEF HammerTypes, HammerGoesOn, Hammer!Stage, Hammer!InFlight
  <2>3. stage'[r] = "sum" /\ copy[r].status = "draft"
    BY <1>1, <2>1 DEF HammerTypes, Hammer!HammerSessionStatus
  <2>4. HammerSound(r)'
    BY <1>1, <2>1, <2>3 DEF HammerSound, Empty
  <2>5. QED
    BY <2>2, <2>4, HammerOn
<1>5. CASE Hammer!SumLines(r)
  <2> DEFINE t == Hammer!Total(Hammer!Over(draft[r], lines))
  <2>1. /\ UNCHANGED <<session, lines, draft, line, body>>
        /\ stage[r] = "sum" /\ stage' = [stage EXCEPT ![r] = "save"]
        /\ copy' = [copy EXCEPT ![r] = [copy[r] EXCEPT !.total = t]]
        /\ seen' = [seen EXCEPT ![r] = lines]
    BY <1>5 DEF Hammer!SumLines, Hammer!Goto
  <2>2. t \in Sums
    BY <1>1, OverType DEF HammerTypes
  <2>3. copy[r] \in HammerRow /\ copy[r].status = "draft"
    BY <1>1, <2>1 DEF HammerTypes, HammerSound
  <2> HIDE DEF t
  <2>4. PICK c \in HammerRow : c = [copy[r] EXCEPT !.total = t]
    BY <2>2, <2>3 DEF HammerRow
  <2>5. c.total = t /\ c.status = "draft"
    BY <2>3, <2>4 DEF HammerRow
  <2>6. copy' = [copy EXCEPT ![r] = c]
    BY <2>1, <2>4
  <2>7. HammerGoesOn(r)
    BY <1>1, <2>1, <2>6 DEF HammerTypes, HammerGoesOn, Hammer!Stage, Hammer!InFlight
  <2>8. copy'[r] = c /\ seen'[r] = lines /\ stage'[r] = "save"
    BY <1>1, <2>1, <2>6 DEF HammerTypes
  <2>9. copy'[r].total = Hammer!Total(Hammer!Over(draft'[r], seen'[r]))
    BY <2>1, <2>5, <2>8 DEF t
  <2>10. body'[r] = 0 => Empty(draft[r])'
    BY <1>1, <2>1 DEF HammerSound, Empty
  <2>11. HammerSound(r)'
    BY <2>5, <2>8, <2>9, <2>10 DEF HammerSound
  <2>12. QED
    BY <2>7, <2>11, HammerOn
<1>6. QED
  BY <1>2, <1>3, <1>4, <1>5

(* A request that ends has changed a committed row only as an answer, whose *)
(* copy was a draft, or as a refusal, which leaves status and total alone.  *)
LEMMA HammerEnds ==
  ASSUME HammerInv, NEW r \in Requests,
         \/ Hammer!RefuseFinalized(r) \/ Hammer!RefuseLine(r)
         \/ Hammer!SaveSession(r) \/ Hammer!Abort(r)
  PROVE  /\ HammerInv' /\ Hammer!Ends(r)
         /\ \/ /\ stage'[r] = "refused"
               /\ session'.status = session.status /\ session'.total = session.total
               /\ lines' = Hammer!Over(draft[r], lines)
            \/ /\ stage'[r] = "answered" /\ copy[r].status = "draft"
               /\ session'.total = Hammer!Total(Hammer!Over(draft[r], seen[r]))
               /\ lines' = Hammer!Over(draft[r], lines)
            \/ UNCHANGED <<session, lines>>
<1>1. HammerTypes /\ HammerSound(r)
  BY DEF HammerInv
<1>2. session \in HammerRow /\ copy[r] \in HammerRow /\ lines \in Estimates
  BY <1>1 DEF HammerTypes
<1>3. Hammer!Over(draft[r], lines) \in Estimates
  BY <1>1, OverType DEF HammerTypes
<1>4. CASE Hammer!RefuseFinalized(r) \/ Hammer!RefuseLine(r)
  <2>1. Hammer!CommitRefused(r) /\ stage[r] = "lines"
    BY <1>4 DEF Hammer!RefuseFinalized, Hammer!RefuseLine
  <2>2. /\ session' = session
           \/ session' = [session EXCEPT !.exists = TRUE, !.manager = copy[r].manager]
        /\ lines' = Hammer!Over(draft[r], lines)
        /\ Hammer!End(r, "refused")
    BY <2>1 DEF Hammer!CommitRefused
  <2>3. session' \in HammerRow
        /\ session'.status = session.status /\ session'.total = session.total
    BY <1>2, <2>2 DEF HammerRow
  <2>4. HammerInv'
    BY <1>3, <2>2, <2>3, HammerEnd
  <2>5. stage'[r] = "refused"
    BY <1>1, <2>2 DEF Hammer!End, Hammer!Goto, HammerTypes
  <2>6. QED
    BY <2>1, <2>2, <2>3, <2>4, <2>5 DEF Hammer!Ends, Hammer!InFlight, Hammer!Final
<1>5. CASE Hammer!SaveSession(r)
  <2>1. PICK finalize \in BOOLEAN : session' = Hammer!Saved(r, finalize)
    BY <1>5 DEF Hammer!SaveSession
  <2>2. /\ stage[r] = "save" /\ lines' = Hammer!Over(draft[r], lines)
        /\ Hammer!End(r, "answered")
    BY <1>5 DEF Hammer!SaveSession
  <2>3. session' \in HammerRow /\ session'.total = copy[r].total
    BY <1>2, <2>1 DEF Hammer!Saved, HammerRow, Hammer!HammerSessionStatus
  <2>4. HammerInv'
    BY <1>3, <2>2, <2>3, HammerEnd
  <2>5. stage'[r] = "answered"
    BY <1>1, <2>2 DEF Hammer!End, Hammer!Goto, HammerTypes
  <2>6. copy[r].status = "draft" /\ copy[r].total = Hammer!Total(Hammer!Over(draft[r], seen[r]))
    BY <1>1, <2>2 DEF HammerSound
  <2>7. QED
    BY <2>2, <2>3, <2>4, <2>5, <2>6 DEF Hammer!Ends, Hammer!InFlight, Hammer!Final
<1>6. CASE Hammer!Abort(r)
  <2>1. Hammer!End(r, "aborted") /\ UNCHANGED <<session, lines>>
        /\ stage[r] \in Hammer!InFlight
    BY <1>6 DEF Hammer!Abort
  <2>2. HammerInv'
    BY <1>2, <2>1, HammerEnd
  <2>3. stage'[r] = "aborted"
    BY <1>1, <2>1 DEF Hammer!End, Hammer!Goto, HammerTypes
  <2>4. QED
    BY <2>1, <2>2, <2>3 DEF Hammer!Ends, Hammer!Final
<1>7. QED
  BY <1>4, <1>5, <1>6

HammerEnding(r) ==
  \/ Hammer!RefuseFinalized(r) \/ Hammer!RefuseLine(r)
  \/ Hammer!SaveSession(r) \/ Hammer!Abort(r)

LEMMA HammerStep ==
  ASSUME HammerInv, [Hammer!Next]_(Hammer!vars)
  PROVE  /\ HammerInv'
         /\ UNCHANGED <<session, lines>> \/ \E r \in Requests : HammerEnding(r)
<1>1. CASE \E r \in Requests : HammerEnding(r)
  BY <1>1, HammerEnds DEF HammerEnding
<1>2. CASE \E r \in Requests :
             Hammer!CreateSession(r) \/ Hammer!ReadSession(r) \/ Hammer!ClaimSession(r)
  BY <1>2, HammerReads
  DEF Hammer!CreateSession, Hammer!ReadSession, Hammer!ClaimSession
<1>3. CASE \E r \in Requests :
             \/ Hammer!ReadLine(r) \/ Hammer!SaveLine(r)
             \/ Hammer!LinesDone(r) \/ Hammer!SumLines(r)
  BY <1>3, HammerLines
  DEF Hammer!ReadLine, Hammer!SaveLine, Hammer!LinesDone, Hammer!SumLines
<1>4. CASE UNCHANGED Hammer!vars
  <2>1. UNCHANGED <<session, lines, stage, copy, draft, line, body, seen>>
    BY <1>4 DEF Hammer!vars
  <2>2. QED
    BY <2>1 DEF HammerInv, HammerTypes, HammerSound, Empty
<1>5. QED
  BY <1>1, <1>2, <1>3, <1>4
  DEF Hammer!Next, Hammer!Serve, Hammer!Finished, HammerEnding

(* The invariant of the hammer session holds in every reachable state. *)
THEOREM HammerInvHolds == Hammer!Spec => []HammerInv
<1>1. HammerInv /\ [Hammer!Next]_(Hammer!vars) => HammerInv'
  BY HammerStep
<1>2. QED
  BY HammerInit, <1>1, PTL DEF Hammer!Spec

(* A finalized hammer session changes its status, its total or a line only *)
(* under a request that read it before it was finalized (upsert_hammer_    *)
(* values tests the copy): a request that reads it later never gets past   *)
(* the test, and has written nothing that its refusal would commit.        *)
THEOREM FinalizedStaysUnlessStale == Hammer!Spec => Hammer!FinalizedEditsAreStale
<1> DEFINE Step ==
      session.status = "finalized"
        /\ <<session'.status, session'.total, lines'>> # <<session.status, session.total, lines>>
      => \E r \in Requests : Hammer!Ends(r) /\ copy[r].status = "draft"
<1>1. ASSUME HammerInv, [Hammer!Next]_(Hammer!vars) PROVE [Step]_(Hammer!vars)
  <2>1. CASE UNCHANGED <<session, lines>>
    BY <2>1
  <2>2. ASSUME NEW r \in Requests, HammerEnding(r) PROVE Step
    <3>1. HammerTypes /\ HammerSound(r) /\ copy[r].status \in {"draft", "finalized"}
      BY <1>1 DEF HammerInv, HammerTypes, HammerRow, Hammer!HammerSessionStatus
    <3>2. copy[r].status = "finalized" => Hammer!Over(draft[r], lines) = lines
      BY <3>1, OverType DEF HammerSound, HammerTypes
    <3>3. QED
      BY <1>1, <2>2, <3>1, <3>2, HammerEnds DEF HammerEnding
  <2>3. QED
    BY <1>1, <2>1, <2>2, HammerStep
<1>2. QED
  BY <1>1, HammerInvHolds, PTL DEF Hammer!Spec, Hammer!FinalizedEditsAreStale

(* The stored total leaves the sum of the lines in two ways only: a body   *)
(* refused at a bad line, whose earlier lines the view commits, and an     *)
(* answer whose sum another commit has outdated.                           *)
THEOREM DriftHasTwoDoors == Hammer!Spec => Hammer!DriftExplained
<1> DEFINE Step ==
      Hammer!Balanced /\ ~Hammer!Balanced' =>
        \E r \in Requests :
          /\ Hammer!Ends(r)
          /\ \/ stage'[r] = "refused" /\ body[r] > 0 /\ copy[r].status = "draft"
             \/ stage'[r] = "answered" /\ seen[r] # lines
<1>1. ASSUME HammerInv, [Hammer!Next]_(Hammer!vars) PROVE [Step]_(Hammer!vars)
  <2>1. CASE UNCHANGED <<session, lines>>
    BY <2>1 DEF Hammer!Balanced
  <2>2. ASSUME NEW r \in Requests, HammerEnding(r) PROVE Step
    <3>1. HammerTypes /\ HammerSound(r) /\ body[r] \in Nat
          /\ copy[r].status \in {"draft", "finalized"}
      BY <1>1 DEF HammerInv, HammerTypes, HammerRow, Hammer!HammerSessionStatus
    <3>2. body[r] = 0 \/ copy[r].status = "finalized" => Hammer!Over(draft[r], lines) = lines
      BY <3>1, OverType DEF HammerSound, HammerTypes
    <3>3. PICK t, u : t = Hammer!Total(lines) /\ u = Hammer!Total(Hammer!Over(draft[r], lines))
      OBVIOUS
    <3>4. QED
      BY <1>1, <2>2, <3>1, <3>2, HammerEnds DEF HammerEnding, Hammer!Balanced
  <2>3. QED
    BY <1>1, <2>1, <2>2, HammerStep
<1>2. QED
  BY <1>1, HammerInvHolds, PTL DEF Hammer!Spec, Hammer!DriftExplained

----------------------------------------------------------------------------
(* The sum of the estimates of the items: a function on the sets of items  *)
(* that satisfies the recursion, of which there is exactly one.            *)
Cost(ls, i) == IF ls[i] = Hammer!NoLine THEN 0 ELSE ls[i]
Pick(s) == CHOOSE x \in s : TRUE
SumWith(ls, s, g) == IF s = {} THEN 0 ELSE Cost(ls, Pick(s)) + g[s \ {Pick(s)}]
Adds(ls, S, g) == g = [s \in SUBSET S |-> SumWith(ls, s, g)]

LEMMA TotalUnfolds ==
  ASSUME NEW ls PROVE Hammer!Total(ls) = (CHOOSE g : Adds(ls, Items, g))[Items]
BY DEF Hammer!Total, Hammer!MapThenSumSet, Hammer!MapThenFoldSet, Adds, SumWith, Pick, Cost

(* Among sets of subsets of a finite set there is always a least one. *)
LEMMA LeastSubset ==
  ASSUME NEW S, IsFiniteSet(S), NEW T \in SUBSET (SUBSET S), T # {}
  PROVE  \E x \in T : \A y \in T : ~(y \subseteq x /\ y # x)
<1>1. IsWellFoundedOn(StrictSubsetOrdering(S), SUBSET S)
  BY FS_StrictSubsetOrderingWellFounded, FS_FiniteSubsetsOfFinite
<1>2. PICK x \in T : \A y \in T : ~(<<y, x>> \in StrictSubsetOrdering(S))
  BY <1>1, WFMin
<1>3. QED
  BY <1>2 DEF StrictSubsetOrdering

LEMMA Picked == ASSUME NEW s, s # {} PROVE Pick(s) \in s /\ s \ {Pick(s)} \subseteq s
                                           /\ s \ {Pick(s)} # s
BY DEF Pick

LEMMA SumsAgree ==
  ASSUME NEW S, IsFiniteSet(S), NEW T \in SUBSET S, NEW U \in SUBSET S, NEW ls, NEW g, NEW h,
         Adds(ls, T, g), Adds(ls, U, h), NEW s \in SUBSET (T \cap U)
  PROVE  g[s] = h[s]
<1> DEFINE Bad == {x \in SUBSET (T \cap U) : g[x] # h[x]}
<1>1. SUFFICES ASSUME Bad # {} PROVE FALSE
  OBVIOUS
<1>2. Bad \in SUBSET (SUBSET S)
  OBVIOUS
<1>3. PICK x \in Bad : \A y \in Bad : ~(y \subseteq x /\ y # x)
  <2> HIDE DEF Bad
  <2>1. QED
    BY <1>1, <1>2, LeastSubset
<1>4. g[x] = SumWith(ls, x, g) /\ h[x] = SumWith(ls, x, h)
  BY DEF Adds
<1>5. CASE x = {}
  BY <1>4, <1>5 DEF SumWith
<1>6. CASE x # {}
  <2>1. g[x \ {Pick(x)}] = h[x \ {Pick(x)}]
    BY <1>3, <1>6, Picked
  <2>2. QED
    BY <1>4, <1>6, <2>1 DEF SumWith
<1>7. QED
  BY <1>5, <1>6

LEMMA SumsExist ==
  ASSUME NEW S, IsFiniteSet(S), NEW ls
  PROVE  \A T \in SUBSET S : \E g : Adds(ls, T, g)
<1> DEFINE Bad == {T \in SUBSET S : ~\E g : Adds(ls, T, g)}
<1>1. SUFFICES ASSUME Bad # {} PROVE FALSE
  OBVIOUS
<1>2. PICK T \in Bad : \A U \in Bad : ~(U \subseteq T /\ U # T)
  <2>1. Bad \in SUBSET (SUBSET S)
    OBVIOUS
  <2> HIDE DEF Bad
  <2>2. QED
    BY <1>1, <2>1, LeastSubset
<1>3. \A U \in SUBSET T : U # T => \E g : Adds(ls, U, g)
  BY <1>2
<1> DEFINE H(U) == CHOOSE g : Adds(ls, U, g)
<1>4. \A U \in SUBSET T : U # T => Adds(ls, U, H(U))
  BY <1>3
<1> DEFINE g == [U \in SUBSET T |->
                   IF U # T THEN H(U)[U]
                   ELSE IF T = {} THEN 0
                   ELSE Cost(ls, Pick(T)) + H(T \ {Pick(T)})[T \ {Pick(T)}]]
<1>5. ASSUME NEW U \in SUBSET T PROVE g[U] = SumWith(ls, U, g)
  <2>1. CASE U = T
    <3>1. CASE T = {}
      BY <2>1, <3>1 DEF SumWith
    <3>2. CASE T # {}
      <4>1. T \ {Pick(T)} \in SUBSET T /\ T \ {Pick(T)} # T
        BY <3>2, Picked
      <4>2. g[T \ {Pick(T)}] = H(T \ {Pick(T)})[T \ {Pick(T)}]
        BY <4>1
      <4>3. g[T] = Cost(ls, Pick(T)) + H(T \ {Pick(T)})[T \ {Pick(T)}]
        BY <3>2
      <4> HIDE DEF g, H
      <4>4. QED
        BY <2>1, <3>2, <4>2, <4>3 DEF SumWith
    <3>3. QED
      BY <3>1, <3>2
  <2>2. CASE U # T
    <3>1. g[U] = H(U)[U] /\ Adds(ls, U, H(U))
      BY <1>4, <2>2
    <3> HIDE DEF H
    <3>2. H(U)[U] = SumWith(ls, U, H(U))
      BY <3>1 DEF Adds
    <3>3. CASE U = {}
      <4> HIDE DEF g
      <4>1. QED
        BY <3>1, <3>2, <3>3 DEF SumWith
    <3>4. CASE U # {}
      <4> DEFINE V == U \ {Pick(U)}
      <4>1. V \in SUBSET U /\ V \in SUBSET T /\ V # T
        BY <2>2, <3>4, Picked
      <4>2. g[V] = H(V)[V] /\ Adds(ls, V, H(V))
        BY <1>4, <4>1
      <4>3. U \in SUBSET S /\ V \in SUBSET S /\ V \in SUBSET (V \cap U)
        BY <4>1
      <4> HIDE DEF g, V
      <4>4. H(V)[V] = H(U)[V]
        BY <3>1, <4>2, <4>3, SumsAgree
      <4>5. g[U] = Cost(ls, Pick(U)) + H(U)[V]
        BY <3>1, <3>2, <3>4 DEF SumWith, V
      <4>6. QED
        BY <3>4, <4>2, <4>4, <4>5 DEF SumWith, V
    <3>5. QED
      BY <3>3, <3>4
  <2>3. QED
    BY <2>1, <2>2
<1>6. g = [U \in SUBSET T |-> SumWith(ls, U, g)]
  <2>1. g = [U \in SUBSET T |-> g[U]]
    OBVIOUS
  <2> HIDE DEF g
  <2>2. QED
    BY <1>5, <2>1
<1>7. Adds(ls, T, g)
  BY <1>6 DEF Adds
<1>8. QED
  BY <1>2, <1>7

LEMMA TotalIsNat ==
  ASSUME IsFiniteSet(Items), MaxCost \in Nat, NEW ls \in Estimates
  PROVE  Hammer!Total(ls) \in Nat
<1>1. PICK g : g = CHOOSE h : Adds(ls, Items, h)
  OBVIOUS
<1>2. Adds(ls, Items, g)
  <2>1. \E h : Adds(ls, Items, h)
    BY SumsExist
  <2>2. QED
    BY <1>1, <2>1
<1> DEFINE Bad == {s \in SUBSET Items : g[s] \notin Nat}
<1>3. Bad = {}
  <2>1. SUFFICES ASSUME Bad # {} PROVE FALSE
    OBVIOUS
  <2>2. Bad \in SUBSET (SUBSET Items)
    OBVIOUS
  <2>3. PICK s \in Bad : \A y \in Bad : ~(y \subseteq s /\ y # s)
    <3> HIDE DEF Bad
    <3>1. QED
      BY <2>1, <2>2, LeastSubset
  <2>4. g[s] = SumWith(ls, s, g)
    BY <1>2 DEF Adds
  <2>5. CASE s = {}
    BY <2>3, <2>4, <2>5 DEF SumWith
  <2>6. CASE s # {}
    <3>1. Pick(s) \in Items /\ g[s \ {Pick(s)}] \in Nat
      BY <2>3, <2>6, Picked
    <3>2. Cost(ls, Pick(s)) \in Nat
      BY <3>1 DEF Cost, Estimates, Hammer!Costs, Hammer!NoLine
    <3>3. QED
      BY <2>3, <2>4, <2>6, <3>1, <3>2 DEF SumWith
  <2>7. QED
    BY <2>5, <2>6
<1>4. QED
  BY <1>1, <1>3, TotalUnfolds

(* The rest of the types: completed_at is set exactly while the session is *)
(* finalized, in the row and in every copy, and a body has so many lines.  *)
HammerColumns ==
  /\ session.completed <=> session.status = "finalized"
  /\ holder \in [Hammer!Rows -> Requests \cup {NoRequest}]
  /\ \A r \in Requests :
       /\ copy[r].completed <=> copy[r].status = "finalized"
       /\ body[r] <= MaxLines

LEMMA HammerColumnsInit ==
  ASSUME Hammer!BoundsAssumption, Hammer!Init PROVE HammerColumns
<1>1. session.completed = FALSE /\ session.status = "draft"
  BY DEF Hammer!Init
<1>2. /\ copy = [r \in Requests |-> session] /\ body = [r \in Requests |-> 0]
      /\ holder = [row \in Hammer!Rows |-> NoRequest]
  BY DEF Hammer!Init
<1>3. QED
  BY <1>1, <1>2 DEF HammerColumns, Hammer!BoundsAssumption

LEMMA HammerColumnsStep ==
  ASSUME Hammer!BoundsAssumption, HammerInv, HammerColumns, [Hammer!Next]_(Hammer!vars)
  PROVE  HammerColumns'
<1>1. HammerTypes
  BY DEF HammerInv
<1>2. ASSUME NEW r \in Requests, NEW row \in Hammer!Rows, Hammer!Lock(row, r)
      PROVE  holder' \in [Hammer!Rows -> Requests \cup {NoRequest}]
  BY <1>2 DEF Hammer!Lock, HammerColumns
<1>3. Hammer!Row \in Hammer!Rows
  BY DEF Hammer!Rows
<1>4. ASSUME NEW r \in Requests, Hammer!CreateSession(r) \/ Hammer!ReadSession(r)
      PROVE  HammerColumns'
  <2>1. PICK c :
          /\ copy' = [copy EXCEPT ![r] = c]
          /\ c.completed <=> c.status = "finalized"
    <3>1. PICK m \in Managers :
            \/ copy' = [copy EXCEPT ![r] = [session EXCEPT !.exists = TRUE, !.manager = m]]
            \/ copy' = [copy EXCEPT ![r] = [session EXCEPT !.manager = m]]
      BY <1>4 DEF Hammer!CreateSession, Hammer!ReadSession
    <3>2. session \in HammerRow
      BY <1>1 DEF HammerTypes
    <3>3. ASSUME NEW c, c = [session EXCEPT !.exists = TRUE, !.manager = m]
                        \/ c = [session EXCEPT !.manager = m]
          PROVE  c.completed = session.completed /\ c.status = session.status
      BY <3>2, <3>3 DEF HammerRow
    <3>4. QED
      BY <3>1, <3>3 DEF HammerColumns
  <2>2. UNCHANGED <<session, body>>
    BY <1>4 DEF Hammer!CreateSession, Hammer!ReadSession
  <2>3. holder' \in [Hammer!Rows -> Requests \cup {NoRequest}]
    BY <1>2, <1>3, <1>4 DEF Hammer!CreateSession, Hammer!ReadSession, HammerColumns
  <2>4. QED
    BY <1>1, <2>1, <2>2, <2>3 DEF HammerColumns, HammerTypes
<1>5. ASSUME NEW r \in Requests,
             Hammer!ClaimSession(r) \/ Hammer!SaveLine(r) \/ Hammer!LinesDone(r)
      PROVE  HammerColumns'
  <2>1. UNCHANGED <<session, copy, body>>
    BY <1>5 DEF Hammer!ClaimSession, Hammer!SaveLine, Hammer!LinesDone
  <2>2. holder' \in [Hammer!Rows -> Requests \cup {NoRequest}]
    <3>1. CASE Hammer!SaveLine(r)
      <4>1. line[r] \in Items \X Hammer!Costs
        BY <3>1 DEF HammerInv, HammerSound, Hammer!SaveLine
      <4>2. line[r][1] \in Hammer!Rows
        BY <4>1 DEF Hammer!Rows
      <4>3. QED
        BY <1>2, <3>1, <4>2 DEF Hammer!SaveLine
    <3>2. CASE Hammer!ClaimSession(r) \/ Hammer!LinesDone(r)
      BY <1>2, <1>3, <3>2 DEF Hammer!ClaimSession, Hammer!LinesDone, HammerColumns
    <3>3. QED
      BY <1>5, <3>1, <3>2
  <2>3. QED
    BY <2>1, <2>2 DEF HammerColumns
<1>6. ASSUME NEW r \in Requests, Hammer!ReadLine(r) PROVE HammerColumns'
  <2>1. UNCHANGED <<session, copy, holder>>
        /\ body' = [body EXCEPT ![r] = @ + 1] /\ body[r] < MaxLines
    BY <1>6 DEF Hammer!ReadLine
  <2>2. body[r] \in Nat
    BY <1>1 DEF HammerTypes
  <2>3. \A q \in Requests : body'[q] = IF q = r THEN body[r] + 1 ELSE body[q]
    BY <1>1, <2>1 DEF HammerTypes
  <2>4. body[r] + 1 <= MaxLines
    BY <2>1, <2>2 DEF Hammer!BoundsAssumption
  <2>5. QED
    BY <2>1, <2>3, <2>4 DEF HammerColumns
<1>7. ASSUME NEW r \in Requests, Hammer!SumLines(r) PROVE HammerColumns'
  <2> DEFINE t == Hammer!Total(Hammer!Over(draft[r], lines))
  <2>1. /\ UNCHANGED <<session, body, holder>>
        /\ copy' = [copy EXCEPT ![r] = [copy[r] EXCEPT !.total = t]]
    BY <1>7 DEF Hammer!SumLines
  <2>2. copy[r] \in HammerRow
    BY <1>1 DEF HammerTypes
  <2> HIDE DEF t
  <2>3. PICK c : c = [copy[r] EXCEPT !.total = t]
    OBVIOUS
  <2>4. c.completed = copy[r].completed /\ c.status = copy[r].status
    BY <2>2, <2>3 DEF HammerRow
  <2>5. \A q \in Requests : copy'[q] = IF q = r THEN c ELSE copy[q]
    BY <1>1, <2>1, <2>3 DEF HammerTypes
  <2>6. QED
    BY <2>1, <2>4, <2>5 DEF HammerColumns
<1>8. ASSUME NEW r \in Requests, HammerEnding(r) PROVE HammerColumns'
  <2>1. PICK o : Hammer!End(r, o)
    BY <1>8 DEF HammerEnding, Hammer!RefuseFinalized, Hammer!RefuseLine,
                Hammer!CommitRefused, Hammer!SaveSession, Hammer!Abort
  <2>2. UNCHANGED <<copy, body>>
        /\ holder' = [row \in Hammer!Rows |-> IF holder[row] = r THEN NoRequest ELSE holder[row]]
    BY <2>1 DEF Hammer!End
  <2>3. holder' \in [Hammer!Rows -> Requests \cup {NoRequest}]
    BY <2>2 DEF HammerColumns
  <2>4. session \in HammerRow /\ copy[r] \in HammerRow
    BY <1>1 DEF HammerTypes
  <2>5. session'.completed <=> session'.status = "finalized"
    <3>1. CASE Hammer!SaveSession(r)
      <4>1. PICK finalize \in BOOLEAN : session' = Hammer!Saved(r, finalize)
        BY <3>1 DEF Hammer!SaveSession
      <4>2. /\ session'.status = (IF finalize THEN "finalized" ELSE copy[r].status)
            /\ session'.completed = (finalize \/ copy[r].completed)
        BY <2>4, <4>1 DEF Hammer!Saved, HammerRow
      <4>3. QED
        BY <4>2, Zenon DEF HammerColumns
    <3>2. CASE Hammer!CommitRefused(r)
      <4>1. session' = session
              \/ session' = [session EXCEPT !.exists = TRUE, !.manager = copy[r].manager]
        BY <3>2 DEF Hammer!CommitRefused
      <4>2. session'.completed = session.completed /\ session'.status = session.status
        BY <2>4, <4>1 DEF HammerRow
      <4>3. QED
        BY <4>2 DEF HammerColumns
    <3>3. CASE UNCHANGED session
      BY <3>3 DEF HammerColumns
    <3>4. QED
      BY <1>8, <3>1, <3>2, <3>3
      DEF HammerEnding, Hammer!RefuseFinalized, Hammer!RefuseLine, Hammer!Abort
  <2>6. QED
    BY <2>2, <2>3, <2>5 DEF HammerColumns
<1>9. CASE UNCHANGED Hammer!vars
  BY <1>9 DEF Hammer!vars, HammerColumns
<1>10. QED
  BY <1>4, <1>5, <1>6, <1>7, <1>8, <1>9
  DEF Hammer!Next, Hammer!Serve, Hammer!Finished, HammerEnding

(* The rows hold what their columns allow: in particular the total is a    *)
(* number, whatever the estimates, and completed_at is set exactly while   *)
(* the session is finalized, although late saves put back old copies of    *)
(* both columns (session.save).                                            *)
THEOREM HammerTypeCorrect ==
  ASSUME Hammer!BoundsAssumption, Hammer!ItemsAssumption
  PROVE  Hammer!Spec => []Hammer!TypeOK
<1>1. ASSUME HammerInv, HammerColumns PROVE Hammer!TypeOK
  <2>1. Sums \subseteq Nat
    <3>1. IsFiniteSet(Items)
      BY DEF Hammer!ItemsAssumption, Hammer!IsFiniteSet, IsFiniteSet
    <3>2. MaxCost \in Nat
      BY DEF Hammer!BoundsAssumption
    <3>3. ASSUME NEW ls \in Estimates PROVE Hammer!Total(ls) \in Nat
      BY <3>1, <3>2, TotalIsNat
    <3>4. QED
      BY <3>3 DEF Sums
  <2>2. \A s \in HammerRow : s \in Hammer!Session
    BY <2>1 DEF HammerRow, Hammer!Session
  <2>3. body \in [Requests -> 0..MaxLines]
    BY <1>1 DEF HammerInv, HammerTypes, HammerColumns, Hammer!BoundsAssumption
  <2>4. session \in Hammer!Session /\ copy \in [Requests -> Hammer!Session]
    BY <1>1, <2>2 DEF HammerInv, HammerTypes
  <2>5. QED
    BY <1>1, <2>3, <2>4
    DEF HammerInv, HammerTypes, HammerColumns, Hammer!TypeOK, Estimates
<1>2. Hammer!Init => HammerColumns
  BY HammerColumnsInit
<1>3. HammerInv /\ HammerColumns /\ [Hammer!Next]_(Hammer!vars) => HammerColumns'
  BY HammerColumnsStep
<1>4. QED
  BY <1>1, <1>2, <1>3, HammerInvHolds, PTL DEF Hammer!Spec
=============================================================================
