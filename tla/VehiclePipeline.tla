-------------------------- MODULE VehiclePipeline --------------------------
(***************************************************************************)
(* One vehicle row and the HTTP requests that move it through the          *)
(* pipeline: phase advance, VHR save, generic PATCH, buying decision and   *)
(* recon close.  Requests run in several gunicorn workers at once; the     *)
(* database is PostgreSQL at READ COMMITTED, so a request works on the     *)
(* copy of the row it read and its writes appear together at commit.       *)
(*                                                                         *)
(* A request is split exactly where another one can come between: after    *)
(* the read that fills its snapshot, where it takes a row lock it holds    *)
(* while it may still have to wait, and at commit.  Vehicles do not        *)
(* interact in this code, so the module follows one of them.  Requests     *)
(* refused before they read anything (no permission, malformed body)       *)
(* change nothing and are left out.                                        *)
(***************************************************************************)
EXTENDS Naturals, Sequences

CONSTANTS
  Requests,             \* request identities, each used once
  NoRequest,            \* the holder of a free lock
  Items,                \* inspection items the vehicle may come to have
  VhrFields,            \* keys of the vehicle history report
  Buckets,              \* (calendar day, assignee) pairs that name auto folders
  CreateStatuses,       \* statuses the vehicle may be created with
  PatchStatuses,        \* statuses a generic PATCH may carry
  OuterJoinLockable     \* whether the database accepts FOR UPDATE over the
                        \* nullable side of an outer join (PostgreSQL does not)

VehicleStatus ==
  {"uploaded", "vhr", "inspection", "hammer", "buying", "recon",
   "recon_fail", "complete"}

ASSUME RequestsAssumption == NoRequest \notin Requests
ASSUME StatusesAssumption ==
  CreateStatuses \subseteq VehicleStatus /\ PatchStatuses \subseteq VehicleStatus
ASSUME LockableAssumption == OuterJoinLockable \in BOOLEAN

VARIABLES
  (* the database, as committed *)
  status,               \* Vehicle.status
  stamps,               \* the phases whose <phase>_at field is set
  links,                \* auto folders, (phase, bucket), that hold the vehicle
  report,               \* the VehicleHistoryReport row: answered keys
  history,              \* the HistoryEvent rows, oldest first
  decision,             \* the BuyingDecision row, "none" before it exists
  case,                 \* the ReconCase row's status, "none" before it exists
  workItems,            \* number of WorkItem rows sourced from each item
  (* inspections, which no code of the repository creates *)
  latest,               \* items of the vehicle's latest inspection
  retired,              \* items of its earlier inspections
  (* the requests *)
  pc,                   \* how far each request has come
  snap,                 \* the vehicle fields (and report) each request has read
  toSeed,               \* items a WIN found without a work item
  lock                  \* holder of each row lock held across a wait

vehicleVars == <<status, stamps, links, history>>
ledgerVars  == <<decision, case, workItems>>
itemVars    == <<latest, retired>>
vars == <<status, stamps, links, report, history, decision, case, workItems,
          latest, retired, pc, snap, toSeed, lock>>

BuyingDecisionStatus == {"win", "loss", "pending"}
ReconStatus == {"open", "fail", "complete"}

(* The phases with a successor, in pipeline order. *)
SUCCESSOR ==
  [s \in VehicleStatus \ {"recon_fail", "complete"} |->
     CASE s = "uploaded"   -> "vhr"
       [] s = "vhr"        -> "inspection"
       [] s = "inspection" -> "hammer"
       [] s = "hammer"     -> "buying"
       [] s = "buying"     -> "recon"
       [] s = "recon"      -> "complete"]

PHASE_TIMESTAMP_FIELD == VehicleStatus \ {"uploaded", "recon_fail"}
AUTO_FOLDER_TYPE_FOR_PHASE == {"inspection", "buying", "recon"}

(* Variant for the mutation check: get_next_phase without its None result. *)
NextPhaseUnchecked == {IF status \in DOMAIN SUCCESSOR THEN SUCCESSOR[status] ELSE ""}

(* The successor, if the status has one. *)
NextPhase == {SUCCESSOR[s] : s \in {status} \cap DOMAIN SUCCESSOR}

Rows == {"decision", "vehicle", "case", "report"}

Report == [exists : BOOLEAN, data : SUBSET VhrFields]
Snapshot == [status : VehicleStatus, stamps : SUBSET PHASE_TIMESTAMP_FIELD,
             report : Report]

(* A timeline entry.  Only a movement carries the two statuses. *)
Event == [from : VehicleStatus \cup {""}, to : VehicleStatus \cup {""}]
Moved(from, to) == [from |-> from, to |-> to]
Note == Moved("", "")

(* The stages of a request.  "vhr", "patch", "buying" and "recon" have     *)
(* read the vehicle; "vhr_save" has read the report; "win" and "seeded"    *)
(* are inside the transaction of a WIN; "closing" holds the recon case.    *)
InFlight == {"vhr", "vhr_save", "patch", "buying", "win", "seeded", "recon", "closing"}
Final == {"answered", "refused", "aborted"}
Stage == {"idle"} \cup InFlight \cup Final

----------------------------------------------------------------------------
Free(row) == lock[row] = NoRequest
FreeFor(row, r) == lock[row] \in {NoRequest, r}

(* Variant: a rolled back transaction keeps its row locks. *)
FinishLeaky(r, outcome) ==
  /\ pc' = [pc EXCEPT ![r] = outcome]
  /\ lock' = [row \in Rows |->
                IF lock[row] = r /\ outcome # "aborted" THEN NoRequest ELSE lock[row]]
  /\ UNCHANGED <<snap, toSeed>>

(* Commit or roll back: the request ends and its row locks go. *)
Finish(r, outcome) ==
  /\ pc' = [pc EXCEPT ![r] = outcome]
  /\ lock' = [row \in Rows |-> IF lock[row] = r THEN NoRequest ELSE lock[row]]
  /\ UNCHANGED <<snap, toSeed>>

Goto(r, stage) == pc' = [pc EXCEPT ![r] = stage]

(* The vehicle is created with any status the body names ("uploaded" when  *)
(* it names none), no phase timestamp and a first timeline event.          *)
Init ==
  /\ status \in CreateStatuses
  /\ stamps = {}
  /\ links = {}
  /\ report = [exists |-> FALSE, data |-> {}]
  /\ history = <<Moved("", status)>>
  /\ decision = "none"
  /\ case = "none"
  /\ workItems = [i \in Items |-> 0]
  /\ latest = {}
  /\ retired = {}
  /\ pc = [r \in Requests |-> "idle"]
  /\ snap = [r \in Requests |->
               [status |-> status, stamps |-> {}, report |-> report]]
  /\ toSeed = [r \in Requests |-> {}]
  /\ lock = [row \in Rows |-> NoRequest]

----------------------------------------------------------------------------
(* _get_vehicle of the four endpoints that read the row without a lock. *)
ReadVehicle(r) ==
  /\ pc[r] = "idle"
  /\ \E endpoint \in {"vhr", "patch", "buying", "recon"} : Goto(r, endpoint)
  /\ snap' = [snap EXCEPT ![r].status = status, ![r].stamps = stamps]
  /\ UNCHANGED <<vehicleVars, report, ledgerVars, itemVars, toSeed, lock>>

(* ensure_phase_folder: the day's auto folder of the assignee, for the     *)
(* phases that have one. *)
PhaseFolders(phase, assignee) == (AUTO_FOLDER_TYPE_FOR_PHASE \cap {phase}) \X assignee

(* advance_vehicle_phase: an event for a new folder link, then the move.   *)
AdvanceVehiclePhase(to, assignee) ==
  LET folders == PhaseFolders(to, assignee)
  IN /\ status' = to
     /\ stamps' = stamps \cup {to}
     /\ links' = links \cup folders
     /\ history' = history \o (IF folders \subseteq links THEN <<>> ELSE <<Note>>)
                           \o <<Moved(status, to)>>

(* VehiclePhaseAdvanceView.post: the row is locked before it is read, so   *)
(* the whole request is one step.  (FOR UPDATE also waits for transactions *)
(* that inserted a row pointing at the vehicle; such a wait only orders    *)
(* this step before an earlier one of theirs that it commutes with.)  The  *)
(* assignee is optional.                                                   *)
Advance(r) ==
  /\ pc[r] = "idle"
  /\ OuterJoinLockable
  /\ Free("vehicle")
  /\ \E to \in NextPhase, assignee \in {{}} \cup {{b} : b \in Buckets} :
       AdvanceVehiclePhase(to, assignee)
  /\ Finish(r, "answered")
  /\ UNCHANGED <<report, ledgerVars, itemVars>>

(* The advance is refused where the status has no successor, and fails     *)
(* outright where the database rejects the locking query.                  *)
AdvanceRefused(r) ==
  /\ pc[r] = "idle"
  /\ ~OuterJoinLockable \/ NextPhase = {}
  /\ Finish(r, "refused")
  /\ UNCHANGED <<vehicleVars, report, ledgerVars, itemVars>>

(* VehicleDetailUpdateView.patch: a status is written when it differs from *)
(* the one read, and the timeline gets one event that names no status.     *)
PatchCommit(r) ==
  /\ pc[r] = "patch"
  /\ Free("vehicle")
  /\ \/ \E to \in PatchStatuses \ {snap[r].status} : status' = to
     \/ UNCHANGED status                          \* other fields only
  /\ history' = Append(history, Note)
  /\ Finish(r, "answered")
  /\ UNCHANGED <<stamps, links, report, ledgerVars, itemVars>>

(* A PATCH that changes no field writes nothing. *)
PatchNothing(r) ==
  /\ pc[r] = "patch"
  /\ Finish(r, "answered")
  /\ UNCHANGED <<vehicleVars, report, ledgerVars, itemVars>>

(* Variant: the report is looked up and created without a unique row. *)
VhrReportUnlocked(r) ==
  /\ pc[r] = "vhr"
  /\ snap' = [snap EXCEPT ![r].report = report]
  /\ Goto(r, "vhr_save")
  /\ UNCHANGED <<vehicleVars, report, ledgerVars, itemVars, toSeed, lock>>

(* VehicleHistoryReport.objects.get_or_create: the first save inserts the  *)
(* row and so keeps every other one waiting; later saves read it unlocked. *)
VhrReport(r) ==
  /\ pc[r] = "vhr"
  /\ \/ /\ report.exists
        /\ UNCHANGED lock
     \/ /\ ~report.exists
        /\ Free("report")
        /\ lock' = [lock EXCEPT !["report"] = r]
  /\ snap' = [snap EXCEPT ![r].report = report]
  /\ Goto(r, "vhr_save")
  /\ UNCHANGED <<vehicleVars, report, ledgerVars, itemVars, toSeed>>

AfterVhr(before) == IF before = "uploaded" THEN "vhr" ELSE before

(* Variant: an event only for changed answers, never for the move itself. *)
VhrEventsChangedOnly(before, changed) ==
  IF changed THEN <<Moved(AfterVhr(before), AfterVhr(before))>> ELSE <<>>

VhrEvents(before, changed) ==
  IF before # AfterVhr(before) \/ changed
  THEN <<Moved(before, AfterVhr(before))>> ELSE <<>>

(* The rest of the VHR patch: the answers are merged into the report as    *)
(* read, the status field is saved as read or as VHR, and an event is      *)
(* recorded when the status moved or an answer changed.                    *)
VhrCommit(r) ==
  /\ pc[r] = "vhr_save"
  /\ FreeFor("report", r)
  /\ Free("vehicle")
  /\ \E cleaned \in SUBSET VhrFields, changed \in BOOLEAN :
       /\ changed => cleaned # {}
       /\ cleaned \subseteq snap[r].report.data \/ changed
       /\ report' = [exists |-> TRUE, data |-> snap[r].report.data \cup cleaned]
       /\ history' = history \o VhrEvents(snap[r].status, changed)
  /\ status' = AfterVhr(snap[r].status)
  /\ stamps' = stamps \cup {"vhr"}
  /\ Finish(r, "answered")
  /\ UNCHANGED <<links, ledgerVars, itemVars>>

----------------------------------------------------------------------------
(* update_buying_decision with a decision other than WIN. *)
BuyingDecide(r) ==
  /\ pc[r] = "buying"
  /\ Free("decision")
  /\ decision' \in BuyingDecisionStatus \ {"win"}
  /\ history' = Append(history, Note)
  /\ Finish(r, "answered")
  /\ UNCHANGED <<status, stamps, links, report, case, workItems, itemVars>>

(* _move_vehicle_to_recon tests the status the view read. *)
MovesToRecon(r) == snap[r].status # "recon"

(* Variant: the decision row is not saved before the items are seeded. *)
BuyingWinUnserialised(r) ==
  /\ pc[r] = "buying"
  /\ Free("vehicle")
  /\ lock' = [lock EXCEPT !["vehicle"] = IF MovesToRecon(r) THEN r ELSE @]
  /\ Goto(r, "win")
  /\ UNCHANGED <<vehicleVars, report, ledgerVars, itemVars, snap, toSeed>>

(* A WIN saves the decision row, which locks it, and then the vehicle row  *)
(* when the vehicle read by the view was not in recon.  Whoever holds a    *)
(* vehicle lock across a wait holds the decision lock, so taking the two   *)
(* in one step hides no wait.                                              *)
BuyingWin(r) ==
  /\ pc[r] = "buying"
  /\ Free("decision")
  /\ Free("vehicle")
  /\ lock' = [lock EXCEPT !["decision"] = r,
                          !["vehicle"] = IF MovesToRecon(r) THEN r ELSE @]
  /\ Goto(r, "win")
  /\ UNCHANGED <<vehicleVars, report, ledgerVars, itemVars, snap, toSeed>>

(* _seed_recon_work_items reads which items of the latest inspection have  *)
(* no work item yet.                                                       *)
SeedRead(r) ==
  /\ pc[r] = "win"
  /\ toSeed' = [toSeed EXCEPT ![r] = {i \in latest : workItems[i] = 0}]
  /\ Goto(r, "seeded")
  /\ UNCHANGED <<vehicleVars, report, ledgerVars, itemVars, snap, lock>>

(* Variant: a WIN opens the case even when recon has closed it. *)
EnsureReconCaseReopening == "open"

EnsureReconCase == IF case = "none" THEN "open" ELSE case

(* _move_vehicle_to_recon: from any status but RECON, and recorded as a    *)
(* move from the status the view read.                                     *)
MoveVehicleToRecon(r) ==
  IF MovesToRecon(r)
  THEN /\ status' = "recon"
       /\ stamps' = stamps \cup {"recon"}
  ELSE UNCHANGED <<status, stamps>>

(* The events of a WIN: the decision, the move, the seeded items. *)
WinEvents(r) ==
  <<Note>> \o (IF MovesToRecon(r) THEN <<Moved(snap[r].status, "recon")>> ELSE <<>>)
           \o (IF toSeed[r] # {} THEN <<Note>> ELSE <<>>)

(* Inserting a work item key-share locks the recon case it points at, so   *)
(* it waits for a recon close in progress.                                 *)
WinCommit(r) ==
  /\ pc[r] = "seeded"
  /\ toSeed[r] # {} => Free("case")
  /\ decision' = "win"
  /\ case' = EnsureReconCase
  /\ workItems' = [i \in Items |-> workItems[i] + IF i \in toSeed[r] THEN 1 ELSE 0]
  /\ MoveVehicleToRecon(r)
  /\ history' = history \o WinEvents(r)
  /\ Finish(r, "answered")
  /\ UNCHANGED <<links, report, itemVars>>

----------------------------------------------------------------------------
(* ReconStatusView.patch locks the recon case, if the vehicle has one. *)
ReconLock(r) ==
  /\ pc[r] = "recon"
  /\ case # "none"
  /\ Free("case")
  /\ lock' = [lock EXCEPT !["case"] = r]
  /\ Goto(r, "closing")
  /\ UNCHANGED <<vehicleVars, report, ledgerVars, itemVars, snap, toSeed>>

ReconRefused(r) ==
  /\ pc[r] = "recon"
  /\ case = "none"
  /\ Finish(r, "refused")
  /\ UNCHANGED <<vehicleVars, report, ledgerVars, itemVars>>

ReconTimestamps == {"recon", "complete"}
ClosedStatus(outcome) == IF outcome = "fail" THEN "recon_fail" ELSE "complete"
ClosedStamp(outcome) == IF outcome = "fail" THEN "recon" ELSE "complete"

(* Variant: the close saves the timestamps without setting one. *)
StampsUnset(r, outcome) ==
  (stamps \ ReconTimestamps) \cup (snap[r].stamps \cap ReconTimestamps)

(* Both timestamps are saved: the new one, and the other one as read. *)
StampsAfterClose(r, outcome) ==
  (stamps \ ReconTimestamps) \cup (snap[r].stamps \cap ReconTimestamps)
    \cup {ClosedStamp(outcome)}

ReconCommit(r) ==
  /\ pc[r] = "closing"
  /\ Free("vehicle")
  /\ \E outcome \in {"fail", "complete"} :
       /\ case' = outcome
       /\ status' = ClosedStatus(outcome)
       /\ stamps' = StampsAfterClose(r, outcome)
       /\ history' = Append(history, Moved(snap[r].status, ClosedStatus(outcome)))
  /\ Finish(r, "answered")
  /\ UNCHANGED <<links, report, decision, workItems, itemVars>>

----------------------------------------------------------------------------
(* A WIN that holds the vehicle and needs the case, and a close that holds *)
(* the case and needs the vehicle, wait for each other.                    *)
Deadlocked(r) ==
  \E b, c \in Requests :
    /\ r \in {b, c}
    /\ pc[b] = "seeded" /\ toSeed[b] # {} /\ lock["vehicle"] = b
    /\ pc[c] = "closing" /\ lock["case"] = c

(* The worker dies, or the database picks the transaction as the victim of *)
(* a deadlock: nothing it wrote remains.                                   *)
Abort(r) ==
  /\ pc[r] \in InFlight
  /\ Finish(r, "aborted")
  /\ UNCHANGED <<vehicleVars, report, ledgerVars, itemVars>>

DeadlockVictim(r) == Deadlocked(r) /\ Abort(r)

(* Inspections and their items come from outside the repository. *)
AddItem(i) ==
  /\ i \notin latest \cup retired
  /\ latest' = latest \cup {i}
  /\ UNCHANGED <<vehicleVars, report, ledgerVars, retired, pc, snap, toSeed, lock>>

StartInspection ==
  /\ latest # {}
  /\ latest' = {}
  /\ retired' = retired \cup latest
  /\ UNCHANGED <<vehicleVars, report, ledgerVars, pc, snap, toSeed, lock>>

Finished == (\A r \in Requests : pc[r] \in Final) /\ UNCHANGED vars

(* A step of a request that the worker serving it takes unprompted. *)
Serve(r) ==
  \/ PatchCommit(r) \/ PatchNothing(r)
  \/ VhrReport(r) \/ VhrCommit(r)
  \/ BuyingDecide(r) \/ BuyingWin(r) \/ SeedRead(r) \/ WinCommit(r)
  \/ ReconLock(r) \/ ReconRefused(r) \/ ReconCommit(r)

Next ==
  \/ \E r \in Requests :
       ReadVehicle(r) \/ Advance(r) \/ AdvanceRefused(r) \/ Serve(r) \/ Abort(r)
  \/ \E i \in Items : AddItem(i)
  \/ StartInspection
  \/ Finished

Spec == Init /\ [][Next]_vars

(* A worker keeps serving the request it has read for, and PostgreSQL's    *)
(* deadlock detector always picks a victim.  Nothing makes clients send    *)
(* requests.                                                               *)
FairSpec ==
  Spec /\ \A r \in Requests : WF_vars(Serve(r)) /\ WF_vars(DeadlockVictim(r))

----------------------------------------------------------------------------
(* The database columns hold what their declarations allow, every request  *)
(* is at a known stage, and a free lock is nobody's.                       *)
TypeOK ==
  /\ status \in VehicleStatus
  /\ stamps \subseteq PHASE_TIMESTAMP_FIELD
  /\ links \subseteq AUTO_FOLDER_TYPE_FOR_PHASE \X Buckets
  /\ report \in Report
  /\ history \in Seq(Event)
  /\ decision \in BuyingDecisionStatus \cup {"none"}
  /\ case \in ReconStatus \cup {"none"}
  /\ workItems \in [Items -> Nat]
  /\ latest \subseteq Items
  /\ retired \subseteq Items
  /\ pc \in [Requests -> Stage]
  /\ snap \in [Requests -> Snapshot]
  /\ toSeed \in [Requests -> SUBSET Items]
  /\ lock \in [Rows -> Requests \cup {NoRequest}]

(* However many WINs overlap, an inspection item gets one recon work item: *)
(* no unique constraint says so, only the order in which                   *)
(* update_buying_decision writes the decision row and                      *)
(* _seed_recon_work_items reads the existing items.                        *)
NoDuplicateWorkItems == \A i \in Items : workItems[i] <= 1

(* A closed recon case and the vehicle's timestamps agree, although the    *)
(* close saves both timestamps from a row read before it had the lock:     *)
(* a failed case has recon_at, a completed one complete_at.                *)
CaseStamped ==
  /\ case = "fail" => "recon" \in stamps
  /\ case = "complete" => "complete" \in stamps

Answers(r) == pc[r] \in InFlight /\ pc'[r] = "answered"

(* The step appends an event that records exactly this change of status. *)
MovementRecorded ==
  \E n \in (Len(history) + 1)..Len(history') : history'[n] = Moved(status, status')

(* The timeline follows the stored status except where two things are      *)
(* known to break it: a PATCH that carries a status, and a request that    *)
(* answers from a row another one has changed since.  Even then only a VHR *)
(* save can move the vehicle without recording where it went.              *)
MovesRecordedUnlessStale ==
  [][status' # status =>
       \/ MovementRecorded
       \/ \E r \in Requests :
            /\ Answers(r)
            /\ \/ pc[r] = "patch"
               \/ /\ snap[r].status # status
                  /\ \/ pc[r] = "vhr_save"
                     \/ \E n \in (Len(history) + 1)..Len(history') :
                          history'[n].to = status']_vars

(* A VHR answer disappears only under a save that read an existing report  *)
(* which was changed before it wrote; the race to create the report loses  *)
(* nothing.                                                                *)
NoAnswerLost ==
  \/ report.data \subseteq report'.data
  \/ \E r \in Requests :
       pc[r] = "vhr_save" /\ Answers(r) /\ snap[r].report.exists /\ snap[r].report # report

(* A phase timestamp disappears only under a recon close with an outdated  *)
(* row, which can erase no other than recon_at and complete_at.            *)
NoStampLost ==
  \/ stamps \subseteq stamps'
  \/ /\ stamps \ stamps' \subseteq {"recon", "complete"}
     /\ \E r \in Requests : pc[r] = "closing" /\ Answers(r) /\ snap[r].stamps # stamps

(* Nothing recorded is lost to a request that ran alone. *)
LossNeedsOverlap == [][NoAnswerLost /\ NoStampLost]_vars

(* Every request that has begun is answered or aborted: requests that wait *)
(* for each other's rows do not wait forever.                              *)
RequestsAnswered == \A r \in Requests : pc[r] \in InFlight ~> pc[r] \in Final

Ledger == INSTANCE ReconLedger
            WITH Items <- Items, decision <- decision, case <- case, workItems <- workItems

(* Under any interleaving the decision, the recon case and the work items  *)
(* change as if each buying and recon request were one indivisible step.   *)
LedgerIsAtomic == Ledger!Spec
=============================================================================
