------------------------------- MODULE WorkItems -------------------------------
(***************************************************************************)
(* The recon work items of one vehicle after a WIN has created them        *)
(* (VehiclePipeline): the manager assigns them to vendors                  *)
(* (recon/views/work_items.py), the vendors finish them and attach files   *)
(* (vendors/views/work_items.py), and the staff pages change who is a      *)
(* vendor meanwhile.                                                       *)
(*                                                                         *)
(* An assignment locks the item it reads.  The vendor's requests read it   *)
(* without a lock and commit later; their write waits for a lock that an   *)
(* assignment holds.  Every request is one transaction.                    *)
(***************************************************************************)
EXTENDS Naturals, FiniteSets

CONSTANTS
  Items,             \* the work items
  Vendors,           \* the memberships that are ever given vendor work
  Workers,           \* bound on the requests in flight
  Idle,              \* a worker without a request
  Nobody,            \* no vendor, no author of a note
  MaxCompletions,    \* bound on the vendor_work_completed events of an item
  MaxAttachments,    \* bound on the files of all items together
  OuterJoinLockable, \* whether the database accepts FOR UPDATE over the
                     \* nullable side of an outer join (PostgreSQL does not)
  LocaldateBound     \* whether the name timezone of the assignment's module
                     \* has a localdate (datetime's, imported there, has none)

ASSUME WorkersAssumption == IsFiniteSet(Workers) /\ Workers # {}
ASSUME NobodyAssumption == Nobody \notin Vendors \cup Workers
ASSUME BoundsAssumption == MaxCompletions \in Nat /\ MaxAttachments \in Nat
ASSUME PlatformAssumption == OuterJoinLockable \in BOOLEAN /\ LocaldateBound \in BOOLEAN

VARIABLES
  item,              \* the WorkItem rows
  can,               \* whether the membership is active and has MANAGE_VENDOR_WORK
  filed,             \* the vendors whose folder of the day holds the vehicle
  completions,       \* the number of vendor_work_completed events of an item;
                     \* the other events of the timeline are left out
  attachments,       \* the number of VendorAttachment rows
  req                \* the request each worker is in

vars == <<item, can, filed, completions, attachments, req>>

(* A note is named after the request that wrote it.  actual stands for     *)
(* actual_cost, actual_time_minutes and completion_date, named after the   *)
(* vendor whose completion gave them; the columns may be given as null.    *)
(* No code sets the status "blocked".                                      *)
WorkItem ==
  [status : {"not_started", "in_progress", "done"}, vendor : Vendors \cup {Nobody},
   notes : Workers \cup {Nobody}, actual : Vendors \cup {Nobody}]

Init ==
  /\ item = [i \in Items |-> [status |-> "not_started", vendor |-> Nobody,
                              notes |-> Nobody, actual |-> Nobody]]
  /\ can = [v \in Vendors |-> TRUE]
  /\ filed = {}
  /\ completions = [i \in Items |-> 0]
  /\ attachments = 0
  /\ req = [w \in Workers |-> Idle]

Kind(w) == IF req[w] = Idle THEN "idle" ELSE req[w].kind

Begin(w, r) ==
  /\ req[w] = Idle
  /\ req' = [req EXCEPT ![w] = r]
  /\ UNCHANGED <<item, can, filed, completions, attachments>>

End(w) == req' = [req EXCEPT ![w] = Idle]

(* A request fails or its worker dies: nothing it did remains. *)
Abort(w) ==
  /\ req[w] # Idle
  /\ End(w)
  /\ UNCHANGED <<item, can, filed, completions, attachments>>

Locked(i) == \E w \in Workers : Kind(w) = "assign" /\ req[w].id = i

----------------------------------------------------------------------------
(* AssignVendorView: the item is locked, then the vendor looked up.  The   *)
(* status of the item is not looked at.                                    *)
LockForAssign(w, i, v) ==
  /\ OuterJoinLockable
  /\ ~Locked(i)
  /\ can[v]
  /\ Begin(w, [kind |-> "assign", id |-> i, vendor |-> v])

(* Variant: the vehicle is not filed in the vendor's folder. *)
EnsureNoFolder(v) == filed' = filed

(* The folder of the day is unique for the vendor, and the vehicle in it. *)
EnsureVendorFolder(v) == LocaldateBound /\ filed' = filed \cup {v}

(* Variant: the status is left as it was. *)
StartedStatusKept(i) == item[i].status

StartedStatus(i) == "in_progress"

(* Whatever an earlier vendor finished stays in the other columns. *)
Assign(w) ==
  /\ Kind(w) = "assign"
  /\ LET i == req[w].id
         v == req[w].vendor
     IN /\ \E notes \in {item[i].notes, w} :
             item' = [item EXCEPT ![i].vendor = v, ![i].status = StartedStatus(i),
                                  ![i].notes = notes]
        /\ EnsureVendorFolder(v)
  /\ End(w)
  /\ UNCHANGED <<can, completions, attachments>>

----------------------------------------------------------------------------
(* Variant: an item that is done is found as well. *)
ReadForCompletionDone(w, i, v) ==
  /\ can[v]
  /\ item[i].vendor = v
  /\ Begin(w, [kind |-> "complete", id |-> i, vendor |-> v, read |-> item[i]])

(* VendorWorkItemCompleteView finds the item among those of the vendor and *)
(* refuses it when it is done.                                             *)
ReadForCompletion(w, i, v) ==
  /\ can[v]
  /\ item[i].vendor = v
  /\ item[i].status # "done"
  /\ Begin(w, [kind |-> "complete", id |-> i, vendor |-> v, read |-> item[i]])

(* notes are saved in any case, as they were read if none are given. *)
Complete(w) ==
  /\ Kind(w) = "complete"
  /\ LET i == req[w].id
     IN /\ ~Locked(i)
        /\ completions[i] < MaxCompletions
        /\ \E notes \in {req[w].read.notes, w} :
             item' = [item EXCEPT ![i].actual = req[w].vendor, ![i].notes = notes,
                                  ![i].status = "done"]
        /\ completions' = [completions EXCEPT ![i] = @ + 1]
  /\ End(w)
  /\ UNCHANGED <<can, filed, attachments>>

(* VendorWorkItemAttachmentUploadView: whatever the item's status. *)
ReadForUpload(w, i, v) ==
  /\ can[v]
  /\ item[i].vendor = v
  /\ Begin(w, [kind |-> "upload", id |-> i])

(* The insert locks the item against an assignment's lock only. *)
Upload(w) ==
  /\ Kind(w) = "upload"
  /\ ~Locked(req[w].id)
  /\ attachments < MaxAttachments
  /\ attachments' = attachments + 1
  /\ End(w)
  /\ UNCHANGED <<item, can, filed, completions>>

(* A vendor is removed, changes role, or comes back. *)
ChangeMember(v) ==
  /\ can' = [can EXCEPT ![v] = ~@]
  /\ UNCHANGED <<item, filed, completions, attachments, req>>

Next ==
  \/ \E w \in Workers :
       \/ \E i \in Items, v \in Vendors :
            LockForAssign(w, i, v) \/ ReadForCompletion(w, i, v) \/ ReadForUpload(w, i, v)
       \/ Assign(w) \/ Complete(w) \/ Upload(w) \/ Abort(w)
  \/ \E v \in Vendors : ChangeMember(v)

Spec == Init /\ [][Next]_vars

----------------------------------------------------------------------------
Request ==
  [kind : {"assign"}, id : Items, vendor : Vendors]
    \cup [kind : {"complete"}, id : Items, vendor : Vendors, read : WorkItem]
    \cup [kind : {"upload"}, id : Items]

(* The columns of an item go together: it has a vendor exactly when it was *)
(* started, it is done only with what a vendor gave, and only what a       *)
(* completion recorded is there. *)
TypeOK ==
  /\ item \in [Items -> WorkItem]
  /\ \A i \in Items :
       /\ item[i].vendor = Nobody <=> item[i].status = "not_started"
       /\ item[i].status = "done" => item[i].actual # Nobody
       /\ item[i].actual # Nobody <=> completions[i] > 0
  /\ can \in [Vendors -> BOOLEAN]
  /\ filed \in SUBSET Vendors
  /\ completions \in [Items -> 0..MaxCompletions]
  /\ attachments \in 0..MaxAttachments
  /\ req \in [Workers -> Request \cup {Idle}]

(* The items live the life of WorkItemLife, whatever requests overlap and  *)
(* fail: in particular an assignment and its folder come together          *)
(* (AssignVendorView is atomic), and a late completion never brings back   *)
(* an earlier vendor. *)
Life == INSTANCE WorkItemLife
          WITH status <- [i \in Items |-> item[i].status],
               vendor <- [i \in Items |-> item[i].vendor],
               filed <- filed

ItemsLive == Life!Spec

(* The request completes in this step an item that is not as it read it. *)
CompletesChanged(w) ==
  Kind(w) = "complete" /\ req'[w] = Idle /\ item[req[w].id] # req[w].read

(* An item is finished once, by the vendor it is assigned to, and keeps    *)
(* the notes that others wrote on it; it is finished a second time, for    *)
(* somebody else, or with older notes only by a completion that another    *)
(* request overtook after its unlocked read (VendorWorkItemCompleteView    *)
(* tests DONE on that read). *)
CompletedAsRead ==
  [][\A i \in Items :
       completions'[i] # completions[i] =>
         \/ /\ item[i].status = "in_progress"
            /\ item'[i].actual = item[i].vendor
            /\ item'[i].notes # item[i].notes =>
                 \E w \in Workers : item'[i].notes = w /\ req'[w] # req[w]
         \/ \E w \in Workers : CompletesChanged(w)]_vars
=============================================================================
