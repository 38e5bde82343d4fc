---------------------------- MODULE WorkItemsProofs ----------------------------
(***************************************************************************)
(* Theorems about WorkItems, for any items, vendors, workers and bounds,   *)
(* and whatever the database and the assignment's module allow.            *)
(***************************************************************************)
EXTENDS WorkItems, TLAPS

(* A vendor's completion has found its item with a vendor, and no item     *)
(* loses it: so none finishes an item that was not started.  It has read   *)
(* an item of its vendor that was not done.                                *)
Started ==
  \A w \in Workers :
    Kind(w) = "complete" =>
      /\ item[req[w].id].vendor # Nobody
      /\ req[w].read.vendor = req[w].vendor /\ req[w].read.status # "done"

IInv == TypeOK /\ Started

ItemTypeOK(i) ==
  /\ item[i].vendor = Nobody <=> item[i].status = "not_started"
  /\ item[i].status = "done" => item[i].actual # Nobody
  /\ item[i].actual # Nobody <=> completions[i] > 0

LEMMA InitIInv == Init => IInv
BY BoundsAssumption, NobodyAssumption
   DEF Init, IInv, TypeOK, Started, Kind, WorkItem

(* A request in flight is of its kind. *)
LEMMA Requests ==
  ASSUME TypeOK, NEW w \in Workers
  PROVE  /\ Kind(w) = "assign" =>
              req[w] # Idle /\ req[w].id \in Items /\ req[w].vendor \in Vendors
         /\ Kind(w) = "complete" =>
              /\ req[w] # Idle /\ req[w].id \in Items /\ req[w].vendor \in Vendors
              /\ req[w].read \in WorkItem
BY DEF TypeOK, Request, Kind

(* Whoever begins a request leaves everything else as it is. *)
LEMMA BeginKeeps ==
  ASSUME IInv, NEW w \in Workers, NEW r \in Request, Begin(w, r),
         r.kind = "complete" =>
           item[r.id].vendor # Nobody /\ r.read.vendor = r.vendor /\ r.read.status # "done"
  PROVE  IInv'
<1>1. TypeOK'
  BY DEF IInv, TypeOK, Begin
<1>2. Started'
  BY DEF IInv, TypeOK, Begin, Started, Kind
<1>3. QED
  BY <1>1, <1>2 DEF IInv

(* Ending a request without a change of the items keeps the invariant. *)
LEMMA EndKeeps ==
  ASSUME IInv, NEW w \in Workers, End(w), UNCHANGED <<item, can, filed, completions>>,
         attachments' \in 0..MaxAttachments
  PROVE  IInv'
<1>1. TypeOK'
  BY DEF IInv, TypeOK, End
<1>2. Started'
  BY DEF IInv, TypeOK, End, Started, Kind
<1>3. QED
  BY <1>1, <1>2 DEF IInv

LEMMA AssignKeeps ==
  ASSUME IInv, NEW w \in Workers, Assign(w)
  PROVE  IInv'
<1> DEFINE i == req[w].id
           v == req[w].vendor
<1>1. i \in Items /\ v \in Vendors
  BY Requests DEF IInv, Assign
<1>2. PICK notes \in {item[i].notes, w} :
        item' = [item EXCEPT ![i].vendor = v, ![i].status = "in_progress", ![i].notes = notes]
  BY DEF Assign, StartedStatus
<1>3. /\ notes \in Workers \cup {Nobody}
      /\ item' \in [Items -> WorkItem]
      /\ item'[i].vendor = v /\ item'[i].status = "in_progress"
      /\ item'[i].actual = item[i].actual
      /\ \A j \in Items : j # i => item'[j] = item[j]
  BY <1>1, <1>2 DEF IInv, TypeOK, WorkItem
<1>4. TypeOK'
  <2>1. \A j \in Items : ItemTypeOK(j)'
    BY <1>1, <1>3, NobodyAssumption DEF IInv, TypeOK, ItemTypeOK, Assign
  <2>2. filed' \in SUBSET Vendors
    BY <1>1 DEF IInv, TypeOK, Assign, EnsureVendorFolder
  <2>3. QED
    BY <1>3, <2>1, <2>2 DEF IInv, TypeOK, ItemTypeOK, Assign, End
<1>5. Started'
  <2>1. \A j \in Items : item[j].vendor # Nobody => item'[j].vendor # Nobody
    BY <1>1, <1>3, NobodyAssumption
  <2>2. \A x \in Workers : Kind(x)' = "complete" => req'[x] = req[x] /\ Kind(x) = "complete"
    BY DEF IInv, TypeOK, Assign, End, Kind
  <2>3. \A x \in Workers : Kind(x) = "complete" => req[x].id \in Items
    BY Requests DEF IInv
  <2>4. QED
    BY <2>1, <2>2, <2>3 DEF IInv, Started
<1>6. QED
  BY <1>4, <1>5 DEF IInv

LEMMA CompleteKeeps ==
  ASSUME IInv, NEW w \in Workers, Complete(w)
  PROVE  IInv'
<1> DEFINE i == req[w].id
           v == req[w].vendor
<1>1. i \in Items /\ v \in Vendors /\ req[w].read \in WorkItem
  BY Requests DEF IInv, Complete
<1>2. item[i].vendor # Nobody
  BY DEF IInv, Started, Complete
<1>3. PICK notes \in {req[w].read.notes, w} :
        item' = [item EXCEPT ![i].actual = v, ![i].notes = notes, ![i].status = "done"]
  BY DEF Complete
<1>4. /\ item' \in [Items -> WorkItem]
      /\ item'[i].vendor = item[i].vendor /\ item'[i].status = "done" /\ item'[i].actual = v
      /\ \A j \in Items : j # i => item'[j] = item[j]
  BY <1>1, <1>3 DEF IInv, TypeOK, WorkItem
<1>5. /\ completions' \in [Items -> 0..MaxCompletions]
      /\ completions'[i] > 0
      /\ \A j \in Items : j # i => completions'[j] = completions[j]
  BY <1>1, BoundsAssumption DEF IInv, TypeOK, Complete
<1>6. TypeOK'
  <2>1. \A j \in Items : ItemTypeOK(j)'
    BY <1>1, <1>2, <1>4, <1>5, NobodyAssumption DEF IInv, TypeOK, ItemTypeOK
  <2>2. QED
    BY <1>4, <1>5, <2>1 DEF IInv, TypeOK, ItemTypeOK, Complete, End
<1>7. Started'
  <2>1. \A j \in Items : item[j].vendor # Nobody => item'[j].vendor # Nobody
    BY <1>1, <1>4
  <2>2. \A x \in Workers : Kind(x)' = "complete" => req'[x] = req[x] /\ Kind(x) = "complete"
    BY DEF IInv, TypeOK, Complete, End, Kind
  <2>3. \A x \in Workers : Kind(x) = "complete" => req[x].id \in Items
    BY Requests DEF IInv
  <2>4. QED
    BY <2>1, <2>2, <2>3 DEF IInv, Started
<1>8. QED
  BY <1>6, <1>7 DEF IInv

LEMMA StepIInv == IInv /\ [Next]_vars => IInv'
<1> SUFFICES ASSUME IInv, [Next]_vars PROVE IInv'
  OBVIOUS
<1>1. ASSUME NEW w \in Workers, NEW i \in Items, NEW v \in Vendors, LockForAssign(w, i, v)
      PROVE  IInv'
  <2> DEFINE r == [kind |-> "assign", id |-> i, vendor |-> v]
  <2>1. r \in Request /\ r.kind # "complete" /\ Begin(w, r)
    BY <1>1 DEF Request, LockForAssign
  <2>2. QED
    BY <2>1, BeginKeeps
<1>2. ASSUME NEW w \in Workers, NEW i \in Items, NEW v \in Vendors, ReadForCompletion(w, i, v)
      PROVE  IInv'
  <2> DEFINE r == [kind |-> "complete", id |-> i, vendor |-> v, read |-> item[i]]
  <2>1. /\ r \in Request /\ Begin(w, r)
        /\ item[r.id].vendor # Nobody /\ r.read.vendor = r.vendor /\ r.read.status # "done"
    BY <1>2, NobodyAssumption DEF Request, ReadForCompletion, IInv, TypeOK
  <2>2. QED
    BY <2>1, BeginKeeps
<1>3. ASSUME NEW w \in Workers, NEW i \in Items, NEW v \in Vendors, ReadForUpload(w, i, v)
      PROVE  IInv'
  <2> DEFINE r == [kind |-> "upload", id |-> i]
  <2>1. r \in Request /\ r.kind # "complete" /\ Begin(w, r)
    BY <1>3 DEF Request, ReadForUpload
  <2>2. QED
    BY <2>1, BeginKeeps
<1>4. ASSUME NEW w \in Workers, Upload(w) PROVE IInv'
  <2>1. attachments' \in 0..MaxAttachments
    BY <1>4, BoundsAssumption DEF Upload, IInv, TypeOK
  <2>2. QED
    BY <1>4, <2>1, EndKeeps DEF Upload
<1>5. ASSUME NEW w \in Workers, Abort(w) PROVE IInv'
  BY <1>5, EndKeeps DEF Abort, IInv, TypeOK
<1>6. ASSUME NEW v \in Vendors, ChangeMember(v) PROVE IInv'
  <2>1. TypeOK'
    BY <1>6 DEF ChangeMember, IInv, TypeOK
  <2>2. Started'
    BY <1>6 DEF ChangeMember, IInv, Started, Kind
  <2>3. QED
    BY <2>1, <2>2 DEF IInv
<1>7. CASE UNCHANGED vars
  BY <1>7 DEF vars, IInv, TypeOK, Started, Kind
<1>8. QED
  BY <1>1, <1>2, <1>3, <1>4, <1>5, <1>6, <1>7, AssignKeeps, CompleteKeeps DEF Next

(* What the requests in flight have read stays true (the unlocked reads of *)
(* the vendor's views).                                                    *)
THEOREM IInvHolds == Spec => []IInv
BY InitIInv, StepIInv, PTL DEF Spec

(* The columns of an item go together at all times (AssignVendorView and   *)
(* VendorWorkItemCompleteView write them in different requests).           *)
THEOREM TypeCorrect == Spec => []TypeOK
<1>1. IInv => TypeOK
  BY DEF IInv
<1>2. QED
  BY <1>1, IInvHolds, PTL

----------------------------------------------------------------------------
(* A start or a finish of an item is a step of the life. *)
LEMMA LifeSteps ==
  ASSUME NEW i \in Items
  PROVE  /\ Life!Finish(i) => Life!Next
         /\ \A v \in Vendors : Life!Start(i, v) => Life!Next
BY Zenon DEF Life!Next

(* A step keeps to the life of the items, or leaves it as it was. *)
LEMMA LifeStep == IInv /\ [Next]_vars => [Life!Next]_(Life!vars)
<1> SUFFICES ASSUME IInv, [Next]_vars PROVE [Life!Next]_(Life!vars)
  OBVIOUS
<1>1. ASSUME NEW w \in Workers, Assign(w) PROVE Life!Next
  <2> req[w].id \in Items /\ req[w].vendor \in Vendors
    BY <1>1, Requests DEF IInv, Assign
  <2>1. PICK i \in Items, v \in Vendors : i = req[w].id /\ v = req[w].vendor
    OBVIOUS
  <2>2. PICK notes : item' = [item EXCEPT ![i].vendor = v, ![i].status = "in_progress",
                                          ![i].notes = notes]
    BY <1>1, <2>1 DEF Assign, StartedStatus
  <2>3. Life!Start(i, v)
    BY <1>1, <2>1, <2>2 DEF Life!Start, Assign, EnsureVendorFolder, IInv, TypeOK, WorkItem
  <2>4. QED
    BY <2>1, <2>3, LifeSteps
<1>2. ASSUME NEW w \in Workers, Complete(w) PROVE Life!Next \/ UNCHANGED Life!vars
  <2>1. PICK i \in Items : i = req[w].id /\ item[i].vendor # Nobody
    <3>1. req[w].id \in Items /\ item[req[w].id].vendor # Nobody
      BY <1>2, Requests DEF IInv, Started, Complete
    <3>2. QED
      BY <3>1
  <2>2. item[i].status \in {"in_progress", "done"}
    BY <2>1 DEF IInv, TypeOK, WorkItem
  <2>3. PICK notes : item' = [item EXCEPT ![i].actual = req[w].vendor, ![i].notes = notes,
                                          ![i].status = "done"]
    BY <1>2, <2>1 DEF Complete
  <2>4. CASE item[i].status = "in_progress"
    <3>1. Life!Finish(i)
      BY <1>2, <2>1, <2>3, <2>4 DEF Life!Finish, Complete, IInv, TypeOK, WorkItem
    <3>2. QED
      BY <2>1, <3>1, LifeSteps
  <2>5. CASE item[i].status = "done"
    <3>1. \A j \in Items : item'[j].status = item[j].status /\ item'[j].vendor = item[j].vendor
      BY <2>1, <2>3, <2>5 DEF IInv, TypeOK, WorkItem
    <3>2. filed' = filed
      BY <1>2 DEF Complete
    <3>3. QED
      BY <3>1, <3>2 DEF Life!vars
  <2>6. QED
    BY <2>2, <2>4, <2>5
<1>3. ASSUME UNCHANGED <<item, filed>> PROVE UNCHANGED Life!vars
  BY <1>3 DEF Life!vars
<1>4. QED
  BY <1>1, <1>2, <1>3
     DEF Next, vars, LockForAssign, ReadForCompletion, ReadForUpload, Begin, Upload, Abort,
         ChangeMember

(* WorkItems implements WorkItemLife: assignments and completions, with    *)
(* unlocked reads, failures and vendors who come and go, change the items  *)
(* and the vendors' folders as if each were one indivisible step.          *)
THEOREM LifeRefinement == Spec => ItemsLive
<1>1. Init => Life!Init
  BY DEF Init, Life!Init
<1>2. QED
  BY <1>1, LifeStep, IInvHolds, PTL DEF Spec, ItemsLive, Life!Spec

----------------------------------------------------------------------------
(* Only a completion changes the count of one.  If its item is as it was   *)
(* read, it is the vendor's and was never finished.                        *)
LEMMA CompleteAsRead ==
  ASSUME IInv, NEW w \in Workers, Complete(w), item[req[w].id] = req[w].read,
         NEW i \in Items, completions'[i] # completions[i]
  PROVE  /\ item[i].status = "in_progress"
         /\ item'[i].actual = item[i].vendor
         /\ item'[i].notes # item[i].notes => item'[i].notes = w /\ req'[w] # req[w]
<1>1. req[w].id \in Items /\ req[w] # Idle
  BY Requests DEF IInv, Complete
<1>2. i = req[w].id
  BY <1>1 DEF IInv, TypeOK, Complete
<1>3. /\ item[i].vendor # Nobody /\ item[i].vendor = req[w].vendor
      /\ item[i].status # "done"
  BY <1>2 DEF IInv, Started, Complete
<1>4. item[i].status = "in_progress"
  BY <1>3 DEF IInv, TypeOK, WorkItem
<1>5. PICK notes \in {req[w].read.notes, w} :
        item' = [item EXCEPT ![i].actual = req[w].vendor, ![i].notes = notes,
                             ![i].status = "done"]
  BY <1>2 DEF Complete
<1>6. /\ item'[i].actual = item[i].vendor
      /\ item'[i].notes = item[i].notes \/ item'[i].notes = w
  BY <1>2, <1>3, <1>5 DEF IInv, TypeOK, WorkItem
<1>7. req'[w] # req[w]
  BY <1>1 DEF IInv, TypeOK, Complete, End
<1>8. QED
  BY <1>4, <1>6, <1>7

(* An item is finished once, for the vendor it is assigned to and with the *)
(* notes others wrote on it, or by a completion that another request       *)
(* overtook after its unlocked read (VendorWorkItemCompleteView).          *)
THEOREM CompletionsAsRead == Spec => CompletedAsRead
<1> DEFINE AsRead ==
      \A i \in Items :
        completions'[i] # completions[i] =>
          \/ /\ item[i].status = "in_progress"
             /\ item'[i].actual = item[i].vendor
             /\ item'[i].notes # item[i].notes =>
                  \E w \in Workers : item'[i].notes = w /\ req'[w] # req[w]
          \/ \E w \in Workers : CompletesChanged(w)
<1>1. ASSUME IInv, [Next]_vars PROVE [AsRead]_vars
  <2>1. ASSUME NEW w \in Workers, Complete(w) PROVE AsRead
    <3>1. CASE item[req[w].id] = req[w].read
      BY <1>1, <2>1, <3>1, CompleteAsRead
    <3>2. CASE item[req[w].id] # req[w].read
      <4>1. CompletesChanged(w)
        BY <1>1, <2>1, <3>2 DEF CompletesChanged, Complete, End, IInv, TypeOK
      <4>2. QED
        BY <4>1
    <3>3. QED
      BY <3>1, <3>2
  <2>2. CASE UNCHANGED completions
    BY <2>2
  <2>3. QED
    BY <1>1, <2>1, <2>2
       DEF Next, vars, LockForAssign, ReadForCompletion, ReadForUpload, Begin, Assign, Upload,
           Abort, ChangeMember
<1>2. QED
  BY <1>1, IInvHolds, PTL DEF Spec, CompletedAsRead
=============================================================================
