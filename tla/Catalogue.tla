------------------------------- MODULE Catalogue -------------------------------
(***************************************************************************)
(* How vehicles enter the inventory of one company: POST of one vehicle    *)
(* into a folder, the VIN scanner's quick-add, which makes a folder of its *)
(* own, and the CSV import.  All three look the VIN up in the company; the *)
(* database only keeps it unique in a dealership.                          *)
(*                                                                         *)
(* Everything at stake is a unique key.  "db" holds the committed ones and *)
(* "held" those a transaction has inserted, with the row locks it has      *)
(* taken: an insert of a held key waits, and one of a committed key fails. *)
(* A transaction in which an insert has failed can only be rolled back.    *)
(***************************************************************************)
EXTENDS Naturals, FiniteSets, Sequences

CONSTANTS
  Requests,            \* request identities, each used once
  Dealerships,         \* of one company
  Vins,
  Stock,               \* vehicles there may be from before
  Jobs,                \* what requests ask for
  MaxRows,             \* bound on the rows of a CSV file
  MaxMinute            \* bound on the minutes that name scan folders

Vehicles == Dealerships \X Vins

(* Minute 0 stands for the manual folder of the dealership. *)
Folders == Dealerships \X (0..MaxMinute)

VehicleKey(x) == <<"vehicle", x>>
FolderKey(f) == <<"folder", f>>
LinkKey(f, x) == <<"link", <<f, x>>>>
RowLock(x) == <<"row", x>>

Keys ==
  {VehicleKey(x) : x \in Vehicles} \cup {FolderKey(f) : f \in Folders}
    \cup {LinkKey(f, x) : f \in Folders, x \in Vehicles}
RowLocks == {RowLock(x) : x \in Vehicles}

OnConflict == {"skip", "update", "error"}

Job ==
  [kind : {"create", "scan"}, at : Dealerships, rows : [1..1 -> Vins], dry : {FALSE}]
    \cup [kind : OnConflict, at : Dealerships, rows : UNION {[1..n -> Vins] : n \in 1..MaxRows},
          dry : BOOLEAN]

ASSUME BoundsAssumption == MaxRows \in Nat \ {0} /\ MaxMinute \in Nat \ {0}
ASSUME JobsAssumption == Jobs \subseteq Job
ASSUME StockAssumption ==
  Stock \subseteq Vehicles /\ \A x, y \in Stock : x[2] = y[2] => x = y

VARIABLES
  db,                  \* the committed keys
  job,                 \* what each request asks for
  pc,                  \* how far it has come
  held,                \* its uncommitted keys and its row locks
  row,                 \* the CSV row it is at
  target,              \* the vehicle it is writing
  folder,              \* the folder it puts vehicles in
  created,             \* how many vehicles it believes to have created
  made,                \* those it has committed
  beside               \* the requests that were in flight with it

vars == <<db, job, pc, held, row, target, folder, created, made, beside>>

InFlight == {"row", "insert", "folder", "file", "touch", "link"}
Final == {"created", "known", "exists", "duplicate", "summary", "failed"}
Stage == {"idle"} \cup InFlight \cup Final

Stored(x) == VehicleKey(x) \in db

(* The vehicles there are are in the manual folders of their dealerships. *)
Init ==
  /\ \E stock \in SUBSET Stock :
       db = UNION {{VehicleKey(x), LinkKey(<<x[1], 0>>, x)} : x \in stock}
  /\ job \in [Requests -> Jobs]
  /\ pc = [r \in Requests |-> "idle"]
  /\ held = [r \in Requests |-> {}]
  /\ row = [r \in Requests |-> 1]
  /\ target = [r \in Requests |-> <<job[r].at, job[r].rows[1]>>]
  /\ folder = [r \in Requests |-> <<job[r].at, 0>>]
  /\ created = [r \in Requests |-> 0]
  /\ made = [r \in Requests |-> {}]
  /\ beside = [r \in Requests |-> {}]

----------------------------------------------------------------------------
Imports(r) == job[r].kind \in OnConflict

Goto(r, stage) == pc' = [pc EXCEPT ![r] = stage]

Take(r, key) == held' = [held EXCEPT ![r] = @ \cup {key}]

(* The request answers and its transaction is rolled back. *)
End(r, answer) ==
  /\ Goto(r, answer)
  /\ held' = [held EXCEPT ![r] = {}]
  /\ UNCHANGED made

Rollback(r, answer) == End(r, answer) /\ UNCHANGED <<db, row, target, folder, created>>

(* It answers and what it has written is committed. *)
Commit(r, answer) ==
  /\ Goto(r, answer)
  /\ held' = [held EXCEPT ![r] = {}]
  /\ db' = db \cup (held[r] \ RowLocks)
  /\ made' = [made EXCEPT ![r] = {x \in Vehicles : VehicleKey(x) \in held[r]}]
  /\ UNCHANGED <<row, target, folder, created>>

(* The next row of the file, the present one counted or not. *)
NextRow(r, count) ==
  /\ Goto(r, "row")
  /\ row' = [row EXCEPT ![r] = @ + 1]
  /\ created' = [created EXCEPT ![r] = @ + count]

Begin(r) ==
  /\ pc[r] = "idle"
  /\ Goto(r, "row")
  /\ LET flying == {q \in Requests : pc[q] \in InFlight}
     IN beside' = [q \in Requests |->
                     IF q = r THEN flying
                     ELSE IF q \in flying THEN beside[q] \cup {r} ELSE beside[q]]
  /\ UNCHANGED <<db, job, held, row, target, folder, created, made>>

----------------------------------------------------------------------------
(* The VIN of the row, and the vehicles of the company that have it. *)
Vin(r) == job[r].rows[row[r]]

(* Variant: the vehicles of the dealership. *)
ExistingHere(r) ==
  {x \in Vehicles : x[1] = job[r].at /\ x[2] = Vin(r) /\ VehicleKey(x) \in db \cup held[r]}

(* Variant: the rows before it are not seen. *)
ExistingBefore(r) == {x \in Vehicles : x[2] = Vin(r) /\ Stored(x)}

Existing(r) == {x \in Vehicles : x[2] = Vin(r) /\ VehicleKey(x) \in db \cup held[r]}

AtRow(r) == pc[r] = "row" /\ row[r] <= Len(job[r].rows)

(* The VIN is new to the company.  A dry run counts it and goes on. *)
LookNew(r) ==
  /\ AtRow(r)
  /\ Existing(r) = {}
  /\ IF job[r].dry
     THEN NextRow(r, 1) /\ UNCHANGED target
     ELSE /\ Goto(r, "insert")
          /\ target' = [target EXCEPT ![r] = <<job[r].at, Vin(r)>>]
          /\ UNCHANGED <<row, created>>
  /\ UNCHANGED <<db, held, folder, made>>

(* VehicleCreateUpdateSerializer.validate refuses a known VIN by raising,  *)
(* and VehicleVinQuickAddView answers "Vehicle already exists."            *)
LookKnown(r) ==
  /\ AtRow(r)
  /\ ~Imports(r)
  /\ Existing(r) # {}
  /\ Rollback(r, IF job[r].kind = "create" THEN "known" ELSE "exists")

(* on_conflict=skip *)
SkipRow(r) ==
  /\ AtRow(r)
  /\ job[r].kind = "skip"
  /\ Existing(r) # {}
  /\ NextRow(r, 0)
  /\ UNCHANGED <<db, held, target, folder, made>>

(* on_conflict=error: the 409 is returned from inside the transaction. *)
Refuse(r) ==
  /\ AtRow(r)
  /\ job[r].kind = "error"
  /\ Existing(r) # {}
  /\ Commit(r, "duplicate")

(* on_conflict=update: the vehicle is saved if a field differs, in         *)
(* whichever dealership it is, and linked to the folder.                   *)
UpdateRow(r) ==
  /\ AtRow(r)
  /\ job[r].kind = "update"
  /\ Existing(r) # {}
  /\ IF job[r].dry
     THEN NextRow(r, 0) /\ UNCHANGED target
     ELSE /\ \E x \in Existing(r) : target' = [target EXCEPT ![r] = x]
          /\ \E changed \in BOOLEAN : Goto(r, IF changed THEN "touch" ELSE "link")
          /\ UNCHANGED <<row, created>>
  /\ UNCHANGED <<db, held, folder, made>>

----------------------------------------------------------------------------
Linking(r) == pc[r] \in {"file", "link"}

(* What a request is about to insert or lock, and who makes it wait. *)
Wanted(r) ==
  CASE pc[r] = "insert" -> {VehicleKey(target[r])}
    [] pc[r] = "folder" -> {FolderKey(folder[r])}
    [] pc[r] = "touch"  -> {RowLock(target[r])}
    [] Linking(r)       -> {LinkKey(folder[r], target[r])}
    [] OTHER            -> {}

Blockers(r) == {q \in Requests \ {r} : Wanted(r) \cap held[q] # {}}

(* The scan folder is named after the minute, which may be any. *)
NameFolder(r) == \E m \in 1..MaxMinute : folder' = [folder EXCEPT ![r] = <<job[r].at, m>>]

(* Vehicle.objects.create, after which the scanner names its folder. *)
InsertVehicle(r) ==
  /\ pc[r] = "insert"
  /\ Blockers(r) = {}
  /\ VehicleKey(target[r]) \notin db \cup held[r]
  /\ Take(r, VehicleKey(target[r]))
  /\ IF job[r].kind = "scan"
     THEN NameFolder(r) /\ Goto(r, "folder")
     ELSE UNCHANGED folder /\ Goto(r, "file")
  /\ UNCHANGED <<db, row, target, created, made>>

(* A failed insert: "Vehicle already exists.", or, in an import, an error  *)
(* of the row.  The later rows of the import are errors too, and it ends   *)
(* with a summary of what is rolled back.                                  *)
InsertRefused(r) ==
  /\ pc[r] = "insert"
  /\ Blockers(r) = {}
  /\ VehicleKey(target[r]) \in db \cup held[r]
  /\ Rollback(r, IF Imports(r) THEN "summary" ELSE "exists")

(* _create_scan_folder *)
InsertFolder(r) ==
  /\ pc[r] = "folder"
  /\ Blockers(r) = {}
  /\ FolderKey(folder[r]) \notin db
  /\ Take(r, FolderKey(folder[r]))
  /\ Goto(r, "file")
  /\ UNCHANGED <<db, row, target, folder, created, made>>

(* Variant: the vehicle is committed nevertheless. *)
FolderRefusedLate(r) ==
  /\ pc[r] = "folder"
  /\ Blockers(r) = {}
  /\ FolderKey(folder[r]) \in db
  /\ Commit(r, "exists")

(* The name of the scan folder is taken, and the answer is the same. *)
FolderRefused(r) ==
  /\ pc[r] = "folder"
  /\ Blockers(r) = {}
  /\ FolderKey(folder[r]) \in db
  /\ Rollback(r, "exists")

(* existing.save, which waits for another update of the row. *)
Touch(r) ==
  /\ pc[r] = "touch"
  /\ Blockers(r) = {}
  /\ Take(r, RowLock(target[r]))
  /\ Goto(r, "link")
  /\ UNCHANGED <<db, row, target, folder, created, made>>

(* _link_vehicle_to_folder, of a new vehicle or one that is updated: the   *)
(* link is found or made, and the row counted.                             *)
Link(r) ==
  /\ Linking(r)
  /\ Blockers(r) = {}
  /\ IF LinkKey(folder[r], target[r]) \in db
     THEN UNCHANGED held
     ELSE Take(r, LinkKey(folder[r], target[r]))
  /\ NextRow(r, IF pc[r] = "file" THEN 1 ELSE 0)
  /\ UNCHANGED <<db, target, folder, made>>

(* All rows are done. *)
Done(r) ==
  /\ pc[r] = "row"
  /\ row[r] > Len(job[r].rows)
  /\ Commit(r, IF Imports(r) THEN "summary" ELSE "created")

----------------------------------------------------------------------------
(* r is one of a ring of requests that wait for each other. *)
Deadlocked(r) ==
  \E ring \in SUBSET Requests :
    /\ r \in ring
    /\ \A q \in ring : Blockers(q) # {}
    /\ UNION {Blockers(q) : q \in ring} = ring

(* The database picks r.  An import takes it for an error of the row; only *)
(* get_or_create has a savepoint, so only there does it go on.             *)
DeadlockVictim(r) ==
  /\ Deadlocked(r)
  /\ IF Imports(r) /\ Linking(r)
     THEN NextRow(r, 0) /\ UNCHANGED <<db, held, target, folder, made>>
     ELSE Rollback(r, IF Imports(r) THEN "summary" ELSE "failed")

(* The worker dies, or something else in the request raises. *)
Abort(r) == pc[r] \in InFlight /\ Rollback(r, "failed")

Finished == (\A r \in Requests : pc[r] \in Final) /\ UNCHANGED vars

Serve(r) ==
  /\ \/ LookNew(r) \/ LookKnown(r) \/ SkipRow(r) \/ Refuse(r) \/ UpdateRow(r)
     \/ InsertVehicle(r) \/ InsertRefused(r) \/ InsertFolder(r) \/ FolderRefused(r)
     \/ Touch(r) \/ Link(r) \/ Done(r)
  /\ UNCHANGED <<job, beside>>

Victim(r) == DeadlockVictim(r) /\ UNCHANGED <<job, beside>>

Next ==
  \/ \E r \in Requests :
       Begin(r) \/ Serve(r) \/ Victim(r) \/ (Abort(r) /\ UNCHANGED <<job, beside>>)
  \/ Finished

Spec == Init /\ [][Next]_vars

----------------------------------------------------------------------------
(* Requests hold keys only while in flight, and no key is held twice or    *)
(* held and committed: rows are inserted under their unique constraints.   *)
TypeOK ==
  /\ db \subseteq Keys
  /\ job \in [Requests -> Jobs]
  /\ pc \in [Requests -> Stage]
  /\ held \in [Requests -> SUBSET (Keys \cup RowLocks)]
  /\ row \in [Requests -> 1..(MaxRows + 1)]
  /\ target \in [Requests -> Vehicles]
  /\ folder \in [Requests -> Folders]
  /\ created \in [Requests -> 0..MaxRows]
  /\ made \in [Requests -> SUBSET Vehicles]
  /\ beside \in [Requests -> SUBSET Requests]
  /\ \A r, q \in Requests : r # q => held[r] \cap (held[q] \cup db) = {}

(* A VIN gets into a second dealership of the company only through two     *)
(* requests in flight at once, although only the lookups stand against it. *)
VinTwiceNeedsOverlap ==
  \A r \in Requests : \A x \in made[r], y \in Vehicles :
    Stored(y) /\ y[2] = x[2] /\ y # x => \E q \in beside[r] : y \in made[q]

(* The summary of an import counts the vehicles it has stored; or, after a *)
(* collision with another request, it has stored nothing at all.           *)
SummaryTrueOrNothing ==
  \A r \in Requests :
    pc[r] = "summary" /\ ~job[r].dry =>
      \/ Cardinality(made[r]) = created[r]
      \/ made[r] = {} /\ beside[r] # {}

(* Whatever requests overlap, wait, fail or are picked as victims of a     *)
(* deadlock, the inventory changes as Inventory says: in particular every  *)
(* vehicle that is committed is in a folder, and a scan's folder is its    *)
(* own, although an import goes on after a link it was denied.             *)
Entered == INSTANCE Inventory
  WITH vehicles <- {x \in Vehicles : Stored(x)},
       filed <- {p \in Folders \X Vehicles : LinkKey(p[1], p[2]) \in db}

InventoryKept == Entered!Spec
=============================================================================
