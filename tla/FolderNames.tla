------------------------------ MODULE FolderNames ------------------------------
(***************************************************************************)
(* The names of one dealership's manual folders.  FolderCreateView.post    *)
(* looks whether the name it is asked for is taken, numbers it if it is    *)
(* ("Lot", "Lot (2)"), and inserts the folder; the VIN scanner inserts     *)
(* folders under names of its own without looking.  A name is unique among *)
(* the manual folders of a dealership, and folders are never deleted.      *)
(*                                                                         *)
(* The look and the count are statements of a READ COMMITTED transaction   *)
(* and see what has been committed by then, so a request is split after    *)
(* each.  The insert is the last thing it does.                            *)
(***************************************************************************)
EXTENDS Naturals, FiniteSets

CONSTANTS
  Requests,            \* request identities, each used once
  Names,               \* folder names
  Asked,               \* the names users ask for
  ScanNames,           \* the names of the VIN scanner's folders
  MaxNumber,           \* bound on the number put after a name
  StartsWith(_, _),    \* name__istartswith: ignoring case
  Numbered(_, _)       \* "<name> (<number>)"

Numbers == 1..MaxNumber

ASSUME MaxNumberAssumption == MaxNumber \in Nat
ASSUME NamesAssumption == Asked \subseteq Names /\ ScanNames \subseteq Names
ASSUME StartsWithAssumption == \A a \in Names : StartsWith(a, a)
ASSUME NumberedAssumption ==
  \A b \in Asked, n \in Numbers : Numbered(b, n) \in Names /\ StartsWith(Numbered(b, n), b)
ASSUME NumberedOnceAssumption ==
  \A b, c \in Asked, m, n \in Numbers : Numbered(b, m) = Numbered(c, n) => b = c /\ m = n

VARIABLES
  folders,             \* the names of the manual folders
  plain,               \* those that were given as they were asked for
  numbered,            \* the (name, number) pairs the others were made of
  pc,                  \* how far each request has come
  base,                \* the name each request was asked for
  number,              \* the number it puts after it, 0 for none
  seen                 \* the folders under that name when it decided so

vars == <<folders, plain, numbered, pc, base, number, seen>>

InFlight == {"count", "insert"}
Stage == {"idle"} \cup InFlight \cup {"created", "taken", "aborted"}

(* name__iexact *)
Same(a, b) == StartsWith(a, b) /\ StartsWith(b, a)

(* existing_qs *)
Under(b) == {f \in folders : StartsWith(f, b)}

Init ==
  /\ folders = {}
  /\ plain = {}
  /\ numbered = {}
  /\ pc = [r \in Requests |-> "idle"]
  /\ base \in [Requests -> Asked]
  /\ number = [r \in Requests |-> 0]
  /\ seen = [r \in Requests |-> {}]

----------------------------------------------------------------------------
Goto(r, stage) == pc' = [pc EXCEPT ![r] = stage]

Taken(b) == \E f \in folders : Same(f, b)

See(r) == seen' = [seen EXCEPT ![r] = Under(base[r])]

(* Variant: a name is taken when a folder's name starts with it. *)
LookUnder(r) ==
  /\ pc[r] = "idle"
  /\ Goto(r, IF Under(base[r]) # {} THEN "count" ELSE "insert")
  /\ See(r)
  /\ UNCHANGED <<folders, plain, numbered, base, number>>

(* existing_qs.filter(name__iexact=base_name).exists() *)
Look(r) ==
  /\ pc[r] = "idle"
  /\ Goto(r, IF Taken(base[r]) THEN "count" ELSE "insert")
  /\ See(r)
  /\ UNCHANGED <<folders, plain, numbered, base, number>>

(* Variant: the folders of exactly this name are counted. *)
CountSame(r) ==
  /\ pc[r] = "count"
  /\ LET n == Cardinality({f \in folders : Same(f, base[r])}) + 1
     IN n \in Numbers /\ number' = [number EXCEPT ![r] = n]
  /\ Goto(r, "insert")
  /\ See(r)
  /\ UNCHANGED <<folders, plain, numbered, base>>

(* existing_qs.count() + 1 *)
Count(r) ==
  /\ pc[r] = "count"
  /\ LET n == Cardinality(Under(base[r])) + 1
     IN n \in Numbers /\ number' = [number EXCEPT ![r] = n]
  /\ Goto(r, "insert")
  /\ See(r)
  /\ UNCHANGED <<folders, plain, numbered, base>>

(* Variant: the number is left out. *)
FinalNameBare(r) == base[r]

FinalName(r) == IF number[r] = 0 THEN base[r] ELSE Numbered(base[r], number[r])

Insert(r) ==
  /\ pc[r] = "insert"
  /\ FinalName(r) \notin folders
  /\ folders' = folders \cup {FinalName(r)}
  /\ IF number[r] = 0
     THEN plain' = plain \cup {base[r]} /\ UNCHANGED numbered
     ELSE numbered' = numbered \cup {<<base[r], number[r]>>} /\ UNCHANGED plain
  /\ Goto(r, "created")
  /\ UNCHANGED <<base, number, seen>>

(* The unique key refuses the insert, and nothing catches the error. *)
NameTaken(r) ==
  /\ pc[r] = "insert"
  /\ FinalName(r) \in folders
  /\ Goto(r, "taken")
  /\ UNCHANGED <<folders, plain, numbered, base, number, seen>>

(* _create_scan_folder, when its name is free. *)
CreateScanFolder(n) ==
  /\ n \notin folders
  /\ folders' = folders \cup {n}
  /\ plain' = plain \cup {n}
  /\ UNCHANGED <<numbered, pc, base, number, seen>>

(* The worker dies. *)
Abort(r) ==
  /\ pc[r] \in InFlight
  /\ Goto(r, "aborted")
  /\ UNCHANGED <<folders, plain, numbered, base, number, seen>>

Finished ==
  /\ \A r \in Requests : pc[r] \notin {"idle"} \cup InFlight
  /\ UNCHANGED vars

Next ==
  \/ \E r \in Requests : Look(r) \/ Count(r) \/ Insert(r) \/ NameTaken(r) \/ Abort(r)
  \/ \E n \in ScanNames : CreateScanFolder(n)
  \/ Finished

Spec == Init /\ [][Next]_vars

----------------------------------------------------------------------------
(* The folders are those given as asked for and those given a number, and  *)
(* every request is at a known stage.                                      *)
TypeOK ==
  /\ folders \subseteq Names
  /\ IsFiniteSet(folders)
  /\ plain \subseteq folders
  /\ numbered \subseteq Asked \X Numbers
  /\ folders = plain \cup {Numbered(p[1], p[2]) : p \in numbered}
  /\ pc \in [Requests -> Stage]
  /\ base \in [Requests -> Asked]
  /\ number \in [Requests -> {0} \cup Numbers]
  /\ seen \in [Requests -> SUBSET Names]

(* A name gets a number only beside a folder of that very name: no user    *)
(* finds "Lot (2)" without a "Lot", in whatever case it is written.        *)
NumberedBesidePlain == \A p \in numbered : Taken(p[1])

(* Other folders of that name have come since the request looked. *)
Outdated(r) == seen[r] # Under(base[r])

(* FolderCreateView picks a name that is taken for two reasons only:       *)
(* another folder was inserted after it looked or counted, or someone had  *)
(* asked for that name, number and all, before the count came to it (and   *)
(* then every retry picks it again).  Numbers it gave itself never         *)
(* collide, although it counts all folders that merely start with the name.*)
CollisionExplained ==
  [][\A r \in Requests :
       pc[r] = "insert" /\ pc'[r] = "taken" => FinalName(r) \in plain \/ Outdated(r)]_vars
=============================================================================
