--------------------------- MODULE FolderNamesProofs ---------------------------
(***************************************************************************)
(* Proofs about FolderNames, for any number of requests, any names and any *)
(* relation "starts with" that numbered names satisfy.                     *)
(*                                                                         *)
(* The argument: folders are never deleted, so what starts with a name     *)
(* only grows.  A number was the count of such folders plus one when it    *)
(* was picked, and its own folder has joined them since: every number in   *)
(* use is at most the count (NumbersCounted).  A request whose count is    *)
(* still up to date therefore picks a number above all those in use.       *)
(*                                                                         *)
(* The second part is about Catalogue, for any requests, jobs and stock:   *)
(* what a request holds, has looked at and has counted; and, from where it *)
(* files what it has inserted, that Catalogue implements Inventory.        *)
(***************************************************************************)
EXTENDS FolderNames, FiniteSetTheorems, SequenceTheorems, TLAPS

(* A number in use is at most the number of folders under its name. *)
NumbersCounted == \A p \in numbered : p[2] <= Cardinality(Under(p[1]))

(* What a request's number, or its absence, was decided on. *)
Decided(r) ==
  /\ pc[r] \in {"idle", "count"} => number[r] = 0
  /\ pc[r] = "count" => Taken(base[r])
  /\ pc[r] = "insert" => seen[r] \subseteq Under(base[r])
  /\ pc[r] = "insert" /\ number[r] = 0 => \A f \in seen[r] : ~Same(f, base[r])
  /\ pc[r] = "insert" /\ number[r] # 0 =>
       /\ number[r] = Cardinality(seen[r]) + 1
       /\ Taken(base[r])

IInv ==
  /\ TypeOK
  /\ NumberedBesidePlain
  /\ NumbersCounted
  /\ \A r \in Requests : Decided(r)

----------------------------------------------------------------------------
(* The folders under a name are finitely many. *)
LEMMA UnderFinite ==
  ASSUME TypeOK, NEW b
  PROVE  IsFiniteSet(Under(b)) /\ Cardinality(Under(b)) \in Nat
<1>1. Under(b) \subseteq folders
  BY DEF Under
<1> QED
  BY <1>1, FS_Subset, FS_CardinalityType DEF TypeOK

(* When folders are added, those under a name do not become fewer. *)
LEMMA UnderGrows ==
  ASSUME TypeOK, IsFiniteSet(folders'), folders \subseteq folders', NEW b
  PROVE  /\ Under(b) \subseteq Under(b)'
         /\ IsFiniteSet(Under(b)')
         /\ Cardinality(Under(b)) \in Nat
         /\ Cardinality(Under(b)') \in Nat
         /\ Cardinality(Under(b)) <= Cardinality(Under(b)')
<1>1. Under(b) \subseteq Under(b)'
  BY DEF Under
<1>2. Under(b)' \subseteq folders'
  BY DEF Under
<1>3. IsFiniteSet(Under(b)')
  BY <1>2, FS_Subset
<1>4. Cardinality(Under(b)) <= Cardinality(Under(b)')
  BY <1>1, <1>3, FS_Subset
<1>5. Cardinality(Under(b)') \in Nat
  BY <1>3, FS_CardinalityType
<1> QED
  BY <1>1, <1>3, <1>4, <1>5, UnderFinite

(* A name that is taken stays taken. *)
LEMMA TakenStays ==
  ASSUME folders \subseteq folders', NEW b, Taken(b)
  PROVE  Taken(b)'
BY DEF Taken

(* Steps that add folders, and leave what is numbered and what the         *)
(* requests have decided alone, keep the rest of the invariant.            *)
LEMMA FoldersGrow ==
  ASSUME IInv, IsFiniteSet(folders'), folders \subseteq folders',
         UNCHANGED <<numbered, base, number, seen>>
  PROVE  /\ NumberedBesidePlain'
         /\ NumbersCounted'
         /\ \A r \in Requests : pc'[r] \in {pc[r], "created", "taken", "aborted"} => Decided(r)'
<1>1. NumberedBesidePlain'
  BY TakenStays DEF IInv, NumberedBesidePlain
<1>2. NumbersCounted'
  <2> SUFFICES ASSUME NEW p \in numbered
               PROVE  p[2] <= Cardinality(Under(p[1])')
    BY DEF NumbersCounted
  <2>1. p[2] <= Cardinality(Under(p[1]))
    BY DEF IInv, NumbersCounted
  <2>2. p[2] \in Nat
    BY MaxNumberAssumption DEF IInv, TypeOK, Numbers
  <2>3. /\ Cardinality(Under(p[1])) <= Cardinality(Under(p[1])')
        /\ Cardinality(Under(p[1])) \in Nat
        /\ Cardinality(Under(p[1])') \in Nat
    BY UnderGrows DEF IInv
  <2> QED
    BY <2>1, <2>2, <2>3
<1>3. ASSUME NEW r \in Requests, pc'[r] \in {pc[r], "created", "taken", "aborted"}
      PROVE  Decided(r)'
  <2>1. Decided(r)
    BY DEF IInv
  <2>2. Under(base[r]) \subseteq Under(base[r])'
    BY DEF Under
  <2>3. Taken(base[r]) => Taken(base[r])'
    BY TakenStays
  <2> QED
    BY <1>3, <2>1, <2>2, <2>3 DEF Decided, Same
<1> QED
  BY <1>1, <1>2, <1>3

----------------------------------------------------------------------------
(* The initial states satisfy the invariant. *)
LEMMA InitIInv == Init => IInv
<1> SUFFICES ASSUME Init PROVE IInv
  OBVIOUS
<1>1. TypeOK
  BY FS_EmptySet DEF Init, TypeOK, Stage
<1>2. \A r \in Requests : Decided(r)
  BY DEF Init, Decided
<1> QED
  BY <1>1, <1>2 DEF Init, IInv, NumberedBesidePlain, NumbersCounted

(* What looks without touching the folders keeps what is said of them. *)
LEMMA FoldersKept ==
  ASSUME IInv, UNCHANGED <<folders, plain, numbered>>
  PROVE  NumberedBesidePlain' /\ NumbersCounted'
BY DEF IInv, NumberedBesidePlain, NumbersCounted, Taken, Under

(* A request that finds its name free has seen no folder of that name. *)
LEMMA LookStep == ASSUME IInv, NEW r \in Requests, Look(r) PROVE IInv'
<1>1. TypeOK'
  BY DEF IInv, TypeOK, Look, Goto, See, Under, Stage, InFlight
<1>2. NumberedBesidePlain' /\ NumbersCounted'
  BY FoldersKept DEF Look
<1>3. Decided(r)'
  <2>1. r \in DOMAIN pc /\ r \in DOMAIN seen
    BY DEF IInv, TypeOK
  <2>2. /\ pc'[r] = IF Taken(base[r]) THEN "count" ELSE "insert"
        /\ seen'[r] = Under(base[r])
        /\ number'[r] = 0
        /\ base' = base /\ folders' = folders
    BY <2>1 DEF Look, Goto, See, IInv, Decided
  <2> QED
    BY <2>2 DEF Decided, Taken, Under, Same
<1>4. ASSUME NEW q \in Requests, q # r PROVE Decided(q)'
  BY <1>4 DEF IInv, TypeOK, Look, Goto, See, Decided, Taken, Under, Same
<1> QED
  BY <1>1, <1>2, <1>3, <1>4 DEF IInv

(* A request that counts picks the count plus one. *)
LEMMA CountStep == ASSUME IInv, NEW r \in Requests, Count(r) PROVE IInv'
<1>1. TypeOK'
  BY DEF IInv, TypeOK, Count, Goto, See, Under, Stage, InFlight
<1>2. NumberedBesidePlain' /\ NumbersCounted'
  BY FoldersKept DEF Count
<1>3. Decided(r)'
  <2>1. r \in DOMAIN pc /\ r \in DOMAIN seen /\ r \in DOMAIN number
    BY DEF IInv, TypeOK
  <2>2. /\ pc'[r] = "insert"
        /\ seen'[r] = Under(base[r])
        /\ number'[r] = Cardinality(Under(base[r])) + 1
        /\ base' = base /\ folders' = folders
    BY <2>1 DEF Count, Goto, See
  <2>3. Taken(base[r])
    BY DEF Count, IInv, Decided
  <2>4. number'[r] # 0
    BY <2>2, UnderFinite DEF IInv
  <2> QED
    BY <2>2, <2>3, <2>4 DEF Decided, Taken, Under
<1>4. ASSUME NEW q \in Requests, q # r PROVE Decided(q)'
  BY <1>4 DEF IInv, TypeOK, Count, Goto, See, Decided, Taken, Under, Same
<1> QED
  BY <1>1, <1>2, <1>3, <1>4 DEF IInv

----------------------------------------------------------------------------
(* The name a request inserts starts with the name it was asked for. *)
LEMMA FinalNameUnder ==
  ASSUME TypeOK, NEW r \in Requests
  PROVE  FinalName(r) \in Names /\ StartsWith(FinalName(r), base[r])
BY StartsWithAssumption, NamesAssumption, NumberedAssumption DEF TypeOK, FinalName

(* An insert makes the folders under its name one more. *)
LEMMA InsertCounted ==
  ASSUME TypeOK, NEW r \in Requests, Insert(r)
  PROVE  Cardinality(Under(base[r])') = Cardinality(Under(base[r])) + 1
<1>1. Under(base[r])' = Under(base[r]) \cup {FinalName(r)}
  BY FinalNameUnder DEF Insert, Under
<1>2. FinalName(r) \notin Under(base[r])
  BY DEF Insert, Under
<1> QED
  BY <1>1, <1>2, UnderFinite, FS_AddElement

(* An insert under a number finds the count at least as high as it was. *)
LEMMA InsertStep == ASSUME IInv, NEW r \in Requests, Insert(r) PROVE IInv'
<1> USE DEF IInv
<1>1. /\ IsFiniteSet(folders')
      /\ folders \subseteq folders'
      /\ FinalName(r) \in Names
      /\ folders' = folders \cup {FinalName(r)}
      /\ pc' = [pc EXCEPT ![r] = "created"]
      /\ UNCHANGED <<base, number, seen>>
      /\ pc[r] = "insert"
  BY FS_AddElement, FinalNameUnder DEF TypeOK, Insert, Goto
<1>2. pc \in [Requests -> Stage] /\ number[r] \in {0} \cup Numbers /\ base[r] \in Asked
  BY DEF TypeOK
<1>3. \A q \in Requests : Decided(q)'
  <2> SUFFICES ASSUME NEW q \in Requests PROVE Decided(q)'
    OBVIOUS
  <2>1. pc'[q] \in {pc[q], "created"}
    BY <1>1, <1>2
  <2>2. Under(base[q]) \subseteq Under(base[q])'
    BY <1>1 DEF Under
  <2>3. Taken(base[q]) => Taken(base[q])'
    BY <1>1, TakenStays
  <2> QED
    BY <1>1, <2>1, <2>2, <2>3 DEF Decided, Same
<1>4. CASE number[r] = 0
  <2>1. /\ numbered' = numbered
        /\ plain' = plain \cup {base[r]}
        /\ FinalName(r) = base[r]
    BY <1>4 DEF Insert, FinalName
  <2>2. TypeOK'
    BY <1>1, <1>2, <2>1 DEF TypeOK, Stage
  <2>3. NumberedBesidePlain' /\ NumbersCounted'
    BY <1>1, <2>1, FoldersGrow
  <2> QED
    BY <1>3, <2>2, <2>3
<1>5. CASE number[r] # 0
  <2>1. /\ numbered' = numbered \cup {<<base[r], number[r]>>}
        /\ plain' = plain
        /\ FinalName(r) = Numbered(base[r], number[r])
    BY <1>5 DEF Insert, FinalName
  <2>2. TypeOK'
    <3>1. folders' = plain' \cup {Numbered(p[1], p[2]) : p \in numbered'}
      <4> DEFINE q == <<base[r], number[r]>>
      <4>1. FinalName(r) = Numbered(q[1], q[2])
        BY <2>1
      <4>2. numbered' = numbered \cup {q}
        BY <2>1
      <4> HIDE DEF q
      <4>3. {Numbered(p[1], p[2]) : p \in numbered'}
              = {Numbered(p[1], p[2]) : p \in numbered} \cup {Numbered(q[1], q[2])}
        BY <4>2
      <4> QED
        BY <1>1, <2>1, <4>1, <4>3 DEF TypeOK
    <3>2. numbered' \subseteq Asked \X Numbers
      BY <1>2, <1>5, <2>1 DEF TypeOK
    <3> QED
      BY <1>1, <1>2, <2>1, <3>1, <3>2 DEF TypeOK, Stage
  <2>3. NumberedBesidePlain'
    <3>1. Taken(base[r])'
      BY <1>1, <1>5, TakenStays DEF Decided
    <3>2. \A p \in numbered : Taken(p[1])'
      BY <1>1, TakenStays DEF NumberedBesidePlain
    <3>3. ASSUME NEW p \in numbered' PROVE Taken(p[1])'
      <4>1. CASE p = <<base[r], number[r]>>
        BY <1>1, <3>1, <4>1 DEF Taken
      <4> QED
        BY <2>1, <3>2, <4>1
    <3> QED
      BY <3>3 DEF NumberedBesidePlain
  <2>4. NumbersCounted'
    <3>1. number[r] <= Cardinality(Under(base[r])')
      <4>1. number[r] = Cardinality(seen[r]) + 1 /\ seen[r] \subseteq Under(base[r])
        BY <1>1, <1>5 DEF Decided
      <4>2. /\ Cardinality(seen[r]) <= Cardinality(Under(base[r]))
            /\ Cardinality(seen[r]) \in Nat
        BY <4>1, UnderFinite, FS_Subset, FS_CardinalityType
      <4> QED
        BY <4>1, <4>2, InsertCounted, UnderFinite
    <3>2. ASSUME NEW p \in numbered PROVE p[2] <= Cardinality(Under(p[1])')
      <4>1. p[2] <= Cardinality(Under(p[1])) /\ p[2] \in Nat
        BY MaxNumberAssumption DEF NumbersCounted, TypeOK, Numbers
      <4>2. /\ Cardinality(Under(p[1])) <= Cardinality(Under(p[1])')
            /\ Cardinality(Under(p[1])) \in Nat
            /\ Cardinality(Under(p[1])') \in Nat
        BY <1>1, UnderGrows
      <4> QED
        BY <4>1, <4>2
    <3>3. ASSUME NEW p \in numbered' PROVE p[2] <= Cardinality(Under(p[1])')
      <4>1. CASE p = <<base[r], number[r]>>
        BY <1>1, <3>1, <4>1 DEF Under
      <4> QED
        BY <2>1, <3>2, <4>1
    <3> QED
      BY <3>3 DEF NumbersCounted
  <2> QED
    BY <1>3, <2>2, <2>3, <2>4
<1> QED
  BY <1>4, <1>5

----------------------------------------------------------------------------
(* A folder of the VIN scanner changes nothing requests have decided. *)
LEMMA ScanStep == ASSUME IInv, NEW n \in ScanNames, CreateScanFolder(n) PROVE IInv'
<1>1. /\ IsFiniteSet(folders')
      /\ folders \subseteq folders'
      /\ UNCHANGED <<numbered, base, number, seen, pc>>
  BY FS_AddElement DEF IInv, TypeOK, CreateScanFolder
<1>2. TypeOK'
  BY <1>1, NamesAssumption DEF IInv, TypeOK, CreateScanFolder
<1> QED
  BY <1>1, <1>2, FoldersGrow DEF IInv

(* A request that ends without a folder leaves none behind. *)
LEMMA EndStep == ASSUME IInv, NEW r \in Requests, NameTaken(r) \/ Abort(r) PROVE IInv'
<1>1. /\ UNCHANGED <<folders, plain, numbered, base, number, seen>>
      /\ \/ pc' = [pc EXCEPT ![r] = "taken"]
         \/ pc' = [pc EXCEPT ![r] = "aborted"]
  BY DEF NameTaken, Abort, Goto
<1>2. TypeOK'
  BY <1>1 DEF IInv, TypeOK, Stage
<1>3. \A q \in Requests : pc'[q] \in {pc[q], "created", "taken", "aborted"}
  BY <1>1 DEF IInv, TypeOK
<1>4. IsFiniteSet(folders') /\ folders \subseteq folders'
  BY <1>1 DEF IInv, TypeOK
<1> QED
  BY <1>1, <1>2, <1>3, <1>4, FoldersGrow DEF IInv

(* Every step of the program keeps the invariant. *)
LEMMA NextIInv == IInv /\ [Next]_vars => IInv'
<1> SUFFICES ASSUME IInv, [Next]_vars PROVE IInv'
  OBVIOUS
<1>1. CASE \E r \in Requests : Look(r) \/ Count(r) \/ Insert(r) \/ NameTaken(r) \/ Abort(r)
  BY <1>1, LookStep, CountStep, InsertStep, EndStep
<1>2. CASE \E n \in ScanNames : CreateScanFolder(n)
  BY <1>2, ScanStep
<1>3. CASE UNCHANGED vars
  BY <1>3 DEF vars, IInv, TypeOK, NumberedBesidePlain, NumbersCounted, Decided, Taken, Under, Same
<1> QED
  BY <1>1, <1>2, <1>3 DEF Next, Finished

(* In every reachable state, the invariant holds. *)
THEOREM Invariant == Spec => []IInv
BY InitIInv, NextIInv, PTL DEF Spec

(* The folders of a dealership are exactly those inserted as they were     *)
(* asked for and those inserted under a number.                            *)
THEOREM TypeCorrect == Spec => []TypeOK
<1>1. IInv => TypeOK
  BY DEF IInv
<1> QED
  BY <1>1, Invariant, PTL

(* FolderCreateView gives a number only beside a folder of that very name. *)
THEOREM NumbersAreBesidePlain == Spec => []NumberedBesidePlain
<1>1. IInv => NumberedBesidePlain
  BY DEF IInv
<1> QED
  BY <1>1, Invariant, PTL

(* A name that is taken while nothing has changed under it was asked for   *)
(* by someone in that very form.                                           *)
LEMMA CollisionStep ==
  ASSUME IInv, NEW r \in Requests, NameTaken(r), ~Outdated(r)
  PROVE  FinalName(r) \in plain
<1> SUFFICES ASSUME FinalName(r) \notin plain PROVE FALSE
  OBVIOUS
<1>1. PICK p \in numbered : FinalName(r) = Numbered(p[1], p[2])
  BY DEF NameTaken, IInv, TypeOK
<1>2. seen[r] = Under(base[r])
  BY DEF Outdated
<1>3. pc[r] = "insert" /\ FinalName(r) \in folders /\ Decided(r)
  BY DEF NameTaken, IInv
<1>4. CASE number[r] = 0
  <2>1. FinalName(r) = base[r] /\ Same(base[r], base[r])
    BY <1>4, FinalNameUnder DEF FinalName, Same, IInv
  <2>2. base[r] \in seen[r]
    BY <1>2, <1>3, <2>1 DEF Under, Same
  <2> QED
    BY <1>3, <1>4, <2>1, <2>2 DEF Decided
<1>5. CASE number[r] # 0
  <2>1. base[r] \in Asked /\ number[r] \in Numbers /\ p[1] \in Asked /\ p[2] \in Numbers
    BY <1>5 DEF IInv, TypeOK
  <2>2. p[1] = base[r] /\ p[2] = number[r]
    BY <1>1, <1>5, <2>1, NumberedOnceAssumption DEF FinalName
  <2>3. number[r] <= Cardinality(Under(base[r]))
    BY <2>2 DEF IInv, NumbersCounted
  <2>4. number[r] = Cardinality(Under(base[r])) + 1
    BY <1>2, <1>3, <1>5 DEF Decided
  <2> QED
    BY <2>3, <2>4, UnderFinite DEF IInv
<1> QED
  BY <1>4, <1>5

(* FolderCreateView fails on a name that is taken only if the folders      *)
(* under it have changed since it decided, or someone asked for that name. *)
THEOREM CollisionsExplained == Spec => CollisionExplained
<1> DEFINE Explained == \A r \in Requests :
      pc[r] = "insert" /\ pc'[r] = "taken" => FinalName(r) \in plain \/ Outdated(r)
<1>1. IInv /\ [Next]_vars => [Explained]_vars
  <2> SUFFICES ASSUME IInv, Next, NEW r \in Requests, pc[r] = "insert", pc'[r] = "taken"
               PROVE  FinalName(r) \in plain \/ Outdated(r)
    OBVIOUS
  <2>1. pc \in [Requests -> Stage]
    BY DEF IInv, TypeOK
  <2>2. NameTaken(r)
    BY <2>1 DEF Next, Look, Count, Insert, NameTaken, Abort, CreateScanFolder, Finished, Goto, vars
  <2> QED
    BY <2>2, CollisionStep
<1> QED
  BY <1>1, Invariant, PTL DEF Spec, CollisionExplained

----------------------------------------------------------------------------
(* How vehicles enter the inventory, in the requests of Catalogue.         *)
CONSTANTS Dealerships, Vins, Stock, Jobs, MaxRows, MaxMinute
VARIABLES db, job, stage, held, row, target, folder, created, made, beside
Entries == INSTANCE Catalogue WITH pc <- stage

Vehicles == Entries!Vehicles
Flying(r) == stage[r] \in Entries!InFlight
Answered(r) == stage[r] \in Entries!Final
File(r) == job[r].rows

(* The vehicles that r has inserted, and those it has or is about to.      *)
Inserted(r) == {x \in Vehicles : Entries!VehicleKey(x) \in held[r]}
Claimed(r) == Inserted(r) \cup {x \in Vehicles : stage[r] = "insert" /\ x = target[r]}

(* A request holds keys only while it is in flight, and what it holds is   *)
(* not committed.  What it links is there, or its own; what it has         *)
(* inserted is in its dealership. *)
Holding(r) ==
  /\ held[r] # {} => Flying(r)
  /\ held[r] \cap db = {}
  /\ \A f \in Entries!Folders, x \in Vehicles :
       Entries!LinkKey(f, x) \in held[r] => Entries!VehicleKey(x) \in db \cup held[r]
  /\ \A x \in Inserted(r) : x[1] = job[r].at

(* What it writes now: a vehicle of its dealership that it has not         *)
(* inserted yet, one that it has, or one that is there. *)
Writing(r) ==
  /\ stage[r] = "insert" => target[r][1] = job[r].at /\ target[r] \notin Inserted(r)
  /\ stage[r] \in {"folder", "file"} => target[r] \in Inserted(r)
  /\ stage[r] \in {"touch", "link"} => Entries!VehicleKey(target[r]) \in db \cup held[r]

(* How far it is in its file; and in a file that is not for show, it has   *)
(* counted what it has inserted, but for the vehicle it has yet to file.   *)
Counting(r) ==
  /\ row[r] \in 1..(Len(File(r)) + 1)
  /\ stage[r] \in {"insert", "folder", "file", "touch", "link"} => row[r] <= Len(File(r))
  /\ created[r] \in 0..(row[r] - 1)
  /\ stage[r] = "idle" => created[r] = 0
  /\ Flying(r) /\ ~job[r].dry =>
       /\ IsFiniteSet(Inserted(r))
       /\ Cardinality(Inserted(r)) =
            created[r] + (IF stage[r] \in {"folder", "file"} THEN 1 ELSE 0)

(* Its look-ups told it of every vehicle of the VIN that was there: any    *)
(* other one has come of a request beside it. *)
Looked(r) ==
  \A x \in Claimed(r), y \in Vehicles :
    Entries!Stored(y) /\ y[2] = x[2] => \E q \in beside[r] : y \in made[q]

(* What it has committed is there, and as many as its summary says. *)
Made(r) ==
  /\ made[r] # {} => Answered(r)
  /\ \A x \in made[r] : Entries!Stored(x)
  /\ stage[r] = "summary" /\ ~job[r].dry =>
       \/ Cardinality(made[r]) = created[r]
       \/ made[r] = {} /\ beside[r] # {}

EntryTypes ==
  /\ db \subseteq Entries!Keys
  /\ job \in [Requests -> Jobs]
  /\ stage \in [Requests -> Entries!Stage]
  /\ held \in [Requests -> SUBSET (Entries!Keys \cup Entries!RowLocks)]
  /\ row \in [Requests -> Nat]
  /\ target \in [Requests -> Vehicles]
  /\ folder \in [Requests -> Entries!Folders]
  /\ created \in [Requests -> Nat]
  /\ made \in [Requests -> SUBSET Vehicles]
  /\ beside \in [Requests -> SUBSET Requests]

(* Nothing is inserted twice, and requests in flight together know it.     *)
KeysApart == \A r, q \in Requests : r # q => held[r] \cap held[q] = {} /\ made[r] \cap made[q] = {}
Neighbours ==
  \A r, q \in Requests :
    /\ q \in beside[r] => r \in beside[q] /\ stage[r] # "idle"
    /\ r # q /\ Flying(r) /\ Flying(q) => q \in beside[r]

RequestInv(r) == Holding(r) /\ Writing(r) /\ Counting(r) /\ Looked(r) /\ Made(r)

EntryInv ==
  /\ EntryTypes /\ KeysApart /\ Neighbours /\ Entries!VinTwiceNeedsOverlap
  /\ \A r \in Requests : RequestInv(r)

----------------------------------------------------------------------------
(* Keys of different kinds are different, and so are those of different    *)
(* vehicles. *)
LEMMA KeyKinds ==
  ASSUME NEW x, NEW y, NEW f, NEW g
  PROVE  /\ Entries!VehicleKey(x) = Entries!VehicleKey(y) => x = y
         /\ Entries!VehicleKey(x) # Entries!FolderKey(f)
         /\ Entries!VehicleKey(x) # Entries!LinkKey(f, y)
         /\ Entries!VehicleKey(x) # Entries!RowLock(y)
         /\ Entries!LinkKey(f, x) = Entries!LinkKey(g, y) => f = g /\ x = y
         /\ Entries!LinkKey(f, x) # Entries!FolderKey(g)
         /\ Entries!LinkKey(f, x) # Entries!RowLock(y)
BY DEF Entries!VehicleKey, Entries!FolderKey, Entries!LinkKey, Entries!RowLock

LEMMA NoRowLockStored == Entries!Keys \cap Entries!RowLocks = {}
BY DEF Entries!Keys, Entries!RowLocks, Entries!VehicleKey, Entries!FolderKey, Entries!LinkKey,
       Entries!RowLock

LEMMA LengthOfFile ==
  ASSUME NEW S, NEW n \in Nat, NEW f \in [1..n -> S] PROVE Len(f) = n
<1>1. f \in Seq(S)
  BY SeqDef, Zenon
<1>2. QED
  BY <1>1, LenProperties

LEMMA JobsTyped ==
  ASSUME Entries!JobsAssumption, Entries!BoundsAssumption, NEW j \in Jobs
  PROVE  /\ j.at \in Dealerships /\ j.dry \in BOOLEAN
         /\ Len(j.rows) \in 1..MaxRows
         /\ \A i \in 1..Len(j.rows) : j.rows[i] \in Vins
<1>1. j \in Entries!Job
  BY DEF Entries!JobsAssumption
<1>2. j.at \in Dealerships /\ j.dry \in BOOLEAN
  BY <1>1 DEF Entries!Job
<1>3. PICK n \in 1..MaxRows : j.rows \in [1..n -> Vins]
  <2>1. CASE j \in [kind : {"create", "scan"}, at : Dealerships, rows : [1..1 -> Vins],
                    dry : {FALSE}]
    <3>1. 1 \in 1..MaxRows
      BY DEF Entries!BoundsAssumption
    <3>2. QED
      BY <2>1, <3>1
  <2>2. CASE j \in [kind : Entries!OnConflict, at : Dealerships,
                    rows : UNION {[1..n -> Vins] : n \in 1..MaxRows}, dry : BOOLEAN]
    BY <2>2
  <2>3. QED
    BY <1>1, <2>1, <2>2 DEF Entries!Job
<1>4. n \in Nat
  BY DEF Entries!BoundsAssumption
<1>5. Len(j.rows) = n
  BY <1>3, <1>4, LengthOfFile
<1>6. QED
  BY <1>2, <1>3, <1>5

LEMMA EntryInit ==
  ASSUME Entries!JobsAssumption, Entries!BoundsAssumption, Entries!StockAssumption, Entries!Init
  PROVE  EntryInv
<1>1. /\ job \in [Requests -> Jobs]
      /\ stage = [r \in Requests |-> "idle"]
      /\ held = [r \in Requests |-> {}]
      /\ row = [r \in Requests |-> 1]
      /\ target = [r \in Requests |-> <<job[r].at, job[r].rows[1]>>]
      /\ folder = [r \in Requests |-> <<job[r].at, 0>>]
      /\ created = [r \in Requests |-> 0]
      /\ made = [r \in Requests |-> {}]
      /\ beside = [r \in Requests |-> {}]
  BY DEF Entries!Init
<1>2. \A r \in Requests : /\ job[r].at \in Dealerships /\ Len(job[r].rows) \in 1..MaxRows
                          /\ \A i \in 1..Len(job[r].rows) : job[r].rows[i] \in Vins
  BY <1>1, JobsTyped
<1>3. \A r \in Requests : Len(job[r].rows) \in Nat \ {0} /\ job[r].rows[1] \in Vins
  BY <1>2 DEF Entries!BoundsAssumption
<1>4. db \subseteq Entries!Keys
  <2>1. PICK stock \in SUBSET Stock :
          db = UNION {{Entries!VehicleKey(x), Entries!LinkKey(<<x[1], 0>>, x)} : x \in stock}
    BY DEF Entries!Init
  <2>2. \A x \in stock : x \in Entries!Vehicles /\ <<x[1], 0>> \in Entries!Folders
    BY DEF Entries!StockAssumption, Entries!Vehicles, Entries!Folders, Entries!BoundsAssumption
  <2>3. \A x \in stock : /\ Entries!VehicleKey(x) \in Entries!Keys
                         /\ Entries!LinkKey(<<x[1], 0>>, x) \in Entries!Keys
    <3> SUFFICES ASSUME NEW x \in stock
                 PROVE  /\ Entries!VehicleKey(x) \in Entries!Keys
                        /\ Entries!LinkKey(<<x[1], 0>>, x) \in Entries!Keys
      OBVIOUS
    <3>1. PICK f : f = <<x[1], 0>>
      OBVIOUS
    <3>2. x \in Entries!Vehicles /\ f \in Entries!Folders
      BY <2>2, <3>1
    <3>3. Entries!VehicleKey(x) \in Entries!Keys /\ Entries!LinkKey(f, x) \in Entries!Keys
      BY <3>2 DEF Entries!Keys
    <3>4. QED
      BY <3>1, <3>3
  <2>4. ASSUME NEW k \in db PROVE k \in Entries!Keys
    <3>1. PICK x \in stock :
            k \in {Entries!VehicleKey(x), Entries!LinkKey(<<x[1], 0>>, x)}
      BY <2>1
    <3>2. QED
      BY <2>3, <3>1
  <2>5. QED
    BY <2>4
<1>5. EntryTypes
  <2>1. \A r \in Requests : <<job[r].at, job[r].rows[1]>> \in Vehicles
    BY <1>2, <1>3 DEF Vehicles, Entries!Vehicles
  <2>2. \A r \in Requests : <<job[r].at, 0>> \in Entries!Folders
    BY <1>2 DEF Entries!Folders, Entries!BoundsAssumption
  <2>3. QED
    BY <1>1, <1>4, <2>1, <2>2 DEF EntryTypes, Entries!Stage
<1>6. KeysApart /\ Neighbours /\ Entries!VinTwiceNeedsOverlap
  BY <1>1 DEF KeysApart, Neighbours, Entries!VinTwiceNeedsOverlap, Flying, Entries!InFlight
<1>7. \A r \in Requests : RequestInv(r)
  <2> SUFFICES ASSUME NEW r \in Requests PROVE RequestInv(r)
    OBVIOUS
  <2>1. /\ stage[r] = "idle" /\ held[r] = {} /\ row[r] = 1 /\ created[r] = 0 /\ made[r] = {}
        /\ Inserted(r) = {} /\ Claimed(r) = {} /\ ~Flying(r)
    BY <1>1 DEF Inserted, Claimed, Flying, Entries!InFlight
  <2>2. Holding(r) /\ Writing(r) /\ Looked(r) /\ Made(r)
    BY <2>1 DEF Holding, Writing, Looked, Made
  <2>3. Counting(r)
    BY <1>3, <2>1 DEF Counting, File
  <2>4. QED
    BY <2>2, <2>3 DEF RequestInv
<1>8. QED
  BY <1>5, <1>6, <1>7 DEF EntryInv

----------------------------------------------------------------------------
(* What a step of r leaves alone. *)
Others(r) ==
  \A q \in Requests \ {r} :
    /\ stage'[q] = stage[q] /\ held'[q] = held[q] /\ row'[q] = row[q]
    /\ target'[q] = target[q] /\ created'[q] = created[q]

(* A request in flight goes on, or ends, and commits nothing.              *)
LEMMA EntryGoesOn ==
  ASSUME EntryInv, NEW r \in Requests, Flying(r), EntryTypes', Others(r),
         UNCHANGED <<db, job, made, beside>>, stage'[r] # "idle",
         \A q \in Requests \ {r} : held'[r] \cap held[q] = {},
         RequestInv(r)'
  PROVE  EntryInv'
<1>1. \A q \in Requests \ {r} :
        /\ stage'[q] = stage[q] /\ held'[q] = held[q] /\ row'[q] = row[q]
        /\ target'[q] = target[q] /\ created'[q] = created[q]
  BY DEF Others
<1>2. KeysApart'
  <2> SUFFICES ASSUME NEW p \in Requests, NEW q \in Requests, p # q
               PROVE  held'[p] \cap held'[q] = {} /\ made'[p] \cap made'[q] = {}
    BY DEF KeysApart
  <2>1. held[p] \cap held[q] = {} /\ made[p] \cap made[q] = {}
    BY DEF EntryInv, KeysApart
  <2>2. CASE p = r
    BY <1>1, <2>1, <2>2
  <2>3. CASE q = r
    BY <1>1, <2>1, <2>3
  <2>4. CASE p # r /\ q # r
    BY <1>1, <2>1, <2>4
  <2>5. QED
    BY <2>2, <2>3, <2>4
<1>3. Neighbours'
  <2>1. \A p \in Requests : Flying(p)' => Flying(p)
    BY <1>1 DEF Flying
  <2>2. \A p \in Requests : stage[p] # "idle" => stage'[p] # "idle"
    BY <1>1
  <2>3. QED
    BY <2>1, <2>2 DEF EntryInv, Neighbours
<1>4. Entries!VinTwiceNeedsOverlap'
  BY DEF EntryInv, Entries!VinTwiceNeedsOverlap, Entries!Stored
<1>5. ASSUME NEW q \in Requests, q # r PROVE RequestInv(q)'
  <2>1. RequestInv(q)
    BY DEF EntryInv
  <2>2. /\ stage'[q] = stage[q] /\ held'[q] = held[q] /\ row'[q] = row[q]
        /\ target'[q] = target[q] /\ created'[q] = created[q]
        /\ UNCHANGED <<db, job, made, beside>>
    BY <1>1, <1>5
  <2>3. /\ Inserted(q)' = Inserted(q) /\ Claimed(q)' = Claimed(q)
        /\ Flying(q)' <=> Flying(q)
        /\ Answered(q)' <=> Answered(q)
    BY <2>2 DEF Inserted, Claimed, Flying, Answered
  <2>4. Holding(q)' /\ Writing(q)' /\ Counting(q)' /\ Looked(q)' /\ Made(q)'
    BY <2>1, <2>2, <2>3
    DEF RequestInv, Holding, Writing, Counting, Looked, Made, File, Entries!Stored
  <2>5. QED
    BY <2>4 DEF RequestInv
<1>6. QED
  BY <1>2, <1>3, <1>4, <1>5 DEF EntryInv

(* It has no key once it has ended, and the summary of an import is right. *)
LEMMA EntryEnds ==
  ASSUME EntryInv, NEW r \in Requests, Flying(r), NEW answer \in Entries!Final,
         Entries!Rollback(r, answer), UNCHANGED <<job, beside>>,
         answer = "summary" => beside[r] # {}
  PROVE  EntryInv'
<1>1. /\ stage' = [stage EXCEPT ![r] = answer] /\ held' = [held EXCEPT ![r] = {}]
      /\ UNCHANGED <<db, row, target, folder, created, made>>
  BY DEF Entries!Rollback, Entries!End, Entries!Goto
<1>2. RequestInv(r)
  BY DEF EntryInv
<1>3. stage'[r] = answer /\ held'[r] = {} /\ answer # "idle" /\ answer \notin Entries!InFlight
  BY <1>1 DEF EntryInv, EntryTypes, Entries!Final, Entries!InFlight
<1>4. Inserted(r)' = {} /\ Claimed(r)' = {} /\ ~Flying(r)' /\ Answered(r)' /\ made[r] = {}
  BY <1>2, <1>3 DEF Inserted, Claimed, Flying, Answered, RequestInv, Made, Entries!Final,
     Entries!InFlight
<1>5. answer \notin {"insert", "folder", "file", "touch", "link"}
  BY DEF Entries!Final
<1>6. Holding(r)' /\ Writing(r)' /\ Looked(r)' /\ Made(r)'
  BY <1>1, <1>3, <1>4, <1>5 DEF Holding, Writing, Looked, Made
<1>7. Counting(r)'
  BY <1>1, <1>2, <1>3, <1>4, <1>5 DEF RequestInv, Counting, File
<1>8. answer \in Entries!Stage \ {"idle"}
  BY <1>3 DEF Entries!Stage
<1>9. EntryTypes'
  BY <1>1, <1>8 DEF EntryInv, EntryTypes
<1>10. Others(r)
  BY <1>1 DEF EntryInv, EntryTypes, Others
<1>11. RequestInv(r)'
  BY <1>6, <1>7 DEF RequestInv
<1>12. QED
  BY <1>1, <1>3, <1>9, <1>10, <1>11, EntryGoesOn

LEMMA EntryBegins == ASSUME EntryInv, NEW r \in Requests, Entries!Begin(r) PROVE EntryInv'
<1>1. /\ stage[r] = "idle" /\ stage' = [stage EXCEPT ![r] = "row"]
      /\ beside' = [q \in Requests |->
                      IF q = r THEN {p \in Requests : Flying(p)}
                      ELSE IF Flying(q) THEN beside[q] \cup {r} ELSE beside[q]]
      /\ UNCHANGED <<db, job, held, row, target, folder, created, made>>
  BY DEF Entries!Begin, Entries!Goto, Flying
<1>2. /\ stage'[r] = "row" /\ \A q \in Requests \ {r} : stage'[q] = stage[q]
      /\ ~Flying(r) /\ ~Answered(r)
  BY <1>1 DEF EntryInv, EntryTypes, Flying, Answered, Entries!InFlight, Entries!Final
<1>3. /\ \A q \in Requests : beside[q] \subseteq beside'[q] \/ q = r
      /\ \A q \in Requests \ {r} : ~Flying(q) => beside'[q] = beside[q]
      /\ beside[r] = {}
  <2>1. \A q \in Requests : beside[q] \subseteq Requests
    BY DEF EntryInv, EntryTypes
  <2>2. QED
    BY <1>1, <2>1 DEF EntryInv, Neighbours
<1>4. EntryTypes'
  BY <1>1 DEF EntryInv, EntryTypes, Entries!Stage, Entries!InFlight
<1>5. KeysApart'
  BY <1>1 DEF EntryInv, KeysApart
<1>6. Neighbours'
  <2> SUFFICES ASSUME NEW p \in Requests, NEW q \in Requests
               PROVE  /\ q \in beside'[p] => p \in beside'[q] /\ stage'[p] # "idle"
                      /\ p # q /\ Flying(p)' /\ Flying(q)' => q \in beside'[p]
    BY DEF Neighbours
  <2>1. /\ q \in beside[p] => p \in beside[q] /\ stage[p] # "idle"
        /\ p \in beside[q] => q \in beside[p] /\ stage[q] # "idle"
        /\ p # q /\ Flying(p) /\ Flying(q) => q \in beside[p]
    BY DEF EntryInv, Neighbours
  <2>2. \A u \in Requests : Flying(u) => stage[u] # "idle"
    BY DEF Flying, Entries!InFlight
  <2>3. \A u \in Requests : u # r => (Flying(u)' <=> Flying(u))
    BY <1>2 DEF Flying
  <2>4. QED
    BY <1>1, <1>2, <2>1, <2>2, <2>3
<1>7. Entries!VinTwiceNeedsOverlap'
  <2> SUFFICES ASSUME NEW q \in Requests, NEW x \in made[q], NEW y \in Vehicles,
                      Entries!Stored(y), y[2] = x[2], y # x
               PROVE  \E p \in beside'[q] : y \in made[p]
    BY <1>1 DEF Entries!VinTwiceNeedsOverlap, Entries!Stored, Vehicles
  <2>1. \E p \in beside[q] : y \in made[p]
    BY DEF EntryInv, Entries!VinTwiceNeedsOverlap, Vehicles
  <2>2. Answered(q)
    BY DEF EntryInv, RequestInv, Made
  <2>3. q # r
    BY <1>2, <2>2
  <2>4. QED
    BY <1>3, <2>1, <2>3
<1>8. ASSUME NEW q \in Requests PROVE RequestInv(q)'
  <2>1. RequestInv(q)
    BY DEF EntryInv
  <2>2. Inserted(q)' = Inserted(q) /\ (q = r => Inserted(q) = {} /\ held[q] = {} /\ made[q] = {})
    BY <1>1, <1>2, <2>1 DEF Inserted, RequestInv, Holding, Made
  <2>3. Claimed(q)' = Claimed(q) /\ (Claimed(q) # {} => Flying(q) /\ q # r)
    <3>1. Claimed(q) # {} => Flying(q)
      BY <2>1 DEF Claimed, Inserted, RequestInv, Holding, Flying, Entries!InFlight
    <3>2. stage'[q] = "insert" <=> stage[q] = "insert"
      BY <1>1, <1>2
    <3>3. QED
      BY <1>1, <1>2, <2>2, <3>1, <3>2 DEF Claimed
  <2>4. Holding(q)'
    BY <1>1, <1>2, <2>1, <2>2 DEF RequestInv, Holding, Flying, Entries!InFlight
  <2>5. Writing(q)'
    BY <1>1, <1>2, <2>1, <2>2 DEF RequestInv, Writing
  <2>6. Counting(q)'
    <3>1. CASE q = r
      <4>1. /\ row[q] \in 1..(Len(File(q)) + 1) /\ created[q] \in 0..(row[q] - 1)
            /\ created[q] = 0
        BY <1>1, <2>1, <3>1 DEF RequestInv, Counting
      <4>2. IsFiniteSet({}) /\ Cardinality({}) = 0
        BY FS_EmptySet
      <4>3. stage'[q] = "row"
        BY <1>2, <3>1
      <4>4. /\ Inserted(q)' = {} /\ row'[q] = row[q] /\ created'[q] = 0 /\ File(q)' = File(q)
            /\ created[q] + 0 = 0
        BY <1>1, <2>2, <3>1, <4>1 DEF File
      <4>5. (IF stage'[q] \in {"folder", "file"} THEN 1 ELSE 0) = 0
        BY <4>3
      <4>6. /\ row'[q] \in 1..(Len(File(q))' + 1) /\ created'[q] \in 0..(row'[q] - 1)
        BY <4>1, <4>4
      <4>7. IsFiniteSet(Inserted(q))' /\ Cardinality(Inserted(q))' = 0
        BY <4>2, <4>4
      <4>8. QED
        BY <4>3, <4>4, <4>5, <4>6, <4>7 DEF Counting
    <3>2. CASE q # r
      BY <1>1, <1>2, <2>1, <2>2, <3>2 DEF RequestInv, Counting, File, Flying
    <3>3. QED
      BY <3>1, <3>2
  <2>7. Looked(q)'
    BY <1>1, <1>3, <2>1, <2>3 DEF RequestInv, Looked, Entries!Stored
  <2>8. Made(q)'
    <3>1. CASE q = r
      BY <1>1, <1>2, <2>2, <3>1 DEF Made
    <3>2. CASE q # r
      <4>1. beside[q] \subseteq beside'[q]
        BY <1>3, <3>2
      <4>2. QED
        BY <1>1, <1>2, <2>1, <3>2, <4>1 DEF RequestInv, Made, Answered, Entries!Stored
    <3>3. QED
      BY <3>1, <3>2
  <2>9. QED
    BY <2>4, <2>5, <2>6, <2>7, <2>8 DEF RequestInv
<1>9. QED
  BY <1>4, <1>5, <1>6, <1>7, <1>8 DEF EntryInv

(* It commits what it has inserted: whoever has looked meanwhile is beside *)
(* it, and whoever has inserted the same VIN before was.                   *)
LEMMA EntryCommits ==
  ASSUME EntryInv, NEW r \in Requests, Flying(r), NEW answer \in Entries!Final,
         Entries!Commit(r, answer), UNCHANGED <<job, beside>>,
         answer = "summary" => stage[r] = "row"
  PROVE  EntryInv'
<1>1. /\ stage' = [stage EXCEPT ![r] = answer] /\ held' = [held EXCEPT ![r] = {}]
      /\ db' = db \cup (held[r] \ Entries!RowLocks)
      /\ made' = [made EXCEPT ![r] = Inserted(r)]
      /\ UNCHANGED <<row, target, folder, created>>
  BY DEF Entries!Commit, Entries!Goto, Inserted, Vehicles
<1>2. RequestInv(r)
  BY DEF EntryInv
<1>3. /\ stage'[r] = answer /\ held'[r] = {} /\ made'[r] = Inserted(r)
      /\ answer \notin Entries!InFlight \cup {"idle"}
  BY <1>1 DEF EntryInv, EntryTypes, Entries!Final, Entries!InFlight
<1>4. \A q \in Requests \ {r} : stage'[q] = stage[q] /\ held'[q] = held[q] /\ made'[q] = made[q]
  BY <1>1 DEF EntryInv, EntryTypes
<1>5. made[r] = {}
  BY <1>2 DEF RequestInv, Made, Answered, Flying, Entries!Final, Entries!InFlight
<1>6. \A y \in Vehicles : Entries!Stored(y)' <=> Entries!Stored(y) \/ y \in Inserted(r)
  <2>1. \A y \in Vehicles : Entries!VehicleKey(y) \notin Entries!RowLocks
    BY DEF Entries!RowLocks, Entries!VehicleKey, Entries!RowLock
  <2>2. QED
    BY <1>1, <2>1 DEF Entries!Stored, Inserted
<1>7. \A x \in Inserted(r) : x \in Vehicles /\ ~Entries!Stored(x)
  BY <1>2 DEF Inserted, Entries!Stored, RequestInv, Holding
<1>8. \A q \in Requests : \A x \in made[q] : x \in Vehicles /\ Entries!Stored(x)
  BY DEF EntryInv, EntryTypes, RequestInv, Made
<1>9. EntryTypes'
  <2>1. db' \subseteq Entries!Keys
    BY <1>1 DEF EntryInv, EntryTypes
  <2>2. Inserted(r) \in SUBSET Vehicles /\ answer \in Entries!Stage
    BY DEF Inserted, Entries!Stage
  <2>3. QED
    BY <1>1, <2>1, <2>2 DEF EntryInv, EntryTypes
<1>10. KeysApart'
  <2> SUFFICES ASSUME NEW p \in Requests, NEW q \in Requests, p # q
               PROVE  held'[p] \cap held'[q] = {} /\ made'[p] \cap made'[q] = {}
    BY DEF KeysApart
  <2>1. held[p] \cap held[q] = {} /\ made[p] \cap made[q] = {}
    BY DEF EntryInv, KeysApart
  <2>2. CASE p = r
    BY <1>3, <1>4, <1>7, <1>8, <2>2
  <2>3. CASE q = r
    BY <1>3, <1>4, <1>7, <1>8, <2>3
  <2>4. CASE p # r /\ q # r
    BY <1>4, <2>1, <2>4
  <2>5. QED
    BY <2>2, <2>3, <2>4
<1>11. Neighbours'
  <2>1. \A p \in Requests : Flying(p)' => Flying(p)
    BY <1>3, <1>4 DEF Flying
  <2>2. \A p \in Requests : stage[p] # "idle" => stage'[p] # "idle"
    BY <1>3, <1>4
  <2>3. QED
    BY <2>1, <2>2 DEF EntryInv, Neighbours
<1>12. \A q \in Requests : made[q] \subseteq made'[q]
  BY <1>3, <1>4, <1>5
<1>13. Entries!VinTwiceNeedsOverlap'
  <2> SUFFICES ASSUME NEW q \in Requests, NEW x \in made'[q], NEW y \in Vehicles,
                      Entries!Stored(y)', y[2] = x[2], y # x
               PROVE  \E p \in beside[q] : y \in made'[p]
    BY DEF Entries!VinTwiceNeedsOverlap, Vehicles
  <2>1. CASE q = r
    <3>1. x \in Inserted(r)
      BY <1>3, <2>1
    <3>2. y \notin Inserted(r)
      <4>1. y \in Inserted(r) => y[1] = x[1] /\ y \in Vehicles /\ x \in Vehicles
        BY <1>2, <1>7, <3>1 DEF RequestInv, Holding
      <4>2. QED
        BY <4>1 DEF Vehicles, Entries!Vehicles
    <3>3. \E p \in beside[r] : y \in made[p]
      BY <1>2, <1>6, <3>1, <3>2 DEF RequestInv, Looked, Claimed
    <3>4. QED
      BY <1>12, <2>1, <3>3 DEF EntryInv, EntryTypes
  <2>2. CASE q # r /\ Entries!Stored(y)
    <3>1. x \in made[q]
      BY <1>4, <2>2
    <3>2. \E p \in beside[q] : y \in made[p]
      BY <2>2, <3>1 DEF EntryInv, Entries!VinTwiceNeedsOverlap, Vehicles
    <3>3. QED
      BY <1>12, <3>2 DEF EntryInv, EntryTypes
  <2>3. CASE q # r /\ y \in Inserted(r)
    <3>1. x \in made[q] /\ x \in Vehicles /\ Entries!Stored(x)
      BY <1>4, <1>8, <2>3
    <3>2. PICK p \in beside[r] : x \in made[p]
      BY <1>2, <2>3, <3>1 DEF RequestInv, Looked, Claimed
    <3>3. p = q
      BY <3>1, <3>2 DEF EntryInv, EntryTypes, KeysApart
    <3>4. r \in beside[q]
      BY <3>2, <3>3 DEF EntryInv, Neighbours
    <3>5. QED
      BY <1>3, <2>3, <3>4
  <2>4. QED
    BY <1>6, <2>1, <2>2, <2>3
<1>14. ASSUME NEW q \in Requests, q # r PROVE RequestInv(q)'
  <2>1. RequestInv(q)
    BY DEF EntryInv
  <2>2. /\ stage'[q] = stage[q] /\ held'[q] = held[q] /\ made'[q] = made[q]
        /\ UNCHANGED <<job, row, target, created, beside>>
        /\ db \subseteq db'
    BY <1>1, <1>4, <1>14
  <2>3. Inserted(q)' = Inserted(q) /\ Claimed(q)' = Claimed(q) /\ (Flying(q)' <=> Flying(q))
    BY <2>2 DEF Inserted, Claimed, Flying
  <2>4. Holding(q)'
    <3>1. held[q] \cap held[r] = {}
      BY <1>14 DEF EntryInv, KeysApart
    <3>2. held'[q] \cap db' = {}
      BY <1>1, <2>1, <2>2, <3>1 DEF RequestInv, Holding
    <3>3. QED
      BY <2>1, <2>2, <2>3, <3>2 DEF RequestInv, Holding
  <2>5. Writing(q)' /\ Counting(q)'
    BY <2>1, <2>2, <2>3 DEF RequestInv, Writing, Counting, File
  <2>6. Looked(q)'
    <3> SUFFICES ASSUME NEW x \in Claimed(q), NEW y \in Vehicles,
                        Entries!Stored(y)', y[2] = x[2]
                 PROVE  \E p \in beside[q] : y \in made'[p]
      BY <2>2, <2>3 DEF Looked
    <3>1. CASE Entries!Stored(y)
      <4>1. \E p \in beside[q] : y \in made[p]
        BY <2>1, <3>1 DEF RequestInv, Looked
      <4>2. QED
        BY <1>12, <4>1 DEF EntryInv, EntryTypes
    <3>2. CASE y \in Inserted(r)
      <4>1. Flying(q)
        BY <2>1 DEF RequestInv, Holding, Claimed, Inserted, Flying, Entries!InFlight
      <4>2. r \in beside[q]
        BY <1>14, <4>1 DEF EntryInv, Neighbours
      <4>3. QED
        BY <1>3, <3>2, <4>2
    <3>3. QED
      BY <1>6, <3>1, <3>2
  <2>7. Made(q)'
    BY <1>6, <1>8, <2>1, <2>2 DEF RequestInv, Made, Answered
  <2>8. QED
    BY <2>4, <2>5, <2>6, <2>7 DEF RequestInv
<1>15. RequestInv(r)'
  <2>1. Inserted(r)' = {} /\ ~Flying(r)' /\ Answered(r)'
    BY <1>3 DEF Inserted, Flying, Answered
  <2>2. answer \notin {"insert", "folder", "file", "touch", "link"}
    BY DEF Entries!Final
  <2>3. Claimed(r)' = {}
    BY <1>3, <2>1, <2>2 DEF Claimed
  <2>4. Holding(r)' /\ Writing(r)' /\ Looked(r)'
    BY <1>3, <2>1, <2>2, <2>3 DEF Holding, Writing, Looked
  <2>5. Counting(r)'
    BY <1>1, <1>2, <1>3, <2>1, <2>2 DEF RequestInv, Counting, File
  <2>6. \A x \in made'[r] : Entries!Stored(x)'
    BY <1>3, <1>6, <1>7
  <2>7. stage'[r] = "summary" /\ ~job'[r].dry => Cardinality(made'[r]) = created'[r]
    <3>1. CASE answer = "summary" /\ ~job[r].dry
      <4>1. stage[r] = "row" /\ created[r] \in Nat
        BY <3>1 DEF EntryInv, EntryTypes
      <4>2. Cardinality(Inserted(r)) = created[r] + 0
        BY <1>2, <3>1, <4>1 DEF RequestInv, Counting
      <4>3. QED
        BY <1>1, <1>3, <4>1, <4>2
    <3>2. QED
      BY <1>3, <3>1
  <2>8. Made(r)'
    BY <2>1, <2>6, <2>7 DEF Made
  <2>9. QED
    BY <2>4, <2>5, <2>8 DEF RequestInv
<1>16. QED
  BY <1>9, <1>10, <1>11, <1>13, <1>14, <1>15 DEF EntryInv

----------------------------------------------------------------------------
(* A row of the file is done with: what it inserted is counted.            *)
LEMMA EntryCounts ==
  ASSUME EntryInv, NEW r \in Requests, Flying(r), row[r] <= Len(File(r)), NEW n \in {0, 1},
         Entries!NextRow(r, n), UNCHANGED <<db, job, target, folder, made, beside>>,
         ~job[r].dry => n = (IF stage[r] \in {"folder", "file"} THEN 1 ELSE 0),
         NEW h \in SUBSET (Entries!Keys \cup Entries!RowLocks), held' = [held EXCEPT ![r] = h],
         \/ h = held[r]
         \/ \E f \in Entries!Folders, x \in Vehicles :
              /\ h = held[r] \cup {Entries!LinkKey(f, x)}
              /\ Entries!LinkKey(f, x) \notin db
              /\ \A q \in Requests \ {r} : Entries!LinkKey(f, x) \notin held[q]
              /\ Entries!VehicleKey(x) \in db \cup held[r]
  PROVE  EntryInv'
<1>1. /\ stage' = [stage EXCEPT ![r] = "row"]
      /\ row' = [row EXCEPT ![r] = row[r] + 1]
      /\ created' = [created EXCEPT ![r] = created[r] + n]
  BY DEF Entries!NextRow, Entries!Goto, EntryInv, EntryTypes
<1>2. RequestInv(r) /\ row[r] \in Nat /\ created[r] \in Nat
  BY DEF EntryInv, EntryTypes
<1>3. /\ stage'[r] = "row" /\ row'[r] = row[r] + 1 /\ created'[r] = created[r] + n
      /\ held'[r] = h
  BY <1>1 DEF EntryInv, EntryTypes
<1>4. /\ held[r] \subseteq h
      /\ \A x \in Vehicles : Entries!VehicleKey(x) \in h => Entries!VehicleKey(x) \in held[r]
      /\ h \cap db = {}
      /\ \A q \in Requests \ {r} : h \cap held[q] = {}
      /\ \A f \in Entries!Folders, x \in Vehicles :
           Entries!LinkKey(f, x) \in h => Entries!VehicleKey(x) \in db \cup h
  <2>1. /\ held[r] \cap db = {} /\ \A q \in Requests \ {r} : held[r] \cap held[q] = {}
        /\ \A f \in Entries!Folders, x \in Vehicles :
             Entries!LinkKey(f, x) \in held[r] => Entries!VehicleKey(x) \in db \cup held[r]
    BY <1>2 DEF EntryInv, KeysApart, RequestInv, Holding
  <2>2. CASE h = held[r]
    BY <2>1, <2>2
  <2>3. CASE h # held[r]
    <3>1. PICK f \in Entries!Folders, x \in Vehicles :
            /\ h = held[r] \cup {Entries!LinkKey(f, x)}
            /\ Entries!LinkKey(f, x) \notin db
            /\ \A q \in Requests \ {r} : Entries!LinkKey(f, x) \notin held[q]
            /\ Entries!VehicleKey(x) \in db \cup held[r]
      BY <2>3
    <3>2. \A y : Entries!VehicleKey(y) # Entries!LinkKey(f, x)
      BY KeyKinds
    <3>3. \A g, y : Entries!LinkKey(g, y) = Entries!LinkKey(f, x) => y = x
      BY KeyKinds
    <3>4. QED
      BY <2>1, <3>1, <3>2, <3>3
  <2>4. QED
    BY <2>2, <2>3
<1>5. Inserted(r)' = Inserted(r)
  BY <1>3, <1>4 DEF Inserted
<1>6. Claimed(r)' \subseteq Claimed(r)
  BY <1>3, <1>5 DEF Claimed
<1>7. Flying(r)' /\ stage'[r] # "idle"
  BY <1>3 DEF Flying, Entries!InFlight
<1>8. Holding(r)'
  BY <1>2, <1>3, <1>4, <1>5, <1>7 DEF RequestInv, Holding
<1>9. Writing(r)'
  BY <1>3 DEF Writing
<1>10. Counting(r)'
  <2>1. row[r] \in 1..(Len(File(r)) + 1) /\ created[r] \in 0..(row[r] - 1)
    BY <1>2 DEF RequestInv, Counting
  <2>2. row'[r] \in 1..(Len(File(r)) + 1) /\ created'[r] \in 0..(row'[r] - 1)
    BY <1>2, <1>3, <2>1
  <2>3. ~job[r].dry => IsFiniteSet(Inserted(r)) /\ Cardinality(Inserted(r)) = created'[r] + 0
    BY <1>2, <1>3 DEF RequestInv, Counting
  <2>4. QED
    BY <1>3, <1>5, <2>2, <2>3 DEF Counting, File
<1>11. Looked(r)'
  BY <1>2, <1>6 DEF RequestInv, Looked, Entries!Stored
<1>12. Made(r)'
  BY <1>2, <1>3 DEF RequestInv, Made, Answered, Flying, Entries!InFlight, Entries!Final,
     Entries!Stored
<1>13. EntryTypes'
  BY <1>1, <1>2 DEF EntryInv, EntryTypes, Entries!Stage, Entries!InFlight
<1>14. Others(r)
  BY <1>1 DEF EntryInv, EntryTypes, Others
<1>15. RequestInv(r)'
  BY <1>8, <1>9, <1>10, <1>11, <1>12 DEF RequestInv
<1>16. QED
  BY <1>3, <1>4, <1>7, <1>13, <1>14, <1>15, EntryGoesOn

----------------------------------------------------------------------------
(* It goes on within a row. *)
LEMMA EntryMoves ==
  ASSUME EntryInv, NEW r \in Requests, Flying(r), row[r] <= Len(File(r)),
         EntryTypes', Others(r), stage'[r] \in Entries!InFlight,
         UNCHANGED <<db, job, row, created, made, beside>>,
         \A q \in Requests \ {r} : held'[r] \cap held[q] = {},
         Holding(r)', Writing(r)', Looked(r)',
         ~job[r].dry =>
           /\ IsFiniteSet(Inserted(r)')
           /\ Cardinality(Inserted(r)') =
                created[r] + (IF stage'[r] \in {"folder", "file"} THEN 1 ELSE 0)
  PROVE  EntryInv'
<1>1. RequestInv(r)
  BY DEF EntryInv
<1>2. stage'[r] # "idle" /\ stage'[r] # "summary"
  BY DEF Entries!InFlight
<1>3. Counting(r)'
  <2>1. row[r] \in 1..(Len(File(r)) + 1) /\ created[r] \in 0..(row[r] - 1)
    BY <1>1 DEF RequestInv, Counting
  <2>2. QED
    BY <1>2, <2>1 DEF Counting, File
<1>4. made[r] = {}
  BY <1>1 DEF RequestInv, Made, Answered, Flying, Entries!InFlight, Entries!Final
<1>5. Made(r)'
  BY <1>2, <1>4 DEF Made
<1>6. RequestInv(r)'
  BY <1>3, <1>5 DEF RequestInv
<1>7. QED
  BY <1>2, <1>6, EntryGoesOn

LEMMA LooksNew ==
  ASSUME EntryInv, Entries!JobsAssumption, Entries!BoundsAssumption,
         NEW r \in Requests, Entries!LookNew(r), UNCHANGED <<job, beside>>
  PROVE  EntryInv'
<1>1. /\ stage[r] = "row" /\ row[r] <= Len(File(r)) /\ Entries!Existing(r) = {}
      /\ UNCHANGED <<db, held, folder, made>>
  BY DEF Entries!LookNew, Entries!AtRow, File
<1>2. Flying(r) /\ RequestInv(r)
  BY <1>1 DEF Flying, Entries!InFlight, EntryInv
<1>3. CASE job[r].dry
  <2>1. Entries!NextRow(r, 1) /\ target' = target
    BY <1>3 DEF Entries!LookNew
  <2>2. held[r] \in SUBSET (Entries!Keys \cup Entries!RowLocks)
        /\ held' = [held EXCEPT ![r] = held[r]]
    BY <1>1 DEF EntryInv, EntryTypes
  <2>3. QED
    BY <1>1, <1>2, <1>3, <2>1, <2>2, EntryCounts
<1>4. CASE ~job[r].dry
  <2>1. PICK t : t = <<job[r].at, Entries!Vin(r)>>
    OBVIOUS
  <2>2. /\ stage' = [stage EXCEPT ![r] = "insert"]
        /\ target' = [target EXCEPT ![r] = t]
        /\ UNCHANGED <<row, created>>
    BY <1>4, <2>1 DEF Entries!LookNew, Entries!Goto
  <2>3. row[r] \in 1..Len(File(r))
    BY <1>1, <1>2 DEF RequestInv, Counting
  <2>4. t \in Vehicles /\ t[1] = job[r].at /\ t[2] = Entries!Vin(r)
    <3>1. job[r] \in Jobs
      BY DEF EntryInv, EntryTypes
    <3>2. job[r].at \in Dealerships /\ Entries!Vin(r) \in Vins
      BY <2>3, <3>1, JobsTyped DEF Entries!Vin, File
    <3>3. QED
      BY <2>1, <3>2 DEF Vehicles, Entries!Vehicles
  <2>5. \A y \in Vehicles : y[2] = t[2] => Entries!VehicleKey(y) \notin db \cup held[r]
    BY <1>1, <2>4 DEF Entries!Existing, Vehicles
  <2>6. stage'[r] = "insert" /\ target'[r] = t
    BY <2>2, <2>4 DEF EntryInv, EntryTypes
  <2>7. EntryTypes'
    BY <1>1, <2>2, <2>4 DEF EntryInv, EntryTypes, Entries!Stage, Entries!InFlight
  <2>8. Others(r)
    BY <1>1, <2>2 DEF EntryInv, EntryTypes, Others
  <2>9. Inserted(r)' = Inserted(r) /\ t \notin Inserted(r)
    BY <1>1, <2>4, <2>5 DEF Inserted
  <2>10. Claimed(r)' = Inserted(r) \cup {t} /\ Inserted(r) \subseteq Claimed(r)
    BY <2>4, <2>6, <2>9 DEF Claimed
  <2>11. Holding(r)'
    BY <1>1, <1>2, <2>6, <2>9 DEF RequestInv, Holding, Flying, Entries!InFlight
  <2>12. Writing(r)'
    BY <2>4, <2>6, <2>9 DEF Writing
  <2>13. Looked(r)'
    <3> SUFFICES ASSUME NEW x \in Claimed(r)', NEW y \in Vehicles,
                        Entries!Stored(y), y[2] = x[2]
                 PROVE  \E q \in beside[r] : y \in made[q]
      BY <1>1 DEF Looked, Entries!Stored
    <3>1. CASE x = t
      BY <2>5, <3>1 DEF Entries!Stored
    <3>2. CASE x \in Inserted(r)
      BY <1>2, <2>10, <3>2 DEF RequestInv, Looked
    <3>3. QED
      BY <2>10, <3>1, <3>2
  <2>14. IsFiniteSet(Inserted(r)') /\ Cardinality(Inserted(r)') = created[r] + 0
    BY <1>1, <1>2, <1>4, <2>9 DEF RequestInv, Counting
  <2>15. stage'[r] \in Entries!InFlight
    BY <2>6 DEF Entries!InFlight
  <2>16. \A q \in Requests \ {r} : held'[r] \cap held[q] = {}
    BY <1>1 DEF EntryInv, KeysApart
  <2>17. QED
    BY <1>1, <1>2, <2>2, <2>6, <2>7, <2>8, <2>11, <2>12, <2>13, <2>14, <2>15, <2>16, EntryMoves
<1>5. QED
  BY <1>3, <1>4

LEMMA LooksOver ==
  ASSUME EntryInv, NEW r \in Requests, Entries!SkipRow(r) \/ Entries!UpdateRow(r),
         UNCHANGED <<job, beside>>
  PROVE  EntryInv'
<1>1. /\ stage[r] = "row" /\ row[r] <= Len(File(r))
      /\ UNCHANGED <<db, held, folder, made>>
  BY DEF Entries!SkipRow, Entries!UpdateRow, Entries!AtRow, File
<1>2. Flying(r) /\ RequestInv(r)
  BY <1>1 DEF Flying, Entries!InFlight, EntryInv
<1>3. CASE Entries!SkipRow(r) \/ job[r].dry
  <2>1. Entries!NextRow(r, 0) /\ target' = target
    BY <1>3 DEF Entries!SkipRow, Entries!UpdateRow
  <2>2. held[r] \in SUBSET (Entries!Keys \cup Entries!RowLocks)
        /\ held' = [held EXCEPT ![r] = held[r]]
    BY <1>1 DEF EntryInv, EntryTypes
  <2>3. QED
    BY <1>1, <1>2, <2>1, <2>2, EntryCounts
<1>4. CASE Entries!UpdateRow(r) /\ ~job[r].dry
  <2>1. PICK t \in Entries!Existing(r), s \in {"touch", "link"} :
          /\ target' = [target EXCEPT ![r] = t]
          /\ stage' = [stage EXCEPT ![r] = s]
          /\ UNCHANGED <<row, created>>
    <3>1. PICK t \in Entries!Existing(r) : target' = [target EXCEPT ![r] = t]
      BY <1>4 DEF Entries!UpdateRow
    <3>2. PICK changed \in BOOLEAN :
            stage' = [stage EXCEPT ![r] = IF changed THEN "touch" ELSE "link"]
      BY <1>4 DEF Entries!UpdateRow, Entries!Goto
    <3>3. UNCHANGED <<row, created>>
      BY <1>4 DEF Entries!UpdateRow
    <3>4. QED
      BY <3>1, <3>2, <3>3
  <2>2. t \in Vehicles /\ Entries!VehicleKey(t) \in db \cup held[r]
    BY DEF Entries!Existing, Vehicles
  <2>3. stage'[r] = s /\ target'[r] = t /\ held'[r] = held[r]
    BY <1>1, <2>1, <2>2 DEF EntryInv, EntryTypes
  <2>4. EntryTypes'
    BY <1>1, <2>1, <2>2 DEF EntryInv, EntryTypes, Entries!Stage, Entries!InFlight
  <2>5. Others(r)
    BY <1>1, <2>1 DEF EntryInv, EntryTypes, Others
  <2>6. Inserted(r)' = Inserted(r) /\ Claimed(r)' \subseteq Claimed(r)
    BY <1>1, <2>3 DEF Inserted, Claimed
  <2>7. Holding(r)'
    BY <1>1, <1>2, <2>3, <2>6 DEF RequestInv, Holding, Flying, Entries!InFlight
  <2>8. Writing(r)'
    BY <1>1, <2>2, <2>3 DEF Writing
  <2>9. Looked(r)'
    BY <1>1, <1>2, <2>6 DEF RequestInv, Looked, Entries!Stored
  <2>10. IsFiniteSet(Inserted(r)') /\ Cardinality(Inserted(r)') = created[r] + 0
    BY <1>1, <1>2, <1>4, <2>6 DEF RequestInv, Counting
  <2>11. stage'[r] \in Entries!InFlight /\ stage'[r] \notin {"folder", "file"}
    BY <2>3 DEF Entries!InFlight
  <2>12. \A q \in Requests \ {r} : held'[r] \cap held[q] = {}
    BY <1>1 DEF EntryInv, KeysApart
  <2>13. QED
    BY <1>1, <1>2, <2>1, <2>4, <2>5, <2>7, <2>8, <2>9, <2>10, <2>11, <2>12, EntryMoves
<1>5. QED
  BY <1>3, <1>4

(* What a request wants and nobody makes it wait for is held by no other.  *)
LEMMA NobodyHolds ==
  ASSUME NEW r \in Requests, NEW k, Entries!Wanted(r) = {k}, Entries!Blockers(r) = {}
  PROVE  \A q \in Requests \ {r} : k \notin held[q]
BY DEF Entries!Blockers

LEMMA WantedKey ==
  ASSUME NEW r \in Requests
  PROVE  /\ stage[r] = "insert" => Entries!Wanted(r) = {Entries!VehicleKey(target[r])}
         /\ stage[r] = "folder" => Entries!Wanted(r) = {Entries!FolderKey(folder[r])}
         /\ stage[r] = "touch" => Entries!Wanted(r) = {Entries!RowLock(target[r])}
         /\ stage[r] \in {"file", "link"} =>
              Entries!Wanted(r) = {Entries!LinkKey(folder[r], target[r])}
         /\ Entries!Wanted(r) # {} =>
              stage[r] \in {"insert", "folder", "touch", "file", "link"}
BY DEF Entries!Wanted, Entries!Linking

LEMMA VehicleInserted ==
  ASSUME EntryInv, Entries!JobsAssumption, Entries!BoundsAssumption,
         NEW r \in Requests, Entries!InsertVehicle(r), UNCHANGED <<job, beside>>
  PROVE  EntryInv'
<1>1. PICK k : k = Entries!VehicleKey(target[r])
  OBVIOUS
<1>2. PICK h : h = held[r] \cup {k}
  OBVIOUS
<1>3. /\ stage[r] = "insert" /\ k \notin db \cup held[r]
      /\ held' = [held EXCEPT ![r] = h]
      /\ UNCHANGED <<db, row, target, created, made>>
  BY <1>1, <1>2 DEF Entries!InsertVehicle, Entries!Take, EntryInv, EntryTypes
<1>4. PICK s \in {"folder", "file"} : stage' = [stage EXCEPT ![r] = s]
  BY DEF Entries!InsertVehicle, Entries!Goto
<1>5. Flying(r) /\ RequestInv(r) /\ target[r] \in Vehicles /\ row[r] <= Len(File(r))
  BY <1>3 DEF Flying, Entries!InFlight, EntryInv, EntryTypes, RequestInv, Counting
<1>6. folder' \in [Requests -> Entries!Folders] /\ \A q \in Requests \ {r} : folder'[q] = folder[q]
  <2>1. job[r].at \in Dealerships
    BY JobsTyped DEF EntryInv, EntryTypes
  <2>2. \A m \in 1..MaxMinute : <<job[r].at, m>> \in Entries!Folders
    BY <2>1 DEF Entries!Folders, Entries!BoundsAssumption
  <2>3. CASE folder' = folder
    BY <2>3 DEF EntryInv, EntryTypes
  <2>4. CASE Entries!NameFolder(r)
    <3>1. PICK m \in 1..MaxMinute : folder' = [folder EXCEPT ![r] = <<job[r].at, m>>]
      BY <2>4 DEF Entries!NameFolder
    <3>2. PICK f \in Entries!Folders : f = <<job[r].at, m>>
      BY <2>2
    <3>3. folder' = [folder EXCEPT ![r] = f]
      BY <3>1, <3>2
    <3>4. QED
      BY <3>3 DEF EntryInv, EntryTypes
  <2>5. QED
    BY <2>3, <2>4 DEF Entries!InsertVehicle
<1>7. k \in Entries!Keys
  BY <1>1, <1>5 DEF Entries!Keys, Vehicles
<1>8. h \in SUBSET (Entries!Keys \cup Entries!RowLocks)
  BY <1>2, <1>7 DEF EntryInv, EntryTypes
<1>9. stage'[r] = s /\ held'[r] = h /\ target'[r] = target[r] /\ s \in Entries!InFlight
  BY <1>3, <1>4 DEF EntryInv, EntryTypes, Entries!InFlight
<1>10. EntryTypes'
  BY <1>3, <1>4, <1>6, <1>8, <1>9 DEF EntryInv, EntryTypes, Entries!Stage
<1>11. Others(r)
  BY <1>3, <1>4 DEF EntryInv, EntryTypes, Others
<1>12. \A q \in Requests \ {r} : h \cap held[q] = {}
  <2>1. \A q \in Requests \ {r} : k \notin held[q]
    BY <1>1, <1>3, WantedKey, NobodyHolds DEF Entries!InsertVehicle
  <2>2. QED
    BY <1>2, <2>1 DEF EntryInv, KeysApart
<1>13. \A x \in Vehicles : Entries!VehicleKey(x) \in h <=> x \in Inserted(r) \/ x = target[r]
  BY <1>1, <1>2, KeyKinds DEF Inserted
<1>14. Inserted(r)' = Inserted(r) \cup {target[r]} /\ target[r] \notin Inserted(r)
  BY <1>1, <1>3, <1>5, <1>9, <1>13 DEF Inserted
<1>15. Claimed(r)' \subseteq Claimed(r)
  BY <1>3, <1>5, <1>9, <1>14 DEF Claimed
<1>16. Holding(r)'
  <2>1. \A f \in Entries!Folders, x \in Vehicles :
          Entries!LinkKey(f, x) \in h => Entries!VehicleKey(x) \in db \cup h
    BY <1>1, <1>2, <1>5, KeyKinds DEF RequestInv, Holding
  <2>2. h \cap db = {}
    BY <1>2, <1>3, <1>5 DEF RequestInv, Holding
  <2>3. \A x \in Inserted(r)' : x[1] = job[r].at
    BY <1>3, <1>5, <1>14 DEF RequestInv, Holding, Writing
  <2>4. QED
    BY <1>3, <1>9, <2>1, <2>2, <2>3 DEF Holding, Flying
<1>17. Writing(r)'
  BY <1>9, <1>14 DEF Writing
<1>18. Looked(r)'
  BY <1>3, <1>5, <1>15 DEF RequestInv, Looked, Entries!Stored
<1>19. ~job[r].dry => /\ IsFiniteSet(Inserted(r)')
                      /\ Cardinality(Inserted(r)') = created[r] + 1
  <2>1. ~job[r].dry => /\ IsFiniteSet(Inserted(r))
                       /\ Cardinality(Inserted(r)) = created[r] + 0
    BY <1>3, <1>5 DEF RequestInv, Counting
  <2>2. IsFiniteSet(Inserted(r)) =>
          /\ IsFiniteSet(Inserted(r) \cup {target[r]})
          /\ Cardinality(Inserted(r) \cup {target[r]}) = Cardinality(Inserted(r)) + 1
    BY <1>14, FS_AddElement
  <2>3. created[r] \in Nat
    BY DEF EntryInv, EntryTypes
  <2>4. QED
    BY <1>14, <2>1, <2>2, <2>3
<1>20. QED
  BY <1>3, <1>5, <1>9, <1>10, <1>11, <1>12, <1>16, <1>17, <1>18, <1>19, EntryMoves

(* A folder of its own, or the lock of a row. *)
LEMMA OtherKeyTaken ==
  ASSUME EntryInv, NEW r \in Requests, Flying(r), row[r] <= Len(File(r)),
         NEW k \in Entries!Keys \cup Entries!RowLocks, k \notin db,
         \A x, f : k # Entries!VehicleKey(x) /\ k # Entries!LinkKey(f, x),
         \A q \in Requests \ {r} : k \notin held[q],
         NEW s \in {"file", "link"},
         s = "file" <=> stage[r] = "folder",
         s = "link" <=> stage[r] = "touch",
         stage' = [stage EXCEPT ![r] = s], held' = [held EXCEPT ![r] = held[r] \cup {k}],
         UNCHANGED <<db, job, row, target, folder, created, made, beside>>
  PROVE  EntryInv'
<1>1. RequestInv(r)
  BY DEF EntryInv
<1>2. PICK h : h = held[r] \cup {k}
  OBVIOUS
<1>3. h \in SUBSET (Entries!Keys \cup Entries!RowLocks) /\ held' = [held EXCEPT ![r] = h]
  BY <1>2 DEF EntryInv, EntryTypes
<1>4. stage'[r] = s /\ held'[r] = h /\ s \in Entries!InFlight
  BY <1>3 DEF EntryInv, EntryTypes, Entries!InFlight
<1>5. EntryTypes'
  BY <1>3, <1>4 DEF EntryInv, EntryTypes, Entries!Stage
<1>6. Others(r)
  BY <1>3 DEF EntryInv, EntryTypes, Others
<1>7. \A q \in Requests \ {r} : h \cap held[q] = {}
  BY <1>2 DEF EntryInv, KeysApart
<1>8. Inserted(r)' = Inserted(r)
  BY <1>2, <1>4 DEF Inserted
<1>9. Claimed(r)' \subseteq Claimed(r)
  BY <1>4, <1>8 DEF Claimed
<1>10. Holding(r)'
  BY <1>1, <1>2, <1>4, <1>8 DEF RequestInv, Holding, Flying
<1>11. Writing(r)'
  BY <1>1, <1>2, <1>4, <1>8 DEF RequestInv, Writing
<1>12. Looked(r)'
  BY <1>1, <1>9 DEF RequestInv, Looked, Entries!Stored
<1>13. ~job[r].dry =>
         /\ IsFiniteSet(Inserted(r)')
         /\ Cardinality(Inserted(r)') =
              created[r] + (IF stage'[r] \in {"folder", "file"} THEN 1 ELSE 0)
  <2>1. (IF stage'[r] \in {"folder", "file"} THEN 1 ELSE 0)
          = (IF stage[r] \in {"folder", "file"} THEN 1 ELSE 0)
    BY <1>4
  <2>2. QED
    BY <1>1, <1>8, <2>1 DEF RequestInv, Counting
<1>14. QED
  BY <1>4, <1>5, <1>6, <1>7, <1>10, <1>11, <1>12, <1>13, EntryMoves

LEMMA FolderInserted ==
  ASSUME EntryInv, NEW r \in Requests, Entries!InsertFolder(r), UNCHANGED <<job, beside>>
  PROVE  EntryInv'
<1>1. PICK k : k = Entries!FolderKey(folder[r])
  OBVIOUS
<1>2. /\ stage[r] = "folder" /\ k \notin db
      /\ stage' = [stage EXCEPT ![r] = "file"] /\ held' = [held EXCEPT ![r] = held[r] \cup {k}]
      /\ UNCHANGED <<db, row, target, folder, created, made>>
  BY <1>1 DEF Entries!InsertFolder, Entries!Take, Entries!Goto, EntryInv, EntryTypes
<1>3. Flying(r) /\ row[r] <= Len(File(r)) /\ folder[r] \in Entries!Folders
  BY <1>2 DEF Flying, Entries!InFlight, EntryInv, EntryTypes, RequestInv, Counting
<1>4. k \in Entries!Keys
  BY <1>1, <1>3 DEF Entries!Keys
<1>5. \A x, f : k # Entries!VehicleKey(x) /\ k # Entries!LinkKey(f, x)
  BY <1>1, KeyKinds
<1>6. \A q \in Requests \ {r} : k \notin held[q]
  BY <1>1, <1>2, WantedKey, NobodyHolds DEF Entries!InsertFolder
<1>7. QED
  BY <1>2, <1>3, <1>4, <1>5, <1>6, OtherKeyTaken

LEMMA RowTouched ==
  ASSUME EntryInv, NEW r \in Requests, Entries!Touch(r), UNCHANGED <<job, beside>>
  PROVE  EntryInv'
<1>1. PICK k : k = Entries!RowLock(target[r])
  OBVIOUS
<1>2. /\ stage[r] = "touch"
      /\ stage' = [stage EXCEPT ![r] = "link"] /\ held' = [held EXCEPT ![r] = held[r] \cup {k}]
      /\ UNCHANGED <<db, row, target, folder, created, made>>
  BY <1>1 DEF Entries!Touch, Entries!Take, Entries!Goto, EntryInv, EntryTypes
<1>3. Flying(r) /\ row[r] <= Len(File(r)) /\ target[r] \in Vehicles
  BY <1>2 DEF Flying, Entries!InFlight, EntryInv, EntryTypes, RequestInv, Counting
<1>4. k \in Entries!RowLocks /\ k \notin db
  <2>1. k \in Entries!RowLocks
    BY <1>1, <1>3 DEF Entries!RowLocks, Vehicles
  <2>2. QED
    BY <2>1, NoRowLockStored DEF EntryInv, EntryTypes
<1>5. \A x, f : k # Entries!VehicleKey(x) /\ k # Entries!LinkKey(f, x)
  BY <1>1, KeyKinds
<1>6. \A q \in Requests \ {r} : k \notin held[q]
  BY <1>1, <1>2, WantedKey, NobodyHolds DEF Entries!Touch
<1>7. QED
  BY <1>2, <1>3, <1>4, <1>5, <1>6, OtherKeyTaken

----------------------------------------------------------------------------
(* A new vehicle is filed without waiting: whoever holds the link of a     *)
(* vehicle has inserted it or found it there.                              *)
LEMMA FilesAlone ==
  ASSUME EntryInv, NEW r \in Requests, stage[r] = "file" PROVE Entries!Blockers(r) = {}
<1> SUFFICES ASSUME NEW q \in Entries!Blockers(r) PROVE FALSE
  OBVIOUS
<1>1. q \in Requests /\ q # r /\ Entries!LinkKey(folder[r], target[r]) \in held[q]
  BY WantedKey DEF Entries!Blockers
<1>2. target[r] \in Inserted(r) /\ target[r] \in Vehicles /\ folder[r] \in Entries!Folders
  BY DEF EntryInv, EntryTypes, RequestInv, Writing
<1>3. Entries!VehicleKey(target[r]) \in db \cup held[q]
  BY <1>1, <1>2 DEF EntryInv, RequestInv, Holding
<1>4. held[r] \cap db = {} /\ held[r] \cap held[q] = {}
  BY <1>1 DEF EntryInv, RequestInv, Holding, KeysApart
<1>5. QED
  BY <1>2, <1>3, <1>4 DEF Inserted

LEMMA VehicleLinked ==
  ASSUME EntryInv, NEW r \in Requests, Entries!Link(r), UNCHANGED <<job, beside>>
  PROVE  EntryInv'
<1>1. PICK k : k = Entries!LinkKey(folder[r], target[r])
  OBVIOUS
<1>2. /\ stage[r] \in {"file", "link"} /\ Entries!Blockers(r) = {}
      /\ Entries!NextRow(r, IF stage[r] = "file" THEN 1 ELSE 0)
      /\ UNCHANGED <<db, target, folder, made>>
      /\ IF k \in db THEN held' = held ELSE held' = [held EXCEPT ![r] = held[r] \cup {k}]
  BY <1>1 DEF Entries!Link, Entries!Linking, Entries!Take, EntryInv, EntryTypes
<1>3. RequestInv(r) /\ Flying(r) /\ row[r] <= Len(File(r))
  BY <1>2 DEF Flying, Entries!InFlight, EntryInv, RequestInv, Counting
<1>4. /\ target[r] \in Vehicles /\ folder[r] \in Entries!Folders
      /\ held[r] \in SUBSET (Entries!Keys \cup Entries!RowLocks)
  BY DEF EntryInv, EntryTypes
<1>5. Entries!VehicleKey(target[r]) \in db \cup held[r]
  BY <1>2, <1>3 DEF RequestInv, Writing, Inserted
<1>6. \A q \in Requests \ {r} : k \notin held[q]
  BY <1>1, <1>2, WantedKey, NobodyHolds
<1>7. k \in Entries!Keys
  BY <1>1, <1>4 DEF Entries!Keys, Vehicles
<1>8. PICK n \in {0, 1} : n = IF stage[r] \in {"folder", "file"} THEN 1 ELSE 0
  OBVIOUS
<1>9. Entries!NextRow(r, n)
  BY <1>2, <1>8
<1>10. PICK h \in SUBSET (Entries!Keys \cup Entries!RowLocks) :
         /\ held' = [held EXCEPT ![r] = h]
         /\ \/ h = held[r]
            \/ h = held[r] \cup {k} /\ k \notin db
  <2>1. CASE k \in db
    <3>1. held' = [held EXCEPT ![r] = held[r]]
      BY <1>2, <2>1 DEF EntryInv, EntryTypes
    <3>2. QED
      BY <1>4, <3>1
  <2>2. CASE k \notin db
    <3>1. held[r] \cup {k} \in SUBSET (Entries!Keys \cup Entries!RowLocks)
      BY <1>4, <1>7
    <3>2. QED
      BY <1>2, <2>2, <3>1
  <2>3. QED
    BY <2>1, <2>2
<1>11. \/ h = held[r]
       \/ \E f \in Entries!Folders, x \in Vehicles :
            /\ h = held[r] \cup {Entries!LinkKey(f, x)}
            /\ Entries!LinkKey(f, x) \notin db
            /\ \A q \in Requests \ {r} : Entries!LinkKey(f, x) \notin held[q]
            /\ Entries!VehicleKey(x) \in db \cup held[r]
  BY <1>1, <1>4, <1>5, <1>6, <1>10
<1>12. UNCHANGED <<db, job, target, folder, made, beside>>
  BY <1>2
<1>13. ~job[r].dry => n = (IF stage[r] \in {"folder", "file"} THEN 1 ELSE 0)
  BY <1>8
<1>14. QED
  BY <1>3, <1>9, <1>10, <1>11, <1>12, <1>13, EntryCounts

(* An insert that fails has met the vehicle of a request beside it. *)
LEMMA EntryRefused ==
  ASSUME EntryInv, NEW r \in Requests, UNCHANGED <<job, beside>>,
         \/ Entries!LookKnown(r) \/ Entries!InsertRefused(r) \/ Entries!FolderRefused(r)
         \/ Entries!Abort(r)
  PROVE  EntryInv'
<1>1. Flying(r) /\ RequestInv(r)
  BY DEF Flying, EntryInv, Entries!InFlight, Entries!LookKnown, Entries!AtRow,
         Entries!InsertRefused, Entries!FolderRefused, Entries!Abort
<1>2. CASE Entries!LookKnown(r)
  <2>1. PICK a \in {"known", "exists"} : Entries!Rollback(r, a)
    BY <1>2 DEF Entries!LookKnown
  <2>2. a \in Entries!Final /\ a # "summary"
    BY DEF Entries!Final
  <2>3. QED
    BY <1>1, <2>1, <2>2, EntryEnds
<1>3. CASE Entries!InsertRefused(r)
  <2>1. PICK a \in {"summary", "exists"} : Entries!Rollback(r, a)
    BY <1>3 DEF Entries!InsertRefused
  <2>2. beside[r] # {}
    <3>1. /\ stage[r] = "insert" /\ target[r] \in Vehicles
          /\ Entries!VehicleKey(target[r]) \in db \cup held[r]
      BY <1>3 DEF Entries!InsertRefused, EntryInv, EntryTypes
    <3>2. Entries!Stored(target[r])
      BY <1>1, <3>1 DEF RequestInv, Writing, Inserted, Entries!Stored
    <3>3. target[r] \in Claimed(r)
      BY <3>1 DEF Claimed
    <3>4. QED
      BY <1>1, <3>1, <3>2, <3>3 DEF RequestInv, Looked
  <2>3. a \in Entries!Final
    BY DEF Entries!Final
  <2>4. QED
    BY <1>1, <2>1, <2>2, <2>3, EntryEnds
<1>4. CASE Entries!FolderRefused(r)
  <2>1. "exists" \in Entries!Final /\ Entries!Rollback(r, "exists")
    BY <1>4 DEF Entries!FolderRefused, Entries!Final
  <2>2. QED
    BY <1>1, <2>1, EntryEnds
<1>5. CASE Entries!Abort(r)
  <2>1. "failed" \in Entries!Final /\ Entries!Rollback(r, "failed")
    BY <1>5 DEF Entries!Abort, Entries!Final
  <2>2. QED
    BY <1>1, <2>1, EntryEnds
<1>6. QED
  BY <1>2, <1>3, <1>4, <1>5

LEMMA EntryDone ==
  ASSUME EntryInv, NEW r \in Requests, Entries!Refuse(r) \/ Entries!Done(r),
         UNCHANGED <<job, beside>>
  PROVE  EntryInv'
<1>1. stage[r] = "row" /\ Flying(r)
  BY DEF Flying, Entries!InFlight, Entries!Refuse, Entries!Done, Entries!AtRow
<1>2. PICK a \in {"duplicate", "summary", "created"} : Entries!Commit(r, a)
  BY DEF Entries!Refuse, Entries!Done
<1>3. a \in Entries!Final
  BY DEF Entries!Final
<1>4. QED
  BY <1>1, <1>2, <1>3, EntryCommits

(* The victim of a deadlock waits for a request that is beside it. *)
LEMMA EntryVictim ==
  ASSUME EntryInv, NEW r \in Requests, Entries!DeadlockVictim(r), UNCHANGED <<job, beside>>
  PROVE  EntryInv'
<1>1. PICK q \in Entries!Blockers(r) : TRUE
  BY DEF Entries!DeadlockVictim, Entries!Deadlocked
<1>2. q \in Requests /\ q # r /\ held[q] # {} /\ Entries!Wanted(r) # {}
  BY <1>1 DEF Entries!Blockers
<1>3. stage[r] \in {"insert", "folder", "touch", "file", "link"}
  BY <1>2, WantedKey
<1>4. Flying(r) /\ Flying(q) /\ RequestInv(r) /\ row[r] <= Len(File(r))
  <2>1. Flying(r) /\ row[r] <= Len(File(r)) /\ RequestInv(r)
    BY <1>3 DEF Flying, Entries!InFlight, EntryInv, RequestInv, Counting
  <2>2. Flying(q)
    BY <1>2 DEF EntryInv, RequestInv, Holding
  <2>3. QED
    BY <2>1, <2>2
<1>5. q \in beside[r]
  BY <1>2, <1>4 DEF EntryInv, Neighbours
<1>6. stage[r] # "file"
  BY <1>1, FilesAlone
<1>7. CASE Entries!Imports(r) /\ Entries!Linking(r)
  <2>1. /\ Entries!NextRow(r, 0) /\ UNCHANGED <<db, held, target, folder, made>>
        /\ stage[r] = "link"
    BY <1>6, <1>7 DEF Entries!DeadlockVictim, Entries!Linking
  <2>2. held[r] \in SUBSET (Entries!Keys \cup Entries!RowLocks)
        /\ held' = [held EXCEPT ![r] = held[r]]
    BY <2>1 DEF EntryInv, EntryTypes
  <2>3. QED
    BY <1>4, <2>1, <2>2, EntryCounts
<1>8. CASE ~(Entries!Imports(r) /\ Entries!Linking(r))
  <2>1. PICK a \in {"summary", "failed"} : Entries!Rollback(r, a)
    BY <1>8 DEF Entries!DeadlockVictim
  <2>2. a \in Entries!Final
    BY DEF Entries!Final
  <2>3. QED
    BY <1>4, <1>5, <2>1, <2>2, EntryEnds
<1>9. QED
  BY <1>7, <1>8

LEMMA EntryStep ==
  ASSUME EntryInv, Entries!JobsAssumption, Entries!BoundsAssumption,
         [Entries!Next]_(Entries!vars)
  PROVE  EntryInv'
<1>1. CASE UNCHANGED Entries!vars
  <2>1. UNCHANGED <<db, job, stage, held, row, target, folder, created, made, beside>>
    BY <1>1 DEF Entries!vars
  <2>2. EntryTypes' /\ KeysApart' /\ Neighbours' /\ Entries!VinTwiceNeedsOverlap'
    BY <2>1 DEF EntryInv, EntryTypes, KeysApart, Neighbours, Flying,
                Entries!VinTwiceNeedsOverlap, Entries!Stored
  <2>3. ASSUME NEW r \in Requests PROVE RequestInv(r)'
    <3>1. /\ Inserted(r)' = Inserted(r) /\ Claimed(r)' = Claimed(r)
          /\ Flying(r)' <=> Flying(r)
      BY <2>1 DEF Inserted, Claimed, Flying
    <3>2. QED
      BY <2>1, <3>1 DEF EntryInv, RequestInv, Holding, Writing, Counting, Looked, Made, File,
                        Answered, Entries!Stored
  <2>4. QED
    BY <2>2, <2>3 DEF EntryInv
<1>2. ASSUME NEW r \in Requests, Entries!Serve(r) PROVE EntryInv'
  <2>1. UNCHANGED <<job, beside>>
    BY <1>2 DEF Entries!Serve
  <2>2. QED
    BY <1>2, <2>1, LooksNew, LooksOver, VehicleInserted, FolderInserted, RowTouched,
       VehicleLinked, EntryRefused, EntryDone DEF Entries!Serve
<1>3. ASSUME NEW r \in Requests,
             \/ Entries!Begin(r) \/ Entries!Victim(r)
             \/ Entries!Abort(r) /\ UNCHANGED <<job, beside>>
      PROVE  EntryInv'
  BY <1>3, EntryBegins, EntryVictim, EntryRefused DEF Entries!Victim
<1>4. CASE Entries!Finished
  BY <1>1, <1>4 DEF Entries!Finished
<1>5. QED
  BY <1>1, <1>2, <1>3, <1>4 DEF Entries!Next

(* The invariant of the entries holds in every reachable state. *)
THEOREM EntryInvHolds ==
  ASSUME Entries!BoundsAssumption, Entries!JobsAssumption, Entries!StockAssumption
  PROVE  Entries!Spec => []EntryInv
BY EntryInit, EntryStep, PTL DEF Entries!Spec

(* Catalogue.TypeOK: no key is held by two transactions, or held and       *)
(* committed, and no request counts past the rows of its file.             *)
THEOREM EntryTypeCorrect ==
  ASSUME Entries!BoundsAssumption, Entries!JobsAssumption, Entries!StockAssumption
  PROVE  Entries!Spec => []Entries!TypeOK
<1>1. EntryInv => Entries!TypeOK
  <2> SUFFICES ASSUME EntryInv PROVE Entries!TypeOK
    OBVIOUS
  <2>1. \A r \in Requests : row[r] \in 1..(MaxRows + 1) /\ created[r] \in 0..MaxRows
    <3> SUFFICES ASSUME NEW r \in Requests
                 PROVE  row[r] \in 1..(MaxRows + 1) /\ created[r] \in 0..MaxRows
      OBVIOUS
    <3>1. MaxRows \in Nat
      BY DEF Entries!BoundsAssumption
    <3>2. Len(File(r)) \in 1..MaxRows
      BY JobsTyped DEF EntryInv, EntryTypes, File
    <3>3. row[r] \in 1..(Len(File(r)) + 1) /\ created[r] \in 0..(row[r] - 1)
      BY DEF EntryInv, RequestInv, Counting
    <3>4. QED
      BY <3>1, <3>2, <3>3
  <2>2. \A r, q \in Requests : r # q => held[r] \cap (held[q] \cup db) = {}
    BY DEF EntryInv, KeysApart, RequestInv, Holding
  <2>3. QED
    BY <2>1, <2>2 DEF EntryInv, EntryTypes, Vehicles, Entries!TypeOK
<1>2. QED
  BY <1>1, EntryInvHolds, PTL

(* Catalogue.VinTwiceNeedsOverlap: the same VIN gets into two dealerships  *)
(* of a company only through requests that were in flight together.        *)
THEOREM TwiceNeedsOverlap ==
  ASSUME Entries!BoundsAssumption, Entries!JobsAssumption, Entries!StockAssumption
  PROVE  Entries!Spec => []Entries!VinTwiceNeedsOverlap
<1>1. EntryInv => Entries!VinTwiceNeedsOverlap
  BY DEF EntryInv
<1>2. QED
  BY <1>1, EntryInvHolds, PTL

LEMMA SameCardinality == ASSUME NEW S PROVE Entries!Cardinality(S) = Cardinality(S)
BY DEF Entries!Cardinality, Cardinality

(* Catalogue.SummaryTrueOrNothing: the summary of an import counts what it *)
(* has stored, or, after a collision, it has stored nothing at all.        *)
THEOREM SummariesTrueOrNothing ==
  ASSUME Entries!BoundsAssumption, Entries!JobsAssumption, Entries!StockAssumption
  PROVE  Entries!Spec => []Entries!SummaryTrueOrNothing
<1>1. EntryInv => Entries!SummaryTrueOrNothing
  BY SameCardinality DEF EntryInv, RequestInv, Made, Entries!SummaryTrueOrNothing
<1>2. QED
  BY <1>1, EntryInvHolds, PTL

----------------------------------------------------------------------------
(* What the inventory is made of: a vehicle in a folder is there, and a    *)
(* scan folder with a vehicle in it is, too. *)
Shelved ==
  \A f \in Entries!Folders, x \in Vehicles :
    Entries!LinkKey(f, x) \in db =>
      Entries!Stored(x) /\ (f[2] # 0 => Entries!FolderKey(f) \in db)

(* A request files vehicles in one folder of its dealership, and all that  *)
(* it has inserted but the one it is at. *)
Filing(r) ==
  /\ folder[r][1] = job[r].at
  /\ \A f \in Entries!Folders, x \in Vehicles :
       Entries!LinkKey(f, x) \in held[r] => f = folder[r]
  /\ \A x \in Inserted(r) :
       \/ Entries!LinkKey(folder[r], x) \in held[r]
       \/ stage[r] \in {"folder", "file"} /\ x = target[r]

(* A scan inserts one vehicle and then a folder, where it files it. *)
Scanning(r) ==
  /\ stage[r] \notin {"touch", "link"}
  /\ stage[r] = "insert" \/ (stage[r] = "row" /\ row[r] = 1) => held[r] = {}
  /\ stage[r] \in {"folder", "file"} \/ held[r] # {} => folder[r][2] # 0
  /\ stage[r] = "file" => Entries!FolderKey(folder[r]) \in held[r]
  /\ Inserted(r) \subseteq {target[r]}
  /\ \A x \in Vehicles :
       Entries!LinkKey(folder[r], x) \in held[r] =>
         x \in Inserted(r) /\ Entries!FolderKey(folder[r]) \in held[r]

Filed(r) ==
  /\ Filing(r)
  /\ IF job[r].kind = "scan" THEN Scanning(r) ELSE folder[r][2] = 0

FilingInv == EntryInv /\ Shelved /\ \A r \in Requests : Filed(r)

----------------------------------------------------------------------------
LEMMA FiledInit ==
  ASSUME Entries!JobsAssumption, Entries!BoundsAssumption, Entries!StockAssumption, Entries!Init
  PROVE  FilingInv
<1>1. EntryInv
  BY EntryInit
<1>2. PICK stock \in SUBSET Stock :
        db = UNION {{Entries!VehicleKey(x), Entries!LinkKey(<<x[1], 0>>, x)} : x \in stock}
  BY DEF Entries!Init
<1>3. ASSUME NEW f \in Entries!Folders, NEW x \in Vehicles, Entries!LinkKey(f, x) \in db
      PROVE  Entries!Stored(x) /\ (f[2] # 0 => Entries!FolderKey(f) \in db)
  <2>1. PICK y \in stock :
          Entries!LinkKey(f, x) \in {Entries!VehicleKey(y), Entries!LinkKey(<<y[1], 0>>, y)}
    BY <1>2, <1>3
  <2>2. x = y /\ f = <<y[1], 0>>
    BY <2>1, KeyKinds
  <2>3. Entries!VehicleKey(x) \in db
    BY <1>2, <2>2
  <2>4. QED
    BY <2>2, <2>3 DEF Entries!Stored
<1>4. ASSUME NEW r \in Requests PROVE Filed(r)
  <2>1. /\ stage[r] = "idle" /\ held[r] = {} /\ folder[r] = <<job[r].at, 0>>
    BY DEF Entries!Init
  <2>2. Inserted(r) = {}
    BY <2>1 DEF Inserted
  <2>3. QED
    BY <2>1, <2>2 DEF Filed, Filing, Scanning
<1>5. QED
  BY <1>1, <1>3, <1>4 DEF FilingInv, Shelved

(* The requests a step leaves alone keep to their folders. *)
LEMMA FiledAlone ==
  ASSUME NEW q \in Requests, Filed(q), job' = job,
         stage'[q] = stage[q], held'[q] = held[q], row'[q] = row[q],
         target'[q] = target[q], folder'[q] = folder[q]
  PROVE  Filed(q)'
<1>1. Inserted(q)' = Inserted(q)
  BY DEF Inserted
<1>2. Filing(q)'
  BY <1>1 DEF Filed, Filing
<1>3. job[q].kind = "scan" => Scanning(q)'
  BY <1>1 DEF Filed, Scanning
<1>4. QED
  BY <1>2, <1>3 DEF Filed

(* A request that ends, with or without what it has inserted, holds no     *)
(* more, and one that begins holds nothing yet. *)
LEMMA FiledEmpty ==
  ASSUME NEW r \in Requests, Filed(r), job' = job, held'[r] = {}, folder'[r] = folder[r],
         stage'[r] \in Entries!Final \cup {"row"}
  PROVE  Filed(r)'
<1>1. stage'[r] \notin {"insert", "folder", "file", "touch", "link"}
  BY DEF Entries!Final
<1>2. Inserted(r)' = {}
  BY DEF Inserted
<1>3. Filing(r)'
  BY <1>1, <1>2 DEF Filed, Filing
<1>4. Scanning(r)'
  BY <1>1, <1>2 DEF Scanning
<1>5. QED
  BY <1>3, <1>4 DEF Filed

(* A scan has one row, and is not for show. *)
LEMMA ScansOne ==
  ASSUME Entries!JobsAssumption, NEW j \in Jobs, j.kind = "scan"
  PROVE  Len(j.rows) = 1 /\ j.dry = FALSE
<1>1. j \in Entries!Job /\ j.kind \notin Entries!OnConflict
  BY DEF Entries!JobsAssumption, Entries!OnConflict
<1>2. j.dry = FALSE /\ j.rows \in [1..1 -> Vins]
  BY <1>1 DEF Entries!Job
<1>3. QED
  BY <1>2, LengthOfFile

(* A step of r is about r. *)
LEMMA OthersStay ==
  ASSUME EntryTypes, NEW r \in Requests, NEW q \in Requests, q # r,
         \/ Entries!Begin(r) \/ Entries!Serve(r) \/ Entries!Victim(r)
         \/ Entries!Abort(r) /\ UNCHANGED <<job, beside>>
  PROVE  /\ job' = job
         /\ stage'[q] = stage[q] /\ held'[q] = held[q] /\ row'[q] = row[q]
         /\ target'[q] = target[q] /\ folder'[q] = folder[q]
<1> DEFINE Stays == /\ stage'[q] = stage[q] /\ held'[q] = held[q] /\ row'[q] = row[q]
                    /\ target'[q] = target[q] /\ folder'[q] = folder[q]
<1> USE DEF EntryTypes
<1>1. job' = job
  BY DEF Entries!Begin, Entries!Serve, Entries!Victim
<1>2. ASSUME NEW answer, Entries!Rollback(r, answer) \/ Entries!Commit(r, answer) PROVE Stays
  BY <1>2 DEF Entries!Rollback, Entries!Commit, Entries!End, Entries!Goto
<1>3. ASSUME NEW n, Entries!NextRow(r, n) PROVE stage'[q] = stage[q] /\ row'[q] = row[q]
  BY <1>3 DEF Entries!NextRow, Entries!Goto
<1>4. Entries!Begin(r) => Stays
  BY DEF Entries!Begin, Entries!Goto
<1>5. Entries!LookNew(r) => Stays
  BY <1>3 DEF Entries!LookNew, Entries!Goto
<1>6. Entries!SkipRow(r) => Stays
  BY <1>3 DEF Entries!SkipRow
<1>7. Entries!UpdateRow(r) => Stays
  BY <1>3 DEF Entries!UpdateRow, Entries!Goto
<1>8. Entries!InsertVehicle(r) => Stays
  <2> SUFFICES ASSUME Entries!InsertVehicle(r) PROVE Stays
    OBVIOUS
  <2>1. folder'[q] = folder[q] /\ stage'[q] = stage[q]
    BY DEF Entries!InsertVehicle, Entries!NameFolder, Entries!Goto
  <2>2. QED
    BY <2>1 DEF Entries!InsertVehicle, Entries!Take
<1>9. Entries!InsertFolder(r) \/ Entries!Touch(r) => Stays
  BY DEF Entries!InsertFolder, Entries!Touch, Entries!Take, Entries!Goto
<1>10. Entries!Link(r) => Stays
  BY <1>3 DEF Entries!Link, Entries!Take
<1>11. \/ Entries!LookKnown(r) \/ Entries!Refuse(r) \/ Entries!InsertRefused(r)
       \/ Entries!FolderRefused(r) \/ Entries!Done(r) \/ Entries!Abort(r)
       => Stays
  BY <1>2 DEF Entries!LookKnown, Entries!Refuse, Entries!InsertRefused, Entries!FolderRefused,
              Entries!Done, Entries!Abort
<1>12. Entries!Victim(r) => Stays
  BY <1>2, <1>3 DEF Entries!Victim, Entries!DeadlockVictim
<1>13. Stays
  BY <1>4, <1>5, <1>6, <1>7, <1>8, <1>9, <1>10, <1>11, <1>12 DEF Entries!Serve
<1>14. QED
  BY <1>1, <1>13

(* A request that looks at a row or goes on to the next, with nothing new. *)
LEMMA FiledLooks ==
  ASSUME FilingInv, NEW r \in Requests, Entries!JobsAssumption,
         \/ Entries!LookNew(r) \/ Entries!SkipRow(r) \/ Entries!UpdateRow(r),
         UNCHANGED job
  PROVE  Filed(r)'
<1>1. Filed(r) /\ job[r] \in Jobs /\ RequestInv(r) /\ EntryTypes
  BY DEF FilingInv, EntryInv, EntryTypes
<1>2. /\ stage[r] = "row" /\ row[r] <= Len(File(r)) /\ UNCHANGED <<held, folder>>
      /\ stage'[r] \in {"row", "insert", "touch", "link"}
  BY <1>1 DEF Entries!LookNew, Entries!SkipRow, Entries!UpdateRow, Entries!AtRow, File,
              Entries!NextRow, Entries!Goto, EntryTypes
<1>3. Inserted(r)' = Inserted(r)
  BY <1>2 DEF Inserted
<1>4. Filing(r)'
  BY <1>1, <1>2, <1>3 DEF Filed, Filing
<1>5. ASSUME job[r].kind = "scan" PROVE Scanning(r)'
  <2>1. Len(File(r)) = 1 /\ ~job[r].dry
    BY <1>1, <1>5, ScansOne DEF File
  <2>2. row[r] = 1
    BY <1>1, <1>2, <2>1 DEF RequestInv, Counting
  <2>3. held[r] = {}
    BY <1>1, <1>2, <1>5, <2>2 DEF Filed, Scanning
  <2>4. stage'[r] = "insert"
    BY <1>1, <1>5, <2>1 DEF Entries!LookNew, Entries!SkipRow, Entries!UpdateRow, Entries!Goto,
                             EntryTypes
  <2>5. Inserted(r) = {}
    BY <2>3 DEF Inserted
  <2>6. QED
    BY <1>2, <1>3, <2>3, <2>4, <2>5 DEF Scanning
<1>6. QED
  BY <1>1, <1>2, <1>4, <1>5 DEF Filed

LEMMA FiledInserts ==
  ASSUME FilingInv, NEW r \in Requests, Entries!BoundsAssumption, Entries!InsertVehicle(r),
         UNCHANGED job
  PROVE  Filed(r)'
<1>1. /\ Filed(r) /\ RequestInv(r) /\ EntryTypes
      /\ target[r] \in Vehicles
  BY DEF FilingInv, EntryInv, EntryTypes
<1>2. PICK k : k = Entries!VehicleKey(target[r])
  OBVIOUS
<1>3. /\ stage[r] = "insert" /\ held'[r] = held[r] \cup {k} /\ target' = target
  BY <1>1, <1>2 DEF Entries!InsertVehicle, Entries!Take, EntryTypes
<1>4. \A x \in Vehicles : Entries!VehicleKey(x) \in held'[r] <=> x \in Inserted(r) \/ x = target[r]
  BY <1>2, <1>3, KeyKinds DEF Inserted
<1>5. Inserted(r)' = Inserted(r) \cup {target[r]}
  BY <1>1, <1>4 DEF Inserted
<1>6. \A f \in Entries!Folders, x \in Vehicles :
        Entries!LinkKey(f, x) \in held'[r] <=> Entries!LinkKey(f, x) \in held[r]
  BY <1>2, <1>3, KeyKinds
<1>7. CASE job[r].kind = "scan"
  <2>1. PICK m \in 1..MaxMinute : folder' = [folder EXCEPT ![r] = <<job[r].at, m>>]
    BY <1>7 DEF Entries!InsertVehicle, Entries!NameFolder
  <2>2. folder'[r] = <<job[r].at, m>> /\ m # 0
    BY <1>1, <2>1 DEF EntryTypes, Entries!BoundsAssumption
  <2>3. stage'[r] = "folder"
    BY <1>1, <1>7 DEF Entries!InsertVehicle, Entries!Goto, EntryTypes
  <2>4. held[r] = {} /\ Inserted(r) = {}
    BY <1>1, <1>3, <1>7 DEF Filed, Scanning, Inserted
  <2>5. \A f, x : Entries!LinkKey(f, x) \notin held'[r]
    BY <1>2, <1>3, <2>4, KeyKinds
  <2>6. Filing(r)'
    BY <1>3, <1>5, <2>2, <2>3, <2>4, <2>5 DEF Filing
  <2>7. Scanning(r)'
    BY <1>3, <1>5, <2>2, <2>3, <2>4, <2>5 DEF Scanning
  <2>8. QED
    BY <1>7, <2>6, <2>7 DEF Filed
<1>8. CASE job[r].kind # "scan"
  <2>1. folder' = folder /\ stage'[r] = "file"
    BY <1>1, <1>8 DEF Entries!InsertVehicle, Entries!Goto, EntryTypes
  <2>2. folder[r] \in Entries!Folders
    BY <1>1 DEF EntryTypes
  <2>3. \A x \in Inserted(r) : Entries!LinkKey(folder[r], x) \in held[r]
    BY <1>1, <1>3 DEF Filed, Filing
  <2>4. Filing(r)'
    BY <1>1, <1>3, <1>5, <1>6, <2>1, <2>2, <2>3 DEF Filed, Filing
  <2>5. QED
    BY <1>1, <1>8, <2>1, <2>4 DEF Filed
<1>9. QED
  BY <1>7, <1>8

LEMMA FiledTakes ==
  ASSUME FilingInv, NEW r \in Requests, Entries!InsertFolder(r) \/ Entries!Touch(r), UNCHANGED job
  PROVE  Filed(r)'
<1>1. Filed(r) /\ RequestInv(r) /\ EntryTypes
  BY DEF FilingInv, EntryInv, EntryTypes
<1>2. PICK k : /\ k \in {Entries!FolderKey(folder[r]), Entries!RowLock(target[r])}
               /\ held'[r] = held[r] \cup {k}
               /\ stage[r] = "folder" => k = Entries!FolderKey(folder[r])
  BY <1>1 DEF Entries!InsertFolder, Entries!Touch, Entries!Take, EntryTypes
<1>3. /\ target' = target /\ folder' = folder /\ stage[r] \in {"folder", "touch"}
      /\ stage'[r] = IF stage[r] = "folder" THEN "file" ELSE "link"
  BY <1>1 DEF Entries!InsertFolder, Entries!Touch, Entries!Goto, EntryTypes
<1>4. \A x : Entries!VehicleKey(x) # k
  BY <1>2, KeyKinds
<1>5. \A f, x : Entries!LinkKey(f, x) # k
  BY <1>2, KeyKinds
<1>6. Inserted(r)' = Inserted(r)
  BY <1>2, <1>4 DEF Inserted
<1>7. \A f, x : Entries!LinkKey(f, x) \in held'[r] <=> Entries!LinkKey(f, x) \in held[r]
  BY <1>2, <1>5
<1>8. Filing(r)'
  <2>1. \A x \in Inserted(r) :
          Entries!LinkKey(folder[r], x) \in held[r] \/ (stage'[r] = "file" /\ x = target[r])
    BY <1>1, <1>3 DEF Filed, Filing
  <2>2. QED
    BY <1>1, <1>3, <1>6, <1>7, <2>1 DEF Filed, Filing
<1>9. ASSUME job[r].kind = "scan" PROVE Scanning(r)'
  <2>1. stage[r] = "folder" /\ stage'[r] = "file" /\ folder[r][2] # 0
    BY <1>1, <1>3, <1>9 DEF Filed, Scanning
  <2>2. Entries!FolderKey(folder[r]) \in held'[r]
    BY <1>2, <2>1
  <2>3. QED
    BY <1>1, <1>3, <1>6, <1>7, <1>9, <2>1, <2>2 DEF Filed, Scanning
<1>10. QED
  BY <1>1, <1>3, <1>8, <1>9 DEF Filed

(* A vehicle that is new has no link yet, and is given one.                *)
LEMMA FiledLinks ==
  ASSUME FilingInv, NEW r \in Requests, Entries!Link(r), UNCHANGED job
  PROVE  Filed(r)'
<1>1. /\ Filed(r) /\ RequestInv(r) /\ EntryTypes
      /\ target[r] \in Vehicles /\ folder[r] \in Entries!Folders
  BY DEF FilingInv, EntryInv, EntryTypes
<1>2. PICK k : k = Entries!LinkKey(folder[r], target[r])
  OBVIOUS
<1>3. /\ stage[r] \in {"file", "link"} /\ stage'[r] = "row" /\ row'[r] = row[r] + 1
      /\ target' = target /\ folder' = folder
      /\ held'[r] = (IF k \in db THEN held[r] ELSE held[r] \cup {k})
  BY <1>1, <1>2 DEF Entries!Link, Entries!Linking, Entries!NextRow, Entries!Goto, Entries!Take,
                    EntryTypes
<1>4. \A x : Entries!VehicleKey(x) # k
  BY <1>2, KeyKinds
<1>5. Inserted(r)' = Inserted(r)
  BY <1>3, <1>4 DEF Inserted
<1>6. \A f \in Entries!Folders, x \in Vehicles :
        Entries!LinkKey(f, x) \in held'[r] =>
          Entries!LinkKey(f, x) \in held[r] \/ (f = folder[r] /\ x = target[r])
  BY <1>2, <1>3, KeyKinds
<1>7. ASSUME stage[r] = "file" PROVE target[r] \in Inserted(r) /\ k \in held'[r]
  <2>1. target[r] \in Inserted(r)
    BY <1>1, <1>7 DEF RequestInv, Writing
  <2>2. ~Entries!Stored(target[r])
    BY <1>1, <2>1 DEF Inserted, RequestInv, Holding, Entries!Stored
  <2>3. k \notin db
    BY <1>1, <1>2, <2>2 DEF FilingInv, Shelved
  <2>4. QED
    BY <1>3, <2>1, <2>3
<1>8. Filing(r)'
  <2>1. \A x \in Inserted(r) : Entries!LinkKey(folder[r], x) \in held'[r]
    BY <1>1, <1>2, <1>3, <1>7 DEF Filed, Filing
  <2>2. QED
    BY <1>1, <1>3, <1>5, <1>6, <2>1 DEF Filed, Filing
<1>9. ASSUME job[r].kind = "scan" PROVE Scanning(r)'
  <2>1. /\ stage[r] = "file" /\ folder[r][2] # 0
        /\ Entries!FolderKey(folder[r]) \in held[r]
    BY <1>1, <1>3, <1>9 DEF Filed, Scanning
  <2>2. row[r] \in Nat \ {0}
    BY <1>1 DEF RequestInv, Counting, EntryTypes
  <2>3. held[r] \subseteq held'[r] /\ row'[r] # 1
    BY <1>3, <2>2
  <2>4. \A x \in Vehicles : Entries!LinkKey(folder[r], x) \in held'[r] => x \in Inserted(r)
    BY <1>1, <1>6, <1>7, <1>9, <2>1 DEF Filed, Scanning
  <2>5. QED
    BY <1>1, <1>3, <1>5, <1>9, <2>1, <2>3, <2>4 DEF Filed, Scanning
<1>10. QED
  BY <1>1, <1>3, <1>8, <1>9 DEF Filed

(* A request that begins, ends, or goes on without a link it was denied.   *)
LEMMA FiledOver ==
  ASSUME FilingInv, NEW r \in Requests, UNCHANGED job,
         \/ Entries!Begin(r) \/ Entries!Abort(r) \/ Entries!DeadlockVictim(r)
         \/ Entries!LookKnown(r) \/ Entries!Refuse(r) \/ Entries!InsertRefused(r)
         \/ Entries!FolderRefused(r) \/ Entries!Done(r)
  PROVE  Filed(r)'
<1>1. /\ Filed(r) /\ RequestInv(r) /\ EntryTypes
  BY DEF FilingInv, EntryInv
<1>2. ASSUME NEW a \in Entries!Final, Entries!Rollback(r, a) \/ Entries!Commit(r, a) PROVE Filed(r)'
  <2>1. stage'[r] = a /\ held'[r] = {} /\ folder' = folder
    BY <1>1, <1>2 DEF Entries!Rollback, Entries!Commit, Entries!End, Entries!Goto, EntryTypes
  <2>2. QED
    BY <1>1, <2>1, FiledEmpty
<1>3. CASE Entries!Begin(r)
  <2>1. stage[r] = "idle" /\ stage'[r] = "row" /\ held' = held /\ folder' = folder
    BY <1>1, <1>3 DEF Entries!Begin, Entries!Goto, EntryTypes
  <2>2. held[r] = {}
    BY <1>1, <2>1 DEF RequestInv, Holding, Flying, Entries!InFlight
  <2>3. QED
    BY <1>1, <2>1, <2>2, FiledEmpty
<1>4. CASE \/ Entries!Abort(r) \/ Entries!LookKnown(r) \/ Entries!Refuse(r)
           \/ Entries!InsertRefused(r) \/ Entries!FolderRefused(r) \/ Entries!Done(r)
  <2>1. {"failed", "known", "exists", "duplicate", "summary", "created"} \subseteq Entries!Final
    BY DEF Entries!Final
  <2>2. PICK a \in {"failed", "known", "exists", "duplicate", "summary", "created"} :
          Entries!Rollback(r, a) \/ Entries!Commit(r, a)
    BY <1>4 DEF Entries!Abort, Entries!LookKnown, Entries!Refuse, Entries!InsertRefused,
                Entries!FolderRefused, Entries!Done
  <2>3. QED
    BY <1>2, <2>1, <2>2
<1>5. CASE Entries!DeadlockVictim(r) /\ ~(Entries!Imports(r) /\ Entries!Linking(r))
  <2>1. PICK a \in {"summary", "failed"} : Entries!Rollback(r, a)
    BY <1>5 DEF Entries!DeadlockVictim
  <2>2. QED
    BY <1>2, <2>1 DEF Entries!Final
<1>6. CASE Entries!DeadlockVictim(r) /\ Entries!Imports(r) /\ Entries!Linking(r)
  <2>1. /\ Entries!NextRow(r, 0) /\ UNCHANGED <<held, target, folder>>
        /\ stage[r] \in {"file", "link"} /\ job[r].kind # "scan"
    BY <1>6 DEF Entries!DeadlockVictim, Entries!Linking, Entries!Imports, Entries!OnConflict
  <2>2. stage[r] # "file"
    BY <1>6, FilesAlone DEF Entries!DeadlockVictim, Entries!Deadlocked, FilingInv
  <2>3. stage'[r] = "row"
    BY <1>1, <2>1 DEF Entries!NextRow, Entries!Goto, EntryTypes
  <2>4. Inserted(r)' = Inserted(r)
    BY <2>1 DEF Inserted
  <2>5. \A x \in Inserted(r) : Entries!LinkKey(folder[r], x) \in held[r]
    BY <1>1, <2>1, <2>2 DEF Filed, Filing
  <2>6. Filing(r)'
    BY <1>1, <2>1, <2>3, <2>4, <2>5 DEF Filed, Filing
  <2>7. QED
    BY <1>1, <2>1, <2>6 DEF Filed
<1>7. QED
  BY <1>3, <1>4, <1>5, <1>6

(* What a request commits. *)
Places(r) == {x \in Vehicles : Entries!LinkKey(folder[r], x) \in held[r]}

LEMMA Committed ==
  ASSUME FilingInv, NEW r \in Requests, NEW answer, Entries!Commit(r, answer)
  PROVE  /\ \A x \in Vehicles : Entries!Stored(x)' <=> Entries!Stored(x) \/ x \in Inserted(r)
         /\ \A f \in Entries!Folders, x \in Vehicles :
              Entries!LinkKey(f, x) \in db' <=>
                Entries!LinkKey(f, x) \in db \/ (f = folder[r] /\ x \in Places(r))
         /\ db \subseteq db'
         /\ Entries!FolderKey(folder[r]) \in held[r] => Entries!FolderKey(folder[r]) \in db'
<1>1. db' = db \cup (held[r] \ Entries!RowLocks)
  BY DEF Entries!Commit
<1>2. \A x, f : /\ Entries!VehicleKey(x) \notin Entries!RowLocks
                /\ Entries!LinkKey(f, x) \notin Entries!RowLocks
                /\ Entries!FolderKey(f) \notin Entries!RowLocks
  BY DEF Entries!RowLocks, Entries!VehicleKey, Entries!LinkKey, Entries!FolderKey, Entries!RowLock
<1>3. \A f \in Entries!Folders, x \in Vehicles :
        Entries!LinkKey(f, x) \in held[r] => f = folder[r] /\ x \in Places(r)
  BY DEF FilingInv, Filed, Filing, Places
<1>4. \A x \in Places(r) : Entries!LinkKey(folder[r], x) \in held[r]
  BY DEF Places
<1>5. \A x \in Vehicles : Entries!Stored(x)' <=> Entries!Stored(x) \/ x \in Inserted(r)
  BY <1>1, <1>2 DEF Entries!Stored, Inserted
<1>6. \A f \in Entries!Folders, x \in Vehicles :
        Entries!LinkKey(f, x) \in db' <=>
          Entries!LinkKey(f, x) \in db \/ (f = folder[r] /\ x \in Places(r))
  BY <1>1, <1>2, <1>3, <1>4
<1>7. QED
  BY <1>1, <1>2, <1>5, <1>6

(* Only these two commit, and they do so between two rows. *)
LEMMA OnlyTheseCommit ==
  ASSUME NEW r \in Requests,
         \/ Entries!Begin(r) \/ Entries!Serve(r) \/ Entries!Victim(r) \/ Entries!Abort(r)
  PROVE  \/ db' = db
         \/ /\ stage[r] = "row"
            /\ \E answer \in Entries!Final : Entries!Commit(r, answer)
            /\ Entries!Refuse(r) \/ Entries!Done(r)
<1>1. CASE Entries!Refuse(r) \/ Entries!Done(r)
  <2>1. stage[r] = "row"
    BY <1>1 DEF Entries!Refuse, Entries!Done, Entries!AtRow
  <2>2. \E answer \in {"duplicate", "summary", "created"} : Entries!Commit(r, answer)
    BY <1>1 DEF Entries!Refuse, Entries!Done
  <2>3. QED
    BY <1>1, <2>1, <2>2 DEF Entries!Final
<1>2. CASE ~(Entries!Refuse(r) \/ Entries!Done(r))
  BY <1>2 DEF Entries!Begin, Entries!Serve, Entries!Victim, Entries!Abort, Entries!Rollback,
              Entries!DeadlockVictim, Entries!LookNew, Entries!LookKnown, Entries!SkipRow,
              Entries!UpdateRow, Entries!InsertVehicle, Entries!InsertRefused,
              Entries!InsertFolder, Entries!FolderRefused, Entries!Touch, Entries!Link
<1>3. QED
  BY <1>1, <1>2

LEMMA ShelvedKept ==
  ASSUME FilingInv, NEW r \in Requests, NEW answer, Entries!Commit(r, answer)
  PROVE  Shelved'
<1> SUFFICES ASSUME NEW f \in Entries!Folders, NEW x \in Vehicles,
                    (Entries!LinkKey(f, x) \in db)'
             PROVE  Entries!Stored(x)' /\ (f[2] # 0 => Entries!FolderKey(f) \in db')
  BY DEF Shelved
<1>1. CASE Entries!LinkKey(f, x) \in db
  BY <1>1, Committed DEF FilingInv, Shelved
<1>2. CASE f = folder[r] /\ x \in Places(r)
  <2>1. Entries!LinkKey(f, x) \in held[r]
    BY <1>2 DEF Places
  <2>2. Entries!VehicleKey(x) \in db \cup held[r]
    BY <2>1 DEF FilingInv, EntryInv, RequestInv, Holding
  <2>3. Entries!Stored(x)'
    BY <2>2, Committed DEF Entries!Stored, Inserted
  <2>4. f[2] # 0 => Entries!FolderKey(f) \in held[r]
    BY <1>2, <2>1 DEF FilingInv, Filed, Scanning
  <2>5. QED
    BY <1>2, <2>3, <2>4, Committed
<1>3. QED
  BY <1>1, <1>2, Committed

LEMMA FilingStep ==
  ASSUME FilingInv, Entries!JobsAssumption, Entries!BoundsAssumption,
         [Entries!Next]_(Entries!vars)
  PROVE  FilingInv'
<1>1. EntryInv'
  BY EntryStep DEF FilingInv
<1>2. CASE UNCHANGED Entries!vars
  <2>1. UNCHANGED <<db, job, stage, held, row, target, folder>>
    BY <1>2 DEF Entries!vars
  <2>2. \A r \in Requests : Filed(r)'
    BY <2>1, FiledAlone DEF FilingInv
  <2>3. Shelved'
    BY <2>1 DEF FilingInv, Shelved, Entries!Stored
  <2>4. QED
    BY <1>1, <2>2, <2>3 DEF FilingInv
<1>3. ASSUME NEW r \in Requests,
             \/ Entries!Begin(r) \/ Entries!Serve(r) \/ Entries!Victim(r)
             \/ Entries!Abort(r) /\ UNCHANGED <<job, beside>>
      PROVE  FilingInv'
  <2>1. EntryTypes /\ UNCHANGED job
    BY <1>3 DEF FilingInv, EntryInv, Entries!Begin, Entries!Serve, Entries!Victim
  <2>2. Filed(r)'
    BY <1>3, <2>1, FiledLooks, FiledInserts, FiledTakes, FiledLinks, FiledOver
    DEF Entries!Serve, Entries!Victim
  <2>3. ASSUME NEW q \in Requests \ {r} PROVE Filed(q)'
    <3>1. /\ job' = job
          /\ stage'[q] = stage[q] /\ held'[q] = held[q] /\ row'[q] = row[q]
          /\ target'[q] = target[q] /\ folder'[q] = folder[q]
      BY <1>3, <2>1, OthersStay
    <3>2. QED
      BY <3>1, FiledAlone DEF FilingInv
  <2>4. Shelved'
    <3>1. CASE db' = db
      BY <3>1 DEF FilingInv, Shelved, Entries!Stored
    <3>2. QED
      BY <1>3, <3>1, OnlyTheseCommit, ShelvedKept
  <2>5. QED
    BY <1>1, <2>2, <2>3, <2>4 DEF FilingInv
<1>4. CASE Entries!Finished
  BY <1>2, <1>4 DEF Entries!Finished
<1>5. QED
  BY <1>2, <1>3, <1>4 DEF Entries!Next

----------------------------------------------------------------------------
(* The inventory that Catalogue shows to Inventory. *)
ShownVehicles == {x \in Vehicles : Entries!Stored(x)}
ShownPlaces ==
  {p \in Entries!Folders \X Vehicles : Entries!LinkKey(p[1], p[2]) \in db}

LEMMA CommitEnters ==
  ASSUME FilingInv, NEW r \in Requests, NEW answer, Entries!Commit(r, answer),
         stage[r] = "row", Entries!Refuse(r) \/ Entries!Done(r)
  PROVE  Entries!Entered!Next \/ UNCHANGED Entries!Entered!vars
<1>1. EntryTypes /\ Filed(r) /\ RequestInv(r) /\ folder[r] \in Entries!Folders
  BY DEF FilingInv, EntryInv, EntryTypes
<1>2. /\ ShownVehicles' = ShownVehicles \cup Inserted(r)
      /\ Inserted(r) \subseteq Vehicles \ ShownVehicles
  <2>1. \A x \in Inserted(r) : x \in Vehicles /\ ~Entries!Stored(x)
    BY <1>1 DEF Inserted, RequestInv, Holding, Entries!Stored
  <2>2. QED
    BY <2>1, Committed DEF ShownVehicles
<1>3. ShownPlaces' = ShownPlaces \cup ({folder[r]} \X Places(r))
  <2>1. Places(r) \subseteq Vehicles
    BY DEF Places
  <2>2. \A p \in Entries!Folders \X Vehicles :
          Entries!LinkKey(p[1], p[2]) \in db' <=>
            Entries!LinkKey(p[1], p[2]) \in db \/ p \in {folder[r]} \X Places(r)
    BY Committed
  <2>3. QED
    BY <1>1, <2>1, <2>2 DEF ShownPlaces
<1>4. Inserted(r) \subseteq Places(r) /\ Places(r) \subseteq Inserted(r) \cup ShownVehicles
  <2>1. \A x \in Inserted(r) : x \in Vehicles /\ Entries!LinkKey(folder[r], x) \in held[r]
    BY <1>1 DEF Filed, Filing, Inserted
  <2>2. \A x \in Places(r) : x \in Vehicles /\ Entries!VehicleKey(x) \in db \cup held[r]
    BY <1>1 DEF Places, RequestInv, Holding
  <2>3. QED
    BY <2>1, <2>2 DEF Places, Inserted, ShownVehicles, Entries!Stored
<1>5. CASE job[r].kind # "scan"
  <2>1. PICK known : known = Places(r) \ Inserted(r)
    OBVIOUS
  <2>2. known \in SUBSET ShownVehicles /\ Places(r) = Inserted(r) \cup known
    BY <1>4, <2>1
  <2>3. folder[r][2] = 0 /\ \A x \in Inserted(r) : x[1] = folder[r][1]
    BY <1>1, <1>5 DEF Filed, Filing, RequestInv, Holding
  <2>4. Entries!Entered!Enter(folder[r], Inserted(r), known)
    BY <1>2, <1>3, <2>2, <2>3 DEF Entries!Entered!Enter, ShownVehicles, ShownPlaces, Vehicles
  <2>5. QED
    BY <1>1, <1>2, <2>2, <2>4 DEF Entries!Entered!Next, ShownVehicles, Vehicles
<1>6. CASE job[r].kind = "scan"
  <2>1. Places(r) = Inserted(r) /\ Inserted(r) \subseteq {target[r]}
    BY <1>1, <1>4, <1>6 DEF Filed, Scanning, Places
  <2>2. CASE Inserted(r) = {}
    BY <1>2, <1>3, <2>1, <2>2 DEF Entries!Entered!vars, ShownVehicles, ShownPlaces, Vehicles
  <2>3. CASE Inserted(r) = {target[r]}
    <3>1. /\ folder[r][2] # 0 /\ Entries!FolderKey(folder[r]) \in held[r]
          /\ target[r] \in Inserted(r) /\ target[r] \in Vehicles \ ShownVehicles
      BY <1>1, <1>2, <1>6, <2>1, <2>3 DEF Filed, Scanning, Places
    <3>2. folder[r][1] = target[r][1]
      BY <1>1, <3>1 DEF Filed, Filing, RequestInv, Holding
    <3>3. Entries!FolderKey(folder[r]) \notin db
      BY <1>1, <3>1 DEF RequestInv, Holding
    <3>4. \A x \in Vehicles : Entries!LinkKey(folder[r], x) \notin db
      BY <1>1, <3>1, <3>3 DEF FilingInv, Shelved
    <3>5. Entries!Entered!InFolder(folder[r]) = {}
      BY <3>4 DEF Entries!Entered!InFolder, Vehicles
    <3>6. {folder[r]} \X {target[r]} = {<<folder[r], target[r]>>}
      OBVIOUS
    <3>7. Entries!Entered!Scan(folder[r], target[r])
      BY <1>2, <1>3, <2>1, <2>3, <3>1, <3>2, <3>5, <3>6
      DEF Entries!Entered!Scan, ShownVehicles, ShownPlaces, Vehicles
    <3>8. QED
      BY <1>1, <3>1, <3>7 DEF Entries!Entered!Next, ShownVehicles, Vehicles
  <2>4. QED
    BY <2>1, <2>2, <2>3
<1>7. QED
  BY <1>5, <1>6

LEMMA EnteredInit ==
  ASSUME Entries!StockAssumption, Entries!BoundsAssumption, Entries!Init
  PROVE  Entries!Entered!Init
<1>1. PICK stock \in SUBSET Stock :
        db = UNION {{Entries!VehicleKey(x), Entries!LinkKey(<<x[1], 0>>, x)} : x \in stock}
  BY DEF Entries!Init
<1>2. stock \subseteq Vehicles
  BY DEF Entries!StockAssumption, Vehicles
<1>3. \A k : k \in db <=>
        \E x \in stock : k = Entries!VehicleKey(x) \/ k = Entries!LinkKey(<<x[1], 0>>, x)
  BY <1>1
<1>4. ShownVehicles = stock
  <2>1. ASSUME NEW y \in Vehicles, Entries!VehicleKey(y) \in db PROVE y \in stock
    <3>1. PICK x \in stock :
            Entries!VehicleKey(y) = Entries!VehicleKey(x)
              \/ Entries!VehicleKey(y) = Entries!LinkKey(<<x[1], 0>>, x)
      BY <1>3, <2>1
    <3>2. QED
      BY <3>1, KeyKinds
  <2>2. \A y \in stock : Entries!VehicleKey(y) \in db
    BY <1>3
  <2>3. QED
    BY <1>2, <2>1, <2>2 DEF ShownVehicles, Entries!Stored
<1>5. \A f \in Entries!Folders, x \in Vehicles :
        Entries!LinkKey(f, x) \in db <=> x \in stock /\ f = <<x[1], 0>>
  <2> SUFFICES ASSUME NEW f \in Entries!Folders, NEW x \in Vehicles
               PROVE  Entries!LinkKey(f, x) \in db <=> x \in stock /\ f = <<x[1], 0>>
    OBVIOUS
  <2>1. ASSUME Entries!LinkKey(f, x) \in db PROVE x \in stock /\ f = <<x[1], 0>>
    <3>1. PICK y \in stock :
            Entries!LinkKey(f, x) = Entries!VehicleKey(y)
              \/ Entries!LinkKey(f, x) = Entries!LinkKey(<<y[1], 0>>, y)
      BY <1>3, <2>1
    <3>2. QED
      BY <3>1, KeyKinds
  <2>2. QED
    BY <1>3, <2>1
<1>6. \A x \in stock : <<x[1], 0>> \in Entries!Folders /\ x \in Vehicles
  BY <1>2 DEF Vehicles, Entries!Vehicles, Entries!Folders, Entries!BoundsAssumption
<1>7. ShownPlaces = {<<Entries!Entered!ManualFolder(x), x>> : x \in stock}
  <2>1. ShownPlaces = {<<<<x[1], 0>>, x>> : x \in stock}
    BY <1>5, <1>6 DEF ShownPlaces
  <2>2. QED
    BY <2>1 DEF Entries!Entered!ManualFolder
<1>8. QED
  BY <1>4, <1>7 DEF Entries!Entered!Init, ShownVehicles, ShownPlaces, Vehicles

LEMMA EnteredStep ==
  ASSUME FilingInv, [Entries!Next]_(Entries!vars)
  PROVE  [Entries!Entered!Next]_(Entries!Entered!vars)
<1>1. db' = db => UNCHANGED Entries!Entered!vars
  BY DEF Entries!Entered!vars, Entries!Stored
<1>2. CASE UNCHANGED Entries!vars \/ Entries!Finished
  <2>1. db' = db
    BY <1>2 DEF Entries!vars, Entries!Finished
  <2>2. QED
    BY <1>1, <2>1
<1>3. ASSUME NEW r \in Requests,
             \/ Entries!Begin(r) \/ Entries!Serve(r) \/ Entries!Victim(r)
             \/ Entries!Abort(r) /\ UNCHANGED <<job, beside>>
      PROVE  Entries!Entered!Next \/ UNCHANGED Entries!Entered!vars
  <2>1. CASE db' = db
    BY <1>1, <2>1
  <2>2. CASE ~(db' = db)
    BY <1>3, <2>2, OnlyTheseCommit, CommitEnters
  <2>3. QED
    BY <2>1, <2>2
<1>4. QED
  BY <1>2, <1>3 DEF Entries!Next

(* Catalogue.InventoryKept: however the requests overlap, wait, fail or    *)
(* are picked as victims, what they commit is what Inventory lets happen   *)
(* in one step.                                                            *)
THEOREM InventoryRefinement ==
  ASSUME Entries!BoundsAssumption, Entries!JobsAssumption, Entries!StockAssumption
  PROVE  Entries!Spec => Entries!InventoryKept
<1>1. Entries!Spec => []FilingInv
  BY FiledInit, FilingStep, PTL DEF Entries!Spec
<1>2. QED
  BY <1>1, EnteredInit, EnteredStep, PTL
  DEF Entries!Spec, Entries!InventoryKept, Entries!Entered!Spec

(* Every stored vehicle is in a folder of its own dealership, and who was  *)
(* in a folder stays there: what a dealer who opens the folders relies on. *)
InOwnFolder ==
  \A x \in ShownVehicles : \E f \in Entries!Folders : f[1] = x[1] /\ <<f, x>> \in ShownPlaces

LEMMA OwnFolderKept ==
  ASSUME InOwnFolder, [Entries!Entered!Next]_(Entries!Entered!vars)
  PROVE  /\ InOwnFolder'
         /\ ShownVehicles \subseteq ShownVehicles' /\ ShownPlaces \subseteq ShownPlaces'
<1>1. CASE UNCHANGED Entries!Entered!vars
  BY <1>1 DEF Entries!Entered!vars, InOwnFolder, ShownVehicles, ShownPlaces, Vehicles
<1>2. ASSUME NEW f \in Entries!Folders, NEW new \in SUBSET (Vehicles \ ShownVehicles),
             NEW known \in SUBSET ShownVehicles, Entries!Entered!Enter(f, new, known)
      PROVE  /\ InOwnFolder'
             /\ ShownVehicles \subseteq ShownVehicles' /\ ShownPlaces \subseteq ShownPlaces'
  <2>1. /\ ShownVehicles' = ShownVehicles \cup new
        /\ ShownPlaces' = ShownPlaces \cup ({f} \X (new \cup known))
        /\ \A x \in new : x[1] = f[1]
    BY <1>2 DEF Entries!Entered!Enter, ShownVehicles, ShownPlaces, Vehicles
  <2>2. QED
    BY <1>2, <2>1 DEF InOwnFolder
<1>3. ASSUME NEW f \in Entries!Folders, NEW y \in Vehicles \ ShownVehicles,
             Entries!Entered!Scan(f, y)
      PROVE  /\ InOwnFolder'
             /\ ShownVehicles \subseteq ShownVehicles' /\ ShownPlaces \subseteq ShownPlaces'
  <2>1. /\ ShownVehicles' = ShownVehicles \cup {y}
        /\ ShownPlaces' = ShownPlaces \cup {<<f, y>>}
        /\ f[1] = y[1]
    BY <1>3 DEF Entries!Entered!Scan, ShownVehicles, ShownPlaces, Vehicles
  <2>2. QED
    BY <1>3, <2>1 DEF InOwnFolder
<1>4. QED
  BY <1>1, <1>2, <1>3 DEF Entries!Entered!Next, ShownVehicles, Vehicles

(* No request, however it overlaps others, fails or dies, leaves a vehicle *)
(* in no folder of its dealership; and nothing that is stored or filed by  *)
(* these endpoints is taken away by another of them.                       *)
THEOREM VehiclesAreFiled ==
  ASSUME Entries!BoundsAssumption, Entries!JobsAssumption, Entries!StockAssumption
  PROVE  Entries!Spec =>
           /\ []InOwnFolder
           /\ [][ShownVehicles \subseteq ShownVehicles' /\ ShownPlaces \subseteq ShownPlaces'
                ]_(Entries!Entered!vars)
<1>1. Entries!Entered!Init => InOwnFolder
  <2> SUFFICES ASSUME Entries!Entered!Init, NEW x \in ShownVehicles
               PROVE  \E f \in Entries!Folders : f[1] = x[1] /\ <<f, x>> \in ShownPlaces
    BY DEF InOwnFolder
  <2>1. ShownPlaces = {<<<<v[1], 0>>, v>> : v \in ShownVehicles}
    BY DEF Entries!Entered!Init, Entries!Entered!ManualFolder, ShownVehicles, ShownPlaces, Vehicles
  <2>2. <<<<x[1], 0>>, x>> \in ShownPlaces
    BY <2>1
  <2>3. <<x[1], 0>> \in Entries!Folders
    BY <2>2 DEF ShownPlaces
  <2>4. QED
    BY <2>2, <2>3
<1>2. InOwnFolder /\ [Entries!Entered!Next]_(Entries!Entered!vars) => InOwnFolder'
  BY OwnFolderKept
<1>3. InOwnFolder /\ [Entries!Entered!Next]_(Entries!Entered!vars) =>
        [ShownVehicles \subseteq ShownVehicles' /\ ShownPlaces \subseteq ShownPlaces'
           ]_(Entries!Entered!vars)
  BY OwnFolderKept
<1>4. QED
  BY <1>1, <1>2, <1>3, InventoryRefinement, PTL
  DEF Entries!InventoryKept, Entries!Entered!Spec
===============================================================================
