--------------------------- MODULE InspectionRoomProofs ---------------------------
(***************************************************************************)
(* Theorems about InspectionRoom, for any connections, any finite set of   *)
(* items, any channel capacity and any bound on the saves; and, in the     *)
(* second part, about Notifications, for any members, calls and requests.  *)
(***************************************************************************)
EXTENDS InspectionRoom, SequenceTheorems, FiniteSetTheorems, TLAPS

Asking == {"snapshot", "show"}
Counting == {"count_needs_attention", "save"}
Working(m) == Kind(m) \notin Asking \cup {"idle"}

(* No item's status was saved after save n. *)
Untouched(n) == \A i \in Items : saved[i]["status"] <= n

(* What a consumer holds on to: something to show, unless it is asking for *)
(* it; a save that was made, and is still in the row if it is the field's  *)
(* last; and counts that are right until a later save of a status.         *)
Shown(m) ==
  room[m] # "out" /\ Kind(m) \notin Asking => view[m] \in [Items -> Item]
Written(m) ==
  Working(m) =>
    LET e == task[m].event IN
      /\ task[m].save <= saved[e.item][e.field]
      /\ task[m].save = saved[e.item][e.field] => item[e.item][e.field] = e.value
CountsOk(m) ==
  Kind(m) \in Counting /\ Untouched(task[m].save) => task[m].ok = WithStatus("ok")
CountsBad(m) ==
  Kind(m) = "save" /\ Untouched(task[m].save) =>
    task[m].needs_attention = WithStatus("needs_attention")
Sound(m) == Shown(m) /\ Written(m) /\ CountsOk(m) /\ CountsBad(m)

(* The last event about a field among the queued ones brings x; when there *)
(* is none, x is what is shown or about to be.                             *)
About(e, i, f) == e.item = i /\ e.field = f
LastBrings(q, i, f, x) ==
  \A k \in 1..Len(q) :
    About(q[k], i, f) /\ (\A j \in (k + 1)..Len(q) : ~About(q[j], i, f)) => q[k].value = x
NoneAbout(q, i, f) == \A k \in 1..Len(q) : ~About(q[k], i, f)
Base(m, i, f) ==
  /\ Kind(m) = "show" => task[m].items[i][f] = item[i][f]
  /\ Kind(m) \notin Asking => view[m][i][f] = item[i][f]
Follows(m, i, f) ==
  /\ LastBrings(queue[m], i, f, item[i][f])
  /\ NoneAbout(queue[m], i, f) => Base(m, i, f)
Followed ==
  \A m \in Members, i \in Items, f \in Fields :
    room[m] # "out" /\ ~missed[m] /\ told[i][f] => Follows(m, i, f)

IInv ==
  /\ TypeOK
  /\ queue \in [Members -> Seq(Event)]
  /\ \A m \in Members : Sound(m)
  /\ Followed
  /\ counters.asof <= saves
  /\ CountersTrue

----------------------------------------------------------------------------
LEMMA ItemsCounted == Cardinality(Items) \in Nat
BY ItemsAssumption, FS_CardinalityType

LEMMA CountedRows == ASSUME NEW s PROVE WithStatus(s) \in Counted
<1> DEFINE S == {i \in Items : item[i].status = s}
<1>1. S \subseteq Items
  OBVIOUS
<1>2. IsFiniteSet(S) /\ Cardinality(S) <= Cardinality(Items)
  BY <1>1, ItemsAssumption, FS_Subset
<1>3. Cardinality(S) \in Nat
  BY <1>2, FS_CardinalityType
<1>4. QED
  BY <1>2, <1>3, ItemsCounted DEF WithStatus, Counted

(* The tasks by their kinds. *)
LEMMA Tasks ==
  ASSUME TypeOK, NEW m \in Members
  PROVE  /\ Kind(m) = "idle" <=> task[m] = Idle
         /\ Kind(m) \in {"idle", "snapshot", "show", "count_ok", "count_needs_attention",
                         "save", "broadcast"}
         /\ Kind(m) # "idle" => task[m] \in Task /\ Kind(m) = task[m].kind
         /\ Kind(m) = "show" => task[m].items \in [Items -> Item]
         /\ Working(m) => task[m].save \in 1..MaxSaves /\ task[m].event \in Event
         /\ Kind(m) \in Counting => task[m].ok \in Counted
         /\ Kind(m) = "save" => task[m].needs_attention \in Counted
<1>1. task[m] \in Task \cup {Idle}
  BY DEF TypeOK
<1>2. CASE task[m] = Idle
  BY <1>2 DEF Kind, Working, Asking, Counting
<1>3. CASE task[m] \in Task /\ task[m] # Idle
  BY <1>3 DEF Kind, Working, Asking, Counting, Task
<1>4. QED
  BY <1>1, <1>2, <1>3

LEMMA Events ==
  ASSUME NEW e \in Event
  PROVE  /\ e.item \in Items /\ e.field \in Fields
         /\ e.field = "status" => e.value \in Statuses
         /\ e.field = "notes" => e.value \in 0..MaxSaves
BY DEF Event, Fields

LEMMA InitIInv == Init => IInv
<1> SUFFICES ASSUME Init PROVE IInv
  OBVIOUS
<1>1. TypeOK
  <2>1. item \in [Items -> Item]
    BY StatusesAssumption, BoundsAssumption DEF Init, Item
  <2>2. counters \in Counters
    BY ItemsCounted, BoundsAssumption DEF Init, Counters
  <2>3. saves \in 0..MaxSaves /\ saved \in [Items -> [Fields -> 0..saves]]
    BY BoundsAssumption DEF Init
  <2>4. /\ told \in [Items -> [Fields -> BOOLEAN]]
        /\ room \in [Members -> {"out", "read_only", "edit"}]
        /\ missed \in [Members -> BOOLEAN]
    BY DEF Init
  <2>5. \A m \in Members : queue[m] \in Seq(Event) /\ Len(queue[m]) <= Capacity
    BY BoundsAssumption DEF Init
  <2>6. /\ view \in [Members -> [Items -> Item] \cup {Nothing}]
        /\ task \in [Members -> Task \cup {Idle}]
    BY DEF Init
  <2>7. \A m \in Members :
          /\ Kind(m) \notin {"idle", "snapshot", "show"} => room[m] = "edit"
          /\ room[m] = "out" => queue[m] = <<>> /\ task[m] = Idle /\ view[m] = Nothing
    BY DEF Init, Kind
  <2>8. QED
    BY <2>1, <2>2, <2>3, <2>4, <2>5, <2>6, <2>7 DEF TypeOK
<1>2. queue \in [Members -> Seq(Event)]
  BY DEF Init
<1>3. ASSUME NEW m \in Members PROVE Sound(m)
  BY DEF Init, Sound, Shown, Written, CountsOk, CountsBad, Kind, Working, Asking, Counting
<1>4. Followed
  BY DEF Init, Followed
<1>5. counters.asof <= saves /\ CountersTrue
  BY DEF Init, CountersTrue
<1>6. QED
  BY <1>1, <1>2, <1>3, <1>4, <1>5 DEF IInv

----------------------------------------------------------------------------
(* A consumer goes on to another task, and the others stay at theirs. *)
LEMMA GoesOn ==
  ASSUME TypeOK, NEW m \in Members, NEW t \in Task, Become(m, t)
  PROVE  /\ task' \in [Members -> Task \cup {Idle}]
         /\ task'[m] = t /\ Kind(m)' = t.kind
         /\ \A n \in Members : n # m => task'[n] = task[n] /\ Kind(n)' = Kind(n)
<1>1. t # Idle
  BY IdleAssumption
<1>2. task' = [task EXCEPT ![m] = t] /\ task \in [Members -> Task \cup {Idle}]
  BY DEF Become, TypeOK
<1>3. /\ task' \in [Members -> Task \cup {Idle}]
      /\ task'[m] = t
      /\ \A n \in Members : n # m => task'[n] = task[n]
  BY <1>2
<1>4. QED
  BY <1>1, <1>3 DEF Kind

LEMMA Ends ==
  ASSUME TypeOK, NEW m \in Members, Become(m, Idle)
  PROVE  /\ task' \in [Members -> Task \cup {Idle}]
         /\ task'[m] = Idle /\ Kind(m)' = "idle"
         /\ \A n \in Members : n # m => task'[n] = task[n] /\ Kind(n)' = Kind(n)
BY DEF Become, TypeOK, Kind

(* A step of one consumer that leaves the database and the channels alone. *)
ConsumerStep(m) ==
  /\ UNCHANGED <<database, told, queue, missed>>
  /\ room' \in [Members -> {"out", "read_only", "edit"}]
  /\ view' \in [Members -> [Items -> Item] \cup {Nothing}]
  /\ task' \in [Members -> Task \cup {Idle}]
  /\ \A n \in Members \ {m} :
       room'[n] = room[n] /\ view'[n] = view[n] /\ task'[n] = task[n]

LEMMA ConsumerTypes ==
  ASSUME TypeOK, NEW m \in Members, ConsumerStep(m),
         Kind(m)' \notin {"idle", "snapshot", "show"} => room'[m] = "edit",
         room'[m] # "out"
  PROVE  TypeOK'
<1>1. \A n \in Members :
        /\ Kind(n)' \notin {"idle", "snapshot", "show"} => room'[n] = "edit"
        /\ room'[n] = "out" => queue'[n] = <<>> /\ task'[n] = Idle /\ view'[n] = Nothing
  BY DEF TypeOK, ConsumerStep, Kind
<1>2. QED
  BY <1>1 DEF TypeOK, ConsumerStep, database

LEMMA Exchange ==
  ASSUME TypeOK, NEW m \in Members,
         \/ \E mode \in {"read_only", "edit"} : Connect(m, mode)
         \/ ReadSnapshot(m)
         \/ SendSnapshot(m)
  PROVE  TypeOK' /\ ConsumerStep(m)
<1>1. ASSUME NEW mode \in {"read_only", "edit"}, Connect(m, mode)
      PROVE  TypeOK' /\ ConsumerStep(m)
  <2>1. [kind |-> "snapshot"] \in Task
    BY DEF Task
  <2>2. /\ task' \in [Members -> Task \cup {Idle}]
        /\ Kind(m)' = "snapshot"
        /\ \A n \in Members : n # m => task'[n] = task[n]
    BY <1>1, <2>1, GoesOn DEF Connect
  <2>3. ConsumerStep(m)
    BY <1>1, <2>2 DEF Connect, TypeOK, ConsumerStep
  <2>4. room'[m] # "out"
    BY <1>1 DEF Connect, TypeOK
  <2>5. QED
    BY <2>2, <2>3, <2>4, ConsumerTypes
<1>2. ASSUME ReadSnapshot(m) PROVE TypeOK' /\ ConsumerStep(m)
  <2>1. [kind |-> "show", items |-> item] \in Task
    BY DEF Task, TypeOK
  <2>2. /\ task' \in [Members -> Task \cup {Idle}]
        /\ Kind(m)' = "show"
        /\ \A n \in Members : n # m => task'[n] = task[n]
    BY <1>2, <2>1, GoesOn DEF ReadSnapshot
  <2>3. ConsumerStep(m)
    BY <1>2, <2>2 DEF ReadSnapshot, TypeOK, ConsumerStep
  <2>4. room'[m] # "out"
    BY <1>2 DEF ReadSnapshot, TypeOK
  <2>5. QED
    BY <2>2, <2>3, <2>4, ConsumerTypes
<1>3. ASSUME SendSnapshot(m) PROVE TypeOK' /\ ConsumerStep(m)
  <2>1. task[m].items \in [Items -> Item] /\ task[m] # Idle
    BY <1>3, Tasks DEF SendSnapshot
  <2>2. /\ task' \in [Members -> Task \cup {Idle}]
        /\ Kind(m)' = "idle"
        /\ \A n \in Members : n # m => task'[n] = task[n]
    BY <1>3, Ends DEF SendSnapshot
  <2>3. ConsumerStep(m)
    BY <1>3, <2>1, <2>2 DEF SendSnapshot, TypeOK, ConsumerStep
  <2>4. room'[m] # "out"
    BY <1>3, <2>1 DEF SendSnapshot, TypeOK
  <2>5. QED
    BY <2>2, <2>3, <2>4, ConsumerTypes
<1>4. QED
  BY <1>1, <1>2, <1>3

(* A save of a value of the field, and what is in the rows after it. *)
Value(f, value) ==
  \/ f = "status" /\ value \in Statuses
  \/ f = "notes" /\ value = saves + 1

LEMMA SavedRows ==
  ASSUME TypeOK, NEW m \in Members, NEW i \in Items, NEW f \in Fields, NEW value,
         NEW next \in {"count_ok", "broadcast"},
         Value(f, value), Save(m, i, f, value, next)
  PROVE  /\ saves' = saves + 1 /\ saves' \in 1..MaxSaves
         /\ item' \in [Items -> Item] /\ item'[i][f] = value
         /\ saved' \in [Items -> [Fields -> 0..saves']] /\ saved'[i][f] = saves'
         /\ told' \in [Items -> [Fields -> BOOLEAN]] /\ ~told'[i][f]
         /\ \A j \in Items, g \in Fields :
              j # i \/ g # f =>
                /\ item'[j][g] = item[j][g]
                /\ saved'[j][g] = saved[j][g]
                /\ told'[j][g] = told[j][g]
<1>1. saves' = saves + 1 /\ saves' \in 1..MaxSaves /\ saves \in Nat
  BY BoundsAssumption DEF Save, TypeOK
<1>2. /\ item' \in [Items -> Item] /\ item'[i][f] = value
      /\ \A j \in Items, g \in Fields : j # i \/ g # f => item'[j][g] = item[j][g]
  <2>1. item' = [item EXCEPT ![i] = [item[i] EXCEPT ![f] = value]] /\ item \in [Items -> Item]
    BY DEF Save, TypeOK
  <2>2. CASE f = "status" /\ value \in Statuses
    <3>1. [item[i] EXCEPT ![f] = value] = [item[i] EXCEPT !.status = value]
      BY <2>2
    <3>2. QED
      BY <2>1, <2>2, <3>1 DEF Item, Fields
  <2>3. CASE f = "notes" /\ value = saves + 1
    <3>1. [item[i] EXCEPT ![f] = value] = [item[i] EXCEPT !.notes = value]
      BY <2>3
    <3>2. value \in 0..MaxSaves
      BY <1>1, <2>3
    <3>3. QED
      BY <2>1, <2>3, <3>1, <3>2 DEF Item, Fields
  <2>4. QED
    BY <2>2, <2>3 DEF Value
<1>3. /\ saved' \in [Items -> [Fields -> 0..saves']] /\ saved'[i][f] = saves'
      /\ \A j \in Items, g \in Fields : j # i \/ g # f => saved'[j][g] = saved[j][g]
  BY <1>1 DEF Save, TypeOK
<1>4. /\ told' \in [Items -> [Fields -> BOOLEAN]] /\ ~told'[i][f]
      /\ \A j \in Items, g \in Fields : j # i \/ g # f => told'[j][g] = told[j][g]
  BY DEF Save, TypeOK
<1>5. QED
  BY <1>1, <1>2, <1>3, <1>4

(* The values and the tasks of the two saves there are. *)
LEMMA SaveTask ==
  ASSUME TypeOK, NEW m \in Members, NEW i \in Items, NEW f \in Fields, NEW value,
         NEW next \in {"count_ok", "broadcast"},
         Value(f, value), Save(m, i, f, value, next)
  PROVE  /\ task' \in [Members -> Task \cup {Idle}]
         /\ Kind(m) = "idle" /\ Kind(m)' = next
         /\ task'[m].save = saves'
         /\ task'[m].event = [item |-> i, field |-> f, value |-> value]
         /\ \A n \in Members : n # m => task'[n] = task[n] /\ Kind(n)' = Kind(n)
         /\ [item |-> i, field |-> f, value |-> value] \in Event
<1> DEFINE e == [item |-> i, field |-> f, value |-> value]
<1> DEFINE t == [kind |-> next, save |-> saves + 1, event |-> e]
<1>1. saves + 1 \in 1..MaxSaves /\ saves' = saves + 1
  BY BoundsAssumption DEF Save, TypeOK
<1>2. e \in Event
  BY <1>1 DEF Value, Event
<1>3. t \in Task
  BY <1>1, <1>2 DEF Task
<1>4. Become(m, t) /\ task[m] = Idle
  BY DEF Save
<1>5. QED
  BY <1>1, <1>2, <1>3, <1>4, GoesOn DEF Kind

LEMMA SaveTypes ==
  ASSUME TypeOK, NEW m \in Members, NEW i \in Items, NEW f \in Fields, NEW value,
         NEW next \in {"count_ok", "broadcast"},
         Value(f, value), Save(m, i, f, value, next)
  PROVE  TypeOK'
<1>1. /\ saves' \in 0..MaxSaves /\ saves' = saves + 1
      /\ item' \in [Items -> Item]
      /\ saved' \in [Items -> [Fields -> 0..saves']]
      /\ told' \in [Items -> [Fields -> BOOLEAN]]
  BY SavedRows, BoundsAssumption DEF TypeOK
<1>2. /\ room[m] = "edit"
      /\ UNCHANGED <<counters, room, queue, missed, view>>
  BY DEF Save, MayEdit
<1>3. /\ task' \in [Members -> Task \cup {Idle}]
      /\ \A n \in Members : n # m => task'[n] = task[n] /\ Kind(n)' = Kind(n)
  BY SaveTask
<1>4. \A n \in Members :
        /\ Kind(n)' \notin {"idle", "snapshot", "show"} => room'[n] = "edit"
        /\ room'[n] = "out" => queue'[n] = <<>> /\ task'[n] = Idle /\ view'[n] = Nothing
  BY <1>2, <1>3 DEF TypeOK
<1>5. QED
  BY <1>1, <1>2, <1>3, <1>4 DEF TypeOK

(* The two counts, and the save of what was counted. *)
CountTask(m) ==
  IF Kind(m) = "count_ok"
  THEN [kind |-> "count_needs_attention", save |-> task[m].save,
        event |-> task[m].event, ok |-> WithStatus("ok")]
  ELSE [kind |-> "save", save |-> task[m].save, event |-> task[m].event,
        ok |-> task[m].ok, needs_attention |-> WithStatus("needs_attention")]

LEMMA Counts ==
  ASSUME TypeOK, NEW m \in Members, CountOk(m) \/ CountNeedsAttention(m)
  PROVE  /\ TypeOK' /\ ConsumerStep(m) /\ view' = view /\ room' = room
         /\ task'[m] = CountTask(m) /\ Kind(m)' = CountTask(m).kind
<1>1. Kind(m) \in {"count_ok", "count_needs_attention"}
  BY DEF CountOk, CountNeedsAttention
<1>2. room[m] = "edit"
  BY <1>1 DEF TypeOK
<1>3. CountTask(m) \in Task
  BY <1>1, Tasks, CountedRows DEF CountTask, Task, Working, Asking, Counting
<1>4. Become(m, CountTask(m)) /\ UNCHANGED <<database, told, room, queue, missed, view>>
  BY DEF CountOk, CountNeedsAttention, CountTask
<1> HIDE DEF CountTask
<1>5. PICK t \in Task : t = CountTask(m)
  BY <1>3
<1>6. /\ task' \in [Members -> Task \cup {Idle}]
      /\ task'[m] = t /\ Kind(m)' = t.kind
      /\ \A n \in Members : n # m => task'[n] = task[n]
  BY <1>4, <1>5, GoesOn
<1>7. ConsumerStep(m)
  BY <1>4, <1>6 DEF ConsumerStep, TypeOK
<1>8. room'[m] = "edit"
  BY <1>2, <1>4
<1>9. TypeOK'
  BY <1>7, <1>8, ConsumerTypes
<1>10. QED
  BY <1>4, <1>5, <1>6, <1>7, <1>9

LEMMA SaveCountersTypes ==
  ASSUME TypeOK, NEW m \in Members, SaveCounters(m)
  PROVE  /\ TypeOK' /\ Kind(m) = "save" /\ Kind(m)' = "broadcast"
         /\ task'[m].save = task[m].save /\ task'[m].event = task[m].event
         /\ \A n \in Members : n # m => task'[n] = task[n] /\ Kind(n)' = Kind(n)
<1> DEFINE t == [kind |-> "broadcast", save |-> task[m].save, event |-> task[m].event]
<1>1. Kind(m) = "save"
  BY DEF SaveCounters
<1>2. /\ task[m].save \in 1..MaxSaves /\ task[m].event \in Event
      /\ task[m].ok \in Counted /\ task[m].needs_attention \in Counted
  BY <1>1, Tasks DEF Working, Asking, Counting
<1>3. t \in Task
  BY <1>2 DEF Task
<1>4. /\ task' \in [Members -> Task \cup {Idle}]
      /\ task'[m] = t /\ Kind(m)' = "broadcast"
      /\ \A n \in Members : n # m => task'[n] = task[n] /\ Kind(n)' = Kind(n)
  BY <1>3, GoesOn DEF SaveCounters
<1>5. counters' \in Counters
  BY <1>2, ItemsCounted DEF SaveCounters, CountersOf, Counters, Counted
<1>6. room[m] = "edit"
  BY <1>1 DEF TypeOK
<1>7. \A n \in Members :
        /\ Kind(n)' \notin {"idle", "snapshot", "show"} => room'[n] = "edit"
        /\ room'[n] = "out" => queue'[n] = <<>> /\ task'[n] = Idle /\ view'[n] = Nothing
  BY <1>4, <1>6 DEF TypeOK, SaveCounters
<1>8. TypeOK'
  BY <1>4, <1>5, <1>7 DEF TypeOK, SaveCounters
<1>9. QED
  BY <1>1, <1>4, <1>8

LEMMA DisconnectTypes ==
  ASSUME IInv, NEW m \in Members, Disconnect(m)
  PROVE  /\ TypeOK' /\ room'[m] = "out" /\ Kind(m)' = "idle"
         /\ queue' \in [Members -> Seq(Event)]
         /\ \A n \in Members : n # m =>
              /\ task'[n] = task[n] /\ Kind(n)' = Kind(n)
              /\ room'[n] = room[n] /\ queue'[n] = queue[n]
              /\ missed'[n] = missed[n] /\ view'[n] = view[n]
<1>1. /\ task' \in [Members -> Task \cup {Idle}]
      /\ task'[m] = Idle /\ Kind(m)' = "idle"
      /\ \A n \in Members : n # m => task'[n] = task[n] /\ Kind(n)' = Kind(n)
  BY Ends DEF Disconnect, IInv
<1>2. UNCHANGED <<item, counters, saves, saved, told>>
  BY DEF Disconnect, database
<1>3. /\ room' \in [Members -> {"out", "read_only", "edit"}] /\ room'[m] = "out"
      /\ \A n \in Members : n # m => room'[n] = room[n]
  BY DEF Disconnect, TypeOK, IInv
<1>4. /\ missed' \in [Members -> BOOLEAN]
      /\ \A n \in Members : n # m => missed'[n] = missed[n]
  BY DEF Disconnect, TypeOK, IInv
<1>5. /\ view' \in [Members -> [Items -> Item] \cup {Nothing}] /\ view'[m] = Nothing
      /\ \A n \in Members : n # m => view'[n] = view[n]
  BY DEF Disconnect, TypeOK, IInv
<1>6. /\ queue' \in [Members -> Seq(Event)] /\ queue'[m] = <<>>
      /\ \A n \in Members : n # m => queue'[n] = queue[n]
  BY DEF Disconnect, IInv
<1>7. ASSUME NEW n \in Members
      PROVE  queue'[n] \in Seq(Event) /\ Len(queue'[n]) <= Capacity
  <2>1. CASE n = m
    BY <1>6, <2>1, BoundsAssumption, EmptySeq
  <2>2. CASE n # m
    BY <1>6, <2>2 DEF IInv, TypeOK
  <2>3. QED
    BY <2>1, <2>2
<1>8. \A n \in Members :
        /\ Kind(n)' \notin {"idle", "snapshot", "show"} => room'[n] = "edit"
        /\ room'[n] = "out" => queue'[n] = <<>> /\ task'[n] = Idle /\ view'[n] = Nothing
  BY <1>1, <1>3, <1>5, <1>6 DEF IInv, TypeOK
<1>9. TypeOK'
  BY <1>1, <1>2, <1>3, <1>4, <1>5, <1>7, <1>8 DEF IInv, TypeOK
<1>10. QED
  BY <1>1, <1>3, <1>4, <1>5, <1>6, <1>9

LEMMA BroadcastTypes ==
  ASSUME IInv, NEW m \in Members, Broadcast(m)
  PROVE  /\ TypeOK' /\ Kind(m) = "broadcast" /\ Kind(m)' = "idle"
         /\ queue' \in [Members -> Seq(Event)]
         /\ \A n \in Members : n # m => task'[n] = task[n] /\ Kind(n)' = Kind(n)
         /\ \A n \in Members : room[n] # "out" /\ ~missed'[n] =>
              ~missed[n] /\ queue'[n] = Append(queue[n], task[m].event)
         /\ LET e == task[m].event IN
              /\ e \in Event
              /\ told'[e.item][e.field] => task[m].save = saved[e.item][e.field]
              /\ \A i \in Items, f \in Fields :
                   i # e.item \/ f # e.field => told'[i][f] = told[i][f]
<1> DEFINE e == task[m].event
<1>1. Kind(m) = "broadcast"
  BY DEF Broadcast
<1>2. e \in Event /\ e.item \in Items /\ e.field \in Fields
  BY <1>1, Tasks, Events DEF IInv, Working, Asking
<1>3. /\ task' \in [Members -> Task \cup {Idle}]
      /\ task'[m] = Idle /\ Kind(m)' = "idle"
      /\ \A n \in Members : n # m => task'[n] = task[n] /\ Kind(n)' = Kind(n)
  BY Ends DEF Broadcast, IInv
<1>4. UNCHANGED <<item, counters, saves, saved, room, view>>
  BY DEF Broadcast, database
<1>5. /\ told' \in [Items -> [Fields -> BOOLEAN]]
      /\ told'[e.item][e.field] => task[m].save = saved[e.item][e.field]
      /\ \A i \in Items, f \in Fields :
           i # e.item \/ f # e.field => told'[i][f] = told[i][f]
  <2> DEFINE b == (task[m].save = saved[e.item][e.field])
  <2>1. told' = [told EXCEPT ![e.item] = [told[e.item] EXCEPT ![e.field] = b]]
    BY DEF Broadcast
  <2>2. told \in [Items -> [Fields -> BOOLEAN]] /\ b \in BOOLEAN
    BY DEF IInv, TypeOK
  <2> HIDE DEF e, b
  <2>3. /\ told' \in [Items -> [Fields -> BOOLEAN]]
        /\ told'[e.item][e.field] = b
        /\ \A i \in Items, f \in Fields :
             i # e.item \/ f # e.field => told'[i][f] = told[i][f]
    BY <1>2, <2>1, <2>2, Zenon
  <2>4. QED
    BY <2>3 DEF b
<1>6. ASSUME NEW n \in Members
      PROVE  /\ queue'[n] = IF InGroup(n) /\ Len(queue[n]) # Capacity
                            THEN Append(queue[n], e) ELSE queue[n]
             /\ queue'[n] \in Seq(Event) /\ Len(queue'[n]) <= Capacity
             /\ room[n] # "out" /\ ~missed'[n] => ~missed[n] /\ queue'[n] = Append(queue[n], e)
             /\ room[n] = "out" => queue'[n] = queue[n]
  <2>1. queue'[n] = IF InGroup(n) /\ Len(queue[n]) # Capacity
                    THEN Append(queue[n], e) ELSE queue[n]
    BY DEF Broadcast
  <2>2. missed'[n] = (missed[n] \/ (InGroup(n) /\ Len(queue[n]) = Capacity))
    BY DEF Broadcast
  <2>3. queue[n] \in Seq(Event) /\ Len(queue[n]) \in Nat /\ Len(queue[n]) <= Capacity
    BY LenProperties DEF IInv, TypeOK
  <2>4. Append(queue[n], e) \in Seq(Event) /\ Len(Append(queue[n], e)) = Len(queue[n]) + 1
    BY <1>2, <2>3, AppendProperties
  <2>5. room[n] # "out" <=> InGroup(n)
    BY DEF InGroup
  <2> HIDE DEF e
  <2>6. queue'[n] \in Seq(Event) /\ Len(queue'[n]) <= Capacity
    BY <2>1, <2>3, <2>4, BoundsAssumption
  <2>7. QED
    BY <2>1, <2>2, <2>5, <2>6, Zenon
<1>7. queue' \in [Members -> Seq(Event)]
  <2>1. queue' = [n \in Members |-> queue'[n]]
    BY DEF Broadcast
  <2>2. QED
    BY <1>6, <2>1
<1>8. missed' \in [Members -> BOOLEAN]
  BY DEF Broadcast, IInv, TypeOK
<1>9. \A n \in Members :
        /\ Kind(n)' \notin {"idle", "snapshot", "show"} => room'[n] = "edit"
        /\ room'[n] = "out" => queue'[n] = <<>> /\ task'[n] = Idle /\ view'[n] = Nothing
  BY <1>3, <1>4, <1>6 DEF IInv, TypeOK
<1>10. TypeOK'
  BY <1>3, <1>4, <1>5, <1>6, <1>8, <1>9 DEF IInv, TypeOK
<1>11. QED
  BY <1>1, <1>2, <1>3, <1>5, <1>6, <1>7, <1>10

LEMMA RoomEventTypes ==
  ASSUME IInv, NEW m \in Members, RoomEvent(m)
  PROVE  /\ TypeOK' /\ Kind(m) = "idle" /\ room[m] # "out"
         /\ queue' \in [Members -> Seq(Event)]
         /\ queue[m] \in Seq(Event) /\ queue[m] # <<>>
         /\ queue'[m] = Tail(queue[m]) /\ Head(queue[m]) \in Event
         /\ view'[m] \in [Items -> Item]
         /\ LET e == Head(queue[m]) IN
              \A i \in Items, f \in Fields :
                view'[m][i][f] = IF About(e, i, f) THEN e.value ELSE view[m][i][f]
         /\ \A n \in Members : n # m => queue'[n] = queue[n] /\ view'[n] = view[n]
<1> DEFINE e == Head(queue[m])
<1>1. task[m] = Idle /\ queue[m] # <<>> /\ room[m] # "out"
  BY DEF RoomEvent, IInv, TypeOK
<1>2. Kind(m) = "idle"
  BY <1>1 DEF Kind
<1>3. view[m] \in [Items -> Item]
  BY <1>1, <1>2 DEF IInv, Sound, Shown, Asking
<1>4. UNCHANGED <<item, counters, saves, saved, told, room, missed, task>>
  BY DEF RoomEvent, database
<1>5. /\ queue[m] \in Seq(Event) /\ e \in Event
      /\ Tail(queue[m]) \in Seq(Event) /\ Len(Tail(queue[m])) <= Capacity
  <2>1. queue[m] \in Seq(Event) /\ Len(queue[m]) \in Nat /\ Len(queue[m]) <= Capacity
    BY LenProperties DEF IInv, TypeOK
  <2>2. e \in Event /\ Tail(queue[m]) \in Seq(Event) /\ Len(Tail(queue[m])) = Len(queue[m]) - 1
    BY <1>1, <2>1, HeadTailProperties
  <2>3. QED
    BY <2>1, <2>2, BoundsAssumption
<1>6. /\ queue' \in [Members -> Seq(Event)] /\ queue'[m] = Tail(queue[m])
      /\ \A n \in Members : n # m => queue'[n] = queue[n]
  BY <1>5 DEF RoomEvent, IInv
<1>7. \A n \in Members : queue'[n] \in Seq(Event) /\ Len(queue'[n]) <= Capacity
  BY <1>5, <1>6 DEF IInv, TypeOK
<1>8. /\ view' = [view EXCEPT ![m] = [view[m] EXCEPT ![e.item] =
                                         [view[m][e.item] EXCEPT ![e.field] = e.value]]]
      /\ view \in [Members -> [Items -> Item] \cup {Nothing}]
  BY DEF RoomEvent, IInv, TypeOK
<1> HIDE DEF e
<1>9. PICK it : it = [view[m][e.item] EXCEPT ![e.field] = e.value]
  OBVIOUS
<1>10. /\ e.item \in Items /\ it \in Item
       /\ \A f \in Fields : it[f] = IF e.field = f THEN e.value ELSE view[m][e.item][f]
  <2>1. view[m][e.item] \in Item /\ e.item \in Items
    BY <1>3, <1>5, Events
  <2>2. CASE e.field = "status"
    BY <1>5, <1>9, <2>1, <2>2, Events DEF Item, Fields
  <2>3. CASE e.field = "notes"
    BY <1>5, <1>9, <2>1, <2>3, Events DEF Item, Fields
  <2>4. QED
    BY <1>5, <2>1, <2>2, <2>3, Events DEF Fields
<1>11. /\ view'[m] = [view[m] EXCEPT ![e.item] = it]
       /\ view'[m] \in [Items -> Item]
       /\ view' \in [Members -> [Items -> Item] \cup {Nothing}]
       /\ \A n \in Members : n # m => view'[n] = view[n]
  BY <1>3, <1>8, <1>9, <1>10
<1>12. \A i \in Items, f \in Fields :
         view'[m][i][f] = IF About(e, i, f) THEN e.value ELSE view[m][i][f]
  BY <1>3, <1>10, <1>11 DEF About
<1>13. \A n \in Members :
         /\ Kind(n)' \notin {"idle", "snapshot", "show"} => room'[n] = "edit"
         /\ room'[n] = "out" => queue'[n] = <<>> /\ task'[n] = Idle /\ view'[n] = Nothing
  BY <1>1, <1>4, <1>6, <1>11 DEF IInv, TypeOK, Kind
<1>14. TypeOK'
  BY <1>4, <1>7, <1>11, <1>13 DEF IInv, TypeOK
<1>15. QED
  BY <1>1, <1>2, <1>5, <1>6, <1>11, <1>12, <1>14 DEF e

----------------------------------------------------------------------------
(* The last event about a field, when an event comes and when one goes. *)
LEMMA AppendLast ==
  ASSUME NEW q \in Seq(Event), NEW e \in Event, NEW i, NEW f, NEW x
  PROVE  /\ About(e, i, f) /\ e.value = x =>
              LastBrings(Append(q, e), i, f, x) /\ ~NoneAbout(Append(q, e), i, f)
         /\ ~About(e, i, f) /\ LastBrings(q, i, f, x) => LastBrings(Append(q, e), i, f, x)
         /\ NoneAbout(Append(q, e), i, f) => NoneAbout(q, i, f)
<1> DEFINE a == Append(q, e)
<1>1. /\ Len(q) \in Nat /\ a \in Seq(Event) /\ Len(a) = Len(q) + 1
      /\ a[Len(q) + 1] = e
      /\ \A k \in 1..Len(q) : a[k] = q[k]
  BY AppendProperties, LenProperties
<1> HIDE DEF a
<1>2. ASSUME About(e, i, f), e.value = x
      PROVE  LastBrings(a, i, f, x) /\ ~NoneAbout(a, i, f)
  <2>1. ASSUME NEW k \in 1..Len(a), \A j \in (k + 1)..Len(a) : ~About(a[j], i, f)
        PROVE  a[k].value = x
    <3>1. k = Len(q) + 1
      BY <1>1, <1>2, <2>1
    <3>2. QED
      BY <1>1, <1>2, <3>1
  <2>2. QED
    BY <1>1, <1>2, <2>1 DEF LastBrings, NoneAbout
<1>3. ASSUME ~About(e, i, f), LastBrings(q, i, f, x)
      PROVE  LastBrings(a, i, f, x)
  <2>1. ASSUME NEW k \in 1..Len(a), About(a[k], i, f),
               \A j \in (k + 1)..Len(a) : ~About(a[j], i, f)
        PROVE  a[k].value = x
    <3>1. k \in 1..Len(q) /\ a[k] = q[k]
      BY <1>1, <1>3, <2>1
    <3>2. \A j \in (k + 1)..Len(q) : ~About(q[j], i, f)
      BY <1>1, <2>1, <3>1
    <3>3. QED
      BY <1>3, <2>1, <3>1, <3>2 DEF LastBrings
  <2>2. QED
    BY <2>1 DEF LastBrings
<1>4. ASSUME NoneAbout(a, i, f) PROVE NoneAbout(q, i, f)
  BY <1>1, <1>4 DEF NoneAbout
<1>5. QED
  BY <1>2, <1>3, <1>4 DEF a

LEMMA TailLast ==
  ASSUME NEW q \in Seq(Event), q # <<>>, NEW i, NEW f, NEW x, LastBrings(q, i, f, x)
  PROVE  /\ LastBrings(Tail(q), i, f, x)
         /\ NoneAbout(Tail(q), i, f) /\ ~About(Head(q), i, f) => NoneAbout(q, i, f)
         /\ NoneAbout(Tail(q), i, f) /\ About(Head(q), i, f) => Head(q).value = x
<1> DEFINE t == Tail(q)
<1>1. /\ Len(q) \in Nat \ {0} /\ Len(t) = Len(q) - 1 /\ Head(q) = q[1]
      /\ \A k \in 1..Len(t) : t[k] = q[k + 1]
  BY HeadTailProperties, LenProperties, EmptySeq
<1> HIDE DEF t
<1>2. LastBrings(t, i, f, x)
  <2>1. ASSUME NEW k \in 1..Len(t), About(t[k], i, f),
               \A j \in (k + 1)..Len(t) : ~About(t[j], i, f)
        PROVE  t[k].value = x
    <3>1. k + 1 \in 1..Len(q) /\ t[k] = q[k + 1]
      BY <1>1
    <3>2. ASSUME NEW j \in (k + 2)..Len(q) PROVE ~About(q[j], i, f)
      <4>1. j - 1 \in (k + 1)..Len(t) /\ t[j - 1] = q[j]
        BY <1>1
      <4>2. QED
        BY <2>1, <4>1
    <3>3. ((k + 1) + 1)..Len(q) = (k + 2)..Len(q)
      OBVIOUS
    <3>4. QED
      BY <2>1, <3>1, <3>2, <3>3 DEF LastBrings
  <2>2. QED
    BY <2>1 DEF LastBrings
<1>3. ASSUME NoneAbout(t, i, f), NEW k \in 2..Len(q) PROVE ~About(q[k], i, f)
  <2>1. k - 1 \in 1..Len(t) /\ t[k - 1] = q[k]
    BY <1>1
  <2>2. QED
    BY <1>3, <2>1 DEF NoneAbout
<1>4. ASSUME NoneAbout(t, i, f), ~About(Head(q), i, f) PROVE NoneAbout(q, i, f)
  BY <1>1, <1>3, <1>4 DEF NoneAbout
<1>5. ASSUME NoneAbout(t, i, f), About(Head(q), i, f) PROVE Head(q).value = x
  <2>1. \A k \in (1 + 1)..Len(q) : ~About(q[k], i, f)
    BY <1>3, <1>5
  <2>2. 1 \in 1..Len(q)
    BY <1>1
  <2>3. QED
    BY <1>1, <1>5, <2>1, <2>2 DEF LastBrings
<1>6. QED
  BY <1>2, <1>4, <1>5 DEF t

----------------------------------------------------------------------------
(* What holds of a consumer while no row changes and it does nothing. *)
LEMMA SoundKept ==
  ASSUME NEW n \in Members, Sound(n), UNCHANGED <<item, saved>>,
         task'[n] = task[n], room'[n] = room[n],
         view'[n] = view[n] \/ view'[n] \in [Items -> Item]
  PROVE  Sound(n)'
<1>1. /\ Kind(n)' = Kind(n)
      /\ \A s : WithStatus(s)' = WithStatus(s)
      /\ \A k : Untouched(k)' = Untouched(k)
  BY DEF Kind, WithStatus, Untouched
<1>2. PICK k : k = task[n].save
  OBVIOUS
<1>3. k = task'[n].save /\ Untouched(k)' = Untouched(k)
  BY <1>1, <1>2
<1>4. Shown(n)'
  BY <1>1 DEF Sound, Shown
<1>5. Written(n)'
  BY <1>1 DEF Sound, Written, Working
<1>6. CountsOk(n)' /\ CountsBad(n)'
  BY <1>1, <1>2, <1>3 DEF Sound, CountsOk, CountsBad, Untouched, WithStatus
<1>7. QED
  BY <1>4, <1>5, <1>6 DEF Sound

LEMMA FollowsKept ==
  ASSUME NEW n \in Members, NEW i \in Items, NEW f \in Fields, Follows(n, i, f),
         item'[i][f] = item[i][f], queue'[n] = queue[n], Base(n, i, f) => Base(n, i, f)'
  PROVE  Follows(n, i, f)'
<1>1. LastBrings(queue[n], i, f, item[i][f]) /\ (NoneAbout(queue[n], i, f) => Base(n, i, f))
  BY DEF Follows
<1>2. LastBrings(queue'[n], i, f, item'[i][f]) /\ (NoneAbout(queue'[n], i, f) => Base(n, i, f))
  BY <1>1
<1>3. QED
  BY <1>2 DEF Follows, LastBrings, NoneAbout, About

LEMMA BaseKept ==
  ASSUME NEW n \in Members, NEW i \in Items, NEW f \in Fields,
         item'[i][f] = item[i][f], task'[n] = task[n], view'[n] = view[n]
  PROVE  Base(n, i, f) => Base(n, i, f)'
BY DEF Base, Kind

(* The counters stay true while they and the rows stay. *)
LEMMA CountersKept ==
  ASSUME CountersTrue, UNCHANGED <<item, counters, saved>>
  PROVE  CountersTrue'
<1>1. \A s : WithStatus(s)' = WithStatus(s)
  BY DEF WithStatus
<1>2. QED
  BY <1>1 DEF CountersTrue

----------------------------------------------------------------------------
(* Connecting, and being shown the inspection. *)
LEMMA ExchangeStep ==
  ASSUME IInv, NEW m \in Members,
         \/ \E mode \in {"read_only", "edit"} : Connect(m, mode)
         \/ ReadSnapshot(m)
         \/ SendSnapshot(m)
  PROVE  IInv'
<1>1. TypeOK' /\ ConsumerStep(m)
  BY Exchange DEF IInv
<1>2. UNCHANGED <<item, counters, saves, saved, told, queue, missed>>
  BY <1>1 DEF ConsumerStep, database
<1>3. \/ /\ room[m] = "out" /\ queue[m] = <<>>
         /\ Kind(m)' = "snapshot"
      \/ /\ room[m] # "out" /\ room' = room /\ view' = view
         /\ Kind(m)' = "show" /\ task'[m].items = item
      \/ /\ room[m] # "out" /\ room' = room
         /\ Kind(m) = "show" /\ Kind(m)' = "idle"
         /\ view'[m] = task[m].items /\ task[m].items \in [Items -> Item]
  <2>1. ASSUME NEW mode \in {"read_only", "edit"}, Connect(m, mode)
        PROVE  room[m] = "out" /\ queue[m] = <<>> /\ Kind(m)' = "snapshot"
    <3>1. [kind |-> "snapshot"] \in Task
      BY DEF Task
    <3>2. QED
      BY <2>1, <3>1, GoesOn DEF Connect, IInv, TypeOK
  <2>2. ASSUME ReadSnapshot(m)
        PROVE  /\ room[m] # "out" /\ room' = room /\ view' = view
               /\ Kind(m)' = "show" /\ task'[m].items = item
    <3>1. [kind |-> "show", items |-> item] \in Task
      BY DEF Task, IInv, TypeOK
    <3>2. QED
      BY <2>2, <3>1, GoesOn DEF ReadSnapshot, IInv
  <2>3. ASSUME SendSnapshot(m)
        PROVE  /\ room[m] # "out" /\ room' = room
               /\ Kind(m) = "show" /\ Kind(m)' = "idle"
               /\ view'[m] = task[m].items /\ task[m].items \in [Items -> Item]
    <3>1. Kind(m) = "show" /\ task[m].items \in [Items -> Item] /\ task[m] # Idle
      BY <2>3, Tasks DEF SendSnapshot, IInv
    <3>2. QED
      BY <2>3, <3>1, Ends DEF SendSnapshot, IInv, TypeOK
  <2>4. QED
    BY <2>1, <2>2, <2>3
<1>4. ASSUME NEW n \in Members PROVE Sound(n)'
  <2>1. CASE n = m
    <3>1. Shown(m)'
      BY <1>3 DEF Shown, Asking
    <3>2. Written(m)' /\ CountsOk(m)' /\ CountsBad(m)'
      BY <1>3 DEF Written, CountsOk, CountsBad, Working, Asking, Counting
    <3>3. QED
      BY <2>1, <3>1, <3>2 DEF Sound
  <2>2. CASE n # m
    BY <1>1, <1>2, <2>2, SoundKept DEF ConsumerStep, IInv
  <2>3. QED
    BY <2>1, <2>2
<1>5. Followed'
  <2> SUFFICES ASSUME NEW n \in Members, NEW i \in Items, NEW f \in Fields,
                      room'[n] # "out", ~missed'[n], told'[i][f]
               PROVE  Follows(n, i, f)'
    BY DEF Followed
  <2>1. room[n] # "out" => Follows(n, i, f)
    BY <1>2 DEF Followed, IInv
  <2>2. CASE n # m
    <3>1. room[n] # "out" /\ view'[n] = view[n] /\ task'[n] = task[n]
      BY <1>1, <2>2 DEF ConsumerStep
    <3>2. QED
      BY <1>2, <2>1, <3>1, FollowsKept, BaseKept
  <2>3. CASE n = m
    <3>1. CASE room[m] = "out" /\ queue[m] = <<>> /\ Kind(m)' = "snapshot"
      <4>1. queue'[n] = <<>> /\ Base(n, i, f)'
        BY <1>2, <2>3, <3>1 DEF Base, Asking
      <4>2. QED
        BY <4>1 DEF Follows, LastBrings
    <3>2. CASE room[m] # "out" /\ Kind(m)' = "show" /\ task'[m].items = item
      <4>1. Base(n, i, f)'
        BY <1>2, <2>3, <3>2 DEF Base, Asking
      <4>2. QED
        BY <1>2, <2>1, <2>3, <3>2, <4>1, FollowsKept
    <3>3. CASE /\ room[m] # "out" /\ Kind(m) = "show" /\ Kind(m)' = "idle"
               /\ view'[m] = task[m].items
      <4>1. Base(n, i, f) => Base(n, i, f)'
        BY <1>2, <2>3, <3>3 DEF Base, Asking
      <4>2. QED
        BY <1>2, <2>1, <2>3, <3>3, <4>1, FollowsKept
    <3>4. QED
      BY <1>3, <3>1, <3>2, <3>3
  <2>4. QED
    BY <2>2, <2>3
<1>6. (counters.asof <= saves)' /\ CountersTrue'
  BY <1>2, CountersKept DEF IInv
<1>7. QED
  BY <1>1, <1>2, <1>4, <1>5, <1>6 DEF IInv

LEMMA DisconnectStep == ASSUME IInv, NEW m \in Members, Disconnect(m) PROVE IInv'
<1>1. UNCHANGED <<item, counters, saves, saved, told>>
  BY DEF Disconnect, database
<1>2. ASSUME NEW n \in Members PROVE Sound(n)'
  <2>1. CASE n = m
    BY <2>1, DisconnectTypes
    DEF Sound, Shown, Written, CountsOk, CountsBad, Working, Asking, Counting
  <2>2. CASE n # m
    BY <1>1, <2>2, DisconnectTypes, SoundKept DEF IInv
  <2>3. QED
    BY <2>1, <2>2
<1>3. Followed'
  <2> SUFFICES ASSUME NEW n \in Members, NEW i \in Items, NEW f \in Fields,
                      room'[n] # "out", ~missed'[n], told'[i][f]
               PROVE  Follows(n, i, f)'
    BY DEF Followed
  <2>1. n # m
    BY DisconnectTypes
  <2>2. Follows(n, i, f)
    BY <1>1, <2>1, DisconnectTypes DEF Followed, IInv
  <2>3. QED
    BY <1>1, <2>1, <2>2, DisconnectTypes, FollowsKept, BaseKept
<1>4. (counters.asof <= saves)' /\ CountersTrue'
  BY <1>1, CountersKept DEF IInv
<1>5. QED
  BY <1>2, <1>3, <1>4, DisconnectTypes DEF IInv

----------------------------------------------------------------------------
(* A save: the field's value is no longer one that was told, and whatever  *)
(* another consumer saved or counted before is older.                      *)
LEMMA SaveStep ==
  ASSUME IInv, NEW m \in Members, NEW i \in Items, NEW f \in Fields, NEW value,
         NEW next \in {"count_ok", "broadcast"},
         Value(f, value), Save(m, i, f, value, next)
  PROVE  IInv'
<1>1. TypeOK /\ TypeOK'
  BY SaveTypes DEF IInv
<1>2. UNCHANGED <<counters, room, queue, missed, view>>
  BY DEF Save
<1>3. /\ saves \in Nat /\ saves' = saves + 1
      /\ item'[i][f] = value /\ saved'[i][f] = saves' /\ ~told'[i][f]
      /\ \A j \in Items, g \in Fields :
           j # i \/ g # f =>
             item'[j][g] = item[j][g] /\ saved'[j][g] = saved[j][g] /\ told'[j][g] = told[j][g]
  BY <1>1, SavedRows DEF TypeOK
<1>4. /\ Kind(m) = "idle" /\ Kind(m)' = next
      /\ task'[m].save = saves'
      /\ task'[m].event = [item |-> i, field |-> f, value |-> value]
      /\ \A n \in Members : n # m => task'[n] = task[n] /\ Kind(n)' = Kind(n)
  BY <1>1, SaveTask
<1>5. \A j \in Items, g \in Fields : saved[j][g] \in Nat /\ saved[j][g] <= saves
  BY <1>1 DEF TypeOK
<1>6. \/ f = "status" /\ \A n \in Nat : n <= saves => ~Untouched(n)'
      \/ /\ f = "notes" /\ \A s : WithStatus(s)' = WithStatus(s)
         /\ \A j \in Items : saved'[j]["status"] = saved[j]["status"]
  <2>1. CASE f = "status"
    BY <1>3, <2>1 DEF Untouched
  <2>2. CASE f = "notes"
    <3>1. \A j \in Items : item'[j].status = item[j].status
      BY <1>3, <2>2 DEF Fields
    <3>2. \A s : {j \in Items : item'[j].status = s} = {j \in Items : item[j].status = s}
      BY <3>1
    <3>3. \A j \in Items : saved'[j]["status"] = saved[j]["status"]
      BY <1>3, <2>2 DEF Fields
    <3>4. QED
      BY <2>2, <3>2, <3>3 DEF WithStatus
  <2>3. QED
    BY <2>1, <2>2 DEF Fields
<1>7. ASSUME NEW n \in Members PROVE Sound(n)'
  <2>1. Sound(n)
    BY DEF IInv
  <2>2. CASE n = m
    <3>1. Shown(m)'
      BY <1>2, <1>4, <2>1, <2>2 DEF Sound, Shown, Asking
    <3>2. Written(m)'
      BY <1>3, <1>4 DEF Written
    <3>3. CountsOk(m)' /\ CountsBad(m)'
      BY <1>4 DEF CountsOk, CountsBad, Counting
    <3>4. QED
      BY <2>2, <3>1, <3>2, <3>3 DEF Sound
  <2>3. CASE n # m
    <3>1. task'[n] = task[n] /\ Kind(n)' = Kind(n)
      BY <1>4, <2>3
    <3>2. Shown(n)'
      BY <1>2, <2>1, <3>1 DEF Sound, Shown
    <3>3. ASSUME Working(n)
          PROVE  /\ task[n].save \in Nat
                 /\ task[n].event.item \in Items /\ task[n].event.field \in Fields
                 /\ task[n].save <= saved[task[n].event.item][task[n].event.field]
                 /\ task[n].save <= saves
      <4>1. /\ task[n].save \in Nat
            /\ task[n].event.item \in Items /\ task[n].event.field \in Fields
        BY <1>1, <3>3, Tasks, Events
      <4>2. task[n].save <= saved[task[n].event.item][task[n].event.field]
        BY <2>1, <3>3 DEF Sound, Written
      <4>3. QED
        BY <1>3, <1>5, <4>1, <4>2
    <3>4. Written(n)'
      <4> SUFFICES ASSUME Working(n)
                   PROVE  LET e == task[n].event IN
                            /\ task[n].save <= saved'[e.item][e.field]
                            /\ task[n].save = saved'[e.item][e.field] =>
                                 item'[e.item][e.field] = e.value
        BY <3>1 DEF Written, Working
      <4> DEFINE e == task[n].event
      <4>1. CASE e.item = i /\ e.field = f
        BY <1>3, <3>3, <4>1
      <4>2. CASE e.item # i \/ e.field # f
        <5>1. /\ item'[e.item][e.field] = item[e.item][e.field]
              /\ saved'[e.item][e.field] = saved[e.item][e.field]
          BY <1>3, <3>3, <4>2
        <5>2. QED
          BY <2>1, <5>1 DEF Sound, Written
      <4>3. QED
        BY <4>1, <4>2
    <3>5. ASSUME Kind(n) \in Counting, Untouched(task[n].save)'
          PROVE  Untouched(task[n].save) /\ \A s : WithStatus(s)' = WithStatus(s)
      <4>1. task[n].save \in Nat /\ task[n].save <= saves
        BY <3>3, <3>5 DEF Working, Asking, Counting
      <4>2. PICK k : k = task[n].save
        OBVIOUS
      <4>3. k = task'[n].save /\ k \in Nat /\ k <= saves
        BY <3>1, <4>1, <4>2
      <4>4. Untouched(k)'
        BY <3>5, <4>3 DEF Untouched
      <4>5. f = "notes" /\ Untouched(k) /\ \A s : WithStatus(s)' = WithStatus(s)
        BY <1>6, <4>3, <4>4 DEF Untouched
      <4>6. QED
        BY <4>2, <4>5
    <3>6. CountsOk(n)' /\ CountsBad(n)'
      <4>1. CountsOk(n) /\ CountsBad(n)
        BY <2>1 DEF Sound
      <4>2. CountsOk(n)'
        BY <3>1, <3>5, <4>1 DEF CountsOk
      <4>3. CountsBad(n)'
        BY <3>1, <3>5, <4>1 DEF CountsBad, Counting
      <4>4. QED
        BY <4>2, <4>3
    <3>7. QED
      BY <3>2, <3>4, <3>6 DEF Sound
  <2>4. QED
    BY <2>2, <2>3
<1>8. Followed'
  <2> SUFFICES ASSUME NEW n \in Members, NEW j \in Items, NEW g \in Fields,
                      room'[n] # "out", ~missed'[n], told'[j][g]
               PROVE  Follows(n, j, g)'
    BY DEF Followed
  <2>1. item'[j][g] = item[j][g] /\ told[j][g]
    BY <1>3
  <2>2. Follows(n, j, g)
    BY <1>2, <2>1 DEF IInv, Followed
  <2>3. Base(n, j, g) => Base(n, j, g)'
    <3>1. CASE n = m
      BY <1>2, <1>4, <2>1, <3>1 DEF Base, Asking
    <3>2. CASE n # m
      BY <1>2, <1>4, <2>1, <3>2, BaseKept
    <3>3. QED
      BY <3>1, <3>2
  <2>4. QED
    BY <1>2, <2>1, <2>2, <2>3, FollowsKept
<1>9. CountersTrue'
  <2>1. counters.asof \in Nat /\ counters.asof <= saves
    BY <1>1 DEF IInv, TypeOK, Counters
  <2>2. CASE f = "status"
    BY <1>2, <1>3, <2>1, <2>2 DEF CountersTrue
  <2>3. CASE /\ \A s : WithStatus(s)' = WithStatus(s)
             /\ \A j \in Items : saved'[j]["status"] = saved[j]["status"]
    BY <1>2, <2>3 DEF CountersTrue, IInv
  <2>4. QED
    BY <1>6, <2>2, <2>3
<1>10. (counters.asof <= saves)'
  <2>1. counters.asof \in Nat
    BY <1>1 DEF TypeOK, Counters
  <2>2. QED
    BY <1>2, <1>3, <2>1 DEF IInv
<1>11. queue' \in [Members -> Seq(Event)]
  BY <1>2 DEF IInv
<1>12. QED
  BY <1>1, <1>7, <1>8, <1>9, <1>10, <1>11 DEF IInv

----------------------------------------------------------------------------
(* The counts after a save, and the counters written from them. *)
LEMMA CountStep ==
  ASSUME IInv, NEW m \in Members, CountOk(m) \/ CountNeedsAttention(m)
  PROVE  IInv'
<1>1. /\ TypeOK' /\ ConsumerStep(m) /\ view' = view /\ room' = room
      /\ task'[m] = CountTask(m) /\ Kind(m)' = CountTask(m).kind
  BY Counts DEF IInv
<1>2. UNCHANGED <<item, counters, saves, saved, told, queue, missed>>
  BY <1>1 DEF ConsumerStep, database
<1>3. Kind(m) \in {"count_ok", "count_needs_attention"}
  BY DEF CountOk, CountNeedsAttention
<1>4. /\ Kind(m)' \in Counting
      /\ task'[m].save = task[m].save /\ task'[m].event = task[m].event
      /\ Kind(m) = "count_ok" =>
           Kind(m)' = "count_needs_attention" /\ task'[m].ok = WithStatus("ok")
      /\ Kind(m) = "count_needs_attention" =>
           /\ Kind(m)' = "save" /\ task'[m].ok = task[m].ok
           /\ task'[m].needs_attention = WithStatus("needs_attention")
  BY <1>1, <1>3 DEF CountTask, Counting
<1>5. /\ \A s : WithStatus(s)' = WithStatus(s)
      /\ \A k : Untouched(k)' = Untouched(k)
  BY <1>2 DEF WithStatus, Untouched
<1>6. ASSUME NEW n \in Members PROVE Sound(n)'
  <2>1. CASE n = m
    <3>1. Sound(m)
      BY DEF IInv
    <3>2. Shown(m)'
      BY <1>1, <1>3, <3>1 DEF Sound, Shown, Asking
    <3>3. Written(m)'
      BY <1>2, <1>3, <1>4, <3>1 DEF Sound, Written, Working, Asking
    <3>4. PICK k : k = task[m].save
      OBVIOUS
    <3>5. k = task'[m].save /\ Untouched(k)' = Untouched(k)
      BY <1>4, <1>5, <3>4
    <3>6. CountsOk(m)'
      <4>1. CASE Kind(m) = "count_ok"
        BY <1>4, <1>5, <4>1 DEF CountsOk
      <4>2. CASE Kind(m) = "count_needs_attention"
        BY <1>4, <1>5, <3>1, <3>4, <3>5, <4>2 DEF Sound, CountsOk, Untouched, Counting
      <4>3. QED
        BY <1>3, <4>1, <4>2
    <3>7. CountsBad(m)'
      BY <1>3, <1>4, <1>5 DEF CountsBad
    <3>8. QED
      BY <2>1, <3>2, <3>3, <3>6, <3>7 DEF Sound
  <2>2. CASE n # m
    BY <1>1, <1>2, <2>2, SoundKept DEF ConsumerStep, IInv
  <2>3. QED
    BY <2>1, <2>2
<1>7. Followed'
  <2> SUFFICES ASSUME NEW n \in Members, NEW i \in Items, NEW f \in Fields,
                      room'[n] # "out", ~missed'[n], told'[i][f]
               PROVE  Follows(n, i, f)'
    BY DEF Followed
  <2>1. Follows(n, i, f)
    BY <1>1, <1>2 DEF Followed, IInv
  <2>2. Base(n, i, f) => Base(n, i, f)'
    <3>1. CASE n = m
      BY <1>1, <1>2, <1>3, <1>4, <3>1 DEF Base, Asking, Counting
    <3>2. CASE n # m
      BY <1>1, <1>2, <3>2, BaseKept DEF ConsumerStep
    <3>3. QED
      BY <3>1, <3>2
  <2>3. QED
    BY <1>2, <2>1, <2>2, FollowsKept
<1>8. (counters.asof <= saves)' /\ CountersTrue'
  BY <1>2, CountersKept DEF IInv
<1>9. QED
  BY <1>1, <1>2, <1>6, <1>7, <1>8 DEF IInv

LEMMA SaveCountersStep == ASSUME IInv, NEW m \in Members, SaveCounters(m) PROVE IInv'
<1>1. /\ TypeOK' /\ Kind(m) = "save" /\ Kind(m)' = "broadcast"
      /\ task'[m].save = task[m].save /\ task'[m].event = task[m].event
      /\ \A n \in Members : n # m => task'[n] = task[n] /\ Kind(n)' = Kind(n)
  BY SaveCountersTypes DEF IInv
<1>2. /\ UNCHANGED <<item, saves, saved, told, room, queue, missed, view>>
      /\ counters' = CountersOf(m)
  BY DEF SaveCounters
<1>3. \A s : WithStatus(s)' = WithStatus(s)
  BY <1>2 DEF WithStatus
<1>4. Sound(m)
  BY DEF IInv
<1>5. ASSUME NEW n \in Members PROVE Sound(n)'
  <2>1. CASE n = m
    <3>1. Shown(m)'
      BY <1>1, <1>2, <1>4 DEF Sound, Shown, Asking
    <3>2. Written(m)'
      BY <1>1, <1>2, <1>4 DEF Sound, Written, Working, Asking
    <3>3. CountsOk(m)' /\ CountsBad(m)'
      BY <1>1 DEF CountsOk, CountsBad, Counting
    <3>4. QED
      BY <2>1, <3>1, <3>2, <3>3 DEF Sound
  <2>2. CASE n # m
    BY <1>1, <1>2, <2>2, SoundKept DEF IInv
  <2>3. QED
    BY <2>1, <2>2
<1>6. Followed'
  <2> SUFFICES ASSUME NEW n \in Members, NEW i \in Items, NEW f \in Fields,
                      room'[n] # "out", ~missed'[n], told'[i][f]
               PROVE  Follows(n, i, f)'
    BY DEF Followed
  <2>1. Follows(n, i, f)
    BY <1>2 DEF Followed, IInv
  <2>2. Base(n, i, f) => Base(n, i, f)'
    <3>1. CASE n = m
      BY <1>1, <1>2, <3>1 DEF Base, Asking
    <3>2. CASE n # m
      BY <1>1, <1>2, <3>2, BaseKept
    <3>3. QED
      BY <3>1, <3>2
  <2>3. QED
    BY <1>2, <2>1, <2>2, FollowsKept
<1>7. (counters.asof <= saves)'
  <2>1. /\ task[m].save \in Nat /\ task[m].event.item \in Items
        /\ task[m].event.field \in Fields
    BY <1>1, Tasks, Events DEF IInv, Working, Asking
  <2>2. task[m].save <= saved[task[m].event.item][task[m].event.field]
    BY <1>1, <1>4 DEF Sound, Written, Working, Asking
  <2>3. /\ saved[task[m].event.item][task[m].event.field] \in Nat
        /\ saved[task[m].event.item][task[m].event.field] <= saves /\ saves \in Nat
    BY <2>1 DEF IInv, TypeOK
  <2>4. task[m].save <= saves
    BY <2>1, <2>2, <2>3
  <2>5. QED
    BY <1>2, <2>4 DEF CountersOf
<1>8. CountersTrue'
  <2>1. /\ counters'.total = Cardinality(Items) /\ counters'.ok = task[m].ok
        /\ counters'.needs_attention = task[m].needs_attention
        /\ counters'.asof = task[m].save
    BY <1>2 DEF CountersOf
  <2>2. /\ Untouched(task[m].save) => task[m].ok = WithStatus("ok")
        /\ Untouched(task[m].save) => task[m].needs_attention = WithStatus("needs_attention")
    BY <1>1, <1>4 DEF Sound, CountsOk, CountsBad, Counting
  <2>3. QED
    BY <1>2, <1>3, <2>1, <2>2 DEF CountersTrue, Untouched
<1>9. QED
  BY <1>1, <1>2, <1>5, <1>6, <1>7, <1>8 DEF IInv

----------------------------------------------------------------------------
(* An event goes to everyone in the room whose channel takes it: it brings *)
(* what is stored if it tells of the field's last save.                    *)
LEMMA BroadcastStep == ASSUME IInv, NEW m \in Members, Broadcast(m) PROVE IInv'
<1>1. PICK e : e = task[m].event
  OBVIOUS
<1>2. /\ TypeOK' /\ Kind(m) = "broadcast" /\ Kind(m)' = "idle"
      /\ queue' \in [Members -> Seq(Event)]
      /\ \A n \in Members : n # m => task'[n] = task[n] /\ Kind(n)' = Kind(n)
      /\ \A n \in Members : room[n] # "out" /\ ~missed'[n] =>
           ~missed[n] /\ queue'[n] = Append(queue[n], e)
      /\ e \in Event
      /\ told'[e.item][e.field] => task[m].save = saved[e.item][e.field]
      /\ \A i \in Items, f \in Fields :
           i # e.item \/ f # e.field => told'[i][f] = told[i][f]
  BY <1>1, BroadcastTypes
<1>3. UNCHANGED <<item, counters, saves, saved, room, view>>
  BY DEF Broadcast, database
<1>4. Sound(m)
  BY DEF IInv
<1>5. ASSUME NEW n \in Members PROVE Sound(n)'
  <2>1. CASE n = m
    <3>1. Shown(m)'
      BY <1>2, <1>3, <1>4 DEF Sound, Shown, Asking
    <3>2. Written(m)' /\ CountsOk(m)' /\ CountsBad(m)'
      BY <1>2 DEF Written, CountsOk, CountsBad, Working, Asking, Counting
    <3>3. QED
      BY <2>1, <3>1, <3>2 DEF Sound
  <2>2. CASE n # m
    BY <1>2, <1>3, <2>2, SoundKept DEF IInv
  <2>3. QED
    BY <2>1, <2>2
<1>6. Followed'
  <2> SUFFICES ASSUME NEW n \in Members, NEW i \in Items, NEW f \in Fields,
                      room'[n] # "out", ~missed'[n], told'[i][f]
               PROVE  Follows(n, i, f)'
    BY DEF Followed
  <2> DEFINE x == item[i][f]
  <2>1. /\ queue[n] \in Seq(Event) /\ room[n] # "out" /\ ~missed[n]
        /\ queue'[n] = Append(queue[n], e) /\ x = item'[i][f]
    BY <1>2, <1>3 DEF IInv
  <2>2. CASE About(e, i, f)
    <3>1. e.value = x
      BY <1>1, <1>2, <1>4, <2>2 DEF About, Sound, Written, Working, Asking
    <3>2. LastBrings(queue'[n], i, f, x) /\ ~NoneAbout(queue'[n], i, f)
      BY <1>2, <2>1, <2>2, <3>1, AppendLast
    <3>3. QED
      BY <2>1, <3>2 DEF Follows
  <2>3. CASE ~About(e, i, f)
    <3>1. told[i][f]
      BY <1>2, <2>3 DEF About
    <3>2. LastBrings(queue[n], i, f, x) /\ (NoneAbout(queue[n], i, f) => Base(n, i, f))
      BY <2>1, <3>1 DEF IInv, Followed, Follows
    <3> HIDE DEF x
    <3>3. /\ LastBrings(queue'[n], i, f, x)
          /\ NoneAbout(queue'[n], i, f) => NoneAbout(queue[n], i, f)
      BY <1>2, <2>1, <2>3, <3>2, AppendLast
    <3>4. Base(n, i, f) => Base(n, i, f)'
      <4>1. CASE n = m
        BY <1>2, <1>3, <4>1 DEF Base, Asking
      <4>2. CASE n # m
        BY <1>2, <1>3, <4>2, BaseKept
      <4>3. QED
        BY <4>1, <4>2
    <3>5. LastBrings(queue'[n], i, f, item'[i][f])
      BY <2>1, <3>3
    <3>6. NoneAbout(queue'[n], i, f) => Base(n, i, f)'
      BY <3>2, <3>3, <3>4
    <3>7. QED
      BY <3>5, <3>6 DEF Follows
  <2>4. QED
    BY <2>2, <2>3
<1>7. (counters.asof <= saves)' /\ CountersTrue'
  BY <1>3, CountersKept DEF IInv
<1>8. QED
  BY <1>2, <1>5, <1>6, <1>7 DEF IInv

LEMMA RoomEventStep == ASSUME IInv, NEW m \in Members, RoomEvent(m) PROVE IInv'
<1>1. PICK q : q = queue[m]
  OBVIOUS
<1>2. PICK e : e = Head(q)
  OBVIOUS
<1>3. /\ TypeOK' /\ Kind(m) = "idle" /\ room[m] # "out"
      /\ queue' \in [Members -> Seq(Event)]
      /\ q \in Seq(Event) /\ q # <<>> /\ queue'[m] = Tail(q)
      /\ view'[m] \in [Items -> Item]
      /\ \A i \in Items, f \in Fields :
           view'[m][i][f] = IF About(e, i, f) THEN e.value ELSE view[m][i][f]
      /\ \A n \in Members : n # m => queue'[n] = queue[n] /\ view'[n] = view[n]
  BY <1>1, <1>2, RoomEventTypes
<1>4. UNCHANGED <<item, counters, saves, saved, told, room, missed, task>>
  BY DEF RoomEvent, database
<1>5. Kind(m)' = "idle"
  BY <1>3, <1>4 DEF Kind
<1>6. ASSUME NEW n \in Members PROVE Sound(n)'
  BY <1>3, <1>4, SoundKept DEF IInv
<1>7. Followed'
  <2> SUFFICES ASSUME NEW n \in Members, NEW i \in Items, NEW f \in Fields,
                      room'[n] # "out", ~missed'[n], told'[i][f]
               PROVE  Follows(n, i, f)'
    BY DEF Followed
  <2> DEFINE x == item[i][f]
  <2>1. Follows(n, i, f) /\ x = item'[i][f]
    BY <1>4 DEF Followed, IInv
  <2>2. CASE n = m
    <3>1. LastBrings(q, i, f, x) /\ (NoneAbout(q, i, f) => Base(m, i, f))
      BY <1>1, <2>1, <2>2 DEF Follows
    <3>2. NoneAbout(q, i, f) => view[m][i][f] = x
      BY <1>3, <3>1 DEF Base, Asking
    <3> HIDE DEF x
    <3>3. /\ LastBrings(Tail(q), i, f, x)
          /\ NoneAbout(Tail(q), i, f) /\ ~About(e, i, f) => NoneAbout(q, i, f)
          /\ NoneAbout(Tail(q), i, f) /\ About(e, i, f) => e.value = x
      BY <1>2, <1>3, <3>1, TailLast
    <3>4. NoneAbout(Tail(q), i, f) => view'[m][i][f] = x
      BY <1>3, <3>2, <3>3
    <3>5. LastBrings(queue'[m], i, f, item'[i][f])
      BY <1>3, <2>1, <3>3
    <3>6. NoneAbout(queue'[m], i, f) => Base(m, i, f)'
      BY <1>3, <1>5, <2>1, <3>4 DEF Base, Asking
    <3>7. QED
      BY <2>2, <3>5, <3>6 DEF Follows
  <2>3. CASE n # m
    BY <1>3, <1>4, <2>1, <2>3, FollowsKept, BaseKept
  <2>4. QED
    BY <2>2, <2>3
<1>8. (counters.asof <= saves)' /\ CountersTrue'
  BY <1>4, CountersKept DEF IInv
<1>9. QED
  BY <1>3, <1>6, <1>7, <1>8 DEF IInv

----------------------------------------------------------------------------
LEMMA Inductive == ASSUME IInv, [Next]_vars PROVE IInv'
<1>1. ASSUME NEW m \in Members,
             \/ \E mode \in {"read_only", "edit"} : Connect(m, mode)
             \/ ReadSnapshot(m) \/ SendSnapshot(m) \/ Disconnect(m)
      PROVE  IInv'
  BY <1>1, ExchangeStep, DisconnectStep
<1>2. ASSUME NEW m \in Members, NEW i \in Items, NEW s \in Statuses, SetStatus(m, i, s)
      PROVE  IInv'
  BY <1>2, SaveStep DEF SetStatus, Value, Fields
<1>3. ASSUME NEW m \in Members, NEW i \in Items, SetNote(m, i) PROVE IInv'
  BY <1>3, SaveStep DEF SetNote, Value, Fields
<1>4. ASSUME NEW m \in Members,
             \/ CountOk(m) \/ CountNeedsAttention(m) \/ SaveCounters(m)
             \/ Broadcast(m) \/ RoomEvent(m)
      PROVE  IInv'
  BY <1>4, CountStep, SaveCountersStep, BroadcastStep, RoomEventStep
<1>5. CASE UNCHANGED vars
  <2>1. UNCHANGED <<item, counters, saves, saved, told, room, queue, missed, view, task>>
    BY <1>5 DEF vars, database
  <2>2. TypeOK'
    BY <2>1 DEF IInv, TypeOK, Kind
  <2>3. \A n \in Members : Sound(n)'
    BY <2>1, SoundKept DEF IInv
  <2>4. Followed'
    <3> SUFFICES ASSUME NEW n \in Members, NEW i \in Items, NEW f \in Fields,
                        room'[n] # "out", ~missed'[n], told'[i][f]
                 PROVE  Follows(n, i, f)'
      BY DEF Followed
    <3>1. Follows(n, i, f)
      BY <2>1 DEF Followed, IInv
    <3>2. QED
      BY <2>1, <3>1, FollowsKept, BaseKept
  <2>5. (counters.asof <= saves)' /\ CountersTrue'
    BY <2>1, CountersKept DEF IInv
  <2>6. QED
    BY <2>1, <2>2, <2>3, <2>4, <2>5 DEF IInv
<1>6. QED
  BY <1>1, <1>2, <1>3, <1>4, <1>5 DEF Next

(* The inductive invariant holds in every state. *)
THEOREM IInvHolds == Spec => []IInv
<1>1. IInv /\ [Next]_vars => IInv'
  BY Inductive
<1>2. QED
  BY InitIInv, <1>1, PTL DEF Spec

(* Every row, channel and task has its type; only an editor is ever in a   *)
(* save; and a consumer that is out holds nothing (Disconnect).            *)
THEOREM TypeCorrect == Spec => []TypeOK
<1>1. IInv => TypeOK
  BY DEF IInv
<1>2. QED
  BY <1>1, IInvHolds, PTL

(* The counters of the inspection are those of its items whenever the      *)
(* request that wrote them is the one that set a status last, however many *)
(* requests overlapped before it or died midway (db_item_status_set).      *)
THEOREM CountersAreTrue == Spec => []CountersTrue
<1>1. IInv => CountersTrue
  BY DEF IInv
<1>2. QED
  BY <1>1, IInvHolds, PTL

(* Whoever has handled every event shows what is stored in each field whose *)
(* last save was the last to be broadcast, if the channel refused nothing:  *)
(* joining the group before the snapshot is read loses nothing (connect),   *)
(* at any capacity of the channels (group_send).                            *)
THEOREM SettledViews == Spec => []SettledView
<1>1. ASSUME IInv PROVE SettledView
  <2> SUFFICES ASSUME NEW m \in Members, NEW i \in Items, NEW f \in Fields,
                      room[m] # "out", task[m] = Idle, queue[m] = <<>>, ~missed[m], told[i][f]
               PROVE  view[m][i][f] = item[i][f]
    BY DEF SettledView
  <2>1. Follows(m, i, f) /\ NoneAbout(queue[m], i, f)
    BY <1>1, EmptySeq DEF IInv, Followed, NoneAbout
  <2>2. Base(m, i, f) /\ Kind(m) = "idle"
    BY <2>1 DEF Follows, Kind
  <2>3. QED
    BY <2>2 DEF Base, Asking
<1>2. QED
  BY <1>1, IInvHolds, PTL

----------------------------------------------------------------------------
(* The notifications of a dealership, in the sends and requests of its own *)
(* module. *)
CONSTANTS Users, Senders, Requests, Calls, Patches, NoNote
VARIABLES prefs, note, send, req, connected, heard, wish, contested, leave
Notices == INSTANCE Notifications WITH told <- heard

(* The stages of a call and of a request, with what each holds. *)
RowNames == {"in_app", "websocket", "email", "push"}
NoticeRows == UNION {[cs -> Notices!Status] : cs \in SUBSET RowNames}
Sending ==
  [kind : {"new", "died"}]
    \cup [kind : {"between"}, call : Calls, todo : SUBSET Users]
    \cup [kind : {"create"}, call : Calls, todo : SUBSET Users, to : Users]
    \cup [kind : {"dispatch"}, call : Calls, todo : SUBSET Users, to : Users, rows : NoticeRows]
Settling ==
  [kind : {"new", "not_found", "end"}]
    \cup [kind : {"mark"}, note : Notices!Notes, asked : BOOLEAN]
    \cup [kind : {"marked_all"}, rows : SUBSET Notices!Notes]
    \cup [kind : {"patch"}, user : Users, patch : Patches,
          copy : Notices!NotificationPreference, overlaps : BOOLEAN]

(* The channels that rows are sent through, and what is true of no row. *)
Carried(rows) == {c \in Notices!Channels \cap DOMAIN rows : rows[c] # "skipped"}
Unmailed(rows) == "email" \in DOMAIN rows => rows["email"] # "sent"

There(n) == note[n] # NoNote

(* A call has made no notification for whom it has still to serve; the one *)
(* it is making is not there yet; and a channel that is open now counts as *)
(* open during the send, so that the rows made now carry nothing else.     *)
Sends(s) ==
  LET x == send[s] IN
  /\ x.kind = "new" => \A u \in Users : ~There(<<s, u>>)
  /\ x.kind \in {"between", "create", "dispatch"} => \A u \in x.todo : ~There(<<s, u>>)
  /\ x.kind \in {"create", "dispatch"} =>
       /\ x.to \notin x.todo /\ ~There(<<s, x.to>>)
       /\ Notices!Open(x.to, wish, contested) \subseteq leave[<<s, x.to>>]
       /\ "in_app" \in leave[<<s, x.to>>]
  /\ x.kind = "dispatch" => Carried(x.rows) \subseteq leave[<<s, x.to>>] /\ Unmailed(x.rows)

(* A request that marks has a row to mark, and one that patches holds the  *)
(* row as it is stored, unless another one is under way for it.            *)
Settles(r) ==
  LET x == req[r] IN
  /\ x.kind = "mark" => There(x.note)
  /\ x.kind = "marked_all" => \A n \in x.rows : There(n)
  /\ x.kind = "patch" /\ ~x.overlaps =>
       /\ x.copy = prefs[x.user]
       /\ \A q \in Requests \ {r} : req[q].kind = "patch" => req[q].user # x.user

NoticeTypes ==
  /\ prefs \in [Users -> Notices!NotificationPreference]
  /\ wish \in [Users -> Notices!NotificationPreference]
  /\ contested \in [Users -> SUBSET Notices!Channels]
  /\ leave \in [Notices!Notes -> SUBSET Notices!Channels]
  /\ connected \in [Users -> BOOLEAN]
  /\ heard \in [Users -> SUBSET Notices!Notes]
  /\ note \in [Notices!Notes -> Notices!Notification \cup {NoNote}]
  /\ send \in [Senders -> Sending]
  /\ req \in [Requests -> Settling]

(* The settings say no more than was asked for, but where requests met. *)
Agreed == \A u \in Users : \A c \in Notices!Channels :
            prefs[u][c] => c \in Notices!Open(u, wish, contested)

(* What there is went only through channels that were open. *)
Kept == \A n \in Notices!Notes :
          There(n) => Carried(note[n].deliveries) \subseteq leave[n]
                      /\ Unmailed(note[n].deliveries)

Heard ==
  \A u \in Users : \A n \in heard[u] :
    /\ n[2] = u
    /\ \/ There(n)
       \/ send[n[1]].kind = "died"
       \/ send[n[1]].kind = "dispatch" /\ send[n[1]].to = u

NoticeInv ==
  /\ NoticeTypes /\ Agreed /\ Kept /\ Heard
  /\ \A s \in Senders : Sends(s)
  /\ \A r \in Requests : Settles(r)

----------------------------------------------------------------------------
LEMMA NoticeInit == Notices!Init => NoticeInv
<1> SUFFICES ASSUME Notices!Init PROVE NoticeInv
  OBVIOUS
<1>1. Notices!Unset \in Notices!Override
  BY DEF Notices!Unset, Notices!Override
<1>2. PICK d : d = Notices!Defaults
  OBVIOUS
<1>3. d \in Notices!NotificationPreference
  BY <1>1, <1>2 DEF Notices!Defaults, Notices!NotificationPreference
<1>4. /\ prefs = [u \in Users |-> d] /\ wish = prefs
      /\ note = [n \in Notices!Notes |-> NoNote]
      /\ send = [s \in Senders |-> [kind |-> "new"]]
      /\ req = [r \in Requests |-> [kind |-> "new"]]
      /\ connected = [u \in Users |-> FALSE]
      /\ heard = [u \in Users |-> {}]
      /\ contested = [u \in Users |-> {}]
      /\ leave = [n \in Notices!Notes |-> {}]
  BY <1>2 DEF Notices!Init
<1>5. NoticeTypes
  BY <1>3, <1>4 DEF NoticeTypes, Sending, Settling
<1>6. Agreed
  BY <1>4 DEF Agreed, Notices!Open
<1>7. Kept /\ Heard
  BY <1>4 DEF Kept, Heard, There
<1>8. \A s \in Senders : Sends(s)
  BY <1>4 DEF Sends, There, Notices!Notes
<1>9. \A r \in Requests : Settles(r)
  BY <1>4 DEF Settles
<1>10. QED
  BY <1>5, <1>6, <1>7, <1>8, <1>9 DEF NoticeInv

(* The calls by their kinds. *)
LEMMA SendKinds ==
  ASSUME NoticeTypes, NEW s \in Senders
  PROVE  LET x == send[s] IN
         /\ x.kind \in {"new", "died", "between", "create", "dispatch"}
         /\ x.kind \in {"between", "create", "dispatch"} =>
              x.call \in Calls /\ x.todo \subseteq Users
         /\ x.kind \in {"create", "dispatch"} => x.to \in Users
         /\ x.kind = "dispatch" => x.rows \in NoticeRows
BY DEF NoticeTypes, Sending

LEMMA RequestKinds ==
  ASSUME NoticeTypes, NEW r \in Requests
  PROVE  LET x == req[r] IN
         /\ x.kind \in {"new", "not_found", "end", "mark", "marked_all", "patch"}
         /\ x.kind = "mark" => x.note \in Notices!Notes /\ x.asked \in BOOLEAN
         /\ x.kind = "marked_all" => x.rows \subseteq Notices!Notes
         /\ x.kind = "patch" => /\ x.user \in Users /\ x.patch \in Patches
                                /\ x.copy \in Notices!NotificationPreference
                                /\ x.overlaps \in BOOLEAN
BY DEF NoticeTypes, Settling

----------------------------------------------------------------------------
(* A call goes on: it touches no notification but its own. *)
LEMMA SendGoesOn ==
  ASSUME NoticeInv, NEW s \in Senders, NEW x \in Sending, send' = [send EXCEPT ![s] = x],
         UNCHANGED <<prefs, req, connected, wish, contested>>,
         leave' \in [Notices!Notes -> SUBSET Notices!Channels],
         note' \in [Notices!Notes -> Notices!Notification \cup {NoNote}],
         heard' \in [Users -> SUBSET Notices!Notes],
         \A n \in Notices!Notes : n[1] # s => leave'[n] = leave[n] /\ note'[n] = note[n],
         \A n \in Notices!Notes : There(n) => There(n)',
         Sends(s)', Kept', Heard'
  PROVE  NoticeInv'
<1>1. \A t \in Senders : send'[t] = IF t = s THEN x ELSE send[t]
  BY DEF NoticeInv, NoticeTypes
<1>2. NoticeTypes'
  BY DEF NoticeInv, NoticeTypes
<1>3. Agreed'
  BY DEF NoticeInv, Agreed, Notices!Open
<1>4. \A t \in Senders : Sends(t)'
  <2> SUFFICES ASSUME NEW t \in Senders, t # s PROVE Sends(t)'
    OBVIOUS
  <2>1. send'[t] = send[t] /\ Sends(t)
    BY <1>1 DEF NoticeInv
  <2>2. \A u \in Users : leave'[<<t, u>>] = leave[<<t, u>>] /\ note'[<<t, u>>] = note[<<t, u>>]
    BY DEF Notices!Notes
  <2>3. \A u \in Users : Notices!Open(u, wish, contested)' = Notices!Open(u, wish, contested)
    BY DEF Notices!Open
  <2>4. /\ send[t].kind \in {"between", "create", "dispatch"} => send[t].todo \subseteq Users
        /\ send[t].kind \in {"create", "dispatch"} => send[t].to \in Users
    BY SendKinds DEF NoticeInv
  <2>5. QED
    BY <2>1, <2>2, <2>3, <2>4 DEF Sends, There
<1>5. \A r \in Requests : Settles(r)'
  <2> SUFFICES ASSUME NEW r \in Requests PROVE Settles(r)'
    OBVIOUS
  <2>1. Settles(r)
    BY DEF NoticeInv
  <2>2. QED
    BY <2>1, RequestKinds DEF NoticeInv, Settles
<1>6. QED
  BY <1>2, <1>3, <1>4, <1>5 DEF NoticeInv

LEMMA SendOnly ==
  ASSUME NoticeInv, NEW s \in Senders, NEW x \in Sending, send' = [send EXCEPT ![s] = x],
         UNCHANGED <<prefs, note, req, connected, heard, wish, contested, leave>>,
         Sends(s)',
         send[s].kind = "dispatch" =>
           \/ x.kind = "died"
           \/ x.kind = "dispatch" /\ x.to = send[s].to,
         send[s].kind # "died"
  PROVE  NoticeInv'
<1>1. Kept'
  BY DEF NoticeInv, Kept, There
<1>2. \A t \in Senders : send'[t] = IF t = s THEN x ELSE send[t]
  BY DEF NoticeInv, NoticeTypes
<1>3. Heard'
  <2> SUFFICES ASSUME NEW u \in Users, NEW n \in heard[u]
               PROVE  /\ n[2] = u
                      /\ \/ There(n)
                         \/ send'[n[1]].kind = "died"
                         \/ send'[n[1]].kind = "dispatch" /\ send'[n[1]].to = u
    BY DEF Heard, There
  <2>1. n[1] \in Senders
    BY DEF NoticeInv, NoticeTypes, Notices!Notes
  <2>2. QED
    BY <1>2, <2>1 DEF NoticeInv, Heard
<1>4. QED
  BY <1>1, <1>3, SendGoesOn DEF NoticeInv, NoticeTypes, There

LEMMA CallBegins ==
  ASSUME NoticeInv, NEW s \in Senders, NEW call \in Calls, NEW to \in SUBSET Users,
         Notices!Start(s, call, to)
  PROVE  NoticeInv'
<1>1. PICK x : x = [kind |-> "between", call |-> call, todo |-> to]
  OBVIOUS
<1>2. x \in Sending
  BY <1>1 DEF Sending
<1>3. /\ send' = [send EXCEPT ![s] = x] /\ send[s].kind = "new"
      /\ UNCHANGED <<prefs, note, req, connected, heard, wish, contested, leave>>
  BY <1>1 DEF Notices!Start, Notices!Continue, Notices!ghosts
<1>4. send'[s] = x
  BY <1>3 DEF NoticeInv, NoticeTypes
<1>5. x.kind = "between" /\ x.todo \subseteq Users
  BY <1>1
<1>6. \A u \in Users : ~There(<<s, u>>) /\ ~There(<<s, u>>)'
  BY <1>3 DEF NoticeInv, Sends, There
<1>7. Sends(s)'
  BY <1>4, <1>5, <1>6 DEF Sends
<1>8. QED
  BY <1>2, <1>3, <1>7, SendOnly

LEMMA CallDies == ASSUME NoticeInv, NEW s \in Senders, Notices!Die(s) PROVE NoticeInv'
<1>1. PICK x : x = [kind |-> "died"]
  OBVIOUS
<1>2. x \in Sending
  BY <1>1 DEF Sending
<1>3. /\ send' = [send EXCEPT ![s] = x] /\ send[s].kind # "died"
      /\ UNCHANGED <<prefs, note, req, connected, heard, wish, contested, leave>>
  BY <1>1 DEF Notices!Die, Notices!Continue, Notices!ghosts
<1>4. send'[s] = x
  BY <1>3 DEF NoticeInv, NoticeTypes
<1>5. x.kind = "died"
  BY <1>1
<1>6. Sends(s)'
  BY <1>4, <1>5 DEF Sends
<1>7. send[s].kind = "dispatch" =>
        \/ x.kind = "died"
        \/ x.kind = "dispatch" /\ x.to = send[s].to
  BY <1>5
<1>8. QED
  BY <1>2, <1>3, <1>6, <1>7, SendOnly

(* What should be sent is switched on, whatever the finer settings say. *)
LEMMA SwitchedOn ==
  ASSUME NEW p, NEW call, NEW c, Notices!ShouldSend(p, call, c) PROVE p[c]
BY DEF Notices!ShouldSend, Notices!ChannelPreference

(* The rows made now carry nothing but the channels open now. *)
LEMMA RowsMade ==
  ASSUME NEW p, NEW call \in Notices!Call
  PROVE  /\ Notices!Rows(p, call) \in NoticeRows
         /\ Unmailed(Notices!Rows(p, call))
         /\ \A c \in Carried(Notices!Rows(p, call)) : c = "in_app" \/ p[c]
<1> DEFINE R == Notices!Rows(p, call)
<1>1. /\ DOMAIN R = {"in_app"} \cup call.include
      /\ call.include \subseteq {"websocket", "email", "push"}
  BY DEF Notices!Rows, Notices!Call
<1>2. \A c \in DOMAIN R :
        R[c] = CASE c = "in_app" -> "sent"
                 [] c = "push" -> "skipped"
                 [] OTHER -> IF Notices!ShouldSend(p, call, c) THEN "pending" ELSE "skipped"
  BY DEF Notices!Rows
<1>3. R = [c \in DOMAIN R |-> R[c]]
  BY DEF Notices!Rows
<1> HIDE DEF R
<1>4. \A c \in DOMAIN R : R[c] \in Notices!Status /\ (c = "email" => R[c] # "sent")
  BY <1>1, <1>2 DEF Notices!Status
<1>5. R \in NoticeRows
  <2>1. DOMAIN R \in SUBSET RowNames
    BY <1>1 DEF RowNames
  <2>2. R \in [DOMAIN R -> Notices!Status]
    BY <1>3, <1>4
  <2>3. QED
    BY <2>1, <2>2 DEF NoticeRows
<1>6. \A c \in Carried(R) : c = "in_app" \/ p[c]
  BY <1>2, SwitchedOn DEF Carried, Notices!Channels
<1>7. Unmailed(R)
  BY <1>4 DEF Unmailed
<1>8. QED
  BY <1>5, <1>6, <1>7 DEF R

LEMMA CallGates ==
  ASSUME NoticeInv, NEW s \in Senders, NEW u \in Users, Notices!Gate(s, u)
  PROVE  NoticeInv'
<1> DEFINE o == Notices!Open(u, wish, contested)
<1>1. /\ send[s].kind = "between" /\ u \in send[s].todo
      /\ leave' = [leave EXCEPT ![<<s, u>>] = o]
      /\ UNCHANGED <<prefs, note, req, connected, heard, wish, contested>>
  BY DEF Notices!Gate
<1>2. send[s].call \in Calls /\ send[s].todo \subseteq Users /\ send[s] \in Sending
  BY <1>1, SendKinds DEF NoticeInv, NoticeTypes
<1>3. <<s, u>> \in Notices!Notes /\ o \subseteq Notices!Channels
  BY DEF Notices!Notes, Notices!Open
<1>4. leave' \in [Notices!Notes -> SUBSET Notices!Channels] /\ leave'[<<s, u>>] = o
      /\ \A n \in Notices!Notes : n # <<s, u>> => leave'[n] = leave[n]
  BY <1>1, <1>3 DEF NoticeInv, NoticeTypes
<1>5. ~There(<<s, u>>) /\ \A v \in send[s].todo : ~There(<<s, v>>)
  BY <1>1 DEF NoticeInv, Sends
<1>6. Kept'
  BY <1>1, <1>4, <1>5 DEF NoticeInv, Kept, There
<1>7. PICK x : /\ send' = [send EXCEPT ![s] = x] /\ x \in Sending
               /\ x.todo = send[s].todo \ {u}
               /\ \/ x.kind = "between"
                  \/ /\ x.kind = "create" /\ x.to = u
                     /\ Notices!ShouldSend(prefs[u], send[s].call, "in_app")
  <2>1. CASE Notices!ShouldSend(prefs[u], send[s].call, "in_app")
    <3>1. PICK x : x = [kind |-> "create", call |-> send[s].call, todo |-> send[s].todo \ {u},
                        to |-> u]
      OBVIOUS
    <3>2. x \in Sending /\ x.todo = send[s].todo \ {u} /\ x.kind = "create" /\ x.to = u
      BY <1>2, <3>1 DEF Sending
    <3>3. send' = [send EXCEPT ![s] = x]
      BY <2>1, <3>1 DEF Notices!Gate, Notices!Continue
    <3>4. QED
      BY <2>1, <3>2, <3>3
  <2>2. CASE ~Notices!ShouldSend(prefs[u], send[s].call, "in_app")
    <3>1. PICK x : x = [send[s] EXCEPT !.todo = @ \ {u}]
      OBVIOUS
    <3>2. send[s] \in [kind : {"between"}, call : Calls, todo : SUBSET Users]
      BY <1>1, <1>2 DEF Sending
    <3>3. x \in Sending /\ x.todo = send[s].todo \ {u} /\ x.kind = "between"
      BY <3>1, <3>2 DEF Sending
    <3>4. send' = [send EXCEPT ![s] = x]
      BY <2>2, <3>1 DEF Notices!Gate, Notices!Continue
    <3>5. QED
      BY <3>3, <3>4
  <2>3. QED
    BY <2>1, <2>2
<1>8. send'[s] = x /\ \A t \in Senders \ {s} : send'[t] = send[t]
  BY <1>7 DEF NoticeInv, NoticeTypes
<1>9. Heard'
  <2> SUFFICES ASSUME NEW v \in Users, NEW n \in heard[v]
               PROVE  /\ n[2] = v
                      /\ \/ There(n)
                         \/ send'[n[1]].kind = "died"
                         \/ send'[n[1]].kind = "dispatch" /\ send'[n[1]].to = v
    BY <1>1 DEF Heard, There
  <2>1. n[1] \in Senders
    BY DEF NoticeInv, NoticeTypes, Notices!Notes
  <2>2. QED
    BY <1>1, <1>8, <2>1 DEF NoticeInv, Heard
<1>10. Notices!Open(u, wish, contested)' = o
  BY <1>1 DEF Notices!Open
<1>11. Notices!ShouldSend(prefs[u], send[s].call, "in_app") => "in_app" \in o
  BY SwitchedOn DEF NoticeInv, Agreed, Notices!Channels
<1> HIDE DEF o
<1>12. Sends(s)'
  BY <1>1, <1>4, <1>5, <1>7, <1>8, <1>10, <1>11 DEF Sends, There
<1>13. \A n \in Notices!Notes : n[1] # s => leave'[n] = leave[n] /\ note'[n] = note[n]
  BY <1>1, <1>4
<1>14. QED
  BY <1>1, <1>4, <1>6, <1>7, <1>9, <1>12, <1>13, SendGoesOn DEF NoticeInv, NoticeTypes, There

LEMMA CallCreates ==
  ASSUME Notices!CallsAssumption, NoticeInv, NEW s \in Senders, Notices!Create(s)
  PROVE  NoticeInv'
<1> DEFINE y == send[s]
<1>1. PICK rows : rows = Notices!Rows(prefs[y.to], y.call)
  OBVIOUS
<1>2. PICK x : x = [kind |-> "dispatch", call |-> y.call, todo |-> y.todo, to |-> y.to,
                    rows |-> rows]
  OBVIOUS
<1>3. /\ y.kind = "create" /\ send' = [send EXCEPT ![s] = x]
      /\ UNCHANGED <<prefs, note, req, connected, heard, wish, contested, leave>>
  BY <1>1, <1>2 DEF Notices!Create, Notices!Continue, Notices!ghosts
<1>4. y.call \in Notices!Call /\ y.call \in Calls /\ y.todo \subseteq Users /\ y.to \in Users
  BY <1>3, SendKinds DEF NoticeInv, Notices!CallsAssumption
<1>5. /\ rows \in NoticeRows /\ Unmailed(rows)
      /\ \A c \in Carried(rows) : c = "in_app" \/ prefs[y.to][c]
  BY <1>1, <1>4, RowsMade
<1>6. /\ x \in Sending /\ x.kind = "dispatch" /\ x.to = y.to /\ x.todo = y.todo /\ x.rows = rows
  BY <1>2, <1>4, <1>5 DEF Sending
<1>7. send'[s] = x
  BY <1>3 DEF NoticeInv, NoticeTypes
<1>8. /\ y.to \notin y.todo /\ ~There(<<s, y.to>>) /\ \A v \in y.todo : ~There(<<s, v>>)
      /\ Notices!Open(y.to, wish, contested) \subseteq leave[<<s, y.to>>]
      /\ "in_app" \in leave[<<s, y.to>>]
  BY <1>3 DEF NoticeInv, Sends
<1>9. Carried(rows) \subseteq leave[<<s, y.to>>]
  BY <1>4, <1>5, <1>8 DEF NoticeInv, Agreed, Carried
<1> HIDE DEF y
<1>10. Notices!Open(x.to, wish', contested') = Notices!Open(y.to, wish, contested)
  BY <1>3, <1>6 DEF y, Notices!Open
<1>11. Sends(s)'
  BY <1>3, <1>5, <1>6, <1>7, <1>8, <1>9, <1>10 DEF Sends, There
<1>12. send[s].kind = "create"
  BY <1>3 DEF y
<1>13. QED
  BY <1>3, <1>6, <1>11, <1>12, SendOnly

(* A delivery is dispatched: a row that was pending is sent or has failed. *)
LEMMA RowDispatched ==
  ASSUME NEW rows \in NoticeRows, Unmailed(rows), NEW c \in DOMAIN rows, rows[c] = "pending",
         NEW v \in {"sent", "failed"}, c = "email" => v = "failed"
  PROVE  LET R == [rows EXCEPT ![c] = v] IN
         R \in NoticeRows /\ Unmailed(R) /\ Carried(R) = Carried(rows)
<1> DEFINE R == [rows EXCEPT ![c] = v]
<1>1. PICK cs \in SUBSET RowNames : rows \in [cs -> Notices!Status]
  BY DEF NoticeRows
<1>2. R \in [cs -> Notices!Status] /\ DOMAIN R = cs /\ DOMAIN rows = cs
      /\ \A d \in cs : R[d] = IF d = c THEN v ELSE rows[d]
  BY <1>1 DEF Notices!Status
<1> HIDE DEF R
<1>3. R \in NoticeRows
  BY <1>2 DEF NoticeRows
<1>4. Unmailed(R)
  BY <1>2 DEF Unmailed
<1>5. Carried(R) = Carried(rows)
  BY <1>2 DEF Carried
<1>6. QED
  BY <1>3, <1>4, <1>5 DEF R

LEMMA CallDispatches ==
  ASSUME NoticeInv, NEW s \in Senders, send[s].kind = "dispatch",
         NEW c \in Notices!Pending(s), NEW v \in {"sent", "failed"}, c = "email" => v = "failed",
         send' = [send EXCEPT ![s] = [send[s] EXCEPT !.rows = [send[s].rows EXCEPT ![c] = v]]],
         UNCHANGED <<prefs, note, req, connected, wish, contested, leave>>,
         \/ heard' = heard
         \/ heard' = [heard EXCEPT ![send[s].to] = @ \cup {<<s, send[s].to>>}]
  PROVE  NoticeInv'
<1>1. /\ send[s].rows \in NoticeRows /\ send[s].call \in Calls /\ send[s].todo \subseteq Users
      /\ send[s].to \in Users /\ send[s] \in Sending
  BY SendKinds DEF NoticeInv, NoticeTypes
<1>2. Sends(s)
  BY DEF NoticeInv
<1>3. c \in DOMAIN send[s].rows /\ send[s].rows[c] = "pending"
  BY DEF Notices!Pending
<1>4. PICK rows : rows = [send[s].rows EXCEPT ![c] = v]
  OBVIOUS
<1>5. rows \in NoticeRows /\ Unmailed(rows) /\ Carried(rows) = Carried(send[s].rows)
  BY <1>1, <1>2, <1>3, <1>4, RowDispatched DEF Sends
<1>6. PICK x : x = [send[s] EXCEPT !.rows = rows]
  OBVIOUS
<1>7. send[s] \in [kind : {"dispatch"}, call : Calls, todo : SUBSET Users, to : Users,
                   rows : NoticeRows]
  BY <1>1 DEF Sending
<1>8. /\ x \in Sending /\ x.kind = "dispatch" /\ x.to = send[s].to /\ x.todo = send[s].todo
      /\ x.rows = rows
  BY <1>5, <1>6, <1>7 DEF Sending
<1>9. send' = [send EXCEPT ![s] = x]
  BY <1>4, <1>6
<1>10. send'[s] = x /\ \A t \in Senders \ {s} : send'[t] = send[t]
  BY <1>9 DEF NoticeInv, NoticeTypes
<1>11. Notices!Open(x.to, wish', contested') = Notices!Open(send[s].to, wish, contested)
  BY <1>8 DEF Notices!Open
<1>12. Sends(s)'
  BY <1>2, <1>5, <1>8, <1>10, <1>11 DEF Sends, There
<1>13. Kept'
  BY DEF NoticeInv, Kept, There
<1>14. <<s, send[s].to>> \in Notices!Notes
  BY <1>1 DEF Notices!Notes
<1>15. heard' \in [Users -> SUBSET Notices!Notes]
  BY <1>1, <1>14 DEF NoticeInv, NoticeTypes
<1>16. Heard'
  <2> SUFFICES ASSUME NEW u \in Users, NEW n \in heard'[u]
               PROVE  /\ n[2] = u
                      /\ \/ There(n)
                         \/ send'[n[1]].kind = "died"
                         \/ send'[n[1]].kind = "dispatch" /\ send'[n[1]].to = u
    BY DEF Heard, There
  <2>1. CASE n \in heard[u]
    <3>1. n[1] \in Senders
      BY <2>1 DEF NoticeInv, NoticeTypes, Notices!Notes
    <3>2. QED
      BY <1>8, <1>10, <2>1, <3>1 DEF NoticeInv, Heard
  <2>2. CASE n \notin heard[u]
    <3>1. u = send[s].to /\ n = <<s, u>>
      BY <1>1, <2>2 DEF NoticeInv, NoticeTypes
    <3>2. QED
      BY <1>8, <1>10, <3>1
  <2>3. QED
    BY <2>1, <2>2
<1>17. QED
  BY <1>8, <1>9, <1>12, <1>13, <1>15, <1>16, SendGoesOn DEF NoticeInv, NoticeTypes, There

LEMMA CallDispatchSteps ==
  ASSUME NoticeInv, NEW s \in Senders, Notices!DispatchWebsocket(s) \/ Notices!DispatchEmail(s)
  PROVE  NoticeInv'
<1>1. /\ send[s].kind = "dispatch"
      /\ UNCHANGED <<prefs, note, req, connected, wish, contested, leave>>
  BY DEF Notices!DispatchWebsocket, Notices!DispatchEmail, Notices!ghosts
<1>2. CASE Notices!DispatchWebsocket(s)
  <2>1. "websocket" \in Notices!Pending(s)
    BY <1>2 DEF Notices!DispatchWebsocket
  <2>2. PICK v \in {"sent", "failed"} :
          send' = [send EXCEPT ![s] = [send[s] EXCEPT !.rows["websocket"] = v]]
    BY <1>2 DEF Notices!DispatchWebsocket, Notices!Continue
  <2>3. send' = [send EXCEPT ![s] =
                   [send[s] EXCEPT !.rows = [send[s].rows EXCEPT !["websocket"] = v]]]
    BY <2>2
  <2>4. \/ heard' = heard
        \/ heard' = [heard EXCEPT ![send[s].to] = @ \cup {<<s, send[s].to>>}]
    BY <1>2 DEF Notices!DispatchWebsocket, NoticeInv, NoticeTypes
  <2>5. QED
    BY <1>1, <2>1, <2>3, <2>4, CallDispatches
<1>3. CASE Notices!DispatchEmail(s)
  <2>1. "email" \in Notices!Pending(s) /\ heard' = heard
    BY <1>3 DEF Notices!DispatchEmail
  <2>2. send' = [send EXCEPT ![s] = [send[s] EXCEPT !.rows["email"] = "failed"]]
    BY <1>3 DEF Notices!DispatchEmail, Notices!Continue
  <2>3. send' = [send EXCEPT ![s] =
                   [send[s] EXCEPT !.rows = [send[s].rows EXCEPT !["email"] = "failed"]]]
    BY <2>2
  <2>4. QED
    BY <1>1, <2>1, <2>3, CallDispatches
<1>4. QED
  BY <1>2, <1>3

LEMMA CallCommits ==
  ASSUME Notices!NoNoteAssumption, NoticeInv, NEW s \in Senders, Notices!Commit(s)
  PROVE  NoticeInv'
<1> DEFINE own == <<s, send[s].to>>
<1>1. PICK row : row = Notices!RowOf(send[s])
  OBVIOUS
<1>2. PICK x : x = [kind |-> "between", call |-> send[s].call, todo |-> send[s].todo]
  OBVIOUS
<1>3. /\ send[s].kind = "dispatch" /\ send' = [send EXCEPT ![s] = x]
      /\ note' = [note EXCEPT ![own] = row]
      /\ UNCHANGED <<prefs, req, connected, heard, wish, contested, leave>>
  BY <1>1, <1>2 DEF Notices!Commit, Notices!Continue, Notices!ghosts
<1>4. /\ send[s].rows \in NoticeRows /\ send[s].call \in Calls /\ send[s].todo \subseteq Users
      /\ send[s].to \in Users
  BY <1>3, SendKinds DEF NoticeInv
<1>5. Sends(s)
  BY DEF NoticeInv
<1>6. x \in Sending /\ x.kind = "between" /\ x.todo = send[s].todo
  BY <1>2, <1>4 DEF Sending
<1>7. row \in Notices!Notification /\ row.deliveries = send[s].rows /\ row # NoNote
  <2>1. row = [is_read |-> FALSE, deliveries |-> send[s].rows]
    BY <1>1 DEF Notices!RowOf
  <2>2. row \in Notices!Notification
    BY <1>4, <2>1 DEF Notices!Notification, NoticeRows, RowNames
  <2>3. QED
    BY <2>1, <2>2 DEF Notices!NoNoteAssumption
<1>8. own \in Notices!Notes
  BY <1>4 DEF Notices!Notes
<1>9. /\ note' \in [Notices!Notes -> Notices!Notification \cup {NoNote}]
      /\ note'[own] = row /\ \A n \in Notices!Notes : n # own => note'[n] = note[n]
  BY <1>3, <1>7, <1>8 DEF NoticeInv, NoticeTypes
<1>10. send'[s] = x /\ \A t \in Senders \ {s} : send'[t] = send[t]
  BY <1>3 DEF NoticeInv, NoticeTypes
<1>11. Sends(s)'
  <2>1. \A u \in x.todo : ~There(<<s, u>>) /\ u \in Users /\ u # send[s].to
    BY <1>3, <1>4, <1>5, <1>6 DEF Sends
  <2>2. \A u \in x.todo : ~There(<<s, u>>)'
    BY <1>9, <2>1 DEF There, Notices!Notes
  <2>3. QED
    BY <1>6, <1>10, <2>2 DEF Sends
<1>12. Kept'
  BY <1>3, <1>5, <1>7, <1>8, <1>9 DEF NoticeInv, Kept, There, Sends
<1>13. Heard'
  <2> SUFFICES ASSUME NEW u \in Users, NEW n \in heard[u]
               PROVE  /\ n[2] = u
                      /\ \/ There(n)'
                         \/ send'[n[1]].kind = "died"
                         \/ send'[n[1]].kind = "dispatch" /\ send'[n[1]].to = u
    BY <1>3 DEF Heard
  <2>1. n[1] \in Senders /\ n \in Notices!Notes /\ n = <<n[1], n[2]>> /\ n[2] = u
    BY DEF NoticeInv, NoticeTypes, Notices!Notes, Heard
  <2>2. n = own => There(n)'
    BY <1>7, <1>9 DEF There
  <2>3. n # own => (There(n) => There(n)')
    BY <1>9, <2>1 DEF There
  <2>4. \/ There(n)
        \/ send[n[1]].kind = "died"
        \/ send[n[1]].kind = "dispatch" /\ send[n[1]].to = u
    BY DEF NoticeInv, Heard
  <2>5. CASE n[1] = s
    <3>1. n # own => There(n)
      BY <1>3, <2>1, <2>4, <2>5
    <3>2. QED
      BY <2>1, <2>2, <2>3, <3>1
  <2>6. CASE n[1] # s
    <3>1. send'[n[1]] = send[n[1]] /\ n # own
      BY <1>10, <2>1, <2>6
    <3>2. QED
      BY <2>1, <2>3, <2>4, <3>1
  <2>7. QED
    BY <2>5, <2>6
<1>14. \A n \in Notices!Notes : n[1] # s => leave'[n] = leave[n] /\ note'[n] = note[n]
  BY <1>3, <1>9
<1>15. \A n \in Notices!Notes : There(n) => There(n)'
  BY <1>7, <1>9 DEF There
<1> HIDE DEF own
<1>16. QED
  BY <1>3, <1>6, <1>9, <1>11, <1>12, <1>13, <1>14, <1>15, SendGoesOn DEF NoticeInv, NoticeTypes

----------------------------------------------------------------------------
(* A request goes on: of the notifications it may have set the read mark.  *)
LEMMA RequestGoesOn ==
  ASSUME NoticeInv, NEW r \in Requests, NEW x \in Settling, req' = [req EXCEPT ![r] = x],
         x.kind # "patch",
         UNCHANGED <<prefs, send, connected, heard, wish, contested, leave>>,
         note' \in [Notices!Notes -> Notices!Notification \cup {NoNote}],
         \A n \in Notices!Notes : There(n)' <=> There(n),
         \A n \in Notices!Notes : There(n) => note'[n].deliveries = note[n].deliveries,
         Settles(r)'
  PROVE  NoticeInv'
<1>1. \A q \in Requests : req'[q] = IF q = r THEN x ELSE req[q]
  BY DEF NoticeInv, NoticeTypes
<1>2. NoticeTypes'
  BY DEF NoticeInv, NoticeTypes
<1>3. Agreed'
  BY DEF NoticeInv, Agreed, Notices!Open
<1>4. Kept'
  BY DEF NoticeInv, Kept
<1>5. Heard'
  <2>1. \A u \in Users : \A n \in heard[u] : n \in Notices!Notes
    BY DEF NoticeInv, NoticeTypes
  <2>2. QED
    BY <2>1 DEF NoticeInv, Heard
<1>6. \A s \in Senders : Sends(s)'
  <2> SUFFICES ASSUME NEW s \in Senders PROVE Sends(s)'
    OBVIOUS
  <2>1. Sends(s)
    BY DEF NoticeInv
  <2>2. \A u \in Users : There(<<s, u>>)' <=> There(<<s, u>>)
    BY DEF Notices!Notes
  <2>3. \A u \in Users : Notices!Open(u, wish, contested)' = Notices!Open(u, wish, contested)
    BY DEF Notices!Open
  <2>4. /\ send[s].kind \in {"between", "create", "dispatch"} => send[s].todo \subseteq Users
        /\ send[s].kind \in {"create", "dispatch"} => send[s].to \in Users
    BY SendKinds DEF NoticeInv
  <2>5. QED
    BY <2>1, <2>2, <2>3, <2>4 DEF Sends
<1>7. \A q \in Requests : Settles(q)'
  <2> SUFFICES ASSUME NEW q \in Requests, q # r PROVE Settles(q)'
    OBVIOUS
  <2>1. Settles(q) /\ req'[q] = req[q]
    BY <1>1 DEF NoticeInv
  <2>2. /\ req[q].kind = "mark" => req[q].note \in Notices!Notes
        /\ req[q].kind = "marked_all" => req[q].rows \subseteq Notices!Notes
    BY RequestKinds DEF NoticeInv
  <2>3. \A p \in Requests : req'[p].kind = "patch" => req[p].kind = "patch" /\ req'[p] = req[p]
    BY <1>1
  <2>4. QED
    BY <2>1, <2>2, <2>3 DEF Settles
<1>8. QED
  BY <1>2, <1>3, <1>4, <1>5, <1>6, <1>7 DEF NoticeInv

LEMMA NoteRead ==
  ASSUME NoticeInv, NEW r \in Requests, NEW n \in Notices!Notes, NEW asked \in BOOLEAN,
         Notices!ReadNote(r, n, asked)
  PROVE  NoticeInv'
<1>1. PICK x : x = IF note[n] = NoNote THEN [kind |-> "not_found"]
                   ELSE IF note[n].is_read = asked THEN [kind |-> "end"]
                   ELSE [kind |-> "mark", note |-> n, asked |-> asked]
  OBVIOUS
<1>2. /\ req' = [req EXCEPT ![r] = x]
      /\ UNCHANGED <<prefs, note, send, connected, heard, wish, contested, leave>>
  BY <1>1 DEF Notices!ReadNote, Notices!Become, Notices!ghosts
<1>3. /\ x \in Settling /\ x.kind \in {"not_found", "end", "mark"}
      /\ x.kind = "mark" => x.note = n /\ There(n)
  <2>1. CASE note[n] = NoNote
    BY <1>1, <2>1 DEF Settling
  <2>2. CASE note[n] # NoNote /\ note[n].is_read = asked
    BY <1>1, <2>2 DEF Settling
  <2>3. CASE note[n] # NoNote /\ note[n].is_read # asked
    <3>1. x = [kind |-> "mark", note |-> n, asked |-> asked]
      BY <1>1, <2>3
    <3>2. QED
      BY <2>3, <3>1 DEF Settling, There
  <2>4. QED
    BY <2>1, <2>2, <2>3
<1>4. req'[r] = x
  BY <1>2 DEF NoticeInv, NoticeTypes
<1>5. Settles(r)'
  BY <1>2, <1>3, <1>4 DEF Settles, There
<1>6. QED
  BY <1>2, <1>3, <1>5, RequestGoesOn DEF NoticeInv, NoticeTypes, There

LEMMA AllMarked ==
  ASSUME NoticeInv, NEW r \in Requests, NEW u \in Users, Notices!MarkAll(r, u)
  PROVE  NoticeInv'
<1>1. PICK x : x = [kind |-> "marked_all", rows |-> Notices!Unread(u)]
  OBVIOUS
<1>2. /\ req' = [req EXCEPT ![r] = x]
      /\ UNCHANGED <<prefs, note, send, connected, heard, wish, contested, leave>>
  BY <1>1 DEF Notices!MarkAll, Notices!Become, Notices!ghosts
<1>3. \A n \in Notices!Unread(u) : n \in Notices!Notes /\ There(n)
  BY DEF Notices!Unread, There
<1>4. /\ x \in Settling /\ x.kind = "marked_all"
      /\ \A n \in x.rows : There(n)
  BY <1>1, <1>3 DEF Settling
<1>5. req'[r] = x
  BY <1>2 DEF NoticeInv, NoticeTypes
<1>6. Settles(r)'
  BY <1>2, <1>4, <1>5 DEF Settles, There
<1>7. QED
  BY <1>2, <1>4, <1>6, RequestGoesOn DEF NoticeInv, NoticeTypes, There

(* A notification is marked: it stays one, sent as it was. *)
LEMMA MarkedNote ==
  ASSUME Notices!NoNoteAssumption, NEW row \in Notices!Notification, NEW asked \in BOOLEAN
  PROVE  LET m == [row EXCEPT !.is_read = asked] IN
         m \in Notices!Notification /\ m # NoNote /\ m.deliveries = row.deliveries
BY DEF Notices!Notification, Notices!NoNoteAssumption

LEMMA MarkSaved ==
  ASSUME Notices!NoNoteAssumption, NoticeInv, NEW r \in Requests, Notices!SaveMark(r)
  PROVE  NoticeInv'
<1>1. PICK n : n = req[r].note
  OBVIOUS
<1>2. PICK x : x = [kind |-> "end"]
  OBVIOUS
<1>3. PICK row : row = [note[n] EXCEPT !.is_read = req[r].asked]
  OBVIOUS
<1>4. /\ req[r].kind = "mark" /\ req' = [req EXCEPT ![r] = x]
      /\ UNCHANGED <<prefs, send, connected, heard, wish, contested, leave>>
  BY <1>2 DEF Notices!SaveMark, Notices!Become, Notices!ghosts
<1>5. note' = [note EXCEPT ![n] = row]
  BY <1>1, <1>3 DEF Notices!SaveMark
<1>6. n \in Notices!Notes /\ req[r].asked \in BOOLEAN /\ There(n)
  BY <1>1, <1>4, RequestKinds DEF NoticeInv, Settles
<1>7. note[n] \in Notices!Notification
  BY <1>6 DEF NoticeInv, NoticeTypes, There
<1>8. row \in Notices!Notification /\ row # NoNote /\ row.deliveries = note[n].deliveries
  BY <1>3, <1>6, <1>7, MarkedNote
<1>9. /\ note' \in [Notices!Notes -> Notices!Notification \cup {NoNote}]
      /\ \A m \in Notices!Notes : note'[m] = IF m = n THEN row ELSE note[m]
  BY <1>5, <1>6, <1>8 DEF NoticeInv, NoticeTypes
<1>10. /\ \A m \in Notices!Notes : There(m)' <=> There(m)
       /\ \A m \in Notices!Notes : There(m) => note'[m].deliveries = note[m].deliveries
  BY <1>6, <1>8, <1>9 DEF There
<1>11. x \in Settling /\ x.kind = "end"
  BY <1>2 DEF Settling
<1>12. req'[r] = x
  BY <1>4 DEF NoticeInv, NoticeTypes
<1>13. Settles(r)'
  BY <1>11, <1>12 DEF Settles
<1>14. QED
  BY <1>4, <1>9, <1>10, <1>11, <1>13, RequestGoesOn

LEMMA MarkAllCommitted ==
  ASSUME Notices!NoNoteAssumption, NoticeInv, NEW r \in Requests, Notices!CommitMarkAll(r)
  PROVE  NoticeInv'
<1>1. PICK x : x = [kind |-> "end"]
  OBVIOUS
<1>2. /\ req[r].kind = "marked_all" /\ req' = [req EXCEPT ![r] = x]
      /\ note' = [n \in Notices!Notes |->
                    IF n \in req[r].rows THEN [note[n] EXCEPT !.is_read = TRUE] ELSE note[n]]
      /\ UNCHANGED <<prefs, send, connected, heard, wish, contested, leave>>
  BY <1>1 DEF Notices!CommitMarkAll, Notices!Become, Notices!ghosts
<1>3. \A n \in req[r].rows : n \in Notices!Notes /\ There(n) /\ note[n] \in Notices!Notification
  BY <1>2, RequestKinds DEF NoticeInv, NoticeTypes, Settles, There
<1>4. \A n \in Notices!Notes :
        /\ note'[n] \in Notices!Notification \cup {NoNote}
        /\ There(n)' <=> There(n)
        /\ There(n) => note'[n].deliveries = note[n].deliveries
  <2> SUFFICES ASSUME NEW n \in Notices!Notes
               PROVE  /\ note'[n] \in Notices!Notification \cup {NoNote}
                      /\ There(n)' <=> There(n)
                      /\ There(n) => note'[n].deliveries = note[n].deliveries
    OBVIOUS
  <2>1. CASE n \in req[r].rows
    <3>1. PICK row : row = [note[n] EXCEPT !.is_read = TRUE]
      OBVIOUS
    <3>2. row \in Notices!Notification /\ row # NoNote /\ row.deliveries = note[n].deliveries
      BY <1>3, <2>1, <3>1, MarkedNote
    <3>3. note'[n] = row
      BY <1>2, <2>1, <3>1
    <3>4. QED
      BY <1>3, <2>1, <3>2, <3>3 DEF There
  <2>2. CASE n \notin req[r].rows
    BY <1>2, <2>2 DEF NoticeInv, NoticeTypes, There
  <2>3. QED
    BY <2>1, <2>2
<1>5. note' \in [Notices!Notes -> Notices!Notification \cup {NoNote}]
  BY <1>2, <1>4
<1>6. x \in Settling /\ x.kind = "end"
  BY <1>1 DEF Settling
<1>7. req'[r] = x
  BY <1>2 DEF NoticeInv, NoticeTypes
<1>8. Settles(r)'
  BY <1>6, <1>7 DEF Settles
<1>9. QED
  BY <1>2, <1>4, <1>5, <1>6, <1>8, RequestGoesOn

LEMMA BrowserMoves ==
  ASSUME NoticeInv, NEW u \in Users, Notices!Connect(u) \/ Notices!Disconnect(u)
  PROVE  NoticeInv'
<1>1. /\ UNCHANGED <<prefs, note, send, req, wish, contested, leave>>
      /\ connected' \in [Users -> BOOLEAN]
      /\ heard' \in [Users -> SUBSET Notices!Notes]
      /\ \A v \in Users : heard'[v] \subseteq heard[v]
  BY DEF Notices!Connect, Notices!Disconnect, Notices!ghosts, NoticeInv, NoticeTypes
<1>2. NoticeTypes' /\ Agreed' /\ Kept' /\ Heard'
  BY <1>1 DEF NoticeInv, NoticeTypes, Agreed, Kept, Heard, There, Notices!Open
<1>3. \A s \in Senders : Sends(s)'
  BY <1>1 DEF NoticeInv, Sends, There, Notices!Open
<1>4. \A r \in Requests : Settles(r)'
  BY <1>1 DEF NoticeInv, Settles, There
<1>5. QED
  BY <1>2, <1>3, <1>4 DEF NoticeInv

----------------------------------------------------------------------------
LEMMA PreferenceRead ==
  ASSUME NoticeInv, NEW r \in Requests, NEW u \in Users, NEW patch \in Patches,
         Notices!ReadPreference(r, u, patch)
  PROVE  NoticeInv'
<1>1. PICK others : others = {q \in Requests : req[q].kind = "patch" /\ req[q].user = u}
  OBVIOUS
<1>2. PICK x : x = [kind |-> "patch", user |-> u, patch |-> patch, copy |-> prefs[u],
                    overlaps |-> others # {}]
  OBVIOUS
<1>3. /\ req[r].kind = "new"
      /\ req' = [q \in Requests |->
                   IF q = r THEN x
                   ELSE IF q \in others THEN [req[q] EXCEPT !.overlaps = TRUE] ELSE req[q]]
      /\ UNCHANGED <<prefs, note, send, connected, heard, wish, contested, leave>>
  BY <1>1, <1>2 DEF Notices!ReadPreference, Notices!ghosts
<1>4. x \in Settling
  BY <1>2 DEF Settling, NoticeInv, NoticeTypes
<1>5. /\ x.kind = "patch" /\ x.user = u /\ x.copy = prefs[u]
      /\ x.overlaps <=> others # {}
  BY <1>2
<1>6. \A q \in others : /\ req'[q] \in Settling /\ req'[q].kind = "patch" /\ req'[q].user = u
                        /\ req'[q].overlaps
  <2> SUFFICES ASSUME NEW q \in others
               PROVE  /\ req'[q] \in Settling /\ req'[q].kind = "patch" /\ req'[q].user = u
                      /\ req'[q].overlaps
    OBVIOUS
  <2>1. q \in Requests /\ req[q].kind = "patch" /\ req[q].user = u /\ q # r
    BY <1>1, <1>3
  <2>2. req[q] \in [kind : {"patch"}, user : Users, patch : Patches,
                    copy : Notices!NotificationPreference, overlaps : BOOLEAN]
    BY <2>1 DEF NoticeInv, NoticeTypes, Settling
  <2>3. PICK y : y = [req[q] EXCEPT !.overlaps = TRUE]
    OBVIOUS
  <2>4. y \in Settling /\ y.kind = "patch" /\ y.user = u /\ y.overlaps
    BY <2>1, <2>2, <2>3 DEF Settling
  <2>5. req'[q] = y
    BY <1>3, <2>1, <2>3
  <2>6. QED
    BY <2>4, <2>5
<1>7. \A q \in Requests : q # r /\ q \notin others => req'[q] = req[q]
  BY <1>3
<1>8. req'[r] = x
  BY <1>3
<1>9. req' \in [Requests -> Settling]
  <2>1. \A q \in Requests : req'[q] \in Settling
    BY <1>4, <1>6, <1>7, <1>8 DEF NoticeInv, NoticeTypes
  <2>2. req' = [q \in Requests |-> req'[q]]
    BY <1>3
  <2>3. QED
    BY <2>1, <2>2
<1>10. NoticeTypes' /\ Agreed' /\ Kept' /\ Heard'
  BY <1>3, <1>9 DEF NoticeInv, NoticeTypes, Agreed, Kept, Heard, There, Notices!Open
<1>11. \A s \in Senders : Sends(s)'
  BY <1>3 DEF NoticeInv, Sends, There, Notices!Open
<1>12. \A q \in Requests : Settles(q)'
  <2> SUFFICES ASSUME NEW q \in Requests PROVE Settles(q)'
    OBVIOUS
  <2>1. CASE q = r
    <3>1. others = {} => \A p \in Requests \ {r} : req'[p].kind = "patch" => req'[p].user # u
      BY <1>1, <1>7
    <3>2. QED
      BY <1>3, <1>5, <1>8, <2>1, <3>1 DEF Settles
  <2>2. CASE q \in others
    BY <1>6, <2>2 DEF Settles
  <2>3. CASE q # r /\ q \notin others
    <3>1. req'[q] = req[q] /\ Settles(q)
      BY <1>7, <2>3 DEF NoticeInv
    <3>2. req[q].kind = "patch" => req[q].user # u
      BY <1>1, <2>3
    <3>3. \A p \in Requests : req'[p].kind = "patch" =>
            \/ req'[p].user = u
            \/ req[p].kind = "patch" /\ req'[p] = req[p]
      BY <1>5, <1>6, <1>7, <1>8
    <3>4. QED
      BY <1>3, <3>1, <3>2, <3>3 DEF Settles, There
  <2>4. QED
    BY <2>1, <2>2, <2>3
<1>13. QED
  BY <1>10, <1>11, <1>12 DEF NoticeInv

(* A row with the fields of a patch: of the channels, those it names. *)
LEMMA PatchedChannels ==
  ASSUME NEW row, NEW patch, NEW c \in Notices!Channels
  PROVE  Notices!Patched(row, patch)[c] = IF c \in DOMAIN patch THEN patch[c] ELSE row[c]
BY DEF Notices!Patched, Notices!Channels

LEMMA PreferenceSaved ==
  ASSUME Notices!PatchesAssumption, NoticeInv, NEW r \in Requests, Notices!SavePreference(r)
  PROVE  NoticeInv'
<1>1. PICK u : u = req[r].user
  OBVIOUS
<1>2. PICK patch : patch = req[r].patch
  OBVIOUS
<1>3. PICK x : x = [kind |-> "end"]
  OBVIOUS
<1>4. PICK row : row = Notices!Patched(req[r].copy, patch)
  OBVIOUS
<1>5. PICK asked : asked = Notices!Patched(wish[u], patch)
  OBVIOUS
<1>6. PICK moot : moot = (contested[u] \ DOMAIN patch)
                           \cup (IF req[r].overlaps THEN Notices!Channels \ DOMAIN patch ELSE {})
  OBVIOUS
<1>7. /\ req[r].kind = "patch" /\ req' = [req EXCEPT ![r] = x]
      /\ prefs' = [prefs EXCEPT ![u] = row]
      /\ UNCHANGED <<note, send, connected, heard>>
  BY <1>1, <1>2, <1>3, <1>4 DEF Notices!SavePreference, Notices!Become
<1>8. u \in Users /\ patch \in Patches /\ req[r].copy \in Notices!NotificationPreference
      /\ req[r].overlaps \in BOOLEAN
  BY <1>1, <1>2, <1>7, RequestKinds DEF NoticeInv
<1>9. row \in Notices!NotificationPreference /\ asked \in Notices!NotificationPreference
      /\ moot \subseteq Notices!Channels
  BY <1>4, <1>5, <1>6, <1>8 DEF Notices!PatchesAssumption, NoticeInv, NoticeTypes
<1>10. /\ wish' = [wish EXCEPT ![u] = asked]
       /\ contested' = [contested EXCEPT ![u] = moot]
  BY <1>1, <1>2, <1>5, <1>6, <1>8 DEF Notices!SavePreference, NoticeInv, NoticeTypes
<1>11. leave' = [n \in Notices!Notes |->
                   IF /\ n[2] = u
                      /\ send[n[1]].kind \in {"create", "dispatch"} /\ send[n[1]].to = u
                   THEN leave[n] \cup Notices!Open(u, wish', contested') ELSE leave[n]]
  BY <1>1 DEF Notices!SavePreference
<1>12. \A v \in Users :
         /\ prefs'[v] = IF v = u THEN row ELSE prefs[v]
         /\ wish'[v] = IF v = u THEN asked ELSE wish[v]
         /\ contested'[v] = IF v = u THEN moot ELSE contested[v]
  BY <1>7, <1>10 DEF NoticeInv, NoticeTypes
<1>13. \A q \in Requests : req'[q] = IF q = r THEN x ELSE req[q]
  BY <1>7 DEF NoticeInv, NoticeTypes
<1>14. x \in Settling /\ x.kind = "end"
  BY <1>3 DEF Settling
<1>15. Notices!Open(u, wish', contested') \subseteq Notices!Channels
  BY DEF Notices!Open
<1>16. NoticeTypes'
  BY <1>7, <1>8, <1>9, <1>10, <1>11, <1>14, <1>15 DEF NoticeInv, NoticeTypes
<1>17. Agreed'
  <2> SUFFICES ASSUME NEW v \in Users, NEW c \in Notices!Channels, prefs'[v][c]
               PROVE  wish'[v][c] \/ c \in contested'[v]
    BY DEF Agreed, Notices!Open
  <2>1. CASE v # u
    BY <1>12, <2>1 DEF NoticeInv, Agreed, Notices!Open
  <2>2. CASE v = u /\ c \in DOMAIN patch
    BY <1>4, <1>5, <1>12, <2>2, PatchedChannels
  <2>3. CASE v = u /\ c \notin DOMAIN patch
    <3>1. req[r].copy[c] /\ asked[c] = wish[u][c]
      BY <1>4, <1>5, <1>12, <2>3, PatchedChannels
    <3>2. CASE req[r].overlaps
      BY <1>6, <1>12, <2>3, <3>2
    <3>3. CASE ~req[r].overlaps
      <4>1. req[r].copy = prefs[u]
        BY <1>1, <1>7, <3>3 DEF NoticeInv, Settles
      <4>2. wish[u][c] \/ c \in contested[u]
        BY <1>8, <3>1, <4>1 DEF NoticeInv, Agreed, Notices!Open
      <4>3. c \in contested[u] => c \in moot
        BY <1>6, <2>3
      <4>4. QED
        BY <1>12, <2>3, <3>1, <4>2, <4>3
    <3>4. QED
      BY <3>2, <3>3
  <2>4. QED
    BY <2>1, <2>2, <2>3
<1>18. \A n \in Notices!Notes : leave[n] \subseteq leave'[n]
  BY <1>11
<1>19. Kept' /\ Heard'
  BY <1>7, <1>18 DEF NoticeInv, Kept, Heard, There
<1>20. \A s \in Senders : Sends(s)'
  <2> SUFFICES ASSUME NEW s \in Senders PROVE Sends(s)'
    OBVIOUS
  <2>1. Sends(s) /\ send'[s] = send[s] /\ note' = note
    BY <1>7 DEF NoticeInv
  <2>2. send[s].kind \in {"create", "dispatch"} =>
          /\ leave[<<s, send[s].to>>] \subseteq leave'[<<s, send[s].to>>]
          /\ Notices!Open(send[s].to, wish', contested') \subseteq leave'[<<s, send[s].to>>]
    <3> SUFFICES ASSUME send[s].kind \in {"create", "dispatch"}
                 PROVE  /\ leave[<<s, send[s].to>>] \subseteq leave'[<<s, send[s].to>>]
                        /\ Notices!Open(send[s].to, wish', contested')
                             \subseteq leave'[<<s, send[s].to>>]
      OBVIOUS
    <3>1. send[s].to \in Users /\ <<s, send[s].to>> \in Notices!Notes
      BY SendKinds DEF NoticeInv, Notices!Notes
    <3>2. CASE send[s].to = u
      BY <1>11, <3>1, <3>2
    <3>3. CASE send[s].to # u
      <4>1. Notices!Open(send[s].to, wish', contested')
              = Notices!Open(send[s].to, wish, contested)
        BY <1>12, <3>1, <3>3 DEF Notices!Open
      <4>2. QED
        BY <1>18, <2>1, <3>1, <4>1 DEF Sends
    <3>4. QED
      BY <3>2, <3>3
  <2>3. QED
    BY <2>1, <2>2 DEF Sends, There
<1>21. \A q \in Requests : Settles(q)'
  <2> SUFFICES ASSUME NEW q \in Requests PROVE Settles(q)'
    OBVIOUS
  <2>1. CASE q = r
    BY <1>13, <1>14, <2>1 DEF Settles
  <2>2. CASE q # r
    <3>1. req'[q] = req[q] /\ Settles(q) /\ note' = note
      BY <1>7, <1>13, <2>2 DEF NoticeInv
    <3>2. req[q].kind = "patch" /\ ~req[q].overlaps => req[q].user \in Users /\ req[q].user # u
      BY <1>1, <1>7, <2>2, <3>1, RequestKinds DEF NoticeInv, Settles
    <3>3. \A p \in Requests : req'[p].kind = "patch" => req'[p] = req[p]
      BY <1>13, <1>14
    <3>4. QED
      BY <1>12, <3>1, <3>2, <3>3 DEF Settles, There
  <2>3. QED
    BY <2>1, <2>2
<1>22. QED
  BY <1>16, <1>17, <1>19, <1>20, <1>21 DEF NoticeInv

----------------------------------------------------------------------------
LEMMA NoticeStep ==
  ASSUME Notices!CallsAssumption, Notices!PatchesAssumption, Notices!NoNoteAssumption,
         NoticeInv, [Notices!Next]_(Notices!vars)
  PROVE  NoticeInv'
<1>1. CASE UNCHANGED Notices!vars
  <2>1. UNCHANGED <<prefs, note, send, req, connected, heard, wish, contested, leave>>
    BY <1>1 DEF Notices!vars
  <2>2. NoticeTypes' /\ Agreed' /\ Kept' /\ Heard'
    BY <2>1 DEF NoticeInv, NoticeTypes, Agreed, Kept, Heard, There, Notices!Open
  <2>3. (\A s \in Senders : Sends(s)') /\ (\A r \in Requests : Settles(r)')
    BY <2>1 DEF NoticeInv, Sends, Settles, There, Notices!Open
  <2>4. QED
    BY <2>2, <2>3 DEF NoticeInv
<1>2. ASSUME NEW s \in Senders,
             \/ \E call \in Calls, to \in SUBSET Users : Notices!Start(s, call, to)
             \/ \E u \in Users : Notices!Gate(s, u)
             \/ Notices!Create(s) \/ Notices!DispatchWebsocket(s) \/ Notices!DispatchEmail(s)
             \/ Notices!Commit(s) \/ Notices!Die(s)
      PROVE  NoticeInv'
  BY <1>2, CallBegins, CallGates, CallCreates, CallDispatchSteps, CallCommits, CallDies
<1>3. ASSUME NEW u \in Users, Notices!Connect(u) \/ Notices!Disconnect(u) PROVE NoticeInv'
  BY <1>3, BrowserMoves
<1>4. ASSUME NEW r \in Requests,
             \/ \E n \in Notices!Notes, asked \in BOOLEAN : Notices!ReadNote(r, n, asked)
             \/ Notices!SaveMark(r)
             \/ \E u \in Users : Notices!MarkAll(r, u)
             \/ Notices!CommitMarkAll(r)
             \/ \E u \in Users, patch \in Patches : Notices!ReadPreference(r, u, patch)
             \/ Notices!SavePreference(r)
      PROVE  NoticeInv'
  BY <1>4, NoteRead, MarkSaved, AllMarked, MarkAllCommitted, PreferenceRead, PreferenceSaved
<1>5. QED
  BY <1>1, <1>2, <1>3, <1>4 DEF Notices!Next

(* The invariant of the notifications holds in every reachable state. *)
THEOREM NoticeInvHolds ==
  ASSUME Notices!CallsAssumption, Notices!PatchesAssumption, Notices!NoNoteAssumption
  PROVE  Notices!Spec => []NoticeInv
BY NoticeInit, NoticeStep, PTL DEF Notices!Spec

(* Notifications.TypeOK: the kinds of the calls and requests, and the      *)
(* rows; no e-mail is ever sent, and a browser hears of a notification     *)
(* that is there, or whose send has yet to commit or has died. *)
THEOREM NoticeTypeCorrect ==
  ASSUME Notices!CallsAssumption, Notices!PatchesAssumption, Notices!NoNoteAssumption
  PROVE  Notices!Spec => []Notices!TypeOK
<1>1. NoticeInv => Notices!TypeOK
  <2> SUFFICES ASSUME NoticeInv PROVE Notices!TypeOK
    OBVIOUS
  <2>1. /\ \A s \in Senders : send[s].kind \in {"new", "between", "create", "dispatch", "died"}
        /\ \A r \in Requests :
             req[r].kind \in {"new", "mark", "marked_all", "patch", "not_found", "end"}
    BY SendKinds, RequestKinds DEF NoticeInv
  <2>2. \A n \in Notices!Notes : note[n] # NoNote =>
          /\ note[n] \in Notices!Notification
          /\ "email" \in DOMAIN note[n].deliveries => note[n].deliveries["email"] # "sent"
    BY DEF NoticeInv, NoticeTypes, Kept, There, Unmailed
  <2>3. \A u \in Users : \A n \in heard[u] :
          \/ note[n] # NoNote
          \/ send[n[1]].kind = "died"
          \/ send[n[1]].kind = "dispatch" /\ send[n[1]].to = u
    BY DEF NoticeInv, Heard, There
  <2>4. QED
    BY <2>1, <2>2, <2>3 DEF NoticeInv, NoticeTypes, Notices!TypeOK
<1>2. QED
  BY <1>1, NoticeInvHolds, PTL

(* Notifications.OptOutHonoured: a channel that a member has switched off  *)
(* carries no notification whose send began after, but where requests for  *)
(* the member's settings overlapped. *)
THEOREM OptOutIsHonoured ==
  ASSUME Notices!CallsAssumption, Notices!PatchesAssumption, Notices!NoNoteAssumption
  PROVE  Notices!Spec => []Notices!OptOutHonoured
<1>1. NoticeInv => Notices!OptOutHonoured
  BY DEF NoticeInv, Kept, There, Carried, Notices!OptOutHonoured, Notices!Through
<1>2. QED
  BY <1>1, NoticeInvHolds, PTL
===============================================================================
