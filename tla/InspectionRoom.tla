----------------------------- MODULE InspectionRoom -----------------------------
(***************************************************************************)
(* The websocket room of one vehicle: the consumers of inspections/        *)
(* consumers.py, what they do to the vehicle's latest inspection (services *)
(* /inspection_room.py), and what the people in the room are shown.        *)
(*                                                                         *)
(* A consumer handles one message at a time.  Its database functions run   *)
(* in autocommit, each statement a step, and overlap with those of the     *)
(* consumers in other processes.  No code makes an inspection or its       *)
(* items: they are given, and so are the permissions.                      *)
(***************************************************************************)
EXTENDS Naturals, Sequences, FiniteSets

CONSTANTS
  Members,           \* the connections there may be, each of one person
  Items,             \* the items of the inspection
  Statuses,          \* the statuses an item is ever set to
  Idle,              \* a consumer that handles nothing
  Nothing,           \* what a client shows before the first snapshot
  Capacity,          \* the messages a channel of the layer holds
  MaxSaves           \* bound on the saves of items

ASSUME ItemsAssumption == IsFiniteSet(Items)
ASSUME StatusesAssumption ==
  {"ok"} \subseteq Statuses /\ Statuses \subseteq {"ok", "needs_attention", "na"}
ASSUME BoundsAssumption == Capacity \in Nat \ {0} /\ MaxSaves \in Nat

VARIABLES
  item,              \* the InspectionItem rows
  counters,          \* the counters in the Inspection row
  saves,             \* the number of saves of items so far
  saved,             \* the last save of each field
  told,              \* whether it was also the last to be broadcast
  room,              \* who is connected, and how
  queue,             \* the events in each one's channel
  missed,            \* whether the full channel refused one
  view,              \* what each one is shown
  task               \* what each consumer is doing

vars == <<item, counters, saves, saved, told, room, queue, missed, view, task>>
database == <<item, counters, saves, saved>>

Fields == {"status", "notes"}

(* A note is named after the save that wrote it.  saved and told are not   *)
(* in the code; nor is asof, the save whose request wrote the counters.    *)
Item == [status : Statuses, notes : 0..MaxSaves]
Counters ==
  [total : 0..Cardinality(Items), ok : 0..Cardinality(Items),
   needs_attention : 0..Cardinality(Items), asof : 0..MaxSaves]
Event ==
  [item : Items, field : {"status"}, value : Statuses]
    \cup [item : Items, field : {"notes"}, value : 0..MaxSaves]

(* New items are ok, and no one has counted them. *)
Init ==
  /\ item = [i \in Items |-> [status |-> "ok", notes |-> 0]]
  /\ counters = [total |-> 0, ok |-> 0, needs_attention |-> 0, asof |-> 0]
  /\ saves = 0
  /\ saved = [i \in Items |-> [f \in Fields |-> 0]]
  /\ told = [i \in Items |-> [f \in Fields |-> TRUE]]
  /\ room = [m \in Members |-> "out"]
  /\ queue = [m \in Members |-> <<>>]
  /\ missed = [m \in Members |-> FALSE]
  /\ view = [m \in Members |-> Nothing]
  /\ task = [m \in Members |-> Idle]

Kind(m) == IF task[m] = Idle THEN "idle" ELSE task[m].kind
Become(m, t) == task' = [task EXCEPT ![m] = t]

----------------------------------------------------------------------------
(* connect: who may edit is settled here, once; the group is joined before *)
(* the snapshot is read. *)
Connect(m, mode) ==
  /\ room[m] = "out"
  /\ room' = [room EXCEPT ![m] = mode]
  /\ Become(m, [kind |-> "snapshot"])
  /\ UNCHANGED <<database, told, queue, missed, view>>

(* db_build_inspection_snapshot, of a consumer that has joined or is asked *)
(* for it. *)
ReadSnapshot(m) ==
  /\ room[m] # "out"
  /\ Kind(m) \in {"snapshot", "idle"}
  /\ Become(m, [kind |-> "show", items |-> item])
  /\ UNCHANGED <<database, told, room, queue, missed, view>>

SendSnapshot(m) ==
  /\ Kind(m) = "show"
  /\ view' = [view EXCEPT ![m] = task[m].items]
  /\ Become(m, Idle)
  /\ UNCHANGED <<database, told, room, queue, missed>>

(* The person leaves, or the consumer fails or its process dies, whatever  *)
(* it was doing. *)
Disconnect(m) ==
  /\ room[m] # "out"
  /\ room' = [room EXCEPT ![m] = "out"]
  /\ queue' = [queue EXCEPT ![m] = <<>>]
  /\ missed' = [missed EXCEPT ![m] = FALSE]
  /\ view' = [view EXCEPT ![m] = Nothing]
  /\ Become(m, Idle)
  /\ UNCHANGED <<database, told>>

----------------------------------------------------------------------------
(* Variant: read_only is not asked. *)
MayEditAny(m) == room[m] # "out"

MayEdit(m) == room[m] = "edit"

Save(m, i, f, value, next) ==
  /\ MayEdit(m)
  /\ task[m] = Idle
  /\ saves < MaxSaves
  /\ saves' = saves + 1
  /\ item' = [item EXCEPT ![i][f] = value]
  /\ saved' = [saved EXCEPT ![i][f] = saves + 1]
  /\ Become(m, [kind |-> next, save |-> saves + 1,
                event |-> [item |-> i, field |-> f, value |-> value]])
  /\ told' = [told EXCEPT ![i][f] = FALSE]
  /\ UNCHANGED <<counters, room, queue, missed, view>>

(* db_item_status_set, which counts after; db_item_note_set. *)
SetStatus(m, i, s) == Save(m, i, "status", s, "count_ok")
SetNote(m, i) == Save(m, i, "notes", saves + 1, "broadcast")

WithStatus(s) == Cardinality({i \in Items : item[i].status = s})

CountOk(m) ==
  /\ Kind(m) = "count_ok"
  /\ Become(m, [kind |-> "count_needs_attention", save |-> task[m].save,
                event |-> task[m].event, ok |-> WithStatus("ok")])
  /\ UNCHANGED <<database, told, room, queue, missed, view>>

CountNeedsAttention(m) ==
  /\ Kind(m) = "count_needs_attention"
  /\ Become(m, [kind |-> "save", save |-> task[m].save, event |-> task[m].event,
                ok |-> task[m].ok, needs_attention |-> WithStatus("needs_attention")])
  /\ UNCHANGED <<database, told, room, queue, missed, view>>

(* Variant: update_fields leaves a counter out. *)
CountersBut(m) ==
  [counters EXCEPT !.total = Cardinality(Items), !.ok = task[m].ok, !.asof = task[m].save]

CountersOf(m) ==
  [total |-> Cardinality(Items), ok |-> task[m].ok,
   needs_attention |-> task[m].needs_attention, asof |-> task[m].save]

SaveCounters(m) ==
  /\ Kind(m) = "save"
  /\ counters' = CountersOf(m)
  /\ Become(m, [kind |-> "broadcast", save |-> task[m].save, event |-> task[m].event])
  /\ UNCHANGED <<item, saves, saved, told, room, queue, missed, view>>

(* Variant: the group is joined after the snapshot. *)
InGroupOnceShown(m) == room[m] # "out" /\ Kind(m) \notin {"snapshot", "show"}

InGroup(m) == room[m] # "out"

(* group_send puts the event into the channel of everyone in the group,    *)
(* the sender's as well, and drops it where there is no room. *)
Broadcast(m) ==
  /\ Kind(m) = "broadcast"
  /\ LET e == task[m].event
         Full(n) == Len(queue[n]) = Capacity
     IN /\ queue' = [n \in Members |->
                       IF InGroup(n) /\ ~Full(n) THEN Append(queue[n], e) ELSE queue[n]]
        /\ missed' = [n \in Members |-> missed[n] \/ (InGroup(n) /\ Full(n))]
        /\ told' = [told EXCEPT ![e.item][e.field] =
                                   (task[m].save = saved[e.item][e.field])]
  /\ Become(m, Idle)
  /\ UNCHANGED <<database, room, view>>

(* room_event *)
RoomEvent(m) ==
  /\ task[m] = Idle
  /\ queue[m] # <<>>
  /\ LET e == Head(queue[m]) IN view' = [view EXCEPT ![m][e.item][e.field] = e.value]
  /\ queue' = [queue EXCEPT ![m] = Tail(@)]
  /\ UNCHANGED <<database, told, room, missed, task>>

Next ==
  \E m \in Members :
    \/ \E mode \in {"read_only", "edit"} : Connect(m, mode)
    \/ ReadSnapshot(m) \/ SendSnapshot(m) \/ Disconnect(m)
    \/ \E i \in Items, s \in Statuses : SetStatus(m, i, s)
    \/ \E i \in Items : SetNote(m, i)
    \/ CountOk(m) \/ CountNeedsAttention(m) \/ SaveCounters(m)
    \/ Broadcast(m) \/ RoomEvent(m)

Spec == Init /\ [][Next]_vars

----------------------------------------------------------------------------
Counted == 0..Cardinality(Items)
Task ==
  [kind : {"snapshot"}] \cup [kind : {"show"}, items : [Items -> Item]]
    \cup [kind : {"count_ok", "broadcast"}, save : 1..MaxSaves, event : Event]
    \cup [kind : {"count_needs_attention"}, save : 1..MaxSaves, event : Event, ok : Counted]
    \cup [kind : {"save"}, save : 1..MaxSaves, event : Event, ok : Counted,
          needs_attention : Counted]

ASSUME IdleAssumption == Idle \notin Task

(* Only a consumer that connected as an editor is ever in a save, and one  *)
(* that is out holds nothing. *)
TypeOK ==
  /\ item \in [Items -> Item]
  /\ counters \in Counters
  /\ saves \in 0..MaxSaves
  /\ saved \in [Items -> [Fields -> 0..saves]]
  /\ told \in [Items -> [Fields -> BOOLEAN]]
  /\ room \in [Members -> {"out", "read_only", "edit"}]
  /\ \A m \in Members : queue[m] \in Seq(Event) /\ Len(queue[m]) <= Capacity
  /\ missed \in [Members -> BOOLEAN]
  /\ view \in [Members -> [Items -> Item] \cup {Nothing}]
  /\ task \in [Members -> Task \cup {Idle}]
  /\ \A m \in Members :
       /\ Kind(m) \notin {"idle", "snapshot", "show"} => room[m] = "edit"
       /\ room[m] = "out" => queue[m] = <<>> /\ task[m] = Idle /\ view[m] = Nothing

(* The counters are true whenever the request that wrote them last is the  *)
(* one that saved an item's status last: only requests that overlap or die *)
(* leave them false (db_item_status_set), and the next one repairs them.   *)
CountersTrue ==
  (counters.asof > 0 /\ \A i \in Items : saved[i]["status"] <= counters.asof) =>
    /\ counters.total = Cardinality(Items)
    /\ counters.ok = WithStatus("ok")
    /\ counters.needs_attention = WithStatus("needs_attention")

(* Whoever has handled everything shows what is stored, whenever they came *)
(* and asked: as long as their channel refused nothing and the last save   *)
(* of the field was also the last to be broadcast.  (Two sets may swap     *)
(* between save and broadcast, and one that dies broadcasts nothing.)      *)
SettledView ==
  \A m \in Members :
    room[m] # "out" /\ task[m] = Idle /\ queue[m] = <<>> /\ ~missed[m] =>
      \A i \in Items, f \in Fields :
        told[i][f] => view[m][i][f] = item[i][f]
=============================================================================
