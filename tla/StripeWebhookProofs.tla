-------------------------- MODULE StripeWebhookProofs --------------------------
(***************************************************************************)
(* Theorems about StripeWebhook, for any subscriptions, invoices, columns  *)
(* and number of events; the last is that it implements                    *)
(* SubscriptionMirror.                                                     *)
(***************************************************************************)
EXTENDS StripeWebhook, TLAPS

(* What Stripe has told is what it has had, and no row is from the future. *)
Emissions ==
  /\ \A o \in Objects : stripe[o] # NoRow => stripe[o] \in was[o]
  /\ \A e \in Emitted :
       /\ msgs[e].type = "object" => msgs[e].columns \in was[msgs[e].object]
       /\ msgs[e].type = "checkout" => \A o \in Targets(e) : stripe[o] # NoRow
  /\ \A o \in Objects : asof[o] <= Len(msgs)

(* How far an event has come, its record and its locks agree: in           *)
(* particular the handler of a subscription holds the customer row.        *)
Stages ==
  \A e \in Events :
    /\ pc[e] = "none" <=> rec[e] = "none"
    /\ pc[e] # "none" => e \in Emitted
    /\ pc[e] \in InFlight => rec[e] = "received"
    /\ pc[e] \in {"locked", "written"} => msgs[e].type # "other"
    /\ pc[e] = "locked" /\ ~(Targets(e) \subseteq Invoices) => lock[Customer] = e
    /\ pc[e] = "written" =>
         Targets(e) \subseteq Invoices /\ \A o \in Targets(e) : seen[e][o] # None

(* What a handler has read of a row, and means to write: a subscription's  *)
(* row is still as it was read, and no newer than what a checkout fetched. *)
ReadHolds(e, o) ==
  /\ pc[e] \in {"locked", "written"}
  /\ o \in Targets(e)
  /\ seen[e][o].new.columns \in was[o]
  /\ seen[e][o].new.at <= Len(msgs)
  /\ seen[e][o].row # NoRow => row[o] # NoRow
  /\ o \in Subs =>
       /\ seen[e][o].row = row[o]
       /\ msgs[e].type = "checkout" => asof[o] <= seen[e][o].new.at

Reads == \A e \in Events, o \in Objects : seen[e][o] # None => ReadHolds(e, o)

IInv == TypeOK /\ Emissions /\ Stages /\ Reads /\ SubscriptionsNotTorn

----------------------------------------------------------------------------
LEMMA InitIInv == Init => IInv
<1> SUFFICES ASSUME Init PROVE IInv
  OBVIOUS
<1>1. TypeOK
  BY MaxEventsAssumption DEF Init, TypeOK, Objects
<1>2. Emissions
  BY DEF Init, Emissions, Emitted
<1>3. Stages
  BY DEF Init, Stages, InFlight
<1>4. Reads /\ SubscriptionsNotTorn
  BY DEF Init, Reads, SubscriptionsNotTorn, Objects
<1>5. QED
  BY <1>1, <1>2, <1>3, <1>4 DEF IInv

(* The messages so far, and what the handlers of each write. *)
LEMMA MessageOK ==
  ASSUME TypeOK, NEW e \in Emitted
  PROVE  e \in Events /\ msgs[e] \in Message
BY MaxEventsAssumption DEF TypeOK, Emitted, Events

LEMMA TargetsOK ==
  ASSUME TypeOK, NEW e \in Emitted, msgs[e].type # "other"
  PROVE  /\ msgs[e].type \in {"object", "checkout"}
         /\ Targets(e) \subseteq Objects
         /\ \A s, t \in Targets(e) \cap Subs : s = t
         /\ msgs[e].type = "object" =>
              /\ msgs[e].object \in Objects /\ msgs[e].columns \in Columns
              /\ Targets(e) = {msgs[e].object}
BY MessageOK, ObjectsAssumption DEF Message, Targets, Objects

LEMMA NewColumnsOK ==
  ASSUME TypeOK, Emissions, NEW e \in Emitted, msgs[e].type # "other", NEW o \in Targets(e)
  PROVE  /\ NewColumns(e, o).columns \in Columns
         /\ NewColumns(e, o).columns \in was[o]
         /\ NewColumns(e, o).at \in 0..MaxEvents
         /\ NewColumns(e, o).at <= Len(msgs)
         /\ msgs[e].type = "checkout" => NewColumns(e, o).at = Len(msgs)
<1>1. /\ o \in Objects /\ e \in 0..MaxEvents /\ e <= Len(msgs)
      /\ Len(msgs) \in 0..MaxEvents
  BY TargetsOK, MessageOK, MaxEventsAssumption DEF TypeOK, Emitted, Events
<1>2. CASE msgs[e].type = "checkout"
  BY <1>1, <1>2 DEF NewColumns, Emissions, TypeOK
<1>3. CASE msgs[e].type = "object"
  BY <1>1, <1>3, TargetsOK DEF NewColumns, Emissions
<1>4. QED
  BY <1>2, <1>3, TargetsOK

----------------------------------------------------------------------------
(* A message more leaves what is known of the others as it was. *)
LEMMA EmitKeeps ==
  ASSUME IInv, NEW m \in Message, Emit(m),
         stripe' \in [Objects -> Columns \cup {NoRow}],
         was' \in [Objects -> SUBSET Columns],
         \A o \in Objects :
           /\ was[o] \subseteq was'[o]
           /\ stripe'[o] # NoRow => stripe'[o] \in was'[o]
           /\ stripe[o] # NoRow => stripe'[o] # NoRow,
         m.type = "object" => m.columns \in was'[m.object],
         m.type = "checkout" => \A o \in {m.object} \cup m.invoice : stripe'[o] # NoRow
  PROVE  IInv'
<1>1. /\ msgs' \in Seq(Message) /\ Len(msgs) \in Nat
      /\ Len(msgs') = Len(msgs) + 1 /\ Len(msgs') <= MaxEvents
      /\ \A e \in Emitted : msgs'[e] = msgs[e]
      /\ msgs'[Len(msgs')] = m
  BY MaxEventsAssumption DEF IInv, TypeOK, Emit, Emitted
<1>2. /\ Emitted \subseteq Emitted'
      /\ \A e \in Emitted' : e \in Emitted \/ e = Len(msgs')
  BY <1>1 DEF Emitted
<1>3. \A e \in Emitted : Targets(e)' = Targets(e)
  BY <1>1 DEF Targets
<1>4. UNCHANGED <<rec, pc, lock, seen, row, asof>>
  BY DEF Emit
<1>5. TypeOK'
  BY <1>1, <1>4 DEF IInv, TypeOK
<1>6. Emissions'
  <2>1. \A o \in Objects : asof[o] \in Nat /\ asof[o] <= Len(msgs)
    BY DEF IInv, Emissions, TypeOK
  <2>2. ASSUME NEW e \in Emitted
        PROVE  /\ msgs[e].type = "object" => msgs[e].columns \in was'[msgs[e].object]
               /\ msgs[e].type = "checkout" => \A o \in Targets(e) : stripe'[o] # NoRow
    BY TargetsOK DEF IInv, Emissions
  <2>3. ASSUME NEW e \in Emitted'
        PROVE  /\ msgs'[e].type = "object" => msgs'[e].columns \in was'[msgs'[e].object]
               /\ msgs'[e].type = "checkout" => \A o \in Targets(e)' : stripe'[o] # NoRow
    <3>1. CASE e \in Emitted
      BY <1>1, <1>3, <2>2, <3>1
    <3>2. CASE e = Len(msgs')
      BY <1>1, <3>2 DEF Targets
    <3>3. QED
      BY <1>2, <3>1, <3>2
  <2>4. QED
    BY <1>1, <1>4, <2>1, <2>3 DEF Emissions
<1>7. Stages'
  BY <1>1, <1>2, <1>3, <1>4 DEF IInv, Stages, InFlight
<1>8. Reads'
  <2>1. \A e \in Events, o \in Objects :
          seen[e][o] # None => ReadHolds(e, o) /\ e \in Emitted /\ seen[e][o].new.at \in Nat
    BY DEF IInv, Reads, Stages, ReadHolds, TypeOK, Read
  <2>2. QED
    BY <1>1, <1>3, <1>4, <2>1 DEF Reads, ReadHolds
<1>9. SubscriptionsNotTorn'
  BY <1>4 DEF IInv, SubscriptionsNotTorn, Objects
<1>10. QED
  BY <1>5, <1>6, <1>7, <1>8, <1>9 DEF IInv

LEMMA StripeStep ==
  ASSUME IInv,
         (\E o \in Objects : StripeChange(o)) \/ (\E s \in Subs : StripeCheckout(s)) \/ StripeOther
  PROVE  IInv'
<1>1. ASSUME NEW o \in Objects, StripeChange(o) PROVE IInv'
  <2>1. PICK c \in Columns :
          /\ stripe' = [stripe EXCEPT ![o] = c]
          /\ was' = [was EXCEPT ![o] = @ \cup {c}]
          /\ Emit([type |-> "object", object |-> o, columns |-> c])
    BY <1>1, CreatedAssumption DEF StripeChange
  <2> DEFINE m == [type |-> "object", object |-> o, columns |-> c]
  <2>2. m \in Message /\ m.type = "object" /\ m.columns = c /\ m.object = o
    BY DEF Message
  <2>3. /\ stripe' \in [Objects -> Columns \cup {NoRow}]
        /\ was' \in [Objects -> SUBSET Columns]
        /\ c \in was'[o]
        /\ \A p \in Objects :
             /\ was[p] \subseteq was'[p]
             /\ stripe'[p] # NoRow => stripe'[p] \in was'[p]
             /\ stripe[p] # NoRow => stripe'[p] # NoRow
    BY <2>1, NoRowAssumption DEF IInv, TypeOK, Emissions
  <2> HIDE DEF m
  <2>4. Emit(m)
    BY <2>1 DEF m
  <2>5. QED
    BY <2>2, <2>3, <2>4, EmitKeeps
<1>2. ASSUME NEW s \in Subs, StripeCheckout(s) PROVE IInv'
  <2>1. PICK v \in SUBSET Invoices :
          /\ \A i \in v : stripe[i] # NoRow
          /\ Emit([type |-> "checkout", object |-> s, invoice |-> v])
    BY <1>2 DEF StripeCheckout
  <2> DEFINE m == [type |-> "checkout", object |-> s, invoice |-> v]
  <2>2. m \in Message /\ m.type = "checkout" /\ m.invoice = v /\ m.object = s
    BY DEF Message
  <2>3. stripe' = stripe /\ was' = was /\ \A o \in {s} \cup v : stripe[o] # NoRow
    BY <1>2, <2>1 DEF StripeCheckout
  <2> HIDE DEF m
  <2>4. Emit(m)
    BY <2>1 DEF m
  <2>5. QED
    BY <2>2, <2>3, <2>4, EmitKeeps DEF IInv, TypeOK, Emissions
<1>3. ASSUME StripeOther PROVE IInv'
  <2> DEFINE m == [type |-> "other"]
  <2>1. m \in Message /\ m.type = "other" /\ Emit(m)
    BY <1>3 DEF Message, StripeOther
  <2>2. stripe' = stripe /\ was' = was
    BY <1>3 DEF StripeOther
  <2> HIDE DEF m
  <2>3. QED
    BY <2>1, <2>2, EmitKeeps DEF IInv, TypeOK, Emissions
<1>4. QED
  BY <1>1, <1>2, <1>3

----------------------------------------------------------------------------
(* Every step of the server leaves the messages alone. *)
LEMMA ServerKeeps ==
  ASSUME IInv, UNCHANGED stripeVars, asof' \in [Objects -> 0..MaxEvents],
         \A o \in Objects : asof'[o] <= Len(msgs)
  PROVE  /\ Emissions'
         /\ Emitted' = Emitted /\ msgs' = msgs /\ was' = was /\ stripe' = stripe
         /\ \A e : Targets(e)' = Targets(e)
BY DEF IInv, stripeVars, Emissions, Emitted, Targets

LEMMA ReceiveKeeps ==
  ASSUME IInv, NEW e \in Events, Receive(e)
  PROVE  IInv'
<1>1. /\ Emissions'
      /\ Emitted' = Emitted /\ msgs' = msgs /\ was' = was /\ stripe' = stripe
      /\ \A d : Targets(d)' = Targets(d)
      /\ UNCHANGED <<lock, seen, row, asof>>
  BY ServerKeeps DEF Receive, IInv, TypeOK, Emissions
<1>2. TypeOK'
  BY <1>1 DEF IInv, TypeOK, Receive, WebhookProcessingStatus, InFlight
<1>3. Stages'
  BY <1>1 DEF IInv, TypeOK, Receive, Stages, InFlight
<1>4. Reads'
  BY <1>1 DEF IInv, TypeOK, Receive, Reads, ReadHolds, Stages
<1>5. SubscriptionsNotTorn'
  BY <1>1 DEF IInv, SubscriptionsNotTorn
<1>6. QED
  BY <1>1, <1>2, <1>3, <1>4, <1>5 DEF IInv

(* A handler that ends without writing a row. *)
LEMMA EndKeeps ==
  ASSUME IInv, NEW e \in Events, NEW outcome \in Final, End(e, outcome), pc[e] \in InFlight,
         UNCHANGED <<row, asof>>,
         \/ rec' = rec
         \/ outcome = "ignored" /\ rec' = [rec EXCEPT ![e] = "ignored"]
  PROVE  IInv'
<1>1. /\ Emissions'
      /\ Emitted' = Emitted /\ msgs' = msgs /\ was' = was /\ stripe' = stripe
      /\ \A d : Targets(d)' = Targets(d)
      /\ UNCHANGED <<row, asof>>
  BY ServerKeeps DEF End, IInv, TypeOK, Emissions
<1>2. rec[e] = "received" /\ e \in Emitted
  BY DEF IInv, Stages, InFlight
<1>3. /\ lock' \in [Rows -> Events \cup {NoEvent}]
      /\ seen' \in [Events -> [Objects -> Read \cup {None}]]
      /\ pc' \in [Events -> {"none"} \cup InFlight \cup Final]
      /\ rec' \in [Events -> WebhookProcessingStatus \cup {"none"}]
      /\ \A o \in Objects : seen'[e][o] = None
      /\ pc'[e] = outcome /\ rec'[e] # "none"
      /\ outcome \in {"failed", "crashed"} => rec'[e] = "received"
      /\ \A d \in Events \ {e} :
           /\ seen'[d] = seen[d] /\ pc'[d] = pc[d] /\ rec'[d] = rec[d]
           /\ \A r \in Rows : lock[r] = d => lock'[r] = d
  BY <1>2 DEF End, IInv, TypeOK, WebhookProcessingStatus
<1>4. TypeOK'
  BY <1>1, <1>3 DEF IInv, TypeOK
<1>5. Stages'
  BY <1>1, <1>2, <1>3 DEF IInv, Stages, InFlight, Final, Rows
<1>6. Reads'
  BY <1>1, <1>3 DEF IInv, Reads, ReadHolds
<1>7. SubscriptionsNotTorn'
  BY <1>1 DEF IInv, SubscriptionsNotTorn
<1>8. QED
  BY <1>1, <1>4, <1>5, <1>6, <1>7 DEF IInv

LEMMA LockKeeps ==
  ASSUME IInv, NEW e \in Events, LockCustomer(e)
  PROVE  IInv'
<1>1. /\ Emissions'
      /\ Emitted' = Emitted /\ msgs' = msgs /\ was' = was /\ stripe' = stripe
      /\ \A d : Targets(d)' = Targets(d)
      /\ UNCHANGED <<rec, seen, row, asof>>
  BY ServerKeeps DEF LockCustomer, IInv, TypeOK, Emissions
<1>2. /\ pc' = [pc EXCEPT ![e] = "locked"]
      /\ pc[e] = "begun" /\ msgs[e].type # "other"
      /\ ~(Targets(e) \subseteq Invoices) => lock'[Customer] = e
      /\ lock' \in [Rows -> Events \cup {NoEvent}]
      /\ \A d \in Events : lock[Customer] = d => lock'[Customer] = d
  BY DEF LockCustomer, IInv, TypeOK, Rows, NoEvent, Events
<1>3. TypeOK'
  BY <1>1, <1>2 DEF IInv, TypeOK, InFlight, Final
<1>4. Stages'
  BY <1>1, <1>2 DEF IInv, TypeOK, Stages, InFlight
<1>5. Reads'
  BY <1>1, <1>2 DEF IInv, TypeOK, Reads, ReadHolds
<1>6. SubscriptionsNotTorn'
  BY <1>1 DEF IInv, SubscriptionsNotTorn
<1>7. QED
  BY <1>1, <1>3, <1>4, <1>5, <1>6 DEF IInv

LEMMA ReadKeeps ==
  ASSUME IInv, NEW e \in Events, ReadRow(e)
  PROVE  IInv'
<1>1. /\ Emissions'
      /\ Emitted' = Emitted /\ msgs' = msgs /\ was' = was /\ stripe' = stripe
      /\ \A d : Targets(d)' = Targets(d)
      /\ UNCHANGED <<rec, pc, lock, row, asof>>
  BY ServerKeeps DEF ReadRow, IInv, TypeOK, Emissions
<1>2. PICK o \in Targets(e) :
        /\ seen[e][o] = None
        /\ seen' = [seen EXCEPT ![e][o] = [row |-> row[o], new |-> NewColumns(e, o)]]
  BY DEF ReadRow
<1>3. pc[e] = "locked" /\ e \in Emitted /\ msgs[e].type # "other" /\ o \in Objects
  BY TargetsOK DEF ReadRow, IInv, Stages
<1>4. /\ NewColumns(e, o).columns \in Columns
      /\ NewColumns(e, o).columns \in was[o]
      /\ NewColumns(e, o).at \in 0..MaxEvents
      /\ NewColumns(e, o).at <= Len(msgs)
      /\ msgs[e].type = "checkout" => NewColumns(e, o).at = Len(msgs)
  BY <1>3, NewColumnsOK DEF IInv
<1>5. /\ seen'[e][o].row = row[o] /\ seen'[e][o].new = NewColumns(e, o)
      /\ seen'[e][o] # None
      /\ seen' \in [Events -> [Objects -> Read \cup {None}]]
      /\ \A d \in Events, p \in Objects : d # e \/ p # o => seen'[d][p] = seen[d][p]
  <2> DEFINE read == [row |-> row[o], new |-> NewColumns(e, o)]
  <2>1. NewColumns(e, o) \in [columns : Columns, at : 0..MaxEvents]
    <3>1. NewColumns(e, o) = [columns |-> NewColumns(e, o).columns, at |-> NewColumns(e, o).at]
      BY DEF NewColumns
    <3>2. QED
      BY <1>4, <3>1
  <2>2. read \in Read /\ read.row = row[o] /\ read.new = NewColumns(e, o)
    BY <1>3, <2>1 DEF IInv, TypeOK, Read
  <2>3. seen' = [seen EXCEPT ![e][o] = read]
    BY <1>2
  <2> HIDE DEF read
  <2>4. QED
    BY <1>3, <2>2, <2>3, NoneAssumption DEF IInv, TypeOK
<1>6. TypeOK'
  BY <1>1, <1>5 DEF IInv, TypeOK
<1>7. Stages'
  <2>1. \A d \in Events : pc[d] = "written" => d # e
    BY <1>3
  <2>2. \A d \in Events : pc[d] = "written" => Targets(d) \subseteq Objects
    BY TargetsOK DEF IInv, Stages
  <2>3. QED
    BY <1>1, <1>5, <2>1, <2>2 DEF IInv, Stages, InFlight
<1>8. Reads'
  <2>1. ReadHolds(e, o)'
    BY <1>1, <1>3, <1>4, <1>5 DEF ReadHolds, IInv, Emissions
  <2>2. ASSUME NEW d \in Events, NEW p \in Objects, d # e \/ p # o, seen[d][p] # None
        PROVE  ReadHolds(d, p)'
    BY <1>1, <1>5, <2>2 DEF IInv, Reads, ReadHolds
  <2>3. QED
    BY <1>5, <2>1, <2>2 DEF Reads
<1>9. SubscriptionsNotTorn'
  BY <1>1 DEF IInv, SubscriptionsNotTorn
<1>10. QED
  BY <1>1, <1>6, <1>7, <1>8, <1>9 DEF IInv

LEMMA RereadKeeps ==
  ASSUME IInv, NEW e \in Events, InsertRaced(e)
  PROVE  IInv'
<1>1. /\ Emissions'
      /\ Emitted' = Emitted /\ msgs' = msgs /\ was' = was /\ stripe' = stripe
      /\ \A d : Targets(d)' = Targets(d)
      /\ UNCHANGED <<rec, pc, lock, row, asof>>
  BY ServerKeeps DEF InsertRaced, IInv, TypeOK, Emissions
<1>2. pc[e] = "locked"
  BY DEF InsertRaced, AllRead
<1>3. /\ seen' \in [Events -> [Objects -> Read \cup {None}]]
      /\ \A d \in Events \ {e} : seen'[d] = seen[d]
      /\ \A o \in Objects : seen'[e][o] = seen[e][o] \/ seen'[e][o] = None
  <2>1. PICK o \in Targets(e) : seen' = [seen EXCEPT ![e][o] = None]
    BY DEF InsertRaced
  <2>2. seen \in [Events -> [Objects -> Read \cup {None}]]
    BY DEF IInv, TypeOK
  <2>3. QED
    BY <2>1, <2>2
<1>4. TypeOK'
  BY <1>1, <1>3 DEF IInv, TypeOK
<1>5. Stages'
  BY <1>1, <1>2, <1>3 DEF IInv, Stages, InFlight
<1>6. Reads'
  BY <1>1, <1>3 DEF IInv, Reads, ReadHolds
<1>7. SubscriptionsNotTorn'
  BY <1>1 DEF IInv, SubscriptionsNotTorn
<1>8. QED
  BY <1>1, <1>4, <1>5, <1>6, <1>7 DEF IInv

LEMMA WriteInvoiceKeeps ==
  ASSUME IInv, NEW e \in Events, WriteInvoice(e)
  PROVE  IInv'
<1>1. /\ Emissions'
      /\ Emitted' = Emitted /\ msgs' = msgs /\ was' = was /\ stripe' = stripe
      /\ \A d : Targets(d)' = Targets(d)
      /\ UNCHANGED <<rec, seen, row, asof>>
  BY ServerKeeps DEF WriteInvoice, IInv, TypeOK, Emissions
<1>2. /\ pc[e] = "locked" /\ pc' = [pc EXCEPT ![e] = "written"]
      /\ Targets(e) \subseteq Invoices
      /\ \A o \in Targets(e) : seen[e][o] # None
      /\ lock' = [r \in Rows |-> IF r \in Targets(e) THEN e ELSE lock[r]]
      /\ \A v \in Targets(e) : lock[v] \in {NoEvent, e}
  BY DEF WriteInvoice, AllRead, InvoicesFree
<1>3. \A d \in Events : lock[Customer] = d => lock'[Customer] = d
  BY <1>2 DEF Rows, Events, NoEvent
<1>4. TypeOK'
  BY <1>1, <1>2 DEF IInv, TypeOK, InFlight, Final
<1>5. Stages'
  BY <1>1, <1>2, <1>3 DEF IInv, TypeOK, Stages, InFlight
<1>6. Reads'
  BY <1>1, <1>2 DEF IInv, TypeOK, Reads, ReadHolds
<1>7. SubscriptionsNotTorn'
  BY <1>1 DEF IInv, SubscriptionsNotTorn
<1>8. QED
  BY <1>1, <1>4, <1>5, <1>6, <1>7 DEF IInv

----------------------------------------------------------------------------
(* The columns that a commit leaves in a row it writes: those Stripe gave  *)
(* it, if the row is a subscription's. *)
LEMMA WrittenOK ==
  ASSUME IInv, NEW e \in Events, NEW o \in Targets(e), seen[e][o] # None,
         o \in Objects
  PROVE  /\ Written(e, o) \in Columns
         /\ o \in Subs => Written(e, o) = seen[e][o].new.columns
<1>1. /\ seen[e][o] \in Read /\ ReadHolds(e, o)
      /\ row[o] \in Columns \cup {NoRow}
  BY DEF IInv, TypeOK, Reads
<1>2. CASE seen[e][o].row = NoRow
  <2>1. Written(e, o) = seen[e][o].new.columns
    BY <1>2 DEF Written
  <2>2. QED
    BY <1>1, <2>1 DEF Read
<1>3. CASE seen[e][o].row # NoRow
  <2>1. row[o] \in Columns /\ seen[e][o].row \in Columns /\ seen[e][o].new.columns \in Columns
    BY <1>1, <1>3 DEF ReadHolds, Read
  <2>2. Written(e, o) = Merge(seen[e][o].new.columns, seen[e][o].row, row[o])
    BY <1>3 DEF Written
  <2>3. \A new, read, now \in Columns :
          Merge(new, read, now) \in Columns /\ Merge(new, read, read) = new
    BY DEF Merge, Columns
  <2>4. o \in Subs => seen[e][o].row = row[o]
    BY <1>1 DEF ReadHolds
  <2>5. QED
    BY <2>1, <2>2, <2>3, <2>4
<1>4. QED
  BY <1>2, <1>3

(* Whoever writes a subscription is the only one that has read it. *)
LEMMA ReadsAlone ==
  ASSUME IInv, NEW e \in Events, pc[e] \in {"locked", "written"},
         NEW o \in Targets(e) \cap Subs, NEW d \in Events, seen[d][o] # None
  PROVE  d = e
<1>1. o \in Objects /\ o \notin Invoices
  BY ObjectsAssumption DEF Objects
<1>2. pc[d] \in {"locked", "written"} /\ o \in Targets(d)
  BY <1>1 DEF IInv, Reads, ReadHolds
<1>3. lock[Customer] = d /\ lock[Customer] = e
  BY <1>1, <1>2 DEF IInv, Stages
<1>4. QED
  BY <1>3

LEMMA CommitKeeps ==
  ASSUME IInv, NEW e \in Events, pc[e] \in {"locked", "written"}, Commit(e),
         \A o \in Targets(e) : seen[e][o] # None /\ Fits(o)
  PROVE  IInv'
<1>1. e \in Emitted /\ msgs[e].type # "other" /\ pc[e] \in InFlight /\ Targets(e) \subseteq Objects
  BY TargetsOK DEF IInv, Stages, InFlight
<1>2. \A o \in Targets(e) :
        /\ seen[e][o] \in Read /\ ReadHolds(e, o)
        /\ Written(e, o) \in Columns
        /\ o \in Subs => Written(e, o) = seen[e][o].new.columns
  BY <1>1, WrittenOK DEF IInv, TypeOK, Reads
<1>3. /\ row' \in [Objects -> Columns \cup {NoRow}]
      /\ \A o \in Targets(e) : row'[o] # NoRow /\ row'[o] = Written(e, o)
      /\ \A o \in Objects \ Targets(e) : row'[o] = row[o]
  BY <1>1, <1>2, NoRowAssumption DEF Commit, IInv, TypeOK
<1>4. /\ asof' \in [Objects -> 0..MaxEvents]
      /\ \A o \in Objects : asof'[o] <= Len(msgs)
      /\ \A o \in Objects \ Targets(e) : asof'[o] = asof[o]
  <2>1. \A o \in Targets(e) : seen[e][o].new.at \in 0..MaxEvents /\ seen[e][o].new.at <= Len(msgs)
    BY <1>2 DEF Read, ReadHolds
  <2>2. QED
    BY <1>1, <2>1 DEF Commit, IInv, TypeOK, Emissions
<1>5. /\ Emissions'
      /\ Emitted' = Emitted /\ msgs' = msgs /\ was' = was /\ stripe' = stripe
      /\ \A d : Targets(d)' = Targets(d)
  BY <1>4, ServerKeeps DEF Commit, End
<1>6. /\ rec' = [rec EXCEPT ![e] = "processed"] /\ pc' = [pc EXCEPT ![e] = "applied"]
      /\ lock' \in [Rows -> Events \cup {NoEvent}]
      /\ seen' \in [Events -> [Objects -> Read \cup {None}]]
      /\ \A o \in Objects : seen'[e][o] = None
      /\ \A d \in Events \ {e} :
           /\ seen'[d] = seen[d]
           /\ \A r \in Rows : lock[r] = d => lock'[r] = d
  BY DEF Commit, End, IInv, TypeOK
<1>7. TypeOK'
  <2>1. ASSUME NEW s \in Subs, NEW t \in Subs, row'[s] # NoRow, row'[t] # NoRow PROVE s = t
    <3>1. s \in Objects /\ t \in Objects
      BY DEF Objects
    <3>2. CASE s \in Targets(e) /\ t \in Targets(e)
      BY <1>1, <3>2, TargetsOK DEF IInv
    <3>3. CASE s \notin Targets(e) /\ t \notin Targets(e)
      BY <1>3, <2>1, <3>1, <3>3 DEF IInv, TypeOK
    <3>4. CASE s \in Targets(e) /\ t \notin Targets(e)
      BY <1>3, <2>1, <3>1, <3>4 DEF Fits
    <3>5. CASE s \notin Targets(e) /\ t \in Targets(e)
      BY <1>3, <2>1, <3>1, <3>5 DEF Fits
    <3>6. QED
      BY <3>2, <3>3, <3>4, <3>5
  <2>2. \A d \in Events : pc'[d] \in {"failed", "crashed"} => rec'[d] = "received"
    BY <1>6 DEF IInv, TypeOK
  <2>3. QED
    BY <1>3, <1>4, <1>5, <1>6, <2>1, <2>2
       DEF IInv, TypeOK, InFlight, Final, WebhookProcessingStatus
<1>8. Stages'
  BY <1>1, <1>5, <1>6 DEF IInv, TypeOK, Stages, InFlight, Final, Rows
<1>9. Reads'
  <2>1. ASSUME NEW d \in Events, NEW o \in Objects, seen'[d][o] # None PROVE ReadHolds(d, o)'
    <3>1. d # e /\ seen'[d] = seen[d] /\ pc'[d] = pc[d]
      BY <1>6, <2>1
    <3>2. ReadHolds(d, o)
      BY <2>1, <3>1 DEF IInv, Reads
    <3>3. o \in Subs => o \notin Targets(e)
      BY <2>1, <3>1, ReadsAlone
    <3>4. o \in Subs => row'[o] = row[o] /\ asof'[o] = asof[o]
      BY <1>3, <1>4, <3>3
    <3>5. row[o] # NoRow => row'[o] # NoRow
      BY <1>3
    <3>6. QED
      BY <1>5, <3>1, <3>2, <3>4, <3>5 DEF ReadHolds
  <2>2. QED
    BY <2>1 DEF Reads
<1>10. SubscriptionsNotTorn'
  <2>1. ASSUME NEW s \in Subs, row'[s] # NoRow PROVE row'[s] \in was[s]
    <3>1. CASE s \in Targets(e)
      BY <1>2, <1>3, <3>1 DEF ReadHolds
    <3>2. CASE s \notin Targets(e)
      BY <1>3, <2>1, <3>2 DEF IInv, SubscriptionsNotTorn, Objects
    <3>3. QED
      BY <3>1, <3>2
  <2>2. QED
    BY <1>5, <2>1 DEF SubscriptionsNotTorn
<1>11. QED
  BY <1>5, <1>7, <1>8, <1>9, <1>10 DEF IInv

(* The two ways to a commit. *)
LEMMA Commits ==
  ASSUME IInv, NEW e \in Events, Apply(e) \/ SaveCard(e)
  PROVE  /\ Commit(e) /\ pc[e] \in {"locked", "written"}
         /\ \A o \in Targets(e) : seen[e][o] # None /\ Fits(o)
BY ObjectsAssumption DEF Apply, SaveCard, AllRead, IInv, Stages, Fits

LEMMA StepIInv == IInv /\ [Next]_vars => IInv'
<1> SUFFICES ASSUME IInv, [Next]_vars PROVE IInv'
  OBVIOUS
<1>1. ASSUME NEW e \in Events, Ignore(e) \/ Conflict(e) \/ Fail(e) \/ Crash(e) PROVE IInv'
  <2>1. CASE Ignore(e)
    BY <2>1, EndKeeps DEF Ignore, Final, InFlight
  <2>2. CASE Conflict(e)
    BY <2>2, EndKeeps DEF Conflict, AllRead, Final, InFlight
  <2>3. CASE Fail(e) \/ Crash(e)
    BY <2>3, EndKeeps DEF Fail, Crash, Final
  <2>4. QED
    BY <1>1, <2>1, <2>2, <2>3
<1>2. CASE UNCHANGED vars
  BY <1>2 DEF vars, stripeVars, IInv, TypeOK, Emissions, Emitted, Targets, Stages, Reads, ReadHolds,
              SubscriptionsNotTorn
<1>3. ASSUME NEW e \in Events, Receive(e) \/ Redeliver(e) \/ Handle(e) \/ Fail(e) \/ Crash(e)
      PROVE  IInv'
  BY <1>1, <1>2, <1>3, ReceiveKeeps, LockKeeps, ReadKeeps, RereadKeeps, WriteInvoiceKeeps, Commits,
     CommitKeeps
     DEF Handle, Redeliver
<1>4. QED
  BY <1>2, <1>3, StripeStep DEF Next

(* What the handlers in flight have read stays true (get_or_create under   *)
(* the lock of upsert_billing_customer).                                   *)
THEOREM IInvHolds == Spec => []IInv
BY InitIInv, StepIInv, PTL DEF Spec

(* Records, stages, locks and rows keep their types; a company has one     *)
(* subscription row, and an event whose handler raised or died reads       *)
(* received for ever (process_stripe_event_record).                        *)
THEOREM TypeCorrect == Spec => []TypeOK
<1>1. IInv => TypeOK
  BY DEF IInv
<1>2. QED
  BY <1>1, IInvHolds, PTL

(* A subscription row is always a state the subscription has had at        *)
(* Stripe, although the handlers save only the columns that changed since  *)
(* an unlocked read.                                                       *)
THEOREM NotTorn == Spec => []SubscriptionsNotTorn
<1>1. IInv => SubscriptionsNotTorn
  BY DEF IInv
<1>2. QED
  BY <1>1, IInvHolds, PTL

----------------------------------------------------------------------------
(* A commit that takes a subscription back is that of an event about it.   *)
LEMMA CommitRegress ==
  ASSUME IInv, NEW e \in Events, Apply(e) \/ SaveCard(e), NEW s \in Subs, asof'[s] < asof[s]
  PROVE  /\ e \in Emitted /\ pc[e] \in InFlight /\ pc'[e] = "applied"
         /\ msgs[e].type = "object" /\ msgs[e].object = s
<1>1. /\ Commit(e) /\ pc[e] \in {"locked", "written"}
      /\ \A o \in Targets(e) : seen[e][o] # None
  BY Commits
<1>2. s \in Objects /\ asof[s] \in Nat
  BY DEF Objects, IInv, TypeOK
<1>3. s \in Targets(e) /\ asof'[s] = seen[e][s].new.at
  BY <1>1, <1>2 DEF Commit
<1>4. ReadHolds(e, s)
  BY <1>1, <1>2, <1>3 DEF IInv, Reads
<1>5. e \in Emitted /\ msgs[e].type # "other" /\ pc[e] \in InFlight
  BY <1>1 DEF IInv, Stages, InFlight
<1>6. msgs[e].type # "checkout"
  <2>1. seen[e][s].new.at \in Nat
    BY <1>1, <1>2, <1>3, MaxEventsAssumption DEF IInv, TypeOK, Read
  <2>2. QED
    BY <1>2, <1>3, <1>4, <2>1 DEF ReadHolds
<1>7. msgs[e].type = "object" /\ msgs[e].object = s
  BY <1>3, <1>5, <1>6, TargetsOK DEF IInv
<1>8. pc'[e] = "applied"
  BY <1>1 DEF Commit, End, IInv, TypeOK
<1>9. QED
  BY <1>5, <1>7, <1>8

(* A subscription row goes back in time only by a subscription event that  *)
(* was overtaken: a checkout fetches the subscription while it holds the   *)
(* customer row (upsert_billing_customer).                                 *)
THEOREM CheckoutsNeverRegress == Spec => CheckoutNeverRegresses
<1> DEFINE Step == \A s \in Subs :
      asof'[s] < asof[s] =>
        \E e \in Emitted : /\ pc[e] \in InFlight /\ pc'[e] = "applied"
                           /\ msgs[e].type = "object" /\ msgs[e].object = s
<1>1. ASSUME IInv, [Next]_vars PROVE [Step]_vars
  <2>1. CASE UNCHANGED asof
    <3>1. \A s \in Subs : asof[s] \in Nat
      BY <1>1, MaxEventsAssumption DEF IInv, TypeOK, Objects
    <3>2. QED
      BY <2>1, <3>1
  <2>2. ASSUME NEW e \in Events, Apply(e) \/ SaveCard(e) PROVE Step
    BY <1>1, <2>2, CommitRegress
  <2>3. QED
    BY <1>1, <2>1, <2>2
       DEF Next, vars, StripeChange, StripeCheckout, StripeOther, Emit, Receive, Redeliver, Handle,
           Ignore, LockCustomer, ReadRow, WriteInvoice, InsertRaced, Conflict, Fail, Crash
<1>2. QED
  BY <1>1, IInvHolds, PTL DEF Spec, CheckoutNeverRegresses

----------------------------------------------------------------------------
(* What StripeWebhook shows to SubscriptionMirror. *)
ShownWas == [s \in Subs |-> was[s]]
ShownRow == [s \in Subs |-> row[s]]

LEMMA MirrorInit == Init => Mirror!Init
<1> SUFFICES ASSUME Init PROVE Mirror!Init
  OBVIOUS
<1>1. /\ \A s \in Subs : was[s] = {} /\ row[s] = NoRow
      /\ rec = [e \in Events |-> "none"]
  BY DEF Init, Objects
<1>2. QED
  BY <1>1 DEF Mirror!Init

(* Stripe's events change what the subscriptions have been. *)
LEMMA MirrorStripe ==
  ASSUME IInv, (\E o \in Objects : StripeChange(o))
               \/ (\E s \in Subs : StripeCheckout(s)) \/ StripeOther
  PROVE  Mirror!Next \/ UNCHANGED Mirror!vars
<1>1. UNCHANGED <<rec, row>>
  BY DEF StripeChange, StripeCheckout, StripeOther, Emit
<1>2. CASE UNCHANGED was
  BY <1>1, <1>2 DEF Mirror!vars
<1>3. ASSUME NEW o \in Objects, StripeChange(o) PROVE Mirror!Next \/ UNCHANGED Mirror!vars
  <2>1. PICK c \in Columns : was' = [was EXCEPT ![o] = @ \cup {c}]
    BY <1>3, CreatedAssumption DEF StripeChange
  <2>2. \A s \in Objects : was'[s] = IF s = o THEN was[s] \cup {c} ELSE was[s]
    BY <2>1 DEF IInv, TypeOK
  <2>3. \A s \in Subs : was'[s] = IF s = o THEN was[s] \cup {c} ELSE was[s]
    BY <2>2 DEF Objects
  <2>4. CASE o \in Subs
    <3>1. ShownWas' = [ShownWas EXCEPT ![o] = @ \cup {c}]
      BY <2>3, <2>4 DEF ShownWas
    <3>2. Mirror!Change(o, c)
      BY <1>1, <3>1 DEF Mirror!Change, ShownWas
    <3>3. QED
      BY <2>4, <3>2 DEF Mirror!Next
  <2>5. CASE o \notin Subs
    <3>1. ShownWas' = ShownWas
      BY <2>3, <2>5 DEF ShownWas
    <3>2. QED
      BY <1>1, <3>1 DEF Mirror!vars, ShownWas
  <2>6. QED
    BY <2>4, <2>5
<1>4. QED
  BY <1>2, <1>3 DEF StripeCheckout, StripeOther

(* A commit: the record becomes processed, and the one subscription the    *)
(* event is about, if any, gets a state it has been in.                    *)
LEMMA MirrorCommit ==
  ASSUME IInv, NEW e \in Events, Apply(e) \/ SaveCard(e)
  PROVE  Mirror!Process(e)
<1>1. /\ Commit(e) /\ pc[e] \in {"locked", "written"}
      /\ \A o \in Targets(e) : seen[e][o] # None /\ Fits(o)
  BY Commits
<1>2. e \in Emitted /\ msgs[e].type # "other" /\ rec[e] = "received"
  BY <1>1 DEF IInv, Stages, InFlight
<1>3. /\ Targets(e) \subseteq Objects
      /\ \A s, t \in Targets(e) \cap Subs : s = t
  BY <1>2, TargetsOK DEF IInv
<1>4. Mirror!Status(e, "received", "processed")
  BY <1>1, <1>2 DEF Commit, End, stripeVars, Mirror!Status
<1>5. \A s \in Subs : row'[s] = IF s \in Targets(e) THEN Written(e, s) ELSE row[s]
  BY <1>1 DEF Commit, Objects
<1>6. CASE Targets(e) \cap Subs = {}
  <2>1. ShownRow' = ShownRow
    BY <1>5, <1>6 DEF ShownRow
  <2>2. QED
    BY <1>4, <2>1 DEF Mirror!Process, ShownRow
<1>7. ASSUME NEW s \in Targets(e) \cap Subs PROVE Mirror!Process(e)
  <2>1. ShownRow' = [ShownRow EXCEPT ![s] = Written(e, s)]
    BY <1>3, <1>5 DEF ShownRow
  <2>2. Written(e, s) \in ShownWas[s]
    <3>1. Written(e, s) = seen[e][s].new.columns
      BY <1>1, <1>3, WrittenOK
    <3>2. ReadHolds(e, s)
      BY <1>1, <1>3 DEF IInv, Reads
    <3>3. QED
      BY <3>1, <3>2 DEF ReadHolds, ShownWas
  <2>3. \A t \in Subs \ {s} : ShownRow[t] = NoRow
    BY <1>1 DEF Fits, ShownRow
  <2>4. QED
    BY <1>4, <2>1, <2>2, <2>3 DEF Mirror!Process, ShownRow, ShownWas
<1>8. QED
  BY <1>6, <1>7

LEMMA MirrorStep ==
  ASSUME IInv, [Next]_vars
  PROVE  [Mirror!Next]_(Mirror!vars)
<1>1. CASE UNCHANGED <<was, rec, row>>
  BY <1>1 DEF Mirror!vars
<1>2. ASSUME NEW e \in Events, Receive(e) PROVE Mirror!Record(e)
  BY <1>2 DEF Receive, stripeVars, Mirror!Record, Mirror!Status
<1>3. ASSUME NEW e \in Events, Ignore(e) PROVE Mirror!Ignore(e)
  <2>1. rec[e] = "received"
    BY <1>3 DEF IInv, Stages, Ignore, InFlight
  <2>2. QED
    BY <1>3, <2>1 DEF Ignore, End, stripeVars, Mirror!Ignore, Mirror!Status
<1>4. ASSUME NEW e \in Events,
             \/ Redeliver(e) \/ LockCustomer(e) \/ ReadRow(e) \/ WriteInvoice(e)
             \/ InsertRaced(e) \/ Conflict(e) \/ Fail(e) \/ Crash(e)
      PROVE  UNCHANGED <<was, rec, row>>
  BY <1>4 DEF Redeliver, LockCustomer, ReadRow, WriteInvoice, InsertRaced, Conflict, Fail, Crash,
              End, stripeVars, vars
<1>5. CASE UNCHANGED vars
  BY <1>1, <1>5 DEF vars, stripeVars
<1>6. ASSUME NEW e \in Events, Receive(e) \/ Redeliver(e) \/ Handle(e) \/ Fail(e) \/ Crash(e)
      PROVE  [Mirror!Next]_(Mirror!vars)
  BY <1>1, <1>2, <1>3, <1>4, <1>6, MirrorCommit DEF Handle, Mirror!Next
<1>7. QED
  BY <1>5, <1>6, MirrorStripe DEF Next

(* Whatever is delivered twice, late or out of order, raises or dies, an   *)
(* event has its effect at most once, with its record, and the effect is a *)
(* state the subscription has had (StripeWebhookView.post and              *)
(* process_stripe_event_record).                                           *)
THEOREM MirrorRefinement == Spec => MirroredOnce
BY IInvHolds, MirrorInit, MirrorStep, PTL DEF Spec, MirroredOnce, Mirror!Spec
=============================================================================
