---------------------------- MODULE StripeWebhook ----------------------------
(***************************************************************************)
(* The Stripe webhook endpoint and the rows it mirrors Stripe's objects    *)
(* into, for one company.  Stripe emits events and delivers each at least  *)
(* once, in any order, until it is answered 200.  StripeWebhookView.post   *)
(* stores a record per event id (autocommit) and then handles the event in *)
(* one READ COMMITTED transaction of its own; whatever that does, a stored *)
(* event is answered 200.                                                  *)
(*                                                                         *)
(* Events are numbered as Stripe emits them.  An object is two columns, so *)
(* that a row put together from two snapshots can be told from a snapshot. *)
(* A handler is split where it takes the company's BillingCustomer row,    *)
(* where it reads the row it is about to write, and at commit.             *)
(* A handler writes its rows when it has read them all.  Only one that     *)
(* goes on to wait for another row holds an invoice row in the meantime:   *)
(* an invoice event that saves the customer's card after the invoice.      *)
(***************************************************************************)
EXTENDS Naturals, Sequences

CONSTANTS
  Subs,              \* Stripe subscriptions of the company's customer
  Invoices,          \* Stripe invoices of the company's customer
  Values,            \* the values a column takes
  None,              \* a row not read yet
  NoRow,             \* what there is of an object before it exists
  Created,           \* the columns of a new object
  MaxEvents          \* bound on the events Stripe emits

Objects == Subs \cup Invoices
Columns == [status : Values, rest : Values]

(* What a handler keeps of a row: as read, and what is to be written.      *)
Read == [row : Columns \cup {NoRow}, new : [columns : Columns, at : 0..MaxEvents]]

ASSUME ObjectsAssumption == Subs \cap Invoices = {}
ASSUME NoRowAssumption == NoRow \notin Columns
ASSUME NoneAssumption == None \notin Read
ASSUME CreatedAssumption == Created \in Columns
ASSUME MaxEventsAssumption == MaxEvents \in Nat

VARIABLES
  (* Stripe *)
  stripe,            \* the current columns of each object
  was,               \* all the columns each object has had
  msgs,              \* the events emitted so far
  (* the server *)
  rec,               \* StripeWebhookEvent.status, as committed
  pc,                \* how far the handling of each event has come
  lock,              \* the event whose handler holds the BillingCustomer row
                     \* and the BillingInvoice rows
  seen,              \* what each handler read: the row, the columns to write
  row,               \* the CompanySubscription and BillingInvoice rows
  asof               \* the number of events emitted when row's columns held

stripeVars == <<stripe, was, msgs>>
vars == <<stripe, was, msgs, rec, pc, lock, seen, row, asof>>

NoEvent == 0
Customer == "customer"
Rows == {Customer} \cup Invoices
Events == 1..MaxEvents

(* A checkout names its subscription and carries none of its columns.      *)
(* "other" stands for the types outside STRIPE_SUPPORTED_EVENTS.           *)
Message ==
  [type : {"object"}, object : Objects, columns : Columns]
    \cup [type : {"checkout"}, object : Subs, invoice : SUBSET Invoices] \cup [type : {"other"}]

WebhookProcessingStatus == {"received", "processing", "processed", "failed", "ignored"}
InFlight == {"begun", "locked", "written"}
Final == {"applied", "ignored", "failed", "crashed"}

Emitted == 1..Len(msgs)

Init ==
  /\ stripe = [o \in Objects |-> NoRow]
  /\ was = [o \in Objects |-> {}]
  /\ msgs = <<>>
  /\ rec = [e \in Events |-> "none"]
  /\ pc = [e \in Events |-> "none"]
  /\ lock = [r \in Rows |-> NoEvent]
  /\ seen = [e \in Events |-> [o \in Objects |-> None]]
  /\ row = [o \in Objects |-> NoRow]
  /\ asof = [o \in Objects |-> 0]

----------------------------------------------------------------------------
(* Stripe: an object is created or changes, a checkout completes, or       *)
(* something happens that the server does not handle.                      *)
Emit(m) ==
  /\ Len(msgs) < MaxEvents
  /\ msgs' = Append(msgs, m)
  /\ UNCHANGED <<rec, pc, lock, seen, row, asof>>

StripeChange(o) ==
  \E c \in IF stripe[o] = NoRow THEN {Created} ELSE Columns \ {stripe[o]} :
    /\ stripe' = [stripe EXCEPT ![o] = c]
    /\ was' = [was EXCEPT ![o] = @ \cup {c}]
    /\ Emit([type |-> "object", object |-> o, columns |-> c])

StripeCheckout(s) ==
  /\ stripe[s] # NoRow
  /\ \E v \in {{}} \cup {{i} : i \in Invoices} :
       /\ \A i \in v : stripe[i] # NoRow
       /\ Emit([type |-> "checkout", object |-> s, invoice |-> v])
  /\ UNCHANGED <<stripe, was>>

StripeOther ==
  /\ Emit([type |-> "other"])
  /\ UNCHANGED <<stripe, was>>

----------------------------------------------------------------------------
(* The first delivery: get_or_create stores the record and commits it.     *)
Receive(e) ==
  /\ e \in Emitted
  /\ rec[e] = "none"
  /\ rec' = [rec EXCEPT ![e] = "received"]
  /\ pc' = [pc EXCEPT ![e] = "begun"]
  /\ UNCHANGED <<stripeVars, lock, seen, row, asof>>

(* Variant: a delivery that finds the record has the event handled again.  *)
RedeliverTwice(e) ==
  /\ e \in Emitted
  /\ rec[e] # "none" /\ pc[e] \in Final
  /\ pc' = [pc EXCEPT ![e] = "begun"]
  /\ UNCHANGED <<stripeVars, rec, lock, seen, row, asof>>

(* Any other delivery finds the record: "Already received", whatever has   *)
(* become of the event, and 200 ends its deliveries.                       *)
Redeliver(e) ==
  /\ e \in Emitted
  /\ rec[e] # "none"
  /\ UNCHANGED vars

(* Variant: a worker that dies leaves the customer row locked. *)
EndLeaky(e, outcome) ==
  /\ pc' = [pc EXCEPT ![e] = outcome]
  /\ lock' = [r \in Rows |->
                IF lock[r] = e /\ outcome # "crashed" THEN NoEvent ELSE lock[r]]
  /\ seen' = [seen EXCEPT ![e] = [o \in Objects |-> None]]
  /\ UNCHANGED stripeVars

(* The end of process_stripe_event_record: its transaction ends.           *)
End(e, outcome) ==
  /\ pc' = [pc EXCEPT ![e] = outcome]
  /\ lock' = [r \in Rows |-> IF lock[r] = e THEN NoEvent ELSE lock[r]]
  /\ seen' = [seen EXCEPT ![e] = [o \in Objects |-> None]]
  /\ UNCHANGED stripeVars

(* Variant: the reason is written where the status belongs. *)
IgnoreByReason(e) ==
  /\ pc[e] = "begun"
  /\ msgs[e].type = "other"
  /\ rec' = [rec EXCEPT ![e] = "unsupported"]
  /\ End(e, "ignored")
  /\ UNCHANGED <<row, asof>>

Ignore(e) ==
  /\ pc[e] = "begun"
  /\ msgs[e].type = "other"
  /\ rec' = [rec EXCEPT ![e] = "ignored"]
  /\ End(e, "ignored")
  /\ UNCHANGED <<row, asof>>

(* The objects a handler writes: the subscription of a checkout and the    *)
(* invoice it may come with, or the object of the event.                   *)
Targets(e) ==
  IF msgs[e].type = "checkout" THEN {msgs[e].object} \cup msgs[e].invoice ELSE {msgs[e].object}

(* Variant: the customer is looked up and saved without being locked.      *)
LockCustomerUnlocked(e) ==
  /\ pc[e] = "begun"
  /\ msgs[e].type # "other"
  /\ UNCHANGED lock
  /\ pc' = [pc EXCEPT ![e] = "locked"]
  /\ UNCHANGED <<stripeVars, rec, seen, row, asof>>

(* upsert_billing_customer: update_or_create locks the company's customer  *)
(* row until the transaction ends.  The handler of an invoice finds the    *)
(* row and leaves it alone.                                                *)
LockCustomer(e) ==
  /\ pc[e] = "begun"
  /\ msgs[e].type # "other"
  /\ IF Targets(e) \subseteq Invoices
     THEN UNCHANGED lock
     ELSE lock[Customer] = NoEvent /\ lock' = [lock EXCEPT ![Customer] = e]
  /\ pc' = [pc EXCEPT ![e] = "locked"]
  /\ UNCHANGED <<stripeVars, rec, seen, row, asof>>

(* Variant: a checkout carries its subscription instead of fetching it.    *)
CarriedColumns(e, o) ==
  IF msgs[e].type = "checkout" THEN [columns |-> stripe[o], at |-> e]
  ELSE [columns |-> msgs[e].columns, at |-> e]

(* The columns to be written and when they held: a checkout fetches its    *)
(* objects from Stripe, every other event carries its own.                 *)
NewColumns(e, o) ==
  IF msgs[e].type = "checkout" THEN [columns |-> stripe[o], at |-> Len(msgs)]
  ELSE [columns |-> msgs[e].columns, at |-> e]

(* get_or_create: the row is read without a lock of its own.  A checkout   *)
(* comes to its subscription before its invoice.                           *)
ReadRow(e) ==
  /\ pc[e] = "locked"
  /\ \E o \in Targets(e) :
       /\ seen[e][o] = None
       /\ o \in Invoices => \A s \in Targets(e) \cap Subs : seen[e][s] # None
       /\ seen' = [seen EXCEPT ![e][o] = [row |-> row[o], new |-> NewColumns(e, o)]]
  /\ UNCHANGED <<stripeVars, rec, pc, lock, row, asof>>

(* The columns that differ from the row as read are written, the others    *)
(* stay as they are by now.                                                *)
Merge(new, read, now) ==
  [status |-> IF new.status = read.status THEN now.status ELSE new.status,
   rest   |-> IF new.rest = read.rest THEN now.rest ELSE new.rest]

Written(e, o) ==
  IF seen[e][o].row = NoRow THEN seen[e][o].new.columns
  ELSE Merge(seen[e][o].new.columns, seen[e][o].row, row[o])

(* A row this handler did not find has been inserted by another one. *)
Raced(e, o) == seen[e][o] # None /\ seen[e][o].row = NoRow /\ row[o] # NoRow

(* The unique keys: a company has one CompanySubscription. *)
Fits(o) == o \in Subs => \A s \in Subs \ {o} : row[s] = NoRow

AllRead(e) == pc[e] = "locked" /\ \A o \in Targets(e) : seen[e][o] # None

(* The invoice rows it writes are not held by another handler. *)
InvoicesFree(e) == \A v \in Targets(e) \cap Invoices : lock[v] \in {NoEvent, e}

Commit(e) ==
  /\ row' = [o \in Objects |-> IF o \in Targets(e) THEN Written(e, o) ELSE row[o]]
  /\ asof' = [o \in Objects |-> IF o \in Targets(e) THEN seen[e][o].new.at ELSE asof[o]]
  /\ rec' = [rec EXCEPT ![e] = "processed"]
  /\ End(e, "applied")

Apply(e) ==
  /\ AllRead(e)
  /\ InvoicesFree(e)
  /\ \A o \in Targets(e) : ~Raced(e, o) /\ Fits(o)
  /\ Commit(e)

(* The invoice of an event that names a payment method is written before   *)
(* sync_payment_method_snapshot saves the customer row.                    *)
WriteInvoice(e) ==
  /\ AllRead(e)
  /\ Targets(e) \subseteq Invoices
  /\ InvoicesFree(e)
  /\ \A o \in Targets(e) : ~Raced(e, o)
  /\ lock' = [r \in Rows |-> IF r \in Targets(e) THEN e ELSE lock[r]]
  /\ pc' = [pc EXCEPT ![e] = "written"]
  /\ UNCHANGED <<stripeVars, rec, seen, row, asof>>

SaveCard(e) ==
  /\ pc[e] = "written"
  /\ lock[Customer] = NoEvent
  /\ Commit(e)

(* get_or_create finds the row inserted meanwhile and reads it. *)
InsertRaced(e) ==
  /\ AllRead(e)
  /\ \E o \in Targets(e) : Raced(e, o) /\ seen' = [seen EXCEPT ![e][o] = None]
  /\ UNCHANGED <<stripeVars, rec, pc, lock, row, asof>>

(* The company has a row for another subscription: the insert fails. *)
Conflict(e) ==
  /\ AllRead(e)
  /\ \E o \in Targets(e) : ~Fits(o)
  /\ End(e, "failed")
  /\ UNCHANGED <<rec, row, asof>>

(* The handler raises (no company, an unknown price, a failed fetch, a     *)
(* unique key).  It saves FAILED and raises again inside the transaction,  *)
(* so that the save is rolled back with everything else.                   *)
Fail(e) ==
  /\ pc[e] \in InFlight
  /\ msgs[e].type # "other"
  /\ End(e, "failed")
  /\ UNCHANGED <<rec, row, asof>>

(* A checkout that holds the customer and comes to its invoice, and an     *)
(* event that has written that invoice and comes to the customer.          *)
Deadlocked(e) ==
  \E i, c \in Emitted :
    /\ e \in {i, c}
    /\ pc[i] = "written" /\ lock[Customer] = c
    /\ AllRead(c) /\ \E v \in Targets(c) \cap Invoices : lock[v] = i

DeadlockVictim(e) == Deadlocked(e) /\ Fail(e)

(* The worker dies between storing the record and the commit. *)
Crash(e) ==
  /\ pc[e] \in InFlight
  /\ End(e, "crashed")
  /\ UNCHANGED <<rec, row, asof>>

Handle(e) ==
  \/ Ignore(e) \/ LockCustomer(e) \/ ReadRow(e) \/ Apply(e) \/ WriteInvoice(e)
  \/ SaveCard(e) \/ InsertRaced(e) \/ Conflict(e)

Next ==
  \/ \E o \in Objects : StripeChange(o)
  \/ \E s \in Subs : StripeCheckout(s)
  \/ StripeOther
  \/ \E e \in Events :
       Receive(e) \/ Redeliver(e) \/ Handle(e) \/ Fail(e) \/ Crash(e)

Spec == Init /\ [][Next]_vars

(* Stripe delivers an event until it is answered, a worker that has stored *)
(* an event goes on handling it, and the deadlock detector picks a victim. *)
FairSpec ==
  Spec /\ \A e \in Events :
            WF_vars(Receive(e)) /\ WF_vars(Handle(e)) /\ WF_vars(DeadlockVictim(e))

----------------------------------------------------------------------------
(* Every record has a status of the enumeration, and every handler a stage *)
(* and what it has read.  An event whose handler raised or died still      *)
(* reads received: FAILED is saved in the transaction that the raise below *)
(* it rolls back.                                                          *)
TypeOK ==
  /\ stripe \in [Objects -> Columns \cup {NoRow}]
  /\ was \in [Objects -> SUBSET Columns]
  /\ msgs \in Seq(Message) /\ Len(msgs) <= MaxEvents
  /\ rec \in [Events -> WebhookProcessingStatus \cup {"none"}]
  /\ pc \in [Events -> {"none"} \cup InFlight \cup Final]
  /\ lock \in [Rows -> Events \cup {NoEvent}]
  /\ seen \in [Events -> [Objects -> Read \cup {None}]]
  /\ row \in [Objects -> Columns \cup {NoRow}]
  /\ \A s, t \in Subs : row[s] # NoRow /\ row[t] # NoRow => s = t
  /\ asof \in [Objects -> 0..MaxEvents]
  /\ \A e \in Events : pc[e] \in {"failed", "crashed"} => rec[e] = "received"

(* A CompanySubscription row is always a state the subscription has been   *)
(* in at Stripe, never half of one and half of another: saving only the    *)
(* changed columns of a row read without a lock is safe because every      *)
(* handler of a subscription holds the customer row.                       *)
SubscriptionsNotTorn == \A s \in Subs : row[s] # NoRow => row[s] \in was[s]

(* Whatever is delivered twice, late or out of order, raises or dies, the  *)
(* rows change as SubscriptionMirror says: an event has its effect at most *)
(* once, in the same commit as its record says processed.                  *)
Mirror == INSTANCE SubscriptionMirror
  WITH was <- [s \in Subs |-> was[s]], row <- [s \in Subs |-> row[s]], log <- rec

MirroredOnce == Mirror!Spec

(* A subscription row goes back in time only by a subscription event that  *)
(* was overtaken; a checkout, which fetches the subscription while it      *)
(* holds the customer row, never takes it back.                            *)
CheckoutNeverRegresses ==
  [][\A s \in Subs :
       asof'[s] < asof[s] =>
         \E e \in Emitted : /\ pc[e] \in InFlight /\ pc'[e] = "applied"
                            /\ msgs[e].type = "object" /\ msgs[e].object = s]_vars

(* Every emitted event gets a record and an end: no handler waits for ever *)
(* for the customer row, reads again and again a row that is inserted      *)
(* under it, or waits for one that waits for it.                           *)
EventsSettled == \A e \in Events : e \in Emitted ~> pc[e] \in Final
=============================================================================
