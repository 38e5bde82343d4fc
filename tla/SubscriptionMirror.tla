--------------------------- MODULE SubscriptionMirror ---------------------------
(***************************************************************************)
(* What the Stripe webhook promises of a company's subscription rows:      *)
(* every event has its effect at most once, in the step in which its       *)
(* record becomes processed.  That step leaves the company with at most    *)
(* one subscription, in a state which the subscription has had at Stripe.  *)
(*                                                                         *)
(* StripeWebhook, where events are delivered again and in any order, and   *)
(* handlers overlap, wait, raise and die, is checked and proved to         *)
(* implement this module.                                                  *)
(***************************************************************************)
CONSTANTS Events, Subs, Columns, NoRow

VARIABLES
  was,               \* the states each subscription has had at Stripe
  log,               \* the status of the record of each event
  row                \* the CompanySubscription rows

vars == <<was, log, row>>

Init ==
  /\ was = [s \in Subs |-> {}]
  /\ log = [e \in Events |-> "none"]
  /\ row = [s \in Subs |-> NoRow]

Change(s, c) ==
  /\ was' = [was EXCEPT ![s] = @ \cup {c}]
  /\ UNCHANGED <<log, row>>

(* The record of an event goes from one status to another. *)
Status(e, from, to) ==
  /\ log[e] = from
  /\ log' = [log EXCEPT ![e] = to]
  /\ UNCHANGED was

Record(e) == Status(e, "none", "received") /\ UNCHANGED row

Ignore(e) == Status(e, "received", "ignored") /\ UNCHANGED row

(* The event of an invoice leaves the subscriptions alone. *)
Process(e) ==
  /\ Status(e, "received", "processed")
  /\ \/ UNCHANGED row
     \/ \E s \in Subs :
          /\ \A t \in Subs \ {s} : row[t] = NoRow
          /\ \E c \in was[s] : row' = [row EXCEPT ![s] = c]

Next ==
  \/ \E s \in Subs, c \in Columns : Change(s, c)
  \/ \E e \in Events : Record(e) \/ Ignore(e) \/ Process(e)

Spec == Init /\ [][Next]_vars
=============================================================================
