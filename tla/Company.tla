--------------------------------- MODULE Company ---------------------------------
(***************************************************************************)
(* The settings of one company: its dealerships under the limit of its     *)
(* plan (accounts/services/dealerships.py, the save of accounts/models.py) *)
(* and the checkouts of its subscription at Stripe (billing/services.py),  *)
(* with the webhook's events that say which customer there is its own.     *)
(*                                                                         *)
(* Creating and updating a dealership are READ COMMITTED transactions that *)
(* read without a lock, the update before it begins; a save holds its row  *)
(* until the commit.  A checkout is a row of autocommit statements and     *)
(* calls to Stripe.  The permissions of whoever asks are given, and the    *)
(* plan's limits in force (AUTHZ_ENABLE_SUBSCRIPTION_CHECKS).              *)
(***************************************************************************)
EXTENDS Naturals, Sequences, FiniteSets

CONSTANTS
  Workers,           \* bound on the requests in flight
  Idle,              \* a worker without a request
  Plans,             \* the plans the company is ever on
  MultiDealership,   \* the plans with the feature multi_dealership
  MaxDealerships,    \* the limit max_dealerships of each plan
  NoCustomer,        \* no BillingCustomer row
  MaxRows,           \* bound on the dealerships created
  MaxCustomers       \* bound on the customers created at Stripe

ASSUME WorkersAssumption == IsFiniteSet(Workers) /\ Workers # {}
ASSUME PlansAssumption == MultiDealership \in SUBSET Plans /\ MaxDealerships \in [Plans -> Nat]
ASSUME BoundsAssumption == MaxRows \in Nat \ {0} /\ MaxCustomers \in Nat
ASSUME CustomerAssumption == NoCustomer \notin 1..MaxCustomers

VARIABLES
  dealership,        \* the Dealership rows, in the order of their creation
  plan,              \* the plan of the company's subscription
  customers,         \* the number of the company's customers at Stripe,
                     \* named after the order of their creation
  customer,          \* the provider_customer_id of its BillingCustomer row
  moved,             \* whether an event ever put another customer there
  checkouts,         \* the customers that Stripe's checkout and portal
                     \* sessions are for
  req                \* the request each worker is in

vars == <<dealership, plan, customers, customer, moved, checkouts, req>>

(* Nothing here looks at the other columns, except that the name and the   *)
(* slug, which are unique in the company, may always refuse a row.         *)
Dealership == [is_active : BOOLEAN, is_default : BOOLEAN]
Ids == DOMAIN dealership

Init ==
  /\ dealership = <<[is_active |-> TRUE, is_default |-> TRUE]>>
  /\ plan \in Plans
  /\ customers = 0
  /\ customer = NoCustomer
  /\ moved = FALSE
  /\ checkouts = {}
  /\ req = [w \in Workers |-> Idle]

Kind(w) == IF req[w] = Idle THEN "idle" ELSE req[w].kind
Become(w, r) == req' = [req EXCEPT ![w] = r]
End(w) == Become(w, Idle)
Keep == UNCHANGED <<dealership, plan, customers, customer, moved, checkouts>>
KeepBilling == UNCHANGED <<plan, customers, customer, moved, checkouts>>

(* A request fails or its worker dies; the database breaks a deadlock of   *)
(* two updates this way. *)
Abort(w) ==
  /\ req[w] # Idle
  /\ End(w)
  /\ Keep

----------------------------------------------------------------------------
ActiveCount == Cardinality({d \in Ids : dealership[d].is_active})

(* The plan is read with the context of the request.  Nobody has a context *)
(* once every dealership is inactive. *)
StartCreate(w) ==
  /\ req[w] = Idle
  /\ ActiveCount > 0
  /\ plan \in MultiDealership
  /\ Become(w, [kind |-> "count", limit |-> MaxDealerships[plan]])
  /\ Keep

(* Variant: the limit itself is passed as well. *)
WithinLimitInclusive(limit) == ActiveCount <= limit

WithinLimit(limit) == ActiveCount < limit

(* assert_can_create_dealership *)
CountDealerships(w) ==
  /\ Kind(w) = "count"
  /\ WithinLimit(req[w].limit)
  /\ Become(w, [kind |-> "create", count |-> ActiveCount, limit |-> req[w].limit])
  /\ Keep

CreateDealership(w) ==
  /\ Kind(w) = "create"
  /\ Len(dealership) < MaxRows
  /\ dealership' = Append(dealership, [is_active |-> TRUE, is_default |-> FALSE])
  /\ End(w)
  /\ KeepBilling

(* DealershipUpdateView reads the row and puts what was asked for into it. *)
StartUpdate(w, d, row) ==
  /\ req[w] = Idle
  /\ ActiveCount > 0
  /\ row # dealership[d]
  /\ Become(w, [kind |-> "update", id |-> d, read |-> dealership[d], row |-> row])
  /\ Keep

Held(d) == \E w \in Workers : Kind(w) = "saved" /\ req[w].id = d

(* The whole row is saved as it was read, but for what was asked for... *)
SaveRow(w) ==
  /\ Kind(w) = "update"
  /\ ~Held(req[w].id)
  /\ IF req[w].row.is_default
     THEN Become(w, [req[w] EXCEPT !.kind = "saved"]) /\ UNCHANGED dealership
     ELSE End(w) /\ dealership' = [dealership EXCEPT ![req[w].id] = req[w].row]
  /\ KeepBilling

(* Variant: only the active dealerships are cleared. *)
OthersActive(d) == {e \in Ids \ {d} : dealership[e].is_active}

(* ... and then a default clears the others, which must not be held. *)
Others(d) == Ids \ {d}

ClearDefaults(w) ==
  /\ Kind(w) = "saved"
  /\ \A e \in Others(req[w].id) : ~Held(e)
  /\ dealership' = [e \in Ids |->
       IF e = req[w].id THEN req[w].row
       ELSE IF e \in Others(req[w].id) THEN [dealership[e] EXCEPT !.is_default = FALSE]
       ELSE dealership[e]]
  /\ End(w)
  /\ KeepBilling

(* The webhook moves the company to another plan. *)
ChangePlan(p) ==
  /\ plan # p
  /\ plan' = p
  /\ UNCHANGED <<dealership, customers, customer, moved, checkouts, req>>

----------------------------------------------------------------------------
(* get_or_create_billing_customer *)
ReuseCustomer(w) ==
  /\ req[w] = Idle
  /\ customer # NoCustomer
  /\ Become(w, [kind |-> "session", customer |-> customer])
  /\ Keep

FindNoCustomer(w) ==
  /\ req[w] = Idle
  /\ customer = NoCustomer
  /\ Become(w, [kind |-> "customer"])
  /\ Keep

CreateCustomer(w) ==
  /\ Kind(w) = "customer"
  /\ customers < MaxCustomers
  /\ customers' = customers + 1
  /\ Become(w, [kind |-> "save", customer |-> customers + 1])
  /\ UNCHANGED <<dealership, plan, customer, moved, checkouts>>

(* Variant: the latest customer replaces the one that is saved. *)
CustomerReplaced == TRUE

(* The row is one-to-one with the company.  A second insert fails, be the  *)
(* first another request's or the webhook's: Abort. *)
CustomerUnsaved == customer = NoCustomer

SaveCustomer(w) ==
  /\ Kind(w) = "save"
  /\ CustomerUnsaved
  /\ customer' = req[w].customer
  /\ Become(w, [kind |-> "session", customer |-> req[w].customer])
  /\ UNCHANGED <<dealership, plan, customers, moved, checkouts>>

(* create_checkout_session, or the portal's, which starts at ReuseCustomer.*)
OpenSession(w) ==
  /\ Kind(w) = "session"
  /\ checkouts' = checkouts \cup {req[w].customer}
  /\ End(w)
  /\ UNCHANGED <<dealership, plan, customers, customer, moved>>

(* handle_customer_event: customer.created and customer.updated come late, *)
(* again and in any order; the company is found by the metadata, and its   *)
(* row takes the customer of the event, an orphan's as well. *)
CustomerEvent(c) ==
  /\ customer # c
  /\ customer' = c
  /\ moved' = (moved \/ customer # NoCustomer)
  /\ UNCHANGED <<dealership, plan, customers, checkouts, req>>

Next ==
  \/ \E w \in Workers :
       \/ StartCreate(w) \/ CountDealerships(w) \/ CreateDealership(w)
       \/ \E d \in Ids, row \in Dealership : StartUpdate(w, d, row)
       \/ SaveRow(w) \/ ClearDefaults(w)
       \/ ReuseCustomer(w) \/ FindNoCustomer(w) \/ CreateCustomer(w) \/ SaveCustomer(w)
       \/ OpenSession(w) \/ Abort(w)
  \/ \E p \in Plans : ChangePlan(p)
  \/ \E c \in 1..customers : CustomerEvent(c)

Spec == Init /\ [][Next]_vars

----------------------------------------------------------------------------
Request ==
  [kind : {"count"}, limit : {MaxDealerships[p] : p \in Plans}]
    \cup [kind : {"create"}, count : 0..MaxRows, limit : {MaxDealerships[p] : p \in Plans}]
    \cup [kind : {"update", "saved"}, id : 1..MaxRows, read : Dealership, row : Dealership]
    \cup [kind : {"customer"}]
    \cup [kind : {"save", "session"}, customer : 1..MaxCustomers]

(* Every session at Stripe is for the company's one BillingCustomer,       *)
(* however many customers first checkouts that overlapped or died left at  *)
(* Stripe (get_or_create_billing_customer), until the event of one of      *)
(* those moves the row. *)
TypeOK ==
  /\ dealership \in Seq(Dealership) /\ Len(dealership) \in 1..MaxRows
  /\ plan \in Plans
  /\ customers \in 0..MaxCustomers
  /\ customer \in (1..customers) \cup {NoCustomer}
  /\ checkouts \subseteq 1..customers
  /\ IF moved THEN customers > 1 ELSE checkouts \subseteq {customer}
  /\ req \in [Workers -> Request \cup {Idle}]

Defaults == {d \in Ids : dealership[d].is_default}

(* At no time are two dealerships the default, however the saves overlap   *)
(* (each clears the others in its transaction, and waits for them all).    *)
(* The company loses its default only by an update that saves the row of   *)
(* the default without the flag: somebody takes it away, or the update     *)
(* read the row before another one made it the default. *)
OneDefault ==
  [][/\ Cardinality(Defaults') <= 1
     /\ Defaults # {} /\ Defaults' = {} =>
          \E w \in Workers :
            /\ Kind(w) = "update" /\ req'[w] = Idle
            /\ req[w].id \in Defaults /\ ~req[w].row.is_default]_vars

(* A dealership is created beyond the limit of the plan it was asked for   *)
(* under only if another one became active after the count. *)
LimitNeedsOverlap ==
  [][Len(dealership') > Len(dealership) =>
       \E w \in Workers :
         /\ Kind(w) = "create" /\ req'[w] = Idle
         /\ ActiveCount >= req[w].limit => ActiveCount > req[w].count]_vars
=============================================================================
