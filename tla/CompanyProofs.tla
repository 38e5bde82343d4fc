------------------------------ MODULE CompanyProofs ------------------------------
(***************************************************************************)
(* Theorems about Company, for any plans, requests in flight and bounds;   *)
(* and, in the second part, about Accounts, for any people and bounds.     *)
(***************************************************************************)
EXTENDS Company, SequenceTheorems, FiniteSetTheorems, WellFoundedInduction, TLAPS

AtMostOne == \A d, e \in Defaults : d = e

(* What a request holds on to: a dealership that is there, a row that is   *)
(* to be the default once it is saved, a count under the limit, and a      *)
(* customer that Stripe has - the company's own, in a request that is to   *)
(* open a session, as long as no event has moved the row.                  *)
Sound(r) ==
  r # Idle =>
    /\ r.kind \in {"update", "saved"} => r.id \in Ids
    /\ r.kind = "saved" => r.row.is_default
    /\ r.kind = "create" => r.count < r.limit
    /\ r.kind \in {"save", "session"} => r.customer \in 1..customers
    /\ r.kind = "session" => moved \/ r.customer = customer

IInv == TypeOK /\ AtMostOne /\ \A w \in Workers : Sound(req[w])

----------------------------------------------------------------------------
LEMMA InitIInv == Init => IInv
<1> SUFFICES ASSUME Init PROVE IInv
  OBVIOUS
<1> DEFINE first == [is_active |-> TRUE, is_default |-> TRUE]
<1>1. dealership \in Seq(Dealership) /\ Len(dealership) = 1
  <2>1. dealership = <<first>> /\ first \in Dealership
    BY DEF Init, Dealership
  <2> HIDE DEF first
  <2>2. QED
    BY <2>1
<1>2. TypeOK
  BY <1>1, BoundsAssumption DEF Init, TypeOK
<1>3. AtMostOne
  BY <1>1 DEF AtMostOne, Defaults, Ids
<1>4. \A w \in Workers : Sound(req[w])
  BY DEF Init, Sound
<1>5. QED
  BY <1>2, <1>3, <1>4 DEF IInv

(* A sequence is a function on the numbers up to its length. *)
LEMMA FunctionIsSeq ==
  ASSUME NEW S, NEW n \in Nat, NEW f \in [1..n -> S]
  PROVE  f \in Seq(S) /\ Len(f) = n
<1>1. f \in Seq(S)
  BY SeqDef, Zenon
<1>2. QED
  BY <1>1, LenProperties

(* The dealerships are numbered, and so many of them are active. *)
LEMMA Rows ==
  ASSUME TypeOK
  PROVE  /\ Ids = 1..Len(dealership) /\ Len(dealership) \in Nat
         /\ dealership \in [Ids -> Dealership]
         /\ ActiveCount \in 0..MaxRows
<1>1. Ids = 1..Len(dealership) /\ Len(dealership) \in Nat /\ dealership \in [Ids -> Dealership]
  BY LenProperties DEF TypeOK, Ids
<1>2. IsFiniteSet(Ids) /\ Cardinality(Ids) = Len(dealership)
  BY <1>1, FS_Interval
<1>3. ActiveCount \in Nat /\ ActiveCount <= Len(dealership)
  BY <1>2, FS_Subset, FS_CardinalityType DEF ActiveCount
<1>4. QED
  BY <1>1, <1>3, BoundsAssumption DEF TypeOK

(* A request goes on, or ends, and no row changes. *)
LEMMA Quiet ==
  ASSUME IInv, Keep, NEW w \in Workers, NEW r \in Request \cup {Idle}, Become(w, r), Sound(r)
  PROVE  IInv'
<1>1. /\ dealership' = dealership /\ plan' = plan /\ customers' = customers
      /\ customer' = customer /\ moved' = moved /\ checkouts' = checkouts
      /\ req' = [req EXCEPT ![w] = r]
  BY DEF Keep, Become
<1>2. TypeOK'
  BY <1>1 DEF IInv, TypeOK
<1>3. AtMostOne'
  BY <1>1 DEF IInv, AtMostOne, Defaults, Ids
<1>4. \A v \in Workers : Sound(req[v])'
  BY <1>1 DEF IInv, TypeOK, Sound, Ids
<1>5. QED
  BY <1>2, <1>3, <1>4 DEF IInv

(* The requests by their kinds. *)
LEMMA Requests ==
  ASSUME TypeOK, NEW w \in Workers, req[w] # Idle
  PROVE  /\ req[w].kind = "count" => req[w].limit \in {MaxDealerships[p] : p \in Plans}
         /\ req[w].kind \in {"update", "saved"} =>
              req[w].read \in Dealership /\ req[w].row \in Dealership
         /\ req[w].kind \in {"save", "session"} => req[w].customer \in 1..MaxCustomers
BY DEF TypeOK, Request

LEMMA RequestsQuiet ==
  ASSUME IInv, NEW w \in Workers,
         \/ StartCreate(w) \/ CountDealerships(w) \/ ReuseCustomer(w) \/ FindNoCustomer(w)
         \/ Abort(w)
         \/ \E d \in Ids, row \in Dealership : StartUpdate(w, d, row)
  PROVE  IInv'
<1>1. CASE StartCreate(w)
  <2> DEFINE r == [kind |-> "count", limit |-> MaxDealerships[plan]]
  <2>1. r \in Request \cup {Idle} /\ Sound(r)
    BY DEF Request, IInv, TypeOK, Sound
  <2>2. QED
    BY <1>1, <2>1, Quiet DEF StartCreate
<1>2. CASE CountDealerships(w)
  <2> DEFINE r == [kind |-> "create", count |-> ActiveCount, limit |-> req[w].limit]
  <2>1. req[w] # Idle /\ req[w].kind = "count" /\ ActiveCount < req[w].limit
    BY <1>2 DEF CountDealerships, Kind, WithinLimit
  <2>2. r \in Request \cup {Idle}
    BY <2>1, Requests, Rows DEF Request, IInv
  <2>3. Sound(r)
    BY <2>1 DEF Sound
  <2>4. QED
    BY <1>2, <2>2, <2>3, Quiet DEF CountDealerships
<1>3. CASE ReuseCustomer(w)
  <2> DEFINE r == [kind |-> "session", customer |-> customer]
  <2>1. customer \in 1..customers /\ customer \in 1..MaxCustomers
    BY <1>3, BoundsAssumption DEF ReuseCustomer, IInv, TypeOK
  <2>2. r \in Request \cup {Idle} /\ Sound(r)
    BY <2>1 DEF Request, Sound
  <2>3. QED
    BY <1>3, <2>2, Quiet DEF ReuseCustomer
<1>4. CASE FindNoCustomer(w)
  <2> DEFINE r == [kind |-> "customer"]
  <2>1. r \in Request \cup {Idle} /\ Sound(r)
    BY DEF Request, Sound
  <2>2. QED
    BY <1>4, <2>1, Quiet DEF FindNoCustomer
<1>5. CASE Abort(w)
  BY <1>5, Quiet DEF Abort, End, Sound
<1>6. ASSUME NEW d \in Ids, NEW row \in Dealership, StartUpdate(w, d, row) PROVE IInv'
  <2> DEFINE r == [kind |-> "update", id |-> d, read |-> dealership[d], row |-> row]
  <2>1. d \in 1..MaxRows /\ dealership[d] \in Dealership
    BY Rows, BoundsAssumption DEF IInv, TypeOK
  <2>2. r \in Request \cup {Idle} /\ Sound(r)
    BY <2>1 DEF Request, Sound
  <2>3. QED
    BY <1>6, <2>2, Quiet DEF StartUpdate
<1>7. QED
  BY <1>1, <1>2, <1>3, <1>4, <1>5, <1>6

----------------------------------------------------------------------------
(* What a change of the dealerships must leave.                            *)
LEMMA RowsKeep ==
  ASSUME IInv, KeepBilling, NEW w \in Workers, NEW r \in Request \cup {Idle}, Become(w, r),
         Sound(r), dealership' \in Seq(Dealership), Len(dealership') <= MaxRows,
         Ids \subseteq Ids', AtMostOne'
  PROVE  IInv'
<1>1. /\ plan' = plan /\ customers' = customers /\ customer' = customer /\ moved' = moved
      /\ checkouts' = checkouts /\ req' = [req EXCEPT ![w] = r]
  BY DEF KeepBilling, Become
<1>2. Len(dealership') \in 1..MaxRows
  <2>1. Len(dealership') \in Nat /\ Ids' = 1..Len(dealership')
    BY LenProperties DEF Ids
  <2>2. 1 \in Ids
    BY Rows DEF IInv, TypeOK
  <2>3. QED
    BY <2>1, <2>2, BoundsAssumption
<1>3. TypeOK'
  BY <1>1, <1>2 DEF IInv, TypeOK
<1>4. \A v \in Workers : Sound(req[v])'
  BY <1>1 DEF IInv, TypeOK, Sound
<1>5. QED
  BY <1>3, <1>4 DEF IInv

LEMMA DealershipSteps ==
  ASSUME IInv, NEW w \in Workers, CreateDealership(w) \/ SaveRow(w) \/ ClearDefaults(w)
  PROVE  IInv'
<1> USE DEF IInv
<1>1. CASE CreateDealership(w)
  <2> DEFINE row == [is_active |-> TRUE, is_default |-> FALSE]
  <2>1. row \in Dealership /\ ~row.is_default /\ dealership \in Seq(Dealership)
    BY DEF Dealership, TypeOK
  <2>2. dealership' = Append(dealership, row) /\ Len(dealership) < MaxRows
    BY <1>1 DEF CreateDealership
  <2> HIDE DEF row
  <2>3. /\ dealership' \in Seq(Dealership) /\ Len(dealership') = Len(dealership) + 1
        /\ dealership'[Len(dealership) + 1] = row
        /\ \A d \in 1..Len(dealership) : dealership'[d] = dealership[d]
    BY <2>1, <2>2, AppendProperties
  <2>4. Ids = 1..Len(dealership) /\ Ids' = 1..(Len(dealership) + 1) /\ Len(dealership) \in Nat
    BY <2>3, Rows, LenProperties DEF Ids
  <2>5. AtMostOne'
    BY <2>1, <2>3, <2>4 DEF AtMostOne, Defaults
  <2>6. Len(dealership') <= MaxRows /\ Ids \subseteq Ids'
    BY <2>2, <2>3, <2>4, BoundsAssumption
  <2>7. Sound(Idle)
    BY DEF Sound
  <2>8. QED
    BY <1>1, <2>3, <2>5, <2>6, <2>7, RowsKeep DEF CreateDealership, End
<1>2. CASE SaveRow(w) /\ req[w].row.is_default
  <2> DEFINE r == [req[w] EXCEPT !.kind = "saved"]
  <2>1. req[w] # Idle /\ req[w].kind = "update" /\ Keep /\ Become(w, r)
    BY <1>2 DEF SaveRow, Kind, KeepBilling, Keep
  <2>2. r \in Request
    BY <2>1 DEF TypeOK, Request
  <2>3. Sound(r)
    BY <1>2, <2>1, <2>2 DEF Sound, TypeOK, Request
  <2>4. QED
    BY <2>1, <2>2, <2>3, Quiet
<1>3. CASE SaveRow(w) /\ ~req[w].row.is_default
  <2>1. /\ req[w] # Idle /\ req[w].kind = "update" /\ Become(w, Idle) /\ KeepBilling
        /\ dealership' = [dealership EXCEPT ![req[w].id] = req[w].row]
    BY <1>3 DEF SaveRow, Kind, End
  <2>2. req[w].row \in Dealership /\ req[w].id \in Ids
    BY <2>1, Requests DEF Sound
  <2>3. dealership' \in [Ids -> Dealership]
    BY <2>1, <2>2, Rows
  <2>4. dealership' \in Seq(Dealership) /\ Len(dealership') = Len(dealership) /\ Ids' = Ids
    BY <2>3, Rows, FunctionIsSeq DEF Ids
  <2>5. AtMostOne'
    BY <1>3, <2>1, <2>2, <2>4, Rows DEF AtMostOne, Defaults
  <2>6. Sound(Idle)
    BY DEF Sound
  <2>7. QED
    BY <2>1, <2>4, <2>5, <2>6, RowsKeep DEF TypeOK
<1>4. CASE ClearDefaults(w)
  <2>1. /\ req[w] # Idle /\ req[w].kind = "saved" /\ Become(w, Idle) /\ KeepBilling
    BY <1>4 DEF ClearDefaults, Kind, End
  <2>2. req[w].row \in Dealership /\ req[w].id \in Ids /\ req[w].row.is_default
    BY <2>1, Requests DEF Sound
  <2>3. dealership' = [e \in Ids |-> IF e = req[w].id THEN req[w].row
                                     ELSE [dealership[e] EXCEPT !.is_default = FALSE]]
    BY <1>4, <2>2 DEF ClearDefaults, Others
  <2>4. dealership' \in [Ids -> Dealership]
    BY <2>2, <2>3, Rows DEF Dealership
  <2>5. dealership' \in Seq(Dealership) /\ Len(dealership') = Len(dealership) /\ Ids' = Ids
    BY <2>4, Rows, FunctionIsSeq DEF Ids
  <2>6. \A e \in Ids : e # req[w].id => ~dealership'[e].is_default
    BY <2>3, Rows DEF Dealership
  <2>7. AtMostOne'
    BY <2>5, <2>6 DEF AtMostOne, Defaults
  <2>8. Sound(Idle)
    BY DEF Sound
  <2>9. QED
    BY <2>1, <2>5, <2>7, <2>8, RowsKeep DEF TypeOK
<1>5. QED
  BY <1>1, <1>2, <1>3, <1>4

----------------------------------------------------------------------------
LEMMA BillingRows ==
  ASSUME TypeOK
  PROVE  /\ plan \in Plans /\ customers \in 0..MaxCustomers /\ customers \in Nat
         /\ customer \in (1..customers) \cup {NoCustomer}
         /\ checkouts \subseteq 1..customers
         /\ moved => customers > 1
         /\ ~moved => checkouts \subseteq {customer}
         /\ ~moved /\ customer = NoCustomer => checkouts = {}
<1>1. /\ plan \in Plans /\ customers \in 0..MaxCustomers
      /\ customer \in (1..customers) \cup {NoCustomer}
      /\ checkouts \subseteq 1..customers
      /\ moved => customers > 1
      /\ ~moved => checkouts \subseteq {customer}
  BY Zenon DEF TypeOK
<1>2. customers \in Nat /\ 1..customers \subseteq 1..MaxCustomers
  BY <1>1, BoundsAssumption
<1>3. NoCustomer \notin 1..customers
  BY <1>2, CustomerAssumption
<1>4. QED
  BY <1>1, <1>2, <1>3

(* What a change of the plan or of the billing rows must leave. *)
BillingEdit ==
  /\ plan' \in Plans
  /\ customers' \in 0..MaxCustomers
  /\ customers <= customers'
  /\ customer' \in (1..customers') \cup {NoCustomer}
  /\ checkouts' \subseteq 1..customers'
  /\ moved' => customers' > 1
  /\ ~moved' => checkouts' \subseteq {customer'}
  /\ moved => moved'
  /\ \A v \in Workers :
       req[v] # Idle /\ req[v].kind = "session" => moved' \/ req[v].customer = customer'

LEMMA BillingKeeps ==
  ASSUME IInv, NEW w \in Workers, NEW r \in Request \cup {Idle},
         req' = [req EXCEPT ![w] = r], Sound(r)', dealership' = dealership, BillingEdit
  PROVE  IInv'
<1>1. TypeOK'
  BY DEF IInv, TypeOK, BillingEdit
<1>2. AtMostOne'
  BY DEF IInv, AtMostOne, Defaults, Ids
<1>3. \A v \in Workers : Sound(req[v])'
  <2>1. Sound(req[w])'
    BY DEF IInv, TypeOK, Sound, Ids
  <2>2. ASSUME NEW v \in Workers \ {w} PROVE Sound(req[v])'
    <3>1. req'[v] = req[v] /\ Sound(req[v]) /\ customers \in Nat /\ customers' \in Nat
      BY BoundsAssumption DEF IInv, TypeOK, BillingEdit
    <3>2. QED
      BY <3>1 DEF Sound, Ids, BillingEdit
  <2>3. QED
    BY <2>1, <2>2
<1>4. QED
  BY <1>1, <1>2, <1>3 DEF IInv

LEMMA BillingSteps ==
  ASSUME IInv, NEW w \in Workers, CreateCustomer(w) \/ SaveCustomer(w) \/ OpenSession(w)
  PROVE  IInv'
<1>1. TypeOK
  BY DEF IInv
<1>2. \A v \in Workers : req[v] # Idle /\ req[v].kind = "session" =>
                           moved \/ req[v].customer = customer
  BY DEF IInv, Sound
<1>3. CASE CreateCustomer(w)
  <2>1. PICK r : r = [kind |-> "save", customer |-> customers + 1]
    OBVIOUS
  <2>2. /\ customers < MaxCustomers /\ customers' = customers + 1
        /\ dealership' = dealership /\ plan' = plan /\ customer' = customer /\ moved' = moved
        /\ checkouts' = checkouts /\ req' = [req EXCEPT ![w] = r]
    BY <1>3, <2>1 DEF CreateCustomer, Become
  <2>3. r \in Request /\ Sound(r)'
    BY <1>1, <2>1, <2>2, BillingRows, BoundsAssumption DEF Request, Sound
  <2>4. BillingEdit
    BY <1>1, <1>2, <2>2, BillingRows, BoundsAssumption DEF BillingEdit
  <2>5. QED
    BY <2>2, <2>3, <2>4, BillingKeeps
<1>4. CASE SaveCustomer(w)
  <2>1. PICK r : r = [kind |-> "session", customer |-> req[w].customer]
    OBVIOUS
  <2>2. /\ req[w] # Idle /\ req[w].kind = "save" /\ customer = NoCustomer
        /\ customer' = req[w].customer /\ customers' = customers
        /\ dealership' = dealership /\ plan' = plan /\ moved' = moved
        /\ checkouts' = checkouts /\ req' = [req EXCEPT ![w] = r]
    BY <1>4, <2>1 DEF SaveCustomer, Become, Kind, CustomerUnsaved
  <2>3. req[w].customer \in 1..MaxCustomers /\ req[w].customer \in 1..customers
    BY <1>1, <2>2, Requests DEF IInv, Sound
  <2>4. r \in Request /\ Sound(r)'
    BY <2>1, <2>2, <2>3 DEF Request, Sound
  <2>5. \A v \in Workers : req[v] # Idle /\ req[v].kind = "session" => moved
    BY <1>1, <1>2, <2>2, Requests, CustomerAssumption
  <2>6. BillingEdit
    BY <1>1, <2>2, <2>3, <2>5, BillingRows DEF BillingEdit
  <2>7. QED
    BY <2>2, <2>4, <2>6, BillingKeeps
<1>5. CASE OpenSession(w)
  <2>1. /\ req[w] # Idle /\ req[w].kind = "session" /\ req' = [req EXCEPT ![w] = Idle]
        /\ checkouts' = checkouts \cup {req[w].customer}
        /\ dealership' = dealership /\ plan' = plan /\ customers' = customers
        /\ customer' = customer /\ moved' = moved
    BY <1>5 DEF OpenSession, Become, End, Kind
  <2>2. req[w].customer \in 1..customers
    BY <2>1 DEF IInv, Sound
  <2>3. BillingEdit
    BY <1>1, <1>2, <2>1, <2>2, BillingRows DEF BillingEdit
  <2>4. PICK r : r = Idle
    OBVIOUS
  <2>5. Sound(r)'
    BY <2>4 DEF Sound
  <2>6. QED
    BY <2>1, <2>3, <2>4, <2>5, BillingKeeps
<1>6. QED
  BY <1>3, <1>4, <1>5

(* The webhook's steps, which are of no request. *)
LEMMA WebhookSteps ==
  ASSUME IInv,
         \/ \E p \in Plans : ChangePlan(p)
         \/ \E c \in 1..customers : CustomerEvent(c)
  PROVE  IInv'
<1>1. PICK w \in Workers : TRUE
  BY WorkersAssumption
<1>2. PICK r : r = req[w]
  OBVIOUS
<1>3. TypeOK /\ Sound(r) /\ r \in Request \cup {Idle}
  BY <1>1, <1>2 DEF IInv, TypeOK
<1>4. \A v \in Workers : req[v] # Idle /\ req[v].kind = "session" =>
                           moved \/ req[v].customer = customer
  BY DEF IInv, Sound
<1>5. CASE \E p \in Plans : ChangePlan(p)
  <2>1. /\ plan' \in Plans /\ req' = [req EXCEPT ![w] = r] /\ dealership' = dealership
        /\ customers' = customers /\ customer' = customer /\ moved' = moved
        /\ checkouts' = checkouts
    BY <1>2, <1>3, <1>5 DEF ChangePlan, TypeOK
  <2>2. Sound(r)'
    BY <1>3, <2>1 DEF Sound, Ids
  <2>3. BillingEdit
    BY <1>3, <1>4, <2>1, BillingRows DEF BillingEdit
  <2>4. QED
    BY <1>3, <2>1, <2>2, <2>3, BillingKeeps
<1>6. CASE \E c \in 1..customers : CustomerEvent(c)
  <2>1. PICK c \in 1..customers : CustomerEvent(c)
    BY <1>6
  <2>2. /\ plan' = plan /\ req' = [req EXCEPT ![w] = r] /\ dealership' = dealership
        /\ customers' = customers /\ customer # c /\ customer' = c
        /\ moved' = (moved \/ customer # NoCustomer) /\ checkouts' = checkouts
    BY <1>2, <1>3, <2>1 DEF CustomerEvent, TypeOK
  <2>3. ~moved /\ customer = NoCustomer =>
          /\ checkouts = {}
          /\ \A v \in Workers : req[v] # Idle => req[v].kind # "session"
    BY <1>3, <1>4, Requests, CustomerAssumption, BillingRows
  <2>4. customer # NoCustomer => customers > 1
    BY <1>3, <2>1, <2>2, BillingRows
  <2>5. BillingEdit
    <3>1. CASE ~moved /\ customer = NoCustomer
      <4>1. checkouts' = {} /\ customers' = customers /\ customer' \in 1..customers
        BY <2>1, <2>2, <2>3, <3>1
      <4>2. ~moved' /\ \A v \in Workers : req[v] # Idle => req[v].kind # "session"
        BY <2>2, <2>3, <3>1
      <4>3. QED
        BY <1>3, <2>2, <3>1, <4>1, <4>2, BillingRows DEF BillingEdit
    <3>2. CASE moved \/ customer # NoCustomer
      <4>1. moved' /\ customers > 1
        BY <1>3, <2>2, <2>4, <3>2, BillingRows
      <4>2. QED
        BY <1>3, <2>1, <2>2, <4>1, BillingRows DEF BillingEdit
    <3>3. QED
      BY <3>1, <3>2
  <2>6. Sound(r)'
    BY <1>2, <1>3, <2>2, <2>5 DEF Sound, Ids, BillingEdit
  <2>7. QED
    BY <1>3, <2>2, <2>5, <2>6, BillingKeeps
<1>7. QED
  BY <1>5, <1>6

----------------------------------------------------------------------------
LEMMA StepIInv ==
  ASSUME IInv, [Next]_vars
  PROVE  IInv'
<1>1. CASE Next
  BY <1>1, RequestsQuiet, DealershipSteps, BillingSteps, WebhookSteps DEF Next
<1>2. CASE UNCHANGED vars
  BY <1>2 DEF vars, IInv, TypeOK, AtMostOne, Defaults, Ids, Sound
<1>3. QED
  BY <1>1, <1>2

(* The inductive invariant: beside the types and that there is at most one *)
(* default, what a request holds on to between its statements (the views   *)
(* and services of accounts/services/dealerships.py and of                 *)
(* billing/services.py). *)
THEOREM IInvHolds == Spec => []IInv
<1>1. QED
  BY InitIInv, StepIInv, PTL DEF Spec

(* The rows and the requests stay what the code lets them be, and every    *)
(* session at Stripe is for the one BillingCustomer of the company, until  *)
(* the event of another customer moves that row                            *)
(* (get_or_create_billing_customer, handle_customer_event). *)
THEOREM TypeCorrect == Spec => []TypeOK
<1>1. IInv => TypeOK
  BY DEF IInv
<1>2. QED
  BY <1>1, IInvHolds, PTL

(* Whatever is the default is the default alone: the count of OneDefault. *)
LEMMA OneAtMost ==
  ASSUME NEW S, \A d, e \in S : d = e
  PROVE  Cardinality(S) <= 1
<1>1. CASE S = {}
  BY <1>1, FS_EmptySet
<1>2. CASE S # {}
  <2>1. PICK d \in S : S = {d}
    BY <1>2
  <2>2. Cardinality(S) = 1
    BY <2>1, FS_Singleton, Zenon
  <2>3. QED
    BY <2>2
<1>3. QED
  BY <1>1, <1>2

(* The flag is taken away from the last default. *)
DefaultLost ==
  \E w \in Workers :
    /\ Kind(w) = "update" /\ req'[w] = Idle
    /\ req[w].id \in Defaults /\ ~req[w].row.is_default

LEMMA LosingTheDefault ==
  ASSUME IInv, Next, Defaults # {}, Defaults' = {}
  PROVE  DefaultLost
<1>1. TypeOK /\ Ids = 1..Len(dealership) /\ Len(dealership) \in Nat
  BY Rows DEF IInv
<1>2. ASSUME dealership' = dealership PROVE FALSE
  BY <1>2 DEF Defaults, Ids
<1>3. ASSUME NEW w \in Workers, CreateDealership(w) PROVE FALSE
  <2>1. PICK d \in Ids : dealership[d].is_default
    BY DEF Defaults
  <2>2. dealership' = Append(dealership, [is_active |-> TRUE, is_default |-> FALSE])
    BY <1>3 DEF CreateDealership
  <2>3. [is_active |-> TRUE, is_default |-> FALSE] \in Dealership /\ dealership \in Seq(Dealership)
    BY <1>1 DEF Dealership, TypeOK
  <2>4. d \in Ids' /\ dealership'[d] = dealership[d]
    BY <1>1, <2>1, <2>2, <2>3, AppendProperties, LenProperties DEF Ids
  <2>5. QED
    BY <2>1, <2>4 DEF Defaults
<1>4. ASSUME NEW w \in Workers, ClearDefaults(w) PROVE FALSE
  <2>1. req[w].id \in Ids /\ req[w].row.is_default
    BY <1>4 DEF ClearDefaults, Kind, IInv, Sound
  <2>2. req[w].id \in Ids' /\ dealership'[req[w].id] = req[w].row
    BY <1>4, <2>1 DEF ClearDefaults, Ids
  <2>3. QED
    BY <2>1, <2>2 DEF Defaults
<1>5. ASSUME NEW w \in Workers, SaveRow(w) PROVE DefaultLost
  <2>1. /\ Kind(w) = "update" /\ ~req[w].row.is_default
        /\ req' = [req EXCEPT ![w] = Idle]
        /\ dealership' = [dealership EXCEPT ![req[w].id] = req[w].row]
    BY <1>2, <1>5 DEF SaveRow, End, Become
  <2>2. PICK d \in Defaults : TRUE
    OBVIOUS
  <2>3. d \in Ids /\ dealership[d].is_default /\ Ids' = Ids
    BY <1>1, <2>1, <2>2, Rows DEF Defaults, Ids
  <2>4. d = req[w].id
    BY <2>1, <2>3 DEF Defaults, Ids
  <2>5. req'[w] = Idle
    BY <1>1, <2>1 DEF TypeOK
  <2>6. QED
    BY <2>1, <2>2, <2>4, <2>5 DEF DefaultLost
<1>6. QED
  BY <1>2, <1>3, <1>4, <1>5
     DEF Next, Keep, StartCreate, CountDealerships, StartUpdate, ReuseCustomer, FindNoCustomer,
         CreateCustomer, SaveCustomer, OpenSession, Abort, ChangePlan, CustomerEvent

(* For any number of requests that overlap, a company never has two        *)
(* default dealerships, and loses the one it has only by an update that    *)
(* saves the row of the default without the flag.                          *)
THEOREM DefaultStaysOne == Spec => OneDefault
<1> DEFINE Step == /\ Cardinality(Defaults') <= 1
                   /\ Defaults # {} /\ Defaults' = {} => DefaultLost
<1>1. ASSUME IInv, [Next]_vars PROVE [Step]_vars
  <2>1. Cardinality(Defaults') <= 1
    <3>1. \A d, e \in Defaults' : d = e
      BY <1>1, StepIInv DEF IInv, AtMostOne
    <3>2. QED
      BY <3>1, OneAtMost
  <2>2. QED
    BY <1>1, <2>1, LosingTheDefault
<1>2. QED
  BY <1>1, IInvHolds, PTL DEF Spec, OneDefault, DefaultLost

(* A dealership beyond the limit that the request read from the plan is    *)
(* created only if another one became active after the request counted     *)
(* them (assert_can_create_dealership takes no lock).                      *)
THEOREM LimitHoldsUnlessOverlapped == Spec => LimitNeedsOverlap
<1> DEFINE Step == Len(dealership') > Len(dealership) =>
      \E w \in Workers :
        /\ Kind(w) = "create" /\ req'[w] = Idle
        /\ ActiveCount >= req[w].limit => ActiveCount > req[w].count
<1>1. ASSUME IInv, [Next]_vars PROVE [Step]_vars
  <2> SUFFICES ASSUME Len(dealership') > Len(dealership), Next PROVE Step
    BY <1>1
  <2>1. TypeOK /\ Len(dealership) \in Nat /\ ActiveCount \in Nat
    BY <1>1, Rows, BoundsAssumption DEF IInv
  <2>2. ASSUME dealership' = dealership PROVE FALSE
    BY <2>1, <2>2
  <2>3. ASSUME NEW w \in Workers, CreateDealership(w) PROVE Step
    <3>1. Kind(w) = "create" /\ req[w] # Idle /\ req'[w] = Idle
      BY <2>1, <2>3 DEF CreateDealership, Kind, End, Become, TypeOK
    <3>2. req[w].count < req[w].limit /\ req[w].count \in Nat /\ req[w].limit \in Nat
      <4>1. req[w].kind = "create"
        BY <3>1 DEF Kind
      <4>2. req[w].count \in 0..MaxRows /\ req[w].limit \in {MaxDealerships[p] : p \in Plans}
        BY <2>1, <3>1, <4>1 DEF TypeOK, Request
      <4>3. QED
        BY <1>1, <3>1, <4>1, <4>2, PlansAssumption, BoundsAssumption DEF IInv, Sound
    <3>3. QED
      BY <2>1, <3>1, <3>2
  <2>4. ASSUME NEW w \in Workers, SaveRow(w) \/ ClearDefaults(w) PROVE FALSE
    <3>1. DOMAIN dealership' = DOMAIN dealership
      BY <2>1, <2>4, Rows DEF SaveRow, ClearDefaults, Ids
    <3>2. dealership' \in Seq(Dealership)
      BY <1>1, StepIInv DEF IInv, TypeOK
    <3>3. QED
      BY <2>1, <3>1, <3>2, LenProperties DEF TypeOK
  <2>5. QED
    BY <2>2, <2>3, <2>4
       DEF Next, Keep, StartCreate, CountDealerships, StartUpdate, ReuseCustomer, FindNoCustomer,
           CreateCustomer, SaveCustomer, OpenSession, Abort, ChangePlan, CustomerEvent
<1>2. QED
  BY <1>1, IInvHolds, PTL DEF Spec, LimitNeedsOverlap

----------------------------------------------------------------------------
(* How people come to a company of their own, in the requests of Accounts. *)
CONSTANTS Emails, Names, Slug(_, _), MaxChallenges, MaxCompanies
VARIABLES user, former, chal, company, request
People == INSTANCE Accounts WITH req <- request

(* No company of e that is live was there when a of them were: the person  *)
(* had none then, and those that came since have higher numbers.           *)
CameLater(e, a) ==
  /\ a <= Len(company)
  /\ \A c \in DOMAIN company : company[c].owner = e /\ company[c].is_active => a < c

(* What a request relies on.  A login that has created its account holds   *)
(* it, so that nobody else can give the person a company.                  *)
Relies(r) ==
  r # Idle =>
    /\ r.kind # "google" => CameLater(r.email, r.after)
    /\ r.kind = "google" /\ r.created => r.locks /\ People!Owned(r.email) = {}
    /\ r.kind = "insert" => People!Reached(r.name, r.slug)

Exclusive ==
  \A v, w \in Workers :
    v # w /\ request[v] # Idle /\ request[w] # Idle /\ request[v].email = request[w].email =>
      ~(request[v].locks /\ request[w].locks)

HasCompany(e) == \E c \in DOMAIN company : company[c].owner = e

Standing ==
  \A e \in Emails :
    IF e \in former THEN user[e] \in {"active", "linked"}
    ELSE user[e] \in {"active", "linked"} <=> HasCompany(e)

SlugsApart ==
  \A c, d \in DOMAIN company : c # d => company[c].slug # company[d].slug

SlugsReached == \A c \in DOMAIN company : People!Reached(company[c].name, company[c].slug)

FirstCameLater ==
  \A c, d \in DOMAIN company :
    c < d /\ company[c].owner = company[d].owner /\ company[c].is_active =>
      company[d].after < c

Accounted ==
  /\ user \in [Emails -> People!UserState]
  /\ former \in SUBSET Emails
  /\ Standing

Challenged ==
  /\ chal \in Seq(People!Challenge) /\ Len(chal) <= MaxChallenges
  /\ \A k \in DOMAIN chal : CameLater(chal[k].email, chal[k].after)

Founded ==
  /\ company \in Seq(People!Company) /\ Len(company) <= MaxCompanies
  /\ SlugsApart /\ SlugsReached /\ FirstCameLater

Requested ==
  /\ request \in [Workers -> People!Request \cup {Idle}]
  /\ Exclusive
  /\ \A w \in Workers : Relies(request[w])

PeopleInv == Accounted /\ Challenged /\ Founded /\ Requested

----------------------------------------------------------------------------
LEMMA PeopleInit ==
  ASSUME People!BoundsAssumption, People!Init PROVE PeopleInv
<1>1. chal = <<>> /\ company = <<>> /\ request = [w \in Workers |-> Idle]
  BY DEF People!Init
<1>2. DOMAIN company = {} /\ DOMAIN chal = {} /\ Len(chal) = 0 /\ Len(company) = 0
  BY <1>1
<1>3. Accounted
  BY <1>2 DEF People!Init, Accounted, Standing, HasCompany, People!UserState
<1>4. Challenged
  BY <1>1, <1>2 DEF Challenged, People!BoundsAssumption
<1>5. Founded
  BY <1>1, <1>2 DEF Founded, SlugsApart, SlugsReached, FirstCameLater, People!BoundsAssumption
<1>6. Requested
  BY <1>1 DEF Requested, Exclusive, Relies
<1>7. QED
  BY <1>3, <1>4, <1>5, <1>6 DEF PeopleInv

(* A request goes on to r, or ends, while no company changes. *)
LEMMA PeopleServed ==
  ASSUME Requested, UNCHANGED company, NEW w \in Workers,
         NEW r \in People!Request \cup {Idle}, People!Become(w, r), Relies(r),
         r # Idle /\ r.locks =>
           \A v \in Workers \ {w} :
             request[v] # Idle /\ request[v].email = r.email => ~request[v].locks
  PROVE  Requested'
<1>1. request' = [request EXCEPT ![w] = r]
  BY DEF People!Become
<1>2. \A v \in Workers : request'[v] = IF v = w THEN r ELSE request[v]
  BY <1>1 DEF Requested
<1>3. request' \in [Workers -> People!Request \cup {Idle}]
  BY <1>1 DEF Requested
<1>4. Exclusive'
  BY <1>2 DEF Requested, Exclusive
<1>5. \A v \in Workers : Relies(request[v])'
  <2> SUFFICES ASSUME NEW v \in Workers PROVE Relies(request[v])'
    OBVIOUS
  <2>1. Relies(request'[v])
    BY <1>2 DEF Requested
  <2>2. QED
    BY <2>1 DEF Relies, CameLater, People!Owned, People!Used, People!Reached
<1>6. QED
  BY <1>3, <1>4, <1>5 DEF Requested

(* Companies stay, under their names, or close. *)
LEMMA PeopleCompaniesStay ==
  ASSUME Requested, Challenged, Founded, UNCHANGED <<chal, request>>,
         company' \in Seq(People!Company), Len(company') = Len(company),
         \A c \in DOMAIN company :
           /\ company'[c].owner = company[c].owner /\ company'[c].name = company[c].name
           /\ company'[c].slug = company[c].slug /\ company'[c].after = company[c].after
           /\ company'[c].is_active => company[c].is_active
  PROVE  Requested' /\ Challenged' /\ Founded'
<1>1. DOMAIN company' = DOMAIN company
  BY LenProperties DEF Founded
<1>2. \A e, a : CameLater(e, a) => CameLater(e, a)'
  BY <1>1 DEF CameLater
<1>3. \A n, s : People!Reached(n, s) => People!Reached(n, s)'
  BY <1>1 DEF People!Reached, People!Used
<1>4. \A e : People!Owned(e)' \subseteq People!Owned(e)
  BY <1>1 DEF People!Owned
<1>5. Challenged'
  BY <1>2 DEF Challenged
<1>6. \A w \in Workers : Relies(request[w])'
  <2> SUFFICES ASSUME NEW w \in Workers PROVE Relies(request[w])'
    OBVIOUS
  <2>1. Relies(request[w])
    BY DEF Requested
  <2>2. QED
    BY <2>1, <1>2, <1>3, <1>4 DEF Relies
<1>7. Requested'
  BY <1>6 DEF Requested, Exclusive
<1>8. Founded'
  <2>1. SlugsReached'
    BY <1>1, <1>3 DEF Founded, SlugsReached
  <2>2. SlugsApart' /\ FirstCameLater'
    BY <1>1 DEF Founded, SlugsApart, FirstCameLater
  <2>3. QED
    BY <2>1, <2>2 DEF Founded
<1>9. QED
  BY <1>5, <1>7, <1>8

(* The requests by their kinds. *)
LEMMA PeopleKinds ==
  ASSUME Requested, NEW w \in Workers, request[w] # Idle
  PROVE  /\ request[w].email \in Emails /\ request[w].name \in Names
         /\ request[w].locks \in BOOLEAN
         /\ request[w].kind # "google" => request[w].after \in 0..MaxCompanies
         /\ request[w].kind \in {"start", "invalidate", "create"} => ~request[w].locks
         /\ request[w].kind = "google" => request[w].created \in BOOLEAN
         /\ request[w].kind \in {"slug", "insert"} => request[w].to \in {"active", "linked"}
         /\ request[w].kind = "insert" => request[w].slug \in People!Slugs
         /\ request[w].kind \in {"start", "invalidate"} =>
              \A k \in {"invalidate", "create"} :
                [request[w] EXCEPT !.kind = k] \in People!Request
<1>1. request[w] \in People!Request
  BY DEF Requested
<1>2. ASSUME request[w].kind \in {"start", "invalidate"}, NEW k \in {"invalidate", "create"}
      PROVE  [request[w] EXCEPT !.kind = k] \in People!Request
  <2>1. request[w] \in [kind : {"start", "invalidate", "create"}, email : Emails, name : Names,
                        after : 0..MaxCompanies, locks : {FALSE}]
    BY <1>1, <1>2 DEF People!Request
  <2>2. [request[w] EXCEPT !.kind = k] \in
          [kind : {"start", "invalidate", "create"}, email : Emails, name : Names,
           after : 0..MaxCompanies, locks : {FALSE}]
    BY <2>1
  <2>3. QED
    BY <2>2 DEF People!Request
<1>3. QED
  BY <1>1, <1>2 DEF People!Request

(* One number too many for as many values. *)
LEMMA Pigeons ==
  ASSUME NEW n \in Nat, NEW f \in [1..(n + 1) -> 1..n]
  PROVE  \E i, j \in 1..(n + 1) : i # j /\ f[i] = f[j]
<1>1. IsFiniteSet(1..n) /\ Cardinality(1..n) = n
  <2>1. Cardinality(1..n) = IF 1 > n THEN 0 ELSE n - 1 + 1
    BY FS_Interval
  <2>2. QED
    BY <2>1, FS_Interval
<1>2. IsFiniteSet(1..(n + 1)) /\ Cardinality(1..(n + 1)) = n + 1
  <2>1. Cardinality(1..(n + 1)) = IF 1 > n + 1 THEN 0 ELSE n + 1 - 1 + 1
    BY FS_Interval
  <2>2. QED
    BY <2>1, FS_Interval
<1>3. Cardinality(1..n) < Cardinality(1..(n + 1))
  BY <1>1, <1>2
<1>4. QED
  BY <1>1, <1>2, <1>3, FS_PigeonHole

LEMMA LeastNumber ==
  ASSUME NEW F, F \subseteq Nat, F # {} PROVE \E s \in F : \A i \in F : s <= i
<1> DEFINE R == {ss \in Nat \X Nat : ss[1] < ss[2]}
<1>1. IsWellFoundedOn(R, Nat)
  BY NatLessThanWellFounded, Zenon DEF OpToRel
<1>2. PICK s \in F : \A i \in F : ~(<<i, s>> \in R)
  <2> HIDE DEF R
  <2>1. QED
    BY <1>1, WFMin
<1>3. ASSUME NEW i \in F, i < s PROVE FALSE
  <2>1. <<i, s>> \in Nat \X Nat /\ <<i, s>>[1] < <<i, s>>[2]
    BY <1>3
  <2>2. <<i, s>> \in R
    BY <2>1, Zenon
  <2>3. QED
    BY <1>2, <2>2
<1>4. QED
  BY <1>3

(* Some candidate among the first, one more than there are companies, is   *)
(* not in use, since each company uses one: those before the least such    *)
(* are in use.                                                             *)
LEMMA SlugFound ==
  ASSUME Founded, People!BoundsAssumption, People!SlugAssumption, NEW n \in Names
  PROVE  People!FreeSlug(n) \in People!Slugs /\ People!Reached(n, People!FreeSlug(n))
<1> DEFINE Free == {i \in 1..(Len(company) + 1) : ~People!Used(Slug(n, i))}
<1>1. /\ Len(company) \in Nat /\ DOMAIN company = 1..Len(company)
      /\ 1..(Len(company) + 1) \subseteq People!Numbers
  BY LenProperties DEF Founded, People!BoundsAssumption, People!Numbers
<1>2. Free # {}
  <2> SUFFICES ASSUME Free = {} PROVE FALSE
    OBVIOUS
  <2> DEFINE by == [i \in 1..(Len(company) + 1) |->
                      CHOOSE c \in DOMAIN company : company[c].slug = Slug(n, i)]
  <2>1. \A i \in 1..(Len(company) + 1) :
          /\ by[i] \in 1..Len(company)
          /\ company[by[i]].slug = Slug(n, i)
    BY <1>1 DEF People!Used
  <2>2. by \in [1..(Len(company) + 1) -> 1..Len(company)]
    BY <2>1
  <2> HIDE DEF by
  <2>3. \E i, j \in 1..(Len(company) + 1) : i # j /\ by[i] = by[j]
    BY <1>1, <2>2, Pigeons
  <2>4. QED
    BY <1>1, <2>1, <2>3 DEF People!SlugAssumption
<1>3. PICK s \in Free : \A i \in Free : s <= i
  <2>1. Free \subseteq Nat
    BY <1>1
  <2> HIDE DEF Free
  <2>2. QED
    BY <1>2, <2>1, LeastNumber
<1>4. People!Min(Free) \in Free /\ \A i \in Free : People!Min(Free) <= i
  BY <1>3 DEF People!Min
<1> DEFINE m == People!Min(Free)
<1>5. \A i \in 1..(m - 1) : i \in 1..(Len(company) + 1) /\ ~(m <= i)
  BY <1>1, <1>4
<1>6. \A i \in 1..(m - 1) : People!Used(Slug(n, i))
  BY <1>4, <1>5
<1>7. m \in People!Numbers /\ People!FreeSlug(n) = Slug(n, m)
  BY <1>1, <1>4 DEF People!FreeSlug
<1> HIDE DEF Free, m
<1>8. Slug(n, m) \in People!Slugs
  BY <1>7 DEF People!Slugs
<1>9. People!Reached(n, Slug(n, m))
  BY <1>6, <1>7 DEF People!Reached
<1>10. QED
  BY <1>7, <1>8, <1>9

----------------------------------------------------------------------------
PeopleKeep == UNCHANGED <<user, former, chal, company>>

LEMMA PeopleQuiet ==
  ASSUME PeopleInv, PeopleKeep, Requested' PROVE PeopleInv'
<1>1. Accounted'
  BY DEF PeopleInv, PeopleKeep, Accounted, Standing, HasCompany
<1>2. Challenged'
  BY DEF PeopleInv, PeopleKeep, Challenged, CameLater
<1>3. Founded'
  BY DEF PeopleInv, PeopleKeep, Founded, SlugsApart, SlugsReached, FirstCameLater,
         People!Used, People!Reached
<1>4. QED
  BY <1>1, <1>2, <1>3 DEF PeopleInv

LEMMA PeopleSizes ==
  ASSUME PeopleInv, People!BoundsAssumption
  PROVE  /\ Len(company) \in 0..MaxCompanies /\ DOMAIN company = 1..Len(company)
         /\ Len(chal) \in 0..MaxChallenges /\ DOMAIN chal = 1..Len(chal)
         /\ company \in [1..Len(company) -> People!Company]
         /\ \A c \in DOMAIN company : company[c] \in People!Company
         /\ \A k \in DOMAIN chal : chal[k] \in People!Challenge
BY LenProperties, ElementOfSeq DEF PeopleInv, Founded, Challenged, People!BoundsAssumption

(* Whoever has no company now has none that came before. *)
LEMMA NoneYet ==
  ASSUME PeopleInv, People!BoundsAssumption, NEW e, People!Owned(e) = {}
  PROVE  CameLater(e, Len(company))
BY PeopleSizes DEF CameLater, People!Owned

LEMMA PeopleAsks ==
  ASSUME PeopleInv, People!BoundsAssumption, People!SlugAssumption,
         NEW w \in Workers,
         \/ \E e \in Emails, n \in Names :
              People!StartSignup(w, e, n) \/ People!StartGoogle(w, e, n)
         \/ People!Bootstrap(w) \/ People!FindSlug(w) \/ People!Abort(w)
  PROVE  PeopleInv'
<1>1. Requested /\ Exclusive /\ Relies(request[w])
  BY DEF PeopleInv, Requested
<1>2. Len(company) \in 0..MaxCompanies
  BY PeopleSizes
<1>3. ASSUME NEW r \in People!Request \cup {Idle}, People!Become(w, r), Relies(r), PeopleKeep,
             r # Idle /\ r.locks =>
               \A v \in Workers \ {w} :
                 request[v] # Idle /\ request[v].email = r.email => ~request[v].locks
      PROVE  PeopleInv'
  BY <1>1, <1>3, PeopleServed, PeopleQuiet DEF PeopleKeep
<1>4. ASSUME NEW e \in Emails, NEW n \in Names, People!StartSignup(w, e, n) PROVE PeopleInv'
  <2>1. PICK r : r = [kind |-> "start", email |-> e, name |-> n, after |-> Len(company),
                      locks |-> FALSE]
    OBVIOUS
  <2>2. r \in People!Request
    BY <1>2, <2>1 DEF People!Request
  <2>3. People!Owned(e) = {}
    BY <1>4 DEF People!StartSignup, People!Owned, PeopleInv, Accounted, Standing, HasCompany
  <2>4. Relies(r)
    BY <2>1, <2>3, NoneYet DEF Relies
  <2>5. People!Become(w, r) /\ PeopleKeep
    BY <1>4, <2>1 DEF People!StartSignup, PeopleKeep
  <2>6. ~r.locks
    BY <2>1
  <2>7. QED
    BY <1>3, <2>2, <2>4, <2>5, <2>6
<1>5. ASSUME NEW e \in Emails, NEW n \in Names, People!StartGoogle(w, e, n) PROVE PeopleInv'
  <2>1. PICK r : r = [kind |-> "google", email |-> e, name |-> n, locks |-> user[e] # "linked",
                      created |-> user[e] = "none"]
    OBVIOUS
  <2>2. r \in People!Request
    BY <2>1 DEF People!Request
  <2>3. user[e] = "none" => People!Owned(e) = {}
    BY DEF People!Owned, PeopleInv, Accounted, Standing, HasCompany
  <2>4. Relies(r)
    BY <2>1, <2>3 DEF Relies
  <2>5. People!Become(w, r) /\ PeopleKeep
    BY <1>5, <2>1 DEF People!StartGoogle, PeopleKeep
  <2>6. r.locks => ~People!Locked(e)
    BY <1>5, <2>1 DEF People!StartGoogle
  <2>7. r.email = e
    BY <2>1
  <2>8. QED
    BY <1>3, <2>2, <2>4, <2>5, <2>6, <2>7 DEF People!Locked
<1>6. ASSUME People!Bootstrap(w) PROVE PeopleInv'
  <2>1. PICK r : r = [kind |-> "slug", email |-> request[w].email, name |-> request[w].name,
                      after |-> Len(company), locks |-> request[w].locks, to |-> "linked"]
    OBVIOUS
  <2>2. request[w] # Idle /\ request[w].kind = "google"
    BY <1>6 DEF People!Bootstrap, People!Kind
  <2>3. r \in People!Request
    BY <1>1, <1>2, <2>1, <2>2, PeopleKinds DEF People!Request
  <2>4. People!Owned(request[w].email) = {}
    BY <1>1, <1>6, <2>2 DEF People!Bootstrap, People!NeedsCompany, Relies
  <2>5. Relies(r)
    BY <2>1, <2>4, NoneYet DEF Relies
  <2>6. People!Become(w, r) /\ PeopleKeep
    BY <1>6, <2>1 DEF People!Bootstrap, PeopleKeep
  <2>7. r.email = request[w].email /\ r.locks = request[w].locks
    BY <2>1
  <2>8. QED
    BY <1>1, <1>3, <2>2, <2>3, <2>5, <2>6, <2>7 DEF Exclusive
<1>7. ASSUME People!FindSlug(w) PROVE PeopleInv'
  <2>1. PICK s : s = People!FreeSlug(request[w].name)
    OBVIOUS
  <2>2. request[w] # Idle /\ request[w].kind = "slug"
    BY <1>7 DEF People!FindSlug, People!Kind
  <2>3. s \in People!Slugs /\ People!Reached(request[w].name, s)
    BY <1>1, <2>1, <2>2, PeopleKinds, SlugFound DEF PeopleInv
  <2>4. PICK r : r = [kind |-> "insert", email |-> request[w].email, name |-> request[w].name,
                      after |-> request[w].after, locks |-> request[w].locks,
                      to |-> request[w].to, slug |-> s]
    OBVIOUS
  <2>5. r \in People!Request
    BY <1>1, <2>2, <2>3, <2>4, PeopleKinds DEF People!Request
  <2>6. Relies(r)
    BY <1>1, <2>2, <2>3, <2>4 DEF Relies
  <2>7. People!Become(w, r) /\ PeopleKeep
    BY <1>7, <2>1, <2>4 DEF People!FindSlug, PeopleKeep
  <2>8. r.email = request[w].email /\ r.locks = request[w].locks
    BY <2>4
  <2>9. QED
    BY <1>1, <1>3, <2>2, <2>5, <2>6, <2>7, <2>8 DEF Exclusive
<1>8. CASE People!Abort(w)
  BY <1>3, <1>8 DEF People!Abort, People!End, PeopleKeep, Relies
<1>9. QED
  BY <1>4, <1>5, <1>6, <1>7, <1>8

(* The account changes beside its request. *)
LEMMA PeopleAccounts ==
  ASSUME PeopleInv, NEW w \in Workers, People!CreateUser(w) \/ People!Welcome(w)
  PROVE  PeopleInv'
<1>1. Requested /\ Exclusive /\ Relies(request[w])
  BY DEF PeopleInv, Requested
<1>2. UNCHANGED <<former, chal, company>> /\ request[w] # Idle
  BY DEF People!CreateUser, People!Welcome, People!Kind
<1>3. request[w].email \in Emails
  BY <1>1, <1>2, PeopleKinds
<1>4. Requested'
  <2>1. CASE People!CreateUser(w)
    <3>1. PICK r : r = [request[w] EXCEPT !.kind = "invalidate"]
      OBVIOUS
    <3>2. request[w].kind = "start"
      BY <1>2, <2>1 DEF People!CreateUser, People!Kind
    <3>3. r \in People!Request /\ ~request[w].locks
      BY <1>1, <1>2, <3>1, <3>2, PeopleKinds
    <3>4. /\ r.email = request[w].email /\ r.after = request[w].after /\ r.locks = request[w].locks
          /\ r.kind = "invalidate"
      <4>1. request[w] \in [kind : {"start", "invalidate", "create"}, email : Emails,
                            name : Names, after : 0..MaxCompanies, locks : {FALSE}]
        BY <1>1, <1>2, <3>2 DEF Requested, People!Request
      <4>2. QED
        BY <3>1, <4>1
    <3>5. Relies(r)
      BY <1>1, <1>2, <3>2, <3>4 DEF Relies
    <3>6. People!Become(w, r)
      BY <2>1, <3>1 DEF People!CreateUser
    <3>7. QED
      BY <1>1, <1>2, <3>3, <3>4, <3>5, <3>6, PeopleServed
  <2>2. CASE People!Welcome(w)
    BY <1>1, <1>2, <2>2, PeopleServed DEF People!Welcome, People!End, Relies
  <2>3. QED
    BY <2>1, <2>2
<1>5. Accounted'
  <2>1. HasCompany(request[w].email) \/ People!CreateUser(w)
    BY DEF People!Welcome, People!NeedsCompany, People!Owned, HasCompany
  <2>2. user' = [user EXCEPT ![request[w].email] =
                   IF People!CreateUser(w) THEN IF @ = "none" THEN "inactive" ELSE @
                   ELSE "linked"]
    BY DEF People!CreateUser, People!Welcome
  <2>3. user' \in [Emails -> People!UserState]
    BY <1>3, <2>2 DEF PeopleInv, Accounted, People!UserState
  <2>4. Standing'
    BY <1>2, <1>3, <2>1, <2>2 DEF PeopleInv, Accounted, Standing, HasCompany
  <2>5. QED
    BY <1>2, <2>3, <2>4 DEF PeopleInv, Accounted
<1>6. Challenged' /\ Founded'
  BY <1>2 DEF PeopleInv, Challenged, CameLater, Founded, SlugsApart, SlugsReached, FirstCameLater,
              People!Used, People!Reached
<1>7. QED
  BY <1>4, <1>5, <1>6 DEF PeopleInv

(* A code is closed, or made for a signup that began before. *)
LEMMA PeopleCodes ==
  ASSUME PeopleInv, People!BoundsAssumption,
         \/ \E w \in Workers : People!InvalidatePending(w) \/ People!CreateChallenge(w)
         \/ \E w \in Workers, c \in DOMAIN chal : People!Verify(w, c)
         \/ \E c \in DOMAIN chal : People!Expire(c)
  PROVE  PeopleInv'
<1>1. UNCHANGED <<user, former, company>>
  BY DEF People!InvalidatePending, People!CreateChallenge, People!Verify, People!Expire
<1>2. Accounted' /\ Founded'
  BY <1>1 DEF PeopleInv, Accounted, Standing, HasCompany, Founded, SlugsApart, SlugsReached,
              FirstCameLater, People!Used, People!Reached
<1>3. Requested /\ Exclusive
  BY DEF PeopleInv, Requested
<1>4. ASSUME chal' \in [DOMAIN chal -> People!Challenge],
             \A k \in DOMAIN chal :
               chal'[k].email = chal[k].email /\ chal'[k].after = chal[k].after
      PROVE  Challenged'
  <2>1. chal' \in Seq(People!Challenge) /\ Len(chal') = Len(chal)
    BY <1>4, PeopleSizes, FunctionIsSeq
  <2>2. DOMAIN chal' = DOMAIN chal
    BY <1>4
  <2>3. QED
    BY <1>1, <1>4, <2>1, <2>2 DEF PeopleInv, Challenged, CameLater
<1>5. ASSUME NEW w \in Workers, People!InvalidatePending(w) PROVE PeopleInv'
  <2>1. request[w] # Idle /\ request[w].kind = "invalidate"
    BY <1>5 DEF People!InvalidatePending, People!Kind
  <2>2. PICK r : r = [request[w] EXCEPT !.kind = "create"]
    OBVIOUS
  <2>3. r \in People!Request /\ ~request[w].locks
    BY <1>3, <2>1, <2>2, PeopleKinds
  <2>4. /\ r.email = request[w].email /\ r.after = request[w].after /\ r.locks = request[w].locks
        /\ r.kind = "create"
    <3>1. request[w] \in [kind : {"start", "invalidate", "create"}, email : Emails,
                          name : Names, after : 0..MaxCompanies, locks : {FALSE}]
      BY <1>3, <2>1 DEF Requested, People!Request
    <3>2. QED
      BY <2>2, <3>1
  <2>5. Relies(r)
    BY <1>3, <2>1, <2>4 DEF Relies, Requested
  <2>6. People!Become(w, r)
    BY <1>5, <2>2 DEF People!InvalidatePending
  <2>7. Requested'
    BY <1>1, <1>3, <2>3, <2>4, <2>5, <2>6, PeopleServed
  <2>8. chal' = [c \in DOMAIN chal |->
                   IF chal[c].email = request[w].email THEN [chal[c] EXCEPT !.open = FALSE]
                   ELSE chal[c]]
    BY <1>5 DEF People!InvalidatePending
  <2>9. Challenged'
    BY <1>4, <2>8, PeopleSizes DEF People!Challenge
  <2>10. QED
    BY <1>2, <2>7, <2>9 DEF PeopleInv
<1>6. ASSUME NEW w \in Workers, People!CreateChallenge(w) PROVE PeopleInv'
  <2>1. request[w] # Idle /\ request[w].kind = "create" /\ Len(chal) < MaxChallenges
    BY <1>6 DEF People!CreateChallenge, People!Kind
  <2>2. PICK k : k = [email |-> request[w].email, name |-> request[w].name, open |-> TRUE,
                      after |-> request[w].after]
    OBVIOUS
  <2>3. k \in People!Challenge
    BY <1>3, <2>1, <2>2, PeopleKinds DEF People!Challenge
  <2>4. CameLater(k.email, k.after)
    BY <1>3, <2>1, <2>2 DEF Requested, Relies
  <2>5. chal' = Append(chal, k)
    BY <1>6, <2>2 DEF People!CreateChallenge
  <2>6. /\ chal' \in Seq(People!Challenge) /\ Len(chal') = Len(chal) + 1
        /\ DOMAIN chal' = 1..(Len(chal) + 1)
        /\ \A i \in 1..(Len(chal) + 1) : chal'[i] = IF i = Len(chal) + 1 THEN k ELSE chal[i]
    BY <2>3, <2>5, AppendProperties, LenProperties DEF PeopleInv, Challenged
  <2>7. \A i \in DOMAIN chal' : CameLater(chal'[i].email, chal'[i].after)
    BY <2>4, <2>6, PeopleSizes DEF PeopleInv, Challenged
  <2>9. Challenged'
    BY <1>1, <2>1, <2>6, <2>7, PeopleSizes
    DEF Challenged, CameLater, People!BoundsAssumption
  <2>10. Requested'
    BY <1>1, <1>3, <1>6, PeopleServed DEF People!CreateChallenge, People!End, Relies
  <2>11. QED
    BY <1>2, <2>9, <2>10 DEF PeopleInv
<1>7. ASSUME NEW c \in DOMAIN chal, chal' = [chal EXCEPT ![c].open = FALSE] PROVE Challenged'
  <2>1. PICK k : k = [chal[c] EXCEPT !.open = FALSE]
    OBVIOUS
  <2>2. k \in People!Challenge /\ k.email = chal[c].email /\ k.after = chal[c].after
    BY <2>1, PeopleSizes DEF People!Challenge
  <2>3. chal' = [chal EXCEPT ![c] = k]
    BY <1>7, <2>1
  <2>4. QED
    BY <1>4, <2>2, <2>3, PeopleSizes DEF PeopleInv, Challenged
<1>8. ASSUME NEW w \in Workers, NEW c \in DOMAIN chal, People!Verify(w, c) PROVE PeopleInv'
  <2>1. PICK r : r = [kind |-> "slug", email |-> chal[c].email, name |-> chal[c].name,
                      after |-> chal[c].after, locks |-> FALSE, to |-> "active"]
    OBVIOUS
  <2>2. r \in People!Request
    BY <2>1, PeopleSizes DEF People!Request, People!Challenge
  <2>3. Relies(r) /\ ~r.locks
    BY <2>1 DEF PeopleInv, Challenged, Relies
  <2>4. People!Become(w, r)
    BY <1>8, <2>1 DEF People!Verify
  <2>5. Requested'
    BY <1>1, <1>3, <2>2, <2>3, <2>4, PeopleServed
  <2>6. Challenged'
    BY <1>7, <1>8 DEF People!Verify
  <2>7. QED
    BY <1>2, <2>5, <2>6 DEF PeopleInv
<1>9. ASSUME NEW c \in DOMAIN chal, People!Expire(c) PROVE PeopleInv'
  <2>1. Challenged'
    BY <1>7, <1>9 DEF People!Expire
  <2>2. request' = request
    BY <1>9 DEF People!Expire
  <2>3. Requested'
    BY <1>1, <1>3, <2>2 DEF Requested, Exclusive, Relies, CameLater, People!Owned, People!Used,
                             People!Reached
  <2>4. QED
    BY <1>2, <2>1, <2>3 DEF PeopleInv
<1>10. QED
  BY <1>5, <1>6, <1>8, <1>9

(* A company is founded: behind all there are, under a slug that is free. *)
LEMMA PeopleFounds ==
  ASSUME PeopleInv, People!BoundsAssumption, NEW w \in Workers, People!CreateCompany(w)
  PROVE  PeopleInv'
<1>0. PICK e, n : e = request[w].email /\ n = Len(company) + 1
  OBVIOUS
<1>1. Requested /\ Exclusive /\ Relies(request[w]) /\ Founded
  BY DEF PeopleInv, Requested
<1>2. request[w] # Idle /\ request[w].kind = "insert" /\ Len(company) < MaxCompanies
  BY DEF People!CreateCompany, People!Kind
<1>3. PICK k : k = [name |-> request[w].name, slug |-> request[w].slug, owner |-> e,
                    is_active |-> TRUE, after |-> request[w].after]
  OBVIOUS
<1>4. k \in People!Company
  BY <1>0, <1>1, <1>2, <1>3, PeopleKinds DEF People!Company
<1>5. /\ company' = Append(company, k) /\ UNCHANGED <<former, chal>>
      /\ user' = [user EXCEPT ![e] = IF @ = "linked" THEN @ ELSE request[w].to]
      /\ request' = [request EXCEPT ![w] = Idle]
  BY <1>0, <1>3 DEF People!CreateCompany, People!End, People!Become
<1>6. /\ company' \in Seq(People!Company) /\ Len(company') = n /\ DOMAIN company' = 1..n
      /\ \A c \in 1..n : company'[c] = IF c = n THEN k ELSE company[c]
      /\ DOMAIN company = 1..Len(company) /\ Len(company) \in Nat /\ n = Len(company) + 1
      /\ \A c \in 1..n : c = n \/ c \in DOMAIN company
  BY <1>0, <1>4, <1>5, AppendProperties, LenProperties DEF PeopleInv, Founded
<1>7. ASSUME NEW p, NEW a, a \in Nat, CameLater(p, a) PROVE CameLater(p, a)'
  BY <1>6, <1>7 DEF CameLater
<1>8. ASSUME NEW s, People!Used(s) PROVE People!Used(s)'
  BY <1>6, <1>8 DEF People!Used
<1>9. Challenged'
  <2>1. \A i \in DOMAIN chal : CameLater(chal[i].email, chal[i].after)'
    BY <1>5, <1>7, PeopleSizes DEF PeopleInv, Challenged, People!Challenge
  <2>2. QED
    BY <1>5, <2>1 DEF PeopleInv, Challenged
<1>10. Requested'
  <2>1. \A v \in Workers : request'[v] = IF v = w THEN Idle ELSE request[v]
    BY <1>1, <1>5 DEF Requested
  <2>2. request' \in [Workers -> People!Request \cup {Idle}] /\ Exclusive'
    BY <1>1, <1>5, <2>1 DEF Requested, Exclusive
  <2>3. ASSUME NEW v \in Workers PROVE Relies(request[v])'
    <3>1. CASE v = w
      BY <2>1, <3>1 DEF Relies
    <3>2. CASE v # w /\ request[v] # Idle
      <4>1. Relies(request[v]) /\ request'[v] = request[v]
        BY <1>1, <2>1, <3>2 DEF Requested
      <4>2. ASSUME request[v].kind # "google"
            PROVE  CameLater(request[v].email, request[v].after)'
        <5>1. request[v].after \in Nat
          <6>1. request[v].after \in 0..MaxCompanies
            BY <1>1, <3>2, <4>2, PeopleKinds
          <6>2. QED
            BY <6>1
        <5>2. CameLater(request[v].email, request[v].after)
          BY <3>2, <4>1, <4>2 DEF Relies
        <5>3. QED
          BY <1>6, <4>1, <5>1, <5>2 DEF CameLater
      <4>3. request[v].kind = "insert" =>
              People!Reached(request[v].name, request[v].slug)'
        BY <1>8, <3>2, <4>1 DEF Relies, People!Reached
      <4>4. ASSUME request[v].kind = "google", request[v].created
            PROVE  request[v].locks /\ People!Owned(request[v].email)' = {}
        <5>1. request[v].locks /\ People!Owned(request[v].email) = {}
          BY <3>2, <4>1, <4>4 DEF Relies
        <5>2. request[v].email # e
          BY <1>0, <1>1, <1>2, <3>2, <5>1 DEF People!CreateCompany, People!Locked, Exclusive
        <5>3. k.owner = e
          BY <1>3
        <5>4. ASSUME NEW c \in 1..n, company'[c].owner = request[v].email, company'[c].is_active
              PROVE  FALSE
          BY <1>6, <5>1, <5>2, <5>3, <5>4 DEF People!Owned
        <5>5. QED
          BY <1>6, <4>1, <5>1, <5>4 DEF People!Owned
      <4>5. QED
        BY <4>1, <4>2, <4>3, <4>4 DEF Relies
    <3>3. CASE v # w /\ request[v] = Idle
      BY <2>1, <3>3 DEF Relies
    <3>4. QED
      BY <3>1, <3>2, <3>3
  <2>4. QED
    BY <2>2, <2>3 DEF Requested
<1>11. Founded'
  <2>1. /\ k.owner = e /\ k.name = request[w].name /\ k.slug = request[w].slug
        /\ k.after = request[w].after
    BY <1>3
  <2>2. SlugsApart'
    <3>1. \A c \in DOMAIN company : company[c].slug # k.slug
      BY <2>1 DEF People!CreateCompany, People!SlugFree, People!Used
    <3>2. QED
      BY <1>1, <1>6, <3>1 DEF Founded, SlugsApart
  <2>3. People!Reached(k.name, k.slug)
    BY <1>1, <1>2, <2>1 DEF Relies
  <2>4. SlugsReached'
    <3> SUFFICES ASSUME NEW c \in 1..n
                 PROVE  People!Reached(company[c].name, company[c].slug)'
      BY <1>6 DEF SlugsReached
    <3>1. People!Reached(company'[c].name, company'[c].slug)
      BY <1>1, <1>6, <2>3 DEF Founded, SlugsReached
    <3>2. QED
      BY <1>8, <3>1 DEF People!Reached
  <2>5. CameLater(e, k.after)
    BY <1>0, <1>1, <1>2, <2>1 DEF Relies
  <2>6. FirstCameLater'
    BY <1>1, <1>6, <2>1, <2>5 DEF Founded, FirstCameLater, CameLater
  <2>7. QED
    <3>1. Len(company') <= MaxCompanies
      BY <1>2, <1>6 DEF People!BoundsAssumption
    <3>2. QED
      BY <1>6, <2>2, <2>4, <2>6, <3>1 DEF Founded
<1>12. Accounted'
  <2>1. e \in Emails /\ request[w].to \in {"active", "linked"}
    BY <1>0, <1>1, <1>2, PeopleKinds
  <2>2. user' \in [Emails -> People!UserState]
    BY <1>5, <2>1 DEF PeopleInv, Accounted, People!UserState
  <2>3. k.owner = e
    BY <1>3
  <2>4. \A p : HasCompany(p)' <=> HasCompany(p) \/ p = e
    BY <1>6, <2>3 DEF HasCompany
  <2>5. Standing'
    BY <1>5, <2>1, <2>4 DEF PeopleInv, Accounted, Standing
  <2>6. QED
    BY <1>5, <2>2, <2>5 DEF PeopleInv, Accounted
<1>13. QED
  BY <1>9, <1>10, <1>11, <1>12 DEF PeopleInv

LEMMA PeopleClose ==
  ASSUME PeopleInv, People!BoundsAssumption, NEW c \in DOMAIN company, People!CloseDealership(c)
  PROVE  PeopleInv'
<1>1. UNCHANGED <<user, former, chal, request>>
      /\ company' = [company EXCEPT ![c].is_active = FALSE]
  BY DEF People!CloseDealership
<1>2. PICK k : k = [company[c] EXCEPT !.is_active = FALSE]
  OBVIOUS
<1>3. /\ k \in People!Company /\ k.owner = company[c].owner /\ k.name = company[c].name
      /\ k.slug = company[c].slug /\ k.after = company[c].after /\ ~k.is_active
  BY <1>2, PeopleSizes DEF People!Company
<1>4. company' = [company EXCEPT ![c] = k]
  BY <1>1, <1>2
<1>5. company' \in [1..Len(company) -> People!Company] /\ Len(company) \in Nat
  BY <1>3, <1>4, PeopleSizes
<1>6. company' \in Seq(People!Company) /\ Len(company') = Len(company)
  BY <1>5, FunctionIsSeq
<1>7. \A d \in DOMAIN company :
        /\ company'[d].owner = company[d].owner /\ company'[d].name = company[d].name
        /\ company'[d].slug = company[d].slug /\ company'[d].after = company[d].after
        /\ company'[d].is_active => company[d].is_active
  BY <1>3, <1>4
<1>8. Requested' /\ Challenged' /\ Founded'
  BY <1>1, <1>6, <1>7, PeopleCompaniesStay DEF PeopleInv
<1>9. Accounted'
  <2>1. DOMAIN company' = DOMAIN company
    BY <1>4
  <2>2. \A e : HasCompany(e)' <=> HasCompany(e)
    BY <1>7, <2>1 DEF HasCompany
  <2>3. QED
    BY <1>1, <2>2 DEF PeopleInv, Accounted, Standing
<1>10. QED
  BY <1>8, <1>9 DEF PeopleInv

LEMMA PeopleStep ==
  ASSUME PeopleInv, People!BoundsAssumption, People!SlugAssumption,
         [People!Next]_(People!vars)
  PROVE  PeopleInv'
<1>1. CASE UNCHANGED People!vars
  <2>1. PeopleKeep /\ request' = request
    BY <1>1 DEF People!vars, PeopleKeep
  <2>2. Requested'
    BY <2>1 DEF PeopleInv, PeopleKeep, Requested, Exclusive, Relies, CameLater, People!Owned,
                People!Used, People!Reached
  <2>3. QED
    BY <2>1, <2>2, PeopleQuiet
<1>2. CASE People!Next
  BY <1>2, PeopleAsks, PeopleAccounts, PeopleCodes, PeopleFounds, PeopleClose DEF People!Next
<1>3. QED
  BY <1>1, <1>2

(* The invariant of the people holds in every reachable state. *)
THEOREM PeopleInvHolds ==
  ASSUME People!BoundsAssumption, People!SlugAssumption PROVE People!Spec => []PeopleInv
BY PeopleInit, PeopleStep, PTL DEF People!Spec

(* Accounts, companies, codes and requests keep their types; a Google      *)
(* login that writes an account is alone with it, every company has a slug *)
(* of its own, and none has a number before all candidates of its name     *)
(* that come first are in use, by this name or another                     *)
(* (generate_unique_slug).                                                 *)
THEOREM PeopleTypeCorrect ==
  ASSUME People!BoundsAssumption, People!SlugAssumption PROVE People!Spec => []People!TypeOK
<1>1. PeopleInv => People!TypeOK
  BY DEF PeopleInv, Accounted, Challenged, Founded, Requested, Exclusive, SlugsApart, SlugsReached,
         People!TypeOK
<1>2. QED
  BY <1>1, PeopleInvHolds, PTL

(* Nobody with an active account is left without a company, and a person   *)
(* who owns a live company gets a second one only if the first came after  *)
(* the second was asked for (complete_signup_from_challenge and            *)
(* bootstrap_account_for_user never ask again).                            *)
THEOREM CompaniesAreEarned ==
  ASSUME People!BoundsAssumption, People!SlugAssumption PROVE People!Spec => []People!OneCompanyEach
<1>1. PeopleInv => People!OneCompanyEach
  BY DEF PeopleInv, Accounted, Standing, HasCompany, Founded, FirstCameLater,
         People!OneCompanyEach
<1>2. QED
  BY <1>1, PeopleInvHolds, PTL
===============================================================================
