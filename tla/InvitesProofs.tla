------------------------------ MODULE InvitesProofs ------------------------------
(***************************************************************************)
(* Theorems about Invites, for any people, requests in flight, plan and    *)
(* bounds.                                                                 *)
(***************************************************************************)
EXTENDS Invites, SequenceTheorems, FiniteSetTheorems, TLAPS

OnePending == \A i, j \in Pending : inv[i].email = inv[j].email => i = j

(* What a request holds on to: an invite that is there and could be        *)
(* accepted when it was read; a count under the limit; and a person who    *)
(* was no member.                                                          *)
Sound(r) ==
  r # Idle =>
    /\ r.kind \in {"resend", "revoke", "accept"} => r.id \in Ids
    /\ r.kind = "accept" => r.read.status = "pending" /\ ~r.read.is_expired
    /\ r.kind \in {"limit", "create"} => r.count < Limit(r.role)
    /\ r.kind = "create" => ~r.member

IInv ==
  /\ TypeOK
  /\ inv \in Seq(Invite)
  /\ OnePending
  /\ \A w \in Workers : Sound(req[w])

----------------------------------------------------------------------------
LEMMA InitIInv == Init => IInv
<1> SUFFICES ASSUME Init PROVE IInv
  OBVIOUS
<1>1. TypeOK
  BY BoundsAssumption DEF Init, TypeOK, Ids, Membership, Roles
<1>2. inv \in Seq(Invite) /\ OnePending /\ \A w \in Workers : Sound(req[w])
  BY DEF Init, OnePending, Pending, Ids, Sound
<1>3. QED
  BY <1>1, <1>2 DEF IInv

(* A sequence is a function on the numbers up to its length. *)
LEMMA FunctionIsSeq ==
  ASSUME NEW S, NEW n \in Nat, NEW f \in [1..n -> S]
  PROVE  f \in Seq(S) /\ Len(f) = n
<1>1. f \in Seq(S)
  BY SeqDef, Zenon
<1>2. QED
  BY <1>1, LenProperties

(* The invites are numbered, and the people who matter are finitely many. *)
LEMMA Rows ==
  ASSUME IInv
  PROVE  /\ Len(inv) \in Nat /\ inv \in [Ids -> Invite] /\ DOMAIN inv = Ids
         /\ IsFiniteSet(Active) /\ IsFiniteSet(Seats)
         /\ \A role : UsedSeats(role) \in Nat /\ PendingSeats(role) \in Nat
<1>1. Len(inv) \in Nat /\ inv \in [Ids -> Invite] /\ DOMAIN inv = Ids
  BY LenProperties DEF IInv, Ids
<1>2. IsFiniteSet(Active)
  BY FS_Subset, EmailsAssumption DEF Active
<1>3. IsFiniteSet(Seats)
  <2>1. Seats \subseteq Emails
    BY <1>1 DEF Seats, Active, Pending, Invite
  <2>2. QED
    BY <2>1, FS_Subset, EmailsAssumption
<1>4. ASSUME NEW role PROVE UsedSeats(role) \in Nat /\ PendingSeats(role) \in Nat
  <2>1. {e \in Active : mem[e].role = "vendor"} \subseteq Active
    OBVIOUS
  <2>2. UsedSeats(role) \in Nat
    BY <1>2, <2>1, FS_Subset, FS_CardinalityType DEF UsedSeats
  <2>3. {inv[i].email : i \in {j \in Pending : inv[j].role = role}} \subseteq Emails
    BY <1>1 DEF Pending, Invite
  <2>4. PendingSeats(role) \in Nat
    BY <2>3, FS_Subset, FS_CardinalityType, EmailsAssumption DEF PendingSeats
  <2>5. QED
    BY <2>2, <2>4
<1>5. QED
  BY <1>1, <1>2, <1>3, <1>4

(* The requests by their kinds. *)
LEMMA Requests ==
  ASSUME TypeOK, NEW w \in Workers, req[w] # Idle
  PROVE  /\ req[w].kind \in {"counted", "limit", "create"} =>
              req[w].role \in Roles /\ req[w].count \in Nat
         /\ req[w].kind = "create" => req[w].email \in Emails
         /\ req[w].kind = "accept" => req[w].read \in Invite
BY DEF TypeOK, Request

(* A request goes on, or ends, and no row changes. *)
LEMMA Quiet ==
  ASSUME IInv, NEW w \in Workers, NEW r \in Request \cup {Idle}, Begin(w, r), Sound(r)
  PROVE  IInv'
<1>1. /\ inv' = inv /\ mem' = mem /\ users' = users /\ granted' = granted
      /\ req' = [req EXCEPT ![w] = r]
  BY DEF Begin
<1>2. TypeOK'
  BY <1>1 DEF IInv, TypeOK, Ids, InvitesOf
<1>3. OnePending'
  BY <1>1 DEF IInv, OnePending, Pending, Ids
<1>4. \A v \in Workers : Sound(req[v])'
  BY <1>1 DEF IInv, TypeOK, Sound, Ids
<1>5. QED
  BY <1>1, <1>2, <1>3, <1>4 DEF IInv

LEMMA Counting ==
  ASSUME IInv, NEW w \in Workers,
         \/ \E role \in Roles : CountUsed(w, role)
         \/ CheckLimit(w)
         \/ \E e \in Emails : CheckMember(w, e)
  PROVE  IInv'
<1>1. TypeOK
  BY DEF IInv
<1>2. ASSUME NEW role \in Roles, CountUsed(w, role) PROVE IInv'
  <2> DEFINE r == [kind |-> "counted", role |-> role, count |-> UsedSeats(role)]
  <2>1. r \in Request /\ Sound(r)
    BY Rows DEF Request, Sound
  <2>2. QED
    BY <1>2, <2>1, Quiet DEF CountUsed
<1>3. CASE CheckLimit(w)
  <2> DEFINE r == [kind |-> "limit", role |-> req[w].role,
                   count |-> req[w].count + PendingSeats(req[w].role)]
  <2>1. req[w] # Idle /\ req[w].kind = "counted"
    BY <1>3 DEF CheckLimit, Kind
  <2>2. req[w].role \in Roles /\ req[w].count \in Nat
    BY <1>1, <2>1, Requests
  <2>3. r \in Request
    BY <2>2, Rows DEF Request
  <2>4. Sound(r)
    BY <1>3 DEF Sound, CheckLimit
  <2>5. QED
    BY <1>3, <2>3, <2>4, Quiet DEF CheckLimit
<1>4. ASSUME NEW e \in Emails, CheckMember(w, e) PROVE IInv'
  <2> DEFINE r == [kind |-> "create", email |-> e, role |-> req[w].role,
                   count |-> req[w].count, member |-> e \in Active]
  <2>1. req[w] # Idle /\ req[w].kind = "limit" /\ e \notin Active
    BY <1>4 DEF CheckMember, Kind
  <2>2. req[w].role \in Roles /\ req[w].count \in Nat /\ req[w].count < Limit(req[w].role)
    BY <1>1, <2>1, Requests DEF IInv, Sound
  <2>3. r \in Request
    BY <2>2 DEF Request
  <2>4. Sound(r)
    BY <2>1, <2>2 DEF Sound
  <2>5. QED
    BY <1>4, <2>3, <2>4, Quiet DEF CheckMember
<1>5. QED
  BY <1>2, <1>3, <1>4

LEMMA Reading ==
  ASSUME IInv, NEW w \in Workers,
         \/ \E i \in Ids, kind \in {"resend", "revoke"} : ReadInvite(w, i, kind)
         \/ \E i \in Ids : ReadToken(w, i)
         \/ Abort(w)
  PROVE  IInv'
<1>1. Ids \subseteq 1..MaxInvites
  BY Rows, BoundsAssumption DEF IInv, TypeOK, Ids
<1>2. ASSUME NEW i \in Ids, NEW kind \in {"resend", "revoke"}, ReadInvite(w, i, kind) PROVE IInv'
  <2> DEFINE r == [kind |-> kind, id |-> i]
  <2>1. r \in Request /\ Sound(r)
    BY <1>1 DEF Request, Sound
  <2>2. QED
    BY <1>2, <2>1, Quiet DEF ReadInvite
<1>3. ASSUME NEW i \in Ids, ReadToken(w, i) PROVE IInv'
  <2> DEFINE r == [kind |-> "accept", id |-> i, read |-> inv[i],
                   new_user |-> inv[i].email \notin users]
  <2>1. r \in Request
    BY <1>1, Rows DEF Request
  <2>2. Sound(r)
    BY <1>3 DEF Sound, ReadToken, CanBeAccepted
  <2>3. QED
    BY <1>3, <2>1, <2>2, Quiet DEF ReadToken
<1>4. CASE Abort(w)
  BY <1>4, Quiet DEF Abort, End, Begin, Sound
<1>5. QED
  BY <1>2, <1>3, <1>4

----------------------------------------------------------------------------
(* What a change of the rows must leave; a request that makes one ends.    *)
MembershipsOK ==
  /\ mem \in [Emails -> Membership]
  /\ \A e \in Emails : mem[e].status # "none" => \E i \in InvitesOf(e) : inv[i].accepted_at

LEMMA RowsKeep ==
  ASSUME IInv,
         req' = req \/ \E w \in Workers : req' = [req EXCEPT ![w] = Idle],
         inv' \in Seq(Invite), Len(inv') <= MaxInvites, Ids \subseteq Ids',
         \A i \in Ids' : inv'[i].status # "expired", OnePending',
         MembershipsOK', users' \in SUBSET Emails, granted' \in [Emails -> Roles]
  PROVE  IInv'
<1>1. /\ req' \in [Workers -> Request \cup {Idle}]
      /\ \A v \in Workers : req'[v] = req[v] \/ req'[v] = Idle
  BY DEF IInv, TypeOK
<1>2. \A i \in Ids' : inv'[i] \in Invite
  BY LenProperties DEF Ids
<1>3. TypeOK'
  BY <1>1, <1>2 DEF TypeOK, MembershipsOK
<1>4. \A v \in Workers : Sound(req[v])'
  BY <1>1 DEF IInv, Sound
<1>5. QED
  BY <1>3, <1>4 DEF IInv

(* A change of the invites that adds none, and makes none pending. *)
InvitesEdit ==
  /\ inv' \in [Ids -> Invite]
  /\ \A i \in Ids :
       /\ inv'[i].email = inv[i].email /\ inv'[i].role = inv[i].role
       /\ inv[i].accepted_at => inv'[i].accepted_at
       /\ inv'[i].status = "pending" => inv[i].status = "pending"
       /\ inv'[i].status # "expired"

LEMMA EditKeeps ==
  ASSUME IInv, InvitesEdit
  PROVE  /\ inv' \in Seq(Invite) /\ Len(inv') <= MaxInvites /\ Ids' = Ids
         /\ \A i \in Ids' : inv'[i].status # "expired"
         /\ OnePending' /\ Pending' \subseteq Pending
         /\ \A e \in Emails : InvitesOf(e)' = InvitesOf(e)
         /\ mem' = mem => MembershipsOK'
<1>1. inv' \in Seq(Invite) /\ Len(inv') = Len(inv) /\ Ids' = Ids
  BY Rows, FunctionIsSeq DEF Ids, InvitesEdit
<1>2. Len(inv') <= MaxInvites /\ \A i \in Ids' : inv'[i].status # "expired"
  BY <1>1 DEF IInv, TypeOK, InvitesEdit
<1>3. Pending' \subseteq Pending /\ OnePending'
  BY <1>1 DEF IInv, OnePending, Pending, InvitesEdit
<1>4. \A e \in Emails : InvitesOf(e)' = InvitesOf(e)
  BY <1>1 DEF InvitesOf, InvitesEdit
<1>5. ASSUME mem' = mem PROVE MembershipsOK'
  BY <1>1, <1>4, <1>5 DEF IInv, TypeOK, MembershipsOK, InvitesOf, InvitesEdit
<1>6. QED
  BY <1>1, <1>2, <1>3, <1>4, <1>5

(* An invite has been sent again so many times, of all that were. *)
LEMMA ResendsBound ==
  ASSUME IInv, NEW i \in Ids, Cardinality(Resends) < MaxResends
  PROVE  inv[i].token + 1 \in 0..MaxResends
<1>1. inv[i].token \in 0..MaxResends /\ Len(inv) \in Nat /\ Ids = 1..Len(inv)
  BY Rows DEF Invite, Ids
<1> DEFINE n == inv[i].token
           S == {i} \X (1..n)
<1>2. n \in Nat /\ n <= MaxResends
  BY <1>1, BoundsAssumption
<1> HIDE DEF n
<1>3. /\ IsFiniteSet(Ids) /\ IsFiniteSet(1..MaxResends)
      /\ IsFiniteSet(1..n) /\ Cardinality(1..n) = n
  <2>1. \A m \in Nat : IsFiniteSet(1..m) /\ Cardinality(1..m) = m
    BY FS_Interval
  <2>2. QED
    BY <1>1, <1>2, <2>1, BoundsAssumption
<1>4. Cardinality(S) = n
  <2>1. IsFiniteSet({i}) /\ Cardinality({i}) = 1
    BY FS_Singleton, Zenon
  <2>2. Cardinality(S) = Cardinality({i}) * Cardinality(1..n)
    BY <1>3, <2>1, FS_Product
  <2>3. QED
    BY <1>2, <1>3, <2>1, <2>2
<1>5. S \subseteq Resends
  BY <1>2, BoundsAssumption DEF Resends, n
<1>6. IsFiniteSet(Resends)
  <2>1. IsFiniteSet(Ids \X (1..MaxResends))
    BY <1>3, FS_Product
  <2>2. Resends \subseteq Ids \X (1..MaxResends)
    BY DEF Resends
  <2>3. QED
    BY <2>1, <2>2, FS_Subset
<1>7. n <= Cardinality(Resends) /\ Cardinality(Resends) \in Nat
  BY <1>4, <1>5, <1>6, FS_Subset, FS_CardinalityType
<1>8. QED
  BY <1>2, <1>7, BoundsAssumption DEF n

LEMMA EditSteps ==
  ASSUME IInv, NEW w \in Workers,
         Resend(w) \/ Revoke(w) \/ \E i \in Ids : Expire(i)
  PROVE  InvitesEdit /\ IInv'
<1>1. inv \in [Ids -> Invite] /\ \A i \in Ids : inv[i].status # "expired"
  BY Rows DEF IInv, TypeOK
<1>2. InvitesEdit
  <2>1. CASE Resend(w)
    <3>1. req[w].id \in Ids
      BY <2>1 DEF Resend, Kind, IInv, Sound
    <3>2. inv[req[w].id].token + 1 \in 0..MaxResends
      BY <2>1, <3>1, ResendsBound DEF Resend
    <3>3. PICK row : row = [inv[req[w].id] EXCEPT !.token = @ + 1, !.is_expired = FALSE]
      OBVIOUS
    <3>4. /\ row \in Invite
          /\ row.email = inv[req[w].id].email /\ row.role = inv[req[w].id].role
          /\ row.status = inv[req[w].id].status
          /\ row.accepted_at = inv[req[w].id].accepted_at
      BY <1>1, <3>1, <3>2, <3>3 DEF Invite
    <3>5. inv' = [inv EXCEPT ![req[w].id] = row]
      BY <1>1, <2>1, <3>1, <3>3 DEF Resend
    <3>6. QED
      BY <1>1, <3>1, <3>4, <3>5 DEF InvitesEdit
  <2>2. CASE Revoke(w)
    <3>1. req[w].id \in Ids /\ inv' = [inv EXCEPT ![req[w].id].status = "revoked"]
      BY <2>2 DEF Revoke, Kind, IInv, Sound
    <3>2. QED
      BY <1>1, <3>1 DEF InvitesEdit, Invite, InviteStatus
  <2>3. CASE \E i \in Ids : Expire(i)
    <3>1. PICK i \in Ids : inv' = [inv EXCEPT ![i].is_expired = TRUE]
      BY <2>3 DEF Expire
    <3>2. QED
      BY <1>1, <3>1 DEF InvitesEdit, Invite
  <2>4. QED
    BY <2>1, <2>2, <2>3
<1>3. /\ req' = req \/ req' = [req EXCEPT ![w] = Idle]
      /\ mem' = mem /\ users' = users /\ granted' = granted
  BY DEF Resend, Revoke, Expire, End
<1>4. users' \in SUBSET Emails /\ granted' \in [Emails -> Roles]
  BY <1>3 DEF IInv, TypeOK
<1>5. QED
  BY <1>2, <1>3, <1>4, EditKeeps, RowsKeep

(* The invite is of someone who has none that is pending. *)
LEMMA CreateKeeps ==
  ASSUME IInv, NEW w \in Workers, Create(w)
  PROVE  /\ IInv'
         /\ Len(inv') = Len(inv) + 1 /\ Ids' = Ids \cup {Len(inv) + 1}
         /\ \A i \in Ids : inv'[i] = inv[i]
         /\ inv'[Len(inv) + 1].email = req[w].email
         /\ inv'[Len(inv) + 1].role = req[w].role
         /\ inv'[Len(inv) + 1].status = "pending"
<1> DEFINE n == Len(inv) + 1
<1>1. /\ req[w] # Idle /\ req[w].kind = "create" /\ Len(inv) < MaxInvites
      /\ InvitesOf(req[w].email) \cap Pending = {}
      /\ mem' = mem /\ users' = users /\ granted' = granted
      /\ req' = [req EXCEPT ![w] = Idle]
  BY DEF Create, Kind, End
<1>2. PICK row : row = [email |-> req[w].email, role |-> req[w].role, status |-> "pending",
                        token |-> 0, is_expired |-> FALSE, accepted_at |-> FALSE]
  OBVIOUS
<1>3. /\ row \in Invite /\ row.email = req[w].email /\ row.role = req[w].role
      /\ row.status = "pending"
  BY <1>1, <1>2, Requests, BoundsAssumption DEF IInv, Invite, InviteStatus
<1>4. inv' = Append(inv, row)
  BY <1>2 DEF Create
<1>5. /\ inv' \in Seq(Invite) /\ Len(inv') = n /\ inv'[n] = row
      /\ \A i \in 1..Len(inv) : inv'[i] = inv[i]
  BY <1>3, <1>4, AppendProperties DEF IInv
<1>6. Ids' = Ids \cup {n} /\ n \notin Ids /\ Len(inv) \in Nat /\ Ids = 1..Len(inv)
  BY <1>5, Rows DEF Ids
<1>7. \A i \in Ids' : inv'[i].status # "expired"
  BY <1>3, <1>5, <1>6 DEF IInv, TypeOK
<1>8. Pending' = Pending \cup {n}
  BY <1>3, <1>5, <1>6 DEF Pending
<1>9. OnePending'
  <2>1. \A i \in Pending : inv[i].email # req[w].email
    BY <1>1 DEF Pending, InvitesOf
  <2>2. \A i \in Pending : inv'[i] = inv[i]
    BY <1>5, <1>6 DEF Pending
  <2>3. inv'[n].email = req[w].email
    BY <1>3, <1>5
  <2>4. QED
    BY <1>8, <2>1, <2>2, <2>3 DEF IInv, OnePending
<1>10. MembershipsOK'
  BY <1>1, <1>5, <1>6 DEF IInv, TypeOK, MembershipsOK, InvitesOf
<1>11. Len(inv') <= MaxInvites /\ users' \in SUBSET Emails /\ granted' \in [Emails -> Roles]
  BY <1>1, <1>5, <1>6, BoundsAssumption DEF IInv, TypeOK
<1>12. IInv'
  BY <1>1, <1>5, <1>6, <1>7, <1>9, <1>10, <1>11, RowsKeep
<1>13. QED
  BY <1>3, <1>5, <1>6, <1>12

(* The invite is marked, and its person becomes a member. *)
LEMMA AcceptKeeps ==
  ASSUME IInv, NEW w \in Workers, Accept(w)
  PROVE  /\ InvitesEdit /\ IInv'
         /\ req[w].id \in Ids /\ inv'[req[w].id].status = "accepted"
<1> DEFINE i == req[w].id
           e == inv[i].email
<1>1. req[w] # Idle /\ req[w].kind = "accept" /\ i \in Ids
  BY DEF Accept, Kind, IInv, Sound
<1>2. inv \in [Ids -> Invite] /\ (\A j \in Ids : inv[j].status # "expired")
  BY Rows DEF IInv, TypeOK
<1>3. e \in Emails /\ inv[i].role \in Roles
  BY <1>1, <1>2 DEF Invite
<1>4. PICK row : row = [inv[i] EXCEPT !.status = "accepted", !.accepted_at = TRUE]
  OBVIOUS
<1>5. /\ row \in Invite /\ row.email = e /\ row.role = inv[i].role
      /\ row.status = "accepted" /\ row.accepted_at
  BY <1>1, <1>2, <1>4 DEF Invite, InviteStatus
<1>6. inv' = [inv EXCEPT ![i] = row]
  BY <1>1, <1>2, <1>4 DEF Accept, Mark
<1>7. InvitesEdit /\ inv'[i].status = "accepted" /\ inv'[i].accepted_at
  BY <1>1, <1>2, <1>5, <1>6 DEF InvitesEdit
<1>8. /\ users' = users \cup {e} /\ req' = [req EXCEPT ![w] = Idle]
      /\ mem' = [mem EXCEPT ![e] = [status |-> "active", role |-> inv[i].role]]
      /\ granted' = [granted EXCEPT ![e] = inv[i].role]
  BY DEF Accept, End
<1>9. users' \in SUBSET Emails /\ granted' \in [Emails -> Roles]
  BY <1>3, <1>8 DEF IInv, TypeOK
<1>10. MembershipsOK'
  <2>1. mem' \in [Emails -> Membership]
    BY <1>3, <1>8 DEF IInv, TypeOK, Membership
  <2>2. ASSUME NEW f \in Emails, mem'[f].status # "none"
        PROVE  \E j \in InvitesOf(f)' : inv'[j].accepted_at
    <3>1. InvitesOf(f)' = InvitesOf(f)
      BY <1>7, EditKeeps
    <3>2. CASE f = e
      BY <1>1, <1>7, <3>1, <3>2 DEF InvitesOf
    <3>3. CASE f # e
      <4>1. mem'[f] = mem[f]
        BY <1>3, <1>8, <3>3 DEF IInv, TypeOK
      <4>2. PICK j \in InvitesOf(f) : inv[j].accepted_at
        BY <2>2, <4>1 DEF IInv, TypeOK
      <4>3. QED
        BY <1>7, <3>1, <4>2 DEF InvitesOf, InvitesEdit
    <3>4. QED
      BY <3>2, <3>3
  <2>3. QED
    BY <2>1, <2>2 DEF MembershipsOK
<1>11. IInv'
  BY <1>7, <1>8, <1>9, <1>10, EditKeeps, RowsKeep
<1>12. QED
  BY <1>1, <1>7, <1>11

LEMMA StaffSteps ==
  ASSUME IInv, NEW e \in Emails, RemoveStaff(e) \/ ChangeRole(e)
  PROVE  IInv'
<1>1. inv' = inv /\ users' = users /\ granted' = granted /\ req' = req
  BY DEF RemoveStaff, ChangeRole
<1>2. /\ inv' \in Seq(Invite) /\ Len(inv') <= MaxInvites /\ Ids \subseteq Ids' /\ OnePending'
      /\ \A i \in Ids' : inv'[i].status # "expired"
      /\ users' \in SUBSET Emails /\ granted' \in [Emails -> Roles]
  BY <1>1 DEF IInv, TypeOK, OnePending, Pending, Ids
<1>3. /\ mem' \in [Emails -> Membership]
      /\ \A f \in Emails : mem'[f].status # "none" => mem[f].status # "none"
  <2>1. mem \in [Emails -> Membership] /\ mem[e].status = "active"
    BY DEF IInv, TypeOK, RemoveStaff, ChangeRole, Active
  <2>2. CASE RemoveStaff(e)
    BY <2>1, <2>2 DEF RemoveStaff, Membership
  <2>3. CASE ChangeRole(e)
    <3>1. PICK role \in Roles : mem' = [mem EXCEPT ![e].role = role]
      BY <2>3 DEF ChangeRole
    <3>2. QED
      BY <2>1, <3>1 DEF Membership
  <2>4. QED
    BY <2>2, <2>3
<1>4. MembershipsOK'
  BY <1>1, <1>3 DEF IInv, TypeOK, MembershipsOK, InvitesOf, Ids
<1>5. QED
  BY <1>1, <1>2, <1>4, RowsKeep

----------------------------------------------------------------------------
(* The steps, by what they change.                                         *)
LEMMA Steps ==
  ASSUME IInv, Next
  PROVE  \/ UNCHANGED <<inv, mem, users, granted>> /\ IInv'
         \/ \E w \in Workers : Create(w) /\ IInv'
         \/ \E w \in Workers : Accept(w) /\ IInv'
         \/ InvitesEdit /\ mem' = mem /\ granted' = granted /\ IInv'
         \/ \E e \in Emails : (RemoveStaff(e) \/ ChangeRole(e)) /\ IInv'
<1>1. CASE \E w \in Workers :
             \/ \E role \in Roles : CountUsed(w, role)
             \/ CheckLimit(w)
             \/ \E e \in Emails : CheckMember(w, e)
  BY <1>1, Counting DEF CountUsed, CheckLimit, CheckMember, Begin
<1>2. CASE \E w \in Workers :
             \/ \E i \in Ids, kind \in {"resend", "revoke"} : ReadInvite(w, i, kind)
             \/ \E i \in Ids : ReadToken(w, i)
             \/ Abort(w)
  BY <1>2, Reading DEF ReadInvite, ReadToken, Abort, Begin
<1>3. CASE (\E w \in Workers : Resend(w) \/ Revoke(w)) \/ \E i \in Ids : Expire(i)
  <2>1. PICK w \in Workers : Resend(w) \/ Revoke(w) \/ \E i \in Ids : Expire(i)
    BY <1>3, WorkersAssumption
  <2>2. InvitesEdit /\ IInv'
    BY <2>1, EditSteps
  <2>3. mem' = mem /\ granted' = granted
    BY <2>1 DEF Resend, Revoke, Expire
  <2>4. QED
    BY <2>2, <2>3
<1>4. CASE \E w \in Workers : Create(w) \/ Accept(w)
  BY <1>4, CreateKeeps, AcceptKeeps
<1>5. CASE \E e \in Emails : RemoveStaff(e) \/ ChangeRole(e)
  BY <1>5, StaffSteps
<1>6. QED
  BY <1>1, <1>2, <1>3, <1>4, <1>5 DEF Next

LEMMA StepIInv ==
  ASSUME IInv, [Next]_vars
  PROVE  IInv'
<1>1. CASE Next
  BY <1>1, Steps
<1>2. CASE UNCHANGED vars
  <2>1. inv' = inv /\ mem' = mem /\ users' = users /\ granted' = granted /\ req' = req
    BY <1>2 DEF vars
  <2>2. TypeOK'
    BY <2>1 DEF IInv, TypeOK, Ids, InvitesOf
  <2>3. QED
    BY <2>1, <2>2 DEF IInv, OnePending, Pending, Ids, Sound
<1>3. QED
  BY <1>1, <1>2

(* The inductive invariant: beside the types, that a person has at most    *)
(* one pending invite (get_or_create and the unique constraint behind it)  *)
(* and what a request holds on to since its reads (invites/services.py).   *)
THEOREM IInvHolds == Spec => []IInv
<1>1. QED
  BY InitIInv, StepIInv, PTL DEF Spec

(* The rows and the requests stay what the code lets them be: no invite is *)
(* ever stored as expired, and who has a membership has an invite with     *)
(* accepted_at set (accept_invite). *)
THEOREM TypeCorrect == Spec => []TypeOK
<1>1. IInv => TypeOK
  BY DEF IInv
<1>2. QED
  BY <1>1, IInvHolds, PTL

(* For any number of people and requests, a membership becomes active only *)
(* by an invite that can be accepted as it is stored then, or that changed *)
(* after the accept read it.                                               *)
THEOREM LiveInvitesOnly == Spec => OnlyLiveInvitesAccepted
<1> DEFINE Step == \A e \in Emails :
      mem[e].status # "active" /\ mem'[e].status = "active" =>
        \E w \in Workers :
          /\ Kind(w) = "accept" /\ req'[w] = Idle /\ inv[req[w].id].email = e
          /\ CanBeAccepted(req[w].id) \/ AcceptsChanged(w)
<1>1. ASSUME IInv, [Next]_vars PROVE [Step]_vars
  <2> SUFFICES ASSUME Next, NEW e \in Emails,
                      mem[e].status # "active", mem'[e].status = "active"
               PROVE  \E w \in Workers :
                        /\ Kind(w) = "accept" /\ req'[w] = Idle /\ inv[req[w].id].email = e
                        /\ CanBeAccepted(req[w].id) \/ AcceptsChanged(w)
    BY <1>1
  <2>1. mem \in [Emails -> Membership] /\ req \in [Workers -> Request \cup {Idle}]
    BY <1>1 DEF IInv, TypeOK
  <2>2. ASSUME NEW f \in Emails, RemoveStaff(f) \/ ChangeRole(f) PROVE FALSE
    <3>1. mem'[e].status # "active" \/ mem[e].status = "active"
      <4>1. mem[f].status = "active"
        BY <2>2 DEF RemoveStaff, ChangeRole, Active
      <4>2. \A g \in Emails : g # f => mem'[g] = mem[g]
        BY <2>1, <2>2 DEF RemoveStaff, ChangeRole
      <4>3. QED
        BY <4>1, <4>2
    <3>2. QED
      BY <3>1
  <2>3. PICK w \in Workers : Accept(w)
    BY <1>1, <2>2, Steps DEF Create
  <2>4. /\ req[w] # Idle /\ req[w].kind = "accept" /\ Kind(w) = "accept"
        /\ req' = [req EXCEPT ![w] = Idle]
        /\ mem' = [mem EXCEPT ![inv[req[w].id].email] =
                     [status |-> "active", role |-> inv[req[w].id].role]]
    BY <2>3 DEF Accept, Kind, End
  <2>5. inv[req[w].id].email = e /\ req'[w] = Idle
    BY <2>1, <2>4
  <2>6. req[w].read.status = "pending" /\ ~req[w].read.is_expired
    BY <1>1, <2>4 DEF IInv, Sound
  <2>7. CanBeAccepted(req[w].id) \/ AcceptsChanged(w)
    BY <2>4, <2>5, <2>6 DEF CanBeAccepted, AcceptsChanged
  <2>8. QED
    BY <2>4, <2>5, <2>7
<1>2. QED
  BY <1>1, IInvHolds, PTL DEF Spec, OnlyLiveInvitesAccepted

(* What an accept finds when nothing has changed since it read the invite: *)
(* a pending invite, and therefore the only one of its person.             *)
LEMMA AcceptUnchanged ==
  ASSUME IInv, NEW w \in Workers, Accept(w), ~AcceptsChanged(w)
  PROVE  /\ req[w].id \in Pending
         /\ \A j \in Pending : inv[j].email = inv[req[w].id].email => j = req[w].id
         /\ Pending' = Pending \ {req[w].id}
<1>1. req[w] # Idle /\ req[w].kind = "accept" /\ Kind(w) = "accept" /\ req'[w] = Idle
  BY DEF Accept, Kind, End, IInv, TypeOK
<1>2. req[w].id \in Pending
  BY <1>1 DEF AcceptsChanged, IInv, Sound, Pending
<1>3. \A j \in Pending : inv[j].email = inv[req[w].id].email => j = req[w].id
  BY <1>2 DEF IInv, OnePending
<1>4. inv' = Mark(req[w].id) /\ inv \in [Ids -> Invite]
  BY Rows DEF Accept
<1>5. /\ Ids' = Ids /\ inv'[req[w].id].status = "accepted"
      /\ \A j \in Ids : j # req[w].id => inv'[j] = inv[j]
  BY <1>4, AcceptKeeps, EditKeeps DEF Mark
<1>6. Pending' = Pending \ {req[w].id}
  BY <1>5 DEF Pending
<1>7. QED
  BY <1>2, <1>3, <1>6

(* For any number of people and requests, someone is a member and invited  *)
(* only if a create or an accept committed on what it read before another  *)
(* request about the same person changed it.                               *)
THEOREM InvitedMembersOverlap == Spec => InvitedMemberNeedsOverlap
<1> DEFINE Step == \A e \in Emails :
      ~MemberInvited(e) /\ MemberInvited(e)' =>
        \E w \in Workers : InvitesMember(w) \/ AcceptsChanged(w)
<1>1. ASSUME IInv, [Next]_vars PROVE [Step]_vars
  <2> SUFFICES ASSUME Next, NEW e \in Emails, ~MemberInvited(e), MemberInvited(e)'
               PROVE  \E w \in Workers : InvitesMember(w) \/ AcceptsChanged(w)
    BY <1>1
  <2>1. /\ mem \in [Emails -> Membership] /\ req \in [Workers -> Request \cup {Idle}]
        /\ inv \in [Ids -> Invite]
    BY <1>1, Rows DEF IInv, TypeOK
  <2>2. ASSUME inv' = inv, Active' \subseteq Active PROVE FALSE
    BY <2>2 DEF MemberInvited, InvitesOf, Pending, Ids
  <2>3. ASSUME InvitesEdit, Active' \subseteq Active PROVE FALSE
    <3>1. InvitesOf(e)' = InvitesOf(e) /\ Pending' \subseteq Pending
      BY <1>1, <2>3, EditKeeps
    <3>2. QED
      BY <2>3, <3>1 DEF MemberInvited
  <2>4. ASSUME NEW f \in Emails, RemoveStaff(f) \/ ChangeRole(f) PROVE FALSE
    <3>1. Active' \subseteq Active
      BY <2>1, <2>4 DEF RemoveStaff, ChangeRole, Active, Membership
    <3>2. QED
      BY <2>2, <2>4, <3>1 DEF RemoveStaff, ChangeRole
  <2>5. ASSUME NEW w \in Workers, Create(w) PROVE InvitesMember(w)
    <3>1. /\ req[w] # Idle /\ req[w].kind = "create" /\ Kind(w) = "create" /\ req'[w] = Idle
          /\ Active' = Active
      BY <2>1, <2>5 DEF Create, Kind, End, Active
    <3>2. ~req[w].member
      BY <1>1, <3>1 DEF IInv, Sound
    <3>3. /\ Ids' = Ids \cup {Len(inv) + 1} /\ \A i \in Ids : inv'[i] = inv[i]
          /\ inv'[Len(inv) + 1].email = req[w].email
      BY <1>1, <2>5, CreateKeeps
    <3>4. e \in Active /\ e = req[w].email
      BY <3>1, <3>3 DEF MemberInvited, InvitesOf, Pending
    <3>5. QED
      BY <3>1, <3>2, <3>4 DEF InvitesMember
  <2>6. ASSUME NEW w \in Workers, Accept(w) PROVE AcceptsChanged(w)
    <3> SUFFICES ASSUME ~AcceptsChanged(w) PROVE FALSE
      OBVIOUS
    <3>1. /\ req[w].id \in Pending /\ Pending' = Pending \ {req[w].id}
          /\ \A j \in Pending : inv[j].email = inv[req[w].id].email => j = req[w].id
      BY <1>1, <2>6, AcceptUnchanged
    <3>2. InvitesOf(e)' = InvitesOf(e)
      BY <1>1, <2>6, AcceptKeeps, EditKeeps
    <3>3. \A f \in Emails : f # inv[req[w].id].email => (f \in Active' => f \in Active)
      BY <2>1, <2>6 DEF Accept, Active
    <3>4. e # inv[req[w].id].email
      BY <3>1, <3>2 DEF MemberInvited, InvitesOf
    <3>5. QED
      BY <3>1, <3>2, <3>3, <3>4 DEF MemberInvited
  <2>7. mem' = mem => Active' = Active
    BY DEF Active
  <2>8. QED
    BY <1>1, <2>2, <2>3, <2>4, <2>5, <2>6, <2>7, Steps
<1>2. QED
  BY <1>1, IInvHolds, PTL DEF Spec, InvitedMemberNeedsOverlap

(* The emails of the pending invites of a role. *)
Invited(role) == {inv[i].email : i \in {j \in Pending : inv[j].role = role}}

(* The seats are no more than what assert_can_invite_role counts. *)
LEMMA SeatsCounted ==
  ASSUME IInv
  PROVE  1 + Cardinality(Seats) <= UsedSeats("staff") + PendingSeats("staff")
<1> DEFINE A == Active
           P == Invited("staff")
<1>1. IsFiniteSet(A) /\ IsFiniteSet(P)
  <2>1. P \subseteq Emails
    BY Rows DEF Invited, Pending, Invite
  <2>2. QED
    BY <2>1, Rows, FS_Subset, EmailsAssumption
<1>2. Seats \subseteq A \cup P
  BY DEF Seats, Invited
<1>3. UsedSeats("staff") = 1 + Cardinality(A) /\ PendingSeats("staff") = Cardinality(P)
  BY DEF UsedSeats, PendingSeats, Invited
<1> HIDE DEF A, P
<1>4. IsFiniteSet(A \cup P) /\ Cardinality(A \cup P) <= Cardinality(A) + Cardinality(P)
  <2>1. Cardinality(A \cup P) = Cardinality(A) + Cardinality(P) - Cardinality(A \cap P)
    BY <1>1, FS_Union
  <2>2. IsFiniteSet(A \cap P)
    BY <1>1, FS_Subset
  <2>3. Cardinality(A \cap P) \in Nat /\ Cardinality(A) \in Nat /\ Cardinality(P) \in Nat
    BY <1>1, <2>2, FS_CardinalityType
  <2>4. QED
    BY <1>1, <2>1, <2>3, FS_Union
<1>5. Cardinality(Seats) <= Cardinality(A \cup P)
  BY <1>2, <1>4, FS_Subset
<1>6. /\ Cardinality(Seats) \in Nat /\ Cardinality(A \cup P) \in Nat
      /\ Cardinality(A) \in Nat /\ Cardinality(P) \in Nat
  BY <1>1, <1>4, Rows, FS_CardinalityType
<1>7. QED
  BY <1>3, <1>4, <1>5, <1>6

(* What an accept that is not overtaken, a staff view or an edit of the    *)
(* invites does to the seats.                                              *)
LEMMA SeatsShrink ==
  ASSUME IInv,
         \/ UNCHANGED <<inv, mem, users, granted>>
         \/ \E w \in Workers : Accept(w) /\ ~AcceptsChanged(w)
         \/ InvitesEdit /\ mem' = mem /\ granted' = granted
         \/ \E e \in Emails : RemoveStaff(e) \/ ChangeRole(e)
  PROVE  Seats' \subseteq Seats
<1>1. /\ mem \in [Emails -> Membership] /\ granted \in [Emails -> Roles]
      /\ inv \in [Ids -> Invite]
  BY Rows DEF IInv, TypeOK
<1>2. CASE UNCHANGED <<inv, mem, users, granted>>
  BY <1>2 DEF Seats, Active, Pending, Ids
<1>3. CASE InvitesEdit /\ mem' = mem /\ granted' = granted
  <2>1. Pending' \subseteq Pending /\ Active' = Active
    BY <1>3, EditKeeps DEF Active
  <2>2. \A i \in Pending : inv'[i].email = inv[i].email /\ inv'[i].role = inv[i].role
    BY <1>3 DEF InvitesEdit, Pending
  <2>3. QED
    BY <1>3, <2>1, <2>2 DEF Seats
<1>4. ASSUME NEW e \in Emails, RemoveStaff(e) \/ ChangeRole(e) PROVE Seats' \subseteq Seats
  <2>1. Active' \subseteq Active /\ Pending' = Pending /\ inv' = inv /\ granted' = granted
    BY <1>1, <1>4 DEF RemoveStaff, ChangeRole, Active, Pending, Ids, Membership
  <2>2. QED
    BY <2>1 DEF Seats
<1>5. ASSUME NEW w \in Workers, Accept(w), ~AcceptsChanged(w) PROVE Seats' \subseteq Seats
  <2> DEFINE i == req[w].id
             e == inv[i].email
  <2>1. /\ i \in Pending /\ Pending' \subseteq Pending /\ i \in Ids /\ InvitesEdit
        /\ i \notin Pending'
    BY <1>5, AcceptUnchanged, AcceptKeeps
  <2>2. \A j \in Pending : inv'[j].email = inv[j].email /\ inv'[j].role = inv[j].role
    BY <2>1 DEF InvitesEdit, Pending
  <2>3. /\ granted' = [granted EXCEPT ![e] = inv[i].role]
        /\ mem' = [mem EXCEPT ![e] = [status |-> "active", role |-> inv[i].role]]
    BY <1>5 DEF Accept
  <2>4. ASSUME NEW f \in Active', granted'[f] = "staff" PROVE f \in Seats
    <3>1. CASE f = e
      <4>1. inv[i].role = "staff"
        BY <1>1, <2>3, <2>4, <3>1 DEF Active
      <4>2. QED
        BY <2>1, <3>1, <4>1 DEF Seats
    <3>2. CASE f # e
      BY <1>1, <2>3, <2>4, <3>2 DEF Seats, Active
    <3>3. QED
      BY <3>1, <3>2
  <2>5. QED
    BY <2>1, <2>2, <2>4 DEF Seats
<1>6. QED
  BY <1>2, <1>3, <1>4, <1>5

LEMMA CreateTakesASeat ==
  ASSUME IInv, NEW w \in Workers, Create(w)
  PROVE  /\ Active' = Active /\ granted' = granted
         /\ Cardinality(Seats') \in Nat /\ Cardinality(Seats') <= Cardinality(Seats) + 1
<1>1. Active' = Active /\ granted' = granted
  BY DEF Create, Active
<1>2. /\ Ids' = Ids \cup {Len(inv) + 1} /\ (\A i \in Ids : inv'[i] = inv[i])
      /\ inv'[Len(inv) + 1].email = req[w].email
  BY CreateKeeps
<1>3. PICK e : e = req[w].email
  OBVIOUS
<1>4. Seats' \subseteq Seats \cup {e}
  BY <1>1, <1>2, <1>3 DEF Seats, Pending
<1>5. IsFiniteSet(Seats) /\ Cardinality(Seats) \in Nat
  BY Rows, FS_CardinalityType
<1>6. IsFiniteSet(Seats \cup {e}) /\ Cardinality(Seats \cup {e}) <= Cardinality(Seats) + 1
  <2>1. /\ IsFiniteSet(Seats \cup {e})
        /\ Cardinality(Seats \cup {e}) =
             IF e \in Seats THEN Cardinality(Seats) ELSE Cardinality(Seats) + 1
    BY <1>5, FS_AddElement, Zenon
  <2>2. QED
    BY <1>5, <2>1
<1>7. IsFiniteSet(Seats') /\ Cardinality(Seats') <= Cardinality(Seats \cup {e})
  BY <1>4, <1>6, FS_Subset
<1>8. Cardinality(Seats') \in Nat /\ Cardinality(Seats \cup {e}) \in Nat
  BY <1>6, <1>7, FS_CardinalityType
<1>9. QED
  BY <1>1, <1>5, <1>6, <1>7, <1>8

LEMMA CreateSeats ==
  ASSUME IInv, NEW w \in Workers, Create(w), ~CreatesOnOldCount(w)
  PROVE  Cardinality(Seats') > Cardinality(Seats) => 1 + Cardinality(Seats') <= MaxUsers
<1>1. /\ req[w] # Idle /\ req[w].kind = "create" /\ Kind(w) = "create" /\ req'[w] = Idle
      /\ Active' = Active /\ granted' = granted
  BY CreateTakesASeat DEF Create, Kind, End, IInv, TypeOK
<1>2. req[w].role \in Roles /\ req[w].count \in Nat /\ req[w].count < Limit(req[w].role)
  BY <1>1, Requests DEF IInv, Sound
<1>3. req[w].count = UsedSeats(req[w].role) + PendingSeats(req[w].role)
  BY <1>1 DEF CreatesOnOldCount
<1>4. /\ Ids' = Ids \cup {Len(inv) + 1} /\ (\A i \in Ids : inv'[i] = inv[i])
      /\ inv'[Len(inv) + 1].email = req[w].email /\ inv'[Len(inv) + 1].role = req[w].role
  BY CreateKeeps
<1>5. Cardinality(Seats') \in Nat /\ Cardinality(Seats') <= Cardinality(Seats) + 1
  BY CreateTakesASeat
<1>6. IsFiniteSet(Seats) /\ Cardinality(Seats) \in Nat
  BY Rows, FS_CardinalityType
<1>7. CASE req[w].role = "vendor"
  <2>1. Seats' \subseteq Seats
    BY <1>1, <1>4, <1>7 DEF Seats, Pending
  <2>2. Cardinality(Seats') <= Cardinality(Seats)
    BY <1>6, <2>1, FS_Subset
  <2>3. QED
    BY <1>5, <1>6, <2>2
<1>8. CASE req[w].role = "staff"
  <2>1. req[w].count < MaxUsers
    BY <1>2, <1>8 DEF Limit
  <2>2. 1 + Cardinality(Seats) <= req[w].count
    BY <1>3, <1>8, SeatsCounted
  <2>3. QED
    BY <1>2, <1>5, <1>6, <2>1, <2>2, LimitsAssumption
<1>9. QED
  BY <1>2, <1>7, <1>8 DEF Roles

(* For any limit, number of people and requests, the seats grow beyond the *)
(* limit only by a create whose count had changed, or by an accept of an   *)
(* invite that had (assert_can_invite_role takes no lock, and is not asked *)
(* again when the invite is accepted).                                     *)
THEOREM LimitHoldsUnlessOverlapped == Spec => LimitExceededByOverlap
<1> DEFINE Step == Cardinality(Seats') > Cardinality(Seats) /\ 1 + Cardinality(Seats') > MaxUsers =>
                     \E w \in Workers : CreatesOnOldCount(w) \/ AcceptsChanged(w)
<1>1. ASSUME IInv, [Next]_vars PROVE [Step]_vars
  <2> SUFFICES ASSUME Next, Cardinality(Seats') > Cardinality(Seats),
                      1 + Cardinality(Seats') > MaxUsers
               PROVE  \E w \in Workers : CreatesOnOldCount(w) \/ AcceptsChanged(w)
    BY <1>1
  <2>1. IsFiniteSet(Seats) /\ Cardinality(Seats) \in Nat
    BY <1>1, Rows, FS_CardinalityType
  <2>2. ASSUME Seats' \subseteq Seats PROVE FALSE
    <3>1. Cardinality(Seats') <= Cardinality(Seats) /\ Cardinality(Seats') \in Nat
      BY <2>1, <2>2, FS_Subset, FS_CardinalityType
    <3>2. QED
      BY <2>1, <3>1
  <2>3. ASSUME NEW w \in Workers, Create(w) PROVE CreatesOnOldCount(w)
    <3>1. Cardinality(Seats') \in Nat
      BY <1>1, <2>3, CreateTakesASeat
    <3>2. QED
      BY <1>1, <2>3, <3>1, CreateSeats, LimitsAssumption
  <2>4. ASSUME NEW w \in Workers, Accept(w) PROVE AcceptsChanged(w)
    BY <1>1, <2>2, <2>4, SeatsShrink
  <2>5. QED
    BY <1>1, <2>2, <2>3, <2>4, Steps, SeatsShrink
<1>2. QED
  BY <1>1, IInvHolds, PTL DEF Spec, LimitExceededByOverlap
=============================================================================
