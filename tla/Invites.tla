-------------------------------- MODULE Invites --------------------------------
(***************************************************************************)
(* Invites into one dealership and the memberships they grant: create,     *)
(* resend, revoke and accept (invites/services.py) and the two staff       *)
(* operations that change the same membership (accounts/services/staff.py).*)
(* The company is one owner and this dealership.                           *)
(*                                                                         *)
(* Every operation is a READ COMMITTED transaction of its own that reads   *)
(* without locks, so a request is split after each read it acts upon and   *)
(* commits in one step.  A refusal leaves nothing behind, not even the     *)
(* EXPIRED that accept_invite saves before it raises.  The plan's limits   *)
(* are in force (AUTHZ_ENABLE_SUBSCRIPTION_CHECKS).                        *)
(***************************************************************************)
EXTENDS Naturals, Sequences, FiniteSets

CONSTANTS
  Emails,            \* the people that are invited
  Workers,           \* bound on the requests in flight
  Idle,              \* a worker without a request
  MaxUsers,          \* Limits.MAX_USERS of the company's plan
  MaxVendors,        \* Limits.MAX_VENDOR_USERS
  MaxInvites,        \* bound on the invites created
  MaxResends         \* bound on the times an invite is sent again

ASSUME WorkersAssumption == IsFiniteSet(Workers) /\ Workers # {}
ASSUME EmailsAssumption == IsFiniteSet(Emails)
ASSUME LimitsAssumption == MaxUsers \in Nat \ {0} /\ MaxVendors \in Nat
ASSUME BoundsAssumption == MaxInvites \in Nat /\ MaxResends \in Nat

VARIABLES
  inv,               \* the DealershipInvite rows, in the order of their creation
  mem,               \* the DealershipMembership row of each person
  users,             \* the people who have an account
  granted,           \* the role that an invite last gave each person
  req                \* the request each worker is in

vars == <<inv, mem, users, granted, req>>

(* "staff" is any role but vendor that an invite can carry. *)
Roles == {"vendor", "staff"}
InviteStatus == {"pending", "accepted", "revoked", "expired"}
Invite ==
  [email : Emails, role : Roles, status : InviteStatus, token : 0..MaxResends,
   is_expired : BOOLEAN, accepted_at : BOOLEAN]
Membership == [status : {"none", "active", "removed"}, role : Roles]

Ids == 1..Len(inv)
InvitesOf(e) == {i \in Ids : inv[i].email = e}
Active == {e \in Emails : mem[e].status = "active"}
Pending == {i \in Ids : inv[i].status = "pending"}

Init ==
  /\ inv = <<>>
  /\ mem = [e \in Emails |-> [status |-> "none", role |-> "vendor"]]
  /\ users \in SUBSET Emails
  /\ granted = [e \in Emails |-> "vendor"]
  /\ req = [w \in Workers |-> Idle]

Kind(w) == IF req[w] = Idle THEN "idle" ELSE req[w].kind

Begin(w, r) ==
  /\ req' = [req EXCEPT ![w] = r]
  /\ UNCHANGED <<inv, mem, users, granted>>

End(w) == req' = [req EXCEPT ![w] = Idle]

(* A request is refused, or fails (the mail is sent before the commit), or *)
(* its worker dies: nothing it did remains.                                *)
Abort(w) ==
  /\ req[w] # Idle
  /\ End(w)
  /\ UNCHANGED <<inv, mem, users, granted>>

----------------------------------------------------------------------------
(* assert_can_invite_role counts the active members, then the pending      *)
(* invites.  The owner is an active member.  A vendor who has accepted is  *)
(* a used seat for staff invites as well.                                  *)
UsedSeats(role) ==
  IF role = "vendor" THEN Cardinality({e \in Active : mem[e].role = "vendor"})
  ELSE 1 + Cardinality(Active)

PendingSeats(role) == Cardinality({inv[i].email : i \in {j \in Pending : inv[j].role = role}})

Limit(role) == IF role = "vendor" THEN MaxVendors ELSE MaxUsers

(* Whom the invite is for matters from CheckMember on. *)
CountUsed(w, role) ==
  /\ req[w] = Idle
  /\ Begin(w, [kind |-> "counted", role |-> role, count |-> UsedSeats(role)])

(* Variant: the invites that are out take no seat. *)
CheckLimitUsedOnly(w) ==
  /\ Kind(w) = "counted"
  /\ req[w].count < Limit(req[w].role)
  /\ Begin(w, [kind |-> "limit", role |-> req[w].role,
               count |-> req[w].count + PendingSeats(req[w].role)])

CheckLimit(w) ==
  /\ Kind(w) = "counted"
  /\ req[w].count + PendingSeats(req[w].role) < Limit(req[w].role)
  /\ Begin(w, [kind |-> "limit", role |-> req[w].role,
               count |-> req[w].count + PendingSeats(req[w].role)])

(* Variant: the members of the dealership are not looked up. *)
CheckMemberSkipped(w, e) ==
  /\ Kind(w) = "limit"
  /\ Begin(w, [kind |-> "create", email |-> e, role |-> req[w].role, count |-> req[w].count,
               member |-> e \in Active])

CheckMember(w, e) ==
  /\ Kind(w) = "limit"
  /\ e \notin Active
  /\ Begin(w, [kind |-> "create", email |-> e, role |-> req[w].role, count |-> req[w].count,
               member |-> e \in Active])

(* get_or_create on the pending invite of the email, which is unique. *)
Create(w) ==
  /\ Kind(w) = "create"
  /\ Len(inv) < MaxInvites
  /\ InvitesOf(req[w].email) \cap Pending = {}
  /\ inv' = Append(inv, [email |-> req[w].email, role |-> req[w].role, status |-> "pending",
                         token |-> 0, is_expired |-> FALSE, accepted_at |-> FALSE])
  /\ End(w)
  /\ UNCHANGED <<mem, users, granted>>

----------------------------------------------------------------------------
(* Resend and revoke read the invite and refuse it unless it is pending.   *)
ReadInvite(w, i, kind) ==
  /\ req[w] = Idle
  /\ inv[i].status = "pending"
  /\ Begin(w, [kind |-> kind, id |-> i])

(* An invite has had token + 1 tokens. *)
Resends == {s \in Ids \X (1..MaxResends) : s[2] <= inv[s[1]].token}

Resend(w) ==
  /\ Kind(w) = "resend"
  /\ Cardinality(Resends) < MaxResends
  /\ inv' = [inv EXCEPT ![req[w].id].token = @ + 1, ![req[w].id].is_expired = FALSE]
  /\ End(w)
  /\ UNCHANGED <<mem, users, granted>>

Revoke(w) ==
  /\ Kind(w) = "revoke"
  /\ inv' = [inv EXCEPT ![req[w].id].status = "revoked"]
  /\ End(w)
  /\ UNCHANGED <<mem, users, granted>>

(* Variant: the status is saved with the time that goes by. *)
ExpireSaved(i) ==
  /\ i \in Pending /\ ~inv[i].is_expired
  /\ inv' = [inv EXCEPT ![i].is_expired = TRUE, ![i].status = "expired"]
  /\ UNCHANGED <<mem, users, granted, req>>

(* Fourteen days go by. *)
Expire(i) ==
  /\ i \in Pending /\ ~inv[i].is_expired
  /\ inv' = [inv EXCEPT ![i].is_expired = TRUE]
  /\ UNCHANGED <<mem, users, granted, req>>

----------------------------------------------------------------------------
CanBeAccepted(i) == inv[i].status = "pending" /\ ~inv[i].is_expired

(* Variant: only the date of the invite is looked at. *)
ReadTokenUnexpired(w, i) ==
  /\ req[w] = Idle
  /\ ~inv[i].is_expired
  /\ Begin(w, [kind |-> "accept", id |-> i, read |-> inv[i],
               new_user |-> inv[i].email \notin users])

(* accept_invite finds the invite by its current token. *)
ReadToken(w, i) ==
  /\ req[w] = Idle
  /\ CanBeAccepted(i)
  /\ Begin(w, [kind |-> "accept", id |-> i, read |-> inv[i],
               new_user |-> inv[i].email \notin users])

Mark(i) == [inv EXCEPT ![i].status = "accepted", ![i].accepted_at = TRUE]

(* The account is created if there was none (its email is unique, so that  *)
(* only one of two accepts can), the membership is created or changed, and *)
(* the invite is marked.                                                   *)
Accept(w) ==
  /\ Kind(w) = "accept"
  /\ LET i == req[w].id
         e == inv[i].email
     IN /\ req[w].new_user => e \notin users
        /\ users' = users \cup {e}
        /\ mem' = [mem EXCEPT ![e] = [status |-> "active", role |-> inv[i].role]]
        /\ granted' = [granted EXCEPT ![e] = inv[i].role]
        /\ inv' = Mark(i)
  /\ End(w)

----------------------------------------------------------------------------
(* The staff views act on an active member in one step. *)
RemoveStaff(e) ==
  /\ e \in Active
  /\ mem' = [mem EXCEPT ![e].status = "removed"]
  /\ UNCHANGED <<inv, users, granted, req>>

ChangeRole(e) ==
  /\ e \in Active
  /\ \E role \in Roles \ {mem[e].role} : mem' = [mem EXCEPT ![e].role = role]
  /\ UNCHANGED <<inv, users, granted, req>>

Next ==
  \/ \E w \in Workers :
       \/ \E role \in Roles : CountUsed(w, role)
       \/ CheckLimit(w) \/ Create(w)
       \/ \E e \in Emails : CheckMember(w, e)
       \/ \E i \in Ids, kind \in {"resend", "revoke"} : ReadInvite(w, i, kind)
       \/ Resend(w) \/ Revoke(w)
       \/ \E i \in Ids : ReadToken(w, i)
       \/ Accept(w) \/ Abort(w)
  \/ \E i \in Ids : Expire(i)
  \/ \E e \in Emails : RemoveStaff(e) \/ ChangeRole(e)

Spec == Init /\ [][Next]_vars

----------------------------------------------------------------------------
Request ==
  [kind : {"counted", "limit"}, role : Roles, count : Nat]
    \cup [kind : {"create"}, email : Emails, role : Roles, count : Nat, member : BOOLEAN]
    \cup [kind : {"resend", "revoke"}, id : 1..MaxInvites]
    \cup [kind : {"accept"}, id : 1..MaxInvites, read : Invite, new_user : BOOLEAN]

(* Every invite and membership has values of its columns; no invite is     *)
(* ever stored as expired, for accept_invite rolls that back by its own    *)
(* raise; and who has a membership has an invite with accepted_at set,     *)
(* even if it has been revoked at the same time. *)
TypeOK ==
  /\ Len(inv) <= MaxInvites
  /\ \A i \in Ids : inv[i] \in Invite /\ inv[i].status # "expired"
  /\ mem \in [Emails -> Membership]
  /\ \A e \in Emails : mem[e].status # "none" => \E i \in InvitesOf(e) : inv[i].accepted_at
  /\ users \in SUBSET Emails
  /\ granted \in [Emails -> Roles]
  /\ req \in [Workers -> Request \cup {Idle}]

(* Who takes a seat of the plan: staff that an invite made or is to make. *)
Seats ==
  {e \in Active : granted[e] = "staff"}
    \cup {inv[i].email : i \in {j \in Pending : inv[j].role = "staff"}}

(* The request commits in this step on what no longer holds: the person it *)
(* invites has become a member, its count is not that of now, the          *)
(* invite it accepts is not as it read it.                                 *)
InvitesMember(w) ==
  /\ Kind(w) = "create" /\ req'[w] = Idle
  /\ req[w].email \in Active /\ ~req[w].member

CreatesOnOldCount(w) ==
  /\ Kind(w) = "create" /\ req'[w] = Idle
  /\ req[w].count # UsedSeats(req[w].role) + PendingSeats(req[w].role)

AcceptsChanged(w) ==
  Kind(w) = "accept" /\ req'[w] = Idle /\ inv[req[w].id] # req[w].read

(* The limit on users is checked when an invite is created and never       *)
(* again.  It is exceeded only by a create that counted members or invites *)
(* which others have changed since, or by an accept of an invite that was  *)
(* taken back meanwhile: a pending invite keeps the seat its acceptance    *)
(* takes. *)
LimitExceededByOverlap ==
  [][Cardinality(Seats') > Cardinality(Seats) /\ 1 + Cardinality(Seats') > MaxUsers =>
       \E w \in Workers : CreatesOnOldCount(w) \/ AcceptsChanged(w)]_vars

(* A membership becomes active by an invite that can be accepted, or by an *)
(* accept that was overtaken by another change to the person: an invite    *)
(* that was revoked, has expired or was used before is of no use later.    *)
OnlyLiveInvitesAccepted ==
  [][\A e \in Emails :
       mem[e].status # "active" /\ mem'[e].status = "active" =>
         \E w \in Workers :
           /\ Kind(w) = "accept" /\ req'[w] = Idle /\ inv[req[w].id].email = e
           /\ CanBeAccepted(req[w].id) \/ AcceptsChanged(w)]_vars

(* Someone is both a member and invited only if two requests about them    *)
(* overlapped: create checks the members before it looks for the pending   *)
(* invite, and an accept may turn the one into the other in between.       *)
MemberInvited(e) == e \in Active /\ InvitesOf(e) \cap Pending # {}

InvitedMemberNeedsOverlap ==
  [][\A e \in Emails :
       ~MemberInvited(e) /\ MemberInvited(e)' =>
         \E w \in Workers : InvitesMember(w) \/ AcceptsChanged(w)]_vars
=============================================================================
