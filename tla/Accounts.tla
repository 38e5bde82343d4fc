-------------------------------- MODULE Accounts --------------------------------
(***************************************************************************)
(* How people get an account and a company of their own: signing up with a *)
(* code (authx/views/signup.py, authx/services/signup.py) and logging in   *)
(* with Google (authx/views/google.py, authx/services/bootstrap.py).       *)
(*                                                                         *)
(* The start of a signup is a row of autocommit statements, and the        *)
(* completion is a transaction after the one that spends the code; a       *)
(* Google login is one transaction.  The memberships that invites grant    *)
(* are in Invites.                                                         *)
(***************************************************************************)
EXTENDS Naturals, Sequences, FiniteSets, FiniteSetsExt

CONSTANTS
  Emails,            \* the people
  Names,             \* the names of companies, without regard to case
  Slug(_, _),        \* the slug of a name, and from 2 on the slug with a number
  Workers,           \* bound on the requests in flight
  Idle,              \* a worker without a request
  MaxChallenges,     \* bound on the signup challenges
  MaxCompanies       \* bound on the companies, below max_attempts of a slug

ASSUME WorkersAssumption == IsFiniteSet(Workers) /\ Workers # {}
ASSUME BoundsAssumption == MaxChallenges \in Nat /\ MaxCompanies \in 0..50

Numbers == 1..(MaxCompanies + 1)
Slugs == {Slug(n, i) : n \in Names, i \in Numbers}

(* Names may be alike in their slugs, and the slug of "Acme 2" is that of  *)
(* "Acme" with a number; but no two candidates of a name are the same.     *)
ASSUME SlugAssumption ==
  \A n \in Names : \A i, j \in Numbers : Slug(n, i) = Slug(n, j) => i = j

VARIABLES
  user,              \* the User row of each person
  former,            \* the people whose membership elsewhere has ended
  chal,              \* the signup challenges, in the order of their creation
  company,           \* the companies, in the order of their creation
  req                \* the request each worker is in

vars == <<user, former, chal, company, req>>

(* A "linked" account is active, has a full name and a Google provider: a  *)
(* Google login writes nothing to it, and so locks nothing.                *)
UserState == {"none", "inactive", "active", "linked"}

(* after counts the companies there were when the signup, or has_member-   *)
(* ship, was checked; the code only compares.                              *)
Challenge == [email : Emails, name : Names, open : BOOLEAN, after : 0..MaxCompanies]

(* A company with its first dealership and the membership of its owner. *)
Company ==
  [name : Names, slug : Slugs, owner : Emails, is_active : BOOLEAN, after : 0..MaxCompanies]

Init ==
  /\ user \in [Emails -> {"none", "active", "linked"}]
  /\ former = {e \in Emails : user[e] # "none"}
  /\ chal = <<>>
  /\ company = <<>>
  /\ req = [w \in Workers |-> Idle]

Kind(w) == IF req[w] = Idle THEN "idle" ELSE req[w].kind
Become(w, r) == req' = [req EXCEPT ![w] = r]
End(w) == Become(w, Idle)

(* A request fails or its worker dies: the signup's start leaves the       *)
(* account without a code, its completion a code that is spent.            *)
Abort(w) ==
  /\ req[w] # Idle
  /\ End(w)
  /\ UNCHANGED <<user, former, chal, company>>

(* A Google login that writes the account holds its row. *)
Locked(e) == \E w \in Workers : req[w] # Idle /\ req[w].email = e /\ req[w].locks

(* The dealership counts, and the company; neither comes back.             *)
Owned(e) == {c \in DOMAIN company : company[c].owner = e /\ company[c].is_active}

----------------------------------------------------------------------------
(* SignupStartSerializer: the email has no account, not even an inactive   *)
(* one, and the name no company, in whatever case.  One with the same slug *)
(* may be there. *)
StartSignup(w, e, n) ==
  /\ req[w] = Idle
  /\ user[e] = "none"
  /\ \A c \in DOMAIN company : company[c].name # n
  /\ Become(w, [kind |-> "start", email |-> e, name |-> n, after |-> Len(company),
                locks |-> FALSE])
  /\ UNCHANGED <<user, former, chal, company>>

(* get_or_create waits for a Google login that is creating the account. *)
CreateUser(w) ==
  /\ Kind(w) = "start"
  /\ ~Locked(req[w].email)
  /\ user' = [user EXCEPT ![req[w].email] = IF @ = "none" THEN "inactive" ELSE @]
  /\ Become(w, [req[w] EXCEPT !.kind = "invalidate"])
  /\ UNCHANGED <<former, chal, company>>

InvalidatePending(w) ==
  /\ Kind(w) = "invalidate"
  /\ chal' = [c \in DOMAIN chal |->
                IF chal[c].email = req[w].email THEN [chal[c] EXCEPT !.open = FALSE]
                ELSE chal[c]]
  /\ Become(w, [req[w] EXCEPT !.kind = "create"])
  /\ UNCHANGED <<user, former, company>>

CreateChallenge(w) ==
  /\ Kind(w) = "create"
  /\ Len(chal) < MaxChallenges
  /\ chal' = Append(chal, [email |-> req[w].email, name |-> req[w].name, open |-> TRUE,
                           after |-> req[w].after])
  /\ End(w)
  /\ UNCHANGED <<user, former, company>>

(* Once it has expired a challenge is not sent again. *)
Expire(c) ==
  /\ chal[c].open
  /\ chal' = [chal EXCEPT ![c].open = FALSE]
  /\ UNCHANGED <<user, former, company, req>>

(* SignupVerifyView: the code is spent first. *)
Verify(w, c) ==
  /\ req[w] = Idle
  /\ chal[c].open
  /\ ~Locked(chal[c].email)
  /\ chal' = [chal EXCEPT ![c].open = FALSE]
  /\ Become(w, [kind |-> "slug", email |-> chal[c].email, name |-> chal[c].name,
                after |-> chal[c].after, locks |-> FALSE, to |-> "active"])
  /\ UNCHANGED <<user, former, company>>

----------------------------------------------------------------------------
(* GoogleAuthView: the account is read, or created, and held unless there  *)
(* is nothing to write to it. *)
StartGoogle(w, e, n) ==
  /\ req[w] = Idle
  /\ user[e] # "linked" => ~Locked(e)
  /\ Become(w, [kind |-> "google", email |-> e, name |-> n, locks |-> user[e] # "linked",
                created |-> user[e] = "none"])
  /\ UNCHANGED <<user, former, chal, company>>

(* Variant: the membership is not looked for. *)
NeedsCompanyCreated(w) == req[w].created

NeedsCompany(w) == req[w].created \/ Owned(req[w].email) = {}

Welcome(w) ==
  /\ Kind(w) = "google"
  /\ ~NeedsCompany(w)
  /\ user' = [user EXCEPT ![req[w].email] = "linked"]
  /\ End(w)
  /\ UNCHANGED <<former, chal, company>>

Bootstrap(w) ==
  /\ Kind(w) = "google"
  /\ NeedsCompany(w)
  /\ Become(w, [kind |-> "slug", email |-> req[w].email, name |-> req[w].name,
                after |-> Len(company), locks |-> req[w].locks, to |-> "linked"])
  /\ UNCHANGED <<user, former, chal, company>>

----------------------------------------------------------------------------
Used(s) == \E c \in DOMAIN company : company[c].slug = s

(* generate_unique_slug takes the first candidate that is free... *)
FreeSlug(n) == Slug(n, Min({i \in 1..(Len(company) + 1) : ~Used(Slug(n, i))}))

FindSlug(w) ==
  /\ Kind(w) = "slug"
  /\ Become(w, [kind |-> "insert", email |-> req[w].email, name |-> req[w].name,
                after |-> req[w].after, locks |-> req[w].locks, to |-> req[w].to,
                slug |-> FreeSlug(req[w].name)])
  /\ UNCHANGED <<user, former, chal, company>>

(* Variant: the key of the slug is missing. *)
SlugFreeAny(s) == TRUE

(* ... and the key of the column decides, after a wait if need be.  With   *)
(* the slug taken, everything is rolled back: Abort. *)
SlugFree(s) == ~Used(s)

(* complete_signup_from_challenge and bootstrap_account_for_user: neither  *)
(* asks again whether the person has a company. *)
CreateCompany(w) ==
  /\ Kind(w) = "insert"
  /\ Len(company) < MaxCompanies
  /\ SlugFree(req[w].slug)
  /\ req[w].locks \/ ~Locked(req[w].email)
  /\ company' = Append(company, [name |-> req[w].name, slug |-> req[w].slug,
                                 owner |-> req[w].email, is_active |-> TRUE,
                                 after |-> req[w].after])
  /\ user' = [user EXCEPT ![req[w].email] = IF @ = "linked" THEN @ ELSE req[w].to]
  /\ End(w)
  /\ UNCHANGED <<former, chal>>

(* The only dealership is made inactive, after which nobody has a context  *)
(* to make it active again in. *)
CloseDealership(c) ==
  /\ company[c].is_active
  /\ company' = [company EXCEPT ![c].is_active = FALSE]
  /\ UNCHANGED <<user, former, chal, req>>

Next ==
  \/ \E w \in Workers :
       \/ \E e \in Emails, n \in Names : StartSignup(w, e, n) \/ StartGoogle(w, e, n)
       \/ CreateUser(w) \/ InvalidatePending(w) \/ CreateChallenge(w)
       \/ \E c \in DOMAIN chal : Verify(w, c)
       \/ Welcome(w) \/ Bootstrap(w) \/ FindSlug(w) \/ CreateCompany(w) \/ Abort(w)
  \/ \E c \in DOMAIN chal : Expire(c)
  \/ \E c \in DOMAIN company : CloseDealership(c)

Spec == Init /\ [][Next]_vars

----------------------------------------------------------------------------
Request ==
  [kind : {"start", "invalidate", "create"}, email : Emails, name : Names,
   after : 0..MaxCompanies, locks : {FALSE}]
    \cup [kind : {"google"}, email : Emails, name : Names, locks : BOOLEAN, created : BOOLEAN]
    \cup [kind : {"slug"}, email : Emails, name : Names, after : 0..MaxCompanies,
          locks : BOOLEAN, to : {"active", "linked"}]
    \cup [kind : {"insert"}, email : Emails, name : Names, after : 0..MaxCompanies,
          locks : BOOLEAN, to : {"active", "linked"}, slug : Slugs]

(* s is a candidate of n, and those before it are in use. *)
Reached(n, s) == \E i \in Numbers : s = Slug(n, i) /\ \A j \in 1..(i - 1) : Used(Slug(n, j))

(* One request at most holds an account, every company has a slug of its   *)
(* own, and none has a number before all candidates of its name that come  *)
(* first are in use, by this name or another.                              *)
TypeOK ==
  /\ user \in [Emails -> UserState]
  /\ former \in SUBSET Emails
  /\ chal \in Seq(Challenge) /\ Len(chal) <= MaxChallenges
  /\ company \in Seq(Company) /\ Len(company) <= MaxCompanies
  /\ \A c, d \in DOMAIN company : c # d => company[c].slug # company[d].slug
  /\ \A c \in DOMAIN company : Reached(company[c].name, company[c].slug)
  /\ req \in [Workers -> Request \cup {Idle}]
  /\ \A v, w \in Workers :
       v # w /\ req[v] # Idle /\ req[w] # Idle /\ req[v].email = req[w].email =>
         ~(req[v].locks /\ req[w].locks)

(* Whoever has an active account has a company, or had one elsewhere; and  *)
(* owners have active accounts.  A person who owns a live company gets a   *)
(* second one only if the first came after the second was asked for: while *)
(* the signup was open, or after has_membership was read.  (What may fail  *)
(* is the signup: an account whose code expired or was spent in vain stays *)
(* inactive and its email taken.) *)
OneCompanyEach ==
  /\ \A e \in Emails \ former :
       user[e] \in {"active", "linked"} <=> \E c \in DOMAIN company : company[c].owner = e
  /\ \A c, d \in DOMAIN company :
       c < d /\ company[c].owner = company[d].owner /\ company[c].is_active =>
         company[d].after < c
=============================================================================
