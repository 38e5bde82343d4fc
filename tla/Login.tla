--------------------------------- MODULE Login ---------------------------------
(***************************************************************************)
(* One account signs in: the OTP challenges of new-device logins and of    *)
(* password resets (authx/utils/otp.py), the UserSession rows they lead to *)
(* (authx/services/sessions.py, views/login.py, views/google.py), and what *)
(* revokes them (views/sessions.py, services/passwords.py).                *)
(*                                                                         *)
(* These views run in autocommit: every statement is a step, and a request *)
(* that dies leaves what it did so far.  Only the check of a code, the     *)
(* resend of one and the confirmation of a reset are transactions; they    *)
(* lock the challenge and, joined to it, the account, so each is one step. *)
(* The account is active and verified and has a password; a signup's code  *)
(* is in Accounts.   Tokens know no session and are left out.              *)
(***************************************************************************)
EXTENDS Naturals, Sequences, FiniteSets

CONSTANTS
  Devices,           \* the devices, by their cookie
  NoDevice,          \* the device of a reset's challenge
  Workers,           \* bound on the requests in flight
  Idle,              \* a worker without a request
  MaxAttempts,       \* OTPChallenge.max_attempts
  MaxResends,        \* OTPChallenge.max_resends
  MaxChallenges,     \* bound on the challenges created
  MaxSessions,       \* bound on the sessions created
  OuterJoinLockable  \* whether the database accepts FOR UPDATE over the
                     \* nullable side of an outer join (PostgreSQL does not)

ASSUME DevicesAssumption == NoDevice \notin Devices
ASSUME WorkersAssumption == IsFiniteSet(Workers) /\ Workers # {}
ASSUME LimitsAssumption == MaxAttempts \in Nat \ {0} /\ MaxResends \in Nat
ASSUME BoundsAssumption == MaxChallenges \in Nat /\ MaxSessions \in Nat
ASSUME PlatformAssumption == OuterJoinLockable \in BOOLEAN

VARIABLES
  chal,              \* the OTPChallenge rows, in the order of their creation
  sess,              \* the UserSession rows, in the order of their creation
  reset,             \* how many sessions there were at the last reset
  req                \* the request each worker is in

vars == <<chal, sess, reset, req>>

(* how and code are not columns: they say what the session was issued for. *)
(* locked_until is never stored, nor the cooldown of a resend: it is a     *)
(* delay that may have passed whenever one is asked for.                   *)
Challenge ==
  [purpose : {"login", "password"}, device : Devices \cup {NoDevice}, consumed : BOOLEAN,
   expired : BOOLEAN, attempts : 0..MaxAttempts, resends : 0..MaxResends]
Session ==
  [device : Devices, revoked : BOOLEAN, how : {"code", "known", "google"},
   code : 0..MaxChallenges]

Init ==
  /\ chal = <<>>
  /\ sess = <<>>
  /\ reset = 0
  /\ req = [w \in Workers |-> Idle]

Kind(w) == IF req[w] = Idle THEN "idle" ELSE req[w].kind

Pending(purpose, d) ==
  {c \in DOMAIN chal : chal[c].purpose = purpose /\ chal[c].device = d /\ ~chal[c].consumed}
ActiveOn(d) == {s \in DOMAIN sess : sess[s].device = d /\ ~sess[s].revoked}

Become(w, r) == req' = [req EXCEPT ![w] = r]
End(w) == Become(w, Idle)
Keep == UNCHANGED <<chal, sess, reset>>

(* A request fails or its worker dies. *)
Abort(w) ==
  /\ req[w] # Idle
  /\ End(w)
  /\ Keep

----------------------------------------------------------------------------
(* LoginStartView: is_known_device decides between a session and a code.   *)
StartKnown(w, d) ==
  /\ req[w] = Idle
  /\ ActiveOn(d) # {}
  /\ Become(w, [kind |-> "issue", device |-> d, how |-> "known", code |-> 0])
  /\ Keep

StartUnknown(w, d) ==
  /\ req[w] = Idle
  /\ ActiveOn(d) = {}
  /\ Become(w, [kind |-> "invalidate", purpose |-> "login", device |-> d])
  /\ Keep

StartReset(w) ==
  /\ req[w] = Idle
  /\ Become(w, [kind |-> "invalidate", purpose |-> "password", device |-> NoDevice])
  /\ Keep

(* GoogleAuthView asks for no code on any device. *)
StartGoogle(w, d) ==
  /\ req[w] = Idle
  /\ Become(w, [kind |-> "issue", device |-> d, how |-> "google", code |-> 0])
  /\ Keep

(* Variant: only the codes that can still be used are invalidated, as the  *)
(* view's own UPDATE does. *)
InvalidateUnexpired(p, d) ==
  [c \in DOMAIN chal |->
    IF c \in Pending(p, d) /\ ~chal[c].expired THEN [chal[c] EXCEPT !.consumed = TRUE]
    ELSE chal[c]]

(* The view's own UPDATE comes before this one and is part of it. *)
InvalidatePending(p, d) ==
  [c \in DOMAIN chal |->
    IF c \in Pending(p, d) THEN [chal[c] EXCEPT !.consumed = TRUE] ELSE chal[c]]

Invalidate(w) ==
  /\ Kind(w) = "invalidate"
  /\ chal' = InvalidatePending(req[w].purpose, req[w].device)
  /\ Become(w, [kind |-> "create", purpose |-> req[w].purpose, device |-> req[w].device,
                after |-> Len(chal)])
  /\ UNCHANGED <<sess, reset>>

CreateChallenge(w) ==
  /\ Kind(w) = "create"
  /\ Len(chal) < MaxChallenges
  /\ chal' = Append(chal, [purpose |-> req[w].purpose, device |-> req[w].device,
                           consumed |-> FALSE, expired |-> FALSE, attempts |-> 0,
                           resends |-> 0])
  /\ End(w)
  /\ UNCHANGED <<sess, reset>>

(* Nobody looks at the time of a challenge that is consumed. *)
Expire(c) ==
  /\ ~chal[c].consumed
  /\ ~chal[c].expired
  /\ chal' = [chal EXCEPT ![c].expired = TRUE]
  /\ UNCHANGED <<sess, reset, req>>

----------------------------------------------------------------------------
(* _verify_common and _resend_common refuse any other challenge. *)
Usable(c) == OuterJoinLockable /\ ~chal[c].consumed /\ ~chal[c].expired

(* Variant: the count is kept. *)
WrongCounted(c) == [chal EXCEPT ![c].attempts = @ + 1]

(* The count is saved, and rolled back by the error that is raised after. *)
WrongCode(c) == chal

Wrong(c) ==
  /\ Usable(c)
  /\ chal[c].attempts < MaxAttempts
  /\ chal' = WrongCode(c)
  /\ UNCHANGED <<sess, reset, req>>

(* Variant: the challenge may be used again. *)
VerifyReusable(c) == [chal EXCEPT ![c].attempts = @ + 1]

VerifyCommon(c) == [chal EXCEPT ![c].attempts = @ + 1, ![c].consumed = TRUE]

(* LoginVerifyOtpView: the code is spent before the session is issued. *)
Verify(w, c) ==
  /\ req[w] = Idle
  /\ chal[c].purpose = "login"
  /\ Usable(c)
  /\ chal[c].attempts < MaxAttempts
  /\ chal' = VerifyCommon(c)
  /\ Become(w, [kind |-> "issue", device |-> chal[c].device, how |-> "code", code |-> c])
  /\ UNCHANGED <<sess, reset>>

(* A reset's challenge is never sent again. *)
Resend(c) ==
  /\ chal[c].purpose = "login"
  /\ Usable(c)
  /\ chal[c].resends < MaxResends
  /\ chal' = [chal EXCEPT ![c].resends = @ + 1]
  /\ UNCHANGED <<sess, reset, req>>

----------------------------------------------------------------------------
(* issue_tokens_and_session updates the session of the device, whose row   *)
(* stays as it is here; with two of them, MultipleObjectsReturned fails.   *)
UpdateSession(w) ==
  /\ Kind(w) = "issue"
  /\ ActiveOn(req[w].device) # {}
  /\ End(w)
  /\ Keep

FindNoSession(w) ==
  /\ Kind(w) = "issue"
  /\ ActiveOn(req[w].device) = {}
  /\ Become(w, [kind |-> "insert", device |-> req[w].device, how |-> req[w].how,
                code |-> req[w].code, after |-> Len(sess)])
  /\ Keep

CreateSession(w) ==
  /\ Kind(w) = "insert"
  /\ Len(sess) < MaxSessions
  /\ sess' = Append(sess, [device |-> req[w].device, revoked |-> FALSE, how |-> req[w].how,
                           code |-> req[w].code])
  /\ End(w)
  /\ UNCHANGED <<chal, reset>>

Revoked(S) ==
  [s \in DOMAIN sess |-> IF s \in S THEN [sess[s] EXCEPT !.revoked = TRUE] ELSE sess[s]]

(* SessionRevokeView, whose row may be revoked twice. *)
RevokeSession(s) ==
  /\ ~sess[s].revoked
  /\ sess' = Revoked({s})
  /\ UNCHANGED <<chal, reset, req>>

(* SessionRevokeAllView: all but those of the device that asks. *)
RevokeAllOthers(d) ==
  /\ \E s \in DOMAIN sess : sess[s].device # d /\ ~sess[s].revoked
  /\ sess' = Revoked({s \in DOMAIN sess : sess[s].device # d})
  /\ UNCHANGED <<chal, reset, req>>

Logout(d) ==
  /\ ActiveOn(d) # {}
  /\ sess' = Revoked(ActiveOn(d))
  /\ UNCHANGED <<chal, reset, req>>

(* Variant: the sessions stay. *)
ResetKeepsSessions == sess

ResetSessions == Revoked(DOMAIN sess)

(* confirm_password_reset.  The login codes that are out stay valid. *)
ConfirmReset(c) ==
  /\ chal[c].purpose = "password"
  /\ Usable(c)
  /\ chal[c].attempts < MaxAttempts
  /\ chal' = VerifyCommon(c)
  /\ sess' = ResetSessions
  /\ reset' = Len(sess)
  /\ UNCHANGED req

Next ==
  \/ \E w \in Workers :
       \/ \E d \in Devices : StartKnown(w, d) \/ StartUnknown(w, d) \/ StartGoogle(w, d)
       \/ StartReset(w) \/ Invalidate(w) \/ CreateChallenge(w)
       \/ \E c \in DOMAIN chal : Verify(w, c)
       \/ UpdateSession(w) \/ FindNoSession(w) \/ CreateSession(w) \/ Abort(w)
  \/ \E c \in DOMAIN chal : Expire(c) \/ Wrong(c) \/ Resend(c) \/ ConfirmReset(c)
  \/ \E s \in DOMAIN sess : RevokeSession(s)
  \/ \E d \in Devices : RevokeAllOthers(d) \/ Logout(d)

Spec == Init /\ [][Next]_vars

----------------------------------------------------------------------------
Request ==
  [kind : {"issue"}, device : Devices, how : {"code", "known", "google"}, code : 0..MaxChallenges]
    \cup [kind : {"insert"}, device : Devices, how : {"code", "known", "google"},
          code : 0..MaxChallenges, after : 0..MaxSessions]
    \cup [kind : {"invalidate"}, purpose : {"login", "password"}, device : Devices \cup {NoDevice}]
    \cup [kind : {"create"}, purpose : {"login", "password"}, device : Devices \cup {NoDevice},
          after : 0..MaxChallenges]

(* A challenge that is open has counted no attempt, however many wrong     *)
(* codes were tried (_verify_common). *)
TypeOK ==
  /\ chal \in Seq(Challenge) /\ Len(chal) <= MaxChallenges
  /\ \A c \in DOMAIN chal :
       /\ chal[c].device = NoDevice <=> chal[c].purpose = "password"
       /\ ~chal[c].consumed => chal[c].attempts = 0
  /\ sess \in Seq(Session) /\ Len(sess) <= MaxSessions
  /\ reset \in 0..Len(sess)
  /\ req \in [Workers -> Request \cup {Idle}]

(* Every session is accounted for: a code of the login that opened it, for *)
(* the same device and used for no other session; Google; or an earlier    *)
(* session on the device, without which is_known_device would have asked   *)
(* for a code.  None is left of those that were there at the last reset. *)
SessionsEarned ==
  \A s \in DOMAIN sess :
    /\ sess[s].how = "code" =>
         /\ chal[sess[s].code].consumed /\ chal[sess[s].code].attempts = 1
         /\ chal[sess[s].code].device = sess[s].device
         /\ \A t \in DOMAIN sess \ {s} : sess[t].how # "code" \/ sess[t].code # sess[s].code
    /\ sess[s].how = "known" => \E t \in 1..(s - 1) : sess[t].device = sess[s].device
    /\ s <= reset => sess[s].revoked

(* A device has one open code for a purpose and one live session; a second *)
(* one comes only from a request that another one overtook between its     *)
(* UPDATE or its lookup and its INSERT: no key forbids it.  What was used, *)
(* replaced or revoked never comes back.  (With two sessions the device's  *)
(* logins fail until one is revoked.) *)
TwinsNeedOverlap ==
  [][/\ \A w \in Workers :
          CreateChallenge(w) => \A c \in Pending(req[w].purpose, req[w].device) : c > req[w].after
     /\ \A w \in Workers :
          CreateSession(w) => \A s \in ActiveOn(req[w].device) : s > req[w].after
     /\ \A c \in DOMAIN chal : chal[c].consumed => chal'[c].consumed
     /\ \A s \in DOMAIN sess : sess[s].revoked => sess'[s].revoked]_vars
=============================================================================
