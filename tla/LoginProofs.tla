------------------------------ MODULE LoginProofs ------------------------------
(***************************************************************************)
(* Theorems about Login, for any devices, requests in flight and bounds,   *)
(* and whether or not the database can lock a challenge.                   *)
(***************************************************************************)
EXTENDS Login, SequenceTheorems, TLAPS

Carries(w) == Kind(w) \in {"issue", "insert"}

(* What a request that is to open a session goes by: a code that was spent *)
(* for it alone, or a session that there has been on the device.           *)
Grounded(r) ==
  /\ r.how = "code" =>
       /\ r.code \in DOMAIN chal
       /\ chal[r.code].consumed /\ chal[r.code].attempts = 1
       /\ chal[r.code].device = r.device
       /\ \A t \in DOMAIN sess : sess[t].how = "code" => sess[t].code # r.code
  /\ r.how = "known" => \E t \in DOMAIN sess : sess[t].device = r.device

(* No two requests carry one code, and the codes of sessions are there. *)
Earning ==
  /\ \A w \in Workers : Carries(w) => Grounded(req[w])
  /\ \A v, w \in Workers :
       v # w /\ Carries(v) /\ Carries(w) /\ req[v].how = "code" /\ req[w].how = "code" =>
         req[v].code # req[w].code
  /\ \A s \in DOMAIN sess : sess[s].how = "code" => sess[s].code \in DOMAIN chal

(* What was open when a request invalidated the codes, or live when it     *)
(* looked for a session, is not now: whatever is came after.  A code is    *)
(* asked for without a device exactly when it is for a reset.              *)
Lookup(w) ==
  /\ Kind(w) \in {"invalidate", "create"} =>
       (req[w].device = NoDevice <=> req[w].purpose = "password")
  /\ Kind(w) = "create" =>
       /\ req[w].after <= Len(chal)
       /\ \A c \in Pending(req[w].purpose, req[w].device) : c > req[w].after
  /\ Kind(w) = "insert" =>
       /\ req[w].after <= Len(sess)
       /\ \A s \in ActiveOn(req[w].device) : s > req[w].after

Lookups == \A w \in Workers : Lookup(w)

IInv == TypeOK /\ SessionsEarned /\ Earning /\ Lookups

----------------------------------------------------------------------------
LEMMA InitIInv == Init => IInv
<1> SUFFICES ASSUME Init PROVE IInv
  OBVIOUS
<1>1. TypeOK
  BY BoundsAssumption DEF Init, TypeOK
<1>2. SessionsEarned /\ Earning /\ Lookups
  BY DEF Init, SessionsEarned, Earning, Lookups, Lookup, Carries, Kind
<1>3. QED
  BY <1>1, <1>2 DEF IInv

(* A sequence is a function on the numbers up to its length. *)
LEMMA FunctionIsSeq ==
  ASSUME NEW S, NEW n \in Nat, NEW f \in [1..n -> S]
  PROVE  f \in Seq(S) /\ Len(f) = n
<1>1. f \in Seq(S)
  BY SeqDef, Zenon
<1>2. QED
  BY <1>1, LenProperties

LEMMA Tables ==
  ASSUME TypeOK
  PROVE  /\ Len(chal) \in 0..MaxChallenges /\ DOMAIN chal = 1..Len(chal)
         /\ chal \in [1..Len(chal) -> Challenge]
         /\ Len(sess) \in 0..MaxSessions /\ DOMAIN sess = 1..Len(sess)
         /\ sess \in [1..Len(sess) -> Session]
BY LenProperties, BoundsAssumption DEF TypeOK

(* The requests by their kinds. *)
LEMMA Requests ==
  ASSUME TypeOK, NEW w \in Workers
  PROVE  /\ Kind(w) = "issue" =>
              /\ req[w].device \in Devices /\ req[w].how \in {"code", "known", "google"}
              /\ req[w].code \in 0..MaxChallenges
         /\ Kind(w) = "insert" =>
              /\ req[w].device \in Devices /\ req[w].how \in {"code", "known", "google"}
              /\ req[w].code \in 0..MaxChallenges /\ req[w].after \in 0..MaxSessions
         /\ Kind(w) = "invalidate" =>
              /\ req[w].purpose \in {"login", "password"}
              /\ req[w].device \in Devices \cup {NoDevice}
         /\ Kind(w) = "create" =>
              /\ req[w].purpose \in {"login", "password"}
              /\ req[w].device \in Devices \cup {NoDevice} /\ req[w].after \in 0..MaxChallenges
BY DEF TypeOK, Request, Kind

----------------------------------------------------------------------------
(* What every step does to the challenges and the sessions: rows may come, *)
(* and none is taken away, given to a device or brought back.              *)
ChalKept ==
  /\ DOMAIN chal \subseteq DOMAIN chal'
  /\ \A c \in DOMAIN chal :
       /\ chal'[c].purpose = chal[c].purpose /\ chal'[c].device = chal[c].device
       /\ chal[c].consumed => chal'[c].consumed /\ chal'[c].attempts = chal[c].attempts

SessKept ==
  /\ DOMAIN sess \subseteq DOMAIN sess'
  /\ \A s \in DOMAIN sess :
       /\ sess'[s].device = sess[s].device
       /\ sess'[s].how = sess[s].how /\ sess'[s].code = sess[s].code
       /\ sess[s].revoked => sess'[s].revoked

ChalOK(c) ==
  /\ chal[c].device = NoDevice <=> chal[c].purpose = "password"
  /\ ~chal[c].consumed => chal[c].attempts = 0

(* A change of the challenges that adds none. *)
LEMMA ChalEdit ==
  ASSUME TypeOK, chal' \in [1..Len(chal) -> Challenge],
         \A c \in DOMAIN chal :
           /\ chal'[c].purpose = chal[c].purpose /\ chal'[c].device = chal[c].device
           /\ chal[c].consumed => chal'[c].consumed /\ chal'[c].attempts = chal[c].attempts
           /\ ~chal'[c].consumed => chal'[c].attempts = chal[c].attempts
  PROVE  /\ ChalKept /\ Len(chal') = Len(chal)
         /\ chal' \in Seq(Challenge) /\ Len(chal') <= MaxChallenges
         /\ \A c \in DOMAIN chal' : ChalOK(c)'
<1>1. chal' \in Seq(Challenge) /\ Len(chal') = Len(chal) /\ DOMAIN chal' = DOMAIN chal
  BY Tables, FunctionIsSeq
<1>2. Len(chal') <= MaxChallenges
  BY <1>1 DEF TypeOK
<1>3. \A c \in DOMAIN chal' : ChalOK(c)'
  BY <1>1 DEF TypeOK, ChalOK
<1>4. QED
  BY <1>1, <1>2, <1>3 DEF ChalKept

(* A change of the sessions that adds none. *)
LEMMA SessEdit ==
  ASSUME TypeOK, NEW S \in SUBSET DOMAIN sess, sess' = Revoked(S)
  PROVE  /\ SessKept /\ Len(sess') = Len(sess) /\ DOMAIN sess' = DOMAIN sess
         /\ sess' \in Seq(Session) /\ Len(sess') <= MaxSessions
         /\ \A s \in S : sess'[s].revoked
<1>1. /\ sess' \in [1..Len(sess) -> Session]
      /\ \A s \in DOMAIN sess :
           /\ sess'[s].device = sess[s].device
           /\ sess'[s].how = sess[s].how /\ sess'[s].code = sess[s].code
           /\ sess[s].revoked => sess'[s].revoked
           /\ s \in S => sess'[s].revoked
  BY Tables DEF Revoked, Session
<1>2. sess' \in Seq(Session) /\ Len(sess') = Len(sess) /\ DOMAIN sess' = DOMAIN sess
  BY <1>1, Tables, FunctionIsSeq
<1>3. QED
  BY <1>1, <1>2 DEF SessKept, TypeOK

(* What was known of a request that this step leaves alone is still so. *)
LEMMA OtherKept ==
  ASSUME IInv, TypeOK', ChalKept, SessKept, DOMAIN sess' = DOMAIN sess,
         NEW v \in Workers, req'[v] = req[v]
  PROVE  /\ (Carries(v) => Grounded(req[v]))'
         /\ Lookup(v)'
<1>1. Carries(v)' = Carries(v) /\ Kind(v)' = Kind(v)
  BY DEF Carries, Kind
<1>2. /\ DOMAIN chal = 1..Len(chal) /\ DOMAIN chal' = 1..Len(chal')
      /\ DOMAIN sess = 1..Len(sess) /\ DOMAIN sess' = 1..Len(sess')
      /\ Len(chal) \in Nat /\ Len(chal') \in Nat /\ Len(sess) \in Nat /\ Len(sess') \in Nat
  <2>1. TypeOK
    BY DEF IInv
  <2>2. /\ DOMAIN chal = 1..Len(chal) /\ DOMAIN sess = 1..Len(sess)
        /\ Len(chal) \in Nat /\ Len(sess) \in Nat
    BY <2>1, LenProperties DEF TypeOK
  <2>3. /\ DOMAIN chal' = 1..Len(chal') /\ DOMAIN sess' = 1..Len(sess')
        /\ Len(chal') \in Nat /\ Len(sess') \in Nat
    BY LenProperties DEF TypeOK
  <2>4. QED
    BY <2>2, <2>3
<1>3. Len(chal) <= Len(chal') /\ Len(sess) <= Len(sess')
  BY <1>2 DEF ChalKept, SessKept
<1>4. ASSUME Carries(v) PROVE Grounded(req[v])'
  <2>1. Grounded(req[v])
    BY <1>4 DEF IInv, Earning
  <2>2. QED
    BY <2>1 DEF Grounded, ChalKept, SessKept
<1>5. ASSUME Kind(v) = "create"
      PROVE  /\ req[v].after <= Len(chal')
             /\ \A c \in Pending(req[v].purpose, req[v].device)' : c > req[v].after
  <2>1. req[v].after \in Nat
    BY <1>5, Requests, BoundsAssumption DEF IInv
  <2>2. /\ req[v].after <= Len(chal)
        /\ \A c \in Pending(req[v].purpose, req[v].device) : c > req[v].after
    BY <1>5 DEF IInv, Lookups, Lookup
  <2>3. QED
    BY <1>2, <1>3, <2>1, <2>2 DEF Pending, ChalKept
<1>6. ASSUME Kind(v) = "insert"
      PROVE  /\ req[v].after <= Len(sess')
             /\ \A s \in ActiveOn(req[v].device)' : s > req[v].after
  <2>1. req[v].after \in Nat
    BY <1>6, Requests, BoundsAssumption DEF IInv
  <2>2. /\ req[v].after <= Len(sess)
        /\ \A s \in ActiveOn(req[v].device) : s > req[v].after
    BY <1>6 DEF IInv, Lookups, Lookup
  <2>3. QED
    BY <1>2, <1>3, <2>1, <2>2 DEF ActiveOn, SessKept
<1>7. QED
  BY <1>1, <1>4, <1>5, <1>6 DEF IInv, Lookups, Lookup

(* So are the sessions, when none is added. *)
LEMMA SessionsKept ==
  ASSUME IInv, ChalKept, SessKept, DOMAIN sess' = DOMAIN sess,
         \/ reset' = reset
         \/ \A s \in DOMAIN sess : sess'[s].revoked
  PROVE  /\ SessionsEarned'
         /\ (\A s \in DOMAIN sess : sess[s].how = "code" => sess[s].code \in DOMAIN chal)'
<1>1. ASSUME NEW s \in DOMAIN sess
      PROVE  /\ sess'[s].how = "code" =>
                  /\ chal'[sess'[s].code].consumed /\ chal'[sess'[s].code].attempts = 1
                  /\ chal'[sess'[s].code].device = sess'[s].device
                  /\ \A t \in DOMAIN sess' \ {s} :
                       sess'[t].how # "code" \/ sess'[t].code # sess'[s].code
             /\ sess'[s].how = "code" => sess'[s].code \in DOMAIN chal'
             /\ sess'[s].how = "known" => \E t \in 1..(s - 1) : sess'[t].device = sess'[s].device
             /\ s <= reset' => sess'[s].revoked
  <2>1. /\ sess[s].how = "code" =>
             /\ sess[s].code \in DOMAIN chal
             /\ chal[sess[s].code].consumed /\ chal[sess[s].code].attempts = 1
             /\ chal[sess[s].code].device = sess[s].device
             /\ \A t \in DOMAIN sess \ {s} : sess[t].how # "code" \/ sess[t].code # sess[s].code
        /\ sess[s].how = "known" => \E t \in 1..(s - 1) : sess[t].device = sess[s].device
        /\ s <= reset => sess[s].revoked
    BY DEF IInv, SessionsEarned, Earning
  <2>2. 1..(s - 1) \subseteq DOMAIN sess
    BY Tables DEF IInv
  <2>3. QED
    BY <2>1, <2>2 DEF ChalKept, SessKept
<1>2. QED
  BY <1>1 DEF SessionsEarned

(* A step that changes no request. *)
LEMMA RowsKeep ==
  ASSUME IInv, TypeOK', ChalKept, SessKept, DOMAIN sess' = DOMAIN sess, req' = req,
         \/ reset' = reset
         \/ \A s \in DOMAIN sess : sess'[s].revoked
  PROVE  IInv'
<1>1. \A v \in Workers : (Carries(v) => Grounded(req[v]))' /\ Lookup(v)'
  BY OtherKept
<1>2. \A v \in Workers : Carries(v)' = Carries(v)
  BY DEF Carries, Kind
<1>3. Earning'
  BY <1>1, <1>2, SessionsKept DEF IInv, Earning
<1>4. QED
  BY <1>1, <1>3, SessionsKept DEF IInv, Lookups

(* A step of one request, that adds no session. *)
LEMMA RequestKeeps ==
  ASSUME IInv, TypeOK', ChalKept, SessKept, DOMAIN sess' = DOMAIN sess, reset' = reset,
         NEW w \in Workers, \A v \in Workers \ {w} : req'[v] = req[v],
         (Carries(w) => Grounded(req[w]))',
         Carries(w)' /\ req'[w].how = "code" =>
           \A v \in Workers \ {w} :
             Carries(v) /\ req[v].how = "code" => req[v].code # req'[w].code,
         Lookup(w)'
  PROVE  IInv'
<1>1. \A v \in Workers \ {w} :
        (Carries(v) => Grounded(req[v]))' /\ Lookup(v)' /\ Carries(v)' = Carries(v)
  BY OtherKept DEF Carries, Kind
<1>2. Earning'
  <2>1. \A v \in Workers : (Carries(v) => Grounded(req[v]))'
    BY <1>1
  <2>2. ASSUME NEW u \in Workers, NEW v \in Workers, u # v, Carries(u)', Carries(v)',
               req'[u].how = "code", req'[v].how = "code"
        PROVE  req'[u].code # req'[v].code
    <3>1. CASE u = w
      BY <1>1, <2>2, <3>1
    <3>2. CASE v = w
      BY <1>1, <2>2, <3>2
    <3>3. CASE u # w /\ v # w
      BY <1>1, <2>2, <3>3 DEF IInv, Earning
    <3>4. QED
      BY <3>1, <3>2, <3>3
  <2>3. QED
    BY <2>1, <2>2, SessionsKept DEF Earning
<1>3. QED
  BY <1>1, <1>2, SessionsKept DEF IInv, Lookups

----------------------------------------------------------------------------
(* A request goes on, or ends, and no row changes.                         *)
LEMMA Quiet ==
  ASSUME IInv, Keep, NEW w \in Workers, NEW r \in Request \cup {Idle}, Become(w, r),
         r # Idle /\ r.kind \in {"issue", "insert"} =>
           /\ Grounded(r)
           /\ r.how = "code" =>
                \A v \in Workers \ {w} :
                  Carries(v) /\ req[v].how = "code" => req[v].code # r.code,
         r # Idle => r.kind # "create",
         r # Idle /\ r.kind = "invalidate" => (r.device = NoDevice <=> r.purpose = "password"),
         r # Idle /\ r.kind = "insert" =>
           r.after = Len(sess) /\ ActiveOn(r.device) = {}
  PROVE  IInv'
<1>1. /\ ChalKept /\ SessKept /\ DOMAIN sess' = DOMAIN sess /\ reset' = reset
      /\ chal' = chal /\ sess' = sess
  BY DEF Keep, ChalKept, SessKept
<1>2. req'[w] = r /\ \A v \in Workers \ {w} : req'[v] = req[v]
  BY DEF Become, IInv, TypeOK
<1>3. TypeOK'
  BY <1>1 DEF Become, IInv, TypeOK
<1>4. Carries(w)' <=> (r # Idle /\ r.kind \in {"issue", "insert"})
  BY <1>2 DEF Carries, Kind
<1>5. (Carries(w) => Grounded(req[w]))'
  BY <1>1, <1>2, <1>4 DEF Grounded
<1>6. Lookup(w)'
  <2>1. Len(sess) \in Nat
    BY Tables, BoundsAssumption DEF IInv
  <2>2. QED
    BY <1>1, <1>2, <2>1 DEF Lookup, Kind, ActiveOn
<1>7. QED
  BY <1>1, <1>2, <1>3, <1>4, <1>5, <1>6, RequestKeeps

LEMMA RequestsQuiet ==
  ASSUME IInv, NEW w \in Workers,
         \/ \E d \in Devices : StartKnown(w, d) \/ StartUnknown(w, d) \/ StartGoogle(w, d)
         \/ StartReset(w) \/ UpdateSession(w) \/ FindNoSession(w) \/ Abort(w)
  PROVE  IInv'
<1>1. ASSUME NEW d \in Devices, StartKnown(w, d) PROVE IInv'
  <2> DEFINE r == [kind |-> "issue", device |-> d, how |-> "known", code |-> 0]
  <2>1. r \in Request \cup {Idle}
    BY BoundsAssumption DEF Request
  <2>2. Grounded(r)
    BY <1>1 DEF StartKnown, ActiveOn, Grounded
  <2>3. QED
    BY <1>1, <2>1, <2>2, Quiet DEF StartKnown
<1>2. ASSUME NEW d \in Devices, StartUnknown(w, d) PROVE IInv'
  <2> DEFINE r == [kind |-> "invalidate", purpose |-> "login", device |-> d]
  <2>1. r \in Request \cup {Idle}
    BY DEF Request
  <2>2. QED
    BY <1>2, <2>1, Quiet, DevicesAssumption DEF StartUnknown
<1>3. ASSUME NEW d \in Devices, StartGoogle(w, d) PROVE IInv'
  <2> DEFINE r == [kind |-> "issue", device |-> d, how |-> "google", code |-> 0]
  <2>1. r \in Request \cup {Idle}
    BY BoundsAssumption DEF Request
  <2>2. Grounded(r)
    BY DEF Grounded
  <2>3. QED
    BY <1>3, <2>1, <2>2, Quiet DEF StartGoogle
<1>4. CASE StartReset(w)
  <2> DEFINE r == [kind |-> "invalidate", purpose |-> "password", device |-> NoDevice]
  <2>1. r \in Request \cup {Idle}
    BY DEF Request
  <2>2. QED
    BY <1>4, <2>1, Quiet DEF StartReset
<1>5. CASE UpdateSession(w)
  BY <1>5, Quiet DEF UpdateSession, End
<1>6. CASE FindNoSession(w)
  <2> DEFINE r == [kind |-> "insert", device |-> req[w].device, how |-> req[w].how,
                   code |-> req[w].code, after |-> Len(sess)]
  <2>1. /\ req[w].device \in Devices /\ req[w].how \in {"code", "known", "google"}
        /\ req[w].code \in 0..MaxChallenges /\ Len(sess) \in 0..MaxSessions
    BY <1>6, Requests, Tables DEF FindNoSession, IInv
  <2>2. r \in Request \cup {Idle}
    BY <2>1 DEF Request
  <2>3. Carries(w) /\ Grounded(req[w])
    BY <1>6 DEF FindNoSession, Carries, IInv, Earning
  <2>4. Grounded(r)
    BY <2>3 DEF Grounded
  <2>5. r.how = "code" =>
          \A v \in Workers \ {w} : Carries(v) /\ req[v].how = "code" => req[v].code # r.code
    BY <2>3 DEF IInv, Earning
  <2>6. Keep /\ Become(w, r) /\ ActiveOn(r.device) = {} /\ r.kind = "insert" /\ r.after = Len(sess)
    BY <1>6 DEF FindNoSession
  <2> HIDE DEF r
  <2>7. QED
    BY <2>2, <2>4, <2>5, <2>6, Quiet
<1>7. CASE Abort(w)
  BY <1>7, Quiet DEF Abort, End
<1>8. QED
  BY <1>1, <1>2, <1>3, <1>4, <1>5, <1>6, <1>7

----------------------------------------------------------------------------
(* A step of the rows alone.                                               *)
LEMMA RowsTyped ==
  ASSUME IInv, req' = req,
         chal' \in Seq(Challenge) /\ Len(chal') <= MaxChallenges,
         \A c \in DOMAIN chal' : ChalOK(c)',
         sess' \in Seq(Session) /\ Len(sess') <= MaxSessions, Len(sess') = Len(sess),
         reset' \in 0..Len(sess)
  PROVE  TypeOK'
BY DEF IInv, TypeOK, ChalOK

(* Nothing happens to the challenges, or to the sessions.                  *)
LEMMA ChalSame ==
  ASSUME TypeOK, chal' = chal
  PROVE  /\ ChalKept /\ chal' \in Seq(Challenge) /\ Len(chal') <= MaxChallenges
         /\ \A c \in DOMAIN chal' : ChalOK(c)'
BY DEF TypeOK, ChalKept, ChalOK

LEMMA SessSame ==
  ASSUME TypeOK, sess' = sess
  PROVE  /\ SessKept /\ DOMAIN sess' = DOMAIN sess /\ Len(sess') = Len(sess)
         /\ sess' \in Seq(Session) /\ Len(sess') <= MaxSessions
BY DEF TypeOK, SessKept

(* What VerifyCommon does to an open challenge: it is spent, on the first  *)
(* attempt that counts.                                                    *)
LEMMA Spent ==
  ASSUME TypeOK, NEW c \in DOMAIN chal, ~chal[c].consumed, chal[c].attempts < MaxAttempts,
         chal' = VerifyCommon(c)
  PROVE  /\ ChalKept /\ Len(chal') = Len(chal) /\ DOMAIN chal' = DOMAIN chal
         /\ chal' \in Seq(Challenge) /\ Len(chal') <= MaxChallenges
         /\ \A k \in DOMAIN chal' : ChalOK(k)'
         /\ chal'[c].consumed /\ chal'[c].attempts = 1 /\ chal'[c].device = chal[c].device
<1>1. chal[c].attempts = 0 /\ chal[c] \in Challenge
  BY Tables DEF TypeOK
<1>2. /\ chal' \in [1..Len(chal) -> Challenge]
      /\ \A k \in DOMAIN chal : k # c => chal'[k] = chal[k]
      /\ chal'[c] = [chal[c] EXCEPT !.attempts = 1, !.consumed = TRUE]
  <2> DEFINE r == [chal[c] EXCEPT !.attempts = 1, !.consumed = TRUE]
  <2>1. r \in Challenge
    <3>1. 1 \in 0..MaxAttempts
      BY LimitsAssumption
    <3>2. QED
      BY <1>1, <3>1 DEF Challenge
  <2>2. chal' = [chal EXCEPT ![c] = [[chal[c] EXCEPT !.attempts = chal[c].attempts + 1]
                                       EXCEPT !.consumed = TRUE]]
    BY <1>1, Tables DEF VerifyCommon
  <2>4. chal' = [chal EXCEPT ![c] = r]
    BY <1>1, <2>2
  <2> HIDE DEF r
  <2>3. /\ chal' \in [1..Len(chal) -> Challenge]
        /\ \A k \in DOMAIN chal : k # c => chal'[k] = chal[k]
        /\ chal'[c] = r
    BY <2>1, <2>4, Tables
  <2>5. QED
    BY <2>3 DEF r
<1>3. /\ chal'[c].consumed /\ chal'[c].attempts = 1
      /\ chal'[c].device = chal[c].device /\ chal'[c].purpose = chal[c].purpose
  BY <1>1, <1>2 DEF Challenge
<1>4. DOMAIN chal' = DOMAIN chal
  BY <1>2, Tables
<1>5. \A k \in DOMAIN chal :
        /\ chal'[k].purpose = chal[k].purpose /\ chal'[k].device = chal[k].device
        /\ chal[k].consumed => chal'[k].consumed /\ chal'[k].attempts = chal[k].attempts
        /\ ~chal'[k].consumed => chal'[k].attempts = chal[k].attempts
  BY <1>2, <1>3
<1>6. QED
  BY <1>2, <1>3, <1>4, <1>5, ChalEdit

(* The steps that are on a challenge and no request.                       *)
LEMMA ChallengeSteps ==
  ASSUME IInv, NEW c \in DOMAIN chal, Expire(c) \/ Wrong(c) \/ Resend(c)
  PROVE  IInv' /\ ChalKept /\ SessKept
<1>1. /\ chal' \in [1..Len(chal) -> Challenge]
      /\ \A k \in DOMAIN chal :
           /\ chal'[k].purpose = chal[k].purpose /\ chal'[k].device = chal[k].device
           /\ chal'[k].consumed = chal[k].consumed /\ chal'[k].attempts = chal[k].attempts
  <2>1. /\ chal \in [1..Len(chal) -> Challenge] /\ DOMAIN chal = 1..Len(chal)
        /\ chal[c] \in Challenge
    BY Tables DEF IInv
  <2>2. CASE Expire(c)
    BY <2>1, <2>2 DEF Expire, Challenge
  <2>3. CASE Wrong(c)
    BY <2>1, <2>3 DEF Wrong, WrongCode
  <2>4. CASE Resend(c)
    <3>1. chal[c].resends + 1 \in 0..MaxResends
      BY <2>1, <2>4, LimitsAssumption DEF Resend, Challenge
    <3>2. chal' = [chal EXCEPT ![c].resends = chal[c].resends + 1]
      BY <2>4 DEF Resend
    <3>3. QED
      BY <2>1, <3>1, <3>2 DEF Challenge
  <2>5. QED
    BY <2>2, <2>3, <2>4
<1>2. sess' = sess /\ reset' = reset /\ req' = req
  BY DEF Expire, Wrong, Resend
<1>3. /\ ChalKept /\ chal' \in Seq(Challenge) /\ Len(chal') <= MaxChallenges
      /\ \A k \in DOMAIN chal' : ChalOK(k)'
  BY <1>1, ChalEdit DEF IInv
<1>4. /\ SessKept /\ DOMAIN sess' = DOMAIN sess /\ Len(sess') = Len(sess)
      /\ sess' \in Seq(Session) /\ Len(sess') <= MaxSessions
  BY <1>2, SessSame DEF IInv
<1>5. TypeOK'
  BY <1>2, <1>3, <1>4, RowsTyped DEF IInv, TypeOK
<1>6. QED
  BY <1>2, <1>3, <1>4, <1>5, RowsKeep

(* The steps that revoke sessions.                                         *)
LEMMA Revocations ==
  ASSUME IInv,
         \/ \E s \in DOMAIN sess : RevokeSession(s)
         \/ \E d \in Devices : RevokeAllOthers(d) \/ Logout(d)
  PROVE  IInv' /\ ChalKept /\ SessKept
<1>1. PICK S \in SUBSET DOMAIN sess : sess' = Revoked(S)
  BY DEF RevokeSession, RevokeAllOthers, Logout, ActiveOn
<1>2. chal' = chal /\ reset' = reset /\ req' = req
  BY DEF RevokeSession, RevokeAllOthers, Logout
<1>3. /\ ChalKept /\ chal' \in Seq(Challenge) /\ Len(chal') <= MaxChallenges
      /\ \A k \in DOMAIN chal' : ChalOK(k)'
  BY <1>2, ChalSame DEF IInv
<1>4. /\ SessKept /\ DOMAIN sess' = DOMAIN sess /\ Len(sess') = Len(sess)
      /\ sess' \in Seq(Session) /\ Len(sess') <= MaxSessions
  BY <1>1, SessEdit DEF IInv
<1>5. TypeOK'
  BY <1>2, <1>3, <1>4, RowsTyped DEF IInv, TypeOK
<1>6. QED
  BY <1>2, <1>3, <1>4, <1>5, RowsKeep

LEMMA Resets ==
  ASSUME IInv, NEW c \in DOMAIN chal, ConfirmReset(c)
  PROVE  IInv' /\ ChalKept /\ SessKept
<1>1. TypeOK
  BY DEF IInv
<1>2. /\ ChalKept /\ chal' \in Seq(Challenge) /\ Len(chal') <= MaxChallenges
      /\ \A k \in DOMAIN chal' : ChalOK(k)'
  BY <1>1, Spent DEF ConfirmReset, Usable
<1>3. /\ SessKept /\ DOMAIN sess' = DOMAIN sess /\ Len(sess') = Len(sess)
      /\ sess' \in Seq(Session) /\ Len(sess') <= MaxSessions
      /\ \A s \in DOMAIN sess : sess'[s].revoked
  BY <1>1, SessEdit DEF ConfirmReset, ResetSessions
<1>4. req' = req /\ reset' = Len(sess) /\ Len(sess) \in Nat
  BY <1>1, Tables, BoundsAssumption DEF ConfirmReset
<1>5. TypeOK'
  BY <1>2, <1>3, <1>4, RowsTyped
<1>6. QED
  BY <1>2, <1>3, <1>4, <1>5, RowsKeep

----------------------------------------------------------------------------
(* The code is spent for the request: no session or request has it yet,    *)
(* or it would have been spent before.                                     *)
LEMMA VerifyKeeps ==
  ASSUME IInv, NEW w \in Workers, NEW c \in DOMAIN chal, Verify(w, c)
  PROVE  IInv' /\ ChalKept /\ SessKept
<1> DEFINE r == [kind |-> "issue", device |-> chal[c].device, how |-> "code", code |-> c]
<1>1. TypeOK /\ req[w] = Idle /\ ~chal[c].consumed /\ chal[c].attempts < MaxAttempts
      /\ chal' = VerifyCommon(c) /\ sess' = sess /\ reset' = reset /\ chal[c].purpose = "login"
  BY DEF IInv, Verify, Usable
<1>2. /\ ChalKept /\ chal' \in Seq(Challenge) /\ Len(chal') <= MaxChallenges
      /\ \A k \in DOMAIN chal' : ChalOK(k)'
      /\ chal'[c].consumed /\ chal'[c].attempts = 1 /\ chal'[c].device = chal[c].device
      /\ DOMAIN chal' = DOMAIN chal
  BY <1>1, Spent
<1>3. /\ SessKept /\ DOMAIN sess' = DOMAIN sess /\ Len(sess') = Len(sess)
      /\ sess' \in Seq(Session) /\ Len(sess') <= MaxSessions
  BY <1>1, SessSame
<1>4. req' = [req EXCEPT ![w] = r]
  BY DEF Verify, Become
<1>5. r \in Request
  <2>1. chal[c].device # NoDevice
    BY <1>1 DEF TypeOK
  <2>2. chal[c].device \in Devices
    BY <1>1, <2>1, Tables DEF Challenge
  <2>3. c \in 0..MaxChallenges
    BY <1>1, Tables, BoundsAssumption
  <2>4. QED
    BY <2>2, <2>3 DEF Request
<1>6. TypeOK'
  BY <1>1, <1>2, <1>3, <1>4, <1>5 DEF TypeOK, ChalOK
<1>7. req'[w] = r /\ \A v \in Workers \ {w} : req'[v] = req[v]
  BY <1>1, <1>4 DEF TypeOK
<1>8. \A t \in DOMAIN sess : sess[t].how = "code" => sess[t].code # c
  BY <1>1 DEF IInv, SessionsEarned
<1>9. \A v \in Workers : Carries(v) /\ req[v].how = "code" => req[v].code # c
  BY <1>1 DEF IInv, Earning, Grounded
<1>10. (Carries(w) => Grounded(req[w]))'
  BY <1>1, <1>2, <1>7, <1>8 DEF Grounded
<1>11. Lookup(w)'
  BY <1>7 DEF Lookup, Kind
<1>12. QED
  BY <1>1, <1>2, <1>3, <1>6, <1>7, <1>9, <1>10, <1>11, RequestKeeps

(* What was open for the purpose and the device is spent, so that what is  *)
(* open after comes after.                                                 *)
LEMMA InvalidateKeeps ==
  ASSUME IInv, NEW w \in Workers, Invalidate(w)
  PROVE  IInv' /\ ChalKept /\ SessKept
<1> DEFINE p == req[w].purpose
           d == req[w].device
           r == [kind |-> "create", purpose |-> p, device |-> d, after |-> Len(chal)]
<1>1. TypeOK /\ Kind(w) = "invalidate" /\ sess' = sess /\ reset' = reset
      /\ chal' = InvalidatePending(p, d) /\ req' = [req EXCEPT ![w] = r]
  BY DEF IInv, Invalidate, Become
<1>2. /\ chal' \in [1..Len(chal) -> Challenge]
      /\ \A k \in DOMAIN chal :
           /\ chal'[k].purpose = chal[k].purpose /\ chal'[k].device = chal[k].device
           /\ chal'[k].attempts = chal[k].attempts
           /\ chal[k].consumed => chal'[k].consumed
           /\ k \in Pending(p, d) => chal'[k].consumed
  BY <1>1, Tables DEF InvalidatePending, Challenge
<1>3. /\ ChalKept /\ chal' \in Seq(Challenge) /\ Len(chal') <= MaxChallenges
      /\ \A k \in DOMAIN chal' : ChalOK(k)'
      /\ Len(chal') = Len(chal)
  BY <1>1, <1>2, ChalEdit
<1>4. /\ SessKept /\ DOMAIN sess' = DOMAIN sess /\ Len(sess') = Len(sess)
      /\ sess' \in Seq(Session) /\ Len(sess') <= MaxSessions
  BY <1>1, SessSame
<1>5. r \in Request
  BY <1>1, Requests, Tables DEF Request
<1>6. TypeOK'
  BY <1>1, <1>3, <1>4, <1>5 DEF TypeOK, ChalOK
<1>7. req'[w] = r /\ \A v \in Workers \ {w} : req'[v] = req[v]
  BY <1>1 DEF TypeOK
<1>8. ~Carries(w)'
  BY <1>7 DEF Carries, Kind
<1>9. Pending(p, d)' = {}
  <2>1. DOMAIN chal' = DOMAIN chal
    BY <1>1, <1>2, Tables
  <2>2. QED
    BY <1>2, <1>7, <2>1 DEF Pending
<1>10. Lookup(w)'
  <2>1. d = NoDevice <=> p = "password"
    BY <1>1 DEF IInv, Lookups, Lookup
  <2>2. QED
    BY <1>1, <1>3, <1>7, <1>9, <2>1, Tables, BoundsAssumption DEF Lookup, Kind, Pending
<1>11. QED
  BY <1>1, <1>3, <1>4, <1>6, <1>7, <1>8, <1>10, RequestKeeps

LEMMA CreateChallengeKeeps ==
  ASSUME IInv, NEW w \in Workers, CreateChallenge(w)
  PROVE  IInv' /\ ChalKept /\ SessKept
<1> DEFINE k == [purpose |-> req[w].purpose, device |-> req[w].device, consumed |-> FALSE,
                 expired |-> FALSE, attempts |-> 0, resends |-> 0]
<1>1. TypeOK /\ Kind(w) = "create" /\ sess' = sess /\ reset' = reset
      /\ chal' = Append(chal, k) /\ req' = [req EXCEPT ![w] = Idle] /\ Len(chal) < MaxChallenges
  BY DEF IInv, CreateChallenge, End, Become
<1>2. k \in Challenge
  BY <1>1, Requests, LimitsAssumption DEF Challenge
<1>3. req[w].device = NoDevice <=> req[w].purpose = "password"
  BY <1>1 DEF IInv, Lookups, Lookup
<1>4. /\ chal' \in Seq(Challenge) /\ Len(chal') = Len(chal) + 1
      /\ chal'[Len(chal) + 1] = k /\ \A c \in 1..Len(chal) : chal'[c] = chal[c]
  BY <1>1, <1>2, AppendProperties DEF TypeOK
<1>5. DOMAIN chal' = 1..(Len(chal) + 1) /\ DOMAIN chal = 1..Len(chal) /\ Len(chal) \in Nat
  BY <1>1, <1>4, Tables, LenProperties, BoundsAssumption
<1>6. ChalKept
  BY <1>4, <1>5 DEF ChalKept
<1>7. \A c \in DOMAIN chal' : ChalOK(c)'
  BY <1>1, <1>3, <1>4, <1>5 DEF TypeOK, ChalOK
<1>8. /\ SessKept /\ DOMAIN sess' = DOMAIN sess /\ Len(sess') = Len(sess)
      /\ sess' \in Seq(Session) /\ Len(sess') <= MaxSessions
  BY <1>1, SessSame
<1>9. TypeOK'
  BY <1>1, <1>4, <1>5, <1>7, <1>8, BoundsAssumption DEF TypeOK, ChalOK
<1>10. req'[w] = Idle /\ \A v \in Workers \ {w} : req'[v] = req[v]
  BY <1>1 DEF TypeOK
<1>11. ~Carries(w)' /\ Lookup(w)'
  BY <1>10 DEF Carries, Lookup, Kind
<1>12. QED
  BY <1>1, <1>6, <1>8, <1>9, <1>10, <1>11, RequestKeeps

(* The session goes by what the request went by; its code is no other's.   *)
LEMMA CreateSessionKeeps ==
  ASSUME IInv, NEW w \in Workers, CreateSession(w)
  PROVE  IInv' /\ ChalKept /\ SessKept
<1> DEFINE k == [device |-> req[w].device, revoked |-> FALSE, how |-> req[w].how,
                 code |-> req[w].code]
           n == Len(sess) + 1
<1>1. TypeOK /\ Kind(w) = "insert" /\ chal' = chal /\ reset' = reset
      /\ sess' = Append(sess, k) /\ req' = [req EXCEPT ![w] = Idle] /\ Len(sess) < MaxSessions
  BY DEF IInv, CreateSession, End, Become
<1>2. k \in Session
  BY <1>1, Requests DEF Session
<1>3. /\ sess' \in Seq(Session) /\ Len(sess') = n
      /\ sess'[n] = k /\ \A s \in 1..Len(sess) : sess'[s] = sess[s]
  BY <1>1, <1>2, AppendProperties DEF TypeOK
<1>4. DOMAIN sess' = 1..n /\ DOMAIN sess = 1..Len(sess) /\ Len(sess) \in Nat /\ n \in Nat
  BY <1>1, <1>3, Tables, LenProperties, BoundsAssumption
<1>5. ChalKept /\ SessKept
  BY <1>1, <1>3, <1>4 DEF ChalKept, SessKept
<1>6. TypeOK'
  BY <1>1, <1>3, <1>4, BoundsAssumption DEF TypeOK
<1>7. req'[w] = Idle /\ \A v \in Workers \ {w} : req'[v] = req[v]
  BY <1>1 DEF TypeOK
<1>8. Carries(w) /\ Grounded(req[w])
  BY <1>1 DEF IInv, Earning, Carries
<1>9. ~Carries(w)' /\ Lookup(w)'
  BY <1>7 DEF Carries, Lookup, Kind
<1>10. SessionsEarned'
  <2> SUFFICES ASSUME NEW s \in DOMAIN sess'
               PROVE  /\ sess'[s].how = "code" =>
                           /\ chal[sess'[s].code].consumed /\ chal[sess'[s].code].attempts = 1
                           /\ chal[sess'[s].code].device = sess'[s].device
                           /\ \A t \in DOMAIN sess' \ {s} :
                                sess'[t].how # "code" \/ sess'[t].code # sess'[s].code
                      /\ sess'[s].how = "known" =>
                           \E t \in 1..(s - 1) : sess'[t].device = sess'[s].device
                      /\ s <= reset => sess'[s].revoked
    BY <1>1 DEF SessionsEarned
  <2>1. /\ k.device = req[w].device /\ k.how = req[w].how /\ k.code = req[w].code
        /\ reset \in 0..Len(sess)
    BY <1>1 DEF TypeOK
  <2>2. CASE s = n
    BY <1>3, <1>4, <1>8, <2>1, <2>2 DEF Grounded
  <2>3. CASE s \in 1..Len(sess)
    <3>1. /\ sess[s].how = "code" =>
               /\ chal[sess[s].code].consumed /\ chal[sess[s].code].attempts = 1
               /\ chal[sess[s].code].device = sess[s].device
               /\ \A t \in 1..Len(sess) \ {s} :
                    sess[t].how # "code" \/ sess[t].code # sess[s].code
          /\ sess[s].how = "known" => \E t \in 1..(s - 1) : sess[t].device = sess[s].device
          /\ s <= reset => sess[s].revoked
      BY <1>4, <2>3 DEF IInv, SessionsEarned
    <3>2. sess[s].how = "code" /\ k.how = "code" => k.code # sess[s].code
      BY <1>4, <1>8, <2>1, <2>3 DEF Grounded
    <3>3. sess'[s] = sess[s] /\ \A t \in 1..(s - 1) : sess'[t] = sess[t]
      BY <1>3, <1>4, <2>3
    <3>4. \A t \in DOMAIN sess' : t = n \/ t \in 1..Len(sess)
      BY <1>4
    <3>5. QED
      BY <1>3, <3>1, <3>2, <3>3, <3>4
  <2>4. QED
    BY <1>4, <2>2, <2>3
<1>11. Earning'
  <2>1. ASSUME NEW v \in Workers, Carries(v)'
        PROVE  v # w /\ req'[v] = req[v] /\ Carries(v) /\ Grounded(req[v])
    BY <1>7, <1>9, <2>1 DEF Carries, Kind, IInv, Earning
  <2>2. ASSUME NEW v \in Workers, Carries(v)' PROVE Grounded(req[v])'
    <3>1. req[v].how = "code" /\ k.how = "code" => k.code # req[v].code
      BY <1>8, <2>1, <2>2 DEF IInv, Earning
    <3>2. /\ req[v].how = "code" => \A t \in DOMAIN sess' :
                                     sess'[t].how = "code" => sess'[t].code # req[v].code
          /\ req[v].how = "known" => \E t \in DOMAIN sess' : sess'[t].device = req[v].device
      <4>1. Grounded(req[v])
        BY <2>1, <2>2
      <4>2. \A t \in DOMAIN sess' : t = n \/ (t \in DOMAIN sess /\ sess'[t] = sess[t])
        BY <1>3, <1>4
      <4>3. \A t \in DOMAIN sess : t \in DOMAIN sess' /\ sess'[t] = sess[t]
        BY <1>3, <1>4
      <4>4. QED
        BY <1>3, <3>1, <4>1, <4>2, <4>3 DEF Grounded
    <3>3. QED
      BY <1>1, <2>1, <2>2, <3>2 DEF Grounded
  <2>3. \A u, v \in Workers :
          (u # v /\ Carries(u) /\ Carries(v) /\ req[u].how = "code" /\ req[v].how = "code" =>
             req[u].code # req[v].code)'
    BY <2>1 DEF IInv, Earning
  <2>4. ASSUME NEW s \in DOMAIN sess', sess'[s].how = "code" PROVE sess'[s].code \in DOMAIN chal
    <3>1. CASE s = n
      BY <1>3, <1>8, <2>4, <3>1 DEF Grounded
    <3>2. CASE s \in DOMAIN sess
      BY <1>3, <1>4, <2>4, <3>2 DEF IInv, Earning
    <3>3. QED
      BY <1>4, <3>1, <3>2
  <2>5. QED
    BY <1>1, <2>2, <2>3, <2>4 DEF Earning
<1>12. Lookups'
  <2>1. ASSUME NEW v \in Workers \ {w} PROVE Lookup(v)'
    <3>1. Lookup(v) /\ req'[v] = req[v] /\ Kind(v)' = Kind(v)
      BY <1>7 DEF IInv, Lookups, Kind
    <3>2. ASSUME Kind(v) = "insert"
          PROVE  /\ req[v].after <= Len(sess')
                 /\ \A s \in ActiveOn(req[v].device)' : s > req[v].after
      <4>1. req[v].after \in Nat
        BY <1>1, <3>2, Requests, BoundsAssumption
      <4>2. /\ req[v].after <= Len(sess)
            /\ \A s \in ActiveOn(req[v].device) : s > req[v].after
        BY <3>1, <3>2 DEF Lookup
      <4>3. QED
        BY <1>3, <1>4, <3>1, <4>1, <4>2 DEF ActiveOn
    <3>3. QED
      BY <1>1, <3>1, <3>2 DEF Lookup, Pending
  <2>2. QED
    BY <1>9, <2>1 DEF Lookups
<1>13. QED
  BY <1>5, <1>6, <1>10, <1>11, <1>12 DEF IInv

----------------------------------------------------------------------------
LEMMA NextKeeps ==
  ASSUME IInv, Next
  PROVE  IInv' /\ ChalKept /\ SessKept
<1>1. CASE \E w \in Workers :
             \/ \E d \in Devices : StartKnown(w, d) \/ StartUnknown(w, d) \/ StartGoogle(w, d)
             \/ UpdateSession(w) \/ FindNoSession(w) \/ StartReset(w) \/ Abort(w)
  <2>1. Keep
    BY <1>1 DEF StartKnown, StartUnknown, StartGoogle, UpdateSession, FindNoSession,
                StartReset, Abort
  <2>2. ChalKept /\ SessKept
    BY <2>1 DEF Keep, ChalKept, SessKept
  <2>3. IInv'
    BY <1>1, RequestsQuiet
  <2>4. QED
    BY <2>2, <2>3
<1>2. CASE \E w \in Workers : Invalidate(w) \/ CreateChallenge(w) \/ CreateSession(w)
  BY <1>2, InvalidateKeeps, CreateChallengeKeeps, CreateSessionKeeps
<1>3. CASE \E w \in Workers, c \in DOMAIN chal : Verify(w, c)
  BY <1>3, VerifyKeeps
<1>4. CASE \E c \in DOMAIN chal : Expire(c) \/ Wrong(c) \/ Resend(c) \/ ConfirmReset(c)
  BY <1>4, ChallengeSteps, Resets
<1>5. CASE \/ \E s \in DOMAIN sess : RevokeSession(s)
           \/ \E d \in Devices : RevokeAllOthers(d) \/ Logout(d)
  BY <1>5, Revocations
<1>6. QED
  BY <1>1, <1>2, <1>3, <1>4, <1>5 DEF Next

LEMMA StepIInv ==
  ASSUME IInv, [Next]_vars
  PROVE  IInv' /\ ChalKept /\ SessKept
<1>1. CASE Next
  BY <1>1, NextKeeps
<1>2. CASE UNCHANGED vars
  <2>1. chal' = chal /\ sess' = sess /\ reset' = reset /\ req' = req
    BY <1>2 DEF vars
  <2>2. TypeOK'
    BY <2>1 DEF IInv, TypeOK
  <2>3. ChalKept /\ SessKept
    BY <2>1 DEF ChalKept, SessKept
  <2>4. QED
    BY <2>1, <2>2, <2>3, RowsKeep
<1>3. QED
  BY <1>1, <1>2

(* The inductive invariant: beside the types and what is claimed of the    *)
(* sessions, what each request that is to open one has to show for it, and *)
(* what a request's earlier statement found or left (the views of          *)
(* authx/views/login.py and of sessions.py, statement by statement). *)
THEOREM IInvHolds == Spec => []IInv
<1>1. Init => IInv
  BY InitIInv
<1>2. IInv /\ [Next]_vars => IInv'
  BY StepIInv
<1>3. QED
  BY <1>1, <1>2, PTL DEF Spec

(* The rows and the requests stay what the code lets them be; a challenge  *)
(* is for a device unless it is of a password reset, and one that is open  *)
(* has counted no attempt, whatever was tried: _verify_common's count is   *)
(* rolled back with the error it raises. *)
THEOREM TypeCorrect == Spec => []TypeOK
<1>1. IInv => TypeOK
  BY DEF IInv
<1>2. QED
  BY <1>1, IInvHolds, PTL

(* For any devices, requests in flight and bounds, every session was       *)
(* opened by a code of its own that was spent for its device, by Google,   *)
(* or on the strength of an earlier session of the device, and none        *)
(* outlives a password reset that it was there for. *)
THEOREM SessionsAreEarned == Spec => []SessionsEarned
<1>1. IInv => SessionsEarned
  BY DEF IInv
<1>2. QED
  BY <1>1, IInvHolds, PTL

(* A second open code of a device, or a second live session, came after    *)
(* the UPDATE or the lookup of the request that adds to it, never before:  *)
(* only requests that overlap leave two.  And no step takes back that a    *)
(* code was spent or a session revoked. *)
THEOREM TwinsOverlap == Spec => TwinsNeedOverlap
<1> DEFINE A ==
      /\ \A w \in Workers :
           CreateChallenge(w) => \A c \in Pending(req[w].purpose, req[w].device) : c > req[w].after
      /\ \A w \in Workers :
           CreateSession(w) => \A s \in ActiveOn(req[w].device) : s > req[w].after
      /\ \A c \in DOMAIN chal : chal[c].consumed => chal'[c].consumed
      /\ \A s \in DOMAIN sess : sess[s].revoked => sess'[s].revoked
<1>1. IInv /\ [Next]_vars => A
  <2> SUFFICES ASSUME IInv, [Next]_vars PROVE A
    OBVIOUS
  <2>1. ChalKept /\ SessKept
    BY StepIInv
  <2>2. /\ \A c \in DOMAIN chal : chal[c].consumed => chal'[c].consumed
        /\ \A s \in DOMAIN sess : sess[s].revoked => sess'[s].revoked
    BY <2>1 DEF ChalKept, SessKept
  <2>3. ASSUME NEW w \in Workers, CreateChallenge(w)
        PROVE  \A c \in Pending(req[w].purpose, req[w].device) : c > req[w].after
    BY <2>3 DEF CreateChallenge, IInv, Lookups, Lookup
  <2>4. ASSUME NEW w \in Workers, CreateSession(w)
        PROVE  \A s \in ActiveOn(req[w].device) : s > req[w].after
    BY <2>4 DEF CreateSession, IInv, Lookups, Lookup
  <2>5. QED
    BY <2>2, <2>3, <2>4
<1>2. QED
  BY <1>1, IInvHolds, PTL DEF Spec, TwinsNeedOverlap
=============================================================================
