---------------------------- MODULE HammerSession ----------------------------
(***************************************************************************)
(* The hammer session of one vehicle: the estimate of each inspection      *)
(* item, the total of the estimates and the draft/finalized status.        *)
(* PATCH requests (VehicleHammerView.patch) run in several workers, each   *)
(* in one READ COMMITTED transaction that never locks the session before   *)
(* reading it: it works on the copy it read, and session.save() writes     *)
(* every column of that copy back.                                         *)
(*                                                                         *)
(* A request is split at the session read, at the claim of the session by  *)
(* a new manager, at the read and the save of each line, at the sum of the *)
(* lines and at commit.  Its writes stay in draft until it commits; a row  *)
(* it has written is locked until then.  Estimates are costs; the minutes  *)
(* are summed the same way.  Notes and calculator are columns of the same  *)
(* copy and go the way of the status.                                      *)
(***************************************************************************)
EXTENDS Integers, FiniteSetsExt

CONSTANTS
  Requests,          \* request identities, each used once
  NoRequest,         \* the holder of a free lock
  Managers,          \* users that send the requests
  Items,             \* inspection items of the vehicle
  MaxCost,           \* bound on an estimate
  MaxLines           \* bound on the lines of one request's body

ASSUME RequestsAssumption == NoRequest \notin Requests
ASSUME ItemsAssumption == IsFiniteSet(Items)
ASSUME BoundsAssumption == MaxCost \in Nat /\ MaxLines \in Nat

VARIABLES
  session,           \* the HammerSession row
  lines,             \* est_cost of the HammerLineItem rows, by item
  lock,              \* holder of each written row: the session's and the lines'
  pc,                \* how far each request has come
  copy,              \* the session as each request holds it in memory
  draft,             \* the lines each request has written and not committed
  line,              \* the line of its body each request is at
  body,              \* number of lines each request has gone through
  seen               \* the committed lines each request summed

vars == <<session, lines, lock, pc, copy, draft, line, body, seen>>

NoLine == -1         \* an item without a HammerLineItem
Costs == 0..MaxCost
Row == "session"     \* the session's row among the rows that can be locked
Rows == {Row} \cup Items

HammerSessionStatus == {"draft", "finalized"}
Session == [exists : BOOLEAN, status : HammerSessionStatus, manager : Managers,
            completed : BOOLEAN, total : Nat]

InFlight == {"claim", "lines", "line", "sum", "save"}
Final == {"answered", "refused", "aborted"}
Stage == {"idle"} \cup InFlight \cup Final

(* Before the first PATCH, or after one without lines. *)
Init ==
  /\ \E m \in Managers, exists \in BOOLEAN :
       session = [exists |-> exists, status |-> "draft", manager |-> m,
                  completed |-> FALSE, total |-> 0]
  /\ lines = [i \in Items |-> NoLine]
  /\ lock = [row \in Rows |-> NoRequest]
  /\ pc = [r \in Requests |-> "idle"]
  /\ copy = [r \in Requests |-> session]
  /\ draft = [r \in Requests |-> lines]
  /\ line = [r \in Requests |-> <<>>]
  /\ body = [r \in Requests |-> 0]
  /\ seen = [r \in Requests |-> lines]

----------------------------------------------------------------------------
Goto(r, stage) == pc' = [pc EXCEPT ![r] = stage]
FreeFor(row, r) == lock[row] \in {NoRequest, r}
Lock(row, r) == lock' = [lock EXCEPT ![row] = r]

(* What the lines come to once the writes of a request are laid over them. *)
Over(written, base) == [i \in Items |-> IF written[i] = NoLine THEN base[i] ELSE written[i]]

(* Sum("est_cost") over the lines there are. *)
Total(ls) == MapThenSumSet(LAMBDA i : IF ls[i] = NoLine THEN 0 ELSE ls[i], Items)

(* Variant: the locks of the lines outlive the request. *)
EndLeaky(r, outcome) ==
  /\ Goto(r, outcome)
  /\ lock' = [lock EXCEPT ![Row] = IF @ = r THEN NoRequest ELSE @]
  /\ draft' = [draft EXCEPT ![r] = [i \in Items |-> NoLine]]
  /\ line' = [line EXCEPT ![r] = <<>>]
  /\ UNCHANGED <<copy, body, seen>>

(* The request ends: its row locks go, and what it kept in memory with it. *)
End(r, outcome) ==
  /\ Goto(r, outcome)
  /\ lock' = [row \in Rows |-> IF lock[row] = r THEN NoRequest ELSE lock[row]]
  /\ draft' = [draft EXCEPT ![r] = [i \in Items |-> NoLine]]
  /\ line' = [line EXCEPT ![r] = <<>>]
  /\ UNCHANGED <<copy, body, seen>>

----------------------------------------------------------------------------
(* get_or_create_hammer_session without a session: the insert locks the    *)
(* row and makes every other first request wait for the commit.            *)
CreateSession(r) ==
  /\ pc[r] = "idle"
  /\ ~session.exists
  /\ FreeFor(Row, r)
  /\ \E m \in Managers :
       copy' = [copy EXCEPT ![r] = [session EXCEPT !.exists = TRUE, !.manager = m]]
  /\ Lock(Row, r)
  /\ Goto(r, "lines")
  /\ UNCHANGED <<session, lines, draft, line, body, seen>>

(* get_or_create_hammer_session with one: it is read unlocked, and claimed *)
(* when the user is not its manager.                                       *)
ReadSession(r) ==
  /\ pc[r] = "idle"
  /\ session.exists
  /\ \E m \in Managers :
       /\ copy' = [copy EXCEPT ![r] = [session EXCEPT !.manager = m]]
       /\ Goto(r, IF m = session.manager THEN "lines" ELSE "claim")
  /\ UNCHANGED <<session, lines, lock, draft, line, body, seen>>

(* The save of the new manager locks the row; the copy is not read again.  *)
ClaimSession(r) ==
  /\ pc[r] = "claim"
  /\ FreeFor(Row, r)
  /\ Lock(Row, r)
  /\ Goto(r, "lines")
  /\ UNCHANGED <<session, lines, copy, draft, line, body, seen>>

(* A refused request still commits what it has written: the view turns the *)
(* ValueError into a 422 inside its transaction.                           *)
CommitRefused(r) ==
  /\ session' = IF lock[Row] = r
                THEN [session EXCEPT !.exists = TRUE, !.manager = copy[r].manager]
                ELSE session
  /\ lines' = Over(draft[r], lines)
  /\ End(r, "refused")

(* Variant: the status is not looked at. *)
FinalizedUnchecked(r) == FALSE

(* upsert_hammer_values: "Finalized hammer sessions cannot be edited."     *)
Finalized(r) == copy[r].status = "finalized"

RefuseFinalized(r) ==
  /\ pc[r] = "lines"
  /\ Finalized(r)
  /\ CommitRefused(r)

(* "Invalid inspection item.", met after body[r] good lines. *)
RefuseLine(r) ==
  /\ pc[r] = "lines"
  /\ ~Finalized(r)
  /\ CommitRefused(r)

(* HammerLineItem.objects.get_or_create: the line is looked up; it needs a *)
(* save when it is missing or its estimate differs.                        *)
ReadLine(r) ==
  /\ pc[r] = "lines"
  /\ ~Finalized(r)
  /\ body[r] < MaxLines
  /\ body' = [body EXCEPT ![r] = @ + 1]
  /\ \E i \in Items, c \in Costs :
       IF Over(draft[r], lines)[i] = c
       THEN UNCHANGED <<pc, line>>
       ELSE line' = [line EXCEPT ![r] = <<i, c>>] /\ Goto(r, "line")
  /\ UNCHANGED <<session, lines, lock, copy, draft, seen>>

(* The insert or update of the line, once no other request holds its row.  *)
SaveLine(r) ==
  /\ pc[r] = "line"
  /\ FreeFor(line[r][1], r)
  /\ Lock(line[r][1], r)
  /\ draft' = [draft EXCEPT ![r][line[r][1]] = line[r][2]]
  /\ Goto(r, "lines")
  /\ UNCHANGED <<session, lines, copy, line, body, seen>>

(* The body has no more lines. *)
LinesDone(r) ==
  /\ pc[r] = "lines"
  /\ ~Finalized(r)
  /\ Goto(r, "sum")
  /\ UNCHANGED <<session, lines, lock, copy, draft, line, body, seen>>

(* Variant: the lines are summed without the ones this request writes. *)
SumBeforeLines(r) ==
  /\ pc[r] = "sum"
  /\ copy' = [copy EXCEPT ![r].total = Total(lines)]
  /\ seen' = [seen EXCEPT ![r] = lines]
  /\ Goto(r, "save")
  /\ UNCHANGED <<session, lines, lock, draft, line, body>>

(* session.lines.aggregate: the committed lines and the request's own. *)
SumLines(r) ==
  /\ pc[r] = "sum"
  /\ copy' = [copy EXCEPT ![r].total = Total(Over(draft[r], lines))]
  /\ seen' = [seen EXCEPT ![r] = lines]
  /\ Goto(r, "save")
  /\ UNCHANGED <<session, lines, lock, draft, line, body>>

(* The session as save() writes it back. *)
Saved(r, finalize) ==
  [copy[r] EXCEPT !.status = IF finalize THEN "finalized" ELSE @,
                  !.completed = finalize \/ @]

(* session.save() and commit. *)
SaveSession(r) ==
  /\ pc[r] = "save"
  /\ FreeFor(Row, r)
  /\ \E finalize \in BOOLEAN : session' = Saved(r, finalize)
  /\ lines' = Over(draft[r], lines)
  /\ End(r, "answered")

----------------------------------------------------------------------------
(* The worker dies, or the database rolls the transaction back: as the     *)
(* victim of a deadlock, say. *)
Abort(r) ==
  /\ pc[r] \in InFlight
  /\ End(r, "aborted")
  /\ UNCHANGED <<session, lines>>

(* The row a request waits for while another one holds it. *)
Awaited(r) == IF pc[r] = "line" THEN line[r][1] ELSE Row
Waits(r) == pc[r] \in {"claim", "line", "save"} /\ ~FreeFor(Awaited(r), r)

(* r is one of a ring of requests that wait for each other's rows. *)
Deadlocked(r) ==
  \E ring \in SUBSET Requests :
    /\ r \in ring
    /\ \A q \in ring : Waits(q)
    /\ {lock[Awaited(q)] : q \in ring} = ring

DeadlockVictim(r) == Deadlocked(r) /\ Abort(r)

Finished == (\A r \in Requests : pc[r] \in Final) /\ UNCHANGED vars

Serve(r) ==
  \/ ClaimSession(r) \/ RefuseFinalized(r) \/ RefuseLine(r) \/ ReadLine(r) \/ SaveLine(r)
  \/ LinesDone(r) \/ SumLines(r) \/ SaveSession(r)

Next ==
  \/ \E r \in Requests : CreateSession(r) \/ ReadSession(r) \/ Serve(r) \/ Abort(r)
  \/ Finished

Spec == Init /\ [][Next]_vars

(* A worker goes on with the request it has begun, and the deadlock        *)
(* detector picks a victim.                                                *)
FairSpec == Spec /\ \A r \in Requests : WF_vars(Serve(r)) /\ WF_vars(DeadlockVictim(r))

----------------------------------------------------------------------------
(* The rows hold what their columns allow, completed_at exactly while the  *)
(* session is finalized (late saves put back old copies of both columns),  *)
(* and every request is at a known stage with a session copy, a set of     *)
(* written lines and a body position.                                      *)
TypeOK ==
  /\ session \in Session
  /\ session.completed <=> session.status = "finalized"
  /\ lines \in [Items -> Costs \cup {NoLine}]
  /\ lock \in [Rows -> Requests \cup {NoRequest}]
  /\ pc \in [Requests -> Stage]
  /\ copy \in [Requests -> Session]
  /\ draft \in [Requests -> [Items -> Costs \cup {NoLine}]]
  /\ line \in [Requests -> (Items \X Costs) \cup {<<>>}]
  /\ body \in [Requests -> 0..MaxLines]
  /\ seen \in [Requests -> [Items -> Costs \cup {NoLine}]]

Ends(r) == pc[r] \in InFlight /\ pc'[r] \in Final

(* A finalized session changes its status, its total or a line only under  *)
(* a request that read it before it was finalized; a later one can do no   *)
(* more than make its user the manager.                                    *)
FinalizedEditsAreStale ==
  [][session.status = "finalized"
       /\ <<session'.status, session'.total, lines'>> # <<session.status, session.total, lines>>
     => \E r \in Requests : Ends(r) /\ copy[r].status = "draft"]_vars

Balanced == session.total = Total(lines)

(* The stored total leaves the sum of the lines in two ways only: a body   *)
(* refused at a bad line, whose earlier lines are kept, and an answer      *)
(* whose sum another request's commit has outdated.                        *)
DriftExplained ==
  [][Balanced /\ ~Balanced' =>
       \E r \in Requests :
         /\ Ends(r)
         /\ \/ pc'[r] = "refused" /\ body[r] > 0 /\ copy[r].status = "draft"
            \/ pc'[r] = "answered" /\ seen[r] # lines]_vars

(* Every PATCH is answered, although two bodies may name the same items in *)
(* opposite orders, and one request may hold the session another claims.   *)
RequestsAnswered == \A r \in Requests : pc[r] \in InFlight ~> pc[r] \in Final
=============================================================================
