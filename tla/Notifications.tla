----------------------------- MODULE Notifications -----------------------------
(***************************************************************************)
(* notifications/: what a send does for each recipient, through which      *)
(* channels, and the recipients' settings and read marks, in one           *)
(* dealership.  send_notification is one transaction per recipient and     *)
(* reads the settings twice in it; the events leave for the websocket from *)
(* inside it.  A preference row is taken to be there: get_or_create makes  *)
(* it, with the defaults, at the first read.                               *)
(*                                                                         *)
(* Nothing in the repository calls send_notification yet: its callers are  *)
(* any.  The views and the consumer are in service.                        *)
(***************************************************************************)
CONSTANTS
  Users,             \* the members of the dealership
  Senders,           \* the calls of send_notification_to_many there may be
  Requests,          \* the requests of members there may be
  Calls,             \* what a call may ask for
  Patches,           \* what a request may ask of its user's settings
  NoNote             \* a notification without a row

Channels == {"in_app", "websocket", "email"}
Override == [Channels -> {"on", "off", "unset"}]

NotificationPreference ==
  [in_app : BOOLEAN, websocket : BOOLEAN, email : BOOLEAN, email_important_only : BOOLEAN,
   type_preferences : Override, category_preferences : Override]

(* A call's type settles its category, whose default channels these are,   *)
(* and its priority; email_feature is what the company's plan says. *)
Call ==
  [defaults : SUBSET Channels, important : BOOLEAN, email_feature : BOOLEAN,
   include : SUBSET {"websocket", "email", "push"}, dispatch_now : BOOLEAN]

(* A row with the fields of a patch in place of its own. *)
Patched(row, patch) ==
  [f \in {"in_app", "websocket", "email", "email_important_only", "type_preferences",
         "category_preferences"} |-> IF f \in DOMAIN patch THEN patch[f] ELSE row[f]]

Status == {"pending", "sent", "failed", "skipped"}
Notification ==
  [is_read : BOOLEAN,
   deliveries : UNION {[cs -> Status] : cs \in SUBSET {"in_app", "websocket", "email", "push"}}]

ASSUME CallsAssumption == Calls \subseteq Call
ASSUME PatchesAssumption ==
  \A p \in Patches, row \in NotificationPreference : Patched(row, p) \in NotificationPreference
ASSUME NoNoteAssumption == NoNote \notin Notification

VARIABLES
  prefs,             \* the NotificationPreference rows
  note,              \* the Notification rows and their deliveries
  send,              \* what each call is doing
  req,               \* what each request is doing
  connected,         \* whose browser holds a websocket
  told,              \* the notifications each browser was told of
  wish,              \* each setting as the last request that named it asked
  contested,         \* the settings that overlapping requests may have undone
  leave              \* the channels open at some time of a notification's send

vars == <<prefs, note, send, req, connected, told, wish, contested, leave>>
ghosts == <<wish, contested, leave>>

Notes == Senders \X Users
Unset == [c \in Channels |-> "unset"]
Defaults ==
  [in_app |-> TRUE, websocket |-> TRUE, email |-> TRUE, email_important_only |-> TRUE,
   type_preferences |-> Unset, category_preferences |-> Unset]

Init ==
  /\ prefs = [u \in Users |-> Defaults]
  /\ note = [n \in Notes |-> NoNote]
  /\ send = [s \in Senders |-> [kind |-> "new"]]
  /\ req = [r \in Requests |-> [kind |-> "new"]]
  /\ connected = [u \in Users |-> FALSE]
  /\ told = [u \in Users |-> {}]
  /\ wish = prefs
  /\ contested = [u \in Users |-> {}]
  /\ leave = [n \in Notes |-> {}]

Continue(s, x) == send' = [send EXCEPT ![s] = x]
Become(r, x) == req' = [req EXCEPT ![r] = x]

----------------------------------------------------------------------------
(* Variant: the overrides are asked before the global switch. *)
ChannelOverSwitch(p, call, c) ==
  CASE p.type_preferences[c] # "unset" -> p.type_preferences[c] = "on"
    [] OTHER -> p[c] /\ c \in call.defaults

(* get_channel_preference *)
ChannelPreference(p, call, c) ==
  /\ p[c]
  /\ CASE p.type_preferences[c] # "unset" -> p.type_preferences[c] = "on"
       [] p.category_preferences[c] # "unset" -> p.category_preferences[c] = "on"
       [] OTHER -> c \in call.defaults

ShouldSend(p, call, c) ==
  /\ ChannelPreference(p, call, c)
  /\ c = "email" => (p.email_important_only => call.important) /\ call.email_feature

(* create_delivery_rows_for_notification: push is never implemented. *)
Rows(p, call) ==
  [c \in {"in_app"} \cup call.include |->
     CASE c = "in_app" -> "sent"
       [] c = "push" -> "skipped"
       [] OTHER -> IF ShouldSend(p, call, c) THEN "pending" ELSE "skipped"]

Start(s, call, to) ==
  /\ send[s].kind = "new"
  /\ Continue(s, [kind |-> "between", call |-> call, todo |-> to])
  /\ UNCHANGED <<prefs, note, req, connected, told, ghosts>>

Open(u, w, x) == {c \in Channels : w[u][c] \/ c \in x[u]}

(* send_notification up to its return of None, or to the insert. *)
Gate(s, u) ==
  LET x == send[s] IN
  /\ x.kind = "between"
  /\ u \in x.todo
  /\ leave' = [leave EXCEPT ![<<s, u>>] = Open(u, wish, contested)]
  /\ IF ShouldSend(prefs[u], x.call, "in_app")
     THEN Continue(s, [kind |-> "create", call |-> x.call, todo |-> x.todo \ {u}, to |-> u])
     ELSE Continue(s, [x EXCEPT !.todo = @ \ {u}])
  /\ UNCHANGED <<prefs, note, req, connected, told, wish, contested>>

(* The rows are made under the settings as they are now, and are not yet   *)
(* visible. *)
Create(s) ==
  LET x == send[s] IN
  /\ x.kind = "create"
  /\ Continue(s, [kind |-> "dispatch", call |-> x.call, todo |-> x.todo, to |-> x.to,
                  rows |-> Rows(prefs[x.to], x.call)])
  /\ UNCHANGED <<prefs, note, req, connected, told, ghosts>>

Pending(s) == {c \in DOMAIN send[s].rows : send[s].rows[c] = "pending"}

(* dispatch_delivery of the websocket: the layer takes the event or raises;*)
(* the consumer passes it on, if there is one. *)
DispatchWebsocket(s) ==
  LET x == send[s] IN
  /\ x.kind = "dispatch" /\ x.call.dispatch_now /\ "websocket" \in Pending(s)
  /\ \/ /\ told' = [told EXCEPT ![x.to] = IF connected[x.to] THEN @ \cup {<<s, x.to>>} ELSE @]
        /\ Continue(s, [x EXCEPT !.rows["websocket"] = "sent"])
     \/ /\ Continue(s, [x EXCEPT !.rows["websocket"] = "failed"])
        /\ told' = told
  /\ UNCHANGED <<prefs, note, req, connected, ghosts>>

(* dispatch_delivery of the e-mail: send_email_delivery passes an argument *)
(* that core.email.send_email does not have, so that the call raises.      *)
(* (Every account has an address.) *)
DispatchEmail(s) ==
  LET x == send[s] IN
  /\ x.kind = "dispatch" /\ x.call.dispatch_now /\ "email" \in Pending(s)
  /\ Continue(s, [x EXCEPT !.rows["email"] = "failed"])
  /\ UNCHANGED <<prefs, note, req, connected, told, ghosts>>

(* Variant: a delivery that failed undoes the notification. *)
RowUnlessFailed(x) ==
  IF \E c \in DOMAIN x.rows : x.rows[c] = "failed" THEN NoNote
  ELSE [is_read |-> FALSE, deliveries |-> x.rows]

RowOf(x) == [is_read |-> FALSE, deliveries |-> x.rows]

Commit(s) ==
  LET x == send[s] IN
  /\ x.kind = "dispatch"
  /\ x.call.dispatch_now => Pending(s) = {}
  /\ note' = [note EXCEPT ![<<s, x.to>>] = RowOf(x)]
  /\ Continue(s, [kind |-> "between", call |-> x.call, todo |-> x.todo])
  /\ UNCHANGED <<prefs, req, connected, told, ghosts>>

(* The process dies or loses the database: the transaction is rolled back, *)
(* and the recipients to come get nothing. *)
Die(s) ==
  /\ send[s].kind \in {"between", "create", "dispatch"}
  /\ Continue(s, [kind |-> "died"])
  /\ UNCHANGED <<prefs, note, req, connected, told, ghosts>>

----------------------------------------------------------------------------
(* NotificationConsumer: who disconnects forgets what it was told. *)
Connect(u) ==
  /\ ~connected[u]
  /\ connected' = [connected EXCEPT ![u] = TRUE]
  /\ UNCHANGED <<prefs, note, send, req, told, ghosts>>

Disconnect(u) ==
  /\ connected[u]
  /\ connected' = [connected EXCEPT ![u] = FALSE]
  /\ told' = [told EXCEPT ![u] = {}]
  /\ UNCHANGED <<prefs, note, send, req, ghosts>>

(* Rows that a mark-all of its user has updated and not committed. *)
Locked(n) == \E r \in Requests : req[r].kind = "marked_all" /\ n \in req[r].rows

Unread(u) == {n \in Notes : n[2] = u /\ note[n] # NoNote /\ ~note[n].is_read}

(* Mark-read and mark-unread: the row is read, and saved unless the copy   *)
(* already is as asked.  A browser asks for what it was told or what a     *)
(* list showed. *)
ReadNote(r, n, asked) ==
  /\ req[r].kind = "new"
  /\ note[n] # NoNote \/ n \in told[n[2]]
  /\ Become(r, IF note[n] = NoNote THEN [kind |-> "not_found"]
               ELSE IF note[n].is_read = asked THEN [kind |-> "end"]
               ELSE [kind |-> "mark", note |-> n, asked |-> asked])
  /\ UNCHANGED <<prefs, note, send, connected, told, ghosts>>

SaveMark(r) ==
  /\ req[r].kind = "mark"
  /\ ~Locked(req[r].note)
  /\ note' = [note EXCEPT ![req[r].note].is_read = req[r].asked]
  /\ Become(r, [kind |-> "end"])
  /\ UNCHANGED <<prefs, send, connected, told, ghosts>>

(* Mark-all answers that nothing is unread, whatever was sent meanwhile. *)
MarkAll(r, u) ==
  /\ req[r].kind = "new"
  /\ \A n \in Unread(u) : ~Locked(n)
  /\ Become(r, [kind |-> "marked_all", rows |-> Unread(u)])
  /\ UNCHANGED <<prefs, note, send, connected, told, ghosts>>

CommitMarkAll(r) ==
  /\ req[r].kind = "marked_all"
  /\ note' = [n \in Notes |-> IF n \in req[r].rows THEN [note[n] EXCEPT !.is_read = TRUE]
                              ELSE note[n]]
  /\ Become(r, [kind |-> "end"])
  /\ UNCHANGED <<prefs, send, connected, told, ghosts>>

(* NotificationPreferenceView.patch: the row is read, and saved whole. *)
ReadPreference(r, u, patch) ==
  /\ req[r].kind = "new"
  /\ LET others == {q \in Requests : req[q].kind = "patch" /\ req[q].user = u} IN
     req' = [q \in Requests |->
               IF q = r THEN [kind |-> "patch", user |-> u, patch |-> patch, copy |-> prefs[u],
                              overlaps |-> others # {}]
               ELSE IF q \in others THEN [req[q] EXCEPT !.overlaps = TRUE] ELSE req[q]]
  /\ UNCHANGED <<prefs, note, send, connected, told, ghosts>>

SavePreference(r) ==
  LET x == req[r]
      u == x.user
  IN
  /\ x.kind = "patch"
  /\ prefs' = [prefs EXCEPT ![u] = Patched(x.copy, x.patch)]
  /\ wish' = [wish EXCEPT ![u] = Patched(@, x.patch)]
  /\ contested' =
       [contested EXCEPT ![u] =
          (@ \ DOMAIN x.patch) \cup (IF x.overlaps THEN Channels \ DOMAIN x.patch ELSE {})]
  /\ leave' = [n \in Notes |->
                 IF /\ n[2] = u
                    /\ send[n[1]].kind \in {"create", "dispatch"} /\ send[n[1]].to = u
                 THEN leave[n] \cup Open(u, wish', contested') ELSE leave[n]]
  /\ Become(r, [kind |-> "end"])
  /\ UNCHANGED <<note, send, connected, told>>

Next ==
  \/ \E s \in Senders :
       \/ \E call \in Calls, to \in SUBSET Users : Start(s, call, to)
       \/ \E u \in Users : Gate(s, u)
       \/ Create(s) \/ DispatchWebsocket(s) \/ DispatchEmail(s) \/ Commit(s) \/ Die(s)
  \/ \E u \in Users : Connect(u) \/ Disconnect(u)
  \/ \E r \in Requests :
       \/ \E n \in Notes, asked \in BOOLEAN : ReadNote(r, n, asked)
       \/ SaveMark(r)
       \/ \E u \in Users : MarkAll(r, u)
       \/ CommitMarkAll(r)
       \/ \E u \in Users, patch \in Patches : ReadPreference(r, u, patch)
       \/ SavePreference(r)

Spec == Init /\ [][Next]_vars

----------------------------------------------------------------------------
(* The kinds of the calls and requests, and the rows.  An e-mail is never  *)
(* sent.  A browser is told of a notification that is there, unless its    *)
(* send has yet to commit (and a request for it answers 404) or has died.  *)
TypeOK ==
  /\ prefs \in [Users -> NotificationPreference]
  /\ wish \in [Users -> NotificationPreference]
  /\ contested \in [Users -> SUBSET Channels]
  /\ leave \in [Notes -> SUBSET Channels]
  /\ connected \in [Users -> BOOLEAN]
  /\ told \in [Users -> SUBSET Notes]
  /\ \A s \in Senders : send[s].kind \in {"new", "between", "create", "dispatch", "died"}
  /\ \A r \in Requests :
       req[r].kind \in {"new", "mark", "marked_all", "patch", "not_found", "end"}
  /\ \A n \in Notes :
       note[n] # NoNote =>
         /\ note[n] \in Notification
         /\ "email" \in DOMAIN note[n].deliveries => note[n].deliveries["email"] # "sent"
  /\ \A u \in Users : \A n \in told[u] :
       \/ note[n] # NoNote
       \/ send[n[1]].kind = "died"
       \/ send[n[1]].kind = "dispatch" /\ send[n[1]].to = u

(* The channels a notification was or is to be sent through. *)
Through(n) ==
  IF note[n] # NoNote THEN {c \in Channels \cap DOMAIN note[n].deliveries :
                              note[n].deliveries[c] # "skipped"}
  ELSE {}

(* A channel that a member has switched off carries no notification whose  *)
(* send began after, whatever the finer settings say: unless requests for  *)
(* the member's settings overlapped, of which each saves the whole row.    *)
OptOutHonoured == \A n \in Notes : Through(n) \subseteq leave[n]
=============================================================================
