# TLA+ verification of BuyCon

BuyCon is a multi-tenant Django service for car dealerships: vehicles go through
a pipeline (upload, history report, inspection, hammer, buying, recon), staff
and vendors are invited into dealerships, and subscriptions are billed through
Stripe. This directory holds TLA+ modules of the parts whose correctness depends
on how concurrent requests interleave, TLC configurations that check them, and
TLAPS proofs of every safety and action property the configurations check.

The code has no tests and its stated rules are few: docstrings, error messages
and declared constraints. The properties below are therefore mostly about what
the code does under overlap: what can never happen however requests interleave,
and, where something undesirable can happen, exactly which overlap it takes.

## How the program runs

| process | code | concurrency |
|---|---|---|
| API | `backend/wsgi_api`, `Makefile`: gunicorn, port 5000 | 2 workers, each serves one request at a time |
| webhooks | gunicorn, port 5001 | 2 workers |
| websockets | `backend/asgi_api`, port 5002 | one event loop, `database_sync_to_async` threads |
| tasks | celery | none defined (`jobs/tasks.py` is empty) |

All of them share one PostgreSQL database at READ COMMITTED (Django's default).
`ATOMIC_REQUESTS` is off, so a handler is a transaction only where it says
`transaction.atomic`, and otherwise every statement commits by itself. The
interesting state is the database; the processes keep nothing between requests.
Two conventions follow for every module:

* a handler is split where another request can come between and matter: after
  the read it acts upon, where it takes a row lock it keeps across a possible
  wait, and at commit. Its writes appear together, at commit;
* a row that a transaction has written is locked until it ends. `save()` with
  `update_fields` writes the named columns of the in-memory copy, a plain
  `save()` all of them: a copy that was read before another request's commit
  puts old values back. `get_or_create` is a read, and an insert that waits for
  a concurrent insert under a unique key and then reads the winner's row.

## Inventory

| component | state | operations | talks to | what is hard | what makes it correct |
|---|---|---|---|---|---|
| vehicle pipeline (`inventory/views/vehicle_phase.py`, `vhr.py`, `inventory/services`, `buying`, `recon/views/recon.py`) | `Vehicle.status`, `<phase>_at`, `VehicleHistoryReport`, `HistoryEvent`, `BuyingDecision`, `ReconCase`, `WorkItem`, auto folders | advance, VHR save, PATCH, buying decision, recon close | inspections (items), recon work items | four of the five endpoints read the vehicle without a lock; a WIN and a close lock rows in opposite orders | one work item per item; the ledger is atomic; timestamps agree with the case; the timeline tells where the vehicle has been |
| inventory catalogue (`inventory/views/vehicles.py`, `folders.py`, `vin_scanner.py`) | `Vehicle`, `Folder`, `FolderVehicle` | create, patch, import, folders, VIN lookup | accounts | lookups without locks; an import answers 409 from inside its transaction and catches errors that doom it | a VIN once in the company, every vehicle in a folder, a report of what is stored |
| hammer (`hammer`) | `HammerSession`, `HammerLineItem` | PATCH of lines, totals and finalization | inspections | the session is never locked before it is read; a caught error commits | totals are the sum of the lines; a finalized session is not edited |
| Stripe webhooks (`webhooks`) | `StripeWebhookEvent`, and the mirrored `BillingCustomer`, `CompanySubscription`, `BillingInvoice` | receive, handle one event | Stripe, billing, mail | redelivery, reordering, crash between record and handling, failure inside the transaction | each event once; a mirrored row is a state Stripe had; a failure is recorded |
| billing (`billing`) | `BillingCustomer`, plans | checkout, portal, plan list | Stripe | two first checkouts; an event of an orphan customer | every session is for the company's one customer |
| invites (`invites`) | `DealershipInvite`, `DealershipMembership`, users | create, resend, revoke, accept | accounts, authz limits, mail | every decision is taken on an unlocked read | limits hold; only a live invite is accepted; only a pending one is revoked |
| accounts (`accounts`, `authx/services/bootstrap.py`) | `Company`, `Dealership`, `DealershipMembership` | bootstrap, staff role, permissions and removal, dealership creation, update, activation | authz, authentication | limit, slug and `is_default` races | a company per person, limits, one default |
| recon work items (`recon/views/work_items.py`) | `WorkItem` | vendor assignment | vendors, inventory folders | a vendor's request acts on an unlocked read; assignment raises on every call (`timezone.localdate()` of `datetime.timezone`) | an item lives from open to assigned to done, its vendor and folder come together |
| vendors (`vendors`) | `WorkItem`, attachments, vendor folders | complete, attach | recon | DONE is tested on an unlocked read | an item is completed once, by its vendor |
| authentication (`authx`) | OTP challenges, sessions, accounts | login, signup, Google, verify, resend, refresh, revoke, password reset | mail, accounts | autocommit between every two statements; attempt counts rolled back by the raise that follows | a session is earned; a code works once; a reset leaves no session |
| authorization (`core/authz`) | none | effective permissions, features, limits | all | pure functions | deny by default, overrides win |
| inspections (`inspections`) | `Inspection`, `InspectionItem` and counters | websocket room, attachments, templates | channel layer | counts read and saved in separate statements; saves and broadcasts that swap | counters equal the items; everyone is shown what is stored |
| notifications (`notifications`) | `Notification`, deliveries, settings | send, list, read, settings | channel layer, mail | events leave before the commit; settings are saved whole | what is switched off stays off; nobody is told of what never was |
| audit, dashboards, jobs, backend, core | log rows, settings | middleware, admin pages | | | |

The hazards these parts are exposed to are listed one by one, with the line each
bites at, in `PROJECT.json`.

## Modules

| module | models | kind |
|---|---|---|
| `ReconLedger` | what buying and recon promise about one vehicle, a request being one step | abstract specification |
| `VehiclePipeline` | the vehicle row, its report, timeline, decision, case and work items under overlapping requests | detailed; implements `ReconLedger` |
| `VehiclePipelineProofs` | theorems about `VehiclePipeline` and, by INSTANCE, `HammerSession` | proofs |
| `HammerSession` | one hammer session and its lines | component |
| `SubscriptionMirror` | what the webhook promises of a company's subscription rows, an event being one step | abstract specification |
| `StripeWebhook` | event records, handlers and mirrored rows of one company | detailed, with its environment, Stripe; implements `SubscriptionMirror` |
| `StripeWebhookProofs` | theorems about `StripeWebhook` | proofs |
| `Invites` | invites, memberships and accounts of one dealership | component |
| `InvitesProofs` | theorems about `Invites` | proofs |
| `Inventory` | what the entry of vehicles promises of a company's inventory, a request being one step | abstract specification |
| `Catalogue` | how vehicles enter the inventory of a company: creation, quick-add, CSV import | detailed; implements `Inventory` |
| `WorkItemLife` | what the recon and vendor pages promise of a vehicle's work items | abstract specification |
| `WorkItems` | the work items of one vehicle, assigned and finished by overlapping requests | detailed; implements `WorkItemLife` |
| `WorkItemsProofs` | theorems about `WorkItems` | proofs |
| `Login` | the codes and sessions of one account | component |
| `LoginProofs` | theorems about `Login` | proofs |
| `Accounts` | how people get an account and a company: signup, Google | component |
| `Company` | the dealerships, the plan and the Stripe customer of one company | component |
| `CompanyProofs` | theorems about `Company` and, by INSTANCE, `Accounts` | proofs |
| `InspectionRoom` | the websocket room of one inspection, its items and counters | component |
| `InspectionRoomProofs` | theorems about `InspectionRoom` and, by INSTANCE, `Notifications` | proofs |
| `Notifications` | sends, deliveries, read marks and settings in one dealership | component |
| `FolderNames` | the names of a dealership's manual folders | component |
| `FolderNamesProofs` | theorems about `FolderNames` and, by INSTANCE, `Catalogue` | proofs |
| `MC...` | constants and symmetry of the instances | model checking |

`PROJECT.json` maps every definition to the lines it models.

### VehiclePipeline

Vehicles do not interact in this code, so the module follows one. State and code:

| variable | code |
|---|---|
| `status`, `stamps` | `Vehicle.status`; which of the `<phase>_at` fields are set (their times are abstracted) |
| `links` | the auto folders, named by phase, day and assignee (`Buckets`), that hold the vehicle |
| `report` | the `VehicleHistoryReport` row and its answered keys |
| `history` | the `HistoryEvent` rows, in order, reduced to `from_status` and `to_status` |
| `decision`, `case`, `workItems` | `BuyingDecision`, `ReconCase`, and how many `WorkItem` rows each inspection item has |
| `latest`, `retired` | inspection items; no code of the repository creates them, so the environment does |
| `pc`, `snap`, `toSeed`, `lock` | a request's progress, the row it read, the items a WIN found unseeded, row locks held across a wait |

| request | actions |
|---|---|
| POST phase advance | `Advance` (one step: the row is locked before it is read), `AdvanceRefused` |
| PATCH VHR | `ReadVehicle`, `VhrReport`, `VhrCommit` |
| PATCH vehicle | `ReadVehicle`, `PatchCommit` or `PatchNothing` |
| PATCH buying | `ReadVehicle`, `BuyingDecide`, or `BuyingWin`, `SeedRead`, `WinCommit` |
| PATCH recon status | `ReadVehicle`, `ReconLock` or `ReconRefused`, `ReconCommit` |
| any | `Abort` (the worker dies, or the request is a deadlock's victim) |

`OuterJoinLockable` deserves a word. `VehiclePhaseAdvanceView` uses
`select_for_update()` with `select_related` over the nullable `created_by` and
`updated_by`. PostgreSQL refuses FOR UPDATE on the nullable side of an outer
join, so there an advance always fails (`OuterJoinLockable = FALSE`). The run
uses TRUE, which has strictly more behaviours (`AdvanceRefused` covers the
rest); the theorems hold for both values.

### HammerSession

`VehicleHammerView.patch` and `upsert_hammer_values`. `copy[r]` is the session
in the memory of request r, `draft[r]` the lines it has written and not
committed, `seen[r]` the committed lines under its sum. `CreateSession` and
`ReadSession` are `get_or_create_hammer_session`, `ClaimSession` its save of a
new manager, `ReadLine`/`SaveLine` the loop over the body, `SumLines` the
aggregate, `SaveSession` the final save. A `ValueError` is turned into a 422
inside the view's transaction, so `RefuseLine` and `RefuseFinalized` commit what
was written before. Requests may wait for each other's
rows: over the lines, which a body saves in its own order, or a line against a
claimed session. `Deadlocked` is such a ring and `DeadlockVictim` the `Abort` of
one of it. Only costs are modelled: minutes are summed by the same code.

### StripeWebhook

Stripe is the environment: it changes objects, emits numbered events and
delivers each, in any order, until it is answered (`StripeChange`,
`StripeCheckout`, `StripeOther`). `Receive` is the stored record,
`Redeliver` every later delivery ("Already received"), and the rest is
`process_stripe_event_record`: `LockCustomer` (`upsert_billing_customer` locks
the company's customer row), `ReadRow`, then `Apply`, or `WriteInvoice` and
`SaveCard` for an invoice event that also saves the payment method. `Conflict`
is the one-to-one key of `CompanySubscription`, `Fail` any exception, `Crash`
the death of the worker. `was` remembers every state an object has been in at
Stripe and `asof` which of them a row mirrors; the code has neither.
An object has two columns, the least with which a torn row can be seen.
`SubscriptionMirror` sees the past states of the subscriptions, the statuses of
the records and the rows: it has no handlers, customer row or locks, and an
event has its effect in the step that makes its record processed.

### Invites

One dealership. A request of `invites/services.py` is split after each read it
acts upon: `CountUsed`, `CheckLimit`, `CheckMember`, `Create`; `ReadInvite`,
`Resend` or `Revoke`; `ReadToken`, `Accept`. `Expire` is the passing of 14 days.
`RemoveStaff` and `ChangeRole` are the staff views, which act on the same
membership. Limits are in force (`AUTHZ_ENABLE_SUBSCRIPTION_CHECKS`; the setting
defaults to off, and then the limit property has nothing to say). `granted` is
an auxiliary variable: the role the last accepted invite gave.

### Catalogue

Creation, quick-add and CSV import differ in what they look up, insert and
answer, but everything at stake is a unique key or a row lock: `db` is the set
of committed keys, `held[r]` what the transaction of request r has inserted or
locked. An insert of a held key waits (`Blockers`); one of a committed key
fails, which rolls everything back even where the code catches the error
(`InsertRefused`, `FolderRefused`). Per row of a file (a creation or a quick-add
has one): `LookNew`, `LookKnown`, `SkipRow`, `Refuse`, `UpdateRow`, then
`InsertVehicle`, `InsertFolder` for the scanner, `Touch` for an update that
changes a field, and `Link`; `Done` commits. Only `get_or_create` has a
savepoint, so an import survives a deadlock there and nowhere else
(`DeadlockVictim`). Field values are reduced to whether a row changes anything;
a row that does not parse changes nothing and is left out. `made` and `beside`
are auxiliary: the vehicles a request has committed and the requests that were
in flight with it. `Inventory` sees the committed vehicles and links only: a
request enters any vehicles of its dealership with their links to one manual
folder, or one vehicle with a scan folder of its own, and nothing leaves.

### WorkItems

The items a WIN has created. `LockForAssign` and `Assign` are `AssignVendorView`
(FOR UPDATE, then the vendor, the status, and the vendor's folder of the day),
`ReadForCompletion` and `Complete` the vendor's completion, `ReadForUpload` and
`Upload` its files, which check the item without a lock; `ChangeMember` is the
staff pages taking the vendor's membership away or giving it back. As deployed an
assignment never commits: the query locks over a nullable join, and
`timezone.localdate()` is asked of `datetime.timezone`
(`recon/views/work_items.py:4,169`). `OuterJoinLockable` and `LocaldateBound`
say whether it can; the run sets both, since otherwise nothing is ever assigned.
`WorkItemLife` is the abstract specification.

### Login

One account in good standing. `StartKnown`, `StartUnknown` and `StartGoogle` are
the three ways of a login (a known device needs no code), `StartReset` a password
reset; `Invalidate`, `CreateChallenge`, `Verify`, `Wrong` and `Resend` the codes
of `authx/utils/otp.py`; `UpdateSession`, `FindNoSession` and `CreateSession` the
`update_or_create` of `issue_tokens_and_session`; `RevokeSession`,
`RevokeAllOthers`, `Logout` and `ConfirmReset` what ends sessions. All but the
check of a code and the end of a reset run in autocommit, so each statement is a
step. `Wrong` changes nothing: the count it saves is rolled back by the raise
under it. `how`, `code` and `reset` are auxiliary: what a session was issued for,
and which there were at the last reset.

### Accounts

`StartSignup` to `CreateChallenge` are the autocommit start of a signup, `Verify`
and what follows its completion, `StartGoogle` and `Welcome` the Google login;
both end in `Bootstrap`, `FindSlug` and `CreateCompany`. A Google login writes to
an account that lacks a name, a provider or its activation, and so locks it; for
a "linked" account it locks nothing, and there two logins at once make two
companies. `CloseDealership` ends the owner's live membership: the next Google
login then makes a new company. Two companies that pick one slug at once collide
on its key, and the second is told "Company name already exists.".

`Names` are company names without regard to case, which is how the start of a
signup compares them; that it finds none says nothing of slugs. `Slug` gives the
candidates of a name in their order, and names may have candidates in common:
"Acme" and "Acme!" have all of them, and the slug of "Acme 2" is the second one
of "Acme". Left out are names whose slug is over 217 characters long, so that the
numbers are cut off, and names of which nothing is left in a slug, for which it
is drawn at random.

### Company

`StartCreate`, `CountDealerships` and `CreateDealership` are the creation under
the plan's limit, `StartUpdate`, `SaveRow` and `ClearDefaults` an update whose
copy was read before its transaction and whose `save()` writes it whole and then
clears the others' `is_default`. `ReuseCustomer`, `FindNoCustomer`,
`CreateCustomer`, `SaveCustomer` and `OpenSession` are
`get_or_create_billing_customer` and the checkout or portal session made for it;
`CustomerEvent` is the webhook that puts whichever customer the event names into
the row. `moved` and `checkouts` are auxiliary.

### InspectionRoom

A consumer does one thing at a time: `Connect` (which settles whether it may
edit), `ReadSnapshot` and `SendSnapshot`, `SetStatus` or `SetNote`, `CountOk`,
`CountNeedsAttention` and `SaveCounters`, `Broadcast`, and `RoomEvent` for what
others broadcast. Within a process the database functions run one at a time;
members stand for connections to different processes. The channel layer keeps a
bounded queue per connection and drops what does not fit (`Capacity`, `missed`).
`saved`, `told` and `asof` are auxiliary: the last save of each field, whether it
was also the last to be broadcast, and which save the counters were written for.

### Notifications

A call of `send_notification_to_many` handles its recipients one by one, each in
a transaction: `Gate` (the settings are read, and nothing is made if the in-app
channel is off), `Create` (they are read again and decide the delivery rows),
`DispatchWebsocket` and `DispatchEmail` in any order, `Commit`; `Die` rolls the
one it is at back. `ChannelPreference` is the rule: the global switch, then the
type's override, the category's, and the category's default. `ReadNote` and
`SaveMark` mark one notification read or unread, `MarkAll` and `CommitMarkAll`
all of them, `ReadPreference` and `SavePreference` change the settings.
`wish`, `contested` and `leave` are auxiliary: what the requests asked for, what
overlapping ones may have undone, and which channels were open during a send.

### FolderNames

`FolderCreateView.post`, split after each of its statements: `Look`, `Count`,
`Insert` or `NameTaken`. `CreateScanFolder` is the VIN scanner's folder, which
is a manual one, at its commit. Names are values; `Numbered(b, n)` is
"b (n)" and `StartsWith` is `istartswith`. `plain` and `numbered` remember how
each name came about, and `seen` what a request decided on. A dealership is
assumed: without one the unique constraint has a NULL column and refuses
nothing.

## Runs

| run | instance | what it shows |
|---|---|---|
| `pipeline` | 3 requests, 1 item, 1 report key, 1 folder bucket, vehicles created in `uploaded` or `recon`, PATCH to `uploaded` or `buying` | all the properties of `VehiclePipeline`, the refinement of `ReconLedger`, and termination |
| `hammer` | 2 requests, 2 managers, 2 items, costs 0 and 1, bodies of at most 2 lines | the properties of `HammerSession`, and termination |
| `stripe` | 2 subscriptions, 1 invoice, 2 column values, 3 events | the properties of `StripeWebhook`, the refinement of `SubscriptionMirror`, and every event settled |
| `invites` | 2 people, 2 workers, 2 user seats, 1 vendor seat, 2 invites, 1 resend | the properties of `Invites` |
| `catalogue` | 2 requests out of 23 jobs: creations, quick-adds, imports of 2 rows in each mode, dry runs; 2 dealerships, 2 VINs, 2 minutes | the properties of `Catalogue` and the refinement of `Inventory` |
| `folder_names` | 4 requests, 3 asked names ("Lot", "lot", "Lot (3)"), 1 scan folder, numbers up to 5 | the properties of `FolderNames` |
| `work_items` | 2 items, 2 vendors, 2 workers, 2 completions of an item, 1 file | the properties of `WorkItems` and the refinement of `WorkItemLife` |
| `login` | 2 devices, 2 workers, 2 challenges, 2 sessions, 2 attempts, 1 resend | the properties of `Login` |
| `accounts` | 2 people, 2 company names with the same slugs, 2 workers, 2 challenges, 2 companies | the properties of `Accounts` |
| `company` | 2 workers, 3 dealerships, a plan for one and a plan for two, 2 Stripe customers | the properties of `Company` |
| `room` | 2 connections, 2 items, 2 statuses, 3 saves, queues of 2 | the properties of `InspectionRoom` |
| `notifications` | 2 members, 1 call of 2 kinds to any of them, 3 requests, 3 changes of settings | the properties of `Notifications` |

Properties, by the question they answer:

* **pipeline**. `NoDuplicateWorkItems`: no unique constraint keeps a work item
  from being seeded twice, only that the decision row is written, and so locked,
  before the items are read. `CaseStamped`: the close saves both timestamps as
  read before its lock, and still the one that goes with the case is set.
  `MovesRecordedUnlessStale`, `LossNeedsOverlap`: which overlaps hide a movement
  or lose a VHR answer or a timestamp; a request that runs alone never does.
  `LedgerIsAtomic`: decision, case and work items change as if requests were
  indivisible. `RequestsAnswered`: no request waits for ever.
* **hammer**. `FinalizedEditsAreStale`: only a request that read a draft edits a
  finalized session. `DriftExplained`: the total leaves the sum of the lines by
  exactly two doors. `RequestsAnswered`: bodies that name the same items in
  opposite orders end all the same, one of them as the victim. That late saves of
  old copies never separate `completed_at` from the status is in `TypeOK`, which
  is proved.
* **stripe**. `MirroredOnce`: whatever is redelivered, reordered, overlapped,
  raised or killed, the rows change as `SubscriptionMirror` says. An event has its
  effect at most once, in the commit that says so; the company keeps at most one
  subscription; and a row is always a whole state of it at Stripe, although only
  the changed columns of an unlocked read are saved, because handlers of a
  subscription hold the customer row. `CheckoutNeverRegresses`: a checkout fetches under that lock, so only an
  overtaken subscription event takes a row back. `EventsSettled`. In `TypeOK`:
  a company mirrors one subscription, and an event that failed reads received.
* **invites**. `LimitExceededByOverlap`: the user limit is exceeded only by a
  request whose count was outdated or an accept of a changed invite.
  `OnlyLiveInvitesAccepted`, `InvitedMemberNeedsOverlap`; members were invited
  (in `TypeOK`).
* **catalogue**. `VinTwiceNeedsOverlap`: the VIN is unique in a company only by
  the lookups, so it takes two requests in flight at once to store it twice.
  `SummaryTrueOrNothing`: the summary of an import counts what is stored, or,
  after a collision, nothing is stored at all (and the answer is still 200).
  `InventoryKept`: what a request commits is what `Inventory` lets happen in one
  step. In particular a vehicle comes with its folder, even from an import that
  goes on after a deadlock took a link from it or that answers 409 half way, and a
  scan folder holds one vehicle.
* **folder_names**. `NumberedBesidePlain`: although all folders that start with
  a name are counted, a number is only given beside a folder of that very name.
  `CollisionExplained`: a request answers 500 only if it was overtaken or if a
  user chose a name in the form the view gives; that name is then picked again
  by every retry.
* **work_items**. `ItemsLive`: whatever requests overlap or fail, the items live
  the life of `WorkItemLife`; in particular an assignment and its folder come
  together. `CompletedAsRead`: an item is finished a second time, for somebody
  else, or over newer notes only by a completion that was overtaken after its
  unlocked read.
* **login**. `SessionsEarned`: every session goes back to a code used for it
  alone, to Google, or to an earlier session of the device, and none outlives a
  password reset. `TwinsNeedOverlap`: a device gets a second live session or open
  code only from an overtaken request, and nothing used or revoked comes back.
* **accounts**. `OneCompanyEach`: nobody with an active account is left without a
  company, and a second one is made only for a person whose first came while the
  request ran.
* **company**. `OneDefault`: at no time are there two defaults, however saves
  overlap, and the default is lost only by an update that saves its row without
  the flag: it was taken away, or the row was read before another update made it
  the default.
  `LimitNeedsOverlap`. In `TypeOK`: every Stripe session is for the company's
  customer until an event moves the row.
* **room**. `CountersTrue`: the counters are the items' whenever the last save of
  a status was the last to write them. `SettledView`: who has handled everything
  shows what is stored, unless a message was dropped or a save and a broadcast
  swapped.
* **notifications**. `OptOutHonoured`: a channel that a member has switched off
  carries nothing of a send that began after, whatever the overrides say, unless
  requests for the settings overlapped. In `TypeOK`: a browser is told of a
  notification that is there, uncommitted, or lost with its sender; an e-mail is
  never sent.

Each property has a mutant in `PROJECT.json`: a plausible slip in the code (a
dropped guard, a lock not taken, a swapped write) under which the same run finds
it violated. The mutated forms stand before the definitions they replace,
marked "Variant".

**Why the bounds are enough.** In the pipeline, every race named in the hazards
is between two requests, and a third can only change the row under both: the
lock cycle, a WIN after a close and a VHR save overtaken twice all fit in three
requests. One item suffices since items are seeded independently. In the hammer,
two items and two lines are the least for a deadlock over lines in opposite
orders and for a sum that misses another's line. In Stripe, three events hold a
creation, a change and a checkout of one subscription in any order, or two
subscriptions in conflict. Each worker of the two in `Invites` serves any number
of requests one after the other, so only overlap is bounded by two; `MaxInvites`
and `MaxResends` bound rows and tokens. Two imports of two
rows are the least for opposite orders; an import against a single creation or
quick-add, in the same dealership or the other, is among the jobs. The sets are
chosen by symmetry: dealership d2 imports one order only, and stock is one
vehicle in each dealership. Four folder requests are two names
written alike, the one that was chosen with its number, and the one that then
picks it. In the modules with workers any number of requests follow one another,
and only overlap is bounded by two: every race in them is between a request that
has read and one that writes. Two items, devices, people, vendors or members are
the least for what is stored for one to be shown, revoked, made or lost for
another; two challenges and two sessions for a twin; three dealerships for a
default that moves past a limit; three saves for a counter written late over two
others; three changes of settings for one that comes after an overlap.

**Fairness.** Only the liveness properties, `RequestsAnswered` (pipeline, hammer)
and `EventsSettled`, assume any. `WF(Serve)` /
`WF(Handle)`: a gunicorn worker that has begun a request goes on with it (a
worker that dies is `Abort` / `Crash`). `WF(DeadlockVictim)`: PostgreSQL's
deadlock detector aborts one of a ring of waiting transactions. Without it
`RequestsAnswered` fails, which is how the lock cycle of WIN and close shows.
In the hammer it is needed for the rings over lines; and a request takes at most
`MaxLines` lines, as a body is finite.
`WF(Receive)`: Stripe delivers an event until it is answered. Nothing is assumed
of clients: they need not send a request, revoke an invite, use a code or
reconnect, so the other modules state no liveness.

**Deadlock checking** is on in every run. `VehiclePipeline`, `HammerSession`,
`Catalogue` and `FolderNames` have an explicit `Finished` step for when all
requests have ended. Elsewhere something can always happen (a redelivery, a new
request, a worker's death), so there the check says little: handlers that wait
for ever show in `RequestsAnswered` and `EventsSettled`.

## Where code and claims disagree

Met while modelling. None of them has a run of its own; the properties above say
what holds instead.

| claim | what happens |
|---|---|
| `HistoryEvent`: "Use `from_status` and `to_status` for pipeline movement" | `inventory/views/vehicles.py` PATCHes a status with an event of kind "updated" (`MovesRecordedUnlessStale`) |
| "Finalized hammer sessions cannot be edited." | tested on an unlocked copy that is later written back whole (`FinalizedEditsAreStale`) |
| `WebhookProcessingStatus.FAILED` | saved in the transaction that the raise rolls back; a redelivery is then answered "Already received" (`StripeWebhook.TypeOK`) |
| "Vehicle already exists." (`inventory/views/vin_scanner.py:257`) | the quick-add's folder is named after the minute and unique, and its IntegrityError is answered like the vehicle's |
| "Only pending invites can be revoked." | tested on an unlocked read |
| attempts and lock of an OTP challenge | counted in the transaction that the raise rolls back (`Login.Wrong`) |
| `email_important_only`: "only high/critical notifications should be emailed" | none is: `notifications/channels/email.py:36` passes `html` to `core.email.send_email`, which takes `template_name`; every e-mail delivery is FAILED |
| `NotificationDelivery.metadata`: "Provider response, ... websocket group" | set before `mark_sent`, whose `update_fields` leave it out |
| "unread_count": 0 of mark-all-read | what a send commits beside it is unread |

## Proofs

The theorems state every property that a run checks, liveness apart, for every
value of the constants that satisfies the named assumptions of the module: any
number of requests, workers, people, items, names and rows, not the few of the
instances. They cover all twelve components. Four of these are proved about
in the proof module of another one, through a named instance:

| instance | in | hypotheses of its theorems |
|---|---|---|
| `Hammer == INSTANCE HammerSession` | `VehiclePipelineProofs` | none, but `BoundsAssumption` and `ItemsAssumption` for `HammerTypeCorrect` |
| `People == INSTANCE Accounts` | `CompanyProofs` | `BoundsAssumption`, `SlugAssumption` |
| `Notices == INSTANCE Notifications` | `InspectionRoomProofs` | `CallsAssumption`, `PatchesAssumption`, `NoNoteAssumption` |
| `Entries == INSTANCE Catalogue` | `FolderNamesProofs` | `BoundsAssumption`, `JobsAssumption`, `StockAssumption` |

There the assumptions of the instance are hypotheses of the theorem
(`ASSUME Entries!StockAssumption PROVE Entries!Spec => ...`), so that a theorem
rests on no more than it says; TLC evaluates each of them on the run of the
module itself.

Every invariant proof has one shape: a strengthening (`IInv`, or `HammerInv`,
`PeopleInv`, `NoticeInv`, `EntryInv`, `FilingInv`) whose parts are named, `Init` implies it,
one lemma or case per action that it is preserved, and it implies the property.
What the strengthening adds is mostly the same idea: what a request in flight
has read is still true, or something it can name has overtaken it. An action
property follows from the strengthening and one more case analysis. The type
invariants of `HammerSession` (which also says that a session has `completed_at`
exactly while it is finalized) and `Catalogue` are proved and in no run.

### Vehicle pipeline, folders, work items

`VehiclePipelineProofs` proves, for any number of requests, items, report keys
and folders, any creation and PATCH statuses, and either value of
`OuterJoinLockable`, from the named assumptions of `VehiclePipeline` alone:

| theorem | property | argument |
|---|---|---|
| `TypeCorrect` | `TypeOK` | inductive as it stands |
| `WorkItemsUnique` | `NoDuplicateWorkItems` | needs `SeedInv` |
| `CaseAndStampsAgree` | `CaseStamped` | needs `CaseInv` |
| `LedgerRefinement` | `LedgerIsAtomic` | every step is a step of `ReconLedger` or a stutter, by `SeedInv` and `CaseInv` |
| `LossOnlyByOverlap` | `LossNeedsOverlap` | needs `ReportInv` |
| `TimelineGapsNamed` | `MovesRecordedUnlessStale` | `MoveStep`, action by action |

* `SeedInv`: a request inside a WIN holds the decision row, and the items it
  found without a work item are still without one. Uniqueness is not inductive
  without it: `WinCommit` adds one to every item of `toSeed`, and nothing else
  says these still count zero. Two requests that hold one lock are the same,
  which is why they cannot both be seeding.
* `CaseInv`: a request that is closing finds a case, since no step removes one.
* `ReportInv`: a VHR save that found no report holds the row it is creating, so
  there is still none and nothing of another save can be lost by it.
* The step lemmas have one case per action of `Next`; actions that leave a
  variable group alone are discharged together.

`FolderNamesProofs` proves, for any requests, names and relation "starts with"
that numbered names satisfy, from the named assumptions of `FolderNames`:

| theorem | property | argument |
|---|---|---|
| `TypeCorrect` | `TypeOK` | with the rest of `IInv` |
| `NumbersAreBesidePlain` | `NumberedBesidePlain` | with the rest of `IInv` |
| `CollisionsExplained` | `CollisionExplained` | needs `NumbersCounted` and `Decided` |

`NumbersCounted` says that a number in use is at most the present count of
folders under its name: it was that count plus one when it was picked, and its
folder has joined them. `Decided` says what a request in flight has seen. A
request that is not outdated picks the count plus one, so the name it finds taken
is not one of the numbered ones, and only names asked for remain.

`WorkItemsProofs` proves, for any items, vendors, requests and bounds, and
whether or not assignments can commit, from the named assumptions of `WorkItems`:

| theorem | property | argument |
|---|---|---|
| `TypeCorrect` | `TypeOK` | needs `Started` |
| `LifeRefinement` | `ItemsLive` | every step is a step of `WorkItemLife` or a stutter, by `Started` |
| `CompletionsAsRead` | `CompletedAsRead` | needs `Started` |

`Started` says what a completion in flight relies on after its unlocked read:
its item has had a vendor since and, when it was read, was its vendor's and not
done. Without it a completion could finish an item that no one was given, which
`TypeOK` forbids and `WorkItemLife` has no step for. A completion of an item that
is already done is a stutter of the life: it changes neither status nor vendor.

### Hammer session

`VehiclePipelineProofs`, for any requests and managers, any items (a finite set of them for
`HammerTypeCorrect`) and any bounds on an estimate and a body:

| theorem | property | argument |
|---|---|---|
| `FinalizedStaysUnlessStale` | `FinalizedEditsAreStale` | a request that read a finalized session has no draft lines that its end could commit; no assumptions |
| `DriftHasTwoDoors` | `DriftExplained` | whoever saves a total saves the sum of the lines seen, under its own; no assumptions |
| `HammerTypeCorrect` | `TypeOK` | the copies keep status and `completed_at` together as the row does |

`HammerInv`: a request past the check of the status holds a copy that was a
draft, has written nothing before its first line, and its total is the sum of
the lines it saw with its own over them. That the sum of natural numbers over
the items is one is an induction over finite sets, which the provers cannot
instantiate; it is proved by a smallest counterexample among the subsets of
`Items` instead.

### Stripe webhooks

`StripeWebhookProofs`, for any subscriptions, invoices, columns and events:

| theorem | property | argument |
|---|---|---|
| `TypeCorrect` | `TypeOK` | with `Stages` |
| `NotTorn` | `SubscriptionsNotTorn`, which no run checks: `MirroredOnce` implies it | part of `IInv`, by `Reads` |
| `MirrorRefinement` | `MirroredOnce` | every step is a step of `SubscriptionMirror` or a stutter, from `IInv` |
| `CheckoutsNeverRegress` | `CheckoutNeverRegresses` | needs `Emissions` and `Reads` |

`Stages` says that whoever has read a subscription's row holds the customer row,
so no two handlers are there at once; `Reads`, that the row it read is therefore
still the stored one, and that what a checkout fetched is no older than it.
Saving only the changed columns is safe by these two alone. For the refinement,
`Stages` also gives that an event whose handler commits is still recorded as
received, so it was not applied before; the one-to-one key (`Fits`) keeps the
company at one row; and `Reads` gives that what is saved is a state from Stripe. `Emissions`: what
Stripe told is a state the object had.

### Login

`LoginProofs`, for any devices, workers, bounds and either platform:

| theorem | property | argument |
|---|---|---|
| `TypeCorrect` | `TypeOK` | with `Lookups` |
| `SessionsAreEarned` | `SessionsEarned` | needs `Earning` |
| `TwinsOverlap` | `TwinsNeedOverlap` | needs `Lookups` |

`Earning`: a request that is about to open a session goes by a code that is
spent and carried by no other request or session, or by Google. `Lookups`: what
is open or live for the device of a request that has looked came after its look.

### Companies and people

`CompanyProofs`, for any plans, workers and bounds:

| theorem | property | argument |
|---|---|---|
| `TypeCorrect` | `TypeOK` | with `Sound` |
| `DefaultStaysOne` | `OneDefault` | at most one default, and a save that has yet to clear the others is of a default |
| `LimitHoldsUnlessOverlapped` | `LimitNeedsOverlap` | the count was under the limit when it was taken, and is `Sound` since |
| `PeopleTypeCorrect` | `Accounts.TypeOK` | `PeopleInv` |
| `CompaniesAreEarned` | `Accounts.OneCompanyEach` | `PeopleInv` |

`PeopleInv` says of every request what its bootstrap goes by: no live company of
the person was there when the request asked (so one that is there now came
later), the account it goes by stands, and a Google login that writes an account
is alone with it. A slug is given only when the candidates before it are in use,
by this name or another (`SlugsReached`); that there is a free one is a
pigeonhole argument over the companies, of which each uses one slug. The run has
two names that share all their slugs; the theorem is about any names of which
none has one slug twice (`SlugAssumption`).

### Invites

`InvitesProofs`, for any e-mails, workers and limits:

| theorem | property | argument |
|---|---|---|
| `TypeCorrect` | `TypeOK` | with the rest of `IInv` |
| `LiveInvitesOnly` | `OnlyLiveInvitesAccepted` | an accept that nothing overtook is as it was read |
| `InvitedMembersOverlap` | `InvitedMemberNeedsOverlap` | needs `OnePending` |
| `LimitHoldsUnlessOverlapped` | `LimitExceededByOverlap` | seats and invites are counted, and a step adds at most one |

`OnePending`: an e-mail has at most one pending invite. `Sound`: a
request has passed the checks of its stage by what it then read.

### Inspection room and notifications

`InspectionRoomProofs`, for any connections, statuses and channel capacity and
any finite set of items; the second part for any members, calls and requests:

| theorem | property | argument |
|---|---|---|
| `TypeCorrect` | `TypeOK` | with the types of the queues |
| `CountersAreTrue` | `CountersTrue` | counts are right until a later save of a status (`Sound`) |
| `SettledViews` | `SettledView` | the last queued event about a field brings what is stored (`Followed`) |
| `NoticeTypeCorrect` | `Notifications.TypeOK` | `Kept`, `Heard` |
| `OptOutIsHonoured` | `Notifications.OptOutHonoured` | `Agreed`, `Kept`, `Sends` |

`Followed` is what a test of the room would hardly reach: between a save and the
moment a connection has handled its event stand a broadcast, a queue and other
events about the same field. For notifications, `Agreed`: the stored settings
open no channel that the requests have closed, unless requests met; `Sends`: a
channel that is open now is among those open during the send, and the rows it
has made carry nothing else; `Settles`: a change of settings that nothing
has overlapped holds the row as stored.

### Catalogue

`FolderNamesProofs`, for any requests, jobs and stock:

| theorem | property | argument |
|---|---|---|
| `EntryTypeCorrect` | `TypeOK` | keys of transactions are apart (`KeysApart`) |
| `TwiceNeedsOverlap` | `VinTwiceNeedsOverlap` | needs `Looked` and `Neighbours` |
| `SummariesTrueOrNothing` | `SummaryTrueOrNothing` | needs `Counting` and `Made` |
| `InventoryRefinement` | `InventoryKept` | every step is a step of `Inventory` or a stutter, by `FilingInv` |
| `VehiclesAreFiled` | a consequence: every stored vehicle is in a folder of its dealership, and neither vehicles nor links are lost | invariant of `Inventory`, carried over by the refinement |

`Looked`: every other stored vehicle of a VIN that a request is about to insert
came of a request that was beside it. `Counting`: what a request has inserted is
what it has counted, and the vehicle it is filing. The key lemma is `FilesAlone`:
the folder link of a new vehicle never waits, since only its own transaction
knows the vehicle. A victim of a deadlock thus never skips a row whose
vehicle is inserted and not yet counted, and the summary stays right.

`InventoryKept` needs more than `EntryInv`, since what matters is where a request
files what it inserts. `FilingInv` adds that a committed link has its vehicle and,
in a scan folder, its folder (`Shelved`); and of a request that everything it has
inserted is filed in its one folder, but for the vehicle it is at (`Filing`), and
that a scan has inserted that folder too (`Scanning`). Only a commit changes the
inventory, and commits happen between rows (`OnlyTheseCommit`), where the
exception is gone; a folder that a scan has inserted is in no committed link,
because its key is not committed. `FilesAlone` is needed here again: a victim that
skips a row would otherwise commit a vehicle without its folder.

### What is only model-checked

The liveness properties, `RequestsAnswered` of the pipeline and of the hammer and
`EventsSettled`: they rest on fairness and ENABLED, which are out of the prover's
reach. So is induction over
data; the two sums and minima that need it are proved by smallest
counterexamples, as said above.

## Not modelled

Some parts cannot run as they stand, and their models say what they do once the
named obstacle is gone:

* the websocket process does not start: `inspections/consumers.py` imports
  `inspections.realtime_utils`, which does not exist (the functions are in
  `services/inspection_room.py`), and `authx/channels_auth.py` reads a cookie
  "access_token" where the login sets "auth_at";
* nothing creates inspections or their items, or calls `send_notification`;
* vendor assignment raises on every call, so vendor operations find no item;
* PostgreSQL refuses FOR UPDATE over the nullable side of an outer join, which
  the phase advance, the vendor assignment and the check and resend of a code
  use (`OuterJoinLockable`).

Not modelled, component by component:

* authorization: pure functions of the membership and the subscription; the
  modules take their results. Who may manage whom and permission overrides change
  no state another module reads;
* audit: one log row after the response, which nothing reads, in a middleware
  only `settings_old.py` installs; dashboards: reads, of a name that is not
  there; jobs: empty; backend: configuration; core: base classes and mail;
* seeding (`inspections/seeders.py`, `billing/seed_plans.py`, management
  commands): run by hand, not by the program;
* uploads of inspection attachments (they touch `updated_at` only), listings,
  serializer output, mails, admin pages, `notifications/invitationUtils.py` and
  `utils.py`, which nothing uses;
* permission checks and validation that refuse a request before it reads
  anything (such a request changes nothing), the rotation and blacklist of JWTs;
* `customer.*` and `payment_method.*` webhook events in `StripeWebhook`, which
  write only the customer row: what they do to it is `Company.CustomerEvent`.

## Plan

Every property of the runs but the liveness ones is proved. What is left:

1. an abstract specification for `Invites`, the seats of a dealership, with the
   refinement proved as for `ReconLedger`, `WorkItemLife`, `Inventory` and
   `SubscriptionMirror`;
2. the hazard without a property (`inspections/consumers.py:76`), once something
   in the code or its documents says what should hold;
3. liveness of `Catalogue`, whose requests wait for each other, with TLC, under
   the fairness of the pipeline.
