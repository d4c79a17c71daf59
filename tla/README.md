# A verification project for logistics-center

The program is a multi-tenant logistics backend (NestJS, Prisma on PostgreSQL, Bull queues on
Redis, socket.io) with a React frontend.  Companies keep orders, dispatchers put them on routes,
couriers deliver them, customers' systems send orders in and get webhooks out, and couriers are
paid by rules.  Nearly every service works the same way: read rows, check what was read, write by
id, at the database's default isolation (READ COMMITTED), with no lock taken by the read and no
version in the `WHERE` of the write.  What the system gets right or wrong under that discipline is
what this project is about.

Paths below are relative to `src/backend/src/modules/` unless they start with `src/`.

## 1. Inventory

| Component | State it keeps | Operations | Talks to |
|---|---|---|---|
| Orders (`orders/`) | `orders`, `order_status_history`, audit rows | create, edit, change status | events; written by routing and imports too |
| Routing (`routing/`) | `routes`, `route_points`, courier of orders | build, edit plan, change status, delete | orders (same transaction), provider (HTTP), events |
| Inbound integrations (`integrations/integrations.service.ts`) | `integration_events` by idempotency key, `external_id_map` | importOrder | orders service |
| Outbound webhooks (`integrations/outbound-webhooks.service.ts`, `webhook-delivery.processor.ts`) | `integration_events` outbound, the Bull queue | create on event, deliver, retry, fail | listens to events; Redis; the customer's endpoint |
| Payments (`compensation/payments.service.ts`, `payment-calculation.processor.ts`) | `payments` with status, stamps, trail | calculate (through a queue), change status | routes, rules, events |
| Payment rules (`compensation/payment-rules.service.ts`) | `payment_rule_versions` | create, new version | read by payments |
| Webhook registrations (`integrations/integrations.service.ts`, two screens) | `integrations` with settings as JSON | register, update, pass an event to those that want it | outbound webhooks |
| Users, couriers, dispatchers (`users/`, `couriers/`, `dispatchers/`) | `users`, `couriers`, `dispatchers` | edit, deactivate, change role, toggle availability, locate | each other's rows |
| Companies and zones (`companies/`, `zones/`) | `companies`, `company_features`, `zones` | edit, switch a feature, archive a zone | provisioning |
| Platform, tenant provisioning (`platform/`, `tenant-provisioning/`) | administrators, companies, impersonation sessions | suspend, impersonate, end, make a company, seed its owner | auth, audit |
| Auth (`auth/`) | none on the server beyond users; tokens are signed | register, login, refresh, socket login, guards | users |
| Tenant isolation (`src/backend/src/prisma/`) | the asynchronous context of a request | run with, without a tenant; rewrite queries | every query |
| Audit (`audit/`), notifications, realtime | `audit_logs`; socket rooms | listen to events | all events, errors swallowed |
| Frontend session (`src/frontend/src/api/http-client.ts`, `store/auth.store.ts`, `api/socket-client.ts`) | the token in storage, `isRefreshing`, `failedQueue`, the user, the socket | intercept 401, refresh, retry, sign in and out | auth |
| Frontend dispatcher (`src/frontend/src/features/dispatcher/`) | query cache, the open column with its unsaved edits | merge socket messages, refetch; edit, save, send | realtime, routing |
| Frontend rules page (`src/frontend/src/features/payments/payment-rules-constructor.tsx`) | a list, a form | fill, type, save, preview | payment rules |
| Frontend ledger of payments (`src/frontend/src/features/payments/payments-ledger.tsx`) | query cache, a filter, the payment in the panel | list, filter, open, approve, dispute | payments |
| Other views, health, throttling, filters | single rows or none | lists and forms | |

What is hard, and what makes each component correct:

- **Orders.** Three kinds of request write the same rows.  The status column, the history and the
  audit log must stay one story; moves must be those of the state machine; events must report what
  was committed.  Route requests lock several rows in one transaction and can deadlock.
- **Routing.** A build reads, checks for conflicts, calls an external provider and only then
  writes.  An order should be on one active route, plans of routes under way should not change,
  and the courier of an order should be that of its route.
- **Inbound.** Retries, races on one external id, edits by hand and failures between any two
  statements.  Answers to one key must not change and all answers about one external id must agree.
- **Outbound.** A row in the database and a job in Redis, written one after the other, under
  crashes, stalled jobs and failing writes.  An event must not be lost or sent without bound.
- **Payments.** A job that may be run twice, and status changes that overtake each other.
- **Payment rules.** Edits that race for the next version, an amount that depends on the order of
  the names, and rules that are checked in one place, offered in another and read in a third.
- **Plans.**  Options of a route outlive the request that set them; a later edit of something else
  must not sort the stops again, and times must rise whatever legs the routing service leaves out.
- **Accounts.**  Roles live in three tables, read before the lock that the writes take.
- **Platform.**  "Not the last administrator" and "no open session" are counted first and written later.
- **Isolation.**  One function rewrites every query; services step out of the context and into others.
- **Forms.**  Filled from an old list, sent whole, merged by the server into what it has read.
- **Session.**  One refresh at a time, requests that wait for it, and sign-outs while it is under way.
- **Ledger of payments.**  Answers to loads and to changes overtake each other; a status must not go back.
- **Cache.**  Messages, refetches and merges overtake each other; unsaved edits live in between.

`PROJECT.json` lists every component with its status, and every hazard of the code with its line.

## 2. Plan

Done, in this order (each module with its run, then the proofs):

1. `OrderStates`, `OrderRows`, `OrderLedger`: orders, with the ledger as abstract specification.
2. `RouteDispatch`: routes over orders; reuses `OrderStates`.
3. `WebhookDelivery`: the outbound protocol.
4. `InboundOrders`: imports and the orders they make.
5. `Payments`, `PaymentsLedger`: calculations and status changes, and the page from which managers make
   the changes; the page EXTENDS the payments and implements them.
6. `PaymentRules`, `RuleForm`: versions of the rules, the amount that a calculation makes of them, the
   page that edits them.
7. `RequestScope`, `Accounts`, `CompanySettings`, `Platform`: one specification in four layers, each
   EXTENDS the one before it; all calls go through the guards and the isolation of the first.
8. `ClientSession`: the browser's half of authentication, with the server's answers.
9. `RouteStops`, `DispatchFeed`, `RouteWorkspace`: lists of stops, the dispatcher's cache, and the screen over it.
10. `RoutePlanning`: the order and the times of the stops of one route, over `RouteStops` too.
11. `WebhookSettings`: registrations, their two screens, and who is told of an event.

What would come next: an abstract specification of webhooks (at most one result, at least one attempt)
and of imports (an idempotent function of the key).  A composition of `InboundOrders` and `WebhookDelivery`
has little to add, since they share no row.

## 3. Modules

### OrderStates
The statuses, their transitions (`orders/order-state-machine.ts`), the final ones and
`shouldTransitionToAssigned` of the routing service: what `OrderRows` and `RouteDispatch` share.

### OrderRows
One variable per table (`status`, `history`, `audit`), the events (`published`), the row locks
(`holder`) and, per request, its plan, the rows it will update in turn and what it has to publish.

| Action | Code |
|---|---|
| `TransitionOrderStatus` | read and check in `transitionOrderStatus` |
| `UpdateOrder` | read in `updateOrder`, which writes the row without a move |
| `SyncRouteOrdersWithCourier` | read of the orders by `resolveRoutePlan`, then the list of moves of `syncRouteOrdersWithCourier` |
| `WriteRow` | one `UPDATE`: waits for the row's lock, keeps it until the end |
| `Commit` | status, history and audit become visible, locks are freed |
| `Publish`, `Reply`, `Finish` | the events after the commit, one by one; any of them may fail |
| `Abort`, `BreakDeadlock` | rollback: validation, time limit, deadlock victim |

History and audit rows are in commit order: `created_at` is the start of the transaction and says
less.  `Start` stands for whatever happened before.  The lock on the route row is not modelled: it
is always taken before those of the orders, so that it adds no deadlock.

### OrderLedger
What the orders promise: a plan is submitted and then applied to all its orders at once, or
discarded.  No locks, no rows in turn, no events.  `OrderRows` implements it (`ImplementsLedger`,
model-checked and proved), which is what allows `RouteDispatch` to take the transaction of a route
as one step.

### RouteDispatch
`routes` with status, points, courier, version; `status` and `courier` of the orders; `req` is the
request of each dispatcher.  `BuildRoute`, `UpdateRoutePlan`, `UpdateRouteStatus`, `DeleteRoute` read
the route; `ReadOrders`, `EnsureOrdersNotAssignedToActiveRoutes` are the later reads; `WriteBuild`,
`WritePlan`, `WriteStatus` the writes; `Fail` ends a request between any of them (checks, provider,
database).  `TransitionOrderStatus` and `UpdateOrder` are the orders moving on meanwhile.  History
variables tell races apart: `req.stale` (somebody wrote what the request relies on since it read it),
`raced` (routes last written by such a request), `loose` (orders given a courier by hand or in a
race).

### WebhookDelivery
`row`, `queue`, `run` are the database, Redis and the processor runs; `sends`, `accepted` are what the
endpoint sees; `struck` counts faults.  Every database write, queue call and request is an action of
its own, and a fault may take the place of each.  A stalled job is given out again while its first
run may go on (Bull's default `maxStalledCount`, external).  Jobs are added without `attempts`, so a
processor that throws drops its job; nothing reads `next_retry_at`.  Delays are abstracted: a delayed
job is a job that somebody takes later.  The branches for a missing row or an invalid payload cannot
be reached and are left out.

### InboundOrders
`event` per idempotency key, `orders`, `map`, and `req` per request with the statement it is at.
The guards against other requests are the unique indexes only: `CreateInboundEvent`, `CreateOrder` and
`InsertExternalIdMap` each have the outcome where the index rejects.  Errors go through `Throws`: into the
catch clause the first time, out of the handler the second.  `CreateByHand` and `EditExternalId` are
dispatchers; both are one step because the index decides the race of their check.  A mapping never
changes, so that looking it up and reading its order is one step.  A repeated request under a key
that is there already changes nothing and is no action.

### Payments
`payment` (status, trail, stamps), `job` and `ghosts` for each calculation, `change` for each status
change in flight.  `CalculatePayment` queues, `Take` and `CalculatePaymentInternal` run, `Complete` answers.
`LoseLock`, `Stall`, `GhostInserts`, `InsertUnheard` are what can go wrong with a job: its lock expires
while it may still be running, it is run once more, the second time it fails; or the insert succeeds
and the run throws afterwards.  `FindPayment` reads and checks, `WriteStatus` writes what it has read one
step further.  A "draft" payment never occurs: the insert says "calculated" at once.

### PaymentsLedger
The pages over `Payments`: `view` is what is on screen (filter, selected payment), `query` the query cache
with an entry for each filter and each payment, `sent` the change a page waits for.  The managers in
`Pages` change payments from their page only (`Send`, then `FindSent` and `WriteSent`, which are the steps of
`Payments` with a sender); the others use the API.  `OpenPage`, `SetStatusFilter`, `SelectPayment`, `Refresh`
and `Focus` ask for entries, `ReadAnswer` is the server reading the table, `TakeAnswer` the answer arriving;
`HandleSuccess` is `onSuccess` of the change.  The query cache is TanStack Query, a library: what the
page relies on is modelled (what is invalidated on screen is asked for again and gives up a request
under way, except the first load of an entry, which is joined; what is not on screen is marked).
`writes`, `heard`, `overtaken` and `late` are history: how often a payment was written, which of its own
changes a page was told of, and which loads had read the table before the change was answered.

The exception `late` in `OwnChangeShown` is what the code does: nothing cancels the loads under way before
the answer is put in (`src/frontend/src/hooks/use-payments.ts:106`), so that a first load, or one that
is off screen, brings the old status back after the page has shown the new one, and as fresh data.
Filters by courier and by period are further keys of the same kind and are left out; so is the list of
couriers that names the rows.

### PaymentRules
`versions` (the rows of `payment_rule_versions` per key), `edit` (each edit in flight, with the row it
has read), `calc` (one calculation: the rules it has in memory and the running totals of the loop;
calculations share nothing but the versions, so that one is enough).  `CreatePaymentRule` inserts
version 1; `FindLatest` is the two reads and the checks of `updatePaymentRule`, `InsertVersion` its insert
under the unique index, `InsertFails` the rejection.  `ReadRules` takes the latest versions in effect,
`AddComponent` is one turn of the loop in `buildPaymentBreakdown`, `RejectMetric` the turn that throws,
`FinishAmount` the amount.  Values are in hundredths of a cent (the form allows four decimals), sums
in cents, distances in whole kilometres: `Cents` is `toFixed(2)` on exact decimals, where the code has
floats, whose ties may go down.  Conditions are one field, `on`, since each kind of rule reads one.
What `Merge` and `Valid` do about an undefined field, null and a kind that no longer fits its conditions
is as in the code; that an edit which sends one bound of the window only is not checked against the
other (`validateEffectiveWindow` sees the form alone) is modelled and harmless: such a rule is never in
effect.

### RuleForm
Open pages over `PaymentRules`: `list` is what a page last loaded, `form` its fields (with `typed`, a history
field of what was typed since it was filled), `sent` its request.  The pages are the `Editors`, their
requests the edits.  `RuleToForm` and `FormToPayload` are the two conversions, `SimulateRule` the preview;
half a minute is the unit of time because the inputs cut seconds.  Two facts of the page that no run
claims otherwise: after a new rule is saved the form still has no id, so that a second click makes the
rule again; and a penalty is previewed (and announced, `src/frontend/src/i18n/ru.json:468`) when the
metric reaches the threshold, where the calculation takes one when it does not
(`buildPenaltyComponent`).  `PreviewTellsPay` states it as it is: page and calculation agree on every kind
of rule, for a guarantee of the period that the form offers, but deduct a penalty in opposite cases; the
metrics that the calculation does not know are left out, since it throws.

### RequestScope, Accounts, CompanySettings, Platform
`RequestScope` has no state: identities, the guards of a route (`Admitted`), and what becomes of each kind of
query under the context it runs in (`applyTenantIsolation`).  `Accounts` has `users`, `courier`, `dispatcher`
(profiles by user), `located`, and `call`, each call in two steps: what it reads and checks, what it
writes.  `CompanySettings` adds `zone`, `feature` and `chore`; `Platform` adds `admin`, `session`, `trail` and `deed`.
A user edit locks the row of the user and then writes profiles it has read before (`syncRoleProfiles` reads
some of them again, which is why `DispatcherFollowsUser` needs no exception); availability is read, checked
and updated by id.  `raced`, `blurred`, `unseated`, `doubled` and the fields `stale` are history: they name the
rows last written by somebody who had been overtaken.  A failure may end every call between its steps
(`Fail`, `FailDeed`).

### ClientSession
`account`, `issued`, `expired` are the server's, `cookie`, `stored`, `user` the browser's, the rest the page's.
A request goes out with the stored token (`Send`), is answered (`Answers`), and handled when the answer
arrives (`Handles`): a 401 starts a refresh or waits for the one under way, a refresh that fails clears
everything and leaves the page, whose scripts run until the new one is there (`Leave`).  Signing out is
local and leaves the cookie behind.  `mixed` and `socket.odd` are history, and the exceptions of `StoreFitsUser`:
`mixed` holds while the stored token came from a refresh during which somebody signed in or out, or one
that ended with nobody signed in (a wrong password after signing out is a 401, and the refresh that
it starts brings back a token of the last user, `http-client.ts:172`); `odd` marks a socket that was opened
with such a token, or that was open when somebody signed in over somebody else, which leaves it alone.
The answer to a refused login is also a 401 and goes the same way: what the login screen shows is then
the failure of a refresh, and the page reloads, although `use-auth-mutations.ts:27` says that the screen
renders the error.  Not a run of its own; `loginError` keeps it in view.

### DispatchFeed and RouteWorkspace
`DispatchFeed`: the tables `orders` and `routes`, messages under way (`news`), the query cache (`query`, one entry for
the routes and one for each filter of the orders), and the steps of the cache: fetch, answer, failure,
invalidation, a merge of a message, a reconnect.  `gap` is history: a change whose message was lost or
which has none.  `RouteWorkspace` adds the screen: picked orders, the selected route, the open `column` with
its local edits, and the dispatcher's requests.  Requests about a route, those of `Others` and the
dispatcher's own, are served in steps as in `RouteDispatch`: the route is read, then the orders, then the
provider is asked, then the plan is written, with the status and the version (plus one) of the row as
it was read.  Two edits that overlap thus give different plans one version, the key of the column stays,
and the plan of one is overwritten by somebody who never saw it; `plan` (which tells plans apart) and `raced`
(one was written over a plan that its request had not read) are history that lets `DraftSound` name this:
versions are never overwritten unseen unless news is under way or was lost, plans unless they `raced`
besides.  The orders and the check for other routes are read in one step here; `RouteDispatch` has them
apart.  `EditsSurviveNews` is about news only: changing the filter may close the column.  React is modelled by what is mounted: `SameColumn` is the
key of the component.  What the code does and the developers' plan or a comment says otherwise is
modelled as the code has it: a stop dropped on another one ends up last, because the drop bubbles
to the column (plan.md:444); a draft column of a new manual route cannot be saved from the screen;
orders that others create reach the lists only through the alert about them.

### RouteStops
What a list of stops is, for the browser and for the service: no order twice (`Once`), the members of a
set in their order (`Only`).  It declares the orders, the couriers and null for both.

### RoutePlanning
One route with `points`, `path`, times (`eta`), date, courier and the `options` it was made by; orders with address
and place; the courier's place; requests (`job`) that read, have the provider plan, and write.  `BuildUpdatedRouteOptions`
merges what an edit sends into what is stored; `Nearest` is one choice of the optimization, `BuildStops` adds
up the legs, of which the service may leave some out (`LegTimes`).  `route.byHand` and `route.seen` are history.
Distances are whole minutes between few places.

### WebhookSettings
`hook` (registrations), per page `list` and `form`, and `sent`, the calls under way: of which page, whether it still
waits for the answer (a reset or another screen forgets it, and the buttons are on again), what the form
was filled from (`base`) and what the service has read (`read`); `news` is the event that `enqueueOutboundWebhooks` passes
from registration to registration.  A registration without event types fills the settings screen's form
with all of them, and any save then turns them on; keys of the settings can be added and changed but
never removed (`mergeSettings`); a secret cannot be cleared; two saves at a time merge into what they
have read and the later one wins, so that a key which comes between the read and the write of
another save is lost.  All this is in the model, and `SavesWhatIsTyped` says field by field what is left: a
save changes what was typed, or what somebody else has changed since the list was loaded or the row
read; a secret changes only when typed.  The URL of the endpoint is left out: it is required by both
screens, so that only the secret decides whether a registration can be told.  A
database error ends the loop over the registrations (`news.broken`), a failing queue does not.

## 4. Runs

| Run | Shows | Instance |
|---|---|---|
| `order_rows` | `RecordsTrue` (`LogsAgree`, `RowsGrounded`), `EventsReportRows`, `RequestsFinish`, `ImplementsLedger` | 2 requests, 2 orders, 1 and 2 moves |
| `routes` | `DoubleBookingNeedsRace`, `ChecksLast`, `CourierFollowsRoute`, `FreshWritesRespectRoute` | 2 dispatchers, 2 routes, 1 courier, 1 order that may go all the way, 1 edit |
| `webhooks` | `OneCarrier`, `SendsCounted`, `OutcomeTold` (`SucceededWasAccepted`, `FailureAnnouncedOnce`), `ResultsLast`, `EventsSettle` | 1 event, 2 runs, 1 retry, 2 faults |
| `inbound` | `AnswersTrue` (`AnswersAgree`, `CreatedOnce`), `MapFollowsOrders`, `ImportsMapped` | 3 keys (1 faulty), 2 external ids, 2 requests, 2 orders |
| `payments` | `RecordsTrue` (`TrailTellsStatus`, `StampsTold`, `PaidOnce`), `OnePaymentEach`, `OwnChangeShown`, `CalculationsAnswered` | 1 calculation (faulty), 3 payments, 2 managers with 1 change each at a time; 1 page, 2 filters, 1 payment on it, 3 acts |
| `payment_rules` | `VersionsChain`, `GuaranteeKept`, `AmountAddsUp`, `PreviewTellsPay`, `OnlyTypedChanges` | 3 rules, 1 of them edited from 2 pages, up to 3 versions, 1 calculation |
| `rules_apply` | **violated**: a rule that was accepted makes the calculation throw | the same |
| `platform` | `ProfilesFollowUser`, `StandsUnlessRaced` (`AdminRemains`, `OneSessionEach`, `StampsFit`), `TenantIsolation`, `KeepsUnlessRaced` (`AvailabilityKept`, `ArchivedStays`, `SeedsOnlyEmpty`) | 3 companies, 4 users, 2 administrators, 2 calls in flight, 2 calls in all |
| `session` | `OneRefresh`, `StoreFitsUser` (`TokenFitsUser`, `SocketFitsUser`), `RequestsSettle` | 2 people, 2 requests at a time, 2 in all, 1 expiry, 1 change |
| `dispatcher_view` | `ShownExplained`, `DraftSound` (`StopsOnce`, `OverwritesUnseenOnly`), `EditsSurviveNews` | 4 orders, 2 routes, 1 change by others, 1 loss, 1 failure, 3 acts |
| `route_planning` | `TimetableSound` (`EtasRise`, `ReturnsToCourier`), `StopsStay` | 3 orders, 1 courier, 2 requests, 2 edits, one of which may ask for or against optimization |
| `webhook_settings` | `EveryoneIsTold`, `SavesWhatIsTyped` | 3 registrations, of which the first is edited or the third made; 2 pages, one on each screen, 2 calls at a time |

A name with others in brackets is their conjunction.

The violation is a finding about the code, quoted with the line it contradicts in `PROJECT.json`: three
files disagree about the metrics of a bonus; the form offers `delivered_orders` first, the backend
stores any, and the calculation knows `completed_orders`.  Four more disagreements have no run of
their own; the exceptions in the properties name them.  They are all one defect, a check and a write
that are not one:

- a request that read an order earlier takes it out of a final status (`RowsGrounded`), although
  the state machine lists no move out of one;
- two builds put one order on two active routes (`DoubleBookingNeedsRace`), although the check says
  that it "is already assigned to active route" (`routing/routing.service.ts:718`);
- an edit that read a planned route writes its points after the route was started
  (`FreshWritesRespectRoute`), although `routing/routing.service.ts:377` says "Route points can be edited
  only while route remains draft or planned";
- an error inside the catch clause of an import leaves its event in processing for good, and every
  retry is told that the request "is already being processed" (`integrations/integrations.service.ts:435`).

Hazards of this kind are real, and the property named by such a hazard does not deny it: it excuses the
write that was overtaken (or the event that a fault has struck) and says what holds around it and for
everything else, so that the excuse is the exact extent of the damage.

The other runs say what remains true: with no race (no stale read, no overtaken request) the checks do
what they say, and what holds regardless of races.

**Bounds.**  `MaxRows`, `Targets`, `MaxEdits`, `RouteIds`, `Edited`, `MaxFaults`, `OrderIds`, `Faulty`, `PaymentIds`, `Shaky`,
`NewRules`, `Patches`, `Requests`, `MaxVersions`, `MaxCalls`, `MaxSends`, `MaxExpiries`, `MaxChanges`, `MaxLost`, `MaxFailed`, `MaxActs`,
`Watched`, `Filters`, `Tour`, `Plans`, `LegTimes`, `Builds`, `Updates`, `Corrections`, `Sightings`, `Others`, `MaxOthers`, `Typings`, `Toggles`, `Screens`, `Calls` and `Subjects` bound the instances and
stand for nothing in the code.  Two actors are enough for a race over one row, and every race in the
code is over one row or over one pair of them; `inbound` needs a third key for a retry after two
imports have met; `order_rows` needs two orders for a deadlock, and two moves of one order for a
stale read; `routes` needs one order only, because conflicts are about one order at a time, but all of
its life; one webhook event is enough since events share only the switch `active`; one retry shows
both sides of the last delay; two faults allow a fault in the recovery from the first; three payments
leave room for a third one of a calculation, which never comes; three rules are a guarantee, one that
comes before and one that comes after, with values that bite and cents that are rounded.  In
`payments` three acts of the page, failures included, let a load, a change and a filter overtake each other,
and pages open when the calculations are done without failures, so that the two halves do not multiply.
In `platform` two calls in all are the two that race; in `session` two requests are the one that refreshes and
the one that waits; in `dispatcher_view` one change by others and three acts let a message, a refetch and an
edit overtake each other, and the other edit overlap the dispatcher's save (a further save over
such a race is beyond the instance and left to the theorem).  The theorems below have no bounds.

**Constraints.**  The instances of `dispatcher_view`, `payment_rules`, `rules_apply` and `webhook_settings` cut their state space further, by states in which the observation ends:
`FewVersions` (routes have three versions at most), `PayDay` (a penalty is typed but not sent, and
pages are closed before the other rules come and are calculated), `FewTyped`, `ListsWait`, `FormsWait`, `LastEvent` (one field is typed into a form, which is filled from a
list that is new then and waits for its answer; one event).  States beyond them are checked but not left.

**Deadlock** is not checked in `inbound`, `payments`, `payment_rules`, `rules_apply`, `platform`, `session`, `dispatcher_view` and
`webhook_settings`: their instances run out of keys, payments, versions, calls or acts.  In the other runs it is.

**Fairness.**
- Orders: `WF` of commit, events and reply: a request that runs keeps running (the time limit of an
  interactive transaction is an allowed `Abort`, never a forced one).  `SF` of `WriteRow`: PostgreSQL
  queues the waiters of a row lock first come, first served, so that a row that becomes free again
  and again is had in the end.  `WF` of `BreakDeadlock`: the deadlock detector.
- Webhooks: `WF` of the steps of a run and of its creator, while no fault strikes; `SF` of taking the job
  of an event: Bull hands out jobs in turn, though workers are busy in between.
- Payments: `WF` of the work on a calculation: workers take jobs, and Bull looks for stalled ones.
- Session: `WF` of answers, of their handling, and of leaving a page: the server answers, scripts run, and
  a navigation that was asked for happens.  Sending, expiry and signing in or out are not forced.
- The other modules: none; nothing is claimed to happen.

## 5. Proofs

All theorems hold for every value of the constants, under the assumptions named in the modules
(`OrderRowsAssumption` and so on).  These say that the null value is none of the real ones (and that
orders are not couriers, zones not metrics), that bounds are of the right type, and that the rows a
run starts with and what is typed or sent by others are of the shape that the forms and the DTOs allow:
a rule that exists at first has been made by the form, a plan names no order twice, a patch of the
settings has the keys the settings have.  Registrations and the orders of a day are finite sets.

| Module | Theorems | Inductive invariant |
|---|---|---|
| `OrderRowsProofs` | `TypeOK`, `RecordsTrue` (`LogsAgree`, `RowsGrounded`) | `Grounded`: the rows, and every plan in flight starts from a status the order really had |
| | `ImplementsLedger` | `PlanOnlyWorking` with `TypeOK`: every step is a step of the ledger or none |
| | `EventsReportRows` | `Reported`: numbers kept between commit and event are of committed rows, distinct, and not published yet |
| `RouteDispatchProofs` | `TypeOK`, `DoubleBookingNeedsRace`, `ChecksLast`, `CourierFollowsRoute` | `Booked`: the first three together, which the fourth rests on |
| | `FreshWritesRespectRoute` | `Respected`: what a request checked when it read the route stays true until somebody writes the route, which overtakes the request |
| `WebhookDeliveryProofs` | `TypeOK`, `OneCarrier`, `SendsCounted`, `OutcomeTold` (`SucceededWasAccepted`, `FailureAnnouncedOnce`), `ResultsLast` | `Custody`: an event that no fault has struck is in one hand, and the row fits the hand; `Heard`: what the row says the endpoint accepted, it did |
| | `SavesWhatIsTyped` | `SavesInv`: a form and a save carry what a list has shown and what was typed since |
| | `EveryoneIsTold` | `PassInv`: those told of an event and those still to be looked at are together all registrations that want it |
| `InboundOrdersProofs` | `TypeOK`, `AnswersTrue` (`AnswersAgree`, `CreatedOnce`), `MapFollowsOrders`, `ImportsMapped`, `AnswersStay` | `Inv`: one import per key, one order per external id, each statement of an import knows what the ones before it left |
| `PaymentsProofs` | `TypeOK`, `RecordsTrue` (`TrailTellsStatus`, `StampsTold`, `PaidOnce`), `TrailGrows`, `OnePaymentEach` | `RowsInv`: what was read stays an honest story, however old; `JobsInv`: payments made, ghosts and the run that may still make one are together one, or two after a stall |
| | `LedgerImplements`, `LedgerTypeOK`, `OwnChangeShown` | every step of the ledger is one of `Payments` or none, so that the theorems above hold under the pages too; `Booked`, `Cached`: an answer that was not overtaken is as new as what its page was told, and so is what is cached unless it is marked as invalid, late or about to be replaced |
| `PaymentRulesProofs` | `TypeOK`, `VersionsChain`, `GuaranteeKept`, `SubtotalSplit`, `AmountAddsUp` | `RowsInv`: an edit holds a row that is there, so that the index leaves it the last one only; `SumInv`: rules have had their turn in order, and a top-up has a guarantee that paid it; `AddsInv`: the running total is the sum of what the rules so far have paid, by induction along their order |
| | `PagesUseService`, `PagesCorrect`: the pages of `RuleForm` use the service and keep what it promises; `OnlyTypedChanges`, `PreviewTellsPay` | `PageInv`: a form, and a request made of it, says what some version of the rule says wherever nothing was typed |
| `PlatformProofs` | the types of all layers, `ProfilesFollowUser`, `StandsUnlessRaced`, `TenantIsolation`, `KeepsUnlessRaced` | `AllInv`, one part per layer: what a call, chore or deed has read and checked still holds when it writes, unless it is marked as overtaken; its scope is the company of its caller |
| `DispatcherProofs` | `SessionTypeOK`, `OneRefresh`, `StoreFitsUser` | `SessionInv`: one refresh; the cookie is the signed-in user's unless a refresh was overtaken, and so is the answer to a refresh during which nobody signed in or out |
| | `ShownExplained` | `FeedInv`: an entry at rest that differs from the tables is about to hear of it, has missed a message, has failed, or is marked as stale and off screen; so is an answer under way |
| | `EditsSurviveNews`, `DraftSound` | `ColumnInv`: the open column stands for the row on screen; `CallsInv`, `StopsInv`: a request carries the version its column had, and no list of stops, cached, local or sent, names an order twice |
| | `TimetableSound`, `StopsStay` | `PlanningInv`: a route's stops are greedy where they were optimized, its times rise from its date, and a request has made its options from the route it has read; the lemmas are about `OrderRoutePoints`, for which an order it has found is a fixed point |

The invariants are needed because the properties speak of what is written, and what is written was
decided earlier: `RowsGrounded` is not inductive without saying what a plan in flight has seen,
`DoubleBookingNeedsRace` not without saying that the result of a check lasts, `OnePaymentEach` not
without counting the runs that have not inserted yet, `StopsStay` not without saying how the stored order
came about, which is several edits ago.

Sums, orders and timetables are recursive functions over data.  What is said of them for every input
rests on induction, which the proofs have from the well-foundedness of `<` (`Smallest`, `Induction`): a set of
numbers with 0 and the successor of each member is all of `Nat`.  Two facts of the code that the proofs
turned on: `orderRoutePoints` takes the first of equally near points (with the last one, `StopsStay` is
false, which is its mutant), and no leg takes less than no time: the mock's take a minute at least, of the
service's this is assumed (`LegTimes`), since the parser takes any finite number.

A proof also tests the model beyond its instances.  `StampsFit` held for two chores and was false for
three: a write that switches nothing leaves the stamps of an overtaken one in place, so that a switch
stays in `blurred` until somebody switches it.

**Only model-checked:** the liveness properties (`RequestsFinish`, `EventsSettle`, `CalculationsAnswered`,
`RequestsSettle`), which are out of the prover's reach.  Every invariant and action property that a passing run
checks is stated by a theorem.  `ImplementsLedger` is proved for the safety part, which is all that the
ledger states.

## 6. Not modelled

- Formatting, validation of payloads, pagination, logging, passwords and signatures.
- Metadata-only edits: they touch nothing that a property mentions.
- Events about payments: errors of listeners are swallowed and nobody waits for them.
- Entries of the audit log that listeners write: lossy by construction, and no state depends on them.
- Health checks, throttling, filters: per request, no state.
- Positions of couriers that messages merge into the list of couriers
  (`src/frontend/src/features/dispatcher/use-dispatcher-realtime.ts:128`): they move the markers on the map.
- Views that list single rows and send single fields (couriers, users, monitoring), and components that no page renders (`RouteBuildControls`, `RouteEditorPanel`, `RouteSidePanel`).
- The first touch of a feature draft on the settings screen (it starts from "off" and an empty
  configuration, whatever the row says), and last-minute notes on accounts: an administrator of a
  company may deactivate the last one, and the query cache is kept over a sign-out.
- An order edited to another address keeps its coordinates, and a place found for an address is
  stored although the address may have changed meanwhile; `RoutePlanning` has both steps, no property is
  about them.
