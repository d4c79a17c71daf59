---------------------------- MODULE DispatchFeed ----------------------------
(***************************************************************************)
(* What the dispatcher's browser knows of orders and routes.               *)
(*                                                                         *)
(* The lists come from the server by queries (one for each status filter   *)
(* of the orders, one for the routes) and are kept in the query cache.     *)
(* The server tells the browser of changes by socket messages, sent after  *)
(* the commit and without any order between requests; a message about an   *)
(* order is merged into the cached lists, and every message invalidates    *)
(* the lists it concerns, so that the lists on screen are asked for again. *)
(* A message is lost when the socket is down, and some changes have none.  *)
(*                                                                         *)
(* On the server a plan is written from the row that the request read      *)
(* before it looked at the orders and asked the routing provider, status   *)
(* and version of that row included: plans that overlap get one version.   *)
(*                                                                         *)
(* The query cache itself (TanStack Query) is a library: its part is       *)
(* modelled by what the hooks use of it.                                   *)
(***************************************************************************)
EXTENDS OrderStates, RouteStops, FiniteSets

CONSTANTS
  RouteIds,   \* bound: the routes of the selected date, whose orders Orders are
  Filters,    \* bound: the status filters used, None for no filter
  StartOrders, \* the status of each order at first, None if it is yet to be entered
  StartRoute, \* the routes at first
  Plans,      \* bound: the stops other dispatchers plan
  Others,     \* bound: requests of others about a route that are open at one time
  MaxOthers,  \* bound: changes made by others
  MaxLost,    \* bound: messages sent while the socket is down
  MaxFailed,  \* bound: queries that fail
  MaxActs     \* bound: acts of the dispatcher, coming back to the window included

\* The rows of the table, those not made yet and the deleted ones included.  Two
\* history fields: plan counts the plans written, which tells them apart; raced says
\* that one of them was written over a plan that its request had not read.
RouteRow == [status : {"none", "draft", "planned", "in_progress", "deleted"}, version : Nat,
             points : Seq(Orders), courier : Couriers \cup {None}, plan : Nat, raced : BOOLEAN]

ASSUME DispatchFeedAssumption ==
  /\ IsFiniteSet(Orders)
  /\ None \notin OrderStatus \cup RouteIds \cup Couriers
  /\ Filters \subseteq OrderStatus \cup {None} /\ None \in Filters
  /\ StartOrders \in [Orders -> OrderStatus \cup {None}]
  /\ DOMAIN StartRoute = RouteIds
  /\ \A r \in RouteIds :
       /\ StartRoute[r] \in RouteRow /\ Once(StartRoute[r].points)
       /\ StartRoute[r].plan = StartRoute[r].version /\ ~StartRoute[r].raced
  /\ \A points \in Plans : points \in Seq(Orders) /\ Once(points)
  /\ MaxOthers \in Nat /\ MaxLost \in Nat /\ MaxFailed \in Nat /\ MaxActs \in Nat

VARIABLES
  orders,  \* orders.status of each order
  routes,  \* the routes table
  theirs,  \* what each open request of others about a route is doing
  news,    \* messages under way: about orders, and how many about routes
  query,   \* the query cache
  filter,  \* statusFilter of the interface
  budget   \* how much of the bounds is used

feedVars == << orders, routes, theirs, news, query, filter, budget >>

-----------------------------------------------------------------------------
(* Rows, lists and cache entries.                                          *)

\* A route of the day: its status, version, stops in their order and courier.
Row(s, v, points, c) ==
  [status |-> s, version |-> v, points |-> points, courier |-> c, plan |-> v, raced |-> FALSE]

NoRow == Row("none", 0, << >>, None)

\* Routes that lists return.
ListedRoute(row) == row.status \notin {"none", "deleted"}

ACTIVE_ROUTE_STATUSES == {"draft", "planned", "in_progress"}

\* Lists answer for every order or route whether it is listed and how it looks.
Keys == Filters \cup {"routes"}

NoData == << >>

Listed(f, statuses) ==
  [o \in Orders |-> IF f \in {None, statuses[o]} THEN statuses[o] ELSE None]

\* What the server answers to a query.
ServerView(k) == IF k = "routes" THEN routes ELSE Listed(k, orders)

\* data: the cached list; phase: no request, one asked, one whose answer was read
\* from the tables; failed: the last request failed; invalid: to be asked for again
\* when it is next on screen; gap (history): a change will not reach this list.
Entry0 == [data |-> NoData, phase |-> "idle", answer |-> NoData,
           failed |-> FALSE, invalid |-> FALSE, gap |-> FALSE]

OnScreen(k) == k \in {"routes", filter}

Ask(q) == [q EXCEPT !.phase = "asked", !.answer = NoData, !.gap = FALSE]

\* invalidateQueries: a list on screen is asked for again and a request under way
\* given up, unless it is the first one, whose answer is then taken as it comes.
Invalidated(k, q) ==
  LET marked == [q EXCEPT !.invalid = TRUE]
      joined == [marked EXCEPT !.gap = @ \/ q.phase = "read"]
  IN  IF ~OnScreen(k) \/ (q.phase # "idle" /\ q.data = NoData)
      THEN joined ELSE Ask(marked)

\* setQueryData: the list is replaced and counts as fresh.
SetData(q, data) == [q EXCEPT !.data = data, !.failed = FALSE, !.invalid = FALSE]

\* A change of which the browser is not told escapes every list that was read before.
Missed(k, q) == [q EXCEPT !.gap = @ \/ q.phase # "asked"]

-----------------------------------------------------------------------------
(* The server: changes by others, and the messages they cause.             *)

\* row: what the request is to write, made from the row it has read; taken: the orders
\* that were to become assigned when they were read.
NoWork == [phase |-> "idle", route |-> None, row |-> NoRow, taken |-> {}]

FeedInit ==
  /\ orders = StartOrders
  /\ routes = StartRoute
  /\ theirs = [x \in Others |-> NoWork]
  /\ news   = [orders |-> {}, routes |-> 0]
  /\ filter = None
  /\ query  = [k \in Keys |-> IF k \in {None, "routes"} THEN Ask(Entry0) ELSE Entry0]
  /\ budget = [changes |-> 0, lost |-> 0, failed |-> 0, acts |-> 0]

Spend(what) == budget' = [budget EXCEPT ![what] = @ + 1]

Act == budget.acts < MaxActs /\ Spend("acts")

ClientUnchanged == UNCHANGED << query, filter >>

\* handleOrderStatusChanged: order:status_changed to dispatchers and administrators.
TellOrders(changed, statuses) ==
  [news EXCEPT !.orders = @ \cup {[order |-> o, to |-> statuses[o]] : o \in changed}]

\* handleRouteChange: route:updated; the browser uses nothing of its payload.
TellRoutes == [news EXCEPT !.routes = @ + 1]

OthersMoveOrder(o, to) ==
  /\ budget.changes < MaxOthers
  /\ orders[o] # None /\ canTransition(orders[o], to)
  /\ orders' = [orders EXCEPT ![o] = to]
  /\ news' = TellOrders({o}, orders')
  /\ Spend("changes")
  /\ UNCHANGED << routes, theirs >> /\ ClientUnchanged

\* createOrder: a new order is announced by an alert only, which lists ignore.
OthersEnterOrder(o) ==
  /\ budget.changes < MaxOthers
  /\ orders[o] = None
  /\ orders' = [orders EXCEPT ![o] = "new"]
  /\ query' = [k \in Keys |-> IF k = "routes" THEN query[k] ELSE Missed(k, query[k])]
  /\ Spend("changes")
  /\ UNCHANGED << routes, theirs, news, filter >>

EditableRoute(r) == routes[r].status \in {"draft", "planned"}

\* resolveRoutePlan: the orders exist, are not finished and ride on no other active
\* route.
Plannable(r, stops) ==
  \A o \in stops :
    /\ orders[o] \notin TERMINAL_ORDER_STATUSES \cup {None}
    /\ \A x \in RouteIds \ {r} :
         routes[x].status \in ACTIVE_ROUTE_STATUSES => o \notin Elems(routes[x].points)

\* The orders that a courier gets and that become assigned, as they are read.
TakenBy(stops, courier) ==
  {o \in stops : courier # None /\ shouldTransitionToAssigned(orders[o])}

\* What updateRoute will write, from the row that it has read: the status is kept and
\* the version raised by one.
Planned(read, points, courier) ==
  [read EXCEPT !.points = points, !.courier = courier, !.version = @ + 1]

\* The row as the answer shows it (deleted_at is not looked at): one plan more, written
\* over the plan that was read or over another one.
Numbered(old, row) ==
  [row EXCEPT !.plan = old.plan + 1, !.raced = @ \/ old.raced \/ row.plan # old.plan]

\* The row in the table: a deleted route leaves every list, and nothing brings it back.
Stored(old, row) == IF old.status = "deleted" THEN [row EXCEPT !.status = "deleted"] ELSE row

\* The transaction: the route, its stops, and the orders that the courier gets.
WritePlan(r, row, taken) ==
  LET moved == [o \in Orders |-> IF o \in taken THEN "assigned" ELSE orders[o]]
  IN  /\ routes' = [routes EXCEPT ![r] = Stored(@, Numbered(@, row))]
      /\ orders' = moved
      /\ news'   = [TellOrders(taken, moved) EXCEPT !.routes = @ + 1]

\* The update of a status alone.
WriteStatus(r, to) ==
  /\ routes' = [routes EXCEPT ![r].status = IF @ = "deleted" THEN @ ELSE to]
  /\ news' = TellRoutes
  /\ UNCHANGED orders

\* Another dispatcher's request reads its route and checks it.
OthersRead(x, r, phase, row) ==
  /\ budget.changes < MaxOthers
  /\ theirs[x].phase = "idle"
  /\ theirs' = [theirs EXCEPT ![x] = [NoWork EXCEPT !.phase = phase, !.route = r, !.row = row]]
  /\ Spend("changes")
  /\ UNCHANGED << orders, routes, news >> /\ ClientUnchanged

OthersPlanRoute(x, r, points) ==
  /\ EditableRoute(r)
  /\ OthersRead(x, r, "orders", Planned(routes[r], points, routes[r].courier))

OthersMoveRoute(x, r, to) ==
  /\ << routes[r].status, to >> \in
       { << "draft", "planned" >>, << "planned", "in_progress" >>,
         << "draft", "deleted" >>, << "planned", "deleted" >> }
  /\ OthersRead(x, r, "status", [routes[r] EXCEPT !.status = to])

OthersReadOrders(x) ==
  LET w == theirs[x] IN
  /\ w.phase = "orders" /\ Plannable(w.route, Elems(w.row.points))
  /\ theirs' = [theirs EXCEPT ![x].phase = "plan",
                              ![x].taken = TakenBy(Elems(w.row.points), w.row.courier)]
  /\ UNCHANGED << orders, routes, news, budget >> /\ ClientUnchanged

\* A write, or a refusal or failure before it.
OthersEnd(x) ==
  LET w == theirs[x] IN
  /\ w.phase # "idle"
  /\ \/ w.phase = "plan" /\ WritePlan(w.route, w.row, w.taken)
     \/ w.phase = "status" /\ WriteStatus(w.route, w.row.status)
     \/ UNCHANGED << orders, routes, news >>
  /\ theirs' = [theirs EXCEPT ![x] = NoWork]
  /\ UNCHANGED budget /\ ClientUnchanged

ServerStep ==
  \/ \E o \in Orders : OthersEnterOrder(o) \/ \E to \in OrderStatus : OthersMoveOrder(o, to)
  \/ \E x \in Others :
       \/ \E r \in RouteIds :
            \/ \E points \in Plans : OthersPlanRoute(x, r, points)
            \/ \E to \in {"planned", "in_progress", "deleted"} : OthersMoveRoute(x, r, to)
       \/ OthersReadOrders(x) \/ OthersEnd(x)

-----------------------------------------------------------------------------
(* Messages, in any order, and their loss.                                 *)

ServerUnchanged == UNCHANGED << orders, routes, theirs >>

\* applyOrderStatusChange in every cached list that holds the order; a filtered list
\* then drops what no longer matches, and never gains an order.
Patched(k, q, m) ==
  IF k = "routes" \/ q.data = NoData \/ q.data[m.order] = None THEN q
  ELSE SetData(q, Listed(k, [q.data EXCEPT ![m.order] = m.to]))

\* Mutant: the list is patched and left at that.
PatchOnly(k, q, m) == IF k = "routes" THEN q ELSE Patched(k, q, m)

\* updateOrderListCaches, then invalidateQueries(orders.all).
OrderHeard(k, q, m) == IF k = "routes" THEN q ELSE Invalidated(k, Patched(k, q, m))

HearOrder(m) ==
  /\ m \in news.orders
  /\ news'  = [news EXCEPT !.orders = @ \ {m}]
  /\ query' = [k \in Keys |-> OrderHeard(k, query[k], m)]
  /\ ServerUnchanged /\ UNCHANGED << filter, budget >>

RoutesHeard(q) == Invalidated("routes", q)

HearRoute ==
  /\ news.routes > 0
  /\ news'  = [news EXCEPT !.routes = @ - 1]
  /\ query' = [query EXCEPT !["routes"] = RoutesHeard(@)]
  /\ ServerUnchanged /\ UNCHANGED << filter, budget >>

LoseOrder(m) ==
  /\ m \in news.orders /\ budget.lost < MaxLost
  /\ news'  = [news EXCEPT !.orders = @ \ {m}]
  /\ query' = [k \in Keys |-> IF k = "routes" THEN query[k] ELSE Missed(k, query[k])]
  /\ Spend("lost")
  /\ ServerUnchanged /\ UNCHANGED filter

LoseRoute ==
  /\ news.routes > 0 /\ budget.lost < MaxLost
  /\ news'  = [news EXCEPT !.routes = @ - 1]
  /\ query' = [query EXCEPT !["routes"] = Missed("routes", @)]
  /\ Spend("lost")
  /\ ServerUnchanged /\ UNCHANGED filter

Messages ==
  \/ \E m \in news.orders : HearOrder(m) \/ LoseOrder(m)
  \/ HearRoute \/ LoseRoute

-----------------------------------------------------------------------------
(* Queries.                                                                *)

QueryOnly(k, q) ==
  /\ query' = [query EXCEPT ![k] = q]
  /\ ServerUnchanged /\ UNCHANGED << news, filter >>

\* The server reads the tables for an answer, which then travels.
ReadAnswer(k) ==
  /\ query[k].phase = "asked"
  /\ QueryOnly(k, [query[k] EXCEPT !.phase = "read", !.answer = ServerView(k)])
  /\ UNCHANGED budget

TakeAnswer(k) ==
  /\ query[k].phase = "read"
  /\ QueryOnly(k, [SetData(query[k], query[k].answer) EXCEPT !.phase = "idle", !.answer = NoData])
  /\ UNCHANGED budget

\* The request and its one retry fail: the data stays, marked as failed.
FailAnswer(k) ==
  /\ query[k].phase = "asked" /\ budget.failed < MaxFailed
  /\ QueryOnly(k, [query[k] EXCEPT !.phase = "idle", !.failed = TRUE])
  /\ Spend("failed")

\* The window gets the focus, or the dispatcher asks again after a failure: what is
\* on screen and old or invalid is asked for, if no request is under way.
Refetch(k) ==
  /\ OnScreen(k) /\ query[k].phase = "idle"
  /\ QueryOnly(k, Ask(query[k]))
  /\ Act

\* setStatusFilter: the list of the filter comes on screen; without data, or with
\* data that was invalidated, it is asked for.
SetStatusFilter(f) ==
  /\ f # filter
  /\ filter' = f
  /\ LET q == query[f] IN
     query' = [query EXCEPT ![f] =
                 IF q.phase = "idle" /\ (q.data = NoData \/ q.invalid) THEN Ask(q) ELSE q]
  /\ Act /\ ServerUnchanged /\ UNCHANGED news

Queries ==
  \/ \E k \in Keys : ReadAnswer(k) \/ TakeAnswer(k) \/ FailAnswer(k) \/ Refetch(k)
  \/ \E f \in Filters : SetStatusFilter(f)

-----------------------------------------------------------------------------
(* Properties.                                                             *)

\* What is under way that will still correct list k.
Coming(k) ==
  \/ query[k].phase # "idle"
  \/ IF k = "routes" THEN news.routes > 0 ELSE news.orders # {}

\* A list that differs from the tables is about to be corrected, was not told of a
\* change, has failed to load, or will be asked for when it comes on screen: however
\* messages, answers and merges overtake each other, none of them leaves an old
\* list behind for good (useDispatcherRealtime and the mutation hooks).
ShownExplained ==
  \A k \in Keys :
    LET q == query[k] IN
    \/ q.data = NoData \/ q.data = ServerView(k)
    \/ Coming(k) \/ q.gap \/ q.failed
    \/ q.invalid /\ ~OnScreen(k)

=============================================================================
