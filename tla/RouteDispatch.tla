--------------------------- MODULE RouteDispatch ---------------------------
(***************************************************************************)
(* Routes under concurrent dispatchers (RoutingService).                   *)
(*                                                                         *)
(* A request that builds or edits a route works in steps that no           *)
(* transaction joins: it reads the route, reads the orders, looks for      *)
(* other active routes with the same orders, asks the routing provider     *)
(* and only then writes the route, its points and the orders' courier in   *)
(* one transaction, from what it has read.  Status changes and deletions   *)
(* read the route and write it in a second step.  Meanwhile other requests *)
(* do the same, and orders move on.                                        *)
(*                                                                         *)
(* Three history variables say where such a race happened: the field stale *)
(* of a request, raced for a route and loose for an order.                 *)
(***************************************************************************)
EXTENDS OrderStates, FiniteSets

CONSTANTS
  Orders,   \* the orders of one company
  Couriers, \* its couriers
  Located,  \* the couriers with a known location
  None,     \* no courier, no route
  RouteIds, \* bound: routes that can be built
  Planners, \* the route requests that can be in flight at the same time
  Start,    \* the status of each order when the observation begins
  Targets,  \* bound: the statuses orders move to by themselves
  Edited,   \* bound: the orders whose courier is set by hand
  MaxEdits  \* bound: plan edits per route

ASSUME RouteDispatchAssumption ==
  /\ Located \subseteq Couriers
  /\ None \notin Couriers \cup RouteIds
  /\ Start \in [Orders -> OrderStatus]
  /\ Targets \subseteq OrderStatus /\ Edited \subseteq Orders
  /\ MaxEdits \in [RouteIds -> Nat]

VARIABLES
  routes,  \* the routes table with the points of each route
  status,  \* orders.status
  courier, \* orders.assigned_courier_id
  req,     \* what each route request is doing
  raced,   \* the routes last planned, or later moved, by a request that was overtaken
  loose    \* the orders whose courier was last set by hand or by such a request

vars == << routes, status, courier, req, raced, loose >>

-----------------------------------------------------------------------------
(* The route state machine and what a route is.                            *)

\* "none" is a route that was not built yet.
RouteStatus == { "none", "draft", "planned", "in_progress", "completed", "cancelled" }

ALLOWED_ROUTE_TRANSITIONS ==
  [ s \in RouteStatus |->
      CASE s = "draft"       -> {"planned", "cancelled"}
        [] s = "planned"     -> {"in_progress", "cancelled"}
        [] s = "in_progress" -> {"completed", "cancelled"}
        [] OTHER             -> {} ]

canTransitionRoute(from, to) == to \in ALLOWED_ROUTE_TRANSITIONS[from]

\* Mutant: a draft does not hold its orders yet.
ACTIVE_WITHOUT_DRAFTS == { "planned", "in_progress" }

ACTIVE_ROUTE_STATUSES == { "draft", "planned", "in_progress" }

\* Mutant: a route under way is still open to edits.
editableUnderWay(s) == s \in { "draft", "planned", "in_progress" }

isRouteEditableStatus(s) == s \in { "draft", "planned" }

Courier == Couriers \cup {None}

\* points: the orders of the route; their sequence is the provider's affair.
\* edits counts the plan writes after the first (a history field).
Route == [status : RouteStatus, deleted : BOOLEAN, points : SUBSET Orders,
          courier : Courier, version : Nat, edits : Nat]

NoRoute == [status |-> "none", deleted |-> FALSE, points |-> {}, courier |-> None,
            version |-> 0, edits |-> 0]

\* The routes a conflict check looks at.
Active(r) == routes[r].status \in ACTIVE_ROUTE_STATUSES /\ ~routes[r].deleted

\* Rows that findFirst returns: built and not deleted.
Visible(r) == routes[r].status # "none" /\ ~routes[r].deleted

-----------------------------------------------------------------------------
(* Requests.  version is the route's version as it was read, assigns the   *)
(* orders that were to become assigned when they were read; stale          *)
(* (history) says that another request has since written this route or     *)
(* planned one of these orders.                                            *)

Request ==
  [ pc : {"idle", "orders", "conflicts", "write"},
    op : {"none", "build", "plan", "status", "delete"},
    route : RouteIds \cup {None}, version : Nat, target : RouteStatus,
    orders : SUBSET Orders, courier : Courier,
    assigns : SUBSET Orders, stale : BOOLEAN ]

\* A request names a route unless it is about to build one; only plans read orders.
Consistent(q) ==
  /\ q.route = None <=> q.op \in {"none", "build"}
  /\ q.pc \in {"orders", "conflicts"} => q.op \in {"build", "plan"}

Idle == [ pc |-> "idle", op |-> "none", route |-> None, version |-> 0, target |-> "none",
          orders |-> {}, courier |-> None, assigns |-> {}, stale |-> FALSE ]

Init ==
  /\ routes  = [r \in RouteIds |-> NoRoute]
  /\ status  = Start
  /\ courier = [o \in Orders |-> None]
  /\ req     = [p \in Planners |-> Idle]
  /\ raced   = {}
  /\ loose   = {}

Reads(p) == UNCHANGED << routes, status, courier, raced, loose >>

\* Enough points for the provider: two orders, or one and the courier's location.
EnoughPoints(orders, c) ==
  orders # {} /\ (Cardinality(orders) > 1 \/ c \in Located)

Keeps(row, target) == target = row.status \/ canTransitionRoute(row.status, target)

\* buildRoute, up to the first read.
BuildRoute(p, orders, c) ==
  /\ req[p].pc = "idle"
  /\ \E r \in RouteIds : routes[r].status = "none"
  /\ EnoughPoints(orders, c)
  /\ req' = [req EXCEPT ![p] =
               [Idle EXCEPT !.pc = "orders", !.op = "build", !.target = "draft",
                            !.orders = orders, !.courier = c]]
  /\ Reads(p)

\* updateRoute with plan changes: read the route, check that it is editable and
\* that it stays so.
UpdateRoutePlan(p, r, orders, c, target) ==
  LET row == routes[r] IN
  /\ req[p].pc = "idle"
  /\ Visible(r)
  /\ row.edits < MaxEdits[r]
  /\ isRouteEditableStatus(row.status)
  /\ isRouteEditableStatus(target) /\ Keeps(row, target)
  /\ EnoughPoints(orders, c)
  /\ req' = [req EXCEPT ![p] =
               [Idle EXCEPT !.pc = "orders", !.op = "plan", !.route = r, !.version = row.version,
                            !.target = target, !.orders = orders, !.courier = c]]
  /\ Reads(p)

\* updateRoute without plan changes: read the route, check the transition.
UpdateRouteStatus(p, r, target) ==
  /\ req[p].pc = "idle"
  /\ Visible(r)
  /\ Keeps(routes[r], target)
  /\ req' = [req EXCEPT ![p] =
               [Idle EXCEPT !.pc = "write", !.op = "status", !.route = r,
                            !.target = target]]
  /\ Reads(p)

\* deleteRoute: read the route, check that it may go.
DeleteRoute(p, r) ==
  /\ req[p].pc = "idle"
  /\ Visible(r)
  /\ isRouteEditableStatus(routes[r].status)
  /\ canTransitionRoute(routes[r].status, "cancelled")
  /\ req' = [req EXCEPT ![p] =
               [Idle EXCEPT !.pc = "write", !.op = "delete", !.route = r,
                            !.target = "cancelled"]]
  /\ Reads(p)

-----------------------------------------------------------------------------
(* resolveRoutePlan, one step per query.                                   *)

\* Read the orders; a final one is refused.
ReadOrders(p) ==
  /\ req[p].pc = "orders"
  /\ \A o \in req[p].orders : status[o] \notin TERMINAL_ORDER_STATUSES
  /\ req' = [req EXCEPT ![p].pc = "conflicts", ![p].assigns =
               { o \in req[p].orders :
                   req[p].courier # None /\ shouldTransitionToAssigned(status[o]) }]
  /\ Reads(p)

\* Mutant: nobody looks.
NoConflictCheck(p) ==
  /\ req[p].pc = "conflicts"
  /\ req' = [req EXCEPT ![p].pc = "write"]
  /\ Reads(p)

\* Look for another active route with one of the orders.
EnsureOrdersNotAssignedToActiveRoutes(p) ==
  /\ req[p].pc = "conflicts"
  /\ \A r \in RouteIds \ {req[p].route} :
       Active(r) => routes[r].points \cap req[p].orders = {}
  /\ req' = [req EXCEPT ![p].pc = "write"]
  /\ Reads(p)

-----------------------------------------------------------------------------
(* The writes.                                                             *)

\* The requests in flight that p's write overtakes: those about the same route,
\* and, if p plans orders, those about one of these orders.
Overtaken(p, r, planned) ==
  { q \in Planners \ {p} :
      req[q].pc # "idle" /\ (req[q].route = r \/ req[q].orders \cap planned # {}) }

\* p is done; whoever it overtook works with stale reads from now on.
Done(p, r, planned) ==
  req' = [q \in Planners |->
            IF q = p THEN Idle
            ELSE IF q \in Overtaken(p, r, planned) THEN [req[q] EXCEPT !.stale = TRUE]
            ELSE req[q]]

\* Mutant: only the orders that become assigned get the courier.
SyncOnlyAssigned(p) ==
  /\ courier' = [o \in Orders |-> IF o \in req[p].assigns THEN req[p].courier ELSE courier[o]]
  /\ status'  = [o \in Orders |-> IF o \in req[p].assigns THEN "assigned" ELSE status[o]]
  /\ loose'   = IF req[p].stale THEN loose \cup req[p].orders ELSE loose \ req[p].orders

\* syncRouteOrdersWithCourier: without a courier nothing happens to the orders.
SyncRouteOrdersWithCourier(p) ==
  LET given == IF req[p].courier = None THEN {} ELSE req[p].orders IN
  /\ courier' = [o \in Orders |-> IF o \in given THEN req[p].courier ELSE courier[o]]
  /\ status'  = [o \in Orders |->
                   IF o \in req[p].assigns THEN "assigned" ELSE status[o]]
  /\ loose'   = IF req[p].stale THEN loose \cup given ELSE loose \ given

\* The transaction of buildRoute.
WriteBuild(p, r) ==
  /\ req[p].pc = "write" /\ req[p].op = "build"
  /\ routes[r].status = "none"
  /\ routes' = [routes EXCEPT ![r] =
                  [status |-> "draft", deleted |-> FALSE, points |-> req[p].orders,
                   courier |-> req[p].courier, version |-> 1, edits |-> 0]]
  /\ raced' = IF req[p].stale THEN raced \cup {r} ELSE raced
  /\ SyncRouteOrdersWithCourier(p)
  /\ Done(p, r, req[p].orders)

\* The transaction of updateRoute with plan changes.  It writes the status and the
\* version of the row it read at the start, and does not look at deleted_at.
WritePlan(p) ==
  LET r == req[p].route IN
  /\ req[p].pc = "write" /\ req[p].op = "plan"
  /\ routes' = [routes EXCEPT ![r] =
                  [routes[r] EXCEPT !.status = req[p].target, !.points = req[p].orders,
                                    !.courier = req[p].courier,
                                    !.version = req[p].version + 1,
                                    !.edits = routes[r].edits + 1]]
  /\ raced' = IF req[p].stale THEN raced \cup {r} ELSE raced \ {r}
  /\ SyncRouteOrdersWithCourier(p)
  /\ Done(p, r, req[p].orders)

\* The update of updateRoute without plan changes, and that of deleteRoute.
WriteStatus(p) ==
  LET r == req[p].route IN
  /\ req[p].pc = "write" /\ req[p].op \in {"status", "delete"}
  /\ routes' = [routes EXCEPT ![r] =
                  [routes[r] EXCEPT !.status = req[p].target,
                                    !.deleted = IF req[p].op = "delete" THEN TRUE
                                                ELSE routes[r].deleted]]
  /\ raced' = IF req[p].stale THEN raced \cup {r} ELSE raced
  /\ Done(p, r, {})
  /\ UNCHANGED << status, courier, loose >>

\* Any request may end early: a failed check, the provider, the database.
Fail(p) ==
  /\ req[p].pc # "idle"
  /\ req' = [req EXCEPT ![p] = Idle]
  /\ Reads(p)

-----------------------------------------------------------------------------
(* The orders, meanwhile.                                                  *)

\* OrdersService.transitionOrderStatus, as one step.
TransitionOrderStatus(o, to) ==
  /\ canTransition(status[o], to)
  /\ status' = [status EXCEPT ![o] = to]
  /\ UNCHANGED << routes, courier, req, raced, loose >>

\* OrdersService.updateOrder with a courier, in whatever status the order is.
UpdateOrder(o, c) ==
  /\ courier' = [courier EXCEPT ![o] = c]
  /\ loose' = loose \cup {o}
  /\ UNCHANGED << routes, status, req, raced >>

Plan(p) ==
  \E orders \in SUBSET Orders, c \in Courier :
    \/ BuildRoute(p, orders, c)
    \/ \E r \in RouteIds, target \in RouteStatus : UpdateRoutePlan(p, r, orders, c, target)

Next ==
  \/ \E p \in Planners :
       \/ Plan(p)
       \/ \E r \in RouteIds, target \in RouteStatus : UpdateRouteStatus(p, r, target)
       \/ \E r \in RouteIds : DeleteRoute(p, r)
       \/ ReadOrders(p)
       \/ EnsureOrdersNotAssignedToActiveRoutes(p)
       \/ \E r \in RouteIds : WriteBuild(p, r)
       \/ WritePlan(p)
       \/ WriteStatus(p)
       \/ Fail(p)
  \/ \E o \in Orders, to \in Targets : TransitionOrderStatus(o, to)
  \/ \E o \in Edited, c \in Courier : UpdateOrder(o, c)

Spec == Init /\ [][Next]_vars

-----------------------------------------------------------------------------
(* Properties.                                                             *)

\* Types of the tables and of the requests in flight, each of them consistent.
TypeOK ==
  /\ routes  \in [RouteIds -> Route]
  /\ status  \in [Orders -> OrderStatus]
  /\ courier \in [Orders -> Courier]
  /\ req     \in [Planners -> Request]
  /\ \A p \in Planners : Consistent(req[p])
  /\ raced   \subseteq RouteIds
  /\ loose   \subseteq Orders

\* Two active routes share an order only if one of them was written by a request
\* that another one overtook: without races the conflict check is enough.
DoubleBookingNeedsRace ==
  \A r1, r2 \in RouteIds :
    r1 # r2 /\ Active(r1) /\ Active(r2) /\ routes[r1].points \cap routes[r2].points # {} =>
      r1 \in raced \/ r2 \in raced

\* Why it holds: nobody else planned the orders of a request that was not
\* overtaken since it looked for conflicts, and the route that such a request
\* keeps active was active when it was read.
ChecksLast ==
  \A p \in Planners :
    req[p].pc = "write" /\ ~req[p].stale =>
      /\ req[p].op \in {"build", "plan"} =>
           \A r \in RouteIds \ {req[p].route} :
             Active(r) /\ r \notin raced => routes[r].points \cap req[p].orders = {}
      /\ req[p].op \in {"status", "delete"} =>
           (req[p].target \in ACTIVE_ROUTE_STATUSES => Active(req[p].route))

\* An order on an active route with a courier has that courier, unless somebody
\* gave it another one by hand or one of the two was written in a race.
CourierFollowsRoute ==
  \A r \in RouteIds : \A o \in routes[r].points :
    Active(r) /\ r \notin raced /\ o \notin loose /\ routes[r].courier # None =>
      courier[o] = routes[r].courier

Ends(p) == req[p].pc # "idle" /\ req'[p].pc = "idle"

FreshWriteRespects ==
  \A p \in Planners, r \in RouteIds :
    LET old == routes[r]
        new == routes'[r] IN
    old # new /\ Ends(p) /\ ~req[p].stale =>
      /\ ~old.deleted
      /\ old.status = "none" \/ Keeps(old, new.status)
      /\ old.status \in {"in_progress", "completed", "cancelled"} =>
           /\ new.points = old.points
           /\ new.courier = old.courier /\ new.version = old.version
      /\ new.edits > old.edits => new.version = old.version + 1

\* A request that nobody overtook moves a route along the state machine, leaves
\* the plan of a route under way alone, and numbers the plans one by one.
FreshWritesRespectRoute == [][FreshWriteRespects]_vars

=============================================================================
