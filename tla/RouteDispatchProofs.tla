------------------------ MODULE RouteDispatchProofs ------------------------
(***************************************************************************)
(* Proofs about RouteDispatch, for any orders, routes and dispatchers:     *)
(* two active routes share an order only after a race, couriers follow     *)
(* their routes, and fresh writes respect what was read.                   *)
(*                                                                         *)
(* The conflict check looks at the routes table long before the write.     *)
(* The argument is that its result stays true for a request that nobody    *)
(* overtakes: whatever another request writes meanwhile, it either touches *)
(* none of the orders, or it overtakes the request, or it was overtaken    *)
(* itself and leaves a route that counts as raced.  The same argument,     *)
(* for what was read of the request's own route, gives the rest.           *)
(***************************************************************************)
EXTENDS RouteDispatch, TLAPS

LEMMA RouteMachine ==
  ASSUME NEW s \in RouteStatus, NEW t, canTransitionRoute(s, t)
  PROVE  t \in RouteStatus /\ t # "none" /\ (t \in ACTIVE_ROUTE_STATUSES => s \in ACTIVE_ROUTE_STATUSES)
  <1> DEFINE succ == ALLOWED_ROUTE_TRANSITIONS[s]
  <1>1. succ = CASE s = "draft"       -> {"planned", "cancelled"}
                 [] s = "planned"     -> {"in_progress", "cancelled"}
                 [] s = "in_progress" -> {"completed", "cancelled"}
                 [] OTHER             -> {}
    BY DEF ALLOWED_ROUTE_TRANSITIONS
  <1>2. t \in succ
    BY DEF canTransitionRoute
  <1> HIDE DEF succ
  <1> QED
    BY <1>1, <1>2 DEF RouteStatus, ACTIVE_ROUTE_STATUSES

-----------------------------------------------------------------------------
(* Type correctness.                                                       *)

LEMMA NoRouteTyped == NoRoute \in Route
  BY DEF NoRoute, Route, RouteStatus, Courier

LEMMA IdleTyped == Idle \in Request /\ Consistent(Idle)
  BY DEF Idle, Request, RouteStatus, Courier, Consistent

LEMMA TypeInit == Init => TypeOK
  BY NoRouteTyped, IdleTyped, RouteDispatchAssumption DEF Init, TypeOK, Courier, Consistent

\* A request takes note of something; the tables stay.
LEMMA TypeRead ==
  ASSUME TypeOK, NEW p \in Planners, NEW next \in Request, Consistent(next),
         req' = [req EXCEPT ![p] = next], Reads(p)
  PROVE  TypeOK'
  BY DEF TypeOK, Reads, Consistent

LEMMA TypeDone ==
  ASSUME TypeOK, NEW p \in Planners, NEW r, NEW planned, Done(p, r, planned)
  PROVE  req' \in [Planners -> Request] /\ \A q \in Planners : Consistent(req'[q])
  <1>1. ASSUME NEW q \in Planners
        PROVE  /\ [req[q] EXCEPT !.stale = TRUE] \in Request
               /\ Consistent([req[q] EXCEPT !.stale = TRUE])
    <2>1. req[q] \in Request /\ Consistent(req[q])
      BY DEF TypeOK, Consistent
    <2> QED
      BY <2>1 DEF Request, Consistent
  <1>2. \A q \in Planners : req[q] \in Request /\ Consistent(req[q])
    BY DEF TypeOK, Consistent
  <1>3. \A q \in Planners : \/ req'[q] = Idle
                            \/ req'[q] = [req[q] EXCEPT !.stale = TRUE]
                            \/ req'[q] = req[q]
    BY DEF Done
  <1>4. DOMAIN req' = Planners /\ req' = [q \in Planners |-> req'[q]]
    BY DEF Done
  <1> QED
    BY <1>1, <1>2, <1>3, <1>4, IdleTyped

LEMMA TypeSync ==
  ASSUME TypeOK, NEW p \in Planners, SyncRouteOrdersWithCourier(p)
  PROVE  /\ status' \in [Orders -> OrderStatus]
         /\ courier' \in [Orders -> Courier]
         /\ loose' \subseteq Orders
  <1>1. req[p] \in Request
    BY DEF TypeOK
  <1>2. req[p].courier \in Courier /\ req[p].orders \subseteq Orders
    BY <1>1 DEF Request
  <1>3. "assigned" \in OrderStatus
    BY DEF OrderStatus
  <1> QED
    BY <1>2, <1>3 DEF SyncRouteOrdersWithCourier, TypeOK

\* What TypeOK says of one request, and of the route it names.
LEMMA RequestTyped ==
  ASSUME TypeOK, NEW p \in Planners
  PROVE  /\ req[p] \in Request
         /\ Consistent(req[p])
         /\ req[p].target \in RouteStatus
         /\ req[p].orders \subseteq Orders
         /\ req[p].courier \in Courier
         /\ req[p].version + 1 \in Nat
         /\ req[p].op \in {"plan", "status", "delete"} => req[p].route \in RouteIds
         /\ req[p].op = "build" => req[p].route \notin RouteIds
         /\ req[p].pc \in {"orders", "conflicts"} => req[p].op \notin {"status", "delete"}
  <1>1. req[p] \in Request /\ Consistent(req[p])
    BY DEF TypeOK
  <1> QED
    BY <1>1, RouteDispatchAssumption DEF Request, Consistent

LEMMA TypeStep == TypeOK /\ [Next]_vars => TypeOK'
  <1> SUFFICES ASSUME TypeOK, [Next]_vars PROVE TypeOK'
    OBVIOUS
  <1>1. ASSUME NEW p \in Planners, NEW orders \in SUBSET Orders, NEW c \in Courier,
               BuildRoute(p, orders, c)
        PROVE  TypeOK'
    <2> DEFINE next == [Idle EXCEPT !.pc = "orders", !.op = "build", !.target = "draft",
                                    !.orders = orders, !.courier = c]
    <2>1. next \in Request /\ Consistent(next)
      BY DEF Idle, Request, RouteStatus, Consistent
    <2> QED
      BY <1>1, <2>1, TypeRead DEF BuildRoute
  <1>2. ASSUME NEW p \in Planners, NEW orders \in SUBSET Orders, NEW c \in Courier,
               NEW r \in RouteIds, NEW target \in RouteStatus,
               UpdateRoutePlan(p, r, orders, c, target)
        PROVE  TypeOK'
    <2> DEFINE next == [Idle EXCEPT !.pc = "orders", !.op = "plan", !.route = r,
                                    !.version = routes[r].version,
                                    !.target = target, !.orders = orders, !.courier = c]
    <2>1. routes[r].version \in Nat
      BY DEF TypeOK, Route
    <2>2. next \in Request /\ Consistent(next)
      BY <2>1, RouteDispatchAssumption DEF Idle, Request, Consistent
    <2> QED
      BY <1>2, <2>2, TypeRead DEF UpdateRoutePlan
  <1>3. ASSUME NEW p \in Planners, NEW r \in RouteIds, NEW target \in RouteStatus,
               UpdateRouteStatus(p, r, target)
        PROVE  TypeOK'
    <2> DEFINE next == [Idle EXCEPT !.pc = "write", !.op = "status", !.route = r,
                                    !.target = target]
    <2>1. next \in Request /\ Consistent(next)
      BY RouteDispatchAssumption DEF Idle, Request, Courier, Consistent
    <2> QED
      BY <1>3, <2>1, TypeRead DEF UpdateRouteStatus
  <1>4. ASSUME NEW p \in Planners, NEW r \in RouteIds, DeleteRoute(p, r)
        PROVE  TypeOK'
    <2> DEFINE next == [Idle EXCEPT !.pc = "write", !.op = "delete", !.route = r,
                                    !.target = "cancelled"]
    <2>1. next \in Request /\ Consistent(next)
      BY RouteDispatchAssumption DEF Idle, Request, Courier, RouteStatus, Consistent
    <2> QED
      BY <1>4, <2>1, TypeRead DEF DeleteRoute
  <1>5. ASSUME NEW p \in Planners, ReadOrders(p)
        PROVE  TypeOK'
    <2> DEFINE assigns == { o \in req[p].orders :
                              req[p].courier # None /\ shouldTransitionToAssigned(status[o]) }
               next == [req[p] EXCEPT !.pc = "conflicts", !.assigns = assigns]
    <2>1. req' = [req EXCEPT ![p] = next]
      BY <1>5 DEF ReadOrders
    <2>2. assigns \subseteq Orders
      BY RequestTyped
    <2> HIDE DEF assigns
    <2>3. next \in Request /\ Consistent(next)
      BY <1>5, <2>2, RequestTyped DEF ReadOrders, Request, Consistent
    <2> QED
      BY <1>5, <2>1, <2>3, TypeRead DEF ReadOrders
  <1>6. ASSUME NEW p \in Planners, EnsureOrdersNotAssignedToActiveRoutes(p)
        PROVE  TypeOK'
    <2> DEFINE next == [req[p] EXCEPT !.pc = "write"]
    <2>1. next \in Request /\ Consistent(next)
      BY RequestTyped DEF Request, Consistent
    <2>2. req' = [req EXCEPT ![p] = next]
      BY <1>6 DEF EnsureOrdersNotAssignedToActiveRoutes
    <2> QED
      BY <1>6, <2>1, <2>2, TypeRead DEF EnsureOrdersNotAssignedToActiveRoutes
  <1>7. ASSUME NEW p \in Planners, NEW r \in RouteIds, WriteBuild(p, r)
        PROVE  TypeOK'
    <2> DEFINE new == [status |-> "draft", deleted |-> FALSE, points |-> req[p].orders,
                       courier |-> req[p].courier, version |-> 1, edits |-> 0]
    <2>1. new \in Route
      BY RequestTyped DEF Route, RouteStatus
    <2>2. routes' \in [RouteIds -> Route] /\ raced' \subseteq RouteIds
      BY <1>7, <2>1 DEF WriteBuild, TypeOK
    <2> QED
      BY <1>7, <2>2, TypeDone, TypeSync DEF WriteBuild, TypeOK, Consistent
  <1>8. ASSUME NEW p \in Planners, WritePlan(p)
        PROVE  TypeOK'
    <2> DEFINE r   == req[p].route
               new == [routes[r] EXCEPT !.status = req[p].target, !.points = req[p].orders,
                                        !.courier = req[p].courier,
                                        !.version = req[p].version + 1,
                                        !.edits = routes[r].edits + 1]
    <2>1. r \in RouteIds
      BY <1>8, RequestTyped DEF WritePlan
    <2>2. routes' = [routes EXCEPT ![r] = new] /\ raced' \subseteq raced \cup {r}
      BY <1>8 DEF WritePlan
    <2>3. routes[r] \in Route
      BY <2>1 DEF TypeOK
    <2> HIDE DEF r
    <2>4. /\ req[p].target \in RouteStatus
          /\ req[p].orders \in SUBSET Orders
          /\ req[p].courier \in Courier
          /\ req[p].version + 1 \in Nat
          /\ routes[r].edits + 1 \in Nat
      BY <2>3, RequestTyped DEF Route
    <2>5. new \in Route
      BY <2>3, <2>4 DEF Route
    <2> HIDE DEF new
    <2>6. routes' \in [RouteIds -> Route] /\ raced' \subseteq RouteIds
      BY <2>1, <2>2, <2>5 DEF TypeOK
    <2> QED
      BY <1>8, <2>6, TypeDone, TypeSync DEF WritePlan, TypeOK, Consistent
  <1>9. ASSUME NEW p \in Planners, WriteStatus(p)
        PROVE  TypeOK'
    <2> DEFINE r    == req[p].route
               gone == IF req[p].op = "delete" THEN TRUE ELSE routes[r].deleted
               new  == [routes[r] EXCEPT !.status = req[p].target, !.deleted = gone]
    <2>1. r \in RouteIds
      BY <1>9, RequestTyped DEF WriteStatus
    <2>2. routes' = [routes EXCEPT ![r] = new] /\ raced' \subseteq raced \cup {r}
      BY <1>9 DEF WriteStatus
    <2>3. routes[r] \in Route
      BY <2>1 DEF TypeOK
    <2>4. gone \in BOOLEAN
      BY <2>3 DEF Route
    <2> HIDE DEF r, gone
    <2>5. new \in Route
      BY <2>3, <2>4, RequestTyped DEF Route
    <2> HIDE DEF new
    <2>6. routes' \in [RouteIds -> Route] /\ raced' \subseteq RouteIds
      BY <2>1, <2>2, <2>5 DEF TypeOK
    <2> QED
      BY <1>9, <2>6, TypeDone DEF WriteStatus, TypeOK, Consistent
  <1>10. ASSUME NEW p \in Planners, Fail(p)
         PROVE  TypeOK'
    BY <1>10, IdleTyped, TypeRead DEF Fail
  <1>11. ASSUME NEW o \in Orders, NEW to \in Targets, TransitionOrderStatus(o, to)
         PROVE  TypeOK'
    BY <1>11, RouteDispatchAssumption DEF TransitionOrderStatus, TypeOK
  <1>12. ASSUME NEW o \in Edited, NEW c \in Courier, UpdateOrder(o, c)
         PROVE  TypeOK'
    BY <1>12, RouteDispatchAssumption DEF UpdateOrder, TypeOK
  <1>13. CASE UNCHANGED vars
    BY <1>13 DEF vars, TypeOK
  <1> QED
    BY <1>1, <1>2, <1>3, <1>4, <1>5, <1>6, <1>7, <1>8, <1>9, <1>10, <1>11, <1>12, <1>13
    DEF Next, Plan

\* The tables and requests always have their types, and every request that is not
\* about to build a route names one.
THEOREM TypeCorrect == Spec => []TypeOK
  BY TypeInit, TypeStep, PTL DEF Spec

-----------------------------------------------------------------------------
(* Double booking needs a race.                                            *)

Booked == TypeOK /\ DoubleBookingNeedsRace /\ ChecksLast

\* A route row that holds its orders.
Holds(row) == row.status \in ACTIVE_ROUTE_STATUSES /\ ~row.deleted

LEMMA BookedInit == Init => Booked
  <1> SUFFICES ASSUME Init PROVE Booked
    OBVIOUS
  <1>1. \A r \in RouteIds : ~Active(r)
    BY DEF Init, Active, NoRoute, ACTIVE_ROUTE_STATUSES
  <1>2. \A p \in Planners : req[p].pc = "idle"
    BY DEF Init, Idle
  <1> QED
    BY <1>1, <1>2, TypeInit DEF Booked, DoubleBookingNeedsRace, ChecksLast

\* Reads, failures and the orders' own moves leave the routes alone; a request
\* that enters its last phase brings its own reason to be trusted.
LEMMA BookedQuiet ==
  ASSUME Booked, TypeOK', UNCHANGED << routes, raced >>,
         NEW p \in Planners,
         \A q \in Planners : q # p => req'[q] = req[q],
         req'[p].pc = "write" /\ ~req'[p].stale =>
           /\ req'[p].op \in {"build", "plan"} =>
                \A r \in RouteIds \ {req'[p].route} :
                  Active(r) /\ r \notin raced => routes[r].points \cap req'[p].orders = {}
           /\ req'[p].op \in {"status", "delete"} =>
                (req'[p].target \in ACTIVE_ROUTE_STATUSES => Active(req'[p].route))
  PROVE  Booked'
  <1>1. \A r : Active(r)' <=> Active(r)
    BY DEF Active
  <1>2. DoubleBookingNeedsRace'
    BY <1>1 DEF Booked, DoubleBookingNeedsRace
  <1>3. ChecksLast'
    BY <1>1 DEF Booked, ChecksLast, Active
  <1> QED
    BY <1>2, <1>3 DEF Booked

\* A write of the route r.  It counts as raced, or it leaves r without orders in
\* common with the other active routes and tells everyone who planned them.
LEMMA BookedWrite ==
  ASSUME Booked, TypeOK', NEW p \in Planners, NEW r \in RouteIds, NEW new \in Route,
         NEW planned, Done(p, r, planned),
         routes' = [routes EXCEPT ![r] = new],
         \A x \in RouteIds : x # r => (x \in raced' <=> x \in raced),
         r \notin raced' /\ Holds(new) =>
           /\ \A x \in RouteIds \ {r} :
                Active(x) /\ x \notin raced => routes[x].points \cap new.points = {}
           /\ \/ new.points \subseteq planned
              \/ Active(r) /\ r \notin raced /\ new.points = routes[r].points
  PROVE  Booked'
  <1>1. \A x \in RouteIds : routes'[x] = IF x = r THEN new ELSE routes[x]
    BY DEF Booked, TypeOK
  <1>2. \A x \in RouteIds : /\ x # r => (Active(x)' <=> Active(x))
                            /\ x = r => (Active(x)' <=> Holds(new))
    BY <1>1 DEF Active, Holds
  <1>3. DoubleBookingNeedsRace'
    <2> SUFFICES ASSUME NEW x \in RouteIds, NEW y \in RouteIds, x # y,
                        Active(x)', Active(y)', x \notin raced', y \notin raced'
                 PROVE  routes'[x].points \cap routes'[y].points = {}
      BY DEF DoubleBookingNeedsRace
    <2>1. CASE x # r /\ y # r
      BY <1>1, <1>2, <2>1 DEF Booked, DoubleBookingNeedsRace
    <2>2. CASE x = r
      BY <1>1, <1>2, <2>2
    <2>3. CASE y = r
      BY <1>1, <1>2, <2>3
    <2> QED
      BY <2>1, <2>2, <2>3
  <1>4. ChecksLast'
    <2> SUFFICES ASSUME NEW q \in Planners, req'[q].pc = "write", ~req'[q].stale
                 PROVE  /\ req'[q].op \in {"build", "plan"} =>
                             \A x \in RouteIds \ {req'[q].route} :
                               Active(x)' /\ x \notin raced' =>
                                 routes'[x].points \cap req'[q].orders = {}
                        /\ req'[q].op \in {"status", "delete"} =>
                             (req'[q].target \in ACTIVE_ROUTE_STATUSES =>
                                /\ routes'[req'[q].route].status \in ACTIVE_ROUTE_STATUSES
                                /\ ~routes'[req'[q].route].deleted)
      BY DEF ChecksLast, Active
    <2>1. q # p
      BY DEF Done, Idle
    <2>2. q \notin Overtaken(p, r, planned) /\ req'[q] = req[q]
      <3>1. req[q] \in Request
        BY RequestTyped DEF Booked
      <3>2. [req[q] EXCEPT !.stale = TRUE].stale = TRUE
        BY <3>1 DEF Request
      <3> QED
        BY <2>1, <3>2 DEF Done
    <2>3. req[q].route # r /\ req[q].orders \cap planned = {}
      BY <2>1, <2>2 DEF Overtaken
    <2>4. CASE req[q].op \in {"build", "plan"}
      <3>1. \A x \in RouteIds \ {req[q].route} :
              Active(x) /\ x \notin raced => routes[x].points \cap req[q].orders = {}
        BY <2>2, <2>4 DEF Booked, ChecksLast
      <3>2. ASSUME NEW x \in RouteIds \ {req[q].route}, Active(x)', x \notin raced'
            PROVE  routes'[x].points \cap req[q].orders = {}
        <4>1. CASE x # r
          BY <1>1, <1>2, <3>1, <3>2, <4>1
        <4>2. CASE x = r
          <5>1. Holds(new)
            BY <1>2, <3>2, <4>2
          <5>2. CASE new.points \subseteq planned
            BY <1>1, <2>3, <4>2, <5>2
          <5>3. CASE Active(r) /\ r \notin raced /\ new.points = routes[r].points
            BY <1>1, <2>3, <3>1, <4>2, <5>3
          <5> QED
            BY <3>2, <4>2, <5>1, <5>2, <5>3
        <4> QED
          BY <4>1, <4>2
      <3> QED
        BY <2>2, <2>4, <3>2
    <2>5. CASE req[q].op \in {"status", "delete"}
      <3>1. req[q].route \in RouteIds
        BY <2>5, RequestTyped DEF Booked
      <3>2. routes'[req[q].route] = routes[req[q].route]
        BY <1>1, <2>3, <3>1
      <3>3. req[q].target \in ACTIVE_ROUTE_STATUSES => Active(req[q].route)
        BY <2>2, <2>5 DEF Booked, ChecksLast
      <3> QED
        BY <2>2, <2>5, <3>2, <3>3 DEF Active
    <2> QED
      BY <2>2, <2>4, <2>5
  <1> QED
    BY <1>3, <1>4 DEF Booked

\* What a plan write and a status write make of a row.
LEMMA RowWrites ==
  ASSUME NEW row \in Route, NEW s \in RouteStatus, NEW points, NEW c, NEW v, NEW e, NEW d
  PROVE  /\ [row EXCEPT !.status = s, !.points = points, !.courier = c,
                        !.version = v, !.edits = e].points = points
         /\ [row EXCEPT !.status = s, !.deleted = d].points = row.points
         /\ [row EXCEPT !.status = s, !.deleted = d].status = s
         /\ [row EXCEPT !.status = s, !.deleted = d].deleted = d
  BY DEF Route

LEMMA BookedStep == Booked /\ [Next]_vars => Booked'
  <1> SUFFICES ASSUME Booked, [Next]_vars PROVE Booked'
    OBVIOUS
  <1>0. TypeOK /\ TypeOK' /\ DoubleBookingNeedsRace /\ ChecksLast
    BY TypeStep DEF Booked
  <1>1. ASSUME NEW p \in Planners, NEW orders \in SUBSET Orders, NEW c \in Courier,
               \/ BuildRoute(p, orders, c)
               \/ \E r \in RouteIds, target \in RouteStatus :
                    UpdateRoutePlan(p, r, orders, c, target)
        PROVE  Booked'
    <2>1. /\ UNCHANGED << routes, raced >>
          /\ \A q \in Planners : q # p => req'[q] = req[q]
          /\ req'[p].pc = "orders"
      BY ZenonT(40), <1>0, <1>1 DEF BuildRoute, UpdateRoutePlan, Reads, TypeOK, Idle
    <2> QED
      BY <1>0, <2>1, BookedQuiet
  <1>2. ASSUME NEW p \in Planners, NEW r \in RouteIds, NEW target \in RouteStatus,
               UpdateRouteStatus(p, r, target)
        PROVE  Booked'
    <2>1. /\ UNCHANGED << routes, raced >>
          /\ \A q \in Planners : q # p => req'[q] = req[q]
          /\ req'[p].op = "status" /\ req'[p].route = r /\ req'[p].target = target
      BY <1>0, <1>2 DEF UpdateRouteStatus, Reads, TypeOK, Idle
    <2>2. Visible(r) /\ Keeps(routes[r], target) /\ routes[r].status \in RouteStatus
      BY <1>0, <1>2 DEF UpdateRouteStatus, TypeOK, Route
    <2>3. target \in ACTIVE_ROUTE_STATUSES => Active(r)
      BY <2>2, RouteMachine DEF Keeps, Visible, Active
    <2> QED
      BY <1>0, <2>1, <2>3, BookedQuiet
  <1>3. ASSUME NEW p \in Planners, NEW r \in RouteIds, DeleteRoute(p, r)
        PROVE  Booked'
    <2>1. /\ UNCHANGED << routes, raced >>
          /\ \A q \in Planners : q # p => req'[q] = req[q]
          /\ req'[p].op = "delete" /\ req'[p].target = "cancelled"
      BY <1>0, <1>3 DEF DeleteRoute, Reads, TypeOK, Idle
    <2>2. "cancelled" \notin ACTIVE_ROUTE_STATUSES
      BY DEF ACTIVE_ROUTE_STATUSES
    <2> QED
      BY <1>0, <2>1, <2>2, BookedQuiet
  <1>4. ASSUME NEW p \in Planners, ReadOrders(p) \/ Fail(p)
        PROVE  Booked'
    <2>1. UNCHANGED << routes, raced >> /\ \A q \in Planners : q # p => req'[q] = req[q]
      BY <1>0, <1>4 DEF ReadOrders, Fail, Reads, TypeOK
    <2>2. req'[p].pc # "write"
      <3>1. CASE ReadOrders(p)
        <4> DEFINE assigns == { o \in req[p].orders :
                                  req[p].courier # None /\ shouldTransitionToAssigned(status[o]) }
        <4>1. req' = [req EXCEPT ![p] = [req[p] EXCEPT !.pc = "conflicts", !.assigns = assigns]]
          BY <3>1 DEF ReadOrders
        <4> HIDE DEF assigns
        <4>2. req[p] \in Request /\ req \in [Planners -> Request]
          BY <1>0 DEF TypeOK
        <4>3. [req[p] EXCEPT !.pc = "conflicts", !.assigns = assigns].pc = "conflicts"
          BY <4>2 DEF Request
        <4> QED
          BY <4>1, <4>2, <4>3
      <3>2. CASE Fail(p)
        BY <1>0, <3>2 DEF Fail, TypeOK, Idle
      <3> QED
        BY <1>4, <3>1, <3>2
    <2> QED
      BY <1>0, <2>1, <2>2, BookedQuiet
  <1>5. ASSUME NEW p \in Planners, EnsureOrdersNotAssignedToActiveRoutes(p)
        PROVE  Booked'
    <2>1. UNCHANGED << routes, raced >> /\ \A q \in Planners : q # p => req'[q] = req[q]
      BY <1>0, <1>5 DEF EnsureOrdersNotAssignedToActiveRoutes, Reads, TypeOK
    <2>2. /\ req'[p].route = req[p].route
          /\ req'[p].orders = req[p].orders
          /\ req'[p].op = req[p].op
      BY <1>0, <1>5, RequestTyped DEF EnsureOrdersNotAssignedToActiveRoutes, TypeOK, Request
    <2>3. \A r \in RouteIds \ {req[p].route} :
            Active(r) => routes[r].points \cap req[p].orders = {}
      BY <1>5 DEF EnsureOrdersNotAssignedToActiveRoutes
    <2>4. req[p].op \notin {"status", "delete"}
      BY <1>0, <1>5, RequestTyped DEF EnsureOrdersNotAssignedToActiveRoutes
    <2> QED
      BY <1>0, <2>1, <2>2, <2>3, <2>4, BookedQuiet
  <1>6. ASSUME NEW p \in Planners, NEW r \in RouteIds, WriteBuild(p, r)
        PROVE  Booked'
    <2> DEFINE new == [status |-> "draft", deleted |-> FALSE, points |-> req[p].orders,
                       courier |-> req[p].courier, version |-> 1, edits |-> 0]
    <2>1. /\ routes' = [routes EXCEPT ![r] = new]
          /\ Done(p, r, req[p].orders)
          /\ raced' = IF req[p].stale THEN raced \cup {r} ELSE raced
          /\ req[p].pc = "write" /\ req[p].op = "build"
      BY <1>6 DEF WriteBuild
    <2>2. new \in Route
      BY <1>0, RequestTyped DEF Route, RouteStatus
    <2>3. r \notin raced' => \A x \in RouteIds \ {r} :
            Active(x) /\ x \notin raced => routes[x].points \cap req[p].orders = {}
      BY <1>0, <2>1, RequestTyped DEF ChecksLast
    <2>4. new.points = req[p].orders
      OBVIOUS
    <2> HIDE DEF new
    <2> QED
      BY <1>0, <2>1, <2>2, <2>3, <2>4, BookedWrite
  <1>7. ASSUME NEW p \in Planners, WritePlan(p)
        PROVE  Booked'
    <2> DEFINE r   == req[p].route
               new == [routes[r] EXCEPT !.status = req[p].target, !.points = req[p].orders,
                                        !.courier = req[p].courier,
                                        !.version = req[p].version + 1,
                                        !.edits = routes[r].edits + 1]
    <2>1. /\ routes' = [routes EXCEPT ![r] = new]
          /\ Done(p, r, req[p].orders)
          /\ raced' = IF req[p].stale THEN raced \cup {r} ELSE raced \ {r}
          /\ req[p].pc = "write" /\ req[p].op = "plan"
          /\ r \in RouteIds
      BY <1>0, <1>7, RequestTyped DEF WritePlan
    <2>2. new = routes'[r] /\ routes'[r] \in Route
      <3> HIDE DEF new
      <3> QED
        BY <1>0, <2>1 DEF TypeOK
    <2>3. r \notin raced' => \A x \in RouteIds \ {r} :
            Active(x) /\ x \notin raced => routes[x].points \cap req[p].orders = {}
      BY <1>0, <2>1 DEF ChecksLast
    <2>4. new.points = req[p].orders
      <3>1. routes[r] \in Route /\ req[p].target \in RouteStatus
        BY <1>0, <2>1, RequestTyped DEF TypeOK
      <3> QED
        BY <3>1, RowWrites
    <2> HIDE DEF new
    <2> QED
      BY <1>0, <2>1, <2>2, <2>3, <2>4, BookedWrite
  <1>8. ASSUME NEW p \in Planners, WriteStatus(p)
        PROVE  Booked'
    <2> DEFINE r   == req[p].route
               new == [routes[r] EXCEPT !.status = req[p].target,
                                        !.deleted = IF req[p].op = "delete" THEN TRUE
                                                    ELSE routes[r].deleted]
    <2>1. /\ routes' = [routes EXCEPT ![r] = new]
          /\ Done(p, r, {})
          /\ raced' = IF req[p].stale THEN raced \cup {r} ELSE raced
          /\ req[p].pc = "write" /\ req[p].op \in {"status", "delete"}
          /\ r \in RouteIds
      BY <1>0, <1>8, RequestTyped DEF WriteStatus
    <2>2. new = routes'[r] /\ routes'[r] \in Route
      <3> HIDE DEF new
      <3> QED
        BY <1>0, <2>1 DEF TypeOK
    <2>3. new.points = routes[r].points /\ new.status = req[p].target
      <3>1. routes[r] \in Route /\ req[p].target \in RouteStatus
        BY <1>0, <2>1, RequestTyped DEF TypeOK
      <3> QED
        BY <3>1, RowWrites
    <2>4. r \notin raced' /\ Holds(new) => Active(r) /\ r \notin raced
      <3> HIDE DEF new
      <3> QED
        BY <1>0, <2>1, <2>3 DEF ChecksLast, Holds
    <2>5. Active(r) /\ r \notin raced => \A x \in RouteIds \ {r} :
            Active(x) /\ x \notin raced => routes[x].points \cap routes[r].points = {}
      BY <1>0, <2>1 DEF DoubleBookingNeedsRace
    <2> HIDE DEF new
    <2> QED
      BY <1>0, <2>1, <2>2, <2>3, <2>4, <2>5, BookedWrite
  <1>9. CASE \/ \E o \in Orders, to \in Targets : TransitionOrderStatus(o, to)
             \/ \E o \in Edited, c \in Courier : UpdateOrder(o, c)
             \/ UNCHANGED vars
    <2>1. UNCHANGED << routes, req, raced >>
      BY <1>9 DEF TransitionOrderStatus, UpdateOrder, vars
    <2> QED
      BY <1>0, <2>1 DEF Booked, DoubleBookingNeedsRace, ChecksLast, Active
  <1> QED
    BY <1>1, <1>2, <1>3, <1>4, <1>5, <1>6, <1>7, <1>8, <1>9 DEF Next, Plan

LEMMA BookedAlways == Spec => []Booked
  BY BookedInit, BookedStep, PTL DEF Spec

\* Two active routes share an order only if a request that was overtaken wrote one
\* of them.
THEOREM DoubleBookingCorrect == Spec => []DoubleBookingNeedsRace
  BY BookedAlways, PTL DEF Booked

\* The last check of a request that was not overtaken is still true when it writes.
THEOREM ChecksCorrect == Spec => []ChecksLast
  BY BookedAlways, PTL DEF Booked

-----------------------------------------------------------------------------
(* The courier of an order is that of its route.  The argument rests on    *)
(* Booked: a request that was not overtaken gives its courier to orders    *)
(* that no other route holds.                                              *)

LEMMA CourierInit == Init => CourierFollowsRoute
  <1>1. Init => \A r \in RouteIds : ~Active(r)
    BY DEF Init, Active, NoRoute, ACTIVE_ROUTE_STATUSES
  <1> QED
    BY <1>1 DEF CourierFollowsRoute

\* A plan is written to the route r together with the couriers of its orders.
LEMMA CourierPlanned ==
  ASSUME Booked, CourierFollowsRoute, NEW p \in Planners, NEW r \in RouteIds,
         req[p].pc = "write", req[p].op \in {"build", "plan"},
         req[p].op = "plan" => req[p].route = r,
         SyncRouteOrdersWithCourier(p),
         \A x \in RouteIds : x # r => routes'[x] = routes[x],
         routes'[r].points = req[p].orders, routes'[r].courier = req[p].courier,
         \A x \in RouteIds : x # r => (x \in raced' <=> x \in raced),
         req[p].stale => r \in raced',
         req[p].op = "build" => routes[r].status = "none"
  PROVE  CourierFollowsRoute'
  <1> DEFINE given == IF req[p].courier = None THEN {} ELSE req[p].orders
  <1>1. TypeOK /\ ChecksLast /\ req[p].orders \subseteq Orders
    BY RequestTyped DEF Booked
  <1>2. /\ \A o \in Orders : courier'[o] = IF o \in given THEN req[p].courier ELSE courier[o]
        /\ loose' = IF req[p].stale THEN loose \cup given ELSE loose \ given
    BY DEF SyncRouteOrdersWithCourier
  <1> SUFFICES ASSUME NEW x \in RouteIds, NEW o \in routes'[x].points, Active(x)',
                      x \notin raced', o \notin loose', routes'[x].courier # None
               PROVE  courier'[o] = routes'[x].courier
    BY DEF CourierFollowsRoute
  <1>3. CASE x = r
    BY <1>1, <1>2, <1>3
  <1>4. CASE x # r
    <2>1. Active(x) /\ x \notin raced /\ routes'[x] = routes[x] /\ routes[x] \in Route
      BY <1>1, <1>4 DEF Active, TypeOK
    <2>2. o \in Orders /\ o \in routes[x].points
      BY <2>1 DEF Route
    <2>3. o \notin given
      <3>1. CASE req[p].stale
        BY <1>2, <3>1
      <3>2. CASE ~req[p].stale
        <4>1. x # req[p].route
          BY <1>1, <1>4, RequestTyped
        <4>2. routes[x].points \cap req[p].orders = {}
          BY <1>1, <2>1, <3>2, <4>1 DEF ChecksLast
        <4> QED
          BY <2>2, <4>2
      <3> QED
        BY <3>1, <3>2
    <2>4. o \notin loose
      BY <1>2, <2>3
    <2> QED
      BY <1>2, <2>1, <2>2, <2>3, <2>4 DEF CourierFollowsRoute
  <1> QED
    BY <1>3, <1>4

LEMMA CourierStep == Booked /\ CourierFollowsRoute /\ [Next]_vars => CourierFollowsRoute'
  <1> SUFFICES ASSUME Booked, CourierFollowsRoute, [Next]_vars PROVE CourierFollowsRoute'
    OBVIOUS
  <1>0. TypeOK /\ ChecksLast
    BY DEF Booked
  <1>1. CASE UNCHANGED << routes, courier, raced, loose >>
    BY <1>1 DEF CourierFollowsRoute, Active
  <1>2. ASSUME NEW p \in Planners, NEW r \in RouteIds, WriteBuild(p, r)
        PROVE  CourierFollowsRoute'
    <2> DEFINE new == [status |-> "draft", deleted |-> FALSE, points |-> req[p].orders,
                       courier |-> req[p].courier, version |-> 1, edits |-> 0]
    <2>1. /\ routes' = [routes EXCEPT ![r] = new]
          /\ raced' = IF req[p].stale THEN raced \cup {r} ELSE raced
          /\ req[p].pc = "write" /\ req[p].op = "build" /\ routes[r].status = "none"
          /\ SyncRouteOrdersWithCourier(p)
      BY <1>2 DEF WriteBuild
    <2>2. new.points = req[p].orders /\ new.courier = req[p].courier
      OBVIOUS
    <2> HIDE DEF new
    <2>3. \A x \in RouteIds : routes'[x] = IF x = r THEN new ELSE routes[x]
      BY <1>0, <2>1 DEF TypeOK
    <2> QED
      BY <2>1, <2>2, <2>3, CourierPlanned
  <1>3. ASSUME NEW p \in Planners, WritePlan(p)
        PROVE  CourierFollowsRoute'
    <2>1. PICK r \in RouteIds : r = req[p].route
      BY <1>0, <1>3, RequestTyped DEF WritePlan
    <2> DEFINE new == [routes[r] EXCEPT !.status = req[p].target, !.points = req[p].orders,
                                        !.courier = req[p].courier,
                                        !.version = req[p].version + 1,
                                        !.edits = routes[r].edits + 1]
    <2>2. /\ routes' = [routes EXCEPT ![r] = new]
          /\ raced' = IF req[p].stale THEN raced \cup {r} ELSE raced \ {r}
          /\ req[p].pc = "write" /\ req[p].op = "plan"
          /\ SyncRouteOrdersWithCourier(p)
      BY <1>3, <2>1 DEF WritePlan
    <2>3. new.points = req[p].orders /\ new.courier = req[p].courier
      <3>1. routes[r] \in Route
        BY <1>0 DEF TypeOK
      <3> QED
        BY <3>1 DEF Route
    <2> HIDE DEF new
    <2>4. \A x \in RouteIds : routes'[x] = IF x = r THEN new ELSE routes[x]
      BY <1>0, <2>2 DEF TypeOK
    <2> QED
      BY <2>1, <2>2, <2>3, <2>4, CourierPlanned
  <1>4. ASSUME NEW p \in Planners, WriteStatus(p)
        PROVE  CourierFollowsRoute'
    <2>1. PICK r \in RouteIds : r = req[p].route
      BY <1>0, <1>4, RequestTyped DEF WriteStatus
    <2> DEFINE new == [routes[r] EXCEPT !.status = req[p].target,
                                        !.deleted = IF req[p].op = "delete" THEN TRUE
                                                    ELSE routes[r].deleted]
    <2>2. /\ routes' = [routes EXCEPT ![r] = new]
          /\ raced' = IF req[p].stale THEN raced \cup {r} ELSE raced
          /\ req[p].pc = "write" /\ req[p].op \in {"status", "delete"}
          /\ UNCHANGED << courier, loose >>
      BY <1>4, <2>1 DEF WriteStatus
    <2>3. /\ new.points = routes[r].points /\ new.courier = routes[r].courier
          /\ new.status = req[p].target
      <3>1. routes[r] \in Route /\ req[p].target \in RouteStatus
        BY <1>0, RequestTyped DEF TypeOK
      <3> QED
        BY <3>1 DEF Route
    <2> HIDE DEF new
    <2>4. \A x \in RouteIds : routes'[x] = IF x = r THEN new ELSE routes[x]
      BY <1>0, <2>2 DEF TypeOK
    <2>5. \A x \in RouteIds : Active(x)' /\ x \notin raced' => Active(x) /\ x \notin raced
      BY <1>0, <2>1, <2>2, <2>3, <2>4 DEF ChecksLast, Active
    <2> QED
      BY <2>2, <2>3, <2>4, <2>5 DEF CourierFollowsRoute
  <1>5. ASSUME NEW o \in Edited, NEW c \in Courier, UpdateOrder(o, c)
        PROVE  CourierFollowsRoute'
    <2>1. /\ UNCHANGED << routes, raced >> /\ loose' = loose \cup {o}
          /\ \A x \in Orders \ {o} : courier'[x] = courier[x]
      BY <1>0, <1>5 DEF UpdateOrder, TypeOK
    <2>2. \A r \in RouteIds : routes[r].points \subseteq Orders
      BY <1>0 DEF TypeOK, Route
    <2> QED
      BY <2>1, <2>2 DEF CourierFollowsRoute, Active
  <1>6. ASSUME NEW p \in Planners,
               \/ Plan(p)
               \/ \E r \in RouteIds, target \in RouteStatus : UpdateRouteStatus(p, r, target)
               \/ \E r \in RouteIds : DeleteRoute(p, r)
               \/ ReadOrders(p) \/ EnsureOrdersNotAssignedToActiveRoutes(p) \/ Fail(p)
        PROVE  UNCHANGED << routes, courier, raced, loose >>
    BY <1>6 DEF Plan, BuildRoute, UpdateRoutePlan, UpdateRouteStatus, DeleteRoute, ReadOrders,
                EnsureOrdersNotAssignedToActiveRoutes, Fail, Reads
  <1>7. ASSUME NEW o \in Orders, NEW to \in Targets, TransitionOrderStatus(o, to)
        PROVE  UNCHANGED << routes, courier, raced, loose >>
    BY <1>7 DEF TransitionOrderStatus
  <1> QED
    BY <1>1, <1>2, <1>3, <1>4, <1>5, <1>6, <1>7 DEF Next, vars

\* An order on an active route has the courier of the route, unless one of them was
\* written in a race or the order was given a courier by hand.
THEOREM CourierCorrect == Spec => []CourierFollowsRoute
  BY BookedAlways, CourierInit, CourierStep, PTL DEF Spec

-----------------------------------------------------------------------------
(* What a request has checked of the route it names stays true until       *)
(* somebody writes that route, and then the request is overtaken.          *)

\* What the read of a route has made sure of.
Checked(q) ==
  LET row == routes[q.route] IN
  /\ row.status # "none" /\ ~row.deleted
  /\ q.op = "plan" => isRouteEditableStatus(row.status) /\ row.version = q.version
  /\ Keeps(row, q.target)

ChecksStand ==
  \A p \in Planners :
    /\ req[p].op # "none" => req[p].target # "none" /\ req[p].pc # "idle"
    /\ req[p].op \in {"plan", "status", "delete"} /\ ~req[p].stale => Checked(req[p])

\* A row that was not built is not deleted either.
UnbuiltThere == \A r \in RouteIds : routes[r].status = "none" => ~routes[r].deleted

Respected == TypeOK /\ ChecksStand /\ UnbuiltThere

LEMMA RespectedInit == Init => Respected
  <1> SUFFICES ASSUME Init PROVE Respected
    OBVIOUS
  <1>1. \A p \in Planners : req[p].op = "none"
    BY DEF Init, Idle
  <1>2. \A r \in RouteIds : ~routes[r].deleted
    BY DEF Init, NoRoute
  <1> QED
    BY <1>1, <1>2, TypeInit DEF Respected, ChecksStand, UnbuiltThere

\* A step of p that writes no route.
LEMMA RespectedQuiet ==
  ASSUME Respected, TypeOK', UNCHANGED routes, NEW p \in Planners,
         \A q \in Planners : q # p => req'[q] = req[q],
         /\ req'[p].op # "none" => req'[p].target # "none" /\ req'[p].pc # "idle"
         /\ req'[p].op \in {"plan", "status", "delete"} /\ ~req'[p].stale =>
              /\ routes[req'[p].route].status # "none" /\ ~routes[req'[p].route].deleted
              /\ req'[p].op = "plan" => /\ isRouteEditableStatus(routes[req'[p].route].status)
                                        /\ routes[req'[p].route].version = req'[p].version
              /\ Keeps(routes[req'[p].route], req'[p].target)
  PROVE  Respected'
  <1>1. UnbuiltThere'
    BY DEF Respected, UnbuiltThere
  <1>2. ChecksStand'
    BY DEF Respected, ChecksStand, Checked
  <1> QED
    BY <1>1, <1>2 DEF Respected

\* A step of p that writes the route r.
LEMMA RespectedWrite ==
  ASSUME Respected, TypeOK', NEW p \in Planners, NEW r \in RouteIds, NEW planned,
         Done(p, r, planned),
         \A x \in RouteIds : x # r => routes'[x] = routes[x],
         routes'[r].status # "none"
  PROVE  Respected'
  <1>1. UnbuiltThere'
    BY DEF Respected, UnbuiltThere
  <1>2. ChecksStand'
    <2> SUFFICES ASSUME NEW q \in Planners
                 PROVE  /\ req'[q].op # "none" => req'[q].target # "none" /\ req'[q].pc # "idle"
                        /\ req'[q].op \in {"plan", "status", "delete"} /\ ~req'[q].stale =>
                             Checked(req[q])'
      BY DEF ChecksStand
    <2>1. CASE q = p
      BY <2>1 DEF Done, Idle
    <2>2. CASE q # p
      <3>0. req[q] \in Request /\ Consistent(req[q])
        BY RequestTyped DEF Respected
      <3>1. req'[q].op = req[q].op /\ req'[q].target = req[q].target /\ req'[q].pc = req[q].pc
        BY <2>2, <3>0 DEF Done, Request
      <3>2. ~req'[q].stale => req'[q] = req[q] /\ q \notin Overtaken(p, r, planned)
        <4>1. [req[q] EXCEPT !.stale = TRUE].stale = TRUE
          BY <3>0 DEF Request
        <4> QED
          BY <2>2, <4>1 DEF Done
      <3>3. ASSUME req'[q].op \in {"plan", "status", "delete"}, ~req'[q].stale
            PROVE  Checked(req[q])'
        <4>1. req[q].route \in RouteIds
          BY <3>1, <3>3, RequestTyped DEF Respected
        <4>2. req[q].pc # "idle"
          BY <3>1, <3>3 DEF Respected, ChecksStand
        <4>3. req[q].route # r
          BY <2>2, <3>2, <3>3, <4>2 DEF Overtaken
        <4>4. Checked(req[q]) /\ req'[q] = req[q] /\ routes'[req[q].route] = routes[req[q].route]
          BY <3>1, <3>2, <3>3, <4>1, <4>3 DEF Respected, ChecksStand
        <4> QED
          BY <4>4 DEF Checked
      <3> QED
        BY <3>1, <3>3 DEF Respected, ChecksStand
    <2> QED
      BY <2>1, <2>2
  <1> QED
    BY <1>1, <1>2 DEF Respected

\* The three writes, as far as the rows of routes go.
RowWritten(p, r, planned, new) ==
  /\ Done(p, r, planned)
  /\ r \in RouteIds /\ new \in Route /\ new.status # "none"
  /\ \A x \in RouteIds : routes'[x] = IF x = r THEN new ELSE routes[x]

LEMMA BuildWrites ==
  ASSUME Respected, NEW p \in Planners, NEW r \in RouteIds, WriteBuild(p, r)
  PROVE  \E new : /\ RowWritten(p, r, req[p].orders, new)
                  /\ new.edits = 0
  <1> DEFINE new == [status |-> "draft", deleted |-> FALSE, points |-> req[p].orders,
                     courier |-> req[p].courier, version |-> 1, edits |-> 0]
  <1>1. TypeOK
    BY DEF Respected
  <1>2. routes' = [routes EXCEPT ![r] = new] /\ Done(p, r, req[p].orders)
    BY DEF WriteBuild
  <1>3. new \in Route /\ new.status # "none" /\ new.edits = 0
    BY <1>1, RequestTyped DEF Route, RouteStatus
  <1> HIDE DEF new
  <1>4. \A x \in RouteIds : routes'[x] = IF x = r THEN new ELSE routes[x]
    BY <1>1, <1>2 DEF TypeOK
  <1> QED
    BY <1>2, <1>3, <1>4 DEF RowWritten

LEMMA PlanWrites ==
  ASSUME Respected, NEW p \in Planners, WritePlan(p)
  PROVE  \E new : /\ RowWritten(p, req[p].route, req[p].orders, new)
                  /\ new.status = req[p].target /\ new.version = req[p].version + 1
  <1>1. TypeOK
    BY DEF Respected
  <1>2. PICK r \in RouteIds : r = req[p].route
    BY <1>1, RequestTyped DEF WritePlan
  <1> DEFINE new == [routes[r] EXCEPT !.status = req[p].target, !.points = req[p].orders,
                                      !.courier = req[p].courier,
                                      !.version = req[p].version + 1,
                                      !.edits = routes[r].edits + 1]
  <1>3. routes' = [routes EXCEPT ![r] = new] /\ Done(p, r, req[p].orders) /\ req[p].op = "plan"
    BY <1>2 DEF WritePlan
  <1>4. routes[r] \in Route /\ routes[r].edits + 1 \in Nat
    BY <1>1 DEF TypeOK, Route
  <1>5. /\ new \in Route
        /\ new.status = req[p].target /\ new.version = req[p].version + 1
    BY <1>1, <1>4, RequestTyped DEF Route
  <1>6. req[p].target # "none"
    BY <1>3 DEF Respected, ChecksStand
  <1> HIDE DEF new
  <1>7. \A x \in RouteIds : routes'[x] = IF x = r THEN new ELSE routes[x]
    BY <1>1, <1>3 DEF TypeOK
  <1> QED
    BY <1>2, <1>3, <1>5, <1>6, <1>7 DEF RowWritten

LEMMA StatusWrites ==
  ASSUME Respected, NEW p \in Planners, WriteStatus(p)
  PROVE  \E new : /\ RowWritten(p, req[p].route, {}, new)
                  /\ new.status = req[p].target
                  /\ new.points = routes[req[p].route].points
                  /\ new.courier = routes[req[p].route].courier
                  /\ new.version = routes[req[p].route].version
                  /\ new.edits = routes[req[p].route].edits
  <1>1. TypeOK
    BY DEF Respected
  <1>2. PICK r \in RouteIds : r = req[p].route
    BY <1>1, RequestTyped DEF WriteStatus
  <1> DEFINE gone == IF req[p].op = "delete" THEN TRUE ELSE routes[r].deleted
             new  == [routes[r] EXCEPT !.status = req[p].target, !.deleted = gone]
  <1>3. routes' = [routes EXCEPT ![r] = new] /\ Done(p, r, {}) /\ req[p].op \in {"status", "delete"}
    BY <1>2 DEF WriteStatus
  <1>4. routes[r] \in Route /\ gone \in BOOLEAN
    BY <1>1 DEF TypeOK, Route
  <1> HIDE DEF gone
  <1>5. /\ new \in Route
        /\ new.status = req[p].target /\ new.points = routes[r].points
        /\ new.courier = routes[r].courier /\ new.version = routes[r].version
        /\ new.edits = routes[r].edits
    BY <1>1, <1>4, RequestTyped DEF Route
  <1>6. req[p].target # "none"
    BY <1>3 DEF Respected, ChecksStand
  <1> HIDE DEF new
  <1>7. \A x \in RouteIds : routes'[x] = IF x = r THEN new ELSE routes[x]
    BY <1>1, <1>3 DEF TypeOK
  <1> QED
    BY <1>2, <1>3, <1>5, <1>6, <1>7 DEF RowWritten

LEMMA RespectedStep == Respected /\ [Next]_vars => Respected'
  <1> SUFFICES ASSUME Respected, [Next]_vars PROVE Respected'
    OBVIOUS
  <1>0. TypeOK /\ TypeOK' /\ ChecksStand
    BY TypeStep DEF Respected
  <1>1. ASSUME NEW p \in Planners, NEW orders \in SUBSET Orders, NEW c \in Courier,
               BuildRoute(p, orders, c)
        PROVE  Respected'
    <2>1. /\ UNCHANGED routes
          /\ \A q \in Planners : q # p => req'[q] = req[q]
          /\ req'[p].op = "build" /\ req'[p].target = "draft" /\ req'[p].pc = "orders"
      BY <1>0, <1>1 DEF BuildRoute, Reads, TypeOK, Idle
    <2> QED
      BY <1>0, <2>1, RespectedQuiet
  <1>2. ASSUME NEW p \in Planners, NEW orders \in SUBSET Orders, NEW c \in Courier,
               NEW r \in RouteIds, NEW target \in RouteStatus,
               UpdateRoutePlan(p, r, orders, c, target)
        PROVE  Respected'
    <2>1. /\ UNCHANGED routes
          /\ \A q \in Planners : q # p => req'[q] = req[q]
          /\ req'[p].op = "plan" /\ req'[p].target = target /\ req'[p].pc = "orders"
          /\ req'[p].route = r /\ req'[p].version = routes[r].version
      BY <1>0, <1>2 DEF UpdateRoutePlan, Reads, TypeOK, Idle
    <2>2. /\ Visible(r) /\ isRouteEditableStatus(routes[r].status) /\ Keeps(routes[r], target)
          /\ isRouteEditableStatus(target)
      BY <1>2 DEF UpdateRoutePlan
    <2>3. target # "none"
      BY <2>2 DEF isRouteEditableStatus
    <2> QED
      BY <1>0, <2>1, <2>2, <2>3, RespectedQuiet DEF Visible
  <1>3. ASSUME NEW p \in Planners, NEW r \in RouteIds, NEW target \in RouteStatus,
               UpdateRouteStatus(p, r, target)
        PROVE  Respected'
    <2>1. /\ UNCHANGED routes
          /\ \A q \in Planners : q # p => req'[q] = req[q]
          /\ req'[p].op = "status" /\ req'[p].target = target /\ req'[p].pc = "write"
          /\ req'[p].route = r
      BY <1>0, <1>3 DEF UpdateRouteStatus, Reads, TypeOK, Idle
    <2>2. Visible(r) /\ Keeps(routes[r], target) /\ routes[r].status \in RouteStatus
      BY <1>0, <1>3 DEF UpdateRouteStatus, TypeOK, Route
    <2>3. target # "none"
      BY <2>2, RouteMachine DEF Keeps, Visible
    <2> QED
      BY <1>0, <2>1, <2>2, <2>3, RespectedQuiet DEF Visible
  <1>4. ASSUME NEW p \in Planners, NEW r \in RouteIds, DeleteRoute(p, r)
        PROVE  Respected'
    <2>1. /\ UNCHANGED routes
          /\ \A q \in Planners : q # p => req'[q] = req[q]
          /\ req'[p].op = "delete" /\ req'[p].target = "cancelled" /\ req'[p].pc = "write"
          /\ req'[p].route = r
      BY <1>0, <1>4 DEF DeleteRoute, Reads, TypeOK, Idle
    <2>2. Visible(r) /\ Keeps(routes[r], "cancelled")
      BY <1>4 DEF DeleteRoute, Keeps
    <2> QED
      BY <1>0, <2>1, <2>2, RespectedQuiet DEF Visible
  <1>5. ASSUME NEW p \in Planners,
               ReadOrders(p) \/ EnsureOrdersNotAssignedToActiveRoutes(p) \/ Fail(p)
        PROVE  Respected'
    <2>1. UNCHANGED routes /\ \A q \in Planners : q # p => req'[q] = req[q]
      BY <1>0, <1>5 DEF ReadOrders, EnsureOrdersNotAssignedToActiveRoutes, Fail, Reads, TypeOK
    <2>2. \/ req'[p] = Idle
          \/ /\ req'[p].op = req[p].op /\ req'[p].target = req[p].target
             /\ req'[p].route = req[p].route /\ req'[p].version = req[p].version
             /\ req'[p].stale = req[p].stale /\ req'[p].pc # "idle"
      <3>1. CASE ReadOrders(p)
        <4> DEFINE assigns == { o \in req[p].orders :
                                  req[p].courier # None /\ shouldTransitionToAssigned(status[o]) }
        <4>1. req' = [req EXCEPT ![p] = [req[p] EXCEPT !.pc = "conflicts", !.assigns = assigns]]
          BY <3>1 DEF ReadOrders
        <4> HIDE DEF assigns
        <4>2. req[p] \in Request /\ req \in [Planners -> Request]
          BY <1>0 DEF TypeOK
        <4> DEFINE next == [req[p] EXCEPT !.pc = "conflicts", !.assigns = assigns]
        <4>3. /\ next.op = req[p].op /\ next.target = req[p].target
              /\ next.route = req[p].route /\ next.version = req[p].version
              /\ next.stale = req[p].stale /\ next.pc = "conflicts"
          BY <4>2 DEF Request
        <4>4. req'[p] = next
          BY <4>1, <4>2
        <4> QED
          BY <4>3, <4>4
      <3>2. CASE EnsureOrdersNotAssignedToActiveRoutes(p)
        <4> DEFINE next == [req[p] EXCEPT !.pc = "write"]
        <4>1. req'[p] = next /\ req[p] \in Request
          BY <1>0, <3>2 DEF EnsureOrdersNotAssignedToActiveRoutes, TypeOK
        <4>2. /\ next.op = req[p].op /\ next.target = req[p].target
              /\ next.route = req[p].route /\ next.version = req[p].version
              /\ next.stale = req[p].stale /\ next.pc = "write"
          BY <4>1 DEF Request
        <4> QED
          BY <4>1, <4>2
      <3>3. CASE Fail(p)
        BY <1>0, <3>3 DEF Fail, TypeOK
      <3> QED
        BY <1>5, <3>1, <3>2, <3>3
    <2>3. CASE req'[p] = Idle
      BY <1>0, <2>1, <2>3, RespectedQuiet DEF Idle
    <2>4. CASE req'[p] # Idle
      <3>1. req[p].op \in {"plan", "status", "delete"} /\ ~req[p].stale => Checked(req[p])
        BY <1>0 DEF ChecksStand
      <3> QED
        BY <1>0, <2>1, <2>2, <2>4, <3>1, RespectedQuiet DEF ChecksStand, Checked
    <2> QED
      BY <2>3, <2>4
  <1>6. ASSUME NEW p \in Planners, NEW r, NEW planned, NEW new, RowWritten(p, r, planned, new)
        PROVE  Respected'
    BY <1>0, <1>6, RespectedWrite DEF RowWritten
  <1>7. ASSUME NEW p \in Planners, (\E r \in RouteIds : WriteBuild(p, r)) \/ WritePlan(p) \/ WriteStatus(p)
        PROVE  Respected'
    BY <1>6, <1>7, BuildWrites, PlanWrites, StatusWrites
  <1>8. CASE \/ \E o \in Orders, to \in Targets : TransitionOrderStatus(o, to)
             \/ \E o \in Edited, c \in Courier : UpdateOrder(o, c)
             \/ UNCHANGED vars
    <2>1. UNCHANGED << routes, req >>
      BY <1>8 DEF TransitionOrderStatus, UpdateOrder, vars
    <2> QED
      BY <1>0, <2>1 DEF Respected, ChecksStand, Checked, UnbuiltThere
  <1> QED
    BY <1>1, <1>2, <1>3, <1>4, <1>5, <1>7, <1>8 DEF Next, Plan

\* Who ends its request and changes a route has written it; the others leave it.
LEMMA FreshStep == Respected /\ [Next]_vars => FreshWriteRespects
  <1> SUFFICES ASSUME Respected, [Next]_vars,
                      NEW p \in Planners, NEW r \in RouteIds,
                      routes[r] # routes'[r], Ends(p), ~req[p].stale
               PROVE  /\ ~routes[r].deleted
                      /\ routes[r].status = "none" \/ Keeps(routes[r], routes'[r].status)
                      /\ routes[r].status \in {"in_progress", "completed", "cancelled"} =>
                           /\ routes'[r].points = routes[r].points
                           /\ routes'[r].courier = routes[r].courier
                           /\ routes'[r].version = routes[r].version
                      /\ routes'[r].edits > routes[r].edits =>
                           routes'[r].version = routes[r].version + 1
    BY DEF FreshWriteRespects
  <1>0. TypeOK /\ ChecksStand /\ UnbuiltThere
    BY DEF Respected
  <1>1. PICK w \in Planners : (\E x \in RouteIds : WriteBuild(w, x)) \/ WritePlan(w) \/ WriteStatus(w)
    <2>1. CASE UNCHANGED vars
      BY <2>1 DEF vars
    <2>2. CASE \/ \E o \in Orders, to \in Targets : TransitionOrderStatus(o, to)
               \/ \E o \in Edited, c \in Courier : UpdateOrder(o, c)
      BY <2>2 DEF TransitionOrderStatus, UpdateOrder
    <2>3. ASSUME NEW w \in Planners,
                 \/ Plan(w)
                 \/ \E x \in RouteIds, target \in RouteStatus : UpdateRouteStatus(w, x, target)
                 \/ \E x \in RouteIds : DeleteRoute(w, x)
                 \/ ReadOrders(w) \/ EnsureOrdersNotAssignedToActiveRoutes(w) \/ Fail(w)
          PROVE  UNCHANGED routes
      BY <2>3 DEF Plan, BuildRoute, UpdateRoutePlan, UpdateRouteStatus, DeleteRoute, ReadOrders,
                  EnsureOrdersNotAssignedToActiveRoutes, Fail, Reads
    <2> QED
      BY <2>1, <2>2, <2>3 DEF Next
  <1>2. w = p
    <2>1. PICK x, planned : Done(w, x, planned)
      BY <1>1 DEF WriteBuild, WritePlan, WriteStatus
    <2>2. req[p] \in Request
      BY <1>0 DEF TypeOK
    <2>3. [req[p] EXCEPT !.stale = TRUE].pc = req[p].pc
      BY <2>2 DEF Request
    <2> QED
      BY <2>1, <2>3 DEF Done, Ends
  <1>3. CASE \E x \in RouteIds : WriteBuild(p, x)
    <2>1. PICK x \in RouteIds : WriteBuild(p, x)
      BY <1>3
    <2>2. PICK new : RowWritten(p, x, req[p].orders, new) /\ new.edits = 0
      BY <2>1, BuildWrites
    <2>3. x = r /\ routes'[r] = new /\ routes[r].status = "none" /\ routes[r].edits \in Nat
      BY <1>0, <2>1, <2>2 DEF RowWritten, WriteBuild, TypeOK, Route
    <2> QED
      BY <1>0, <2>2, <2>3 DEF UnbuiltThere
  <1>4. CASE WritePlan(p)
    <2>1. PICK new : /\ RowWritten(p, req[p].route, req[p].orders, new)
                     /\ new.status = req[p].target /\ new.version = req[p].version + 1
      BY <1>4, PlanWrites
    <2>2. req[p].route = r /\ routes'[r] = new
      BY <2>1 DEF RowWritten
    <2>3. Checked(req[p]) /\ req[p].op = "plan"
      BY <1>0, <1>4 DEF ChecksStand, WritePlan
    <2> QED
      BY <2>1, <2>2, <2>3 DEF Checked, isRouteEditableStatus
  <1>5. CASE WriteStatus(p)
    <2>1. PICK new : /\ RowWritten(p, req[p].route, {}, new)
                     /\ new.status = req[p].target
                     /\ new.points = routes[req[p].route].points
                     /\ new.courier = routes[req[p].route].courier
                     /\ new.version = routes[req[p].route].version
                     /\ new.edits = routes[req[p].route].edits
      BY <1>5, StatusWrites
    <2>2. req[p].route = r /\ routes'[r] = new
      BY <2>1 DEF RowWritten
    <2>3. Checked(req[p])
      BY <1>0, <1>5 DEF ChecksStand, WriteStatus
    <2>4. routes[r].edits \in Nat
      BY <1>0 DEF TypeOK, Route
    <2> QED
      BY <2>1, <2>2, <2>3, <2>4 DEF Checked
  <1> QED
    BY <1>1, <1>2, <1>3, <1>4, <1>5

\* A request that was not overtaken moves a route along the state machine, leaves the
\* plan of a route under way alone and numbers the plans one by one.
THEOREM FreshCorrect == Spec => FreshWritesRespectRoute
  BY RespectedInit, RespectedStep, FreshStep, PTL DEF Spec, FreshWritesRespectRoute

=============================================================================
