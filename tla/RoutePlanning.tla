--------------------------- MODULE RoutePlanning ---------------------------
(***************************************************************************)
(* The plan of one route: the order of its stops and their times.          *)
(*                                                                         *)
(* A request that builds, edits or previews the route reads what is stored *)
(* of it, reads the orders, asks for the place of every order that has     *)
(* none and stores it at once, reads where the courier is, has the routing *)
(* provider order the points and time the legs (YandexRoutingProvider, a   *)
(* mock of it or the service itself), and at last stores the plan with the *)
(* options it was made by, in one transaction.  The next edit starts from  *)
(* these options.  Orders and couriers move meanwhile, and requests        *)
(* overtake each other; what becomes of statuses, conflicts and the        *)
(* orders' courier is RouteDispatch's affair.                              *)
(*                                                                         *)
(* Mode, tolls and language of a route are carried along like its options  *)
(* and decide nothing but the speed of the mock, so they are left out.     *)
(***************************************************************************)
EXTENDS Integers, RouteStops, SequencesExt

CONSTANTS
  Addresses,
  Spots,     \* coordinates
  Distance,  \* minutes between two of them
  SpotOf,    \* where an address is
  Kept,      \* a field that a request does not send
  Start,     \* the orders as the observation finds them
  Mode,      \* ROUTING_PROVIDER_MODE
  HasKey,    \* whether there is an API key
  LegTimes,  \* the legs' times that the service may answer
  Planners,  \* the requests that can be in flight at the same time
  Builds,    \* bound: what a build or a preview asks for
  Updates,   \* bound: what the edits of each planner send
  Corrections, \* bound: the addresses and places that orders are given by hand
  Sightings, \* bound: where couriers turn up
  MaxEdits   \* bound: edits of the route

Tours == { points \in Seq(Orders) : points # << >> /\ Once(points) }

OrderRow == [address : Addresses, spot : Spots \cup {None}]

\* BuildRouteDto and UpdateRouteDto.
Dto == [ orders : Tours \cup {Kept}, courier : Couriers \cup {None, Kept}, date : Nat \cup {Kept},
         optimize : BOOLEAN \cup {Kept}, back : BOOLEAN \cup {Kept} ]

ASSUME RoutePlanningAssumption ==
  /\ Distance \in [Spots -> [Spots -> Nat]]
  /\ SpotOf \in [Addresses -> Spots] /\ Start \in [Orders -> OrderRow]
  /\ Mode \in {"auto", "mock", "yandex"} /\ HasKey \in BOOLEAN
  /\ LegTimes \subseteq Seq(Nat \cup {None})
  /\ Builds \subseteq Dto /\ Updates \in [Planners -> SUBSET Dto]
  /\ Corrections \subseteq OrderRow /\ Sightings \subseteq Spots
  /\ Orders \cap Couriers = {} /\ Kept \notin BOOLEAN
  /\ \A dto \in Builds : dto.orders # Kept /\ dto.date # Kept

VARIABLES
  route, \* the route with its points, None before it is built
  order, \* of the orders, the address and the coordinates
  at,    \* where each courier was last seen
  job    \* what each request is doing

planningVars == << route, order, at, job >>

Or(given, old) == IF given = Kept THEN old ELSE given

-----------------------------------------------------------------------------
(* The provider.  A point is an order or, at the start, the courier; where *)
(* maps the points to their coordinates.                                   *)

UsesMock == Mode = "mock" \/ (Mode = "auto" /\ ~HasKey)

\* Mutant: of equally near points the last one is taken.
LastNearest(points, where, visited) ==
  LET here == where[Last(visited)]
      far(i) == Distance[here][where[points[i]]]
      left == { i \in DOMAIN points : ~Contains(visited, points[i]) }
  IN CHOOSE i \in left : \A j \in left : far(i) < far(j) \/ (far(i) = far(j) /\ i >= j)

\* The nearest point that is left; of equally near ones the first.
Nearest(points, where, visited) ==
  LET here == where[Last(visited)]
      far(i) == Distance[here][where[points[i]]]
      left == { i \in DOMAIN points : ~Contains(visited, points[i]) }
  IN CHOOSE i \in left : \A j \in left : far(i) < far(j) \/ (far(i) = far(j) /\ i <= j)

OrderRoutePoints(points, where, optimize) ==
  LET visit[n \in 1 .. Len(points)] ==
        IF n = 1 THEN << points[1] >>
        ELSE Append(visit[n - 1], points[Nearest(points, where, visit[n - 1])])
  IN IF ~optimize \/ Len(points) < 3 THEN points ELSE visit[Len(points)]

BuildRequestPoints(ordered, back) == IF back THEN Append(ordered, ordered[1]) ELSE ordered

Between(points, where, i) == Distance[where[points[i]]][where[points[i + 1]]]

AtLeastAMinute(t) == IF t < 1 THEN 1 ELSE t

BuildMockLegs(points, where) ==
  [i \in 1 .. Len(points) - 1 |-> AtLeastAMinute(Between(points, where, i))]

\* parseYandexRouteResponse: no legs at all are replaced by the mock's, the time of a leg that
\* has none is estimated.
ParseLegs(points, where, answer) ==
  IF answer = << >> THEN BuildMockLegs(points, where)
  ELSE [i \in DOMAIN answer |-> IF answer[i] = None THEN Between(points, where, i) ELSE answer[i]]

\* Mutant: the times of the legs are not added up.
StopsByLeg(ordered, departs, legs) ==
  [i \in DOMAIN ordered |-> departs + (IF i = 1 \/ i - 1 > Len(legs) THEN 0 ELSE legs[i - 1])]

\* When each of the points is reached; a leg that is missing takes no time.
BuildStops(ordered, departs, legs) ==
  LET reached[i \in DOMAIN ordered] ==
        IF i = 1 THEN departs
        ELSE reached[i - 1] + (IF i - 1 > Len(legs) THEN 0 ELSE legs[i - 1])
  IN reached

\* buildRoutePointCreateData: the orders among the points, with the time of each.
PointEtas(ordered, stops) ==
  [o \in Orders |-> IF Contains(ordered, o)
                    THEN stops[CHOOSE i \in DOMAIN ordered : ordered[i] = o] ELSE None]

\* The service and its mock find every address.
Geocode(address) == SpotOf[address]

-----------------------------------------------------------------------------
(* Options and points of a request.                                        *)

Options == [optimize : BOOLEAN, back : BOOLEAN, departs : Nat]

BuildProviderOptions(dto) ==
  [optimize |-> Or(dto.optimize, TRUE), back |-> Or(dto.back, FALSE), departs |-> dto.date]

\* Orders that are sent without a word on optimization are to stay as they are.
BuildUpdatedRouteOptions(stored, dto) ==
  [ optimize |-> Or(dto.optimize, IF dto.orders # Kept THEN FALSE ELSE stored.optimize),
    back     |-> Or(dto.back, stored.back),
    departs  |-> Or(dto.date, stored.departs) ]

RouteHasPlanChanges(dto, row) ==
  \/ {dto.orders, dto.date, dto.optimize, dto.back} # {Kept}
  \/ dto.courier \notin {Kept, row.courier}

\* The courier, if it is known where it is, comes first.
ProviderPoints(orders, courier, seen) == IF seen = None THEN orders ELSE << courier >> \o orders

\* The checks of buildProviderPoints.
EnoughPoints(points, seen, back) == Len(points) >= 2 /\ (back => seen # None)

-----------------------------------------------------------------------------
(* The route and its requests.  asked, seen and spots are history fields:  *)
(* whether the stops were last put in order by hand, where the courier     *)
(* was, and where the orders were when the plan was made.                  *)

Route == [ points : Tours, eta : [Orders -> Nat \cup {None}], courier : Couriers \cup {None},
           date : Nat, options : Options, path : Seq(Orders \cup Couriers), edits : Nat,
           byHand : BOOLEAN, seen : Spots \cup {None}, spots : [Orders -> Spots \cup {None}] ]

\* base: the route as it was read.  rows: the orders as they were read, with the coordinates
\* found since.  stale (history): another request has written the route meanwhile.
NoRequest == [ pc |-> "idle", op |-> "none", dto |-> None, base |-> None, orders |-> << >>,
               courier |-> None, options |-> None, rows |-> None, plan |-> None, stale |-> FALSE ]

PlanningInit ==
  /\ route = None
  /\ order = Start
  /\ at \in [Couriers -> Sightings \cup {None}]
  /\ job = [p \in Planners |-> NoRequest]

\* The route is read, then the orders.  Nothing writes both of them, so that the two reads may
\* be taken as one.
Begin(p, op, dto, base, orders, courier, options) ==
  /\ job[p].pc = "idle"
  /\ job' = [job EXCEPT ![p] =
               [pc |-> "locate", op |-> op, dto |-> dto, base |-> base, orders |-> orders,
                courier |-> courier, options |-> options, rows |-> order, plan |-> None,
                stale |-> FALSE]]
  /\ UNCHANGED << route, order, at >>

\* buildRoute and previewRoute.
BuildRoute(p, op, dto) ==
  /\ op = "build" => route = None
  /\ Begin(p, op, dto, None, dto.orders, Or(dto.courier, None), BuildProviderOptions(dto))

\* updateRoute with plan changes: what is not sent is taken from the route as it is read.
UpdateRoute(p, dto) ==
  /\ route # None /\ route.edits < MaxEdits
  /\ RouteHasPlanChanges(dto, route)
  /\ Begin(p, "edit", dto, route, Or(dto.orders, route.points), Or(dto.courier, route.courier),
           BuildUpdatedRouteOptions(route.options, dto))

Lost(q) == { i \in DOMAIN q.orders : q.rows[q.orders[i]].spot = None }

\* resolveOrderCoordinates, for the first order without: the address that was read is looked up,
\* and its place stored whatever the order's address is by now.
ResolveOrderCoordinates(p) ==
  LET q == job[p]
      o == q.orders[CHOOSE i \in Lost(q) : \A j \in Lost(q) : i <= j]
      spot == Geocode(q.rows[o].address)
  IN
  /\ q.pc = "locate" /\ Lost(q) # {} /\ (UsesMock \/ HasKey)
  /\ order' = [order EXCEPT ![o].spot = spot]
  /\ job' = [job EXCEPT ![p].rows[o].spot = spot]
  /\ UNCHANGED << route, at >>

\* Read the courier, check the points, ask the provider.  A preview ends here.
AskProvider(p, answer) ==
  LET q == job[p]
      seen == IF q.courier = None THEN None ELSE at[q.courier]
      points == ProviderPoints(q.orders, q.courier, seen)
      where == [x \in Elems(points) |-> IF x \in Orders THEN q.rows[x].spot ELSE seen]
      ordered == OrderRoutePoints(points, where, q.options.optimize)
      asked == BuildRequestPoints(ordered, q.options.back)
      legs == IF UsesMock THEN BuildMockLegs(asked, where) ELSE ParseLegs(asked, where, answer)
      stops == BuildStops(ordered, q.options.departs, legs)
  IN
  /\ q.pc = "locate" /\ Lost(q) = {}
  /\ EnoughPoints(points, seen, q.options.back)
  /\ UsesMock \/ (HasKey /\ Len(answer) < Len(asked))
  /\ job' = [job EXCEPT ![p] =
       IF q.op = "preview" THEN NoRequest
       ELSE [q EXCEPT !.pc = "write",
               !.plan = [ path |-> asked, seen |-> seen,
                          points |-> Only(ordered, Orders),
                          eta |-> PointEtas(ordered, stops) ]]]
  /\ UNCHANGED << route, order, at >>

\* Whether the stops are in an order that was asked for.
ByHand(q) ==
  IF q.dto.optimize # Kept THEN ~q.dto.optimize
  ELSE q.op = "edit" /\ (q.dto.orders # Kept \/ q.base.byHand)

\* The transaction of buildRoute or updateRoute: the row and its points.
WriteRoute(p) ==
  LET q == job[p] IN
  /\ q.pc = "write"
  /\ q.op = "build" => route = None
  /\ route' = [ points |-> q.plan.points, eta |-> q.plan.eta, courier |-> q.courier,
                date |-> Or(q.dto.date, IF q.base = None THEN 0 ELSE q.base.date),
                options |-> q.options, path |-> q.plan.path,
                edits |-> IF route = None THEN 0 ELSE route.edits + 1,
                byHand |-> ByHand(q), seen |-> q.plan.seen,
                spots |-> [o \in Orders |-> IF Contains(q.orders, o) THEN q.rows[o].spot ELSE None] ]
  /\ job' = [r \in Planners |->
               IF r = p THEN NoRequest
               ELSE IF job[r].op = "edit" THEN [job[r] EXCEPT !.stale = TRUE] ELSE job[r]]
  /\ UNCHANGED << order, at >>

\* A check, the provider, its time limit or the database ends a request.  The coordinates it
\* has stored stay.
Fail(p) ==
  /\ job[p].pc # "idle"
  /\ job' = [job EXCEPT ![p] = NoRequest]
  /\ UNCHANGED << route, order, at >>

\* OrdersService.updateOrder: an address may change with its coordinates or without.
EditOrder(o, row) ==
  /\ order' = [order EXCEPT ![o] = IF row.spot = None THEN [@ EXCEPT !.address = row.address] ELSE row]
  /\ UNCHANGED << route, at, job >>

\* CouriersService.updateCourierLocation with a location.
MoveCourier(c, spot) ==
  /\ at' = [at EXCEPT ![c] = spot]
  /\ UNCHANGED << route, order, job >>

PlanningNext ==
  \/ \E p \in Planners :
       \/ \E op \in {"build", "preview"}, dto \in Builds : BuildRoute(p, op, dto)
       \/ \E dto \in Updates[p] : UpdateRoute(p, dto)
       \/ ResolveOrderCoordinates(p)
       \/ \E answer \in LegTimes : AskProvider(p, answer)
       \/ WriteRoute(p)
       \/ Fail(p)
  \/ \E o \in Orders, row \in Corrections : EditOrder(o, row)
  \/ \E c \in Couriers, spot \in Sightings : MoveCourier(c, spot)

PlanningSpec == PlanningInit /\ [][PlanningNext]_planningVars

-----------------------------------------------------------------------------
(* Properties.                                                             *)

Writes(p) == job[p].pc = "write" /\ job'[p].pc = "idle" /\ route' # route

\* The stops are where they were, and so is the start.
SameGround == route'.spots = route.spots /\ route'.seen = route.seen

\* Stops that are sent without asking for optimization are stored in the order they are sent in.
\* An edit that is not overtaken, sends no stops and does not ask for optimization, of a date or
\* a courier alone, leaves the stops in their order in three cases: it turns optimization off;
\* the order was last given by hand, however many edits ago; or the order was optimized, and
\* courier and orders are where they were then.  If the courier has moved meanwhile, such an
\* edit of an optimized route may well reorder it.
StopsStay ==
  [][\A p \in Planners :
       LET dto == job[p].dto IN
       Writes(p) /\ job[p].op = "edit" /\ dto.optimize # TRUE =>
         /\ dto.orders # Kept => route'.points = dto.orders
         /\ /\ dto.orders = Kept /\ ~job[p].stale
            /\ dto.optimize = FALSE \/ route.byHand \/ SameGround
            => route'.points = route.points]_planningVars

\* A way back leads to the courier, also after the courier was taken off, replaced or moved.
ReturnsToCourier ==
  route # None /\ route.options.back =>
    /\ route.courier # None
    /\ Head(route.path) = route.courier /\ Last(route.path) = route.courier

\* The stops are reached one after the other and never before the route's date, whichever legs
\* the service leaves out and whichever edit moved the date.
EtasRise ==
  route # None =>
    LET eta(i) == route.eta[route.points[i]] IN
    /\ eta(1) >= route.date
    /\ \A i \in 1 .. Len(route.points) - 1 : eta(i) <= eta(i + 1)

\* Together: the timetable goes forward, from the courier's place and back to it.
TimetableSound == EtasRise /\ ReturnsToCourier

=============================================================================
