--------------------------- MODULE RouteWorkspace ---------------------------
(***************************************************************************)
(* The dispatcher's screen: orders are picked in the list or on the map,   *)
(* routes are built from them, and one route at a time is open in a column *)
(* of the workspace panel, where its stops and courier are edited as local *)
(* state until they are saved or the route is sent to monitoring.          *)
(*                                                                         *)
(* The column lives as long as React keeps it mounted: its key is the      *)
(* route and the version of it that is shown, and skeletons or an error    *)
(* screen take its place while a list of the panel loads or has failed.    *)
(* The dispatcher may build and edit routes (canBuildRoutes, canEditRoutes *)
(* are true) and stays on the page.                                        *)
(***************************************************************************)
EXTENDS DispatchFeed, SequencesExt

VARIABLES
  picked,   \* selectedOrderIds, in the order of the clicks
  selected, \* selectedRouteId
  newDraft, \* newDraftOrderIds
  column,   \* the mounted column and its local state
  request   \* requests of this dispatcher

uiVars == << picked, selected, newDraft, column, request >>
workspaceVars == << feedVars, uiVars >>

-----------------------------------------------------------------------------
(* What is on screen.                                                      *)

MIN_MANUAL_ROUTE_ORDERS == 2

\* plan and raced (history) are those of the row that the column was mounted with.
NoColumn == [kind |-> "none", route |-> None, version |-> 0, points |-> << >>, courier |-> None,
             plan |-> 0, raced |-> FALSE]

DraftColumn(points) == [NoColumn EXCEPT !.kind = "draft", !.points = points]

DetailColumn(r, row) ==
  [kind |-> "detail", route |-> r, version |-> row.version,
   points |-> row.points, courier |-> row.courier, plan |-> row.plan, raced |-> row.raced]

\* isLoading or isError of a query.
Unusable(q) == q.data = NoData \/ q.failed

ShownRoutes == query["routes"].data

\* selectedRoute: the selected route, if the list has it.
Selected(q, sel) ==
  IF sel # None /\ ListedRoute(q["routes"].data[sel]) THEN sel ELSE None

\* Mutant: the key of the column is the route alone.
SameKey(col, r, row) == col.kind = "detail" /\ col.route = r

\* Mutant: the column takes over whatever the list brings.
NeverSame(col, r, row) == FALSE

\* key = route:version.
SameColumn(col, r, row) == col.kind = "detail" /\ col.route = r /\ col.version = row.version

\* The panel after a render: a column stays mounted while its key stays.
Rendered(q, f, draft, sel, col) ==
  IF Unusable(q["routes"]) \/ Unusable(q[f]) THEN NoColumn
  ELSE IF draft # None THEN IF col.kind = "draft" THEN col ELSE DraftColumn(draft)
  ELSE LET r == Selected(q, sel) IN
       IF r = None THEN NoColumn
       ELSE LET row == q["routes"].data[r] IN
            IF SameColumn(col, r, row) THEN col ELSE DetailColumn(r, row)

Rerender == column' = Rendered(query', filter', newDraft', selected', column)

PanelReady == ~Unusable(query["routes"]) /\ ~Unusable(query[filter])

ListedOrders == {o \in Orders : query[filter].data[o] # None}

isRoutableOrder(o) == query[filter].data[o] \notin TERMINAL_ORDER_STATUSES

\* getActiveRouteOrderIds, of all routes shown but one.
BlockedFor(r) ==
  UNION {Elems(ShownRoutes[x].points) :
           x \in {y \in RouteIds \ {r} : ShownRoutes[y].status \in ACTIVE_ROUTE_STATUSES}}

Editable ==
  \/ column.kind = "draft"
  \/ column.kind = "detail" /\ ShownRoutes[column.route].status = "draft"

Dirty ==
  /\ column.kind = "detail"
  /\ \/ column.points # ShownRoutes[column.route].points
     \/ column.courier # ShownRoutes[column.route].courier

-----------------------------------------------------------------------------
(* Requests.  base is the version on screen; live that the column that     *)
(* waits for the answer is still mounted; row what the server is to write  *)
(* and then what it answers; taken the orders that it will move.  As the   *)
(* request leaves (history): newer says that the table has another version *)
(* than the column, unseen that it has another plan, raced that plans of   *)
(* the route have overlapped, excuse that the list was about to be         *)
(* corrected or had missed a change.                                       *)

Idle == [phase |-> "idle", route |-> None, points |-> << >>, orders |-> {}, courier |-> None,
         parts |-> {}, base |-> 0, live |-> FALSE, row |-> NoRow, taken |-> {},
         newer |-> FALSE, unseen |-> FALSE, raced |-> FALSE, excuse |-> FALSE]

Excused == Coming("routes") \/ query["routes"].gap \/ query["routes"].failed

\* A column that is unmounted no longer waits.
Waiting ==
  request' = [request EXCEPT !["save"].live =
            @ /\ column'.kind = "detail" /\ column'.route = request["save"].route
              /\ column'.version = request["save"].base]

WorkspaceInit ==
  /\ FeedInit
  /\ picked = << >> /\ selected = None /\ newDraft = None
  /\ column = NoColumn
  /\ request = [k \in {"build", "save", "send"} |-> Idle]

\* The lists change; the panel renders what they are now.
FeedStep ==
  /\ ServerStep \/ Messages \/ Queries
  /\ UNCHANGED << picked, selected, newDraft >>
  /\ Rerender /\ Waiting

\* Acts of the dispatcher.
UiOnly ==
  /\ Act
  /\ ServerUnchanged /\ UNCHANGED << news, query, filter >>

-----------------------------------------------------------------------------
(* Picking orders and opening a route.                                     *)

\* selectOrder with multiSelect, by a click on the card of the order.
PickOrder(o) ==
  /\ PanelReady /\ o \in ListedOrders
  /\ picked' = IF o \in Elems(picked) THEN Only(picked, Orders \ {o})
               ELSE Append(picked, o)
  /\ UiOnly /\ UNCHANGED << selected, newDraft, column, request >>

\* selectOrder by a plain click on the map.
ClickOrder(o) ==
  /\ PanelReady /\ o \in ListedOrders
  /\ picked' = << o >>
  /\ UiOnly /\ UNCHANGED << selected, newDraft, column, request >>

clearOrderSelection ==
  /\ picked # << >>
  /\ picked' = << >>
  /\ UiOnly /\ UNCHANGED << selected, newDraft, column, request >>

Opens(r, draft) ==
  /\ selected' = r /\ newDraft' = draft
  /\ UiOnly /\ UNCHANGED picked
  /\ Rerender /\ Waiting

\* A click in the list of routes closes the new draft; one on the map does not.
SelectListedRoute(r) == PanelReady /\ ListedRoute(ShownRoutes[r]) /\ Opens(r, None)

SelectRouteOnMap(r) ==
  /\ ~Unusable(query["routes"]) /\ ListedRoute(ShownRoutes[r])
  /\ Opens(r, newDraft)

\* selectedAvailableOrderIds: picked, on the list, routable and on no active route.
AvailablePicks ==
  Only(picked, {o \in ListedOrders : isRoutableOrder(o)} \ BlockedFor(None))

\* handleStartNewDraft, by the button of the empty column.
StartNewDraft ==
  /\ PanelReady /\ column.kind = "none"
  /\ Len(AvailablePicks) >= MIN_MANUAL_ROUTE_ORDERS
  /\ Opens(None, AvailablePicks)

-----------------------------------------------------------------------------
(* Editing the stops and the courier of the open column.                   *)

Edits(points, courier) ==
  /\ column' = [column EXCEPT !.points = points, !.courier = courier]
  /\ UiOnly /\ UNCHANGED << picked, selected, newDraft, request >>

\* A stop moves to its target, an order is inserted there unless it is a stop already.
applyDraggedOrder(points, o, stop, target) ==
  IF ~stop /\ o \in Elems(points) THEN points
  ELSE LET rest == Only(points, Orders \ {o})
           i    == IF target = None THEN 0 ELSE SelectInSeq(rest, LAMBDA x : x = target)
       IN  InsertAt(rest, IF i = 0 THEN Len(rest) + 1 ELSE i, o)

CanTake(o) == Editable /\ o \notin BlockedFor(column.route)

\* The drop handler of a stop runs, and the event goes on to the one of the list
\* around it (handleDropOnPoint, then handleDropAtEnd).
Dropped(points, o, stop, target) ==
  applyDraggedOrder(applyDraggedOrder(points, o, stop, target), o, stop, None)

DropStop(o, target) ==
  /\ o \in Elems(column.points) /\ target \in Elems(column.points) \cup {None}
  /\ CanTake(o)
  /\ Edits(Dropped(column.points, o, TRUE, target), column.courier)

DropCard(o, target) ==
  /\ column.kind # "none" /\ o \in ListedOrders
  /\ target \in Elems(column.points) \cup {None}
  /\ CanTake(o)
  /\ Edits(Dropped(column.points, o, FALSE, target), column.courier)

\* dragend on the map: both the column and the panel hear of it, and the panel leaves
\* it to the column.
DropFromMap(o) ==
  /\ column.kind # "none" /\ o \in ListedOrders \ Elems(column.points)
  /\ CanTake(o) /\ isRoutableOrder(o)
  /\ Edits(Append(column.points, o), column.courier)

\* handleAddSelected of the detail column.
AddSelected ==
  LET added == Only(picked, {o \in ListedOrders : isRoutableOrder(o)}
                              \ (Elems(column.points) \cup BlockedFor(column.route)))
  IN  /\ column.kind = "detail" /\ Editable /\ added # << >>
      /\ Edits(column.points \o added, column.courier)

RemovePoint(o) ==
  /\ o \in Elems(column.points) /\ Editable
  /\ Edits(Only(column.points, Orders \ {o}), column.courier)

ChooseCourier(c) ==
  /\ column.kind = "detail" /\ Editable /\ c # column.courier
  /\ Edits(column.points, c)

\* handleReset.
Reset ==
  /\ Dirty /\ ~request["save"].live
  /\ Edits(ShownRoutes[column.route].points, ShownRoutes[column.route].courier)

Edit ==
  \/ \E o \in Orders :
       \/ \E t \in Orders \cup {None} : DropStop(o, t) \/ DropCard(o, t)
       \/ DropFromMap(o) \/ RemovePoint(o)
  \/ AddSelected \/ Reset
  \/ \E c \in Couriers \cup {None} : ChooseCourier(c)

-----------------------------------------------------------------------------
(* Sending requests; one of each kind at a time (a bound for saves of      *)
(* columns that were unmounted, isPending otherwise).                      *)

Sends(k, r) ==
  /\ request[k].phase = "idle"
  /\ request' = [request EXCEPT ![k] = [r EXCEPT !.phase = "sent"]]
  /\ UiOnly /\ UNCHANGED << picked, selected, newDraft, column >>

\* handleBuildSelectedRoute of the order list.
BuildSelected ==
  LET buildable == {o \in Elems(picked) \cap ListedOrders : isRoutableOrder(o)} IN
  /\ ~Unusable(query[filter])
  /\ Cardinality(buildable) >= 2
  /\ Sends("build", [Idle EXCEPT !.orders = buildable])

OnRoute(parts) ==
  LET row == routes[column.route] IN
  [phase |-> "idle", route |-> column.route, points |-> column.points, orders |-> {},
   courier |-> column.courier, parts |-> parts, base |-> column.version, live |-> TRUE,
   row |-> NoRow, taken |-> {}, newer |-> column.version # row.version,
   unseen |-> column.plan # row.plan, raced |-> column.raced \/ row.raced, excuse |-> Excused]

\* handleSave sends the parts that were changed.
Save ==
  LET row == ShownRoutes[column.route] IN
  /\ Dirty /\ Editable
  /\ Len(column.points) >= MIN_MANUAL_ROUTE_ORDERS
  /\ Sends("save", OnRoute({p \in {"points", "courier"} : column[p] # row[p]}))

\* handleSendToMonitoring: a saved draft becomes planned.
SendToMonitoring ==
  /\ column.kind = "detail" /\ Editable /\ ~Dirty
  /\ Len(column.points) >= MIN_MANUAL_ROUTE_ORDERS
  /\ Sends("send", OnRoute({"status"}))

-----------------------------------------------------------------------------
(* The server works on a request, one step for the read of the route, one  *)
(* for the orders and one for the write, and the answer comes back.        *)

\* A request under way, its phase and what it knows.
Serves(k, q) ==
  /\ request' = [request EXCEPT ![k] = q]
  /\ ClientUnchanged /\ UNCHANGED << theirs, budget, picked, selected, newDraft, column >>

OnlyReads == UNCHANGED << orders, routes, news >>

\* What a save makes of the route that was read: the parts that were not sent stay.
SavedRow(q, read) ==
  Planned(read, IF "points" \in q.parts THEN q.points ELSE read.points,
                IF "courier" \in q.parts THEN q.courier ELSE read.courier)

\* updateRoute reads the route: a save asks for other stops, a courier or the order of
\* the stops, which makes it an edit of the plan; to send a route changes the status.
ReadRoute(k) ==
  LET q == request[k] IN
  /\ q.phase = "sent" /\ k \in {"save", "send"} /\ EditableRoute(q.route)
  /\ OnlyReads
  /\ Serves(k, IF k = "save"
               THEN [q EXCEPT !.phase = "orders", !.row = SavedRow(q, routes[q.route])]
               ELSE [q EXCEPT !.phase = "status"])

\* The stops are read and checked; a route to build has the orders of the request.
ReadStops(k) ==
  LET q == request[k]
      stops == IF k = "build" THEN q.orders ELSE Elems(q.row.points) IN
  /\ q.phase = (IF k = "build" THEN "sent" ELSE "orders") /\ k # "send"
  /\ Plannable(q.route, stops)
  /\ OnlyReads
  /\ Serves(k, [q EXCEPT !.phase = "plan", !.taken = TakenBy(stops, q.row.courier)])

\* The provider puts the stops of a new route in an order of its own.
ServeBuild ==
  LET q == request["build"] IN
  /\ q.phase = "plan"
  /\ \E r \in RouteIds, points \in SetToSeqs(q.orders) :
       LET row == Row("draft", 1, points, None) IN
       /\ routes[r].status = "none"
       /\ routes' = [routes EXCEPT ![r] = row]
       /\ news' = TellRoutes /\ UNCHANGED orders
       /\ Serves("build", [q EXCEPT !.phase = "accepted", !.route = r, !.row = row])

ServeSave ==
  LET q == request["save"] IN
  /\ q.phase = "plan"
  /\ WritePlan(q.route, q.row, q.taken)
  /\ Serves("save", [q EXCEPT !.phase = "accepted", !.row = Numbered(routes[q.route], @)])

ServeSend ==
  LET q == request["send"] IN
  /\ q.phase = "status"
  /\ WriteStatus(q.route, "planned")
  /\ Serves("send", [q EXCEPT !.phase = "accepted",
                              !.row = [routes[q.route] EXCEPT !.status = "planned"]])

\* A check, the provider or the database ends a request, or the answer does not arrive.
Refuses(k) ==
  /\ request[k].phase \notin {"idle", "refused"}
  /\ OnlyReads
  /\ Serves(k, [request[k] EXCEPT !.phase = "refused", !.row = NoRow, !.taken = {}])

Serve ==
  \/ \E k \in {"build", "save", "send"} : ReadRoute(k) \/ ReadStops(k) \/ Refuses(k)
  \/ ServeBuild \/ ServeSave \/ ServeSend

\* onSuccess of the hook, then the one of the call: the routes are asked for again, and
\* the answer goes to the top of the list.
WithAnswer(q, r, row) ==
  LET known == IF q.data = NoData THEN [x \in RouteIds |-> NoRow] ELSE q.data IN
  SetData(Invalidated("routes", q), [known EXCEPT ![r] = row])

TakeOwnAnswer(k) ==
  LET q == request[k] IN
  /\ q.phase = "accepted"
  /\ IF k = "save" /\ ~q.live
     THEN /\ query' = [query EXCEPT !["routes"] = Invalidated("routes", @)]
          /\ UNCHANGED selected
     ELSE /\ query' = [query EXCEPT !["routes"] = WithAnswer(@, q.route, q.row)]
          /\ selected' = q.route
  /\ ServerUnchanged /\ UNCHANGED << newDraft, news, filter, budget, picked >>
  /\ Rerender
  /\ request' = [request EXCEPT ![k] = Idle,
                        !["save"].live = k # "save" /\ @ /\ column'.kind = "detail"
                                         /\ column'.route = request["save"].route
                                         /\ column'.version = request["save"].base]

TakeRefusal(k) ==
  /\ request[k].phase = "refused"
  /\ request' = [request EXCEPT ![k] = Idle]
  /\ UNCHANGED << feedVars, picked, selected, newDraft, column >>

WorkspaceNext ==
  \/ FeedStep
  \/ \E o \in Orders : PickOrder(o) \/ ClickOrder(o)
  \/ clearOrderSelection \/ StartNewDraft
  \/ \E r \in RouteIds : SelectListedRoute(r) \/ SelectRouteOnMap(r)
  \/ Edit
  \/ BuildSelected \/ Save \/ SendToMonitoring
  \/ Serve
  \/ \E k \in {"build", "save", "send"} : TakeOwnAnswer(k) \/ TakeRefusal(k)

WorkspaceSpec == WorkspaceInit /\ [][WorkspaceNext]_workspaceVars

-----------------------------------------------------------------------------
(* Properties.                                                             *)

\* No order is twice among the stops of a column: drops bubble, cards and stops share
\* handlers, and several buttons add orders (the server refuses duplicates).
StopsOnce == Once(column.points)

\* The server compares no versions, so that a save or a status written over a plan which
\* the dispatcher has not seen is held off by the screen alone (the key of
\* RouteDetailColumn).  When the request leaves, the column has the version that the
\* table has, unless the news of another one is on its way or was lost; and it shows
\* the plan that the table has, unless, besides, plans of the route were written over
\* each other, which gives two plans one version and one key.  What is written
\* after the request has left is not seen, and is overwritten.
OverwritesUnseenOnly ==
  \A k \in {"save", "send"} :
    LET q == request[k] IN
    /\ q.newer => q.excuse
    /\ q.unseen => q.excuse \/ q.raced

\* Together: what a dispatcher sends is a plan, made from the plan of the table as far as
\* its version tells plans apart.
DraftSound == StopsOnce /\ OverwritesUnseenOnly

\* Messages and answers leave an open column and its unsaved edits alone unless a list
\* fails or is not there, or the route has another version on screen or is gone from the
\* list.  A change of the filter is an act of the dispatcher, not news: it is left out,
\* and may close the column when the new list is not there yet.
EditsSurviveNews ==
  [][FeedStep /\ filter' = filter /\ column.kind # "none" =>
       \/ column' = column
       \/ Unusable(query'[filter]) \/ Unusable(query'["routes"])
       \/ /\ column.kind = "detail"
          /\ LET row == query'["routes"].data[column.route] IN
             row.version # column.version \/ ~ListedRoute(row)]_workspaceVars

=============================================================================
