--------------------------- MODULE InboundOrders ---------------------------
(***************************************************************************)
(* Orders that a customer's system sends in (IntegrationsService           *)
(* importOrder).                                                           *)
(*                                                                         *)
(* A request is registered under its Idempotency-Key, finds or creates the *)
(* order with its externalId, ties the two together in external_id_map and *)
(* stores its answer with the key.  Each of these is a statement of its    *)
(* own, and the only guards against other requests are the unique indexes: *)
(* one event per key, one order per externalId, one mapping per            *)
(* externalId.  Meanwhile dispatchers create orders too, and edit the      *)
(* externalId of existing ones.                                            *)
(***************************************************************************)
EXTENDS FiniteSets

CONSTANTS
  Keys,        \* idempotency keys
  ExternalIds, \* the customer's names for orders
  Requests,    \* the imports that can be in flight at the same time
  None,        \* no key, no externalId, no order
  OrderIds,    \* bound: orders that can be created
  Faulty       \* bound: the keys whose requests a failure may strike

ASSUME InboundOrdersAssumption ==
  /\ None \notin Keys \cup ExternalIds \cup OrderIds
  /\ Faulty \subseteq Keys

VARIABLES
  event,  \* integration_events, per key
  orders, \* the orders: externalId, and the key of the import that made them
  made,   \* the orders that exist
  map,    \* external_id_map
  req,    \* what each import is doing
  struck, \* (history) the keys whose request met a failure
  edited  \* (history) the orders whose externalId was edited

vars == << event, orders, made, map, req, struck, edited >>

-----------------------------------------------------------------------------
External == ExternalIds \cup {None}

Order == OrderIds \cup {None}

Result == { "none", "created", "existing" }

\* An event without a status does not exist yet.
Event == [ status : {"none", "processing", "succeeded", "failed"},
           external : External, order : Order, result : Result ]

\* seen is the externalId of order when it was read.  recovering: the request is in
\* its catch clause, and the next error leaves it.
Import ==
  [ pc : {"idle", "lookup", "check", "create", "map", "insert", "reread", "answer",
          "recover", "fail"},
    key : Keys \cup {None}, external : External, order : Order, seen : External,
    result : Result, recovering : BOOLEAN ]

Idle == [ pc |-> "idle", key |-> None, external |-> None, order |-> None, seen |-> None,
          result |-> "none", recovering |-> FALSE ]

Init ==
  /\ event  = [k \in Keys |-> [status |-> "none", external |-> None, order |-> None,
                               result |-> "none"]]
  /\ orders = [o \in OrderIds |-> [external |-> None, key |-> None]]
  /\ made   = {}
  /\ map    = [x \in ExternalIds |-> None]
  /\ req    = [h \in Requests |-> Idle]
  /\ struck = {}
  /\ edited = {}

\* The orders that hold x: the unique index allows one.
Holders(x) == { o \in made : orders[o].external = x }

Becomes(h, q) == req' = [req EXCEPT ![h] = q]

Goto(h, pc) == Becomes(h, [req[h] EXCEPT !.pc = pc])

End(h) == Becomes(h, Idle)

\* A conflict over the externalId: the catch clause tries to recover from it.
Recovers(h) == Becomes(h, [req[h] EXCEPT !.pc = "recover", !.recovering = TRUE])

\* Any other error: the try block hands it to the catch clause, which stores it, and the
\* catch clause to the caller.
Throws(h) == IF req[h].recovering THEN End(h) ELSE Goto(h, "fail")

Creates(o, x, k) ==
  /\ o \notin made
  /\ made' = made \cup {o}
  /\ orders' = [orders EXCEPT ![o] = [external |-> x, key |-> k]]

-----------------------------------------------------------------------------
(* importOrder.                                                            *)

\* createInboundEventOrGetCached, with a new key.  (With a known one the request gets
\* the stored answer or an error, and nothing changes.)
CreateInboundEvent(h, k, x) ==
  /\ req[h].pc = "idle"
  /\ event[k].status = "none"
  /\ event' = [event EXCEPT ![k] = [status |-> "processing", external |-> x,
                                    order |-> None, result |-> "none"]]
  /\ Becomes(h, [Idle EXCEPT !.pc = "lookup", !.key = k, !.external = x])
  /\ UNCHANGED << orders, made, map, struck, edited >>

\* resolveExistingMappedOrder.  A mapping never changes, so ensureExternalIdMap has
\* nothing to add for an order found this way.
ResolveExistingMappedOrder(h) ==
  LET o == map[req[h].external] IN
  /\ req[h].pc = "lookup"
  /\ IF o = None
     THEN Goto(h, "check")
     ELSE Becomes(h, [req[h] EXCEPT !.pc = "answer", !.order = o,
                                    !.seen = orders[o].external, !.result = "existing"])
  /\ UNCHANGED << event, orders, made, map, struck, edited >>

\* createOrder: ensureUniqueOrderKeys.  An order with this externalId is a conflict
\* that the request recovers from; for other reasons it is refused.
EnsureUniqueOrderKeys(h) ==
  /\ req[h].pc = "check"
  /\ \/ Holders(req[h].external) = {} /\ Goto(h, "create")
     \/ Holders(req[h].external) # {} /\ Recovers(h)
     \/ Goto(h, "fail")
  /\ UNCHANGED << event, orders, made, map, struck, edited >>

\* createOrder: the insert.  The unique index decides a race, with an error of its own
\* that is not recovered from.
CreateOrder(h, o) ==
  LET x == req[h].external IN
  /\ req[h].pc = "create"
  /\ IF Holders(x) = {}
     THEN /\ Creates(o, x, req[h].key)
          /\ Becomes(h, [req[h] EXCEPT !.pc = "map", !.order = o, !.seen = x,
                                       !.result = "created"])
     ELSE Throws(h) /\ UNCHANGED << orders, made >>
  /\ UNCHANGED << event, map, struck, edited >>

Mapped(h) == IF req[h].recovering THEN "reread" ELSE "answer"

\* Mutant: whatever the mapping says will do.
FindAnyMap(h) ==
  /\ req[h].pc = "map"
  /\ IF map[req[h].external] = None THEN Goto(h, "insert") ELSE Goto(h, Mapped(h))
  /\ UNCHANGED << event, orders, made, map, struck, edited >>

\* ensureExternalIdMap: look first.  A mapping to another order is an error.
FindExternalIdMap(h) ==
  LET o == map[req[h].external] IN
  /\ req[h].pc = "map"
  /\ IF o = None THEN Goto(h, "insert")
     ELSE IF o = req[h].order THEN Goto(h, Mapped(h))
     ELSE Throws(h)
  /\ UNCHANGED << event, orders, made, map, struck, edited >>

\* Mutant: the mapping is left for later.
InsertLater(h) ==
  /\ req[h].pc = "insert"
  /\ Goto(h, Mapped(h))
  /\ UNCHANGED << event, orders, made, map, struck, edited >>

\* ensureExternalIdMap: then insert, unless another request was faster.
InsertExternalIdMap(h) ==
  LET x == req[h].external IN
  /\ req[h].pc = "insert"
  /\ IF map[x] = None
     THEN map' = [map EXCEPT ![x] = req[h].order] /\ Goto(h, Mapped(h))
     ELSE Throws(h) /\ UNCHANGED map
  /\ UNCHANGED << event, orders, made, struck, edited >>

\* The stored answer.
Succeeded(h) ==
  [status |-> "succeeded", external |-> req[h].external, order |-> req[h].order,
   result |-> req[h].result]

\* markEventSucceeded.
MarkEventSucceeded(h) ==
  /\ req[h].pc = "answer" /\ req[h].seen # None
  /\ event' = [event EXCEPT ![req[h].key] = Succeeded(h)]
  /\ End(h)
  /\ UNCHANGED << orders, made, map, struck, edited >>

\* mapIntegrationOrderResponse refuses an order without an externalId, with a conflict
\* that names it.
OrderWithoutExternalId(h) ==
  /\ req[h].pc = "answer" /\ req[h].seen = None
  /\ IF req[h].recovering THEN End(h) ELSE Recovers(h)
  /\ UNCHANGED << event, orders, made, map, struck, edited >>

\* Mutant: recovery takes any order.
RecoverAnyOrder(h) ==
  /\ req[h].pc = "recover"
  /\ \/ \E o \in made :
          Becomes(h, [req[h] EXCEPT !.pc = "map", !.order = o, !.result = "existing"])
     \/ Holders(req[h].external) = {} /\ Goto(h, "fail")
  /\ UNCHANGED << event, orders, made, map, struck, edited >>

\* tryRecoverExistingOrder: find the order that holds the externalId now.
TryRecoverExistingOrder(h) ==
  /\ req[h].pc = "recover"
  /\ \/ \E o \in Holders(req[h].external) :
          Becomes(h, [req[h] EXCEPT !.pc = "map", !.order = o, !.result = "existing"])
     \/ Holders(req[h].external) = {} /\ Goto(h, "fail")
  /\ UNCHANGED << event, orders, made, map, struck, edited >>

\* tryRecoverExistingOrder: read it again once it is mapped.
Reread(h) ==
  /\ req[h].pc = "reread"
  /\ Becomes(h, [req[h] EXCEPT !.pc = "answer", !.seen = orders[req[h].order].external])
  /\ UNCHANGED << event, orders, made, map, struck, edited >>

\* markEventFailed.
MarkEventFailed(h) ==
  /\ req[h].pc = "fail"
  /\ event' = [event EXCEPT ![req[h].key].status = "failed"]
  /\ End(h)
  /\ UNCHANGED << orders, made, map, struck, edited >>

-----------------------------------------------------------------------------
(* Failures and the dispatchers.                                           *)

\* A statement fails or the process ends.  (A statement that takes effect and still
\* fails is one that fails before the next statement.)
Fault(h) ==
  /\ req[h].pc # "idle" /\ req[h].key \in Faulty
  /\ struck' = struck \cup {req[h].key}
  /\ End(h) \/ (req[h].pc # "fail" /\ Throws(h))
  /\ UNCHANGED << event, orders, made, map, edited >>

\* The answer is stored, but the request does not hear of it.
AnswerLost(h) ==
  /\ req[h].pc = "answer" /\ req[h].seen # None /\ req[h].key \in Faulty
  /\ struck' = struck \cup {req[h].key}
  /\ event' = [event EXCEPT ![req[h].key] = Succeeded(h)]
  /\ Throws(h)
  /\ UNCHANGED << orders, made, map, edited >>

\* createOrder for a dispatcher.
CreateByHand(o, x) ==
  /\ Holders(x) = {}
  /\ Creates(o, x, None)
  /\ UNCHANGED << event, map, req, struck, edited >>

\* updateOrder with another externalId, or none.
EditExternalId(o, x) ==
  /\ o \in made /\ orders[o].external # x
  /\ x = None \/ Holders(x) = {}
  /\ orders' = [orders EXCEPT ![o].external = x]
  /\ edited' = edited \cup {o}
  /\ UNCHANGED << event, made, map, req, struck >>

-----------------------------------------------------------------------------
Step(h) ==
  \/ ResolveExistingMappedOrder(h)
  \/ EnsureUniqueOrderKeys(h)
  \/ \E o \in OrderIds : CreateOrder(h, o)
  \/ FindExternalIdMap(h)
  \/ InsertExternalIdMap(h)
  \/ MarkEventSucceeded(h)
  \/ OrderWithoutExternalId(h)
  \/ TryRecoverExistingOrder(h)
  \/ Reread(h)
  \/ MarkEventFailed(h)

Next ==
  \/ \E h \in Requests :
       \/ \E k \in Keys, x \in ExternalIds : CreateInboundEvent(h, k, x)
       \/ Step(h)
       \/ Fault(h)
       \/ AnswerLost(h)
  \/ \E o \in OrderIds, x \in ExternalIds : CreateByHand(o, x)
  \/ \E o \in OrderIds, x \in External : EditExternalId(o, x)

Spec == Init /\ [][Next]_vars

-----------------------------------------------------------------------------
(* Properties.                                                             *)

\* Types of the tables and of the imports in flight.  An import has a key and an
\* externalId exactly while it is in flight, and an answer names its order.
TypeOK ==
  /\ event  \in [Keys -> Event]
  /\ orders \in [OrderIds -> [external : External, key : Keys \cup {None}]]
  /\ made   \subseteq OrderIds
  /\ map    \in [ExternalIds -> Order]
  /\ req    \in [Requests -> Import]
  /\ struck \subseteq Keys /\ edited \subseteq made
  /\ \A h \in Requests : /\ req[h].pc = "idle" <=> req[h].key = None
                         /\ req[h].key = None <=> req[h].external = None
  /\ \A k \in Keys : event[k].status = "succeeded" => event[k].order # None

\* All successful answers about an externalId name one order, the mapped one, however
\* imports race and whatever dispatchers do to the orders.
AnswersAgree ==
  \A k \in Keys :
    event[k].status = "succeeded" => event[k].order = map[event[k].external]

\* At most one import is told that it created the order.
CreatedOnce ==
  \A k, l \in Keys :
    /\ event[k].status = "succeeded" /\ event[k].result = "created"
    /\ event[l].status = "succeeded" /\ event[l].result = "created"
    /\ event[k].external = event[l].external
    => k = l

\* Together: the caller is told the truth about the order of an externalId.
AnswersTrue == AnswersAgree /\ CreatedOnce

\* A mapping leads to the order that holds the externalId, unless a dispatcher has
\* edited that order.
MapFollowsOrders ==
  \A x \in ExternalIds :
    map[x] # None /\ map[x] \notin edited => map[x] \in Holders(x)

\* No order is left behind: once the import that made it has ended, without a failure,
\* the order is mapped, unless a dispatcher has edited it or the one that is.
ImportsMapped ==
  \A o \in made \ edited :
    LET k == orders[o].key
        x == orders[o].external IN
    k # None /\ k \notin struck /\ (\A h \in Requests : req[h].key # k) =>
      map[x] = o \/ map[x] \in edited

\* A stored answer is final, so that every retry gets the same one; only a failure
\* while it is stored can change it.
AnswersStay ==
  [][\A k \in Keys :
       event[k].status \in {"succeeded", "failed"} /\ k \notin struck =>
         event'[k] = event[k]]_vars

=============================================================================
