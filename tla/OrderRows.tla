----------------------------- MODULE OrderRows -----------------------------
(***************************************************************************)
(* The rows of the orders table under concurrent requests.                 *)
(*                                                                         *)
(* Three kinds of request write an order: a status change                  *)
(* (OrdersService.transitionOrderStatus), a field edit                     *)
(* (OrdersService.updateOrder) and the assignment of a route's courier     *)
(* (RoutingService.syncRouteOrdersWithCourier, several orders in one       *)
(* transaction).  All of them read first and write later, the database     *)
(* runs them at READ COMMITTED, and only the write takes the row's lock.   *)
(* A request in flight may fail at any point: a validation error after     *)
(* the read, the interactive transaction's time limit, a deadlock, or the  *)
(* end of the process.                                                     *)
(***************************************************************************)
EXTENDS OrderStates, Sequences, FiniteSets

CONSTANTS
  Orders,   \* the orders of one company
  Handlers, \* the requests that can be in flight at the same time
  Nobody,   \* holder of a row lock that is free
  Start,    \* the status of each order when the observation begins
  Targets,  \* bound: the statuses that status changes ask for
  MaxRows   \* bound: per order, the history rows after which no request moves it

ASSUME OrderRowsAssumption ==
  /\ Start \in [Orders -> OrderStatus]
  /\ Nobody \notin Handlers
  /\ Targets \subseteq OrderStatus
  /\ MaxRows \in [Orders -> Nat]

VARIABLES
  status,    \* orders.status, the committed value
  history,   \* order_status_history, per order, in commit order
  audit,     \* audit_logs rows with action 'order.status-changed', per order
  published, \* order.status-changed events, per order: the history rows they report
  holder,    \* who holds the lock of each row
  job        \* what each request is doing

vars == << status, history, audit, published, holder, job >>

-----------------------------------------------------------------------------
(* A request plans a move for some orders and updates its rows, which may   *)
(* be more: an edit, or the courier of an order that stays in its status.  *)

Plan == [Orders -> Entry]

NoPlan == [o \in Orders |-> Stay]

Moved(plan) == { o \in Orders : Moves(plan[o]) }

\* The number of the history row to report for each order, 0 for none.
Report == [Orders -> Nat]

NoReport == [o \in Orders |-> 0]

\* rows is the order in which the transaction updates its rows, at the next one.
Job == [pc : {"idle", "working", "publishing"}, plan : Plan, rows : Seq(Orders),
        at : Nat, report : Report]

Idle == [pc |-> "idle", plan |-> NoPlan, rows |-> << >>, at |-> 1, report |-> NoReport]

Working(plan, rows) ==
  [pc |-> "working", plan |-> plan, rows |-> rows, at |-> 1, report |-> NoReport]

Publishing(report, rows) ==
  [pc |-> "publishing", plan |-> NoPlan, rows |-> rows, at |-> 1, report |-> report]

\* The plan that moves each order o of target's domain to target[o], as of now.
PlanFor(target) ==
  [o \in Orders |->
     IF o \in DOMAIN target
     THEN [from |-> status[o], to |-> target[o], seen |-> Len(history[o])]
     ELSE Stay]

Init ==
  /\ status    = Start
  /\ history   = [o \in Orders |-> << >>]
  /\ audit     = [o \in Orders |-> << >>]
  /\ published = [o \in Orders |-> << >>]
  /\ holder    = [o \in Orders |-> Nobody]
  /\ job       = [h \in Handlers |-> Idle]

-----------------------------------------------------------------------------
(* The reads.                                                              *)

Bounded(o) == Len(history[o]) < MaxRows[o]

Open(h) ==
  /\ job[h].pc = "idle"
  /\ UNCHANGED << status, history, audit, published, holder >>

\* transitionOrderStatus: find the order and check the move; an illegal move is
\* rejected and changes nothing.
TransitionOrderStatus(h, o, to) ==
  /\ Open(h)
  /\ Bounded(o)
  /\ canTransition(status[o], to)
  /\ job' = [job EXCEPT ![h] = Working(PlanFor([x \in {o} |-> to]), << o >>)]

\* updateOrder: writes the columns of the request body, never the status.
UpdateOrder(h, o) ==
  /\ Open(h)
  /\ job' = [job EXCEPT ![h] = Working(NoPlan, << o >>)]

\* The orders a route request carries: each at most once.
RouteOrderIds ==
  UNION { { s \in [1..n -> Orders] : \A i, j \in 1..n : s[i] = s[j] => i = j } :
          n \in 1..Cardinality(Orders) }

ToAssign(rows) ==
  { o \in Orders : /\ \E i \in DOMAIN rows : rows[i] = o
                   /\ shouldTransitionToAssigned(status[o]) }

\* buildRoute and updateRoute with a courier: the orders are read before the
\* provider is called, none may be final, and they are written in the order of
\* the request.
SyncRouteOrdersWithCourier(h, rows) ==
  /\ Open(h)
  /\ \A i \in DOMAIN rows : Bounded(rows[i]) /\ status[rows[i]] \notin TERMINAL_ORDER_STATUSES
  /\ job' = [job EXCEPT ![h] =
               Working(PlanFor([x \in ToAssign(rows) |-> "assigned"]), rows)]

-----------------------------------------------------------------------------
(* The writes.                                                             *)

NextRow(h) == job[h].rows[job[h].at]

InTransaction(h) == job[h].pc = "working" /\ job[h].at <= Len(job[h].rows)

\* Mutant: the update runs outside the transaction and shows at once.
WriteRowOutside(h) ==
  /\ InTransaction(h)
  /\ holder[NextRow(h)] = Nobody
  /\ holder' = [holder EXCEPT ![NextRow(h)] = h]
  /\ status' = IF NextRow(h) \in Moved(job[h].plan)
               THEN [status EXCEPT ![NextRow(h)] = job[h].plan[NextRow(h)].to]
               ELSE status
  /\ job' = [job EXCEPT ![h].at = @ + 1]
  /\ UNCHANGED << history, audit, published >>

\* An UPDATE takes the lock of the row and keeps it until the transaction ends.
\* Others see the new values at the commit only.
WriteRow(h) ==
  /\ InTransaction(h)
  /\ holder[NextRow(h)] = Nobody
  /\ holder' = [holder EXCEPT ![NextRow(h)] = h]
  /\ job' = [job EXCEPT ![h].at = @ + 1]
  /\ UNCHANGED << status, history, audit, published >>

\* Mutant: an ended transaction keeps its locks.
NotReleased(h) == holder

Released(h) == [o \in Orders |-> IF holder[o] = h THEN Nobody ELSE holder[o]]

\* Mutant: the status is not part of the transaction's last writes.
CommitLogsOnly(h) ==
  LET plan == job[h].plan IN
  /\ job[h].pc = "working"
  /\ job[h].at > Len(job[h].rows)
  /\ \E stale \in SUBSET Moved(plan) :
       status' = [o \in Orders |->
                    IF o \in Moved(plan) \ stale THEN plan[o].to ELSE status[o]]
  /\ history' = [o \in Orders |->
                   IF o \in Moved(plan) THEN Append(history[o], plan[o]) ELSE history[o]]
  /\ audit'   = [o \in Orders |->
                   IF o \in Moved(plan)
                   THEN Append(audit[o], [before |-> plan[o].from, after |-> plan[o].to])
                   ELSE audit[o]]
  /\ holder'  = Released(h)
  /\ job' = [job EXCEPT ![h] = Idle]
  /\ UNCHANGED published

\* The commit makes the statuses, the history rows and the audit rows visible
\* together and releases the locks.  The events are published afterwards.
Commit(h) ==
  LET plan == job[h].plan IN
  /\ job[h].pc = "working"
  /\ job[h].at > Len(job[h].rows)
  /\ status'  = [o \in Orders |-> IF o \in Moved(plan) THEN plan[o].to ELSE status[o]]
  /\ history' = [o \in Orders |->
                   IF o \in Moved(plan) THEN Append(history[o], plan[o]) ELSE history[o]]
  /\ audit'   = [o \in Orders |->
                   IF o \in Moved(plan)
                   THEN Append(audit[o], [before |-> plan[o].from, after |-> plan[o].to])
                   ELSE audit[o]]
  /\ holder'  = Released(h)
  /\ job' = [job EXCEPT ![h] =
               Publishing([o \in Orders |->
                             IF o \in Moved(plan) THEN Len(history[o]) + 1 ELSE 0],
                          job[h].rows)]
  /\ UNCHANGED published

\* The transaction ends without a commit, for whatever reason.
Abort(h) ==
  /\ job[h].pc = "working"
  /\ holder' = Released(h)
  /\ job' = [job EXCEPT ![h] = Idle]
  /\ UNCHANGED << status, history, audit, published >>

-----------------------------------------------------------------------------
(* Deadlocks.  Two route requests with common orders may lock them in      *)
(* opposite orders; the database looks for cycles and ends one member.     *)

WaitsFor(h, k) == InTransaction(h) /\ holder[NextRow(h)] = k

Deadlocked(h) ==
  \E cycle \in SUBSET Handlers :
    /\ h \in cycle
    /\ \A x \in cycle :
         (\E y \in cycle : WaitsFor(x, y)) /\ (\E y \in cycle : WaitsFor(y, x))

BreakDeadlock(h) == Deadlocked(h) /\ Abort(h)

-----------------------------------------------------------------------------
(* After the commit: one event per new history row, in the order of rows.  *)

\* Mutant: an event whose delivery failed is sent again.
PublishAgain(h) ==
  /\ job[h].pc = "publishing"
  /\ job[h].at <= Len(job[h].rows)
  /\ published' = IF job[h].report[NextRow(h)] > 0 /\ Len(published[NextRow(h)]) < 2
                  THEN [published EXCEPT ![NextRow(h)] =
                          Append(@, job[h].report[NextRow(h)])]
                  ELSE published
  /\ \E step \in {0, 1} : job' = [job EXCEPT ![h].at = @ + step]
  /\ UNCHANGED << status, history, audit, holder >>

Publish(h) ==
  /\ job[h].pc = "publishing"
  /\ job[h].at <= Len(job[h].rows)
  /\ published' = IF job[h].report[NextRow(h)] > 0
                  THEN [published EXCEPT ![NextRow(h)] =
                          Append(@, job[h].report[NextRow(h)])]
                  ELSE published
  /\ job' = [job EXCEPT ![h].at = @ + 1]
  /\ UNCHANGED << status, history, audit, holder >>

\* The request is answered, or the process ends and the rest of the events is lost.
Finish(h) ==
  /\ job[h].pc = "publishing"
  /\ job' = [job EXCEPT ![h] = Idle]
  /\ UNCHANGED << status, history, audit, published, holder >>

Reply(h) == job[h].at > Len(job[h].rows) /\ Finish(h)

-----------------------------------------------------------------------------
Arrive(h) ==
  \/ \E o \in Orders, to \in Targets : TransitionOrderStatus(h, o, to)
  \/ \E o \in Orders : UpdateOrder(h, o)
  \/ \E rows \in RouteOrderIds : SyncRouteOrdersWithCourier(h, rows)

Next ==
  \E h \in Handlers :
    \/ Arrive(h)
    \/ WriteRow(h)
    \/ Commit(h)
    \/ Abort(h)
    \/ Publish(h)
    \/ Finish(h)

\* A request that runs keeps running, the database hands a contended lock to
\* every waiter in turn and finds every deadlock.
Fairness ==
  \A h \in Handlers :
    /\ SF_vars(WriteRow(h))
    /\ WF_vars(Commit(h) \/ Publish(h) \/ Reply(h))
    /\ WF_vars(BreakDeadlock(h))

Spec == Init /\ [][Next]_vars /\ Fairness

-----------------------------------------------------------------------------
(* Properties.                                                             *)

\* Types of the tables, of the row locks and of the requests in flight.
TypeOK ==
  /\ status    \in [Orders -> OrderStatus]
  /\ history   \in [Orders -> Seq(Entry)]
  /\ audit     \in [Orders -> Seq([before : OrderStatus, after : OrderStatus])]
  /\ published \in [Orders -> Seq(Nat)]
  /\ holder    \in [Orders -> Handlers \cup {Nobody}]
  /\ job       \in [Handlers -> Job]
  /\ \A h \in Handlers : job[h].at \in 1..(Len(job[h].rows) + 1)

\* The status of o after its first n history rows.
StatusAfter(o, n) == IF n = 0 THEN Start[o] ELSE history[o][n].to

\* The three records of an order agree at all times, whatever fails and however
\* requests interleave: the status column is the target of the last history row,
\* and the audit log tells the same moves in the same order as the history.
LogsAgree ==
  \A o \in Orders :
    /\ status[o] = StatusAfter(o, Len(history[o]))
    /\ Len(audit[o]) = Len(history[o])
    /\ \A i \in DOMAIN history[o] :
         audit[o][i] = [before |-> history[o][i].from, after |-> history[o][i].to]

\* Every history row is a move the state machine allows, and it starts from a
\* status the order really had: the one after the rows its request had seen.  (They
\* need not be all rows: the update is by id alone, so that a request with an older
\* read may take an order out of a final status.)
RowsGrounded ==
  \A o \in Orders : \A i \in DOMAIN history[o] :
    LET row == history[o][i] IN
    /\ row.seen < i
    /\ row.from = StatusAfter(o, row.seen)
    /\ canTransition(row.from, row.to)

\* The records of an order tell the truth: they agree, and each row is grounded.
RecordsTrue == LogsAgree /\ RowsGrounded

\* Every order.status-changed event reports a committed history row, and no row
\* is reported twice.  (It may never be reported: see Finish.)
EventsReportRows ==
  \A o \in Orders :
    /\ \A i \in DOMAIN published[o] : published[o][i] \in DOMAIN history[o]
    /\ \A i, j \in DOMAIN published[o] : published[o][i] = published[o][j] => i = j

\* No request stays in flight for ever, although route requests lock several
\* rows in an order of the caller's choice.
RequestsFinish == \A h \in Handlers : job[h].pc # "idle" ~> job[h].pc = "idle"

\* Locks, separate row updates and failures do not show: each plan takes effect
\* at once or not at all.
Ledger == INSTANCE OrderLedger WITH pending <- [h \in Handlers |-> job[h].plan]

ImplementsLedger == Ledger!LedgerSpec

=============================================================================
