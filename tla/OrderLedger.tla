---------------------------- MODULE OrderLedger ----------------------------
(***************************************************************************)
(* What the order table promises, with the database's locking left out.    *)
(*                                                                         *)
(* A request takes a snapshot of the orders it wants to move (a plan), and *)
(* some time later the whole plan takes effect in one step or not at all.  *)
(* Every order that moves gets exactly one history row, which records the  *)
(* status of the snapshot as its origin.  The snapshot may be old by then: *)
(* nothing here says that the origin is still the order's status.          *)
(***************************************************************************)
EXTENDS OrderStates, Sequences

CONSTANTS
  Orders,   \* the orders of one company
  Handlers, \* the requests that can be in flight at the same time
  Start     \* the status of each order when the observation begins

VARIABLES
  status,  \* orders.status
  history, \* order_status_history, per order, in commit order
  pending  \* the plan of each request in flight

ledgerVars == << status, history, pending >>

Plan == [Orders -> Entry]

\* A request that moves nothing, or is not in flight.
NoPlan == [o \in Orders |-> Stay]

Moved(plan) == { o \in Orders : Moves(plan[o]) }

LedgerInit ==
  /\ status  = Start
  /\ history = [o \in Orders |-> << >>]
  /\ pending = [h \in Handlers |-> NoPlan]

\* A request wants target[o] for each o of its domain and notes the present.
Submit(h, target) ==
  /\ pending[h] = NoPlan
  /\ \A o \in DOMAIN target : canTransition(status[o], target[o])
  /\ pending' = [pending EXCEPT ![h] =
       [o \in Orders |->
          IF o \in DOMAIN target
          THEN [from |-> status[o], to |-> target[o], seen |-> Len(history[o])]
          ELSE Stay]]
  /\ UNCHANGED << status, history >>

\* Every order the plan moves changes status and gets its row, all at once.
Apply(h) ==
  LET plan == pending[h] IN
  /\ plan # NoPlan
  /\ status'  = [o \in Orders |-> IF o \in Moved(plan) THEN plan[o].to ELSE status[o]]
  /\ history' = [o \in Orders |->
                   IF o \in Moved(plan) THEN Append(history[o], plan[o]) ELSE history[o]]
  /\ pending' = [pending EXCEPT ![h] = NoPlan]

\* A request that fails leaves no trace.
Discard(h) ==
  /\ pending[h] # NoPlan
  /\ pending' = [pending EXCEPT ![h] = NoPlan]
  /\ UNCHANGED << status, history >>

LedgerNext ==
  \E h \in Handlers :
    \/ \E S \in SUBSET Orders :
         \E target \in [S -> OrderStatus] : Submit(h, target)
    \/ Apply(h)
    \/ Discard(h)

LedgerSpec == LedgerInit /\ [][LedgerNext]_ledgerVars

=============================================================================
