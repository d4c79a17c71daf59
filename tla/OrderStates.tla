---------------------------- MODULE OrderStates ----------------------------
(***************************************************************************)
(* The order state machine of the backend (order-state-machine.ts) and the *)
(* set of statuses the routing service treats as final.  Pure definitions, *)
(* shared by every module that moves an order.                             *)
(***************************************************************************)
EXTENDS Naturals

\* The enum OrderStatus of the database schema.
OrderStatus ==
  { "new", "confirmed", "assigned", "handed_over", "in_transit",
    "delivered", "undelivered", "returned", "cancelled" }

\* Where an order may go from each status; a final status has no way out.
ORDER_STATUS_TRANSITIONS ==
  [ s \in OrderStatus |->
      CASE s = "new"         -> {"confirmed"}
        [] s = "confirmed"   -> {"assigned"}
        [] s = "assigned"    -> {"handed_over"}
        [] s = "handed_over" -> {"in_transit"}
        [] s = "in_transit"  -> {"delivered", "undelivered", "returned", "cancelled"}
        [] OTHER             -> {} ]

canTransition(from, to) == to \in ORDER_STATUS_TRANSITIONS[from]

\* The routing service keeps its own list of final statuses.
TERMINAL_ORDER_STATUSES == { "delivered", "undelivered", "returned", "cancelled" }

\* Whether giving a route's courier to an order read in status s also moves it.
shouldTransitionToAssigned(s) == s # "assigned" /\ canTransition(s, "assigned")

\* What a request that moves an order notes of it: the status it read, the status
\* it wants and how many history rows the order had when it was read (a history
\* variable).  Stay stands for an order the request leaves in its status.
Entry == [from : OrderStatus, to : OrderStatus, seen : Nat]

Stay == [from |-> "new", to |-> "new", seen |-> 0]

Moves(e) == e.from # e.to

=============================================================================
