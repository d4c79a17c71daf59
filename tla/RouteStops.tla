----------------------------- MODULE RouteStops -----------------------------
(***************************************************************************)
(* The stops of a route: what the routing service, the provider and the    *)
(* dispatcher's browser have in common.                                    *)
(***************************************************************************)
EXTENDS Naturals, Sequences

CONSTANTS
  Orders,   \* the orders that may be stops
  Couriers, \* the couriers a route can be given to
  None      \* null, or nothing yet

Elems(seq) == {seq[i] : i \in DOMAIN seq}

\* No order twice.
Once(points) == \A i, j \in DOMAIN points : points[i] = points[j] => i = j

\* The stops that are members of S, in their order.
Only(points, S) ==
  LET kept[i \in 0 .. Len(points)] ==
        IF i = 0 THEN << >>
        ELSE IF points[i] \in S THEN Append(kept[i - 1], points[i]) ELSE kept[i - 1]
  IN  kept[Len(points)]

=============================================================================
