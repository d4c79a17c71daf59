-------------------------- MODULE MCRoutePlanning --------------------------
(***************************************************************************)
(* Places on a line: two orders are equally far from where the courier may *)
(* be seen; one order is yet to be located.                                *)
(***************************************************************************)
EXTENDS RoutePlanning, TLC

CONSTANTS o1, o2, o3, k1, p1, p2, home, office

MCSpots == {0, 2, 4, 5}

MCDistance == [x \in MCSpots |-> [y \in MCSpots |-> IF x < y THEN y - x ELSE x - y]]

MCSpotOf == home :> 5 @@ office :> 0

MCStart == o1 :> [address |-> office, spot |-> 4] @@ o2 :> [address |-> office, spot |-> 0]
           @@ o3 :> [address |-> home, spot |-> None]

Nothing == [orders |-> Kept, courier |-> Kept, date |-> Kept, optimize |-> Kept, back |-> Kept]

MCBuilds == { [Nothing EXCEPT !.orders = << o1, o2, o3 >>, !.date = 1, !.courier = k1] }

MCUpdates ==
  p1 :> { [Nothing EXCEPT !.date = 2],
          [Nothing EXCEPT !.back = TRUE],
          [Nothing EXCEPT !.orders = << o3, o2, o1 >>] }
  @@ p2 :> { [Nothing EXCEPT !.courier = None],
             [Nothing EXCEPT !.optimize = TRUE],
             [Nothing EXCEPT !.optimize = FALSE] }

MCCorrections == { [address |-> office, spot |-> None] }

\* No legs, or too few, one without a time.
MCLegTimes == { << >>, << None, 1 >> }

=============================================================================
