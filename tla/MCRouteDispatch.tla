-------------------------- MODULE MCRouteDispatch --------------------------
(* Values for the small instance of RouteDispatch that TLC explores.       *)
EXTENDS RouteDispatch, TLC

CONSTANTS r1, r2

\* Only one of the two routes may be edited.
MCOneEdit == (r1 :> 1) @@ (r2 :> 0)

MCStartConfirmed == [o \in Orders |-> "confirmed"]

\* The dispatchers are interchangeable.
MCSymmetry == Permutations(Planners)

=============================================================================
