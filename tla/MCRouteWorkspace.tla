-------------------------- MODULE MCRouteWorkspace --------------------------
(***************************************************************************)
(* Four orders: one confirmed, one in transit, one new and one yet to be   *)
(* entered; a draft route over the first two and room for one more.        *)
(***************************************************************************)
EXTENDS RouteWorkspace, TLC

CONSTANTS a, b, c, d, r1, r2, k1, x1

MCStart == a :> "confirmed" @@ b :> "in_transit" @@ c :> "new" @@ d :> None

MCStartRoute == r1 :> Row("draft", 1, << a, b >>, None) @@ r2 :> NoRow

MCPlans == { << b, a >> }

\* Bound: plans written for a route.
FewVersions == \A r \in RouteIds : routes[r].version <= 3

=============================================================================
