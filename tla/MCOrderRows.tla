---------------------------- MODULE MCOrderRows ----------------------------
(* Values for the small instances of OrderRows that TLC explores.          *)
EXTENDS OrderRows, TLC

CONSTANTS o1, o2

\* One order a route may take up, one that is about to be delivered.
MCStart == (o1 :> "confirmed") @@ (o2 :> "in_transit")

\* The first order may move once more, the second twice.
MCMaxRows == (o1 :> 1) @@ (o2 :> 2)

=============================================================================
