-------------------------- MODULE MCInboundOrders --------------------------
(* Values for the small instances of InboundOrders that TLC explores.      *)
EXTENDS InboundOrders, TLC

CONSTANTS k1

\* Requests, orders and externalIds are interchangeable, and so are the keys that no
\* failure may strike.
MCSymmetry ==
  Permutations(Requests) \cup Permutations(OrderIds) \cup Permutations(ExternalIds)
    \cup Permutations(Keys \ Faulty)

=============================================================================
