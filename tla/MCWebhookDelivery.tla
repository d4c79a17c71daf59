------------------------- MODULE MCWebhookDelivery -------------------------
(* Values for the small instances of WebhookDelivery that TLC explores.    *)
EXTENDS WebhookDelivery

\* Two faults on each event.
MCMaxFaults == [e \in Events |-> 2]

=============================================================================
