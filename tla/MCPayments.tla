----------------------------- MODULE MCPayments -----------------------------
(* The small instance of PaymentsLedger that TLC explores.                 *)
EXTENDS PaymentsLedger, TLC

=============================================================================
