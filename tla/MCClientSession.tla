--------------------------- MODULE MCClientSession ---------------------------
(***************************************************************************)
(* Values for TLC: a dispatcher, and an administrator who registers.       *)
(***************************************************************************)
EXTENDS ClientSession

CONSTANTS u1, u2, r1, r2

MCRoleOf == [u \in People |-> IF u = u1 THEN "dispatcher" ELSE "admin"]

=============================================================================
