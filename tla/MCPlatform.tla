------------------------------ MODULE MCPlatform ------------------------------
(***************************************************************************)
(* Values for TLC: a company with an administrator and a courier, one      *)
(* whose only user is not active any more, and one that is not there yet.  *)
(***************************************************************************)
EXTENDS Platform, TLC

CONSTANTS c1, c2, c3, u1, u2, u3, u4, e1, z1, z2, n1, n2, f1,
          t1, t2, a1, a2, s1, s2, d1, d2

Someone(c, role, active) == [company |-> c, role |-> role, active |-> active, email |-> Unset]

MCStart == [ u \in Users |->
  CASE u = u1 -> Someone(c1, "admin", TRUE)
    [] u = u2 -> Someone(c1, "courier", TRUE)
    [] u = u3 -> Someone(c2, "dispatcher", FALSE)
    [] OTHER  -> Someone(Unset, "admin", FALSE) ]

MCDefaults == [f \in Flags |-> TRUE]

MCFirstZones == [ z \in Zones |-> IF z = z1 THEN [company |-> c1, name |-> n1, active |-> TRUE]
                                  ELSE NoZone ]

Same == Permutations(Threads) \cup Permutations(Clerks)

=============================================================================
