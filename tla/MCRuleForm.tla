----------------------------- MODULE MCRuleForm -----------------------------
(* Values for the small instance of RuleForm that TLC explores.            *)
EXTENDS RuleForm, TLC

CONSTANTS z1, e1, e2

\* A rule that is always in effect.
Plain(name, type, value, on, threshold) ==
  [ name |-> name, type |-> type, value |-> value, on |-> on, threshold |-> threshold,
    active |-> TRUE, from |-> None, to |-> None ]

\* Two of them have the same name, so that their keys tell which one comes first.
MCNewRules ==
  { Plain(1, "minimum_guarantee", 50020, "daily", 0),
    Plain(1, "penalty", 60000, "completed_orders", 4),
    [Plain(2, "bonus", 43210, "completed_routes", 6) EXCEPT !.to = 7] }

\* The pages type into different fields.
MCTypings == e1 :> ("name" :> {4}) @@ e2 :> ("type" :> {"bonus", "penalty"})

MCRequests ==
  { [ start |-> 3, end |-> 3, period |-> "daily",
      did |-> [t \in Zones \cup SupportedMetric |-> IF t = "completed_orders" THEN 3 ELSE 1] ] }

\* The pages are closed.
PagesRest ==
  \A p \in Editors :
    form[p] = DefaultForm /\ sent[p] = NoRequest /\ \A k \in Keys : list[p][k] = None

\* Bound: the pages are open while there is but one rule, a bonus or a rate, and a
\* penalty is typed but not sent; other rules come, and a calculation reads them all, when they
\* are closed.
PayDay ==
  \/ PagesRest
  \/ /\ calc.pc = "idle"
     /\ \A p \in Editors : form[p].type # "penalty"
     /\ \A k \in Keys :
          IF k \in Edited THEN \A row \in Rows(k) : row.rule.type \in {"bonus", "per_order"}
          ELSE versions[k] = << >>

=============================================================================
