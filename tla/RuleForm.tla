------------------------------ MODULE RuleForm ------------------------------
(***************************************************************************)
(* The page on which payment rules are made (PaymentRulesConstructor).     *)
(*                                                                         *)
(* Every open page has a list of rules, as fresh as its last load, and one *)
(* form.  A rule is put into the form field by field, edited there, and    *)
(* sent back whole, so that what nobody typed is sent as well, as old as   *)
(* it may be.  The form stays as it is when the request is answered.  The  *)
(* editors of PaymentRules are the pages, and its requests are theirs.     *)
(*                                                                         *)
(* The unit of time is half a minute: the inputs for date and time have    *)
(* whole minutes.  Names and reasons are data; the inputs keep values from *)
(* being negative or empty.                                                *)
(***************************************************************************)
EXTENDS PaymentRules

CONSTANTS
  Now,     \* the time
  Typings  \* bound: what is typed into which fields, on each page

\* The inputs of the form and what they take.
FieldValues ==
  [ name |-> Nat, type |-> PaymentRuleType, value |-> Nat, zone |-> Zones \cup {None},
    metric |-> FormMetrics, threshold |-> Nat, period |-> GuaranteePeriod, active |-> BOOLEAN,
    from |-> Nat \cup {None}, to |-> Nat \cup {None} ]

\* Rules are made with the form: they have the conditions of their type and no others.
FromForm(rule) ==
  /\ rule.type \in {"per_km", "per_order"} => rule.on = None
  /\ rule.type \notin {"bonus", "penalty"} => rule.threshold = 0

ASSUME RuleFormAssumption ==
  /\ Now \in Nat
  /\ \A p \in Editors : \A field \in DOMAIN FieldValues \cap DOMAIN Typings[p] :
       Typings[p][field] \subseteq FieldValues[field]
  /\ \A rule \in NewRules : FromForm(rule)
  /\ Zones \cap SupportedMetric = {}
  /\ Kept \notin PaymentRuleType \cup Topic /\ Kept \notin BOOLEAN /\ Kept \notin Nat

VARIABLES
  list, \* of each page, the rules it shows
  form, \* of each page, RuleFormState
  sent  \* of each page, the request under way

pageVars == << list, form, sent >>

NoRequest == [id |-> None, payload |-> None, typed |-> {}]

Sample == [ start |-> Now, end |-> Now, period |-> None,
            did |-> [t \in Zones \cup SupportedMetric |->
                       CASE t = "distance_km"      -> 42
                         [] t = "completed_orders" -> 18
                         [] t = "completed_routes" -> 6
                         [] OTHER                  -> 1] ]

\* typed is a history field: the fields typed into since the form was filled.
DefaultForm ==
  [ id |-> None, name |-> 1, type |-> "per_order", value |-> 2500000, zone |-> None,
    metric |-> "delivered_orders", threshold |-> 10, period |-> "weekly", active |-> TRUE,
    from |-> None, to |-> None, typed |-> {} ]

-----------------------------------------------------------------------------
(* Between a rule and the form.                                            *)

Threshold(type, threshold) == IF type \in {"bonus", "penalty"} THEN threshold ELSE 0

BuildConditions(f) ==
  CASE f.type = "zone_rate"             -> f.zone
    [] f.type \in {"bonus", "penalty"}  -> f.metric
    [] f.type = "minimum_guarantee"     -> f.period
    [] OTHER                            -> None

RequiresConditions(type) == type \notin {"per_km", "per_order"}

\* What formToPayload does not refuse.
Sendable(f) == RequiresConditions(f.type) => BuildConditions(f) # None

\* Mutant: dates that nobody touched are left out, as null.
PayloadWithoutDates(f) ==
  [ name |-> f.name, type |-> f.type, value |-> f.value, on |-> BuildConditions(f),
    threshold |-> Threshold(f.type, f.threshold), active |-> f.active,
    from |-> IF "from" \in f.typed THEN f.from ELSE None,
    to |-> IF "to" \in f.typed THEN f.to ELSE None ]

FormToPayload(f) ==
  [ name |-> f.name, type |-> f.type, value |-> f.value, on |-> BuildConditions(f),
    threshold |-> Threshold(f.type, f.threshold), active |-> f.active,
    from |-> f.from, to |-> f.to ]

\* toInputDateTime.
WholeMinute(t) == IF t = None THEN None ELSE t - (t % 2)

RuleToForm(k, row) ==
  LET rule == row.rule
      Read(set, default) == IF rule.on \in set THEN rule.on ELSE default
  IN [ id |-> << k, row.version >>, name |-> rule.name, type |-> rule.type, value |-> rule.value,
       zone |-> Read(Zones, None),
       metric |-> Read(SupportedMetric \cup FormMetrics, "delivered_orders"),
       threshold |-> IF rule.type \in {"bonus", "penalty"} THEN rule.threshold ELSE 10,
       period |-> Read(GuaranteePeriod, "weekly"), active |-> rule.active,
       from |-> WholeMinute(rule.from), to |-> WholeMinute(rule.to), typed |-> {} ]

\* getSampleMetricValue.
SampleOf(metric) ==
  IF metric = "late_orders" THEN 1
  ELSE Sample.did[IF metric \in SupportedMetric THEN metric ELSE "completed_orders"]

\* Mutant: what is above the threshold counts.
SimulateAbove(f) ==
  CASE f.type = "zone_rate" -> IF f.zone = None THEN 0 ELSE f.value
    [] f.type = "per_km"    -> f.value * Sample.did["distance_km"]
    [] f.type = "per_order" -> f.value * Sample.did["completed_orders"]
    [] f.type = "bonus"     -> IF SampleOf(f.metric) > f.threshold THEN f.value ELSE 0
    [] f.type = "penalty"   -> IF SampleOf(f.metric) > f.threshold THEN -f.value ELSE 0
    [] OTHER                -> f.value

\* simulateRule: the amount that is shown for the draft.
SimulateRule(f) ==
  CASE f.type = "zone_rate" -> IF f.zone = None THEN 0 ELSE f.value
    [] f.type = "per_km"    -> f.value * Sample.did["distance_km"]
    [] f.type = "per_order" -> f.value * Sample.did["completed_orders"]
    [] f.type = "bonus"     -> IF SampleOf(f.metric) >= f.threshold THEN f.value ELSE 0
    [] f.type = "penalty"   -> IF SampleOf(f.metric) >= f.threshold THEN -f.value ELSE 0
    [] OTHER                -> f.value

-----------------------------------------------------------------------------
(* The page.                                                               *)

\* listPaymentRules as the page asks for it: the latest versions, active and in effect.
Listed(k) ==
  IF versions[k] = << >> THEN None
  ELSE LET rule == Latest(k).rule IN
       IF /\ rule.active
          /\ rule.from # None => rule.from <= Now
          /\ rule.to # None => rule.to >= Now
       THEN Latest(k) ELSE None

\* The list is loaded on entry, after a mutation, and when it is stale.
LoadRules(p) ==
  /\ list' = [list EXCEPT ![p] = [k \in Keys |-> Listed(k)]]
  /\ UNCHANGED << vars, form, sent >>

\* The button for a new rule.
ResetForm(p) ==
  /\ form' = [form EXCEPT ![p] = DefaultForm]
  /\ UNCHANGED << vars, list, sent >>

\* Another page of the application: what was typed is gone, the list soon after.
LeavePage(p) ==
  /\ form' = [form EXCEPT ![p] = DefaultForm]
  /\ list' = [list EXCEPT ![p] = [k \in Keys |-> None]]
  /\ UNCHANGED << vars, sent >>

EditRule(p, k) ==
  /\ list[p][k] # None
  /\ form' = [form EXCEPT ![p] = RuleToForm(k, list[p][k])]
  /\ UNCHANGED << vars, list, sent >>

\* The inputs that the form has for a kind of rule.
FieldsOf(type) ==
  {"name", "type", "value", "from", "to", "active"} \cup
  CASE type = "zone_rate"             -> {"zone"}
    [] type \in {"bonus", "penalty"}  -> {"metric", "threshold"}
    [] type = "minimum_guarantee"     -> {"period"}
    [] OTHER                          -> {}

UpdateForm(p, field, value) ==
  /\ field \in FieldsOf(form[p].type) /\ form[p][field] # value
  /\ form' = [form EXCEPT ![p][field] = value, ![p].typed = @ \cup {field}]
  /\ UNCHANGED << vars, list, sent >>

\* One request at a time: the button is off while one is pending.
HandleSubmit(p) ==
  /\ sent[p] = NoRequest
  /\ Sendable(form[p])
  /\ sent' = [sent EXCEPT ![p] = [ id |-> form[p].id, payload |-> FormToPayload(form[p]),
                                   typed |-> form[p].typed ]]
  /\ UNCHANGED << vars, list, form >>

Answered(p) == sent' = [sent EXCEPT ![p] = NoRequest] /\ UNCHANGED << list, form >>

\* A form without an id makes a rule of its own, each time it is sent.
CreateArrives(p, k) ==
  /\ sent[p].payload # None /\ sent[p].id = None
  /\ CreatePaymentRule(k, sent[p].payload)
  /\ Answered(p)

\* latestRule.id = currentRule.id
IsLatest(p) == Latest(sent[p].id[1]).version = sent[p].id[2]

UpdateArrives(p) ==
  /\ sent[p].id # None
  /\ IsLatest(p)
  /\ FindLatest(p, sent[p].id[1], sent[p].payload)
  /\ UNCHANGED pageVars

UpdateDone(p) == InsertVersion(p) /\ Answered(p)

UpdateFails(p) == InsertFails(p) /\ Answered(p)

\* A request that is refused or lost on its way.
RequestFails(p) ==
  /\ sent[p] # NoRequest /\ edit[p].pc = "idle"
  /\ Answered(p)
  /\ UNCHANGED vars

-----------------------------------------------------------------------------
FormInit ==
  /\ Init
  /\ list = [p \in Editors |-> [k \in Keys |-> None]]
  /\ form = [p \in Editors |-> DefaultForm]
  /\ sent = [p \in Editors |-> NoRequest]

FormNext ==
  \/ \E p \in Editors :
       \/ LoadRules(p) \/ ResetForm(p) \/ LeavePage(p) \/ HandleSubmit(p)
       \/ \E k \in Keys : EditRule(p, k) \/ CreateArrives(p, k)
       \/ \E field \in DOMAIN Typings[p] : \E value \in Typings[p][field] : UpdateForm(p, field, value)
       \/ UpdateArrives(p) \/ UpdateDone(p) \/ UpdateFails(p) \/ RequestFails(p)
  \/ \E k \in Keys, rule \in NewRules : CreatePaymentRule(k, rule) /\ UNCHANGED pageVars
  \/ \E request \in Requests : ReadRules(request) /\ UNCHANGED pageVars
  \/ \E k \in Keys : (AddComponent(k) \/ RejectMetric(k)) /\ UNCHANGED pageVars
  \/ FinishAmount /\ UNCHANGED pageVars

FormSpec == FormInit /\ [][FormNext]_<< vars, pageVars >>

-----------------------------------------------------------------------------
(* Properties.                                                             *)

\* What nobody typed is as it was; the conditions are one field or another of the form.
Untouched(old, new, typed) ==
  /\ \A f \in {"name", "type", "value", "active"} \ typed : new[f] = old[f]
  /\ \A f \in {"from", "to"} \ typed : new[f] = WholeMinute(old[f])
  /\ typed \cap {"type", "zone", "metric", "period"} = {} => new.on = old.on
  /\ typed \cap {"type", "threshold"} = {} => new.threshold = old.threshold

\* A new version differs from the one before it in the fields that were typed into the form it
\* was sent from, and in the seconds of its dates: however old the list was that the form was
\* filled from, and whatever other pages saved meanwhile, nothing of it is undone.
OnlyTypedChanges ==
  [][\A p \in Editors, k \in Keys :
       versions'[k] # versions[k] /\ edit[p].pc = "write" /\ edit'[p].pc = "idle" =>
         LET n == Len(versions[k]) IN
         Untouched(versions[k][n].rule, versions'[k][n + 1].rule, sent[p].typed)]_<< vars, pageVars >>

\* What the page shows for a draft is what a calculation of that rule alone adds for the same
\* metrics, over the period of a guarantee, if it knows the metric.  For a penalty it is the
\* opposite: either the page deducts it or the calculation does, never both or neither.
PreviewTellsPay ==
  \A p \in Editors :
    LET rule  == FormToPayload(form[p])
        shown == SimulateRule(form[p])
        paid  == AmountOf(rule, [Sample EXCEPT !.period = form[p].period], 0)
    IN
    Sendable(form[p]) /\ ~Unsupported(rule) =>
      IF rule.type = "penalty" THEN Cents(-shown) - paid = Cents(rule.value)
      ELSE Cents(shown) = paid

=============================================================================
