---------------------------- MODULE PaymentRules ----------------------------
(***************************************************************************)
(* The rules couriers are paid by (PaymentRulesService) and the amount     *)
(* that a calculation makes of them (buildPaymentBreakdown).               *)
(*                                                                         *)
(* A rule is never edited: an edit reads the latest version, merges what   *)
(* the form sends into it and inserts the next one, whose number a unique  *)
(* index guards.  A calculation reads the latest versions at once and then *)
(* adds one component per rule, in the order of the names.  Penalties      *)
(* subtract, and a minimum guarantee fills up what has been summed before  *)
(* it, so that the order decides what is paid.                             *)
(*                                                                         *)
(* Values are in hundredths of a cent (the form allows four decimals) and  *)
(* amounts in cents.  Names are their ranks in the order of the locale.    *)
(***************************************************************************)
EXTENDS Integers, Sequences, FiniteSetsExt

CONSTANTS
  Keys,       \* rule keys, ordered
  Editors,    \* the edits that can be in flight at the same time
  Zones,      \* zones a rate may be for
  None,       \* null
  Kept,       \* a field that an edit leaves alone
  Edited,     \* bound: rules that are edited
  NewRules,   \* bound: rules the form sends
  Patches,    \* bound: edits the form sends
  Requests,   \* bound: calculations asked for
  MaxVersions \* bound: versions of a rule

PaymentRuleType ==
  { "zone_rate", "per_km", "per_order", "bonus", "penalty", "minimum_guarantee" }

SupportedMetric == { "completed_orders", "completed_routes", "distance_km" }

\* METRIC_VALUES: what the form of the frontend offers, the first of them by default.
FormMetrics == { "delivered_orders", "completed_routes", "distance_km", "late_orders" }

GuaranteePeriod == { "daily", "weekly", "monthly" }

\* What the conditions are about: a zone, a metric or a period.
Topic == Zones \cup SupportedMetric \cup FormMetrics \cup GuaranteePeriod \cup {None}

Rule == [ name : Nat, type : PaymentRuleType, value : Nat, on : Topic, threshold : Nat,
          active : BOOLEAN, from : Nat \cup {None}, to : Nat \cup {None} ]

Patch == [ name : Nat \cup {Kept}, type : PaymentRuleType \cup {Kept}, value : Nat \cup {Kept},
           on : Topic \cup {Kept}, threshold : Nat \cup {Kept}, active : BOOLEAN \cup {Kept},
           from : Nat \cup {None, Kept}, to : Nat \cup {None, Kept} ]

\* A calculation asked for: its period, which guarantee that is the period of, and what
\* the courier did in it.
Request == [ start : Nat, end : Nat, period : GuaranteePeriod \cup {None},
             did : [Zones \cup SupportedMetric -> Nat] ]

ASSUME PaymentRulesAssumption ==
  /\ Keys \subseteq Nat
  /\ NewRules \subseteq Rule /\ Patches \subseteq Patch /\ Requests \subseteq Request
  /\ None \notin Rule \cup Nat

VARIABLES
  versions, \* per rule key, the rows in the order of their insertion
  edit,     \* what each editor's request is doing
  calc      \* the calculation: calculations share nothing but the versions

vars == << versions, edit, calc >>

-----------------------------------------------------------------------------
(* Rules.                                                                  *)

\* by is a history field: the edit that made the version.
Row == [ version : Nat \ {0}, rule : Rule, by : Patch \cup {None} ]

Or(given, old) == IF given = Kept THEN old ELSE given

Merge(rule, patch) ==
  [ name |-> Or(patch.name, rule.name), type |-> Or(patch.type, rule.type),
    value |-> Or(patch.value, rule.value),
    on |-> Or(patch.on, rule.on), threshold |-> Or(patch.threshold, rule.threshold),
    active |-> Or(patch.active, rule.active),
    from |-> Or(patch.from, rule.from), to |-> Or(patch.to, rule.to) ]

\* validatePaymentRuleConfig: any metric will do.
Valid(rule) ==
  /\ rule.type = "zone_rate" => rule.on \in Zones
  /\ rule.type \in {"bonus", "penalty"} => rule.on \in SupportedMetric \cup FormMetrics
  /\ rule.type = "minimum_guarantee" => rule.on \in GuaranteePeriod

\* validateEffectiveWindow, of the bounds that are sent.
WindowOrdered(from, to) == from \in Nat /\ to \in Nat => from <= to

Rows(k) == { versions[k][n] : n \in DOMAIN versions[k] }

Latest(k) == CHOOSE row \in Rows(k) : \A other \in Rows(k) : other.version <= row.version

Edit == [ pc : {"idle", "write"}, key : Keys \cup {None}, base : Row \cup {None},
          patch : Patch \cup {None} ]

Idle == [pc |-> "idle", key |-> None, base |-> None, patch |-> None]

\* createPaymentRule: the first version, under a new key.
CreatePaymentRule(k, rule) ==
  /\ versions[k] = << >>
  /\ Valid(rule) /\ WindowOrdered(rule.from, rule.to)
  /\ versions' = [versions EXCEPT ![k] = << [version |-> 1, rule |-> rule, by |-> None] >>]
  /\ UNCHANGED << edit, calc >>

\* updatePaymentRule: the version named is read, and so is the latest, which must be the
\* same row; rows do not change in between.
FindLatest(e, k, patch) ==
  /\ edit[e].pc = "idle" /\ k \in Edited /\ versions[k] # << >>
  /\ WindowOrdered(patch.from, patch.to)
  /\ Valid(Merge(Latest(k).rule, patch))
  /\ edit' = [edit EXCEPT ![e] = [pc |-> "write", key |-> k, base |-> Latest(k),
                                  patch |-> patch]]
  /\ UNCHANGED << versions, calc >>

NumberFree(k, version) == \A row \in Rows(k) : row.version # version

\* Mutant: no index.
InsertAnyVersion(e) ==
  LET k == edit[e].key
      base == edit[e].base
      next == [version |-> base.version + 1, rule |-> Merge(base.rule, edit[e].patch),
               by |-> edit[e].patch]
  IN
  /\ edit[e].pc = "write" /\ base.version < MaxVersions
  /\ versions' = [versions EXCEPT ![k] = Append(@, next)]
  /\ edit' = [edit EXCEPT ![e] = Idle]
  /\ UNCHANGED calc

\* The insert of the next version, if the index does not have it yet.
InsertVersion(e) ==
  LET k == edit[e].key
      base == edit[e].base
      next == [version |-> base.version + 1, rule |-> Merge(base.rule, edit[e].patch),
               by |-> edit[e].patch]
  IN
  /\ edit[e].pc = "write" /\ base.version < MaxVersions
  /\ NumberFree(k, next.version)
  /\ versions' = [versions EXCEPT ![k] = Append(@, next)]
  /\ edit' = [edit EXCEPT ![e] = Idle]
  /\ UNCHANGED calc

\* The index rejects the insert, or the statement fails.
InsertFails(e) ==
  /\ edit[e].pc = "write"
  /\ edit' = [edit EXCEPT ![e] = Idle]
  /\ UNCHANGED << versions, calc >>

-----------------------------------------------------------------------------
(* The amount.                                                             *)

\* rules: the version of each rule that counts, if any does.  left: the rules still to
\* come.  parts: the components.
Calc == [ pc : {"idle", "adding", "failed", "done"}, request : Request \cup {None},
          rules : [Keys -> Rule \cup {None}], left : SUBSET Keys,
          parts : [Keys -> Int], running : Int, before : Int, topUp : Nat, amount : Nat ]

NoCalc == [ pc |-> "idle", request |-> None, rules |-> [k \in Keys |-> None], left |-> {},
            parts |-> [k \in Keys |-> 0], running |-> 0, before |-> 0, topUp |-> 0,
            amount |-> 0 ]

\* isRuleEffectiveNow, at the end of the period; isRuleEffectiveForPeriod adds nothing to
\* it but that the rule does not end before the period starts.
IsRuleEffective(rule, request) ==
  /\ rule.active
  /\ rule.from # None => rule.from <= request.end
  /\ rule.to # None => rule.to >= request.end /\ rule.to >= request.start

\* Read the rules and the completed routes; the latest versions in effect are those that count.
ReadRules(request) ==
  LET inEffect == { k \in Keys : versions[k] # << >> /\ IsRuleEffective(Latest(k).rule, request) }
      rules == [k \in Keys |-> IF k \in inEffect THEN Latest(k).rule ELSE None]
  IN
  /\ calc.pc = "idle"
  /\ request.start <= request.end
  /\ calc' = [NoCalc EXCEPT !.pc = "adding", !.request = request,
                            !.rules = rules, !.left = inEffect]
  /\ UNCHANGED << versions, edit >>

\* roundMoney.
Cents(x) == (x + 50) \div 100

\* readMetricValue.
Did(request, metric) == request.did[metric]

\* matchesGuaranteePeriod: a day, seven days or a calendar month, by the dates of the bounds.
Covers(request, period) == request.period = period

\* What a zone, a kilometre or an order is paid, for all of them at once.
PerUnit(rule, request, unit) == Cents(rule.value * request.did[unit])

Bonus(rule, request) ==
  IF Did(request, rule.on) >= rule.threshold THEN Cents(rule.value) ELSE 0

Penalty(rule, request) ==
  IF Did(request, rule.on) < rule.threshold THEN -Cents(rule.value) ELSE 0

\* What is missing to the guarantee after the rules that came before it.
TopUp(rule, request, running) ==
  IF Covers(request, rule.on) /\ 100 * running < rule.value
  THEN Cents(rule.value - 100 * running) ELSE 0

\* The amount of the component of a rule, given the sum so far.
AmountOf(rule, request, running) ==
  CASE rule.type = "zone_rate" -> PerUnit(rule, request, rule.on)
    [] rule.type = "per_km"    -> PerUnit(rule, request, "distance_km")
    [] rule.type = "per_order" -> PerUnit(rule, request, "completed_orders")
    [] rule.type = "bonus"     -> Bonus(rule, request)
    [] rule.type = "penalty"   -> Penalty(rule, request)
    [] OTHER                   -> TopUp(rule, request, running)

\* latestRulesOnly sorts by name; equal names keep the order of the keys.
Precedes(j, k) ==
  \/ calc.rules[j].name < calc.rules[k].name
  \/ calc.rules[j].name = calc.rules[k].name /\ j < k

\* Mutant: the rules are not sorted.
IsAny(k) == k \in calc.left

IsNext(k) == k \in calc.left /\ \A j \in calc.left \ {k} : Precedes(k, j)

\* readMetric does not know the metric of the rule.
Unsupported(rule) == rule.type \in {"bonus", "penalty"} /\ rule.on \notin SupportedMetric

Counted == { k \in Keys : calc.rules[k] # None }

IsGuarantee(k) == calc.rules[k].type = "minimum_guarantee"

\* Mutant: a top-up is not added to the sum.
AddComponentAside(k) ==
  LET amount == AmountOf(calc.rules[k], calc.request, calc.running) IN
  /\ calc.pc = "adding" /\ IsNext(k)
  /\ ~Unsupported(calc.rules[k])
  /\ calc' = [calc EXCEPT !.left = @ \ {k}, !.parts[k] = amount,
                !.running = IF IsGuarantee(k) THEN @ ELSE @ + amount,
                !.before  = IF IsGuarantee(k) THEN @ ELSE calc.running + amount,
                !.topUp   = IF IsGuarantee(k) THEN @ + amount ELSE @]
  /\ UNCHANGED << versions, edit >>

\* One turn of the loop of buildPaymentBreakdown.
AddComponent(k) ==
  LET amount == AmountOf(calc.rules[k], calc.request, calc.running) IN
  /\ calc.pc = "adding" /\ IsNext(k)
  /\ ~Unsupported(calc.rules[k])
  /\ calc' = [calc EXCEPT !.left = @ \ {k}, !.parts[k] = amount,
                !.running = @ + amount,
                !.before  = IF IsGuarantee(k) THEN @ ELSE calc.running + amount,
                !.topUp   = IF IsGuarantee(k) THEN @ + amount ELSE @]
  /\ UNCHANGED << versions, edit >>

\* The loop throws: no payment is made.
RejectMetric(k) ==
  /\ calc.pc = "adding" /\ IsNext(k)
  /\ Unsupported(calc.rules[k])
  /\ calc' = [calc EXCEPT !.pc = "failed"]
  /\ UNCHANGED << versions, edit >>

\* The payment's amount; nobody owes the company.
FinishAmount ==
  /\ calc.pc = "adding" /\ calc.left = {}
  /\ calc' = [calc EXCEPT !.pc = "done",
                          !.amount = IF calc.running < 0 THEN 0 ELSE calc.running]
  /\ UNCHANGED << versions, edit >>

-----------------------------------------------------------------------------
Init ==
  /\ versions = [k \in Keys |-> << >>]
  /\ edit = [e \in Editors |-> Idle]
  /\ calc = NoCalc

Next ==
  \/ \E k \in Keys, rule \in NewRules : CreatePaymentRule(k, rule)
  \/ \E e \in Editors :
       \/ \E k \in Keys, patch \in Patches : FindLatest(e, k, patch)
       \/ InsertVersion(e)
       \/ InsertFails(e)
  \/ \E request \in Requests : ReadRules(request)
  \/ \E k \in Keys : AddComponent(k) \/ RejectMetric(k)
  \/ FinishAmount

Spec == Init /\ [][Next]_vars

-----------------------------------------------------------------------------
(* Properties.                                                             *)

TypeOK ==
  /\ versions \in [Keys -> Seq(Row)]
  /\ edit \in [Editors -> Edit]
  /\ calc \in Calc
  /\ calc.left \subseteq Counted

\* However edits race, the versions of a rule are one story: each number is there once, and
\* each version is the one before it with just its own edit applied.
VersionsChain ==
  \A k \in Keys : \A n \in DOMAIN versions[k] :
    /\ versions[k][n].version = n
    /\ n > 1 => versions[k][n].rule = Merge(versions[k][n - 1].rule, versions[k][n].by)

\* The rules that have had their turn.
Added == Counted \ calc.left

\* A minimum guarantee of the period holds from its turn on, unless a penalty whose name
\* comes later cuts into it.
GuaranteeKept ==
  \A g \in Added :
    IsGuarantee(g) /\ calc.request.period = calc.rules[g].on =>
      \/ calc.running >= Cents(calc.rules[g].value)
      \/ \E p \in Added : Precedes(g, p) /\ calc.parts[p] < 0

\* The two parts of the summary, the subtotal before guarantees and the top-up, make up the
\* sum, unless a guarantee that paid has a name before that of another kind of rule.
SubtotalSplit ==
  \/ calc.before + calc.topUp = calc.running
  \/ \E g, k \in Added :
       IsGuarantee(g) /\ calc.parts[g] > 0 /\ ~IsGuarantee(k) /\ Precedes(g, k)

\* What is paid is the sum of the components that the breakdown lists, or nothing when that
\* is negative.
AmountAddsUp ==
  calc.pc = "done" =>
    LET sum == MapThenSumSet(LAMBDA k : calc.parts[k], Counted) IN
    calc.amount = IF sum < 0 THEN 0 ELSE sum

\* The engine applies all active rules, so that it never stumbles over a stored one.
RulesApply == calc.pc # "failed"

=============================================================================
