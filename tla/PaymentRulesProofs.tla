------------------------- MODULE PaymentRulesProofs -------------------------
(***************************************************************************)
(* Proofs about PaymentRules and RuleForm.  RowsInv is about the versions  *)
(* and the edits in flight: an edit holds a row that is really there, and  *)
(* with the index its number can only be the next one.  SumInv is about    *)
(* the calculation: rules have had their turn in the order of their names, *)
(* and what the sum and the top-up are tells which of them paid.  Both are *)
(* kept by a service that is asked for any edit of any rule, so that they  *)
(* hold in both specifications.  PageInv is about the pages: what a form   *)
(* holds, and a request carries, is what some version of the rule says, as *)
(* far as nobody typed into it.                                            *)
(***************************************************************************)
EXTENDS RuleForm, SequenceTheorems, FiniteSetTheorems, WellFoundedInduction, TLAPS

-----------------------------------------------------------------------------
(* What both specifications do.                                            *)

\* The service with any rule and any edit asked for.
ServiceNext ==
  \/ \E k \in Keys, rule \in Rule : CreatePaymentRule(k, rule)
  \/ \E e \in Editors :
       \/ \E k \in Keys, patch \in Patch : FindLatest(e, k, patch)
       \/ InsertVersion(e)
       \/ InsertFails(e)
  \/ \E request \in Requests : ReadRules(request)
  \/ \E k \in Keys : AddComponent(k) \/ RejectMetric(k)
  \/ FinishAmount

LEMMA NextIsService == [Next]_vars => [ServiceNext]_vars
  BY PaymentRulesAssumption DEF Next, ServiceNext

-----------------------------------------------------------------------------
(* The versions.                                                           *)

RowTypes == versions \in [Keys -> Seq(Row)] /\ edit \in [Editors -> Edit]

\* Only rules that passed the validation are stored.
RowsValid == \A k \in Keys : \A n \in DOMAIN versions[k] : Valid(versions[k][n].rule)

\* An edit in flight holds a row that is there, and its result is valid.
EditsHold ==
  \A e \in Editors :
    edit[e].pc = "write" =>
      /\ edit[e].key \in Keys /\ edit[e].patch \in Patch
      /\ \E n \in DOMAIN versions[edit[e].key] : edit[e].base = versions[edit[e].key][n]
      /\ Valid(Merge(edit[e].base.rule, edit[e].patch))

\* The rules that there are; they are finitely many.
Made == { k \in Keys : versions[k] # << >> }

RowsInv == RowTypes /\ RowsValid /\ EditsHold /\ VersionsChain /\ IsFiniteSet(Made)

\* An edit of a rule gives a rule.
LEMMA MergeType ==
  ASSUME NEW rule \in Rule, NEW patch \in Patch
  PROVE  Merge(rule, patch) \in Rule
  <1>1. /\ Or(patch.name, rule.name) \in Nat
        /\ Or(patch.value, rule.value) \in Nat
        /\ Or(patch.threshold, rule.threshold) \in Nat
    BY DEF Or, Rule, Patch
  <1>2. /\ Or(patch.type, rule.type) \in PaymentRuleType
        /\ Or(patch.on, rule.on) \in Topic
        /\ Or(patch.active, rule.active) \in BOOLEAN
    BY DEF Or, Rule, Patch
  <1>3. /\ Or(patch.from, rule.from) \in Nat \cup {None}
        /\ Or(patch.to, rule.to) \in Nat \cup {None}
    BY DEF Or, Rule, Patch
  <1> QED BY <1>1, <1>2, <1>3 DEF Merge, Rule

\* The row with the highest number is the last one that was inserted.
LEMMA LatestIsLast ==
  ASSUME RowTypes, VersionsChain, NEW k \in Keys, versions[k] # << >>
  PROVE  /\ Latest(k) = versions[k][Len(versions[k])]
         /\ Len(versions[k]) \in DOMAIN versions[k]
         /\ Latest(k) \in Row
  <1> DEFINE n == Len(versions[k])
             last == versions[k][n]
             Highest(row) == \A other \in Rows(k) : other.version <= row.version
  <1>1. versions[k] \in Seq(Row)
    BY DEF RowTypes
  <1>2. n \in Nat /\ DOMAIN versions[k] = 1..n
    BY <1>1, LenProperties
  <1>3. n \in DOMAIN versions[k]
    BY <1>1, <1>2, EmptySeq
  <1>4. last \in Row
    BY <1>1, <1>3, ElementOfSeq
  <1>5. \A m \in DOMAIN versions[k] : versions[k][m].version = m
    BY DEF VersionsChain
  <1>6. last \in Rows(k) /\ Highest(last)
    BY <1>2, <1>3, <1>5 DEF Rows
  <1>7. ASSUME NEW row \in Rows(k), Highest(row)
        PROVE  row = last
    <2>1. PICK m \in DOMAIN versions[k] : row = versions[k][m]
      BY <1>7 DEF Rows
    <2>2. m <= n /\ n <= m /\ m \in Nat
      BY <1>2, <1>3, <1>5, <1>6, <1>7, <2>1
    <2> QED BY <1>2, <2>1, <2>2
  <1>8. Latest(k) = last
    BY <1>6, <1>7 DEF Latest
  <1> QED BY <1>3, <1>4, <1>8

\* What InsertVersion adds is the version after the last one.
LEMMA InsertedVersion ==
  ASSUME RowsInv, NEW e \in Editors, InsertVersion(e)
  PROVE  LET k == edit[e].key
             base == edit[e].base
             n == Len(versions[k])
             next == [version |-> base.version + 1, rule |-> Merge(base.rule, edit[e].patch),
                      by |-> edit[e].patch]
         IN /\ edit[e].pc = "write" /\ k \in Keys /\ edit[e].patch \in Patch
            /\ Valid(Merge(base.rule, edit[e].patch))
            /\ n \in Nat /\ n \in 1..n /\ base.version = n /\ base = versions[k][n]
            /\ base.rule \in Rule /\ next \in Row
            /\ versions' = [versions EXCEPT ![k] = Append(@, next)]
            /\ edit' = [edit EXCEPT ![e] = Idle] /\ edit'[e] = Idle
            /\ \A d \in Editors : d # e => edit'[d] = edit[d]
            /\ \A j \in Keys \ {k} : versions'[j] = versions[j]
            /\ versions'[k] \in Seq(Row)
            /\ DOMAIN versions[k] = 1..n /\ DOMAIN versions'[k] = 1..(n + 1)
            /\ versions'[k][n + 1] = next
            /\ \A m \in 1..n : versions'[k][m] = versions[k][m]
  <1> DEFINE k == edit[e].key
             base == edit[e].base
             n == Len(versions[k])
             next == [version |-> base.version + 1, rule |-> Merge(base.rule, edit[e].patch),
                      by |-> edit[e].patch]
  <1>1. /\ edit[e].pc = "write" /\ NumberFree(k, next.version)
        /\ versions' = [versions EXCEPT ![k] = Append(@, next)]
        /\ edit' = [edit EXCEPT ![e] = Idle]
    BY DEF InsertVersion
  <1>2. /\ k \in Keys /\ edit[e].patch \in Patch
        /\ Valid(Merge(base.rule, edit[e].patch))
    BY <1>1 DEF RowsInv, EditsHold
  <1>3. PICK b \in DOMAIN versions[k] : base = versions[k][b]
    BY <1>1 DEF RowsInv, EditsHold
  <1>4. versions[k] \in Seq(Row)
    BY <1>2 DEF RowsInv, RowTypes
  <1>5. n \in Nat /\ DOMAIN versions[k] = 1..n /\ b \in 1..n
    BY <1>3, <1>4, LenProperties
  <1>6. base \in Row /\ base.version = b
    <2>1. base \in Row
      BY <1>3, <1>4, <1>5, ElementOfSeq
    <2> QED BY <1>2, <1>3, <2>1 DEF RowsInv, VersionsChain
  <1>7. \A m \in 1..n : versions[k][m].version = m
    BY <1>2, <1>5 DEF RowsInv, VersionsChain
  <1>8. b = n
    <2>1. SUFFICES ASSUME b < n PROVE FALSE
      BY <1>5
    <2>2. b + 1 \in 1..n /\ versions[k][b + 1].version = b + 1
      BY <1>5, <1>7, <2>1
    <2>3. versions[k][b + 1] \in Rows(k)
      BY <1>5, <2>2 DEF Rows
    <2> QED BY <1>1, <1>6, <2>2, <2>3 DEF NumberFree
  <1>9. next \in Row
    <2>1. base.rule \in Rule
      BY <1>6 DEF Row
    <2>2. Merge(base.rule, edit[e].patch) \in Rule
      BY <1>2, <2>1, MergeType
    <2>3. base.version + 1 \in Nat \ {0}
      BY <1>5, <1>6
    <2> QED BY <1>2, <2>2, <2>3 DEF Row
  <1>10. /\ versions'[k] = Append(versions[k], next)
         /\ \A j \in Keys \ {k} : versions'[j] = versions[j]
         /\ \A d \in Editors : d # e => edit'[d] = edit[d]
         /\ edit'[e] = Idle
    BY <1>1, <1>2 DEF RowsInv, RowTypes
  <1>11. /\ versions'[k] \in Seq(Row)
         /\ DOMAIN versions'[k] = 1..(n + 1)
         /\ versions'[k][n + 1] = next
         /\ \A m \in 1..n : versions'[k][m] = versions[k][m]
    BY <1>4, <1>5, <1>9, <1>10, AppendProperties
  <1>12. base.rule \in Rule
    BY <1>6 DEF Row
  <1> QED BY <1>1, <1>2, <1>3, <1>5, <1>6, <1>8, <1>9, <1>10, <1>11, <1>12

\* Appending the next version keeps the chain.
LEMMA ChainGrows ==
  ASSUME RowsInv, NEW e \in Editors, InsertVersion(e)
  PROVE  RowsInv'
  <1> DEFINE k == edit[e].key
             base == edit[e].base
             n == Len(versions[k])
             next == [version |-> base.version + 1, rule |-> Merge(base.rule, edit[e].patch),
                      by |-> edit[e].patch]
  <1>1. /\ versions' = [versions EXCEPT ![k] = Append(@, next)]
        /\ edit' = [edit EXCEPT ![e] = Idle]
    BY InsertedVersion
  <1>2. /\ k \in Keys /\ Valid(Merge(base.rule, edit[e].patch))
    BY InsertedVersion
  <1>3. n \in Nat /\ DOMAIN versions[k] = 1..n /\ n \in 1..n
    BY InsertedVersion
  <1>4. base.version = n /\ base = versions[k][n]
    BY InsertedVersion
  <1>5. /\ \A j \in Keys \ {k} : versions'[j] = versions[j]
        /\ \A d \in Editors : d # e => edit'[d] = edit[d]
        /\ edit'[e] = Idle
    BY InsertedVersion
  <1>6. /\ versions'[k] \in Seq(Row)
        /\ DOMAIN versions'[k] = 1..(n + 1)
        /\ versions'[k][n + 1] = next
        /\ \A m \in 1..n : versions'[k][m] = versions[k][m]
    BY InsertedVersion
  <1>7. \A m \in DOMAIN versions'[k] : m \in 1..n \/ m = n + 1
    BY <1>3, <1>6
  <1>8. DOMAIN versions[k] \subseteq DOMAIN versions'[k]
    BY <1>3, <1>6
  <1>9. RowTypes'
    <2>1. versions' \in [Keys -> Seq(Row)]
      BY <1>1, <1>2, <1>5, <1>6 DEF RowsInv, RowTypes
    <2>2. Idle \in Edit
      BY DEF Idle, Edit
    <2> QED BY <1>1, <2>1, <2>2 DEF RowsInv, RowTypes
  <1>10. RowsValid'
    <2>1. SUFFICES ASSUME NEW j \in Keys, NEW m \in DOMAIN versions'[j]
                   PROVE  Valid(versions'[j][m].rule)
      BY DEF RowsValid, Valid
    <2>2. CASE j # k
      BY <1>5, <2>1, <2>2 DEF RowsInv, RowsValid
    <2>3. CASE j = k /\ m \in 1..n
      BY <1>2, <1>3, <1>6, <2>3 DEF RowsInv, RowsValid
    <2>4. CASE j = k /\ m = n + 1
      BY <1>2, <1>6, <2>4
    <2> QED BY <1>7, <2>2, <2>3, <2>4
  <1>11. EditsHold'
    <2>1. SUFFICES ASSUME NEW d \in Editors, edit'[d].pc = "write"
                   PROVE  /\ edit'[d].key \in Keys /\ edit'[d].patch \in Patch
                          /\ \E m \in DOMAIN versions'[edit'[d].key] :
                               edit'[d].base = versions'[edit'[d].key][m]
                          /\ Valid(Merge(edit'[d].base.rule, edit'[d].patch))
      BY DEF EditsHold, Valid, Merge, Or
    <2>2. d # e /\ edit'[d] = edit[d] /\ edit[d].pc = "write"
      BY <1>5, <2>1 DEF Idle
    <2>3. /\ edit[d].key \in Keys /\ edit[d].patch \in Patch
          /\ Valid(Merge(edit[d].base.rule, edit[d].patch))
      BY <2>2 DEF RowsInv, EditsHold
    <2>4. PICK m \in DOMAIN versions[edit[d].key] : edit[d].base = versions[edit[d].key][m]
      BY <2>2 DEF RowsInv, EditsHold
    <2>5. /\ m \in DOMAIN versions'[edit[d].key]
          /\ versions'[edit[d].key][m] = versions[edit[d].key][m]
      <3>1. CASE edit[d].key # k
        BY <1>5, <2>3, <2>4, <3>1
      <3>2. CASE edit[d].key = k
        <4>1. m \in 1..n
          BY <1>3, <2>4, <3>2
        <4> QED BY <1>6, <1>8, <2>4, <3>2, <4>1
      <3> QED BY <3>1, <3>2
    <2> QED BY <2>2, <2>3, <2>4, <2>5
  <1>12. VersionsChain'
    <2>1. SUFFICES ASSUME NEW j \in Keys, NEW m \in DOMAIN versions'[j]
                   PROVE  /\ versions'[j][m].version = m
                          /\ m > 1 => versions'[j][m].rule =
                                        Merge(versions'[j][m - 1].rule, versions'[j][m].by)
      BY DEF VersionsChain, Merge, Or
    <2>2. CASE j # k
      BY <1>5, <2>1, <2>2 DEF RowsInv, VersionsChain
    <2>3. CASE j = k /\ m \in 1..n
      <3>1. /\ versions[k][m].version = m
            /\ m > 1 => versions[k][m].rule = Merge(versions[k][m - 1].rule, versions[k][m].by)
        BY <1>2, <1>3, <2>3 DEF RowsInv, VersionsChain
      <3>2. m > 1 => m - 1 \in 1..n
        BY <1>3, <2>3
      <3> QED BY <1>6, <2>3, <3>1, <3>2
    <2>4. CASE j = k /\ m = n + 1
      <3>1. /\ versions'[k][m] = next
            /\ next.version = m
        BY <1>3, <1>4, <1>6, <2>4
      <3>2. m > 1 => m - 1 = n /\ n \in 1..n
        BY <1>3, <2>4
      <3>3. m > 1 => versions'[k][m - 1] = base
        BY <1>4, <1>6, <3>2
      <3>4. next.rule = Merge(base.rule, next.by)
        OBVIOUS
      <3> QED BY <2>4, <3>1, <3>3, <3>4
    <2> QED BY <1>7, <2>2, <2>3, <2>4
  <1>13. IsFiniteSet(Made')
    <2>1. versions[k] # << >>
      BY <1>3
    <2>2. Made' \subseteq Made
      BY <1>2, <1>5, <2>1 DEF Made
    <2> QED BY <2>2, FS_Subset DEF RowsInv
  <1> QED BY <1>9, <1>10, <1>11, <1>12, <1>13 DEF RowsInv

LEMMA RowsInit == Init => RowsInv
  <1>1. SUFFICES ASSUME Init PROVE RowsInv
    OBVIOUS
  <1>2. RowTypes
    <2>1. Idle \in Edit
      BY DEF Idle, Edit
    <2>2. << >> \in Seq(Row)
      OBVIOUS
    <2> QED BY <1>1, <2>1, <2>2 DEF Init, RowTypes
  <1>3. \A k \in Keys : DOMAIN versions[k] = {}
    BY <1>1 DEF Init
  <1>4. EditsHold
    BY <1>1 DEF Init, EditsHold, Idle
  <1>5. Made = {}
    BY <1>1 DEF Init, Made
  <1> QED BY <1>2, <1>3, <1>4, <1>5, FS_EmptySet DEF RowsInv, RowsValid, VersionsChain

\* Every step keeps the versions one story.
LEMMA RowsStep == RowsInv /\ [ServiceNext]_vars => RowsInv'
  <1>1. SUFFICES ASSUME RowsInv, [ServiceNext]_vars PROVE RowsInv'
    OBVIOUS
  <1>2. CASE UNCHANGED << versions, edit >>
    <2>1. versions' = versions /\ edit' = edit
      BY <1>2
    <2> QED BY <1>1, <2>1 DEF RowsInv, RowTypes, RowsValid, EditsHold, VersionsChain, Made
  <1>3. ASSUME NEW k \in Keys, NEW rule \in Rule, CreatePaymentRule(k, rule)
        PROVE  RowsInv'
    <2> DEFINE first == [version |-> 1, rule |-> rule, by |-> None]
    <2>1. /\ versions[k] = << >> /\ Valid(rule)
          /\ versions' = [versions EXCEPT ![k] = << first >>] /\ edit' = edit
      BY <1>3 DEF CreatePaymentRule
    <2>2. first \in Row
      BY DEF Row
    <2>3. /\ versions'[k] = << first >> /\ << first >> \in Seq(Row)
          /\ DOMAIN << first >> = {1} /\ << first >>[1] = first
          /\ \A j \in Keys \ {k} : versions'[j] = versions[j]
      BY <1>1, <2>1, <2>2 DEF RowsInv, RowTypes
    <2>4. RowTypes'
      BY <1>1, <2>1, <2>3 DEF RowsInv, RowTypes
    <2>5. RowsValid'
      <3>1. SUFFICES ASSUME NEW j \in Keys, NEW m \in DOMAIN versions'[j]
                     PROVE  Valid(versions'[j][m].rule)
        BY DEF RowsValid, Valid
      <3>2. CASE j # k
        BY <1>1, <2>3, <3>1, <3>2 DEF RowsInv, RowsValid
      <3>3. CASE j = k
        BY <2>1, <2>3, <3>3
      <3> QED BY <3>2, <3>3
    <2>6. ASSUME NEW d \in Editors, edit[d].pc = "write"
          PROVE  edit[d].key # k
      <3>1. PICK n \in DOMAIN versions[edit[d].key] : TRUE
        BY <1>1, <2>6 DEF RowsInv, EditsHold
      <3> QED BY <2>1, <3>1
    <2>7. EditsHold'
      BY <1>1, <2>1, <2>3, <2>6 DEF RowsInv, EditsHold
    <2>8. VersionsChain'
      <3>1. SUFFICES ASSUME NEW j \in Keys, NEW m \in DOMAIN versions'[j]
                     PROVE  /\ versions'[j][m].version = m
                            /\ m > 1 => versions'[j][m].rule =
                                          Merge(versions'[j][m - 1].rule, versions'[j][m].by)
        BY DEF VersionsChain, Merge, Or
      <3>2. CASE j # k
        BY <1>1, <2>3, <3>1, <3>2 DEF RowsInv, VersionsChain
      <3>3. CASE j = k
        BY <2>3, <3>3
      <3> QED BY <3>2, <3>3
    <2>9. IsFiniteSet(Made')
      <3>1. Made' \subseteq Made \cup {k}
        BY <2>3 DEF Made
      <3>2. IsFiniteSet(Made \cup {k})
        BY <1>1, FS_AddElement DEF RowsInv
      <3> QED BY <3>1, <3>2, FS_Subset
    <2> QED BY <2>4, <2>5, <2>7, <2>8, <2>9 DEF RowsInv
  <1>4. ASSUME NEW e \in Editors, NEW k \in Keys, NEW patch \in Patch,
               FindLatest(e, k, patch)
        PROVE  RowsInv'
    <2> DEFINE new == [pc |-> "write", key |-> k, base |-> Latest(k), patch |-> patch]
    <2>1. /\ versions[k] # << >> /\ Valid(Merge(Latest(k).rule, patch))
          /\ edit' = [edit EXCEPT ![e] = new] /\ versions' = versions
      BY <1>4 DEF FindLatest
    <2>2. /\ Latest(k) = versions[k][Len(versions[k])] /\ Latest(k) \in Row
          /\ Len(versions[k]) \in DOMAIN versions[k]
      BY <1>1, <2>1, LatestIsLast DEF RowsInv
    <2>3. patch \in Patch /\ new \in Edit
      BY <2>2 DEF Edit
    <2>4. edit'[e] = new /\ \A d \in Editors \ {e} : edit'[d] = edit[d]
      BY <1>1, <2>1 DEF RowsInv, RowTypes
    <2>5. RowTypes'
      BY <1>1, <2>1, <2>3 DEF RowsInv, RowTypes
    <2>6. EditsHold'
      <3>1. SUFFICES ASSUME NEW d \in Editors, edit'[d].pc = "write"
                     PROVE  /\ edit'[d].key \in Keys /\ edit'[d].patch \in Patch
                            /\ \E m \in DOMAIN versions[edit'[d].key] :
                                 edit'[d].base = versions[edit'[d].key][m]
                            /\ Valid(Merge(edit'[d].base.rule, edit'[d].patch))
        BY <2>1 DEF EditsHold, Valid, Merge, Or
      <3>2. CASE d # e
        BY <1>1, <2>4, <3>1, <3>2 DEF RowsInv, EditsHold
      <3>3. CASE d = e
        BY <2>1, <2>2, <2>3, <2>4, <3>3
      <3> QED BY <3>2, <3>3
    <2> QED BY <1>1, <2>1, <2>5, <2>6 DEF RowsInv, RowsValid, VersionsChain, Made
  <1>5. ASSUME NEW e \in Editors, InsertFails(e)
        PROVE  RowsInv'
    <2>1. edit' = [edit EXCEPT ![e] = Idle] /\ versions' = versions
      BY <1>5 DEF InsertFails
    <2>2. Idle \in Edit /\ Idle.pc # "write"
      BY DEF Idle, Edit
    <2>3. edit'[e] = Idle /\ \A d \in Editors \ {e} : edit'[d] = edit[d]
      BY <1>1, <2>1 DEF RowsInv, RowTypes
    <2>4. EditsHold'
      BY <1>1, <2>1, <2>2, <2>3 DEF RowsInv, EditsHold
    <2> QED BY <1>1, <2>1, <2>2, <2>4 DEF RowsInv, RowTypes, RowsValid, VersionsChain, Made
  <1>6. CASE \E request \in Requests : ReadRules(request)
    BY <1>2, <1>6 DEF ReadRules
  <1>7. CASE \E k \in Keys : AddComponent(k) \/ RejectMetric(k)
    BY <1>2, <1>7 DEF AddComponent, RejectMetric
  <1>8. CASE FinishAmount
    BY <1>2, <1>8 DEF FinishAmount
  <1>9. CASE UNCHANGED vars
    BY <1>2, <1>9 DEF vars
  <1> QED BY <1>1, <1>3, <1>4, <1>5, <1>6, <1>7, <1>8, <1>9, ChainGrows DEF ServiceNext

\* However edits of a rule race, its versions are numbered without a gap and each is the one
\* before it with its own edit: no edit that got its version in is lost (updatePaymentRule).
THEOREM ChainCorrect == Spec => []VersionsChain
  <1>1. RowsInv => VersionsChain
    BY DEF RowsInv
  <1> QED BY <1>1, RowsInit, RowsStep, NextIsService, PTL DEF Spec

-----------------------------------------------------------------------------
(* Numbers, and sums over finite sets.                                     *)

\* A set of naturals has a smallest element.
LEMMA Smallest ==
  ASSUME NEW S, S \subseteq Nat, S # {}
  PROVE  \E m \in S : \A n \in S : m <= n
  <1>1. PICK m \in S : \A n \in S : ~ (<< n, m >> \in OpToRel(<, Nat))
    BY NatLessThanWellFounded, WFMin
  <1>2. \A n \in S : ~ (n < m)
    BY <1>1 DEF OpToRel
  <1> QED BY <1>2

\* Induction, stated of a set of numbers.
LEMMA Induction ==
  ASSUME NEW S, 0 \in S, \A n \in Nat : n \in S => n + 1 \in S
  PROVE  \A n \in Nat : n \in S
  <1>1. SUFFICES ASSUME Nat \ S # {} PROVE FALSE
    OBVIOUS
  <1>2. PICK m \in Nat \ S : \A n \in Nat \ S : m <= n
    BY <1>1, Smallest
  <1>3. m - 1 \in Nat /\ m - 1 \in S
    BY <1>2
  <1> QED BY <1>2, <1>3

\* What MapThenSumSet computes: the sums of f over the subsets of S.
Pick(s) == CHOOSE x \in s : TRUE

Sums(g, f, S) ==
  g = [s \in SUBSET S |-> IF s = {} THEN 0 ELSE f[Pick(s)] + g[s \ {Pick(s)}]]

Sum(f, S) == MapThenSumSet(LAMBDA k : f[k], S)

LEMMA PickIn == ASSUME NEW s, s # {} PROVE Pick(s) \in s
  BY DEF Pick

LEMMA SumUnfolds ==
  ASSUME NEW f, NEW S
  PROVE  Sum(f, S) = (CHOOSE g : Sums(g, f, S))[S]
  BY DEF Sum, MapThenSumSet, MapThenFoldSet, Sums, Pick

\* The recursion has a solution, by induction on the size of the sets.
LEMMA SumsExist ==
  ASSUME NEW f, NEW S, IsFiniteSet(S)
  PROVE  \E g : Sums(g, f, S)
  <1> DEFINE Small(n) == { s \in SUBSET S : Cardinality(s) <= n }
             Value(g, s) == IF s = {} THEN 0 ELSE f[Pick(s)] + g[s \ {Pick(s)}]
             Good == { n \in Nat : \E g : g = [s \in Small(n) |-> Value(g, s)] }
  <1>1. \A s \in SUBSET S : IsFiniteSet(s) /\ Cardinality(s) \in Nat
                            /\ Cardinality(s) <= Cardinality(S)
    BY FS_Subset, FS_CardinalityType
  <1>2. \A s \in SUBSET S : Cardinality(s) = 0 => s = {}
    BY <1>1, FS_EmptySet
  <1>3. \A s \in SUBSET S : s # {} => /\ s \ {Pick(s)} \in SUBSET S
                                      /\ Cardinality(s \ {Pick(s)}) = Cardinality(s) - 1
    BY <1>1, FS_RemoveElement, PickIn
  <1>4. 0 \in Good
    <2> DEFINE g == [s \in Small(0) |-> 0]
    <2>1. g = [s \in Small(0) |-> Value(g, s)]
      BY <1>1, <1>2
    <2> QED BY <2>1
  <1>5. ASSUME NEW n \in Nat, n \in Good
        PROVE  n + 1 \in Good
    <2>1. PICK g : g = [s \in Small(n) |-> Value(g, s)]
      BY <1>5
    <2> DEFINE h == [s \in Small(n + 1) |-> IF s \in Small(n) THEN g[s] ELSE Value(g, s)]
    <2>2. ASSUME NEW s \in Small(n + 1)
          PROVE  h[s] = Value(h, s)
      <3>1. CASE s = {}
        <4>1. Value(h, s) = 0 /\ Value(g, s) = 0
          BY <3>1
        <4>2. h[s] = Value(g, s)
          BY <2>1
        <4> QED BY <4>1, <4>2
      <3>2. CASE s # {}
        <4> DEFINE r == s \ {Pick(s)}
        <4>1. r \in Small(n) /\ r \in Small(n + 1)
          BY <1>1, <1>3, <1>5, <3>2
        <4>2. h[r] = g[r]
          BY <4>1
        <4>3. Value(h, s) = Value(g, s)
          BY <3>2, <4>2
        <4>4. h[s] = Value(g, s)
          BY <2>1
        <4> QED BY <4>3, <4>4
      <3> QED BY <3>1, <3>2
    <2>3. h = [s \in Small(n + 1) |-> Value(h, s)]
      <3> HIDE DEF Value
      <3>1. h = [s \in Small(n + 1) |-> h[s]]
        OBVIOUS
      <3> HIDE DEF h
      <3> QED BY <2>2, <3>1
    <2>4. \E e : e = [s \in Small(n + 1) |-> Value(e, s)]
      <3> HIDE DEF Value, h, Small
      <3> QED BY <2>3, Zenon
    <2> HIDE DEF Value, Small
    <2> QED BY <1>5, <2>4
  <1> HIDE DEF Good
  <1>6. Cardinality(S) \in Good
    BY <1>1, <1>4, <1>5, Induction
  <1>7. Small(Cardinality(S)) = SUBSET S
    BY <1>1
  <1>8. PICK g : g = [s \in Small(Cardinality(S)) |-> Value(g, s)]
    BY <1>6 DEF Good
  <1>9. Sums(g, f, S)
    BY <1>7, <1>8 DEF Sums
  <1> QED BY <1>9

\* A sum over a subset depends only on what is summed.
LEMMA SumsSame ==
  ASSUME NEW S, NEW T, NEW f, NEW e, NEW g, NEW h, IsFiniteSet(S), T \subseteq S,
         Sums(g, f, S), Sums(h, e, T), \A x \in T : f[x] = e[x]
  PROVE  \A s \in SUBSET T : g[s] = h[s]
  <1> DEFINE Good == { n \in Nat : \A s \in SUBSET T : Cardinality(s) = n => g[s] = h[s] }
  <1>1. \A s \in SUBSET T : IsFiniteSet(s) /\ Cardinality(s) \in Nat
    <2>1. \A s \in SUBSET T : s \in SUBSET S
      OBVIOUS
    <2> QED BY <2>1, FS_Subset, FS_CardinalityType
  <1>2. 0 \in Good
    <2>1. \A s \in SUBSET T : Cardinality(s) = 0 => s = {}
      BY <1>1, FS_EmptySet
    <2>2. g[{}] = 0 /\ h[{}] = 0
      BY DEF Sums
    <2> QED BY <2>1, <2>2
  <1>3. ASSUME NEW n \in Nat, n \in Good
        PROVE  n + 1 \in Good
    <2>1. SUFFICES ASSUME NEW s \in SUBSET T, Cardinality(s) = n + 1
                   PROVE  g[s] = h[s]
      BY <1>3
    <2> DEFINE x == Pick(s)
               r == s \ {x}
    <2>2. s # {}
      BY <2>1, <1>1, FS_EmptySet
    <2>3. x \in s
      BY <2>2, PickIn
    <2>4. r \in SUBSET T /\ Cardinality(r) = n
      BY <1>1, <2>1, <2>3, FS_RemoveElement
    <2>5. g[r] = h[r]
      BY <1>3, <2>4
    <2>6. g[s] = f[x] + g[r] /\ h[s] = e[x] + h[r]
      BY <2>1, <2>2 DEF Sums
    <2>7. f[x] = e[x]
      BY <2>1, <2>3
    <2> QED BY <2>5, <2>6, <2>7
  <1> HIDE DEF Good
  <1>4. \A n \in Nat : n \in Good
    BY <1>2, <1>3, Induction
  <1> QED BY <1>1, <1>4 DEF Good

\* Sums are numbers, and any element may be taken off first.
LEMMA SumsAny ==
  ASSUME NEW S, NEW f, NEW g, IsFiniteSet(S), Sums(g, f, S), \A x \in S : f[x] \in Int
  PROVE  \A s \in SUBSET S : /\ g[s] \in Int
                             /\ \A x \in s : g[s] = f[x] + g[s \ {x}]
  <1> DEFINE Fine(s) == g[s] \in Int /\ \A x \in s : g[s] = f[x] + g[s \ {x}]
             Good == { n \in Nat : \A s \in SUBSET S : Cardinality(s) <= n => Fine(s) }
  <1>1. \A s \in SUBSET S : IsFiniteSet(s) /\ Cardinality(s) \in Nat
    BY FS_Subset, FS_CardinalityType
  <1>2. 0 \in Good
    <2>1. \A s \in SUBSET S : Cardinality(s) <= 0 => s = {}
      BY <1>1, FS_EmptySet
    <2>2. g[{}] = 0
      BY DEF Sums
    <2>3. Fine({})
      BY <2>2
    <2> HIDE DEF Fine
    <2> QED BY <2>1, <2>3
  <1>3. ASSUME NEW n \in Nat, n \in Good
        PROVE  n + 1 \in Good
    <2>1. SUFFICES ASSUME NEW s \in SUBSET S, Cardinality(s) = n + 1
                   PROVE  Fine(s)
      <3> HIDE DEF Fine
      <3> QED BY <1>1, <1>3
    <2> DEFINE c == Pick(s)
    <2>2. s # {}
      BY <2>1, <1>1, FS_EmptySet
    <2>3. c \in s
      BY <2>2, PickIn
    <2>4. \A x \in s : s \ {x} \in SUBSET S /\ Cardinality(s \ {x}) = n
      <3>1. ASSUME NEW x \in s PROVE Cardinality(s \ {x}) = n
        BY <1>1, <2>1, FS_RemoveElement
      <3> QED BY <2>1, <3>1
    <2>5. \A x \in s : Fine(s \ {x})
      <3> HIDE DEF Fine
      <3> QED BY <1>3, <2>4
    <2>6. g[s] = f[c] + g[s \ {c}]
      BY <2>1, <2>2 DEF Sums
    <2>7. f[c] \in Int /\ g[s \ {c}] \in Int
      BY <2>1, <2>3, <2>5
    <2>8. ASSUME NEW x \in s
          PROVE  g[s] = f[x] + g[s \ {x}]
      <3>1. CASE x = c
        BY <2>6, <3>1
      <3>2. CASE x # c
        <4> DEFINE r == s \ {c, x}
        <4>1. (s \ {c}) \ {x} = r /\ (s \ {x}) \ {c} = r
          OBVIOUS
        <4>2. g[s \ {c}] = f[x] + g[r]
          <5>1. x \in s \ {c}
            BY <3>2
          <5> QED BY <2>3, <2>5, <4>1, <5>1
        <4>3. g[s \ {x}] = f[c] + g[r]
          <5>1. c \in s \ {x}
            BY <2>3, <3>2
          <5> QED BY <2>5, <4>1, <5>1
        <4>4. f[x] \in Int /\ g[s \ {x}] \in Int
          BY <2>1, <2>5
        <4>5. g[r] \in Int
          <5>1. r \in SUBSET S /\ r \in SUBSET (s \ {c})
            BY <2>1
          <5>2. Cardinality(r) <= n
            <6>1. /\ IsFiniteSet(s \ {c}) /\ Cardinality(s \ {c}) = n
              BY <1>1, <2>3, <2>4
            <6> QED BY <5>1, <6>1, FS_Subset
          <5> QED BY <1>3, <5>1, <5>2
        <4> QED BY <2>6, <2>7, <4>2, <4>3, <4>4, <4>5
      <3> QED BY <3>1, <3>2
    <2>9. g[s] \in Int
      BY <2>6, <2>7
    <2> QED BY <2>8, <2>9
  <1> HIDE DEF Good
  <1>4. \A n \in Nat : n \in Good
    BY <1>2, <1>3, Induction
  <1>5. \A s \in SUBSET S : Fine(s)
    <2> HIDE DEF Fine
    <2> QED BY <1>1, <1>4 DEF Good
  <1> QED BY <1>5

\* The sum of nothing.
LEMMA SumEmpty ==
  ASSUME NEW f
  PROVE  Sum(f, {}) = 0
  <1> DEFINE g == CHOOSE h : Sums(h, f, {})
  <1>1. \E h : Sums(h, f, {})
    BY SumsExist, FS_EmptySet
  <1>2. Sums(g, f, {})
    BY <1>1
  <1> HIDE DEF g
  <1>3. g[{}] = 0
    BY <1>2 DEF Sums
  <1>4. Sum(f, {}) = g[{}]
    BY SumUnfolds DEF g
  <1> QED BY <1>3, <1>4

\* One more term.
LEMMA SumAdd ==
  ASSUME NEW S, IsFiniteSet(S), NEW k, k \notin S, NEW f, NEW e,
         \A x \in S : f[x] = e[x], \A x \in S \cup {k} : e[x] \in Int
  PROVE  Sum(e, S \cup {k}) = Sum(f, S) + e[k]
  <1> DEFINE T == S \cup {k}
             g == CHOOSE h : Sums(h, f, S)
             d == CHOOSE h : Sums(h, e, T)
  <1>1. IsFiniteSet(T) /\ S \subseteq T /\ k \in T /\ T \ {k} = S
    BY FS_AddElement
  <1>2. Sums(g, f, S)
    BY SumsExist
  <1>3. Sums(d, e, T)
    BY <1>1, SumsExist
  <1>4. Sum(f, S) = g[S] /\ Sum(e, T) = d[T]
    BY SumUnfolds
  <1> HIDE DEF g, d, T
  <1>5. /\ d[T] = e[k] + d[S] /\ d[S] \in Int
    <2>1. \A x \in T : e[x] \in Int
      BY DEF T
    <2>2. \A s \in SUBSET T : d[s] \in Int
      BY <1>1, <1>3, <2>1, SumsAny
    <2>3. ASSUME NEW s \in SUBSET T, NEW x \in s
          PROVE  d[s] = e[x] + d[s \ {x}]
      BY <1>1, <1>3, <2>1, SumsAny
    <2>4. S \in SUBSET T /\ T \in SUBSET T
      BY <1>1
    <2>5. d[T] = e[k] + d[T \ {k}]
      BY <1>1, <2>3, <2>4
    <2> QED BY <1>1, <2>2, <2>4, <2>5
  <1>6. d[S] = g[S]
    <2>1. \A s \in SUBSET S : d[s] = g[s]
      BY <1>1, <1>2, <1>3, SumsSame
    <2> QED BY <2>1
  <1>7. e[k] \in Int
    BY <1>1 DEF T
  <1> QED BY <1>4, <1>5, <1>6, <1>7 DEF T

-----------------------------------------------------------------------------
(* The amount.                                                             *)

LEMMA CentsNat ==
  ASSUME NEW x \in Nat
  PROVE  Cents(x) \in Nat
  BY DEF Cents

\* Rounding to the nearest cent.
LEMMA CentsNearest ==
  ASSUME NEW x \in Nat
  PROVE  100 * Cents(x) <= x + 50 /\ x + 50 < 100 * Cents(x) + 100
  BY DEF Cents

LEMMA ProductNat ==
  ASSUME NEW a \in Nat, NEW b \in Nat
  PROVE  a * b \in Nat
  OBVIOUS

\* What a rule in memory is worth is a number; a top-up is never negative.
LEMMA AmountType ==
  ASSUME NEW rule \in Rule, NEW request \in Request, NEW running \in Int,
         Valid(rule), ~Unsupported(rule)
  PROVE  /\ AmountOf(rule, request, running) \in Int
         /\ rule.type = "minimum_guarantee" => AmountOf(rule, request, running) \in Nat
  <1> DEFINE amount == AmountOf(rule, request, running)
  <1>1. rule.value \in Nat /\ rule.type \in PaymentRuleType
    BY DEF Rule
  <1>2. /\ request.did \in [Zones \cup SupportedMetric -> Nat]
        /\ request.did["distance_km"] \in Nat /\ request.did["completed_orders"] \in Nat
    BY DEF Request, SupportedMetric
  <1>3. CASE rule.type = "zone_rate"
    <2>1. request.did[rule.on] \in Nat
      BY <1>2, <1>3 DEF Valid
    <2>2. rule.value * request.did[rule.on] \in Nat
      BY <1>1, <2>1, ProductNat
    <2>3. amount = Cents(rule.value * request.did[rule.on])
      BY <1>3 DEF AmountOf, PerUnit
    <2> QED BY <1>3, <2>2, <2>3, CentsNat
  <1>4. CASE rule.type = "per_km"
    <2>1. rule.value * request.did["distance_km"] \in Nat
      BY <1>1, <1>2, ProductNat
    <2>2. amount = Cents(rule.value * request.did["distance_km"])
      BY <1>4 DEF AmountOf, PerUnit
    <2> QED BY <1>4, <2>1, <2>2, CentsNat
  <1>5. CASE rule.type = "per_order"
    <2>1. rule.value * request.did["completed_orders"] \in Nat
      BY <1>1, <1>2, ProductNat
    <2>2. amount = Cents(rule.value * request.did["completed_orders"])
      BY <1>5 DEF AmountOf, PerUnit
    <2> QED BY <1>5, <2>1, <2>2, CentsNat
  <1>6. CASE rule.type = "bonus"
    <2>1. amount \in {0, Cents(rule.value)}
      BY <1>6 DEF AmountOf, Bonus
    <2> QED BY <1>1, <1>6, <2>1, CentsNat
  <1>7. CASE rule.type = "penalty"
    <2>1. amount \in {0, -Cents(rule.value)}
      BY <1>7 DEF AmountOf, Penalty
    <2>2. Cents(rule.value) \in Nat
      BY <1>1, CentsNat
    <2> QED BY <1>7, <2>1, <2>2
  <1>8. CASE rule.type = "minimum_guarantee"
    <2>1. amount = IF request.period = rule.on /\ 100 * running < rule.value
                   THEN Cents(rule.value - 100 * running) ELSE 0
      BY <1>8 DEF AmountOf, TopUp, Covers
    <2>2. 100 * running < rule.value => rule.value - 100 * running \in Nat
      BY <1>1
    <2>3. 100 * running < rule.value => Cents(rule.value - 100 * running) \in Nat
      BY <2>2, CentsNat
    <2> QED BY <2>1, <2>3
  <1> QED BY <1>1, <1>3, <1>4, <1>5, <1>6, <1>7, <1>8 DEF PaymentRuleType

\* After its turn, a guarantee of the period holds, to the cent.
LEMMA TopUpReaches ==
  ASSUME NEW rule \in Rule, NEW request, NEW running \in Int,
         rule.type = "minimum_guarantee", request.period = rule.on
  PROVE  running + AmountOf(rule, request, running) >= Cents(rule.value)
  <1>1. rule.value \in Nat
    BY DEF Rule
  <1>2. AmountOf(rule, request, running) =
          IF 100 * running < rule.value THEN Cents(rule.value - 100 * running) ELSE 0
    BY DEF AmountOf, TopUp, Covers
  <1>3. CASE 100 * running < rule.value
    <2> DEFINE missing == rule.value - 100 * running
    <2>1. missing \in Nat
      BY <1>1, <1>3
    <2>2. Cents(rule.value) \in Nat /\ Cents(missing) \in Nat
      BY <1>1, <2>1, CentsNat
    <2>3. 100 * Cents(rule.value) <= rule.value + 50
      BY <1>1, CentsNearest
    <2>4. missing + 50 < 100 * Cents(missing) + 100
      BY <2>1, CentsNearest
    <2>5. missing = rule.value - 100 * running
      OBVIOUS
    <2> HIDE DEF missing
    <2>6. Cents(missing) + running >= Cents(rule.value)
      BY <1>1, <2>1, <2>2, <2>3, <2>4, <2>5
    <2> QED BY <1>2, <1>3, <2>2, <2>5, <2>6
  <1>4. CASE ~(100 * running < rule.value)
    <2>1. running >= Cents(rule.value)
      BY <1>1, <1>4 DEF Cents
    <2> QED BY <1>2, <1>4, <2>1
  <1> QED BY <1>3, <1>4

CalcTypes ==
  /\ calc \in Calc /\ calc.left \subseteq Counted
  /\ calc.pc = "adding" => calc.request \in Request
  /\ \A k \in Counted : Valid(calc.rules[k])

\* Rules have their turns in order.
InTurn == \A a \in Added, b \in calc.left : Precedes(a, b)

\* There is a top-up only if a guarantee has paid one.
TopUpPaid == calc.topUp = 0 \/ \E g \in Added : IsGuarantee(g) /\ calc.parts[g] > 0

SumInv == CalcTypes /\ InTurn /\ TopUpPaid /\ GuaranteeKept /\ SubtotalSplit

LEMMA SumInit == Init => SumInv
  <1>1. SUFFICES ASSUME Init PROVE SumInv
    OBVIOUS
  <1>2. calc = NoCalc
    BY <1>1 DEF Init
  <1>3. calc \in Calc
    <2>1. [k \in Keys |-> None] \in [Keys -> Rule \cup {None}]
      OBVIOUS
    <2>2. [k \in Keys |-> 0] \in [Keys -> Int]
      OBVIOUS
    <2> QED BY <1>2, <2>1, <2>2 DEF Calc, NoCalc
  <1>4. Counted = {} /\ Added = {} /\ calc.left = {}
    BY <1>2 DEF Counted, Added, NoCalc
  <1>5. calc.pc = "idle" /\ calc.topUp = 0 /\ calc.before = 0 /\ calc.running = 0
    BY <1>2 DEF NoCalc
  <1> QED BY <1>3, <1>4, <1>5
          DEF SumInv, CalcTypes, InTurn, TopUpPaid, GuaranteeKept, SubtotalSplit
\* What the properties speak of is kept by a step that leaves the sums and the rules alone.
LEMMA SumKept ==
  ASSUME SumInv, calc' \in Calc,
         calc'.rules = calc.rules, calc'.left = calc.left, calc'.parts = calc.parts,
         calc'.running = calc.running, calc'.before = calc.before, calc'.topUp = calc.topUp,
         calc'.request = calc.request, calc'.pc = "adding" => calc.pc = "adding"
  PROVE  SumInv'
  <1>1. Counted' = Counted /\ Added' = Added
    BY DEF Counted, Added
  <1>2. CalcTypes'
    BY <1>1 DEF SumInv, CalcTypes
  <1>3. InTurn' /\ TopUpPaid'
    BY <1>1 DEF SumInv, InTurn, Precedes, TopUpPaid, IsGuarantee
  <1>4. GuaranteeKept'
    BY <1>1 DEF SumInv, GuaranteeKept, Precedes, IsGuarantee
  <1>5. SubtotalSplit'
    BY <1>1 DEF SumInv, SubtotalSplit, Precedes, IsGuarantee
  <1> QED BY <1>2, <1>3, <1>4, <1>5 DEF SumInv

LEMMA ReadRulesKeeps ==
  ASSUME RowsInv, SumInv, NEW request \in Requests, ReadRules(request)
  PROVE  SumInv'
  <1> DEFINE inEffect == { k \in Keys : versions[k] # << >>
                                        /\ IsRuleEffective(Latest(k).rule, request) }
             rules == [k \in Keys |-> IF k \in inEffect THEN Latest(k).rule ELSE None]
  <1>1. calc' = [NoCalc EXCEPT !.pc = "adding", !.request = request,
                               !.rules = rules, !.left = inEffect]
    BY DEF ReadRules
  <1> HIDE DEF inEffect
  <1>2. /\ calc'.rules = rules /\ calc'.left = inEffect /\ calc'.request = request
        /\ calc'.pc = "adding" /\ calc'.parts = [k \in Keys |-> 0]
        /\ calc'.topUp = 0 /\ calc'.before = 0 /\ calc'.running = 0 /\ calc'.amount = 0
    BY <1>1 DEF NoCalc
  <1>3. ASSUME NEW k \in inEffect
        PROVE  k \in Keys /\ Latest(k).rule \in Rule /\ Valid(Latest(k).rule)
    <2>1. k \in Keys /\ versions[k] # << >>
      BY DEF inEffect
    <2>2. /\ Latest(k) = versions[k][Len(versions[k])] /\ Latest(k) \in Row
          /\ Len(versions[k]) \in DOMAIN versions[k]
      BY <2>1, LatestIsLast DEF RowsInv
    <2>3. Valid(Latest(k).rule)
      BY <2>1, <2>2 DEF RowsInv, RowsValid
    <2>4. Latest(k).rule \in Rule
      BY <2>2 DEF Row
    <2> QED BY <2>1, <2>3, <2>4
  <1>4. rules \in [Keys -> Rule \cup {None}] /\ inEffect \subseteq Keys
    BY <1>3
  <1>5. request \in Request
    BY PaymentRulesAssumption
  <1>6. calc' \in Calc
    <2>1. [k \in Keys |-> 0] \in [Keys -> Int]
      OBVIOUS
    <2>2. calc' = [ pc |-> "adding", request |-> request, rules |-> rules, left |-> inEffect,
                    parts |-> [k \in Keys |-> 0], running |-> 0, before |-> 0, topUp |-> 0,
                    amount |-> 0 ]
      BY <1>1 DEF NoCalc
    <2> HIDE DEF rules
    <2> QED BY <1>4, <1>5, <2>1, <2>2 DEF Calc
  <1>7. Counted' = inEffect /\ Added' = {}
    <2>1. \A k \in Keys : rules[k] # None <=> k \in inEffect
      BY <1>3, PaymentRulesAssumption
    <2> QED BY <1>2, <1>4, <2>1 DEF Counted, Added
  <1>8. CalcTypes'
    <2>1. \A k \in Counted' : Valid(calc'.rules[k])
      BY <1>2, <1>3, <1>7
    <2> QED BY <1>2, <1>5, <1>6, <1>7, <2>1 DEF CalcTypes, Valid
  <1> QED BY <1>2, <1>7, <1>8 DEF SumInv, InTurn, TopUpPaid, GuaranteeKept, SubtotalSplit

\* What AddComponent does, field by field.
LEMMA AddedComponent ==
  ASSUME SumInv, NEW k \in Keys, AddComponent(k)
  PROVE  /\ k \in Counted /\ k \in calc.left /\ calc.rules[k] \in Rule
         /\ \A j \in calc.left \ {k} : Precedes(k, j)
         /\ calc'.rules = calc.rules /\ calc'.request = calc.request
         /\ calc'.left = calc.left \ {k}
         /\ Counted' = Counted /\ Added' = Added \cup {k}
         /\ \A i, j \in Keys : Precedes(i, j)' <=> Precedes(i, j)
         /\ \A j \in Keys : IsGuarantee(j)' <=> IsGuarantee(j)
         /\ \A j \in Keys \ {k} : calc'.parts[j] = calc.parts[j]
         /\ calc'.parts[k] = AmountOf(calc.rules[k], calc.request, calc.running)
         /\ calc'.parts[k] \in Int
         /\ IsGuarantee(k) => calc'.parts[k] \in Nat
         /\ calc'.running = calc.running + calc'.parts[k]
         /\ calc'.before = IF IsGuarantee(k) THEN calc.before ELSE calc'.running
         /\ calc'.topUp = IF IsGuarantee(k) THEN calc.topUp + calc'.parts[k] ELSE calc.topUp
         /\ CalcTypes'
  <1> DEFINE amount == AmountOf(calc.rules[k], calc.request, calc.running)
  <1>1. /\ calc.pc = "adding" /\ IsNext(k) /\ ~Unsupported(calc.rules[k])
        /\ calc' = [calc EXCEPT !.left = @ \ {k}, !.parts[k] = amount,
                      !.running = @ + amount,
                      !.before  = IF IsGuarantee(k) THEN @ ELSE calc.running + amount,
                      !.topUp   = IF IsGuarantee(k) THEN @ + amount ELSE @]
    BY DEF AddComponent
  <1>2. k \in calc.left /\ \A j \in calc.left \ {k} : Precedes(k, j)
    BY <1>1 DEF IsNext
  <1>3. calc \in Calc /\ k \in Counted /\ calc.request \in Request
    BY <1>1, <1>2 DEF SumInv, CalcTypes
  <1>4. calc.rules[k] \in Rule /\ Valid(calc.rules[k])
    BY <1>3 DEF Counted, Calc, SumInv, CalcTypes
  <1>5. calc.running \in Int /\ calc.before \in Int /\ calc.topUp \in Nat
        /\ calc.parts \in [Keys -> Int]
    BY <1>3 DEF Calc
  <1>6. amount \in Int /\ (IsGuarantee(k) => amount \in Nat)
    BY <1>1, <1>3, <1>4, <1>5, AmountType DEF IsGuarantee
  <1> HIDE DEF amount
  <1>7. /\ calc'.left = calc.left \ {k}
        /\ calc'.parts = [calc.parts EXCEPT ![k] = amount]
        /\ calc'.running = calc.running + amount
        /\ calc'.before = IF IsGuarantee(k) THEN calc.before ELSE calc.running + amount
        /\ calc'.topUp = IF IsGuarantee(k) THEN calc.topUp + amount ELSE calc.topUp
        /\ calc'.rules = calc.rules /\ calc'.request = calc.request
        /\ calc'.pc = calc.pc
    BY <1>1, <1>3 DEF Calc
  <1>8. calc'.parts[k] = amount /\ \A j \in Keys \ {k} : calc'.parts[j] = calc.parts[j]
    BY <1>5, <1>7
  <1>9. Counted' = Counted /\ Added' = Added \cup {k}
    BY <1>2, <1>3, <1>7 DEF Counted, Added
  <1>10. /\ \A i, j \in Keys : Precedes(i, j)' <=> Precedes(i, j)
         /\ \A j \in Keys : IsGuarantee(j)' <=> IsGuarantee(j)
    BY <1>7 DEF Precedes, IsGuarantee
  <1>11. calc' \in Calc
    <2>1. [calc.parts EXCEPT ![k] = amount] \in [Keys -> Int]
      BY <1>5, <1>6
    <2>2. /\ calc.running + amount \in Int
          /\ (IF IsGuarantee(k) THEN calc.before ELSE calc.running + amount) \in Int
          /\ (IF IsGuarantee(k) THEN calc.topUp + amount ELSE calc.topUp) \in Nat
      BY <1>5, <1>6
    <2>3. calc.left \ {k} \in SUBSET Keys
      BY <1>3 DEF Calc
    <2> QED BY <1>1, <1>3, <2>1, <2>2, <2>3 DEF Calc
  <1>12. CalcTypes'
    <2>1. \A j \in Counted' : Valid(calc'.rules[j])
      BY <1>7, <1>9 DEF SumInv, CalcTypes
    <2>2. calc'.left \subseteq Counted'
      BY <1>7, <1>9 DEF SumInv, CalcTypes
    <2> QED BY <1>3, <1>7, <1>11, <2>1, <2>2 DEF CalcTypes, Valid
  <1>13. calc'.parts[k] = AmountOf(calc.rules[k], calc.request, calc.running)
    BY <1>8 DEF amount
  <1> QED BY <1>2, <1>3, <1>4, <1>6, <1>7, <1>8, <1>9, <1>10, <1>12, <1>13
LEMMA AddComponentKeeps ==
  ASSUME SumInv, NEW k \in Keys, AddComponent(k)
  PROVE  SumInv'
  <1>1. /\ k \in Counted /\ k \in calc.left /\ k \notin Added
        /\ \A j \in calc.left \ {k} : Precedes(k, j)
        /\ Added \subseteq Keys /\ calc.left \subseteq Keys
    BY AddedComponent DEF Counted, Added, SumInv, CalcTypes
  <1>2. /\ calc'.left = calc.left \ {k} /\ Added' = Added \cup {k}
        /\ \A i, j \in Keys : Precedes(i, j)' <=> Precedes(i, j)
        /\ \A j \in Keys : IsGuarantee(j)' <=> IsGuarantee(j)
        /\ \A j \in Added : calc'.parts[j] = calc.parts[j]
        /\ calc'.rules = calc.rules /\ calc'.request = calc.request
    BY <1>1, AddedComponent
  <1>3. \A a \in Added : Precedes(a, k)
    BY <1>1 DEF SumInv, InTurn
  <1>4. /\ calc.running \in Int /\ calc.before \in Int /\ calc.topUp \in Nat
        /\ calc'.parts[k] \in Int /\ (IsGuarantee(k) => calc'.parts[k] \in Nat)
        /\ calc'.running = calc.running + calc'.parts[k]
        /\ calc'.before = IF IsGuarantee(k) THEN calc.before ELSE calc'.running
        /\ calc'.topUp = IF IsGuarantee(k) THEN calc.topUp + calc'.parts[k] ELSE calc.topUp
    BY AddedComponent DEF SumInv, CalcTypes, Calc
  <1>5. InTurn'
    <2>1. SUFFICES ASSUME NEW a \in Added', NEW b \in calc'.left PROVE Precedes(a, b)'
      BY DEF InTurn
    <2>2. a \in Keys /\ b \in Keys /\ b \in calc.left \ {k}
      BY <1>1, <1>2, <2>1
    <2>3. Precedes(a, b)
      BY <1>1, <1>2, <2>1, <2>2 DEF SumInv, InTurn
    <2> QED BY <1>2, <2>2, <2>3
  <1>6. TopUpPaid'
    <2>1. CASE \E g \in Added : IsGuarantee(g) /\ calc.parts[g] > 0
      <3>1. PICK g \in Added : IsGuarantee(g) /\ calc.parts[g] > 0
        BY <2>1
      <3>2. g \in Added' /\ IsGuarantee(g)' /\ calc'.parts[g] > 0
        BY <1>1, <1>2, <3>1
      <3> QED BY <3>2 DEF TopUpPaid
    <2>2. CASE calc.topUp = 0 /\ IsGuarantee(k) /\ calc'.parts[k] > 0
      <3>1. k \in Added' /\ IsGuarantee(k)'
        BY <1>1, <1>2, <2>2 DEF Counted
      <3> QED BY <2>2, <3>1 DEF TopUpPaid
    <2>3. CASE calc.topUp = 0 /\ ~(IsGuarantee(k) /\ calc'.parts[k] > 0)
      <3>1. calc'.topUp = 0
        BY <1>4, <2>3
      <3> QED BY <3>1 DEF TopUpPaid
    <2> QED BY <2>1, <2>2, <2>3 DEF SumInv, TopUpPaid
  <1>7. GuaranteeKept'
    <2>1. SUFFICES ASSUME NEW g \in Added', IsGuarantee(g)',
                          calc'.request.period = calc'.rules[g].on
                   PROVE  \/ calc'.running >= Cents(calc'.rules[g].value)
                          \/ \E p \in Added' : Precedes(g, p)' /\ calc'.parts[p] < 0
      BY DEF GuaranteeKept, Cents
    <2>2. /\ g \in Keys /\ k \in Keys /\ IsGuarantee(g)
          /\ calc.request.period = calc.rules[g].on
      BY <1>1, <1>2, <2>1
    <2>3. CASE g = k
      <3>1. calc.rules[k] \in Rule
        BY AddedComponent
      <3>2. calc'.parts[k] = AmountOf(calc.rules[k], calc.request, calc.running)
        BY AddedComponent
      <3>3. calc.running + AmountOf(calc.rules[k], calc.request, calc.running)
              >= Cents(calc.rules[k].value)
        BY <1>4, <2>2, <2>3, <3>1, TopUpReaches DEF IsGuarantee
      <3> QED BY <1>2, <1>4, <2>3, <3>2, <3>3
    <2>4. CASE g \in Added
      <3>1. CASE \E p \in Added : Precedes(g, p) /\ calc.parts[p] < 0
        <4>1. PICK p \in Added : Precedes(g, p) /\ calc.parts[p] < 0
          BY <3>1
        <4>2. p \in Added' /\ Precedes(g, p)' /\ calc'.parts[p] < 0
          BY <1>1, <1>2, <2>2, <4>1
        <4> QED BY <4>2
      <3>2. CASE calc.running >= Cents(calc.rules[g].value) /\ calc'.parts[k] < 0
        <4>1. k \in Added' /\ Precedes(g, k)'
          BY <1>2, <1>3, <2>2, <2>4
        <4> QED BY <3>2, <4>1
      <3>3. CASE calc.running >= Cents(calc.rules[g].value) /\ ~(calc'.parts[k] < 0)
        <4>1. calc.rules[g] \in Rule
          BY <2>4 DEF Added, Counted, SumInv, CalcTypes, Calc
        <4>2. Cents(calc.rules[g].value) \in Nat
          BY <4>1, CentsNat DEF Rule
        <4>3. calc'.running >= Cents(calc.rules[g].value)
          BY <1>4, <3>3, <4>2
        <4> QED BY <1>2, <4>3
      <3> QED BY <2>2, <2>4, <3>1, <3>2, <3>3 DEF SumInv, GuaranteeKept
    <2> QED BY <1>2, <2>1, <2>3, <2>4
  <1>8. SubtotalSplit'
    <2> DEFINE Cut(g, j) == IsGuarantee(g) /\ calc.parts[g] > 0 /\ ~IsGuarantee(j) /\ Precedes(g, j)
    <2>1. CASE \E g, j \in Added : Cut(g, j)
      <3>1. PICK g \in Added, j \in Added : Cut(g, j)
        BY <2>1
      <3>2. /\ g \in Added' /\ j \in Added'
            /\ IsGuarantee(g)' /\ calc'.parts[g] > 0 /\ (~IsGuarantee(j))' /\ Precedes(g, j)'
        BY <1>1, <1>2, <3>1
      <3> QED BY <3>2 DEF SubtotalSplit
    <2>2. CASE calc.before + calc.topUp = calc.running /\ IsGuarantee(k)
      <3>1. calc'.before + calc'.topUp = calc'.running
        BY <1>4, <2>2
      <3> QED BY <3>1 DEF SubtotalSplit
    <2>3. CASE ~IsGuarantee(k) /\ calc.topUp = 0
      <3>1. calc'.before + calc'.topUp = calc'.running
        BY <1>4, <2>3
      <3> QED BY <3>1 DEF SubtotalSplit
    <2>4. CASE ~IsGuarantee(k) /\ \E g \in Added : IsGuarantee(g) /\ calc.parts[g] > 0
      <3>1. PICK g \in Added : IsGuarantee(g) /\ calc.parts[g] > 0
        BY <2>4
      <3>2. /\ g \in Added' /\ k \in Added'
            /\ IsGuarantee(g)' /\ calc'.parts[g] > 0 /\ (~IsGuarantee(k))' /\ Precedes(g, k)'
        BY <1>1, <1>2, <1>3, <2>4, <3>1
      <3> QED BY <3>2 DEF SubtotalSplit
    <2> QED BY <2>1, <2>2, <2>3, <2>4 DEF SumInv, SubtotalSplit, TopUpPaid
  <1> QED BY <1>5, <1>6, <1>7, <1>8, AddedComponent DEF SumInv

\* Every step keeps what is known of the sum.
LEMMA SumStep == RowsInv /\ SumInv /\ [ServiceNext]_vars => SumInv'
  <1>1. SUFFICES ASSUME RowsInv, SumInv, [ServiceNext]_vars PROVE SumInv'
    OBVIOUS
  <1>2. calc \in Calc
    BY <1>1 DEF SumInv, CalcTypes
  <1>3. CASE UNCHANGED calc
    BY <1>1, <1>2, <1>3, SumKept
  <1>4. CASE \E request \in Requests : ReadRules(request)
    BY <1>1, <1>4, ReadRulesKeeps
  <1>5. CASE \E k \in Keys : AddComponent(k)
    BY <1>1, <1>5, AddComponentKeeps
  <1>6. CASE \E k \in Keys : RejectMetric(k)
    <2>1. calc' = [calc EXCEPT !.pc = "failed"]
      BY <1>6 DEF RejectMetric
    <2>2. /\ calc' \in Calc /\ calc'.pc = "failed"
          /\ calc'.rules = calc.rules /\ calc'.left = calc.left /\ calc'.parts = calc.parts
          /\ calc'.running = calc.running /\ calc'.before = calc.before
          /\ calc'.topUp = calc.topUp /\ calc'.request = calc.request
      BY <1>2, <2>1 DEF Calc
    <2> QED BY <1>1, <2>2, SumKept
  <1>7. CASE FinishAmount
    <2>1. calc' = [calc EXCEPT !.pc = "done",
                               !.amount = IF calc.running < 0 THEN 0 ELSE calc.running]
      BY <1>7 DEF FinishAmount
    <2>2. (IF calc.running < 0 THEN 0 ELSE calc.running) \in Nat
      BY <1>2 DEF Calc
    <2>3. /\ calc' \in Calc /\ calc'.pc = "done"
          /\ calc'.rules = calc.rules /\ calc'.left = calc.left /\ calc'.parts = calc.parts
          /\ calc'.running = calc.running /\ calc'.before = calc.before
          /\ calc'.topUp = calc.topUp /\ calc'.request = calc.request
      BY <1>2, <2>1, <2>2 DEF Calc
    <2> QED BY <1>1, <2>3, SumKept
  <1>8. CASE \E k \in Keys, rule \in Rule : CreatePaymentRule(k, rule)
    BY <1>3, <1>8 DEF CreatePaymentRule
  <1>9. CASE \E e \in Editors : \/ \E k \in Keys, patch \in Patch : FindLatest(e, k, patch)
                                \/ InsertVersion(e)
                                \/ InsertFails(e)
    BY <1>3, <1>9 DEF FindLatest, InsertVersion, InsertFails
  <1>10. CASE UNCHANGED vars
    BY <1>3, <1>10 DEF vars
  <1> QED BY <1>1, <1>4, <1>5, <1>6, <1>7, <1>8, <1>9, <1>10 DEF ServiceNext

\* The sum so far is that of the components so far, and the amount is made of all of them.
AddsInv ==
  /\ IsFiniteSet(Counted)
  /\ calc.running = Sum(calc.parts, Added)
  /\ calc.pc = "done" =>
       calc.left = {} /\ calc.amount = IF calc.running < 0 THEN 0 ELSE calc.running

LEMMA AddsInit == Init => AddsInv
  <1>1. SUFFICES ASSUME Init PROVE AddsInv
    OBVIOUS
  <1>2. calc = NoCalc
    BY <1>1 DEF Init
  <1>3. Counted = {} /\ Added = {}
    BY <1>2 DEF Counted, Added, NoCalc
  <1>4. calc.running = 0 /\ calc.pc # "done"
    BY <1>2 DEF NoCalc
  <1> QED BY <1>3, <1>4, SumEmpty, FS_EmptySet DEF AddsInv

LEMMA AddComponentAdds ==
  ASSUME SumInv, AddsInv, NEW k \in Keys, AddComponent(k)
  PROVE  AddsInv'
  <1>1. /\ k \in Counted /\ k \notin Added /\ Added \subseteq Counted /\ Counted \subseteq Keys
        /\ IsFiniteSet(Added)
    <2>1. k \in Counted /\ k \in calc.left
      BY AddedComponent
    <2>2. Added \subseteq Counted /\ Counted \subseteq Keys /\ k \notin Added
      BY <2>1 DEF Added, Counted
    <2> QED BY <2>1, <2>2, FS_Subset DEF AddsInv
  <1>2. Added' = Added \cup {k} /\ Counted' = Counted
    BY AddedComponent
  <1>3. \A x \in Added : calc.parts[x] = calc'.parts[x]
    <2>1. \A x \in Keys \ {k} : calc'.parts[x] = calc.parts[x]
      BY AddedComponent
    <2> QED BY <1>1, <2>1
  <1>4. \A x \in Added \cup {k} : calc'.parts[x] \in Int
    <2>1. calc'.parts \in [Keys -> Int]
      BY AddedComponent DEF CalcTypes, Calc
    <2> QED BY <1>1, <2>1
  <1>5. Sum(calc'.parts, Added \cup {k}) = Sum(calc.parts, Added) + calc'.parts[k]
    <2> DEFINE A == Added
               f == calc.parts
               e == calc'.parts
    <2>1. /\ IsFiniteSet(A) /\ k \notin A
          /\ \A x \in A : f[x] = e[x]
          /\ \A x \in A \cup {k} : e[x] \in Int
      BY <1>1, <1>3, <1>4
    <2> HIDE DEF A, f, e
    <2>2. Sum(e, A \cup {k}) = Sum(f, A) + e[k]
      BY <2>1, SumAdd
    <2> QED BY <2>2 DEF A, f, e
  <1>6. calc'.running = calc.running + calc'.parts[k]
    BY AddedComponent
  <1>7. calc'.pc # "done"
    BY DEF AddComponent, SumInv, CalcTypes, Calc
  <1>8. calc'.running = Sum(calc'.parts, Added')
    BY <1>2, <1>5, <1>6 DEF AddsInv
  <1> QED BY <1>2, <1>7, <1>8 DEF AddsInv

\* Every step keeps the sum right.
LEMMA AddsStep == RowsInv /\ SumInv /\ AddsInv /\ [ServiceNext]_vars => AddsInv'
  <1>1. SUFFICES ASSUME RowsInv, SumInv, AddsInv, [ServiceNext]_vars PROVE AddsInv'
    OBVIOUS
  <1>2. calc \in Calc
    BY <1>1 DEF SumInv, CalcTypes
  <1>3. ASSUME calc'.rules = calc.rules, calc'.left = calc.left, calc'.parts = calc.parts,
               calc'.running = calc.running
        PROVE  /\ IsFiniteSet(Counted') /\ calc'.running = Sum(calc'.parts, Added')
    <2>1. Counted' = Counted /\ Added' = Added
      BY <1>3 DEF Counted, Added
    <2> QED BY <1>1, <1>3, <2>1 DEF AddsInv
  <1>4. CASE UNCHANGED calc
    BY <1>1, <1>3, <1>4 DEF AddsInv
  <1>5. ASSUME NEW request \in Requests, ReadRules(request)
        PROVE  AddsInv'
    <2> DEFINE inEffect == { k \in Keys : versions[k] # << >>
                                          /\ IsRuleEffective(Latest(k).rule, request) }
               rules == [k \in Keys |-> IF k \in inEffect THEN Latest(k).rule ELSE None]
    <2>1. calc' = [NoCalc EXCEPT !.pc = "adding", !.request = request,
                                 !.rules = rules, !.left = inEffect]
      BY <1>5 DEF ReadRules
    <2> HIDE DEF inEffect
    <2>2. calc'.rules = rules /\ calc'.left = inEffect /\ calc'.pc = "adding"
          /\ calc'.running = 0
      BY <2>1 DEF NoCalc
    <2>3. Counted' \subseteq inEffect /\ Added' = {}
      BY <2>2 DEF Counted, Added
    <2>4. inEffect \subseteq Made
      BY DEF inEffect, Made
    <2>5. IsFiniteSet(Counted')
      BY <1>1, <2>3, <2>4, FS_Subset DEF RowsInv
    <2> QED BY <2>2, <2>3, <2>5, SumEmpty DEF AddsInv
  <1>6. CASE \E k \in Keys : AddComponent(k)
    BY <1>1, <1>6, AddComponentAdds
  <1>7. CASE \E k \in Keys : RejectMetric(k)
    <2>1. calc' = [calc EXCEPT !.pc = "failed"]
      BY <1>7 DEF RejectMetric
    <2>2. /\ calc'.pc = "failed" /\ calc'.rules = calc.rules /\ calc'.left = calc.left
          /\ calc'.parts = calc.parts /\ calc'.running = calc.running
      BY <1>2, <2>1 DEF Calc
    <2> QED BY <1>3, <2>2 DEF AddsInv
  <1>8. CASE FinishAmount
    <2>1. /\ calc.left = {}
          /\ calc' = [calc EXCEPT !.pc = "done",
                                  !.amount = IF calc.running < 0 THEN 0 ELSE calc.running]
      BY <1>8 DEF FinishAmount
    <2>2. /\ calc'.rules = calc.rules /\ calc'.left = calc.left
          /\ calc'.parts = calc.parts /\ calc'.running = calc.running
          /\ calc'.amount = IF calc.running < 0 THEN 0 ELSE calc.running
      BY <1>2, <2>1 DEF Calc
    <2> QED BY <1>3, <2>1, <2>2 DEF AddsInv
  <1>9. CASE \E k \in Keys, rule \in Rule : CreatePaymentRule(k, rule)
    BY <1>4, <1>9 DEF CreatePaymentRule
  <1>10. CASE \E e \in Editors : \/ \E k \in Keys, patch \in Patch : FindLatest(e, k, patch)
                                 \/ InsertVersion(e)
                                 \/ InsertFails(e)
    BY <1>4, <1>10 DEF FindLatest, InsertVersion, InsertFails
  <1>11. CASE UNCHANGED vars
    BY <1>4, <1>11 DEF vars
  <1> QED BY <1>1, <1>5, <1>6, <1>7, <1>8, <1>9, <1>10, <1>11 DEF ServiceNext

\* An amount is that of its components.
LEMMA AddsUp == AddsInv => AmountAddsUp
  <1>1. SUFFICES ASSUME AddsInv, calc.pc = "done"
                 PROVE  calc.amount = LET sum == MapThenSumSet(LAMBDA k : calc.parts[k], Counted)
                                      IN IF sum < 0 THEN 0 ELSE sum
    BY DEF AmountAddsUp
  <1>2. Added = Counted
    BY <1>1 DEF AddsInv, Added
  <1>3. calc.amount = IF Sum(calc.parts, Counted) < 0 THEN 0 ELSE Sum(calc.parts, Counted)
    BY <1>1, <1>2 DEF AddsInv
  <1> QED BY <1>3 DEF Sum

LEMMA PaymentRulesInv == Spec => [](RowsInv /\ SumInv /\ AddsInv)
  BY RowsInit, SumInit, AddsInit, RowsStep, SumStep, AddsStep, NextIsService, PTL DEF Spec

\* Versions, edits and the calculation keep their types; the amount of a payment is never
\* negative, whatever penalties there are (buildPaymentBreakdown).
THEOREM RulesTypeCorrect == Spec => []TypeOK
  <1>1. RowsInv /\ SumInv => TypeOK
    BY DEF RowsInv, RowTypes, SumInv, CalcTypes, TypeOK
  <1> QED BY <1>1, PaymentRulesInv, PTL

\* Once a minimum guarantee of the period has had its turn, the sum does not go below it
\* unless a penalty with a later name takes it there (buildMinimumGuaranteeComponent).
THEOREM GuaranteeCorrect == Spec => []GuaranteeKept
  <1>1. SumInv => GuaranteeKept
    BY DEF SumInv
  <1> QED BY <1>1, PaymentRulesInv, PTL

\* The subtotal before guarantees and the top-up in the summary add up to the sum unless a
\* guarantee that pays is followed by a rule of another kind (buildPaymentBreakdown).
THEOREM SplitCorrect == Spec => []SubtotalSplit
  <1>1. SumInv => SubtotalSplit
    BY DEF SumInv
  <1> QED BY <1>1, PaymentRulesInv, PTL

\* What is paid is the sum of the components that the breakdown lists, or nothing when
\* penalties take it below (buildPaymentBreakdown): by induction over the rules that count,
\* in whatever order they are summed up.
THEOREM AmountCorrect == Spec => []AmountAddsUp
  BY AddsUp, PaymentRulesInv, PTL

-----------------------------------------------------------------------------
(* The pages.                                                              *)

Inputs == { "name", "type", "value", "zone", "metric", "threshold", "period", "active",
            "from", "to" }

Draft == [ id : (Keys \X Nat) \cup {None}, name : Nat, type : PaymentRuleType, value : Nat,
           zone : Zones \cup {None}, metric : SupportedMetric \cup FormMetrics,
           threshold : Nat, period : GuaranteePeriod, active : BOOLEAN,
           from : Nat \cup {None}, to : Nat \cup {None}, typed : SUBSET Inputs ]

Message == [ id : (Keys \X Nat) \cup {None}, payload : { rule \in Rule : FromForm(rule) },
             typed : SUBSET Inputs ]

PageTypes ==
  /\ list \in [Editors -> [Keys -> Row \cup {None}]]
  /\ form \in [Editors -> Draft]
  /\ sent \in [Editors -> Message \cup {NoRequest}]

\* All rules are made with the form.
RowsFromForm == \A k \in Keys : \A n \in DOMAIN versions[k] : FromForm(versions[k][n].rule)

ListHolds == \A p \in Editors, k \in Keys : list[p][k] # None => list[p][k] \in Rows(k)

\* The form that a row fills.
Filled == [k \in Keys |-> [row \in Row |-> RuleToForm(k, row)]]

\* What nobody typed into a form is as a row has it.
Drafted(f, k, row) == \A field \in Inputs \ f.typed : f[field] = Filled[k][row][field]

FormHolds ==
  \A p \in Editors : form[p].id # None =>
    \E k \in Keys, n \in Nat :
      /\ n \in DOMAIN versions[k]
      /\ form[p].id = << k, n >> /\ Drafted(form[p], k, versions[k][n])

SentHolds ==
  \A p \in Editors : sent[p].id # None =>
    \E k \in Keys, n \in Nat :
      /\ n \in DOMAIN versions[k]
      /\ sent[p].id = << k, n >>
      /\ Untouched(versions[k][n].rule, sent[p].payload, sent[p].typed)

\* An edit in flight is that of the request under way, of the version that it names.
EditSent ==
  \A p \in Editors : edit[p].pc = "write" =>
    /\ sent[p].id # None /\ sent[p].payload = edit[p].patch
    /\ sent[p].id = << edit[p].key, edit[p].base.version >>

PageInv == PageTypes /\ RowsFromForm /\ ListHolds /\ FormHolds /\ SentHolds /\ EditSent

\* A form has the conditions of its type and no others.
LEMMA PayloadType ==
  ASSUME NEW f \in Draft
  PROVE  FormToPayload(f) \in Rule /\ FromForm(FormToPayload(f))
  <1>1. /\ f.name \in Nat /\ f.type \in PaymentRuleType /\ f.value \in Nat
        /\ f.threshold \in Nat /\ f.active \in BOOLEAN
        /\ f.from \in Nat \cup {None} /\ f.to \in Nat \cup {None}
    BY DEF Draft
  <1>2. BuildConditions(f) \in Topic
    BY <1>1 DEF BuildConditions, Draft, Topic
  <1>3. Threshold(f.type, f.threshold) \in Nat
    BY <1>1 DEF Threshold
  <1>4. FormToPayload(f) \in Rule
    BY <1>1, <1>2, <1>3 DEF FormToPayload, Rule
  <1>5. FromForm(FormToPayload(f))
    BY DEF FromForm, FormToPayload, BuildConditions, Threshold
  <1> QED BY <1>4, <1>5

\* A form is sent whole: as an edit it leaves nothing alone.
LEMMA WholeRule ==
  ASSUME NEW rule \in Rule, NEW payload \in Rule
  PROVE  payload \in Patch /\ Merge(rule, payload) = payload
  <1>1. payload \in Patch
    BY DEF Rule, Patch
  <1>2. /\ payload.name # Kept /\ payload.value # Kept /\ payload.threshold # Kept
        /\ payload.type # Kept /\ payload.on # Kept /\ payload.active # Kept
        /\ payload.from # Kept /\ payload.to # Kept
    BY RuleFormAssumption DEF Rule, Topic
  <1>3. Merge(rule, payload) =
          [ name |-> payload.name, type |-> payload.type, value |-> payload.value,
            on |-> payload.on, threshold |-> payload.threshold, active |-> payload.active,
            from |-> payload.from, to |-> payload.to ]
    BY <1>2 DEF Merge, Or
  <1> QED BY <1>1, <1>3 DEF Rule

LEMMA RuleToFormType ==
  ASSUME NEW k \in Keys, NEW row \in Row
  PROVE  RuleToForm(k, row) \in Draft
  <1> DEFINE rule == row.rule
  <1>1. rule \in Rule /\ row.version \in Nat
    BY DEF Row
  <1>2. /\ WholeMinute(rule.from) \in Nat \cup {None}
        /\ WholeMinute(rule.to) \in Nat \cup {None}
    BY <1>1 DEF Rule, WholeMinute
  <1>3. << k, row.version >> \in Keys \X Nat
    BY <1>1
  <1> QED BY <1>1, <1>2, <1>3 DEF RuleToForm, Draft, Rule, FormMetrics, GuaranteePeriod

\* What is sent of a form is untouched where the form is.
LEMMA SentUntouched ==
  ASSUME NEW k \in Keys, NEW row \in Row, NEW f \in Draft, Valid(row.rule), FromForm(row.rule),
         Drafted(f, k, row)
  PROVE  Untouched(row.rule, FormToPayload(f), f.typed)
  <1> DEFINE old == row.rule
             new == FormToPayload(f)
             was == RuleToForm(k, row)
  <1>1. old \in Rule
    BY DEF Row
  <1>2. \A field \in Inputs \ f.typed : f[field] = was[field]
    BY DEF Drafted, Filled
  <1>3. \A field \in {"name", "type", "value", "active"} \ f.typed : new[field] = old[field]
    BY <1>2 DEF Inputs, RuleToForm, FormToPayload
  <1>4. \A field \in {"from", "to"} \ f.typed : new[field] = WholeMinute(old[field])
    BY <1>2 DEF Inputs, RuleToForm, FormToPayload
  <1>5. ASSUME f.typed \cap {"type", "zone", "metric", "period"} = {}
        PROVE  new.on = old.on
    <2>1. f.type = was.type /\ f.zone = was.zone /\ f.metric = was.metric /\ f.period = was.period
      BY <1>2, <1>5 DEF Inputs
    <2>2. new.on = BuildConditions(f)
      BY DEF FormToPayload
    <2>3. f.type = old.type /\ old.type \in PaymentRuleType
      BY <1>1, <2>1 DEF RuleToForm, Rule
    <2> QED BY <2>1, <2>2, <2>3
            DEF RuleToForm, BuildConditions, Valid, FromForm, PaymentRuleType
  <1>6. ASSUME f.typed \cap {"type", "threshold"} = {}
        PROVE  new.threshold = old.threshold
    <2>1. f.type = was.type /\ f.threshold = was.threshold
      BY <1>2, <1>6 DEF Inputs
    <2> QED BY <2>1 DEF RuleToForm, FormToPayload, Threshold, FromForm
  <1> QED BY <1>3, <1>4, <1>5, <1>6 DEF Untouched

\* One more input is typed into.
LEMMA UpdatedDraft ==
  ASSUME PageTypes, NEW p \in Editors, NEW field \in Inputs, NEW value \in FieldValues[field],
         UpdateForm(p, field, value)
  PROVE  /\ form' = [form EXCEPT ![p] = form'[p]] /\ form'[p] \in Draft
         /\ form'[p].id = form[p].id /\ form'[p].typed = form[p].typed \cup {field}
         /\ \A other \in Inputs \ {field} : form'[p][other] = form[p][other]
  <1> DEFINE f == form[p]
             new == [f EXCEPT ![field] = value, !.typed = @ \cup {field}]
  <1>1. f \in Draft /\ form' = [form EXCEPT ![p] = new] /\ form'[p] = new
    BY DEF PageTypes, UpdateForm
  <1> HIDE DEF f
  <1>2. field # "typed" /\ field # "id"
    BY DEF Inputs
  <1>3. new.id = f.id /\ new.typed = f.typed \cup {field} /\ new.typed \subseteq Inputs
    BY <1>2, <1>1 DEF Draft
  <1>4. \A other \in Inputs \ {field} : new[other] = f[other]
    BY <1>2, <1>1 DEF Draft, Inputs
  <1>5. new \in Draft
    <2>1. CASE field = "name"
      <3>1. value \in Nat
        BY <2>1 DEF FieldValues
      <3> QED BY <1>3, <1>4, <2>1, <1>1, <3>1 DEF Draft, Inputs
    <2>2. CASE field = "type"
      <3>1. value \in PaymentRuleType
        BY <2>2 DEF FieldValues
      <3> QED BY <1>3, <1>4, <2>2, <1>1, <3>1 DEF Draft, Inputs
    <2>3. CASE field = "value"
      <3>1. value \in Nat
        BY <2>3 DEF FieldValues
      <3> QED BY <1>3, <1>4, <2>3, <1>1, <3>1 DEF Draft, Inputs
    <2>4. CASE field = "zone"
      <3>1. value \in Zones \cup {None}
        BY <2>4 DEF FieldValues
      <3> QED BY <1>3, <1>4, <2>4, <1>1, <3>1 DEF Draft, Inputs
    <2>5. CASE field = "metric"
      <3>1. value \in FormMetrics
        BY <2>5 DEF FieldValues
      <3> QED BY <1>3, <1>4, <2>5, <1>1, <3>1 DEF Draft, Inputs
    <2>6. CASE field = "threshold"
      <3>1. value \in Nat
        BY <2>6 DEF FieldValues
      <3> QED BY <1>3, <1>4, <2>6, <1>1, <3>1 DEF Draft, Inputs
    <2>7. CASE field = "period"
      <3>1. value \in GuaranteePeriod
        BY <2>7 DEF FieldValues
      <3> QED BY <1>3, <1>4, <2>7, <1>1, <3>1 DEF Draft, Inputs
    <2>8. CASE field = "active"
      <3>1. value \in BOOLEAN
        BY <2>8 DEF FieldValues
      <3> QED BY <1>3, <1>4, <2>8, <1>1, <3>1 DEF Draft, Inputs
    <2>9. CASE field = "from"
      <3>1. value \in Nat \cup {None}
        BY <2>9 DEF FieldValues
      <3> QED BY <1>3, <1>4, <2>9, <1>1, <3>1 DEF Draft, Inputs
    <2>10. CASE field = "to"
      <3>1. value \in Nat \cup {None}
        BY <2>10 DEF FieldValues
      <3> QED BY <1>3, <1>4, <2>10, <1>1, <3>1 DEF Draft, Inputs
    <2> QED BY <2>1, <2>2, <2>3, <2>4, <2>5, <2>6, <2>7, <2>8, <2>9, <2>10 DEF Inputs
  <1> QED BY <1>3, <1>4, <1>1, <1>5 DEF f

\* Versions are never taken back nor changed.
LEMMA RowsStay ==
  ASSUME RowsInv, [ServiceNext]_vars, NEW k \in Keys, NEW n \in DOMAIN versions[k]
  PROVE  n \in DOMAIN versions'[k] /\ versions'[k][n] = versions[k][n]
  <1>1. CASE versions' = versions
    BY <1>1
  <1>2. ASSUME NEW j \in Keys, NEW rule \in Rule, CreatePaymentRule(j, rule)
        PROVE  n \in DOMAIN versions'[k] /\ versions'[k][n] = versions[k][n]
    <2>1. versions[j] = << >> /\ \A i \in Keys \ {j} : versions'[i] = versions[i]
      BY <1>2 DEF CreatePaymentRule, RowsInv, RowTypes
    <2> QED BY <2>1
  <1>3. ASSUME NEW e \in Editors, InsertVersion(e)
        PROVE  n \in DOMAIN versions'[k] /\ versions'[k][n] = versions[k][n]
    <2> DEFINE j == edit[e].key
               m == Len(versions[j])
    <2>1. /\ m \in Nat /\ DOMAIN versions[j] = 1..m /\ DOMAIN versions'[j] = 1..(m + 1)
          /\ \A i \in 1..m : versions'[j][i] = versions[j][i]
          /\ \A i \in Keys \ {j} : versions'[i] = versions[i]
      BY <1>3, InsertedVersion
    <2>2. CASE k # j
      BY <2>1, <2>2
    <2>3. CASE k = j
      <3> HIDE DEF j, m
      <3> QED BY <2>1, <2>3
    <2> QED BY <2>2, <2>3
  <1>4. CASE \E e \in Editors : \/ \E j \in Keys, patch \in Patch : FindLatest(e, j, patch)
                                \/ InsertFails(e)
    BY <1>1, <1>4 DEF FindLatest, InsertFails
  <1>5. CASE \/ \E request \in Requests : ReadRules(request)
             \/ \E j \in Keys : AddComponent(j) \/ RejectMetric(j)
             \/ FinishAmount
    BY <1>1, <1>5 DEF ReadRules, AddComponent, RejectMetric, FinishAmount
  <1> QED BY <1>1, <1>2, <1>3, <1>4, <1>5 DEF ServiceNext, vars

\* A request with an id or a payload is one that a form has sent.
LEMMA SentMessage ==
  ASSUME PageTypes, NEW p \in Editors, sent[p].id # None \/ sent[p].payload # None
  PROVE  /\ sent[p] \in Message /\ sent[p].payload \in Rule /\ FromForm(sent[p].payload)
  <1>1. sent[p] \in Message
    BY DEF PageTypes, NoRequest
  <1> QED BY <1>1 DEF Message

\* Whatever the pages do, the service is asked for rules and edits.
LEMMA FormIsService ==
  ASSUME PageInv, [FormNext]_<< vars, pageVars >>
  PROVE  [ServiceNext]_vars
  <1>1. ASSUME NEW p \in Editors, NEW k \in Keys, CreateArrives(p, k)
        PROVE  ServiceNext
    <2>1. sent[p].payload \in Rule /\ CreatePaymentRule(k, sent[p].payload)
      BY <1>1, SentMessage DEF CreateArrives, PageInv
    <2> QED BY <2>1 DEF ServiceNext
  <1>2. ASSUME NEW p \in Editors, UpdateArrives(p)
        PROVE  ServiceNext
    <2>1. sent[p].id # None /\ FindLatest(p, sent[p].id[1], sent[p].payload)
      BY <1>2 DEF UpdateArrives
    <2>2. sent[p].id[1] \in Keys
      BY <2>1 DEF PageInv, SentHolds
    <2>3. sent[p].payload \in Rule
      BY <2>1, SentMessage DEF PageInv
    <2>4. sent[p].payload \in Patch
      BY <2>3, WholeRule
    <2> QED BY <2>1, <2>2, <2>4 DEF ServiceNext
  <1>3. ASSUME NEW p \in Editors, UpdateDone(p) \/ UpdateFails(p)
        PROVE  ServiceNext
    BY <1>3 DEF UpdateDone, UpdateFails, ServiceNext
  <1>4. ASSUME NEW p \in Editors,
               \/ LoadRules(p) \/ ResetForm(p) \/ LeavePage(p) \/ HandleSubmit(p)
               \/ \E k \in Keys : EditRule(p, k)
               \/ \E field \in DOMAIN Typings[p] : \E value \in Typings[p][field] :
                    UpdateForm(p, field, value)
               \/ RequestFails(p)
        PROVE  UNCHANGED vars
    BY <1>4 DEF LoadRules, ResetForm, LeavePage, HandleSubmit, EditRule, UpdateForm, RequestFails
  <1>5. CASE \/ \E k \in Keys, rule \in NewRules : CreatePaymentRule(k, rule)
             \/ \E request \in Requests : ReadRules(request)
             \/ \E k \in Keys : AddComponent(k) \/ RejectMetric(k)
             \/ FinishAmount
    BY <1>5, PaymentRulesAssumption DEF ServiceNext
  <1>6. CASE UNCHANGED << vars, pageVars >>
    BY <1>6
  <1> QED BY <1>1, <1>2, <1>3, <1>4, <1>5, <1>6 DEF FormNext

\* New versions are made with the form, too.
LEMMA StillFromForm ==
  ASSUME RowsInv, PageInv, [FormNext]_<< vars, pageVars >>
  PROVE  RowsFromForm'
  <1>1. SUFFICES ASSUME NEW k \in Keys, NEW n \in DOMAIN versions'[k],
                        n \notin DOMAIN versions[k] \/ versions' # versions
                 PROVE  FromForm(versions'[k][n].rule)
    BY DEF PageInv, RowsFromForm, FromForm
  <1>2. ASSUME NEW j \in Keys, NEW rule \in Rule, FromForm(rule), CreatePaymentRule(j, rule)
        PROVE  FromForm(versions'[k][n].rule)
    <2>1. /\ versions'[j] = << [version |-> 1, rule |-> rule, by |-> None] >>
          /\ \A i \in Keys \ {j} : versions'[i] = versions[i]
      BY <1>2 DEF CreatePaymentRule, RowsInv, RowTypes
    <2>2. CASE k # j
      BY <2>1, <2>2 DEF PageInv, RowsFromForm
    <2>3. CASE k = j
      <3>1. n = 1 /\ versions'[k][n].rule = rule
        BY <2>1, <2>3
      <3> QED BY <1>2, <3>1
    <2> QED BY <2>2, <2>3
  <1>3. ASSUME NEW p \in Editors, UpdateDone(p)
        PROVE  FromForm(versions'[k][n].rule)
    <2> DEFINE j == edit[p].key
               m == Len(versions[j])
               rule == Merge(edit[p].base.rule, edit[p].patch)
               next == [ version |-> edit[p].base.version + 1, rule |-> rule,
                         by |-> edit[p].patch ]
    <2>1. InsertVersion(p)
      BY <1>3 DEF UpdateDone
    <2>2. /\ edit[p].pc = "write" /\ edit[p].base.rule \in Rule /\ m \in Nat /\ j \in Keys
          /\ DOMAIN versions[j] = 1..m /\ DOMAIN versions'[j] = 1..(m + 1)
          /\ versions'[j][m + 1] = next
          /\ \A i \in 1..m : versions'[j][i] = versions[j][i]
          /\ \A i \in Keys \ {j} : versions'[i] = versions[i]
      BY <2>1, InsertedVersion
    <2>3. sent[p].id # None /\ edit[p].patch = sent[p].payload
      BY <2>2 DEF PageInv, EditSent
    <2>4. edit[p].patch \in Rule /\ FromForm(edit[p].patch)
      BY <2>3, SentMessage DEF PageInv
    <2>5. rule = edit[p].patch
      BY <2>2, <2>4, WholeRule
    <2>6. versions'[j][m + 1].rule = rule
      BY <2>2
    <2> HIDE DEF j, m, rule
    <2>7. CASE k # j
      BY <2>2, <2>7 DEF PageInv, RowsFromForm
    <2>8. CASE k = j /\ n \in 1..m
      BY <2>2, <2>8 DEF PageInv, RowsFromForm
    <2>9. CASE k = j /\ n = m + 1
      BY <2>4, <2>5, <2>9, <2>6
    <2>10. k = j => n \in 1..m \/ n = m + 1
      BY <2>2
    <2> QED BY <2>7, <2>8, <2>9, <2>10
  <1>4. ASSUME NEW p \in Editors, NEW j \in Keys, CreateArrives(p, j)
        PROVE  FromForm(versions'[k][n].rule)
    <2>1. /\ CreatePaymentRule(j, sent[p].payload)
          /\ sent[p].payload \in Rule /\ FromForm(sent[p].payload)
      BY <1>4, SentMessage DEF CreateArrives, PageInv
    <2> QED BY <1>2, <2>1
  <1>5. CASE \E j \in Keys, rule \in NewRules : CreatePaymentRule(j, rule)
    BY <1>2, <1>5, PaymentRulesAssumption, RuleFormAssumption
  <1>6. CASE versions' = versions
    BY <1>6 DEF PageInv, RowsFromForm
  <1>7. ASSUME NEW p \in Editors,
               \/ LoadRules(p) \/ ResetForm(p) \/ LeavePage(p) \/ HandleSubmit(p)
               \/ \E j \in Keys : EditRule(p, j)
               \/ \E field \in DOMAIN Typings[p] : \E value \in Typings[p][field] :
                    UpdateForm(p, field, value)
               \/ RequestFails(p) \/ UpdateFails(p) \/ UpdateArrives(p)
        PROVE  versions' = versions
    BY <1>7 DEF LoadRules, ResetForm, LeavePage, HandleSubmit, EditRule, UpdateForm, RequestFails,
                UpdateFails, InsertFails, UpdateArrives, FindLatest, vars
  <1>8. CASE \/ \E request \in Requests : ReadRules(request)
             \/ \E j \in Keys : AddComponent(j) \/ RejectMetric(j)
             \/ FinishAmount
    BY <1>6, <1>8 DEF ReadRules, AddComponent, RejectMetric, FinishAmount
  <1>9. CASE UNCHANGED << vars, pageVars >>
    BY <1>6, <1>9 DEF vars
  <1> QED BY <1>3, <1>4, <1>5, <1>6, <1>7, <1>8, <1>9 DEF FormNext

\* A step of the service leaves the pages as right as they were, if it answers a request or
\* none.
LEMMA PagesKept ==
  ASSUME RowsInv, PageInv, [ServiceNext]_vars, RowsFromForm', list' = list, form' = form,
         \A p \in Editors : sent'[p] = sent[p] \/ sent'[p] = NoRequest,
         sent' \in [Editors -> Message \cup {NoRequest}], EditSent'
  PROVE  PageInv'
  <1>1. \A k \in Keys : \A n \in DOMAIN versions[k] :
          n \in DOMAIN versions'[k] /\ versions'[k][n] = versions[k][n]
    BY RowsStay
  <1>2. ListHolds'
    <2>1. SUFFICES ASSUME NEW p \in Editors, NEW k \in Keys, list[p][k] # None
                   PROVE  list[p][k] \in Rows(k)'
      BY DEF ListHolds
    <2>2. PICK n \in DOMAIN versions[k] : list[p][k] = versions[k][n]
      BY <2>1 DEF PageInv, ListHolds, Rows
    <2>3. n \in DOMAIN versions'[k] /\ versions'[k][n] = list[p][k]
      BY <1>1, <2>2
    <2> QED BY <2>3 DEF Rows
  <1>3. FormHolds'
    <2>1. SUFFICES ASSUME NEW p \in Editors, form[p].id # None
                   PROVE  \E k \in Keys, n \in Nat :
                            /\ n \in DOMAIN versions'[k]
                            /\ form[p].id = << k, n >> /\ Drafted(form[p], k, versions'[k][n])
      BY DEF FormHolds, Drafted
    <2> QED BY <1>1, <2>1 DEF PageInv, FormHolds
  <1>4. SentHolds'
    <2>1. SUFFICES ASSUME NEW p \in Editors, sent'[p].id # None
                   PROVE  \E k \in Keys, n \in Nat :
                            /\ n \in DOMAIN versions'[k]
                            /\ sent'[p].id = << k, n >>
                            /\ Untouched(versions'[k][n].rule, sent'[p].payload, sent'[p].typed)
      BY DEF SentHolds, Untouched, WholeMinute
    <2>2. sent'[p] = sent[p]
      BY <2>1 DEF NoRequest
    <2> QED BY <1>1, <2>1, <2>2 DEF PageInv, SentHolds
  <1> QED BY <1>2, <1>3, <1>4 DEF PageInv, PageTypes

LEMMA AnsweredSent ==
  ASSUME PageInv, NEW p \in Editors, Answered(p)
  PROVE  /\ sent' \in [Editors -> Message \cup {NoRequest}]
         /\ sent'[p] = NoRequest /\ \A d \in Editors : d # p => sent'[d] = sent[d]
         /\ list' = list /\ form' = form
  BY DEF Answered, PageInv, PageTypes


\* The service's steps, seen from the pages.
LEMMA ServiceKeepsPages ==
  ASSUME RowsInv, PageInv, [FormNext]_<< vars, pageVars >>,
         \/ \E p \in Editors :
              \/ \E k \in Keys : CreateArrives(p, k)
              \/ UpdateArrives(p) \/ UpdateDone(p) \/ UpdateFails(p) \/ RequestFails(p)
         \/ UNCHANGED << edit, pageVars >>
  PROVE  PageInv'
  <1>1. [ServiceNext]_vars /\ RowsFromForm'
    BY FormIsService, StillFromForm
  <1>2. ASSUME NEW p \in Editors, Answered(p), edit'[p].pc # "write",
               \A d \in Editors : d # p => edit'[d] = edit[d]
        PROVE  PageInv'
    <2>1. /\ sent' \in [Editors -> Message \cup {NoRequest}]
          /\ sent'[p] = NoRequest /\ \A d \in Editors : d # p => sent'[d] = sent[d]
          /\ list' = list /\ form' = form
      BY <1>2, AnsweredSent
    <2>2. EditSent'
      BY <1>2, <2>1 DEF PageInv, EditSent
    <2>3. \A d \in Editors : sent'[d] = sent[d] \/ sent'[d] = NoRequest
      BY <2>1
    <2> QED BY <1>1, <2>1, <2>2, <2>3, PagesKept
  <1>3. ASSUME NEW p \in Editors, NEW k \in Keys, CreateArrives(p, k)
        PROVE  PageInv'
    <2>1. sent[p].id = None /\ edit' = edit /\ Answered(p)
      BY <1>3 DEF CreateArrives, CreatePaymentRule
    <2>2. edit[p].pc # "write"
      BY <2>1 DEF PageInv, EditSent
    <2> QED BY <1>2, <2>1, <2>2
  <1>4. ASSUME NEW p \in Editors, UpdateArrives(p)
        PROVE  PageInv'
    <2> DEFINE k == sent[p].id[1]
               new == [pc |-> "write", key |-> k, base |-> Latest(k), patch |-> sent[p].payload]
    <2>1. /\ sent[p].id # None /\ Latest(k).version = sent[p].id[2]
          /\ edit' = [edit EXCEPT ![p] = new] /\ UNCHANGED pageVars
      BY <1>4 DEF UpdateArrives, IsLatest, FindLatest
    <2>2. /\ edit'[p] = new /\ \A d \in Editors : d # p => edit'[d] = edit[d]
      BY <2>1 DEF RowsInv, RowTypes
    <2>3. sent[p].id = << k, Latest(k).version >>
      <3>1. PICK j \in Keys, n \in Nat : n \in DOMAIN versions[j] /\ sent[p].id = << j, n >>
        BY <2>1 DEF PageInv, SentHolds
      <3> QED BY <2>1, <3>1
    <2>4. list' = list /\ form' = form /\ sent' = sent
      BY <2>1 DEF pageVars
    <2>5. EditSent'
      <3>1. edit'[p].key = k /\ edit'[p].base = Latest(k) /\ edit'[p].patch = sent[p].payload
        BY <2>2
      <3> HIDE DEF k, new
      <3>2. SUFFICES ASSUME NEW d \in Editors, edit'[d].pc = "write"
                     PROVE  /\ sent[d].id # None /\ sent[d].payload = edit'[d].patch
                            /\ sent[d].id = << edit'[d].key, edit'[d].base.version >>
        BY <2>4 DEF EditSent
      <3>3. CASE d = p
        BY <2>1, <2>3, <3>1, <3>3
      <3>4. CASE d # p
        BY <2>2, <3>2, <3>4 DEF PageInv, EditSent
      <3> QED BY <3>3, <3>4
    <2> QED BY <1>1, <2>4, <2>5, PagesKept DEF PageInv, PageTypes
  <1>5. ASSUME NEW p \in Editors, UpdateDone(p) \/ UpdateFails(p)
        PROVE  PageInv'
    <2>1. Answered(p) /\ edit' = [edit EXCEPT ![p] = Idle]
      BY <1>5 DEF UpdateDone, UpdateFails, InsertVersion, InsertFails
    <2>2. edit'[p].pc # "write" /\ \A d \in Editors : d # p => edit'[d] = edit[d]
      BY <2>1 DEF Idle, RowsInv, RowTypes
    <2> QED BY <1>2, <2>1, <2>2
  <1>6. ASSUME NEW p \in Editors, RequestFails(p)
        PROVE  PageInv'
    BY <1>2, <1>6 DEF RequestFails, vars
  <1>7. CASE UNCHANGED << edit, pageVars >>
    <2>1. list' = list /\ form' = form /\ sent' = sent /\ edit' = edit
      BY <1>7 DEF pageVars
    <2>2. EditSent'
      BY <2>1 DEF PageInv, EditSent
    <2> QED BY <1>1, <2>1, <2>2, PagesKept DEF PageInv, PageTypes
  <1> QED BY <1>3, <1>4, <1>5, <1>6, <1>7

\* Loading the list.
LEMMA LoadKeepsPages ==
  ASSUME RowsInv, PageInv, NEW p \in Editors, LoadRules(p)
  PROVE  PageInv'
  <1>1. /\ list' = [list EXCEPT ![p] = [k \in Keys |-> Listed(k)]]
        /\ versions' = versions /\ edit' = edit /\ form' = form /\ sent' = sent
    BY DEF LoadRules, vars
  <1>2. ASSUME NEW k \in Keys, Listed(k) # None
        PROVE  Listed(k) \in Rows(k) /\ Listed(k) \in Row
    <2>1. versions[k] # << >> /\ Listed(k) = Latest(k)
      BY <1>2 DEF Listed
    <2> QED BY <2>1, LatestIsLast DEF RowsInv, Rows
  <1>3. [k \in Keys |-> Listed(k)] \in [Keys -> Row \cup {None}]
    BY <1>2
  <1>4. list' \in [Editors -> [Keys -> Row \cup {None}]]
    BY <1>1, <1>3 DEF PageInv, PageTypes
  <1>5. ListHolds'
    <2>1. SUFFICES ASSUME NEW d \in Editors, NEW k \in Keys, list'[d][k] # None
                   PROVE  list'[d][k] \in Rows(k)
      BY <1>1 DEF ListHolds, Rows
    <2>2. CASE d = p
      BY <1>1, <1>2, <2>1, <2>2 DEF PageInv, PageTypes
    <2>3. CASE d # p
      BY <1>1, <2>1, <2>3 DEF PageInv, PageTypes, ListHolds
    <2> QED BY <2>2, <2>3
  <1>6. FormHolds' /\ SentHolds' /\ EditSent' /\ RowsFromForm'
    BY <1>1 DEF PageInv, FormHolds, SentHolds, EditSent, RowsFromForm
  <1> QED BY <1>1, <1>4, <1>5, <1>6 DEF PageInv, PageTypes

\* Filling the form, and typing into it.
LEMMA FormChangeKeeps ==
  ASSUME RowsInv, PageInv, NEW p \in Editors, NEW f \in Draft,
         form' = [form EXCEPT ![p] = f], UNCHANGED << vars, sent >>,
         list' \in [Editors -> [Keys -> Row \cup {None}]], ListHolds',
         f.id # None => \E k \in Keys, n \in Nat :
                          /\ n \in DOMAIN versions[k]
                          /\ f.id = << k, n >> /\ Drafted(f, k, versions[k][n])
  PROVE  PageInv'
  <1>1. versions' = versions /\ edit' = edit /\ sent' = sent
    BY DEF vars
  <1>2. form'[p] = f /\ \A d \in Editors : d # p => form'[d] = form[d]
    BY DEF PageInv, PageTypes
  <1>3. FormHolds'
    <2>1. SUFFICES ASSUME NEW d \in Editors, form'[d].id # None
                   PROVE  \E k \in Keys, n \in Nat :
                            /\ n \in DOMAIN versions[k]
                            /\ form'[d].id = << k, n >> /\ Drafted(form'[d], k, versions[k][n])
      BY <1>1 DEF FormHolds, Drafted
    <2>2. CASE d = p
      BY <1>2, <2>1, <2>2
    <2>3. CASE d # p
      BY <1>2, <2>1, <2>3 DEF PageInv, FormHolds
    <2> QED BY <2>2, <2>3
  <1>4. SentHolds' /\ EditSent' /\ RowsFromForm'
    BY <1>1 DEF PageInv, SentHolds, EditSent, RowsFromForm
  <1>5. form' \in [Editors -> Draft]
    BY DEF PageInv, PageTypes
  <1> QED BY <1>1, <1>3, <1>4, <1>5 DEF PageInv, PageTypes

LEMMA DefaultDraft == DefaultForm \in Draft /\ DefaultForm.id = None
  BY DEF DefaultForm, Draft, PaymentRuleType, FormMetrics, GuaranteePeriod

LEMMA PageStep ==
  ASSUME RowsInv, PageInv, [FormNext]_<< vars, pageVars >>
  PROVE  PageInv'
  <1>1. ASSUME NEW p \in Editors, LoadRules(p)
        PROVE  PageInv'
    BY <1>1, LoadKeepsPages
  <1>2. ASSUME NEW p \in Editors, ResetForm(p)
        PROVE  PageInv'
    <2>1. form' = [form EXCEPT ![p] = DefaultForm] /\ list' = list /\ UNCHANGED << vars, sent >>
      BY <1>2 DEF ResetForm
    <2>2. ListHolds'
      BY <2>1 DEF PageInv, ListHolds, Rows, vars
    <2> QED BY <2>1, <2>2, DefaultDraft, FormChangeKeeps DEF PageInv, PageTypes
  <1>3. ASSUME NEW p \in Editors, LeavePage(p)
        PROVE  PageInv'
    <2>1. /\ form' = [form EXCEPT ![p] = DefaultForm] /\ UNCHANGED << vars, sent >>
          /\ list' = [list EXCEPT ![p] = [k \in Keys |-> None]]
      BY <1>3 DEF LeavePage
    <2>2. list' \in [Editors -> [Keys -> Row \cup {None}]]
      BY <2>1 DEF PageInv, PageTypes
    <2>3. \A d \in Editors, k \in Keys : list'[d][k] \in {None, list[d][k]}
      BY <2>1 DEF PageInv, PageTypes
    <2>4. ListHolds'
      BY <2>1, <2>3 DEF PageInv, ListHolds, Rows, vars
    <2> QED BY <2>1, <2>2, <2>4, DefaultDraft, FormChangeKeeps
  <1>4. ASSUME NEW p \in Editors, NEW k \in Keys, EditRule(p, k)
        PROVE  PageInv'
    <2> DEFINE row == list[p][k]
               f == RuleToForm(k, row)
    <2>1. /\ row # None /\ form' = [form EXCEPT ![p] = f] /\ list' = list
          /\ UNCHANGED << vars, sent >>
      BY <1>4 DEF EditRule
    <2>2. PICK n \in DOMAIN versions[k] : row = versions[k][n]
      BY <2>1 DEF PageInv, ListHolds, Rows
    <2>3. row \in Row /\ row.version = n /\ n \in Nat
      <3>1. versions[k] \in Seq(Row)
        BY DEF RowsInv, RowTypes
      <3>2. row \in Row /\ n \in Nat
        BY <2>2, <3>1, ElementOfSeq, LenProperties
      <3> QED BY <2>2, <3>2 DEF RowsInv, VersionsChain
    <2>4. f \in Draft
      BY <2>3, RuleToFormType
    <2>5. f.id = << k, n >> /\ Drafted(f, k, versions[k][n])
      BY <2>2, <2>3 DEF Drafted, Filled, RuleToForm
    <2>6. ListHolds'
      BY <2>1 DEF PageInv, ListHolds, Rows, vars
    <2>7. \E i \in Keys, m \in Nat :
            /\ m \in DOMAIN versions[i]
            /\ f.id = << i, m >> /\ Drafted(f, i, versions[i][m])
      <3> HIDE DEF f
      <3> QED BY <2>3, <2>5
    <2> HIDE DEF f
    <2> QED BY <2>1, <2>4, <2>6, <2>7, FormChangeKeeps DEF PageInv, PageTypes
  <1>5. ASSUME NEW p \in Editors, NEW field \in DOMAIN Typings[p],
               NEW value \in Typings[p][field], UpdateForm(p, field, value)
        PROVE  PageInv'
    <2> DEFINE f == form'[p]
    <2>1. field \in FieldsOf(form[p].type) /\ UNCHANGED << vars, sent >> /\ list' = list
      BY <1>5 DEF UpdateForm
    <2>2. field \in Inputs
      BY <2>1 DEF FieldsOf, Inputs
    <2>3. value \in FieldValues[field]
      <3>1. field \in DOMAIN FieldValues
        BY <2>2 DEF Inputs, FieldValues
      <3> QED BY <3>1, RuleFormAssumption
    <2>4. /\ form' = [form EXCEPT ![p] = f]
          /\ f \in Draft /\ f.id = form[p].id /\ f.typed = form[p].typed \cup {field}
          /\ \A other \in Inputs \ {field} : f[other] = form[p][other]
      BY <1>5, <2>2, <2>3, UpdatedDraft DEF PageInv
    <2> HIDE DEF f
    <2>5. ASSUME f.id # None
          PROVE  \E k \in Keys, n \in Nat :
                   /\ n \in DOMAIN versions[k]
                   /\ f.id = << k, n >> /\ Drafted(f, k, versions[k][n])
      <3>1. PICK k \in Keys, n \in Nat :
              /\ n \in DOMAIN versions[k]
              /\ form[p].id = << k, n >> /\ Drafted(form[p], k, versions[k][n])
        BY <2>4, <2>5 DEF PageInv, FormHolds
      <3>2. Drafted(f, k, versions[k][n])
        BY <2>4, <3>1 DEF Drafted
      <3> QED BY <2>4, <3>1, <3>2
    <2>6. ListHolds'
      BY <2>1 DEF PageInv, ListHolds, Rows, vars
    <2> QED BY <2>1, <2>4, <2>5, <2>6, FormChangeKeeps DEF PageInv, PageTypes
  <1>6. ASSUME NEW p \in Editors, HandleSubmit(p)
        PROVE  PageInv'
    <2> DEFINE f == form[p]
               m == [ id |-> f.id, payload |-> FormToPayload(f), typed |-> f.typed ]
    <2>1. /\ sent[p] = NoRequest /\ sent' = [sent EXCEPT ![p] = m]
          /\ versions' = versions /\ edit' = edit /\ list' = list /\ form' = form
      BY <1>6 DEF HandleSubmit, vars
    <2>2. f \in Draft
      BY DEF PageInv, PageTypes
    <2>3. m \in Message
      BY <2>2, PayloadType DEF Message, Draft
    <2>4. sent'[p] = m /\ \A d \in Editors : d # p => sent'[d] = sent[d]
      BY <2>1 DEF PageInv, PageTypes
    <2>5. ASSUME f.id # None
          PROVE  \E k \in Keys, n \in Nat :
                   /\ n \in DOMAIN versions[k]
                   /\ m.id = << k, n >> /\ Untouched(versions[k][n].rule, m.payload, m.typed)
      <3>1. PICK k \in Keys, n \in Nat :
              /\ n \in DOMAIN versions[k]
              /\ f.id = << k, n >> /\ Drafted(f, k, versions[k][n])
        BY <2>5 DEF PageInv, FormHolds
      <3>2. /\ versions[k][n] \in Row /\ Valid(versions[k][n].rule)
            /\ FromForm(versions[k][n].rule)
        <4>1. versions[k] \in Seq(Row)
          BY DEF RowsInv, RowTypes
        <4>2. versions[k][n] \in Row
          BY <3>1, <4>1, ElementOfSeq, LenProperties
        <4> QED BY <3>1, <4>2 DEF RowsInv, RowsValid, PageInv, RowsFromForm
      <3>3. Untouched(versions[k][n].rule, FormToPayload(f), f.typed)
        BY <2>2, <3>1, <3>2, SentUntouched
      <3> QED BY <3>1, <3>3
    <2>6. SentHolds'
      <3>1. SUFFICES ASSUME NEW d \in Editors, sent'[d].id # None
                     PROVE  \E k \in Keys, n \in Nat :
                              /\ n \in DOMAIN versions[k]
                              /\ sent'[d].id = << k, n >>
                              /\ Untouched(versions[k][n].rule, sent'[d].payload, sent'[d].typed)
        BY <2>1 DEF SentHolds, Untouched, WholeMinute
      <3>2. CASE d = p
        <4> HIDE DEF f
        <4>1. m.id = f.id
          OBVIOUS
        <4> HIDE DEF m
        <4> QED BY <2>4, <2>5, <3>1, <3>2, <4>1
      <3>3. CASE d # p
        BY <2>4, <3>1, <3>3 DEF PageInv, SentHolds
      <3> QED BY <3>2, <3>3
    <2>7. edit[p].pc # "write"
      BY <2>1 DEF PageInv, EditSent, NoRequest
    <2>8. EditSent'
      BY <2>1, <2>4, <2>7 DEF PageInv, EditSent
    <2>9. ListHolds' /\ FormHolds' /\ RowsFromForm'
      BY <2>1 DEF PageInv, ListHolds, Rows, FormHolds, RowsFromForm
    <2>10. sent' \in [Editors -> Message \cup {NoRequest}]
      BY <2>1, <2>3 DEF PageInv, PageTypes
    <2> QED BY <2>1, <2>6, <2>8, <2>9, <2>10 DEF PageInv, PageTypes
  <1>7. CASE \/ \E p \in Editors :
                  \/ \E k \in Keys : CreateArrives(p, k)
                  \/ UpdateArrives(p) \/ UpdateDone(p) \/ UpdateFails(p) \/ RequestFails(p)
             \/ UNCHANGED << edit, pageVars >>
    BY <1>7, ServiceKeepsPages
  <1>8. CASE \/ \E k \in Keys, rule \in NewRules : CreatePaymentRule(k, rule) /\ UNCHANGED pageVars
             \/ \E request \in Requests : ReadRules(request) /\ UNCHANGED pageVars
             \/ \E k \in Keys : (AddComponent(k) \/ RejectMetric(k)) /\ UNCHANGED pageVars
             \/ FinishAmount /\ UNCHANGED pageVars
    BY <1>7, <1>8 DEF CreatePaymentRule, ReadRules, AddComponent, RejectMetric, FinishAmount
  <1>9. CASE UNCHANGED << vars, pageVars >>
    BY <1>7, <1>9 DEF vars
  <1> QED BY <1>1, <1>2, <1>3, <1>4, <1>5, <1>6, <1>7, <1>8, <1>9 DEF FormNext

LEMMA PageInit == FormInit => PageInv
  <1>1. SUFFICES ASSUME FormInit PROVE PageInv
    OBVIOUS
  <1>2. /\ \A k \in Keys : versions[k] = << >>
        /\ \A p \in Editors : form[p].id = None /\ sent[p].id = None /\ edit[p].pc = "idle"
        /\ \A p \in Editors, k \in Keys : list[p][k] = None
    BY <1>1, DefaultDraft DEF FormInit, Init, NoRequest, Idle
  <1>3. PageTypes
    <2>1. list \in [Editors -> [Keys -> Row \cup {None}]]
      BY <1>1 DEF FormInit
    <2>2. form \in [Editors -> Draft] /\ sent \in [Editors -> Message \cup {NoRequest}]
      BY <1>1, DefaultDraft DEF FormInit
    <2> QED BY <2>1, <2>2 DEF PageTypes
  <1>4. RowsFromForm /\ ListHolds /\ FormHolds /\ SentHolds /\ EditSent
    BY <1>2 DEF RowsFromForm, ListHolds, FormHolds, SentHolds, EditSent
  <1> QED BY <1>3, <1>4 DEF PageInv

LEMMA RuleFormInv == FormSpec => [](RowsInv /\ SumInv /\ AddsInv /\ PageInv)
  <1>1. FormInit => RowsInv /\ SumInv /\ AddsInv /\ PageInv
    BY RowsInit, SumInit, AddsInit, PageInit DEF FormInit
  <1>2. RowsInv /\ SumInv /\ AddsInv /\ PageInv /\ [FormNext]_<< vars, pageVars >>
          => (RowsInv /\ SumInv /\ AddsInv /\ PageInv)'
    <2>1. SUFFICES ASSUME RowsInv, SumInv, AddsInv, PageInv, [FormNext]_<< vars, pageVars >>
                   PROVE  (RowsInv /\ SumInv /\ AddsInv /\ PageInv)'
      OBVIOUS
    <2>2. [ServiceNext]_vars
      BY <2>1, FormIsService
    <2> QED BY <2>1, <2>2, RowsStep, SumStep, AddsStep, PageStep
  <1> QED BY <1>1, <1>2, PTL DEF FormSpec

ServiceSpec == Init /\ [][ServiceNext]_vars

\* The pages are clients of the service: whatever is typed into them and however old what they
\* show is, they take none but its steps (createPaymentRule, updatePaymentRule).
THEOREM PagesUseService == FormSpec => ServiceSpec
  <1>1. FormInit => Init
    BY DEF FormInit
  <1>2. PageInv /\ [FormNext]_<< vars, pageVars >> => [ServiceNext]_vars
    BY FormIsService
  <1> QED BY <1>1, <1>2, RuleFormInv, PTL DEF FormSpec, ServiceSpec

\* What is known of the service holds with the pages at work, which send whole forms, as old as
\* they may be (PaymentRulesConstructor): versions chain, guarantees are kept, amounts add up.
THEOREM PagesCorrect == FormSpec => [](VersionsChain /\ GuaranteeKept /\ AmountAddsUp)
  <1>1. RowsInv /\ SumInv /\ AddsInv => VersionsChain /\ GuaranteeKept /\ AmountAddsUp
    BY AddsUp DEF RowsInv, SumInv
  <1> QED BY <1>1, RuleFormInv, PTL

\* A saved form changes what was typed into it and nothing else, however old the list was that
\* it was filled from (updatePaymentRule takes only an edit of the latest version).
THEOREM OnlyTyped == FormSpec => OnlyTypedChanges
  <1> DEFINE Step ==
        \A p \in Editors, k \in Keys :
          versions'[k] # versions[k] /\ edit[p].pc = "write" /\ edit'[p].pc = "idle" =>
            Untouched(versions[k][Len(versions[k])].rule,
                      versions'[k][Len(versions[k]) + 1].rule, sent[p].typed)
  <1>1. ASSUME RowsInv, PageInv, [FormNext]_<< vars, pageVars >>
        PROVE  Step
    <2>1. SUFFICES ASSUME NEW p \in Editors, NEW k \in Keys, versions'[k] # versions[k],
                          edit[p].pc = "write", edit'[p].pc = "idle"
                   PROVE  Untouched(versions[k][Len(versions[k])].rule,
                                    versions'[k][Len(versions[k]) + 1].rule, sent[p].typed)
      OBVIOUS
    <2>2. [ServiceNext]_vars
      BY <1>1, FormIsService
    <2>3. edit' # edit /\ versions' # versions
      BY <2>1
    <2>4. PICK e \in Editors : InsertVersion(e)
      BY <2>2, <2>3 DEF ServiceNext, vars, CreatePaymentRule, FindLatest, InsertFails, ReadRules,
                        AddComponent, RejectMetric, FinishAmount
    <2> DEFINE j == edit[e].key
               n == Len(versions[j])
               next == [ version |-> edit[e].base.version + 1,
                         rule |-> Merge(edit[e].base.rule, edit[e].patch), by |-> edit[e].patch ]
    <2>5. /\ j \in Keys /\ edit[e].pc = "write" /\ edit[e].base.version = n
          /\ edit[e].base = versions[j][n] /\ edit[e].base.rule \in Rule
          /\ \A d \in Editors : d # e => edit'[d] = edit[d]
          /\ \A i \in Keys \ {j} : versions'[i] = versions[i]
          /\ versions'[j][n + 1] = next
      BY <1>1, <2>4, InsertedVersion
    <2>6. e = p /\ j = k
      BY <2>1, <2>5
    <2>7. /\ sent[p].id # None /\ sent[p].payload = edit[p].patch /\ sent[p].id = << k, n >>
      BY <1>1, <2>1, <2>5, <2>6 DEF PageInv, EditSent
    <2>8. Untouched(versions[k][n].rule, sent[p].payload, sent[p].typed)
      <3>1. PICK i \in Keys, m \in Nat :
              /\ m \in DOMAIN versions[i]
              /\ sent[p].id = << i, m >>
              /\ Untouched(versions[i][m].rule, sent[p].payload, sent[p].typed)
        BY <1>1, <2>7 DEF PageInv, SentHolds
      <3> HIDE DEF n
      <3>2. i = k /\ m = n
        BY <2>7, <3>1
      <3> QED BY <3>1, <3>2
    <2>9. sent[p].payload \in Rule
      BY <1>1, <2>7, SentMessage DEF PageInv
    <2>10. Merge(edit[e].base.rule, edit[e].patch) = sent[p].payload
      BY <2>5, <2>6, <2>7, <2>9, WholeRule
    <2>11. versions'[k][n + 1].rule = sent[p].payload
      BY <2>5, <2>6, <2>10
    <2> QED BY <2>6, <2>8, <2>11
  <1>2. RowsInv /\ PageInv /\ [FormNext]_<< vars, pageVars >> => [Step]_<< vars, pageVars >>
    BY <1>1
  <1>3. [][Step]_<< vars, pageVars >> => OnlyTypedChanges
    BY PTL DEF OnlyTypedChanges
  <1> HIDE DEF Step
  <1> QED BY <1>2, <1>3, RuleFormInv, PTL DEF FormSpec

\* What the page shows for a draft, and what a calculation of that rule alone adds.
Previewed(f) ==
  LET rule == FormToPayload(f)
      paid == AmountOf(rule, [Sample EXCEPT !.period = f.period], 0)
  IN IF rule.type = "penalty" THEN Cents(-SimulateRule(f)) - paid = Cents(rule.value)
     ELSE Cents(SimulateRule(f)) = paid

\* They agree to the cent for every kind of rule but penalties, for which either deducts when
\* the other does not (simulateRule and buildPaymentBreakdown).
LEMMA DraftPreviewed ==
  ASSUME NEW f \in Draft, Sendable(f), ~Unsupported(FormToPayload(f))
  PROVE  Previewed(f)
  <1> DEFINE rule == FormToPayload(f)
             asked == [Sample EXCEPT !.period = f.period]
             paid == AmountOf(rule, asked, 0)
  <1>1. /\ rule.type = f.type /\ rule.value = f.value /\ rule.value \in Nat
        /\ rule.on = BuildConditions(f) /\ rule.threshold = Threshold(f.type, f.threshold)
    BY DEF FormToPayload, Draft
  <1>2. f.type \in {"zone_rate", "per_km", "per_order", "bonus", "penalty", "minimum_guarantee"}
    BY DEF Draft, PaymentRuleType
  <1>3. asked.did = Sample.did /\ asked.period = f.period
    BY DEF Sample
  <1>4. Cents(0) = 0
    BY DEF Cents
  <1> HIDE DEF rule, asked
  <1>5. CASE f.type = "zone_rate"
    <2>1. rule.on = f.zone /\ f.zone \in Zones /\ f.zone # None
      BY <1>1, <1>5 DEF BuildConditions, Sendable, RequiresConditions, Draft
    <2>2. f.zone \notin SupportedMetric
      BY <2>1, RuleFormAssumption
    <2>3. Sample.did[f.zone] = 1
      BY <2>1, <2>2 DEF Sample, SupportedMetric
    <2>4. paid = Cents(rule.value * Sample.did[f.zone])
      BY <1>1, <1>3, <1>5, <2>1 DEF AmountOf, PerUnit
    <2>5. SimulateRule(f) = f.value
      BY <1>5, <2>1 DEF SimulateRule
    <2>6. rule.value * Sample.did[f.zone] = f.value
      BY <1>1, <2>3
    <2> QED BY <1>1, <1>5, <2>4, <2>5, <2>6 DEF Previewed, rule, asked
  <1>6. CASE f.type = "per_km"
    <2>1. paid = Cents(rule.value * Sample.did["distance_km"])
      BY <1>1, <1>3, <1>6 DEF AmountOf, PerUnit
    <2>2. SimulateRule(f) = f.value * Sample.did["distance_km"]
      BY <1>6 DEF SimulateRule
    <2> QED BY <1>1, <1>6, <2>1, <2>2 DEF Previewed, rule, asked
  <1>7. CASE f.type = "per_order"
    <2>1. paid = Cents(rule.value * Sample.did["completed_orders"])
      BY <1>1, <1>3, <1>7 DEF AmountOf, PerUnit
    <2>2. SimulateRule(f) = f.value * Sample.did["completed_orders"]
      BY <1>7 DEF SimulateRule
    <2> QED BY <1>1, <1>7, <2>1, <2>2 DEF Previewed, rule, asked
  <1>8. CASE f.type \in {"bonus", "penalty"}
    <2> DEFINE reached == Sample.did[f.metric] >= f.threshold
    <2>1. rule.on = f.metric /\ rule.threshold = f.threshold
      BY <1>1, <1>8 DEF BuildConditions, Threshold
    <2>2. rule.on \in SupportedMetric
      BY <1>1, <1>8 DEF Unsupported, rule
    <2>3. SampleOf(f.metric) = Sample.did[f.metric]
      BY <2>1, <2>2 DEF SampleOf, SupportedMetric
    <2>4. Sample.did[f.metric] \in Nat /\ f.threshold \in Nat /\ f.value \in Nat
      BY <2>1, <2>2 DEF Sample, SupportedMetric, Draft
    <2>5. CASE f.type = "bonus"
      <3>1. paid = IF reached THEN Cents(f.value) ELSE 0
        BY <1>1, <1>3, <2>1, <2>5 DEF AmountOf, Bonus, Did
      <3>2. SimulateRule(f) = IF reached THEN f.value ELSE 0
        BY <2>3, <2>5 DEF SimulateRule
      <3> QED BY <1>1, <1>4, <2>5, <3>1, <3>2 DEF Previewed, rule, asked
    <2>6. CASE f.type = "penalty"
      <3>1. paid = IF reached THEN 0 ELSE -Cents(f.value)
        BY <1>1, <1>3, <2>1, <2>4, <2>6 DEF AmountOf, Penalty, Did
      <3>2. SimulateRule(f) = IF reached THEN -f.value ELSE 0
        BY <2>3, <2>6 DEF SimulateRule
      <3>3. -SimulateRule(f) = IF reached THEN f.value ELSE 0
        BY <2>4, <3>2
      <3>4. Cents(-SimulateRule(f)) = IF reached THEN Cents(f.value) ELSE 0
        BY <1>4, <3>3
      <3>5. Cents(f.value) \in Int
        BY <2>4, CentsNat
      <3>6. Cents(-SimulateRule(f)) - paid = Cents(f.value)
        BY <3>1, <3>4, <3>5
      <3> QED BY <1>1, <2>6, <3>6 DEF Previewed, rule, asked
    <2> QED BY <1>8, <2>5, <2>6
  <1>9. CASE f.type = "minimum_guarantee"
    <2>1. rule.on = f.period
      BY <1>1, <1>9 DEF BuildConditions
    <2>2. paid = IF 0 < rule.value THEN Cents(rule.value) ELSE 0
      BY <1>1, <1>3, <1>9, <2>1 DEF AmountOf, TopUp, Covers
    <2>3. SimulateRule(f) = f.value
      BY <1>9 DEF SimulateRule
    <2>4. paid = Cents(f.value)
      BY <1>1, <1>4, <2>2
    <2> QED BY <1>1, <1>9, <2>3, <2>4 DEF Previewed, rule, asked
  <1> QED BY <1>2, <1>5, <1>6, <1>7, <1>8, <1>9

\* Whatever is typed into a form, its preview is what a calculation adds for that rule alone if
\* it knows the metric, and for a penalty the very opposite (simulateRule against
\* buildPaymentBreakdown).
THEOREM PreviewCorrect == FormSpec => []PreviewTellsPay
  <1>1. PageInv => PreviewTellsPay
    <2>1. SUFFICES ASSUME PageInv, NEW p \in Editors, Sendable(form[p]),
                          ~Unsupported(FormToPayload(form[p]))
                   PROVE  Previewed(form[p])
      BY DEF PreviewTellsPay, Previewed
    <2>2. form[p] \in Draft
      BY <2>1 DEF PageInv, PageTypes
    <2> QED BY <2>1, <2>2, DraftPreviewed
  <1> QED BY <1>1, RuleFormInv, PTL

=============================================================================
