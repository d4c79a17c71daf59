--------------------------- MODULE PaymentsProofs ---------------------------
(***************************************************************************)
(* Proofs of the safety properties of Payments and PaymentsLedger.         *)
(*                                                                         *)
(* The argument for the rows: a change writes what it has read, one legal  *)
(* step further, so every row and every row that was read is an honest     *)
(* story (Honest), however old.  Stamps are never taken back, and a story  *)
(* that was read is one whose stamps are set (Stamped).  Payouts follow    *)
(* the stamp as long as no change was overtaken.                           *)
(*                                                                         *)
(* The argument for the calculations: the runs that may still make a       *)
(* payment and the payments made are together one at most, and two at most *)
(* after a stall.                                                          *)
(*                                                                         *)
(* The argument for the list: what is under way or cached has heard of all *)
(* that the page was told (Sound), unless it is marked, and a list on      *)
(* screen that is marked as invalid is being loaded or has failed.         *)
(***************************************************************************)
EXTENDS PaymentsLedger, FiniteSetTheorems, TLAPS

USE PaymentsAssumption

-----------------------------------------------------------------------------
(* The rows.                                                               *)

Told(row) == { row.trail[i] : i \in DOMAIN row.trail }

\* A row whose trail is a legal story of its status.
Honest(row) ==
  /\ row \in Payment
  /\ row.trail # << >> /\ Legal(row.trail) /\ row.status = row.trail[Len(row.trail)]
  /\ row.status \in {"draft", "calculated", "approved"} => "paid" \notin Told(row)

\* The stamps of a payment cover what a story tells.
Stamped(p, row) ==
  /\ "approved" \in Told(row) => payment[p].approved
  /\ "paid" \in Told(row) => payment[p].paid

\* Nobody has written over a change of this payment.
Straight(p) ==
  /\ payment[p].approved => "approved" \in Told(payment[p])
  /\ payment[p].paid => "paid" \in Told(payment[p])
  /\ payouts[p] = IF payment[p].paid THEN 1 ELSE 0

Rows ==
  /\ \A p \in Existing :
       /\ Honest(payment[p]) /\ Stamped(p, payment[p])
       /\ p \notin raced => Straight(p)
  /\ \A p \in PaymentIds \ Existing : payouts[p] = 0
  /\ \A m \in Managers : change[m].pc = "write" =>
       /\ change[m].payment \in Existing
       /\ Honest(change[m].seen) /\ Stamped(change[m].payment, change[m].seen)
       /\ canTransitionPayment(change[m].seen.status, change[m].to)

\* The moves that canTransitionPayment allows.
LEMMA Moves ==
  /\ canTransitionPayment("draft", "calculated")
  /\ \A s, to \in PaymentStatus : canTransitionPayment(s, to) =>
       /\ to = "calculated" => s = "draft"
       /\ to = "approved" => s = "calculated"
       /\ to = "paid" => s = "approved"
       /\ to = "disputed" => s = "paid"
  <1> DEFINE T == PAYMENT_TRANSITIONS
  <1>1. /\ T["draft"] = {"calculated"} /\ T["calculated"] = {"approved"}
        /\ T["approved"] = {"paid"} /\ T["paid"] = {"disputed"} /\ T["disputed"] = {}
    BY DEF PAYMENT_TRANSITIONS, PaymentStatus
  <1> HIDE DEF T
  <1> QED
    BY <1>1 DEF canTransitionPayment, PaymentStatus, T

\* One step further is a legal story, too.
LEMMA HonestGrows ==
  ASSUME NEW row, Honest(row), NEW to \in PaymentStatus, canTransitionPayment(row.status, to),
         NEW next \in Payment, next.status = to, next.trail = Append(row.trail, to)
  PROVE  Honest(next) /\ Told(next) = Told(row) \cup {to}
  <1> DEFINE t == row.trail
             n == Len(t)
  <1>1. t \in Seq(PaymentStatus) /\ n \in Nat /\ n > 0 /\ DOMAIN t = 1..n
    BY DEF Honest, Payment
  <1>2. /\ next.trail \in Seq(PaymentStatus) /\ Len(next.trail) = n + 1
        /\ DOMAIN next.trail = 1..(n + 1)
        /\ next.trail[n + 1] = to /\ \A i \in 1..n : next.trail[i] = t[i]
    BY <1>1
  <1>3. Legal(next.trail)
    <2> SUFFICES ASSUME NEW i \in 1..(n + 1)
                 PROVE  canTransitionPayment(IF i = 1 THEN "draft" ELSE next.trail[i - 1],
                                             next.trail[i])
      BY <1>2 DEF Legal
    <2>1. CASE i = n + 1
      BY <1>1, <1>2, <2>1 DEF Honest
    <2>2. CASE i \in 1..n
      <3>1. canTransitionPayment(IF i = 1 THEN "draft" ELSE t[i - 1], t[i])
        BY <1>1, <2>2 DEF Honest, Legal
      <3>2. next.trail[i] = t[i] /\ (i # 1 => next.trail[i - 1] = t[i - 1])
        BY <1>1, <1>2, <2>2
      <3> QED
        BY <3>1, <3>2
    <2> QED
      BY <1>1, <2>1, <2>2
  <1>4. Told(next) = Told(row) \cup {to}
    <2>1. Told(next) = { next.trail[i] : i \in 1..(n + 1) } /\ Told(row) = { t[i] : i \in 1..n }
      BY <1>1, <1>2 DEF Told
    <2>2. \A i \in 1..(n + 1) : i \in 1..n \/ i = n + 1
      BY <1>1
    <2>3. 1..n \subseteq 1..(n + 1) /\ n + 1 \in 1..(n + 1)
      BY <1>1
    <2> QED
      BY <1>2, <2>1, <2>2, <2>3
  <1>5. to \in {"draft", "calculated", "approved"} => "paid" \notin Told(next)
    <2>1. row.status \in PaymentStatus
      BY DEF Honest, Payment
    <2>2. to # "draft"
      BY <2>1 DEF canTransitionPayment, PAYMENT_TRANSITIONS, PaymentStatus
    <2> QED
      BY <1>4, <2>1, <2>2, Moves DEF Honest
  <1> QED
    BY <1>2, <1>3, <1>4, <1>5 DEF Honest

\* The first entry.
LEMMA FirstRow ==
  ASSUME NEW row, row = [Blank EXCEPT !.status = "calculated", !.trail = << "calculated" >>]
  PROVE  /\ Honest(row) /\ Told(row) = {"calculated"}
         /\ row.approved = FALSE /\ row.paid = FALSE
  <1>1. /\ row.status = "calculated" /\ row.trail = << "calculated" >>
        /\ row.approved = FALSE /\ row.paid = FALSE /\ row \in Payment
    <2>1. "calculated" \in PaymentStatus /\ "draft" \in PaymentStatus
      BY DEF PaymentStatus
    <2>2. << "calculated" >> \in Seq(PaymentStatus)
      BY <2>1
    <2> QED
      BY <2>1, <2>2 DEF Blank, Payment
  <1>2. Legal(row.trail)
    <2>1. DOMAIN row.trail = {1} /\ row.trail[1] = "calculated"
      BY <1>1
    <2> QED
      BY <2>1, Moves DEF Legal
  <1> QED
    BY <1>1, <1>2 DEF Honest, Told

-----------------------------------------------------------------------------
(* Types.                                                                  *)

LEMMA BlankTyped == Blank \in Payment /\ Idle \in Change
  <1>1. Blank \in Payment
    <2>1. << >> \in Seq(PaymentStatus)
      OBVIOUS
    <2> QED
      BY <2>1 DEF Blank, Payment, PaymentStatus
  <1> QED
    BY <1>1 DEF Idle, Change, PaymentStatus

LEMMA TypeInit == Init => TypeOK
  BY BlankTyped DEF Init, TypeOK, Job, Existing, Idle

\* What the insertion of a payment leaves.
LEMMA InsertTyped ==
  ASSUME TypeOK, NEW c \in Calculations, NEW p \in PaymentIds, Insert(c, p)
  PROVE  /\ payment' \in [PaymentIds -> Payment]
         /\ origin' \in [PaymentIds -> Calculations \cup {None}]
         /\ origin'[p] = c /\ p \notin Existing
         /\ payment'[p] = [Blank EXCEPT !.status = "calculated", !.trail = << "calculated" >>]
         /\ \A q \in PaymentIds : q # p => payment'[q] = payment[q] /\ origin'[q] = origin[q]
         /\ Existing \subseteq Existing'
  <1> DEFINE row == [Blank EXCEPT !.status = "calculated", !.trail = << "calculated" >>]
  <1>1. row \in Payment
    BY FirstRow DEF Honest
  <1>2. origin[p] = None /\ origin' = [origin EXCEPT ![p] = c]
        /\ payment' = [payment EXCEPT ![p] = row]
    BY DEF Insert
  <1> HIDE DEF row
  <1>3. /\ payment' \in [PaymentIds -> Payment]
        /\ origin' \in [PaymentIds -> Calculations \cup {None}]
        /\ origin'[p] = c /\ payment'[p] = row
        /\ \A q \in PaymentIds : q # p => payment'[q] = payment[q] /\ origin'[q] = origin[q]
    BY <1>1, <1>2 DEF TypeOK
  <1>4. Existing \subseteq Existing' /\ p \notin Existing
    BY <1>2, <1>3 DEF Existing
  <1> QED
    BY <1>3, <1>4 DEF row

\* A job that changes as the module says keeps its type.
LEMMA JobTyped ==
  ASSUME TypeOK, NEW c \in Calculations, NEW j \in Job, JobBecomes(c, j),
         j.pc # "done" => j.stalls <= 1
  PROVE  /\ job' \in [Calculations -> Job]
         /\ job'[c] = j /\ \A d \in Calculations : d # c => job'[d] = job[d]
         /\ \A d \in Calculations : job'[d].pc # "done" => job'[d].stalls <= 1
  BY DEF JobBecomes, TypeOK

\* The steps that change only jobs and ghosts.
LEMMA WorkTyped ==
  ASSUME TypeOK, NEW c \in Calculations,
         CalculatePayment(c) \/ Take(c) \/ Complete(c) \/ LoseLock(c) \/ Stall(c)
  PROVE  TypeOK'
  <1> USE DEF TypeOK
  <1>1. UNCHANGED << payment, origin, change, raced, payouts >>
    BY DEF CalculatePayment, Take, Complete, LoseLock, Stall
  <1>2. struck' \subseteq Calculations /\ ghosts' \in [Calculations -> Nat]
    BY DEF CalculatePayment, Take, Complete, LoseLock, Stall
  <1>3. job[c] \in Job
    OBVIOUS
  <1>4. \E j \in Job : JobBecomes(c, j) /\ (j.pc # "done" => j.stalls <= 1)
    <2>1. ASSUME NEW pc \in {"queued", "running", "stalled", "done"},
                 JobBecomes(c, [job[c] EXCEPT !.pc = pc]), job[c].stalls <= 1
          PROVE  \E j \in Job : JobBecomes(c, j) /\ (j.pc # "done" => j.stalls <= 1)
      BY <1>3, <2>1 DEF Job
    <2>2. CASE Stall(c)
      <3> DEFINE j == [job[c] EXCEPT !.stalls = job[c].stalls + 1, !.made = None,
                                     !.pc = IF job[c].stalls = 0 THEN "queued" ELSE "done"]
      <3>1. job[c].stalls \in 0..1
        BY <1>3, <2>2 DEF Stall, Job
      <3>2. j \in Job /\ (j.pc # "done" => j.stalls <= 1)
        <4>1. /\ job[c].stalls + 1 \in 0..2
              /\ (IF job[c].stalls = 0 THEN "queued" ELSE "done") \in {"queued", "done"}
              /\ job[c].stalls = 0 => job[c].stalls + 1 <= 1
          BY <3>1
        <4>2. j.stalls = job[c].stalls + 1 /\ j.made = None
              /\ j.pc = IF job[c].stalls = 0 THEN "queued" ELSE "done"
          BY <1>3 DEF Job
        <4>3. j \in Job
          BY <1>3, <4>1 DEF Job
        <4> QED
          BY <4>1, <4>2, <4>3
      <3>3. JobBecomes(c, j)
        BY <2>2 DEF Stall
      <3> QED
        BY <3>2, <3>3
    <2>3. CASE CalculatePayment(c)
      BY <2>1, <2>3 DEF CalculatePayment
    <2>4. CASE Take(c)
      BY <2>1, <2>4 DEF Take
    <2>5. CASE Complete(c)
      BY <2>1, <2>5 DEF Complete
    <2>6. CASE LoseLock(c)
      BY <2>1, <2>6 DEF LoseLock
    <2> QED
      BY <2>2, <2>3, <2>4, <2>5, <2>6
  <1>5. job' \in [Calculations -> Job]
        /\ \A d \in Calculations : job'[d].pc # "done" => job'[d].stalls <= 1
    BY <1>4, JobTyped
  <1> QED
    BY <1>1, <1>2, <1>5 DEF Existing

\* The steps that make a payment.
LEMMA MakeTyped ==
  ASSUME TypeOK, NEW c \in Calculations, NEW p \in PaymentIds,
         CalculatePaymentInternal(c, p) \/ InsertUnheard(c, p) \/ GhostInserts(c, p)
  PROVE  /\ TypeOK' /\ Insert(c, p) /\ UNCHANGED << change, raced, payouts >>
  <1>1. Insert(c, p) /\ UNCHANGED << change, raced, payouts >>
    BY DEF CalculatePaymentInternal, InsertUnheard, GhostInserts
  <1>2. struck' \subseteq Calculations /\ ghosts' \in [Calculations -> Nat]
    BY DEF CalculatePaymentInternal, InsertUnheard, GhostInserts, TypeOK
  <1>3. job[c] \in Job
    BY DEF TypeOK
  <1>4. /\ job' \in [Calculations -> Job]
        /\ \A d \in Calculations : job'[d].pc # "done" => job'[d].stalls <= 1
    <2>1. CASE CalculatePaymentInternal(c, p)
      <3> DEFINE j == [job[c] EXCEPT !.pc = "created", !.made = p]
      <3>1. j \in Job /\ j.stalls = job[c].stalls /\ j.pc # "done"
        BY <1>3 DEF Job
      <3>2. JobBecomes(c, j) /\ job[c].stalls <= 1
        BY <2>1 DEF CalculatePaymentInternal, TypeOK
      <3> QED
        BY <3>1, <3>2, JobTyped
    <2>2. CASE InsertUnheard(c, p)
      <3> DEFINE j == [job[c] EXCEPT !.pc = "done"]
      <3>1. j \in Job /\ j.pc = "done"
        BY <1>3 DEF Job
      <3>2. JobBecomes(c, j)
        BY <2>2 DEF InsertUnheard
      <3> QED
        BY <3>1, <3>2, JobTyped
    <2>3. CASE GhostInserts(c, p)
      BY <2>3 DEF GhostInserts, TypeOK
    <2> QED
      BY <2>1, <2>2, <2>3
  <1>5. /\ payment' \in [PaymentIds -> Payment]
        /\ origin' \in [PaymentIds -> Calculations \cup {None}]
        /\ Existing \subseteq Existing'
    BY <1>1, InsertTyped
  <1> QED
    BY <1>1, <1>2, <1>4, <1>5 DEF TypeOK

\* What a change writes.
LEMMA WriteTyped ==
  ASSUME TypeOK, NEW m \in Managers, WriteStatus(m),
         NEW p \in PaymentIds, p = change[m].payment
  PROVE  /\ TypeOK'
         /\ payment'[p] = Written(m, payment[p]) /\ Written(m, payment[p]) \in Payment
         /\ \A q \in PaymentIds : q # p => payment'[q] = payment[q] /\ payouts'[q] = payouts[q]
         /\ payouts'[p] = IF change[m].to = "paid" THEN payouts[p] + 1 ELSE payouts[p]
         /\ change'[m] = Idle /\ \A k \in Managers : k # m => change'[k] = change[k]
         /\ raced' = IF payment[p] # change[m].seen THEN raced \cup {p} ELSE raced
         /\ p \in Existing /\ Existing' = Existing
  <1> DEFINE row == Written(m, payment[p])
  <1>1. /\ change[m].pc = "write" /\ payment' = [payment EXCEPT ![p] = row]
        /\ raced' = IF payment[p] # change[m].seen THEN raced \cup {p} ELSE raced
        /\ payouts' = [payouts EXCEPT ![p] = IF change[m].to = "paid" THEN payouts[p] + 1
                                             ELSE payouts[p]]
        /\ change' = [change EXCEPT ![m] = Idle]
        /\ UNCHANGED << origin, job, ghosts, struck >>
    BY DEF WriteStatus, Overtaken
  <1>2. p \in Existing /\ Existing' = Existing
    BY <1>1 DEF TypeOK, Existing
  <1>3. row \in Payment
    <2>1. change[m] \in Change /\ payment[p] \in Payment
      BY DEF TypeOK
    <2>2. change[m].to \in PaymentStatus /\ change[m].seen.trail \in Seq(PaymentStatus)
      BY <2>1 DEF Change, Payment
    <2>3. Append(change[m].seen.trail, change[m].to) \in Seq(PaymentStatus)
      BY <2>2
    <2> QED
      BY <2>1, <2>2, <2>3 DEF Written, Payment
  <1> HIDE DEF row
  <1>4. /\ payment' \in [PaymentIds -> Payment] /\ payment'[p] = row
        /\ change' \in [Managers -> Change] /\ change'[m] = Idle
        /\ payouts' \in [PaymentIds -> Nat]
    BY <1>1, <1>3, BlankTyped DEF TypeOK
  <1>5. Idle.pc # "write"
    BY DEF Idle
  <1>6. TypeOK'
    BY <1>1, <1>2, <1>4, <1>5 DEF TypeOK
  <1>7. /\ \A q \in PaymentIds : q # p => payment'[q] = payment[q] /\ payouts'[q] = payouts[q]
        /\ payouts'[p] = IF change[m].to = "paid" THEN payouts[p] + 1 ELSE payouts[p]
        /\ \A k \in Managers : k # m => change'[k] = change[k]
    BY <1>1 DEF TypeOK
  <1> QED
    BY <1>1, <1>2, <1>3, <1>4, <1>6, <1>7 DEF row

LEMMA FindTyped ==
  ASSUME TypeOK, NEW m \in Managers, NEW p \in PaymentIds, NEW to \in PaymentStatus,
         FindPayment(m, p, to)
  PROVE  /\ TypeOK'
         /\ change'[m] = [pc |-> "write", payment |-> p, seen |-> payment[p], to |-> to]
         /\ \A k \in Managers : k # m => change'[k] = change[k]
         /\ UNCHANGED << payment, origin, job, ghosts, struck, raced, payouts >>
  <1> DEFINE next == [pc |-> "write", payment |-> p, seen |-> payment[p], to |-> to]
  <1>1. next \in Change /\ next.payment = p
    BY DEF TypeOK, Change
  <1>2. change' = [change EXCEPT ![m] = next] /\ p \in Existing
        /\ UNCHANGED << payment, origin, job, ghosts, struck, raced, payouts >>
    BY DEF FindPayment, calculation
  <1> HIDE DEF next
  <1>3. change' \in [Managers -> Change] /\ change'[m] = next
        /\ \A k \in Managers : k # m => change'[k] = change[k]
    BY <1>1, <1>2 DEF TypeOK
  <1>4. TypeOK'
    BY <1>1, <1>2, <1>3 DEF TypeOK, Existing
  <1> QED
    BY <1>2, <1>3, <1>4 DEF next

LEMMA FailTyped ==
  ASSUME TypeOK, NEW m \in Managers, WriteFails(m)
  PROVE  /\ TypeOK' /\ change'[m] = Idle
         /\ \A k \in Managers : k # m => change'[k] = change[k]
         /\ UNCHANGED << payment, origin, job, ghosts, struck, raced, payouts >>
  <1>1. change' = [change EXCEPT ![m] = Idle]
        /\ UNCHANGED << payment, origin, job, ghosts, struck, raced, payouts >>
    BY DEF WriteFails, calculation
  <1>2. Idle.pc # "write"
    BY DEF Idle
  <1> QED
    BY <1>1, <1>2, BlankTyped DEF TypeOK, Existing

-----------------------------------------------------------------------------
(* The rows stay honest.                                                   *)

LEMMA RowsInit == Init => Rows
  BY DEF Init, Rows, Existing, Idle

\* Whatever leaves payments, changes and their histories alone.
LEMMA RowsSame ==
  ASSUME Rows, UNCHANGED << payment, origin, change, raced, payouts >>
  PROVE  Rows'
  BY DEF Rows, Existing, Honest, Stamped, Straight, Told, Legal

\* Whatever leaves the payments alone and the changes of the database honest.
LEMMA RowsKept ==
  ASSUME Rows, UNCHANGED << payment, origin, raced, payouts >>,
         \A k \in Managers : change'[k].pc = "write" =>
           /\ change'[k].payment \in Existing
           /\ Honest(change'[k].seen) /\ Stamped(change'[k].payment, change'[k].seen)
           /\ canTransitionPayment(change'[k].seen.status, change'[k].to)
  PROVE  Rows'
  <1>1. Existing' = Existing
    BY DEF Existing
  <1>2. \A p \in Existing' : /\ Honest(payment[p])' /\ Stamped(p, payment[p])'
                             /\ p \notin raced' => Straight(p)'
    BY SMTT(30), <1>1 DEF Rows, Honest, Stamped, Straight, Told, Legal
  <1>3. \A p \in PaymentIds \ Existing' : payouts'[p] = 0
    BY <1>1 DEF Rows
  <1>4. \A k \in Managers : change'[k].pc = "write" =>
          /\ change'[k].payment \in Existing'
          /\ Honest(change[k].seen)' /\ Stamped(change[k].payment, change[k].seen)'
          /\ canTransitionPayment(change[k].seen.status, change[k].to)'
    BY <1>1 DEF Honest, Stamped, Told, Legal, canTransitionPayment
  <1> QED
    BY <1>2, <1>3, <1>4 DEF Rows

LEMMA RowsMake ==
  ASSUME TypeOK, Rows, NEW c \in Calculations, NEW p \in PaymentIds, Insert(c, p),
         UNCHANGED << change, raced, payouts >>, c # None
  PROVE  Rows'
  <1>1. /\ payment'[p] = [Blank EXCEPT !.status = "calculated", !.trail = << "calculated" >>]
        /\ origin'[p] = c /\ p \notin Existing /\ Existing \subseteq Existing'
        /\ \A q \in PaymentIds : q # p => payment'[q] = payment[q] /\ origin'[q] = origin[q]
    BY InsertTyped
  <1>2. /\ Honest(payment'[p]) /\ Told(payment'[p]) = {"calculated"}
        /\ payment'[p].approved = FALSE /\ payment'[p].paid = FALSE
    BY <1>1, FirstRow
  <1>3. \A q \in Existing' : q = p \/ q \in Existing
    BY <1>1 DEF Existing
  <1>4. \A q \in Existing' : /\ Honest(payment'[q]) /\ Stamped(q, payment[q])'
                             /\ q \notin raced' => Straight(q)'
    <2> TAKE q \in Existing'
    <2>1. CASE q = p
      BY <1>1, <1>2, <2>1 DEF Rows, Stamped, Straight
    <2>2. CASE q # p
      <3>1. q \in Existing /\ q \in PaymentIds /\ payment'[q] = payment[q]
        BY <1>1, <1>3, <2>2 DEF Existing
      <3> QED
        BY <3>1 DEF Rows, Stamped, Straight
    <2> QED
      BY <2>1, <2>2
  <1>5. \A m \in Managers : change'[m].pc = "write" =>
          /\ change'[m].payment \in Existing'
          /\ Honest(change'[m].seen) /\ Stamped(change[m].payment, change[m].seen)'
          /\ canTransitionPayment(change'[m].seen.status, change'[m].to)
    <2> TAKE m \in Managers
    <2>1. CASE change[m].pc = "write"
      <3>1. change[m].payment \in Existing /\ change[m].payment # p
            /\ change[m].payment \in PaymentIds
        BY <1>1, <2>1 DEF Rows, Existing
      <3> QED
        BY <1>1, <2>1, <3>1 DEF Rows, Stamped
    <2> QED
      BY <2>1
  <1> QED
    BY <1>1, <1>4, <1>5 DEF Rows, Honest, Told, Legal

LEMMA RowsFind ==
  ASSUME TypeOK, Rows, NEW m \in Managers, NEW p \in PaymentIds, NEW to \in PaymentStatus,
         FindPayment(m, p, to)
  PROVE  Rows'
  <1>1. /\ change'[m] = [pc |-> "write", payment |-> p, seen |-> payment[p], to |-> to]
        /\ \A k \in Managers : k # m => change'[k] = change[k]
        /\ UNCHANGED << payment, origin, raced, payouts >>
    BY FindTyped
  <1>2. p \in Existing /\ canTransitionPayment(payment[p].status, to)
    BY DEF FindPayment
  <1>3. \A k \in Managers : change'[k].pc = "write" =>
          /\ change'[k].payment \in Existing
          /\ Honest(change'[k].seen) /\ Stamped(change'[k].payment, change'[k].seen)
          /\ canTransitionPayment(change'[k].seen.status, change'[k].to)
    <2> TAKE k \in Managers
    <2>1. CASE k = m
      BY <1>1, <1>2, <2>1 DEF Rows
    <2>2. CASE k # m
      BY <1>1, <2>2 DEF Rows
    <2> QED
      BY <2>1, <2>2
  <1> QED
    BY <1>1, <1>3, RowsKept

LEMMA RowsFail ==
  ASSUME TypeOK, Rows, NEW m \in Managers, WriteFails(m)
  PROVE  Rows'
  <1>1. /\ change'[m] = Idle /\ \A k \in Managers : k # m => change'[k] = change[k]
        /\ UNCHANGED << payment, origin, raced, payouts >>
    BY FailTyped
  <1>2. \A k \in Managers : change'[k].pc = "write" => change'[k] = change[k]
    BY <1>1 DEF Idle
  <1>3. \A k \in Managers : change'[k].pc = "write" =>
          /\ change'[k].payment \in Existing
          /\ Honest(change'[k].seen) /\ Stamped(change'[k].payment, change'[k].seen)
          /\ canTransitionPayment(change'[k].seen.status, change'[k].to)
    BY <1>2 DEF Rows
  <1> QED
    BY <1>1, <1>3, RowsKept

LEMMA RowsWrite ==
  ASSUME TypeOK, Rows, NEW m \in Managers, WriteStatus(m)
  PROVE  Rows'
  <1>1. PICK p \in PaymentIds : p = change[m].payment
    BY DEF WriteStatus, TypeOK, Existing
  <1> DEFINE seen == change[m].seen
             to == change[m].to
             next == Written(m, payment[p])
  <1>2. /\ payment'[p] = next /\ next \in Payment
        /\ \A q \in PaymentIds : q # p => payment'[q] = payment[q] /\ payouts'[q] = payouts[q]
        /\ payouts'[p] = IF to = "paid" THEN payouts[p] + 1 ELSE payouts[p]
        /\ change'[m] = Idle /\ \A k \in Managers : k # m => change'[k] = change[k]
        /\ raced' = IF payment[p] # seen THEN raced \cup {p} ELSE raced
        /\ p \in Existing /\ Existing' = Existing
    BY <1>1, WriteTyped
  <1>3. /\ Honest(seen) /\ Stamped(p, seen) /\ canTransitionPayment(seen.status, to)
        /\ to \in PaymentStatus /\ seen.status \in PaymentStatus
    BY <1>1 DEF WriteStatus, Rows, TypeOK, Change, Payment
  <1>4. /\ next.status = to /\ next.trail = Append(seen.trail, to)
        /\ next.approved = (payment[p].approved \/ to = "approved")
        /\ next.paid = (payment[p].paid \/ to = "paid")
    BY DEF Written
  <1>5. Honest(next) /\ Told(next) = Told(seen) \cup {to}
    BY SMTT(30), <1>2, <1>3, <1>4, HonestGrows
  <1>6. payment[p].approved \in BOOLEAN /\ payment[p].paid \in BOOLEAN /\ payouts[p] \in Nat
    BY DEF TypeOK, Payment
  <1> HIDE DEF next
  <1>7. Stamped(p, payment[p])'
    BY <1>2, <1>3, <1>4, <1>5, <1>6 DEF Stamped
  <1>8. ASSUME p \notin raced' PROVE Straight(p)'
    <2>1. seen = payment[p] /\ Straight(p)
      BY <1>2, <1>8 DEF Rows
    <2>2. to = "paid" => payment[p].status = "approved" /\ payment[p].paid = FALSE
      <3>1. ASSUME to = "paid" PROVE seen.status = "approved"
        BY <1>3, <3>1, Moves
      <3>2. ASSUME to = "paid" PROVE "paid" \notin Told(seen)
        BY <1>3, <3>1, <3>2 DEF Honest
      <3>3. ASSUME to = "paid" PROVE payment[p].paid = FALSE
        <4>1. payment[p].paid => "paid" \in Told(seen)
          BY <2>1 DEF Straight
        <4> QED
          BY <1>6, <3>2, <3>3, <4>1
      <3> QED
        BY <2>1, <3>1, <3>3
    <2>3. /\ payment'[p].approved => "approved" \in Told(payment'[p])
          /\ payment'[p].paid => "paid" \in Told(payment'[p])
      BY <1>2, <1>4, <1>5, <1>6, <2>1 DEF Straight
    <2>4. payouts'[p] = IF payment'[p].paid THEN 1 ELSE 0
      <3>1. CASE to = "paid"
        <4>1. payouts[p] = 0
          BY <2>1, <2>2, <3>1 DEF Straight
        <4>2. payment'[p].paid = TRUE
          BY <1>2, <1>4, <3>1
        <4> QED
          BY <1>2, <3>1, <4>1, <4>2
      <3>2. CASE to # "paid"
        <4>1. payment'[p].paid = payment[p].paid
          BY <1>2, <1>4, <1>6, <3>2
        <4>2. payouts'[p] = payouts[p]
          BY <1>2, <3>2
        <4> QED
          BY <2>1, <4>1, <4>2 DEF Straight
      <3> QED
        BY <3>1, <3>2
    <2> QED
      BY <2>3, <2>4 DEF Straight, Told
  <1>9. \A q \in Existing' : /\ Honest(payment'[q]) /\ Stamped(q, payment[q])'
                             /\ q \notin raced' => Straight(q)'
    <2> TAKE q \in Existing'
    <2>1. CASE q = p
      BY <1>2, <1>5, <1>7, <1>8, <2>1
    <2>2. CASE q # p
      <3>1. q \in Existing /\ q \in PaymentIds /\ payment'[q] = payment[q]
            /\ payouts'[q] = payouts[q] /\ (q \notin raced' => q \notin raced)
        BY <1>2, <2>2 DEF Existing
      <3> QED
        BY <3>1 DEF Rows, Stamped, Straight
    <2> QED
      BY <2>1, <2>2
  <1>10. \A k \in Managers : change'[k].pc = "write" =>
          /\ change'[k].payment \in Existing'
          /\ Honest(change'[k].seen) /\ Stamped(change[k].payment, change[k].seen)'
          /\ canTransitionPayment(change'[k].seen.status, change'[k].to)
    <2> SUFFICES ASSUME NEW k \in Managers, change'[k].pc = "write"
                 PROVE  /\ change'[k].payment \in Existing'
                        /\ Honest(change'[k].seen)
                        /\ Stamped(change[k].payment, change[k].seen)'
                        /\ canTransitionPayment(change'[k].seen.status, change'[k].to)
      OBVIOUS
    <2>1. k # m /\ change'[k] = change[k]
      BY <1>2 DEF Idle
    <2>2. PICK q \in Existing : q = change[k].payment
      BY <2>1 DEF Rows
    <2>3. q \in PaymentIds /\ (payment[q].approved => payment'[q].approved)
          /\ (payment[q].paid => payment'[q].paid)
      BY <1>2, <1>4 DEF Existing
    <2>4. /\ Honest(change[k].seen) /\ Stamped(q, change[k].seen)
          /\ canTransitionPayment(change[k].seen.status, change[k].to)
      BY <2>1, <2>2 DEF Rows
    <2> QED
      BY <1>2, <2>1, <2>2, <2>3, <2>4 DEF Stamped
  <1>11. \A q \in PaymentIds \ Existing : payouts'[q] = 0
    BY <1>2 DEF Rows
  <1> QED
    BY <1>2, <1>9, <1>10, <1>11 DEF Rows, Honest, Told, Legal
-----------------------------------------------------------------------------
(* Every step keeps the types and the rows.                                *)

RowsInv == TypeOK /\ Rows

LEMMA RowsStep == RowsInv /\ [Next]_vars => RowsInv'
  <1> SUFFICES ASSUME TypeOK, Rows, [Next]_vars PROVE TypeOK' /\ Rows'
    BY DEF RowsInv
  <1>1. ASSUME NEW c \in Calculations,
               CalculatePayment(c) \/ Take(c) \/ Complete(c) \/ LoseLock(c) \/ Stall(c)
        PROVE  TypeOK' /\ Rows'
    <2>1. UNCHANGED << payment, origin, change, raced, payouts >>
      BY <1>1 DEF CalculatePayment, Take, Complete, LoseLock, Stall
    <2> QED
      BY <1>1, <2>1, WorkTyped, RowsSame
  <1>2. ASSUME NEW c \in Calculations, NEW p \in PaymentIds,
               CalculatePaymentInternal(c, p) \/ InsertUnheard(c, p) \/ GhostInserts(c, p)
        PROVE  TypeOK' /\ Rows'
    <2>1. TypeOK' /\ Insert(c, p) /\ UNCHANGED << change, raced, payouts >>
      BY <1>2, MakeTyped
    <2>2. c # None
      OBVIOUS
    <2> QED
      BY <2>1, <2>2, RowsMake
  <1>3. ASSUME NEW m \in Managers, NEW p \in PaymentIds, NEW to \in PaymentStatus,
               FindPayment(m, p, to)
        PROVE  TypeOK' /\ Rows'
    BY <1>3, FindTyped, RowsFind
  <1>4. ASSUME NEW m \in Managers, WriteStatus(m)
        PROVE  TypeOK' /\ Rows'
    <2>1. PICK p \in PaymentIds : p = change[m].payment
      BY <1>4 DEF WriteStatus, TypeOK, Existing
    <2> QED
      BY <1>4, <2>1, WriteTyped, RowsWrite
  <1>5. ASSUME NEW m \in Managers, WriteFails(m)
        PROVE  TypeOK' /\ Rows'
    BY <1>5, FailTyped, RowsFail
  <1>6. CASE UNCHANGED vars
    <2>1. TypeOK'
      BY <1>6 DEF vars, TypeOK, Existing
    <2> QED
      BY <1>6, <2>1, RowsSame DEF vars
  <1> QED
    BY <1>1, <1>2, <1>3, <1>4, <1>5, <1>6 DEF Next, Work

-----------------------------------------------------------------------------
(* What the rows give.                                                     *)

LEMMA RowsGive == RowsInv => TrailTellsStatus /\ StampsTold /\ PaidOnce
  <1> SUFFICES ASSUME TypeOK, Rows PROVE TrailTellsStatus /\ StampsTold /\ PaidOnce
    BY DEF RowsInv
  <1>1. TrailTellsStatus
    BY DEF Rows, Honest, TrailTellsStatus
  <1>2. StampsTold
    BY DEF Rows, Stamped, Straight, Told, StampsTold
  <1>3. PaidOnce
    BY DEF Rows, Straight, PaidOnce
  <1> QED
    BY <1>1, <1>2, <1>3

\* A step that changes a payment adds to its trail, unless it was overtaken.
LEMMA TrailStep ==
  RowsInv /\ [Next]_vars =>
    \A p \in Existing :
      payment'[p] # payment[p] /\ p \notin raced' =>
        \E s \in PaymentStatus : payment'[p].trail = Append(payment[p].trail, s)
  <1> SUFFICES ASSUME TypeOK, Rows, [Next]_vars, NEW p \in Existing,
                      payment'[p] # payment[p], p \notin raced'
               PROVE  \E s \in PaymentStatus : payment'[p].trail = Append(payment[p].trail, s)
    BY DEF RowsInv
  <1>1. p \in PaymentIds
    BY DEF Existing
  <1>2. ASSUME NEW c \in Calculations, NEW q \in PaymentIds, Insert(c, q)
        PROVE  payment'[p] = payment[p]
    BY <1>1, <1>2, InsertTyped
  <1>3. ASSUME NEW m \in Managers, WriteStatus(m)
        PROVE  \E s \in PaymentStatus : payment'[p].trail = Append(payment[p].trail, s)
    <2>1. PICK q \in PaymentIds : q = change[m].payment
      BY <1>3 DEF WriteStatus, TypeOK, Existing
    <2>2. /\ payment'[q] = Written(m, payment[q])
          /\ \A r \in PaymentIds : r # q => payment'[r] = payment[r]
          /\ raced' = IF payment[q] # change[m].seen THEN raced \cup {q} ELSE raced
      BY <1>3, <2>1, WriteTyped
    <2>3. p = q /\ change[m].seen = payment[p]
      BY <1>1, <2>2
    <2>4. payment'[p].trail = Append(payment[p].trail, change[m].to)
      BY <2>2, <2>3 DEF Written
    <2>5. change[m].to \in PaymentStatus
      BY DEF TypeOK, Change
    <2> QED
      BY <2>4, <2>5
  <1>4. ASSUME UNCHANGED payment PROVE FALSE
    BY <1>4
  <1>5. CASE \E c \in Calculations :
               \/ \E q \in PaymentIds : CalculatePaymentInternal(c, q) \/ InsertUnheard(c, q)
                                        \/ GhostInserts(c, q)
    BY <1>2, <1>5 DEF CalculatePaymentInternal, InsertUnheard, GhostInserts
  <1>6. CASE \E m \in Managers : WriteStatus(m)
    BY <1>3, <1>6
  <1>7. CASE \/ \E c \in Calculations : CalculatePayment(c) \/ Take(c) \/ Complete(c)
                                        \/ LoseLock(c) \/ Stall(c)
             \/ \E m \in Managers : WriteFails(m) \/ \E q \in PaymentIds, to \in PaymentStatus :
                                                       FindPayment(m, q, to)
             \/ UNCHANGED vars
    BY <1>4, <1>7 DEF CalculatePayment, Take, Complete, LoseLock, Stall, WriteFails,
                      FindPayment, calculation, vars
  <1> QED
    BY <1>5, <1>6, <1>7 DEF Next, Work
-----------------------------------------------------------------------------
(* How many payments a calculation makes.                                  *)

CanMake(c) == IF job[c].pc \in {"none", "queued", "running"} THEN 1 ELSE 0

Allowed(c) == IF job[c].stalls = 0 THEN 1 ELSE 2

\* The payments of a calculation, the ghosts that will make one and the run that may.
Counted(c) ==
  /\ IsFiniteSet(Made(c))
  /\ Cardinality(Made(c)) + ghosts[c] + CanMake(c) <= Allowed(c)

\* The answer of a job is a payment of its own; without failures it is the only one.
Answered(c) ==
  /\ job[c].made # None => job[c].made \in Made(c)
  /\ job[c].pc \in {"none", "queued", "running"} => job[c].made = None
  /\ c \notin struck => /\ ghosts[c] = 0 /\ job[c].pc # "stalled" /\ job[c].stalls = 0
                        /\ Made(c) = {job[c].made} \ {None}

Jobs == \A c \in Calculations : Counted(c) /\ Answered(c)

JobsInv == RowsInv /\ Jobs

LEMMA JobsInit == Init => Jobs
  <1> SUFFICES ASSUME Init, NEW c \in Calculations PROVE Counted(c) /\ Answered(c)
    BY DEF Jobs
  <1>1. Made(c) = {}
    BY DEF Init, Made
  <1>2. job[c] = [pc |-> "none", made |-> None, stalls |-> 0] /\ ghosts[c] = 0
    BY DEF Init
  <1>3. CanMake(c) = 1 /\ Allowed(c) = 1
    BY <1>2 DEF CanMake, Allowed
  <1>4. Counted(c)
    BY <1>1, <1>2, <1>3, FS_EmptySet DEF Counted
  <1>5. Answered(c)
    BY <1>1, <1>2 DEF Answered
  <1> QED
    BY <1>4, <1>5

\* Jobs says nothing of a calculation that a step leaves alone.
LEMMA JobsOther ==
  ASSUME NEW d \in Calculations, Counted(d), Answered(d), Made(d)' = Made(d),
         job'[d] = job[d], ghosts'[d] = ghosts[d], d \in struck <=> d \in struck'
  PROVE  Counted(d)' /\ Answered(d)'
  <1>1. CanMake(d)' = CanMake(d) /\ Allowed(d)' = Allowed(d)
    BY DEF CanMake, Allowed
  <1>2. Counted(d)'
    BY <1>1 DEF Counted
  <1>3. Answered(d)'
    BY DEF Answered
  <1> QED
    BY <1>2, <1>3

\* An insert gives its calculation one payment more.
LEMMA MadeGrows ==
  ASSUME TypeOK, NEW c \in Calculations, NEW p \in PaymentIds, Insert(c, p), Counted(c)
  PROVE  /\ Made(c)' = Made(c) \cup {p} /\ p \notin Made(c)
         /\ IsFiniteSet(Made(c)') /\ Cardinality(Made(c)') = Cardinality(Made(c)) + 1
         /\ Cardinality(Made(c)) \in Nat
         /\ \A d \in Calculations : d # c => Made(d)' = Made(d)
  <1>1. /\ origin'[p] = c /\ origin[p] = None
        /\ \A q \in PaymentIds : q # p => origin'[q] = origin[q]
    BY InsertTyped DEF Insert
  <1>2. Made(c)' = Made(c) \cup {p} /\ p \notin Made(c)
    BY <1>1 DEF Made
  <1>3. \A d \in Calculations : d # c => Made(d)' = Made(d)
    BY <1>1 DEF Made
  <1>4. IsFiniteSet(Made(c)) /\ Cardinality(Made(c)) \in Nat
    BY FS_CardinalityType DEF Counted
  <1>5. IsFiniteSet(Made(c) \cup {p})
        /\ Cardinality(Made(c) \cup {p}) = Cardinality(Made(c)) + 1
    BY <1>2, <1>4, FS_AddElement
  <1> QED
    BY <1>2, <1>3, <1>4, <1>5

\* The insert of a run, or of a ghost.
LEMMA JobsMake ==
  ASSUME TypeOK, Jobs, NEW c \in Calculations, NEW p \in PaymentIds,
         CalculatePaymentInternal(c, p) \/ InsertUnheard(c, p) \/ GhostInserts(c, p)
  PROVE  Jobs'
  <1>1. /\ Made(c)' = Made(c) \cup {p} /\ p \notin Made(c)
        /\ IsFiniteSet(Made(c)') /\ Cardinality(Made(c)') = Cardinality(Made(c)) + 1
        /\ Cardinality(Made(c)) \in Nat
        /\ \A d \in Calculations : d # c => Made(d)' = Made(d)
    BY MakeTyped, MadeGrows DEF Jobs
  <1>2. Counted(c) /\ Answered(c) /\ job[c] \in Job /\ ghosts[c] \in Nat
    BY DEF Jobs, TypeOK
  <1>3. \A d \in Calculations : d # c => /\ job'[d] = job[d] /\ ghosts'[d] = ghosts[d]
                                         /\ d \in struck <=> d \in struck'
    BY DEF CalculatePaymentInternal, InsertUnheard, GhostInserts, JobBecomes, TypeOK
  <1>4. CASE CalculatePaymentInternal(c, p)
    <2>1. /\ job'[c] = [job[c] EXCEPT !.pc = "created", !.made = p] /\ job[c].pc = "running"
          /\ ghosts' = ghosts /\ struck' = struck
      BY <1>4 DEF CalculatePaymentInternal, JobBecomes, TypeOK
    <2>2. CanMake(c) = 1 /\ CanMake(c)' = 0 /\ Allowed(c)' = Allowed(c) /\ Allowed(c) \in {1, 2}
      BY <1>2, <2>1 DEF CanMake, Allowed, Job
    <2>3. Counted(c)'
      BY <1>1, <1>2, <2>1, <2>2 DEF Counted
    <2>4. Answered(c)'
      BY <1>1, <1>2, <2>1 DEF Answered, Job
    <2> QED
      BY <1>1, <1>3, <2>3, <2>4, JobsOther DEF Jobs
  <1>5. CASE InsertUnheard(c, p)
    <2>1. /\ job'[c] = [job[c] EXCEPT !.pc = "done"] /\ job[c].pc = "running"
          /\ ghosts' = ghosts /\ c \in struck'
      BY <1>5 DEF InsertUnheard, JobBecomes, TypeOK
    <2>2. CanMake(c) = 1 /\ CanMake(c)' = 0 /\ Allowed(c)' = Allowed(c) /\ Allowed(c) \in {1, 2}
      BY <1>2, <2>1 DEF CanMake, Allowed, Job
    <2>3. Counted(c)'
      BY <1>1, <1>2, <2>1, <2>2 DEF Counted
    <2>4. Answered(c)'
      BY <1>1, <1>2, <2>1 DEF Answered, Job
    <2> QED
      BY <1>1, <1>3, <2>3, <2>4, JobsOther DEF Jobs
  <1>6. CASE GhostInserts(c, p)
    <2>1. /\ job'[c] = job[c] /\ ghosts[c] > 0 /\ ghosts'[c] = ghosts[c] - 1
          /\ struck' = struck
      BY <1>6 DEF GhostInserts, TypeOK
    <2>2. CanMake(c)' = CanMake(c) /\ Allowed(c)' = Allowed(c)
          /\ CanMake(c) \in {0, 1} /\ Allowed(c) \in {1, 2}
      BY <2>1 DEF CanMake, Allowed
    <2>3. Counted(c)'
      BY <1>1, <1>2, <2>1, <2>2 DEF Counted
    <2>4. Answered(c)'
      BY <1>1, <1>2, <2>1 DEF Answered, Job
    <2> QED
      BY <1>1, <1>3, <2>3, <2>4, JobsOther DEF Jobs
  <1> QED
    BY <1>4, <1>5, <1>6
\* The steps of a run that make no payment.
LEMMA JobsWork ==
  ASSUME TypeOK, Jobs, NEW c \in Calculations,
         CalculatePayment(c) \/ Take(c) \/ Complete(c) \/ LoseLock(c) \/ Stall(c)
  PROVE  Jobs'
  <1>1. \A d \in Calculations : Made(d)' = Made(d)
    BY DEF CalculatePayment, Take, Complete, LoseLock, Stall, Made
  <1>2. \A d \in Calculations : d # c => /\ job'[d] = job[d] /\ ghosts'[d] = ghosts[d]
                                         /\ d \in struck <=> d \in struck'
    BY DEF CalculatePayment, Take, Complete, LoseLock, Stall, JobBecomes, TypeOK
  <1>3. /\ Counted(c) /\ Answered(c) /\ job[c] \in Job /\ ghosts[c] \in Nat
        /\ job[c].pc # "done" => job[c].stalls <= 1
    BY DEF Jobs, TypeOK
  <1>4. Cardinality(Made(c)) \in Nat
    BY <1>3, FS_CardinalityType DEF Counted
  <1>5. CanMake(c) \in {0, 1} /\ Allowed(c) \in {1, 2}
    BY DEF CanMake, Allowed
  <1>6. ASSUME Counted(c)', Answered(c)' PROVE Jobs'
    BY <1>1, <1>2, <1>6, JobsOther DEF Jobs
  <1>7. CASE CalculatePayment(c) \/ Take(c)
    <2>1. PICK s \in {"queued", "running"} : job'[c] = [job[c] EXCEPT !.pc = s]
      BY <1>7 DEF CalculatePayment, Take, JobBecomes, TypeOK
    <2>2. job[c].pc \in {"none", "queued"} /\ ghosts' = ghosts /\ struck' = struck
      BY <1>7 DEF CalculatePayment, Take
    <2>3. CanMake(c)' = 1 /\ CanMake(c) = 1 /\ Allowed(c)' = Allowed(c)
      BY <1>3, <2>1, <2>2 DEF CanMake, Allowed, Job
    <2>4. Counted(c)'
      BY <1>1, <1>3, <2>2, <2>3 DEF Counted
    <2>5. Answered(c)'
      BY <1>1, <1>3, <2>1, <2>2 DEF Answered, Job
    <2> QED
      BY <1>6, <2>4, <2>5
  <1>8. CASE Complete(c)
    <2>1. /\ job'[c] = [job[c] EXCEPT !.pc = "done"] /\ job[c].pc \in {"running", "created"}
          /\ ghosts' = ghosts /\ struck' = struck
      BY <1>8 DEF Complete, JobBecomes, TypeOK
    <2>2. CanMake(c)' = 0 /\ Allowed(c)' = Allowed(c)
      BY <1>3, <2>1 DEF CanMake, Allowed, Job
    <2>3. Counted(c)'
      BY <1>1, <1>3, <1>4, <1>5, <2>1, <2>2 DEF Counted
    <2>4. Answered(c)'
      BY <1>1, <1>3, <2>1 DEF Answered, Job
    <2> QED
      BY <1>6, <2>3, <2>4
  <1>9. CASE LoseLock(c)
    <2>1. /\ job'[c] = [job[c] EXCEPT !.pc = "stalled"]
          /\ job[c].pc \in {"running", "created"} /\ c \in struck'
          /\ \/ ghosts'[c] = ghosts[c]
             \/ job[c].pc = "running" /\ ghosts'[c] = ghosts[c] + 1
      <3>1. job' = [job EXCEPT ![c] = [job[c] EXCEPT !.pc = "stalled"]]
            /\ job[c].pc \in {"running", "created"} /\ c \in struck'
        BY <1>9 DEF LoseLock, JobBecomes
      <3>2. \/ ghosts' = ghosts
            \/ job[c].pc = "running" /\ ghosts' = [ghosts EXCEPT ![c] = ghosts[c] + 1]
        BY <1>9 DEF LoseLock
      <3> QED
        BY <3>1, <3>2 DEF TypeOK
    <2>2. CanMake(c)' = 0 /\ Allowed(c)' = Allowed(c) /\ (job[c].pc = "running" => CanMake(c) = 1)
      BY <1>3, <2>1 DEF CanMake, Allowed, Job
    <2>3. Counted(c)'
      BY <1>1, <1>3, <1>4, <1>5, <2>1, <2>2 DEF Counted
    <2>4. Answered(c)'
      BY <1>1, <1>3, <2>1 DEF Answered, Job
    <2> QED
      BY <1>6, <2>3, <2>4
  <1>10. CASE Stall(c)
    <2>1. /\ job'[c] = [job[c] EXCEPT !.stalls = job[c].stalls + 1, !.made = None,
                                      !.pc = IF job[c].stalls = 0 THEN "queued" ELSE "done"]
          /\ job[c].pc = "stalled" /\ ghosts' = ghosts /\ struck' = struck
      BY <1>10 DEF Stall, JobBecomes, TypeOK
    <2>2. job[c].stalls \in {0, 1}
      BY <1>3, <2>1 DEF Job
    <2>3. CanMake(c) = 0 /\ CanMake(c)' = (IF job[c].stalls = 0 THEN 1 ELSE 0)
          /\ Allowed(c) = (IF job[c].stalls = 0 THEN 1 ELSE 2) /\ Allowed(c)' = 2
      BY <1>3, <2>1, <2>2 DEF CanMake, Allowed, Job
    <2>4. Counted(c)'
      BY <1>1, <1>3, <1>4, <2>1, <2>2, <2>3 DEF Counted
    <2>5. Answered(c)'
      BY <1>1, <1>3, <2>1 DEF Answered, Job
    <2> QED
      BY <1>6, <2>4, <2>5
  <1> QED
    BY <1>7, <1>8, <1>9, <1>10

LEMMA JobsStep == JobsInv /\ [Next]_vars => JobsInv'
  <1> SUFFICES ASSUME TypeOK, Jobs, [Next]_vars PROVE Jobs'
    BY RowsStep DEF JobsInv, RowsInv
  <1>1. ASSUME NEW c \in Calculations,
               CalculatePayment(c) \/ Take(c) \/ Complete(c) \/ LoseLock(c) \/ Stall(c)
        PROVE  Jobs'
    BY <1>1, JobsWork
  <1>2. ASSUME NEW c \in Calculations, NEW p \in PaymentIds,
               CalculatePaymentInternal(c, p) \/ InsertUnheard(c, p) \/ GhostInserts(c, p)
        PROVE  Jobs'
    BY <1>2, JobsMake
  <1>3. CASE UNCHANGED << origin, job, ghosts, struck >>
    <2>1. \A d \in Calculations : Made(d)' = Made(d)
      BY <1>3 DEF Made
    <2> QED
      BY <1>3, <2>1, JobsOther DEF Jobs
  <1>4. CASE \E m \in Managers :
               \/ \E p \in PaymentIds, to \in PaymentStatus : FindPayment(m, p, to)
               \/ WriteStatus(m)
               \/ WriteFails(m)
    BY <1>3, <1>4 DEF FindPayment, WriteStatus, WriteFails, calculation
  <1>5. CASE UNCHANGED vars
    BY <1>3, <1>5 DEF vars
  <1> QED
    BY <1>1, <1>2, <1>4, <1>5 DEF Next, Work
-----------------------------------------------------------------------------
(* Theorems.                                                               *)

LEMMA JobsGive == JobsInv => OnePaymentEach
  <1> SUFFICES ASSUME TypeOK, Jobs, NEW c \in Calculations
               PROVE  /\ c \notin struck => Made(c) = {job[c].made} \ {None}
                      /\ job[c].made # None => job[c].made \in Made(c)
                      /\ Cardinality(Made(c)) <= 2
    BY DEF JobsInv, RowsInv, OnePaymentEach
  <1>1. Counted(c) /\ Answered(c)
    BY DEF Jobs
  <1>2. Cardinality(Made(c)) \in Nat
    BY <1>1, FS_CardinalityType DEF Counted
  <1>3. ghosts[c] \in Nat /\ CanMake(c) \in {0, 1} /\ Allowed(c) \in {1, 2}
    BY DEF TypeOK, CanMake, Allowed
  <1>4. Cardinality(Made(c)) <= 2
    BY <1>1, <1>2, <1>3 DEF Counted
  <1> QED
    BY <1>1, <1>4 DEF Answered

\* The rows stay honest and typed, whatever requests, workers and failures do.
THEOREM RowsCorrect == Spec => []RowsInv
  <1>1. Init => RowsInv
    BY TypeInit, RowsInit DEF RowsInv
  <1> QED
    BY <1>1, RowsStep, PTL DEF Spec

\* Payments, jobs and changes keep their types; a change that is in flight is of a
\* payment that exists, and a job stalls once unless it is over.
THEOREM TypeCorrect == Spec => []TypeOK
  <1>1. RowsInv => TypeOK
    BY DEF RowsInv
  <1> QED
    BY <1>1, RowsCorrect, PTL

\* However status changes overtake one another, the trail of a payment is a legal story
\* that ends in its status.
THEOREM TrailCorrect == Spec => []TrailTellsStatus
  BY RowsCorrect, RowsGive, PTL

\* Every status told of has its stamp, and without an overtaken change only those.
THEOREM StampsCorrect == Spec => []StampsTold
  BY RowsCorrect, RowsGive, PTL

\* A payment that no overtaken change has written is paid at most once.
THEOREM PaidCorrect == Spec => []PaidOnce
  BY RowsCorrect, RowsGive, PTL

\* All three together: status, trail, stamps and payouts tell the same story.
THEOREM RecordsCorrect == Spec => []RecordsTrue
  BY RowsCorrect, RowsGive, PTL DEF RecordsTrue

\* A change that was not overtaken adds to the trail and takes nothing from it.
THEOREM GrowsCorrect == Spec => TrailGrows
  BY RowsCorrect, TrailStep, PTL DEF Spec, TrailGrows

\* A calculation without failures makes just the payment it answers with, and with any
\* number of failures at most two.
THEOREM PaymentsCorrect == Spec => []OnePaymentEach
  <1>1. Init => JobsInv
    BY TypeInit, RowsInit, JobsInit DEF JobsInv, RowsInv
  <1> QED
    BY <1>1, JobsStep, JobsGive, PTL DEF Spec

-----------------------------------------------------------------------------
(* The list in the browser.                                                *)

\* What is under way or cached under k is not behind h, what the page has heard of, unless
\* it is marked; the entry of a payment is about that payment.
Sound(k, q, h) ==
  /\ q.phase = "read" /\ ~q.overtaken =>
       \A p \in Watched : q.answer[p] # None => q.answer[p].age >= h[p]
  /\ q.data # NoData /\ ~q.late /\ (k \in Filters => ~q.invalid) =>
       \A p \in Watched : q.data[p] # None => q.data[p].age >= h[p]
  /\ k \in Watched => \A p \in Watched \ {k} :
                        /\ q.data # NoData => q.data[p] = None
                        /\ q.phase = "read" => q.answer[p] = None

\* A list on screen, under the filter of v, is being loaded or has failed if it is invalid.
Rested(k, v, q) ==
  k \in Filters /\ v.open /\ v.filter = k /\ q.invalid /\ q.phase = "idle" => q.failed

Whole(q) == q \in Entry /\ (q.phase = "read" => q.answer \in Data)

Cached ==
  /\ query \in [Pages -> [Keys -> Entry]]
  /\ \A m \in Pages, k \in Keys :
       /\ Whole(query[m][k]) /\ Sound(k, query[m][k], heard[m])
       /\ Rested(k, view[m], query[m][k])

\* Pages, and the changes they have sent.
Booked ==
  /\ view \in [Pages -> [open : BOOLEAN, filter : Filters, selected : Watched \cup {None}]]
  /\ sent \in [Pages -> [phase : {"idle", "asked", "done"}, payment : Watched \cup {None},
                         to : PaymentStatus, row : Shown \cup {None}]]
  /\ writes \in [PaymentIds -> Nat]
  /\ heard \in [Pages -> [Watched -> Nat]]
  /\ acts \in Nat
  /\ \A m \in Pages :
       /\ sent[m].phase # "idle" => sent[m].payment \in Watched
       /\ sent[m].phase = "done" => sent[m].row \in Shown
                                    /\ sent[m].row.age <= writes[sent[m].payment]
       /\ change[m].pc = "write" => change[m].payment = sent[m].payment /\ sent[m].phase = "asked"
       /\ \A p \in Watched : heard[m][p] <= writes[p]

PageInv == TypeOK /\ Booked /\ Cached

\* Entries.
LEMMA AskSound ==
  ASSUME NEW q, Whole(q), NEW k, NEW h, Sound(k, q, h)
  PROVE  Whole(Ask(q)) /\ Sound(k, Ask(q), h) /\ Ask(q).phase = "asked"
  BY DEF Whole, Sound, Ask, Entry

LEMMA AgainSound ==
  ASSUME NEW q, Whole(q), NEW k, NEW h, Sound(k, q, h)
  PROVE  Whole(Again(q)) /\ Sound(k, Again(q), h) /\ Again(q).phase # "idle"
  BY AskSound DEF Again, Ask

LEMMA MountedSound ==
  ASSUME NEW q, Whole(q), NEW k, NEW h, Sound(k, q, h), NEW r \in Mounted(q)
  PROVE  Whole(r) /\ Sound(k, r, h) /\ (r.phase = "idle" => ~r.invalid)
  <1>1. CASE q.phase # "idle"
    BY <1>1 DEF Mounted
  <1>2. CASE q.phase = "idle" /\ r = Ask(q)
    BY <1>2, AskSound DEF Mounted
  <1>3. CASE q.phase = "idle" /\ r = q /\ ~q.invalid
    BY <1>3
  <1> QED BY <1>1, <1>2, <1>3 DEF Mounted

\* The server's answer has heard of everything that was written.
LEMMA ViewSound ==
  ASSUME TypeOK, Booked, NEW m \in Pages, NEW k \in Keys
  PROVE  /\ ServerView(k) \in Data
         /\ \A p \in Watched : ServerView(k)[p] # None => ServerView(k)[p].age >= heard[m][p]
         /\ k \in Watched => \A p \in Watched \ {k} : ServerView(k)[p] = None
  <1>1. \A p \in Watched : Snapshot(p) \in Shown /\ Snapshot(p).age = writes[p]
    <2> SUFFICES ASSUME NEW p \in Watched PROVE Snapshot(p) \in Shown /\ Snapshot(p).age = writes[p]
      OBVIOUS
    <2>1. p \in PaymentIds
      BY LedgerAssumption
    <2>2. payment[p].status \in PaymentStatus /\ writes[p] \in Nat
      BY <2>1 DEF TypeOK, Payment, Booked
    <2> QED BY <2>2 DEF Snapshot, Shown
  <1>2. k \in Watched => k \notin Filters
    BY LedgerAssumption
  <1>3. ASSUME NEW p \in Watched
        PROVE  /\ ServerView(k)[p] \in {Snapshot(p), None}
               /\ k \in Watched /\ p # k => ServerView(k)[p] = None
    BY <1>2 DEF ServerView
  <1>4. \A p \in Watched : heard[m][p] <= writes[p] /\ heard[m][p] \in Nat /\ writes[p] \in Nat
    BY LedgerAssumption DEF Booked
  <1>5. ServerView(k) \in Data
    BY <1>1, <1>3 DEF ServerView, Data
  <1>6. ASSUME NEW p \in Watched, ServerView(k)[p] # None
        PROVE  ServerView(k)[p].age >= heard[m][p]
    BY <1>1, <1>3, <1>4, <1>6
  <1> QED BY <1>3, <1>5, <1>6

\* One entry of one page becomes r, nothing else of the pages moves but that page's view.
LEMMA OneEntry ==
  ASSUME Cached, NEW m \in Pages, NEW k \in Keys, NEW r,
         query' = [query EXCEPT ![m][k] = r], heard' = heard,
         Whole(r), Sound(k, r, heard[m]), Rested(k, view'[m], r),
         \A n \in Pages \ {m} : view'[n] = view[n],
         \A j \in Keys \ {k} : Rested(j, view'[m], query[m][j])
  PROVE  Cached'
  <1>1. \A n \in Pages, j \in Keys :
          query'[n][j] = IF n = m /\ j = k THEN r ELSE query[n][j]
    BY DEF Cached
  <1>2. query' \in [Pages -> [Keys -> Entry]]
    BY DEF Cached, Whole
  <1>3. ASSUME NEW n \in Pages, NEW j \in Keys
        PROVE  /\ Whole(query'[n][j]) /\ Sound(j, query'[n][j], heard[n])
               /\ Rested(j, view'[n], query'[n][j])
    BY <1>1 DEF Cached
  <1> QED BY <1>2, <1>3 DEF Cached

\* A step that leaves the caches and what was heard alone.
LEMMA SameCache ==
  ASSUME Cached, UNCHANGED << query, heard >>,
         \A m \in Pages : view'[m].open = view[m].open /\ view'[m].filter = view[m].filter
  PROVE  Cached'
  BY DEF Cached, Rested

\* A list is on screen under the filter, a payment when it is selected.
LEMMA OnScreenList ==
  ASSUME Booked, NEW m \in Pages, NEW k \in Filters
  PROVE  OnScreen(m, k) <=> view[m].open /\ view[m].filter = k
  BY LedgerAssumption DEF OnScreen, Booked

\* A page comes to show entry k.
LEMMA ShowStep ==
  ASSUME PageInv, NEW m \in Pages, NEW v, NEW k \in Keys, Show(m, v, k),
         v \in [open : BOOLEAN, filter : Filters, selected : Watched \cup {None}],
         k = v.filter \/ (v.open = view[m].open /\ v.filter = view[m].filter)
  PROVE  Cached' /\ view' \in [Pages -> [open : BOOLEAN, filter : Filters, selected : Watched \cup {None}]]
  <1>1. PICK r \in Mounted(query[m][k]) : query' = [query EXCEPT ![m][k] = r]
    BY DEF Show
  <1>2. Whole(query[m][k]) /\ Sound(k, query[m][k], heard[m])
    BY DEF PageInv, Cached
  <1>3. Whole(r) /\ Sound(k, r, heard[m]) /\ (r.phase = "idle" => ~r.invalid)
    BY <1>1, <1>2, MountedSound
  <1>4. /\ view' = [view EXCEPT ![m] = v] /\ heard' = heard
        /\ view'[m] = v /\ \A n \in Pages \ {m} : view'[n] = view[n]
    BY DEF Show, PageInv, Booked
  <1>5. Rested(k, view'[m], r)
    BY <1>3 DEF Rested
  <1>6. \A j \in Keys \ {k} : Rested(j, view'[m], query[m][j])
    BY <1>4 DEF PageInv, Cached, Rested
  <1>7. Cached'
    BY <1>1, <1>3, <1>4, <1>5, <1>6, OneEntry DEF PageInv
  <1> QED BY <1>4, <1>7 DEF PageInv, Booked

\* An entry of a page becomes r while it is loaded.
LEMMA QueryStep ==
  ASSUME PageInv, NEW m \in Pages, NEW k \in Keys, NEW r, QueryOnly(m, k, r),
         Whole(r), Sound(k, r, heard[m]), Rested(k, view[m], r)
  PROVE  Cached'
  <1>1. query' = [query EXCEPT ![m][k] = r] /\ view' = view /\ heard' = heard
    BY DEF QueryOnly
  <1>2. \A j \in Keys \ {k} : Rested(j, view'[m], query[m][j])
    BY <1>1 DEF PageInv, Cached
  <1> QED BY <1>1, <1>2, OneEntry DEF PageInv

\* The books of a step that changes nothing on the server and no change sent.
LEMMA BooksStay ==
  ASSUME Booked, ServerUnchanged, UNCHANGED << sent, heard >>, acts' \in Nat,
         view' \in [Pages -> [open : BOOLEAN, filter : Filters, selected : Watched \cup {None}]]
  PROVE  Booked'
  BY DEF Booked, ServerUnchanged, vars

LEMMA ServerType ==
  ASSUME TypeOK, ServerUnchanged
  PROVE  TypeOK'
  BY DEF TypeOK, ServerUnchanged, vars, Existing

LEMMA ActsCount ==
  ASSUME Booked, Act \/ UNCHANGED acts
  PROVE  acts' \in Nat
  BY DEF Booked, Act

\* What a manager does on the page, and loads.
LEMMA ViewSteps ==
  ASSUME PageInv, NEW m \in Pages,
         \/ OpenPage(m)
         \/ \E f \in Filters : SetStatusFilter(m, f)
         \/ \E p \in Watched : SelectPayment(m, p)
  PROVE  PageInv'
  <1> USE DEF PageInv
  <1> DEFINE V == [open : BOOLEAN, filter : Filters, selected : Watched \cup {None}]
  <1>1. view[m] \in V /\ view[m].filter \in Keys
    BY DEF Booked, Keys
  <1>2. Cached' /\ view' \in [Pages -> V] /\ ServerUnchanged /\ UNCHANGED << sent, heard >>
    <2>1. CASE OpenPage(m)
      <3> DEFINE v == [view[m] EXCEPT !.open = TRUE]
      <3>1. v \in V /\ v.filter = view[m].filter
        BY <1>1
      <3>2. Show(m, v, view[m].filter)
        BY <2>1 DEF OpenPage
      <3> HIDE DEF v
      <3> QED BY <1>1, <3>1, <3>2, ShowStep DEF Show
    <2>2. CASE \E f \in Filters : SetStatusFilter(m, f)
      <3>1. PICK f \in Filters : Show(m, [view[m] EXCEPT !.filter = f], f)
        BY <2>2 DEF SetStatusFilter
      <3> DEFINE v == [view[m] EXCEPT !.filter = f]
      <3>2. v \in V /\ v.filter = f /\ f \in Keys
        BY <1>1 DEF Keys
      <3>3. Show(m, v, f)
        BY <3>1
      <3> HIDE DEF v
      <3> QED BY <3>2, <3>3, ShowStep DEF Show
    <2>3. CASE \E p \in Watched : SelectPayment(m, p)
      <3>1. PICK p \in Watched : Show(m, [view[m] EXCEPT !.selected = p], p)
        BY <2>3 DEF SelectPayment
      <3> DEFINE v == [view[m] EXCEPT !.selected = p]
      <3>2. v \in V /\ v.open = view[m].open /\ v.filter = view[m].filter /\ p \in Keys
        BY <1>1 DEF Keys
      <3>3. Show(m, v, p)
        BY <3>1
      <3> HIDE DEF v
      <3> QED BY <3>2, <3>3, ShowStep DEF Show
    <2> QED BY <2>1, <2>2, <2>3
  <1>3. acts' \in Nat
    BY ActsCount DEF OpenPage, SetStatusFilter, SelectPayment
  <1> QED BY <1>2, <1>3, BooksStay, ServerType

LEMMA CloseStep ==
  ASSUME PageInv, NEW m \in Pages, ClosePanel(m)
  PROVE  PageInv'
  <1> USE DEF PageInv
  <1> DEFINE V == [open : BOOLEAN, filter : Filters, selected : Watched \cup {None}]
  <1> DEFINE v == [view[m] EXCEPT !.selected = None]
  <1>1. /\ view' = [view EXCEPT ![m] = v]
        /\ ServerUnchanged /\ UNCHANGED << query, sent, heard >> /\ Act
    BY DEF ClosePanel
  <1>2. view \in [Pages -> V] /\ v \in V /\ v.open = view[m].open /\ v.filter = view[m].filter
    <2>1. view \in [Pages -> V] /\ view[m] \in V
      BY DEF Booked
    <2> QED BY <2>1
  <1> HIDE DEF v, V
  <1>3. /\ view' \in [Pages -> V]
        /\ \A n \in Pages : view'[n].open = view[n].open /\ view'[n].filter = view[n].filter
    BY <1>1, <1>2
  <1>4. Cached'
    BY <1>1, <1>3, SameCache
  <1> QED BY <1>1, <1>3, <1>4, ActsCount, BooksStay, ServerType DEF V

LEMMA LoadSteps ==
  ASSUME PageInv, NEW m \in Pages, NEW k \in Keys,
         \/ Refresh(m) /\ k = view[m].filter
         \/ Focus(m, k) \/ ReadAnswer(m, k) \/ TakeAnswer(m, k) \/ FailAnswer(m, k)
         \/ Collect(m, k)
  PROVE  PageInv'
  <1> USE DEF PageInv
  <1> DEFINE q == query[m][k]
  <1>1. Whole(q) /\ Sound(k, q, heard[m]) /\ Rested(k, view[m], q)
    BY DEF Cached
  <1>2. PICK r : QueryOnly(m, k, r) /\ Whole(r) /\ Sound(k, r, heard[m]) /\ Rested(k, view[m], r)
    <2> HIDE DEF PageInv
    <2>1. CASE Refresh(m) /\ k = view[m].filter
      <3>1. QueryOnly(m, k, Again(q))
        BY <2>1 DEF Refresh
      <3> QED BY <1>1, <3>1, AgainSound DEF Rested
    <2>2. CASE Focus(m, k)
      <3>1. QueryOnly(m, k, Ask(q))
        BY <2>2 DEF Focus
      <3> QED BY <1>1, <3>1, AskSound DEF Rested
    <2>3. CASE ReadAnswer(m, k)
      <3> DEFINE r == [q EXCEPT !.phase = "read", !.answer = ServerView(k)]
      <3>1. QueryOnly(m, k, r)
        BY <2>3 DEF ReadAnswer
      <3>2. /\ ServerView(k) \in Data
            /\ \A p \in Watched : ServerView(k)[p] # None => ServerView(k)[p].age >= heard[m][p]
            /\ k \in Watched => \A p \in Watched \ {k} : ServerView(k)[p] = None
        BY ViewSound DEF PageInv
      <3>3. Whole(r)
        BY <1>1, <3>2 DEF Whole, Entry
      <3>4. Sound(k, r, heard[m])
        BY <1>1, <3>2 DEF Sound, Whole, Entry
      <3>5. Rested(k, view[m], r)
        BY <1>1 DEF Rested, Whole, Entry
      <3> QED BY <3>1, <3>3, <3>4, <3>5
    <2>4. CASE TakeAnswer(m, k)
      <3> DEFINE r == [SetData(q, q.answer) EXCEPT
                         !.phase = "idle", !.answer = NoData,
                         !.late = q.overtaken, !.overtaken = FALSE]
      <3>1. QueryOnly(m, k, r) /\ q.phase = "read"
        BY <2>4 DEF TakeAnswer
      <3>2. Whole(r)
        BY <1>1, <3>1 DEF Whole, Entry, SetData
      <3>3. Sound(k, r, heard[m])
        BY <1>1, <3>1 DEF Sound, Whole, Entry, SetData
      <3>4. Rested(k, view[m], r)
        BY <1>1 DEF Rested, Whole, Entry, SetData
      <3> QED BY <3>1, <3>2, <3>3, <3>4
    <2>5. CASE FailAnswer(m, k)
      <3> DEFINE r == [q EXCEPT !.phase = "idle", !.answer = NoData, !.failed = TRUE,
                                !.overtaken = FALSE]
      <3>1. QueryOnly(m, k, r)
        BY <2>5 DEF FailAnswer
      <3>2. Whole(r) /\ Sound(k, r, heard[m]) /\ Rested(k, view[m], r)
        BY <1>1 DEF Whole, Entry, Sound, Rested
      <3> QED BY <3>1, <3>2
    <2>6. CASE Collect(m, k)
      <3>1. QueryOnly(m, k, Entry0)
        BY <2>6 DEF Collect
      <3>2. Whole(Entry0) /\ Sound(k, Entry0, heard[m]) /\ Rested(k, view[m], Entry0)
        BY DEF Whole, Entry, Entry0, Sound, Rested
      <3> QED BY <3>1, <3>2
    <2> QED BY <2>1, <2>2, <2>3, <2>4, <2>5, <2>6
  <1>3. ServerUnchanged /\ UNCHANGED << view, sent, heard >>
    BY <1>2 DEF QueryOnly
  <1>4. Cached'
    BY <1>2, QueryStep
  <1>5. Act \/ UNCHANGED acts
    BY DEF Refresh, Focus, ReadAnswer, TakeAnswer, FailAnswer, Collect
  <1>6. view' \in [Pages -> [open : BOOLEAN, filter : Filters, selected : Watched \cup {None}]]
    BY <1>3 DEF Booked
  <1> QED BY <1>3, <1>4, <1>5, <1>6, ActsCount, BooksStay, ServerType

\* Changes.  Writes only count up.
LEMMA BooksStep ==
  ASSUME Booked, UNCHANGED << view, heard >>, acts' \in Nat, NEW m \in Pages, NEW r,
         sent' = [sent EXCEPT ![m] = r], \A n \in Pages \ {m} : change'[n] = change[n],
         writes' \in [PaymentIds -> Nat], \A p \in PaymentIds : writes[p] <= writes'[p],
         r \in [phase : {"idle", "asked", "done"}, payment : Watched \cup {None},
                to : PaymentStatus, row : Shown \cup {None}],
         r.phase # "idle" => r.payment \in Watched,
         r.phase = "done" => r.row \in Shown /\ r.row.age <= writes'[r.payment],
         change'[m].pc = "write" => change'[m].payment = r.payment /\ r.phase = "asked"
  PROVE  Booked'
  <1>1. \A n \in Pages : sent'[n] = IF n = m THEN r ELSE sent[n]
    BY DEF Booked
  <1>2. \A p \in Watched : p \in PaymentIds
    BY LedgerAssumption
  <1>3. ASSUME NEW n \in Pages
        PROVE  /\ sent'[n].phase # "idle" => sent'[n].payment \in Watched
               /\ sent'[n].phase = "done" => sent'[n].row \in Shown
                                             /\ sent'[n].row.age <= writes'[sent'[n].payment]
               /\ change'[n].pc = "write" => change'[n].payment = sent'[n].payment
                                             /\ sent'[n].phase = "asked"
    <2>1. CASE n = m
      BY <1>1, <2>1
    <2>2. CASE n # m
      <3>1. sent'[n] = sent[n] /\ change'[n] = change[n]
        BY <1>1, <2>2
      <3>2. sent[n].phase = "done" =>
              sent[n].row \in Shown /\ sent[n].row.age <= writes'[sent[n].payment]
        <4> SUFFICES ASSUME sent[n].phase = "done"
                     PROVE  sent[n].row \in Shown /\ sent[n].row.age <= writes'[sent[n].payment]
          OBVIOUS
        <4>1. sent[n].payment \in Watched /\ sent[n].row \in Shown
              /\ sent[n].row.age <= writes[sent[n].payment]
          BY DEF Booked
        <4>2. sent[n].payment \in PaymentIds /\ sent[n].row.age \in Nat
          BY <1>2, <4>1 DEF Shown
        <4>3. writes[sent[n].payment] \in Nat /\ writes'[sent[n].payment] \in Nat
              /\ writes[sent[n].payment] <= writes'[sent[n].payment]
          BY <4>2 DEF Booked
        <4> QED BY <4>1, <4>2, <4>3
      <3> QED BY <3>1, <3>2 DEF Booked
    <2> QED BY <2>1, <2>2
  <1>4. \A n \in Pages, p \in Watched : heard'[n][p] <= writes'[p]
    <2> SUFFICES ASSUME NEW n \in Pages, NEW p \in Watched PROVE heard[n][p] <= writes'[p]
      OBVIOUS
    <2>1. heard[n][p] <= writes[p] /\ writes[p] <= writes'[p] /\ heard[n][p] \in Nat
          /\ writes[p] \in Nat /\ writes'[p] \in Nat
      BY <1>2 DEF Booked
    <2> QED BY <2>1
  <1>5. sent' \in [Pages -> [phase : {"idle", "asked", "done"}, payment : Watched \cup {None},
                             to : PaymentStatus, row : Shown \cup {None}]]
    BY DEF Booked
  <1> QED BY <1>3, <1>4, <1>5 DEF Booked

LEMMA NoRequestType ==
  NoRequest \in [phase : {"idle", "asked", "done"}, payment : Watched \cup {None},
                 to : PaymentStatus, row : Shown \cup {None}] /\ NoRequest.phase = "idle"
  BY DEF NoRequest, PaymentStatus

LEMMA CountsUp ==
  ASSUME Booked, NEW p \in PaymentIds, Count(p)
  PROVE  /\ writes' \in [PaymentIds -> Nat] /\ writes'[p] \in Nat
         /\ \A x \in PaymentIds : writes[x] <= writes'[x]
  BY DEF Booked, Count

LEMMA ChangeSteps ==
  ASSUME PageInv, TypeOK', NEW m \in Pages,
         \/ \E to \in PaymentStatus : Send(m, to)
         \/ FindSent(m) \/ Refuse(m) \/ WriteSent(m) \/ WriteSentFails(m) \/ LoseAnswer(m)
  PROVE  PageInv'
  <1> USE DEF PageInv
  <1> DEFINE R == [phase : {"idle", "asked", "done"}, payment : Watched \cup {None},
                   to : PaymentStatus, row : Shown \cup {None}]
  <1>1. UNCHANGED << view, query, heard >> /\ (Act \/ UNCHANGED acts)
    BY DEF Send, FindSent, Refuse, WriteSent, WriteSentFails, LoseAnswer, PageUnchanged, client
  <1>2. Cached'
    BY <1>1, SameCache
  <1>3. acts' \in Nat
    BY <1>1, ActsCount
  <1>4. m \in Managers /\ change \in [Managers -> Change] /\ sent[m] \in R
    BY LedgerAssumption DEF TypeOK, Booked
  <1>5. writes \in [PaymentIds -> Nat] /\ \A p \in PaymentIds : writes[p] <= writes[p]
    BY DEF Booked
  <1>6. CASE \E to \in PaymentStatus : Send(m, to)
    <2>1. PICK to \in PaymentStatus : Send(m, to)
      BY <1>6
    <2> DEFINE r == [NoRequest EXCEPT !.phase = "asked", !.to = to, !.payment = view[m].selected]
    <2>2. sent' = [sent EXCEPT ![m] = r] /\ sent[m].phase = "idle" /\ UNCHANGED << change, writes >>
      BY <2>1 DEF Send, ServerUnchanged, vars
    <2>3. view[m].selected \in Watched
      BY <2>1 DEF Send, Selected, Booked
    <2>4. r \in R /\ r.phase = "asked" /\ r.payment \in Watched
      BY <2>3 DEF NoRequest
    <2>5. change'[m].pc # "write"
      BY <2>2 DEF Booked
    <2> HIDE DEF r
    <2> QED BY <1>1, <1>2, <1>3, <1>5, <2>2, <2>4, <2>5, BooksStep
  <1>7. CASE FindSent(m)
    <2>1. /\ FindPayment(m, sent[m].payment, sent[m].to) /\ sent[m].phase = "asked"
          /\ UNCHANGED << sent, writes >>
      BY <1>7 DEF FindSent, client
    <2>2. \A n \in Pages \ {m} : change'[n] = change[n]
      BY <1>4, <2>1, LedgerAssumption DEF FindPayment
    <2>3. change'[m].payment = sent[m].payment
      BY <1>4, <2>1 DEF FindPayment
    <2>4. sent' = [sent EXCEPT ![m] = sent[m]]
      BY <2>1 DEF Booked
    <2>5. sent[m].payment \in Watched
      BY <2>1 DEF Booked
    <2> QED BY <1>1, <1>2, <1>3, <1>4, <1>5, <2>1, <2>2, <2>3, <2>4, <2>5, BooksStep
  <1>8. CASE Refuse(m) \/ LoseAnswer(m)
    <2>1. sent' = [sent EXCEPT ![m] = NoRequest] /\ UNCHANGED << change, writes >>
      BY <1>8 DEF Refuse, LoseAnswer, ServerUnchanged, vars
    <2>2. change'[m].pc # "write"
      BY <1>8, <2>1 DEF Refuse, LoseAnswer, Booked
    <2> QED BY <1>1, <1>2, <1>3, <1>5, <2>1, <2>2, NoRequestType, BooksStep
  <1>9. CASE WriteSentFails(m)
    <2>1. sent' = [sent EXCEPT ![m] = NoRequest] /\ UNCHANGED writes /\ WriteFails(m)
      BY <1>9 DEF WriteSentFails
    <2>2. change'[m].pc # "write" /\ \A n \in Pages \ {m} : change'[n] = change[n]
      BY <1>4, <2>1, LedgerAssumption DEF WriteFails, Idle
    <2> QED BY <1>1, <1>2, <1>3, <1>5, <2>1, <2>2, NoRequestType, BooksStep
  <1>10. CASE WriteSent(m)
    <2> DEFINE p == change[m].payment
               r == [sent[m] EXCEPT !.phase = "done",
                                    !.row = [status |-> payment'[p].status, age |-> writes'[p]]]
    <2>1. /\ WriteStatus(m) /\ Count(p) /\ change[m].pc = "write"
          /\ sent' = [sent EXCEPT ![m].phase = "done",
                        ![m].row = [status |-> payment'[p].status, age |-> writes'[p]]]
      BY <1>10 DEF WriteSent, WriteStatus
    <2>2. p = sent[m].payment /\ p \in Watched /\ p \in PaymentIds
      BY <2>1, LedgerAssumption DEF Booked
    <2>3. /\ writes' \in [PaymentIds -> Nat] /\ writes'[p] \in Nat
          /\ \A x \in PaymentIds : writes[x] <= writes'[x]
      BY <2>1, <2>2, CountsUp
    <2>4. payment'[p].status \in PaymentStatus
      BY <2>2 DEF TypeOK, Payment
    <2>5. sent' = [sent EXCEPT ![m] = r]
      BY <1>4, <2>1 DEF Booked
    <2>6. r \in R /\ r.phase = "done" /\ r.payment = p /\ r.row \in Shown /\ r.row.age = writes'[p]
      BY <1>4, <2>2, <2>3, <2>4 DEF Shown
    <2>7. change'[m].pc # "write" /\ \A n \in Pages \ {m} : change'[n] = change[n]
      BY <1>4, <2>1, LedgerAssumption DEF WriteStatus, Idle
    <2>8. r.row.age <= writes'[r.payment]
      BY <2>3, <2>6
    <2> HIDE DEF r
    <2> QED BY <1>1, <1>2, <1>3, <2>2, <2>3, <2>5, <2>6, <2>7, <2>8, BooksStep
  <1> QED BY <1>6, <1>7, <1>8, <1>9, <1>10

\* The server goes its own way.
LEMMA ServerSteps ==
  ASSUME PageInv, TypeOK',
         \/ \E c \in Calculations : CalculationStep(c)
         \/ \E m \in Managers \ Pages : OtherStep(m)
  PROVE  PageInv'
  <1> USE DEF PageInv
  <1>1. UNCHANGED client
    BY DEF CalculationStep, OtherStep
  <1>2. Cached'
    BY <1>1, SameCache DEF client
  <1>3. /\ \A n \in Pages : change'[n] = change[n]
        /\ writes' \in [PaymentIds -> Nat] /\ \A p \in PaymentIds : writes[p] <= writes'[p]
    <2>1. CASE \E c \in Calculations : CalculationStep(c)
      <3>1. UNCHANGED << change, writes >>
        BY <2>1 DEF CalculationStep, CalculatePayment, Work, Take, CalculatePaymentInternal,
                    Complete, Stall, LoseLock, InsertUnheard, GhostInserts
      <3> QED BY <3>1 DEF Booked
    <2>2. CASE \E m \in Managers \ Pages : OtherStep(m)
      <3>1. PICK m \in Managers \ Pages : OtherStep(m)
        BY <2>2
      <3>2. change \in [Managers -> Change] /\ Pages \subseteq Managers
        BY LedgerAssumption DEF TypeOK
      <3>3. CASE UNCHANGED writes /\ (\/ \E p \in PaymentIds, to \in PaymentStatus : FindPayment(m, p, to)
                                      \/ WriteFails(m))
        <4>1. \A n \in Pages : change'[n] = change[n]
          BY <3>2, <3>3 DEF FindPayment, WriteFails
        <4> QED BY <3>3, <4>1 DEF Booked
      <3>4. CASE WriteStatus(m) /\ Count(change[m].payment)
        <4>1. change[m].payment \in PaymentIds
          BY <3>4 DEF WriteStatus, TypeOK, Existing
        <4>2. \A n \in Pages : change'[n] = change[n]
          BY <3>2, <3>4 DEF WriteStatus
        <4> QED BY <3>4, <4>1, <4>2, CountsUp
      <3> QED BY <3>1, <3>3, <3>4 DEF OtherStep
    <2> QED BY <2>1, <2>2
  <1>4. Booked'
    <2>1. CASE Pages = {}
      BY <1>1, <1>3, <2>1 DEF Booked, client
    <2>2. ASSUME NEW m \in Pages PROVE Booked'
      <3>1. sent' = [sent EXCEPT ![m] = sent[m]]
        BY <1>1 DEF Booked, client
      <3>2. /\ sent[m] \in [phase : {"idle", "asked", "done"}, payment : Watched \cup {None},
                            to : PaymentStatus, row : Shown \cup {None}]
            /\ sent[m].phase # "idle" => sent[m].payment \in Watched
            /\ change'[m].pc = "write" => change'[m].payment = sent[m].payment /\ sent[m].phase = "asked"
        BY <1>3 DEF Booked
      <3>3. sent[m].phase = "done" => sent[m].row \in Shown /\ sent[m].row.age <= writes'[sent[m].payment]
        <4> SUFFICES ASSUME sent[m].phase = "done"
                     PROVE  sent[m].row \in Shown /\ sent[m].row.age <= writes'[sent[m].payment]
          OBVIOUS
        <4>1. /\ sent[m].payment \in PaymentIds /\ sent[m].row \in Shown
              /\ sent[m].row.age <= writes[sent[m].payment]
          BY LedgerAssumption DEF Booked
        <4>2. sent[m].row.age \in Nat
          BY <4>1 DEF Shown
        <4>3. /\ writes[sent[m].payment] \in Nat /\ writes'[sent[m].payment] \in Nat
              /\ writes[sent[m].payment] <= writes'[sent[m].payment]
          BY <1>3, <4>1 DEF Booked
        <4> QED BY <4>1, <4>2, <4>3
      <3>4. UNCHANGED << view, heard >> /\ acts' \in Nat
        BY <1>1 DEF Booked, client
      <3> QED BY <1>3, <3>1, <3>2, <3>3, <3>4, BooksStep
    <2> QED BY <2>1, <2>2
  <1> QED BY <1>2, <1>4

\* Whatever a page is told, what its invalidated entries still hold is marked: a load that goes
\* on as overtaken, a list as invalid.
LEMMA InvalidatedMarks ==
  ASSUME PageInv, NEW m \in Pages, NEW k \in Keys
  PROVE  LET q == query[m][k]
             r == Invalidated(m, k, q) IN
         /\ Whole(r) /\ r.data = q.data /\ r.late = q.late
         /\ r.phase = "read" => q.phase = "read" /\ r.overtaken /\ r.answer = q.answer
         /\ r.data # NoData => r.invalid
         /\ OnScreen(m, k) => r.phase # "idle"
  <1> DEFINE q == query[m][k]
  <1>1. Whole(q)
    BY DEF PageInv, Cached
  <1> HIDE DEF q
  <1> QED BY <1>1 DEF Invalidated, Ask, Whole, Entry, q

LEMMA SuccessStep ==
  ASSUME PageInv, NEW m \in Pages, HandleSuccess(m)
  PROVE  PageInv'
  <1> USE DEF PageInv
  <1> DEFINE p == sent[m].payment
             row == sent[m].row
             told == [x \in Watched |-> IF x = p THEN row ELSE None]
             I(k) == Invalidated(m, k, query[m][k])
             h == [heard EXCEPT ![m][p] = row.age]
  <1>1. /\ p \in Watched /\ p \in Keys /\ p \notin Filters /\ p \in PaymentIds
        /\ row \in Shown /\ row.age \in Nat /\ row.age <= writes[p]
    BY LedgerAssumption DEF HandleSuccess, Booked, Keys, Shown
  <1>2. /\ query' = [query EXCEPT ![m] = [[k \in Keys |-> I(k)] EXCEPT ![p] = SetData(@, told)]]
        /\ heard' = h /\ sent' = [sent EXCEPT ![m] = NoRequest] /\ sent[m].phase = "done"
        /\ ServerUnchanged /\ UNCHANGED << view, acts >>
    BY DEF HandleSuccess
  <1>3. \A n \in Pages, k \in Keys :
          query'[n][k] = IF n # m THEN query[n][k]
                         ELSE IF k = p THEN SetData(I(p), told) ELSE I(k)
    <2> HIDE DEF I, told, p
    <2> QED BY <1>1, <1>2 DEF Cached
  <1>4. \A n \in Pages, x \in Watched :
          heard'[n][x] = IF n = m /\ x = p THEN row.age ELSE heard[n][x]
    <2> HIDE DEF p, row
    <2> QED BY <1>1, <1>2 DEF Booked, h
  <1>5. told \in Data /\ told[p] = row /\ \A x \in Watched \ {p} : told[x] = None
    BY <1>1 DEF Data
  <1> HIDE DEF p, row, told, I, h
  <1>6. ASSUME NEW k \in Keys
        PROVE  /\ Whole(I(k)) /\ I(k).data = query[m][k].data /\ I(k).late = query[m][k].late
               /\ I(k).phase = "read" =>
                    query[m][k].phase = "read" /\ I(k).overtaken /\ I(k).answer = query[m][k].answer
               /\ I(k).data # NoData => I(k).invalid
               /\ OnScreen(m, k) => I(k).phase # "idle"
    BY InvalidatedMarks DEF I
  <1>7. ASSUME NEW k \in Keys
        PROVE  /\ Whole(query'[m][k]) /\ Sound(k, query'[m][k], heard'[m])
               /\ Rested(k, view'[m], query'[m][k])
    <2>1. Whole(query[m][k]) /\ Sound(k, query[m][k], heard[m])
      BY DEF Cached
    <2>2. CASE k \in Filters
      <3>1. query'[m][k] = I(k)
        BY <1>1, <1>3, <2>2
      <3>2. k \notin Watched
        BY <2>2, LedgerAssumption
      <3>3. Sound(k, I(k), heard'[m])
        BY <1>6, <2>2, <3>2 DEF Sound
      <3>4. Rested(k, view'[m], I(k))
        BY <1>2, <1>6, <2>2, OnScreenList DEF Rested
      <3> QED BY <1>6, <3>1, <3>3, <3>4
    <2>3. CASE k \in Watched /\ k # p
      <3>1. query'[m][k] = I(k) /\ k \notin Filters
        BY <1>3, <2>3, LedgerAssumption
      <3>2. heard'[m][k] = heard[m][k]
        BY <1>4, <2>3
      <3>3. I(k).data # NoData => \A x \in Watched \ {k} : I(k).data[x] = None
        BY <1>6, <2>1, <2>3 DEF Sound
      <3>4. I(k).data # NoData /\ ~I(k).late => (I(k).data[k] # None => I(k).data[k].age >= heard'[m][k])
        BY <1>6, <2>1, <2>3, <3>1, <3>2 DEF Sound
      <3>5. I(k).phase = "read" => \A x \in Watched \ {k} : I(k).answer[x] = None
        BY <1>6, <2>1, <2>3 DEF Sound
      <3>6. Sound(k, I(k), heard'[m])
        BY <1>6, <3>1, <3>3, <3>4, <3>5 DEF Sound
      <3> QED BY <1>6, <3>1, <3>6 DEF Rested
    <2>4. CASE k = p
      <3> DEFINE r == SetData(I(p), told)
      <3>1. query'[m][k] = r
        BY <1>3, <2>4
      <3>2. /\ Whole(r) /\ r.data = told
            /\ r.phase = I(p).phase /\ r.overtaken = I(p).overtaken /\ r.answer = I(p).answer
        BY <1>5, <1>6, <2>4 DEF Whole, Entry, SetData
      <3>3. heard'[m][p] = row.age
        BY <1>1, <1>4
      <3>4. I(p).phase = "read" => \A x \in Watched \ {p} : I(p).answer[x] = None
        BY <1>1, <1>6, <2>1, <2>4 DEF Sound
      <3> HIDE DEF r
      <3>5. Sound(k, r, heard'[m])
        BY <1>1, <1>5, <1>6, <2>4, <3>2, <3>3, <3>4 DEF Sound
      <3> QED BY <1>1, <2>4, <3>1, <3>2, <3>5 DEF Rested
    <2> QED BY <2>2, <2>3, <2>4 DEF Keys
  <1>8. ASSUME NEW n \in Pages \ {m}, NEW k \in Keys
        PROVE  /\ Whole(query'[n][k]) /\ Sound(k, query'[n][k], heard'[n])
               /\ Rested(k, view'[n], query'[n][k])
    <2>1. query'[n][k] = query[n][k] /\ heard'[n] = heard[n] /\ view' = view
      BY <1>1, <1>2, <1>3 DEF h, Booked
    <2> QED BY <2>1 DEF Cached
  <1>9. query' \in [Pages -> [Keys -> Entry]]
    <2>1. query'[m] = [[k \in Keys |-> I(k)] EXCEPT ![p] = SetData(@, told)]
          /\ \A n \in Pages \ {m} : query'[n] = query[n]
      BY <1>2 DEF Cached
    <2>2. query'[m] \in [Keys -> Entry]
      BY <1>7, <2>1 DEF Whole
    <2> QED BY <1>2, <2>1, <2>2 DEF Cached
  <1>10. Cached'
    BY <1>7, <1>8, <1>9 DEF Cached
  <1>11. Booked'
    <2>1. /\ UNCHANGED << view, acts, writes, change >>
          /\ \A n \in Pages : sent'[n] = IF n = m THEN NoRequest ELSE sent[n]
          /\ sent' \in [Pages -> [phase : {"idle", "asked", "done"}, payment : Watched \cup {None},
                                  to : PaymentStatus, row : Shown \cup {None}]]
      BY <1>2, NoRequestType DEF Booked, ServerUnchanged, vars
    <2>2. heard' \in [Pages -> [Watched -> Nat]]
      BY <1>1, <1>2 DEF h, Booked
    <2>3. \A n \in Pages, x \in Watched : heard'[n][x] <= writes[x]
      BY <1>1, <1>4 DEF Booked
    <2>4. change[m].pc # "write"
      BY <1>2 DEF Booked
    <2> QED BY <2>1, <2>2, <2>3, <2>4, NoRequestType DEF Booked
  <1> QED BY <1>2, <1>10, <1>11, ServerType

LEMMA PageInit ==
  LedgerInit => Booked /\ Cached
  <1> SUFFICES ASSUME LedgerInit PROVE Booked /\ Cached
    OBVIOUS
  <1>1. Entry0 \in Entry /\ Whole(Entry0)
    BY DEF Entry0, Entry, Whole
  <1>2. \A h, v : \A k \in Keys : Sound(k, Entry0, h) /\ Rested(k, v, Entry0)
    BY DEF Entry0, Sound, Rested
  <1>3. Cached
    BY <1>1, <1>2 DEF LedgerInit, Cached
  <1>4. \A m \in Managers : change[m].pc # "write"
    BY DEF LedgerInit, Init, Idle
  <1>5. Booked
    BY <1>4, NoRequestType, LedgerAssumption DEF LedgerInit, Booked
  <1> QED BY <1>3, <1>5

\* The payments under the list are those of Payments.
LEMMA LedgerSteps == Booked /\ [LedgerNext]_ledgerVars => [Next]_vars
  <1> SUFFICES ASSUME Booked, LedgerNext PROVE Next \/ UNCHANGED vars
    BY DEF ledgerVars
  <1>1. CASE \E c \in Calculations : CalculationStep(c)
    BY <1>1 DEF CalculationStep, Next
  <1>2. CASE \E m \in Managers \ Pages : OtherStep(m)
    BY <1>2 DEF OtherStep, Next
  <1>3. CASE \E m \in Pages : PageStep(m)
    <2>1. PICK m \in Pages : PageStep(m)
      BY <1>3
    <2>2. m \in Managers
      BY LedgerAssumption
    <2>3. CASE FindSent(m)
      <3>1. sent[m].payment \in PaymentIds /\ sent[m].to \in PaymentStatus
        BY <2>3, LedgerAssumption DEF FindSent, Booked
      <3> QED BY <2>2, <2>3, <3>1 DEF FindSent, Next
    <2>4. CASE WriteSent(m) \/ WriteSentFails(m)
      BY <2>2, <2>4 DEF WriteSent, WriteSentFails, Next
    <2>5. CASE ServerUnchanged
      BY <2>5 DEF ServerUnchanged
    <2> QED BY <2>1, <2>3, <2>4, <2>5 DEF PageStep, OpenPage, SetStatusFilter, SelectPayment, Show,
              ClosePanel, Refresh, Focus, ReadAnswer, TakeAnswer, FailAnswer, Collect, QueryOnly,
              Send, Refuse, LoseAnswer, HandleSuccess
  <1> QED BY <1>1, <1>2, <1>3 DEF LedgerNext

LEMMA LedgerStep ==
  RowsInv /\ Booked /\ Cached /\ [LedgerNext]_ledgerVars => (RowsInv /\ Booked /\ Cached)'
  <1> SUFFICES ASSUME RowsInv, Booked, Cached, [LedgerNext]_ledgerVars
               PROVE  (RowsInv /\ Booked /\ Cached)'
    OBVIOUS
  <1>1. RowsInv' /\ TypeOK'
    BY LedgerSteps, RowsStep DEF RowsInv
  <1>2. PageInv
    BY DEF PageInv, RowsInv
  <1>3. CASE UNCHANGED ledgerVars
    BY <1>1, <1>3 DEF ledgerVars, client, vars, Booked, Cached
  <1>4. CASE \E c \in Calculations : CalculationStep(c)
    BY <1>1, <1>2, <1>4, ServerSteps DEF PageInv
  <1>5. CASE \E m \in Managers \ Pages : OtherStep(m)
    BY <1>1, <1>2, <1>5, ServerSteps DEF PageInv
  <1>6. ASSUME NEW m \in Pages, PageStep(m)
        PROVE  PageInv'
    <2>1. view[m].filter \in Keys
      BY DEF Booked, Keys
    <2>2. CASE OpenPage(m) \/ (\E f \in Filters : SetStatusFilter(m, f))
                           \/ (\E p \in Watched : SelectPayment(m, p))
      BY <1>2, <2>2, ViewSteps
    <2>3. CASE ClosePanel(m)
      BY <1>2, <2>3, CloseStep
    <2>4. CASE \/ Refresh(m)
               \/ \E k \in Keys : \/ Focus(m, k) \/ ReadAnswer(m, k) \/ TakeAnswer(m, k)
                                  \/ FailAnswer(m, k) \/ Collect(m, k)
      BY <1>2, <2>1, <2>4, LoadSteps
    <2>5. CASE \/ \E to \in PaymentStatus : Send(m, to)
               \/ FindSent(m) \/ Refuse(m) \/ WriteSent(m) \/ WriteSentFails(m) \/ LoseAnswer(m)
      BY <1>1, <1>2, <2>5, ChangeSteps
    <2>6. CASE HandleSuccess(m)
      BY <1>2, <2>6, SuccessStep
    <2> QED BY <1>6, <2>2, <2>3, <2>4, <2>5, <2>6 DEF PageStep
  <1> QED BY <1>1, <1>3, <1>4, <1>5, <1>6 DEF LedgerNext, PageInv

LEMMA LedgerGives ==
  Booked /\ Cached => OwnChangeShown
  <1> SUFFICES ASSUME Booked, Cached, NEW m \in Pages, NEW k \in Keys, NEW p \in Watched,
                      OnScreen(m, k), query[m][k].data # NoData, query[m][k].data[p] # None,
                      ~query[m][k].late
               PROVE  \/ query[m][k].data[p].age >= heard[m][p]
                      \/ k \in Filters /\ (query[m][k].phase # "idle" \/ query[m][k].failed)
    BY DEF OwnChangeShown
  <1>1. Sound(k, query[m][k], heard[m]) /\ Rested(k, view[m], query[m][k])
    BY DEF Cached
  <1>2. CASE k \in Filters /\ query[m][k].invalid
    BY <1>1, <1>2, OnScreenList DEF Rested
  <1>3. CASE ~(k \in Filters /\ query[m][k].invalid)
    BY <1>1, <1>3 DEF Sound
  <1> QED BY <1>2, <1>3

\* Under the list, the payments are what Payments says they are: what holds of it holds here.
THEOREM LedgerImplements == LedgerSpec => Spec
  <1>1. LedgerInit => Init /\ RowsInv /\ Booked /\ Cached
    BY PageInit, TypeInit, RowsInit DEF LedgerInit, RowsInv
  <1>2. Booked /\ [LedgerNext]_ledgerVars => [Next]_vars
    BY LedgerSteps
  <1> QED
    BY <1>1, <1>2, LedgerStep, PTL DEF LedgerSpec, Spec

\* Pages, caches and changes sent keep their types.
THEOREM LedgerTypeCorrect == LedgerSpec => []LedgerTypeOK
  <1>1. LedgerInit => RowsInv /\ Booked /\ Cached
    BY PageInit, TypeInit, RowsInit DEF LedgerInit, RowsInv
  <1>2. Booked /\ Cached => LedgerTypeOK
    BY DEF Booked, Cached, Whole, LedgerTypeOK
  <1> QED
    BY <1>1, <1>2, LedgerStep, PTL DEF LedgerSpec

\* A page does not go back behind a change of its own that it was told of, whatever loads,
\* answers and changes overtake each other, but for what is marked as overtaken.
THEOREM ShownCorrect == LedgerSpec => []OwnChangeShown
  <1>1. LedgerInit => RowsInv /\ Booked /\ Cached
    BY PageInit, TypeInit, RowsInit DEF LedgerInit, RowsInv
  <1> QED
    BY <1>1, LedgerStep, LedgerGives, PTL DEF LedgerSpec

=============================================================================
