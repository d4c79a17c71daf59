-------------------------- MODULE OrderRowsProofs --------------------------
(***************************************************************************)
(* Proofs about OrderRows, for any set of orders and of requests.          *)
(*                                                                         *)
(* The argument: a plan in flight stays grounded, because the history only *)
(* grows and the plan remembers how much of it its request had seen.  When *)
(* the plan commits, its entries become history rows that are grounded for *)
(* the same reason.                                                        *)
(***************************************************************************)
EXTENDS OrderRows, TLAPS
\* The state machine, spelled out once: moves stay within the statuses, none
\* starts at a final status and none leads back to its origin.
LEMMA Machine ==
  ASSUME NEW s \in OrderStatus, NEW t
  PROVE  /\ canTransition(s, t) => t \in OrderStatus
         /\ canTransition(s, t) => s # t
         /\ s \in TERMINAL_ORDER_STATUSES => ~canTransition(s, t)
         /\ shouldTransitionToAssigned(s) => canTransition(s, "assigned")
  <1> DEFINE succ == ORDER_STATUS_TRANSITIONS[s]
  <1>1. succ = CASE s = "new"         -> {"confirmed"}
                 [] s = "confirmed"   -> {"assigned"}
                 [] s = "assigned"    -> {"handed_over"}
                 [] s = "handed_over" -> {"in_transit"}
                 [] s = "in_transit"  -> {"delivered", "undelivered", "returned", "cancelled"}
                 [] OTHER             -> {}
    BY DEF ORDER_STATUS_TRANSITIONS
  <1>2. \A u : canTransition(s, u) <=> u \in succ
    BY DEF canTransition
  <1> HIDE DEF succ
  <1>3. \A u : u \in succ => u \in OrderStatus /\ u # s
    BY <1>1 DEF OrderStatus
  <1>4. s \in TERMINAL_ORDER_STATUSES => succ = {}
    BY <1>1 DEF TERMINAL_ORDER_STATUSES
  <1> QED
    BY <1>2, <1>3, <1>4 DEF shouldTransitionToAssigned

-----------------------------------------------------------------------------
(* Type correctness.                                                       *)

LEMMA NoPlanIsPlan == NoPlan \in Plan /\ Stay \in Entry /\ ~Moves(Stay)
  BY DEF NoPlan, Plan, Stay, Entry, OrderStatus, Moves

LEMMA IdleIsJob == Idle \in Job
  BY NoPlanIsPlan DEF Idle, Job, Report, NoReport

LEMMA TypeInit == Init => TypeOK
  BY OrderRowsAssumption, IdleIsJob DEF Init, TypeOK, Idle

\* The plan a request makes of legal moves.
LEMMA PlanForTyped ==
  ASSUME TypeOK, NEW target, \A o \in Orders : o \in DOMAIN target => target[o] \in OrderStatus
  PROVE  PlanFor(target) \in Plan
  <1>1. ASSUME NEW o \in Orders, o \in DOMAIN target
        PROVE  [from |-> status[o], to |-> target[o], seen |-> Len(history[o])] \in Entry
    BY <1>1 DEF TypeOK, Entry
  <1> QED
    BY <1>1, NoPlanIsPlan DEF PlanFor, Plan

\* One request moved on: its new job and the tables have their types.
LEMMA TypeOfJobStep ==
  ASSUME TypeOK, NEW h \in Handlers, NEW next \in Job,
         next.at \in 1..(Len(next.rows) + 1),
         job' = [job EXCEPT ![h] = next],
         status'    \in [Orders -> OrderStatus],
         history'   \in [Orders -> Seq(Entry)],
         audit'     \in [Orders -> Seq([before : OrderStatus, after : OrderStatus])],
         published' \in [Orders -> Seq(Nat)],
         holder'    \in [Orders -> Handlers \cup {Nobody}]
  PROVE  TypeOK'
  BY DEF TypeOK

\* A request that just arrived: it holds a plan and its rows, nothing else.
LEMMA TypeArrive ==
  ASSUME TypeOK, NEW h \in Handlers, NEW plan \in Plan, NEW rows \in Seq(Orders),
         job' = [job EXCEPT ![h] = Working(plan, rows)],
         UNCHANGED << status, history, audit, published, holder >>
  PROVE  TypeOK'
  <1>1. Working(plan, rows) \in Job
    BY DEF Working, Job, Report, NoReport
  <1>2. Working(plan, rows).at \in 1..(Len(Working(plan, rows).rows) + 1)
    BY DEF Working
  <1> QED
    BY <1>1, <1>2 DEF TypeOK

\* A request goes on to its next row.
LEMMA NextRowTyped ==
  ASSUME TypeOK, NEW h \in Handlers, job[h].at <= Len(job[h].rows)
  PROVE  LET next == [job[h] EXCEPT !.at = @ + 1] IN
         /\ next \in Job
         /\ next.at \in 1..(Len(next.rows) + 1)
         /\ [job EXCEPT ![h].at = @ + 1] = [job EXCEPT ![h] = next]
         /\ NextRow(h) \in Orders
         /\ job[h].report[NextRow(h)] \in Nat
  <1>1. job[h] \in Job /\ job[h].at \in 1..(Len(job[h].rows) + 1)
    BY DEF TypeOK
  <1>2. NextRow(h) \in Orders
    BY <1>1 DEF Job, NextRow
  <1> QED
    BY SMTT(30), <1>1, <1>2 DEF Job, Report

\* What the actions that plan moves pass to PlanFor.
LEMMA TargetsLegal ==
  ASSUME TypeOK
  PROVE  /\ \A rows \in RouteOrderIds : rows \in Seq(Orders)
         /\ \A rows \in RouteOrderIds : \A o \in ToAssign(rows) :
              o \in Orders /\ canTransition(status[o], "assigned")
  <1>1. \A rows \in RouteOrderIds : rows \in Seq(Orders)
    BY DEF RouteOrderIds
  <1>2. ASSUME NEW rows \in RouteOrderIds, NEW o \in ToAssign(rows)
        PROVE  o \in Orders /\ canTransition(status[o], "assigned")
    BY <1>2 DEF ToAssign, shouldTransitionToAssigned
  <1> QED
    BY <1>1, <1>2

LEMMA TypeCommit ==
  ASSUME TypeOK, NEW h \in Handlers, Commit(h)
  PROVE  TypeOK'
  <1> DEFINE plan   == job[h].plan
             report == [o \in Orders |-> IF o \in Moved(plan) THEN Len(history[o]) + 1 ELSE 0]
             next   == Publishing(report, job[h].rows)
             told(o) == [before |-> plan[o].from, after |-> plan[o].to]
  <1>1. job[h] \in Job /\ job[h].rows \in Seq(Orders)
    BY DEF TypeOK, Job
  <1>2. plan \in Plan
    BY <1>1 DEF Job
  <1>3. \A o \in Orders : /\ plan[o] \in Entry
                          /\ plan[o].from \in OrderStatus
                          /\ plan[o].to \in OrderStatus
    BY <1>2 DEF Plan, Entry
  <1>4. \A o \in Orders : told(o) \in [before : OrderStatus, after : OrderStatus]
    BY <1>3
  <1>5. /\ job' = [job EXCEPT ![h] = next]
        /\ audit' = [o \in Orders |-> IF o \in Moved(plan) THEN Append(audit[o], told(o))
                                                          ELSE audit[o]]
    BY DEF Commit
  <1>6. report \in Report
    BY DEF TypeOK, Report
  <1> HIDE DEF plan, report, told
  <1>7. next \in Job /\ next.at \in 1..(Len(next.rows) + 1)
    BY <1>1, <1>6, NoPlanIsPlan DEF Publishing, Job
  <1> HIDE DEF next
  <1>8. status' \in [Orders -> OrderStatus]
    BY <1>3 DEF Commit, TypeOK, plan
  <1>9. history' \in [Orders -> Seq(Entry)]
    BY <1>3 DEF Commit, TypeOK, plan
  <1>10. audit' \in [Orders -> Seq([before : OrderStatus, after : OrderStatus])]
    <2> DEFINE Told == [before : OrderStatus, after : OrderStatus]
    <2>1. \A o \in Orders : told(o) \in Told /\ audit[o] \in Seq(Told)
      BY <1>4 DEF TypeOK
    <2> HIDE DEF Told
    <2>2. audit' \in [Orders -> Seq(Told)]
      BY <2>1, <1>5
    <2> QED
      BY <2>2 DEF Told
  <1>11. holder' \in [Orders -> Handlers \cup {Nobody}] /\ published' \in [Orders -> Seq(Nat)]
    BY DEF Commit, Released, TypeOK
  <1> QED
    BY <1>5, <1>7, <1>8, <1>9, <1>10, <1>11, TypeOfJobStep

LEMMA TypeStep == TypeOK /\ [Next]_vars => TypeOK'
  <1> SUFFICES ASSUME TypeOK, [Next]_vars PROVE TypeOK'
    OBVIOUS
  <1>1. ASSUME NEW h \in Handlers, NEW o \in Orders, NEW to \in Targets,
               TransitionOrderStatus(h, o, to)
        PROVE  TypeOK'
    <2> DEFINE plan == PlanFor([x \in {o} |-> to])
    <2>1. to \in OrderStatus
      BY OrderRowsAssumption
    <2>2. plan \in Plan
      BY <2>1, PlanForTyped
    <2>3. /\ job' = [job EXCEPT ![h] = Working(plan, << o >>)]
          /\ UNCHANGED << status, history, audit, published, holder >>
      BY <1>1 DEF TransitionOrderStatus, Open
    <2> HIDE DEF plan
    <2>4. << o >> \in Seq(Orders)
      OBVIOUS
    <2> QED
      BY <2>2, <2>3, <2>4, TypeArrive
  <1>2. ASSUME NEW h \in Handlers, NEW o \in Orders, UpdateOrder(h, o)
        PROVE  TypeOK'
    <2>1. << o >> \in Seq(Orders)
      OBVIOUS
    <2>2. /\ job' = [job EXCEPT ![h] = Working(NoPlan, << o >>)]
          /\ UNCHANGED << status, history, audit, published, holder >>
      BY <1>2 DEF UpdateOrder, Open
    <2> QED
      BY <2>1, <2>2, NoPlanIsPlan, TypeArrive
  <1>3. ASSUME NEW h \in Handlers, NEW rows \in RouteOrderIds,
               SyncRouteOrdersWithCourier(h, rows)
        PROVE  TypeOK'
    <2>1. PlanFor([x \in ToAssign(rows) |-> "assigned"]) \in Plan
      BY PlanForTyped DEF OrderStatus
    <2> QED
      BY <1>3, <2>1, TargetsLegal, TypeArrive DEF SyncRouteOrdersWithCourier, Open
  <1>4. ASSUME NEW h \in Handlers, WriteRow(h)
        PROVE  TypeOK'
    <2>1. holder' \in [Orders -> Handlers \cup {Nobody}]
      BY <1>4 DEF TypeOK, WriteRow
    <2>2. job[h].at <= Len(job[h].rows)
      BY <1>4 DEF WriteRow, InTransaction
    <2>3. /\ job' = [job EXCEPT ![h].at = @ + 1]
          /\ UNCHANGED << status, history, audit, published >>
      BY <1>4 DEF WriteRow
    <2> QED
      BY <2>1, <2>2, <2>3, NextRowTyped, TypeOfJobStep DEF TypeOK
  <1>5. ASSUME NEW h \in Handlers, Abort(h) \/ Finish(h)
        PROVE  TypeOK'
    <2>1. holder' \in [Orders -> Handlers \cup {Nobody}]
      BY <1>5 DEF TypeOK, Abort, Finish, Released
    <2>2. /\ job' = [job EXCEPT ![h] = Idle]
          /\ UNCHANGED << status, history, audit, published >>
      BY <1>5 DEF Abort, Finish
    <2>3. Idle.at \in 1..(Len(Idle.rows) + 1)
      BY DEF Idle
    <2> QED
      BY <2>1, <2>2, <2>3, IdleIsJob, TypeOfJobStep DEF TypeOK
  <1>6. ASSUME NEW h \in Handlers, Publish(h)
        PROVE  TypeOK'
    <2>1. job[h].at <= Len(job[h].rows)
      BY <1>6 DEF Publish
    <2>2. published' \in [Orders -> Seq(Nat)]
      <3>1. NextRow(h) \in Orders /\ job[h].report[NextRow(h)] \in Nat
        BY <2>1, NextRowTyped
      <3> DEFINE number == job[h].report[NextRow(h)]
      <3>2. \/ published' = published
            \/ published' = [published EXCEPT ![NextRow(h)] = Append(@, number)]
        BY <1>6 DEF Publish
      <3> HIDE DEF number
      <3>3. number \in Nat
        BY <3>1 DEF number
      <3> DEFINE row == NextRow(h)
      <3>4. row \in Orders /\ published[row] \in Seq(Nat)
        BY <3>1 DEF TypeOK
      <3>5. Append(published[row], number) \in Seq(Nat)
        BY <3>3, <3>4
      <3> HIDE DEF row
      <3>6. \/ published' = published
            \/ published' = [published EXCEPT ![row] = Append(published[row], number)]
        BY <3>2 DEF row
      <3> QED
        BY <3>4, <3>5, <3>6 DEF TypeOK
    <2>3. /\ job' = [job EXCEPT ![h].at = @ + 1]
          /\ UNCHANGED << status, history, audit, holder >>
      BY <1>6 DEF Publish
    <2> QED
      BY <2>1, <2>2, <2>3, NextRowTyped, TypeOfJobStep DEF TypeOK
  <1>7. CASE UNCHANGED vars
    BY <1>7 DEF vars, TypeOK
  <1> QED
    BY <1>1, <1>2, <1>3, TypeCommit, <1>4, <1>5, <1>6, <1>7 DEF Next, Arrive

\* The tables, locks and requests always have their types.
THEOREM TypeCorrect == Spec => []TypeOK
  BY TypeInit, TypeStep, PTL DEF Spec

-----------------------------------------------------------------------------
(* The records of an order agree, and every history row is grounded.       *)

\* A plan in flight is grounded as well: each of its moves is legal and starts
\* from the status after the rows its request had seen.
PlansGrounded ==
  \A h \in Handlers : \A o \in Orders :
    LET entry == job[h].plan[o] IN
    Moves(entry) => /\ entry.seen <= Len(history[o])
                    /\ entry.from = StatusAfter(o, entry.seen)
                    /\ canTransition(entry.from, entry.to)

Grounded == TypeOK /\ LogsAgree /\ RowsGrounded /\ PlansGrounded

LEMMA GroundedInit == Init => Grounded
  <1> SUFFICES ASSUME Init PROVE Grounded
    OBVIOUS
  <1>1. \A o \in Orders : history[o] = << >> /\ audit[o] = << >> /\ status[o] = Start[o]
    BY DEF Init
  <1>2. LogsAgree /\ RowsGrounded
    BY <1>1 DEF LogsAgree, RowsGrounded, StatusAfter
  <1>3. \A h \in Handlers : job[h].plan = NoPlan
    BY DEF Init, Idle
  <1>4. PlansGrounded
    BY <1>3, NoPlanIsPlan DEF PlansGrounded, NoPlan
  <1> QED
    BY <1>2, <1>4, TypeInit DEF Grounded

\* The status of an order is the one after all its rows, a legal status.
LEMMA StatusAfterTyped ==
  ASSUME TypeOK, NEW o \in Orders, NEW n \in 0..Len(history[o])
  PROVE  StatusAfter(o, n) \in OrderStatus
  <1>1. Start[o] \in OrderStatus /\ history[o] \in Seq(Entry)
    BY OrderRowsAssumption DEF TypeOK
  <1>2. CASE n = 0
    BY <1>1, <1>2 DEF StatusAfter
  <1>3. CASE n # 0
    <2>1. history[o][n] \in Entry
      BY <1>1, <1>3
    <2> QED
      BY <1>3, <2>1 DEF StatusAfter, Entry
  <1> QED
    BY <1>2, <1>3

\* A plan made now is grounded if the state machine allows its moves.
LEMMA PlanForGrounded ==
  ASSUME Grounded, NEW target,
         \A o \in Orders : o \in DOMAIN target => canTransition(status[o], target[o]),
         NEW o \in Orders, Moves(PlanFor(target)[o])
  PROVE  LET entry == PlanFor(target)[o] IN
         /\ entry.seen <= Len(history[o])
         /\ entry.from = StatusAfter(o, entry.seen)
         /\ canTransition(entry.from, entry.to)
  <1>1. o \in DOMAIN target
    BY NoPlanIsPlan DEF PlanFor
  <1>2. PlanFor(target)[o] = [from |-> status[o], to |-> target[o], seen |-> Len(history[o])]
    BY <1>1 DEF PlanFor
  <1>3. status[o] = StatusAfter(o, Len(history[o])) /\ history[o] \in Seq(Entry)
    BY DEF Grounded, LogsAgree, TypeOK
  <1> QED
    BY <1>1, <1>2, <1>3

\* Steps that leave the tables alone and bring in at most one grounded plan.
LEMMA GroundedQuiet ==
  ASSUME Grounded, TypeOK', UNCHANGED << status, history, audit >>,
         NEW h \in Handlers, NEW plan,
         \A k \in Handlers : job'[k].plan = IF k = h THEN plan ELSE job[k].plan,
         \A o \in Orders :
           Moves(plan[o]) => /\ plan[o].seen <= Len(history[o])
                             /\ plan[o].from = StatusAfter(o, plan[o].seen)
                             /\ canTransition(plan[o].from, plan[o].to)
  PROVE  Grounded'
  <1>1. \A o, n : StatusAfter(o, n)' = StatusAfter(o, n)
    BY DEF StatusAfter
  <1>2. LogsAgree'
    BY <1>1 DEF Grounded, LogsAgree
  <1>3. RowsGrounded'
    BY <1>1 DEF Grounded, RowsGrounded
  <1>4. PlansGrounded'
    BY <1>1 DEF Grounded, PlansGrounded
  <1> QED
    BY <1>2, <1>3, <1>4 DEF Grounded

\* What a commit does to one order: a row for a move, nothing otherwise.
LEMMA CommitRow ==
  ASSUME TypeOK, NEW h \in Handlers, Commit(h), NEW o \in Orders
  PROVE  LET entry == job[h].plan[o] IN
         /\ entry \in Entry
         /\ Moves(entry) =>
              /\ status'[o]  = entry.to
              /\ history'[o] = Append(history[o], entry)
              /\ audit'[o]   = Append(audit[o], [before |-> entry.from, after |-> entry.to])
         /\ ~Moves(entry) =>
              /\ status'[o]  = status[o]
              /\ history'[o] = history[o]
              /\ audit'[o]   = audit[o]
  <1>1. job[h].plan[o] \in Entry
    BY DEF TypeOK, Job, Plan
  <1>2. o \in Moved(job[h].plan) <=> Moves(job[h].plan[o])
    BY DEF Moved
  <1> QED
    BY <1>1, <1>2 DEF Commit

\* The same, for the rows of the order's history.
LEMMA CommitHistory ==
  ASSUME TypeOK, NEW h \in Handlers, Commit(h), NEW o \in Orders
  PROVE  LET entry == job[h].plan[o]
             n     == Len(history[o]) IN
         /\ n \in Nat
         /\ DOMAIN history[o] = 1..n
         /\ \A i \in 1..n : history[o][i] \in Entry /\ history'[o][i] = history[o][i]
         /\ \/ ~Moves(entry) /\ Len(history'[o]) = n /\ DOMAIN history'[o] = 1..n
            \/ /\ Moves(entry)
               /\ Len(history'[o]) = n + 1
               /\ DOMAIN history'[o] = 1..(n + 1)
               /\ history'[o][n + 1] = entry
  <1> DEFINE entry == job[h].plan[o]
  <1>1. history[o] \in Seq(Entry) /\ entry \in Entry
    BY CommitRow DEF TypeOK
  <1>2. CASE ~Moves(entry)
    <2>1. history'[o] = history[o]
      BY <1>2, CommitRow
    <2> HIDE DEF entry
    <2> QED
      BY <1>1, <1>2, <2>1 DEF entry
  <1>3. CASE Moves(entry)
    <2>1. history'[o] = Append(history[o], entry)
      BY <1>3, CommitRow
    <2> HIDE DEF entry
    <2> QED
      BY <1>1, <1>3, <2>1 DEF entry
  <1> QED
    BY <1>2, <1>3

\* StatusAfter in the next state, for an n of this state.
NextAfter(o, n) == IF n = 0 THEN Start[o] ELSE history'[o][n].to

\* The history only grows, so what it said of the past still holds.
LEMMA PastStays ==
  ASSUME TypeOK, NEW h \in Handlers, Commit(h), NEW o \in Orders
  PROVE  /\ \A n \in 0..Len(history[o]) : NextAfter(o, n) = StatusAfter(o, n)
         /\ Len(history[o]) <= Len(history'[o])
  BY CommitHistory DEF StatusAfter, NextAfter

LEMMA CommitLogs ==
  ASSUME Grounded, NEW h \in Handlers, Commit(h)
  PROVE  LogsAgree'
  <1> SUFFICES ASSUME NEW o \in Orders
      PROVE  /\ status'[o] = NextAfter(o, Len(history'[o]))
             /\ Len(audit'[o]) = Len(history'[o])
             /\ \A i \in DOMAIN history'[o] :
                  audit'[o][i] = [before |-> history'[o][i].from, after |-> history'[o][i].to]
    BY DEF LogsAgree, StatusAfter, NextAfter
  <1> DEFINE entry == job[h].plan[o]
             told  == [before |-> entry.from, after |-> entry.to]
             n     == Len(history[o])
  <1>1. /\ status[o] = StatusAfter(o, n)
        /\ Len(audit[o]) = n
        /\ \A i \in DOMAIN history[o] :
             audit[o][i] = [before |-> history[o][i].from, after |-> history[o][i].to]
    BY DEF Grounded, LogsAgree
  <1>2. TypeOK /\ audit[o] \in Seq([before : OrderStatus, after : OrderStatus])
    BY DEF Grounded, TypeOK
  <1>3. CASE ~Moves(entry)
    <2>1. status'[o] = status[o] /\ history'[o] = history[o] /\ audit'[o] = audit[o]
      BY <1>2, <1>3, CommitRow
    <2> QED
      BY <1>1, <2>1 DEF StatusAfter, NextAfter
  <1>4. CASE Moves(entry)
    <2>1. /\ n \in Nat
          /\ DOMAIN history[o] = 1..n
          /\ DOMAIN history'[o] = 1..(n + 1)
          /\ Len(history'[o]) = n + 1
          /\ history'[o][n + 1] = entry
          /\ \A i \in 1..n : history'[o][i] = history[o][i]
      BY <1>2, <1>4, CommitHistory
    <2>2. status'[o] = entry.to /\ audit'[o] = Append(audit[o], told)
      BY <1>2, <1>4, CommitRow
    <2> HIDE DEF entry, told, n
    <2>3. /\ Len(audit'[o]) = n + 1
          /\ audit'[o][n + 1] = told
          /\ \A i \in 1..n : audit'[o][i] = audit[o][i]
      BY <1>1, <1>2, <2>1, <2>2
    <2>4. NextAfter(o, n + 1) = entry.to
      BY <2>1 DEF NextAfter
    <2>5. \A i \in 1..(n + 1) :
            audit'[o][i] = [before |-> history'[o][i].from, after |-> history'[o][i].to]
      <3>1. \A i \in 1..(n + 1) : i \in 1..n \/ i = n + 1
        BY <2>1
      <3> QED
        BY <1>1, <2>1, <2>3, <3>1 DEF told
    <2> QED
      BY <2>1, <2>2, <2>3, <2>4, <2>5
  <1> QED
    BY <1>3, <1>4

LEMMA CommitRows ==
  ASSUME Grounded, NEW h \in Handlers, Commit(h)
  PROVE  RowsGrounded'
  <1> SUFFICES ASSUME NEW o \in Orders, NEW i \in DOMAIN history'[o]
      PROVE  /\ history'[o][i].seen < i
             /\ history'[o][i].from = NextAfter(o, history'[o][i].seen)
             /\ canTransition(history'[o][i].from, history'[o][i].to)
    BY DEF RowsGrounded, StatusAfter, NextAfter
  <1> DEFINE entry == job[h].plan[o]
             n     == Len(history[o])
  <1>1. TypeOK /\ n \in Nat /\ DOMAIN history[o] = 1..n
    BY CommitHistory DEF Grounded
  <1>2. CASE i \in 1..n
    <2>1. history'[o][i] = history[o][i] /\ history[o][i].seen \in Nat
      BY <1>1, <1>2, CommitHistory DEF Entry
    <2>2. /\ history[o][i].seen < i
          /\ history[o][i].from = StatusAfter(o, history[o][i].seen)
          /\ canTransition(history[o][i].from, history[o][i].to)
      BY <1>1, <1>2 DEF Grounded, RowsGrounded
    <2>3. history[o][i].seen \in 0..n
      BY <1>1, <1>2, <2>1, <2>2
    <2> QED
      BY <1>1, <2>1, <2>2, <2>3, PastStays
  <1>3. CASE i \notin 1..n
    <2>1. Moves(entry) /\ i = n + 1 /\ history'[o][i] = entry
      BY <1>1, <1>3, CommitHistory
    <2>2. entry.seen \in Nat
      BY <1>1, CommitRow DEF Entry
    <2>3. /\ entry.seen <= n
          /\ entry.from = StatusAfter(o, entry.seen)
          /\ canTransition(entry.from, entry.to)
      BY <2>1 DEF Grounded, PlansGrounded
    <2>4. NextAfter(o, entry.seen) = StatusAfter(o, entry.seen)
      BY <1>1, <2>2, <2>3, PastStays
    <2> HIDE DEF entry, n
    <2> QED
      BY <1>1, <2>1, <2>2, <2>3, <2>4
  <1> QED
    BY <1>2, <1>3

LEMMA CommitPlans ==
  ASSUME Grounded, NEW h \in Handlers, Commit(h)
  PROVE  PlansGrounded'
  <1> SUFFICES ASSUME NEW k \in Handlers, NEW o \in Orders, Moves(job'[k].plan[o])
      PROVE  /\ job'[k].plan[o].seen <= Len(history'[o])
             /\ job'[k].plan[o].from = NextAfter(o, job'[k].plan[o].seen)
             /\ canTransition(job'[k].plan[o].from, job'[k].plan[o].to)
    BY DEF PlansGrounded, StatusAfter, NextAfter
  <1>1. k # h
    <2>1. job'[h].plan = NoPlan
      BY DEF Commit, Publishing, Grounded, TypeOK
    <2> QED
      BY <2>1, NoPlanIsPlan DEF NoPlan
  <1>2. job'[k].plan = job[k].plan
    BY <1>1 DEF Commit, Grounded, TypeOK
  <1> DEFINE entry == job[k].plan[o]
  <1>3. entry.seen \in Nat
    <2>1. job[k] \in Job
      BY DEF Grounded, TypeOK
    <2>2. entry \in Entry
      BY <2>1 DEF Job, Plan
    <2> QED
      BY <2>2 DEF Entry
  <1>4. /\ entry.seen <= Len(history[o])
        /\ entry.from = StatusAfter(o, entry.seen)
        /\ canTransition(entry.from, entry.to)
    BY <1>2 DEF Grounded, PlansGrounded
  <1>5. TypeOK /\ Len(history[o]) \in Nat /\ Len(history'[o]) \in Nat
    <2>1. TypeOK
      BY DEF Grounded
    <2>2. history[o] \in Seq(Entry)
      BY <2>1 DEF TypeOK
    <2> QED
      BY <2>1, <2>2, CommitHistory
  <1> QED
    BY <1>2, <1>3, <1>4, <1>5, PastStays

LEMMA GroundedStep == Grounded /\ [Next]_vars => Grounded'
  <1> SUFFICES ASSUME Grounded, [Next]_vars PROVE Grounded'
    OBVIOUS
  <1>1. TypeOK /\ TypeOK'
    BY TypeStep DEF Grounded
  <1>2. ASSUME NEW h \in Handlers, NEW o \in Orders, NEW to \in Targets,
               TransitionOrderStatus(h, o, to)
        PROVE  Grounded'
    <2> DEFINE target == [x \in {o} |-> to]
    <2>1. canTransition(status[o], to)
      BY <1>2 DEF TransitionOrderStatus
    <2>2. \A x \in Orders : x \in DOMAIN target => canTransition(status[x], target[x])
      BY <2>1
    <2>3. /\ UNCHANGED << status, history, audit >>
          /\ job' = [job EXCEPT ![h] = Working(PlanFor(target), << o >>)]
      BY <1>2 DEF TransitionOrderStatus, Open
    <2> HIDE DEF target
    <2>4. \A k \in Handlers : job'[k].plan = IF k = h THEN PlanFor(target) ELSE job[k].plan
      BY <1>1, <2>3 DEF TypeOK, Working
    <2> QED
      BY <1>1, <2>2, <2>3, <2>4, PlanForGrounded, GroundedQuiet
  <1>3. ASSUME NEW h \in Handlers, NEW rows \in RouteOrderIds,
               SyncRouteOrdersWithCourier(h, rows)
        PROVE  Grounded'
    <2> DEFINE target == [x \in ToAssign(rows) |-> "assigned"]
    <2>1. \A x \in Orders : x \in DOMAIN target => canTransition(status[x], target[x])
      BY <1>1, TargetsLegal
    <2>2. /\ UNCHANGED << status, history, audit >>
          /\ job' = [job EXCEPT ![h] = Working(PlanFor(target), rows)]
      BY <1>3 DEF SyncRouteOrdersWithCourier, Open
    <2> HIDE DEF target
    <2>3. \A k \in Handlers : job'[k].plan = IF k = h THEN PlanFor(target) ELSE job[k].plan
      BY <1>1, <2>2 DEF TypeOK, Working
    <2> QED
      BY <1>1, <2>1, <2>2, <2>3, PlanForGrounded, GroundedQuiet
  <1>4. ASSUME NEW h \in Handlers,
               (\E o \in Orders : UpdateOrder(h, o)) \/ Abort(h) \/ Finish(h)
        PROVE  Grounded'
    <2>1. UNCHANGED << status, history, audit >>
      BY <1>4 DEF UpdateOrder, Open, Abort, Finish
    <2>2. \A k \in Handlers : job'[k].plan = IF k = h THEN NoPlan ELSE job[k].plan
      BY <1>1, <1>4 DEF TypeOK, UpdateOrder, Abort, Finish, Working, Idle
    <2> QED
      BY <1>1, <2>1, <2>2, GroundedQuiet, NoPlanIsPlan DEF NoPlan
  <1>5. ASSUME NEW h \in Handlers, WriteRow(h) \/ Publish(h)
        PROVE  Grounded'
    <2>1. UNCHANGED << status, history, audit >>
      BY <1>5 DEF WriteRow, Publish
    <2>2. \A k \in Handlers : job'[k].plan = IF k = h THEN job[h].plan ELSE job[k].plan
      BY <1>1, <1>5 DEF TypeOK, Job, WriteRow, Publish
    <2> QED
      BY <1>1, <2>1, <2>2, GroundedQuiet DEF Grounded, PlansGrounded
  <1>6. ASSUME NEW h \in Handlers, Commit(h)
        PROVE  Grounded'
    BY <1>1, <1>6, CommitLogs, CommitRows, CommitPlans DEF Grounded
  <1>7. CASE UNCHANGED vars
    BY <1>1, <1>7 DEF vars, Grounded, LogsAgree, RowsGrounded, PlansGrounded, StatusAfter
  <1> QED
    BY <1>2, <1>3, <1>4, <1>5, <1>6, <1>7 DEF Next, Arrive

LEMMA GroundedAlways == Spec => []Grounded
  BY GroundedInit, GroundedStep, PTL DEF Spec

\* Status column, history and audit log tell the same story.
THEOREM LogsCorrect == Spec => []LogsAgree
  BY GroundedAlways, PTL DEF Grounded

\* Every history row is a legal move from a status the order really had.
THEOREM RowsCorrect == Spec => []RowsGrounded
  BY GroundedAlways, PTL DEF Grounded

\* Both together: what the records of an order tell is true.
THEOREM RecordsCorrect == Spec => []RecordsTrue
  BY GroundedAlways, PTL DEF Grounded, RecordsTrue

-----------------------------------------------------------------------------
(* The rows implement the ledger of OrderLedger: a plan takes effect at    *)
(* once or never.                                                          *)

\* A request has a plan only between its reads and the end of its transaction.
PlanOnlyWorking == \A h \in Handlers : job[h].pc # "working" => job[h].plan = NoPlan

LEMMA PlanOnlyWorkingInit == Init => PlanOnlyWorking
  BY DEF Init, Idle, PlanOnlyWorking

LEMMA PlanOnlyWorkingStep == TypeOK /\ PlanOnlyWorking /\ [Next]_vars => PlanOnlyWorking'
  <1> SUFFICES ASSUME TypeOK, PlanOnlyWorking, [Next]_vars, NEW k \in Handlers,
                      job'[k].pc # "working"
               PROVE  job'[k].plan = NoPlan
    BY DEF PlanOnlyWorking
  <1>1. job[k].pc # "working" => job[k].plan = NoPlan
    BY DEF PlanOnlyWorking
  <1>2. ASSUME NEW h \in Handlers, NEW next, job' = [job EXCEPT ![h] = next],
               next.pc # "working" => next.plan = NoPlan
        PROVE  job'[k].plan = NoPlan
    BY <1>1, <1>2 DEF TypeOK
  <1>3. ASSUME NEW h \in Handlers, Arrive(h)
        PROVE  job'[k].plan = NoPlan
    <2>1. \A plan, rows : Working(plan, rows).pc = "working"
      BY DEF Working
    <2>2. \E plan, rows : job' = [job EXCEPT ![h] = Working(plan, rows)]
      BY <1>3 DEF Arrive, TransitionOrderStatus, UpdateOrder, SyncRouteOrdersWithCourier
    <2> QED
      BY <1>2, <2>1, <2>2
  <1>4. ASSUME NEW h \in Handlers, Commit(h)
        PROVE  job'[k].plan = NoPlan
    <2>1. \A report, rows : Publishing(report, rows).plan = NoPlan
      BY DEF Publishing
    <2> QED
      BY <1>2, <1>4, <2>1 DEF Commit
  <1>5. ASSUME NEW h \in Handlers, Abort(h) \/ Finish(h)
        PROVE  job'[k].plan = NoPlan
    <2>1. Idle.plan = NoPlan
      BY DEF Idle
    <2> QED
      BY <1>2, <1>5, <2>1 DEF Abort, Finish
  <1>6. ASSUME NEW h \in Handlers, WriteRow(h) \/ Publish(h)
        PROVE  job'[k].plan = NoPlan
    <2>1. job' = [job EXCEPT ![h].at = @ + 1] /\ job[k] \in Job
      BY <1>6 DEF WriteRow, Publish, TypeOK
    <2>2. job'[k].pc = job[k].pc /\ job'[k].plan = job[k].plan
      BY <2>1 DEF TypeOK, Job
    <2> QED
      BY <1>1, <2>2
  <1>7. CASE UNCHANGED vars
    BY <1>1, <1>7 DEF vars
  <1> QED
    BY <1>3, <1>4, <1>5, <1>6, <1>7 DEF Next

-----------------------------------------------------------------------------
(* Every step of the rows is a step of the ledger or none.                 *)

PlanOf == [h \in Handlers |-> job[h].plan]

\* The definitions both modules take from OrderStates are the same ones.
LEMMA SameStates ==
  /\ Ledger!OrderStatus = OrderStatus
  /\ Ledger!Stay = Stay
  /\ Ledger!NoPlan = NoPlan
  /\ \A e : Ledger!Moves(e) <=> Moves(e)
  /\ \A s, t : Ledger!canTransition(s, t) <=> canTransition(s, t)
  <1>1. Ledger!OrderStatus = OrderStatus
    BY DEF OrderStatus, Ledger!OrderStatus
  <1>2. Ledger!Stay = Stay
    BY DEF Stay, Ledger!Stay
  <1>3. Ledger!NoPlan = NoPlan
    BY <1>2 DEF NoPlan, Ledger!NoPlan
  <1>4. \A e : Ledger!Moves(e) <=> Moves(e)
    BY DEF Moves, Ledger!Moves
  <1>5. Ledger!ORDER_STATUS_TRANSITIONS = ORDER_STATUS_TRANSITIONS
    BY <1>1 DEF ORDER_STATUS_TRANSITIONS, Ledger!ORDER_STATUS_TRANSITIONS
  <1>6. \A s, t : Ledger!canTransition(s, t) <=> canTransition(s, t)
    BY <1>5 DEF canTransition, Ledger!canTransition
  <1> QED
    BY <1>1, <1>2, <1>3, <1>4, <1>6

LEMMA LedgerStart == Init => Ledger!LedgerInit
  <1> SUFFICES ASSUME Init PROVE Ledger!LedgerInit
    OBVIOUS
  <1>1. \A h \in Handlers : job[h].plan = NoPlan
    BY DEF Init, Idle
  <1> QED
    BY <1>1, SameStates DEF Init, Ledger!LedgerInit

\* A request that reads for a move submits its plan.
LEMMA LedgerSubmit ==
  ASSUME TypeOK, PlanOnlyWorking, NEW h \in Handlers, Open(h),
         NEW S \in SUBSET Orders, NEW target \in [S -> OrderStatus], NEW rows,
         \A o \in S : canTransition(status[o], target[o]),
         job' = [job EXCEPT ![h] = Working(PlanFor(target), rows)]
  PROVE  Ledger!LedgerNext
  <1>1. job[h].plan = NoPlan
    BY DEF Open, PlanOnlyWorking
  <1>2. PlanOf' = [PlanOf EXCEPT ![h] = PlanFor(target)]
    <2>1. \A k \in Handlers : job'[k].plan = IF k = h THEN PlanFor(target) ELSE job[k].plan
      BY DEF TypeOK, Working
    <2> QED
      BY <2>1 DEF PlanOf
  <1>3. UNCHANGED << status, history >>
    BY DEF Open
  <1>4. Ledger!Submit(h, target)
    <2>1. \A o \in DOMAIN target : Ledger!canTransition(status[o], target[o])
      BY SameStates
    <2>2. [k \in Handlers |-> job[k].plan][h] = Ledger!NoPlan
      BY <1>1, SameStates
    <2> QED
      BY <1>2, <1>3, <2>1, <2>2, SameStates DEF Ledger!Submit, PlanOf, PlanFor
  <1> QED
    BY <1>4, SameStates DEF Ledger!LedgerNext

\* A commit applies the plan, or shows nothing if there is none.
LEMMA LedgerCommit ==
  ASSUME TypeOK, NEW h \in Handlers, Commit(h)
  PROVE  [Ledger!LedgerNext]_Ledger!ledgerVars
  <1> DEFINE plan == job[h].plan
  <1>1. Ledger!Moved(plan) = Moved(plan)
    BY SameStates DEF Moved, Ledger!Moved
  <1>2. /\ status'  = [o \in Orders |-> IF o \in Moved(plan) THEN plan[o].to ELSE status[o]]
        /\ history' = [o \in Orders |->
                         IF o \in Moved(plan) THEN Append(history[o], plan[o]) ELSE history[o]]
    BY DEF Commit
  <1>3. PlanOf' = [PlanOf EXCEPT ![h] = NoPlan]
    <2>1. \A k \in Handlers : job'[k].plan = IF k = h THEN NoPlan ELSE job[k].plan
      BY DEF Commit, Publishing, TypeOK
    <2> QED
      BY <2>1 DEF PlanOf
  <1>4. CASE plan = NoPlan
    <2>1. Moved(plan) = {}
      BY <1>4, NoPlanIsPlan DEF Moved, NoPlan
    <2>2. status' = status /\ history' = history
      BY <1>2, <2>1 DEF TypeOK
    <2>3. PlanOf' = PlanOf
      BY <1>3, <1>4 DEF PlanOf
    <2> QED
      BY <2>2, <2>3 DEF Ledger!ledgerVars, PlanOf
  <1>5. CASE plan # NoPlan
    <2>1. [k \in Handlers |-> job[k].plan][h] = plan
      OBVIOUS
    <2>2. Ledger!Apply(h)
      BY <1>1, <1>2, <1>3, <1>5, <2>1, SameStates DEF Ledger!Apply, PlanOf
    <2> QED
      BY <2>2 DEF Ledger!LedgerNext
  <1> QED
    BY <1>4, <1>5

\* A failure discards the plan, the end of a request shows nothing.
LEMMA LedgerAbort ==
  ASSUME TypeOK, PlanOnlyWorking, NEW h \in Handlers, Abort(h) \/ Finish(h)
  PROVE  [Ledger!LedgerNext]_Ledger!ledgerVars
  <1>1. UNCHANGED << status, history >>
    BY DEF Abort, Finish
  <1>2. PlanOf' = [PlanOf EXCEPT ![h] = NoPlan]
    <2>1. \A k \in Handlers : job'[k].plan = IF k = h THEN NoPlan ELSE job[k].plan
      BY DEF Abort, Finish, Idle, TypeOK
    <2> QED
      BY <2>1 DEF PlanOf
  <1>3. CASE job[h].plan = NoPlan
    <2>1. PlanOf' = PlanOf
      BY <1>2, <1>3 DEF PlanOf
    <2> QED
      BY <1>1, <2>1 DEF Ledger!ledgerVars, PlanOf
  <1>4. CASE job[h].plan # NoPlan
    <2>1. Ledger!Discard(h)
      BY <1>1, <1>2, <1>4, SameStates DEF Ledger!Discard, PlanOf
    <2> QED
      BY <2>1 DEF Ledger!LedgerNext
  <1> QED
    BY <1>3, <1>4

LEMMA LedgerStep ==
  ASSUME TypeOK, PlanOnlyWorking, [Next]_vars
  PROVE  [Ledger!LedgerNext]_Ledger!ledgerVars
  <1>1. ASSUME NEW h \in Handlers, NEW o \in Orders, NEW to \in Targets,
               TransitionOrderStatus(h, o, to)
        PROVE  Ledger!LedgerNext
    <2> DEFINE target == [x \in {o} |-> to]
    <2>1. target \in [{o} -> OrderStatus] /\ {o} \in SUBSET Orders
      BY OrderRowsAssumption
    <2>2. \A x \in {o} : canTransition(status[x], target[x])
      BY <1>1 DEF TransitionOrderStatus
    <2>3. Open(h) /\ job' = [job EXCEPT ![h] = Working(PlanFor(target), << o >>)]
      BY <1>1 DEF TransitionOrderStatus
    <2> HIDE DEF target
    <2> QED
      BY <2>1, <2>2, <2>3, LedgerSubmit
  <1>2. ASSUME NEW h \in Handlers, NEW rows \in RouteOrderIds,
               SyncRouteOrdersWithCourier(h, rows)
        PROVE  Ledger!LedgerNext
    <2> DEFINE S == ToAssign(rows)
               target == [x \in S |-> "assigned"]
    <2>1. target \in [S -> OrderStatus] /\ S \in SUBSET Orders
      BY TargetsLegal DEF OrderStatus
    <2>2. \A x \in S : canTransition(status[x], target[x])
      BY TargetsLegal
    <2>3. Open(h) /\ job' = [job EXCEPT ![h] = Working(PlanFor(target), rows)]
      BY <1>2 DEF SyncRouteOrdersWithCourier
    <2> HIDE DEF S, target
    <2> QED
      BY <2>1, <2>2, <2>3, LedgerSubmit
  <1>3. ASSUME NEW h \in Handlers, NEW o \in Orders, UpdateOrder(h, o)
        PROVE  UNCHANGED Ledger!ledgerVars
    <2>1. job[h].plan = NoPlan
      BY <1>3 DEF UpdateOrder, Open, PlanOnlyWorking
    <2>2. \A k \in Handlers : job'[k].plan = job[k].plan
      BY <1>3, <2>1 DEF UpdateOrder, Working, TypeOK
    <2> QED
      BY <1>3, <2>2 DEF UpdateOrder, Open, Ledger!ledgerVars
  <1>4. ASSUME NEW h \in Handlers, WriteRow(h) \/ Publish(h)
        PROVE  UNCHANGED Ledger!ledgerVars
    <2>1. job' = [job EXCEPT ![h].at = @ + 1] /\ UNCHANGED << status, history >>
      BY <1>4 DEF WriteRow, Publish
    <2>2. \A k \in Handlers : job'[k].plan = job[k].plan
      BY <2>1 DEF TypeOK, Job
    <2> QED
      BY <2>1, <2>2 DEF Ledger!ledgerVars
  <1>5. CASE UNCHANGED vars
    BY <1>5 DEF vars, Ledger!ledgerVars
  <1> QED
    BY <1>1, <1>2, <1>3, <1>4, <1>5, LedgerCommit, LedgerAbort DEF Next, Arrive

\* Row locks, single updates and failures do not show: every behaviour of the
\* rows is a behaviour of the ledger, where a plan takes effect at once or never.
THEOREM RowsImplementLedger == Spec => ImplementsLedger
  <1>1. Spec => [](TypeOK /\ PlanOnlyWorking)
    <2>1. Init => TypeOK /\ PlanOnlyWorking
      BY TypeInit, PlanOnlyWorkingInit
    <2>2. (TypeOK /\ PlanOnlyWorking) /\ [Next]_vars => (TypeOK /\ PlanOnlyWorking)'
      BY TypeStep, PlanOnlyWorkingStep
    <2> QED
      BY <2>1, <2>2, PTL DEF Spec
  <1>2. TypeOK /\ PlanOnlyWorking /\ [Next]_vars => [Ledger!LedgerNext]_Ledger!ledgerVars
    BY LedgerStep
  <1> QED
    BY <1>1, <1>2, LedgerStart, PTL DEF Spec, ImplementsLedger, Ledger!LedgerSpec

-----------------------------------------------------------------------------
(* What is published is true.  The invariant behind it follows the numbers *)
(* a request keeps between its commit and its events: no other request     *)
(* keeps the same number, and none of those still to be published has been *)
(* published.                                                              *)

RowsDistinct ==
  \A h \in Handlers : \A i, j \in DOMAIN job[h].rows : job[h].rows[i] = job[h].rows[j] => i = j

ReportsCommitted ==
  \A h \in Handlers : \A o \in Orders : job[h].report[o] <= Len(history[o])

ReportsDistinct ==
  \A h, k \in Handlers : \A o \in Orders :
    h # k /\ job[h].report[o] > 0 => job[h].report[o] # job[k].report[o]

ReportsUnpublished ==
  \A h \in Handlers : \A i \in job[h].at..Len(job[h].rows) :
    LET o == job[h].rows[i] IN
    job[h].report[o] > 0 =>
      \A n \in DOMAIN published[o] : published[o][n] # job[h].report[o]

Reported ==
  /\ RowsDistinct
  /\ ReportsCommitted
  /\ ReportsDistinct
  /\ ReportsUnpublished
  /\ EventsReportRows

LEMMA ReportedInit == Init => Reported
  <1> SUFFICES ASSUME Init PROVE Reported
    OBVIOUS
  <1>1. \A h \in Handlers : /\ job[h].rows = << >>
                            /\ job[h].at = 1
                            /\ \A o \in Orders : job[h].report[o] = 0
    BY DEF Init, Idle, NoReport
  <1>2. \A o \in Orders : published[o] = << >> /\ history[o] = << >>
    BY DEF Init
  <1> QED
    BY <1>1, <1>2 DEF Reported, RowsDistinct, ReportsCommitted, ReportsDistinct,
                      ReportsUnpublished, EventsReportRows

\* A sequence of numbers with one more number.
LEMMA OneMore ==
  ASSUME NEW s \in Seq(Nat), NEW x \in Nat
  PROVE  /\ Len(s) \in Nat /\ DOMAIN s = 1..Len(s)
         /\ DOMAIN Append(s, x) = 1..(Len(s) + 1)
         /\ Append(s, x)[Len(s) + 1] = x
         /\ \A n \in 1..Len(s) : Append(s, x)[n] = s[n]
  OBVIOUS

\* A number that is no larger than the length of the history is one of its rows.
LEMMA Numbered ==
  ASSUME NEW s \in Seq(Entry), NEW x \in Nat, x > 0, x <= Len(s)
  PROVE  x \in DOMAIN s
  OBVIOUS

\* A request starts or ends: it has nothing to report.
LEMMA ReportedQuiet ==
  ASSUME TypeOK, Reported, NEW h \in Handlers, NEW next,
         job' = [job EXCEPT ![h] = next],
         next.report = NoReport, next.rows \in Seq(Orders),
         \A i, j \in DOMAIN next.rows : next.rows[i] = next.rows[j] => i = j,
         next.at \in Nat \ {0},
         UNCHANGED << history, published >>
  PROVE  Reported'
  <1>1. \A k \in Handlers : job'[k] = IF k = h THEN next ELSE job[k]
    BY DEF TypeOK
  <1>2. \A o \in Orders : next.report[o] = 0 /\ Len(history[o]) \in Nat
    BY DEF NoReport, TypeOK
  <1>3. RowsDistinct'
    BY <1>1 DEF Reported, RowsDistinct
  <1>4. ReportsCommitted'
    BY <1>1, <1>2 DEF Reported, ReportsCommitted
  <1>5. ReportsDistinct'
    <2>1. \A k \in Handlers : \A o \in Orders : job[k].report[o] \in Nat
      BY DEF TypeOK, Job, Report
    <2> QED
      BY <1>1, <1>2, <2>1 DEF Reported, ReportsDistinct
  <1>6. ReportsUnpublished'
    <2> SUFFICES ASSUME NEW k \in Handlers, NEW i \in job'[k].at..Len(job'[k].rows),
                        job'[k].report[job'[k].rows[i]] > 0
                 PROVE  \A n \in DOMAIN published[job'[k].rows[i]] :
                          published[job'[k].rows[i]][n] # job'[k].report[job'[k].rows[i]]
      BY ZenonT(40) DEF ReportsUnpublished
    <2>1. CASE k # h
      <3>1. job'[k] = job[k]
        BY <1>1, <2>1
      <3>2. i \in job[k].at..Len(job[k].rows) /\ job[k].report[job[k].rows[i]] > 0
        BY <3>1
      <3>3. \A m \in DOMAIN published[job[k].rows[i]] :
              published[job[k].rows[i]][m] # job[k].report[job[k].rows[i]]
        BY <3>2 DEF Reported, ReportsUnpublished
      <3> QED
        BY <3>1, <3>3
    <2>2. CASE k = h
      <3>1. job'[k].rows[i] \in Orders
        BY <1>1, <2>2
      <3> QED
        BY <1>1, <1>2, <2>2, <3>1
    <2> QED
      BY <2>1, <2>2
  <1>7. EventsReportRows'
    BY DEF Reported, EventsReportRows
  <1> QED
    BY <1>3, <1>4, <1>5, <1>6, <1>7 DEF Reported

\* The number a commit hands out is new: above all it or others have reported.
LEMMA ReportedCommit ==
  ASSUME TypeOK, Reported, NEW h \in Handlers, Commit(h)
  PROVE  Reported'
  <1> DEFINE plan   == job[h].plan
             report == [o \in Orders |-> IF o \in Moved(plan) THEN Len(history[o]) + 1 ELSE 0]
             next   == Publishing(report, job[h].rows)
  <1>1. \A k \in Handlers : job'[k] = IF k = h THEN next ELSE job[k]
    BY DEF Commit, TypeOK
  <1>2. next.report = report /\ next.rows = job[h].rows /\ next.at = 1
    BY DEF Publishing
  <1>3. \A o \in Orders :
          /\ Len(history[o]) \in Nat
          /\ Len(history'[o]) \in Nat
          /\ DOMAIN history[o] = 1..Len(history[o])
          /\ Len(history[o]) <= Len(history'[o])
          /\ DOMAIN history'[o] = 1..Len(history'[o])
          /\ report[o] \in {0, Len(history[o]) + 1}
          /\ report[o] <= Len(history'[o])
    <2> TAKE o \in Orders
    <2>1. o \in Moved(plan) <=> Moves(plan[o])
      BY DEF Moved
    <2>2. report[o] = IF Moves(plan[o]) THEN Len(history[o]) + 1 ELSE 0
      BY <2>1
    <2> HIDE DEF report
    <2> QED
      BY <2>2, CommitHistory
  <1>4. published' = published /\ \A o \in Orders : published[o] \in Seq(Nat)
    BY DEF Commit, TypeOK
  <1>5. \A k \in Handlers : \A o \in Orders : job[k].report[o] \in Nat
    BY DEF TypeOK, Job, Report
  <1> HIDE DEF report, next
  <1>6. RowsDistinct'
    BY <1>1, <1>2 DEF Reported, RowsDistinct
  <1>7. ReportsCommitted'
    <2> SUFFICES ASSUME NEW k \in Handlers, NEW o \in Orders
                 PROVE  job'[k].report[o] <= Len(history'[o])
      BY DEF ReportsCommitted
    <2>1. job[k].report[o] <= Len(history[o])
      BY DEF Reported, ReportsCommitted
    <2> QED
      BY <1>1, <1>2, <1>3, <1>5, <2>1
  <1>8. ReportsDistinct'
    <2> SUFFICES ASSUME NEW k \in Handlers, NEW l \in Handlers, NEW o \in Orders,
                        k # l, job'[k].report[o] > 0
                 PROVE  job'[k].report[o] # job'[l].report[o]
      BY DEF ReportsDistinct
    <2>1. job[k].report[o] <= Len(history[o]) /\ job[l].report[o] <= Len(history[o])
      BY DEF Reported, ReportsCommitted
    <2>2. job[k].report[o] > 0 => job[k].report[o] # job[l].report[o]
      BY DEF Reported, ReportsDistinct
    <2> QED
      BY SMTT(30), <1>1, <1>2, <1>3, <1>5, <2>1, <2>2
  <1>9. ReportsUnpublished'
    <2> SUFFICES ASSUME NEW k \in Handlers, NEW i \in job'[k].at..Len(job'[k].rows),
                        job'[k].report[job'[k].rows[i]] > 0,
                        NEW n \in DOMAIN published[job'[k].rows[i]]
                 PROVE  published[job'[k].rows[i]][n] # job'[k].report[job'[k].rows[i]]
      BY <1>4 DEF ReportsUnpublished
    <2>1. CASE k # h
      <3>1. job'[k] = job[k]
        BY <1>1, <2>1
      <3>2. i \in job[k].at..Len(job[k].rows) /\ job[k].report[job[k].rows[i]] > 0
        BY <3>1
      <3>3. \A m \in DOMAIN published[job[k].rows[i]] :
              published[job[k].rows[i]][m] # job[k].report[job[k].rows[i]]
        BY <3>2 DEF Reported, ReportsUnpublished
      <3>4. n \in DOMAIN published[job[k].rows[i]]
        BY <3>1
      <3>5. published[job[k].rows[i]][n] # job[k].report[job[k].rows[i]]
        BY <3>3, <3>4
      <3> QED
        BY <3>1, <3>5
    <2>2. CASE k = h
      <3> DEFINE o == job[h].rows[i]
      <3>1. job'[k].rows[i] = o /\ job'[k].report = report /\ o \in Orders
        <4>1. job[h] \in Job
          BY DEF TypeOK
        <4>2. i \in DOMAIN job[h].rows /\ job[h].rows \in Seq(Orders)
          BY <1>1, <1>2, <2>2, <4>1 DEF Job
        <4> QED
          BY <1>1, <1>2, <2>2, <4>2
      <3>2. published[o][n] \in 1..Len(history[o])
        BY <1>3, <3>1 DEF Reported, EventsReportRows
      <3> HIDE DEF o
      <3> QED
        BY <1>3, <3>1, <3>2
    <2> QED
      BY <2>1, <2>2
  <1>10. EventsReportRows'
    <2>1. \A o \in Orders : DOMAIN history[o] \subseteq DOMAIN history'[o]
      BY <1>3
    <2> QED
      BY <1>4, <2>1 DEF Reported, EventsReportRows
  <1> QED
    BY <1>6, <1>7, <1>8, <1>9, <1>10 DEF Reported

\* A request that writes a row goes on; what it has to report stays.
LEMMA ReportedWrite ==
  ASSUME TypeOK, Reported, NEW h \in Handlers, WriteRow(h)
  PROVE  Reported'
  <1>1. /\ job' = [job EXCEPT ![h].at = @ + 1]
        /\ UNCHANGED << history, published >>
        /\ job[h] \in Job
    BY DEF WriteRow, TypeOK
  <1>2. \A k \in Handlers : /\ job'[k].rows = job[k].rows
                            /\ job'[k].report = job[k].report
                            /\ job'[k].at = IF k = h THEN job[k].at + 1 ELSE job[k].at
                            /\ job[k].at \in Nat
                            /\ job[k].rows \in Seq(Orders)
    BY <1>1 DEF TypeOK, Job
  <1>3. RowsDistinct' /\ ReportsCommitted' /\ ReportsDistinct' /\ EventsReportRows'
    BY <1>1, <1>2 DEF Reported, RowsDistinct, ReportsCommitted, ReportsDistinct, EventsReportRows
  <1>4. ReportsUnpublished'
    <2> SUFFICES ASSUME NEW k \in Handlers, NEW i \in job'[k].at..Len(job'[k].rows),
                        job'[k].report[job'[k].rows[i]] > 0
                 PROVE  \A n \in DOMAIN published'[job'[k].rows[i]] :
                          published'[job'[k].rows[i]][n] # job'[k].report[job'[k].rows[i]]
      BY DEF ReportsUnpublished
    <2>1. i \in job[k].at..Len(job[k].rows) /\ job[k].report[job[k].rows[i]] > 0
      BY SMTT(30), <1>2
    <2>2. \A n \in DOMAIN published[job[k].rows[i]] :
            published[job[k].rows[i]][n] # job[k].report[job[k].rows[i]]
      BY <2>1 DEF Reported, ReportsUnpublished
    <2> QED
      BY <1>1, <1>2, <2>2
  <1> QED
    BY <1>3, <1>4 DEF Reported

\* An event takes its number out of circulation.
LEMMA ReportedPublish ==
  ASSUME TypeOK, Reported, NEW h \in Handlers, Publish(h)
  PROVE  Reported'
  <1> DEFINE row    == NextRow(h)
             number == job[h].report[row]
  <1>1. /\ job' = [job EXCEPT ![h].at = @ + 1]
        /\ UNCHANGED history
        /\ job[h].at <= Len(job[h].rows)
        /\ published' = IF number > 0 THEN [published EXCEPT ![row] = Append(@, number)]
                                      ELSE published
    BY DEF Publish
  <1>2. \A k \in Handlers : /\ job'[k].rows = job[k].rows
                            /\ job'[k].report = job[k].report
                            /\ job'[k].at = IF k = h THEN job[k].at + 1 ELSE job[k].at
                            /\ job[k].at \in Nat
                            /\ job[k].rows \in Seq(Orders)
    BY <1>1 DEF TypeOK, Job
  <1>3. row \in Orders /\ number \in Nat /\ row = job[h].rows[job[h].at]
    BY <1>1, NextRowTyped DEF NextRow
  <1>4. job[h].at \in job[h].at..Len(job[h].rows)
    BY <1>1, <1>2
  <1>5. number > 0 => \A n \in DOMAIN published[row] : published[row][n] # number
    BY <1>3, <1>4 DEF Reported, ReportsUnpublished
  <1>6. \A o \in Orders : history[o] \in Seq(Entry) /\ published[o] \in Seq(Nat)
    BY DEF TypeOK
  <1>7. \A k \in Handlers : \A o \in Orders : job[k].report[o] \in Nat
    BY DEF TypeOK, Job, Report
  <1>8. RowsDistinct' /\ ReportsCommitted' /\ ReportsDistinct'
    BY <1>1, <1>2 DEF Reported, RowsDistinct, ReportsCommitted, ReportsDistinct
  <1> HIDE DEF row, number
  \* The events of an order: as before, or one more, which reports number.
  <1>9. ASSUME NEW o \in Orders
        PROVE  \/ published'[o] = published[o]
               \/ /\ o = row
                  /\ number > 0
                  /\ published'[o] = Append(published[o], number)
    BY <1>1, <1>3 DEF TypeOK
  <1>10. ASSUME NEW o \in Orders, o = row, number > 0,
                published'[o] = Append(published[o], number)
         PROVE  LET m == Len(published[o]) IN
                /\ m \in Nat
                /\ DOMAIN published[o] = 1..m
                /\ DOMAIN published'[o] = 1..(m + 1)
                /\ published'[o][m + 1] = number
                /\ \A n \in 1..m : published'[o][n] = published[o][n]
    <2> DEFINE s == published[o]
    <2>1. s \in Seq(Nat) /\ number \in Nat
      BY <1>3, <1>6, <1>10
    <2>2. published'[o] = Append(s, number)
      BY <1>10
    <2>3. s = published[o]
      OBVIOUS
    <2> HIDE DEF s
    <2>4. /\ Len(s) \in Nat /\ DOMAIN s = 1..Len(s)
          /\ DOMAIN Append(s, number) = 1..(Len(s) + 1)
          /\ Append(s, number)[Len(s) + 1] = number
          /\ \A n \in 1..Len(s) : Append(s, number)[n] = s[n]
      BY <2>1, OneMore
    <2> QED
      BY Zenon, <2>2, <2>3, <2>4
  <1>11. ReportsUnpublished'
    <2> SUFFICES ASSUME NEW k \in Handlers, NEW i \in job'[k].at..Len(job'[k].rows),
                        job'[k].report[job'[k].rows[i]] > 0
                 PROVE  \A n \in DOMAIN published'[job'[k].rows[i]] :
                          published'[job'[k].rows[i]][n] # job'[k].report[job'[k].rows[i]]
      BY DEF ReportsUnpublished
    <2> DEFINE o == job[k].rows[i]
               mine == job[k].report[o]
    <2>5. o = job'[k].rows[i] /\ mine = job'[k].report[job'[k].rows[i]] /\ mine > 0
      BY <1>2
    <2>1. /\ i \in job[k].at..Len(job[k].rows)
          /\ i \in DOMAIN job[k].rows
          /\ o \in Orders
          /\ mine \in Nat
      <3>1. job[k].at \in 1..(Len(job[k].rows) + 1)
        BY DEF TypeOK
      <3> QED
        BY SMTT(30), <1>2, <1>7, <3>1
    <2>2. \A n \in DOMAIN published[o] : published[o][n] # mine
      BY <2>1, <2>5 DEF Reported, ReportsUnpublished
    <2>3. ASSUME o = row PROVE mine # number
      <3>1. k # h
        <4> SUFFICES ASSUME k = h PROVE FALSE
          OBVIOUS
        <4>1. i # job[h].at
          BY <1>2
        <4>2. job[h].at \in DOMAIN job[h].rows
          <5>1. job[h].at \in 1..(Len(job[h].rows) + 1)
            BY DEF TypeOK
          <5> QED
            BY <1>1, <1>2, <5>1
        <4> QED
          BY <1>3, <2>1, <2>3, <4>1, <4>2 DEF Reported, RowsDistinct
      <3>2. job[k].report[o] > 0 => job[k].report[o] # job[h].report[o]
        BY <2>1, <3>1 DEF Reported, ReportsDistinct
      <3> QED
        BY <2>3, <2>5, <3>2 DEF number
    <2> HIDE DEF o, mine
    <2>4. \A n \in DOMAIN published'[o] : published'[o][n] # mine
      <3>1. CASE published'[o] = published[o]
        BY <2>2, <3>1
      <3>2. CASE published'[o] # published[o]
        <4>1. o = row /\ number > 0 /\ published'[o] = Append(published[o], number)
          BY <1>9, <2>1, <3>2
        <4> QED
          BY <1>10, <2>1, <2>2, <2>3, <4>1
      <3> QED
        BY <3>1, <3>2
    <2> QED
      BY <2>4, <2>5
  <1>12. EventsReportRows'
    <2> SUFFICES ASSUME NEW o \in Orders
                 PROVE  /\ \A n \in DOMAIN published'[o] : published'[o][n] \in DOMAIN history[o]
                        /\ \A n, l \in DOMAIN published'[o] :
                             published'[o][n] = published'[o][l] => n = l
      BY <1>1 DEF EventsReportRows
    <2>1. /\ \A n \in DOMAIN published[o] : published[o][n] \in DOMAIN history[o]
          /\ \A n, l \in DOMAIN published[o] : published[o][n] = published[o][l] => n = l
      BY DEF Reported, EventsReportRows
    <2>2. CASE published'[o] = published[o]
      BY <2>1, <2>2
    <2>3. CASE published'[o] # published[o]
      <3>1. o = row /\ number > 0 /\ published'[o] = Append(published[o], number)
        BY <1>9, <2>3
      <3>2. number \in DOMAIN history[o]
        <4>1. number <= Len(history[o])
          BY <1>3, <3>1 DEF Reported, ReportsCommitted, number
        <4> QED
          BY <1>3, <1>6, <3>1, <4>1, Numbered
      <3> QED
        BY <1>5, <1>10, <2>1, <3>1, <3>2
    <2> QED
      BY <2>2, <2>3
  <1> QED
    BY <1>8, <1>11, <1>12 DEF Reported

LEMMA ReportedStep == TypeOK /\ Reported /\ [Next]_vars => Reported'
  <1> SUFFICES ASSUME TypeOK, Reported, [Next]_vars PROVE Reported'
    OBVIOUS
  <1>1. ASSUME NEW h \in Handlers, Arrive(h)
        PROVE  Reported'
    <2>1. PICK plan, rows : /\ job' = [job EXCEPT ![h] = Working(plan, rows)]
                            /\ rows \in Seq(Orders)
                            /\ \A i, j \in DOMAIN rows : rows[i] = rows[j] => i = j
      <3>1. \A o \in Orders : /\ << o >> \in Seq(Orders)
                              /\ \A i, j \in DOMAIN << o >> : i = j
        OBVIOUS
      <3>2. \A rows \in RouteOrderIds : \A i, j \in DOMAIN rows : rows[i] = rows[j] => i = j
        BY DEF RouteOrderIds
      <3> QED
        BY ZenonT(40), <1>1, <3>1, <3>2, TargetsLegal
        DEF Arrive, TransitionOrderStatus, UpdateOrder, SyncRouteOrdersWithCourier
    <2>2. UNCHANGED << history, published >>
      BY <1>1 DEF Arrive, TransitionOrderStatus, UpdateOrder, SyncRouteOrdersWithCourier, Open
    <2> DEFINE next == Working(plan, rows)
    <2>3. next.report = NoReport /\ next.rows = rows /\ next.at = 1
      BY DEF Working
    <2>4. job' = [job EXCEPT ![h] = next]
      BY <2>1
    <2> HIDE DEF next
    <2>5. /\ next.rows \in Seq(Orders)
          /\ \A i, j \in DOMAIN next.rows : next.rows[i] = next.rows[j] => i = j
          /\ next.at \in Nat \ {0}
      BY <2>1, <2>3
    <2> QED
      BY <2>2, <2>3, <2>4, <2>5, ReportedQuiet
  <1>2. ASSUME NEW h \in Handlers, Abort(h) \/ Finish(h)
        PROVE  Reported'
    <2>1. /\ Idle.report = NoReport
          /\ Idle.rows \in Seq(Orders)
          /\ \A i, j \in DOMAIN Idle.rows : Idle.rows[i] = Idle.rows[j] => i = j
          /\ Idle.at \in Nat \ {0}
      BY DEF Idle
    <2>2. job' = [job EXCEPT ![h] = Idle] /\ UNCHANGED << history, published >>
      BY <1>2 DEF Abort, Finish
    <2> QED
      BY <2>1, <2>2, ReportedQuiet
  <1>3. CASE UNCHANGED vars
    BY <1>3 DEF vars, Reported, RowsDistinct, ReportsCommitted, ReportsDistinct,
                ReportsUnpublished, EventsReportRows
  <1> QED
    BY <1>1, <1>2, <1>3, ReportedCommit, ReportedWrite, ReportedPublish DEF Next

\* Every event reports a committed history row, and no row is reported twice.
THEOREM EventsCorrect == Spec => []EventsReportRows
  <1>1. Spec => [](TypeOK /\ Reported)
    <2>1. Init => TypeOK /\ Reported
      BY TypeInit, ReportedInit
    <2>2. (TypeOK /\ Reported) /\ [Next]_vars => (TypeOK /\ Reported)'
      BY TypeStep, ReportedStep
    <2> QED
      BY <2>1, <2>2, PTL DEF Spec
  <1> QED
    BY <1>1, PTL DEF Reported

=============================================================================
