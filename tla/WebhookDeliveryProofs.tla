----------------------- MODULE WebhookDeliveryProofs -----------------------
(***************************************************************************)
(* Proofs about outbound webhooks: WebhookDelivery, for any events, runs   *)
(* and retry delays, and WebhookSettings, for any registrations and pages. *)
(*                                                                         *)
(* As long as no fault strikes an event it passes from hand to hand: from  *)
(* its creator to a job, from the job to a run, from the run back to a job *)
(* or to a final status.  In every hand it fits the row, which makes each  *)
(* step of the protocol find what the step before it has left.             *)
(*                                                                         *)
(* An edit of a registration carries what was typed and what the list had  *)
(* shown, through the form and the request into the row; and while an      *)
(* event is passed on, those who have been told and those who are still to *)
(* be told are together those who want it.                                 *)
(***************************************************************************)
EXTENDS WebhookDelivery, WebhookSettings, WellFoundedInduction, TLAPS

-----------------------------------------------------------------------------
(* Type correctness.                                                       *)

LEMMA IdleTyped == Idle \in Run
  BY DEF Idle, Run

\* A run under way, and what changes when it moves on.
LEMMA RunTyped ==
  ASSUME TypeOK, NEW w \in Workers, run[w].pc # "idle"
  PROVE  /\ run[w] \in Run /\ run[w].event \in Events /\ run[w].attempt \in Nat
         /\ row[run[w].event] \in Row
  <1>1. run[w] \in Run /\ run[w].event # None
    BY DEF TypeOK
  <1> QED
    BY <1>1 DEF TypeOK, Run

LEMMA TypeInit == Init => TypeOK
  BY IdleTyped DEF Init, TypeOK, Row, EventStatus, Idle

\* Counting up or down keeps a table of numbers.
LEMMA Counting ==
  ASSUME NEW f \in [Events -> Nat], NEW e \in Events
  PROVE  /\ Plus(f, e) \in [Events -> Nat]
         /\ Plus(f, e)[e] = f[e] + 1
         /\ f[e] > 0 => Minus(f, e) \in [Events -> Nat] /\ Minus(f, e)[e] = f[e] - 1
         /\ \A x \in Events : x # e => Plus(f, e)[x] = f[x] /\ Minus(f, e)[x] = f[x]
  BY DEF Plus, Minus

LEMMA PerhapsCounting ==
  ASSUME NEW f \in [Events -> Nat], NEW e \in Events, NEW g \in {f, Plus(f, e)}
  PROVE  g \in [Events -> Nat] /\ \A x \in Events : x # e => g[x] = f[x]
  BY Counting

LEMMA WritesTyped ==
  ASSUME TypeOK, NEW e \in Events, NEW s \in EventStatus, NEW n \in Nat, Writes(e, s, n)
  PROVE  /\ row' \in [Events -> Row]
         /\ row'[e] = [status |-> s, attempts |-> n]
         /\ \A x \in Events : x # e => row'[x] = row[x]
  BY DEF TypeOK, Writes, Row

\* What TypeOK says of the runs.
RunsTyped ==
  /\ run \in [Workers -> Run]
  /\ \A w \in Workers : run[w].pc = "idle" <=> run[w].event = None

\* One run moves, the others stay.
OnlyRun(w) == \A v \in Workers : v # w => run'[v] = run[v]

LEMMA GotoTyped ==
  ASSUME TypeOK, NEW w \in Workers, run[w].pc # "idle",
         NEW pc \in {"mark", "send", "succeed", "failure", "requeue", "inactive", "announce"},
         Goto(w, pc)
  PROVE  /\ RunsTyped' /\ OnlyRun(w)
         /\ run'[w].pc = pc /\ run'[w].event = run[w].event
         /\ run'[w].attempt = run[w].attempt
  <1> DEFINE next == [run[w] EXCEPT !.pc = pc]
  <1>1. run' = [run EXCEPT ![w] = next]
    BY DEF Goto
  <1>2. run[w] \in Run /\ run[w].event # None
    BY RunTyped, WebhookDeliveryAssumption
  <1>3. /\ next \in Run /\ next.pc = pc /\ next.event = run[w].event
        /\ next.attempt = run[w].attempt
    BY <1>2 DEF Run
  <1> HIDE DEF next
  <1> QED
    BY <1>1, <1>2, <1>3 DEF TypeOK, RunsTyped, OnlyRun

\* The same for a run whose error was caught.
LEMMA CaughtTyped ==
  ASSUME TypeOK, NEW w \in Workers, run[w].pc # "idle",
         run' = [run EXCEPT ![w].pc = "failure", ![w].caught = TRUE]
  PROVE  /\ RunsTyped' /\ OnlyRun(w)
         /\ run'[w].pc = "failure" /\ run'[w].event = run[w].event
         /\ run'[w].attempt = run[w].attempt
  <1> DEFINE next == [run[w] EXCEPT !.pc = "failure", !.caught = TRUE]
  <1>1. run' = [run EXCEPT ![w] = next]
    OBVIOUS
  <1>2. run[w] \in Run /\ run[w].event # None
    BY RunTyped, WebhookDeliveryAssumption
  <1>3. /\ next \in Run /\ next.pc = "failure" /\ next.event = run[w].event
        /\ next.attempt = run[w].attempt
    BY <1>2 DEF Run
  <1> HIDE DEF next
  <1> QED
    BY ZenonT(40), <1>1, <1>2, <1>3 DEF TypeOK, RunsTyped, OnlyRun

LEMMA EndTyped ==
  ASSUME TypeOK, NEW w \in Workers, End(w)
  PROVE  RunsTyped' /\ OnlyRun(w) /\ run'[w].event = None /\ run'[w].pc = "idle"
  BY IdleTyped DEF TypeOK, RunsTyped, OnlyRun, End, Idle

\* A run takes a job.
LEMMA TakeTyped ==
  ASSUME TypeOK, NEW w \in Workers, NEW e \in Events, NEW again \in BOOLEAN, Take(w, e, again)
  PROVE  /\ RunsTyped' /\ OnlyRun(w)
         /\ run'[w].event = e
         /\ \/ run'[w].pc = "mark" /\ run'[w].attempt = row[e].attempts + 1
            \/ run'[w].pc = "inactive" /\ run'[w].attempt = row[e].attempts
         /\ queue' \in [Events -> Nat] /\ stalled' \in [Events -> Nat]
  <1> DEFINE marking  == [Idle EXCEPT !.pc = "mark", !.event = e, !.attempt = NextAttempt(e),
                                      !.second = again]
             inactive == [Idle EXCEPT !.pc = "inactive", !.event = e,
                                      !.attempt = row[e].attempts, !.caught = TRUE,
                                      !.second = again]
  <1>1. row[e].attempts \in Nat /\ NextAttempt(e) = row[e].attempts + 1
    BY DEF TypeOK, Row, NextAttempt
  <1>2. /\ marking \in Run /\ marking.event = e /\ marking.pc = "mark"
        /\ marking.attempt = NextAttempt(e)
    <2>1. NextAttempt(e) \in Nat
      BY <1>1
    <2> QED
      BY <2>1 DEF Run, Idle
  <1>3. /\ inactive \in Run /\ inactive.event = e /\ inactive.pc = "inactive"
        /\ inactive.attempt = row[e].attempts
    BY <1>1 DEF Run, Idle
  <1>4. run' = [run EXCEPT ![w] = IF active THEN marking ELSE inactive]
    BY DEF Take
  <1>5. queue' \in [Events -> Nat] /\ stalled' \in [Events -> Nat]
    <2>1. queue \in [Events -> Nat] /\ stalled \in [Events -> Nat]
      BY DEF TypeOK
    <2>2. CASE again
      BY <2>1, <2>2, Counting DEF Take
    <2>3. CASE ~again
      BY <2>1, <2>3, Counting DEF Take
    <2> QED
      BY <2>2, <2>3
  <1> HIDE DEF marking, inactive
  <1> QED
    BY <1>1, <1>2, <1>3, <1>4, <1>5, WebhookDeliveryAssumption
    DEF TypeOK, RunsTyped, OnlyRun


\* A fault counts, and that is all TypeOK needs to know of it.
LEMMA FaultTyped ==
  ASSUME TypeOK, NEW e \in Events, Fault(e)
  PROVE  /\ struck' \in [Events -> Nat] /\ struck'[e] # 0
         /\ \A x \in Events : x # e => struck'[x] = struck[x]
  <1>1. struck \in [Events -> Nat] /\ struck' = Plus(struck, e) /\ struck[e] \in Nat
    BY DEF TypeOK, Fault
  <1> QED
    BY <1>1, Counting

LEMMA TypeProduce ==
  ASSUME TypeOK, NEW e \in Events, Produce(e) \/ ProducerStops(e)
  PROVE  TypeOK'
  <1>1. CASE CreateEvent(e)
    <2>1. "pending" \in EventStatus /\ 0 \in Nat
      BY DEF EventStatus
    <2> QED
      BY <1>1, <2>1, WritesTyped DEF CreateEvent, TypeOK
  <1>2. CASE AddJob(e)
    BY <1>2, Counting DEF AddJob, TypeOK
  <1>3. CASE AddJobFails(e)
    <2>1. queue' \in [Events -> Nat]
      BY <1>3, PerhapsCounting DEF AddJobFails, TypeOK
    <2> QED
      BY <1>3, <2>1, FaultTyped DEF AddJobFails, TypeOK
  <1>4. CASE MarkEnqueueFailed(e)
    <2>1. "failed" \in EventStatus /\ row[e].attempts \in Nat
      BY DEF EventStatus, TypeOK, Row
    <2> QED
      BY <1>4, <2>1, WritesTyped DEF MarkEnqueueFailed, TypeOK
  <1>5. CASE ProducerStops(e)
    BY <1>5, FaultTyped DEF ProducerStops, TypeOK
  <1> QED
    BY <1>1, <1>2, <1>3, <1>4, <1>5 DEF Produce

LEMMA TypeRun ==
  ASSUME TypeOK, NEW w \in Workers, Step(w)
  PROVE  TypeOK'
  <1> DEFINE e == run[w].event
  <1>1. run[w].pc # "idle"
    BY DEF Step, At, MarkProcessing, SendAccepted, SendRejected, SendThrows, MarkSucceeded,
           ScheduleRetry, Requeue, MarkFailed, Announce
  <1>2. /\ run[w] \in Run /\ e \in Events /\ run[w].attempt \in Nat
        /\ row[e].attempts \in Nat
    BY <1>1, RunTyped DEF Row
  <1>3. \A s \in {"processing", "retrying", "succeeded", "failed"} : s \in EventStatus
    BY DEF EventStatus
  <1> HIDE DEF e
  <1>4. CASE MarkProcessing(w)
    BY <1>1, <1>2, <1>3, <1>4, WritesTyped, GotoTyped
    DEF MarkProcessing, outside, TypeOK, RunsTyped, e
  <1>5. CASE SendAccepted(w)
    BY <1>1, <1>2, <1>5, Counting, GotoTyped DEF SendAccepted, TypeOK, RunsTyped, e
  <1>6. CASE SendRejected(w)
    BY <1>1, <1>2, <1>6, Counting, GotoTyped DEF SendRejected, TypeOK, RunsTyped, e
  <1>7. CASE SendThrows(w)
    <2>1. accepted' \in [Events -> Nat]
      BY <1>2, <1>7, PerhapsCounting DEF SendThrows, TypeOK, e
    <2> QED
      BY <1>1, <1>2, <1>7, <2>1, Counting, CaughtTyped DEF SendThrows, TypeOK, RunsTyped, e
  <1>8. CASE MarkSucceeded(w)
    BY <1>1, <1>2, <1>3, <1>8, WritesTyped, EndTyped
    DEF MarkSucceeded, outside, TypeOK, RunsTyped, e
  <1>9. CASE ScheduleRetry(w)
    BY <1>1, <1>2, <1>3, <1>9, WritesTyped, GotoTyped
    DEF ScheduleRetry, outside, TypeOK, RunsTyped, e
  <1>10. CASE Requeue(w)
    BY <1>1, <1>2, <1>10, Counting, EndTyped DEF Requeue, outside, TypeOK, RunsTyped, e
  <1>11. CASE MarkFailed(w)
    BY <1>1, <1>2, <1>3, <1>11, WritesTyped, GotoTyped
    DEF MarkFailed, outside, TypeOK, RunsTyped, e
  <1>12. CASE Announce(w)
    BY <1>1, <1>2, <1>12, Counting, EndTyped DEF Announce, TypeOK, RunsTyped, e
  <1> QED
    BY <1>4, <1>5, <1>6, <1>7, <1>8, <1>9, <1>10, <1>11, <1>12 DEF Step

LEMMA TypeFault ==
  ASSUME TypeOK, NEW w \in Workers, RunThrows(w) \/ \E ended \in BOOLEAN : Stall(w, ended)
  PROVE  TypeOK'
  <1> DEFINE e == run[w].event
  <1>1. run[w].pc # "idle"
    BY DEF RunThrows, Stall, At
  <1>2. e \in Events /\ Fault(e)
    BY <1>1, RunTyped DEF RunThrows, Stall
  <1>3. struck' \in [Events -> Nat]
    BY <1>2, FaultTyped
  <1>4. queue' \in [Events -> Nat] /\ stalled' \in [Events -> Nat]
    <2>1. queue \in [Events -> Nat] /\ stalled \in [Events -> Nat]
      BY DEF TypeOK
    <2>2. queue' \in {queue, Plus(queue, e)} /\ stalled' \in {stalled, Plus(stalled, e)}
      BY DEF RunThrows, Stall
    <2> QED
      BY <1>2, <2>1, <2>2, Counting
  <1>5. RunsTyped'
    <2>1. CASE RunThrows(w)
      BY <1>1, <2>1, EndTyped, CaughtTyped DEF RunThrows
    <2>2. CASE Stall(w, TRUE)
      BY <2>2, EndTyped DEF Stall
    <2>3. CASE Stall(w, FALSE)
      <3> DEFINE next == [run[w] EXCEPT !.lost = TRUE]
      <3>1. run' = [run EXCEPT ![w] = next]
        BY <2>3 DEF Stall
      <3>2. run[w] \in Run /\ run[w].event # None
        BY <1>1, RunTyped, WebhookDeliveryAssumption
      <3>3. next \in Run /\ next.pc = run[w].pc /\ next.event = run[w].event
        BY <3>2 DEF Run
      <3> HIDE DEF next
      <3> QED
        BY <3>1, <3>3 DEF TypeOK, RunsTyped
    <2> QED
      BY <2>1, <2>2, <2>3
  <1> QED
    BY <1>3, <1>4, <1>5 DEF TypeOK, RunsTyped, RunThrows, Stall, outside

LEMMA TypeStep == TypeOK /\ [Next]_vars => TypeOK'
  <1> SUFFICES ASSUME TypeOK, [Next]_vars PROVE TypeOK'
    OBVIOUS
  <1>1. ASSUME NEW e \in Events, Produce(e) \/ ProducerStops(e)
        PROVE  TypeOK'
    BY <1>1, TypeProduce
  <1>2. ASSUME NEW a \in BOOLEAN, SetActive(a)
        PROVE  TypeOK'
    BY <1>2 DEF SetActive, TypeOK
  <1>3. ASSUME NEW w \in Workers, NEW e \in Events, NEW again \in BOOLEAN, Take(w, e, again)
        PROVE  TypeOK'
    BY <1>3, TakeTyped DEF Take, outside, TypeOK, RunsTyped
  <1>4. ASSUME NEW w \in Workers, Step(w)
        PROVE  TypeOK'
    BY <1>4, TypeRun
  <1>5. ASSUME NEW w \in Workers, RunThrows(w) \/ \E ended \in BOOLEAN : Stall(w, ended)
        PROVE  TypeOK'
    BY <1>5, TypeFault
  <1>6. CASE UNCHANGED vars
    BY <1>6 DEF vars, TypeOK
  <1> QED
    BY <1>1, <1>2, <1>3, <1>4, <1>5, <1>6 DEF Next

\* The rows, the queue and the runs always have their types.
THEOREM TypeCorrect == Spec => []TypeOK
  BY TypeInit, TypeStep, PTL DEF Spec

-----------------------------------------------------------------------------
(* The hands an event without faults passes through.                       *)

Nobody(e) == \A w \in Workers : ~On(w, e)

\* producer, jobs on the queue, attempts that were posted, failures announced.
Books(e, p, jobs, posted, told) ==
  /\ producer[e] = p /\ queue[e] = jobs
  /\ sends[e] = posted /\ announced[e] = told

Unborn(e) ==
  row[e].status = "none" /\ row[e].attempts = 0 /\ Books(e, "idle", 0, 0, 0) /\ Nobody(e)

Creating(e) ==
  row[e].status = "pending" /\ row[e].attempts = 0 /\ Books(e, "add", 0, 0, 0) /\ Nobody(e)

Waiting(e) ==
  /\ row[e].status \in {"pending", "retrying"} /\ row[e].attempts <= Retries
  /\ Books(e, "idle", 1, row[e].attempts, 0) /\ Nobody(e)

Settled(e) ==
  /\ row[e].status \in {"succeeded", "failed"} /\ row[e].attempts <= Retries + 1
  /\ Books(e, "idle", 0, row[e].attempts, IF row[e].status = "failed" THEN 1 ELSE 0)
  /\ Nobody(e)

\* What the run w on the event e finds in the row at each of its steps.
Fits(w, e) ==
  \/ /\ run[w].pc = "mark" /\ row[e].status \in {"pending", "retrying"}
     /\ run[w].attempt = row[e].attempts + 1 /\ row[e].attempts <= Retries
     /\ sends[e] = row[e].attempts
  \/ /\ run[w].pc = "inactive" /\ row[e].status \in {"pending", "retrying"}
     /\ run[w].attempt = row[e].attempts /\ row[e].attempts <= Retries
     /\ sends[e] = row[e].attempts
  \/ /\ run[w].pc = "send" /\ row[e].status = "processing"
     /\ run[w].attempt = row[e].attempts /\ row[e].attempts <= Retries + 1
     /\ sends[e] + 1 = row[e].attempts
  \/ /\ run[w].pc \in {"succeed", "failure"} /\ row[e].status = "processing"
     /\ run[w].attempt = row[e].attempts /\ row[e].attempts <= Retries + 1
     /\ sends[e] = row[e].attempts
  \/ /\ run[w].pc = "requeue" /\ row[e].status = "retrying"
     /\ row[e].attempts <= Retries /\ sends[e] = row[e].attempts
  \/ /\ run[w].pc = "announce" /\ row[e].status = "failed"
     /\ row[e].attempts <= Retries + 1 /\ sends[e] = row[e].attempts

Running(w, e) ==
  /\ \A v \in Workers : On(v, e) <=> v = w
  /\ Books(e, "idle", 0, sends[e], 0)
  /\ Fits(w, e)

InHand(e) ==
  \/ Unborn(e) \/ Creating(e) \/ Waiting(e) \/ Settled(e)
  \/ \E w \in Workers : Running(w, e)

Custody == \A e \in Events : struck[e] = 0 => stalled[e] = 0 /\ InHand(e)

LEMMA CustodyInit == Init => Custody
  BY WebhookDeliveryAssumption
  DEF Init, Idle, Custody, InHand, Unborn, Books, Nobody, On

\* A step touches nothing but the event e and the runs on it.
Only(e) ==
  /\ \A x \in Events : x # e =>
       /\ row'[x] = row[x] /\ producer'[x] = producer[x]
       /\ queue'[x] = queue[x] /\ stalled'[x] = stalled[x]
       /\ sends'[x] = sends[x] /\ announced'[x] = announced[x]
       /\ struck'[x] = struck[x]
  /\ \A w \in Workers :
       run'[w] = run[w] \/ (run[w].event \in {e, None} /\ run'[w].event \in {e, None})

LEMMA Elsewhere ==
  ASSUME NEW e \in Events, Only(e), NEW x \in Events, x # e, InHand(x)
  PROVE  InHand(x)'
  <1>1. /\ row'[x] = row[x] /\ producer'[x] = producer[x] /\ queue'[x] = queue[x]
        /\ sends'[x] = sends[x] /\ announced'[x] = announced[x]
    BY DEF Only
  <1>2. \A w \in Workers : On(w, x)' <=> On(w, x)
    BY WebhookDeliveryAssumption DEF Only, On
  <1>3. \A w \in Workers : On(w, x) => run'[w] = run[w]
    BY WebhookDeliveryAssumption DEF Only, On
  <1>4. CASE Unborn(x) \/ Creating(x) \/ Waiting(x) \/ Settled(x)
    BY <1>1, <1>2, <1>4 DEF Unborn, Creating, Waiting, Settled, InHand, Books, Nobody
  <1>5. ASSUME NEW w \in Workers, Running(w, x)
        PROVE  InHand(x)'
    <2>1. On(w, x) /\ run'[w] = run[w]
      BY <1>3, <1>5 DEF Running
    <2>2. Fits(w, x)'
      BY <1>1, <1>5, <2>1 DEF Running, Fits
    <2>3. Running(w, x)'
      BY <1>1, <1>2, <1>5, <2>2 DEF Running, Books
    <2> QED
      BY <2>3 DEF InHand
  <1> QED
    BY <1>4, <1>5 DEF InHand

\* So only the event e needs a look.
LEMMA CustodyFrame ==
  ASSUME Custody, NEW e \in Events, Only(e),
         struck'[e] = 0 => stalled'[e] = 0 /\ InHand(e)'
  PROVE  Custody'
  BY Elsewhere DEF Custody, Only

\* The run that is on an event without faults.
LEMMA RunInHand ==
  ASSUME TypeOK, Custody, NEW w \in Workers, run[w].pc # "idle", struck[run[w].event] = 0
  PROVE  Running(w, run[w].event) /\ stalled[run[w].event] = 0
  <1> DEFINE e == run[w].event
  <1>1. e \in Events /\ On(w, e)
    BY RunTyped DEF On
  <1>2. InHand(e) /\ stalled[e] = 0
    BY <1>1 DEF Custody
  <1>3. ASSUME NEW v \in Workers, Running(v, e)
        PROVE  Running(w, e)
    BY <1>1, <1>3 DEF Running
  <1> QED
    BY <1>1, <1>2, <1>3 DEF InHand, Unborn, Creating, Waiting, Settled, Nobody

\* A run that moves on stays the only one on its event.
LEMMA StaysAlone ==
  ASSUME NEW w \in Workers, NEW e, OnlyRun(w), run'[w].event = e,
         \A v \in Workers : On(v, e) <=> v = w
  PROVE  \A v \in Workers : On(v, e)' <=> v = w
  BY DEF OnlyRun, On

\* A run that ends leaves its event to nobody.
LEMMA LeavesNobody ==
  ASSUME NEW w \in Workers, NEW e \in Events, OnlyRun(w), run'[w].event = None,
         \A v \in Workers : On(v, e) <=> v = w
  PROVE  Nobody(e)'
  BY WebhookDeliveryAssumption DEF OnlyRun, On, Nobody

LEMMA CustodyProduce ==
  ASSUME TypeOK, Custody, NEW e \in Events, Produce(e) \/ ProducerStops(e)
  PROVE  Custody'
  <1>1. CASE CreateEvent(e)
    <2>1. "pending" \in EventStatus /\ 0 \in Nat
      BY DEF EventStatus
    <2>2. /\ row'[e] = [status |-> "pending", attempts |-> 0]
          /\ \A x \in Events : x # e => row'[x] = row[x]
      BY <1>1, <2>1, WritesTyped DEF CreateEvent
    <2>3. Only(e)
      BY <1>1, <2>2 DEF CreateEvent, Only, TypeOK
    <2>4. struck'[e] = 0 => stalled'[e] = 0 /\ Unborn(e)
      <3>1. struck'[e] = 0 => stalled'[e] = 0 /\ InHand(e)
        BY <1>1 DEF CreateEvent, Custody
      <3>2. row[e].status = "none"
        BY <1>1 DEF CreateEvent
      <3> QED
        BY <3>1, <3>2 DEF InHand, Creating, Waiting, Settled, Running, Fits
    <2>5. struck'[e] = 0 => Creating(e)'
      BY <1>1, <2>2, <2>4 DEF CreateEvent, Unborn, Creating, Books, Nobody, On, TypeOK
    <2> QED
      BY <2>3, <2>4, <2>5, CustodyFrame DEF InHand
  <1>2. CASE AddJob(e)
    <2>1. /\ queue' = Plus(queue, e) /\ queue'[e] = queue[e] + 1
          /\ \A x \in Events : x # e => queue'[x] = queue[x]
      BY ZenonT(40), <1>2, Counting DEF AddJob, TypeOK
    <2>2. Only(e)
      BY <1>2, <2>1 DEF AddJob, Only, TypeOK
    <2>3. struck'[e] = 0 => stalled'[e] = 0 /\ Creating(e)
      <3>1. struck'[e] = 0 => stalled'[e] = 0 /\ InHand(e)
        BY <1>2 DEF AddJob, Custody
      <3>2. producer[e] = "add"
        BY <1>2 DEF AddJob
      <3> QED
        BY <3>1, <3>2 DEF InHand, Unborn, Waiting, Settled, Running, Books
    <2>4. struck'[e] = 0 => Waiting(e)'
      BY <1>2, <2>1, <2>3, WebhookDeliveryAssumption
      DEF AddJob, Creating, Waiting, Books, Nobody, On, TypeOK
    <2> QED
      BY <2>2, <2>3, <2>4, CustodyFrame DEF InHand
  <1>3. CASE AddJobFails(e) \/ ProducerStops(e)
    <2>1. /\ struck'[e] # 0
          /\ \A x \in Events : x # e => struck'[x] = struck[x]
      BY <1>3, FaultTyped DEF AddJobFails, ProducerStops
    <2>2. \A x \in Events : x # e => queue'[x] = queue[x]
      <3>1. queue \in [Events -> Nat] /\ queue' \in {queue, Plus(queue, e)}
        BY <1>3 DEF AddJobFails, ProducerStops, TypeOK
      <3> QED
        BY <3>1, PerhapsCounting
    <2>3. Only(e)
      BY <1>3, <2>1, <2>2 DEF AddJobFails, ProducerStops, Only, TypeOK
    <2> QED
      BY <2>1, <2>3, CustodyFrame
  <1>4. CASE MarkEnqueueFailed(e)
    <2>1. struck'[e] # 0
      <3>1. producer[e] = "undo" /\ struck' = struck
        BY <1>4 DEF MarkEnqueueFailed
      <3>2. ~InHand(e)
        BY <3>1 DEF InHand, Unborn, Creating, Waiting, Settled, Running, Books
      <3> QED
        BY <3>1, <3>2 DEF Custody
    <2>2. "failed" \in EventStatus /\ row[e].attempts \in Nat
      BY DEF EventStatus, TypeOK, Row
    <2>3. \A x \in Events : x # e => row'[x] = row[x]
      BY <1>4, <2>2, WritesTyped DEF MarkEnqueueFailed
    <2>4. Only(e)
      BY <1>4, <2>3 DEF MarkEnqueueFailed, Only, TypeOK
    <2> QED
      BY <2>1, <2>4, CustodyFrame
  <1> QED
    BY <1>1, <1>2, <1>3, <1>4 DEF Produce

LEMMA CustodyTake ==
  ASSUME TypeOK, Custody, NEW w \in Workers, NEW e \in Events, NEW again \in BOOLEAN,
         Take(w, e, again)
  PROVE  Custody'
  <1>1. /\ OnlyRun(w) /\ run'[w].event = e
        /\ \/ run'[w].pc = "mark" /\ run'[w].attempt = row[e].attempts + 1
           \/ run'[w].pc = "inactive" /\ run'[w].attempt = row[e].attempts
    BY TakeTyped
  <1>2. run[w].event = None
    BY DEF Take, At, TypeOK
  <1>3. /\ \A x \in Events : x # e => queue'[x] = queue[x] /\ stalled'[x] = stalled[x]
        /\ IF again THEN stalled[e] # 0
           ELSE queue[e] > 0 /\ queue'[e] = queue[e] - 1 /\ stalled' = stalled
    <2>1. queue \in [Events -> Nat] /\ stalled \in [Events -> Nat]
      BY DEF TypeOK
    <2>2. CASE again
      BY <2>1, <2>2, Counting DEF Take
    <2>3. CASE ~again
      BY <2>1, <2>3, Counting DEF Take
    <2> QED
      BY <2>2, <2>3
  <1>4. UNCHANGED << row, producer, sends, announced, struck >>
    BY DEF Take, outside
  <1>5. Only(e)
    BY <1>1, <1>2, <1>3, <1>4 DEF Only, OnlyRun
  <1>6. ASSUME struck[e] = 0
        PROVE  stalled'[e] = 0 /\ InHand(e)'
    <2>1. stalled[e] = 0 /\ InHand(e)
      BY <1>6 DEF Custody
    <2>2. queue[e] > 0 /\ queue'[e] = queue[e] - 1 /\ stalled' = stalled
      BY <1>3, <2>1
    <2>3. Waiting(e)
      BY <2>1, <2>2 DEF InHand, Unborn, Creating, Settled, Running, Books
    <2>4. \A v \in Workers : On(v, e)' <=> v = w
      BY <1>1, <2>3 DEF Waiting, Nobody, OnlyRun, On
    <2>5. Fits(w, e)'
      BY <1>1, <1>4, <2>3 DEF Waiting, Books, Fits
    <2>6. Running(w, e)'
      BY <1>4, <2>2, <2>3, <2>4, <2>5 DEF Waiting, Running, Books
    <2> QED
      BY <2>1, <2>2, <2>6 DEF InHand
  <1> QED
    BY <1>4, <1>5, <1>6, CustodyFrame

LEMMA CustodyRun ==
  ASSUME TypeOK, Custody, NEW w \in Workers, NEW e \in Events, On(w, e), Step(w)
  PROVE  Custody'
  <1>0. run[w].event = e
    BY DEF On
  <1>1. run[w].pc # "idle"
    BY DEF Step, At, MarkProcessing, SendAccepted, SendRejected, SendThrows, MarkSucceeded,
           ScheduleRetry, Requeue, MarkFailed, Announce
  <1>2. /\ run[w].attempt \in Nat /\ row[e].attempts \in Nat
        /\ sends[e] \in Nat
    BY <1>0, <1>1, RunTyped DEF Row, TypeOK
  <1>3. \A s \in {"processing", "retrying", "succeeded", "failed"} : s \in EventStatus
    BY DEF EventStatus
  <1>4. struck[e] = 0 => Running(w, e) /\ stalled[e] = 0
    BY <1>0, <1>1, RunInHand
  <1>5. UNCHANGED << producer, stalled, struck >>
    BY DEF Step, MarkProcessing, SendAccepted, SendRejected, SendThrows, MarkSucceeded,
           ScheduleRetry, Requeue, MarkFailed, Announce, outside
  \* It is enough that the run moves on or ends and that no other event changes.
  <1>6. ASSUME OnlyRun(w), run'[w].event \in {e, None},
               \A x \in Events : x # e => row'[x] = row[x] /\ queue'[x] = queue[x]
                                          /\ sends'[x] = sends[x] /\ announced'[x] = announced[x],
               Running(w, e) => InHand(e)'
        PROVE  Custody'
    <2>1. Only(e)
      BY <1>0, <1>5, <1>6 DEF Only, OnlyRun
    <2> QED
      BY <1>2, <1>4, <1>5, <1>6, <2>1, CustodyFrame
  <1>7. ASSUME Goto(w, "send") \/ Goto(w, "succeed") \/ Goto(w, "failure")
                 \/ Goto(w, "requeue") \/ Goto(w, "announce")
        PROVE  /\ OnlyRun(w) /\ run'[w].event = e /\ run'[w].attempt = run[w].attempt
               /\ Running(w, e) => \A v \in Workers : On(v, e)' <=> v = w
    <2>1. OnlyRun(w) /\ run'[w].event = e /\ run'[w].attempt = run[w].attempt
      BY <1>0, <1>1, <1>7, GotoTyped
    <2> QED
      BY <2>1, StaysAlone DEF Running
  <1>8. CASE MarkProcessing(w)
    <2>1. /\ row'[e] = [status |-> "processing", attempts |-> run[w].attempt]
          /\ \A x \in Events : x # e => row'[x] = row[x]
      BY <1>0, <1>2, <1>3, <1>8, WritesTyped DEF MarkProcessing
    <2>2. run[w].pc = "mark" /\ run'[w].pc = "send"
      BY <1>1, <1>8, GotoTyped DEF MarkProcessing, At
    <2>3. UNCHANGED << queue, sends, announced >> /\ Goto(w, "send")
      BY <1>8 DEF MarkProcessing, outside
    <2>4. Running(w, e) => Running(w, e)'
      BY <1>2, <1>5, <1>7, <2>1, <2>2, <2>3, WebhookDeliveryAssumption DEF Running, Fits, Books
    <2> QED
      BY <1>6, <1>7, <2>1, <2>3, <2>4 DEF InHand
  <1>9. CASE SendAccepted(w) \/ SendRejected(w) \/ SendThrows(w)
    <2>1. /\ sends'[e] = sends[e] + 1
          /\ \A x \in Events : x # e => sends'[x] = sends[x]
      BY <1>0, <1>2, <1>9, Counting DEF SendAccepted, SendRejected, SendThrows, TypeOK
    <2>2. run[w].pc = "send" /\ run'[w].pc \in {"succeed", "failure"}
      BY <1>1, <1>9, GotoTyped, CaughtTyped DEF SendAccepted, SendRejected, SendThrows, At
    <2>3. OnlyRun(w) /\ run'[w].event = e /\ run'[w].attempt = run[w].attempt
      BY <1>0, <1>1, <1>7, <1>9, CaughtTyped DEF SendAccepted, SendRejected, SendThrows
    <2>4. UNCHANGED << row, queue, announced >>
      BY <1>9 DEF SendAccepted, SendRejected, SendThrows
    <2>5. Running(w, e) => Running(w, e)'
      <3>1. Running(w, e) => \A v \in Workers : On(v, e)' <=> v = w
        BY <2>3, StaysAlone DEF Running
      <3> QED
        BY <1>2, <1>5, <2>1, <2>2, <2>3, <2>4, <3>1 DEF Running, Fits, Books
    <2> QED
      BY <1>6, <2>1, <2>3, <2>4, <2>5 DEF InHand
  <1>10. CASE MarkSucceeded(w)
    <2>1. /\ row'[e] = [status |-> "succeeded", attempts |-> row[e].attempts]
          /\ \A x \in Events : x # e => row'[x] = row[x]
      BY <1>0, <1>2, <1>3, <1>10, WritesTyped DEF MarkSucceeded
    <2>2. run[w].pc = "succeed" /\ OnlyRun(w) /\ run'[w].event = None
      BY <1>10, EndTyped DEF MarkSucceeded, At
    <2>3. UNCHANGED << queue, sends, announced >>
      BY <1>10 DEF MarkSucceeded, outside
    <2>4. Running(w, e) => Settled(e)'
      <3>1. Running(w, e) => Nobody(e)'
        BY <1>2, <2>2, LeavesNobody DEF Running
      <3> QED
        BY <1>2, <1>5, <2>1, <2>2, <2>3, <3>1 DEF Running, Fits, Settled, Books
    <2> QED
      BY <1>6, <2>1, <2>2, <2>3, <2>4 DEF InHand
  <1>11. CASE ScheduleRetry(w)
    <2>1. /\ row'[e] = [status |-> "retrying", attempts |-> row[e].attempts]
          /\ \A x \in Events : x # e => row'[x] = row[x]
      BY <1>0, <1>2, <1>3, <1>11, WritesTyped DEF ScheduleRetry
    <2>2. run[w].pc = "failure" /\ run'[w].pc = "requeue" /\ run[w].attempt <= Retries
      BY <1>1, <1>11, GotoTyped DEF ScheduleRetry, At, HasDelay
    <2>3. UNCHANGED << queue, sends, announced >> /\ Goto(w, "requeue")
      BY <1>11 DEF ScheduleRetry, outside
    <2>4. Running(w, e) => Running(w, e)'
      BY <1>2, <1>5, <1>7, <2>1, <2>2, <2>3 DEF Running, Fits, Books
    <2> QED
      BY <1>6, <1>7, <2>1, <2>3, <2>4 DEF InHand
  <1>12. CASE Requeue(w)
    <2>1. /\ queue'[e] = queue[e] + 1
          /\ \A x \in Events : x # e => queue'[x] = queue[x]
      BY <1>0, <1>2, <1>12, Counting DEF Requeue, TypeOK
    <2>2. run[w].pc = "requeue" /\ OnlyRun(w) /\ run'[w].event = None
      BY <1>12, EndTyped DEF Requeue, At
    <2>3. UNCHANGED << row, sends, announced >>
      BY <1>12 DEF Requeue, outside
    <2>4. Running(w, e) => Waiting(e)'
      <3>1. Running(w, e) => Nobody(e)'
        BY <1>2, <2>2, LeavesNobody DEF Running
      <3> QED
        BY <1>2, <1>5, <2>1, <2>2, <2>3, <3>1 DEF Running, Fits, Waiting, Books
    <2> QED
      BY <1>6, <2>1, <2>2, <2>3, <2>4 DEF InHand
  <1>13. CASE MarkFailed(w)
    <2>1. /\ row'[e] = [status |-> "failed", attempts |-> run[w].attempt]
          /\ \A x \in Events : x # e => row'[x] = row[x]
      BY <1>0, <1>2, <1>3, <1>13, WritesTyped DEF MarkFailed
    <2>2. run[w].pc \in {"inactive", "failure"} /\ run'[w].pc = "announce"
      BY <1>1, <1>13, GotoTyped DEF MarkFailed, At
    <2>3. UNCHANGED << queue, sends, announced >> /\ Goto(w, "announce")
      BY <1>13 DEF MarkFailed, outside
    <2>4. Running(w, e) => Running(w, e)'
      BY <1>2, <1>5, <1>7, <2>1, <2>2, <2>3, WebhookDeliveryAssumption DEF Running, Fits, Books
    <2> QED
      BY <1>6, <1>7, <2>1, <2>3, <2>4 DEF InHand
  <1>14. CASE Announce(w)
    <2>1. /\ announced'[e] = announced[e] + 1
          /\ \A x \in Events : x # e => announced'[x] = announced[x]
      BY <1>0, <1>2, <1>14, Counting DEF Announce, TypeOK
    <2>2. run[w].pc = "announce" /\ OnlyRun(w) /\ run'[w].event = None
      BY <1>14, EndTyped DEF Announce, At
    <2>3. UNCHANGED << row, queue, sends >>
      BY <1>14 DEF Announce
    <2>4. Running(w, e) => Settled(e)'
      <3>1. Running(w, e) => Nobody(e)'
        BY <1>2, <2>2, LeavesNobody DEF Running
      <3> QED
        BY <1>2, <1>5, <2>1, <2>2, <2>3, <3>1 DEF Running, Fits, Settled, Books
    <2> QED
      BY <1>6, <2>1, <2>2, <2>3, <2>4 DEF InHand
  <1> QED
    BY <1>8, <1>9, <1>10, <1>11, <1>12, <1>13, <1>14 DEF Step

LEMMA CustodyFault ==
  ASSUME TypeOK, Custody, NEW w \in Workers, NEW e \in Events, On(w, e),
         RunThrows(w) \/ \E ended \in BOOLEAN : Stall(w, ended)
  PROVE  Custody'
  <1>1. run[w].pc # "idle" /\ run[w].event = e
    BY DEF RunThrows, Stall, At, On
  <1>2. Fault(e)
    BY <1>1 DEF RunThrows, Stall
  <1>3. struck'[e] # 0 /\ \A x \in Events : x # e => struck'[x] = struck[x]
    BY <1>2, FaultTyped
  <1>4. \A x \in Events : x # e => queue'[x] = queue[x] /\ stalled'[x] = stalled[x]
    <2>1. queue \in [Events -> Nat] /\ stalled \in [Events -> Nat]
      BY DEF TypeOK
    <2>2. queue' \in {queue, Plus(queue, e)} /\ stalled' \in {stalled, Plus(stalled, e)}
      BY <1>1 DEF RunThrows, Stall
    <2> QED
      BY <2>1, <2>2, PerhapsCounting
  <1>5. OnlyRun(w) /\ run'[w].event \in {e, None}
    <2>1. CASE RunThrows(w)
      BY <1>1, <2>1, EndTyped, CaughtTyped DEF RunThrows
    <2>2. CASE Stall(w, TRUE)
      BY <2>2, EndTyped DEF Stall
    <2>3. CASE Stall(w, FALSE)
      <3>1. run[w] \in Run
        BY <1>1, RunTyped
      <3>2. [run[w] EXCEPT !.lost = TRUE].event = run[w].event
        BY <3>1 DEF Run
      <3>3. run' = [run EXCEPT ![w] = [run[w] EXCEPT !.lost = TRUE]]
        BY <2>3 DEF Stall
      <3> QED
        BY <1>1, <3>2, <3>3 DEF TypeOK, OnlyRun
    <2> QED
      BY <2>1, <2>2, <2>3
  <1>6. UNCHANGED << row, producer, sends, announced >>
    BY DEF RunThrows, Stall, outside
  <1>7. Only(e)
    BY <1>1, <1>3, <1>4, <1>5, <1>6 DEF Only, OnlyRun
  <1> QED
    BY <1>2, <1>3, <1>7, CustodyFrame

LEMMA CustodyStep == TypeOK /\ Custody /\ [Next]_vars => Custody'
  <1> SUFFICES ASSUME TypeOK, Custody, [Next]_vars PROVE Custody'
    OBVIOUS
  <1>1. ASSUME NEW e \in Events, Produce(e) \/ ProducerStops(e)
        PROVE  Custody'
    BY <1>1, CustodyProduce
  <1>2. CASE (\E a \in BOOLEAN : SetActive(a)) \/ UNCHANGED vars
    <2>1. UNCHANGED << row, producer, queue, stalled, run, sends, announced, struck >>
      BY <1>2 DEF SetActive, vars
    <2> QED
      BY <2>1 DEF Custody, InHand, Unborn, Creating, Waiting, Settled, Running, Fits, Books,
                  Nobody, On
  <1>3. ASSUME NEW w \in Workers, NEW e \in Events, NEW again \in BOOLEAN, Take(w, e, again)
        PROVE  Custody'
    BY <1>3, CustodyTake
  <1>4. ASSUME NEW w \in Workers,
               Step(w) \/ RunThrows(w) \/ \E ended \in BOOLEAN : Stall(w, ended)
        PROVE  Custody'
    <2>1. run[w].pc # "idle"
      BY <1>4 DEF Step, At, MarkProcessing, SendAccepted, SendRejected, SendThrows,
                  MarkSucceeded, ScheduleRetry, Requeue, MarkFailed, Announce, RunThrows, Stall
    <2>2. PICK e \in Events : On(w, e)
      BY <2>1, RunTyped DEF On
    <2> QED
      BY <1>4, <2>2, CustodyRun, CustodyFault
  <1> QED
    BY <1>1, <1>2, <1>3, <1>4 DEF Next

LEMMA CustodyAlways == Spec => [](TypeOK /\ Custody)
  BY TypeInit, TypeStep, CustodyInit, CustodyStep, PTL DEF Spec

-----------------------------------------------------------------------------
(* What custody gives.                                                     *)

LEMMA CustodyCarrier == TypeOK /\ Custody => OneCarrier
  <1> SUFFICES ASSUME TypeOK, Custody, NEW e \in Events, struck[e] = 0
               PROVE  /\ row[e].status \in Unsettled =>
                           producer[e] # "idle" \/ queue[e] > 0 \/ \E w \in Workers : On(w, e)
                      /\ queue[e] + stalled[e] <= 1
                      /\ queue[e] + stalled[e] > 0 =>
                           row[e].status \in Unsettled /\ producer[e] = "idle"
                      /\ \A w \in Workers : On(w, e) =>
                           /\ queue[e] + stalled[e] = 0 /\ producer[e] = "idle"
                           /\ \A v \in Workers : On(v, e) => v = w
    BY DEF OneCarrier
  <1>1. stalled[e] = 0 /\ InHand(e)
    BY DEF Custody
  <1>2. CASE Unborn(e) \/ Creating(e) \/ Waiting(e) \/ Settled(e)
    BY <1>1, <1>2 DEF Unborn, Creating, Waiting, Settled, Books, Nobody, Unsettled
  <1>3. ASSUME NEW w \in Workers, Running(w, e)
        PROVE  /\ On(w, e) /\ producer[e] = "idle" /\ queue[e] = 0
               /\ \A u \in Workers : On(u, e) => \A v \in Workers : On(v, e) => v = u
    BY <1>3 DEF Running, Books
  <1> QED
    BY <1>1, <1>2, <1>3 DEF InHand

\* As long as no fault strikes an event, exactly one hand has it until it is settled.
THEOREM CarrierCorrect == Spec => []OneCarrier
  BY CustodyAlways, CustodyCarrier, PTL

LEMMA CustodyCount == TypeOK /\ Custody => SendsCounted
  <1> SUFFICES ASSUME TypeOK, Custody, NEW e \in Events, struck[e] = 0
               PROVE  /\ row[e].attempts <= Retries + 1
                      /\ row[e].attempts =
                           sends[e] + (IF \E w \in Workers : On(w, e) /\ At(w, "send")
                                       THEN 1 ELSE 0)
    BY DEF SendsCounted
  <1>1. InHand(e) /\ row[e].attempts \in Nat /\ sends[e] \in Nat
    BY DEF Custody, TypeOK, Row
  <1>2. CASE Unborn(e) \/ Creating(e) \/ Waiting(e) \/ Settled(e)
    BY <1>1, <1>2, WebhookDeliveryAssumption
    DEF Unborn, Creating, Waiting, Settled, Books, Nobody
  <1>3. ASSUME NEW w \in Workers, Running(w, e)
        PROVE  /\ row[e].attempts <= Retries + 1
               /\ row[e].attempts =
                    sends[e] + (IF \E v \in Workers : On(v, e) /\ At(v, "send")
                                THEN 1 ELSE 0)
    <2>1. (\E v \in Workers : On(v, e) /\ At(v, "send")) <=> run[w].pc = "send"
      BY <1>3 DEF Running, At
    <2> QED
      BY <1>1, <1>3, <2>1, WebhookDeliveryAssumption DEF Running, Fits
  <1> QED
    BY <1>1, <1>2, <1>3 DEF InHand

\* As long as no fault strikes an event, its row counts the requests and there is
\* one more than there are retry delays at most.
THEOREM CountCorrect == Spec => []SendsCounted
  BY CustodyAlways, CustodyCount, PTL

LEMMA CustodyAnnounced == TypeOK /\ Custody => FailureAnnouncedOnce
  <1> SUFFICES ASSUME TypeOK, Custody, NEW e \in Events, struck[e] = 0
               PROVE  announced[e] = IF /\ row[e].status = "failed"
                                        /\ \A w \in Workers : ~On(w, e)
                                     THEN 1 ELSE 0
    BY DEF FailureAnnouncedOnce
  <1>1. InHand(e)
    BY DEF Custody
  <1>2. CASE Unborn(e) \/ Creating(e) \/ Waiting(e) \/ Settled(e)
    BY <1>2 DEF Unborn, Creating, Waiting, Settled, Books, Nobody
  <1>3. ASSUME NEW w \in Workers, Running(w, e)
        PROVE  announced[e] = 0 /\ On(w, e)
    BY <1>3 DEF Running, Books
  <1> QED
    BY <1>1, <1>2, <1>3 DEF InHand

\* As long as no fault strikes an event, its failure is announced once, and nothing
\* else is.
THEOREM AnnouncedCorrect == Spec => []FailureAnnouncedOnce
  BY CustodyAlways, CustodyAnnounced, PTL

\* What moves a row or a request.
LEMMA RowMoves ==
  ASSUME TypeOK, [Next]_vars, NEW e \in Events
  PROVE  \/ row'[e] = row[e] /\ sends'[e] = sends[e]
         \/ row[e].status = "none"
         \/ producer[e] = "undo"
         \/ \E w \in Workers : On(w, e) /\ run[w].pc # "announce"
  <1>1. CASE UNCHANGED << row, sends >>
    BY <1>1
  <1>2. ASSUME NEW x \in Events, CreateEvent(x) \/ MarkEnqueueFailed(x)
        PROVE  \/ row'[e] = row[e] /\ sends'[e] = sends[e]
               \/ row[e].status = "none"
               \/ producer[e] = "undo"
    BY <1>2 DEF CreateEvent, MarkEnqueueFailed, Writes, TypeOK
  <1>3. ASSUME NEW w \in Workers,
               \/ MarkProcessing(w) \/ SendAccepted(w) \/ SendRejected(w) \/ SendThrows(w)
               \/ MarkSucceeded(w) \/ ScheduleRetry(w) \/ MarkFailed(w)
        PROVE  \/ row'[e] = row[e] /\ sends'[e] = sends[e]
               \/ On(w, e) /\ run[w].pc # "announce"
    <2>1. run[w].pc # "announce"
      BY <1>3 DEF MarkProcessing, SendAccepted, SendRejected, SendThrows, MarkSucceeded,
                  ScheduleRetry, MarkFailed, At
    <2>2. CASE run[w].event = e
      BY <2>1, <2>2 DEF On
    <2>3. CASE run[w].event # e
      BY <1>3, <2>3 DEF MarkProcessing, SendAccepted, SendRejected, SendThrows, MarkSucceeded,
                        ScheduleRetry, MarkFailed, Writes, Plus, outside, TypeOK
    <2> QED
      BY <2>2, <2>3
  <1> QED
    BY <1>1, <1>2, <1>3
    DEF Next, Produce, Step, AddJob, AddJobFails, ProducerStops, SetActive, Take, Requeue,
        Announce, RunThrows, Stall, outside, vars

LEMMA FaultsLast ==
  ASSUME TypeOK, [Next]_vars, NEW e \in Events, struck'[e] = 0
  PROVE  struck[e] = 0
  <1>1. CASE struck' = struck
    BY <1>1
  <1>2. ASSUME NEW x \in Events, Fault(x)
        PROVE  struck[e] = 0
    BY <1>2, FaultTyped
  <1>3. ASSUME NEW w \in Workers, run[w].pc # "idle", Fault(run[w].event)
        PROVE  struck[e] = 0
    BY <1>2, <1>3, RunTyped
  <1> QED
    BY <1>1, <1>2, <1>3
    DEF Next, Produce, Step, CreateEvent, AddJob, AddJobFails, MarkEnqueueFailed,
        ProducerStops, SetActive, Take, MarkProcessing, SendAccepted, SendRejected, SendThrows,
        MarkSucceeded, ScheduleRetry, Requeue, MarkFailed, Announce, RunThrows, Stall, At, vars

LEMMA ResultsStep ==
  ASSUME TypeOK, Custody, [Next]_vars, NEW e \in Events,
         row[e].status \in {"succeeded", "failed"}, struck'[e] = 0
  PROVE  row'[e] = row[e] /\ sends'[e] = sends[e]
  <1>1. InHand(e)
    BY FaultsLast DEF Custody
  <1>2. producer[e] # "undo" /\ row[e].status # "none"
    BY <1>1 DEF InHand, Unborn, Creating, Waiting, Settled, Running, Books
  <1>3. \A w \in Workers : On(w, e) => run[w].pc = "announce"
    BY <1>1 DEF InHand, Unborn, Creating, Waiting, Settled, Running, Books, Fits, Nobody
  <1> QED
    BY <1>2, <1>3, RowMoves

\* As long as no fault strikes an event, nothing happens to it once it has succeeded
\* or failed.
THEOREM ResultsCorrect == Spec => ResultsLast
  <1>1. TypeOK /\ Custody /\ [Next]_vars =>
          [\A e \in Events :
             row[e].status \in {"succeeded", "failed"} /\ struck'[e] = 0 =>
               row'[e] = row[e] /\ sends'[e] = sends[e]]_vars
    BY ResultsStep
  <1> QED
    BY <1>1, CustodyAlways, PTL DEF Spec, ResultsLast

-----------------------------------------------------------------------------
(* What holds whatever fails.                                              *)

\* A run that is about to write "succeeded" has the endpoint's word.
Heard ==
  \A w \in Workers : \A e \in Events :
    On(w, e) /\ run[w].pc = "succeed" => accepted[e] > 0

LEMMA HeardInit == Init => Heard /\ SucceededWasAccepted
  BY DEF Init, Idle, Heard, SucceededWasAccepted

\* Requests that were accepted stay so.
LEMMA AcceptedGrows ==
  ASSUME TypeOK, [Next]_vars, NEW e \in Events
  PROVE  accepted[e] > 0 => accepted'[e] > 0
  <1>1. CASE accepted' = accepted
    BY <1>1
  <1>2. ASSUME NEW w \in Workers, SendAccepted(w) \/ SendThrows(w)
        PROVE  accepted[e] > 0 => accepted'[e] > 0
    <2>1. run[w].event \in Events
      BY <1>2, RunTyped DEF SendAccepted, SendThrows, At
    <2>2. accepted' \in {accepted, Plus(accepted, run[w].event)}
      BY <1>2 DEF SendAccepted, SendThrows
    <2>3. accepted \in [Events -> Nat] /\ accepted[e] \in Nat
      BY DEF TypeOK
    <2> QED
      BY <2>1, <2>2, <2>3 DEF Plus
  <1> QED
    BY <1>1, <1>2
    DEF Next, Produce, Step, CreateEvent, AddJob, AddJobFails, MarkEnqueueFailed,
        ProducerStops, SetActive, Take, MarkProcessing, SendRejected, MarkSucceeded,
        ScheduleRetry, Requeue, MarkFailed, Announce, RunThrows, Stall, outside, vars

LEMMA HeardStep ==
  ASSUME TypeOK, Heard, SucceededWasAccepted, [Next]_vars
  PROVE  Heard' /\ SucceededWasAccepted'
  <1>1. ASSUME NEW w \in Workers, NEW e \in Events, On(w, e)', run'[w].pc = "succeed"
        PROVE  accepted'[e] > 0
    <2>1. CASE SendAccepted(w)
      <3>1. run[w].pc = "send" /\ Goto(w, "succeed")
        BY <2>1 DEF SendAccepted, At
      <3>2. run[w].event = e
        BY <1>1, <3>1, GotoTyped DEF On
      <3>3. accepted' = Plus(accepted, e) /\ accepted[e] \in Nat /\ accepted \in [Events -> Nat]
        BY <2>1, <3>2 DEF SendAccepted, TypeOK
      <3> QED
        BY <3>3, Counting
    <2>2. CASE On(w, e) /\ run[w].pc = "succeed"
      BY <2>2, AcceptedGrows DEF Heard
    <2>3. SendAccepted(w) \/ (On(w, e) /\ run[w].pc = "succeed")
      <3>1. CASE run'[w] = run[w]
        BY <1>1, <3>1 DEF On
      <3>2. ASSUME NEW v \in Workers, OnlyRun(v), run'[v].pc # "succeed"
            PROVE  run'[w] = run[w]
        BY <1>1, <3>2 DEF OnlyRun
      <3>3. ASSUME NEW v \in Workers, NEW x \in Events, NEW again \in BOOLEAN, Take(v, x, again)
            PROVE  run'[w] = run[w]
        BY <3>2, <3>3, TakeTyped
      <3>4. ASSUME NEW v \in Workers, Step(v), ~SendAccepted(v)
            PROVE  run'[w] = run[w]
        <4>1. run[v].pc # "idle" /\
                \/ Goto(v, "send") \/ Goto(v, "failure") \/ Goto(v, "requeue")
                \/ Goto(v, "announce") \/ End(v)
                \/ run' = [run EXCEPT ![v].pc = "failure", ![v].caught = TRUE]
          BY <3>4 DEF Step, At, MarkProcessing, SendRejected, SendThrows, MarkSucceeded,
                      ScheduleRetry, Requeue, MarkFailed, Announce
        <4>2. OnlyRun(v) /\ run'[v].pc # "succeed"
          BY <4>1, GotoTyped, CaughtTyped, EndTyped
        <4> QED
          BY <3>2, <4>2
      <3>5. ASSUME NEW v \in Workers, v # w, SendAccepted(v)
            PROVE  run'[w] = run[w]
        BY <3>5, GotoTyped DEF SendAccepted, At, OnlyRun
      <3>6. ASSUME NEW v \in Workers, RunThrows(v)
            PROVE  run'[w] = run[w]
        <4>1. OnlyRun(v) /\ run'[v].pc # "succeed"
          BY <3>6, CaughtTyped, EndTyped DEF RunThrows
        <4> QED
          BY <3>2, <4>1
      <3>7. ASSUME NEW v \in Workers, NEW ended \in BOOLEAN, Stall(v, ended)
            PROVE  run'[w] = run[w] \/ (On(w, e) /\ run[w].pc = "succeed")
        <4>1. CASE ended
          BY <3>2, <3>7, <4>1, EndTyped DEF Stall
        <4>2. CASE ~ended
          <5>1. run' = [run EXCEPT ![v].lost = TRUE]
            BY <3>7, <4>2 DEF Stall
          <5>2. run[v] \in Run
            BY DEF TypeOK
          <5>3. /\ [run[v] EXCEPT !.lost = TRUE].pc = run[v].pc
                /\ [run[v] EXCEPT !.lost = TRUE].event = run[v].event
            BY <5>2 DEF Run
          <5>4. run'[w] = run[w] \/ (run'[w] = [run[w] EXCEPT !.lost = TRUE] /\ w = v)
            BY <5>1 DEF TypeOK
          <5> QED
            BY <1>1, <5>3, <5>4 DEF On
        <4> QED
          BY <4>1, <4>2
      <3>8. CASE run' = run
        BY <3>1, <3>8
      <3> QED
        BY <3>1, <3>3, <3>4, <3>5, <3>6, <3>7, <3>8
        DEF Next, Produce, CreateEvent, AddJob, AddJobFails, MarkEnqueueFailed, ProducerStops,
            SetActive, vars
    <2> QED
      BY <2>1, <2>2, <2>3
  <1>2. ASSUME NEW e \in Events, row'[e].status = "succeeded"
        PROVE  accepted'[e] > 0
    <2>1. CASE row[e].status = "succeeded"
      BY <2>1, AcceptedGrows DEF SucceededWasAccepted
    <2>2. ASSUME row[e].status # "succeeded"
          PROVE  \E w \in Workers : On(w, e) /\ run[w].pc = "succeed"
      <3>1. CASE row' = row
        BY <1>2, <2>2, <3>1
      <3>2. ASSUME NEW x \in Events, NEW s, NEW n, Writes(x, s, n), s # "succeeded"
            PROVE  FALSE
        BY <1>2, <2>2, <3>2 DEF Writes, TypeOK
      <3>3. ASSUME NEW w \in Workers, NEW s, NEW n, Writes(run[w].event, s, n), s # "succeeded"
            PROVE  FALSE
        BY <1>2, <2>2, <3>3 DEF Writes, TypeOK
      <3>4. ASSUME NEW w \in Workers, MarkSucceeded(w)
            PROVE  On(w, e) /\ run[w].pc = "succeed"
        BY <1>2, <2>2, <3>4 DEF MarkSucceeded, Writes, On, At, TypeOK
      <3> QED
        BY <3>1, <3>2, <3>3, <3>4
        DEF Next, Produce, Step, CreateEvent, AddJob, AddJobFails, MarkEnqueueFailed,
            ProducerStops, SetActive, Take, MarkProcessing, SendAccepted, SendRejected,
            SendThrows, ScheduleRetry, Requeue, MarkFailed, Announce, RunThrows, Stall, vars
    <2> QED
      BY <2>1, <2>2, AcceptedGrows DEF Heard
  <1> QED
    BY <1>1, <1>2 DEF Heard, SucceededWasAccepted

\* Whatever fails, an event is marked as succeeded only if its endpoint accepted it.
THEOREM AcceptedCorrect == Spec => []SucceededWasAccepted
  <1>1. TypeOK /\ Heard /\ SucceededWasAccepted /\ [Next]_vars =>
          Heard' /\ SucceededWasAccepted'
    BY HeardStep
  <1> QED
    BY <1>1, HeardInit, TypeCorrect, PTL DEF Spec

\* Whatever faults strike, "succeeded" is true; without faults a failure is announced once.
THEOREM OutcomeCorrect == Spec => []OutcomeTold
  BY AcceptedCorrect, AnnouncedCorrect, PTL DEF OutcomeTold

-----------------------------------------------------------------------------
(* The registrations: what an edit saves.                                  *)

FormFields == { "screen", "id", "name", "secret", "inbound", "events", "active", "text", "base",
                "typed" }

RequestFields == { "pc", "page", "id", "dto", "base", "typed", "read", "mounted" }

\* A row, whose settings have all the keys.
FullRow(rw) == DOMAIN rw.settings = SettingsKeys

\* The event types that a form shows for a row.
ShownTypes(rw) ==
  IF ReadWebhookEventTypes(rw.settings) # {} THEN ReadWebhookEventTypes(rw.settings)
  ELSE EventTypes

\* What was not typed into a form is what it was filled with.
FormFits(f) ==
  /\ DOMAIN f = FormFields /\ f.id \in Hooks \cup {Null}
  /\ f.events \subseteq EventTypes /\ DOMAIN f.text = SettingsKeys
  /\ "secret" \notin f.typed => f.secret = Null
  /\ "inbound" \notin f.typed => f.inbound = Null
  /\ f.id # Null =>
       /\ "name" \notin f.typed => f.name = f.base.name
       /\ "active" \notin f.typed => f.active = f.base.active
       /\ "events" \notin f.typed => f.events = ShownTypes(f.base)
       /\ "text" \notin f.typed => f.text = f.base.settings

\* The same of what is sent.
RequestFits(s) ==
  /\ s.id \in Hooks \cup {Null} /\ s.dto.events \subseteq EventTypes
  /\ s.dto.settings # Kept => DOMAIN s.dto.settings = SettingsKeys
  /\ "secret" \notin s.typed => s.dto.secret = Kept
  /\ "inbound" \notin s.typed => s.dto.inbound = Kept
  /\ s.id # Null =>
       /\ "name" \notin s.typed => s.dto.name = s.base.name
       /\ "active" \notin s.typed => s.dto.active = s.base.active
       /\ "events" \notin s.typed => s.dto.events = ShownTypes(s.base)
       /\ "text" \notin s.typed => s.dto.settings = Kept \/ s.dto.settings = s.base.settings

\* The rows that are stored, shown or being edited are whole; what a request carries of the form
\* was typed or is what the list showed; and only a request for a row reads and writes one.
SavesInv ==
  /\ DOMAIN hook = Hooks /\ DOMAIN list = Pages /\ DOMAIN form = Pages /\ DOMAIN sent = Calls
  /\ \A h \in Hooks : hook[h] # Null => FullRow(hook[h])
  /\ \A p \in Pages : \A h \in Hooks :
       list[p][h] # Null => FullRow(list[p][h]) /\ FullRow(hook[h])
  /\ \A p \in Pages : FormFits(form[p]) /\ (form[p].id # Null => FullRow(hook[form[p].id]))
  /\ \A c \in Calls : DOMAIN sent[c] = RequestFields
                        /\ (sent[c].pc # "idle" => sent[c].page \in Pages)
  /\ \A c \in Calls :
       sent[c].pc \in {"sent", "write"} =>
         RequestFits(sent[c]) /\ (sent[c].id # Null => FullRow(hook[sent[c].id]))
  /\ \A c \in Calls :
       sent[c].pc = "write" => sent[c].id # Null /\ DOMAIN sent[c].read = SettingsKeys

\* A request that its page may have forgotten in the meantime.
Alike(s, t) == DOMAIN t = RequestFields /\ \A f \in RequestFields \ {"mounted"} : t[f] = s[f]

\* A request that is not under way.
AtRest(s) ==
  DOMAIN s = RequestFields /\ s.pc \notin {"sent", "write"} /\ (s.pc # "idle" => s.page \in Pages)

LEMMA EmptyFits == \A screen : FormFits(EmptyForm(screen))
  BY DEF FormFits, EmptyForm, FormFields, EmptyJson

LEMMA NoRequestFits == DOMAIN NoRequest = RequestFields /\ NoRequest.pc = "idle"
  BY DEF NoRequest, RequestFields

LEMMA SavesStart == SettingsInit => SavesInv
  <1>1. SUFFICES ASSUME SettingsInit PROVE SavesInv
    OBVIOUS
  <1>2. /\ DOMAIN hook = Hooks /\ DOMAIN list = Pages /\ DOMAIN sent = Calls
        /\ \A c \in Calls : sent[c] = NoRequest
        /\ \A p \in Pages : \A h \in Hooks : list[p][h] = Null
        /\ \A h \in Hooks : hook[h] # Null => FullRow(hook[h])
    BY <1>1, WebhookSettingsAssumption DEF SettingsInit, FullRow
  <1>3. PICK shown \in [Pages -> {"settings", "workspace"}] :
          form = [p \in Pages |-> EmptyForm(shown[p])]
    BY <1>1 DEF SettingsInit
  <1>4. \A p \in Pages : FormFits(form[p]) /\ form[p].id = Null
    BY <1>3, EmptyFits DEF EmptyForm
  <1> QED BY <1>2, <1>3, <1>4, NoRequestFits DEF SavesInv

LEMMA AlikeFits ==
  ASSUME NEW s, NEW t, Alike(s, t)
  PROVE  /\ t.pc = s.pc /\ t.page = s.page /\ t.id = s.id /\ t.read = s.read
         /\ RequestFits(s) => RequestFits(t)
  <1>1. /\ t.pc = s.pc /\ t.page = s.page /\ t.id = s.id /\ t.read = s.read
        /\ t.dto = s.dto /\ t.base = s.base /\ t.typed = s.typed
    BY DEF Alike, RequestFields
  <1> QED BY <1>1 DEF RequestFits

LEMMA NoRequestAtRest == AtRest(NoRequest)
  BY DEF NoRequest, RequestFields, AtRest

\* The invariant after a step that leaves the rows and the lists alone.
LEMMA SavesPrimed ==
  ASSUME SavesInv, UNCHANGED << hook, list >>, DOMAIN form' = Pages, DOMAIN sent' = Calls,
         \A q \in Pages :
           FormFits(form'[q]) /\ (form'[q].id # Null => FullRow(hook[form'[q].id])),
         \A c \in Calls :
           sent'[c].pc \in {"sent", "write"} =>
             RequestFits(sent'[c]) /\ (sent'[c].id # Null => FullRow(hook[sent'[c].id])),
         \A c \in Calls :
           /\ DOMAIN sent'[c] = RequestFields /\ (sent'[c].pc # "idle" => sent'[c].page \in Pages)
           /\ sent'[c].pc = "write" => sent'[c].id # Null /\ DOMAIN sent'[c].read = SettingsKeys
  PROVE  SavesInv'
  <1>1. /\ DOMAIN hook' = Hooks /\ DOMAIN list' = Pages
        /\ \A h \in Hooks : hook'[h] # Null => FullRow(hook'[h])
    BY DEF SavesInv
  <1>2. \A q \in Pages : \A h \in Hooks :
          list'[q][h] # Null => FullRow(list'[q][h]) /\ FullRow(hook'[h])
    BY DEF SavesInv
  <1> QED BY <1>1, <1>2 DEF SavesInv, FullRow, FormFits, RequestFits, ShownTypes,
                            ReadWebhookEventTypes

\* A step that changes the form of one page only; requests are forgotten, or come to rest.
LEMMA FormChanged ==
  ASSUME SavesInv, NEW p \in Pages, NEW f, form' = [form EXCEPT ![p] = f],
         FormFits(f), f.id # Null => FullRow(hook[f.id]), UNCHANGED << hook, list >>,
         DOMAIN sent' = Calls,
         \A c \in Calls : Alike(sent[c], sent'[c]) \/ AtRest(sent'[c])
  PROVE  SavesInv'
  <1>1. \A q \in Pages : form'[q] = IF q = p THEN f ELSE form[q]
    BY DEF SavesInv
  <1>2. DOMAIN form' = Pages
    BY DEF SavesInv
  <1>3. \A q \in Pages : FormFits(form'[q]) /\ (form'[q].id # Null => FullRow(hook[form'[q].id]))
    BY <1>1 DEF SavesInv
  <1>4. \A c \in Calls :
          /\ sent'[c].pc \in {"sent", "write"} =>
               RequestFits(sent'[c]) /\ (sent'[c].id # Null => FullRow(hook[sent'[c].id]))
          /\ DOMAIN sent'[c] = RequestFields /\ (sent'[c].pc # "idle" => sent'[c].page \in Pages)
          /\ sent'[c].pc = "write" => sent'[c].id # Null /\ DOMAIN sent'[c].read = SettingsKeys
    <2> TAKE c \in Calls
    <2>1. CASE Alike(sent[c], sent'[c])
      <3>1. /\ sent'[c].pc = sent[c].pc /\ sent'[c].page = sent[c].page
            /\ sent'[c].id = sent[c].id /\ sent'[c].read = sent[c].read
            /\ RequestFits(sent[c]) => RequestFits(sent'[c])
        BY <2>1, AlikeFits
      <3>2. DOMAIN sent'[c] = RequestFields
        BY <2>1 DEF Alike
      <3> QED BY <3>1, <3>2 DEF SavesInv
    <2>2. CASE AtRest(sent'[c])
      BY <2>2 DEF AtRest
    <2> QED BY <2>1, <2>2
  <1> QED BY <1>2, <1>3, <1>4, SavesPrimed

\* A page that leaves or empties its form forgets its request.
LEMMA PageForgets ==
  ASSUME SavesInv, NEW p \in Pages, NEW screen, form' = [form EXCEPT ![p] = EmptyForm(screen)],
         sent' = Forgotten(p), UNCHANGED << hook, list >>
  PROVE  SavesInv'
  <1> DEFINE f == EmptyForm(screen)
  <1>1. FormFits(f) /\ f.id = Null /\ form' = [form EXCEPT ![p] = f]
    BY EmptyFits DEF EmptyForm
  <1> HIDE DEF f
  <1>2. DOMAIN sent' = Calls
    BY DEF Forgotten
  <1>3. \A c \in Calls : Alike(sent[c], sent'[c])
    <2> TAKE c \in Calls
    <2>1. DOMAIN sent[c] = RequestFields
      BY DEF SavesInv
    <2>2. sent'[c] = sent[c] \/ sent'[c] = [sent[c] EXCEPT !.mounted = FALSE]
      BY DEF Forgotten
    <2> QED BY <2>1, <2>2 DEF Alike, RequestFields
  <1> QED BY <1>1, <1>2, <1>3, FormChanged

\* A step that changes one request only.
LEMMA RequestChanged ==
  ASSUME SavesInv, NEW c \in Calls, NEW s, sent' = [sent EXCEPT ![c] = s],
         DOMAIN s = RequestFields, s.pc # "idle" => s.page \in Pages,
         s.pc \in {"sent", "write"} => RequestFits(s) /\ (s.id # Null => FullRow(hook[s.id])),
         s.pc = "write" => s.id # Null /\ DOMAIN s.read = SettingsKeys,
         UNCHANGED << hook, list, form >>
  PROVE  SavesInv'
  <1>1. \A d \in Calls : sent'[d] = IF d = c THEN s ELSE sent[d]
    BY DEF SavesInv
  <1>2. DOMAIN sent' = Calls
    BY DEF SavesInv
  <1>3. \A d \in Calls :
          sent'[d].pc \in {"sent", "write"} =>
            RequestFits(sent'[d]) /\ (sent'[d].id # Null => FullRow(hook[sent'[d].id]))
    BY <1>1 DEF SavesInv
  <1>4. \A d \in Calls :
          /\ DOMAIN sent'[d] = RequestFields /\ (sent'[d].pc # "idle" => sent'[d].page \in Pages)
          /\ sent'[d].pc = "write" => sent'[d].id # Null /\ DOMAIN sent'[d].read = SettingsKeys
    BY <1>1 DEF SavesInv
  <1> QED BY <1>2, <1>3, <1>4, SavesPrimed DEF SavesInv

\* A step that writes one row and answers the request.
LEMMA RowWritten ==
  ASSUME SavesInv, NEW c \in Calls, NEW h \in Hooks, NEW rw, FullRow(rw),
         Stored(h, rw), Answer(c), sent[c].page \in Pages
  PROVE  SavesInv'
  <1>1. hook' = [hook EXCEPT ![h] = rw] /\ UNCHANGED << list, form >>
    BY DEF Stored
  <1>2. DOMAIN hook' = Hooks /\ \A g \in Hooks : hook'[g] = IF g = h THEN rw ELSE hook[g]
    BY <1>1 DEF SavesInv
  <1>3. \A g \in Hooks : FullRow(hook[g]) => FullRow(hook'[g])
    BY <1>2
  <1>4. /\ DOMAIN sent' = Calls
        /\ \A d \in Calls : IF d = c
                            THEN /\ sent'[d].pc = "done" /\ DOMAIN sent'[d] = RequestFields
                                 /\ sent'[d].page \in Pages
                            ELSE sent'[d] = sent[d]
    BY DEF Answer, SavesInv, NoRequest, RequestFields
  <1>5. \A g \in Hooks : hook'[g] # Null => FullRow(hook'[g])
    BY <1>2 DEF SavesInv
  <1>6. \A q \in Pages : \A g \in Hooks :
          list'[q][g] # Null => FullRow(list'[q][g]) /\ FullRow(hook'[g])
    BY <1>1, <1>3 DEF SavesInv
  <1>7. \A q \in Pages : FormFits(form'[q]) /\ (form'[q].id # Null => FullRow(hook'[form'[q].id]))
    BY <1>1, <1>3 DEF SavesInv, FormFits
  <1>8. \A d \in Calls :
          sent'[d].pc \in {"sent", "write"} =>
            RequestFits(sent'[d]) /\ (sent'[d].id # Null => FullRow(hook'[sent'[d].id]))
    BY <1>3, <1>4 DEF SavesInv, RequestFits
  <1>9. \A d \in Calls :
          /\ DOMAIN sent'[d] = RequestFields /\ (sent'[d].pc # "idle" => sent'[d].page \in Pages)
          /\ sent'[d].pc = "write" => sent'[d].id # Null /\ DOMAIN sent'[d].read = SettingsKeys
    BY <1>4 DEF SavesInv
  <1> QED BY <1>1, <1>2, <1>4, <1>5, <1>6, <1>7, <1>8, <1>9
          DEF SavesInv, FullRow, FormFits, ShownTypes, ReadWebhookEventTypes, RequestFits

\* A value typed into one field of a form.
LEMMA TypedFits ==
  ASSUME NEW f, FormFits(f), NEW field \in Inputs, NEW value, NEW g,
         field = "events" => value \subseteq EventTypes,
         field = "text" => DOMAIN value = SettingsKeys,
         DOMAIN g = FormFields, g.typed = f.typed \cup {field}, g[field] = value,
         \A x \in FormFields \ {field, "typed"} : g[x] = f[x]
  PROVE  FormFits(g) /\ g.id = f.id
  <1>1. g.id = f.id /\ g.base = f.base
    BY DEF FormFields, Inputs
  <1>2. /\ field # "name" => g.name = f.name
        /\ field # "active" => g.active = f.active
        /\ field # "events" => g.events = f.events
        /\ field # "text" => g.text = f.text
        /\ field # "secret" => g.secret = f.secret
        /\ field # "inbound" => g.inbound = f.inbound
    BY DEF FormFields
  <1>3. /\ field = "events" => g.events \subseteq EventTypes
        /\ field = "text" => DOMAIN g.text = SettingsKeys
    OBVIOUS
  <1> QED BY <1>1, <1>2, <1>3 DEF FormFits

LEMMA UpdateFormSaves ==
  ASSUME SavesInv, NEW p \in Pages, NEW field \in Inputs, NEW value,
         field = "events" => value \subseteq EventTypes,
         field = "text" => DOMAIN value = SettingsKeys, UpdateForm(p, field, value)
  PROVE  SavesInv'
  <1> DEFINE g == [form[p] EXCEPT ![field] = value, !.typed = @ \cup {field}]
  <1>1. FormFits(form[p]) /\ DOMAIN form = Pages
    BY DEF SavesInv
  <1>2. field \in FormFields /\ field # "typed" /\ DOMAIN form[p] = FormFields
    BY <1>1 DEF Inputs, FormFields, FormFits
  <1>3. form' = [form EXCEPT ![p] = g] /\ UNCHANGED << hook, list, sent >>
    BY <1>1, <1>2 DEF UpdateForm
  <1>4. /\ DOMAIN g = FormFields /\ g.typed = form[p].typed \cup {field} /\ g[field] = value
        /\ \A x \in FormFields \ {field, "typed"} : g[x] = form[p][x]
    BY <1>2 DEF FormFields
  <1> HIDE DEF g
  <1>5. FormFits(g) /\ g.id = form[p].id
    BY <1>1, <1>4, TypedFits
  <1>6. g.id # Null => FullRow(hook[g.id])
    BY <1>5 DEF SavesInv
  <1>7. \A c \in Calls : Alike(sent[c], sent'[c])
    BY <1>3 DEF SavesInv, Alike
  <1> QED BY <1>3, <1>5, <1>6, <1>7, FormChanged DEF SavesInv

\* What an update leaves in the row.
LEMMA UpdatedRow ==
  ASSUME NEW rw, NEW s, RequestFits(s), DOMAIN s.read = SettingsKeys
  PROVE  LET new == Updated(rw, s.dto, s.read) IN
         /\ FullRow(new)
         /\ new.settings["eventTypes"] = s.dto.events
         /\ \A k \in Keys : new.settings[k] = IF s.dto.settings # Kept /\ s.dto.settings[k] # Null
                                              THEN s.dto.settings[k] ELSE s.read[k]
  <1> DEFINE merged == MergeSettings(s.read, s.dto.settings, s.dto.events)
             built == BuildWebhookSettings(s.dto.events, merged)
  <1>1. s.dto.events # Kept
    BY WebhookSettingsAssumption DEF RequestFits
  <1>2. Updated(rw, s.dto, s.read).settings = built
    BY <1>1 DEF Updated, Or
  <1>3. DOMAIN merged = SettingsKeys /\ "eventTypes" \in SettingsKeys /\ Keys \subseteq SettingsKeys
    BY DEF MergeSettings, SettingsKeys
  <1>4. \A k \in Keys : merged[k] = IF s.dto.settings # Kept /\ s.dto.settings[k] # Null
                                    THEN s.dto.settings[k] ELSE s.read[k]
    BY <1>3, WebhookSettingsAssumption DEF MergeSettings
  <1> HIDE DEF merged
  <1>5. /\ DOMAIN built = SettingsKeys /\ built["eventTypes"] = s.dto.events
        /\ \A k \in Keys : built[k] = merged[k]
    BY <1>1, <1>3, WebhookSettingsAssumption DEF BuildWebhookSettings
  <1> HIDE DEF built
  <1> QED BY <1>2, <1>4, <1>5 DEF FullRow

LEMMA SubmitSaves ==
  ASSUME SavesInv, NEW p \in Pages, NEW c \in Calls, SubmitWebhook(p, c)
  PROVE  SavesInv'
  <1> DEFINE f == form[p]
             s == [ pc |-> "sent", page |-> p, id |-> f.id, dto |-> FormToPayload(f), base |-> f.base,
                    typed |-> f.typed, read |-> Null, mounted |-> TRUE ]
  <1>1. FormFits(f) /\ (f.id # Null => FullRow(hook[f.id]))
    BY DEF SavesInv
  <1>2. sent' = [sent EXCEPT ![c] = s] /\ UNCHANGED << hook, list, form >>
    BY DEF SubmitWebhook
  <1>3. /\ s.pc = "sent" /\ s.page = p /\ s.id = f.id /\ s.typed = f.typed /\ s.base = f.base
        /\ DOMAIN s = RequestFields /\ s.dto = FormToPayload(f)
    BY DEF RequestFields
  <1>4. /\ s.dto.name = f.name /\ s.dto.active = f.active /\ s.dto.events = f.events
        /\ s.dto.secret = Filled(f.secret) /\ s.dto.inbound = Filled(f.inbound)
        /\ s.dto.settings = Kept \/ s.dto.settings = f.text
    BY <1>3 DEF FormToPayload
  <1> HIDE DEF f, s
  <1>5. RequestFits(s)
    BY <1>1, <1>3, <1>4 DEF RequestFits, FormFits, Filled
  <1> QED BY <1>1, <1>2, <1>3, <1>5, RequestChanged

LEMMA FindSaves ==
  ASSUME SavesInv, NEW c \in Calls, FindRegistration(c)
  PROVE  SavesInv'
  <1> DEFINE s == [sent[c] EXCEPT !.pc = "write", !.read = hook[sent[c].id].settings]
  <1>1. DOMAIN sent = Calls /\ DOMAIN sent[c] = RequestFields /\ sent[c].id # Null /\ sent[c].page \in Pages
        /\ RequestFits(sent[c]) /\ FullRow(hook[sent[c].id])
    BY DEF SavesInv, FindRegistration
  <1>2. sent' = [sent EXCEPT ![c] = s] /\ UNCHANGED << hook, list, form >>
    BY <1>1 DEF FindRegistration
  <1>3. /\ DOMAIN s = RequestFields /\ s.id = sent[c].id /\ s.page = sent[c].page
        /\ s.dto = sent[c].dto
        /\ s.typed = sent[c].typed /\ s.base = sent[c].base /\ s.read = hook[sent[c].id].settings
    BY <1>1 DEF RequestFields
  <1> HIDE DEF s
  <1>4. RequestFits(s)
    BY <1>1, <1>3 DEF RequestFits
  <1>5. DOMAIN s.read = SettingsKeys
    BY <1>1, <1>3 DEF FullRow
  <1> QED BY <1>1, <1>2, <1>3, <1>4, <1>5, RequestChanged

LEMMA EditSaves ==
  ASSUME SavesInv, NEW p \in Pages, NEW h \in Hooks, EditWebhook(p, h)
  PROVE  SavesInv'
  <1> DEFINE f == FilledForm(form[p].screen, h, list[p][h])
  <1>1. FullRow(list[p][h]) /\ FullRow(hook[h]) /\ DOMAIN form = Pages
    BY DEF SavesInv, EditWebhook
  <1>2. form' = [form EXCEPT ![p] = f] /\ UNCHANGED << hook, list, sent >>
    BY <1>1 DEF EditWebhook
  <1>3. FormFits(f) /\ f.id = h
    BY <1>1 DEF FilledForm, FormFits, FormFields, FullRow, ShownTypes, ReadWebhookEventTypes
  <1> HIDE DEF f
  <1>4. \A c \in Calls : Alike(sent[c], sent'[c])
    BY <1>2 DEF SavesInv, Alike
  <1> QED BY <1>1, <1>2, <1>3, <1>4, FormChanged DEF SavesInv

LEMMA RegisterSaves ==
  ASSUME SavesInv, NEW c \in Calls, NEW h \in Hooks, RegisterWebhook(c, h)
  PROVE  SavesInv'
  <1> DEFINE dto == sent[c].dto
             json == Or(dto.settings, EmptyJson)
             rw == [ name |-> dto.name, active |-> Or(dto.active, TRUE), secret |-> dto.secret,
                     inbound |-> IF dto.inbound = Kept THEN Null ELSE dto.inbound,
                     settings |-> BuildWebhookSettings(dto.events, json) ]
  <1>1. Stored(h, rw) /\ Answer(c) /\ RequestFits(sent[c]) /\ sent[c].page \in Pages
    BY DEF RegisterWebhook, SavesInv
  <1>2. DOMAIN json = SettingsKeys
    BY <1>1 DEF RequestFits, Or, EmptyJson
  <1> HIDE DEF json
  <1>3. FullRow(rw)
    BY <1>2 DEF FullRow, BuildWebhookSettings
  <1> HIDE DEF rw
  <1> QED BY <1>1, <1>3, RowWritten

LEMMA UpdateSaves ==
  ASSUME SavesInv, NEW c \in Calls, UpdateWebhook(c)
  PROVE  SavesInv'
  <1> DEFINE rw == Updated(hook[sent[c].id], sent[c].dto, sent[c].read)
  <1>1. Stored(sent[c].id, rw) /\ Answer(c) /\ sent[c].pc = "write"
    BY DEF UpdateWebhook
  <1>2. RequestFits(sent[c]) /\ DOMAIN sent[c].read = SettingsKeys /\ sent[c].id # Null
        /\ sent[c].page \in Pages
    BY <1>1 DEF SavesInv
  <1>3. FullRow(rw) /\ sent[c].id \in Hooks
    BY <1>2, UpdatedRow DEF RequestFits
  <1> HIDE DEF rw
  <1> QED BY <1>1, <1>2, <1>3, RowWritten

LEMMA SavesStep == SavesInv /\ [SettingsNext]_settingsVars => SavesInv'
  <1>1. SUFFICES ASSUME SavesInv, [SettingsNext]_settingsVars PROVE SavesInv'
    OBVIOUS
  <1>2. CASE UNCHANGED << hook, list, form, sent >>
    BY <1>1, <1>2 DEF SavesInv, FullRow, FormFits, RequestFits, ShownTypes, ReadWebhookEventTypes
  <1>3. ASSUME NEW p \in Pages, ListWebhooks(p) PROVE SavesInv'
    <2>1. /\ DOMAIN list' = Pages /\ \A q \in Pages : list'[q] = IF q = p THEN hook ELSE list[q]
          /\ UNCHANGED << hook, form, sent >>
      BY <1>1, <1>3 DEF ListWebhooks, SavesInv
    <2>2. \A q \in Pages : \A h \in Hooks :
            list'[q][h] # Null => FullRow(list'[q][h]) /\ FullRow(hook'[h])
      BY <1>1, <2>1 DEF SavesInv
    <2>3. /\ \A q \in Pages : FormFits(form'[q]) /\ (form'[q].id # Null => FullRow(hook'[form'[q].id]))
          /\ DOMAIN form' = Pages /\ DOMAIN sent' = Calls
      BY <1>1, <2>1 DEF SavesInv
    <2>4. \A c \in Calls :
            /\ DOMAIN sent'[c] = RequestFields /\ (sent'[c].pc # "idle" => sent'[c].page \in Pages)
            /\ sent'[c].pc \in {"sent", "write"} =>
                 RequestFits(sent'[c]) /\ (sent'[c].id # Null => FullRow(hook'[sent'[c].id]))
            /\ sent'[c].pc = "write" => sent'[c].id # Null /\ DOMAIN sent'[c].read = SettingsKeys
      BY <1>1, <2>1 DEF SavesInv
    <2>5. DOMAIN hook' = Hooks /\ \A h \in Hooks : hook'[h] # Null => FullRow(hook'[h])
      BY <1>1, <2>1 DEF SavesInv
    <2> QED BY <2>1, <2>2, <2>3, <2>4, <2>5 DEF SavesInv, FullRow, FormFits, RequestFits, ShownTypes,
                                                ReadWebhookEventTypes
  <1>4. ASSUME NEW p \in Pages, ResetForm(p) PROVE SavesInv'
    <2>1. form' = [form EXCEPT ![p] = EmptyForm(form[p].screen)]
      BY <1>1, <1>4 DEF ResetForm, SavesInv
    <2> QED BY <1>1, <1>4, <2>1, PageForgets DEF ResetForm
  <1>5. ASSUME NEW p \in Pages, NEW c \in Calls, SubmitWebhook(p, c) PROVE SavesInv'
    BY <1>1, <1>5, SubmitSaves
  <1>6. ASSUME NEW c \in Calls, TakeAnswer(c) PROVE SavesInv'
    <2>1. CASE sent[c].mounted
      <3> DEFINE p == sent[c].page
                 f == EmptyForm(form[p].screen)
      <3>1. p \in Pages
        BY <1>1, <1>6 DEF TakeAnswer, SavesInv
      <3>2. form' = [form EXCEPT ![p] = f] /\ UNCHANGED << hook, list >>
        BY <1>1, <1>6, <2>1, <3>1 DEF TakeAnswer, SavesInv
      <3>3. FormFits(f) /\ f.id = Null
        BY EmptyFits DEF EmptyForm
      <3>4. DOMAIN sent' = Calls /\ \A d \in Calls : sent'[d] = IF d = c THEN NoRequest ELSE sent[d]
        BY <1>1, <1>6 DEF TakeAnswer, SavesInv
      <3>5. \A d \in Calls : Alike(sent[d], sent'[d]) \/ AtRest(sent'[d])
        BY <1>1, <3>4, NoRequestAtRest DEF SavesInv, Alike
      <3> HIDE DEF p, f
      <3> QED BY <1>1, <3>1, <3>2, <3>3, <3>4, <3>5, FormChanged
    <2>2. CASE ~sent[c].mounted
      BY <1>1, <1>6, <2>2, NoRequestFits, RequestChanged DEF TakeAnswer
    <2> QED BY <2>1, <2>2
  <1>7. ASSUME NEW c \in Calls, RequestFails(c) PROVE SavesInv'
    BY <1>1, <1>7, NoRequestFits, RequestChanged DEF RequestFails
  <1>8. ASSUME NEW p \in Pages, NEW screen, OpenScreen(p, screen) PROVE SavesInv'
    BY <1>1, <1>8, PageForgets DEF OpenScreen
  <1>9. ASSUME NEW p \in Pages, NEW h \in Hooks, EditWebhook(p, h) PROVE SavesInv'
    BY <1>1, <1>9, EditSaves
  <1>10. ASSUME NEW c \in Calls, NEW h \in Hooks, RegisterWebhook(c, h) PROVE SavesInv'
    BY <1>1, <1>10, RegisterSaves
  <1>11. ASSUME NEW p \in Pages, NEW field \in DOMAIN Typings[p], NEW value \in Typings[p][field],
                UpdateForm(p, field, value)
         PROVE  SavesInv'
    <2>1. /\ field \in Inputs
          /\ field = "events" => value \subseteq EventTypes
          /\ field = "text" => DOMAIN value = SettingsKeys
      BY WebhookSettingsAssumption
    <2> QED BY <1>1, <1>11, <2>1, UpdateFormSaves
  <1>12. ASSUME NEW p \in Pages, NEW type \in Toggles[p], ToggleEvent(p, type) PROVE SavesInv'
    <2>1. type \in EventTypes /\ form[p].events \subseteq EventTypes /\ "events" \in Inputs
      BY <1>1, WebhookSettingsAssumption DEF SavesInv, FormFits, Inputs
    <2> QED BY <1>1, <1>12, <2>1, UpdateFormSaves DEF ToggleEvent
  <1>13. ASSUME NEW c \in Calls, FindRegistration(c) PROVE SavesInv'
    BY <1>1, <1>13, FindSaves
  <1>14. ASSUME NEW c \in Calls, UpdateWebhook(c) PROVE SavesInv'
    BY <1>1, <1>14, UpdateSaves
  <1>15. ASSUME \/ \E type \in EventTypes, orders \in Subjects : LookUp(type, orders)
                \/ CreateEventRow \/ QueueJob \/ QueueJobFails \/ StatementFails
                \/ UNCHANGED settingsVars
         PROVE  UNCHANGED << hook, list, form, sent >>
    BY <1>15 DEF LookUp, CreateEventRow, QueueJob, QueueJobFails, StatementFails, settingsVars
  <1> QED BY <1>1, <1>2, <1>3, <1>4, <1>5, <1>6, <1>7, <1>8, <1>9, <1>10, <1>11, <1>12, <1>13,
              <1>14, <1>15 DEF SettingsNext


\* What a save leaves of a row, given what its page and the service had read.
SavedFits(s, old, new) ==
  /\ \A f \in {"secret", "inbound"} \ s.typed : new[f] = old[f]
  /\ \A f \in {"name", "active"} \ s.typed : s.base[f] = old[f] => new[f] = old[f]
  /\ "events" \notin s.typed =>
       (ReadWebhookEventTypes(s.base.settings) = ReadWebhookEventTypes(old.settings) =>
          ReadWebhookEventTypes(new.settings) = NeverNone(ReadWebhookEventTypes(old.settings)))
  /\ \A k \in Keys :
       /\ s.read[k] # Null => new.settings[k] # Null
       /\ /\ "text" \notin s.typed /\ s.read[k] = old.settings[k]
          /\ s.dto.settings # Kept => s.base.settings[k] = old.settings[k]
          => new.settings[k] = old.settings[k]

LEMMA UpdatedFits ==
  ASSUME NEW old, NEW s, RequestFits(s), s.id # Null, DOMAIN s.read = SettingsKeys
  PROVE  SavedFits(s, old, Updated(old, s.dto, s.read))
  <1> DEFINE rw == Updated(old, s.dto, s.read)
  <1>1. /\ rw.settings["eventTypes"] = s.dto.events
        /\ \A k \in Keys : rw.settings[k] = IF s.dto.settings # Kept /\ s.dto.settings[k] # Null
                                            THEN s.dto.settings[k] ELSE s.read[k]
    BY UpdatedRow
  <1>2. /\ rw.name = Or(s.dto.name, old.name) /\ rw.active = Or(s.dto.active, old.active)
        /\ rw.secret = Or(s.dto.secret, old.secret) /\ rw.inbound = Or(s.dto.inbound, old.inbound)
    BY DEF Updated
  <1> HIDE DEF rw
  <1>3. \A f \in {"secret", "inbound"} \ s.typed : rw[f] = old[f]
    BY <1>2 DEF RequestFits, Or
  <1>4. \A f \in {"name", "active"} \ s.typed : s.base[f] = old[f] => rw[f] = old[f]
    BY <1>2 DEF RequestFits, Or
  <1>5. ASSUME "events" \notin s.typed,
               ReadWebhookEventTypes(s.base.settings) = ReadWebhookEventTypes(old.settings)
        PROVE  ReadWebhookEventTypes(rw.settings) = NeverNone(ReadWebhookEventTypes(old.settings))
    <2>1. s.dto.events = NeverNone(ReadWebhookEventTypes(old.settings))
      BY <1>5 DEF RequestFits, ShownTypes, NeverNone
    <2>2. s.dto.events \subseteq EventTypes /\ s.dto.events # Null
      BY WebhookSettingsAssumption DEF RequestFits
    <2>3. ReadWebhookEventTypes(rw.settings) = s.dto.events
      BY <1>1, <2>2 DEF ReadWebhookEventTypes
    <2> QED BY <2>1, <2>3
  <1>6. \A k \in Keys : s.read[k] # Null => rw.settings[k] # Null
    BY <1>1
  <1>7. ASSUME NEW k \in Keys, "text" \notin s.typed, s.read[k] = old.settings[k],
               s.dto.settings # Kept => s.base.settings[k] = old.settings[k]
        PROVE  rw.settings[k] = old.settings[k]
    BY <1>1, <1>7 DEF RequestFits
  <1>8. SavedFits(s, old, rw)
    BY <1>3, <1>4, <1>5, <1>6, <1>7 DEF SavedFits
  <1> QED BY <1>8 DEF rw

\* However saves overlap, one changes a field only if it was typed, or if somebody else has
\* changed that field since the page or the service read it.
THEOREM SavesCorrect == SettingsSpec => SavesWhatIsTyped
  <1> DEFINE Saves ==
               \A c \in Calls, h \in Hooks :
                 hook[h] # Null /\ hook'[h] # hook[h] /\ sent[c].pc = "write"
                 /\ sent'[c].pc = "done" => SavedFits(sent[c], hook[h], hook'[h])
  <1>1. SavesInv /\ [SettingsNext]_settingsVars => [Saves]_settingsVars
    <2>1. SUFFICES ASSUME SavesInv, SettingsNext, NEW c \in Calls, NEW h \in Hooks,
                          hook[h] # Null, hook'[h] # hook[h], sent[c].pc = "write",
                          sent'[c].pc = "done"
                   PROVE  SavedFits(sent[c], hook[h], hook'[h])
      OBVIOUS
    <2>2. UpdateWebhook(c)
      <3>1. ASSUME NEW d \in Calls, NEW g \in Hooks, RegisterWebhook(d, g) PROVE FALSE
        BY <2>1, <3>1 DEF RegisterWebhook, Answer, SavesInv
      <3>2. ASSUME NEW d \in Calls, d # c, UpdateWebhook(d) PROVE FALSE
        BY <2>1, <3>2 DEF UpdateWebhook, Answer, SavesInv
      <3>3. ASSUME NEW p \in Pages,
                   \/ ListWebhooks(p) \/ ResetForm(p)
                   \/ \E screen \in Screens[p] : OpenScreen(p, screen)
                   \/ \E g \in Hooks : EditWebhook(p, g)
                   \/ \E field \in DOMAIN Typings[p] : \E value \in Typings[p][field] :
                        UpdateForm(p, field, value)
                   \/ \E type \in Toggles[p] : ToggleEvent(p, type)
                   \/ \E d \in Calls : SubmitWebhook(p, d)
            PROVE  hook' = hook
        BY <3>3 DEF ListWebhooks, ResetForm, SubmitWebhook, OpenScreen, EditWebhook, UpdateForm,
                    ToggleEvent
      <3>4. ASSUME \/ \E d \in Calls : TakeAnswer(d) \/ RequestFails(d) \/ FindRegistration(d)
                   \/ \E type \in EventTypes, orders \in Subjects : LookUp(type, orders)
                   \/ CreateEventRow \/ QueueJob \/ QueueJobFails \/ StatementFails
            PROVE  hook' = hook
        BY <3>4 DEF TakeAnswer, RequestFails, FindRegistration, LookUp, CreateEventRow, QueueJob,
                    QueueJobFails, StatementFails
      <3> QED BY <2>1, <3>1, <3>2, <3>3, <3>4 DEF SettingsNext
    <2>3. RequestFits(sent[c]) /\ sent[c].id # Null /\ DOMAIN sent[c].read = SettingsKeys
      BY <2>1 DEF SavesInv
    <2>4. h = sent[c].id /\ hook'[h] = Updated(hook[h], sent[c].dto, sent[c].read)
      BY <2>1, <2>2 DEF UpdateWebhook, Stored, SavesInv
    <2> QED BY <2>3, <2>4, UpdatedFits
  <1> HIDE DEF Saves
  <1>2. SettingsSpec => [][Saves]_settingsVars
    BY <1>1, SavesStart, SavesStep, PTL DEF SettingsSpec
  <1> QED BY <1>2 DEF SavesWhatIsTyped, Saves, SavedFits

-----------------------------------------------------------------------------
(* The registrations: who is told of an event.                             *)

Pass == [ pc : {"create", "add", "done"}, type : EventTypes \cup {Null},
          orders : SUBSET (External \cup Mapped), todo : SUBSET Hooks, told : SUBSET Hooks,
          unsent : SUBSET Hooks, touched : SUBSET Hooks, broken : BOOLEAN ]

\* While an event is passed on, who has been told and who is still to be told are together
\* those who want it, as far as nobody has changed them; only the loop's end ends it.
PassInv ==
  /\ news \in Pass /\ DOMAIN hook = Hooks
  /\ news.type # Null => news.orders # {}
  /\ news.pc # "done" => news.todo # {} /\ ~news.broken /\ news.type # Null
  /\ news.pc = "add" => Least(news.todo) \in news.told
  /\ news.pc = "done" /\ ~news.broken => news.todo = {}
  /\ news.type # Null /\ ~news.broken =>
       \A h \in Hooks \ news.touched :
         h \in news.told \cup news.todo <=> h \in Wanting(news.type)

\* A set of naturals has a smallest element.
LEMMA Smallest ==
  ASSUME NEW S, S \subseteq Nat, S # {}
  PROVE  \E m \in S : \A n \in S : m <= n
  <1>1. PICK m \in S : \A n \in S : ~ (<< n, m >> \in OpToRel(<, Nat))
    BY NatLessThanWellFounded, WFMin
  <1>2. \A n \in S : ~ (n < m)
    BY <1>1 DEF OpToRel
  <1> QED BY <1>2

LEMMA LeastIn ==
  ASSUME NEW S, S \subseteq Hooks, S # {}
  PROVE  Least(S) \in S
  <1>1. S \subseteq Nat
    BY WebhookSettingsAssumption
  <1>2. \E m \in S : \A n \in S : m <= n
    BY <1>1, Smallest
  <1> QED BY <1>2 DEF Least

LEMMA PassInit == SettingsInit => PassInv
  BY WebhookSettingsAssumption DEF SettingsInit, PassInv, Quiet, Pass

\* A step that writes at most one registration, and says so.
LEMMA PassKept ==
  ASSUME PassInv, NEW h \in Hooks, NEW rw, Stored(h, rw)
  PROVE  PassInv'
  <1>1. hook' = [hook EXCEPT ![h] = rw] /\ news' = [news EXCEPT !.touched = @ \cup {h}]
    BY DEF Stored
  <1>2. /\ news' \in Pass /\ news'.type = news.type /\ news'.pc = news.pc
        /\ news'.todo = news.todo /\ news'.told = news.told /\ news'.orders = news.orders
        /\ news'.broken = news.broken /\ news'.touched = news.touched \cup {h}
    BY <1>1 DEF PassInv, Pass
  <1>3. DOMAIN hook' = Hooks /\ \A g \in Hooks : g # h => hook'[g] = hook[g]
    BY <1>1 DEF PassInv
  <1>4. \A g \in Hooks \ news'.touched : g \in Wanting(news.type)' <=> g \in Wanting(news.type)
    BY <1>2, <1>3 DEF Wanting, ReadWebhookEventTypes
  <1> QED BY <1>2, <1>3, <1>4 DEF PassInv, Least

\* A step of the loop that leaves the registrations alone.
LEMMA PassMoves ==
  ASSUME PassInv, news' \in Pass, UNCHANGED hook, news.type # Null, ~news.broken,
         news'.type = news.type, news'.orders = news.orders, news'.touched = news.touched,
         news'.broken \/ \A h \in Hooks : h \in news'.told \cup news'.todo
                                          <=> h \in news.told \cup news.todo,
         news'.pc # "done" => news'.todo # {} /\ ~news'.broken,
         news'.pc = "add" => Least(news'.todo) \in news'.told,
         news'.pc = "done" /\ ~news'.broken => news'.todo = {}
  PROVE  PassInv'
  <1>1. DOMAIN hook' = Hooks /\ news'.type # Null /\ news'.orders # {}
    BY DEF PassInv
  <1>2. \A h \in Hooks : h \in Wanting(news.type)' <=> h \in Wanting(news.type)
    BY DEF Wanting, ReadWebhookEventTypes
  <1>3. ~news'.broken => \A h \in Hooks \ news'.touched :
          h \in news'.told \cup news'.todo <=> h \in Wanting(news.type)'
    BY <1>2 DEF PassInv
  <1> QED BY <1>1, <1>3 DEF PassInv, Least

\* On to the next registration.
LEMMA Followed ==
  ASSUME PassInv, news.pc = "add", UNCHANGED hook, NEW pass \in Pass,
         pass.pc = news.pc, pass.type = news.type, pass.orders = news.orders,
         pass.todo = news.todo, pass.told = news.told, pass.touched = news.touched,
         pass.broken = news.broken, news' = Following(pass)
  PROVE  PassInv'
  <1> DEFINE rest == news.todo \ {Least(news.todo)}
  <1>1. /\ news'.todo = rest /\ news'.pc = (IF rest = {} THEN "done" ELSE "create")
        /\ news'.type = news.type /\ news'.told = news.told /\ news'.orders = news.orders
        /\ news'.broken = news.broken /\ news'.touched = news.touched /\ news' \in Pass
    BY DEF Following, Pass
  <1>2. Least(news.todo) \in news.told /\ news.type # Null /\ ~news.broken
    BY DEF PassInv
  <1>3. \A h \in Hooks : h \in news'.told \cup news'.todo <=> h \in news.told \cup news.todo
    BY <1>1, <1>2
  <1> HIDE DEF rest
  <1> QED BY <1>1, <1>2, <1>3, PassMoves

LEMMA PassStep == PassInv /\ SavesInv /\ [SettingsNext]_settingsVars => PassInv'
  <1>1. SUFFICES ASSUME PassInv, SavesInv, [SettingsNext]_settingsVars PROVE PassInv'
    OBVIOUS
  <1>2. CASE UNCHANGED << hook, news >>
    BY <1>1, <1>2 DEF PassInv, Wanting, ReadWebhookEventTypes, Least
  <1>3. ASSUME NEW c \in Calls, NEW h \in Hooks, RegisterWebhook(c, h)
        PROVE  PassInv'
    BY <1>1, <1>3, PassKept DEF RegisterWebhook
  <1>4. ASSUME NEW c \in Calls, UpdateWebhook(c)
        PROVE  PassInv'
    <2>1. Stored(sent[c].id, Updated(hook[sent[c].id], sent[c].dto, sent[c].read))
      BY <1>4 DEF UpdateWebhook
    <2>2. sent[c].id \in Hooks
      BY <1>1, <1>4 DEF SavesInv, RequestFits, UpdateWebhook
    <2> QED BY <1>1, <2>1, <2>2, PassKept
  <1>5. ASSUME NEW type \in EventTypes, NEW orders \in Subjects, LookUp(type, orders)
        PROVE  PassInv'
    <2> DEFINE known == ExternalOrders(type, orders)
    <2>1. /\ known # {} /\ hook' = hook
          /\ news'.pc = (IF Wanting(type) = {} THEN "done" ELSE "create")
          /\ news'.type = type /\ news'.orders = known /\ news'.todo = Wanting(type)
          /\ news'.touched = {} /\ news'.told = {} /\ ~news'.broken
      BY <1>5 DEF LookUp, Quiet
    <2>2. known \subseteq External \cup Mapped /\ Wanting(type) \subseteq Hooks
      BY DEF ExternalOrders, Wanting
    <2>3. type # Null
      BY WebhookSettingsAssumption
    <2>4. news' \in Pass
      BY <1>5, <2>2 DEF LookUp, Quiet, Pass
    <2>5. \A h \in Hooks : h \in Wanting(type)' <=> h \in Wanting(type)
      BY <2>1 DEF Wanting, ReadWebhookEventTypes
    <2>6. /\ news'.pc = "done" => Wanting(type) = {}
          /\ news'.pc # "done" => Wanting(type) # {} /\ news'.pc = "create"
      BY <2>1
    <2> HIDE DEF known
    <2>7. DOMAIN hook' = Hooks
      BY <1>1, <2>1 DEF PassInv
    <2>8. \A h \in Hooks : h \in news'.told \cup news'.todo <=> h \in Wanting(news.type)'
      BY <2>1, <2>5 DEF Wanting, ReadWebhookEventTypes
    <2> QED BY <2>1, <2>3, <2>4, <2>6, <2>7, <2>8 DEF PassInv
  <1>6. CASE CreateEventRow
    <2> DEFINE h == Least(news.todo)
    <2>1. /\ news.pc = "create" /\ hook' = hook
          /\ news' = [news EXCEPT !.pc = "add", !.told = @ \cup {h}]
      BY <1>6 DEF CreateEventRow
    <2>2. h \in news.todo /\ h \in Hooks /\ news \in Pass /\ ~news.broken /\ news.type # Null
      BY <1>1, <2>1, LeastIn DEF PassInv, Pass
    <2> HIDE DEF h
    <2>3. /\ news' \in Pass /\ news'.type = news.type /\ news'.orders = news.orders
          /\ news'.touched = news.touched /\ news'.broken = news.broken /\ news'.pc = "add"
          /\ news'.todo = news.todo /\ news'.told = news.told \cup {h}
      BY <2>1, <2>2 DEF Pass
    <2> QED BY <1>1, <2>1, <2>2, <2>3, PassMoves DEF h
  <1>7. CASE QueueJob
    <2>1. news \in Pass
      BY <1>1 DEF PassInv
    <2> QED BY <1>1, <1>7, <2>1, Followed DEF QueueJob
  <1>8. CASE QueueJobFails
    <2> DEFINE pass == [news EXCEPT !.unsent = @ \cup {Least(news.todo)}]
    <2>1. Least(news.todo) \in Hooks /\ news \in Pass
      BY <1>1, <1>8, LeastIn DEF PassInv, Pass, QueueJobFails
    <2>2. /\ pass \in Pass /\ pass.pc = news.pc /\ pass.type = news.type
          /\ pass.orders = news.orders /\ pass.todo = news.todo /\ pass.told = news.told
          /\ pass.touched = news.touched /\ pass.broken = news.broken
      BY <2>1 DEF Pass
    <2>3. news' = Following(pass) /\ news.pc = "add" /\ hook' = hook
      BY <1>8 DEF QueueJobFails
    <2> HIDE DEF pass
    <2> QED BY <1>1, <2>2, <2>3, Followed
  <1>9. CASE StatementFails
    <2>1. /\ news.pc # "done" /\ hook' = hook
          /\ news' = [news EXCEPT !.pc = "done", !.broken = TRUE]
      BY <1>9 DEF StatementFails
    <2>2. news \in Pass /\ ~news.broken /\ news.type # Null
      BY <1>1, <2>1 DEF PassInv
    <2>3. /\ news' \in Pass /\ news'.type = news.type /\ news'.orders = news.orders
          /\ news'.touched = news.touched /\ news'.broken /\ news'.pc = "done"
      BY <2>1, <2>2 DEF Pass
    <2> QED BY <1>1, <2>1, <2>2, <2>3, PassMoves
  <1>10. ASSUME NEW p \in Pages,
                \/ ListWebhooks(p) \/ ResetForm(p)
                \/ \E screen \in Screens[p] : OpenScreen(p, screen)
                \/ \E h \in Hooks : EditWebhook(p, h)
                \/ \E field \in DOMAIN Typings[p] : \E value \in Typings[p][field] :
                     UpdateForm(p, field, value)
                \/ \E type \in Toggles[p] : ToggleEvent(p, type)
                \/ \E c \in Calls : SubmitWebhook(p, c)
         PROVE  UNCHANGED << hook, news >>
    BY <1>10 DEF ListWebhooks, ResetForm, SubmitWebhook, OpenScreen, EditWebhook, UpdateForm,
                 ToggleEvent
  <1>11. ASSUME NEW c \in Calls, TakeAnswer(c) \/ RequestFails(c) \/ FindRegistration(c)
         PROVE  UNCHANGED << hook, news >>
    BY <1>11 DEF TakeAnswer, RequestFails, FindRegistration
  <1>12. CASE UNCHANGED settingsVars
    BY <1>2, <1>12 DEF settingsVars
  <1> QED BY <1>1, <1>2, <1>3, <1>4, <1>5, <1>6, <1>7, <1>8, <1>9, <1>10, <1>11, <1>12
          DEF SettingsNext

\* When an event has been passed on, those that want it, and no others, have been told.
THEOREM EveryoneTold == SettingsSpec => []EveryoneIsTold
  <1>1. PassInv => EveryoneIsTold
    BY DEF PassInv, Pass, EveryoneIsTold
  <1> QED BY <1>1, PassInit, PassStep, SavesStart, SavesStep, PTL DEF SettingsSpec

=============================================================================
