-------------------------- MODULE WebhookDelivery --------------------------
(***************************************************************************)
(* Outbound webhooks: from the row in integration_events to the customer's *)
(* endpoint (OutboundWebhooksService, WebhookDeliveryProcessor).           *)
(*                                                                         *)
(* The row and the job are two records in two stores: the database row is  *)
(* written first, the job is put on the Bull queue afterwards, and again   *)
(* for every retry.  A run of the processor reads the row, numbers the     *)
(* attempt, posts it and writes the result, each in a step of its own.     *)
(*                                                                         *)
(* Faults strike anywhere: a database write or a queue call fails, the     *)
(* process ends, or the queue believes that a run has stalled and gives    *)
(* its job out again.  struck counts them for each event, so that          *)
(* properties can say what holds without faults and what holds anyway.     *)
(***************************************************************************)
EXTENDS Naturals

CONSTANTS
  Events,   \* the integration_events rows of one outbound integration
  Workers,  \* the processor runs that can be under way at the same time
  None,     \* no event
  Retries,  \* how many retry delays are configured
  MaxFaults \* bound: faults per event

ASSUME WebhookDeliveryAssumption ==
  /\ None \notin Events
  /\ Retries \in Nat
  /\ MaxFaults \in [Events -> Nat]

VARIABLES
  row,       \* the rows: status and attempts
  active,    \* integrations.is_active
  producer,  \* what the code that creates an event is doing
  queue,     \* jobs waiting or delayed, per event
  stalled,   \* jobs that the queue has taken back from a run, per event
  run,       \* the processor runs
  sends,     \* requests made, per event
  accepted,  \* requests the endpoint has accepted, per event
  announced, \* integration.webhook-failed events, per event
  struck     \* faults, per event

vars == << row, active, producer, queue, stalled, run, sends, accepted, announced, struck >>

-----------------------------------------------------------------------------
\* "none" is a row that was not created yet.
EventStatus == { "none", "pending", "processing", "retrying", "succeeded", "failed" }

Unsettled == { "pending", "processing", "retrying" }

Row == [status : EventStatus, attempts : Nat]

\* caught: the error is handled by the catch clause already, the next one ends the run.
\* second: the job was taken back from another run.
\* lost: the job was taken back from this run, which goes on all the same.
Run == [ pc : {"idle", "mark", "send", "succeed", "failure", "requeue", "inactive", "announce"},
         event : Events \cup {None}, attempt : Nat,
         caught : BOOLEAN, second : BOOLEAN, lost : BOOLEAN ]

Idle == [ pc |-> "idle", event |-> None, attempt |-> 0,
          caught |-> FALSE, second |-> FALSE, lost |-> FALSE ]

Init ==
  /\ row       = [e \in Events |-> [status |-> "none", attempts |-> 0]]
  /\ active    = TRUE
  /\ producer  = [e \in Events |-> "idle"]
  /\ queue     = [e \in Events |-> 0]
  /\ stalled   = [e \in Events |-> 0]
  /\ run       = [w \in Workers |-> Idle]
  /\ sends     = [e \in Events |-> 0]
  /\ accepted  = [e \in Events |-> 0]
  /\ announced = [e \in Events |-> 0]
  /\ struck    = [e \in Events |-> 0]

Plus(f, e) == [f EXCEPT ![e] = f[e] + 1]

Minus(f, e) == [f EXCEPT ![e] = f[e] - 1]

Fault(e) == struck[e] < MaxFaults[e] /\ struck' = Plus(struck, e)

At(w, pc) == run[w].pc = pc

Goto(w, pc) == run' = [run EXCEPT ![w].pc = pc]

End(w) == run' = [run EXCEPT ![w] = Idle]

Writes(e, status, attempts) ==
  row' = [row EXCEPT ![e] = [status |-> status, attempts |-> attempts]]

outside == << active, producer, sends, accepted, announced >>

-----------------------------------------------------------------------------
(* enqueueOutboundWebhooks.                                                *)

CreateEvent(e) ==
  /\ active
  /\ row[e].status = "none"
  /\ Writes(e, "pending", 0)
  /\ producer' = [producer EXCEPT ![e] = "add"]
  /\ UNCHANGED << active, queue, stalled, run, sends, accepted, announced, struck >>

AddJob(e) ==
  /\ producer[e] = "add"
  /\ queue' = Plus(queue, e)
  /\ producer' = [producer EXCEPT ![e] = "idle"]
  /\ UNCHANGED << row, active, stalled, run, sends, accepted, announced, struck >>

\* The call fails, although the queue may have the job.
AddJobFails(e) ==
  /\ producer[e] = "add"
  /\ Fault(e)
  /\ queue' \in {queue, Plus(queue, e)}
  /\ producer' = [producer EXCEPT ![e] = "undo"]
  /\ UNCHANGED << row, active, stalled, run, sends, accepted, announced >>

MarkEnqueueFailed(e) ==
  /\ producer[e] = "undo"
  /\ Writes(e, "failed", row[e].attempts)
  /\ producer' = [producer EXCEPT ![e] = "idle"]
  /\ UNCHANGED << active, queue, stalled, run, sends, accepted, announced, struck >>

\* The process ends, or the update of MarkEnqueueFailed fails.
ProducerStops(e) ==
  /\ producer[e] # "idle"
  /\ Fault(e)
  /\ producer' = [producer EXCEPT ![e] = "idle"]
  /\ UNCHANGED << row, active, queue, stalled, run, sends, accepted, announced >>

\* updateWebhookRegistration.
SetActive(a) ==
  /\ active' = a
  /\ UNCHANGED << row, producer, queue, stalled, run, sends, accepted, announced, struck >>

-----------------------------------------------------------------------------
(* process: one run of the processor.                                      *)

\* Mutant: the attempt before a retry is not counted.
NextAttemptAgain(e) ==
  IF row[e].status = "retrying" THEN row[e].attempts ELSE row[e].attempts + 1

\* The number of the attempt to make, from the row as it is read.
NextAttempt(e) == row[e].attempts + 1

\* A run takes a job and reads the row and the integration.
Take(w, e, again) ==
  /\ At(w, "idle")
  /\ IF again
     THEN stalled[e] > 0 /\ stalled' = Minus(stalled, e) /\ UNCHANGED queue
     ELSE queue[e] > 0 /\ queue' = Minus(queue, e) /\ UNCHANGED stalled
  /\ run' = [run EXCEPT ![w] =
               IF active
               THEN [Idle EXCEPT !.pc = "mark", !.event = e, !.attempt = NextAttempt(e),
                                 !.second = again]
               ELSE [Idle EXCEPT !.pc = "inactive", !.event = e,
                                 !.attempt = row[e].attempts, !.caught = TRUE,
                                 !.second = again]]
  /\ UNCHANGED << row, struck >> /\ UNCHANGED outside

MarkProcessing(w) ==
  /\ At(w, "mark")
  /\ Writes(run[w].event, "processing", run[w].attempt)
  /\ Goto(w, "send")
  /\ UNCHANGED << queue, stalled, struck >> /\ UNCHANGED outside

\* The endpoint accepts the request and says so in time.
SendAccepted(w) ==
  /\ At(w, "send")
  /\ sends' = Plus(sends, run[w].event)
  /\ accepted' = Plus(accepted, run[w].event)
  /\ Goto(w, "succeed")
  /\ UNCHANGED << row, active, producer, queue, stalled, announced, struck >>

\* The endpoint answers with an error.
SendRejected(w) ==
  /\ At(w, "send")
  /\ sends' = Plus(sends, run[w].event)
  /\ Goto(w, "failure")
  /\ UNCHANGED << row, active, producer, queue, stalled, accepted, announced, struck >>

\* No answer within ten seconds, or none at all: fetch throws.  The endpoint may
\* have accepted the request.
SendThrows(w) ==
  /\ At(w, "send")
  /\ sends' = Plus(sends, run[w].event)
  /\ accepted' \in {accepted, Plus(accepted, run[w].event)}
  /\ run' = [run EXCEPT ![w].pc = "failure", ![w].caught = TRUE]
  /\ UNCHANGED << row, active, producer, queue, stalled, announced, struck >>

MarkSucceeded(w) ==
  /\ At(w, "succeed")
  /\ Writes(run[w].event, "succeeded", row[run[w].event].attempts)
  /\ End(w)
  /\ UNCHANGED << queue, stalled, struck >> /\ UNCHANGED outside

\* WEBHOOK_RETRY_DELAYS_MS[attempt - 1] exists.
HasDelay(attempt) == attempt <= Retries

\* handleDeliveryFailure with a delay left: first the row, then the job.
ScheduleRetry(w) ==
  /\ At(w, "failure") /\ HasDelay(run[w].attempt)
  /\ Writes(run[w].event, "retrying", row[run[w].event].attempts)
  /\ Goto(w, "requeue")
  /\ UNCHANGED << queue, stalled, struck >> /\ UNCHANGED outside

\* Mutant: the first attempt is put back twice.
RequeueTwice(w) ==
  /\ At(w, "requeue")
  /\ queue' = [queue EXCEPT ![run[w].event] =
                 queue[run[w].event] + (IF run[w].attempt = 1 THEN 2 ELSE 1)]
  /\ End(w)
  /\ UNCHANGED << row, stalled, struck >> /\ UNCHANGED outside

\* Mutant: the row promises a retry that nobody queues.
RequeueForgets(w) ==
  /\ At(w, "requeue")
  /\ End(w)
  /\ UNCHANGED << row, queue, stalled, struck >> /\ UNCHANGED outside

Requeue(w) ==
  /\ At(w, "requeue")
  /\ queue' = Plus(queue, run[w].event)
  /\ End(w)
  /\ UNCHANGED << row, stalled, struck >> /\ UNCHANGED outside

\* Mutant: nobody hears of it.
MarkFailedQuietly(w) ==
  /\ At(w, "inactive") \/ (At(w, "failure") /\ ~HasDelay(run[w].attempt))
  /\ Writes(run[w].event, "failed", run[w].attempt)
  /\ End(w)
  /\ UNCHANGED << queue, stalled, struck >> /\ UNCHANGED outside

\* Mutant: the job of a failed event goes back to the queue.
MarkFailedRetries(w) ==
  /\ At(w, "inactive") \/ (At(w, "failure") /\ ~HasDelay(run[w].attempt))
  /\ Writes(run[w].event, "failed", run[w].attempt)
  /\ Goto(w, "requeue")
  /\ UNCHANGED << queue, stalled, struck >> /\ UNCHANGED outside

\* markFailed: no delay left, or the integration is inactive.
MarkFailed(w) ==
  /\ At(w, "inactive") \/ (At(w, "failure") /\ ~HasDelay(run[w].attempt))
  /\ Writes(run[w].event, "failed", run[w].attempt)
  /\ Goto(w, "announce")
  /\ UNCHANGED << queue, stalled, struck >> /\ UNCHANGED outside

Announce(w) ==
  /\ At(w, "announce")
  /\ announced' = Plus(announced, run[w].event)
  /\ End(w)
  /\ UNCHANGED << row, active, producer, queue, stalled, sends, accepted, struck >>

-----------------------------------------------------------------------------
(* Faults of a run.                                                        *)

\* A query or a queue call fails (the first query, too: then the run might as well
\* have read the row and failed to mark it).  The first error
\* inside the try block is treated as a failed delivery, any other one ends the run
\* and drops its job.  A queue call that fails may have added the job all the same.
RunThrows(w) ==
  /\ run[w].pc \in {"mark", "succeed", "failure", "requeue", "inactive"}
  /\ Fault(run[w].event)
  /\ queue' \in IF At(w, "requeue") THEN {queue, Plus(queue, run[w].event)} ELSE {queue}
  /\ IF At(w, "mark") \/ run[w].caught
     THEN End(w)
     ELSE run' = [run EXCEPT ![w].pc = "failure", ![w].caught = TRUE]
  /\ UNCHANGED << row, stalled >> /\ UNCHANGED outside

\* The queue takes the job of a run back, because its process has ended or is late to
\* renew the job's lock.  It does so once per job; the second time it drops the job.
Stall(w, ended) ==
  /\ ~At(w, "idle") /\ (run[w].lost => ended)
  /\ Fault(run[w].event)
  /\ stalled' = IF run[w].lost \/ run[w].second THEN stalled ELSE Plus(stalled, run[w].event)
  /\ IF ended THEN End(w) ELSE run' = [run EXCEPT ![w].lost = TRUE]
  /\ UNCHANGED << row, queue >> /\ UNCHANGED outside

-----------------------------------------------------------------------------
Produce(e) == CreateEvent(e) \/ AddJob(e) \/ AddJobFails(e) \/ MarkEnqueueFailed(e)

\* The steps of a run that needs no luck.
Step(w) ==
  \/ MarkProcessing(w)
  \/ SendAccepted(w) \/ SendRejected(w) \/ SendThrows(w)
  \/ MarkSucceeded(w)
  \/ ScheduleRetry(w) \/ Requeue(w)
  \/ MarkFailed(w) \/ Announce(w)

Next ==
  \/ \E e \in Events : Produce(e) \/ ProducerStops(e)
  \/ \E a \in BOOLEAN : SetActive(a)
  \/ \E w \in Workers :
       \/ \E e \in Events, again \in BOOLEAN : Take(w, e, again)
       \/ Step(w)
       \/ RunThrows(w)
       \/ \E ended \in BOOLEAN : Stall(w, ended)

\* A process that runs keeps running, and the queue gives out its jobs in turn.
Fairness ==
  /\ \A e \in Events : /\ WF_vars(AddJob(e))
                       /\ WF_vars(MarkEnqueueFailed(e))
                       /\ SF_vars(\E w \in Workers, again \in BOOLEAN : Take(w, e, again))
  /\ \A w \in Workers : WF_vars(Step(w))

Spec == Init /\ [][Next]_vars /\ Fairness

-----------------------------------------------------------------------------
(* Properties.                                                             *)

On(w, e) == run[w].event = e

\* Types of the rows, the queue and the runs; a run that is under way has an event.
TypeOK ==
  /\ row       \in [Events -> Row]
  /\ active    \in BOOLEAN
  /\ producer  \in [Events -> {"idle", "add", "undo"}]
  /\ queue     \in [Events -> Nat]
  /\ stalled   \in [Events -> Nat]
  /\ run       \in [Workers -> Run]
  /\ sends     \in [Events -> Nat]
  /\ accepted  \in [Events -> Nat]
  /\ announced \in [Events -> Nat]
  /\ struck    \in [Events -> Nat]
  /\ \A w \in Workers : run[w].pc = "idle" <=> run[w].event = None

\* Without faults, somebody always has an event that is not settled in hand, and
\* nobody else has: its creator, one job on the queue, or one run.
OneCarrier ==
  \A e \in Events : struck[e] = 0 =>
    /\ row[e].status \in Unsettled =>
         producer[e] # "idle" \/ queue[e] > 0 \/ \E w \in Workers : On(w, e)
    /\ queue[e] + stalled[e] <= 1
    /\ queue[e] + stalled[e] > 0 => row[e].status \in Unsettled /\ producer[e] = "idle"
    /\ \A w \in Workers : On(w, e) =>
         /\ queue[e] + stalled[e] = 0 /\ producer[e] = "idle"
         /\ \A v \in Workers : On(v, e) => v = w

\* Without faults, the row counts the requests exactly, and there are no more than the
\* first one and the retries.
SendsCounted ==
  \A e \in Events : struck[e] = 0 =>
    /\ row[e].attempts <= Retries + 1
    /\ row[e].attempts =
         sends[e] + (IF \E w \in Workers : On(w, e) /\ At(w, "send") THEN 1 ELSE 0)

\* Whatever fails, "succeeded" is true: the endpoint has accepted the event.
SucceededWasAccepted ==
  \A e \in Events : row[e].status = "succeeded" => accepted[e] > 0

\* Without faults, integration.webhook-failed is published once for an event that has
\* failed, and for no other.
FailureAnnouncedOnce ==
  \A e \in Events : struck[e] = 0 =>
    announced[e] = IF /\ row[e].status = "failed"
                      /\ \A w \in Workers : ~On(w, e)
                   THEN 1 ELSE 0

\* What is told of the end of an event is true: whoever reads "succeeded" or hears of a
\* failure can rely on it.
OutcomeTold == SucceededWasAccepted /\ FailureAnnouncedOnce

\* Without faults, a result is final: no later attempt, no other status.
ResultsLast ==
  [][\A e \in Events :
       row[e].status \in {"succeeded", "failed"} /\ struck'[e] = 0 =>
         row'[e] = row[e] /\ sends'[e] = sends[e]]_vars

\* Every event is settled in the end, unless a fault strikes it.
EventsSettle ==
  \A e \in Events :
    row[e].status \in Unsettled ~> row[e].status \notin Unsettled \/ struck[e] > 0

=============================================================================
