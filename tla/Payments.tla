------------------------------ MODULE Payments ------------------------------
(***************************************************************************)
(* Courier payments (PaymentsService): how a calculation becomes a payment *)
(* and how the payment is approved, paid and disputed.                     *)
(*                                                                         *)
(* A calculation is a Bull job that the request waits for.  The job        *)
(* inserts the payment with the status "calculated"; nothing ties it to    *)
(* the request or to the period.  A job whose lock expires (its worker     *)
(* died, or was only slow) is queued once more, a second time it fails.    *)
(*                                                                         *)
(* A status change reads the payment, checks the move and writes status,   *)
(* stamps and the trail in the metadata in one statement, by id alone, so  *)
(* that a change in between is overwritten with what was read.             *)
(***************************************************************************)
EXTENDS Naturals, Sequences, FiniteSets

CONSTANTS
  Calculations, \* requests for a calculation
  Managers,     \* the status changes that can be in flight at the same time
  PaymentIds,   \* bound: payments that can be made
  None,         \* no payment
  Shaky         \* bound: the calculations that failures may strike

ASSUME PaymentsAssumption ==
  None \notin PaymentIds \cup Calculations /\ Shaky \subseteq Calculations

VARIABLES
  payment,  \* the payments
  origin,   \* (history) the calculation that made a payment
  job,      \* the job of a calculation, its current run and what was answered
  ghosts,   \* runs that lost their lock before they made their payment, per calculation
  change,   \* what each manager's request is doing
  struck,   \* (history) the calculations a failure has struck
  raced,    \* (history) the payments that an overtaken change has written
  payouts   \* (history) how often a payment became paid

vars == << payment, origin, job, ghosts, change, struck, raced, payouts >>

calculation == << payment, origin, job, ghosts, struck >>

-----------------------------------------------------------------------------
PaymentStatus == { "draft", "calculated", "approved", "paid", "disputed" }

PAYMENT_TRANSITIONS ==
  [ s \in PaymentStatus |->
      CASE s = "draft"      -> {"calculated"}
        [] s = "calculated" -> {"approved"}
        [] s = "approved"   -> {"paid"}
        [] s = "paid"       -> {"disputed"}
        [] OTHER            -> {} ]

canTransitionPayment(from, to) == to \in PAYMENT_TRANSITIONS[from]

\* A payment without an origin does not exist.  The trail is metadata.stateTransitions:
\* the statuses it went through.  approved and paid are the stamps approved_at, paid_at.
Payment == [ status : PaymentStatus, trail : Seq(PaymentStatus),
             approved : BOOLEAN, paid : BOOLEAN ]

Blank == [ status |-> "draft", trail |-> << >>, approved |-> FALSE, paid |-> FALSE ]

\* A job: not asked for, waiting, at work, with its payment made, without its lock, done.
\* The request has its answer once the job is done: made says which payment, or None for
\* an error.
Job == [ pc : {"none", "queued", "running", "created", "stalled", "done"},
         made : PaymentIds \cup {None}, stalls : 0..2 ]

Change == [ pc : {"idle", "write"}, payment : PaymentIds \cup {None},
            seen : Payment, to : PaymentStatus ]

Idle == [ pc |-> "idle", payment |-> None, seen |-> Blank, to |-> "draft" ]

Made(c) == { p \in PaymentIds : origin[p] = c }

Existing == { p \in PaymentIds : origin[p] # None }

Init ==
  /\ payment = [p \in PaymentIds |-> Blank]
  /\ origin  = [p \in PaymentIds |-> None]
  /\ job     = [c \in Calculations |-> [pc |-> "none", made |-> None, stalls |-> 0]]
  /\ ghosts  = [c \in Calculations |-> 0]
  /\ change  = [m \in Managers |-> Idle]
  /\ struck  = {}
  /\ raced   = {}
  /\ payouts = [p \in PaymentIds |-> 0]

-----------------------------------------------------------------------------
(* Calculations.                                                           *)

JobBecomes(c, j) == job' = [job EXCEPT ![c] = j]

\* calculatePayment: queue the job and wait for it.
CalculatePayment(c) ==
  /\ job[c].pc = "none"
  /\ JobBecomes(c, [job[c] EXCEPT !.pc = "queued"])
  /\ UNCHANGED << payment, origin, ghosts, struck, change, raced, payouts >>

\* The processor takes the job.
Take(c) ==
  /\ job[c].pc = "queued"
  /\ JobBecomes(c, [job[c] EXCEPT !.pc = "running"])
  /\ UNCHANGED << payment, origin, ghosts, struck, change, raced, payouts >>

\* The insert: status calculated, with the first entry of the trail.
Insert(c, p) ==
  /\ origin[p] = None
  /\ origin' = [origin EXCEPT ![p] = c]
  /\ payment' = [payment EXCEPT ![p] = [Blank EXCEPT !.status = "calculated",
                                                    !.trail = << "calculated" >>]]

\* calculatePaymentInternal, by the run that holds the lock.
CalculatePaymentInternal(c, p) ==
  /\ job[c].pc = "running"
  /\ Insert(c, p)
  /\ JobBecomes(c, [job[c] EXCEPT !.pc = "created", !.made = p])
  /\ UNCHANGED << ghosts, struck, change, raced, payouts >>

\* Mutant: a calculation that has succeeded is run again.
CompleteRetries(c) ==
  /\ job[c].pc \in {"running", "created"}
  /\ JobBecomes(c, [job[c] EXCEPT !.pc = IF @ = "created" THEN "queued" ELSE "done"])
  /\ UNCHANGED << payment, origin, ghosts, struck, change, raced, payouts >>

\* The job is over, with its payment or an error (no such courier, a broken rule).
Complete(c) ==
  /\ job[c].pc \in {"running", "created"}
  /\ JobBecomes(c, [job[c] EXCEPT !.pc = "done"])
  /\ UNCHANGED << payment, origin, ghosts, struck, change, raced, payouts >>

\* The payment is made, but the run gets an error and answers with it.
InsertUnheard(c, p) ==
  /\ job[c].pc = "running" /\ c \in Shaky
  /\ Insert(c, p)
  /\ JobBecomes(c, [job[c] EXCEPT !.pc = "done"])
  /\ struck' = struck \cup {c}
  /\ UNCHANGED << ghosts, change, raced, payouts >>

\* The run loses its lock.  If it is only slow it goes on, as a ghost.
LoseLock(c) ==
  /\ job[c].pc \in {"running", "created"} /\ c \in Shaky
  /\ JobBecomes(c, [job[c] EXCEPT !.pc = "stalled"])
  /\ struck' = struck \cup {c}
  /\ \/ ghosts' = ghosts
     \/ job[c].pc = "running" /\ ghosts' = [ghosts EXCEPT ![c] = @ + 1]
  /\ UNCHANGED << payment, origin, change, raced, payouts >>

\* Mutant: a stalled job is dropped.
StallDrops(c) ==
  /\ job[c].pc = "stalled"
  /\ JobBecomes(c, [job[c] EXCEPT !.made = None, !.pc = "none"])
  /\ UNCHANGED << payment, origin, ghosts, struck, change, raced, payouts >>

\* Bull queues a stalled job again, and fails one that stalls for the second time.
Stall(c) ==
  /\ job[c].pc = "stalled"
  /\ JobBecomes(c, [job[c] EXCEPT !.stalls = @ + 1, !.made = None,
                                  !.pc = IF job[c].stalls = 0 THEN "queued" ELSE "done"])
  /\ UNCHANGED << payment, origin, ghosts, struck, change, raced, payouts >>

\* A ghost makes its payment; its result is thrown away.
GhostInserts(c, p) ==
  /\ ghosts[c] > 0
  /\ ghosts' = [ghosts EXCEPT ![c] = @ - 1]
  /\ Insert(c, p)
  /\ UNCHANGED << job, struck, change, raced, payouts >>

-----------------------------------------------------------------------------
(* updatePaymentStatus.                                                    *)

\* Read the payment and check the move.
FindPayment(m, p, to) ==
  /\ change[m].pc = "idle" /\ p \in Existing
  /\ canTransitionPayment(payment[p].status, to)
  /\ change' = [change EXCEPT ![m] = [pc |-> "write", payment |-> p, seen |-> payment[p],
                                      to |-> to]]
  /\ UNCHANGED << calculation, raced, payouts >>

\* Mutant: the trail is appended to in the database, as it is now.
WrittenInPlace(m, row) ==
  [ status   |-> change[m].to,
    trail    |-> Append(row.trail, change[m].to),
    approved |-> row.approved \/ change[m].to = "approved",
    paid     |-> row.paid \/ change[m].to = "paid" ]

\* The row after a change: what the request read, one step further.  The stamps are only
\* ever set.
Written(m, row) ==
  [ status   |-> change[m].to,
    trail    |-> Append(change[m].seen.trail, change[m].to),
    approved |-> row.approved \/ change[m].to = "approved",
    paid     |-> row.paid \/ change[m].to = "paid" ]

Overtaken(m) == payment[change[m].payment] # change[m].seen

\* The update.
WriteStatus(m) ==
  LET p == change[m].payment IN
  /\ change[m].pc = "write"
  /\ payment' = [payment EXCEPT ![p] = Written(m, payment[p])]
  /\ raced' = IF Overtaken(m) THEN raced \cup {p} ELSE raced
  /\ payouts' = [payouts EXCEPT ![p] = IF change[m].to = "paid" THEN @ + 1 ELSE @]
  /\ change' = [change EXCEPT ![m] = Idle]
  /\ UNCHANGED << origin, job, ghosts, struck >>

\* The statement fails.
WriteFails(m) ==
  /\ change[m].pc = "write"
  /\ change' = [change EXCEPT ![m] = Idle]
  /\ UNCHANGED << calculation, raced, payouts >>

-----------------------------------------------------------------------------
Work(c) ==
  \/ Take(c)
  \/ \E p \in PaymentIds : CalculatePaymentInternal(c, p)
  \/ Complete(c)
  \/ Stall(c)

Next ==
  \/ \E c \in Calculations :
       \/ CalculatePayment(c)
       \/ Work(c)
       \/ LoseLock(c)
       \/ \E p \in PaymentIds : InsertUnheard(c, p) \/ GhostInserts(c, p)
  \/ \E m \in Managers :
       \/ \E p \in PaymentIds, to \in PaymentStatus : FindPayment(m, p, to)
       \/ WriteStatus(m)
       \/ WriteFails(m)

\* Workers go on taking jobs and running them, and Bull looks for stalled ones.
Fairness == \A c \in Calculations : WF_vars(Work(c))

Spec == Init /\ [][Next]_vars /\ Fairness

-----------------------------------------------------------------------------
(* Properties.                                                             *)

TypeOK ==
  /\ payment \in [PaymentIds -> Payment]
  /\ origin  \in [PaymentIds -> Calculations \cup {None}]
  /\ job     \in [Calculations -> Job]
  /\ ghosts  \in [Calculations -> Nat]
  /\ change  \in [Managers -> Change]
  /\ struck \subseteq Calculations /\ raced \subseteq Existing
  /\ \A c \in Calculations : job[c].pc # "done" => job[c].stalls <= 1
  /\ payouts \in [PaymentIds -> Nat]
  /\ \A m \in Managers : change[m].pc = "write" => change[m].payment \in Existing

\* A legal way from draft to the last of its statuses.
Legal(trail) ==
  \A i \in DOMAIN trail :
    canTransitionPayment(IF i = 1 THEN "draft" ELSE trail[i - 1], trail[i])

\* However changes race, the trail of a payment is a legal story that ends in its status.
TrailTellsStatus ==
  \A p \in Existing :
    LET trail == payment[p].trail IN
    trail # << >> /\ Legal(trail) /\ payment[p].status = trail[Len(trail)]

\* A payment that is approved or beyond carries the stamp of it, and so on; only an
\* overtaken change leaves a stamp that the trail does not tell of.
StampsTold ==
  \A p \in Existing :
    LET told == { payment[p].trail[i] : i \in DOMAIN payment[p].trail } IN
    /\ "approved" \in told => payment[p].approved
    /\ "paid" \in told => payment[p].paid
    /\ p \notin raced => /\ payment[p].approved => "approved" \in told
                         /\ payment[p].paid => "paid" \in told

\* A payment is paid at most once, and not again from an earlier status, unless an
\* overtaken change has written it.
PaidOnce == \A p \in Existing \ raced : payouts[p] = IF payment[p].paid THEN 1 ELSE 0

\* Together: status, trail and stamps of a payment and how often it was paid tell the
\* same story.
RecordsTrue == TrailTellsStatus /\ StampsTold /\ PaidOnce

\* A calculation that no failure struck makes the payment it answers with, and none when
\* it answers with an error; with failures it makes at most two.
OnePaymentEach ==
  \A c \in Calculations :
    /\ c \notin struck => Made(c) = {job[c].made} \ {None}
    /\ job[c].made # None => job[c].made \in Made(c)
    /\ Cardinality(Made(c)) <= 2

\* History only grows: a change adds an entry to the trail that the payment has, unless
\* it was overtaken.
TrailGrows ==
  [][\A p \in Existing :
       payment'[p] # payment[p] /\ p \notin raced' =>
         \E s \in PaymentStatus : payment'[p].trail = Append(payment[p].trail, s)]_vars

\* Every request for a calculation is answered.
CalculationsAnswered == \A c \in Calculations : job[c].pc = "queued" ~> job[c].pc = "done"

=============================================================================
