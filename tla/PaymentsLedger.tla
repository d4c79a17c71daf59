--------------------------- MODULE PaymentsLedger ---------------------------
(***************************************************************************)
(* The list of payments in the browser (payments-ledger.tsx), from which   *)
(* managers approve and dispute them, on top of the payments themselves.   *)
(*                                                                         *)
(* A page keeps what it has loaded in a query cache: a list per filter,    *)
(* and the payment of the panel.  When a change is answered, everything    *)
(* cached is invalidated and the answer is put in as the panel's payment.  *)
(* Loads and changes travel on their own, so that an answer may be older   *)
(* than the change that was answered before it.                            *)
(*                                                                         *)
(* The query cache itself (TanStack Query) is a library: its part is       *)
(* modelled by what the hooks use of it.  Filters by courier and by period *)
(* only add keys, and are left out.                                        *)
(***************************************************************************)
EXTENDS Payments

CONSTANTS
  Pages,    \* the managers whose changes come from the list; the others use the API
  NoFilter, \* all statuses
  Filters,  \* bound: the status filters used
  Watched,  \* bound: the payments that there may be when a page is opened
  MaxActs   \* bound: what managers do on their pages but for changes, failures included

ASSUME LedgerAssumption ==
  /\ Pages \subseteq Managers /\ Watched \subseteq PaymentIds
  /\ NoFilter \in Filters /\ Filters \subseteq PaymentStatus \cup {NoFilter}
  /\ Filters \cap PaymentIds = {} /\ None \notin Filters
  /\ MaxActs \in Nat

VARIABLES
  view,   \* per page: whether it is open, its filter, the payment selected
  query,  \* per page, the query cache
  sent,   \* per page, the change it has asked for
  writes, \* (history) how often each payment was written
  heard,  \* (history) per page and payment, the last of its own changes it has the answer to
  acts    \* how much of that bound is used

client == << view, query, sent, heard, acts >>

ledgerVars == << vars, client, writes >>

-----------------------------------------------------------------------------
(* The cache.                                                              *)

\* A list has an entry under its filter, a payment under its id.
Keys == Filters \cup Watched

NoData == << >>

\* What an answer says of a payment; age is a history field.
Snapshot(p) == [ status |-> payment[p].status, age |-> writes[p] ]

Matches(f, p) == f = NoFilter \/ payment[p].status = f

\* listPayments and getPayment: the snapshots an answer carries.
ServerView(k) ==
  [ p \in Watched |->
      IF p \in Existing /\ (IF k \in Filters THEN Matches(k, p) ELSE p = k)
      THEN Snapshot(p) ELSE None ]

\* data: what is cached; phase: no request, one asked, one whose answer was read from the
\* table; failed: the last request failed; invalid: to be asked for when next on screen.
\* History: overtaken, the answer under way was read before a change was answered, and
\* late, so was the answer that is cached.
Entry0 == [ data |-> NoData, phase |-> "idle", answer |-> NoData,
            failed |-> FALSE, invalid |-> FALSE, overtaken |-> FALSE, late |-> FALSE ]

OnScreen(m, k) == view[m].open /\ k \in {view[m].filter, view[m].selected}

Ask(q) == [q EXCEPT !.phase = "asked", !.answer = NoData, !.overtaken = FALSE]

\* A first load is not given up.
Again(q) == IF q.phase # "idle" /\ q.data = NoData THEN q ELSE Ask(q)

\* What comes on screen is asked for if it is missing, invalid or older than its stale
\* time; a request under way is joined.
Mounted(q) ==
  IF q.phase # "idle" THEN {q}
  ELSE {Ask(q)} \cup (IF q.data = NoData \/ q.invalid THEN {} ELSE {q})

\* Mutant: requests under way go on (cancelRefetch: false).
InvalidatedJoins(m, k, q) ==
  LET marked == [q EXCEPT !.invalid = q.data # NoData] IN
  IF OnScreen(m, k) /\ q.phase = "idle" THEN Ask(marked) ELSE marked

\* invalidateQueries: what is on screen is asked for again, and a request under way is
\* given up unless it is the first load; what is not on screen is marked.
Invalidated(m, k, q) ==
  LET marked == [q EXCEPT !.invalid = q.data # NoData]
      joined == [marked EXCEPT !.overtaken = @ \/ q.phase = "read"] IN
  IF ~OnScreen(m, k) \/ (q.phase # "idle" /\ q.data = NoData) THEN joined ELSE Ask(marked)

\* setQueryData: the data counts as fresh.
SetData(q, data) ==
  [q EXCEPT !.data = data, !.failed = FALSE, !.invalid = FALSE, !.late = FALSE]

-----------------------------------------------------------------------------
(* The page.                                                               *)

NoRequest == [ phase |-> "idle", payment |-> None, to |-> "draft", row |-> None ]

LedgerInit ==
  /\ Init
  /\ view   = [m \in Pages |-> [open |-> FALSE, filter |-> NoFilter, selected |-> None]]
  /\ query  = [m \in Pages |-> [k \in Keys |-> Entry0]]
  /\ sent   = [m \in Pages |-> NoRequest]
  /\ writes = [p \in PaymentIds |-> 0]
  /\ heard  = [m \in Pages |-> [p \in Watched |-> 0]]
  /\ acts   = 0

Act == acts < MaxActs /\ acts' = acts + 1

ServerUnchanged == UNCHANGED << vars, writes >>

PageUnchanged == UNCHANGED << view, query, acts >>

\* The page shows v, which brings entry k on screen.
Show(m, v, k) ==
  /\ view' = [view EXCEPT ![m] = v]
  /\ \E q \in Mounted(query[m][k]) : query' = [query EXCEPT ![m][k] = q]
  /\ ServerUnchanged /\ UNCHANGED << sent, heard >>

\* Bound: pages are opened when the calculations are done, without failures, so that no
\* payment is added afterwards.
OpenPage(m) ==
  /\ ~view[m].open
  /\ struck = {} /\ \A c \in Calculations : job[c].pc = "done"
  /\ Existing \subseteq Watched
  /\ Show(m, [view[m] EXCEPT !.open = TRUE], view[m].filter)
  /\ UNCHANGED acts

SetStatusFilter(m, f) ==
  /\ view[m].open /\ f # view[m].filter
  /\ Act /\ Show(m, [view[m] EXCEPT !.filter = f], f)

ListData(m) == query[m][view[m].filter].data

Listed(m, p) == ListData(m) # NoData /\ ListData(m)[p] # None

\* onSelect: a row of the list is opened in the panel.  A list that failed to load is not
\* shown, even if there is an older one.
SelectPayment(m, p) ==
  /\ view[m].open /\ Listed(m, p) /\ p # view[m].selected
  /\ ~query[m][view[m].filter].failed
  /\ Act /\ Show(m, [view[m] EXCEPT !.selected = p], p)

\* onClose.
ClosePanel(m) ==
  /\ view[m].selected # None
  /\ Act
  /\ view' = [view EXCEPT ![m].selected = None]
  /\ ServerUnchanged /\ UNCHANGED << query, sent, heard >>

QueryOnly(m, k, q) ==
  /\ query' = [query EXCEPT ![m][k] = q]
  /\ ServerUnchanged /\ UNCHANGED << view, sent, heard >>

\* The button that loads the list again.
Refresh(m) ==
  LET f == view[m].filter IN
  /\ view[m].open
  /\ Act /\ QueryOnly(m, f, Again(query[m][f]))

\* The window gets the focus: what is on screen and old is asked for.
Focus(m, k) ==
  /\ OnScreen(m, k) /\ query[m][k].phase = "idle"
  /\ Act /\ QueryOnly(m, k, Ask(query[m][k]))

\* The server reads the table for an answer, which then travels.
ReadAnswer(m, k) ==
  LET q == query[m][k] IN
  /\ q.phase = "asked"
  /\ QueryOnly(m, k, [q EXCEPT !.phase = "read", !.answer = ServerView(k)])
  /\ UNCHANGED acts

TakeAnswer(m, k) ==
  LET q == query[m][k] IN
  /\ q.phase = "read"
  /\ QueryOnly(m, k, [SetData(q, q.answer) EXCEPT
                       !.phase = "idle", !.answer = NoData,
                       !.late = q.overtaken, !.overtaken = FALSE])
  /\ UNCHANGED acts

\* The request and its one retry fail: the data stays.
FailAnswer(m, k) ==
  LET q == query[m][k] IN
  /\ q.phase # "idle"
  /\ Act
  /\ QueryOnly(m, k, [q EXCEPT !.phase = "idle", !.answer = NoData, !.failed = TRUE,
                               !.overtaken = FALSE])

\* What has not been on screen for long is dropped.
Collect(m, k) ==
  /\ ~OnScreen(m, k) /\ query[m][k].phase = "idle" /\ query[m][k].data # NoData
  /\ Act /\ QueryOnly(m, k, Entry0)

-----------------------------------------------------------------------------
(* Changes.                                                                *)

\* selectedPayment: the payment loaded for the panel, or else its row of the list.
Selected(m) ==
  LET p == view[m].selected IN
  IF p = None THEN None
  ELSE IF query[m][p].data # NoData THEN query[m][p].data[p]
  ELSE IF Listed(m, p) THEN ListData(m)[p]
  ELSE None

\* updatePaymentStatus of the page: Approve and Dispute are offered by the status shown,
\* one at a time.
Send(m, to) ==
  /\ sent[m].phase = "idle" /\ Selected(m) # None
  /\ << Selected(m).status, to >> \in { << "calculated", "approved" >>, << "paid", "disputed" >> }
  /\ sent' = [sent EXCEPT ![m] = [NoRequest EXCEPT !.phase = "asked", !.to = to,
                                                   !.payment = view[m].selected]]
  /\ ServerUnchanged /\ PageUnchanged /\ UNCHANGED heard

\* The server finds the payment, and refuses a move that it cannot make.
FindSent(m) ==
  /\ sent[m].phase = "asked"
  /\ FindPayment(m, sent[m].payment, sent[m].to)
  /\ UNCHANGED << client, writes >>

Refuse(m) ==
  /\ sent[m].phase = "asked" /\ change[m].pc = "idle"
  /\ ~canTransitionPayment(payment[sent[m].payment].status, sent[m].to)
  /\ sent' = [sent EXCEPT ![m] = NoRequest]
  /\ ServerUnchanged /\ PageUnchanged /\ UNCHANGED heard

Count(p) == writes' = [writes EXCEPT ![p] = @ + 1]

\* The answer is the row as written.
WriteSent(m) ==
  LET p == change[m].payment IN
  /\ WriteStatus(m) /\ Count(p)
  /\ sent' = [sent EXCEPT ![m].phase = "done",
                          ![m].row = [status |-> payment'[p].status, age |-> writes'[p]]]
  /\ PageUnchanged /\ UNCHANGED heard

WriteSentFails(m) ==
  /\ WriteFails(m)
  /\ sent' = [sent EXCEPT ![m] = NoRequest]
  /\ PageUnchanged /\ UNCHANGED << writes, heard >>

\* The page gets an error for a change that was made: nothing is invalidated.
LoseAnswer(m) ==
  /\ sent[m].phase = "done"
  /\ Act
  /\ sent' = [sent EXCEPT ![m] = NoRequest]
  /\ ServerUnchanged /\ UNCHANGED << view, query, heard >>

\* onSuccess: invalidate all payments, then put the answer in as the payment's own entry.
HandleSuccess(m) ==
  LET p == sent[m].payment
      told == [x \in Watched |-> IF x = p THEN sent[m].row ELSE None]
      invalidated == [k \in Keys |-> Invalidated(m, k, query[m][k])] IN
  /\ sent[m].phase = "done"
  /\ query' = [query EXCEPT ![m] = [invalidated EXCEPT ![p] = SetData(@, told)]]
  /\ heard' = [heard EXCEPT ![m][p] = sent[m].row.age]
  /\ sent'  = [sent EXCEPT ![m] = NoRequest]
  /\ ServerUnchanged /\ UNCHANGED << view, acts >>

-----------------------------------------------------------------------------
PageStep(m) ==
  \/ OpenPage(m)
  \/ \E f \in Filters : SetStatusFilter(m, f)
  \/ \E p \in Watched : SelectPayment(m, p)
  \/ ClosePanel(m) \/ Refresh(m)
  \/ \E k \in Keys :
       Focus(m, k) \/ ReadAnswer(m, k) \/ TakeAnswer(m, k) \/ FailAnswer(m, k) \/ Collect(m, k)
  \/ \E to \in PaymentStatus : Send(m, to)
  \/ FindSent(m) \/ Refuse(m) \/ WriteSent(m) \/ WriteSentFails(m)
  \/ LoseAnswer(m) \/ HandleSuccess(m)

\* A manager who uses the API: the program has no page that marks a payment as paid.
OtherStep(m) ==
  /\ \/ UNCHANGED writes
        /\ \/ \E p \in PaymentIds, to \in PaymentStatus : FindPayment(m, p, to)
           \/ WriteFails(m)
     \/ WriteStatus(m) /\ Count(change[m].payment)
  /\ UNCHANGED client

CalculationStep(c) ==
  /\ \/ CalculatePayment(c)
     \/ Work(c)
     \/ LoseLock(c)
     \/ \E p \in PaymentIds : InsertUnheard(c, p) \/ GhostInserts(c, p)
  /\ UNCHANGED << client, writes >>

LedgerNext ==
  \/ \E c \in Calculations : CalculationStep(c)
  \/ \E m \in Pages : PageStep(m)
  \/ \E m \in Managers \ Pages : OtherStep(m)

LedgerSpec == LedgerInit /\ [][LedgerNext]_ledgerVars /\ Fairness

-----------------------------------------------------------------------------
(* Properties.                                                             *)

Shown == [ status : PaymentStatus, age : Nat ]

Data == [Watched -> Shown \cup {None}]

Entry == [ data : Data \cup {NoData}, phase : {"idle", "asked", "read"},
           answer : Data \cup {NoData}, failed : BOOLEAN, invalid : BOOLEAN,
           overtaken : BOOLEAN, late : BOOLEAN ]

LedgerTypeOK ==
  /\ view \in [Pages -> [open : BOOLEAN, filter : Filters, selected : Watched \cup {None}]]
  /\ query \in [Pages -> [Keys -> Entry]]
  /\ sent \in [Pages -> [phase : {"idle", "asked", "done"}, payment : Watched \cup {None},
                         to : PaymentStatus, row : Shown \cup {None}]]
  /\ writes \in [PaymentIds -> Nat]
  /\ heard \in [Pages -> [Watched -> Nat]]
  /\ acts \in Nat
  /\ \A m \in Pages :
       /\ sent[m].phase # "idle" => sent[m].payment \in Watched
       /\ sent[m].phase = "done" => sent[m].row \in Shown
       /\ change[m].pc = "write" => change[m].payment = sent[m].payment /\ sent[m].phase = "asked"
       /\ \A k \in Keys : query[m][k].phase = "read" => query[m][k].answer \in Data

\* A page never goes back behind a change of its own that it was told of, in the list or in
\* the panel, but for a list that is about to be replaced or not shown as it failed to load,
\* and for an entry whose load had been read and was not given up when the change was
\* answered (useUpdatePaymentStatus).
OwnChangeShown ==
  \A m \in Pages, k \in Keys, p \in Watched :
    LET q == query[m][k] IN
    OnScreen(m, k) /\ q.data # NoData /\ q.data[p] # None =>
      \/ q.data[p].age >= heard[m][p]
      \/ q.late
      \/ k \in Filters /\ (q.phase # "idle" \/ q.failed)

=============================================================================
