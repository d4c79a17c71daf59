-------------------------- MODULE DispatcherProofs --------------------------
(***************************************************************************)
(* Proofs about the dispatcher's work: the session in the browser          *)
(* (ClientSession), the lists and the open route (DispatchFeed with        *)
(* RouteWorkspace), and the plan that the server makes of a route          *)
(* (RoutePlanning); for any people, requests, orders, routes, couriers,    *)
(* places and distances.                                                   *)
(*                                                                         *)
(* The session: while nobody signs in or out, the cookie is the signed-in  *)
(* user's, and so is what a refresh sends and is granted.  Whoever signs   *)
(* in or out crosses the refresh that is under way, and a crossed refresh, *)
(* or one that ends with nobody signed in, marks what it stores as mixed.  *)
(*                                                                         *)
(* The workspace: what a cached list shows that the server does not have   *)
(* is explained by a message under way, a lost connection or a stale mark  *)
(* (FeedInv); the column shown is the one the latest cached list gives for *)
(* its route (ColumnInv), and a request carries the version the column had *)
(* when it was sent (CallsInv); every plan on either side names an order   *)
(* at most once (StopsInv).                                                *)
(*                                                                         *)
(* The plan: the times of the stops are sums of legs, none of which takes  *)
(* less than no time, and a way back is asked for only when it is known    *)
(* where the courier is.  Nearest-first started from an order of its own   *)
(* finds that order again, for it takes the first of equally near stops;   *)
(* so an edit that is not overtaken and leaves stops and places alone      *)
(* leaves their order alone too (PlanningInv).  Both rest on induction     *)
(* along a sequence, which is had from the well-foundedness of <.          *)
(***************************************************************************)
EXTENDS ClientSession, RouteWorkspace, RoutePlanning, SequenceTheorems, FiniteSetTheorems,
        WellFoundedInduction, TLAPS

-----------------------------------------------------------------------------
(* The session: what the browser stores is of whoever is signed in.        *)

\* What the requests in flight carry.
RequestFits(x) ==
  /\ x.kind \in {"login", "register"} => x.who \in People
  /\ x.kind \in {"login", "register"} /\ x.pc = "ok" => x.answer.of \in People
  /\ ~x.crossed /\ ~mixed /\ user # Unset =>
       /\ x.pc = "refreshing" => x.cookie = user
       /\ x.pc = "granted" => x.answer.of = user

RequestsFit == \A r \in Requests : RequestFits(req[r])

CookieFits == ~mixed /\ user # Unset => cookie = user

SessionInv == SessionTypeOK /\ OneRefresh /\ StoreFitsUser /\ CookieFits /\ RequestsFit

-----------------------------------------------------------------------------
(* Types.                                                                  *)

LEMMA SessionConstants == NoToken \in Token /\ Free \in Request /\ NoSocket \in Socket
  BY DEF NoToken, Token, Free, Request, NoSocket, Socket

LEMMA FreeFits == Free.pc = "idle" /\ RequestFits(Free)
  BY DEF Free, RequestFits

LEMMA SessionTyped ==
  ASSUME SessionInv, NEW r \in Requests
  PROVE  req \in [Requests -> Request] /\ req[r] \in Request /\ RequestFits(req[r])
  BY DEF SessionInv, SessionTypeOK, RequestsFit

\* Crossing marks requests and leaves the rest of them.
LEMMA CrossedKeeps ==
  ASSUME NEW q \in [Requests -> Request]
  PROVE  /\ Crossed(q) \in [Requests -> Request]
         /\ \A r \in Requests :
              /\ Crossed(q)[r].pc = q[r].pc /\ Crossed(q)[r].kind = q[r].kind
              /\ Crossed(q)[r].who = q[r].who /\ Crossed(q)[r].answer = q[r].answer
              /\ q[r].pc \in UnderRefresh => Crossed(q)[r].crossed
  <1>1. ASSUME NEW r \in Requests
        PROVE  /\ Crossed(q)[r] \in Request
               /\ Crossed(q)[r].pc = q[r].pc /\ Crossed(q)[r].kind = q[r].kind
               /\ Crossed(q)[r].who = q[r].who /\ Crossed(q)[r].answer = q[r].answer
               /\ q[r].pc \in UnderRefresh => Crossed(q)[r].crossed
    BY DEF Crossed, Request
  <1>2. Crossed(q) \in [Requests -> Request]
    BY <1>1 DEF Crossed
  <1> QED
    BY <1>1, <1>2

LEMMA SessionStart == Init => SessionInv
  <1> SUFFICES ASSUME Init PROVE SessionInv
    OBVIOUS
  <1>1. SessionTypeOK
    <2>1. cookie \in People \cup {Unset} /\ user \in People \cup {Unset} /\ stored \in Token
      BY SessionConstants, SessionAssumption DEF Init, Token
    <2>2. account \in [People -> Account] /\ req \in [Requests -> Request] /\ socket \in Socket
      BY SessionConstants DEF Init, Account
    <2> QED
      BY <2>1, <2>2 DEF Init, SessionTypeOK
  <1>2. \A r \in Requests : req[r] = Free
    BY DEF Init
  <1>3. OneRefresh /\ RequestsFit
    BY <1>2, FreeFits DEF Init, OneRefresh, failedQueue, UnderRefresh, RequestsFit
  <1>4. StoreFitsUser /\ CookieFits
    BY DEF Init, StoreFitsUser, TokenFitsUser, SocketFitsUser, NoToken, NoSocket, CookieFits
  <1> QED
    BY <1>1, <1>3, <1>4 DEF SessionInv

-----------------------------------------------------------------------------
(* Steps of one request.                                                   *)

\* The state that no request and no person of the page changes by itself.
OutsideTyped ==
  /\ account' \in [People -> Account] /\ issued' \in Nat /\ expired' \in Nat
  /\ sends' \in Nat /\ changes' \in Nat /\ path' \in Page \cup {"login", "register"}
  /\ loginError' \in {"none", "credentials", "refresh", "other"}

\* A request moves on; it neither starts nor ends a refresh.
LEMMA MoveKeeps ==
  ASSUME SessionInv, NEW r \in Requests, NEW next \in Request, req' = [req EXCEPT ![r] = next],
         RequestFits(next), OutsideTyped,
         UNCHANGED << browser, leaving, isRefreshing, socket, mixed >>,
         next.pc \in UnderRefresh <=> req[r].pc \in UnderRefresh,
         next.pc = "queued" => isRefreshing
  PROVE  SessionInv'
  <1>1. SessionTypeOK /\ OneRefresh /\ StoreFitsUser /\ CookieFits /\ RequestsFit
    BY DEF SessionInv
  <1>2. UNCHANGED << cookie, stored, user >>
    BY DEF browser
  <1>3. SessionTypeOK'
    BY <1>1, <1>2 DEF SessionTypeOK, OutsideTyped
  <1>4. \A q \in Requests : req'[q] = IF q = r THEN next ELSE req[q]
    BY <1>1 DEF SessionTypeOK
  <1>5. \A q \in Requests : req'[q].pc \in UnderRefresh <=> req[q].pc \in UnderRefresh
    BY <1>4
  <1>6. OneRefresh'
    <2>1. /\ isRefreshing <=> \E q \in Requests : req[q].pc \in UnderRefresh
          /\ \A q, p \in Requests : req[q].pc \in UnderRefresh /\ req[p].pc \in UnderRefresh => q = p
          /\ \A q \in Requests : req[q].pc = "queued" => isRefreshing
      BY <1>1 DEF OneRefresh, failedQueue
    <2>2. \A q \in Requests : req'[q].pc = "queued" => isRefreshing
      BY <1>4, <2>1
    <2> QED
      BY <1>5, <2>1, <2>2 DEF OneRefresh, failedQueue
  <1>7. \A q \in Requests : RequestFits(req'[q])
    BY <1>1, <1>4 DEF RequestsFit
  <1>8. RequestsFit'
    BY <1>2, <1>7 DEF RequestsFit, RequestFits
  <1>9. StoreFitsUser' /\ CookieFits'
    BY <1>1, <1>2 DEF StoreFitsUser, TokenFitsUser, SocketFitsUser, CookieFits
  <1> QED
    BY <1>3, <1>6, <1>8, <1>9 DEF SessionInv

LEMMA SendKeeps ==
  ASSUME SessionInv, NEW r \in Requests,
         Load(r) \/ \E u \in People : SubmitRegister(r, u) \/ \E good \in BOOLEAN : SubmitLogin(r, u, good)
  PROVE  SessionInv'
  <1>1. ASSUME NEW next \in Request, Send(r, next), next.pc = "sent",
               next.kind \in {"login", "register"} => next.who \in People
        PROVE  SessionInv'
    <2>1. RequestFits(next)
      BY <1>1 DEF RequestFits
    <2>2. OutsideTyped
      BY <1>1 DEF Send, OutsideTyped, SessionInv, SessionTypeOK, server
    <2> QED
      BY <1>1, <2>1, <2>2, MoveKeeps DEF Send, UnderRefresh
  <1>2. stored \in Token
    BY DEF SessionInv, SessionTypeOK
  <1>3. CASE Load(r)
    <2> DEFINE next == [Free EXCEPT !.pc = "sent", !.kind = "data", !.token = stored]
    <2>1. next \in Request /\ next.pc = "sent" /\ next.kind = "data"
      BY <1>2, SessionConstants DEF Request
    <2>2. Send(r, next)
      BY <1>3 DEF Load
    <2> HIDE DEF next
    <2> QED
      BY <1>1, <2>1, <2>2
  <1>4. ASSUME NEW u \in People, NEW good \in BOOLEAN, SubmitLogin(r, u, good)
        PROVE  SessionInv'
    <2> DEFINE next == [Free EXCEPT !.pc = "sent", !.kind = "login", !.who = u, !.good = good,
                                    !.token = stored]
    <2>1. next \in Request /\ next.pc = "sent" /\ next.who = u
      BY <1>2, SessionConstants DEF Request
    <2>2. Send(r, next)
      BY <1>4 DEF SubmitLogin
    <2> HIDE DEF next
    <2> QED
      BY <1>1, <2>1, <2>2
  <1>5. ASSUME NEW u \in People, SubmitRegister(r, u)
        PROVE  SessionInv'
    <2> DEFINE next == [Free EXCEPT !.pc = "sent", !.kind = "register", !.who = u, !.token = stored]
    <2>1. next \in Request /\ next.pc = "sent" /\ next.who = u
      BY <1>2, SessionConstants DEF Request
    <2>2. Send(r, next)
      BY <1>5 DEF SubmitRegister
    <2> HIDE DEF next
    <2> QED
      BY <1>1, <2>1, <2>2
  <1> QED
    BY <1>3, <1>4, <1>5

LEMMA AnswersKeep ==
  ASSUME SessionInv, NEW r \in Requests, Answers(r) \/ Drop(r)
  PROVE  SessionInv'
  <1>1. req[r] \in Request /\ RequestFits(req[r]) /\ issued \in Nat /\ account \in [People -> Account]
    BY SessionTyped DEF SessionInv, SessionTypeOK
  <1>2. OutsideTyped
    BY <1>1 DEF Answers, AnswerData, AnswerLogin, AnswerRegister, AnswerRefresh, Drop, Account,
                OutsideTyped, SessionInv, SessionTypeOK, server
  <1>3. UNCHANGED << browser, leaving, isRefreshing, socket, mixed >>
    BY DEF Answers, AnswerData, AnswerLogin, AnswerRegister, AnswerRefresh, Drop
  <1>4. ASSUME NEW pc \in {"ok", "refused", "unauthorized", "granted", "denied"}, NEW token \in Token,
               Answer(r, pc, token), req[r].pc \in {"sent", "refreshing"},
               pc \in {"granted", "denied"} <=> req[r].pc = "refreshing",
               pc = "ok" /\ req[r].kind \in {"login", "register"} => token.of = req[r].who,
               pc = "granted" => token.of = req[r].cookie
        PROVE  SessionInv'
    <2> DEFINE next == [req[r] EXCEPT !.pc = pc, !.answer = token]
    <2>1. /\ next \in Request /\ next.pc = pc /\ next.answer = token /\ next.kind = req[r].kind
          /\ next.who = req[r].who /\ next.crossed = req[r].crossed /\ next.cookie = req[r].cookie
      BY <1>1, <1>4 DEF Request
    <2>2. req' = [req EXCEPT ![r] = next]
      BY <1>4, SessionTyped DEF Answer
    <2> HIDE DEF next
    <2>3. RequestFits(next)
      BY <1>1, <1>4, <2>1 DEF RequestFits
    <2> QED
      BY <1>2, <1>3, <1>4, <2>1, <2>2, <2>3, MoveKeeps DEF UnderRefresh
  <1>5. \A u \in People, n \in Nat : [of |-> u, no |-> n + 1] \in Token
    BY DEF Token
  <1>6. CASE AnswerData(r)
    BY <1>4, <1>6, SessionConstants DEF AnswerData
  <1>7. CASE AnswerLogin(r)
    BY <1>1, <1>4, <1>5, <1>7, SessionConstants DEF AnswerLogin, RequestFits
  <1>8. CASE AnswerRegister(r)
    BY <1>1, <1>4, <1>5, <1>8, SessionConstants DEF AnswerRegister, RequestFits
  <1>9. CASE AnswerRefresh(r)
    <2>1. req[r].cookie # Unset => req[r].cookie \in People
      BY <1>1 DEF Request
    <2> QED
      BY <1>1, <1>4, <1>5, <1>9, <2>1, SessionConstants DEF AnswerRefresh, Works
  <1>10. CASE Drop(r)
    BY <1>4, <1>10, SessionConstants DEF Drop
  <1> QED
    BY <1>6, <1>7, <1>8, <1>9, <1>10 DEF Answers

-----------------------------------------------------------------------------
(* Steps of the page.                                                      *)

\* Somebody signs in or out: the refresh that is under way is crossed.
LEMMA CrossingKeeps ==
  ASSUME SessionInv, NEW q \in [Requests -> Request], req' = Crossed(q),
         \A r \in Requests : q[r] = req[r] \/ q[r] = Free,
         isRefreshing' <=> \E r \in Requests : q[r].pc \in UnderRefresh, isRefreshing' \in BOOLEAN,
         \A r \in Requests : q[r].pc = "queued" => isRefreshing',
         OutsideTyped, leaving' \in BOOLEAN, mixed' \in BOOLEAN, socket' \in Socket,
         cookie' \in People \cup {Unset}, user' \in People \cup {Unset}, stored' \in Token,
         StoreFitsUser', CookieFits'
  PROVE  SessionInv'
  <1>1. /\ req' \in [Requests -> Request]
        /\ \A r \in Requests :
             /\ req'[r].pc = q[r].pc /\ req'[r].kind = q[r].kind /\ req'[r].who = q[r].who
             /\ req'[r].answer = q[r].answer /\ (q[r].pc \in UnderRefresh => req'[r].crossed)
    BY CrossedKeeps
  <1>2. SessionTypeOK'
    BY <1>1 DEF SessionTypeOK, OutsideTyped
  <1>3. OneRefresh'
    <2>1. \A r \in Requests : q[r].pc \in UnderRefresh => q[r] = req[r]
      BY FreeFits DEF UnderRefresh
    <2>2. \A r, p \in Requests : req[r].pc \in UnderRefresh /\ req[p].pc \in UnderRefresh => r = p
      BY DEF SessionInv, OneRefresh
    <2>3. \A r, p \in Requests : q[r].pc \in UnderRefresh /\ q[p].pc \in UnderRefresh => r = p
      BY <2>1, <2>2
    <2> QED
      BY <1>1, <2>3 DEF OneRefresh, failedQueue
  <1>4. ASSUME NEW r \in Requests
        PROVE  RequestFits(req[r])'
    <2>1. RequestFits(req[r]) /\ RequestFits(Free)
      BY SessionTyped, FreeFits
    <2>2. /\ q[r].kind \in {"login", "register"} => q[r].who \in People
          /\ q[r].kind \in {"login", "register"} /\ q[r].pc = "ok" => q[r].answer.of \in People
      BY <2>1 DEF RequestFits
    <2> QED
      BY <1>1, <2>2 DEF RequestFits, UnderRefresh
  <1> QED
    BY <1>2, <1>3, <1>4 DEF SessionInv, RequestsFit

\* Whoever signs out, or is signed out, leaves nothing of the session.
LEMMA ClearKeeps ==
  ASSUME SessionInv, NEW q \in [Requests -> Request], clearAuth(q),
         \A r \in Requests : q[r] = req[r] \/ q[r] = Free,
         isRefreshing' <=> \E r \in Requests : q[r].pc \in UnderRefresh, isRefreshing' \in BOOLEAN,
         \A r \in Requests : q[r].pc = "queued" => isRefreshing',
         OutsideTyped, leaving' \in BOOLEAN, UNCHANGED cookie
  PROVE  SessionInv'
  <1>1. StoreFitsUser' /\ CookieFits'
    BY DEF clearAuth, StoreFitsUser, TokenFitsUser, SocketFitsUser, NoToken, NoSocket, CookieFits
  <1>2. cookie \in People \cup {Unset}
    BY DEF SessionInv, SessionTypeOK
  <1> QED
    BY <1>1, <1>2, CrossingKeeps, SessionConstants DEF clearAuth

\* Requests under way are those of before, or settled.
LEMMA RefreshStays ==
  ASSUME SessionInv, NEW r \in Requests, req[r].pc \notin UnderRefresh,
         NEW q, q = [req EXCEPT ![r] = Free]
  PROVE  /\ q \in [Requests -> Request] /\ \A p \in Requests : q[p] = req[p] \/ q[p] = Free
         /\ isRefreshing <=> \E p \in Requests : q[p].pc \in UnderRefresh
         /\ \A p \in Requests : q[p].pc = "queued" => isRefreshing
         /\ isRefreshing \in BOOLEAN
  <1>1. \A p \in Requests : q[p] = IF p = r THEN Free ELSE req[p]
    BY SessionTyped
  <1>2. /\ isRefreshing <=> \E p \in Requests : req[p].pc \in UnderRefresh
        /\ \A p \in Requests : req[p].pc = "queued" => isRefreshing
    BY DEF SessionInv, OneRefresh, failedQueue
  <1>3. Free.pc \notin UnderRefresh /\ Free.pc # "queued"
    BY FreeFits DEF UnderRefresh
  <1>4. \A p \in Requests : q[p].pc \in UnderRefresh <=> req[p].pc \in UnderRefresh
    BY <1>1, <1>3
  <1>5. q \in [Requests -> Request]
    BY SessionTyped, SessionConstants
  <1>6. isRefreshing \in BOOLEAN
    BY DEF SessionInv, SessionTypeOK
  <1> QED
    BY <1>1, <1>2, <1>3, <1>4, <1>5, <1>6

LEMMA HandleAnswerKeeps ==
  ASSUME SessionInv, NEW r \in Requests, HandleAnswer(r)
  PROVE  SessionInv'
  <1>1. req[r] \in Request /\ RequestFits(req[r]) /\ req[r].pc \in {"ok", "refused"}
    BY SessionTyped DEF HandleAnswer
  <1>2. OutsideTyped
    BY DEF HandleAnswer, Says, Page, OutsideTyped, SessionInv, SessionTypeOK, server
  <1>3. CASE req[r].pc = "ok" /\ req[r].kind \in {"login", "register"}
    <2> DEFINE q == [req EXCEPT ![r] = Free]
               u == req[r].answer.of
    <2>1. /\ cookie' = u /\ stored' = req[r].answer /\ user' = u /\ req' = Crossed(q)
          /\ mixed' = FALSE /\ UNCHANGED << leaving, isRefreshing >>
          /\ socket' = [socket EXCEPT !.odd = user # Unset]
      BY <1>3 DEF HandleAnswer
    <2>2. u \in People /\ u # Unset /\ req[r].answer \in Token
      BY <1>1, <1>3, SessionAssumption DEF RequestFits, Request
    <2>3. /\ socket' \in Socket /\ socket'.pc = socket.pc /\ socket'.token = socket.token
          /\ socket'.odd = (user # Unset)
      BY <2>1 DEF SessionInv, SessionTypeOK, Socket
    <2>4. StoreFitsUser' /\ CookieFits'
      BY <2>1, <2>2, <2>3 DEF SessionInv, StoreFitsUser, TokenFitsUser, SocketFitsUser, CookieFits
    <2>5. leaving' \in BOOLEAN /\ mixed' \in BOOLEAN
      BY <2>1 DEF SessionInv, SessionTypeOK
    <2>6. req[r].pc \notin UnderRefresh
      BY <1>1 DEF UnderRefresh
    <2> HIDE DEF q, u
    <2>7. /\ q \in [Requests -> Request] /\ \A p \in Requests : q[p] = req[p] \/ q[p] = Free
          /\ isRefreshing <=> \E p \in Requests : q[p].pc \in UnderRefresh
          /\ \A p \in Requests : q[p].pc = "queued" => isRefreshing
          /\ isRefreshing \in BOOLEAN
      BY <2>6, RefreshStays DEF q
    <2> QED
      BY <1>2, <2>1, <2>2, <2>4, <2>5, <2>7, <2>3, CrossingKeeps
  <1>4. CASE ~(req[r].pc = "ok" /\ req[r].kind \in {"login", "register"})
    <2>1. /\ req' = [req EXCEPT ![r] = Free]
          /\ UNCHANGED << browser, leaving, isRefreshing, socket, mixed >>
      BY <1>4 DEF HandleAnswer
    <2> QED
      BY <1>1, <1>2, <2>1, SessionConstants, FreeFits, MoveKeeps DEF UnderRefresh
  <1> QED
    BY <1>3, <1>4

LEMMA HandleUnauthorizedKeeps ==
  ASSUME SessionInv, NEW r \in Requests, HandleUnauthorized(r)
  PROVE  SessionInv'
  <1>1. req[r] \in Request /\ RequestFits(req[r]) /\ req[r].pc = "unauthorized"
    BY SessionTyped DEF HandleUnauthorized
  <1>2. OutsideTyped
    BY DEF HandleUnauthorized, Says, OutsideTyped, SessionInv, SessionTypeOK, server
  <1>3. CASE req[r].retry
    <2> DEFINE q == [req EXCEPT ![r] = Free]
    <2>1. clearAuth(q) /\ leaving' = TRUE /\ UNCHANGED << cookie, isRefreshing >>
      BY <1>3 DEF HandleUnauthorized, GiveUp
    <2>2. req[r].pc \notin UnderRefresh
      BY <1>1 DEF UnderRefresh
    <2> HIDE DEF q
    <2>3. /\ q \in [Requests -> Request] /\ \A p \in Requests : q[p] = req[p] \/ q[p] = Free
          /\ isRefreshing <=> \E p \in Requests : q[p].pc \in UnderRefresh
          /\ \A p \in Requests : q[p].pc = "queued" => isRefreshing
          /\ isRefreshing \in BOOLEAN
      BY <2>2, RefreshStays DEF q
    <2> QED
      BY <1>2, <2>1, <2>3, ClearKeeps
  <1>4. CASE ~req[r].retry /\ isRefreshing
    <2> DEFINE next == [req[r] EXCEPT !.pc = "queued"]
    <2>1. /\ next \in Request /\ next.pc = "queued" /\ next.kind = req[r].kind
          /\ next.who = req[r].who
      BY <1>1 DEF Request
    <2>2. /\ req' = [req EXCEPT ![r] = next]
          /\ UNCHANGED << browser, leaving, isRefreshing, socket, mixed >>
      BY <1>4, SessionTyped DEF HandleUnauthorized, browser
    <2> HIDE DEF next
    <2>3. RequestFits(next)
      BY <1>1, <2>1 DEF RequestFits
    <2> QED
      BY <1>1, <1>2, <1>4, <2>1, <2>2, <2>3, MoveKeeps DEF UnderRefresh
  <1>5. CASE ~req[r].retry /\ ~isRefreshing
    <2> DEFINE next == [req[r] EXCEPT !.pc = "refreshing", !.retry = TRUE, !.cookie = cookie,
                                      !.crossed = FALSE]
    <2>1. cookie \in People \cup {Unset}
      BY DEF SessionInv, SessionTypeOK
    <2>2. /\ next \in Request /\ next.pc = "refreshing" /\ next.kind = req[r].kind
          /\ next.who = req[r].who /\ next.cookie = cookie
      BY <1>1, <2>1 DEF Request
    <2>3. /\ req' = [req EXCEPT ![r] = next] /\ isRefreshing' = TRUE
          /\ UNCHANGED << cookie, stored, user, leaving, socket, mixed >>
      BY <1>5, SessionTyped DEF HandleUnauthorized
    <2> HIDE DEF next
    <2>4. \A p \in Requests : req'[p] = IF p = r THEN next ELSE req[p]
      BY <2>3, SessionTyped
    <2>5. \A p \in Requests : req[p].pc \notin UnderRefresh /\ req[p].pc # "queued"
      BY <1>5 DEF SessionInv, OneRefresh, failedQueue
    <2>6. SessionTypeOK'
      BY <1>2, <2>2, <2>3 DEF SessionInv, SessionTypeOK, OutsideTyped
    <2>7. OneRefresh'
      <3>1. \A p \in Requests : req'[p].pc \in UnderRefresh <=> p = r
        BY <2>2, <2>4, <2>5 DEF UnderRefresh
      <3> QED
        BY <2>3, <3>1 DEF OneRefresh
    <2>8. StoreFitsUser' /\ CookieFits'
      BY <2>3 DEF SessionInv, StoreFitsUser, TokenFitsUser, SocketFitsUser, CookieFits
    <2>9. RequestFits(next)
      BY <1>1, <2>2 DEF RequestFits, SessionInv, CookieFits
    <2>10. \A p \in Requests : RequestFits(req'[p])
      BY <2>4, <2>9, SessionTyped
    <2>11. RequestsFit'
      BY <2>3, <2>10 DEF RequestsFit, RequestFits
    <2> QED
      BY <2>6, <2>7, <2>8, <2>11 DEF SessionInv
  <1> QED
    BY <1>3, <1>4, <1>5 DEF HandleUnauthorized

LEMMA HandleGrantedKeeps ==
  ASSUME SessionInv, NEW r \in Requests, HandleGranted(r)
  PROVE  SessionInv'
  <1> DEFINE token == req[r].answer
  <1>1. req[r] \in Request /\ RequestFits(req[r]) /\ req[r].pc = "granted" /\ token \in Token
    BY SessionTyped DEF HandleGranted, Request
  <1>2. OutsideTyped
    BY DEF HandleGranted, OutsideTyped, SessionInv, SessionTypeOK, server
  <1>3. /\ cookie' = token.of /\ stored' = token /\ isRefreshing' = FALSE
        /\ mixed' = (mixed \/ req[r].crossed \/ user = Unset)
        /\ UNCHANGED << user, leaving, socket >> /\ req' = Resend(r, token)
    BY DEF HandleGranted
  <1>4. req[r].crossed \in BOOLEAN /\ mixed \in BOOLEAN /\ token.of \in People \cup {Unset}
    BY <1>1 DEF SessionInv, SessionTypeOK, Request, Token
  <1>5. ~mixed' => ~mixed /\ user # Unset /\ token.of = user
    BY <1>1, <1>3, <1>4 DEF RequestFits
  <1> HIDE DEF token
  <1>6. ASSUME NEW p \in Requests
        PROVE  /\ req'[p] \in Request
               /\ req'[p].pc = "sent" \/ (req'[p] = req[p] /\ p # r /\ req[p].pc # "queued")
               /\ req'[p].kind = req[p].kind /\ req'[p].who = req[p].who
    BY <1>1, <1>3, SessionTyped DEF Resend, failedQueue, Request
  <1>7. req' \in [Requests -> Request]
    BY <1>3, <1>6 DEF Resend
  <1>8. SessionTypeOK'
    <2>1. mixed' \in BOOLEAN
      BY <1>3, <1>4
    <2> QED
      BY <1>1, <1>2, <1>3, <1>4, <1>7, <2>1 DEF SessionInv, SessionTypeOK, OutsideTyped
  <1>9. \A p \in Requests : req'[p].pc \notin UnderRefresh /\ req'[p].pc # "queued"
    <2>1. \A p \in Requests : req[p].pc \in UnderRefresh => p = r
      BY <1>1 DEF SessionInv, OneRefresh, UnderRefresh
    <2> QED
      BY <1>6, <2>1 DEF UnderRefresh
  <1>10. OneRefresh'
    BY <1>3, <1>9 DEF OneRefresh, failedQueue
  <1>11. StoreFitsUser' /\ CookieFits'
    BY <1>3, <1>4, <1>5 DEF SessionInv, StoreFitsUser, TokenFitsUser, SocketFitsUser, CookieFits
  <1>12. ASSUME NEW p \in Requests
         PROVE  RequestFits(req[p])'
    <2>1. /\ req[p].kind \in {"login", "register"} => req[p].who \in People
          /\ req[p].kind \in {"login", "register"} /\ req[p].pc = "ok" => req[p].answer.of \in People
      BY SessionTyped DEF RequestFits
    <2>2. req'[p].pc \notin {"refreshing", "granted"}
      BY <1>9 DEF UnderRefresh
    <2> QED
      BY <1>6, <2>1, <2>2 DEF RequestFits
  <1> QED
    BY <1>8, <1>10, <1>11, <1>12 DEF SessionInv, RequestsFit

LEMMA HandleDeniedKeeps ==
  ASSUME SessionInv, NEW r \in Requests, HandleDenied(r)
  PROVE  SessionInv'
  <1> DEFINE rejected == failedQueue \cup {r}
             q == [p \in Requests |-> IF p \in rejected THEN Free ELSE req[p]]
  <1>1. clearAuth(q) /\ leaving' = TRUE /\ isRefreshing' = FALSE /\ UNCHANGED cookie
    BY DEF HandleDenied, GiveUp
  <1>2. OutsideTyped
    BY DEF HandleDenied, OutsideTyped, SessionInv, SessionTypeOK, server
  <1>3. \A p \in Requests : req[p].pc \in UnderRefresh => p = r
    BY DEF HandleDenied, SessionInv, OneRefresh, UnderRefresh
  <1>4. \A p \in Requests : q[p].pc \notin UnderRefresh /\ q[p].pc # "queued"
    BY <1>3, FreeFits DEF failedQueue, UnderRefresh
  <1>5. q \in [Requests -> Request] /\ \A p \in Requests : q[p] = req[p] \/ q[p] = Free
    BY SessionTyped, SessionConstants
  <1> HIDE DEF q
  <1> QED
    BY <1>1, <1>2, <1>4, <1>5, ClearKeeps

LEMMA SignOutKeeps ==
  ASSUME SessionInv, SignOut
  PROVE  SessionInv'
  <1>1. OutsideTyped
    BY DEF SignOut, OutsideTyped, SessionInv, SessionTypeOK, server
  <1>2. /\ req \in [Requests -> Request] /\ isRefreshing \in BOOLEAN /\ leaving \in BOOLEAN
        /\ isRefreshing <=> \E p \in Requests : req[p].pc \in UnderRefresh
        /\ \A p \in Requests : req[p].pc = "queued" => isRefreshing
    BY DEF SessionInv, SessionTypeOK, OneRefresh, failedQueue
  <1>3. clearAuth(req) /\ UNCHANGED << cookie, leaving, isRefreshing >>
    BY DEF SignOut
  <1> QED
    BY <1>1, <1>2, <1>3, ClearKeeps

\* Where requests and storage stay, so does what is said of them.
LEMMA StayKeeps ==
  ASSUME SessionInv, UNCHANGED << browser, leaving, isRefreshing, req, mixed >>, OutsideTyped,
         socket' \in Socket, SocketFitsUser'
  PROVE  SessionInv'
  <1>1. SessionTypeOK'
    BY DEF SessionInv, SessionTypeOK, OutsideTyped, browser
  <1>2. OneRefresh'
    BY DEF SessionInv, OneRefresh, failedQueue
  <1>3. StoreFitsUser' /\ CookieFits'
    BY DEF SessionInv, StoreFitsUser, TokenFitsUser, CookieFits, browser
  <1>4. RequestsFit'
    BY DEF SessionInv, RequestsFit, RequestFits, browser
  <1> QED
    BY <1>1, <1>2, <1>3, <1>4 DEF SessionInv

LEMMA SocketKeeps ==
  ASSUME SessionInv, Connect \/ authenticateSocket \/ \E p \in Page \cup {"login", "register"} : Navigate(p)
  PROVE  SessionInv'
  <1>1. /\ socket \in Socket /\ stored \in Token /\ SocketFitsUser /\ TokenFitsUser
    BY DEF SessionInv, SessionTypeOK, StoreFitsUser
  <1>2. CASE Connect
    <2>1. user # Unset
      BY <1>2 DEF Connect, Shown
    <2>2. /\ socket' = [pc |-> "opening", token |-> stored, odd |-> mixed]
          /\ UNCHANGED << user, mixed >> /\ mixed \in BOOLEAN
      BY <1>2 DEF Connect, browser, SessionInv, SessionTypeOK
    <2>3. socket' \in Socket /\ SocketFitsUser'
      BY <1>1, <2>1, <2>2 DEF Socket, SocketFitsUser, TokenFitsUser
    <2>4. OutsideTyped
      BY <1>2 DEF Connect, OutsideTyped, SessionInv, SessionTypeOK, server
    <2> QED
      BY <1>2, <2>3, <2>4, StayKeeps DEF Connect
  <1>3. CASE authenticateSocket
    <2>1. /\ socket.pc = "opening" /\ socket' \in Socket
          /\ socket'.token = socket.token /\ socket'.odd = socket.odd
          /\ UNCHANGED << user, mixed >>
      BY <1>1, <1>3 DEF authenticateSocket, Socket, browser
    <2>2. SocketFitsUser'
      BY <1>1, <2>1 DEF SocketFitsUser
    <2>3. OutsideTyped
      BY <1>3 DEF authenticateSocket, OutsideTyped, SessionInv, SessionTypeOK, server
    <2> QED
      BY <1>3, <2>1, <2>2, <2>3, StayKeeps DEF authenticateSocket
  <1>4. ASSUME NEW p \in Page \cup {"login", "register"}, Navigate(p)
        PROVE  SessionInv'
    <2>1. (socket' = socket \/ socket' = NoSocket) /\ UNCHANGED << user, mixed >>
      BY <1>4 DEF Navigate, browser
    <2>2. socket' \in Socket /\ SocketFitsUser'
      <3>1. CASE socket' = socket
        BY <1>1, <2>1, <3>1 DEF SocketFitsUser
      <3>2. CASE socket' = NoSocket
        BY <3>2, SessionConstants DEF SocketFitsUser, NoSocket
      <3> QED BY <2>1, <3>1, <3>2
    <2>3. OutsideTyped
      BY <1>4 DEF Navigate, OutsideTyped, SessionInv, SessionTypeOK, server
    <2> QED
      BY <1>4, <2>2, <2>3, StayKeeps DEF Navigate
  <1> QED
    BY <1>2, <1>3, <1>4

LEMMA NewPageKeeps ==
  ASSUME SessionInv, NEW p \in Page \cup {"login", "register"}, NewPage(p), changes' \in Nat
  PROVE  SessionInv'
  <1>1. /\ leaving' = FALSE /\ isRefreshing' = FALSE /\ socket' = NoSocket
        /\ req' = [r \in Requests |-> Free] /\ UNCHANGED << cookie, stored, user, mixed >>
    BY DEF NewPage, browser
  <1>2. OutsideTyped
    BY DEF NewPage, OutsideTyped, SessionInv, SessionTypeOK, server
  <1>3. SessionTypeOK'
    BY <1>1, <1>2, SessionConstants DEF SessionInv, SessionTypeOK, OutsideTyped
  <1>4. \A r \in Requests : req'[r] = Free
    BY <1>1
  <1>5. OneRefresh' /\ RequestsFit'
    <2>1. \A r \in Requests : RequestFits(req[r])'
      BY <1>4 DEF RequestFits, Free
    <2> QED
      BY <1>1, <1>4, <2>1, FreeFits DEF OneRefresh, failedQueue, UnderRefresh, RequestsFit
  <1>6. StoreFitsUser' /\ CookieFits'
    BY <1>1 DEF SessionInv, StoreFitsUser, TokenFitsUser, SocketFitsUser, NoSocket, CookieFits
  <1> QED
    BY <1>3, <1>5, <1>6 DEF SessionInv

\* The clock and the administrators.
LEMMA WorldKeeps ==
  ASSUME SessionInv, Expire \/ \E u \in People, state \in {"active", "disabled", "blocked"} : Administer(u, state)
  PROVE  SessionInv'
  <1>1. OutsideTyped
    BY DEF Expire, Administer, OutsideTyped, SessionInv, SessionTypeOK, Account, page
  <1>2. UNCHANGED << browser, leaving, isRefreshing, req, mixed, socket >>
    BY DEF Expire, Administer, page
  <1>3. socket' \in Socket /\ SocketFitsUser'
    BY <1>2 DEF SessionInv, SessionTypeOK, StoreFitsUser, SocketFitsUser, browser
  <1> QED
    BY <1>1, <1>2, <1>3, StayKeeps

LEMMA SessionStep == SessionInv /\ [Next]_vars => SessionInv'
  <1> SUFFICES ASSUME SessionInv, [Next]_vars PROVE SessionInv'
    OBVIOUS
  <1>1. CASE Person
    <2>1. CASE Reload
      <3>1. path \in Page \cup {"login", "register"} /\ changes' \in Nat
        BY <2>1 DEF Reload, SessionInv, SessionTypeOK
      <3> QED
        BY <2>1, <3>1, NewPageKeeps DEF Reload
    <2> QED
      BY <1>1, <2>1, SendKeeps, SignOutKeeps, SocketKeeps DEF Person
  <1>2. CASE World
    BY <1>2, AnswersKeep, WorldKeeps DEF World
  <1>3. ASSUME NEW r \in Requests, Answers(r) \/ Handles(r)
        PROVE  SessionInv'
    BY <1>3, AnswersKeep, HandleAnswerKeeps, HandleUnauthorizedKeeps, HandleGrantedKeeps,
       HandleDeniedKeeps DEF Handles
  <1>4. CASE Leave
    <2>1. changes' \in Nat
      BY <1>4 DEF Leave, SessionInv, SessionTypeOK
    <2> QED
      BY <1>4, <2>1, NewPageKeeps DEF Leave
  <1>5. CASE Connect \/ authenticateSocket
    BY <1>5, SocketKeeps
  <1>6. CASE UNCHANGED vars
    <2>1. OutsideTyped
      BY <1>6 DEF vars, server, page, OutsideTyped, SessionInv, SessionTypeOK
    <2>2. UNCHANGED << browser, leaving, isRefreshing, req, mixed, socket >>
      BY <1>6 DEF vars, page
    <2>3. socket' \in Socket /\ SocketFitsUser'
      BY <2>2 DEF SessionInv, SessionTypeOK, StoreFitsUser, SocketFitsUser, browser
    <2> QED
      BY <2>1, <2>2, <2>3, StayKeeps
  <1> QED
    BY <1>1, <1>2, <1>3, <1>4, <1>5, <1>6 DEF Next

-----------------------------------------------------------------------------
(* Theorems.                                                               *)

LEMMA SessionAlways == Spec => []SessionInv
  BY SessionStart, SessionStep, PTL DEF Spec

\* The types of the server's, the browser's and the page's state.
THEOREM SessionTypeCorrect == Spec => []SessionTypeOK
  BY SessionAlways, PTL DEF SessionInv

\* One refresh at a time, and nobody waits for one that is over (OneRefresh).
THEOREM RefreshCorrect == Spec => []OneRefresh
  BY SessionAlways, PTL DEF SessionInv

\* Token and socket are the signed-in user's, and nobody's while nobody is signed in, unless
\* somebody signed in or out during the refresh that brought the token, a refresh ended with
\* nobody signed in, or somebody signed in over somebody else, who leaves a socket behind
\* (StoreFitsUser).
THEOREM StoreCorrect == Spec => []StoreFitsUser
  BY SessionAlways, PTL DEF SessionInv

-----------------------------------------------------------------------------
(* The lists: nothing old stays on screen for good.                        *)

EntryFields == {"data", "phase", "answer", "failed", "invalid", "gap"}

\* What the server answers, what is under way, and what is on screen, of given tables, messages
\* and filter.
View(k, statuses, table) == IF k = "routes" THEN table ELSE Listed(k, statuses)

InFlight(k, messages) == IF k = "routes" THEN messages.routes > 0 ELSE messages.orders # {}

Visible(k, f) == k \in {"routes", f}

EntryTyped(q) ==
  /\ DOMAIN q = EntryFields /\ q.phase \in {"idle", "asked", "read"}
  /\ q.failed \in BOOLEAN /\ q.invalid \in BOOLEAN /\ q.gap \in BOOLEAN

\* An answer that was read is the table unless a message will tell or the list has missed a
\* change; and so is the list, unless it has failed or will be asked for.
Explained(q, view, pending, shown) ==
  /\ EntryTyped(q)
  /\ q.phase = "idle" => \/ q.data = NoData \/ q.data = view \/ pending \/ q.gap \/ q.failed
                         \/ q.invalid /\ ~shown
  /\ q.phase = "read" => q.answer = view \/ pending \/ q.gap

NewsTyped(n) == DOMAIN n = {"orders", "routes"} /\ n.routes \in Nat

FeedInv ==
  /\ DOMAIN query = Keys /\ NewsTyped(news) /\ filter \in Filters
  /\ \A k \in Keys :
       Explained(query[k], View(k, orders, routes), InFlight(k, news), Visible(k, filter))

LEMMA FeedPrimed ==
  ASSUME DOMAIN query' = Keys, NewsTyped(news'), filter' \in Filters,
         \A k \in Keys :
           Explained(query'[k], View(k, orders', routes'), InFlight(k, news'), Visible(k, filter'))
  PROVE  FeedInv'
  BY DEF FeedInv, NewsTyped, Explained, EntryTyped, View, Listed, InFlight, Visible

\* The tables change, with a message or without a difference.
LEMMA TablesChange ==
  ASSUME FeedInv, UNCHANGED << query, filter >>, NewsTyped(news'),
         \A k \in Keys :
           /\ View(k, orders', routes') = View(k, orders, routes) \/ InFlight(k, news')
           /\ InFlight(k, news) => InFlight(k, news')
  PROVE  FeedInv'
  <1>1. \A k \in Keys :
          Explained(query'[k], View(k, orders', routes'), InFlight(k, news'), Visible(k, filter'))
    BY DEF FeedInv, Explained
  <1> QED BY <1>1, FeedPrimed DEF FeedInv

\* Of one list, an entry that is explained whatever the tables are.
LEMMA QueryChanges ==
  ASSUME FeedInv, NEW k \in Keys, NEW q, query' = [query EXCEPT ![k] = q],
         UNCHANGED << orders, routes, news, filter >>,
         Explained(q, View(k, orders, routes), InFlight(k, news), Visible(k, filter))
  PROVE  FeedInv'
  <1>1. DOMAIN query' = Keys /\ \A x \in Keys : query'[x] = IF x = k THEN q ELSE query[x]
    BY DEF FeedInv
  <1>2. \A x \in Keys :
          Explained(query'[x], View(x, orders', routes'), InFlight(x, news'), Visible(x, filter'))
    BY <1>1 DEF FeedInv
  <1> QED BY <1>1, <1>2, FeedPrimed DEF FeedInv

LEMMA AskExplained ==
  ASSUME NEW q, EntryTyped(q), NEW view, NEW pending, NEW shown
  PROVE  Explained(Ask(q), view, pending, shown)
  BY DEF EntryTyped, EntryFields, Explained, Ask

LEMMA InvalidatedExplained ==
  ASSUME NEW k, NEW q, EntryTyped(q), NEW view, NEW pending
  PROVE  Explained(Invalidated(k, q), view, pending, Visible(k, filter))
  <1> DEFINE marked == [q EXCEPT !.invalid = TRUE]
             joined == [marked EXCEPT !.gap = @ \/ q.phase = "read"]
  <1>1. EntryTyped(marked)
    BY DEF EntryTyped, EntryFields
  <1>2. Explained(Ask(marked), view, pending, Visible(k, filter))
    BY <1>1, AskExplained
  <1>3. /\ EntryTyped(joined) /\ joined.phase = q.phase /\ joined.invalid
        /\ q.phase = "read" => joined.gap
    BY DEF EntryTyped, EntryFields
  <1> HIDE DEF joined, marked
  <1>4. ~OnScreen(k) \/ (q.phase # "idle" /\ q.data = NoData)
          => Explained(joined, view, pending, Visible(k, filter))
    BY <1>3 DEF Explained, OnScreen, Visible
  <1> QED BY <1>2, <1>4 DEF Invalidated, joined, marked

LEMMA MissedExplained ==
  ASSUME NEW k, NEW q, EntryTyped(q), NEW view, NEW pending, NEW shown
  PROVE  Explained(Missed(k, q), view, pending, shown)
  BY DEF EntryTyped, EntryFields, Explained, Missed

LEMMA SetDataTyped ==
  ASSUME NEW q, EntryTyped(q), NEW data
  PROVE  /\ EntryTyped(SetData(q, data)) /\ SetData(q, data).data = data
         /\ SetData(q, data).phase = q.phase /\ SetData(q, data).gap = q.gap
         /\ SetData(q, data).answer = q.answer
  BY DEF EntryTyped, EntryFields, SetData

LEMMA FeedStart == WorkspaceInit => FeedInv
  <1>1. SUFFICES ASSUME FeedInit PROVE FeedInv
    BY DEF WorkspaceInit
  <1>2. EntryTyped(Entry0) /\ Entry0.phase = "idle" /\ Entry0.data = NoData
    BY DEF EntryTyped, EntryFields, Entry0, NoData
  <1>3. \A k \in Keys : \A view, pending, shown : Explained(query[k], view, pending, shown)
    BY <1>1, <1>2, AskExplained DEF FeedInit, Explained
  <1> QED BY <1>1, <1>3, DispatchFeedAssumption DEF FeedInit, FeedInv, NewsTyped, Keys

LEMMA WritePlanFeed ==
  ASSUME FeedInv, NEW r, NEW rw, NEW taken, WritePlan(r, rw, taken), UNCHANGED << query, filter >>
  PROVE  FeedInv'
  <1> DEFINE moved == [o \in Orders |-> IF o \in taken THEN "assigned" ELSE orders[o]]
             told == {[order |-> o, to |-> moved[o]] : o \in taken}
  <1>1. orders' = moved /\ news' = [TellOrders(taken, moved) EXCEPT !.routes = @ + 1]
    BY DEF WritePlan
  <1>2. NewsTyped(news)
    BY DEF FeedInv
  <1>3. NewsTyped(news') /\ news'.routes > 0 /\ news'.orders = news.orders \cup told
    BY <1>1, <1>2 DEF NewsTyped, TellOrders
  <1>4. taken = {} => \A k : Listed(k, orders') = Listed(k, orders)
    BY <1>1 DEF Listed
  <1>5. taken # {} => news'.orders # {}
    BY <1>3
  <1> HIDE DEF moved, told
  <1>6. \A k \in Keys :
          /\ View(k, orders', routes') = View(k, orders, routes) \/ InFlight(k, news')
          /\ InFlight(k, news) => InFlight(k, news')
    BY <1>3, <1>4, <1>5 DEF View, InFlight
  <1> QED BY <1>3, <1>6, TablesChange

LEMMA TellRoutesFeed ==
  ASSUME FeedInv, news' = TellRoutes, UNCHANGED << orders, query, filter >>
  PROVE  FeedInv'
  <1>1. NewsTyped(news') /\ news'.routes > 0 /\ news'.orders = news.orders
    BY DEF TellRoutes, NewsTyped, FeedInv
  <1>2. \A k \in Keys :
          /\ View(k, orders', routes') = View(k, orders, routes) \/ InFlight(k, news')
          /\ InFlight(k, news) => InFlight(k, news')
    BY <1>1 DEF View, InFlight
  <1> QED BY <1>1, <1>2, TablesChange

\* A change of an order that the browser is not told of, or a message about one that is lost.
LEMMA OrdersMissed ==
  ASSUME FeedInv, NewsTyped(news'), news'.routes = news.routes, UNCHANGED << routes, filter >>,
         query' = [k \in Keys |-> IF k = "routes" THEN query[k] ELSE Missed(k, query[k])]
  PROVE  FeedInv'
  <1>1. DOMAIN query' = Keys
    OBVIOUS
  <1>2. ASSUME NEW k \in Keys
        PROVE  Explained(query'[k], View(k, orders', routes'), InFlight(k, news'), Visible(k, filter'))
    <2>1. CASE k = "routes"
      BY <2>1 DEF FeedInv, View, InFlight, Visible
    <2>2. CASE k # "routes"
      <3>1. query'[k] = Missed(k, query[k]) /\ EntryTyped(query[k])
        BY <2>2 DEF FeedInv, Explained
      <3> QED BY <3>1, MissedExplained
    <2> QED BY <2>1, <2>2
  <1> QED BY <1>1, <1>2, FeedPrimed DEF FeedInv

LEMMA ServerFeed == ASSUME FeedInv, ServerStep PROVE FeedInv'
  <1>1. ASSUME NEW o \in Orders, OthersEnterOrder(o) PROVE FeedInv'
    BY <1>1, OrdersMissed DEF OthersEnterOrder, FeedInv
  <1>2. ASSUME NEW o \in Orders, NEW to \in OrderStatus, OthersMoveOrder(o, to) PROVE FeedInv'
    <2>1. /\ NewsTyped(news') /\ news'.orders # {} /\ news'.routes = news.routes
          /\ UNCHANGED << routes, query, filter >>
      BY <1>2 DEF OthersMoveOrder, TellOrders, FeedInv, NewsTyped, ClientUnchanged
    <2>2. \A k \in Keys :
            /\ View(k, orders', routes') = View(k, orders, routes) \/ InFlight(k, news')
            /\ InFlight(k, news) => InFlight(k, news')
      BY <2>1 DEF View, InFlight
    <2> QED BY <2>1, <2>2, TablesChange
  <1>3. ASSUME NEW x \in Others, OthersReadOrders(x) \/ \E r \in RouteIds :
                 \/ \E points \in Plans : OthersPlanRoute(x, r, points)
                 \/ \E to \in {"planned", "in_progress", "deleted"} : OthersMoveRoute(x, r, to)
        PROVE  FeedInv'
    <2>1. ASSUME NEW r, NEW phase, NEW rw, OthersRead(x, r, phase, rw)
          PROVE  UNCHANGED << orders, routes, news, query, filter >>
      BY <2>1, Zenon DEF OthersRead, ClientUnchanged
    <2>2. OthersReadOrders(x) => UNCHANGED << orders, routes, news, query, filter >>
      BY Zenon DEF OthersReadOrders, ClientUnchanged
    <2>3. UNCHANGED << orders, routes, news, query, filter >>
      BY <1>3, <2>1, <2>2, Zenon DEF OthersPlanRoute, OthersMoveRoute
    <2> QED BY <2>3, TablesChange DEF FeedInv
  <1>4. ASSUME NEW x \in Others, OthersEnd(x) PROVE FeedInv'
    <2>1. UNCHANGED << query, filter >>
      BY <1>4 DEF OthersEnd, ClientUnchanged
    <2>2. ASSUME UNCHANGED << orders, routes, news >> PROVE FeedInv'
      BY <2>1, <2>2, TablesChange DEF FeedInv
    <2> QED BY <1>4, <2>1, <2>2, WritePlanFeed, TellRoutesFeed DEF OthersEnd, WriteStatus
  <1> QED BY <1>1, <1>2, <1>3, <1>4 DEF ServerStep

LEMMA PatchedTyped ==
  ASSUME NEW k, NEW q, EntryTyped(q), NEW m
  PROVE  EntryTyped(Patched(k, q, m))
  BY SetDataTyped DEF Patched

LEMMA MessagesFeed == ASSUME FeedInv, Messages PROVE FeedInv'
  <1>1. NewsTyped(news) /\ \A k \in Keys : EntryTyped(query[k])
    BY DEF FeedInv, Explained
  <1>2. ASSUME NEW m \in news.orders, HearOrder(m) PROVE FeedInv'
    <2>1. NewsTyped(news') /\ news'.routes = news.routes /\ UNCHANGED << orders, routes, filter >>
      BY <1>1, <1>2 DEF HearOrder, NewsTyped, ServerUnchanged
    <2>2. DOMAIN query' = Keys /\ \A k \in Keys : query'[k] = OrderHeard(k, query[k], m)
      BY <1>2 DEF HearOrder
    <2>3. ASSUME NEW k \in Keys
          PROVE  Explained(query'[k], View(k, orders', routes'), InFlight(k, news'), Visible(k, filter'))
      <3>1. CASE k = "routes"
        BY <2>1, <2>2, <3>1 DEF OrderHeard, FeedInv, View, InFlight, Visible
      <3>2. CASE k # "routes"
        <4>1. EntryTyped(Patched(k, query[k], m))
          BY <1>1, PatchedTyped
        <4>2. query'[k] = Invalidated(k, Patched(k, query[k], m))
          BY <2>2, <3>2 DEF OrderHeard
        <4> QED BY <2>1, <4>1, <4>2, InvalidatedExplained
      <3> QED BY <3>1, <3>2
    <2> QED BY <2>1, <2>2, <2>3, FeedPrimed DEF FeedInv
  <1>3. ASSUME NEW m \in news.orders, LoseOrder(m) PROVE FeedInv'
    BY <1>1, <1>3, OrdersMissed DEF LoseOrder, NewsTyped, ServerUnchanged
  <1>4. ASSUME NEW q, query' = [query EXCEPT !["routes"] = q], ServerUnchanged, UNCHANGED filter,
               news' = [news EXCEPT !.routes = @ - 1], news.routes > 0,
               \A view, pending : Explained(q, view, pending, Visible("routes", filter))
        PROVE  FeedInv'
    <2>1. /\ NewsTyped(news') /\ news'.orders = news.orders /\ DOMAIN query' = Keys
          /\ UNCHANGED << orders, routes, filter >>
      BY <1>1, <1>4 DEF NewsTyped, ServerUnchanged, FeedInv
    <2>2. \A k \in Keys : query'[k] = IF k = "routes" THEN q ELSE query[k]
      BY <1>4 DEF FeedInv
    <2>3. ASSUME NEW k \in Keys
          PROVE  Explained(query'[k], View(k, orders', routes'), InFlight(k, news'), Visible(k, filter'))
      <3>1. CASE k = "routes"
        BY <1>4, <2>1, <2>2, <3>1
      <3>2. CASE k # "routes"
        BY <2>1, <2>2, <3>2 DEF FeedInv, View, InFlight
      <3> QED BY <3>1, <3>2
    <2> QED BY <2>1, <2>3, FeedPrimed DEF FeedInv
  <1>5. CASE HearRoute
    <2>1. query' = [query EXCEPT !["routes"] = Invalidated("routes", query["routes"])]
      BY <1>5 DEF HearRoute, RoutesHeard
    <2>2. \A view, pending :
            Explained(Invalidated("routes", query["routes"]), view, pending, Visible("routes", filter))
      BY <1>1, InvalidatedExplained DEF Keys
    <2> QED BY <1>4, <1>5, <2>1, <2>2 DEF HearRoute
  <1>6. CASE LoseRoute
    <2>1. query' = [query EXCEPT !["routes"] = Missed("routes", query["routes"])]
      BY <1>6 DEF LoseRoute
    <2>2. \A view, pending :
            Explained(Missed("routes", query["routes"]), view, pending, Visible("routes", filter))
      BY <1>1, MissedExplained DEF Keys
    <2> QED BY <1>4, <1>6, <2>1, <2>2 DEF LoseRoute
  <1> QED BY <1>2, <1>3, <1>5, <1>6 DEF Messages

LEMMA QueriesFeed == ASSUME FeedInv, Queries PROVE FeedInv'
  <1>1. /\ \A k \in Keys : EntryTyped(query[k])
        /\ \A k \in Keys :
             Explained(query[k], View(k, orders, routes), InFlight(k, news), Visible(k, filter))
    BY DEF FeedInv, Explained
  <1>2. ASSUME NEW k \in Keys, NEW q, QueryOnly(k, q),
               Explained(q, View(k, orders, routes), InFlight(k, news), Visible(k, filter))
        PROVE  FeedInv'
    BY <1>2, QueryChanges DEF QueryOnly, ServerUnchanged
  <1>3. ASSUME NEW k \in Keys, ReadAnswer(k) PROVE FeedInv'
    <2> DEFINE q == [query[k] EXCEPT !.phase = "read", !.answer = ServerView(k)]
    <2>1. QueryOnly(k, q)
      BY <1>3 DEF ReadAnswer
    <2>2. Explained(q, View(k, orders, routes), InFlight(k, news), Visible(k, filter))
      BY <1>1 DEF EntryTyped, EntryFields, Explained, ServerView, View
    <2> HIDE DEF q
    <2> QED BY <1>2, <2>1, <2>2
  <1>4. ASSUME NEW k \in Keys, TakeAnswer(k) PROVE FeedInv'
    <2> DEFINE s == SetData(query[k], query[k].answer)
               q == [s EXCEPT !.phase = "idle", !.answer = NoData]
    <2>1. QueryOnly(k, q) /\ query[k].phase = "read"
      BY <1>4 DEF TakeAnswer
    <2>2. EntryTyped(s) /\ s.data = query[k].answer /\ s.gap = query[k].gap
      BY <1>1, SetDataTyped
    <2> HIDE DEF s
    <2>3. /\ EntryTyped(q) /\ q.phase = "idle" /\ q.data = query[k].answer
          /\ q.gap = query[k].gap
      BY <2>2 DEF EntryTyped, EntryFields
    <2> HIDE DEF q
    <2>4. Explained(q, View(k, orders, routes), InFlight(k, news), Visible(k, filter))
      BY <1>1, <2>1, <2>3 DEF Explained
    <2> QED BY <1>2, <2>1, <2>4
  <1>5. ASSUME NEW k \in Keys, FailAnswer(k) PROVE FeedInv'
    <2> DEFINE q == [query[k] EXCEPT !.phase = "idle", !.failed = TRUE]
    <2>1. QueryOnly(k, q)
      BY <1>5 DEF FailAnswer
    <2>2. Explained(q, View(k, orders, routes), InFlight(k, news), Visible(k, filter))
      BY <1>1 DEF EntryTyped, EntryFields, Explained
    <2> HIDE DEF q
    <2> QED BY <1>2, <2>1, <2>2
  <1>6. ASSUME NEW k \in Keys, Refetch(k) PROVE FeedInv'
    BY <1>1, <1>2, <1>6, AskExplained DEF Refetch
  <1>7. ASSUME NEW f \in Filters, SetStatusFilter(f) PROVE FeedInv'
    <2> DEFINE asks == query[f].phase = "idle" /\ (query[f].data = NoData \/ query[f].invalid)
               q == IF asks THEN Ask(query[f]) ELSE query[f]
    <2>1. /\ query' = [query EXCEPT ![f] = q] /\ filter' = f /\ UNCHANGED << orders, routes, news >>
          /\ f \in Keys
      BY <1>7 DEF SetStatusFilter, ServerUnchanged, Keys
    <2>2. DOMAIN query' = Keys /\ \A k \in Keys : query'[k] = IF k = f THEN q ELSE query[k]
      BY <2>1 DEF FeedInv
    <2>3. Explained(q, View(f, orders, routes), InFlight(f, news), Visible(f, f))
      <3>1. CASE asks
        BY <1>1, <2>1, <3>1, AskExplained
      <3>2. CASE ~asks
        BY <1>1, <2>1, <3>2 DEF Explained, EntryTyped
      <3> QED BY <3>1, <3>2
    <2> HIDE DEF q, asks
    <2>4. ASSUME NEW k \in Keys, k # f
          PROVE  Explained(query[k], View(k, orders, routes), InFlight(k, news), Visible(k, f))
      BY <1>1, <2>4 DEF Explained, Visible
    <2>5. \A k \in Keys :
            Explained(query'[k], View(k, orders', routes'), InFlight(k, news'), Visible(k, filter'))
      BY <2>1, <2>2, <2>3, <2>4
    <2> QED BY <1>7, <2>1, <2>2, <2>5, FeedPrimed DEF FeedInv
  <1> QED BY <1>3, <1>4, <1>5, <1>6, <1>7 DEF Queries

\* The steps of this dispatcher's requests at the server: each is about one request.
LEMMA ServeServes == Serve => \E k, q : Serves(k, q)
  <1>1. \A k : ReadRoute(k) \/ ReadStops(k) \/ Refuses(k) => \E q : Serves(k, q)
    BY Zenon DEF ReadRoute, ReadStops, Refuses
  <1>2. ServeBuild \/ ServeSave \/ ServeSend => \E k, q : Serves(k, q)
    BY Zenon DEF ServeBuild, ServeSave, ServeSend
  <1> QED BY <1>1, <1>2, Zenon DEF Serve

LEMMA ServeClient ==
  Serve => UNCHANGED << query, filter, picked, selected, newDraft, column >>
  <1>1. ASSUME NEW k, NEW q, Serves(k, q)
        PROVE  UNCHANGED << query, filter, picked, selected, newDraft, column >>
    BY <1>1, Zenon DEF Serves, ClientUnchanged
  <1> QED BY <1>1, ServeServes, Zenon

LEMMA ServeFeed ==
  ASSUME FeedInv, Serve
  PROVE  FeedInv'
  <1>1. UNCHANGED << query, filter >>
    BY ServeClient
  <1>2. ASSUME OnlyReads PROVE FeedInv'
    BY <1>1, <1>2, TablesChange DEF OnlyReads, FeedInv
  <1>3. ASSUME news' = TellRoutes, UNCHANGED orders PROVE FeedInv'
    BY <1>1, <1>3, TellRoutesFeed
  <1>4. ServeBuild \/ ServeSend => news' = TellRoutes /\ UNCHANGED orders
    BY Zenon DEF ServeBuild, ServeSend, WriteStatus
  <1>5. CASE ServeSave
    <2>1. PICK r, rw, taken : WritePlan(r, rw, taken)
      BY <1>5, Zenon DEF ServeSave
    <2> QED BY <1>1, <2>1, WritePlanFeed
  <1>6. \A k : ReadRoute(k) \/ ReadStops(k) \/ Refuses(k) => OnlyReads
    BY Zenon DEF ReadRoute, ReadStops, Refuses
  <1> QED BY <1>2, <1>3, <1>4, <1>5, <1>6, Zenon DEF Serve

LEMMA OwnAnswerFeed ==
  ASSUME FeedInv, NEW k, TakeOwnAnswer(k)
  PROVE  FeedInv'
  <1> DEFINE old == query["routes"]
             new == Invalidated("routes", old)
  <1>1. EntryTyped(old) /\ "routes" \in Keys
    BY DEF FeedInv, Explained, Keys
  <1>2. \A view, pending : Explained(new, view, pending, Visible("routes", filter))
    BY <1>1, InvalidatedExplained
  <1>3. new.phase # "idle"
    BY <1>1 DEF Invalidated, OnScreen, EntryTyped, EntryFields, Ask
  <1>4. UNCHANGED << orders, routes, news, filter >>
    BY DEF TakeOwnAnswer, ServerUnchanged
  <1>5. CASE query' = [query EXCEPT !["routes"] = new]
    BY <1>1, <1>2, <1>4, <1>5, QueryChanges
  <1>6. ASSUME NEW r, NEW rw, query' = [query EXCEPT !["routes"] = WithAnswer(@, r, rw)]
        PROVE  FeedInv'
    <2> DEFINE known == IF old.data = NoData THEN [x \in RouteIds |-> NoRow] ELSE old.data
               data == [known EXCEPT ![r] = rw]
               q == SetData(new, data)
    <2>1. query' = [query EXCEPT !["routes"] = q]
      BY <1>6 DEF WithAnswer
    <2> HIDE DEF data, new
    <2>2. EntryTyped(new)
      BY <1>2 DEF Explained
    <2>3. /\ EntryTyped(q) /\ q.phase = new.phase /\ q.gap = new.gap /\ q.answer = new.answer
      BY <2>2, SetDataTyped
    <2> HIDE DEF q
    <2>4. Explained(q, View("routes", orders, routes), InFlight("routes", news),
                    Visible("routes", filter))
      BY <1>2, <1>3, <2>3 DEF Explained
    <2> QED BY <1>1, <1>4, <2>1, <2>4, QueryChanges
  <1> QED BY <1>5, <1>6 DEF TakeOwnAnswer

\* Every edit of the open column is an edit of its stops and courier.
LEMMA EditIsEdits == Edit => \E points, courier : Edits(points, courier)
  BY DEF Edit, DropStop, DropCard, DropFromMap, RemovePoint, AddSelected, Reset, ChooseCourier

LEMMA FeedKept == FeedInv /\ [WorkspaceNext]_workspaceVars => FeedInv'
  <1>1. SUFFICES ASSUME FeedInv, [WorkspaceNext]_workspaceVars PROVE FeedInv'
    OBVIOUS
  <1>2. ASSUME UNCHANGED << orders, routes, news, query, filter >> PROVE FeedInv'
    BY <1>1, <1>2, TablesChange DEF FeedInv
  <1>3. CASE FeedStep
    BY <1>1, <1>3, ServerFeed, MessagesFeed, QueriesFeed DEF FeedStep
  <1>4. ASSUME \/ \E o \in Orders : PickOrder(o) \/ ClickOrder(o)
               \/ clearOrderSelection \/ StartNewDraft
               \/ \E r \in RouteIds : SelectListedRoute(r) \/ SelectRouteOnMap(r)
        PROVE  UNCHANGED << orders, routes, news, query, filter >>
    <2>1. UiOnly
      BY <1>4, Zenon DEF PickOrder, ClickOrder, clearOrderSelection, StartNewDraft,
                         SelectListedRoute, SelectRouteOnMap, Opens
    <2> QED BY <2>1 DEF UiOnly, ServerUnchanged
  <1>5. CASE Edit
    <2>1. UNCHANGED << orders, routes, news, query, filter >>
      <3>1. UiOnly
        BY <1>5, EditIsEdits, Zenon DEF Edits
      <3> QED BY <3>1 DEF UiOnly, ServerUnchanged
    <2> QED BY <1>2, <2>1
  <1>6. CASE BuildSelected \/ Save \/ SendToMonitoring
    <2>1. UiOnly
      BY <1>6, Zenon DEF BuildSelected, Save, SendToMonitoring, Sends
    <2> QED BY <1>2, <2>1 DEF UiOnly, ServerUnchanged
  <1>7. CASE Serve
    BY <1>1, <1>7, ServeFeed
  <1>8. ASSUME NEW k, TakeRefusal(k) PROVE UNCHANGED << orders, routes, news, query, filter >>
    BY <1>8 DEF TakeRefusal, feedVars
  <1>9. CASE UNCHANGED workspaceVars
    BY <1>2, <1>9 DEF workspaceVars, feedVars
  <1> QED BY <1>1, <1>2, <1>3, <1>4, <1>5, <1>6, <1>7, <1>8, <1>9, OwnAnswerFeed DEF WorkspaceNext

\* However messages, answers and merges overtake each other, no list stays old for good.
THEOREM FeedCorrect == WorkspaceSpec => []ShownExplained
  <1>1. FeedInv => ShownExplained
    <2>1. SUFFICES ASSUME FeedInv, NEW k \in Keys
                   PROVE  \/ query[k].data = NoData \/ query[k].data = ServerView(k)
                          \/ Coming(k) \/ query[k].gap \/ query[k].failed
                          \/ query[k].invalid /\ ~OnScreen(k)
      BY DEF ShownExplained
    <2>2. Explained(query[k], View(k, orders, routes), InFlight(k, news), Visible(k, filter))
      BY <2>1 DEF FeedInv
    <2> QED BY <2>2 DEF Explained, View, InFlight, Visible, ServerView, Coming, OnScreen
  <1> QED BY <1>1, FeedStart, FeedKept, PTL DEF WorkspaceSpec

-----------------------------------------------------------------------------
(* The open column: its version is the one on screen.                      *)

Kinds == {"build", "save", "send"}

ColumnFields == {"kind", "route", "version", "points", "courier", "plan", "raced"}

CallFields == {"phase", "route", "points", "orders", "courier", "parts", "base", "live", "row",
               "taken", "newer", "unseen", "raced", "excuse"}

\* What a column shows, of given lists, draft and selection.
ColumnFits(c, q, draft, sel) ==
  /\ DOMAIN c = ColumnFields /\ c.kind \in {"none", "draft", "detail"}
  /\ c.kind = "draft" => draft # None
  /\ c.kind = "detail" =>
       /\ draft = None /\ c.route = sel /\ sel # None
       /\ q["routes"].data # NoData /\ c.version = q["routes"].data[sel].version

ColumnInv ==
  /\ selected \in RouteIds \cup {None}
  /\ ColumnFits(column, query, newDraft, selected)

Phases == {"idle", "sent", "orders", "plan", "status", "accepted", "refused"}

\* A request left with the version that the table had, or has its excuse.
CallFits(k, r) ==
  /\ DOMAIN r = CallFields /\ r.phase \in Phases
  /\ r.newer \in BOOLEAN /\ r.unseen \in BOOLEAN /\ r.excuse \in BOOLEAN
  /\ r.newer => r.excuse
  /\ k # "build" /\ r.phase # "idle" => r.route \in RouteIds
  /\ r.phase = "accepted" => r.route \in RouteIds

CallsInv == DOMAIN request = Kinds /\ \A k \in Kinds : CallFits(k, request[k])

LEMMA RenderedFits ==
  ASSUME NEW q, NEW f, NEW draft, NEW sel, NEW col,
         DOMAIN col = ColumnFields, col.kind \in {"none", "draft", "detail"}
  PROVE  ColumnFits(Rendered(q, f, draft, sel, col), q, draft, sel)
  <1> DEFINE c == Rendered(q, f, draft, sel, col)
             r == Selected(q, sel)
             rw == q["routes"].data[r]
  <1>1. CASE c = NoColumn
    BY <1>1 DEF NoColumn, ColumnFits, ColumnFields
  <1>2. CASE draft # None /\ (c = DraftColumn(draft) \/ (col.kind = "draft" /\ c = col))
    BY <1>2 DEF DraftColumn, NoColumn, ColumnFits, ColumnFields
  <1>3. CASE /\ draft = None /\ ~Unusable(q["routes"]) /\ r # None
             /\ c = IF SameColumn(col, r, rw) THEN col ELSE DetailColumn(r, rw)
    <2>1. r = sel /\ sel # None /\ q["routes"].data # NoData
      BY <1>3 DEF Selected, Unusable
    <2>2. CASE SameColumn(col, r, rw)
      <3>1. c = col /\ col.kind = "detail" /\ col.route = sel
            /\ col.version = q["routes"].data[sel].version
        BY <1>3, <2>1, <2>2 DEF SameColumn
      <3> QED BY <1>3, <2>1, <3>1 DEF ColumnFits
    <2>3. CASE ~SameColumn(col, r, rw)
      <3>1. /\ DOMAIN c = ColumnFields /\ c.kind = "detail" /\ c.route = sel
            /\ c.version = q["routes"].data[sel].version
        BY <1>3, <2>1, <2>3 DEF DetailColumn, ColumnFields
      <3> QED BY <1>3, <2>1, <3>1 DEF ColumnFits
    <2> QED BY <2>2, <2>3
  <1> QED BY <1>1, <1>2, <1>3 DEF Rendered

LEMMA Rerendered ==
  ASSUME ColumnInv, Rerender, selected' \in RouteIds \cup {None}
  PROVE  ColumnInv'
  <1>1. ColumnFits(column', query', newDraft', selected')
    BY RenderedFits DEF ColumnInv, ColumnFits, Rerender
  <1> QED BY <1>1 DEF ColumnInv, ColumnFits

LEMMA IdleFits == \A k : CallFits(k, Idle)
  BY DEF CallFits, Idle, CallFields, Phases

LEMMA ColumnStart == WorkspaceInit => ColumnInv /\ CallsInv
  <1>1. SUFFICES ASSUME WorkspaceInit PROVE ColumnInv /\ CallsInv
    OBVIOUS
  <1>2. ColumnInv
    BY <1>1 DEF WorkspaceInit, ColumnInv, ColumnFits, ColumnFields, NoColumn
  <1>3. CallsInv
    BY <1>1, IdleFits DEF WorkspaceInit, CallsInv, Kinds
  <1> QED BY <1>2, <1>3

\* What an edit leaves alone.
LEMMA EditsOnly ==
  ASSUME ColumnInv, NEW points, NEW courier, Edits(points, courier)
  PROVE  ColumnInv' /\ UNCHANGED request
  <1>1. /\ DOMAIN column' = ColumnFields /\ column'.kind = column.kind
        /\ column'.route = column.route /\ column'.version = column.version
    BY DEF Edits, ColumnInv, ColumnFits, ColumnFields
  <1> QED BY <1>1 DEF Edits, UiOnly, ColumnInv, ColumnFits

LEMMA ColumnStep == ColumnInv /\ CallsInv /\ [WorkspaceNext]_workspaceVars => ColumnInv'
  <1>1. SUFFICES ASSUME ColumnInv, CallsInv, [WorkspaceNext]_workspaceVars PROVE ColumnInv'
    OBVIOUS
  <1>2. ASSUME UNCHANGED << query, newDraft, selected, column >> PROVE ColumnInv'
    BY <1>1, <1>2 DEF ColumnInv, ColumnFits
  <1>3. CASE FeedStep
    BY <1>1, <1>3, Rerendered DEF FeedStep, ColumnInv
  <1>4. ASSUME \/ \E o \in Orders : PickOrder(o) \/ ClickOrder(o)
               \/ clearOrderSelection \/ BuildSelected \/ Save \/ SendToMonitoring
               \/ \E k \in Kinds : TakeRefusal(k)
               \/ Serve \/ UNCHANGED workspaceVars
        PROVE  UNCHANGED << query, newDraft, selected, column >>
    <2>1. ASSUME \/ \E o \in Orders : PickOrder(o) \/ ClickOrder(o)
                 \/ clearOrderSelection \/ BuildSelected \/ Save \/ SendToMonitoring
          PROVE  UNCHANGED << query, newDraft, selected, column >>
      BY <2>1, Zenon DEF PickOrder, ClickOrder, clearOrderSelection, UiOnly, BuildSelected,
                         Save, SendToMonitoring, Sends
    <2>2. ASSUME NEW k, TakeRefusal(k) PROVE UNCHANGED << query, newDraft, selected, column >>
      BY <2>2 DEF TakeRefusal, feedVars
    <2>3. UNCHANGED workspaceVars => UNCHANGED << query, newDraft, selected, column >>
      BY DEF workspaceVars, feedVars, uiVars
    <2>4. Serve => UNCHANGED << query, newDraft, selected, column >>
      BY ServeClient
    <2> QED BY <1>4, <2>1, <2>2, <2>3, <2>4
  <1>5. CASE StartNewDraft
    BY <1>1, <1>5, Rerendered DEF StartNewDraft, Opens
  <1>6. ASSUME NEW r \in RouteIds, SelectListedRoute(r) \/ SelectRouteOnMap(r) PROVE ColumnInv'
    BY <1>1, <1>6, Rerendered DEF SelectListedRoute, SelectRouteOnMap, Opens
  <1>7. CASE Edit
    BY <1>1, <1>7, EditIsEdits, EditsOnly
  <1>8. ASSUME NEW k \in Kinds, TakeOwnAnswer(k) PROVE ColumnInv'
    <2>1. request[k].route \in RouteIds
      BY <1>1, <1>8 DEF TakeOwnAnswer, CallsInv, CallFits
    <2> QED BY <1>1, <1>8, <2>1, Rerendered DEF TakeOwnAnswer, ColumnInv
  <1> QED BY <1>1, <1>2, <1>3, <1>4, <1>5, <1>6, <1>7, <1>8 DEF WorkspaceNext, Kinds

\* One request changes.
LEMMA CallChanges ==
  ASSUME CallsInv, NEW k \in Kinds, NEW r, request' = [request EXCEPT ![k] = r], CallFits(k, r)
  PROVE  CallsInv'
  <1>1. DOMAIN request' = Kinds /\ \A x \in Kinds : request'[x] = IF x = k THEN r ELSE request[x]
    BY DEF CallsInv
  <1>2. \A x \in Kinds : CallFits(x, request'[x])
    BY <1>1 DEF CallsInv
  <1> QED BY <1>1, <1>2 DEF CallsInv, CallFits

\* Without an excuse, the version of a column is that in the table.
LEMMA VersionShown ==
  ASSUME FeedInv, ColumnInv, column.kind = "detail", ~Excused
  PROVE  column.version = routes[column.route].version
  <1> DEFINE q == query["routes"]
  <1>1. Explained(q, routes, news.routes > 0, TRUE)
    BY DEF FeedInv, Keys, View, InFlight, Visible
  <1>2. q.data = routes
    BY <1>1 DEF Explained, EntryTyped, ColumnInv, ColumnFits, Excused, Coming
  <1> QED BY <1>2 DEF ColumnInv, ColumnFits

LEMMA OnRouteIs ==
  ASSUME NEW parts
  PROVE  LET o == [OnRoute(parts) EXCEPT !.phase = "sent"]
             row == routes[column.route] IN
         /\ DOMAIN o = CallFields /\ o.phase = "sent" /\ o.route = column.route
         /\ o.points = column.points /\ o.orders = {}
         /\ o.newer = (column.version # row.version) /\ o.unseen = (column.plan # row.plan)
         /\ o.raced = (column.raced \/ row.raced) /\ o.excuse = Excused
  <1> DEFINE row == routes[column.route]
             newer == column.version # row.version
             unseen == column.plan # row.plan
             raced == column.raced \/ row.raced
             o == OnRoute(parts)
  <1>1. /\ DOMAIN o = CallFields /\ o.route = column.route
        /\ o.points = column.points /\ o.orders = {}
        /\ o.newer = newer /\ o.unseen = unseen /\ o.raced = raced /\ o.excuse = Excused
    BY DEF OnRoute, CallFields
  <1> HIDE DEF o, newer, unseen, raced
  <1>2. LET s == [o EXCEPT !.phase = "sent"] IN
        /\ DOMAIN s = CallFields /\ s.phase = "sent" /\ s.route = column.route
        /\ s.points = column.points /\ s.orders = {}
        /\ s.newer = newer /\ s.unseen = unseen /\ s.raced = raced /\ s.excuse = Excused
    BY <1>1 DEF CallFields
  <1> QED BY <1>2 DEF o, newer, unseen, raced

LEMMA OnRouteFits ==
  ASSUME FeedInv, ColumnInv, column.kind = "detail", NEW k, NEW parts
  PROVE  CallFits(k, [OnRoute(parts) EXCEPT !.phase = "sent"])
  <1> DEFINE r == [OnRoute(parts) EXCEPT !.phase = "sent"]
  <1>1. /\ DOMAIN r = CallFields /\ r.phase = "sent" /\ r.route = column.route
        /\ r.newer = (column.version # routes[column.route].version)
        /\ r.unseen = (column.plan # routes[column.route].plan) /\ r.excuse = Excused
    BY OnRouteIs
  <1>2. column.route \in RouteIds /\ Excused \in BOOLEAN
    BY DEF ColumnInv, ColumnFits, Excused
  <1>3. r.newer => r.excuse
    BY <1>1, VersionShown
  <1> HIDE DEF r
  <1>4. CallFits(k, r)
    BY <1>1, <1>2, <1>3 DEF CallFits, Phases
  <1> QED BY <1>4 DEF r

\* A request that the server works on: what the dispatcher has sent stays what it is.
SameCall(k, q, r) ==
  /\ DOMAIN q = CallFields /\ q.phase \in Phases \ {"idle"}
  /\ q.points = r.points /\ q.orders = r.orders
  /\ q.newer = r.newer /\ q.unseen = r.unseen /\ q.raced = r.raced /\ q.excuse = r.excuse
  /\ q.route \in RouteIds \/ (k = "build" /\ q.phase # "accepted")

\* The answers that an accepted request gets.
Built(q, r, rw) == [q EXCEPT !.phase = "accepted", !.route = r, !.row = rw]

Accepted(q, rw) == [q EXCEPT !.phase = "accepted", !.row = rw]

LEMMA ServeCalls ==
  ASSUME CallsInv, Serve
  PROVE  \E k \in Kinds : \E q : Serves(k, q) /\ SameCall(k, q, request[k])
  <1>1. \A k \in Kinds : CallFits(k, request[k])
    BY DEF CallsInv
  <1>2. "build" \in Kinds /\ "save" \in Kinds /\ "send" \in Kinds
    BY DEF Kinds
  <1>3. ASSUME NEW k \in Kinds, ReadRoute(k)
        PROVE  \E q : Serves(k, q) /\ SameCall(k, q, request[k])
    <2> DEFINE q == request[k]
               saved == [q EXCEPT !.phase = "orders", !.row = SavedRow(q, routes[q.route])]
               sent == [q EXCEPT !.phase = "status"]
    <2>1. q.route \in RouteIds /\ CallFits(k, q)
      BY <1>1, <1>3 DEF ReadRoute, CallFits
    <2>2. SameCall(k, saved, q) /\ SameCall(k, sent, q)
      BY <2>1 DEF SameCall, CallFits, CallFields, Phases
    <2>3. Serves(k, saved) \/ Serves(k, sent)
      BY <1>3 DEF ReadRoute
    <2> HIDE DEF saved, sent
    <2> QED BY <2>2, <2>3
  <1>4. ASSUME NEW k \in Kinds, ReadStops(k)
        PROVE  \E q : Serves(k, q) /\ SameCall(k, q, request[k])
    <2> DEFINE q == request[k]
               stops == IF k = "build" THEN q.orders ELSE Elems(q.row.points)
               new == [q EXCEPT !.phase = "plan", !.taken = TakenBy(stops, q.row.courier)]
    <2>1. (k = "build" \/ q.route \in RouteIds) /\ CallFits(k, q)
      BY <1>1, <1>4 DEF ReadStops, CallFits
    <2>2. SameCall(k, new, q)
      BY <2>1 DEF SameCall, CallFits, CallFields, Phases
    <2>3. Serves(k, new)
      BY <1>4 DEF ReadStops
    <2> HIDE DEF new
    <2> QED BY <2>2, <2>3
  <1>5. ASSUME NEW k \in Kinds, Refuses(k)
        PROVE  \E q : Serves(k, q) /\ SameCall(k, q, request[k])
    <2> DEFINE q == request[k]
               new == [q EXCEPT !.phase = "refused", !.row = NoRow, !.taken = {}]
    <2>1. (k = "build" \/ q.route \in RouteIds) /\ CallFits(k, q)
      BY <1>1, <1>5 DEF Refuses, CallFits
    <2>2. SameCall(k, new, q)
      BY <2>1 DEF SameCall, CallFits, CallFields, Phases
    <2>3. Serves(k, new)
      BY <1>5 DEF Refuses
    <2> HIDE DEF new
    <2> QED BY <2>2, <2>3
  <1>6. ASSUME NEW r \in RouteIds, NEW rw,
               Serves("build", Built(request["build"], r, rw))
        PROVE  \E q : Serves("build", q) /\ SameCall("build", q, request["build"])
    <2> DEFINE q == request["build"]
               new == Built(q, r, rw)
    <2>1. CallFits("build", q)
      BY <1>1, <1>2
    <2>2. SameCall("build", new, q)
      BY <2>1 DEF SameCall, CallFits, CallFields, Phases, Built
    <2> QED BY <1>6, <2>2
  <1>7. CASE ServeBuild
    <2>1. \E r \in RouteIds : \E rw : Serves("build", Built(request["build"], r, rw))
      BY <1>7, Zenon DEF ServeBuild, Built
    <2>2. \E q : Serves("build", q) /\ SameCall("build", q, request["build"])
      BY <1>6, <2>1
    <2> QED BY <1>2, <2>2
  <1>8. ASSUME NEW k \in {"save", "send"}, NEW rw, request[k].phase # "idle",
               Serves(k, Accepted(request[k], rw))
        PROVE  \E q : Serves(k, q) /\ SameCall(k, q, request[k])
    <2> DEFINE q == request[k]
               new == Accepted(q, rw)
    <2>1. q.route \in RouteIds /\ CallFits(k, q)
      BY <1>1, <1>2, <1>8 DEF CallFits
    <2>2. SameCall(k, new, q)
      BY <2>1 DEF SameCall, CallFits, CallFields, Phases, Accepted
    <2> QED BY <1>8, <2>2
  <1>9. CASE ServeSave
    <2> DEFINE c == request["save"]
               rw == Numbered(routes[c.route], c.row)
    <2>1. DOMAIN c = CallFields /\ c.phase = "plan"
      BY <1>1, <1>2, <1>9 DEF ServeSave, CallFits
    <2>2. Serves("save", [c EXCEPT !.phase = "accepted", !.row = Numbered(routes[c.route], @)])
      BY <1>9 DEF ServeSave
    <2> HIDE DEF c
    <2>3. [c EXCEPT !.phase = "accepted", !.row = Numbered(routes[c.route], @)]
            = Accepted(c, rw)
      BY <2>1 DEF CallFields, Accepted
    <2> USE DEF c
    <2> HIDE DEF rw
    <2>4. Serves("save", Accepted(request["save"], rw)) /\ request["save"].phase # "idle"
      BY <2>1, <2>2, <2>3
    <2>5. \E q : Serves("save", q) /\ SameCall("save", q, request["save"])
      BY <1>8, <2>4
    <2> QED BY <1>2, <2>5
  <1>10. CASE ServeSend
    <2> DEFINE rw == [routes[request["send"].route] EXCEPT !.status = "planned"]
    <2>1. /\ request["send"].phase = "status"
          /\ Serves("send", Accepted(request["send"], rw))
      BY <1>10, Zenon DEF ServeSend, Accepted
    <2> HIDE DEF rw
    <2>2. \E q : Serves("send", q) /\ SameCall("send", q, request["send"])
      BY <1>8, <2>1
    <2> QED BY <1>2, <2>2
  <1> QED BY <1>3, <1>4, <1>5, <1>7, <1>9, <1>10 DEF Serve, Kinds

LEMMA LiveIs ==
  ASSUME NEW r, DOMAIN r = CallFields, NEW live
  PROVE  LET q == [r EXCEPT !.live = live] IN
         /\ DOMAIN q = CallFields /\ q.phase = r.phase /\ q.route = r.route
         /\ q.points = r.points /\ q.orders = r.orders /\ q.row = r.row
         /\ q.newer = r.newer /\ q.unseen = r.unseen /\ q.raced = r.raced /\ q.excuse = r.excuse
  BY DEF CallFields

LEMMA LiveFits ==
  ASSUME CallsInv, NEW live, request' = [request EXCEPT !["save"].live = live]
  PROVE  CallsInv'
  <1> DEFINE r == [request["save"] EXCEPT !.live = live]
  <1>1. CallFits("save", request["save"]) /\ DOMAIN request = Kinds /\ "save" \in Kinds
    BY DEF CallsInv, Kinds
  <1>2. request' = [request EXCEPT !["save"] = r]
    BY <1>1
  <1>3. /\ DOMAIN r = CallFields /\ r.route = request["save"].route
        /\ r.phase = request["save"].phase /\ r.newer = request["save"].newer
        /\ r.unseen = request["save"].unseen /\ r.excuse = request["save"].excuse
    BY <1>1, LiveIs DEF CallFits
  <1> HIDE DEF r
  <1>4. CallFits("save", r)
    BY <1>1, <1>3 DEF CallFits
  <1> QED BY <1>1, <1>2, <1>4, CallChanges

LEMMA SendsFits ==
  ASSUME CallsInv, NEW k \in Kinds, NEW r, Sends(k, r),
         CallFits(k, [r EXCEPT !.phase = "sent"])
  PROVE  CallsInv'
  BY CallChanges DEF Sends

LEMMA CallsStep == FeedInv /\ ColumnInv /\ CallsInv /\ [WorkspaceNext]_workspaceVars => CallsInv'
  <1>1. SUFFICES ASSUME FeedInv, ColumnInv, CallsInv, [WorkspaceNext]_workspaceVars
                 PROVE  CallsInv'
    OBVIOUS
  <1>2. ASSUME UNCHANGED request PROVE CallsInv'
    BY <1>1, <1>2 DEF CallsInv, CallFits
  <1>3. ASSUME Waiting PROVE CallsInv'
    <2>1. PICK live : request' = [request EXCEPT !["save"].live = live]
      BY <1>1, <1>3 DEF Waiting, CallsInv, Kinds
    <2> QED BY <1>1, <2>1, LiveFits
  <1>4. ASSUME \/ \E o \in Orders : PickOrder(o) \/ ClickOrder(o)
               \/ clearOrderSelection \/ UNCHANGED workspaceVars
        PROVE  UNCHANGED request
    BY <1>4 DEF PickOrder, ClickOrder, clearOrderSelection, workspaceVars, uiVars
  <1>5. ASSUME \/ FeedStep \/ StartNewDraft
               \/ \E r \in RouteIds : SelectListedRoute(r) \/ SelectRouteOnMap(r)
        PROVE  Waiting
    BY <1>5 DEF FeedStep, StartNewDraft, SelectListedRoute, SelectRouteOnMap, Opens
  <1>6. CASE Edit
    BY <1>1, <1>2, <1>6, EditIsEdits, EditsOnly
  <1>7. CASE BuildSelected
    <2> DEFINE buildable == {o \in Elems(picked) \cap ListedOrders : isRoutableOrder(o)}
               r == [Idle EXCEPT !.orders = buildable]
    <2>1. Sends("build", r) /\ "build" \in Kinds
      BY <1>7 DEF BuildSelected, Kinds
    <2>2. CallFits("build", [r EXCEPT !.phase = "sent"])
      BY DEF Idle, CallFits, CallFields, Phases
    <2> HIDE DEF r
    <2> QED BY <1>1, <2>1, <2>2, SendsFits
  <1>8. CASE Save
    BY <1>1, <1>8, OnRouteFits, SendsFits DEF Save, Dirty, Kinds
  <1>9. CASE SendToMonitoring
    BY <1>1, <1>9, OnRouteFits, SendsFits DEF SendToMonitoring, Kinds
  <1>10. CASE Serve
    <2>1. PICK k \in Kinds : \E q : Serves(k, q) /\ SameCall(k, q, request[k])
      BY <1>1, <1>10, ServeCalls
    <2>2. PICK q : Serves(k, q) /\ SameCall(k, q, request[k])
      BY <2>1
    <2>3. CallFits(k, q)
      BY <1>1, <2>2 DEF SameCall, CallsInv, CallFits
    <2> QED BY <1>1, <2>2, <2>3, CallChanges DEF Serves
  <1>11. ASSUME NEW k \in Kinds, TakeRefusal(k) PROVE CallsInv'
    BY <1>1, <1>11, IdleFits, CallChanges DEF TakeRefusal
  <1>12. ASSUME NEW k \in Kinds, TakeOwnAnswer(k) PROVE CallsInv'
    <2> DEFINE mid == [request EXCEPT ![k] = Idle]
    <2>1. PICK live : request' = [mid EXCEPT !["save"].live = live]
      BY <1>1, <1>12 DEF TakeOwnAnswer, CallsInv, Kinds
    <2>2. /\ DOMAIN mid = Kinds /\ "save" \in Kinds
          /\ \A x \in Kinds : mid[x] = IF x = k THEN Idle ELSE request[x]
      BY <1>1 DEF CallsInv, Kinds
    <2>3. \A x \in Kinds : CallFits(x, mid[x])
      BY <1>1, <2>2, IdleFits DEF CallsInv
    <2> HIDE DEF mid
    <2> DEFINE r == [mid["save"] EXCEPT !.live = live]
    <2>4. /\ DOMAIN r = CallFields /\ r.route = mid["save"].route
          /\ r.phase = mid["save"].phase /\ r.newer = mid["save"].newer
          /\ r.unseen = mid["save"].unseen /\ r.excuse = mid["save"].excuse
      BY <2>2, <2>3, LiveIs DEF CallFits
    <2>5. /\ DOMAIN request' = Kinds
          /\ \A x \in Kinds : request'[x] = IF x = "save" THEN r ELSE mid[x]
      BY <2>1, <2>2
    <2> HIDE DEF r
    <2>6. CallFits("save", r)
      BY <2>2, <2>3, <2>4 DEF CallFits
    <2>7. \A x \in Kinds : CallFits(x, request'[x])
      BY <2>3, <2>5, <2>6
    <2> QED BY <2>5, <2>7 DEF CallsInv, CallFits
  <1> QED BY <1>1, <1>2, <1>3, <1>4, <1>5, <1>6, <1>7, <1>8, <1>9, <1>10, <1>11, <1>12
          DEF WorkspaceNext, Kinds

WorkspaceInv == FeedInv /\ ColumnInv /\ CallsInv

LEMMA WorkspaceCorrect == WorkspaceSpec => []WorkspaceInv
  BY FeedStart, FeedKept, ColumnStart, ColumnStep, CallsStep, PTL DEF WorkspaceSpec, WorkspaceInv

\* Messages and answers leave an open column and its unsaved edits alone, unless a list fails
\* or is not there, the route has another version on screen or is gone from the list, or
\* the dispatcher changes the filter.
THEOREM EditsCorrect == WorkspaceSpec => EditsSurviveNews
  <1> DEFINE Survives ==
               FeedStep /\ filter' = filter /\ column.kind # "none" =>
                 \/ column' = column
                 \/ Unusable(query'[filter]) \/ Unusable(query'["routes"])
                 \/ /\ column.kind = "detail"
                    /\ LET row == query'["routes"].data[column.route] IN
                       row.version # column.version \/ ~ListedRoute(row)
  <1>1. WorkspaceInv /\ [WorkspaceNext]_workspaceVars => [Survives]_workspaceVars
    <2>1. SUFFICES ASSUME WorkspaceInv, FeedStep, filter' = filter, column.kind # "none",
                          ~Unusable(query'[filter]), ~Unusable(query'["routes"])
                   PROVE  \/ column' = column
                          \/ /\ column.kind = "detail"
                             /\ \/ query'["routes"].data[column.route].version # column.version
                                \/ ~ListedRoute(query'["routes"].data[column.route])
      OBVIOUS
    <2>2. column' = Rendered(query', filter, newDraft, selected, column)
      BY <2>1 DEF FeedStep, Rerender
    <2>3. CASE column.kind = "draft"
      BY <2>1, <2>2, <2>3 DEF WorkspaceInv, ColumnInv, ColumnFits, Rendered
    <2>4. CASE column.kind = "detail"
      <3>1. newDraft = None /\ column.route = selected /\ selected # None
        BY <2>1, <2>4 DEF WorkspaceInv, ColumnInv, ColumnFits
      <3>2. CASE ListedRoute(query'["routes"].data[selected])
        <4>1. Selected(query', selected) = selected
          BY <3>1, <3>2 DEF Selected
        <4> QED BY <2>1, <2>2, <2>4, <3>1, <4>1 DEF Rendered, SameColumn
      <3> QED BY <2>4, <3>1, <3>2
    <2> QED BY <2>1, <2>3, <2>4 DEF WorkspaceInv, ColumnInv, ColumnFits
  <1> HIDE DEF Survives
  <1>2. WorkspaceSpec => [][Survives]_workspaceVars
    BY <1>1, WorkspaceCorrect, PTL DEF WorkspaceSpec
  <1> QED BY <1>2 DEF EditsSurviveNews, Survives

-----------------------------------------------------------------------------
(* The stops of a plan: sequences of orders, none of them twice.           *)

Stops == {s \in Seq(Orders) : Once(s)}

\* A set of naturals has a smallest element.
LEMMA Smallest ==
  ASSUME NEW S, S \subseteq Nat, S # {}
  PROVE  \E m \in S : \A n \in S : m <= n
  <1>1. PICK m \in S : \A n \in S : ~ (<< n, m >> \in OpToRel(<, Nat))
    BY NatLessThanWellFounded, WFMin
  <1>2. \A n \in S : ~ (n < m)
    BY <1>1 DEF OpToRel
  <1> QED BY <1>2

\* Induction, stated of a set of numbers.
LEMMA Induction ==
  ASSUME NEW S, 0 \in S, \A n \in Nat : n \in S => n + 1 \in S
  PROVE  \A n \in Nat : n \in S
  <1>1. SUFFICES ASSUME Nat \ S # {} PROVE FALSE
    OBVIOUS
  <1>2. PICK m \in Nat \ S : \A n \in Nat \ S : m <= n
    BY <1>1, Smallest
  <1>3. m - 1 \in Nat /\ m - 1 \in S
    BY <1>2
  <1> QED BY <1>2, <1>3

LEMMA NoStops == << >> \in Stops /\ Elems(<< >>) = {}
  BY DEF Stops, Once, Elems

LEMMA OneStop == ASSUME NEW o \in Orders PROVE << o >> \in Stops /\ Elems(<< o >>) = {o}
  BY DEF Stops, Once, Elems

LEMMA AppendStops ==
  ASSUME NEW s \in Stops, NEW o \in Orders, o \notin Elems(s)
  PROVE  Append(s, o) \in Stops /\ Elems(Append(s, o)) = Elems(s) \cup {o}
  <1>1. s \in Seq(Orders) /\ Append(s, o) \in Seq(Orders) /\ Len(s) \in Nat
        /\ Len(Append(s, o)) = Len(s) + 1
        /\ \A i \in 1 .. Len(s) + 1 : Append(s, o)[i] = IF i <= Len(s) THEN s[i] ELSE o
    BY AppendProperties DEF Stops
  <1>2. DOMAIN s = 1 .. Len(s) /\ DOMAIN Append(s, o) = 1 .. Len(s) + 1
    BY <1>1
  <1>3. Once(Append(s, o))
    BY <1>1, <1>2 DEF Once, Stops, Elems
  <1>4. Elems(Append(s, o)) = Elems(s) \cup {o}
    <2>1. Len(s) + 1 \in DOMAIN Append(s, o) /\ Append(s, o)[Len(s) + 1] = o
      BY <1>1, <1>2
    <2>2. \A i \in DOMAIN s : i \in DOMAIN Append(s, o) /\ Append(s, o)[i] = s[i]
      BY <1>1, <1>2
    <2>3. \A i \in DOMAIN Append(s, o) : i \in DOMAIN s \/ Append(s, o)[i] = o
      BY <1>1, <1>2
    <2> QED BY <2>1, <2>2, <2>3 DEF Elems
  <1> QED BY <1>1, <1>3, <1>4 DEF Stops

LEMMA ConcatStops ==
  ASSUME NEW s \in Stops, NEW t \in Stops, Elems(s) \cap Elems(t) = {}
  PROVE  s \o t \in Stops /\ Elems(s \o t) = Elems(s) \cup Elems(t)
  <1> DEFINE u == s \o t
  <1>1. /\ s \in Seq(Orders) /\ t \in Seq(Orders) /\ Len(s) \in Nat /\ Len(t) \in Nat
        /\ u \in Seq(Orders) /\ Len(u) = Len(s) + Len(t)
        /\ \A i \in 1 .. Len(s) + Len(t) : u[i] = IF i <= Len(s) THEN s[i] ELSE t[i - Len(s)]
    BY ConcatProperties DEF Stops
  <1>2. DOMAIN s = 1 .. Len(s) /\ DOMAIN t = 1 .. Len(t) /\ DOMAIN u = 1 .. Len(s) + Len(t)
    BY <1>1
  <1> HIDE DEF u
  <1>3. \A i \in DOMAIN u : \/ i \in DOMAIN s /\ u[i] = s[i]
                            \/ i - Len(s) \in DOMAIN t /\ u[i] = t[i - Len(s)]
    BY <1>1, <1>2
  <1>4. \A i \in DOMAIN s : i \in DOMAIN u /\ u[i] = s[i]
    BY <1>1, <1>2
  <1>5. \A i \in DOMAIN t : i + Len(s) \in DOMAIN u /\ u[i + Len(s)] = t[i]
    BY <1>1, <1>2
  <1>6. Elems(u) = Elems(s) \cup Elems(t)
    BY <1>3, <1>4, <1>5 DEF Elems
  <1>7. ASSUME NEW i \in DOMAIN u, NEW j \in DOMAIN u, u[i] = u[j]
        PROVE  i = j
    <2>1. CASE i \in DOMAIN s /\ u[i] = s[i] /\ j \in DOMAIN s /\ u[j] = s[j]
      BY <1>7, <2>1 DEF Stops, Once
    <2>2. CASE /\ i - Len(s) \in DOMAIN t /\ u[i] = t[i - Len(s)]
               /\ j - Len(s) \in DOMAIN t /\ u[j] = t[j - Len(s)]
      <3>1. i - Len(s) = j - Len(s)
        BY <1>7, <2>2 DEF Stops, Once
      <3> QED BY <1>1, <1>2, <3>1
    <2>3. CASE i \in DOMAIN s /\ u[i] = s[i] /\ j - Len(s) \in DOMAIN t /\ u[j] = t[j - Len(s)]
      BY <1>7, <2>3 DEF Elems
    <2>4. CASE j \in DOMAIN s /\ u[j] = s[j] /\ i - Len(s) \in DOMAIN t /\ u[i] = t[i - Len(s)]
      BY <1>7, <2>4 DEF Elems
    <2> QED BY <1>3, <2>1, <2>2, <2>3, <2>4
  <1> QED BY <1>1, <1>6, <1>7 DEF Stops, Once, u

LEMMA SubSeqStops ==
  ASSUME NEW s \in Stops, NEW m \in 1 .. Len(s) + 1, NEW n \in 0 .. Len(s)
  PROVE  /\ SubSeq(s, m, n) \in Stops
         /\ \A x \in Elems(SubSeq(s, m, n)) : \E j \in m .. n : j \in DOMAIN s /\ s[j] = x
  <1> DEFINE u == SubSeq(s, m, n)
  <1>1. s \in Seq(Orders) /\ Len(s) \in Nat /\ DOMAIN s = 1 .. Len(s) /\ m \in Int /\ n \in Int
    BY DEF Stops
  <1>2. /\ u \in Seq(Orders) /\ Len(u) = (IF m <= n THEN n - m + 1 ELSE 0)
        /\ \A i \in 1 .. n - m + 1 : u[i] = s[m + i - 1]
    BY <1>1, SubSeqProperties
  <1>3. DOMAIN u = 1 .. Len(u)
    BY <1>2
  <1> HIDE DEF u
  <1>4. \A i \in DOMAIN u : m + i - 1 \in m .. n /\ m + i - 1 \in DOMAIN s /\ u[i] = s[m + i - 1]
    BY <1>1, <1>2, <1>3
  <1>5. ASSUME NEW i \in DOMAIN u, NEW j \in DOMAIN u, u[i] = u[j]
        PROVE  i = j
    <2>1. m + i - 1 = m + j - 1
      BY <1>4, <1>5 DEF Stops, Once
    <2> QED BY <1>1, <1>2, <1>3, <2>1
  <1>6. \A x \in Elems(u) : \E j \in m .. n : j \in DOMAIN s /\ s[j] = x
    BY <1>4 DEF Elems
  <1> QED BY <1>2, <1>5, <1>6 DEF Stops, Once, u

LEMMA InsertStops ==
  ASSUME NEW s \in Stops, NEW o \in Orders, o \notin Elems(s), NEW i \in 1 .. Len(s) + 1
  PROVE  InsertAt(s, i, o) \in Stops
  <1> DEFINE a == SubSeq(s, 1, i - 1)
             b == SubSeq(s, i, Len(s))
  <1>1. s \in Seq(Orders) /\ Len(s) \in Nat /\ DOMAIN s = 1 .. Len(s)
    BY DEF Stops
  <1>2. a \in Stops /\ \A x \in Elems(a) : \E j \in 1 .. i - 1 : j \in DOMAIN s /\ s[j] = x
    BY <1>1, SubSeqStops
  <1>3. b \in Stops /\ \A x \in Elems(b) : \E j \in i .. Len(s) : j \in DOMAIN s /\ s[j] = x
    BY <1>1, SubSeqStops
  <1> HIDE DEF a, b
  <1>4. << o >> \in Stops /\ Elems(<< o >>) = {o}
    BY OneStop
  <1>5. Elems(a) \subseteq Elems(s) /\ Elems(b) \subseteq Elems(s)
    BY <1>2, <1>3 DEF Elems
  <1>6. a \o << o >> \in Stops /\ Elems(a \o << o >>) = Elems(a) \cup {o}
    BY <1>2, <1>4, <1>5, ConcatStops
  <1>7. Elems(a) \cap Elems(b) = {}
    <2>1. SUFFICES ASSUME NEW x \in Elems(a), x \in Elems(b) PROVE FALSE
      OBVIOUS
    <2>2. PICK j \in 1 .. i - 1 : j \in DOMAIN s /\ s[j] = x
      BY <1>2, <2>1
    <2>3. PICK k \in i .. Len(s) : k \in DOMAIN s /\ s[k] = x
      BY <1>3, <2>1
    <2>4. j = k
      BY <2>2, <2>3 DEF Stops, Once
    <2> QED BY <1>1, <2>2, <2>3, <2>4
  <1>8. Elems(a \o << o >>) \cap Elems(b) = {}
    BY <1>5, <1>6, <1>7
  <1>9. (a \o << o >>) \o b \in Stops
    BY <1>3, <1>6, <1>8, ConcatStops
  <1> QED BY <1>9 DEF InsertAt, a, b

\* What Only computes: the members of S among the first i stops.
Keeps(kept, s, S, n) ==
  kept = [i \in 0 .. n |->
            IF i = 0 THEN << >>
            ELSE IF s[i] \in S THEN Append(kept[i - 1], s[i]) ELSE kept[i - 1]]

LEMMA KeepsExists ==
  ASSUME NEW s, NEW S
  PROVE  \A n \in Nat : \E kept : Keeps(kept, s, S, n)
  <1> DEFINE T == {n \in Nat : \E kept : Keeps(kept, s, S, n)}
  <1>1. 0 \in T
    <2>1. Keeps([i \in 0 .. 0 |-> << >>], s, S, 0)
      BY DEF Keeps
    <2> QED BY <2>1
  <1>2. ASSUME NEW n \in Nat, n \in T
        PROVE  n + 1 \in T
    <2>1. PICK g : Keeps(g, s, S, n)
      BY <1>2
    <2> DEFINE last == IF s[n + 1] \in S THEN Append(g[n], s[n + 1]) ELSE g[n]
               h == [i \in 0 .. n + 1 |-> IF i = n + 1 THEN last ELSE g[i]]
    <2>2. /\ h[n + 1] = last
          /\ \A i \in 0 .. n : h[i] = g[i]
      OBVIOUS
    <2>3. /\ \A i \in 0 .. n + 1 : i # n + 1 => i \in 0 .. n
          /\ \A i \in 0 .. n + 1 : i # 0 => i - 1 \in 0 .. n
      OBVIOUS
    <2>4. \A i \in 0 .. n :
            g[i] = IF i = 0 THEN << >>
                   ELSE IF s[i] \in S THEN Append(g[i - 1], s[i]) ELSE g[i - 1]
      BY <2>1 DEF Keeps
    <2>5. ASSUME NEW i \in 0 .. n + 1
          PROVE  h[i] = IF i = 0 THEN << >>
                        ELSE IF s[i] \in S THEN Append(h[i - 1], s[i]) ELSE h[i - 1]
      <3>1. CASE i = n + 1
        <4>1. i # 0 /\ h[i - 1] = g[n] /\ i - 1 = n
          BY <2>2, <3>1
        <4> HIDE DEF h
        <4> QED BY <2>2, <3>1, <4>1
      <3>2. CASE i # n + 1
        <4>1. h[i] = g[i] /\ (i # 0 => h[i - 1] = g[i - 1])
          BY <2>2, <2>3, <3>2
        <4> HIDE DEF h, last
        <4> QED BY <2>3, <2>4, <3>2, <4>1
      <3> QED BY <3>1, <3>2
    <2>6. h = [i \in 0 .. n + 1 |-> h[i]]
      OBVIOUS
    <2> HIDE DEF h, last
    <2>7. Keeps(h, s, S, n + 1)
      BY <2>5, <2>6 DEF Keeps
    <2> QED BY <2>7
  <1> HIDE DEF T
  <1>3. \A n \in Nat : n \in T
    BY <1>1, <1>2, Induction
  <1> QED BY <1>3 DEF T

LEMMA OnlyUnfolds ==
  ASSUME NEW s, Len(s) \in Nat, NEW S
  PROVE  \E kept : Keeps(kept, s, S, Len(s)) /\ Only(s, S) = kept[Len(s)]
  <1> DEFINE kept == CHOOSE g : Keeps(g, s, S, Len(s))
  <1>1. Only(s, S) = kept[Len(s)]
    BY DEF Only, Keeps
  <1>2. \E g : Keeps(g, s, S, Len(s))
    BY KeepsExists
  <1>3. Keeps(kept, s, S, Len(s))
    BY <1>2
  <1> QED BY <1>1, <1>3

LEMMA OnlyStops ==
  ASSUME NEW s \in Stops, NEW S
  PROVE  /\ Only(s, S) \in Stops
         /\ \A x \in Elems(Only(s, S)) : x \in S /\ x \in Elems(s)
  <1>1. s \in Seq(Orders) /\ Len(s) \in Nat /\ DOMAIN s = 1 .. Len(s)
    BY DEF Stops
  <1>2. PICK kept : Keeps(kept, s, S, Len(s)) /\ Only(s, S) = kept[Len(s)]
    BY <1>1, OnlyUnfolds
  <1>3. /\ kept[0] = << >>
        /\ \A i \in 1 .. Len(s) :
             kept[i] = IF s[i] \in S THEN Append(kept[i - 1], s[i]) ELSE kept[i - 1]
    <2>1. \A i \in 0 .. Len(s) :
            kept[i] = IF i = 0 THEN << >>
                      ELSE IF s[i] \in S THEN Append(kept[i - 1], s[i]) ELSE kept[i - 1]
      BY <1>2 DEF Keeps
    <2>2. 0 \in 0 .. Len(s) /\ \A i \in 1 .. Len(s) : i \in 0 .. Len(s) /\ i # 0
      BY <1>1
    <2> QED BY <2>1, <2>2
  <1> DEFINE T == {n \in Nat : n <= Len(s) =>
                     /\ kept[n] \in Stops
                     /\ \A x \in Elems(kept[n]) : x \in S /\ \E j \in 1 .. n : s[j] = x}
  <1>4. 0 \in T
    BY <1>3, NoStops
  <1>5. ASSUME NEW n \in Nat, n \in T
        PROVE  n + 1 \in T
    <2>1. SUFFICES ASSUME n + 1 <= Len(s)
                   PROVE  /\ kept[n + 1] \in Stops
                          /\ \A x \in Elems(kept[n + 1]) :
                               x \in S /\ \E j \in 1 .. n + 1 : s[j] = x
      OBVIOUS
    <2>2. /\ kept[n] \in Stops
          /\ \A x \in Elems(kept[n]) : x \in S /\ \E j \in 1 .. n : s[j] = x
      BY <1>1, <1>5, <2>1
    <2>3. /\ n + 1 \in DOMAIN s /\ s[n + 1] \in Orders /\ (n + 1) - 1 = n
          /\ kept[n + 1] = IF s[n + 1] \in S THEN Append(kept[n], s[n + 1]) ELSE kept[n]
      BY <1>1, <1>3, <2>1
    <2>4. \A j \in 1 .. n : j \in DOMAIN s /\ j # n + 1
      BY <1>1, <2>1
    <2>5. s[n + 1] \notin Elems(kept[n])
      BY <2>2, <2>3, <2>4 DEF Stops, Once
    <2>6. Append(kept[n], s[n + 1]) \in Stops
          /\ Elems(Append(kept[n], s[n + 1])) = Elems(kept[n]) \cup {s[n + 1]}
      BY <2>2, <2>3, <2>5, AppendStops
    <2>7. kept[n + 1] \in Stops
      BY <2>2, <2>3, <2>6
    <2>8. ASSUME NEW x \in Elems(kept[n + 1])
          PROVE  x \in S /\ \E j \in 1 .. n + 1 : s[j] = x
      <3>1. CASE x \in Elems(kept[n])
        BY <2>2, <3>1
      <3>2. CASE x \notin Elems(kept[n])
        <4>1. s[n + 1] \in S /\ x = s[n + 1]
          BY <2>3, <2>6, <2>8, <3>2
        <4> QED BY <4>1
      <3> QED BY <3>1, <3>2
    <2> QED BY <2>7, <2>8
  <1> HIDE DEF T
  <1>6. \A n \in Nat : n \in T
    BY <1>4, <1>5, Induction
  <1>7. /\ kept[Len(s)] \in Stops
        /\ \A x \in Elems(kept[Len(s)]) : x \in S /\ \E j \in 1 .. Len(s) : s[j] = x
    BY <1>1, <1>6 DEF T
  <1> QED BY <1>1, <1>2, <1>7 DEF Elems

\* A drop puts an order in one place, and takes it out of its old one.
LEMMA DraggedStops ==
  ASSUME NEW s \in Stops, NEW o \in Orders, NEW stop, NEW target
  PROVE  applyDraggedOrder(s, o, stop, target) \in Stops
  <1> DEFINE rest == Only(s, Orders \ {o})
             I == {i \in 1 .. Len(rest) : rest[i] = target}
             found == IF target = None THEN 0 ELSE IF I # {} THEN Min(I) ELSE 0
             place == IF found = 0 THEN Len(rest) + 1 ELSE found
  <1>1. rest \in Stops /\ o \notin Elems(rest)
    BY OnlyStops
  <1> HIDE DEF rest
  <1>2. Len(rest) \in Nat
    BY <1>1 DEF Stops
  <1>3. I # {} => Min(I) \in 1 .. Len(rest)
    <2>1. I \subseteq Nat /\ I \subseteq 1 .. Len(rest)
      BY <1>2
    <2> HIDE DEF I
    <2>2. I # {} => \E m \in I : \A n \in I : m <= n
      BY <2>1, Smallest
    <2> QED BY <2>1, <2>2 DEF Min
  <1> HIDE DEF I
  <1>4. place \in 1 .. Len(rest) + 1
    BY <1>2, <1>3
  <1> HIDE DEF place
  <1>5. InsertAt(rest, place, o) \in Stops
    BY <1>1, <1>4, InsertStops
  <1>6. applyDraggedOrder(s, o, stop, target) = s
        \/ applyDraggedOrder(s, o, stop, target) = InsertAt(rest, place, o)
    BY DEF applyDraggedOrder, SelectInSeq, rest, I, place
  <1> QED BY <1>5, <1>6

-----------------------------------------------------------------------------
(* The plans in the table, on screen and under way.                        *)

RowFields == {"status", "version", "points", "courier", "plan", "raced"}

\* As long as no plan was written over another one, its number and the version are one.
RowFits(row) ==
  /\ DOMAIN row = RowFields /\ row.points \in Stops /\ row.raced \in BOOLEAN
  /\ row.raced \/ row.plan = row.version

\* A row that is yet to be written has the version that its plan will have.
NextFits(row) ==
  /\ DOMAIN row = RowFields /\ row.points \in Stops /\ row.raced \in BOOLEAN
  /\ row.raced \/ row.version = row.plan + 1

TableFits(table) == DOMAIN table = RouteIds /\ \A r \in RouteIds : RowFits(table[r])

\* A list of routes, and an answer that has been read.
ListFits(q) ==
  /\ q.data # NoData => TableFits(q.data)
  /\ q.phase = "read" => TableFits(q.answer)

\* A request of others that was read, and one of this dispatcher.
WorkFits(w) ==
  /\ w.phase \in {"idle", "orders", "plan", "status"} /\ DOMAIN w = DOMAIN NoWork
  /\ w.phase # "idle" => w.route \in RouteIds
  /\ w.phase \in {"orders", "plan"} => NextFits(w.row)

TheirsFit(works) == DOMAIN works = Others /\ \A x \in Others : WorkFits(works[x])

ColumnPlans(c) ==
  /\ c.points \in Stops /\ c.raced \in BOOLEAN
  /\ c.raced \/ c.plan = c.version

CallPlans(k, r) ==
  /\ r.points \in Stops /\ r.orders \subseteq Orders
  /\ r.raced \in BOOLEAN /\ (r.unseen => r.excuse \/ r.raced)
  /\ r.phase = "accepted" => RowFits(r.row)
  /\ k = "save" /\ r.phase \in {"orders", "plan"} => NextFits(r.row)

\* No plan has an order twice, wherever it is.
StopsInv ==
  /\ picked \in Stops
  /\ newDraft # None => newDraft \in Stops
  /\ TableFits(routes) /\ TheirsFit(theirs) /\ ListFits(query["routes"])
  /\ ColumnPlans(column)
  /\ \A k \in Kinds : CallPlans(k, request[k])

LEMMA NoRowFits == RowFits(NoRow)
  BY NoStops DEF RowFits, NoRow, Row, RowFields

LEMMA AskFits ==
  ASSUME NEW q, EntryTyped(q), ListFits(q)
  PROVE  ListFits(Ask(q)) /\ Ask(q).data = q.data
  BY DEF EntryTyped, EntryFields, ListFits, Ask

LEMMA InvalidatedFits ==
  ASSUME NEW k, NEW q, EntryTyped(q), ListFits(q)
  PROVE  ListFits(Invalidated(k, q)) /\ EntryTyped(Invalidated(k, q))
  <1> DEFINE marked == [q EXCEPT !.invalid = TRUE]
             joined == [marked EXCEPT !.gap = @ \/ q.phase = "read"]
  <1>1. /\ EntryTyped(marked) /\ marked.phase = q.phase /\ marked.data = q.data
        /\ marked.answer = q.answer
    BY DEF EntryTyped, EntryFields
  <1>2. /\ EntryTyped(joined) /\ joined.phase = q.phase /\ joined.data = q.data
        /\ joined.answer = q.answer
    BY DEF EntryTyped, EntryFields
  <1> HIDE DEF joined, marked
  <1>3. ListFits(marked) /\ ListFits(joined)
    BY <1>1, <1>2 DEF ListFits
  <1>4. ListFits(Ask(marked))
    BY <1>1, <1>3, AskFits
  <1>5. EntryTyped(Ask(marked))
    BY <1>1 DEF Ask, EntryTyped, EntryFields
  <1> QED BY <1>2, <1>3, <1>4, <1>5 DEF Invalidated, joined, marked

LEMMA StopsStart == WorkspaceInit => StopsInv
  <1>1. SUFFICES ASSUME WorkspaceInit PROVE StopsInv
    OBVIOUS
  <1>2. TableFits(routes)
    BY <1>1, DispatchFeedAssumption
    DEF WorkspaceInit, FeedInit, TableFits, RowFits, RouteRow, RowFields, Stops
  <1>3. ListFits(query["routes"])
    BY <1>1 DEF WorkspaceInit, FeedInit, ListFits, Entry0, Ask, NoData, Keys
  <1>4. ColumnPlans(column) /\ picked = << >> /\ newDraft = None
    BY <1>1, NoStops DEF WorkspaceInit, NoColumn, ColumnPlans
  <1>5. \A k \in Kinds : CallPlans(k, request[k])
    BY <1>1, NoStops DEF WorkspaceInit, Idle, Kinds, CallPlans
  <1>6. TheirsFit(theirs)
    BY <1>1 DEF WorkspaceInit, FeedInit, TheirsFit, WorkFits, NoWork
  <1> QED BY <1>2, <1>3, <1>4, <1>5, <1>6, NoStops DEF StopsInv

\* What a column has of its list, draft or old self.
LEMMA RenderedStops ==
  ASSUME NEW q, NEW f, NEW draft, NEW sel \in RouteIds \cup {None}, NEW col,
         ListFits(q["routes"]), draft # None => draft \in Stops, ColumnPlans(col)
  PROVE  ColumnPlans(Rendered(q, f, draft, sel, col))
  <1> DEFINE c == Rendered(q, f, draft, sel, col)
             r == Selected(q, sel)
             rw == q["routes"].data[r]
  <1>1. CASE c = NoColumn
    BY <1>1, NoStops DEF NoColumn, ColumnPlans
  <1>2. CASE c = col
    BY <1>2
  <1>3. CASE draft # None /\ c = DraftColumn(draft)
    BY <1>3 DEF DraftColumn, NoColumn, ColumnPlans
  <1>4. CASE ~Unusable(q["routes"]) /\ r # None /\ c = DetailColumn(r, rw)
    <2>1. r \in RouteIds /\ q["routes"].data # NoData
      BY <1>4 DEF Selected, Unusable
    <2>2. RowFits(rw)
      BY <2>1 DEF ListFits, TableFits
    <2> HIDE DEF rw
    <2> QED BY <1>4, <2>2 DEF DetailColumn, ColumnPlans, RowFits
  <1> QED BY <1>1, <1>2, <1>3, <1>4 DEF Rendered

\* The invariant after a step, part by part.
LEMMA StopsPrimed ==
  ASSUME picked' \in Stops, newDraft' # None => newDraft' \in Stops, TableFits(routes'),
         TheirsFit(theirs'), ListFits(query'["routes"]), ColumnPlans(column'),
         \A k \in Kinds : CallPlans(k, request'[k])
  PROVE  StopsInv'
  BY DEF StopsInv, TableFits, RowFits, NextFits, TheirsFit, WorkFits, NoWork, NoRow, Row, ListFits,
         ColumnPlans, CallPlans, Stops, Once

\* What is written from a row that was read: a plan with the number of its version, unless
\* the table has had another one since.
LEMMA PlannedFits ==
  ASSUME NEW read, RowFits(read), NEW points \in Stops, NEW courier
  PROVE  NextFits(Planned(read, points, courier))
  BY DEF RowFits, NextFits, RowFields, Planned

LEMMA NumberedFits ==
  ASSUME NEW old, RowFits(old), NEW rw, NextFits(rw)
  PROVE  RowFits(Numbered(old, rw)) /\ RowFits(Stored(old, Numbered(old, rw)))
  <1> DEFINE new == Numbered(old, rw)
  <1>1. /\ DOMAIN new = RowFields /\ new.points = rw.points /\ new.plan = old.plan + 1
        /\ new.version = rw.version /\ new.raced = (rw.raced \/ old.raced \/ rw.plan # old.plan)
    BY DEF Numbered, NextFits, RowFields
  <1> HIDE DEF new
  <1>2. RowFits(new)
    BY <1>1 DEF RowFits, NextFits
  <1>3. RowFits(Stored(old, new))
    BY <1>2 DEF RowFits, RowFields, Stored
  <1> QED BY <1>2, <1>3 DEF new

LEMMA WritePlanFits ==
  ASSUME TableFits(routes), NEW r \in RouteIds, NEW rw, NextFits(rw), NEW taken,
         WritePlan(r, rw, taken)
  PROVE  TableFits(routes')
  <1>1. RowFits(Stored(routes[r], Numbered(routes[r], rw)))
    BY NumberedFits DEF TableFits
  <1> QED BY <1>1 DEF WritePlan, TableFits

LEMMA StatusFits ==
  ASSUME NEW row, RowFits(row), NEW s
  PROVE  RowFits([row EXCEPT !.status = s])
  BY DEF RowFits, RowFields

LEMMA WriteStatusFits ==
  ASSUME TableFits(routes), NEW r \in RouteIds, NEW to, WriteStatus(r, to)
  PROVE  TableFits(routes')
  <1> DEFINE s == IF routes[r].status = "deleted" THEN routes[r].status ELSE to
             row == [routes[r] EXCEPT !.status = s]
  <1>1. RowFits(row)
    BY StatusFits DEF TableFits
  <1>2. routes' = [routes EXCEPT ![r] = row]
    BY DEF WriteStatus, TableFits
  <1> HIDE DEF row
  <1> QED BY <1>1, <1>2 DEF TableFits

\* The requests of others.
LEMMA OthersFit ==
  ASSUME StopsInv, NEW x \in Others,
         \/ OthersReadOrders(x) \/ OthersEnd(x)
         \/ \E r \in RouteIds :
              \/ \E points \in Plans : OthersPlanRoute(x, r, points)
              \/ \E to \in {"planned", "in_progress", "deleted"} : OthersMoveRoute(x, r, to)
  PROVE  TableFits(routes') /\ TheirsFit(theirs')
  <1>1. TableFits(routes) /\ TheirsFit(theirs) /\ WorkFits(theirs[x])
    BY DEF StopsInv, TheirsFit
  <1>2. ASSUME NEW w, WorkFits(w), theirs' = [theirs EXCEPT ![x] = w] PROVE TheirsFit(theirs')
    BY <1>1, <1>2 DEF TheirsFit
  <1>3. ASSUME NEW r \in RouteIds, NEW row, NEW phase \in {"orders", "status"},
               phase = "orders" => NextFits(row), OthersRead(x, r, phase, row)
        PROVE  TableFits(routes') /\ TheirsFit(theirs')
    <2> DEFINE w == [NoWork EXCEPT !.phase = phase, !.route = r, !.row = row]
    <2>1. WorkFits(w)
      BY <1>3 DEF WorkFits, NoWork
    <2>2. theirs' = [theirs EXCEPT ![x] = w] /\ UNCHANGED routes
      BY <1>3 DEF OthersRead
    <2> HIDE DEF w
    <2> QED BY <1>1, <1>2, <2>1, <2>2
  <1>4. ASSUME NEW r \in RouteIds, NEW points \in Plans, OthersPlanRoute(x, r, points)
        PROVE  TableFits(routes') /\ TheirsFit(theirs')
    <2> DEFINE row == Planned(routes[r], points, routes[r].courier)
    <2>1. points \in Stops
      BY DispatchFeedAssumption DEF Stops
    <2>2. NextFits(row)
      BY <1>1, <2>1, PlannedFits DEF TableFits
    <2>3. OthersRead(x, r, "orders", row)
      BY <1>4 DEF OthersPlanRoute
    <2> HIDE DEF row
    <2> QED BY <1>3, <2>2, <2>3
  <1>5. ASSUME NEW r \in RouteIds, NEW to, OthersMoveRoute(x, r, to)
        PROVE  TableFits(routes') /\ TheirsFit(theirs')
    BY <1>3, <1>5 DEF OthersMoveRoute
  <1>6. CASE OthersReadOrders(x)
    <2> DEFINE taken == TakenBy(Elems(theirs[x].row.points), theirs[x].row.courier)
               w == [theirs[x] EXCEPT !.phase = "plan", !.taken = taken]
    <2>1. theirs' = [theirs EXCEPT ![x] = w] /\ theirs[x].phase = "orders" /\ UNCHANGED routes
      BY <1>1, <1>6 DEF OthersReadOrders, TheirsFit
    <2> HIDE DEF taken
    <2>2. WorkFits(w)
      BY <1>1, <2>1 DEF WorkFits, NoWork
    <2> HIDE DEF w
    <2> QED BY <1>1, <1>2, <2>1, <2>2
  <1>7. CASE OthersEnd(x)
    <2>1. WorkFits(NoWork)
      BY DEF WorkFits, NoWork
    <2>2. TheirsFit(theirs')
      BY <1>2, <1>7, <2>1 DEF OthersEnd
    <2>3. TableFits(routes')
      BY <1>1, <1>7, WritePlanFits, WriteStatusFits DEF OthersEnd, WorkFits
    <2> QED BY <2>2, <2>3
  <1> QED BY <1>4, <1>5, <1>6, <1>7

\* The lists and tables after a step of the server, a message or a query.
LEMMA FeedStops ==
  ASSUME FeedInv, StopsInv, ServerStep \/ Messages \/ Queries
  PROVE  TableFits(routes') /\ TheirsFit(theirs') /\ ListFits(query'["routes"])
  <1> DEFINE q == query["routes"]
  <1>1. /\ TableFits(routes) /\ TheirsFit(theirs) /\ ListFits(q) /\ EntryTyped(q) /\ "routes" \in Keys
        /\ DOMAIN query = Keys
    BY DEF FeedInv, StopsInv, Explained, Keys
  <1>2. ASSUME UNCHANGED << routes, theirs >>, query'["routes"] = q
        PROVE  TableFits(routes') /\ TheirsFit(theirs') /\ ListFits(query'["routes"])
    BY <1>1, <1>2
  <1>3. CASE ServerStep
    <2>1. ASSUME NEW o \in Orders, OthersEnterOrder(o)
          PROVE  UNCHANGED << routes, theirs >> /\ query'["routes"] = q
      BY <1>1, <2>1 DEF OthersEnterOrder
    <2>2. ASSUME NEW o \in Orders, NEW to \in OrderStatus, OthersMoveOrder(o, to)
          PROVE  UNCHANGED << routes, theirs >> /\ query'["routes"] = q
      BY <2>2 DEF OthersMoveOrder, ClientUnchanged
    <2>3. ASSUME NEW x \in Others,
                 \/ OthersReadOrders(x) \/ OthersEnd(x)
                 \/ \E r \in RouteIds :
                      \/ \E points \in Plans : OthersPlanRoute(x, r, points)
                      \/ \E to \in {"planned", "in_progress", "deleted"} : OthersMoveRoute(x, r, to)
          PROVE  TableFits(routes') /\ TheirsFit(theirs') /\ query'["routes"] = q
      <3>1. UNCHANGED query
        BY <2>3, Zenon DEF OthersReadOrders, OthersEnd, OthersPlanRoute, OthersMoveRoute,
                           OthersRead, ClientUnchanged
      <3> QED BY <2>3, <3>1, OthersFit
    <2> QED BY <1>1, <1>2, <1>3, <2>1, <2>2, <2>3 DEF ServerStep
  <1>4. CASE Messages
    <2>1. ASSUME NEW m \in news.orders, HearOrder(m) \/ LoseOrder(m)
          PROVE  UNCHANGED << routes, theirs >> /\ query'["routes"] = q
      BY <1>1, <2>1 DEF HearOrder, LoseOrder, OrderHeard, ServerUnchanged
    <2>2. CASE HearRoute
      <3>1. query'["routes"] = Invalidated("routes", q) /\ UNCHANGED << routes, theirs >>
        BY <1>1, <2>2 DEF HearRoute, RoutesHeard, ServerUnchanged
      <3> QED BY <1>1, <3>1, InvalidatedFits
    <2>3. CASE LoseRoute
      <3>1. query'["routes"] = Missed("routes", q) /\ UNCHANGED << routes, theirs >>
        BY <1>1, <2>3 DEF LoseRoute, ServerUnchanged
      <3>2. ListFits(Missed("routes", q))
        BY <1>1 DEF Missed, ListFits, EntryTyped, EntryFields
      <3> QED BY <1>1, <3>1, <3>2
    <2> QED BY <1>2, <1>4, <2>1, <2>2, <2>3 DEF Messages
  <1>5. CASE Queries
    <2>1. UNCHANGED << routes, theirs >>
      <3>1. ServerUnchanged
        BY <1>5, Zenon DEF Queries, ReadAnswer, TakeAnswer, FailAnswer, Refetch, SetStatusFilter,
                           QueryOnly
      <3> QED BY <3>1 DEF ServerUnchanged
    <2>2. ASSUME NEW k \in Keys, ReadAnswer(k) PROVE ListFits(query'["routes"])
      <3>1. CASE k = "routes"
        <4> DEFINE new == [q EXCEPT !.phase = "read", !.answer = routes]
        <4>1. query'["routes"] = new
          BY <1>1, <2>2, <3>1 DEF ReadAnswer, QueryOnly, ServerView
        <4>2. new.data = q.data /\ new.phase = "read" /\ new.answer = routes
          BY <1>1 DEF EntryTyped, EntryFields
        <4> HIDE DEF new
        <4> QED BY <1>1, <4>1, <4>2 DEF ListFits
      <3>2. CASE k # "routes"
        BY <1>1, <2>2, <3>2 DEF ReadAnswer, QueryOnly
      <3> QED BY <3>1, <3>2
    <2>3. ASSUME NEW k \in Keys, TakeAnswer(k) PROVE ListFits(query'["routes"])
      <3>1. CASE k = "routes"
        <4> DEFINE s == SetData(q, q.answer)
                   new == [s EXCEPT !.phase = "idle", !.answer = NoData]
        <4>1. query'["routes"] = new /\ q.phase = "read"
          BY <1>1, <2>3, <3>1 DEF TakeAnswer, QueryOnly
        <4>2. EntryTyped(s) /\ s.data = q.answer
          BY <1>1, SetDataTyped
        <4> HIDE DEF s
        <4>3. new.data = q.answer /\ new.phase = "idle"
          BY <4>2 DEF EntryTyped, EntryFields
        <4> HIDE DEF new
        <4> QED BY <1>1, <4>1, <4>3 DEF ListFits
      <3>2. CASE k # "routes"
        BY <1>1, <2>3, <3>2 DEF TakeAnswer, QueryOnly
      <3> QED BY <3>1, <3>2
    <2>4. ASSUME NEW k \in Keys, FailAnswer(k) PROVE ListFits(query'["routes"])
      <3>1. CASE k = "routes"
        <4> DEFINE new == [q EXCEPT !.phase = "idle", !.failed = TRUE]
        <4>1. query'["routes"] = new
          BY <1>1, <2>4, <3>1 DEF FailAnswer, QueryOnly
        <4>2. new.data = q.data /\ new.phase = "idle"
          BY <1>1 DEF EntryTyped, EntryFields
        <4> HIDE DEF new
        <4> QED BY <1>1, <4>1, <4>2 DEF ListFits
      <3>2. CASE k # "routes"
        BY <1>1, <2>4, <3>2 DEF FailAnswer, QueryOnly
      <3> QED BY <3>1, <3>2
    <2>5. ASSUME NEW k \in Keys, Refetch(k) PROVE ListFits(query'["routes"])
      <3>1. query'["routes"] = IF k = "routes" THEN Ask(q) ELSE q
        BY <1>1, <2>5 DEF Refetch, QueryOnly
      <3> QED BY <1>1, <3>1, AskFits
    <2>6. ASSUME NEW f \in Filters, SetStatusFilter(f) PROVE ListFits(query'["routes"])
      <3>1. query'["routes"] = Ask(q) \/ query'["routes"] = q
        BY <1>1, <2>6 DEF SetStatusFilter
      <3> QED BY <1>1, <3>1, AskFits
    <2> QED BY <1>1, <1>5, <2>1, <2>2, <2>3, <2>4, <2>5, <2>6 DEF Queries
  <1> QED BY <1>3, <1>4, <1>5

\* The list that has taken over an answer.
LEMMA WithAnswerFits ==
  ASSUME NEW q, EntryTyped(q), ListFits(q), NEW r \in RouteIds, NEW rw, RowFits(rw)
  PROVE  ListFits(WithAnswer(q, r, rw))
  <1> DEFINE known == IF q.data = NoData THEN [x \in RouteIds |-> NoRow] ELSE q.data
             data == [known EXCEPT ![r] = rw]
             new == Invalidated("routes", q)
  <1>1. TableFits(known)
    BY NoRowFits DEF ListFits, TableFits
  <1> HIDE DEF known
  <1>2. TableFits(data)
    BY <1>1 DEF TableFits
  <1> HIDE DEF data
  <1>3. ListFits(new) /\ EntryTyped(new)
    BY InvalidatedFits
  <1> HIDE DEF new
  <1>4. /\ SetData(new, data).data = data /\ SetData(new, data).phase = new.phase
        /\ SetData(new, data).answer = new.answer
    BY <1>3, SetDataTyped
  <1>5. ListFits(SetData(new, data))
    BY <1>2, <1>3, <1>4 DEF ListFits
  <1> QED BY <1>5 DEF WithAnswer, new, data, known

\* Every edit keeps the stops distinct.
LEMMA EditStops ==
  ASSUME StopsInv, Edit, ColumnInv
  PROVE  \E points \in Stops : \E courier : Edits(points, courier)
  <1>1. column.points \in Stops /\ picked \in Stops
    BY DEF StopsInv, ColumnPlans
  <1>2. ASSUME NEW o \in Orders, NEW stop, NEW target
        PROVE  Dropped(column.points, o, stop, target) \in Stops
    BY <1>1, DraggedStops DEF Dropped
  <1>3. ASSUME NEW o \in Orders, NEW t \in Orders \cup {None}, DropStop(o, t) \/ DropCard(o, t)
        PROVE  \E points \in Stops : \E courier : Edits(points, courier)
    BY <1>2, <1>3 DEF DropStop, DropCard
  <1>4. ASSUME NEW o \in Orders, DropFromMap(o)
        PROVE  \E points \in Stops : \E courier : Edits(points, courier)
    BY <1>1, <1>4, AppendStops DEF DropFromMap
  <1>5. ASSUME NEW o \in Orders, RemovePoint(o)
        PROVE  \E points \in Stops : \E courier : Edits(points, courier)
    BY <1>1, <1>5, OnlyStops DEF RemovePoint
  <1>6. ASSUME AddSelected
        PROVE  \E points \in Stops : \E courier : Edits(points, courier)
    <2> DEFINE S == {o \in ListedOrders : isRoutableOrder(o)}
                      \ (Elems(column.points) \cup BlockedFor(column.route))
               added == Only(picked, S)
    <2>1. Edits(column.points \o added, column.courier)
      BY <1>6 DEF AddSelected
    <2>2. added \in Stops /\ \A x \in Elems(added) : x \in S
      BY <1>1, OnlyStops
    <2> HIDE DEF added
    <2>3. Elems(column.points) \cap Elems(added) = {}
      BY <2>2
    <2> QED BY <1>1, <2>1, <2>2, <2>3, ConcatStops
  <1>7. ASSUME Reset
        PROVE  \E points \in Stops : \E courier : Edits(points, courier)
    <2>1. /\ Edits(ShownRoutes[column.route].points, ShownRoutes[column.route].courier)
          /\ column.kind = "detail"
      BY <1>7 DEF Reset, Dirty
    <2>2. ShownRoutes[column.route].points \in Stops
      BY <2>1 DEF ColumnInv, ColumnFits, StopsInv, ListFits, TableFits, RowFits, ShownRoutes
    <2> QED BY <2>1, <2>2
  <1>8. ASSUME NEW c \in Couriers \cup {None}, ChooseCourier(c)
        PROVE  \E points \in Stops : \E courier : Edits(points, courier)
    BY <1>1, <1>8 DEF ChooseCourier
  <1> QED BY <1>3, <1>4, <1>5, <1>6, <1>7, <1>8 DEF Edit

\* One request changes.
LEMMA CallPlansKept ==
  ASSUME StopsInv, CallsInv, NEW k \in Kinds, NEW r, request' = [request EXCEPT ![k] = r],
         CallPlans(k, r)
  PROVE  \A x \in Kinds : CallPlans(x, request'[x])
  BY DEF StopsInv, CallsInv

LEMMA LivePlans ==
  ASSUME NEW k, NEW r, DOMAIN r = CallFields, CallPlans(k, r), NEW live
  PROVE  CallPlans(k, [r EXCEPT !.live = live])
  <1> DEFINE q == [r EXCEPT !.live = live]
  <1>1. /\ q.phase = r.phase /\ q.points = r.points /\ q.orders = r.orders /\ q.row = r.row
        /\ q.unseen = r.unseen /\ q.raced = r.raced /\ q.excuse = r.excuse
    BY LiveIs
  <1> HIDE DEF q
  <1>2. CallPlans(k, q)
    BY <1>1 DEF CallPlans
  <1> QED BY <1>2 DEF q

LEMMA LivePlansKept ==
  ASSUME StopsInv, CallsInv, NEW live, request' = [request EXCEPT !["save"].live = live]
  PROVE  \A x \in Kinds : CallPlans(x, request'[x])
  <1> DEFINE r == [request["save"] EXCEPT !.live = live]
  <1>1. /\ CallPlans("save", request["save"]) /\ DOMAIN request["save"] = CallFields
        /\ "save" \in Kinds
    BY DEF StopsInv, CallsInv, CallFits, Kinds
  <1>2. CallPlans("save", r)
    BY <1>1, LivePlans
  <1>3. request' = [request EXCEPT !["save"] = r]
    BY <1>1 DEF CallsInv
  <1> HIDE DEF r
  <1> QED BY <1>1, <1>2, <1>3, CallPlansKept

LEMMA IdlePlans == \A k : CallPlans(k, Idle)
  BY NoStops DEF CallPlans, Idle

LEMMA SendsPlans ==
  ASSUME StopsInv, CallsInv, NEW k \in Kinds, NEW r, Sends(k, r),
         CallPlans(k, [r EXCEPT !.phase = "sent"])
  PROVE  \A x \in Kinds : CallPlans(x, request'[x])
  BY CallPlansKept DEF Sends

\* Without an excuse, the plan of a column is that in the table, unless one was written over
\* another.
LEMMA PlanShown ==
  ASSUME FeedInv, ColumnInv, StopsInv, column.kind = "detail", ~Excused,
         ~column.raced, ~routes[column.route].raced
  PROVE  column.plan = routes[column.route].plan
  <1>1. column.version = routes[column.route].version
    BY VersionShown
  <1>2. column.route \in RouteIds
    BY DEF ColumnInv, ColumnFits
  <1>3. RowFits(routes[column.route]) /\ ColumnPlans(column)
    BY <1>2 DEF StopsInv, TableFits
  <1> QED BY <1>1, <1>3 DEF RowFits, ColumnPlans

LEMMA OnRoutePlans ==
  ASSUME FeedInv, ColumnInv, StopsInv, column.kind = "detail", NEW k, NEW parts
  PROVE  CallPlans(k, [OnRoute(parts) EXCEPT !.phase = "sent"])
  <1> DEFINE r == [OnRoute(parts) EXCEPT !.phase = "sent"]
  <1>1. /\ r.phase = "sent" /\ r.points = column.points /\ r.orders = {}
        /\ r.unseen = (column.plan # routes[column.route].plan) /\ r.excuse = Excused
        /\ r.raced = (column.raced \/ routes[column.route].raced)
    BY OnRouteIs
  <1>2. r.unseen => r.excuse \/ r.raced
    BY <1>1, PlanShown
  <1>3. column.points \in Stops
    BY DEF StopsInv, ColumnPlans
  <1> HIDE DEF r
  <1>4. CallPlans(k, r)
    BY <1>1, <1>2, <1>3 DEF CallPlans
  <1> QED BY <1>4 DEF r

\* The server works on a request: what it stores and answers are plans again.
LEMMA ServeStops ==
  ASSUME FeedInv, ColumnInv, CallsInv, StopsInv, Serve
  PROVE  TableFits(routes') /\ \A k \in Kinds : CallPlans(k, request'[k])
  <1>1. TableFits(routes) /\ "build" \in Kinds /\ "save" \in Kinds /\ "send" \in Kinds
        /\ \A k \in Kinds : CallPlans(k, request[k]) /\ CallFits(k, request[k])
    BY DEF StopsInv, CallsInv, Kinds
  <1>2. ASSUME NEW k \in Kinds, NEW q, Serves(k, q), CallPlans(k, q)
        PROVE  \A x \in Kinds : CallPlans(x, request'[x])
    BY <1>2, CallPlansKept DEF Serves
  <1>3. ASSUME NEW k \in Kinds, ReadRoute(k)
        PROVE  TableFits(routes') /\ \A x \in Kinds : CallPlans(x, request'[x])
    <2> DEFINE q == request[k]
               read == routes[q.route]
               row == SavedRow(q, read)
               saved == [q EXCEPT !.phase = "orders", !.row = row]
               sent == [q EXCEPT !.phase = "status"]
    <2>1. q.route \in RouteIds /\ DOMAIN q = CallFields /\ CallPlans(k, q)
      BY <1>1, <1>3 DEF ReadRoute, CallFits
    <2>2. RowFits(read)
      BY <1>1, <2>1 DEF TableFits
    <2>3. NextFits(row)
      <3>1. /\ (IF "points" \in q.parts THEN q.points ELSE read.points) \in Stops
        BY <2>1, <2>2 DEF RowFits, CallPlans
      <3> QED BY <2>2, <3>1, PlannedFits DEF SavedRow
    <2> HIDE DEF row
    <2>4. CallPlans(k, saved)
      <3>1. /\ saved.phase = "orders" /\ saved.row = row /\ saved.points = q.points
            /\ saved.orders = q.orders /\ saved.unseen = q.unseen /\ saved.raced = q.raced
            /\ saved.excuse = q.excuse
        BY <2>1 DEF CallFields
      <3> HIDE DEF saved
      <3> QED BY <2>1, <2>3, <3>1 DEF CallPlans
    <2>5. k = "send" => CallPlans(k, sent)
      <3>1. /\ sent.phase = "status" /\ sent.row = q.row /\ sent.points = q.points
            /\ sent.orders = q.orders /\ sent.unseen = q.unseen /\ sent.raced = q.raced
            /\ sent.excuse = q.excuse
        BY <2>1 DEF CallFields
      <3> HIDE DEF sent
      <3> QED BY <2>1, <3>1 DEF CallPlans
    <2>6. /\ (k = "save" /\ Serves(k, saved)) \/ (k = "send" /\ Serves(k, sent))
          /\ UNCHANGED routes
      BY <1>3 DEF ReadRoute, OnlyReads, row
    <2> HIDE DEF saved, sent
    <2> QED BY <1>1, <1>2, <2>4, <2>5, <2>6
  <1>4. ASSUME NEW k \in Kinds, ReadStops(k)
        PROVE  TableFits(routes') /\ \A x \in Kinds : CallPlans(x, request'[x])
    <2> DEFINE q == request[k]
               stops == IF k = "build" THEN q.orders ELSE Elems(q.row.points)
               taken == TakenBy(stops, q.row.courier)
               new == [q EXCEPT !.phase = "plan", !.taken = taken]
    <2>1. /\ DOMAIN q = CallFields /\ CallPlans(k, q)
          /\ k # "build" => q.phase = "orders"
      BY <1>1, <1>4 DEF ReadStops, CallFits
    <2>2. Serves(k, new) /\ UNCHANGED routes
      BY <1>4 DEF ReadStops, OnlyReads
    <2> HIDE DEF taken
    <2>3. /\ new.phase = "plan" /\ new.row = q.row /\ new.points = q.points
          /\ new.orders = q.orders /\ new.unseen = q.unseen /\ new.raced = q.raced
          /\ new.excuse = q.excuse
      BY <2>1 DEF CallFields
    <2> HIDE DEF new
    <2>4. CallPlans(k, new)
      BY <2>1, <2>3 DEF CallPlans
    <2> QED BY <1>1, <1>2, <2>2, <2>4
  <1>5. ASSUME NEW k \in Kinds, Refuses(k)
        PROVE  TableFits(routes') /\ \A x \in Kinds : CallPlans(x, request'[x])
    <2> DEFINE q == request[k]
               new == [q EXCEPT !.phase = "refused", !.row = NoRow, !.taken = {}]
    <2>1. DOMAIN q = CallFields /\ CallPlans(k, q)
      BY <1>1 DEF CallFits
    <2>2. Serves(k, new) /\ UNCHANGED routes
      BY <1>5 DEF Refuses, OnlyReads
    <2>3. /\ new.phase = "refused" /\ new.points = q.points
          /\ new.orders = q.orders /\ new.unseen = q.unseen /\ new.raced = q.raced
          /\ new.excuse = q.excuse
      BY <2>1 DEF CallFields
    <2> HIDE DEF new
    <2>4. CallPlans(k, new)
      BY <2>1, <2>3 DEF CallPlans
    <2> QED BY <1>1, <1>2, <2>2, <2>4
  <1>6. ASSUME NEW k \in Kinds, NEW r, NEW row, RowFits(row),
               Serves(k, Built(request[k], r, row))
        PROVE  \A x \in Kinds : CallPlans(x, request'[x])
    <2> DEFINE q == request[k]
               new == Built(q, r, row)
    <2>1. DOMAIN q = CallFields /\ CallPlans(k, q)
      BY <1>1 DEF CallFits
    <2>2. /\ new.phase = "accepted" /\ new.points = q.points /\ new.row = row
          /\ new.orders = q.orders /\ new.unseen = q.unseen /\ new.raced = q.raced
          /\ new.excuse = q.excuse
      BY <2>1 DEF CallFields, Built
    <2>3. Serves(k, new)
      BY <1>6
    <2> HIDE DEF new
    <2>4. CallPlans(k, new)
      BY <1>6, <2>1, <2>2 DEF CallPlans
    <2> QED BY <1>2, <2>3, <2>4
  <1>7. CASE ServeBuild
    <2> DEFINE S == request["build"].orders
    <2>1. PICK r \in RouteIds, points \in SetToSeqs(S) :
            /\ routes' = [routes EXCEPT ![r] = Row("draft", 1, points, None)]
            /\ Serves("build", Built(request["build"], r, Row("draft", 1, points, None)))
      BY <1>7, Zenon DEF ServeBuild, Built
    <2>2. S \subseteq Orders /\ IsFiniteSet(S)
      BY <1>1, DispatchFeedAssumption, FS_Subset DEF CallPlans
    <2>3. Cardinality(S) \in Nat
      BY <2>2, FS_CardinalityType
    <2>4. /\ points \in [1 .. Cardinality(S) -> S]
          /\ \A i, j \in 1 .. Cardinality(S) : i # j => points[i] # points[j]
      BY <2>1 DEF SetToSeqs
    <2>5. points \in Seq(Orders)
      BY <2>2, <2>3, <2>4
    <2>6. points \in Stops
      BY <2>4, <2>5 DEF Stops, Once
    <2> DEFINE row == Row("draft", 1, points, None)
    <2>7. RowFits(row)
      BY <2>6 DEF RowFits, RowFields, Row
    <2>8. /\ routes' = [routes EXCEPT ![r] = row]
          /\ Serves("build", Built(request["build"], r, row))
      BY <2>1
    <2> HIDE DEF row
    <2>9. TableFits(routes')
      BY <1>1, <2>7, <2>8 DEF TableFits
    <2>10. \A x \in Kinds : CallPlans(x, request'[x])
      BY <1>1, <1>6, <2>7, <2>8
    <2> QED BY <2>9, <2>10
  <1>8. ASSUME NEW k \in Kinds, NEW row, RowFits(row),
               Serves(k, Accepted(request[k], row))
        PROVE  \A x \in Kinds : CallPlans(x, request'[x])
    <2>1. DOMAIN request[k] = CallFields
      BY <1>1 DEF CallFits
    <2>2. Accepted(request[k], row) = Built(request[k], request[k].route, row)
      BY <2>1 DEF CallFields, Accepted, Built
    <2> QED BY <1>6, <1>8, <2>2
  <1>9. CASE ServeSave
    <2> DEFINE q == request["save"]
               row == Numbered(routes[q.route], q.row)
    <2>1. q.route \in RouteIds /\ NextFits(q.row) /\ WritePlan(q.route, q.row, q.taken)
      BY <1>1, <1>9 DEF ServeSave, CallFits, CallPlans
    <2>2. RowFits(row) /\ TableFits(routes')
      BY <1>1, <2>1, NumberedFits, WritePlanFits DEF TableFits
    <2>3. Serves("save", [q EXCEPT !.phase = "accepted", !.row = Numbered(routes[q.route], @)])
      BY <1>9 DEF ServeSave
    <2>4. DOMAIN q = CallFields
      BY <1>1 DEF CallFits
    <2> HIDE DEF q
    <2>5. [q EXCEPT !.phase = "accepted", !.row = Numbered(routes[q.route], @)] = Accepted(q, row)
      BY <2>4 DEF CallFields, Accepted
    <2> HIDE DEF row
    <2>6. Serves("save", Accepted(request["save"], row))
      BY <2>3, <2>5 DEF q
    <2>7. \A x \in Kinds : CallPlans(x, request'[x])
      BY <1>1, <1>8, <2>2, <2>6
    <2> QED BY <2>2, <2>7
  <1>10. CASE ServeSend
    <2> DEFINE q == request["send"]
               row == [routes[q.route] EXCEPT !.status = "planned"]
    <2>1. q.route \in RouteIds /\ WriteStatus(q.route, "planned")
      BY <1>1, <1>10 DEF ServeSend, CallFits
    <2>2. RowFits(row) /\ TableFits(routes')
      BY <1>1, <2>1, StatusFits, WriteStatusFits DEF TableFits
    <2>3. Serves("send", Accepted(request["send"], row))
      BY <1>10, Zenon DEF ServeSend, Accepted
    <2> HIDE DEF row
    <2>4. \A x \in Kinds : CallPlans(x, request'[x])
      BY <1>1, <1>8, <2>2, <2>3
    <2> QED BY <2>2, <2>4
  <1> QED BY <1>3, <1>4, <1>5, <1>7, <1>9, <1>10 DEF Serve, Kinds

LEMMA StopsStep ==
  FeedInv /\ ColumnInv /\ CallsInv /\ StopsInv /\ [WorkspaceNext]_workspaceVars => StopsInv'
  <1>1. SUFFICES ASSUME FeedInv, ColumnInv, CallsInv, StopsInv, [WorkspaceNext]_workspaceVars
                 PROVE  StopsInv'
    OBVIOUS
  <1>2. /\ picked \in Stops /\ TableFits(routes) /\ TheirsFit(theirs) /\ ListFits(query["routes"])
        /\ newDraft # None => newDraft \in Stops
        /\ ColumnPlans(column)
        /\ \A k \in Kinds : CallPlans(k, request[k])
        /\ selected \in RouteIds \cup {None}
    BY <1>1 DEF StopsInv, ColumnInv
  <1>3. ASSUME Rerender, newDraft' # None => newDraft' \in Stops,
               selected' \in RouteIds \cup {None}, ListFits(query'["routes"])
        PROVE  ColumnPlans(column')
    BY <1>2, <1>3, RenderedStops DEF Rerender
  <1>4. ASSUME Waiting PROVE \A k \in Kinds : CallPlans(k, request'[k])
    <2>1. PICK live : request' = [request EXCEPT !["save"].live = live]
      BY <1>1, <1>4 DEF Waiting, CallsInv, Kinds
    <2> QED BY <1>1, <2>1, LivePlansKept
  <1>5. CASE FeedStep
    <2>1. TableFits(routes') /\ TheirsFit(theirs') /\ ListFits(query'["routes"])
      BY <1>1, <1>5, FeedStops DEF FeedStep
    <2>2. UNCHANGED << picked, selected, newDraft >> /\ Rerender /\ Waiting
      BY <1>5 DEF FeedStep
    <2> QED BY <1>2, <1>3, <1>4, <2>1, <2>2, StopsPrimed
  <1>6. ASSUME UNCHANGED << routes, theirs, query >>, UNCHANGED << newDraft, column >>,
               picked' \in Stops, \A k \in Kinds : CallPlans(k, request'[k])
        PROVE  StopsInv'
    BY <1>2, <1>6, StopsPrimed
  <1>7. ASSUME NEW o \in Orders, PickOrder(o) \/ ClickOrder(o) PROVE StopsInv'
    <2>1. Only(picked, Orders \ {o}) \in Stops /\ << o >> \in Stops
      BY <1>2, OnlyStops, OneStop
    <2>2. o \notin Elems(picked) => Append(picked, o) \in Stops
      BY <1>2, AppendStops
    <2>3. picked' \in Stops
      BY <1>7, <2>1, <2>2 DEF PickOrder, ClickOrder
    <2> QED BY <1>2, <1>6, <1>7, <2>3 DEF PickOrder, ClickOrder, UiOnly, ServerUnchanged
  <1>8. CASE clearOrderSelection
    BY <1>2, <1>6, <1>8, NoStops DEF clearOrderSelection, UiOnly, ServerUnchanged
  <1>9. ASSUME NEW r \in RouteIds \cup {None}, NEW draft, draft # None => draft \in Stops,
               Opens(r, draft)
        PROVE  StopsInv'
    <2>1. /\ UNCHANGED << routes, theirs, query, picked >> /\ Rerender /\ Waiting
          /\ selected' = r /\ newDraft' = draft
      BY <1>9 DEF Opens, UiOnly, ServerUnchanged
    <2> QED BY <1>2, <1>3, <1>4, <1>9, <2>1, StopsPrimed
  <1>10. CASE StartNewDraft
    <2>1. AvailablePicks \in Stops
      BY <1>2, OnlyStops DEF AvailablePicks
    <2> QED BY <1>9, <1>10, <2>1 DEF StartNewDraft
  <1>11. ASSUME NEW r \in RouteIds, SelectListedRoute(r) \/ SelectRouteOnMap(r) PROVE StopsInv'
    BY <1>2, <1>9, <1>11 DEF SelectListedRoute, SelectRouteOnMap
  <1>12. CASE Edit
    <2>1. PICK points \in Stops : \E courier : Edits(points, courier)
      BY <1>1, <1>12, EditStops
    <2>2. PICK courier : Edits(points, courier)
      BY <2>1
    <2>3. /\ column'.points = points /\ column'.plan = column.plan
          /\ column'.version = column.version /\ column'.raced = column.raced
      BY <1>1, <2>2 DEF Edits, ColumnInv, ColumnFits, ColumnFields
    <2>4. UNCHANGED << routes, theirs, query, picked, newDraft, request >>
      BY <2>2 DEF Edits, UiOnly, ServerUnchanged
    <2>5. ColumnPlans(column')
      BY <1>2, <2>1, <2>3 DEF ColumnPlans
    <2> QED BY <1>2, <2>4, <2>5, StopsPrimed
  <1>13. CASE BuildSelected
    <2> DEFINE buildable == {o \in Elems(picked) \cap ListedOrders : isRoutableOrder(o)}
               r == [Idle EXCEPT !.orders = buildable]
    <2>1. Sends("build", r) /\ "build" \in Kinds
      BY <1>13 DEF BuildSelected, Kinds
    <2>2. buildable \subseteq Orders
      BY DEF ListedOrders
    <2>3. CallPlans("build", [r EXCEPT !.phase = "sent"])
      BY <2>2, NoStops DEF Idle, CallPlans
    <2> HIDE DEF r
    <2>4. \A k \in Kinds : CallPlans(k, request'[k])
      BY <1>1, <2>1, <2>3, SendsPlans
    <2> QED BY <1>2, <1>6, <2>1, <2>4 DEF Sends, UiOnly, ServerUnchanged
  <1>14. CASE Save \/ SendToMonitoring
    <2>1. PICK k \in Kinds : column.kind = "detail" /\ \E parts : Sends(k, OnRoute(parts))
      BY <1>14 DEF Save, Dirty, SendToMonitoring, Kinds
    <2>2. PICK parts : Sends(k, OnRoute(parts))
      BY <2>1
    <2>3. \A x \in Kinds : CallPlans(x, request'[x])
      BY <1>1, <2>1, <2>2, OnRoutePlans, SendsPlans
    <2> QED BY <1>2, <1>6, <2>2, <2>3 DEF Sends, UiOnly, ServerUnchanged
  <1>15. CASE Serve
    <2>1. TableFits(routes') /\ \A k \in Kinds : CallPlans(k, request'[k])
      BY <1>1, <1>15, ServeStops
    <2>2. UNCHANGED << theirs, query, picked, newDraft, column >>
      <3>1. ASSUME NEW k, NEW q, Serves(k, q) PROVE UNCHANGED theirs
        BY <3>1, Zenon DEF Serves
      <3>2. UNCHANGED theirs
        BY <1>15, <3>1, ServeServes, Zenon
      <3> QED BY <1>15, <3>2, ServeClient
    <2> QED BY <1>2, <2>1, <2>2, StopsPrimed
  <1>16. ASSUME NEW k \in Kinds, TakeRefusal(k) PROVE StopsInv'
    <2>1. \A x \in Kinds : CallPlans(x, request'[x])
      BY <1>1, <1>16, IdlePlans, CallPlansKept DEF TakeRefusal
    <2> QED BY <1>2, <1>6, <1>16, <2>1 DEF TakeRefusal, feedVars
  <1>17. ASSUME NEW k \in Kinds, TakeOwnAnswer(k) PROVE StopsInv'
    <2> DEFINE q == query["routes"]
    <2>1. /\ request[k].route \in RouteIds /\ RowFits(request[k].row)
          /\ EntryTyped(q) /\ DOMAIN query = Keys /\ "routes" \in Keys
      BY <1>1, <1>2, <1>17 DEF TakeOwnAnswer, CallsInv, CallFits, CallPlans, FeedInv, Explained, Keys
    <2>2. \/ query'["routes"] = Invalidated("routes", q) /\ UNCHANGED selected
          \/ /\ query'["routes"] = WithAnswer(q, request[k].route, request[k].row)
             /\ selected' = request[k].route
      BY <1>17, <2>1 DEF TakeOwnAnswer
    <2>3. ListFits(query'["routes"]) /\ selected' \in RouteIds \cup {None}
      BY <1>2, <2>1, <2>2, InvalidatedFits, WithAnswerFits
    <2>4. UNCHANGED << routes, theirs, newDraft, picked >> /\ Rerender
      BY <1>17 DEF TakeOwnAnswer, ServerUnchanged
    <2>5. ColumnPlans(column')
      BY <1>2, <1>3, <2>3, <2>4
    <2>6. \A x \in Kinds : CallPlans(x, request'[x])
      <3> DEFINE mid == [request EXCEPT ![k] = Idle]
      <3>1. PICK live : request' = [mid EXCEPT !["save"].live = live]
        BY <1>1, <1>17 DEF TakeOwnAnswer, CallsInv, Kinds
      <3>2. /\ DOMAIN mid = Kinds /\ "save" \in Kinds
            /\ \A x \in Kinds : mid[x] = IF x = k THEN Idle ELSE request[x]
        BY <1>1 DEF CallsInv, Kinds
      <3>3. \A x \in Kinds : CallPlans(x, mid[x]) /\ DOMAIN mid[x] = CallFields
        BY <1>1, <1>2, <3>2, IdlePlans, IdleFits DEF CallsInv, CallFits
      <3> HIDE DEF mid
      <3> DEFINE r == [mid["save"] EXCEPT !.live = live]
      <3>4. CallPlans("save", r)
        BY <3>2, <3>3, LivePlans
      <3>5. \A x \in Kinds : request'[x] = IF x = "save" THEN r ELSE mid[x]
        BY <3>1, <3>2
      <3> HIDE DEF r
      <3> QED BY <3>3, <3>4, <3>5
    <2> QED BY <1>2, <2>3, <2>4, <2>5, <2>6, StopsPrimed
  <1>18. CASE UNCHANGED workspaceVars
    BY <1>2, <1>6, <1>18 DEF workspaceVars, feedVars, uiVars
  <1> QED BY <1>1, <1>5, <1>7, <1>8, <1>10, <1>11, <1>12, <1>13, <1>14, <1>15, <1>16, <1>17, <1>18
          DEF WorkspaceNext, Kinds

\* What a dispatcher sends is a plan without repetitions.  It is made from the version that
\* the table has, unless news of another is on its way or was lost, and from the plan that
\* the table has, unless, besides, plans of the route were written over each other.
THEOREM DraftCorrect == WorkspaceSpec => []DraftSound
  <1>1. WorkspaceInv /\ StopsInv => DraftSound
    BY DEF WorkspaceInv, CallsInv, CallFits, CallPlans, ColumnPlans, StopsInv, Stops, DraftSound,
           StopsOnce, OverwritesUnseenOnly, Kinds
  <1>2. WorkspaceInv /\ StopsInv /\ [WorkspaceNext]_workspaceVars => StopsInv'
    BY StopsStep DEF WorkspaceInv
  <1> QED BY <1>1, <1>2, WorkspaceCorrect, StopsStart, PTL DEF WorkspaceSpec

-----------------------------------------------------------------------------
(* The plan of a route: its timetable and the order of its stops.          *)

\* The places along a plan: where the courier was, if that was known, and where its orders are.
Track(points, seen, spots) ==
  LET stops == [i \in 1 .. Len(points) |-> spots[points[i]]]
  IN  IF seen = None THEN stops ELSE << seen >> \o stops

\* From every place the next one is the nearest of those that are left.
Greedy(track) ==
  \A n \in 2 .. Len(track) : \A m \in n .. Len(track) :
    Distance[track[n - 1]][track[n]] <= Distance[track[n - 1]][track[m]]

\* The stops are reached one after the other from the departure on.
Timed(points, eta, departs) ==
  /\ eta[points[1]] >= departs
  /\ \A i \in 1 .. Len(points) - 1 : eta[points[i]] <= eta[points[i + 1]]

Returns(points, courier) == courier # None /\ Head(points) = courier /\ Last(points) = courier

RouteFits(r) ==
  /\ r.points \in Tours /\ r.courier \in Couriers \cup {None} /\ r.options \in Options
  /\ r.date = r.options.departs
  /\ Timed(r.points, r.eta, r.options.departs)
  /\ r.options.back => Returns(r.path, r.courier)
  /\ r.options.optimize => Greedy(Track(r.points, r.seen, r.spots))
  /\ r.byHand => ~r.options.optimize

\* Where the orders of a request were when it read them or found them.
SpotsRead(q) == [o \in Orders |-> IF Contains(q.orders, o) THEN q.rows[o].spot ELSE None]

\* What a plan that is about to be stored has to do with what was asked for.
PlanFits(q) ==
  /\ q.plan.points \in Tours
  /\ Timed(q.plan.points, q.plan.eta, q.options.departs)
  /\ q.options.back => Returns(q.plan.path, q.courier)
  /\ q.options.optimize => Greedy(Track(q.plan.points, q.plan.seen, SpotsRead(q)))
  /\ ~q.options.optimize => q.plan.points = q.orders
  /\ q.options.optimize /\ Greedy(Track(q.orders, q.plan.seen, SpotsRead(q))) =>
       q.plan.points = q.orders

PlanRequestFields ==
  {"pc", "op", "dto", "base", "orders", "courier", "options", "rows", "plan", "stale"}

PlanRequestFits(q, row) ==
  /\ DOMAIN q = PlanRequestFields /\ q.pc \in {"idle", "locate", "write"}
  /\ q.pc # "idle" =>
       /\ q.dto \in Dto /\ q.orders \in Tours /\ q.courier \in Couriers \cup {None}
       /\ q.options \in Options /\ q.rows \in [Orders -> OrderRow]
       /\ IF q.op = "edit"
          THEN /\ q.base # None /\ RouteFits(q.base) /\ q.orders = Or(q.dto.orders, q.base.points)
               /\ q.options = BuildUpdatedRouteOptions(q.base.options, q.dto)
               /\ ~q.stale => q.base = row
          ELSE q.op \in {"build", "preview"} /\ q.base = None /\ q.dto.date # Kept /\ q.options = BuildProviderOptions(q.dto)
  /\ q.pc = "write" => q.op # "preview" /\ PlanFits(q)

PlanningInv ==
  /\ order \in [Orders -> OrderRow] /\ at \in [Couriers -> Spots \cup {None}]
  /\ route # None => RouteFits(route)
  /\ DOMAIN job = Planners /\ \A p \in Planners : PlanRequestFits(job[p], route)

-----------------------------------------------------------------------------
(* The provider's part: the order of the points and their times.           *)

\* A computation of n steps, in V, from a.
Runs(f, n, V, a, step) ==
  f \in [0 .. n -> V] /\ f[0] = a /\ \A i \in 1 .. n : f[i] = step[i][f[i - 1]]

LEMMA Recursion ==
  ASSUME NEW V, NEW a \in V, NEW step \in [Nat -> [V -> V]]
  PROVE  \A n \in Nat : \E f : Runs(f, n, V, a, step)
  <1> DEFINE Run(n, f) == Runs(f, n, V, a, step)
             T == {n \in Nat : \E f : Run(n, f)}
  <1>1. 0 \in T
    <2>1. Run(0, [i \in 0 .. 0 |-> a])
      BY DEF Runs
    <2> HIDE DEF Run
    <2> QED BY <2>1
  <1>2. ASSUME NEW n \in Nat, n \in T
        PROVE  n + 1 \in T
    <2>1. PICK f : Run(n, f)
      BY <1>2
    <2> DEFINE g == [i \in 0 .. n + 1 |-> IF i = n + 1 THEN step[n + 1][f[n]] ELSE f[i]]
    <2>2. n \in 0 .. n /\ f[n] \in V /\ step[n + 1][f[n]] \in V
      BY <2>1 DEF Runs
    <2>3. \A i \in 0 .. n + 1 : i # n + 1 => i \in 0 .. n
      OBVIOUS
    <2>4. g \in [0 .. n + 1 -> V]
      BY <2>1, <2>2, <2>3 DEF Runs
    <2>5. g[n + 1] = step[n + 1][f[n]] /\ \A i \in 0 .. n : g[i] = f[i]
      OBVIOUS
    <2> HIDE DEF g
    <2>6. ASSUME NEW i \in 1 .. n + 1
          PROVE  g[i] = step[i][g[i - 1]]
      <3>1. CASE i = n + 1
        <4>1. g[i - 1] = f[n]
          BY <2>5, <3>1
        <4> QED BY <2>5, <3>1, <4>1
      <3>2. CASE i # n + 1
        <4>1. i \in 1 .. n /\ i \in 0 .. n /\ i - 1 \in 0 .. n
          BY <3>2
        <4> QED BY <2>1, <2>5, <4>1 DEF Runs
      <3> QED BY <3>1, <3>2
    <2>7. g[0] = a
      BY <2>1, <2>5 DEF Runs
    <2>8. Run(n + 1, g)
      BY <2>4, <2>6, <2>7 DEF Runs
    <2> HIDE DEF Run
    <2> QED BY <2>8
  <1> HIDE DEF T
  <1>3. \A n \in Nat : n \in T
    BY <1>1, <1>2, Induction
  <1> QED BY <1>3 DEF T

\* The recursion of BuildStops.
Reaches(reached, ordered, departs, legs) ==
  reached = [i \in DOMAIN ordered |->
               IF i = 1 THEN departs
               ELSE reached[i - 1] + (IF i - 1 > Len(legs) THEN 0 ELSE legs[i - 1])]

LEMMA StopsRise ==
  ASSUME NEW ordered, Len(ordered) \in Nat \ {0}, DOMAIN ordered = 1 .. Len(ordered),
         NEW departs \in Nat, NEW legs, Len(legs) \in Nat, \A i \in 1 .. Len(legs) : legs[i] \in Nat,
         NEW stops, stops = BuildStops(ordered, departs, legs)
  PROVE  /\ \A i \in 1 .. Len(ordered) : stops[i] \in Nat
         /\ \A i \in 1 .. Len(ordered) - 1 : stops[i] <= stops[i + 1]
         /\ stops[1] = departs
  <1> DEFINE N == Len(ordered)
             step == [i \in Nat |-> [t \in Nat |-> t + (IF i \in 1 .. Len(legs) THEN legs[i] ELSE 0)]]
  <1>1. step \in [Nat -> [Nat -> Nat]]
    OBVIOUS
  <1>2. \A i \in Nat, t \in Nat : step[i][t] = t + (IF i \in 1 .. Len(legs) THEN legs[i] ELSE 0)
    OBVIOUS
  <1> HIDE DEF step
  <1>3. PICK f \in [0 .. N -> Nat] :
          f[0] = departs /\ \A i \in 1 .. N : f[i] = step[i][f[i - 1]]
    <2>1. \E f : Runs(f, N, Nat, departs, step)
      BY <1>1, Recursion
    <2> QED BY <2>1 DEF Runs
  <1> DEFINE g == [i \in DOMAIN ordered |-> f[i - 1]]
  <1>4. \A i \in 1 .. N : g[i] = f[i - 1]
    OBVIOUS
  <1>5. \A i \in 1 .. N : i # 1 => g[i] = g[i - 1] + (IF i - 1 > Len(legs) THEN 0 ELSE legs[i - 1])
    <2> SUFFICES ASSUME NEW i \in 1 .. N, i # 1
                 PROVE  g[i] = g[i - 1] + (IF i - 1 > Len(legs) THEN 0 ELSE legs[i - 1])
      OBVIOUS
    <2>1. i - 1 \in 1 .. N /\ i - 1 \in Nat /\ (i - 1) - 1 \in 0 .. N
      OBVIOUS
    <2> DEFINE k == i - 1
               t == f[k - 1]
    <2>2. t \in Nat
      BY <1>3, <2>1
    <2>3. f[k] = step[k][t] /\ g[i] = f[k] /\ g[k] = t
      BY <1>3, <1>4, <2>1
    <2> HIDE DEF g, t
    <2>4. g[i] = t + (IF k \in 1 .. Len(legs) THEN legs[k] ELSE 0)
      BY <1>2, <2>1, <2>2, <2>3
    <2> QED BY <2>1, <2>2, <2>3, <2>4
  <1>6. g[1] = departs
    BY <1>3, <1>4
  <1>7. g = [i \in DOMAIN ordered |-> g[i]]
    OBVIOUS
  <1> HIDE DEF g
  <1>8. Reaches(g, ordered, departs, legs)
    BY <1>5, <1>6, <1>7 DEF Reaches
  <1> DEFINE reached == CHOOSE h : Reaches(h, ordered, departs, legs)
  <1>9. stops = reached
    BY DEF BuildStops, Reaches
  <1>10. Reaches(reached, ordered, departs, legs)
    BY <1>8
  <1> HIDE DEF reached
  <1>11. \A i \in 1 .. N :
           stops[i] = IF i = 1 THEN departs
                      ELSE stops[i - 1] + (IF i - 1 > Len(legs) THEN 0 ELSE legs[i - 1])
    BY <1>9, <1>10 DEF Reaches
  <1> DEFINE T == {n \in Nat : n + 1 \in 1 .. N => stops[n + 1] \in Nat}
  <1>12. 0 \in T
    BY <1>11
  <1>13. ASSUME NEW n \in Nat, n \in T PROVE n + 1 \in T
    BY <1>11, <1>13
  <1> HIDE DEF T
  <1>14. \A n \in Nat : n \in T
    BY <1>12, <1>13, Induction
  <1>15. ASSUME NEW i \in 1 .. N PROVE stops[i] \in Nat
    <2>1. i - 1 \in T
      BY <1>14
    <2> QED BY <2>1 DEF T
  <1>16. ASSUME NEW i \in 1 .. N - 1 PROVE stops[i] <= stops[i + 1]
    <2>1. i \in 1 .. N /\ i + 1 \in 1 .. N /\ (i + 1) - 1 = i
      OBVIOUS
    <2>2. stops[i] \in Nat
      BY <1>15, <2>1
    <2>3. stops[i + 1] = stops[i] + (IF i > Len(legs) THEN 0 ELSE legs[i])
      BY <1>11, <2>1
    <2> QED BY <2>1, <2>2, <2>3
  <1> QED BY <1>11, <1>15, <1>16

LEMMA Far == \A a, b \in Spots : Distance[a][b] \in Nat
  BY RoutePlanningAssumption

\* Points no two of which are the same, and where they are.
PointsFit(points, where) ==
  /\ points \in Seq(Elems(points)) /\ Once(points)
  /\ Len(points) \in Nat /\ DOMAIN points = 1 .. Len(points)
  /\ \A x \in Elems(points) : where[x] \in Spots

\* Every point visited so far was the nearest of those that were left.
VisitFits(v, n, points, where) ==
  /\ v \in Seq(Elems(points)) /\ Len(v) = n /\ Once(v) /\ v[1] = points[1]
  /\ \A k \in 2 .. n : \A x \in Elems(points) :
       (\A j \in 1 .. k - 1 : v[j] # x) =>
         Distance[where[v[k - 1]]][where[v[k]]] <= Distance[where[v[k - 1]]][where[x]]

\* There is always a nearest one, and of equally near ones a first.
LEMMA NearestFits ==
  ASSUME NEW points, NEW where, PointsFit(points, where),
         NEW n \in Nat, 1 <= n, n < Len(points),
         NEW v, VisitFits(v, n, points, where),
         NEW i, i = Nearest(points, where, v)
  PROVE  /\ i \in DOMAIN points /\ \A j \in 1 .. n : v[j] # points[i]
         /\ \A j \in DOMAIN points : (\A k \in 1 .. n : v[k] # points[j]) =>
              \/ Distance[where[v[n]]][where[points[i]]] < Distance[where[v[n]]][where[points[j]]]
              \/ /\ Distance[where[v[n]]][where[points[i]]] = Distance[where[v[n]]][where[points[j]]]
                 /\ i <= j
  <1> DEFINE far(x) == Distance[where[Last(v)]][where[points[x]]]
             left == {x \in DOMAIN points : ~Contains(v, points[x])}
  <1> USE DEF PointsFit
  <1>1. /\ v \in Seq(Elems(points)) /\ Len(v) = n /\ DOMAIN v = 1 .. n /\ Last(v) = v[n]
        /\ \A j \in 1 .. n : v[j] \in Elems(points)
    BY DEF VisitFits, Last
  <1>2. \A x : Contains(v, x) <=> \E j \in 1 .. n : v[j] = x
    BY <1>1 DEF Contains
  <1>3. left # {}
    <2>1. SUFFICES ASSUME \A x \in 1 .. Len(points) : \E j \in 1 .. n : v[j] = points[x]
                   PROVE  FALSE
      BY <1>2
    <2> DEFINE h == [x \in 1 .. Len(points) |-> CHOOSE j \in 1 .. n : v[j] = points[x]]
    <2>2. \A x \in 1 .. Len(points) : h[x] \in 1 .. n /\ v[h[x]] = points[x]
      BY <2>1
    <2>3. h \in [1 .. Len(points) -> 1 .. n]
      BY <2>2
    <2> HIDE DEF h
    <2>4. IsFiniteSet(1 .. Len(points)) /\ Cardinality(1 .. Len(points)) = Len(points)
          /\ IsFiniteSet(1 .. n) /\ Cardinality(1 .. n) = n
      <3>1. ASSUME NEW m \in Nat PROVE IsFiniteSet(1 .. m) /\ Cardinality(1 .. m) = m
        <4>1. 1 \in Int /\ m \in Int
          OBVIOUS
        <4>2. IsFiniteSet(1 .. m) /\ Cardinality(1 .. m) = IF 1 > m THEN 0 ELSE m - 1 + 1
          BY <4>1, FS_Interval
        <4> QED BY <4>2
      <3>2. Len(points) \in Nat
        BY DEF PointsFit
      <3> QED BY <3>1, <3>2
    <2>5. \E x, y \in 1 .. Len(points) : x # y /\ h[x] = h[y]
      BY <2>3, <2>4, FS_PigeonHole
    <2> QED BY <2>2, <2>5 DEF Once
  <1>4. \A x \in left : x \in DOMAIN points /\ far(x) \in Nat
    <2>1. \A x \in left : points[x] \in Elems(points)
      BY DEF Elems
    <2>2. where[Last(v)] \in Spots
      BY <1>1
    <2> QED BY <2>1, <2>2, Far
  <1> HIDE DEF left, far
  <1>5. PICK d \in {far(x) : x \in left} : \A e \in {far(x) : x \in left} : d <= e
    <2>1. {far(x) : x \in left} \subseteq Nat /\ {far(x) : x \in left} # {}
      BY <1>3, <1>4
    <2> QED BY <2>1, Smallest
  <1>6. PICK a \in {x \in left : far(x) = d} : \A b \in {x \in left : far(x) = d} : a <= b
    <2>1. {x \in left : far(x) = d} \subseteq Nat /\ {x \in left : far(x) = d} # {}
      BY <1>4, <1>5
    <2> QED BY <2>1, Smallest
  <1>7. a \in left /\ \A j \in left : far(a) < far(j) \/ (far(a) = far(j) /\ a <= j)
    <2>1. a \in left /\ far(a) = d /\ far(a) \in Nat
      BY <1>4, <1>6
    <2>2. ASSUME NEW j \in left PROVE far(a) < far(j) \/ (far(a) = far(j) /\ a <= j)
      <3>1. d <= far(j) /\ far(j) \in Nat
        BY <1>4, <1>5
      <3>2. CASE far(j) = d
        BY <1>6, <2>1, <3>2
      <3> QED BY <2>1, <3>1, <3>2
    <2> QED BY <2>1, <2>2
  <1>8. i = CHOOSE x \in left : \A j \in left : far(x) < far(j) \/ (far(x) = far(j) /\ x <= j)
    BY DEF Nearest, left, far
  <1>9. i \in left /\ \A j \in left : far(i) < far(j) \/ (far(i) = far(j) /\ i <= j)
    BY <1>7, <1>8
  <1> QED BY <1>1, <1>2, <1>9 DEF left, far

LEMMA VisitStep ==
  ASSUME NEW points, NEW where, PointsFit(points, where),
         NEW n \in Nat, 1 <= n, n < Len(points),
         NEW v, VisitFits(v, n, points, where)
  PROVE  VisitFits(Append(v, points[Nearest(points, where, v)]), n + 1, points, where)
  <1> DEFINE i == Nearest(points, where, v)
             p == points[i]
             w == Append(v, p)
  <1>0. i = Nearest(points, where, v)
    OBVIOUS
  <1> HIDE DEF i
  <1>1. /\ i \in DOMAIN points /\ \A j \in 1 .. n : v[j] # p
        /\ \A j \in DOMAIN points : (\A k \in 1 .. n : v[k] # points[j]) =>
             \/ Distance[where[v[n]]][where[p]] < Distance[where[v[n]]][where[points[j]]]
             \/ Distance[where[v[n]]][where[p]] = Distance[where[v[n]]][where[points[j]]]
    BY <1>0, NearestFits
  <1>2. p \in Elems(points)
    BY <1>1 DEF Elems
  <1> USE DEF PointsFit
  <1> HIDE DEF p
  <1>2a. /\ v \in Seq(Elems(points)) /\ Len(v) = n
         /\ DOMAIN v = 1 .. n /\ \A j \in 1 .. n : v[j] \in Elems(points)
    BY DEF VisitFits
  <1>3. /\ Once(v) /\ v[1] = points[1]
        /\ \A k \in 2 .. n : \A x \in Elems(points) :
             (\A j \in 1 .. k - 1 : v[j] # x) =>
               Distance[where[v[k - 1]]][where[v[k]]] <= Distance[where[v[k - 1]]][where[x]]
    BY DEF VisitFits
  <1>4. /\ w \in Seq(Elems(points)) /\ Len(w) = n + 1 /\ DOMAIN w = 1 .. n + 1
        /\ \A k \in 1 .. n : w[k] = v[k]
        /\ w[n + 1] = p
    BY <1>2, <1>2a, AppendProperties
  <1> HIDE DEF w
  <1>5. Once(w)
    <2>1. SUFFICES ASSUME NEW a \in 1 .. n + 1, NEW b \in 1 .. n + 1, w[a] = w[b]
                   PROVE  a = b
      BY <1>4 DEF Once
    <2>2. \A k \in 1 .. n + 1 : k = n + 1 \/ k \in 1 .. n
      OBVIOUS
    <2>3. CASE a \in 1 .. n /\ b \in 1 .. n
      BY <1>2a, <1>3, <1>4, <2>1, <2>3 DEF Once
    <2>4. CASE a = n + 1 /\ b \in 1 .. n
      BY <1>1, <1>4, <2>1, <2>4
    <2>5. CASE a \in 1 .. n /\ b = n + 1
      BY <1>1, <1>4, <2>1, <2>5
    <2> QED BY <2>2, <2>3, <2>4, <2>5
  <1>6. ASSUME NEW k \in 2 .. n + 1, NEW x \in Elems(points), \A j \in 1 .. k - 1 : w[j] # x
        PROVE  Distance[where[w[k - 1]]][where[w[k]]] <= Distance[where[w[k - 1]]][where[x]]
    <2>1. CASE k = n + 1
      <3>1. k - 1 = n /\ n \in 1 .. n
        BY <2>1
      <3>2. \A j \in 1 .. n : v[j] # x
        BY <1>4, <1>6, <3>1
      <3>3. PICK j \in DOMAIN points : x = points[j]
        BY DEF Elems
      <3>4. /\ Distance[where[v[n]]][where[p]] \in Nat
            /\ Distance[where[v[n]]][where[x]] \in Nat
        BY <1>2, <1>2a, <3>1, Far
      <3>5. Distance[where[v[n]]][where[p]] <= Distance[where[v[n]]][where[x]]
        BY <1>1, <3>2, <3>3, <3>4
      <3> QED BY <1>4, <2>1, <3>1, <3>5
    <2>2. CASE k \in 2 .. n
      <3>1. /\ w[k - 1] = v[k - 1] /\ w[k] = v[k]
            /\ \A j \in 1 .. k - 1 : j \in 1 .. n
        BY <1>4, <2>2
      <3>2. \A j \in 1 .. k - 1 : v[j] # x
        BY <1>4, <1>6, <3>1
      <3> QED BY <1>3, <2>2, <3>1, <3>2
    <2> QED BY <2>1, <2>2
  <1>7. w[1] = points[1]
    BY <1>3, <1>4
  <1> QED BY <1>4, <1>5, <1>6, <1>7 DEF VisitFits, w, p, i

\* The recursion of OrderRoutePoints.
Visits(visit, n, points, where) ==
  visit = [k \in 1 .. n |->
             IF k = 1 THEN << points[1] >>
             ELSE Append(visit[k - 1], points[Nearest(points, where, visit[k - 1])])]

LEMMA VisitsExists ==
  ASSUME NEW points, NEW where
  PROVE  \A n \in Nat : \E visit : Visits(visit, n, points, where)
  <1> DEFINE T == {n \in Nat : \E visit : Visits(visit, n, points, where)}
             next(v) == Append(v, points[Nearest(points, where, v)])
  <1>1. 0 \in T
    <2>1. Visits([k \in 1 .. 0 |-> << points[1] >>], 0, points, where)
      BY DEF Visits
    <2> QED BY <2>1
  <1>2. ASSUME NEW n \in Nat, n \in T
        PROVE  n + 1 \in T
    <2>1. PICK g : Visits(g, n, points, where)
      BY <1>2
    <2> DEFINE last == IF n = 0 THEN << points[1] >> ELSE next(g[n])
               h == [k \in 1 .. n + 1 |-> IF k = n + 1 THEN last ELSE g[k]]
    <2>2. h[n + 1] = last /\ \A k \in 1 .. n : h[k] = g[k]
      OBVIOUS
    <2>3. \A k \in 1 .. n : g[k] = IF k = 1 THEN << points[1] >> ELSE next(g[k - 1])
      BY <2>1 DEF Visits
    <2>4. h = [k \in 1 .. n + 1 |-> h[k]]
      OBVIOUS
    <2> HIDE DEF h, next
    <2>5. ASSUME NEW k \in 1 .. n + 1
          PROVE  h[k] = IF k = 1 THEN << points[1] >> ELSE next(h[k - 1])
      <3>1. CASE k = n + 1
        <4>1. CASE n = 0
          BY <2>2, <3>1, <4>1
        <4>2. CASE n # 0
          <5>1. k # 1 /\ k - 1 = n /\ n \in 1 .. n
            BY <3>1, <4>2
          <5>2. h[k - 1] = g[n]
            BY <2>2, <5>1
          <5> QED BY <2>2, <3>1, <4>2, <5>1, <5>2
        <4> QED BY <4>1, <4>2
      <3>2. CASE k # n + 1
        <4>1. k \in 1 .. n /\ (k # 1 => k - 1 \in 1 .. n)
          BY <3>2
        <4>2. h[k] = g[k] /\ (k # 1 => h[k - 1] = g[k - 1])
          BY <2>2, <4>1
        <4> QED BY <2>3, <4>1, <4>2
      <3> QED BY <3>1, <3>2
    <2>6. Visits(h, n + 1, points, where)
      BY <2>4, <2>5 DEF Visits, next
    <2> QED BY <2>6
  <1> HIDE DEF T
  <1>3. \A n \in Nat : n \in T
    BY <1>1, <1>2, Induction
  <1> QED BY <1>3 DEF T

\* The points along an order, each the nearest of those that come after it or is it.
GreedyAlong(s, where) ==
  \A n \in 2 .. Len(s) : \A m \in n .. Len(s) :
    Distance[where[s[n - 1]]][where[s[n]]] <= Distance[where[s[n - 1]]][where[s[m]]]

\* The points as they are visited.
Visiting(visit, points, where) ==
  /\ OrderRoutePoints(points, where, TRUE) = visit[Len(points)]
  /\ visit[1] = << points[1] >>
  /\ \A n \in 1 .. Len(points) - 1 :
       visit[n + 1] = Append(visit[n], points[Nearest(points, where, visit[n])])

LEMMA VisitsUnfold ==
  ASSUME NEW points, NEW where, PointsFit(points, where), Len(points) >= 3
  PROVE  \E visit : Visiting(visit, points, where)
  <1> DEFINE visit == CHOOSE v : Visits(v, Len(points), points, where)
             next(v) == Append(v, points[Nearest(points, where, v)])
  <1>1. OrderRoutePoints(points, where, TRUE) = visit[Len(points)]
    BY DEF OrderRoutePoints, Visits, PointsFit
  <1>2. Len(points) \in Nat
    BY DEF PointsFit
  <1>3. \E v : Visits(v, Len(points), points, where)
    BY <1>2, VisitsExists
  <1>4. Visits(visit, Len(points), points, where)
    BY <1>3
  <1> HIDE DEF visit
  <1>5. \A k \in 1 .. Len(points) :
          visit[k] = IF k = 1 THEN << points[1] >> ELSE next(visit[k - 1])
    BY <1>4 DEF Visits
  <1> HIDE DEF next
  <1>6. \A n \in 1 .. Len(points) - 1 :
          n + 1 \in 1 .. Len(points) /\ n + 1 # 1 /\ (n + 1) - 1 = n
    BY <1>2
  <1>7. \A n \in 1 .. Len(points) - 1 : visit[n + 1] = next(visit[n])
    BY <1>5, <1>6
  <1>8. visit[1] = << points[1] >>
    BY <1>2, <1>5
  <1> QED BY <1>1, <1>7, <1>8 DEF next, Visiting

\* Optimizing visits every point once, from the first one, always the nearest next.
LEMMA OptimizedFits ==
  ASSUME NEW points, NEW where, PointsFit(points, where), Len(points) >= 3,
         NEW ordered, ordered = OrderRoutePoints(points, where, TRUE)
  PROVE  VisitFits(ordered, Len(points), points, where)
  <1>1. PICK visit : Visiting(visit, points, where)
    BY VisitsUnfold
  <1> DEFINE T == {n \in Nat : n + 1 <= Len(points) => VisitFits(visit[n + 1], n + 1, points, where)}
  <1>2. Len(points) \in Nat /\ 1 \in DOMAIN points
    BY DEF PointsFit
  <1>3. 0 \in T
    <2>1. points[1] \in Elems(points)
      BY <1>2 DEF Elems
    <2>2. VisitFits(<< points[1] >>, 1, points, where)
      BY <2>1 DEF VisitFits, Once
    <2>3. visit[1] = << points[1] >>
      BY <1>1 DEF Visiting
    <2>4. VisitFits(visit[0 + 1], 0 + 1, points, where)
      BY <2>2, <2>3
    <2> QED BY <2>4
  <1>4. ASSUME NEW n \in Nat, n \in T
        PROVE  n + 1 \in T
    <2>1. SUFFICES ASSUME (n + 1) + 1 <= Len(points)
                   PROVE  VisitFits(visit[(n + 1) + 1], (n + 1) + 1, points, where)
      OBVIOUS
    <2>2. VisitFits(visit[n + 1], n + 1, points, where)
      BY <1>2, <1>4, <2>1
    <2>3. n + 1 \in 1 .. Len(points) - 1 /\ n + 1 \in Nat /\ 1 <= n + 1 /\ n + 1 < Len(points)
      BY <1>2, <2>1
    <2> QED BY <1>1, <2>2, <2>3, VisitStep DEF Visiting
  <1> HIDE DEF T
  <1>5. \A n \in Nat : n \in T
    BY <1>3, <1>4, Induction
  <1>6. Len(points) - 1 \in T /\ (Len(points) - 1) + 1 = Len(points)
    BY <1>2, <1>5
  <1>7. VisitFits(visit[(Len(points) - 1) + 1], (Len(points) - 1) + 1, points, where)
    BY <1>2, <1>6 DEF T
  <1> QED BY <1>1, <1>6, <1>7 DEF Visiting

\* What has been put in order stays as it is.
LEMMA OptimizedStays ==
  ASSUME NEW points, NEW where, PointsFit(points, where), Len(points) >= 3,
         GreedyAlong(points, where)
  PROVE  OrderRoutePoints(points, where, TRUE) = points
  <1>1. PICK visit : Visiting(visit, points, where)
    BY VisitsUnfold
  <1> DEFINE Prefix(v, n) == VisitFits(v, n, points, where) /\ \A j \in 1 .. n : v[j] = points[j]
             T == {n \in Nat : n + 1 <= Len(points) => Prefix(visit[n + 1], n + 1)}
  <1>2. /\ Len(points) \in Nat /\ DOMAIN points = 1 .. Len(points) /\ Once(points)
        /\ \A x \in Elems(points) : where[x] \in Spots
    BY DEF PointsFit
  <1>3. 0 \in T
    <2>1. points[1] \in Elems(points)
      BY <1>2 DEF Elems
    <2>2. Prefix(<< points[1] >>, 1)
      BY <2>1 DEF VisitFits, Once
    <2> QED BY <1>1, <2>2 DEF Visiting
  <1>4. ASSUME NEW n \in Nat, 1 <= n, n < Len(points), NEW v, Prefix(v, n)
        PROVE  Prefix(Append(v, points[Nearest(points, where, v)]), n + 1)
    <2> DEFINE i == Nearest(points, where, v)
               w == Append(v, points[i])
    <2>1. VisitFits(w, n + 1, points, where)
      BY <1>4, VisitStep
    <2>2. i = Nearest(points, where, v)
      OBVIOUS
    <2> HIDE DEF i
    <2>3. /\ i \in DOMAIN points /\ \A j \in 1 .. n : v[j] # points[i]
          /\ \A j \in DOMAIN points : (\A k \in 1 .. n : v[k] # points[j]) =>
               \/ Distance[where[v[n]]][where[points[i]]] < Distance[where[v[n]]][where[points[j]]]
               \/ /\ Distance[where[v[n]]][where[points[i]]] = Distance[where[v[n]]][where[points[j]]]
                  /\ i <= j
      BY <1>4, <2>2, NearestFits
    <2>4. n \in 1 .. n /\ n + 1 \in DOMAIN points /\ \A k \in 1 .. n : v[k] = points[k] /\ k \in DOMAIN points
      BY <1>2, <1>4
    <2>5. \A k \in 1 .. n : v[k] # points[n + 1]
      BY <1>2, <2>4 DEF Once
    <2>6. i \notin 1 .. n
      BY <2>3, <2>4
    <2>7. n + 1 \in 2 .. Len(points) /\ i \in n + 1 .. Len(points) /\ (n + 1) - 1 = n
      BY <1>2, <1>4, <2>3, <2>6
    <2>8. Distance[where[points[n]]][where[points[n + 1]]] <= Distance[where[points[n]]][where[points[i]]]
      BY <2>7 DEF GreedyAlong
    <2>9. /\ Distance[where[points[n]]][where[points[n + 1]]] \in Nat
          /\ Distance[where[points[n]]][where[points[i]]] \in Nat
      <3>1. points[n] \in Elems(points) /\ points[n + 1] \in Elems(points) /\ points[i] \in Elems(points)
        BY <2>3, <2>4 DEF Elems
      <3> QED BY <1>2, <3>1, Far
    <2>10. i = n + 1
      <3> DEFINE near == Distance[where[points[n]]][where[points[i]]]
                 next == Distance[where[points[n]]][where[points[n + 1]]]
      <3>1. \/ Distance[where[v[n]]][where[points[i]]] < Distance[where[v[n]]][where[points[n + 1]]]
            \/ /\ Distance[where[v[n]]][where[points[i]]] = Distance[where[v[n]]][where[points[n + 1]]]
               /\ i <= n + 1
        BY <2>3, <2>4, <2>5
      <3>2. v[n] = points[n]
        BY <2>4
      <3>3. near < next \/ (near = next /\ i <= n + 1)
        BY <3>1, <3>2
      <3>4. next <= near /\ near \in Nat /\ next \in Nat
        BY <2>8, <2>9
      <3> HIDE DEF near, next
      <3> QED BY <2>7, <3>3, <3>4
    <2>11. v \in Seq(Elems(points)) /\ Len(v) = n /\ points[i] \in Elems(points)
      BY <1>4, <2>3 DEF VisitFits, Elems
    <2>12. (\A k \in 1 .. n : w[k] = v[k]) /\ w[n + 1] = points[i]
      BY <2>11, AppendProperties
    <2> HIDE DEF w
    <2>13. \A j \in 1 .. n + 1 : w[j] = points[j]
      <3>1. \A j \in 1 .. n + 1 : j \in 1 .. n \/ j = n + 1
        OBVIOUS
      <3> QED BY <2>4, <2>10, <2>12, <3>1
    <2> QED BY <2>1, <2>13 DEF w, i
  <1> HIDE DEF Prefix
  <1>5. ASSUME NEW n \in Nat, n \in T
        PROVE  n + 1 \in T
    <2>1. SUFFICES ASSUME (n + 1) + 1 <= Len(points)
                   PROVE  Prefix(visit[(n + 1) + 1], (n + 1) + 1)
      OBVIOUS
    <2>2. Prefix(visit[n + 1], n + 1)
      BY <1>2, <1>5, <2>1
    <2>3. n + 1 \in 1 .. Len(points) - 1 /\ n + 1 \in Nat /\ 1 <= n + 1 /\ n + 1 < Len(points)
      BY <1>2, <2>1
    <2> QED BY <1>1, <1>4, <2>2, <2>3 DEF Visiting
  <1> HIDE DEF T
  <1>6. \A n \in Nat : n \in T
    BY <1>3, <1>5, Induction
  <1>7. Len(points) - 1 \in T /\ (Len(points) - 1) + 1 = Len(points)
    BY <1>2, <1>6
  <1>8. Prefix(visit[Len(points)], Len(points))
    BY <1>2, <1>7 DEF T
  <1>9. /\ visit[Len(points)] \in Seq(Elems(points)) /\ Len(visit[Len(points)]) = Len(points)
        /\ \A j \in 1 .. Len(points) : visit[Len(points)][j] = points[j]
    BY <1>8 DEF Prefix, VisitFits
  <1> QED BY <1>1, <1>9, SeqEqual DEF PointsFit, Visiting

\* What OrderRoutePoints returns.
LEMMA OrderFits ==
  ASSUME NEW points, NEW where, PointsFit(points, where), Len(points) >= 1,
         NEW optimize \in BOOLEAN,
         NEW ordered, ordered = OrderRoutePoints(points, where, optimize)
  PROVE  /\ ordered \in Seq(Elems(points)) /\ Len(ordered) = Len(points) /\ Once(ordered)
         /\ ordered[1] = points[1]
         /\ optimize => GreedyAlong(ordered, where)
         /\ ~optimize => ordered = points
         /\ GreedyAlong(points, where) => ordered = points
  <1>1. /\ points \in Seq(Elems(points)) /\ Len(points) \in Nat /\ DOMAIN points = 1 .. Len(points)
        /\ Once(points) /\ \A x \in Elems(points) : where[x] \in Spots
    BY DEF PointsFit
  <1>2. CASE ~optimize \/ Len(points) < 3
    <2>1. ordered = points
      BY <1>2 DEF OrderRoutePoints
    <2>2. ASSUME Len(points) < 3 PROVE GreedyAlong(points, where)
      <3>1. SUFFICES ASSUME NEW n \in 2 .. Len(points), NEW m \in n .. Len(points)
                     PROVE  Distance[where[points[n - 1]]][where[points[n]]]
                              <= Distance[where[points[n - 1]]][where[points[m]]]
        BY DEF GreedyAlong
      <3>2. m = n /\ n - 1 \in DOMAIN points /\ n \in DOMAIN points
        BY <1>1, <2>2
      <3>3. points[n - 1] \in Elems(points) /\ points[n] \in Elems(points)
        BY <3>2 DEF Elems
      <3>4. Distance[where[points[n - 1]]][where[points[n]]] \in Nat
        BY <1>1, <3>3, Far
      <3> QED BY <3>2, <3>4
    <2> QED BY <1>1, <1>2, <2>1, <2>2
  <1>3. CASE optimize /\ Len(points) >= 3
    <2>1. ordered = OrderRoutePoints(points, where, TRUE)
      BY <1>3
    <2>2. VisitFits(ordered, Len(points), points, where)
      BY <1>3, <2>1, OptimizedFits
    <2>3. /\ ordered \in Seq(Elems(points)) /\ Len(ordered) = Len(points) /\ Once(ordered)
          /\ ordered[1] = points[1]
      BY <2>2 DEF VisitFits
    <2>4. DOMAIN ordered = 1 .. Len(points) /\ \A k \in 1 .. Len(points) : ordered[k] \in Elems(points)
      BY <1>1, <2>3
    <2>5. ASSUME NEW n \in 2 .. Len(ordered), NEW m \in n .. Len(ordered)
          PROVE  Distance[where[ordered[n - 1]]][where[ordered[n]]]
                   <= Distance[where[ordered[n - 1]]][where[ordered[m]]]
      <3>1. m \in DOMAIN ordered /\ n \in 2 .. Len(points) /\ \A j \in 1 .. n - 1 : j \in DOMAIN ordered /\ j # m
        BY <1>1, <2>3, <2>4
      <3>2. \A j \in 1 .. n - 1 : ordered[j] # ordered[m]
        BY <2>3, <3>1 DEF Once
      <3>3. ordered[m] \in Elems(points)
        BY <2>4, <3>1
      <3> QED BY <2>2, <3>1, <3>2, <3>3 DEF VisitFits
    <2>6. GreedyAlong(points, where) => ordered = points
      BY <1>3, <2>1, OptimizedStays
    <2> QED BY <1>3, <2>3, <2>5, <2>6 DEF GreedyAlong
  <1> QED BY <1>1, <1>2, <1>3

-----------------------------------------------------------------------------
(* The courier, if there is one, and the orders.                           *)

\* How many points come before the first order.
Ahead(seen) == IF seen = None THEN 0 ELSE 1

LEMMA ProviderPointsAre ==
  ASSUME NEW tour, NEW P, tour \in Seq(P), NEW courier, NEW seen, seen # None => courier \in P,
         NEW points, points = ProviderPoints(tour, courier, seen)
  PROVE  /\ points \in Seq(P) /\ Len(tour) \in Nat /\ Len(points) = Len(tour) + Ahead(seen)
         /\ DOMAIN points = 1 .. Len(tour) + Ahead(seen)
         /\ \A i \in 1 .. Len(tour) : points[i + Ahead(seen)] = tour[i]
         /\ seen # None => points[1] = courier
  <1>1. Len(tour) \in Nat /\ DOMAIN tour = 1 .. Len(tour)
    OBVIOUS
  <1>2. CASE seen = None
    BY <1>1, <1>2 DEF ProviderPoints, Ahead
  <1>3. CASE seen # None
    <2> DEFINE c == << courier >>
    <2>1. c \in Seq(P) /\ Len(c) = 1 /\ c[1] = courier
      BY <1>3
    <2>2. points = c \o tour
      BY <1>3 DEF ProviderPoints
    <2> HIDE DEF c
    <2>3. /\ points \in Seq(P) /\ Len(points) = 1 + Len(tour)
          /\ \A i \in 1 .. 1 + Len(tour) : points[i] = IF i <= 1 THEN c[i] ELSE tour[i - 1]
      <3>1. /\ c \o tour \in Seq(P) /\ Len(c \o tour) = Len(c) + Len(tour)
            /\ \A i \in 1 .. Len(c) + Len(tour) :
                 (c \o tour)[i] = IF i <= Len(c) THEN c[i] ELSE tour[i - Len(c)]
        BY <2>1, ConcatProperties
      <3> QED BY <2>1, <2>2, <3>1
    <2>4. \A i \in 1 .. Len(tour) : i + 1 \in 1 .. 1 + Len(tour) /\ ~(i + 1 <= 1) /\ (i + 1) - 1 = i
      BY <1>1
    <2>5. \A i \in 1 .. Len(tour) : points[i + 1] = tour[i]
      BY <2>3, <2>4
    <2>6. points[1] = courier
      BY <1>1, <2>1, <2>3
    <2> QED BY <1>1, <1>3, <2>3, <2>5, <2>6 DEF Ahead
  <1> QED BY <1>2, <1>3

\* The orders among the points are the orders, in their order.
LEMMA OnlyOrders ==
  ASSUME NEW tour \in Seq(Orders), NEW courier, NEW seen, seen # None => courier \notin Orders
  PROVE  Only(ProviderPoints(tour, courier, seen), Orders) = tour
  <1> DEFINE points == ProviderPoints(tour, courier, seen)
             d == Ahead(seen)
             N == Len(tour)
  <1>1. /\ Len(points) = N + d /\ N \in Nat /\ d \in {0, 1}
        /\ \A i \in 1 .. N : points[i + d] = tour[i] /\ tour[i] \in Orders
        /\ d = 1 => points[1] \notin Orders
    <2>1. tour \in Seq(Orders \cup {courier})
      OBVIOUS
    <2> QED BY <2>1, ProviderPointsAre DEF Ahead
  <1> HIDE DEF points, d, N
  <1>2. PICK kept : Keeps(kept, points, Orders, Len(points)) /\ Only(points, Orders) = kept[Len(points)]
    BY <1>1, OnlyUnfolds
  <1>3. /\ kept[0] = << >>
        /\ \A i \in 1 .. N + d :
             kept[i] = IF points[i] \in Orders THEN Append(kept[i - 1], points[i]) ELSE kept[i - 1]
    <2>1. \A i \in 0 .. N + d :
            kept[i] = IF i = 0 THEN << >>
                      ELSE IF points[i] \in Orders THEN Append(kept[i - 1], points[i]) ELSE kept[i - 1]
      BY <1>1, <1>2 DEF Keeps
    <2>2. 0 \in 0 .. N + d /\ \A i \in 1 .. N + d : i \in 0 .. N + d /\ i # 0
      BY <1>1
    <2> QED BY <2>1, <2>2
  <1> DEFINE Prefix(s, n) == s \in Seq(Orders) /\ Len(s) = n /\ \A i \in 1 .. n : s[i] = tour[i]
             T == {n \in Nat : n <= N => Prefix(kept[n + d], n)}
  <1>4. 0 \in T
    <2>1. kept[d] = << >>
      <3>1. CASE d = 0
        BY <1>3, <3>1
      <3>2. CASE d = 1
        <4>1. 1 \in 1 .. N + d /\ 1 - 1 = 0
          BY <1>1, <3>2
        <4> QED BY <1>1, <1>3, <3>2, <4>1
      <3> QED BY <1>1, <3>1, <3>2
    <2>2. Prefix(<< >>, 0) /\ 0 + d = d
      BY <1>1
    <2> QED BY <2>1, <2>2
  <1>5. ASSUME NEW n \in Nat, n \in T PROVE n + 1 \in T
    <2>1. SUFFICES ASSUME n + 1 <= N PROVE Prefix(kept[(n + 1) + d], n + 1)
      OBVIOUS
    <2>2. Prefix(kept[n + d], n)
      BY <1>1, <1>5, <2>1
    <2>3. n + 1 \in 1 .. N /\ (n + 1) + d \in 1 .. N + d /\ ((n + 1) + d) - 1 = n + d
      BY <1>1, <2>1
    <2>4. points[(n + 1) + d] = tour[n + 1] /\ tour[n + 1] \in Orders
      BY <1>1, <2>3
    <2>5. kept[(n + 1) + d] = Append(kept[n + d], tour[n + 1])
      BY <1>3, <2>3, <2>4
    <2>6. /\ Append(kept[n + d], tour[n + 1]) \in Seq(Orders)
          /\ Len(Append(kept[n + d], tour[n + 1])) = n + 1
          /\ \A i \in 1 .. n : Append(kept[n + d], tour[n + 1])[i] = tour[i]
          /\ Append(kept[n + d], tour[n + 1])[n + 1] = tour[n + 1]
      BY <2>2, <2>4, AppendProperties
    <2>7. \A i \in 1 .. n + 1 : i \in 1 .. n \/ i = n + 1
      OBVIOUS
    <2> QED BY <2>5, <2>6, <2>7
  <1> HIDE DEF T
  <1>6. \A n \in Nat : n \in T
    BY <1>4, <1>5, Induction
  <1>7. kept[N + d] \in Seq(Orders) /\ Len(kept[N + d]) = N /\ \A i \in 1 .. N : kept[N + d][i] = tour[i]
    <2>1. N \in T
      BY <1>1, <1>6
    <2>2. N <= N => Prefix(kept[N + d], N)
      BY <2>1 DEF T
    <2> QED BY <1>1, <2>2
  <1>8. kept[N + d] = tour
    BY <1>7, SeqEqual DEF N
  <1> QED BY <1>1, <1>2, <1>8 DEF points

LEMMA PointsOnce ==
  ASSUME NEW tour \in Tours, NEW courier, NEW seen, seen # None => courier \in Couriers
  PROVE  Once(ProviderPoints(tour, courier, seen))
  <1> DEFINE points == ProviderPoints(tour, courier, seen)
             d == Ahead(seen)
  <1>1. tour \in Seq(Orders) /\ Once(tour) /\ DOMAIN tour = 1 .. Len(tour) /\ Len(tour) \in Nat
    BY DEF Tours
  <1>2. /\ DOMAIN points = 1 .. Len(tour) + d /\ d \in {0, 1}
        /\ \A i \in 1 .. Len(tour) : points[i + d] = tour[i] /\ tour[i] \in Orders
        /\ d = 1 => points[1] \notin Orders
    <2>1. tour \in Seq(Orders \cup {courier})
      BY <1>1
    <2>2. seen # None => courier \notin Orders
      BY RoutePlanningAssumption
    <2> QED BY <1>1, <2>1, <2>2, ProviderPointsAre DEF Ahead
  <1> HIDE DEF points, d
  <1>3. \A i \in DOMAIN points : \/ i - d \in 1 .. Len(tour) /\ points[i] = tour[i - d]
                                 \/ d = 1 /\ i = 1
    <2> TAKE i \in DOMAIN points
    <2>1. CASE i - d \in 1 .. Len(tour)
      <3>1. (i - d) + d = i
        BY <1>2
      <3> QED BY <1>2, <2>1, <3>1
    <2>2. CASE i - d \notin 1 .. Len(tour)
      BY <1>1, <1>2, <2>2
    <2> QED BY <2>1, <2>2
  <1>4. ASSUME NEW i \in DOMAIN points, NEW j \in DOMAIN points, points[i] = points[j]
        PROVE  i = j
    <2>1. CASE i - d \in 1 .. Len(tour) /\ j - d \in 1 .. Len(tour)
      <3>1. i \in Int /\ j \in Int
        BY <1>2
      <3>2. points[i] = tour[i - d] /\ points[j] = tour[j - d]
        <4>1. (i - d) + d = i /\ (j - d) + d = j
          BY <1>2, <3>1
        <4> QED BY <1>2, <2>1, <4>1
      <3>3. i - d = j - d
        BY <1>1, <1>4, <2>1, <3>2 DEF Once
      <3> QED BY <1>2, <3>1, <3>3
    <2>2. CASE i - d \notin 1 .. Len(tour) \/ j - d \notin 1 .. Len(tour)
      <3>1. \A k \in 1 .. Len(tour) : tour[k] # points[1] \/ d # 1
        BY <1>2
      <3> QED BY <1>3, <1>4, <2>2, <3>1
    <2> QED BY <2>1, <2>2
  <1> QED BY <1>4 DEF Once, points

\* Points in another order that starts with the same are the courier and the orders again.
LEMMA PointsSplit ==
  ASSUME NEW tour \in Tours, NEW courier, NEW seen, seen # None => courier \in Couriers,
         NEW points, points = ProviderPoints(tour, courier, seen),
         NEW ordered \in Seq(Elems(points)), Len(ordered) = Len(points), Once(ordered),
         ordered[1] = points[1]
  PROVE  \E t \in Tours : ordered = ProviderPoints(t, courier, seen) /\ Elems(t) \subseteq Elems(tour)
  <1> DEFINE d == Ahead(seen)
             N == Len(tour)
             P == Orders \cup {courier}
             t == [i \in 1 .. N |-> ordered[i + d]]
  <1>1. /\ tour \in Seq(Orders) /\ Once(tour) /\ DOMAIN tour = 1 .. N /\ N \in Nat /\ N # 0
    BY DEF Tours
  <1>2. /\ points \in Seq(P) /\ Len(points) = N + d /\ DOMAIN points = 1 .. N + d /\ d \in {0, 1}
        /\ \A i \in 1 .. N : points[i + d] = tour[i]
        /\ d = 1 => points[1] = courier /\ courier \notin Orders
    <2>1. tour \in Seq(P)
      BY <1>1
    <2>2. seen # None => courier \notin Orders
      BY RoutePlanningAssumption
    <2> QED BY <2>1, <2>2, ProviderPointsAre DEF Ahead
  <1> HIDE DEF d
  <1>3. DOMAIN ordered = 1 .. N + d /\ \A i \in 1 .. N + d : ordered[i] \in Elems(points)
    BY <1>1, <1>2
  <1>4. ASSUME NEW x \in Elems(points)
        PROVE  x \in Elems(tour) \/ (d = 1 /\ x = courier)
    <2>1. PICK i \in 1 .. N + d : x = points[i]
      BY <1>2, <1>4 DEF Elems
    <2>2. CASE d = 1 /\ i = 1
      BY <1>2, <2>1, <2>2
    <2>3. CASE d = 0 \/ i # 1
      <3>1. i - d \in 1 .. N /\ (i - d) + d = i
        BY <1>1, <1>2, <2>1, <2>3
      <3>2. x = tour[i - d]
        BY <1>2, <2>1, <3>1
      <3> QED BY <1>1, <3>1, <3>2 DEF Elems
    <2> QED BY <1>2, <2>2, <2>3
  <1>5. ASSUME NEW i \in 1 .. N
        PROVE  i + d \in DOMAIN ordered /\ ordered[i + d] \in Elems(tour)
    <2>1. i + d \in DOMAIN ordered /\ ordered[i + d] \in Elems(points)
      BY <1>1, <1>2, <1>3
    <2>2. CASE d = 1
      <3>1. 1 \in DOMAIN ordered /\ i + d # 1
        BY <1>1, <1>3, <2>2
      <3>2. ordered[i + d] # courier
        BY <1>2, <2>1, <2>2, <3>1 DEF Once
      <3> QED BY <1>4, <2>1, <3>2
    <2>3. CASE d = 0
      BY <1>4, <2>1, <2>3
    <2> QED BY <1>2, <2>2, <2>3
  <1>6. /\ DOMAIN t = 1 .. N /\ \A i \in 1 .. N : t[i] = ordered[i + d]
    OBVIOUS
  <1>7. \A x \in Elems(tour) : x \in Orders
    BY <1>1 DEF Elems
  <1>8. t \in Seq(Orders) /\ Len(t) = N
    BY <1>1, <1>5, <1>7
  <1> HIDE DEF t
  <1>9. Once(t)
    <2>1. SUFFICES ASSUME NEW i \in 1 .. N, NEW j \in 1 .. N, t[i] = t[j] PROVE i = j
      BY <1>6 DEF Once
    <2>2. i + d = j + d
      BY <1>5, <1>6, <2>1 DEF Once
    <2> QED BY <1>2, <2>2
  <1>10. t \in Tours
    <2>1. t # << >>
      BY <1>1, <1>8
    <2> QED BY <1>8, <1>9, <2>1 DEF Tours
  <1>11. Elems(t) \subseteq Elems(tour)
    BY <1>5, <1>6 DEF Elems
  <1>12. ordered = ProviderPoints(t, courier, seen)
    <2> DEFINE u == ProviderPoints(t, courier, seen)
    <2>1. t \in Seq(P)
      BY <1>8
    <2>2. /\ u \in Seq(P) /\ Len(u) = N + d
          /\ \A i \in 1 .. N : u[i + d] = t[i]
          /\ seen # None => u[1] = courier
      BY <1>8, <2>1, ProviderPointsAre DEF d
    <2> HIDE DEF u
    <2>3. Elems(points) \subseteq P
      BY <1>2 DEF Elems
    <2>4. ordered \in Seq(P) /\ Len(ordered) = N + d
      BY <1>2, <1>3, <2>3
    <2>5. ASSUME NEW i \in 1 .. N + d PROVE ordered[i] = u[i]
      <3>1. CASE d = 1 /\ i = 1
        BY <1>2, <2>2, <3>1 DEF d, Ahead
      <3>2. CASE d = 0 \/ i # 1
        <4>1. i - d \in 1 .. N /\ (i - d) + d = i
          BY <1>1, <1>2, <3>2
        <4> QED BY <1>6, <2>2, <4>1
      <3> QED BY <1>2, <3>1, <3>2
    <2>6. ordered = u
      BY <2>2, <2>4, <2>5, SeqEqual
    <2> QED BY <2>6 DEF u
  <1> QED BY <1>10, <1>11, <1>12

\* An order of the points is greedy when the places along it are.
LEMMA TrackAlong ==
  ASSUME NEW t, t \in Seq(Orders), NEW courier, NEW seen, NEW where, NEW spots,
         \A x \in Elems(t) : where[x] = spots[x],
         seen # None => where[courier] = seen,
         \A x \in Elems(t) : where[x] \in Spots, seen # None => seen \in Spots
  PROVE  GreedyAlong(ProviderPoints(t, courier, seen), where) <=> Greedy(Track(t, seen, spots))
  <1> DEFINE d == Ahead(seen)
             N == Len(t)
             points == ProviderPoints(t, courier, seen)
             track == Track(t, seen, spots)
             stops == [i \in 1 .. N |-> spots[t[i]]]
  <1>1. N \in Nat /\ DOMAIN t = 1 .. N /\ d \in {0, 1}
    BY DEF Ahead
  <1>2. /\ Len(points) = N + d /\ \A i \in 1 .. N : points[i + d] = t[i]
        /\ d = 1 => points[1] = courier
    <2>1. t \in Seq(Orders \cup {courier})
      OBVIOUS
    <2> QED BY <2>1, ProviderPointsAre DEF Ahead
  <1>3. \A i \in 1 .. N : t[i] \in Elems(t) /\ spots[t[i]] \in Spots /\ spots[t[i]] = where[t[i]]
    BY <1>1 DEF Elems
  <1>4. stops \in Seq(Spots) /\ Len(stops) = N /\ \A i \in 1 .. N : stops[i] = spots[t[i]]
    BY <1>1, <1>3
  <1>5. track = IF seen = None THEN stops ELSE << seen >> \o stops
    BY DEF Track
  <1> HIDE DEF stops, track, points
  <1>6. Len(track) = N + d /\ \A i \in 1 .. N + d : track[i] = where[points[i]]
    <2>1. CASE seen = None
      BY <1>1, <1>2, <1>3, <1>4, <1>5, <2>1 DEF Ahead
    <2>2. CASE seen # None
      <3> DEFINE c == << seen >>
      <3>1. c \in Seq(Spots) /\ Len(c) = 1 /\ c[1] = seen
        BY <2>2
      <3>2. track = c \o stops
        BY <1>5, <2>2
      <3> HIDE DEF c
      <3>3. /\ c \o stops \in Seq(Spots) /\ Len(c \o stops) = Len(c) + Len(stops)
            /\ \A i \in 1 .. Len(c) + Len(stops) :
                 (c \o stops)[i] = IF i <= Len(c) THEN c[i] ELSE stops[i - Len(c)]
        <4>1. stops \in Seq(Spots)
          BY <1>4
        <4> QED BY <3>1, <4>1, ConcatProperties
      <3>4. d = 1
        BY <2>2 DEF Ahead
      <3>5. ASSUME NEW i \in 1 .. N + 1 PROVE track[i] = where[points[i]]
        <4>1. CASE i = 1
          BY <1>1, <1>2, <1>4, <2>2, <3>1, <3>2, <3>3, <3>4, <4>1
        <4>2. CASE i # 1
          <5>1. i - 1 \in 1 .. N /\ (i - 1) + 1 = i /\ ~(i <= 1)
            BY <1>1, <4>2
          <5>2. track[i] = stops[i - 1]
            BY <1>1, <1>4, <3>1, <3>2, <3>3, <5>1
          <5>3. points[i] = t[i - 1]
            BY <1>2, <3>4, <5>1
          <5> QED BY <1>3, <1>4, <5>1, <5>2, <5>3
        <4> QED BY <4>1, <4>2
      <3> QED BY <1>4, <3>1, <3>2, <3>3, <3>4, <3>5
    <2> QED BY <2>1, <2>2
  <1> HIDE DEF d, N
  <1>7. \A n \in 2 .. N + d : \A m \in n .. N + d :
          /\ track[n - 1] = where[points[n - 1]]
          /\ track[n] = where[points[n]]
          /\ track[m] = where[points[m]]
    BY <1>1, <1>6
  <1> QED BY <1>2, <1>6, <1>7 DEF GreedyAlong, Greedy, points, track

\* The orders are reached one after the other.
LEMMA EtasTimed ==
  ASSUME NEW t \in Tours, NEW courier, NEW seen, NEW ordered, ordered = ProviderPoints(t, courier, seen),
         seen # None => courier \in Couriers,
         NEW departs \in Nat, NEW stops,
         \A i \in 1 .. Len(ordered) : stops[i] \in Nat,
         \A i \in 1 .. Len(ordered) - 1 : stops[i] <= stops[i + 1],
         stops[1] = departs
  PROVE  Timed(t, PointEtas(ordered, stops), departs)
  <1> DEFINE d == Ahead(seen)
             N == Len(t)
             eta == PointEtas(ordered, stops)
  <1>1. t \in Seq(Orders) /\ N \in Nat \ {0} /\ DOMAIN t = 1 .. N
    BY DEF Tours
  <1>2. /\ Len(ordered) = N + d /\ DOMAIN ordered = 1 .. N + d /\ d \in {0, 1}
        /\ \A i \in 1 .. N : ordered[i + d] = t[i] /\ t[i] \in Orders
    <2>1. t \in Seq(Orders \cup {courier})
      BY <1>1
    <2> QED BY <1>1, <2>1, ProviderPointsAre DEF Ahead
  <1>3. Once(ordered)
    BY PointsOnce
  <1> HIDE DEF d, N
  <1>4. ASSUME NEW i \in 1 .. N PROVE eta[t[i]] = stops[i + d]
    <2>1. i + d \in DOMAIN ordered /\ ordered[i + d] = t[i] /\ t[i] \in Orders
      BY <1>1, <1>2
    <2>2. Contains(ordered, t[i])
      BY <1>2, <2>1 DEF Contains
    <2>3. i + d = CHOOSE j \in DOMAIN ordered : ordered[j] = t[i]
      <3>1. \A j \in DOMAIN ordered : ordered[j] = t[i] => j = i + d
        BY <1>3, <2>1 DEF Once
      <3> QED BY <2>1, <3>1
    <2> QED BY <2>1, <2>2, <2>3 DEF PointEtas
  <1> HIDE DEF eta
  <1>5. eta[t[1]] >= departs
    <2>1. eta[t[1]] = stops[1 + d]
      BY <1>1, <1>4
    <2>2. CASE d = 0
      BY <2>1, <2>2
    <2>3. CASE d = 1
      <3>1. 1 \in 1 .. Len(ordered) - 1 /\ 2 \in 1 .. Len(ordered) /\ 1 + 1 = 2
        BY <1>1, <1>2, <2>3
      <3>2. stops[1] <= stops[2] /\ stops[2] \in Nat
        BY <3>1
      <3> QED BY <2>1, <2>3, <3>2
    <2> QED BY <1>2, <2>2, <2>3
  <1>6. ASSUME NEW i \in 1 .. N - 1 PROVE eta[t[i]] <= eta[t[i + 1]]
    <2>1. /\ i \in 1 .. N /\ i + 1 \in 1 .. N /\ i + d \in 1 .. Len(ordered) - 1
          /\ (i + d) + 1 = (i + 1) + d
      BY <1>1, <1>2
    <2>2. eta[t[i]] = stops[i + d] /\ eta[t[i + 1]] = stops[(i + d) + 1]
      BY <1>4, <2>1
    <2> QED BY <2>1, <2>2
  <1> QED BY <1>5, <1>6 DEF Timed, N, eta

-----------------------------------------------------------------------------
(* What the provider answers, as a plan.                                   *)

\* What the service is asked and may answer.
AskedFits(asked, where, answer) ==
  /\ Len(asked) \in Nat \ {0} /\ \A i \in 1 .. Len(asked) : where[asked[i]] \in Spots
  /\ answer \in Seq(Nat \cup {None}) /\ Len(answer) < Len(asked)

LEMMA LegsAre ==
  ASSUME NEW asked, NEW where, NEW answer, AskedFits(asked, where, answer),
         NEW legs, legs \in {BuildMockLegs(asked, where), ParseLegs(asked, where, answer)}
  PROVE  Len(legs) \in Nat /\ \A i \in 1 .. Len(legs) : legs[i] \in Nat
  <1> USE DEF AskedFits
  <1>1. ASSUME NEW i \in 1 .. Len(asked) - 1 PROVE Between(asked, where, i) \in Nat
    <2>1. i \in 1 .. Len(asked) /\ i + 1 \in 1 .. Len(asked)
      OBVIOUS
    <2> QED BY <2>1, Far DEF Between
  <1>2. CASE legs = BuildMockLegs(asked, where)
    <2>1. legs = [i \in 1 .. Len(asked) - 1 |-> AtLeastAMinute(Between(asked, where, i))]
      BY <1>2 DEF BuildMockLegs
    <2>2. \A i \in 1 .. Len(asked) - 1 : AtLeastAMinute(Between(asked, where, i)) \in Nat
      BY <1>1 DEF AtLeastAMinute
    <2>3. Len(asked) - 1 \in Nat
      OBVIOUS
    <2>4. legs \in [1 .. Len(asked) - 1 -> Nat]
      BY <2>1, <2>2
    <2>5. legs \in Seq(Nat)
      BY <2>3, <2>4
    <2> QED BY <2>5
  <1>3. CASE answer # << >> /\ legs = ParseLegs(asked, where, answer)
    <2>1. Len(answer) \in Nat /\ DOMAIN answer = 1 .. Len(answer)
      OBVIOUS
    <2>2. legs = [i \in 1 .. Len(answer) |->
                    IF answer[i] = None THEN Between(asked, where, i) ELSE answer[i]]
      BY <1>3, <2>1 DEF ParseLegs
    <2>3. \A i \in 1 .. Len(answer) :
            (IF answer[i] = None THEN Between(asked, where, i) ELSE answer[i]) \in Nat
      <3> TAKE i \in 1 .. Len(answer)
      <3>1. i \in 1 .. Len(asked) - 1 /\ answer[i] \in Nat \cup {None}
        BY <2>1
      <3> QED BY <1>1, <3>1
    <2>4. legs \in Seq(Nat)
      BY <2>1, <2>2, <2>3
    <2> QED BY <2>4
  <1> QED BY <1>2, <1>3 DEF ParseLegs

\* Where the points are.
Located(points, rows, seen) == [x \in Elems(points) |-> IF x \in Orders THEN rows[x].spot ELSE seen]

\* What the provider is asked for.
PlanAsked(tour, courier, options, rows, seen) ==
  /\ tour \in Tours /\ courier \in Couriers \cup {None} /\ options \in Options
  /\ rows \in [Orders -> OrderRow] /\ \A x \in Elems(tour) : rows[x].spot # None
  /\ seen \in Spots \cup {None} /\ (seen # None => courier \in Couriers)
  /\ options.back => seen # None

\* The legs of a plan, from the mock or from what the service answers.
LegsFit(legs, asked, where) ==
  \/ legs = BuildMockLegs(asked, where)
  \/ \E answer \in Seq(Nat \cup {None}) :
       Len(answer) < Len(asked) /\ legs = ParseLegs(asked, where, answer)

\* The plan that AskProvider makes.
LEMMA PlanMade ==
  ASSUME NEW tour, NEW courier, NEW options, NEW rows, NEW seen,
         PlanAsked(tour, courier, options, rows, seen),
         NEW points, points = ProviderPoints(tour, courier, seen),
         NEW where, where = Located(points, rows, seen),
         NEW ordered, ordered = OrderRoutePoints(points, where, options.optimize),
         NEW asked, asked = BuildRequestPoints(ordered, options.back),
         NEW legs, LegsFit(legs, asked, where),
         NEW stops, stops = BuildStops(ordered, options.departs, legs),
         NEW spots, \A x \in Elems(tour) : spots[x] = rows[x].spot
  PROVE  /\ Only(ordered, Orders) \in Tours
         /\ Timed(Only(ordered, Orders), PointEtas(ordered, stops), options.departs)
         /\ options.back => Head(asked) = courier /\ Last(asked) = courier
         /\ options.optimize => Greedy(Track(Only(ordered, Orders), seen, spots))
         /\ ~options.optimize => Only(ordered, Orders) = tour
         /\ Greedy(Track(tour, seen, spots)) => Only(ordered, Orders) = tour
  <1>0. PlanAsked(tour, courier, options, rows, seen)
    OBVIOUS
  <1> USE DEF PlanAsked
  <1>1. /\ tour \in Seq(Orders) /\ Len(tour) \in Nat \ {0} /\ DOMAIN tour = 1 .. Len(tour)
        /\ \A x \in Elems(tour) : x \in Orders /\ rows[x].spot \in Spots
    BY DEF Tours, Elems, OrderRow
  <1>2. seen # None => courier \notin Orders
    BY RoutePlanningAssumption
  <1>3. /\ points \in Seq(Orders \cup {courier}) /\ Len(points) = Len(tour) + Ahead(seen)
        /\ DOMAIN points = 1 .. Len(tour) + Ahead(seen)
        /\ \A i \in 1 .. Len(tour) : points[i + Ahead(seen)] = tour[i]
        /\ seen # None => points[1] = courier
    <2>1. tour \in Seq(Orders \cup {courier})
      BY <1>1
    <2> QED BY <2>1, ProviderPointsAre
  <1>4. Once(points)
    BY PointsOnce
  <1>5. \A x \in Elems(tour) : x \in Elems(points) /\ where[x] = rows[x].spot
    <2> TAKE x \in Elems(tour)
    <2>1. PICK i \in 1 .. Len(tour) : x = tour[i]
      BY <1>1 DEF Elems
    <2>2. i + Ahead(seen) \in DOMAIN points
      BY <1>1, <1>3 DEF Ahead
    <2>3. x \in Elems(points)
      BY <1>3, <2>1, <2>2 DEF Elems
    <2> QED BY <1>1, <2>3 DEF Located
  <1>6. seen # None => courier \in Elems(points) /\ where[courier] = seen
    <2>1. SUFFICES ASSUME seen # None PROVE courier \in Elems(points) /\ where[courier] = seen
      OBVIOUS
    <2>2. 1 \in DOMAIN points
      BY <1>1, <1>3 DEF Ahead
    <2>3. courier \in Elems(points)
      BY <1>3, <2>1, <2>2 DEF Elems
    <2> QED BY <1>2, <2>1, <2>3 DEF Located
  <1>7. \A x \in Elems(points) : where[x] \in Spots
    <2> TAKE x \in Elems(points)
    <2>1. PICK i \in DOMAIN points : x = points[i]
      BY DEF Elems
    <2>2. CASE seen # None /\ i = 1
      BY <1>3, <1>6, <2>1, <2>2
    <2>3. CASE seen = None \/ i # 1
      <3>1. i - Ahead(seen) \in 1 .. Len(tour) /\ (i - Ahead(seen)) + Ahead(seen) = i
        BY <1>1, <1>3, <2>3 DEF Ahead
      <3>2. x = tour[i - Ahead(seen)]
        BY <1>3, <2>1, <3>1
      <3>3. x \in Elems(tour)
        BY <1>1, <3>1, <3>2 DEF Elems
      <3> QED BY <1>1, <1>5, <3>3
    <2> QED BY <2>2, <2>3
  <1>8. PointsFit(points, where) /\ Len(points) \in Nat /\ Len(points) >= 1
    <2>1. points \in Seq(Elems(points))
      BY <1>3 DEF Elems
    <2> QED BY <1>1, <1>3, <1>4, <1>7, <2>1 DEF PointsFit, Ahead
  <1>9. options.optimize \in BOOLEAN /\ options.back \in BOOLEAN /\ options.departs \in Nat
    BY DEF Options
  <1>10. /\ ordered \in Seq(Elems(points)) /\ Len(ordered) = Len(points) /\ Once(ordered)
         /\ ordered[1] = points[1]
         /\ options.optimize => GreedyAlong(ordered, where)
         /\ ~options.optimize => ordered = points
         /\ GreedyAlong(points, where) => ordered = points
    BY <1>8, <1>9, OrderFits
  <1>11. PICK t \in Tours : ordered = ProviderPoints(t, courier, seen) /\ Elems(t) \subseteq Elems(tour)
    BY <1>10, PointsSplit
  <1>12. t \in Seq(Orders)
    BY DEF Tours
  <1>13. Only(ordered, Orders) = t
    BY <1>2, <1>11, <1>12, OnlyOrders
  <1>14. Only(points, Orders) = tour
    BY <1>1, <1>2, OnlyOrders
  <1>15. /\ GreedyAlong(ordered, where) <=> Greedy(Track(t, seen, spots))
         /\ GreedyAlong(points, where) <=> Greedy(Track(tour, seen, spots))
    <2>1. /\ \A x \in Elems(tour) : where[x] = spots[x] /\ where[x] \in Spots
          /\ \A x \in Elems(t) : where[x] = spots[x] /\ where[x] \in Spots
      BY <1>1, <1>5, <1>11
    <2>2. GreedyAlong(ProviderPoints(t, courier, seen), where) <=> Greedy(Track(t, seen, spots))
      BY <1>6, <1>12, <2>1, TrackAlong
    <2>3. GreedyAlong(ProviderPoints(tour, courier, seen), where) <=> Greedy(Track(tour, seen, spots))
      BY <1>1, <1>6, <2>1, TrackAlong
    <2> QED BY <1>11, <2>2, <2>3
  <1>16. DOMAIN ordered = 1 .. Len(points) /\ \A i \in 1 .. Len(points) : ordered[i] \in Elems(points)
    BY <1>8, <1>10
  <1>17. /\ asked \in Seq(Elems(points)) /\ Len(asked) \in Nat \ {0}
         /\ options.back => Head(asked) = courier /\ Last(asked) = courier
    <2>1. ordered[1] \in Elems(points)
      BY <1>8, <1>16
    <2>2. CASE options.back
      <3>1. asked = Append(ordered, ordered[1])
        BY <2>2 DEF BuildRequestPoints
      <3>2. /\ asked \in Seq(Elems(points)) /\ Len(asked) = Len(points) + 1
            /\ asked[1] = ordered[1] /\ asked[Len(points) + 1] = ordered[1]
        BY <1>8, <1>10, <2>1, <3>1, AppendProperties
      <3>3. ordered[1] = courier
        BY <1>3, <1>10, <2>2
      <3> QED BY <1>8, <3>2, <3>3 DEF Last
    <2>3. CASE ~options.back
      BY <1>8, <1>10, <2>3 DEF BuildRequestPoints
    <2> QED BY <2>2, <2>3
  <1>18. \A i \in 1 .. Len(asked) : where[asked[i]] \in Spots
    BY <1>7, <1>17
  <1>19. Len(legs) \in Nat /\ \A i \in 1 .. Len(legs) : legs[i] \in Nat
    <2>1. PICK answer \in Seq(Nat \cup {None}) :
            /\ Len(answer) < Len(asked)
            /\ legs \in {BuildMockLegs(asked, where), ParseLegs(asked, where, answer)}
      <3>1. << >> \in Seq(Nat \cup {None}) /\ Len(<< >>) < Len(asked)
        BY <1>17
      <3> QED BY <3>1 DEF LegsFit
    <2>2. AskedFits(asked, where, answer)
      BY <1>17, <1>18, <2>1 DEF AskedFits
    <2> QED BY <2>1, <2>2, LegsAre
  <1>20. /\ \A i \in 1 .. Len(ordered) : stops[i] \in Nat
         /\ \A i \in 1 .. Len(ordered) - 1 : stops[i] <= stops[i + 1]
         /\ stops[1] = options.departs
    <2>1. Len(ordered) \in Nat \ {0} /\ DOMAIN ordered = 1 .. Len(ordered)
      BY <1>8, <1>10, <1>16
    <2> QED BY <1>9, <1>19, <2>1, StopsRise
  <1>21. Timed(t, PointEtas(ordered, stops), options.departs)
    BY <1>9, <1>11, <1>20, EtasTimed
  <1> QED BY <1>9, <1>10, <1>13, <1>14, <1>15, <1>17, <1>21

-----------------------------------------------------------------------------
(* The requests.                                                           *)

LEMMA NoRequestFits == \A row : PlanRequestFits(NoRequest, row)
  BY DEF PlanRequestFits, NoRequest, PlanRequestFields

LEMMA PlanningStart == PlanningInit => PlanningInv
  <1> SUFFICES ASSUME PlanningInit PROVE PlanningInv
    OBVIOUS
  <1>1. order \in [Orders -> OrderRow] /\ at \in [Couriers -> Spots \cup {None}] /\ route = None
    BY RoutePlanningAssumption DEF PlanningInit
  <1>2. DOMAIN job = Planners /\ \A p \in Planners : PlanRequestFits(job[p], route)
    BY NoRequestFits DEF PlanningInit
  <1> QED BY <1>1, <1>2 DEF PlanningInv

LEMMA PlanningPrimed ==
  ASSUME order' \in [Orders -> OrderRow], at' \in [Couriers -> Spots \cup {None}],
         route' # None => RouteFits(route'),
         DOMAIN job' = Planners, \A p \in Planners : PlanRequestFits(job'[p], route')
  PROVE  PlanningInv'
  BY DEF PlanningInv, PlanRequestFits, RouteFits, PlanFits, Timed, Returns, Track, Greedy, SpotsRead,
         BuildUpdatedRouteOptions, BuildProviderOptions, Or, Options, Contains

\* A step of one request that leaves the route alone.
LEMMA RequestSteps ==
  ASSUME PlanningInv, NEW p \in Planners, NEW q, PlanRequestFits(q, route),
         job' = [job EXCEPT ![p] = q], route' = route,
         order' \in [Orders -> OrderRow], at' = at
  PROVE  PlanningInv'
  <1>1. DOMAIN job' = Planners /\ \A r \in Planners : job'[r] = IF r = p THEN q ELSE job[r]
    BY DEF PlanningInv
  <1>2. \A r \in Planners : PlanRequestFits(job'[r], route')
    BY <1>1 DEF PlanningInv
  <1>3. (route' # None => RouteFits(route')) /\ at' \in [Couriers -> Spots \cup {None}]
    BY DEF PlanningInv
  <1> QED BY <1>1, <1>2, <1>3, PlanningPrimed

LEMMA BuiltOptions ==
  ASSUME NEW dto \in Dto, dto.date # Kept
  PROVE  BuildProviderOptions(dto) \in Options
  <1>1. Or(dto.optimize, TRUE) \in BOOLEAN /\ Or(dto.back, FALSE) \in BOOLEAN /\ dto.date \in Nat
    BY DEF Or, Dto
  <1> QED BY <1>1 DEF BuildProviderOptions, Options

LEMMA UpdatedOptions ==
  ASSUME NEW dto \in Dto, NEW before \in Options
  PROVE  BuildUpdatedRouteOptions(before, dto) \in Options
  <1>1. /\ Or(dto.optimize, IF dto.orders # Kept THEN FALSE ELSE before.optimize) \in BOOLEAN
        /\ Or(dto.back, before.back) \in BOOLEAN
        /\ Or(dto.date, before.departs) \in Nat
    BY DEF Or, Dto, Options
  <1> QED BY <1>1 DEF BuildUpdatedRouteOptions, Options

LEMMA BuildPlans ==
  ASSUME PlanningInv, NEW p \in Planners, NEW op \in {"build", "preview"}, NEW dto \in Builds,
         BuildRoute(p, op, dto)
  PROVE  PlanningInv'
  <1> DEFINE q == [pc |-> "locate", op |-> op, dto |-> dto, base |-> None, orders |-> dto.orders,
                   courier |-> Or(dto.courier, None), options |-> BuildProviderOptions(dto),
                   rows |-> order, plan |-> None, stale |-> FALSE]
  <1>1. dto \in Dto /\ dto.orders # Kept /\ dto.date # Kept
    BY RoutePlanningAssumption
  <1>2. dto.orders \in Tours /\ Or(dto.courier, None) \in Couriers \cup {None}
    BY <1>1 DEF Dto, Or
  <1>3. BuildProviderOptions(dto) \in Options
    BY <1>1, BuiltOptions
  <1>4. PlanRequestFits(q, route)
    BY <1>1, <1>2, <1>3 DEF PlanRequestFits, PlanRequestFields, PlanningInv
  <1>5. job' = [job EXCEPT ![p] = q] /\ UNCHANGED << route, order, at >>
    BY DEF BuildRoute, Begin
  <1> HIDE DEF q
  <1>6. order' \in [Orders -> OrderRow] /\ route' = route /\ at' = at
    BY <1>5 DEF PlanningInv
  <1> QED BY <1>4, <1>5, <1>6, RequestSteps

LEMMA UpdatePlans ==
  ASSUME PlanningInv, NEW p \in Planners, NEW dto \in Updates[p], UpdateRoute(p, dto)
  PROVE  PlanningInv'
  <1> DEFINE tour == Or(dto.orders, route.points)
             courier == Or(dto.courier, route.courier)
             options == BuildUpdatedRouteOptions(route.options, dto)
             q == [pc |-> "locate", op |-> "edit", dto |-> dto, base |-> route, orders |-> tour,
                   courier |-> courier, options |-> options, rows |-> order, plan |-> None,
                   stale |-> FALSE]
  <1>1. dto \in Dto
    BY RoutePlanningAssumption
  <1>2. route # None /\ RouteFits(route)
    BY DEF UpdateRoute, PlanningInv
  <1>3. route.points \in Tours /\ route.courier \in Couriers \cup {None} /\ route.options \in Options
    BY <1>2 DEF RouteFits
  <1>4. tour \in Tours /\ courier \in Couriers \cup {None}
    BY <1>1, <1>3 DEF Dto, Or
  <1>5. options \in Options
    BY <1>1, <1>3, UpdatedOptions
  <1>6. job' = [job EXCEPT ![p] = q] /\ UNCHANGED << route, order, at >>
    BY DEF UpdateRoute, Begin
  <1>7. PlanRequestFits(q, route)
    <2>1. /\ DOMAIN q = PlanRequestFields /\ q.pc = "locate" /\ q.op = "edit" /\ q.dto = dto
          /\ q.base = route /\ q.orders = tour /\ q.courier = courier /\ q.options = options
          /\ q.rows = order /\ q.stale = FALSE
      BY DEF PlanRequestFields
    <2>2. q.orders = Or(q.dto.orders, q.base.points)
          /\ q.options = BuildUpdatedRouteOptions(q.base.options, q.dto)
      BY <2>1
    <2> HIDE DEF q, tour, courier, options
    <2> QED BY <1>1, <1>2, <1>4, <1>5, <2>1, <2>2 DEF PlanRequestFits, PlanningInv
  <1> HIDE DEF q
  <1>8. order' \in [Orders -> OrderRow] /\ route' = route /\ at' = at
    BY <1>6 DEF PlanningInv
  <1> QED BY <1>6, <1>7, <1>8, RequestSteps

LEMMA LocatePlans ==
  ASSUME PlanningInv, NEW p \in Planners, ResolveOrderCoordinates(p)
  PROVE  PlanningInv'
  <1> DEFINE q == job[p]
             first == CHOOSE i \in Lost(q) : \A j \in Lost(q) : i <= j
             o == q.orders[first]
             spot == Geocode(q.rows[o].address)
  <1>1. /\ q.pc = "locate" /\ Lost(q) # {} /\ order' = [order EXCEPT ![o].spot = spot]
        /\ job' = [job EXCEPT ![p].rows[o].spot = spot] /\ route' = route /\ at' = at
    BY DEF ResolveOrderCoordinates
  <1>2. /\ PlanRequestFits(q, route) /\ DOMAIN q = PlanRequestFields
        /\ q.orders \in Tours /\ q.rows \in [Orders -> OrderRow]
    BY <1>1 DEF PlanningInv, PlanRequestFits
  <1>3. o \in Orders
    <2>1. q.orders \in Seq(Orders)
      BY <1>2 DEF Tours
    <2>2. Lost(q) \subseteq DOMAIN q.orders /\ Lost(q) \subseteq Nat
      BY <2>1 DEF Lost
    <2>3. \E i \in Lost(q) : \A j \in Lost(q) : i <= j
      BY <1>1, <2>2, Smallest
    <2>4. first \in Lost(q)
      BY <2>3
    <2>5. first \in DOMAIN q.orders /\ DOMAIN q.orders = 1 .. Len(q.orders) /\ o = q.orders[first]
      BY <2>1, <2>2, <2>4
    <2> HIDE DEF first, o, q
    <2> QED BY <2>1, <2>5
  <1> HIDE DEF first, o
  <1>4. spot \in Spots
    <2>1. q.rows[o].address \in Addresses
      BY <1>2, <1>3 DEF OrderRow
    <2> QED BY <2>1, RoutePlanningAssumption DEF Geocode
  <1> DEFINE rows == [q.rows EXCEPT ![o].spot = spot]
             r == [q EXCEPT !.rows = rows]
  <1>5. rows \in [Orders -> OrderRow]
    BY <1>2, <1>3, <1>4 DEF OrderRow
  <1>6. order' \in [Orders -> OrderRow]
    <2>1. order \in [Orders -> OrderRow]
      BY DEF PlanningInv
    <2> HIDE DEF spot
    <2> QED BY <1>1, <1>3, <1>4, <2>1 DEF OrderRow
  <1>7. job' = [job EXCEPT ![p] = r]
    BY <1>1
  <1> HIDE DEF rows, spot
  <1>8. /\ DOMAIN r = PlanRequestFields /\ r.rows = rows /\ r.pc = q.pc /\ r.op = q.op /\ r.dto = q.dto
        /\ r.base = q.base /\ r.orders = q.orders /\ r.courier = q.courier /\ r.options = q.options
        /\ r.stale = q.stale
    BY <1>2 DEF PlanRequestFields
  <1> HIDE DEF r, q
  <1>9. PlanRequestFits(r, route)
    BY <1>1, <1>2, <1>5, <1>8 DEF PlanRequestFits
  <1> QED BY <1>1, <1>6, <1>7, <1>9, RequestSteps

LEMMA AskPlans ==
  ASSUME PlanningInv, NEW p \in Planners, NEW answer \in LegTimes, AskProvider(p, answer)
  PROVE  PlanningInv'
  <1> DEFINE q == job[p]
             seen == IF q.courier = None THEN None ELSE at[q.courier]
             points == ProviderPoints(q.orders, q.courier, seen)
             where == [x \in Elems(points) |-> IF x \in Orders THEN q.rows[x].spot ELSE seen]
             ordered == OrderRoutePoints(points, where, q.options.optimize)
             asked == BuildRequestPoints(ordered, q.options.back)
             legs == IF UsesMock THEN BuildMockLegs(asked, where) ELSE ParseLegs(asked, where, answer)
             stops == BuildStops(ordered, q.options.departs, legs)
             plan == [ path |-> asked, seen |-> seen, points |-> Only(ordered, Orders),
                       eta |-> PointEtas(ordered, stops) ]
             r == [q EXCEPT !.pc = "write", !.plan = plan]
  <1>1. /\ q.pc = "locate" /\ Lost(q) = {} /\ EnoughPoints(points, seen, q.options.back)
        /\ UsesMock \/ (HasKey /\ Len(answer) < Len(asked))
        /\ job' = [job EXCEPT ![p] = IF q.op = "preview" THEN NoRequest ELSE r]
        /\ route' = route /\ order' = order /\ at' = at
    BY DEF AskProvider
  <1>2. PlanRequestFits(q, route) /\ at \in [Couriers -> Spots \cup {None}]
    BY DEF PlanningInv
  <1> HIDE DEF q
  <1>3. /\ DOMAIN q = PlanRequestFields /\ q.orders \in Tours /\ q.courier \in Couriers \cup {None}
        /\ q.options \in Options /\ q.rows \in [Orders -> OrderRow]
    BY <1>1, <1>2 DEF PlanRequestFits
  <1>4. order' \in [Orders -> OrderRow]
    BY <1>1 DEF PlanningInv
  <1>5. CASE q.op = "preview"
    <2>1. job' = [job EXCEPT ![p] = NoRequest]
      BY <1>1, <1>5
    <2> QED BY <1>1, <1>4, <2>1, NoRequestFits, RequestSteps
  <1>6. CASE q.op # "preview"
    <2>1. seen \in Spots \cup {None} /\ (seen # None => q.courier \in Couriers)
      BY <1>2, <1>3
    <2>2. q.options.back => seen # None
      BY <1>1 DEF EnoughPoints
    <2>3. \A x \in Elems(q.orders) : q.rows[x].spot # None /\ SpotsRead(q)[x] = q.rows[x].spot
      <3> TAKE x \in Elems(q.orders)
      <3>1. q.orders \in Seq(Orders)
        BY <1>3 DEF Tours
      <3>2. PICK i \in DOMAIN q.orders : x = q.orders[i]
        BY DEF Elems
      <3>3. i \in 1 .. Len(q.orders) /\ x \in Orders
        BY <3>1, <3>2
      <3>4. q.rows[x].spot # None
        BY <1>1, <3>2 DEF Lost
      <3>5. Contains(q.orders, x)
        BY <3>2, <3>3 DEF Contains
      <3> QED BY <3>3, <3>4, <3>5 DEF SpotsRead
    <2>4. where = Located(points, q.rows, seen)
      BY DEF Located
    <2>5. LegsFit(legs, asked, where)
      <3>1. answer \in Seq(Nat \cup {None})
        BY RoutePlanningAssumption
      <3>2. \/ UsesMock /\ legs = BuildMockLegs(asked, where)
            \/ ~UsesMock /\ Len(answer) < Len(asked) /\ legs = ParseLegs(asked, where, answer)
        BY <1>1
      <3> HIDE DEF legs, asked, where
      <3> QED BY <3>1, <3>2 DEF LegsFit
    <2>6. points = ProviderPoints(q.orders, q.courier, seen)
      OBVIOUS
    <2>7. ordered = OrderRoutePoints(points, where, q.options.optimize)
      OBVIOUS
    <2>8. asked = BuildRequestPoints(ordered, q.options.back)
      OBVIOUS
    <2>9. stops = BuildStops(ordered, q.options.departs, legs)
      OBVIOUS
    <2>10. plan = [ path |-> asked, seen |-> seen, points |-> Only(ordered, Orders),
                    eta |-> PointEtas(ordered, stops) ]
      OBVIOUS
    <2> HIDE DEF points, where, ordered, asked, legs, stops, seen, plan
    <2>11. PlanAsked(q.orders, q.courier, q.options, q.rows, seen)
      BY <1>3, <2>1, <2>2, <2>3 DEF PlanAsked
    <2>12. /\ Only(ordered, Orders) \in Tours
           /\ Timed(Only(ordered, Orders), PointEtas(ordered, stops), q.options.departs)
           /\ q.options.back => Head(asked) = q.courier /\ Last(asked) = q.courier
           /\ q.options.optimize => Greedy(Track(Only(ordered, Orders), seen, SpotsRead(q)))
           /\ ~q.options.optimize => Only(ordered, Orders) = q.orders
           /\ Greedy(Track(q.orders, seen, SpotsRead(q))) => Only(ordered, Orders) = q.orders
      BY <2>3, <2>4, <2>5, <2>6, <2>7, <2>8, <2>9, <2>11, PlanMade
    <2>13. /\ DOMAIN r = PlanRequestFields /\ r.pc = "write" /\ r.plan = plan /\ r.op = q.op
           /\ r.dto = q.dto /\ r.base = q.base /\ r.orders = q.orders /\ r.courier = q.courier
           /\ r.options = q.options /\ r.rows = q.rows /\ r.stale = q.stale
      BY <1>3 DEF PlanRequestFields
    <2>14. /\ plan.path = asked /\ plan.seen = seen /\ plan.points = Only(ordered, Orders)
           /\ plan.eta = PointEtas(ordered, stops)
      BY <2>10
    <2>15. job' = [job EXCEPT ![p] = r]
      BY <1>1, <1>6
    <2> HIDE DEF r
    <2>16. SpotsRead(r) = SpotsRead(q)
      BY <2>13 DEF SpotsRead
    <2>17. q.options.back => q.courier # None
      BY <2>2 DEF seen
    <2>18. PlanFits(r)
      BY <2>12, <2>13, <2>14, <2>16, <2>17 DEF PlanFits, Returns
    <2>19. PlanRequestFits(r, route)
      BY <1>1, <1>2, <1>6, <2>13, <2>18 DEF PlanRequestFits
    <2> QED BY <1>1, <1>4, <2>15, <2>19, RequestSteps
  <1> QED BY <1>5, <1>6

\* A request as it is once another one has written the route: an edit is behind.
Overtaken(q) == IF q.op = "edit" THEN [q EXCEPT !.stale = TRUE] ELSE q

LEMMA OvertakenFits ==
  ASSUME NEW q, NEW row, PlanRequestFits(q, row), NEW next
  PROVE  PlanRequestFits(Overtaken(q), next)
  <1> DEFINE r == Overtaken(q)
  <1>1. DOMAIN q = PlanRequestFields
    BY DEF PlanRequestFits
  <1>2. CASE q.op # "edit"
    BY <1>2 DEF PlanRequestFits, Overtaken
  <1>3. CASE q.op = "edit"
    <2>1. /\ DOMAIN r = PlanRequestFields /\ r.pc = q.pc /\ r.plan = q.plan /\ r.op = "edit"
          /\ r.dto = q.dto /\ r.base = q.base /\ r.orders = q.orders /\ r.courier = q.courier
          /\ r.options = q.options /\ r.rows = q.rows /\ r.stale = TRUE
      BY <1>1, <1>3 DEF PlanRequestFields, Overtaken
    <2> HIDE DEF r
    <2>2. PlanFits(q) => PlanFits(r)
      BY <2>1 DEF PlanFits, SpotsRead
    <2>3. PlanRequestFits(r, next)
      BY <1>3, <2>1, <2>2 DEF PlanRequestFits
    <2> QED BY <2>3 DEF r
  <1> QED BY <1>2, <1>3

\* What a request that is about to write knows.
LEMMA Written ==
  ASSUME PlanningInv, NEW p \in Planners, WriteRoute(p)
  PROVE  LET q == job[p] IN
         /\ q.pc = "write" /\ PlanRequestFits(q, route) /\ PlanFits(q)
         /\ q.courier \in Couriers \cup {None} /\ q.options \in Options
         /\ route'.points = q.plan.points /\ route'.eta = q.plan.eta /\ route'.courier = q.courier
         /\ route'.date = Or(q.dto.date, IF q.base = None THEN 0 ELSE q.base.date)
         /\ route'.options = q.options /\ route'.path = q.plan.path /\ route'.byHand = ByHand(q)
         /\ route'.seen = q.plan.seen /\ route'.spots = SpotsRead(q)
  BY DEF WriteRoute, PlanningInv, PlanRequestFits, SpotsRead

\* The date of a route is the departure of its plan, and stops in the order of someone's hand
\* were not optimized.
LEMMA WrittenOptions ==
  ASSUME NEW q, NEW row, PlanRequestFits(q, row), q.pc = "write"
  PROVE  /\ Or(q.dto.date, IF q.base = None THEN 0 ELSE q.base.date) = q.options.departs
         /\ ByHand(q) => ~q.options.optimize
  <1>1. q.dto \in Dto
    BY DEF PlanRequestFits
  <1>2. CASE q.op # "edit"
    <2>1. /\ q.op = "build" /\ q.dto.date # Kept
          /\ q.options.departs = q.dto.date /\ q.options.optimize = Or(q.dto.optimize, TRUE)
      <3>1. q.op = "build" /\ q.dto.date # Kept /\ q.options = BuildProviderOptions(q.dto)
        BY <1>2 DEF PlanRequestFits
      <3> QED BY <3>1 DEF BuildProviderOptions
    <2> QED BY <2>1 DEF Or, ByHand
  <1>3. CASE q.op = "edit"
    <2>1. /\ q.base # None /\ RouteFits(q.base) /\ q.options = BuildUpdatedRouteOptions(q.base.options, q.dto)
      BY <1>3 DEF PlanRequestFits
    <2>2. /\ q.base.date = q.base.options.departs
          /\ q.base.byHand => ~q.base.options.optimize
      BY <2>1 DEF RouteFits
    <2>3. /\ q.options.departs = Or(q.dto.date, q.base.options.departs)
          /\ q.options.optimize =
               Or(q.dto.optimize, IF q.dto.orders # Kept THEN FALSE ELSE q.base.options.optimize)
      BY <2>1 DEF BuildUpdatedRouteOptions
    <2> QED BY <1>3, <2>1, <2>2, <2>3 DEF Or, ByHand
  <1> QED BY <1>2, <1>3

LEMMA WritePlans ==
  ASSUME PlanningInv, NEW p \in Planners, WriteRoute(p)
  PROVE  PlanningInv'
  <1> DEFINE q == job[p]
  <1>1. /\ q.pc = "write" /\ PlanRequestFits(q, route) /\ PlanFits(q)
        /\ q.courier \in Couriers \cup {None} /\ q.options \in Options
        /\ route'.points = q.plan.points /\ route'.eta = q.plan.eta /\ route'.courier = q.courier
        /\ route'.date = Or(q.dto.date, IF q.base = None THEN 0 ELSE q.base.date)
        /\ route'.options = q.options /\ route'.path = q.plan.path /\ route'.byHand = ByHand(q)
        /\ route'.seen = q.plan.seen /\ route'.spots = SpotsRead(q)
    BY Written
  <1>2. \A r \in Planners : job'[r] = IF r = p THEN NoRequest ELSE Overtaken(job[r])
    BY DEF WriteRoute, Overtaken
  <1>3. DOMAIN job' = Planners /\ order' = order /\ at' = at
    BY DEF WriteRoute
  <1> HIDE DEF q
  <1>4. route'.date = q.options.departs /\ (route'.byHand => ~q.options.optimize)
    BY <1>1, WrittenOptions
  <1>5. RouteFits(route')
    <2>1. /\ q.plan.points \in Tours /\ Timed(q.plan.points, q.plan.eta, q.options.departs)
          /\ q.options.back => Returns(q.plan.path, q.courier)
          /\ q.options.optimize => Greedy(Track(q.plan.points, q.plan.seen, SpotsRead(q)))
      BY <1>1 DEF PlanFits
    <2> DEFINE r == route'
    <2>2. /\ r.points = q.plan.points /\ r.eta = q.plan.eta /\ r.courier = q.courier
          /\ r.options = q.options /\ r.path = q.plan.path /\ r.seen = q.plan.seen
          /\ r.spots = SpotsRead(q) /\ r.date = q.options.departs /\ (r.byHand => ~q.options.optimize)
          /\ q.courier \in Couriers \cup {None} /\ q.options \in Options
      BY <1>1, <1>4
    <2> HIDE DEF r
    <2>3. RouteFits(r)
      BY <2>1, <2>2 DEF RouteFits
    <2> QED BY <2>3 DEF r
  <1>6. \A r \in Planners : PlanRequestFits(job'[r], route')
    <2> TAKE r \in Planners
    <2>1. CASE r = p
      BY <1>2, <2>1, NoRequestFits
    <2>2. CASE r # p
      <3>1. PlanRequestFits(job[r], route)
        BY DEF PlanningInv
      <3> QED BY <1>2, <2>2, <3>1, OvertakenFits
    <2> QED BY <2>1, <2>2
  <1>7. order' \in [Orders -> OrderRow] /\ at' \in [Couriers -> Spots \cup {None}]
    BY <1>3 DEF PlanningInv
  <1> QED BY <1>3, <1>5, <1>6, <1>7, PlanningPrimed

LEMMA FailPlans ==
  ASSUME PlanningInv, NEW p \in Planners, Fail(p)
  PROVE  PlanningInv'
  <1>1. job' = [job EXCEPT ![p] = NoRequest] /\ route' = route /\ order' = order /\ at' = at
    BY DEF Fail
  <1>2. order' \in [Orders -> OrderRow]
    BY <1>1 DEF PlanningInv
  <1> QED BY <1>1, <1>2, NoRequestFits, RequestSteps

\* A step that leaves the route and the requests alone.
LEMMA GroundMoves ==
  ASSUME PlanningInv, order' \in [Orders -> OrderRow], at' \in [Couriers -> Spots \cup {None}],
         route' = route, job' = job
  PROVE  PlanningInv'
  <1>1. /\ DOMAIN job' = Planners /\ \A p \in Planners : PlanRequestFits(job'[p], route')
        /\ route' # None => RouteFits(route')
    BY DEF PlanningInv
  <1> QED BY <1>1, PlanningPrimed

LEMMA OrdersMove ==
  ASSUME PlanningInv, NEW o \in Orders, NEW row \in Corrections, EditOrder(o, row)
  PROVE  PlanningInv'
  <1>1. row \in OrderRow /\ order \in [Orders -> OrderRow]
    BY RoutePlanningAssumption DEF PlanningInv
  <1>2. order' = [order EXCEPT ![o] = IF row.spot = None
                                      THEN [order[o] EXCEPT !.address = row.address] ELSE row]
    BY DEF EditOrder
  <1>3. (IF row.spot = None THEN [order[o] EXCEPT !.address = row.address] ELSE row) \in OrderRow
    BY <1>1 DEF OrderRow
  <1>4. order' \in [Orders -> OrderRow]
    BY <1>1, <1>2, <1>3
  <1>5. at' \in [Couriers -> Spots \cup {None}] /\ route' = route /\ job' = job
    BY DEF EditOrder, PlanningInv
  <1> QED BY <1>4, <1>5, GroundMoves

LEMMA CouriersMove ==
  ASSUME PlanningInv, NEW c \in Couriers, NEW spot \in Sightings, MoveCourier(c, spot)
  PROVE  PlanningInv'
  <1>1. spot \in Spots /\ at \in [Couriers -> Spots \cup {None}]
    BY RoutePlanningAssumption DEF PlanningInv
  <1>2. /\ at' = [at EXCEPT ![c] = spot] /\ route' = route /\ job' = job
        /\ order' \in [Orders -> OrderRow]
    BY DEF MoveCourier, PlanningInv
  <1> QED BY <1>1, <1>2, GroundMoves

LEMMA PlanningStep == PlanningInv /\ [PlanningNext]_planningVars => PlanningInv'
  <1> SUFFICES ASSUME PlanningInv, [PlanningNext]_planningVars PROVE PlanningInv'
    OBVIOUS
  <1>1. ASSUME NEW p \in Planners, NEW op \in {"build", "preview"}, NEW dto \in Builds,
               BuildRoute(p, op, dto)
        PROVE  PlanningInv'
    BY <1>1, BuildPlans
  <1>2. ASSUME NEW p \in Planners, NEW dto \in Updates[p], UpdateRoute(p, dto)
        PROVE  PlanningInv'
    BY <1>2, UpdatePlans
  <1>3. ASSUME NEW p \in Planners, ResolveOrderCoordinates(p)
        PROVE  PlanningInv'
    BY <1>3, LocatePlans
  <1>4. ASSUME NEW p \in Planners, NEW answer \in LegTimes, AskProvider(p, answer)
        PROVE  PlanningInv'
    BY <1>4, AskPlans
  <1>5. ASSUME NEW p \in Planners, WriteRoute(p)
        PROVE  PlanningInv'
    BY <1>5, WritePlans
  <1>6. ASSUME NEW p \in Planners, Fail(p)
        PROVE  PlanningInv'
    BY <1>6, FailPlans
  <1>7. ASSUME NEW o \in Orders, NEW row \in Corrections, EditOrder(o, row)
        PROVE  PlanningInv'
    BY <1>7, OrdersMove
  <1>8. ASSUME NEW c \in Couriers, NEW spot \in Sightings, MoveCourier(c, spot)
        PROVE  PlanningInv'
    BY <1>8, CouriersMove
  <1>9. CASE UNCHANGED planningVars
    <2>1. /\ order' \in [Orders -> OrderRow] /\ at' \in [Couriers -> Spots \cup {None}]
          /\ route' = route /\ job' = job
      BY <1>9 DEF planningVars, PlanningInv
    <2> QED BY <2>1, GroundMoves
  <1> QED BY <1>1, <1>2, <1>3, <1>4, <1>5, <1>6, <1>7, <1>8, <1>9 DEF PlanningNext

-----------------------------------------------------------------------------
(* Theorems.                                                               *)

LEMMA PlanningAlways == PlanningSpec => []PlanningInv
  BY PlanningStart, PlanningStep, PTL DEF PlanningSpec

\* The timetable of a route goes forward from its date on, and a way back leads to the courier
\* from whose place it starts: whatever the service answers, whoever overtakes whom, and
\* wherever orders and couriers move meanwhile.
THEOREM TimetableCorrect == PlanningSpec => []TimetableSound
  <1>1. PlanningInv => TimetableSound
    <2> SUFFICES ASSUME PlanningInv, route # None PROVE TimetableSound
      BY DEF TimetableSound, EtasRise, ReturnsToCourier
    <2>1. RouteFits(route)
      BY DEF PlanningInv
    <2>2. EtasRise
      BY <2>1 DEF EtasRise, RouteFits, Timed
    <2>3. ReturnsToCourier
      BY <2>1 DEF ReturnsToCourier, RouteFits, Returns
    <2> QED BY <2>2, <2>3 DEF TimetableSound
  <1> QED BY <1>1, PlanningAlways, PTL

\* An edit that is not overtaken and says nothing of the stops leaves them in their order.
LEMMA WrittenOrder ==
  ASSUME NEW q, NEW row, PlanRequestFits(q, row), q.pc = "write", q.op = "edit",
         q.dto.optimize # TRUE
  PROVE  /\ q.dto.orders # Kept => q.plan.points = q.dto.orders
         /\ q.dto.orders = Kept /\ ~q.stale /\ (q.dto.optimize = FALSE \/ row.byHand) =>
              q.plan.points = row.points
         /\ q.dto.orders = Kept /\ ~q.stale /\ SpotsRead(q) = row.spots /\ q.plan.seen = row.seen =>
              q.plan.points = row.points
  <1>1. /\ PlanFits(q) /\ RouteFits(q.base) /\ q.orders = Or(q.dto.orders, q.base.points)
        /\ q.options = BuildUpdatedRouteOptions(q.base.options, q.dto) /\ q.options \in Options
        /\ ~q.stale => q.base = row
        /\ q.dto \in Dto
    BY DEF PlanRequestFits
  <1>2. q.options.optimize =
          (IF q.dto.orders # Kept \/ q.dto.optimize = FALSE THEN FALSE ELSE q.base.options.optimize)
    <2>1. q.dto.optimize = Kept \/ q.dto.optimize = FALSE
      BY <1>1 DEF Dto
    <2>2. Kept # FALSE
      BY RoutePlanningAssumption
    <2>3. q.options.optimize =
            Or(q.dto.optimize, IF q.dto.orders # Kept THEN FALSE ELSE q.base.options.optimize)
      BY <1>1 DEF BuildUpdatedRouteOptions
    <2>4. CASE q.dto.optimize = Kept
      BY <2>2, <2>3, <2>4 DEF Or
    <2>5. CASE q.dto.optimize = FALSE
      BY <2>2, <2>3, <2>5 DEF Or
    <2> QED BY <2>1, <2>4, <2>5
  <1>3. /\ ~q.options.optimize => q.plan.points = q.orders
        /\ q.options.optimize /\ Greedy(Track(q.orders, q.plan.seen, SpotsRead(q))) =>
             q.plan.points = q.orders
    BY <1>1 DEF PlanFits
  <1>4. CASE q.dto.orders # Kept
    BY <1>1, <1>2, <1>3, <1>4 DEF Or
  <1>5. CASE q.dto.orders = Kept
    <2> SUFFICES ASSUME ~q.stale,
                        \/ q.dto.optimize = FALSE \/ row.byHand
                        \/ SpotsRead(q) = row.spots /\ q.plan.seen = row.seen
                 PROVE  q.plan.points = row.points
      BY <1>5
    <2>1. RouteFits(row) /\ q.orders = row.points
          /\ q.options.optimize = IF q.dto.optimize = FALSE THEN FALSE ELSE row.options.optimize
      BY <1>1, <1>2, <1>5 DEF Or
    <2>2. /\ row.byHand => ~row.options.optimize
          /\ row.options.optimize => Greedy(Track(row.points, row.seen, row.spots))
      BY <2>1 DEF RouteFits
    <2> QED BY <1>3, <2>1, <2>2
  <1> QED BY <1>4, <1>5

\* Stops that are sent stay in the order they were sent in, unless optimization is asked for;
\* and an edit of something else, not overtaken, leaves the stops alone if it turns optimization
\* off, if the order was given by hand, since optimization then stays off with the stored
\* options, or if courier and orders are where they were when it was optimized, since
\* nearest-first finds an order that it has found itself.
THEOREM StayCorrect == PlanningSpec => StopsStay
  <1>1. PlanningInv /\ [PlanningNext]_planningVars =>
          [\A p \in Planners :
             LET dto == job[p].dto IN
             Writes(p) /\ job[p].op = "edit" /\ dto.optimize # TRUE =>
               /\ dto.orders # Kept => route'.points = dto.orders
               /\ /\ dto.orders = Kept /\ ~job[p].stale
                  /\ dto.optimize = FALSE \/ route.byHand \/ SameGround
                  => route'.points = route.points]_planningVars
    <2> SUFFICES ASSUME PlanningInv, [PlanningNext]_planningVars, NEW p \in Planners,
                        Writes(p), job[p].op = "edit", job[p].dto.optimize # TRUE
                 PROVE  /\ job[p].dto.orders # Kept => route'.points = job[p].dto.orders
                        /\ /\ job[p].dto.orders = Kept /\ ~job[p].stale
                           /\ job[p].dto.optimize = FALSE \/ route.byHand \/ SameGround
                           => route'.points = route.points
      OBVIOUS
    <2>1. job[p].pc = "write" /\ job'[p].pc = "idle" /\ route' # route
      BY DEF Writes
    <2>2. PICK r \in Planners : WriteRoute(r)
      BY <2>1 DEF PlanningNext, planningVars, BuildRoute, UpdateRoute, Begin, ResolveOrderCoordinates, AskProvider,
                  Fail, EditOrder, MoveCourier
    <2>3. r = p
      <3> SUFFICES ASSUME r # p PROVE FALSE
        OBVIOUS
      <3>1. job'[p] = Overtaken(job[p]) /\ PlanRequestFits(job[p], route)
        BY <2>2 DEF WriteRoute, Overtaken, PlanningInv
      <3>2. job'[p] = [job[p] EXCEPT !.stale = TRUE] /\ DOMAIN job[p] = PlanRequestFields
        BY <3>1 DEF Overtaken, PlanRequestFits
      <3>3. job'[p].pc = job[p].pc
        BY <3>2 DEF PlanRequestFields
      <3> QED BY <2>1, <3>3
    <2>4. /\ PlanRequestFits(job[p], route) /\ route'.points = job[p].plan.points
          /\ route'.seen = job[p].plan.seen /\ route'.spots = SpotsRead(job[p])
      BY <2>2, <2>3, Written
    <2>5. job[p].dto.orders # Kept => route'.points = job[p].dto.orders
      BY <2>1, <2>4, WrittenOrder
    <2>6. ASSUME job[p].dto.orders = Kept, ~job[p].stale,
                 job[p].dto.optimize = FALSE \/ route.byHand
          PROVE  route'.points = route.points
      BY <2>1, <2>4, <2>6, WrittenOrder
    <2>7. ASSUME job[p].dto.orders = Kept, ~job[p].stale, SameGround
          PROVE  route'.points = route.points
      BY <2>1, <2>4, <2>7, WrittenOrder DEF SameGround
    <2> QED BY <2>5, <2>6, <2>7
  <1> QED BY <1>1, PlanningAlways, PTL DEF PlanningSpec, StopsStay

=============================================================================
