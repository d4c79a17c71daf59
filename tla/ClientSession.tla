--------------------------- MODULE ClientSession ---------------------------
(***************************************************************************)
(* A signed-in session in one browser tab: the HTTP client with its token  *)
(* refresh, the auth store, the realtime socket, the routes of the         *)
(* application, and the answers of AuthController behind them.             *)
(*                                                                         *)
(* A request goes out with the token in local storage, is answered by the  *)
(* server and handled by the interceptor when the answer arrives; anything *)
(* may happen in between.  A 401 starts a refresh with the cookie, or      *)
(* waits for the one that is under way.  Giving up means a new page: its   *)
(* scripts still run until the old page is gone.                           *)
(*                                                                         *)
(* The button of the top bar signs out in the browser only; nothing shown  *)
(* calls the endpoint for signing out.                                     *)
(*                                                                         *)
(* History: crossed marks a refresh that was under way when somebody       *)
(* signed in or out; mixed says that, since somebody last did, a token was *)
(* stored that came from such a refresh, or from one that ended with       *)
(* nobody signed in; odd marks a socket that was opened with such a token, *)
(* or that somebody who signed in over somebody else has taken over.       *)
(***************************************************************************)
EXTENDS Naturals, FiniteSets

CONSTANTS
  People,      \* accounts
  RoleOf,      \* the role of each
  Registered,  \* those there are at first
  Requests,    \* requests of the page that can be under way at once
  Unset,
  Tour,        \* bound: pages that are visited
  MaxSends,    \* bound: requests of the page
  MaxExpiries, \* bound: steps of the clock at which tokens run out
  MaxChanges   \* bound: changes of accounts by their administrators, reloads

Role == { "admin", "dispatcher", "courier" }

ASSUME SessionAssumption ==
  /\ Unset \notin People \cup Role
  /\ RoleOf \in [People -> Role] /\ Registered \subseteq People
  /\ MaxSends \in Nat /\ MaxExpiries \in Nat /\ MaxChanges \in Nat

VARIABLES
  account,      \* server: none, active, disabled, or of a company that is blocked
  issued,       \* server: access tokens issued so far
  expired,      \* server: tokens up to this one have run out
  cookie,       \* browser: whose refresh token the cookie holds
  stored,       \* browser: access_token in local storage
  user,         \* browser: the user of the auth store, kept in local storage
  path,         \* page: where the router is
  leaving,      \* page: another page has been asked for
  isRefreshing, \* page: of the HTTP client
  req,          \* page: what each request is doing
  socket,       \* page: the realtime socket
  loginError,   \* page: what the login screen says
  mixed, sends, changes

server  == << account, issued, expired >>
browser == << cookie, stored, user >>
page    == << path, leaving, isRefreshing, req, socket, loginError >>
vars    == << server, browser, page, mixed, sends, changes >>

-----------------------------------------------------------------------------
(* Pages and who may see them.                                             *)

Page == { "dispatcher", "monitoring", "orders", "routes", "couriers", "integrations",
          "payments", "ai-assistant", "platform", "settings" }

\* allowedRoles of the router.
AllowedRoles(p) ==
  CASE p \in {"integrations", "platform", "settings"} -> {"admin"}
    [] p = "payments" -> {"admin", "courier"}
    [] OTHER -> {"admin", "dispatcher"}

\* ProtectedRoute and PublicRoute.  A page that redirects to itself stays blank.
Shown ==
  IF user = Unset THEN IF path = "register" THEN "register" ELSE "login"
  ELSE IF path \in Page /\ RoleOf[user] \in AllowedRoles(path) THEN path
  ELSE IF RoleOf[user] \in AllowedRoles("dispatcher") THEN "dispatcher" ELSE "blank"

\* usePermissions, as far as the sidebar asks.
can(role, permission) ==
  \/ role = "admin"
  \/ role = "dispatcher" /\ permission \in {"view:orders", "build:routes", "edit:routes",
                               "view:operational-analytics", "manage:couriers"}
  \/ role = "courier" /\ permission \in {"view:orders", "view:own-earnings"}

requiredPermissions(item) ==
  CASE item \in {"dispatcher", "orders", "ai-assistant"} -> {"view:orders"}
    [] item = "monitoring" -> {"view:operational-analytics", "view:orders"}
    [] item = "routes" -> {"build:routes", "edit:routes"}
    [] item = "couriers" -> {"manage:couriers"}
    [] item = "integrations" -> {"connect:integrations"}
    [] item = "payments" -> {"edit:payment-rules", "view:own-earnings"}
    [] item \in {"platform", "settings"} -> {"manage:users"}

\* The sidebar shows an item for any of its permissions.
visibleItems == { p \in Page : user # Unset /\ \E x \in requiredPermissions(p) : can(RoleOf[user], x) }

-----------------------------------------------------------------------------
(* Tokens and requests.                                                    *)

Account == { "none", "active", "disabled", "blocked" }

Token == [of : People \cup {Unset}, no : Nat]

NoToken == [of |-> Unset, no |-> 0]

Request == [pc : {"idle", "sent", "ok", "refused", "unauthorized", "queued", "refreshing",
                  "granted", "denied"},
            kind : {"none", "data", "login", "register"}, who : People \cup {Unset},
            good : BOOLEAN, token : Token, retry : BOOLEAN, cookie : People \cup {Unset},
            answer : Token, crossed : BOOLEAN]

Free == [pc |-> "idle", kind |-> "none", who |-> Unset, good |-> FALSE, token |-> NoToken,
         retry |-> FALSE, cookie |-> Unset, answer |-> NoToken, crossed |-> FALSE]

Socket == [pc : {"none", "opening", "up", "down"}, token : Token, odd : BOOLEAN]

NoSocket == [pc |-> "none", token |-> NoToken, odd |-> FALSE]

\* A first visit, or a page of somebody who has signed in before.
Init ==
  /\ account = [u \in People |-> IF u \in Registered THEN "active" ELSE "none"]
  /\ issued = 1 /\ expired = 0
  /\ \/ cookie = Unset /\ stored = NoToken /\ user = Unset
     \/ \E u \in Registered : cookie = u /\ stored = [of |-> u, no |-> 1] /\ user = u
  /\ path = "login" /\ leaving = FALSE /\ isRefreshing = FALSE
  /\ req = [r \in Requests |-> Free]
  /\ socket = NoSocket /\ loginError = "none"
  /\ mixed = FALSE /\ sends = 0 /\ changes = 0

failedQueue == { r \in Requests : req[r].pc = "queued" }

Exists(u) == account[u] # "none"

\* validateUser and refreshTokens look at the user, not at the company.
Works(u) == u # Unset /\ account[u] \in {"active", "blocked"}

Accepts(token) == token.no > expired /\ Works(token.of)

-----------------------------------------------------------------------------
(* Requests go out with the token that is stored (the request interceptor). *)

Send(r, next) ==
  /\ req[r].pc = "idle" /\ sends < MaxSends
  /\ sends' = sends + 1
  /\ req' = [req EXCEPT ![r] = next]
  /\ UNCHANGED << server, browser, path, leaving, isRefreshing, socket, loginError, mixed, changes >>

\* A query of the page that is shown.
Load(r) ==
  /\ Shown \in Page
  /\ Send(r, [Free EXCEPT !.pc = "sent", !.kind = "data", !.token = stored])

Pending(kind) == \E r \in Requests : req[r].kind = kind

\* The login form; good says that the password is right.
SubmitLogin(r, u, good) ==
  /\ Shown = "login" /\ ~Pending("login")
  /\ Send(r, [Free EXCEPT !.pc = "sent", !.kind = "login", !.who = u, !.good = good,
                          !.token = stored])

SubmitRegister(r, u) ==
  /\ Shown = "register" /\ ~Pending("register")
  /\ Send(r, [Free EXCEPT !.pc = "sent", !.kind = "register", !.who = u, !.token = stored])

-----------------------------------------------------------------------------
(* The server.  An answer is under way once it is given.                   *)

Answer(r, pc, token) == req' = [req EXCEPT ![r].pc = pc, ![r].answer = token]

\* JwtStrategy and validateUser.
AnswerData(r) ==
  /\ req[r].pc = "sent" /\ req[r].kind = "data"
  /\ Answer(r, IF Accepts(req[r].token) THEN "ok" ELSE "unauthorized", NoToken)
  /\ UNCHANGED << server, browser, path, leaving, isRefreshing, socket, loginError, mixed,
                  sends, changes >>

\* AuthService.login.
AnswerLogin(r) ==
  LET u == req[r].who IN
  /\ req[r].pc = "sent" /\ req[r].kind = "login"
  /\ IF req[r].good /\ account[u] = "active"
     THEN issued' = issued + 1 /\ Answer(r, "ok", [of |-> u, no |-> issued + 1])
     ELSE Answer(r, "unauthorized", NoToken) /\ UNCHANGED issued
  /\ UNCHANGED << account, expired, browser, path, leaving, isRefreshing, socket, loginError,
                  mixed, sends, changes >>

\* AuthService.register: an address that is taken is a conflict, no 401.
AnswerRegister(r) ==
  LET u == req[r].who IN
  /\ req[r].pc = "sent" /\ req[r].kind = "register"
  /\ IF Exists(u) THEN Answer(r, "refused", NoToken) /\ UNCHANGED << account, issued >>
     ELSE /\ account' = [account EXCEPT ![u] = "active"]
          /\ issued' = issued + 1
          /\ Answer(r, "ok", [of |-> u, no |-> issued + 1])
  /\ UNCHANGED << expired, browser, path, leaving, isRefreshing, socket, loginError, mixed,
                  sends, changes >>

\* AuthService.refreshTokens, with the cookie the refresh was sent with.
AnswerRefresh(r) ==
  /\ req[r].pc = "refreshing"
  /\ IF Works(req[r].cookie)
     THEN issued' = issued + 1 /\ Answer(r, "granted", [of |-> req[r].cookie, no |-> issued + 1])
     ELSE Answer(r, "denied", NoToken) /\ UNCHANGED issued
  /\ UNCHANGED << account, expired, browser, path, leaving, isRefreshing, socket, loginError,
                  mixed, sends, changes >>

\* The connection fails: neither a 401 nor an answer.
Drop(r) ==
  /\ req[r].pc \in {"sent", "refreshing"}
  /\ Answer(r, IF req[r].pc = "sent" THEN "refused" ELSE "denied", NoToken)
  /\ UNCHANGED << server, browser, path, leaving, isRefreshing, socket, loginError, mixed,
                  sends, changes >>

-----------------------------------------------------------------------------
(* The page.                                                               *)

UnderRefresh == { "refreshing", "granted", "denied" }

Crossed(q) ==
  [r \in Requests |-> IF q[r].pc \in UnderRefresh THEN [q[r] EXCEPT !.crossed = TRUE] ELSE q[r]]

\* Mutant: the token stays in local storage.
ClearKeepsToken(q) ==
  user' = Unset /\ mixed' = FALSE /\ req' = Crossed(q) /\ socket' = NoSocket /\ UNCHANGED stored

\* clearAuth and disconnectSocket, the requests being as in q.
clearAuth(q) ==
  /\ stored' = NoToken /\ user' = Unset
  /\ socket' = NoSocket
  /\ mixed' = FALSE
  /\ req' = Crossed(q)

\* clearAuth and window.location.
GiveUp(q) == clearAuth(q) /\ leaving' = TRUE

\* A rejected login leaves its error on the screen.
Says(kind, text) == IF kind = "login" THEN text ELSE loginError

\* An answer that is no 401.
HandleAnswer(r) ==
  /\ req[r].pc \in {"ok", "refused"}
  /\ IF req[r].pc = "ok" /\ req[r].kind \in {"login", "register"}
     THEN /\ cookie' = req[r].answer.of
          /\ stored' = req[r].answer /\ user' = req[r].answer.of
          /\ req' = Crossed([req EXCEPT ![r] = Free])
          /\ path' = "dispatcher" /\ loginError' = "none" /\ mixed' = FALSE
          /\ socket' = [socket EXCEPT !.odd = user # Unset]
     ELSE /\ req' = [req EXCEPT ![r] = Free]
          /\ loginError' = IF req[r].pc = "refused" THEN Says(req[r].kind, "other") ELSE loginError
          /\ UNCHANGED << browser, path, socket, mixed >>
  /\ UNCHANGED << server, leaving, isRefreshing, sends, changes >>

\* A 401: give up after a retry, wait for the refresh under way, or start one.
HandleUnauthorized(r) ==
  /\ req[r].pc = "unauthorized"
  /\ \/ /\ req[r].retry
        /\ GiveUp([req EXCEPT ![r] = Free])
        /\ loginError' = Says(req[r].kind, "credentials")
        /\ UNCHANGED isRefreshing
     \/ /\ ~req[r].retry /\ isRefreshing
        /\ req' = [req EXCEPT ![r].pc = "queued"]
        /\ UNCHANGED << stored, user, socket, mixed, leaving, loginError, isRefreshing >>
     \/ /\ ~req[r].retry /\ ~isRefreshing
        /\ req' = [req EXCEPT ![r].pc = "refreshing", ![r].retry = TRUE, ![r].cookie = cookie,
                              ![r].crossed = FALSE]
        /\ isRefreshing' = TRUE
        /\ UNCHANGED << stored, user, socket, mixed, leaving, loginError >>
  /\ UNCHANGED << server, cookie, path, sends, changes >>

\* Mutant: only the request that started the refresh is sent again.
ResendOne(r, token) ==
  [q \in Requests |->
     IF q = r THEN [req[q] EXCEPT !.pc = "sent", !.token = token, !.crossed = FALSE] ELSE req[q]]

\* processQueue, then the request itself: they go out again with the new token.
Resend(r, token) ==
  [q \in Requests |->
     IF q = r \/ q \in failedQueue
     THEN [req[q] EXCEPT !.pc = "sent", !.token = token, !.crossed = FALSE] ELSE req[q]]

\* The refresh has succeeded.
HandleGranted(r) ==
  /\ req[r].pc = "granted"
  /\ cookie' = req[r].answer.of
  /\ stored' = req[r].answer
  /\ req' = Resend(r, req[r].answer)
  /\ isRefreshing' = FALSE
  /\ mixed' = (mixed \/ req[r].crossed \/ user = Unset)
  /\ UNCHANGED << server, user, path, leaving, socket, loginError, sends, changes >>

\* The refresh has failed: everybody who waits is rejected with its error.
HandleDenied(r) ==
  LET rejected == failedQueue \cup {r} IN
  /\ req[r].pc = "denied"
  /\ GiveUp([q \in Requests |-> IF q \in rejected THEN Free ELSE req[q]])
  /\ isRefreshing' = FALSE
  /\ loginError' = IF \E q \in rejected : req[q].kind = "login" THEN "refresh" ELSE loginError
  /\ UNCHANGED << server, cookie, path, sends, changes >>

\* The button of the top bar.
SignOut ==
  /\ user # Unset
  /\ clearAuth(req)
  /\ path' = "login"
  /\ UNCHANGED << server, cookie, leaving, isRefreshing, loginError, sends, changes >>

\* The sidebar, and the links between the two forms.  The dispatcher's page closes its
\* socket when it is left.
Navigate(p) ==
  /\ IF user = Unset THEN p \in {"login", "register"} ELSE p \in visibleItems \cap Tour
  /\ p # path
  /\ path' = p /\ loginError' = "none"
  /\ UNCHANGED << server, browser, leaving, isRefreshing, req, mixed, sends, changes >>
  /\ socket' = IF Shown' = "dispatcher" THEN socket ELSE NoSocket

\* A new page: what the old one was doing is gone, the storage stays.
NewPage(p) ==
  /\ path' = p /\ leaving' = FALSE /\ isRefreshing' = FALSE
  /\ req' = [r \in Requests |-> Free]
  /\ socket' = NoSocket /\ loginError' = "none"
  /\ UNCHANGED << server, browser, mixed, sends >>

Leave == leaving /\ NewPage("login") /\ UNCHANGED changes

Reload == changes < MaxChanges /\ changes' = changes + 1 /\ NewPage(path)

-----------------------------------------------------------------------------
(* The socket (getSocket, useSocket, SocketAuthService).  Only the one the *)
(* page listens to: disconnectSocket does not close a socket that is still *)
(* opening, but nothing listens to it any more.                            *)

\* The dispatcher's page connects once, when it is mounted.
Connect ==
  /\ Shown = "dispatcher" /\ socket.pc = "none"
  /\ socket' = [pc |-> "opening", token |-> stored, odd |-> mixed]
  /\ UNCHANGED << server, browser, path, leaving, isRefreshing, req, loginError, mixed, sends,
                  changes >>

\* A refused socket is closed by the server and does not try again by itself.
authenticateSocket ==
  /\ socket.pc = "opening"
  /\ socket' = [socket EXCEPT !.pc = IF Accepts(socket.token) THEN "up" ELSE "down"]
  /\ UNCHANGED << server, browser, path, leaving, isRefreshing, req, loginError, mixed, sends,
                  changes >>

-----------------------------------------------------------------------------
(* Around the page.                                                        *)

\* Fifteen minutes have passed for the oldest token.
Expire ==
  /\ expired < issued /\ expired < MaxExpiries
  /\ expired' = expired + 1
  /\ UNCHANGED << account, issued, browser, page, mixed, sends, changes >>

\* An administrator switches the account off or on, or its company is suspended.
Administer(u, state) ==
  /\ Exists(u) /\ state # account[u]
  /\ changes < MaxChanges /\ changes' = changes + 1
  /\ account' = [account EXCEPT ![u] = state]
  /\ UNCHANGED << issued, expired, browser, page, mixed, sends >>

-----------------------------------------------------------------------------
Answers(r) == AnswerData(r) \/ AnswerLogin(r) \/ AnswerRegister(r) \/ AnswerRefresh(r)

Handles(r) == HandleAnswer(r) \/ HandleUnauthorized(r) \/ HandleGranted(r) \/ HandleDenied(r)

Person ==
  \/ \E r \in Requests :
       \/ Load(r)
       \/ \E u \in People : SubmitRegister(r, u) \/ \E good \in BOOLEAN : SubmitLogin(r, u, good)
  \/ SignOut \/ Reload
  \/ \E p \in Page \cup {"login", "register"} : Navigate(p)

World ==
  \/ \E r \in Requests : Drop(r)
  \/ Expire
  \/ \E u \in People, state \in {"active", "disabled", "blocked"} : Administer(u, state)

Next ==
  \/ Person \/ World
  \/ \E r \in Requests : Answers(r) \/ Handles(r)
  \/ Leave \/ Connect \/ authenticateSocket

\* Answers arrive and are handled, and a page that was asked for replaces the old one.
Fairness ==
  /\ \A r \in Requests : WF_vars(Answers(r)) /\ WF_vars(Handles(r))
  /\ WF_vars(Leave)

Spec == Init /\ [][Next]_vars /\ Fairness

-----------------------------------------------------------------------------
(* Properties.                                                             *)

\* Types of the server's, the browser's and the page's state.
SessionTypeOK ==
  /\ account \in [People -> Account]
  /\ issued \in Nat /\ expired \in Nat /\ sends \in Nat /\ changes \in Nat
  /\ cookie \in People \cup {Unset} /\ user \in People \cup {Unset}
  /\ stored \in Token
  /\ path \in Page \cup {"login", "register"}
  /\ leaving \in BOOLEAN /\ isRefreshing \in BOOLEAN /\ mixed \in BOOLEAN
  /\ req \in [Requests -> Request]
  /\ socket \in Socket
  /\ loginError \in {"none", "credentials", "refresh", "other"}

\* One refresh is under way at a time, exactly while isRefreshing says so, and
\* nothing waits for a refresh that is over (the interceptor of http-client.ts).
OneRefresh ==
  /\ isRefreshing <=> \E r \in Requests : req[r].pc \in UnderRefresh
  /\ \A r, q \in Requests :
       req[r].pc \in UnderRefresh /\ req[q].pc \in UnderRefresh => r = q
  /\ failedQueue # {} => isRefreshing

\* While somebody is signed in, the stored token is theirs, unless somebody has signed in
\* or out during the refresh that brought it: http-client.ts stores a new token without
\* asking whose session it belongs to.  While nobody is, none is stored, unless a refresh
\* has ended since they were signed out: the cookie stays behind, and a 401, that for a
\* wrong password included, starts a refresh with it.
TokenFitsUser == mixed \/ stored.of = user

\* The socket the page listens to is the signed-in user's, unless it was opened with a token
\* that is not, or somebody signed in while somebody else still was, which leaves the open
\* socket alone (clearAuth drops the socket, connecting reads the stored token).
SocketFitsUser ==
  socket.pc \in {"opening", "up"} => user # Unset /\ (socket.odd \/ socket.token.of = user)

\* Together: what the browser keeps of a session is the signed-in user's, but for these
\* exceptions.
StoreFitsUser == TokenFitsUser /\ SocketFitsUser

\* Every request is settled in the end, those that wait for a refresh included.
RequestsSettle == \A r \in Requests : req[r].pc # "idle" ~> req[r].pc = "idle"

=============================================================================
