------------------------------ MODULE Accounts ------------------------------
(***************************************************************************)
(* Users of companies and the profiles that follow their role              *)
(* (UsersService, CouriersService, DispatchersService, registration).      *)
(*                                                                         *)
(* A call reads in one step and writes in a later one.  What UsersService  *)
(* writes is one transaction that locks the row of the user first, so its  *)
(* writes take effect together; the profiles it has read before may be old *)
(* by then.  Availability of a courier is read, checked and updated by id, *)
(* outside any transaction.                                                *)
(*                                                                         *)
(* History: the field stale of a call says that its target was written     *)
(* since it was read; raced holds the couriers last toggled by such a      *)
(* call.                                                                   *)
(***************************************************************************)
EXTENDS RequestScope, Naturals, FiniteSets

CONSTANTS
  Users,    \* the rows users can have
  Emails,   \* the addresses in use
  Threads,  \* calls of users that can be in flight at the same time
  Start,    \* the users there are at first, a row each
  MaxCalls  \* bound: calls observed

ASSUME AccountsAssumption ==
  /\ Unset \notin Companies \cup Users \cup Emails \cup Role
  /\ MaxCalls \in Nat
  /\ Start \in [Users -> [company : Companies \cup {Unset}, role : Role,
                          active : BOOLEAN, email : Emails \cup {Unset}]]

VARIABLES
  company,    \* companies.status
  users,      \* the users table
  courier,    \* couriers.status by user, none without a profile
  dispatcher, \* dispatchers.is_active by user
  located,    \* the couriers with a known place
  call,       \* what each call is doing
  raced,      \* couriers whose status was last toggled by an overtaken call
  made        \* calls made so far

data == << company, users, courier, dispatcher, located >>
vars == << data, call, raced, made >>

-----------------------------------------------------------------------------
CompanyStatus == { "none", "active", "inactive", "suspended", "trial", "pending_setup", "archived" }

CourierStatus == { "none", "inactive", "available", "busy", "offline", "suspended" }

Profile == { "none", "active", "inactive" }

Person == [company : Companies \cup {Unset}, role : Role, active : BOOLEAN,
           email : Emails \cup {Unset}]

\* UpdateUserDto: the fields that are given.  phone, names and password stand
\* for the edit that gives none of these.
Dto == [role : Role \cup {Unset}, active : BOOLEAN \cup {Unset}, email : Emails \cup {Unset}]

\* previous: role and profiles of the user as they were read.
Call == [pc : {"idle", "write"},
         op : {"none", "create", "update", "status", "location", "register"},
         scope : Companies \cup {Unset}, target : Users \cup {Unset},
         dto : Dto, status : CourierStatus,
         role : Role \cup {Unset}, courier : CourierStatus, dispatcher : Profile,
         stale : BOOLEAN]

NoDto == [role |-> Unset, active |-> Unset, email |-> Unset]

Idle == [pc |-> "idle", op |-> "none", scope |-> Unset, target |-> Unset, dto |-> NoDto,
         status |-> "none", role |-> Unset, courier |-> "none", dispatcher |-> "none",
         stale |-> FALSE]

Exists(u) == users[u].company # Unset

CourierStart(p) ==
  IF p.company = Unset \/ p.role # "courier" THEN "none"
  ELSE IF p.active THEN "available" ELSE "inactive"

DispatcherStart(p) ==
  IF p.company = Unset \/ p.role # "dispatcher" THEN "none"
  ELSE IF p.active THEN "active" ELSE "inactive"

Init ==
  /\ users      = Start
  /\ company    = [c \in Companies |->
                     IF \E u \in Users : Start[u].company = c THEN "active" ELSE "none"]
  /\ courier    = [u \in Users |-> CourierStart(Start[u])]
  /\ dispatcher = [u \in Users |-> DispatcherStart(Start[u])]
  /\ located    = {}
  /\ call       = [t \in Threads |-> Idle]
  /\ raced      = {}
  /\ made       = 0

-----------------------------------------------------------------------------
(* Calls.                                                                  *)

\* validateUser: the identity is read from the table, not from the token.
Identity(u) ==
  IF Exists(u) /\ users[u].active THEN TenantUser(u, users[u].company, users[u].role) ELSE Nobody

MayBegin(t) == call[t].pc = "idle" /\ made < MaxCalls

Begin(t, next) ==
  /\ MayBegin(t)
  /\ made' = made + 1
  /\ call' = [call EXCEPT ![t] = next]
  /\ UNCHANGED << data, raced >>

\* Thread t is done; calls in flight for one of the users written work with old reads.
Done(t, written) ==
  call' = [x \in Threads |->
             IF x = t THEN Idle
             ELSE IF call[x].target \in written THEN [call[x] EXCEPT !.stale = TRUE]
             ELSE call[x]]

\* Any call may end early: an exception rolls its transaction back.
Fail(t) ==
  /\ call[t].pc # "idle"
  /\ call' = [call EXCEPT ![t] = Idle]
  /\ UNCHANGED << data, raced, made >>

UsersRoute == TenantRoute({"admin"}, {"manage:users"})

CouriersRoute == TenantRoute({"admin", "dispatcher"}, {"manage:couriers"})

LocationRoute == TenantRoute({"admin", "dispatcher", "courier"}, {})

RegisterRoute == Route(TRUE, FALSE, {}, {})

\* The unique index on company and email.
EmailTaken(c, email, except) ==
  \E u \in Users \ {except} : users[u].company = c /\ users[u].email = email

-----------------------------------------------------------------------------
(* Profiles follow the role.                                               *)

\* Mutant: an active user's profile starts over with every edit.
ResolveAfresh(active, previousRole, previousStatus) == IF active THEN "offline" ELSE "inactive"

resolveCourierStatus(active, previousRole, previousStatus) ==
  IF ~active THEN "inactive"
  ELSE IF previousRole # "courier" THEN "offline"
  ELSE IF previousStatus \in {"none", "inactive"} THEN "offline"
  ELSE previousStatus

\* A profile that was there when it was read is not read again.
CourierProfile(t, u) == IF call[t].courier # "none" THEN call[t].courier ELSE courier[u]

DispatcherProfile(t, u) == IF call[t].dispatcher # "none" THEN call[t].dispatcher ELSE dispatcher[u]

\* Mutant: the dispatcher profile is the one read before the lock, if any.
SyncWithoutReread(t, u, nextRole, active) ==
  /\ courier' = [courier EXCEPT ![u] =
       IF nextRole = "courier" THEN resolveCourierStatus(active, call[t].role, CourierProfile(t, u))
       ELSE IF CourierProfile(t, u) # "none" THEN "inactive" ELSE courier[u]]
  /\ dispatcher' = [dispatcher EXCEPT ![u] =
       IF nextRole = "dispatcher" THEN IF active THEN "active" ELSE "inactive"
       ELSE IF call[t].dispatcher # "none" THEN "inactive" ELSE dispatcher[u]]

syncRoleProfiles(t, u, nextRole, active) ==
  /\ courier' = [courier EXCEPT ![u] =
       IF nextRole = "courier" THEN
            IF courier[u] = "none" THEN IF active THEN "offline" ELSE "inactive"
            ELSE resolveCourierStatus(active, call[t].role, CourierProfile(t, u))
       ELSE IF CourierProfile(t, u) # "none" THEN "inactive" ELSE courier[u]]
  /\ dispatcher' = [dispatcher EXCEPT ![u] =
       IF nextRole = "dispatcher" THEN IF active THEN "active" ELSE "inactive"
       ELSE IF DispatcherProfile(t, u) # "none" THEN "inactive" ELSE dispatcher[u]]

-----------------------------------------------------------------------------
(* UsersService.                                                           *)

\* createUser by who: is the address free?
CreateUser(t, who, role, email) ==
  LET ctx == runWithTenant(who.company) IN
  /\ Admitted(UsersRoute, who)
  /\ ~EmailTaken(ctx.companyId, email, Unset)
  /\ Begin(t, [Idle EXCEPT !.pc = "write", !.op = "create", !.scope = ctx.companyId,
                           !.dto = [role |-> role, active |-> TRUE, email |-> email]])

\* The insert, with its profile.  u is the new row.
CreateUserWrite(t, u) ==
  LET c == CompanyOfNew(runWithTenant(call[t].scope), "User", call[t].scope) IN
  /\ call[t].pc = "write" /\ call[t].op = "create"
  /\ c # Unset /\ ~Exists(u)
  /\ ~EmailTaken(c, call[t].dto.email, u)
  /\ users' = [users EXCEPT ![u] = [company |-> c, role |-> call[t].dto.role, active |-> TRUE,
                                    email |-> call[t].dto.email]]
  /\ syncRoleProfiles(t, u, call[t].dto.role, TRUE)
  /\ Done(t, {u})
  /\ UNCHANGED << company, located, raced, made >>

\* updateUser by who: the user with its profiles, then the address.
UpdateUser(t, who, u, dto) ==
  LET ctx == runWithTenant(who.company) IN
  /\ Admitted(UsersRoute, who)
  /\ Exists(u) /\ Reaches(ctx, "User", "findFirst", users[u].company)
  /\ dto.email \notin {Unset, users[u].email} => ~EmailTaken(ctx.companyId, dto.email, u)
  /\ Begin(t, [Idle EXCEPT !.pc = "write", !.op = "update", !.scope = ctx.companyId,
                           !.target = u, !.dto = dto, !.role = users[u].role,
                           !.courier = courier[u], !.dispatcher = dispatcher[u]])

Given(new, old) == IF new = Unset THEN old ELSE new

\* The update writes what was given; the profiles follow the row it returns.
UpdateUserWrite(t) ==
  LET u   == call[t].target
      dto == call[t].dto
      row == [users[u] EXCEPT !.role = Given(dto.role, @), !.active = Given(dto.active, @),
                              !.email = Given(dto.email, @)] IN
  /\ call[t].pc = "write" /\ call[t].op = "update"
  /\ Reaches(runWithTenant(call[t].scope), "User", "update", users[u].company)
  /\ ~EmailTaken(users[u].company, row.email, u)
  /\ users' = [users EXCEPT ![u] = row]
  /\ syncRoleProfiles(t, u, row.role, row.active)
  /\ raced' = raced \ {u}
  /\ Done(t, {u})
  /\ UNCHANGED << company, located, made >>

-----------------------------------------------------------------------------
(* CouriersService and DispatchersService.                                 *)

\* updateCourierStatus: only the profile of an active user that is neither
\* inactive nor suspended is toggled.
UpdateCourierStatus(t, who, u, status) ==
  LET ctx == runWithTenant(who.company) IN
  /\ Admitted(CouriersRoute, who)
  /\ courier[u] # "none" /\ Reaches(ctx, "Courier", "findFirst", users[u].company)
  /\ users[u].active
  /\ courier[u] \notin {"inactive", "suspended"}
  /\ Begin(t, [Idle EXCEPT !.pc = "write", !.op = "status", !.scope = ctx.companyId,
                           !.target = u, !.status = status])

UpdateCourierStatusWrite(t) ==
  LET u == call[t].target IN
  /\ call[t].pc = "write" /\ call[t].op = "status"
  /\ Reaches(runWithTenant(call[t].scope), "Courier", "update", users[u].company)
  /\ courier' = [courier EXCEPT ![u] = call[t].status]
  /\ raced' = IF call[t].stale THEN raced \cup {u} ELSE raced
  /\ Done(t, {u})
  /\ UNCHANGED << company, users, dispatcher, located, made >>

\* updateCourierLocation: a courier only for itself, whatever the profile's status.
UpdateCourierLocation(t, who, u) ==
  LET ctx == runWithTenant(who.company) IN
  /\ Admitted(LocationRoute, who)
  /\ courier[u] # "none" /\ Reaches(ctx, "Courier", "findFirst", users[u].company)
  /\ who.role = "courier" => who.id = u
  /\ Begin(t, [Idle EXCEPT !.pc = "write", !.op = "location", !.scope = ctx.companyId,
                           !.target = u])

UpdateCourierLocationWrite(t) ==
  LET u == call[t].target IN
  /\ call[t].pc = "write" /\ call[t].op = "location"
  /\ Reaches(runWithTenant(call[t].scope), "Courier", "update", users[u].company)
  /\ located' = located \cup {u}
  /\ Done(t, {})
  /\ UNCHANGED << company, users, courier, dispatcher, raced, made >>

\* What a company is shown: its users, couriers and dispatchers; the couriers of users
\* who left stay on their list, their dispatchers do not.
listUsers(c) == { u \in Users : Exists(u) /\ Reaches(runWithTenant(c), "User", "findMany", users[u].company) }

listCouriers(c) ==
  { u \in Users : courier[u] # "none" /\ Reaches(runWithTenant(c), "Courier", "findMany", users[u].company) }

listDispatchers(c) ==
  { u \in Users : /\ Reaches(runWithTenant(c), "Dispatcher", "findMany", users[u].company)
                  /\ Exists(u) /\ dispatcher[u] = "active"
                  /\ users[u].active /\ users[u].role = "dispatcher" }

-----------------------------------------------------------------------------
(* AuthService.register: a company and its first administrator.            *)

Register(t, email) ==
  /\ Admitted(RegisterRoute, Nobody)
  /\ \A u \in Users : users[u].email # email
  /\ Begin(t, [Idle EXCEPT !.pc = "write", !.op = "register",
                           !.dto = [role |-> "admin", active |-> TRUE, email |-> email]])

RegisterWrite(t, c, u) ==
  /\ call[t].pc = "write" /\ call[t].op = "register"
  /\ company[c] = "none" /\ ~Exists(u)
  /\ company' = [company EXCEPT ![c] = "active"]
  /\ users' = [users EXCEPT ![u] = [company |-> c, role |-> "admin", active |-> TRUE,
                                    email |-> call[t].dto.email]]
  /\ Done(t, {u})
  /\ UNCHANGED << courier, dispatcher, located, raced, made >>

-----------------------------------------------------------------------------
Asks(t, who) ==
  /\ MayBegin(t) /\ who # Nobody
  /\ \/ \E role \in Role, email \in Emails : CreateUser(t, who, role, email)
     \/ \E u \in Users, dto \in Dto : UpdateUser(t, who, u, dto)
     \/ \E u \in Users, status \in {"available", "offline"} : UpdateCourierStatus(t, who, u, status)
     \/ \E u \in Users : UpdateCourierLocation(t, who, u)

Writes(t) ==
  \/ \E u \in Users : CreateUserWrite(t, u)
  \/ UpdateUserWrite(t)
  \/ UpdateCourierStatusWrite(t)
  \/ UpdateCourierLocationWrite(t)
  \/ \E c \in Companies, u \in Users : RegisterWrite(t, c, u)

Step(t) ==
  \/ \E a \in Users : Asks(t, Identity(a))
  \/ MayBegin(t) /\ \E email \in Emails : Register(t, email)
  \/ Writes(t)
  \/ Fail(t)

Next == \E t \in Threads : Step(t)

Spec == Init /\ [][Next]_vars

-----------------------------------------------------------------------------
(* Properties.                                                             *)

\* Types of the tables and of the calls in flight.
AccountsTypeOK ==
  /\ company    \in [Companies -> CompanyStatus]
  /\ users      \in [Users -> Person]
  /\ courier    \in [Users -> CourierStatus]
  /\ dispatcher \in [Users -> Profile]
  /\ located    \subseteq Users
  /\ call       \in [Threads -> Call]
  /\ raced      \subseteq Users
  /\ made       \in Nat

\* However edits of a user interleave, a dispatcher profile is active exactly
\* while its user is an active dispatcher (UsersService.syncRoleProfiles, although
\* it works with profiles it has read before it had the lock).
DispatcherFollowsUser ==
  \A u \in Users :
    dispatcher[u] = "active" <=> Exists(u) /\ users[u].role = "dispatcher" /\ users[u].active

\* An active courier always has a profile that can be used; a profile that can be
\* used belongs to an active courier, unless its status was last toggled by a call
\* that had read it before an edit of the user (CouriersService.updateCourierStatus
\* updates by id what it has checked before).
CourierFollowsUser ==
  \A u \in Users :
    LET works == Exists(u) /\ users[u].role = "courier" /\ users[u].active IN
    /\ works => courier[u] \notin {"none", "inactive"}
    /\ courier[u] \notin {"none", "inactive"} => works \/ u \in raced

\* Together: whatever edits race, the profiles are those of the user's role.
ProfilesFollowUser == DispatcherFollowsUser /\ CourierFollowsUser

EditKeepsAvailability ==
  \A t \in Threads :
    LET u == call[t].target IN
    /\ call[t].op = "update" /\ call'[t].pc = "idle"
    /\ ~call[t].stale /\ u \notin raced
    /\ users'[u].role = users[u].role /\ users'[u].active = users[u].active
    => courier'[u] = courier[u]

\* An edit of a user that leaves role and activity as they are leaves the
\* availability that a dispatcher has given the courier, unless the availability
\* was changed between the read and the write of the edit
\* (UsersService.resolveCourierStatus writes back what was read).
AvailabilityKept == [][EditKeepsAvailability]_vars

Row(u) == << users[u], courier[u], dispatcher[u], u \in located >>

WritesOwn ==
  \A u \in Users :
    Row(u)' # Row(u) =>
      /\ Exists(u) => users'[u].company = users[u].company
      /\ \A t \in Threads :
           call[t].pc # call'[t].pc =>
             call[t].scope = users'[u].company \/ call[t].op = "register"

ListsOwn ==
  \A c \in Companies :
    \A u \in listUsers(c) \cup listCouriers(c) \cup listDispatchers(c) : users[u].company = c

\* A call writes rows of the company of its caller only, no row changes its company,
\* and the lists of a company hold its own rows (the tenant isolation of the Prisma
\* client).
TenantIsolation == [][WritesOwn /\ ListsOwn]_vars

=============================================================================
