--------------------------- MODULE PlatformProofs ---------------------------
(***************************************************************************)
(* Proofs about Platform, with the accounts and the settings it composes,  *)
(* for any set of companies, users, calls and administrators.              *)
(*                                                                         *)
(* The argument: a call or a deed that nobody has overtaken still sees     *)
(* what it has read.  What is checked at the read therefore holds at the   *)
(* write, and the write keeps the properties; an overtaken write leaves a  *)
(* mark that the properties except.                                        *)
(***************************************************************************)
EXTENDS Platform, TLAPS

-----------------------------------------------------------------------------
(* Requests.                                                               *)

Who == [kind : {"none", "tenant", "impersonation", "platform"}, id : Users \cup Admins \cup {Unset},
        company : Companies \cup {Unset}, role : Role \cup {Unset}]

\* A query by id in the context of a company reaches rows of that company only.
LEMMA ReachesOwn ==
  ASSUME NEW c, NEW k, NEW model \in TENANT_SCOPED_MODELS, NEW action \in READ_ACTIONS,
         Reaches(runWithTenant(c), model, action, k)
  PROVE  c # Unset /\ k = c
  BY DEF Reaches, runWithTenant, Refused, applyTenantIsolation

\* A row that is created in the context of a company is a row of that company.
LEMMA NewIsOwn ==
  ASSUME NEW c, NEW model \in TENANT_SCOPED_MODELS
  PROVE  CompanyOfNew(runWithTenant(c), model, c) = c
  BY DEF CompanyOfNew, runWithTenant, Refused, Violates, applyTenantIsolation, CREATE_ACTIONS

\* The models and the actions that the services use.
LEMMA Queries ==
  /\ {"User", "Courier", "Dispatcher", "Zone"} \subseteq TENANT_SCOPED_MODELS
  /\ {"findFirst", "findMany", "update"} \subseteq READ_ACTIONS
  BY DEF TENANT_SCOPED_MODELS, READ_ACTIONS, UPDATE_ACTIONS

-----------------------------------------------------------------------------
(* Users and their profiles.                                               *)

IsCourier(u) == Exists(u) /\ users[u].role = "courier"

\* What a call in flight has been given and has read.
FitsCall(x) ==
  /\ x.op # "none" => x.pc = "write"
  /\ x.op \in {"update", "status", "location"} => x.target \in Users /\ Exists(x.target)
  /\ x.op = "create" =>
       /\ x.dto.role \in Role
       /\ x.role = Unset /\ x.courier = "none" /\ x.dispatcher = "none"
  /\ x.op = "status" => x.status \in {"available", "offline"}

CallsFit == \A t \in Threads : FitsCall(call[t])

\* A courier, active or not, has a profile.
CouriersHaveProfiles == \A u \in Users : IsCourier(u) => courier[u] # "none"

\* What was read, or checked, by a call that was not overtaken still holds.
ReadStands(x) ==
  ~x.stale =>
    /\ x.op = "status" => (IsCourier(x.target) /\ users[x.target].active) \/ x.target \in raced
    /\ x.op = "update" => x.role = users[x.target].role /\ x.courier = courier[x.target]

ReadsStand == \A t \in Threads : ReadStands(call[t])

AccountsInv ==
  AccountsTypeOK /\ CallsFit /\ CouriersHaveProfiles /\ ReadsStand /\ ProfilesFollowUser

LEMMA RowTyped ==
  ASSUME AccountsTypeOK, NEW u \in Users
  PROVE  users[u] \in Person /\ courier[u] \in CourierStatus /\ dispatcher[u] \in Profile
  BY DEF AccountsTypeOK

LEMMA CallTyped ==
  ASSUME AccountsTypeOK, NEW t \in Threads
  PROVE  call[t] \in Call
  BY DEF AccountsTypeOK

LEMMA IdleTyped == Idle \in Call
  BY DEF Idle, Call, NoDto, Dto, CourierStatus, Profile

LEMMA IdleOp == Idle.op = "none"
  BY DEF Idle

LEMMA StaleTyped ==
  ASSUME NEW x \in Call
  PROVE  [x EXCEPT !.stale = TRUE] \in Call
  BY DEF Call

LEMMA AccountsStart == Init => AccountsInv
  <1> SUFFICES ASSUME Init PROVE AccountsInv
    OBVIOUS
  <1>1. AccountsTypeOK
    BY IdleTyped, AccountsAssumption
       DEF Init, AccountsTypeOK, Person, CourierStart, DispatcherStart, CourierStatus, Profile,
           CompanyStatus
  <1>2. CallsFit /\ ReadsStand
    BY DEF Init, CallsFit, FitsCall, ReadsStand, ReadStands, Idle
  <1>3. CouriersHaveProfiles /\ ProfilesFollowUser
    BY DEF Init, CouriersHaveProfiles, IsCourier, Exists, CourierStart, DispatcherStart,
           ProfilesFollowUser, DispatcherFollowsUser, CourierFollowsUser
  <1> QED
    BY <1>1, <1>2, <1>3 DEF AccountsInv

LEMMA BeginKeeps ==
  ASSUME AccountsInv, NEW t \in Threads, NEW next \in Call, Begin(t, next),
         FitsCall(next), ReadStands(next)
  PROVE  AccountsInv'
  <1>1. UNCHANGED << company, users, courier, dispatcher, located, raced >> /\ made' = made + 1
    BY DEF Begin, data
  <1>2. call' = [call EXCEPT ![t] = next] /\ call \in [Threads -> Call]
    BY DEF Begin, AccountsInv, AccountsTypeOK
  <1>3. AccountsTypeOK'
    BY <1>1, <1>2 DEF AccountsInv, AccountsTypeOK
  <1>4. CallsFit' /\ ReadsStand'
    <2> SUFFICES ASSUME NEW x \in Threads
                 PROVE  FitsCall(call[x])' /\ ReadStands(call[x])'
      BY DEF CallsFit, ReadsStand
    <2>1. FitsCall(call'[x]) /\ ReadStands(call'[x])
      BY <1>2 DEF AccountsInv, CallsFit, ReadsStand
    <2> QED
      BY <1>1, <2>1 DEF FitsCall, ReadStands, Exists, IsCourier
  <1>5. CouriersHaveProfiles' /\ ProfilesFollowUser'
    BY <1>1 DEF AccountsInv, CouriersHaveProfiles, IsCourier, Exists, ProfilesFollowUser,
                DispatcherFollowsUser, CourierFollowsUser
  <1> QED
    BY <1>3, <1>4, <1>5 DEF AccountsInv

\* A call that ends without a write.
LEMMA EndKeeps ==
  ASSUME AccountsInv, NEW t \in Threads, call' = [call EXCEPT ![t] = Idle],
         UNCHANGED << company, users, courier, dispatcher, raced, made >>,
         located' \subseteq Users
  PROVE  AccountsInv'
  <1>1. AccountsTypeOK'
    BY IdleTyped DEF AccountsInv, AccountsTypeOK
  <1>2. CallsFit' /\ ReadsStand'
    <2> SUFFICES ASSUME NEW x \in Threads
                 PROVE  FitsCall(call[x])' /\ ReadStands(call[x])'
      BY DEF CallsFit, ReadsStand
    <2>1. FitsCall(call'[x]) /\ ReadStands(call'[x])
      BY DEF AccountsInv, AccountsTypeOK, CallsFit, ReadsStand, FitsCall, ReadStands, Idle
    <2> QED
      BY <2>1 DEF FitsCall, ReadStands, Exists, IsCourier
  <1>3. CouriersHaveProfiles' /\ ProfilesFollowUser'
    BY DEF AccountsInv, CouriersHaveProfiles, IsCourier, Exists, ProfilesFollowUser,
           DispatcherFollowsUser, CourierFollowsUser
  <1> QED
    BY <1>1, <1>2, <1>3 DEF AccountsInv

\* A write of one user with its profiles, after which calls for that user are overtaken.
LEMMA WriteKeeps ==
  ASSUME AccountsInv, NEW t \in Threads, NEW u \in Users,
         NEW row \in Person, NEW cs \in CourierStatus, NEW ds \in Profile,
         users' = [users EXCEPT ![u] = row], courier' = [courier EXCEPT ![u] = cs],
         dispatcher' = [dispatcher EXCEPT ![u] = ds], Done(t, {u}),
         raced' \in {raced, raced \cup {u}, raced \ {u}},
         company' \in [Companies -> CompanyStatus], UNCHANGED << located, made >>,
         row.company # Unset,
         ds = "active" <=> row.role = "dispatcher" /\ row.active,
         row.role = "courier" => cs # "none",
         row.role = "courier" /\ row.active => cs # "inactive",
         cs \notin {"none", "inactive"} => (row.role = "courier" /\ row.active) \/ u \in raced'
  PROVE  AccountsInv'
  <1>1. AccountsTypeOK /\ CallsFit /\ CouriersHaveProfiles /\ ReadsStand /\ ProfilesFollowUser
    BY DEF AccountsInv
  <1>2. \A x \in Threads : call'[x] = IF x = t THEN Idle
          ELSE IF call[x].target = u THEN [call[x] EXCEPT !.stale = TRUE] ELSE call[x]
    BY DEF Done
  <1>3. AccountsTypeOK'
    <2>1. \A x \in Threads : call'[x] \in Call
      BY <1>1, <1>2, IdleTyped, StaleTyped DEF AccountsTypeOK
    <2>2. call' \in [Threads -> Call]
      BY <2>1 DEF Done
    <2> QED
      BY <1>1, <2>2 DEF AccountsTypeOK
  <1>4. ASSUME NEW v \in Users
        PROVE  /\ users'[v] = IF v = u THEN row ELSE users[v]
               /\ courier'[v] = IF v = u THEN cs ELSE courier[v]
               /\ dispatcher'[v] = IF v = u THEN ds ELSE dispatcher[v]
    BY <1>1 DEF AccountsTypeOK
  <1>5. \A v \in Users : Exists(v) => Exists(v)'
    BY <1>4 DEF Exists
  <1>6. CallsFit' /\ ReadsStand'
    <2> SUFFICES ASSUME NEW x \in Threads
                 PROVE  FitsCall(call[x])' /\ ReadStands(call[x])'
      BY DEF CallsFit, ReadsStand
    <2>1. CASE x = t
      BY <1>2, <2>1, IdleOp DEF FitsCall, ReadStands
    <2>2. CASE x # t
      <3>1. call[x] \in Call /\ FitsCall(call[x]) /\ ReadStands(call[x])
        BY <1>1 DEF CallsFit, ReadsStand, AccountsTypeOK
      <3>2. FitsCall(call[x])'
        BY <1>2, <1>5, <2>2, <3>1 DEF FitsCall, Call
      <3>3. CASE call[x].target = u
        BY <1>2, <2>2, <3>1, <3>2, <3>3 DEF ReadStands, Call
      <3>4. CASE call[x].target # u
        <4>1. call'[x] = call[x]
          BY <1>2, <2>2, <3>4
        <4>2. CASE call[x].op \in {"update", "status"}
          <5>1. call[x].target \in Users /\ Exists(call[x].target)
            BY <3>1, <4>2 DEF FitsCall
          <5> QED
            BY <1>4, <3>1, <3>2, <3>4, <4>1, <5>1 DEF ReadStands, IsCourier, Exists
        <4>3. CASE call[x].op \notin {"update", "status"}
          BY <3>2, <4>1, <4>3 DEF ReadStands
        <4> QED
          BY <4>2, <4>3
      <3> QED
        BY <3>2, <3>3, <3>4
    <2> QED
      BY <2>1, <2>2
  <1>7. CouriersHaveProfiles' /\ ProfilesFollowUser'
    <2> SUFFICES ASSUME NEW v \in Users
                 PROVE  /\ IsCourier(v)' => courier'[v] # "none"
                        /\ dispatcher'[v] = "active" <=>
                             Exists(v)' /\ users'[v].role = "dispatcher" /\ users'[v].active
                        /\ IsCourier(v)' /\ users'[v].active =>
                             courier'[v] \notin {"none", "inactive"}
                        /\ courier'[v] \notin {"none", "inactive"} =>
                             (IsCourier(v)' /\ users'[v].active) \/ v \in raced'
      BY DEF CouriersHaveProfiles, ProfilesFollowUser, DispatcherFollowsUser, CourierFollowsUser,
             IsCourier, Exists
    <2>1. CASE v = u
      BY <1>4, <2>1 DEF IsCourier, Exists
    <2>2. CASE v # u
      BY <1>1, <1>4, <2>2 DEF IsCourier, Exists, CouriersHaveProfiles, ProfilesFollowUser,
                              DispatcherFollowsUser, CourierFollowsUser
    <2> QED
      BY <2>1, <2>2
  <1> QED
    BY <1>3, <1>6, <1>7 DEF AccountsInv

\* What a call begins with, for each request.
LEMMA AsksKeeps ==
  ASSUME AccountsInv, NEW t \in Threads, NEW who \in Who, Asks(t, who)
  PROVE  AccountsInv'
  <1> USE DEF AccountsInv
  <1>1. ASSUME NEW role \in Role, NEW email \in Emails, CreateUser(t, who, role, email)
        PROVE  AccountsInv'
    <2> DEFINE next == [Idle EXCEPT !.pc = "write", !.op = "create", !.scope = who.company,
                                    !.dto = [role |-> role, active |-> TRUE, email |-> email]]
    <2>1. Begin(t, next)
      BY <1>1 DEF CreateUser, runWithTenant
    <2>2. [role |-> role, active |-> TRUE, email |-> email] \in Dto
      BY DEF Dto
    <2>3. next \in Call
      BY <2>2, IdleTyped DEF Call, Who
    <2>4. FitsCall(next) /\ ReadStands(next)
      BY DEF FitsCall, ReadStands, Idle
    <2> HIDE DEF next
    <2> QED
      BY <2>1, <2>3, <2>4, BeginKeeps
  <1>2. ASSUME NEW u \in Users, NEW dto \in Dto, UpdateUser(t, who, u, dto)
        PROVE  AccountsInv'
    <2> DEFINE next == [Idle EXCEPT !.pc = "write", !.op = "update", !.scope = who.company,
                                    !.target = u, !.dto = dto, !.role = users[u].role,
                                    !.courier = courier[u], !.dispatcher = dispatcher[u]]
    <2>1. Begin(t, next) /\ Exists(u)
      BY <1>2 DEF UpdateUser, runWithTenant
    <2>2. next \in Call
      BY RowTyped, IdleTyped DEF Call, Who, Person
    <2>3. FitsCall(next) /\ ReadStands(next)
      BY <2>1 DEF FitsCall, ReadStands, Idle
    <2> HIDE DEF next
    <2> QED
      BY <2>1, <2>2, <2>3, BeginKeeps
  <1>3. ASSUME NEW u \in Users, NEW status \in {"available", "offline"},
               UpdateCourierStatus(t, who, u, status)
        PROVE  AccountsInv'
    <2> DEFINE next == [Idle EXCEPT !.pc = "write", !.op = "status", !.scope = who.company,
                                    !.target = u, !.status = status]
    <2>1. /\ Begin(t, next) /\ users[u].active /\ courier[u] \notin {"none", "inactive"}
          /\ Reaches(runWithTenant(who.company), "Courier", "findFirst", users[u].company)
      BY <1>3 DEF UpdateCourierStatus, runWithTenant
    <2>2. next \in Call
      BY IdleTyped DEF Call, Who, CourierStatus
    <2>3. Exists(u)
      BY <2>1, ReachesOwn, Queries DEF Exists
    <2>4. IsCourier(u) \/ u \in raced
      BY <2>1 DEF ProfilesFollowUser, CourierFollowsUser, IsCourier
    <2>5. FitsCall(next) /\ ReadStands(next)
      BY <2>1, <2>3, <2>4 DEF FitsCall, ReadStands, Idle
    <2> HIDE DEF next
    <2> QED
      BY <2>1, <2>2, <2>5, BeginKeeps
  <1>4. ASSUME NEW u \in Users, UpdateCourierLocation(t, who, u)
        PROVE  AccountsInv'
    <2> DEFINE next == [Idle EXCEPT !.pc = "write", !.op = "location", !.scope = who.company,
                                    !.target = u]
    <2>1. /\ Begin(t, next)
          /\ Reaches(runWithTenant(who.company), "Courier", "findFirst", users[u].company)
      BY <1>4 DEF UpdateCourierLocation, runWithTenant
    <2>2. next \in Call
      BY IdleTyped DEF Call, Who
    <2>3. Exists(u)
      BY <2>1, ReachesOwn, Queries DEF Exists
    <2>4. FitsCall(next) /\ ReadStands(next)
      BY <2>3 DEF FitsCall, ReadStands, Idle
    <2> HIDE DEF next
    <2> QED
      BY <2>1, <2>2, <2>4, BeginKeeps
  <1> QED
    BY <1>1, <1>2, <1>3, <1>4 DEF Asks

LEMMA RegisterKeeps ==
  ASSUME AccountsInv, NEW t \in Threads, NEW email \in Emails, Register(t, email)
  PROVE  AccountsInv'
  <1> DEFINE next == [Idle EXCEPT !.pc = "write", !.op = "register",
                                  !.dto = [role |-> "admin", active |-> TRUE, email |-> email]]
  <1>1. Begin(t, next)
    BY DEF Register
  <1>2. [role |-> "admin", active |-> TRUE, email |-> email] \in Dto
    BY DEF Dto, Role
  <1>3. next \in Call
    BY <1>2, IdleTyped DEF Call
  <1>4. FitsCall(next) /\ ReadStands(next)
    BY DEF FitsCall, ReadStands, Idle
  <1> HIDE DEF next
  <1> QED
    BY <1>1, <1>3, <1>4, BeginKeeps

LEMMA CreateUserKeeps ==
  ASSUME AccountsInv, NEW t \in Threads, NEW u \in Users, CreateUserWrite(t, u)
  PROVE  AccountsInv'
  <1> DEFINE c   == call[t].scope
             row == [company |-> c, role |-> call[t].dto.role, active |-> TRUE,
                     email |-> call[t].dto.email]
             cs  == courier'[u]
             ds  == dispatcher'[u]
  <1>1. /\ c # Unset /\ ~Exists(u) /\ call[t].op = "create"
        /\ users' = [users EXCEPT ![u] = row] /\ syncRoleProfiles(t, u, call[t].dto.role, TRUE)
        /\ Done(t, {u}) /\ UNCHANGED << company, located, raced, made >>
    BY NewIsOwn, Queries DEF CreateUserWrite
  <1>2. /\ call[t].dto.role \in Role /\ call[t].role = Unset
        /\ call[t].courier = "none" /\ call[t].dispatcher = "none"
    BY <1>1 DEF AccountsInv, CallsFit, FitsCall
  <1>3. row \in Person
    BY <1>2, CallTyped DEF AccountsInv, Call, Dto, Person
  <1>4. /\ courier' = [courier EXCEPT ![u] = cs] /\ dispatcher' = [dispatcher EXCEPT ![u] = ds]
        /\ courier[u] \in CourierStatus /\ dispatcher[u] \in Profile
    BY <1>1, RowTyped DEF syncRoleProfiles, AccountsInv, AccountsTypeOK
  <1>5. cs = IF row.role = "courier" THEN "offline"
             ELSE IF courier[u] # "none" THEN "inactive" ELSE "none"
    BY <1>1, <1>2, <1>4, AccountsAssumption
       DEF syncRoleProfiles, resolveCourierStatus, CourierProfile, AccountsInv, AccountsTypeOK, Role
  <1>6. ds = IF row.role = "dispatcher" THEN "active"
             ELSE IF dispatcher[u] # "none" THEN "inactive" ELSE "none"
    BY <1>1, <1>2, <1>4 DEF syncRoleProfiles, DispatcherProfile, AccountsInv, AccountsTypeOK
  <1>7. cs \in CourierStatus /\ ds \in Profile
    BY <1>5, <1>6 DEF CourierStatus, Profile
  <1>8. company' \in [Companies -> CompanyStatus]
    BY <1>1 DEF AccountsInv, AccountsTypeOK
  <1>9. row.company # Unset /\ row.active
    BY <1>1
  <1> HIDE DEF row, cs, ds
  <1> QED
    BY <1>1, <1>3, <1>4, <1>5, <1>6, <1>7, <1>8, <1>9, WriteKeeps

\* What an edit leaves of the profiles, whatever it had read of them.
LEMMA EditLeaves ==
  ASSUME AccountsInv, NEW t \in Threads, NEW u \in Users, NEW role \in Role,
         NEW active \in BOOLEAN, syncRoleProfiles(t, u, role, active)
  PROVE  /\ courier' = [courier EXCEPT ![u] = courier'[u]]
         /\ dispatcher' = [dispatcher EXCEPT ![u] = dispatcher'[u]]
         /\ courier'[u] \in CourierStatus /\ dispatcher'[u] \in Profile
         /\ dispatcher'[u] = "active" <=> role = "dispatcher" /\ active
         /\ role = "courier" => courier'[u] # "none"
         /\ courier'[u] \notin {"none", "inactive"} <=> role = "courier" /\ active
  <1>1. /\ courier \in [Users -> CourierStatus] /\ dispatcher \in [Users -> Profile]
        /\ call[t].courier \in CourierStatus /\ call[t].dispatcher \in Profile
    BY CallTyped DEF AccountsInv, AccountsTypeOK, Call
  <1>2. CourierProfile(t, u) \in CourierStatus
    BY <1>1 DEF CourierProfile
  <1>3. /\ courier' = [courier EXCEPT ![u] = courier'[u]]
        /\ dispatcher' = [dispatcher EXCEPT ![u] = dispatcher'[u]]
    BY <1>1 DEF syncRoleProfiles
  <1>4. /\ dispatcher'[u] \in Profile
        /\ dispatcher'[u] = "active" <=> role = "dispatcher" /\ active
    BY <1>1 DEF syncRoleProfiles, DispatcherProfile, Profile
  <1>5. ASSUME NEW previous
        PROVE  LET new == resolveCourierStatus(active, previous, CourierProfile(t, u)) IN
               new \in CourierStatus \ {"none"} /\ (new # "inactive" <=> active)
    BY <1>2 DEF resolveCourierStatus, CourierStatus
  <1>6. CASE role = "courier"
    BY <1>1, <1>3, <1>4, <1>5, <1>6 DEF syncRoleProfiles, CourierStatus
  <1>7. CASE role # "courier"
    BY <1>1, <1>3, <1>4, <1>7 DEF syncRoleProfiles, CourierProfile, CourierStatus
  <1> QED
    BY <1>6, <1>7

LEMMA UpdateUserKeeps ==
  ASSUME AccountsInv, NEW t \in Threads, UpdateUserWrite(t)
  PROVE  AccountsInv'
  <1> DEFINE u   == call[t].target
             dto == call[t].dto
             row == [users[u] EXCEPT !.role = Given(dto.role, @), !.active = Given(dto.active, @),
                                     !.email = Given(dto.email, @)]
  <1>1. /\ u \in Users /\ Exists(u)
        /\ users' = [users EXCEPT ![u] = row] /\ syncRoleProfiles(t, u, row.role, row.active)
        /\ raced' = raced \ {u} /\ Done(t, {u}) /\ UNCHANGED << company, located, made >>
    BY DEF UpdateUserWrite, AccountsInv, CallsFit, FitsCall
  <1>2. users[u] \in Person /\ dto \in Dto
    BY <1>1, RowTyped, CallTyped DEF AccountsInv, Call
  <1>3. row \in Person /\ row.company = users[u].company
    BY <1>2 DEF Person, Dto, Given
  <1>4. row.role \in Role /\ row.active \in BOOLEAN /\ row.company # Unset
    BY <1>1, <1>3 DEF Person, Exists
  <1>5. company' \in [Companies -> CompanyStatus]
    BY <1>1 DEF AccountsInv, AccountsTypeOK
  <1> HIDE DEF u, row
  <1>6. /\ courier' = [courier EXCEPT ![u] = courier'[u]]
        /\ dispatcher' = [dispatcher EXCEPT ![u] = dispatcher'[u]]
        /\ courier'[u] \in CourierStatus /\ dispatcher'[u] \in Profile
        /\ dispatcher'[u] = "active" <=> row.role = "dispatcher" /\ row.active
        /\ row.role = "courier" => courier'[u] # "none"
        /\ courier'[u] \notin {"none", "inactive"} <=> row.role = "courier" /\ row.active
    BY <1>1, <1>4, EditLeaves
  <1> QED
    BY <1>1, <1>3, <1>4, <1>5, <1>6, WriteKeeps

LEMMA CourierStatusKeeps ==
  ASSUME AccountsInv, NEW t \in Threads, UpdateCourierStatusWrite(t)
  PROVE  AccountsInv'
  <1> DEFINE u  == call[t].target
             cs == call[t].status
             ds == dispatcher[u]
  <1>1. /\ u \in Users /\ Exists(u) /\ call[t].op = "status" /\ cs \in {"available", "offline"}
        /\ courier' = [courier EXCEPT ![u] = cs] /\ Done(t, {u})
        /\ raced' = IF call[t].stale THEN raced \cup {u} ELSE raced
        /\ UNCHANGED << company, users, dispatcher, located, made >>
    BY DEF UpdateCourierStatusWrite, AccountsInv, CallsFit, FitsCall
  <1>2. users[u] \in Person /\ ds \in Profile /\ cs \in CourierStatus
    BY <1>1, RowTyped DEF AccountsInv, CourierStatus
  <1>3. users' = [users EXCEPT ![u] = users[u]] /\ dispatcher' = [dispatcher EXCEPT ![u] = ds]
    BY <1>1 DEF AccountsInv, AccountsTypeOK
  <1>4. company' \in [Companies -> CompanyStatus]
    BY <1>1 DEF AccountsInv, AccountsTypeOK
  <1>5. ds = "active" <=> users[u].role = "dispatcher" /\ users[u].active
    BY <1>1 DEF AccountsInv, ProfilesFollowUser, DispatcherFollowsUser
  <1>6. (users[u].role = "courier" /\ users[u].active) \/ u \in raced'
    BY <1>1 DEF AccountsInv, ReadsStand, ReadStands, IsCourier
  <1>7. users[u].company # Unset
    BY <1>1 DEF Exists
  <1>8. raced' \in {raced, raced \cup {u}, raced \ {u}}
    BY <1>1
  <1> HIDE DEF u, cs, ds
  <1> QED
    BY <1>1, <1>2, <1>3, <1>4, <1>5, <1>6, <1>7, <1>8, WriteKeeps

LEMMA RegisterWriteKeeps ==
  ASSUME AccountsInv, NEW t \in Threads, NEW c \in Companies, NEW u \in Users,
         RegisterWrite(t, c, u)
  PROVE  AccountsInv'
  <1> DEFINE row == [company |-> c, role |-> "admin", active |-> TRUE, email |-> call[t].dto.email]
             cs  == courier[u]
             ds  == dispatcher[u]
  <1>1. /\ ~Exists(u) /\ users' = [users EXCEPT ![u] = row] /\ Done(t, {u})
        /\ company' = [company EXCEPT ![c] = "active"]
        /\ UNCHANGED << courier, dispatcher, located, raced, made >>
    BY DEF RegisterWrite
  <1>2. row \in Person /\ cs \in CourierStatus /\ ds \in Profile
    BY RowTyped, CallTyped DEF AccountsInv, Call, Dto, Person, Role
  <1>3. courier' = [courier EXCEPT ![u] = cs] /\ dispatcher' = [dispatcher EXCEPT ![u] = ds]
    BY <1>1 DEF AccountsInv, AccountsTypeOK
  <1>4. company' \in [Companies -> CompanyStatus]
    BY <1>1 DEF AccountsInv, AccountsTypeOK, CompanyStatus
  <1>5. ds # "active" /\ (cs \notin {"none", "inactive"} => u \in raced')
    BY <1>1 DEF AccountsInv, ProfilesFollowUser, DispatcherFollowsUser, CourierFollowsUser
  <1>6. row.company # Unset /\ row.role = "admin"
    BY AccountsAssumption
  <1>7. raced' \in {raced, raced \cup {u}, raced \ {u}}
    BY <1>1
  <1> HIDE DEF row, cs, ds
  <1> QED
    BY <1>1, <1>2, <1>3, <1>4, <1>5, <1>6, <1>7, WriteKeeps

\* An owner that the platform makes: nobody's call is about somebody who is not there.
LEMMA OwnerKeeps ==
  ASSUME AccountsInv, NEW u \in Users, NEW row \in Person, ~Exists(u),
         row.company # Unset, row.role = "admin", users' = [users EXCEPT ![u] = row],
         company' \in [Companies -> CompanyStatus], made' \in Nat,
         UNCHANGED << courier, dispatcher, located, call, raced >>
  PROVE  AccountsInv'
  <1>1. AccountsTypeOK'
    BY DEF AccountsInv, AccountsTypeOK
  <1>2. \A v \in Users : users'[v] = IF v = u THEN row ELSE users[v]
    BY DEF AccountsInv, AccountsTypeOK
  <1>3. CallsFit' /\ ReadsStand'
    <2> SUFFICES ASSUME NEW x \in Threads
                 PROVE  FitsCall(call[x])' /\ ReadStands(call[x])'
      BY DEF CallsFit, ReadsStand
    <2>1. FitsCall(call[x]) /\ ReadStands(call[x])
      BY DEF AccountsInv, CallsFit, ReadsStand
    <2>2. FitsCall(call[x])'
      BY <1>2, <2>1 DEF FitsCall, Exists
    <2>3. call[x].op \in {"update", "status"} => call[x].target \in Users /\ call[x].target # u
      BY <2>1 DEF FitsCall
    <2>4. ReadStands(call[x])'
      BY <1>2, <2>1, <2>3 DEF ReadStands, IsCourier, Exists
    <2> QED
      BY <2>2, <2>4
  <1>4. CouriersHaveProfiles' /\ ProfilesFollowUser'
    BY <1>2 DEF AccountsInv, CouriersHaveProfiles, IsCourier, Exists, ProfilesFollowUser,
                DispatcherFollowsUser, CourierFollowsUser
  <1> QED
    BY <1>1, <1>3, <1>4 DEF AccountsInv

-----------------------------------------------------------------------------
(* Settings.                                                               *)

\* What a chore in flight has been given.
ChoreFits(x) ==
  /\ x.op # "none" => x.pc = "write"
  /\ x.op = "create" => x.name \in Names
  /\ x.op = "flag" => x.key \in Key /\ x.active \in BOOLEAN /\ x.zone = Unset
  /\ x.op \in {"update", "archive"} => x.zone \in Zones

\* What a chore that was not overtaken has read is still there; a flag it has not
\* found may be there by now, but then its insert is refused.
ChoreStands(x) ==
  ~x.stale =>
    /\ x.op \in {"update", "archive"} => zone[x.zone].active
    /\ x.op = "flag" => x.seen = feature[x.key] \/ x.seen.state = "none"

ChoresFit == \A t \in Threads : ChoreFits(chore[t])

ChoresStand == \A t \in Threads : ChoreStands(chore[t])

SettingsInv == SettingsTypeOK /\ ChoresFit /\ ChoresStand /\ StampsFit

LEMMA NoChoreTyped == NoChore \in Chore /\ NoChore.op = "none" /\ NoChore.zone = Unset
  BY DEF NoChore, Chore, NoFeature, Feature

\* The stamps of a row agree with its state.
Fits(row) ==
  /\ row.state = "enabled" => row.enabledAt /\ ~row.disabledAt
  /\ row.state = "disabled" => row.disabledAt

LEMMA NewFeatureFits ==
  ASSUME NEW enabled \in BOOLEAN
  PROVE  NewFeature(enabled) \in Feature /\ Fits(NewFeature(enabled))
  <1>1. CASE enabled = TRUE
    BY <1>1 DEF NewFeature, Feature, Fits
  <1>2. CASE enabled = FALSE
    BY <1>2 DEF NewFeature, Feature, Fits
  <1> QED
    BY <1>1, <1>2

LEMMA StaleChoreTyped ==
  ASSUME NEW x \in Chore
  PROVE  [x EXCEPT !.stale = TRUE] \in Chore
  BY DEF Chore

LEMMA SettingsStart == Init /\ SettingsInit => SettingsInv
  <1> SUFFICES ASSUME SettingsInit PROVE SettingsInv
    OBVIOUS
  <1>3. ASSUME NEW k \in Key
        PROVE  feature[k] \in Feature /\ Fits(feature[k])
    <2>1. Defaults[k[2]] \in BOOLEAN
      BY CompanySettingsAssumption DEF Key
    <2>2. CASE feature[k] = NoFeature
      BY <2>2 DEF NoFeature, Feature, Fits
    <2>3. CASE feature[k] = NewFeature(Defaults[k[2]])
      BY <2>1, <2>3, NewFeatureFits
    <2> QED
      BY <2>2, <2>3 DEF SettingsInit
  <1>4. feature \in [Key -> Feature]
    BY <1>3 DEF SettingsInit
  <1>5. SettingsTypeOK
    BY <1>4, NoChoreTyped, CompanySettingsAssumption DEF SettingsTypeOK, SettingsInit, Zone
  <1>6. ChoresFit /\ ChoresStand
    BY NoChoreTyped DEF SettingsInit, ChoresFit, ChoreFits, ChoresStand, ChoreStands
  <1>7. StampsFit
    BY <1>3 DEF StampsFit, Fits
  <1> QED
    BY <1>5, <1>6, <1>7 DEF SettingsInv

LEMMA BeginChoreKeeps ==
  ASSUME SettingsInv, NEW t \in Threads, NEW next \in Chore, BeginChore(t, next),
         ChoreFits(next), ChoreStands(next)
  PROVE  SettingsInv'
  <1>1. UNCHANGED << zone, feature, blurred >>
    BY DEF BeginChore
  <1>2. chore' = [chore EXCEPT ![t] = next] /\ chore \in [Threads -> Chore]
    BY DEF BeginChore, SettingsInv, SettingsTypeOK
  <1>3. SettingsTypeOK' /\ StampsFit'
    BY <1>1, <1>2 DEF SettingsInv, SettingsTypeOK, StampsFit
  <1>4. \A x \in Threads : ChoreFits(chore'[x]) /\ ChoreStands(chore'[x])
    BY <1>2 DEF SettingsInv, ChoresFit, ChoresStand
  <1>5. ChoresFit' /\ ChoresStand'
    BY <1>1, <1>4 DEF ChoresFit, ChoreFits, ChoresStand, ChoreStands
  <1> QED
    BY <1>3, <1>5 DEF SettingsInv

LEMMA ConfiguresKeeps ==
  ASSUME SettingsInv, NEW t \in Threads, NEW who \in Who, Configures(t, who)
  PROVE  SettingsInv'
  <1>1. ASSUME NEW name \in Names, CreateZone(t, who, name)
        PROVE  SettingsInv'
    <2> DEFINE next == [NoChore EXCEPT !.pc = "write", !.op = "create", !.scope = who.company,
                                       !.name = name]
    <2>1. BeginChore(t, next)
      BY <1>1 DEF CreateZone, runWithTenant
    <2>2. next \in Chore /\ ChoreFits(next) /\ ChoreStands(next)
      BY NoChoreTyped DEF Chore, Who, ChoreFits, ChoreStands
    <2> HIDE DEF next
    <2> QED
      BY <2>1, <2>2, BeginChoreKeeps
  <1>2. ASSUME NEW z \in Zones, NEW name \in Names \cup {Unset},
               NEW active \in BOOLEAN \cup {Unset}, UpdateZone(t, who, z, name, active)
        PROVE  SettingsInv'
    <2> DEFINE next == [NoChore EXCEPT !.pc = "write", !.op = "update", !.scope = who.company,
                                       !.zone = z, !.name = name, !.active = active]
    <2>1. BeginChore(t, next) /\ zone[z].active
      BY <1>2 DEF UpdateZone, runWithTenant
    <2>2. next \in Chore /\ ChoreFits(next) /\ ChoreStands(next)
      BY <2>1, NoChoreTyped DEF Chore, Who, ChoreFits, ChoreStands
    <2> HIDE DEF next
    <2> QED
      BY <2>1, <2>2, BeginChoreKeeps
  <1>3. ASSUME NEW z \in Zones, DeleteZone(t, who, z)
        PROVE  SettingsInv'
    <2> DEFINE next == [NoChore EXCEPT !.pc = "write", !.op = "archive", !.scope = who.company,
                                       !.zone = z]
    <2>1. BeginChore(t, next) /\ zone[z].active
      BY <1>3 DEF DeleteZone, runWithTenant
    <2>2. next \in Chore /\ ChoreFits(next) /\ ChoreStands(next)
      BY <2>1, NoChoreTyped DEF Chore, Who, ChoreFits, ChoreStands
    <2> HIDE DEF next
    <2> QED
      BY <2>1, <2>2, BeginChoreKeeps
  <1>4. ASSUME NEW f \in Flags, NEW enabled \in BOOLEAN, UpsertFeatureFlag(t, who, f, enabled)
        PROVE  SettingsInv'
    <2> DEFINE key  == << who.company, f >>
               next == [NoChore EXCEPT !.pc = "write", !.op = "flag", !.scope = who.company,
                                       !.key = key, !.active = enabled, !.seen = feature[key]]
    <2>1. BeginChore(t, next) /\ Admitted(FeaturesRoute, who)
      BY <1>4 DEF UpsertFeatureFlag, runWithTenant
    <2>2. who.company \in Companies
      BY <2>1 DEF Admitted, TenantGuard, FeaturesRoute, TenantRoute, Route,
                  isTenantAuthenticatedUser, Who
    <2>3. key \in Key
      BY <2>2 DEF Key
    <2>4. feature[key] \in Feature
      BY <2>3 DEF SettingsInv, SettingsTypeOK
    <2> HIDE DEF key
    <2>5. next \in Chore
      BY <2>2, <2>3, <2>4, NoChoreTyped DEF Chore
    <2>6. ChoreFits(next) /\ ChoreStands(next)
      BY <2>3, NoChoreTyped DEF ChoreFits, ChoreStands, NoChore
    <2> HIDE DEF next
    <2> QED
      BY <2>1, <2>5, <2>6, BeginChoreKeeps
  <1> QED
    BY <1>1, <1>2, <1>3, <1>4 DEF Configures

LEMMA FailChoreKeeps ==
  ASSUME SettingsInv, NEW t \in Threads, FailChore(t)
  PROVE  SettingsInv'
  <1>1. UNCHANGED << zone, feature, blurred >>
    BY DEF FailChore
  <1>2. chore' = [chore EXCEPT ![t] = NoChore] /\ chore \in [Threads -> Chore]
    BY DEF FailChore, SettingsInv, SettingsTypeOK
  <1>3. SettingsTypeOK' /\ StampsFit'
    BY <1>1, <1>2, NoChoreTyped DEF SettingsInv, SettingsTypeOK, StampsFit
  <1>4. ChoreFits(NoChore) /\ ChoreStands(NoChore)
    BY NoChoreTyped DEF ChoreFits, ChoreStands
  <1>5. \A x \in Threads : ChoreFits(chore'[x]) /\ ChoreStands(chore'[x])
    BY <1>2, <1>4 DEF SettingsInv, ChoresFit, ChoresStand
  <1>6. ChoresFit' /\ ChoresStand'
    BY <1>1, <1>5 DEF ChoresFit, ChoreFits, ChoresStand, ChoreStands
  <1> QED
    BY <1>3, <1>6 DEF SettingsInv

\* The chores after a write: those that are not overtaken work on rows that are as they were.
LEMMA ChoreDoneKeeps ==
  ASSUME SettingsInv, NEW t \in Threads, ChoreDone(t),
         \A k \in Key : feature'[k] = feature[k] \/ k = chore[t].key
  PROVE  chore' \in [Threads -> Chore] /\ ChoresFit' /\ ChoresStand'
  <1>1. \A x \in Threads : chore[x] \in Chore /\ ChoreFits(chore[x]) /\ ChoreStands(chore[x])
    BY DEF SettingsInv, SettingsTypeOK, ChoresFit, ChoresStand
  <1>2. \A x \in Threads :
          chore'[x] \in {NoChore, [chore[x] EXCEPT !.stale = TRUE], chore[x]}
    BY DEF ChoreDone
  <1>3. \A x \in Threads : chore'[x] \in Chore
    BY <1>1, <1>2, NoChoreTyped, StaleChoreTyped
  <1>4. chore' \in [Threads -> Chore]
    BY <1>3 DEF ChoreDone
  <1>5. ASSUME NEW x \in Threads
        PROVE  ChoreFits(chore[x])' /\ ChoreStands(chore[x])'
    <2>1. CASE chore'[x] = NoChore
      BY <2>1, NoChoreTyped DEF ChoreFits, ChoreStands
    <2>2. CASE chore'[x] = [chore[x] EXCEPT !.stale = TRUE]
      BY <1>1, <2>2 DEF ChoreFits, ChoreStands, Chore
    <2>3. CASE /\ chore'[x] = chore[x]
               /\ chore[x].zone # Unset => zone'[chore[x].zone] = zone[chore[x].zone]
               /\ chore[x].key # Unset => chore[x].key # chore[t].key
      <3>1. ChoreFits(chore[x]) /\ ChoreStands(chore[x])
        BY <1>1
      <3>2. chore[x].op \in {"update", "archive"} => chore[x].zone # Unset
        BY <3>1, CompanySettingsAssumption DEF ChoreFits
      <3>3. chore[x].op = "flag" => feature'[chore[x].key] = feature[chore[x].key]
        BY <2>3, <3>1, CompanySettingsAssumption DEF ChoreFits, Key
      <3> QED
        BY <2>3, <3>1, <3>2, <3>3 DEF ChoreFits, ChoreStands
    <2> QED
      BY <2>1, <2>2, <2>3 DEF ChoreDone
  <1> QED
    BY <1>4, <1>5 DEF ChoresFit, ChoresStand

LEMMA ZoneWriteKeeps ==
  ASSUME SettingsInv, NEW t \in Threads, NEW z \in Zones, NEW row \in Zone,
         zone' = [zone EXCEPT ![z] = row], ChoreDone(t), UNCHANGED << feature, blurred >>
  PROVE  SettingsInv'
  <1>1. zone' \in [Zones -> Zone]
    BY DEF SettingsInv, SettingsTypeOK
  <1>2. chore' \in [Threads -> Chore] /\ ChoresFit' /\ ChoresStand'
    BY ChoreDoneKeeps
  <1>3. SettingsTypeOK' /\ StampsFit'
    BY <1>1, <1>2 DEF SettingsInv, SettingsTypeOK, StampsFit
  <1> QED
    BY <1>2, <1>3 DEF SettingsInv

LEMMA ChoreWritesKeep ==
  ASSUME SettingsInv, NEW t \in Threads, ChoreWrites(t)
  PROVE  SettingsInv'
  <1>1. chore[t] \in Chore /\ ChoreFits(chore[t]) /\ ChoreStands(chore[t])
    BY DEF SettingsInv, SettingsTypeOK, ChoresFit, ChoresStand
  <1>2. \A z \in Zones : zone[z] \in Zone
    BY DEF SettingsInv, SettingsTypeOK
  <1>3. ASSUME NEW z \in Zones, CreateZoneWrite(t, z)
        PROVE  SettingsInv'
    <2> DEFINE row == [company |-> chore[t].scope, name |-> chore[t].name, active |-> TRUE]
    <2>1. zone' = [zone EXCEPT ![z] = row] /\ ChoreDone(t) /\ UNCHANGED << feature, blurred >>
      BY <1>3, NewIsOwn, Queries DEF CreateZoneWrite
    <2>2. row \in Zone
      BY <1>1 DEF Chore, Zone
    <2> HIDE DEF row
    <2> QED
      BY <2>1, <2>2, ZoneWriteKeeps
  <1>4. CASE UpdateZoneWrite(t)
    <2> DEFINE z   == chore[t].zone
               row == [zone[z] EXCEPT !.name = Given(chore[t].name, @),
                                      !.active = Given(chore[t].active, @)]
    <2>1. /\ zone' = [zone EXCEPT ![z] = row] /\ ChoreDone(t) /\ UNCHANGED << feature, blurred >>
          /\ z \in Zones
      BY <1>1, <1>4 DEF UpdateZoneWrite, ChoreFits
    <2>2. Given(chore[t].name, zone[z].name) \in Names \cup {Unset}
      BY <1>1, <1>2, <2>1 DEF Given, Chore, Zone
    <2>3. Given(chore[t].active, zone[z].active) \in BOOLEAN
      BY <1>1, <1>2, <2>1 DEF Given, Chore, Zone
    <2>4. row \in Zone
      BY <1>2, <2>1, <2>2, <2>3 DEF Zone
    <2> HIDE DEF z, row
    <2> QED
      BY <2>1, <2>4, ZoneWriteKeeps
  <1>5. CASE DeleteZoneWrite(t)
    <2> DEFINE z   == chore[t].zone
               row == [zone[z] EXCEPT !.active = FALSE]
    <2>1. /\ zone' = [zone EXCEPT ![z] = row] /\ ChoreDone(t) /\ UNCHANGED << feature, blurred >>
          /\ z \in Zones
      BY <1>1, <1>5 DEF DeleteZoneWrite, ChoreFits
    <2>2. row \in Zone
      BY <1>2, <2>1 DEF Zone
    <2> HIDE DEF z, row
    <2> QED
      BY <2>1, <2>2, ZoneWriteKeeps
  <1>6. CASE UpsertFeatureFlagWrite(t)
    <2> DEFINE key  == chore[t].key
               seen == chore[t].seen
               new  == IF seen.state = "none" THEN NewFeature(chore[t].active)
                       ELSE Stamped(feature[key], seen, chore[t].active)
    <2>1. /\ chore[t].op = "flag" /\ ChoreDone(t) /\ UNCHANGED zone
          /\ feature' = [feature EXCEPT ![key] = new]
          /\ blurred' = IF chore[t].stale THEN blurred \cup {key}
                        ELSE IF Switches(seen, chore[t].active) THEN blurred \ {key} ELSE blurred
      BY <1>6 DEF UpsertFeatureFlagWrite
    <2>2. key \in Key /\ chore[t].active \in BOOLEAN /\ seen \in Feature
      BY <1>1, <2>1 DEF ChoreFits, Chore
    <2>3. feature \in [Key -> Feature] /\ blurred \subseteq Key
      BY DEF SettingsInv, SettingsTypeOK
    <2>4. ~chore[t].stale => seen = feature[key] \/ seen.state = "none"
      BY <1>1, <2>1 DEF ChoreStands
    <2>5. key \notin blurred => Fits(feature[key])
      BY <2>2 DEF SettingsInv, StampsFit, Fits
    <2> HIDE DEF key, seen
    <2>6. new \in Feature /\ (key \notin blurred' => Fits(new))
      <3>1. CASE seen.state = "none"
        BY <2>2, <3>1, NewFeatureFits
      <3>2. CASE seen.state # "none" /\ chore[t].active = TRUE
        BY <2>1, <2>2, <2>3, <2>4, <2>5, <3>2 DEF Stamped, Switches, Feature, Fits
      <3>3. CASE seen.state # "none" /\ chore[t].active = FALSE
        BY <2>1, <2>2, <2>3, <2>4, <2>5, <3>3 DEF Stamped, Switches, Feature, Fits
      <3> QED
        BY <2>2, <3>1, <3>2, <3>3
    <2> HIDE DEF new
    <2>7. chore' \in [Threads -> Chore] /\ ChoresFit' /\ ChoresStand'
      BY <2>1, <2>3, ChoreDoneKeeps DEF key
    <2>8. SettingsTypeOK'
      BY <2>1, <2>2, <2>3, <2>6, <2>7 DEF SettingsInv, SettingsTypeOK
    <2>9. StampsFit'
      <3>1. \A k \in Key : feature'[k] = IF k = key THEN new ELSE feature[k]
        BY <2>1, <2>3
      <3>2. \A k \in Key \ {key} : k \in blurred' <=> k \in blurred
        BY <2>1
      <3>3. \A k \in Key \ blurred' : Fits(feature'[k])
        BY <2>6, <3>1, <3>2 DEF SettingsInv, StampsFit, Fits
      <3> QED
        BY <3>3 DEF StampsFit, Fits
    <2> QED
      BY <2>7, <2>8, <2>9 DEF SettingsInv
  <1> QED
    BY <1>3, <1>4, <1>5, <1>6 DEF ChoreWrites

LEMMA SeedKeeps ==
  ASSUME SettingsInv, NEW c \in Companies, seedDefaultFeatures(c),
         UNCHANGED << zone, chore, blurred >>
  PROVE  SettingsInv'
  <1>1. feature \in [Key -> Feature]
    BY DEF SettingsInv, SettingsTypeOK
  <1>2. ASSUME NEW k \in Key
        PROVE  /\ feature'[k] \in Feature
               /\ feature'[k] = feature[k] \/ (feature[k].state = "none" /\ Fits(feature'[k]))
    <2>1. Defaults[k[2]] \in BOOLEAN
      BY CompanySettingsAssumption DEF Key
    <2>2. feature'[k] = feature[k]
            \/ (feature[k].state = "none" /\ feature'[k] = NewFeature(Defaults[k[2]]))
      BY DEF seedDefaultFeatures
    <2> QED
      BY <1>1, <2>1, <2>2, NewFeatureFits
  <1>3. feature' \in [Key -> Feature]
    BY <1>2 DEF seedDefaultFeatures
  <1>4. SettingsTypeOK' /\ ChoresFit'
    BY <1>3 DEF SettingsInv, SettingsTypeOK, ChoresFit, ChoreFits
  <1>5. ChoresStand'
    <2> SUFFICES ASSUME NEW t \in Threads PROVE ChoreStands(chore[t])'
      BY DEF ChoresStand
    <2>1. ChoreStands(chore[t]) /\ (chore[t].op = "flag" => chore[t].key \in Key)
      BY DEF SettingsInv, ChoresStand, ChoresFit, ChoreFits
    <2>2. chore[t].op = "flag" => feature'[chore[t].key] = feature[chore[t].key]
                                    \/ feature[chore[t].key].state = "none"
      BY <1>2, <2>1
    <2> QED
      BY <2>1, <2>2 DEF ChoreStands
  <1>6. StampsFit'
    BY <1>2 DEF SettingsInv, StampsFit, Fits
  <1> QED
    BY <1>4, <1>5, <1>6 DEF SettingsInv

-----------------------------------------------------------------------------
(* Deeds of platform administrators.                                       *)

\* What a deed in flight has been given.
DeedFits(x) ==
  /\ x.op = "none" <=> x.pc = "idle"
  /\ x.op # "none" => x.actor \in Admins
  /\ x.pc = "audit" => x.op # "seed"
  /\ x.op \in {"company", "seed", "start"} => x.target \in Companies /\ company[x.target] # "none"
  /\ x.op \in {"create", "admin"} => x.target \in Admins /\ x.value \in {"active", "suspended"}
  /\ x.op = "create" => x.value = "active"
  /\ x.op = "end" => x.target \in Sessions /\ session[x.target] # NoSession
  /\ x.op = "company" => x.value \in (CompanyStatus \ {"none"}) \cup {Unset}
  /\ x.op = "seed" => x.value \in Emails

\* What a deed has checked.
DeedHolds(x) ==
  /\ x.op = "admin" /\ x.value = "suspended" => \E a \in Admins \ {x.target} : admin[a] = "active"
  /\ x.op = "start" => \A s \in Sessions : ~Open(s, x.actor, x.target)
  /\ x.op = "seed" => ActiveUsers(x.target) = {}

DeedsFit == \A d \in Clerks : DeedFits(deed[d])

DeedsStand == \A d \in Clerks : deed[d].pc = "write" /\ ~deed[d].stale => DeedHolds(deed[d])

\* A session that is there belongs to somebody and is somewhere.
SessionsWhole ==
  \A s \in Sessions : session[s] # NoSession => session[s].admin \in Admins /\ session[s].company \in Companies

PlatformInv ==
  PlatformTypeOK /\ DeedsFit /\ DeedsStand /\ SessionsWhole /\ AdminRemains /\ OneSessionEach

LEMMA NoDeedTyped == NoDeed \in Deed /\ NoDeed.op = "none" /\ NoDeed.pc = "idle"
  BY DEF NoDeed, Deed

LEMMA NoSessionTyped == NoSession \in Session
  BY DEF NoSession, Session

LEMMA PlatformStart == PlatformInit => PlatformInv
  <1> SUFFICES ASSUME PlatformInit PROVE PlatformInv
    OBVIOUS
  <1>1. PlatformTypeOK
    BY NoDeedTyped, NoSessionTyped DEF PlatformInit, PlatformTypeOK, AdminStatus
  <1>2. DeedsFit /\ DeedsStand
    BY NoDeedTyped DEF PlatformInit, DeedsFit, DeedFits, DeedsStand
  <1>3. SessionsWhole /\ OneSessionEach
    BY DEF PlatformInit, SessionsWhole, OneSessionEach
  <1>4. AdminRemains
    BY PlatformAssumption DEF PlatformInit, AdminRemains
  <1> QED
    BY <1>1, <1>2, <1>3, <1>4 DEF PlatformInv

LEMMA DeedTyped ==
  ASSUME PlatformInv, NEW d \in Clerks
  PROVE  /\ deed[d] \in Deed /\ DeedFits(deed[d])
         /\ deed[d].pc = "write" /\ ~deed[d].stale => DeedHolds(deed[d])
  BY DEF PlatformInv, PlatformTypeOK, DeedsFit, DeedsStand

LEMMA BeginDeedKeeps ==
  ASSUME PlatformInv, NEW d \in Clerks, NEW a, NEW next \in Deed, BeginDeed(d, a, next),
         DeedFits(next), DeedHolds(next)
  PROVE  PlatformInv'
  <1>1. UNCHANGED << company, users, admin, session, trail, unseated, doubled >>
    BY DEF BeginDeed, data
  <1>2. deed' = [deed EXCEPT ![d] = next] /\ deed \in [Clerks -> Deed]
    BY DEF BeginDeed, PlatformInv, PlatformTypeOK
  <1>3. PlatformTypeOK' /\ SessionsWhole' /\ AdminRemains' /\ OneSessionEach'
    BY <1>1, <1>2 DEF PlatformInv, PlatformTypeOK, SessionsWhole, AdminRemains, OneSessionEach
  <1>4. ASSUME NEW x \in Clerks
        PROVE  DeedFits(deed[x])' /\ (deed'[x].pc = "write" /\ ~deed'[x].stale => DeedHolds(deed[x])')
    <2>1. DeedFits(deed'[x]) /\ (deed'[x].pc = "write" /\ ~deed'[x].stale => DeedHolds(deed'[x]))
      BY <1>2, DeedTyped
    <2> QED
      BY <1>1, <2>1 DEF DeedFits, DeedHolds, Open, ActiveUsers
  <1> QED
    BY <1>3, <1>4 DEF PlatformInv, DeedsFit, DeedsStand

LEMMA DeedsKeep ==
  ASSUME PlatformInv, NEW d \in Clerks, NEW a \in Admins, Deeds(d, a)
  PROVE  PlatformInv'
  <1>1. ASSUME NEW c \in Companies, NEW status \in (CompanyStatus \ {"none"}) \cup {Unset},
               ChangeCompanyStatus(d, a, c, status)
        PROVE  PlatformInv'
    <2> DEFINE next == [NoDeed EXCEPT !.pc = "write", !.op = "company", !.actor = a,
                                      !.target = c, !.value = status]
    <2>1. BeginDeed(d, a, next) /\ company[c] # "none"
      BY <1>1 DEF ChangeCompanyStatus
    <2>2. next \in Deed /\ DeedFits(next) /\ DeedHolds(next)
      BY <2>1, NoDeedTyped DEF Deed, DeedFits, DeedHolds
    <2> HIDE DEF next
    <2> QED
      BY <2>1, <2>2, BeginDeedKeeps
  <1>2. ASSUME NEW c \in Companies, NEW email \in Emails, SeedOwner(d, a, c, email)
        PROVE  PlatformInv'
    <2> DEFINE next == [NoDeed EXCEPT !.pc = "write", !.op = "seed", !.actor = a,
                                      !.target = c, !.value = email]
    <2>1. BeginDeed(d, a, next) /\ company[c] # "none" /\ ActiveUsers(c) = {}
      BY <1>2 DEF SeedOwner
    <2>2. next \in Deed /\ DeedFits(next) /\ DeedHolds(next)
      BY <2>1, NoDeedTyped DEF Deed, DeedFits, DeedHolds
    <2> HIDE DEF next
    <2> QED
      BY <2>1, <2>2, BeginDeedKeeps
  <1>3. ASSUME NEW c \in Companies, StartImpersonation(d, a, c)
        PROVE  PlatformInv'
    <2> DEFINE next == [NoDeed EXCEPT !.pc = "write", !.op = "start", !.actor = a, !.target = c]
    <2>1. BeginDeed(d, a, next) /\ company[c] = "active" /\ \A s \in Sessions : ~Open(s, a, c)
      BY <1>3 DEF StartImpersonation
    <2>2. next \in Deed /\ DeedFits(next) /\ DeedHolds(next)
      BY <2>1, NoDeedTyped DEF Deed, DeedFits, DeedHolds
    <2> HIDE DEF next
    <2> QED
      BY <2>1, <2>2, BeginDeedKeeps
  <1>4. ASSUME NEW b \in Admins, CreateAdmin(d, a, b)
        PROVE  PlatformInv'
    <2> DEFINE next == [NoDeed EXCEPT !.pc = "write", !.op = "create", !.actor = a,
                                      !.target = b, !.value = "active"]
    <2>1. BeginDeed(d, a, next)
      BY <1>4 DEF CreateAdmin
    <2>2. next \in Deed /\ DeedFits(next) /\ DeedHolds(next)
      BY NoDeedTyped DEF Deed, DeedFits, DeedHolds, AdminStatus
    <2> HIDE DEF next
    <2> QED
      BY <2>1, <2>2, BeginDeedKeeps
  <1>5. ASSUME NEW b \in Admins, NEW status \in {"active", "suspended"}, UpdateAdmin(d, a, b, status)
        PROVE  PlatformInv'
    <2> DEFINE next == [NoDeed EXCEPT !.pc = "write", !.op = "admin", !.actor = a,
                                      !.target = b, !.value = status]
    <2>1. /\ BeginDeed(d, a, next)
          /\ status = "suspended" => \E x \in Admins \ {b} : admin[x] = "active"
      BY <1>5 DEF UpdateAdmin
    <2>2. next \in Deed /\ DeedFits(next) /\ DeedHolds(next)
      BY <2>1, NoDeedTyped DEF Deed, DeedFits, DeedHolds, AdminStatus
    <2> HIDE DEF next
    <2> QED
      BY <2>1, <2>2, BeginDeedKeeps
  <1>6. ASSUME NEW s \in Sessions, EndImpersonation(d, a, s)
        PROVE  PlatformInv'
    <2> DEFINE next == [NoDeed EXCEPT !.pc = "write", !.op = "end", !.actor = a, !.target = s]
    <2>1. BeginDeed(d, a, next) /\ session[s] # NoSession
      BY <1>6 DEF EndImpersonation
    <2>2. next \in Deed /\ DeedFits(next) /\ DeedHolds(next)
      BY <2>1, NoDeedTyped DEF Deed, DeedFits, DeedHolds
    <2> HIDE DEF next
    <2> QED
      BY <2>1, <2>2, BeginDeedKeeps
  <1> QED
    BY <1>1, <1>2, <1>3, <1>4, <1>5, <1>6 DEF Deeds

\* Companies and sessions that are there stay there.
NothingLeaves ==
  /\ \A c \in Companies : company[c] # "none" => company'[c] # "none"
  /\ \A s \in Sessions : session[s] # NoSession => session'[s] # NoSession

LEMMA FitsOn ==
  ASSUME PlatformInv, NEW d \in Clerks, NothingLeaves
  PROVE  /\ deed'[d] = deed[d] => DeedFits(deed[d])'
         /\ deed'[d] = [deed[d] EXCEPT !.stale = TRUE] => DeedFits(deed[d])'
         /\ deed[d].pc = "write" /\ deed[d].op # "seed" /\ deed'[d] = [deed[d] EXCEPT !.pc = "audit"]
              => DeedFits(deed[d])'
         /\ deed'[d] = NoDeed => DeedFits(deed[d])'
  <1>1. deed[d] \in Deed /\ DeedFits(deed[d])
    BY DeedTyped
  <1>2. CASE deed'[d] = deed[d]
    BY <1>1, <1>2 DEF DeedFits, NothingLeaves
  <1>3. CASE deed'[d] = [deed[d] EXCEPT !.stale = TRUE]
    <2>1. /\ deed'[d].pc = deed[d].pc /\ deed'[d].op = deed[d].op
          /\ deed'[d].actor = deed[d].actor /\ deed'[d].target = deed[d].target
          /\ deed'[d].value = deed[d].value
      BY <1>1, <1>3 DEF Deed
    <2> QED
      BY <1>1, <2>1 DEF DeedFits, NothingLeaves
  <1>4. CASE /\ deed[d].pc = "write" /\ deed[d].op # "seed"
             /\ deed'[d] = [deed[d] EXCEPT !.pc = "audit"]
    <2>1. /\ deed'[d].pc = "audit" /\ deed'[d].op = deed[d].op
          /\ deed'[d].actor = deed[d].actor /\ deed'[d].target = deed[d].target
          /\ deed'[d].value = deed[d].value
      BY <1>1, <1>4 DEF Deed
    <2> QED
      BY <1>1, <1>4, <2>1 DEF DeedFits, NothingLeaves
  <1>5. CASE deed'[d] = NoDeed
    BY <1>5, NoDeedTyped DEF DeedFits
  <1> QED
    BY <1>2, <1>3, <1>4, <1>5

\* The deeds after a write of one of them.
LEMMA DeedWrittenKeeps ==
  ASSUME PlatformInv, NEW d \in Clerks, NEW pc \in {"idle", "audit"}, DeedWritten(d, pc),
         deed[d].pc = "write", pc = "audit" => deed[d].op # "seed", NothingLeaves,
         \A x \in Clerks \ {d} :
           deed'[x] = deed[x] /\ ~Overtakes(d, x) /\ DeedHolds(deed[x]) => DeedHolds(deed[x])'
  PROVE  deed' \in [Clerks -> Deed] /\ DeedsFit' /\ DeedsStand'
  <1>1. ASSUME NEW x \in Clerks
        PROVE  /\ deed'[x] \in Deed /\ DeedFits(deed[x])'
               /\ deed'[x].pc = "write" /\ ~deed'[x].stale => DeedHolds(deed[x])'
    <2>1. deed[x] \in Deed /\ (deed[x].pc = "write" /\ ~deed[x].stale => DeedHolds(deed[x]))
      BY DeedTyped
    <2>2. CASE x = d /\ pc = "idle"
      <3>1. deed'[x] = NoDeed
        BY <2>2 DEF DeedWritten
      <3> QED
        BY <3>1, NoDeedTyped, FitsOn
    <2>3. CASE x = d /\ pc = "audit"
      <3>1. deed'[x] = [deed[x] EXCEPT !.pc = "audit"]
        BY <2>3 DEF DeedWritten
      <3>2. deed'[x] \in Deed /\ deed'[x].pc = "audit"
        BY <2>1, <3>1 DEF Deed
      <3> QED
        BY <2>3, <3>1, <3>2, FitsOn
    <2>4. CASE x # d /\ deed[x].pc = "write" /\ Overtakes(d, x)
      <3>1. deed'[x] = [deed[x] EXCEPT !.stale = TRUE]
        BY <2>4 DEF DeedWritten
      <3>2. deed'[x] \in Deed /\ deed'[x].stale
        BY <2>1, <3>1 DEF Deed
      <3> QED
        BY <3>1, <3>2, FitsOn
    <2>5. CASE x # d /\ ~(deed[x].pc = "write" /\ Overtakes(d, x))
      <3>1. deed'[x] = deed[x]
        BY <2>5 DEF DeedWritten
      <3> QED
        BY <2>1, <2>5, <3>1, FitsOn
    <2> QED
      BY <2>2, <2>3, <2>4, <2>5
  <1>2. deed' \in [Clerks -> Deed]
    BY <1>1 DEF DeedWritten
  <1> QED
    BY <1>1, <1>2 DEF DeedsFit, DeedsStand

LEMMA CompanyWriteKeeps ==
  ASSUME PlatformInv, NEW d \in Clerks, ChangeCompanyStatusWrite(d)
  PROVE  PlatformInv' /\ (company \in [Companies -> CompanyStatus] =>
                            company' \in [Companies -> CompanyStatus])
  <1> DEFINE c   == deed[d].target
             new == Given(deed[d].value, company[c])
  <1>1. /\ deed[d].pc = "write" /\ deed[d].op = "company" /\ DeedWritten(d, "audit")
        /\ company' = [company EXCEPT ![c] = new]
        /\ UNCHANGED << users, admin, session, trail, unseated, doubled >>
    BY DEF ChangeCompanyStatusWrite
  <1>2. /\ c \in Companies /\ company[c] # "none"
        /\ deed[d].value \in (CompanyStatus \ {"none"}) \cup {Unset}
    BY <1>1, DeedTyped DEF DeedFits
  <1>3. new # "none" /\ (company[c] \in CompanyStatus => new \in CompanyStatus)
    BY <1>2 DEF Given
  <1> HIDE DEF new
  <1>4. NothingLeaves
    BY <1>1, <1>3 DEF NothingLeaves
  <1>5. \A x \in Clerks \ {d} : deed'[x] = deed[x] /\ DeedHolds(deed[x]) => DeedHolds(deed[x])'
    BY <1>1 DEF DeedHolds, Open, ActiveUsers
  <1>6. deed' \in [Clerks -> Deed] /\ DeedsFit' /\ DeedsStand'
    BY <1>1, <1>4, <1>5, DeedWrittenKeeps
  <1>7. PlatformTypeOK' /\ SessionsWhole' /\ AdminRemains' /\ OneSessionEach'
    BY <1>1, <1>6 DEF PlatformInv, PlatformTypeOK, SessionsWhole, AdminRemains, OneSessionEach
  <1> QED
    BY <1>1, <1>2, <1>3, <1>6, <1>7 DEF PlatformInv

LEMMA SeedWriteKeeps ==
  ASSUME PlatformInv, users \in [Users -> Person], NEW d \in Clerks, NEW u \in Users,
         SeedOwnerWrite(d, u)
  PROVE  PlatformInv'
  <1> DEFINE c == deed[d].target
  <1>1. /\ deed[d].pc = "write" /\ deed[d].op = "seed" /\ DeedWritten(d, "idle") /\ ~Exists(u)
        /\ users' = [users EXCEPT ![u] = [company |-> c, role |-> "admin", active |-> TRUE,
                                          email |-> deed[d].value]]
        /\ trail' = trail \cup {[action |-> "owner", actor |-> deed[d].actor, target |-> u]}
        /\ UNCHANGED << company, admin, session, unseated, doubled >>
    BY DEF SeedOwnerWrite
  <1>2. c \in Companies /\ deed[d].actor \in Admins
    BY <1>1, DeedTyped DEF DeedFits
  <1>3. NothingLeaves
    BY <1>1 DEF NothingLeaves
  <1>4. ASSUME NEW x \in Clerks \ {d}, deed'[x] = deed[x], ~Overtakes(d, x), DeedHolds(deed[x])
        PROVE  DeedHolds(deed[x])'
    <2>1. deed[x].op = "seed" => deed[x].target # c
      BY <1>1, <1>4 DEF Overtakes
    <2>2. \A v \in Users : users'[v] = users[v] \/ users'[v].company = c
      BY <1>1
    <2>3. deed[x].op = "seed" => ActiveUsers(deed[x].target)' = {}
      BY <1>4, <2>1, <2>2 DEF DeedHolds, ActiveUsers
    <2> QED
      BY <1>1, <1>4, <2>3 DEF DeedHolds, Open
  <1>5. deed' \in [Clerks -> Deed] /\ DeedsFit' /\ DeedsStand'
    BY <1>1, <1>3, <1>4, DeedWrittenKeeps
  <1>6. trail' \subseteq Entry
    BY <1>1, <1>2 DEF PlatformInv, PlatformTypeOK, Entry
  <1>7. PlatformTypeOK' /\ SessionsWhole' /\ AdminRemains' /\ OneSessionEach'
    BY <1>1, <1>5, <1>6 DEF PlatformInv, PlatformTypeOK, SessionsWhole, AdminRemains, OneSessionEach
  <1> QED
    BY <1>5, <1>7 DEF PlatformInv

\* The last active administrator goes only if somebody else's suspension came between.
LEMMA AdminWriteKeeps ==
  ASSUME PlatformInv, NEW d \in Clerks, AdminWrite(d)
  PROVE  PlatformInv'
  <1> DEFINE b == deed[d].target
  <1>1. /\ deed[d].pc = "write" /\ deed[d].op \in {"create", "admin"} /\ DeedWritten(d, "audit")
        /\ admin' = [admin EXCEPT ![b] = deed[d].value]
        /\ unseated' = (unseated \/ (deed[d].stale /\ deed[d].value = "suspended"))
        /\ UNCHANGED << company, users, session, trail, doubled >>
    BY DEF AdminWrite, vars, data
  <1>2. /\ b \in Admins /\ deed[d].value \in {"active", "suspended"}
        /\ deed[d].op = "create" => deed[d].value = "active"
        /\ ~deed[d].stale => DeedHolds(deed[d]) /\ deed[d] \in Deed
    BY <1>1, DeedTyped DEF DeedFits
  <1>3. admin \in [Admins -> AdminStatus] /\ unseated \in BOOLEAN /\ deed[d].stale \in BOOLEAN
    BY DeedTyped DEF PlatformInv, PlatformTypeOK, Deed
  <1>4. NothingLeaves
    BY <1>1 DEF NothingLeaves
  <1>5. \A x \in Clerks \ {d} :
          deed'[x] = deed[x] /\ ~Overtakes(d, x) /\ DeedHolds(deed[x]) => DeedHolds(deed[x])'
    BY <1>1 DEF DeedHolds, Overtakes, Open, ActiveUsers
  <1>6. deed' \in [Clerks -> Deed] /\ DeedsFit' /\ DeedsStand'
    BY <1>1, <1>4, <1>5, DeedWrittenKeeps
  <1>7. PlatformTypeOK'
    <2>1. admin' \in [Admins -> AdminStatus]
      BY <1>1, <1>2, <1>3 DEF AdminStatus
    <2>2. unseated' \in BOOLEAN
      BY <1>1, <1>3
    <2> QED
      BY <1>1, <1>6, <2>1, <2>2 DEF PlatformInv, PlatformTypeOK
  <1>8. AdminRemains'
    <2>1. CASE deed[d].value = "active"
      BY <1>1, <1>2, <1>3, <2>1 DEF AdminRemains
    <2>2. CASE deed[d].value = "suspended" /\ ~deed[d].stale
      <3>1. PICK a \in Admins \ {b} : admin[a] = "active"
        BY <1>1, <1>2, <2>2 DEF DeedHolds
      <3>2. admin'[a] = "active"
        BY <1>1, <1>3, <3>1
      <3> QED
        BY <3>1, <3>2 DEF AdminRemains
    <2>3. CASE deed[d].value = "suspended" /\ deed[d].stale
      BY <1>1, <2>3 DEF AdminRemains
    <2> QED
      BY <1>2, <1>3, <2>1, <2>2, <2>3
  <1>9. SessionsWhole' /\ OneSessionEach'
    BY <1>1 DEF PlatformInv, SessionsWhole, OneSessionEach
  <1> QED
    BY <1>6, <1>7, <1>8, <1>9 DEF PlatformInv

\* A second open session appears only if another start came between.
LEMMA StartWriteKeeps ==
  ASSUME PlatformInv, NEW d \in Clerks, NEW s \in Sessions, StartImpersonationWrite(d, s)
  PROVE  PlatformInv'
  <1> DEFINE a   == deed[d].actor
             c   == deed[d].target
             row == [admin |-> a, company |-> c, ended |-> FALSE]
  <1>1. /\ deed[d].pc = "write" /\ deed[d].op = "start" /\ DeedWritten(d, "audit")
        /\ session[s] = NoSession /\ session' = [session EXCEPT ![s] = row]
        /\ doubled' = IF deed[d].stale THEN doubled \cup {<< a, c >>} ELSE doubled
        /\ UNCHANGED << company, users, admin, trail, unseated >>
    BY DEF StartImpersonationWrite, vars, data
  <1>2. /\ a \in Admins /\ c \in Companies
        /\ ~deed[d].stale => \A x \in Sessions : session[x] # row
    BY <1>1, DeedTyped DEF DeedFits, DeedHolds, Open
  <1>3. session \in [Sessions -> Session]
    BY DEF PlatformInv, PlatformTypeOK
  <1>4. row # NoSession
    BY <1>2, PlatformAssumption DEF NoSession
  <1> HIDE DEF a, c
  <1>5. \A x \in Sessions : session'[x] = IF x = s THEN row ELSE session[x]
    BY <1>1, <1>3
  <1>6. NothingLeaves
    BY <1>1, <1>4, <1>5 DEF NothingLeaves
  <1>7. ASSUME NEW x \in Clerks \ {d}, deed'[x] = deed[x], ~Overtakes(d, x), DeedHolds(deed[x])
        PROVE  DeedHolds(deed[x])'
    <2>1. deed[x].op = "start" => deed[x].actor # a \/ deed[x].target # c
      BY <1>1, <1>7 DEF Overtakes, a, c
    <2>2. \A p, q : \A y \in Sessions : Open(y, p, q)' => Open(y, p, q) \/ (p = a /\ q = c)
      BY <1>5 DEF Open
    <2> QED
      BY <1>1, <1>7, <2>1, <2>2 DEF DeedHolds, ActiveUsers
  <1>8. deed' \in [Clerks -> Deed] /\ DeedsFit' /\ DeedsStand'
    BY <1>1, <1>6, <1>7, DeedWrittenKeeps
  <1>9. PlatformTypeOK'
    <2>1. row \in Session
      BY <1>2 DEF Session
    <2>2. session' \in [Sessions -> Session]
      BY <1>1, <1>3, <2>1
    <2> QED
      BY <1>1, <1>2, <1>8, <2>2 DEF PlatformInv, PlatformTypeOK
  <1>10. SessionsWhole' /\ AdminRemains'
    BY <1>1, <1>2, <1>5 DEF PlatformInv, SessionsWhole, AdminRemains
  <1>11. OneSessionEach'
    <2> SUFFICES ASSUME NEW s1 \in Sessions, NEW s2 \in Sessions, s1 # s2,
                        session'[s1] # NoSession, session'[s1] = session'[s2], ~session'[s1].ended
                 PROVE  << session'[s1].admin, session'[s1].company >> \in doubled'
      BY DEF OneSessionEach
    <2>1. CASE s1 = s \/ s2 = s
      <3>1. deed[d].stale /\ session'[s1] = row
        BY <1>2, <1>5, <2>1
      <3> QED
        BY <1>1, <3>1
    <2>2. CASE s1 # s /\ s2 # s
      <3>1. session'[s1] = session[s1] /\ session'[s2] = session[s2]
        BY <1>5, <2>2
      <3> QED
        BY <1>1, <3>1 DEF PlatformInv, OneSessionEach
    <2> QED
      BY <2>1, <2>2
  <1> QED
    BY <1>8, <1>9, <1>10, <1>11 DEF PlatformInv

LEMMA EndWriteKeeps ==
  ASSUME PlatformInv, NEW d \in Clerks, EndImpersonationWrite(d)
  PROVE  PlatformInv'
  <1> DEFINE s   == deed[d].target
             row == [session[s] EXCEPT !.ended = TRUE]
  <1>1. /\ deed[d].pc = "write" /\ deed[d].op = "end" /\ DeedWritten(d, "audit")
        /\ session' = [session EXCEPT ![s] = row]
        /\ UNCHANGED << company, users, admin, trail, unseated, doubled >>
    BY DEF EndImpersonationWrite, vars, data
  <1>2. s \in Sessions /\ session \in [Sessions -> Session]
    BY <1>1, DeedTyped DEF DeedFits, PlatformInv, PlatformTypeOK
  <1>3. /\ row \in Session /\ row.ended /\ row # NoSession
        /\ row.admin = session[s].admin /\ row.company = session[s].company
    BY <1>2 DEF Session, NoSession
  <1> HIDE DEF s, row
  <1>4. \A x \in Sessions : session'[x] = IF x = s THEN row ELSE session[x]
    BY <1>1, <1>2
  <1>5. session[s] # NoSession
    BY <1>1, DeedTyped DEF DeedFits, s
  <1>6. NothingLeaves
    BY <1>1, <1>3, <1>4 DEF NothingLeaves
  <1>7. ASSUME NEW x \in Clerks \ {d}, deed'[x] = deed[x], DeedHolds(deed[x])
        PROVE  DeedHolds(deed[x])'
    <2>1. \A a, c : \A y \in Sessions : Open(y, a, c)' => Open(y, a, c)
      BY <1>3, <1>4 DEF Open
    <2> QED
      BY <1>1, <1>7, <2>1 DEF DeedHolds, ActiveUsers
  <1>8. deed' \in [Clerks -> Deed] /\ DeedsFit' /\ DeedsStand'
    BY <1>1, <1>6, <1>7, DeedWrittenKeeps
  <1>9. PlatformTypeOK'
    BY <1>1, <1>2, <1>3, <1>8 DEF PlatformInv, PlatformTypeOK
  <1>10. SessionsWhole' /\ AdminRemains'
    BY <1>1, <1>2, <1>3, <1>4, <1>5 DEF PlatformInv, SessionsWhole, AdminRemains
  <1>11. OneSessionEach'
    BY <1>1, <1>3, <1>4 DEF PlatformInv, OneSessionEach
  <1> QED
    BY <1>8, <1>9, <1>10, <1>11 DEF PlatformInv

LEMMA DeedEndKeeps ==
  ASSUME PlatformInv, NEW d \in Clerks, deed' = [deed EXCEPT ![d] = NoDeed], trail' \subseteq Entry,
         UNCHANGED << company, users, admin, session, unseated, doubled >>
  PROVE  PlatformInv'
  <1>1. PlatformTypeOK' /\ SessionsWhole' /\ AdminRemains' /\ OneSessionEach'
    BY NoDeedTyped DEF PlatformInv, PlatformTypeOK, SessionsWhole, AdminRemains, OneSessionEach
  <1>2. NothingLeaves
    BY DEF NothingLeaves
  <1>3. ASSUME NEW x \in Clerks
        PROVE  DeedFits(deed[x])' /\ (deed'[x].pc = "write" /\ ~deed'[x].stale => DeedHolds(deed[x])')
    <2>1. deed'[x] = IF x = d THEN NoDeed ELSE deed[x]
      BY DEF PlatformInv, PlatformTypeOK
    <2>2. DeedFits(deed[x])'
      BY <1>2, <2>1, FitsOn
    <2>3. CASE x = d
      <3>1. deed'[x].pc = "idle"
        BY <2>1, <2>3, NoDeedTyped
      <3> QED
        BY <2>2, <3>1
    <2>4. CASE x # d
      BY <2>1, <2>2, <2>4, DeedTyped DEF DeedHolds, Open, ActiveUsers
    <2> QED
      BY <2>3, <2>4
  <1> QED
    BY <1>1, <1>3 DEF PlatformInv, DeedsFit, DeedsStand

LEMMA AuditKeeps ==
  ASSUME PlatformInv, NEW d \in Clerks, AppendPlatformAudit(d) \/ FailDeed(d)
  PROVE  PlatformInv'
  <1>1. CASE AppendPlatformAudit(d)
    <2>1. deed[d] \in Deed /\ DeedFits(deed[d]) /\ deed[d].pc = "audit"
      BY <1>1, DeedTyped DEF AppendPlatformAudit
    <2>2. /\ deed[d].op \in {"company", "create", "admin", "start", "end"} /\ deed[d].actor \in Admins
          /\ deed[d].op # "end" => deed[d].target \in Companies \cup Admins
          /\ deed[d].op = "end" => session[deed[d].target].company \in Companies
      BY <2>1 DEF DeedFits, Deed, PlatformInv, SessionsWhole
    <2>3. trail' \subseteq Entry
      BY <1>1, <2>2 DEF AppendPlatformAudit, Entry, PlatformInv, PlatformTypeOK
    <2> QED
      BY <1>1, <2>3, DeedEndKeeps DEF AppendPlatformAudit, vars, data
  <1>2. CASE FailDeed(d)
    BY <1>2, DeedEndKeeps DEF FailDeed, vars, data, PlatformInv, PlatformTypeOK
  <1> QED
    BY <1>1, <1>2

-----------------------------------------------------------------------------
(* All together.                                                           *)

AllInv == AccountsInv /\ SettingsInv /\ PlatformInv

LEMMA AllStart == PlatformInit => AllInv
  BY AccountsStart, SettingsStart, PlatformStart DEF PlatformInit, AllInv

\* The identities of requests have types of their own.
LEMMA Identities ==
  ASSUME AllInv
  PROVE  /\ \A a \in Users : Identity(a) \in Who
         /\ \A s \in Sessions : SessionIdentity(s) \in Who
  <1>1. ASSUME NEW a \in Users PROVE Identity(a) \in Who
    BY RowTyped DEF AllInv, AccountsInv, Identity, TenantUser, Nobody, Who, Person, Role
  <1>2. ASSUME NEW s \in Sessions PROVE SessionIdentity(s) \in Who
    <2>1. session[s].company \in Companies \cup {Unset}
      BY DEF AllInv, PlatformInv, PlatformTypeOK, Session
    <2> QED
      BY <2>1 DEF SessionIdentity, Impersonator, Nobody, Who, Role
  <1> QED
    BY <1>1, <1>2

\* A step of a user is one of these, for some identity.
UserStep(t) ==
  \/ \E who \in Who : Asks(t, who)
  \/ \E email \in Emails : Register(t, email)
  \/ Writes(t)
  \/ Fail(t)

LEMMA TenantsStep ==
  ASSUME AllInv, Tenants
  PROVE  \E t \in Threads : UserStep(t)
  BY Identities DEF Tenants, Step, UserStep

LEMMA UserStepKeeps ==
  ASSUME AccountsInv, NEW t \in Threads, UserStep(t)
  PROVE  AccountsInv'
  <1>1. ASSUME NEW who \in Who, Asks(t, who) PROVE AccountsInv'
    BY <1>1, AsksKeeps
  <1>2. ASSUME NEW email \in Emails, Register(t, email) PROVE AccountsInv'
    BY <1>2, RegisterKeeps
  <1>3. CASE Writes(t)
    <2>1. CASE UpdateCourierLocationWrite(t)
      <3>1. call' = [call EXCEPT ![t] = Idle]
        BY <2>1 DEF UpdateCourierLocationWrite, Done, AccountsInv, AccountsTypeOK
      <3>2. call[t].target \in Users
        BY <2>1 DEF UpdateCourierLocationWrite, AccountsInv, CallsFit, FitsCall
      <3>3. located' \subseteq Users
        BY <2>1, <3>2 DEF UpdateCourierLocationWrite, AccountsInv, AccountsTypeOK
      <3> QED
        BY <2>1, <3>1, <3>3, EndKeeps DEF UpdateCourierLocationWrite
    <2> QED
      BY <1>3, <2>1, CreateUserKeeps, UpdateUserKeeps, CourierStatusKeeps, RegisterWriteKeeps
         DEF Writes
  <1>4. CASE Fail(t)
    BY <1>4, EndKeeps DEF Fail, data, AccountsInv, AccountsTypeOK
  <1> QED
    BY <1>1, <1>2, <1>3, <1>4 DEF UserStep

LEMMA UserStepCompanies ==
  ASSUME AccountsInv, NEW t \in Threads, UserStep(t)
  PROVE  \A c \in Companies : company[c] # "none" => company'[c] # "none"
  <1>1. UNCHANGED company \/ \E c \in Companies : company' = [company EXCEPT ![c] = "active"]
    BY DEF UserStep, Asks, CreateUser, UpdateUser, UpdateCourierStatus, UpdateCourierLocation,
           Register, Begin, Writes, CreateUserWrite, UpdateUserWrite, UpdateCourierStatusWrite,
           UpdateCourierLocationWrite, RegisterWrite, Fail, data
  <1> QED
    BY <1>1 DEF AccountsInv, AccountsTypeOK

\* A seeding that is not overtaken still finds nobody.
LEMMA TenantsKeep ==
  ASSUME AllInv, Tenants
  PROVE  AllInv'
  <1>1. PICK t \in Threads : UserStep(t)
    BY TenantsStep
  <1>2. AccountsInv'
    BY <1>1, UserStepKeeps DEF AllInv
  <1>3. UNCHANGED << settings, admin, session, trail, unseated, doubled >> /\ SeedingsOvertaken
    BY DEF Tenants
  <1>4. SettingsInv'
    BY <1>3 DEF AllInv, SettingsInv, settings, SettingsTypeOK, ChoresFit, ChoreFits, ChoresStand,
                ChoreStands, StampsFit
  <1>5. PlatformInv /\ NothingLeaves
    BY <1>1, <1>3, UserStepCompanies DEF AllInv, NothingLeaves
  <1>6. ASSUME NEW x \in Clerks
        PROVE  /\ deed'[x] \in Deed /\ DeedFits(deed[x])'
               /\ deed'[x].pc = "write" /\ ~deed'[x].stale => DeedHolds(deed[x])'
    <2>1. deed[x] \in Deed /\ (deed[x].pc = "write" /\ ~deed[x].stale => DeedHolds(deed[x]))
      BY <1>5, DeedTyped
    <2>2. CASE deed[x].op = "seed" /\ \E u \in Users : Appears(u, deed[x].target)
      <3>1. deed'[x] = [deed[x] EXCEPT !.stale = TRUE]
        BY <1>3, <2>2 DEF SeedingsOvertaken
      <3>2. deed'[x] \in Deed /\ deed'[x].stale
        BY <2>1, <3>1 DEF Deed
      <3> QED
        BY <1>5, <3>1, <3>2, FitsOn
    <2>3. CASE ~(deed[x].op = "seed" /\ \E u \in Users : Appears(u, deed[x].target))
      <3>1. deed'[x] = deed[x]
        BY <1>3, <2>3 DEF SeedingsOvertaken
      <3>2. deed[x].op = "seed" /\ DeedHolds(deed[x]) => ActiveUsers(deed[x].target)' = {}
        BY <2>3, <3>1 DEF Appears, DeedHolds, ActiveUsers
      <3>3. DeedHolds(deed[x]) => DeedHolds(deed[x])'
        BY <1>3, <3>1, <3>2 DEF DeedHolds, Open
      <3> QED
        BY <1>5, <2>1, <3>1, <3>3, FitsOn
    <2> QED
      BY <2>2, <2>3
  <1>7. deed' \in [Clerks -> Deed]
    BY <1>3, <1>6 DEF SeedingsOvertaken
  <1>8. DeedsFit' /\ DeedsStand'
    BY <1>6 DEF DeedsFit, DeedsStand
  <1>9. PlatformInv'
    BY <1>3, <1>5, <1>7, <1>8 DEF PlatformInv, PlatformTypeOK, SessionsWhole, AdminRemains,
                                  OneSessionEach
  <1> QED
    BY <1>2, <1>4, <1>9 DEF AllInv

LEMMA ConfiguresLeaves ==
  ASSUME NEW t \in Threads, NEW who, Configures(t, who)
  PROVE  UNCHANGED << data, call, raced, zone, feature, blurred >> /\ made' = made + 1
  BY DEF Configures, CreateZone, UpdateZone, DeleteZone, UpsertFeatureFlag, BeginChore

LEMMA ChoreWritesLeave ==
  ASSUME NEW t \in Threads, ChoreWrites(t) \/ FailChore(t)
  PROVE  UNCHANGED << data, call, raced, made >> /\ (FailChore(t) => UNCHANGED zone)
  BY DEF ChoreWrites, CreateZoneWrite, UpdateZoneWrite, DeleteZoneWrite, UpsertFeatureFlagWrite,
         FailChore, vars

\* Steps of the settings leave accounts and platform alone but for the count of calls.
LEMMA SettingsKeep ==
  ASSUME AllInv, Settings
  PROVE  AllInv'
  <1>1. PICK t \in Threads : \/ \E who \in Who : Configures(t, who)
                             \/ ChoreWrites(t) \/ FailChore(t)
    BY Identities DEF Settings, ChoreStep
  <1>2. SettingsInv'
    BY <1>1, ConfiguresKeeps, ChoreWritesKeep, FailChoreKeeps DEF AllInv
  <1>3. UNCHANGED << data, call, raced >> /\ made' \in {made, made + 1}
    BY <1>1, ConfiguresLeaves, ChoreWritesLeave
  <1>4. AccountsInv'
    BY <1>3 DEF AllInv, AccountsInv, data, AccountsTypeOK, CallsFit, FitsCall, ReadsStand, ReadStands,
                CouriersHaveProfiles, IsCourier, Exists, ProfilesFollowUser, DispatcherFollowsUser,
                CourierFollowsUser
  <1>5. PlatformInv'
    BY <1>3 DEF Settings, platform, data, AllInv, PlatformInv, PlatformTypeOK, DeedsFit, DeedFits,
                DeedsStand, DeedHolds, Open, ActiveUsers, SessionsWhole, AdminRemains, OneSessionEach
  <1> QED
    BY <1>2, <1>4, <1>5 DEF AllInv

\* Deeds and their writes.
LEMMA DeedStepKeeps ==
  ASSUME AllInv, NEW d \in Clerks,
         DeedWrites(d) \/ (MayBeginDeed(d) /\ \E a \in Admins : Deeds(d, a))
  PROVE  AllInv'
  <1>1. ASSUME UNCHANGED << users, courier, dispatcher, located, call, raced >>,
               company' \in [Companies -> CompanyStatus], made' \in Nat
        PROVE  AccountsInv'
    BY <1>1 DEF AllInv, AccountsInv, AccountsTypeOK, CallsFit, FitsCall, ReadsStand, ReadStands,
                CouriersHaveProfiles, IsCourier, Exists, ProfilesFollowUser, DispatcherFollowsUser,
                CourierFollowsUser
  <1>2. UNCHANGED settings => SettingsInv'
    BY DEF AllInv, SettingsInv, settings, SettingsTypeOK, ChoresFit, ChoreFits, ChoresStand,
           ChoreStands, StampsFit
  <1>3. AccountsTypeOK /\ PlatformInv /\ company \in [Companies -> CompanyStatus] /\ made \in Nat
        /\ users \in [Users -> Person]
    BY DEF AllInv, AccountsInv, AccountsTypeOK
  <1>4. ASSUME NEW a \in Admins, Deeds(d, a)
        PROVE  AllInv'
    <2>1. UNCHANGED << data, call, raced, settings >> /\ made' = made + 1
      BY <1>4 DEF Deeds, ChangeCompanyStatus, SeedOwner, StartImpersonation, CreateAdmin,
                  UpdateAdmin, EndImpersonation, BeginDeed
    <2>2. AccountsInv' /\ SettingsInv'
      BY <1>1, <1>2, <1>3, <2>1 DEF data
    <2> QED
      BY <1>3, <1>4, <2>2, DeedsKeep DEF AllInv
  <1>5. CASE ChangeCompanyStatusWrite(d)
    <2>1. PlatformInv' /\ company' \in [Companies -> CompanyStatus]
      BY <1>3, <1>5, CompanyWriteKeeps
    <2>2. AccountsInv' /\ SettingsInv'
      BY <1>1, <1>2, <1>3, <1>5, <2>1 DEF ChangeCompanyStatusWrite
    <2> QED
      BY <2>1, <2>2 DEF AllInv
  <1>6. ASSUME NEW u \in Users, SeedOwnerWrite(d, u)
        PROVE  AllInv'
    <2> DEFINE c   == deed[d].target
               row == [company |-> c, role |-> "admin", active |-> TRUE, email |-> deed[d].value]
    <2>1. /\ deed[d].op = "seed" /\ ~Exists(u) /\ users' = [users EXCEPT ![u] = row]
          /\ seedDefaultFeatures(c)
          /\ UNCHANGED << company, courier, dispatcher, located, call, raced, made, zone, chore,
                          blurred >>
      BY <1>6 DEF SeedOwnerWrite
    <2>2. c \in Companies /\ deed[d].value \in Emails
      BY <1>3, <2>1, DeedTyped DEF DeedFits
    <2>3. row \in Person /\ row.company # Unset /\ row.role = "admin"
      BY <2>2, AccountsAssumption DEF Person, Role
    <2>4. SettingsInv'
      BY <2>1, <2>2, SeedKeeps DEF AllInv
    <2>5. PlatformInv'
      BY <1>3, <1>6, SeedWriteKeeps
    <2> HIDE DEF row
    <2>6. AccountsInv'
      BY <1>3, <2>1, <2>3, OwnerKeeps DEF AllInv
    <2> QED
      BY <2>4, <2>5, <2>6 DEF AllInv
  <1>7. CASE AdminWrite(d)
    BY <1>1, <1>2, <1>3, <1>7, AdminWriteKeeps DEF AdminWrite, vars, data, AllInv
  <1>8. ASSUME NEW s \in Sessions, StartImpersonationWrite(d, s)
        PROVE  AllInv'
    BY <1>1, <1>2, <1>3, <1>8, StartWriteKeeps DEF StartImpersonationWrite, vars, data, AllInv
  <1>9. CASE EndImpersonationWrite(d)
    BY <1>1, <1>2, <1>3, <1>9, EndWriteKeeps DEF EndImpersonationWrite, vars, data, AllInv
  <1>10. CASE AppendPlatformAudit(d) \/ FailDeed(d)
    BY <1>1, <1>2, <1>3, <1>10, AuditKeeps DEF AppendPlatformAudit, FailDeed, vars, data, AllInv
  <1> QED
    BY <1>4, <1>5, <1>6, <1>7, <1>8, <1>9, <1>10 DEF DeedWrites

LEMMA ProvisionKeeps ==
  ASSUME AllInv, NEW a \in Admins, NEW c \in Companies, NEW u \in Users, NEW email \in Emails,
         ProvisionCompany(a, c, u, email)
  PROVE  AllInv'
  <1> DEFINE row == [company |-> c, role |-> "admin", active |-> TRUE, email |-> email]
  <1>1. /\ company[c] = "none" /\ ~Exists(u) /\ users' = [users EXCEPT ![u] = row]
        /\ company' = [company EXCEPT ![c] = "active"] /\ made' = made + 1
        /\ seedDefaultFeatures(c)
        /\ trail' = trail \cup {[action |-> "company", actor |-> a, target |-> c]}
        /\ UNCHANGED << courier, dispatcher, located, call, raced, zone, chore, blurred,
                        admin, session, deed, unseated, doubled >>
    BY DEF ProvisionCompany
  <1>2. row \in Person /\ row.company # Unset /\ row.role = "admin"
    BY AccountsAssumption DEF Person, Role
  <1>3. /\ company' \in [Companies -> CompanyStatus] /\ made' \in Nat
        /\ \A x \in Companies : company[x] # "none" => company'[x] # "none"
    BY <1>1 DEF AllInv, AccountsInv, AccountsTypeOK, CompanyStatus
  <1>4. \A v \in Users : users'[v] = users[v] \/ users'[v].company = c
    BY <1>1
  <1>5. SettingsInv'
    BY <1>1, SeedKeeps DEF AllInv
  <1> HIDE DEF row
  <1>6. AccountsInv'
    BY <1>1, <1>2, <1>3, OwnerKeeps DEF AllInv
  <1>7. PlatformInv /\ NothingLeaves
    BY <1>1, <1>3 DEF AllInv, NothingLeaves
  <1>8. ASSUME NEW x \in Clerks
        PROVE  DeedFits(deed[x])' /\ (deed'[x].pc = "write" /\ ~deed'[x].stale => DeedHolds(deed[x])')
    <2>1. DeedFits(deed[x]) /\ (deed[x].pc = "write" /\ ~deed[x].stale => DeedHolds(deed[x]))
      BY <1>7, DeedTyped
    <2>2. deed[x].op = "seed" => deed[x].target # c
      BY <1>1, <2>1 DEF DeedFits
    <2>3. deed[x].op = "seed" /\ DeedHolds(deed[x]) => ActiveUsers(deed[x].target)' = {}
      BY <1>1, <1>4, <2>2 DEF DeedHolds, ActiveUsers
    <2>4. DeedHolds(deed[x]) => DeedHolds(deed[x])'
      BY <1>1, <2>3 DEF DeedHolds, Open
    <2> QED
      BY <1>1, <1>7, <2>1, <2>4, FitsOn
  <1>9. trail' \subseteq Entry
    BY <1>1, <1>7 DEF PlatformInv, PlatformTypeOK, Entry
  <1>10. PlatformInv'
    BY <1>1, <1>7, <1>8, <1>9 DEF PlatformInv, PlatformTypeOK, DeedsFit, DeedsStand, SessionsWhole,
                                  AdminRemains, OneSessionEach
  <1> QED
    BY <1>5, <1>6, <1>10 DEF AllInv

LEMMA SignInKeeps ==
  ASSUME AllInv, NEW a \in Admins, NEW action \in {"login", "logout"}, PlatformSignIn(a, action)
  PROVE  AllInv'
  <1>1. UNCHANGED << company, users, courier, dispatcher, located, call, raced, zone, feature, chore,
                     blurred, admin, session, deed, unseated, doubled >>
    BY DEF PlatformSignIn, data, settings
  <1>2. made' \in Nat /\ trail' \subseteq Entry
    BY DEF PlatformSignIn, AllInv, AccountsInv, AccountsTypeOK, PlatformInv, PlatformTypeOK, Entry
  <1>3. AccountsInv'
    BY <1>1, <1>2 DEF AllInv, AccountsInv, AccountsTypeOK, CallsFit, FitsCall, ReadsStand, ReadStands,
                CouriersHaveProfiles, IsCourier, Exists, ProfilesFollowUser, DispatcherFollowsUser,
                CourierFollowsUser
  <1>4. SettingsInv'
    BY <1>1 DEF AllInv, SettingsInv, SettingsTypeOK, ChoresFit, ChoreFits, ChoresStand, ChoreStands,
                StampsFit
  <1>5. PlatformInv'
    BY <1>1, <1>2 DEF AllInv, PlatformInv, PlatformTypeOK, DeedsFit, DeedFits, DeedsStand, DeedHolds,
                      Open, ActiveUsers, SessionsWhole, AdminRemains, OneSessionEach
  <1> QED
    BY <1>3, <1>4, <1>5 DEF AllInv

LEMMA StutterKeeps ==
  ASSUME AllInv, UNCHANGED all
  PROVE  AllInv'
  <1>1. UNCHANGED << company, users, courier, dispatcher, located, call, raced, made, zone, feature,
                     chore, blurred, admin, session, trail, deed, unseated, doubled >>
    BY DEF all, vars, data, settings, platform
  <1>2. AccountsInv'
    BY <1>1 DEF AllInv, AccountsInv, AccountsTypeOK, CallsFit, FitsCall, ReadsStand, ReadStands,
                CouriersHaveProfiles, IsCourier, Exists, ProfilesFollowUser, DispatcherFollowsUser,
                CourierFollowsUser
  <1>3. SettingsInv'
    BY <1>1 DEF AllInv, SettingsInv, SettingsTypeOK, ChoresFit, ChoreFits, ChoresStand, ChoreStands,
                StampsFit
  <1>4. PlatformInv'
    BY <1>1 DEF AllInv, PlatformInv, PlatformTypeOK, DeedsFit, DeedFits, DeedsStand, DeedHolds,
                Open, ActiveUsers, SessionsWhole, AdminRemains, OneSessionEach
  <1> QED
    BY <1>2, <1>3, <1>4 DEF AllInv

LEMMA AllStep == AllInv /\ [PlatformNext]_all => AllInv'
  BY TenantsKeep, SettingsKeep, DeedStepKeeps, ProvisionKeeps, SignInKeeps, StutterKeeps
     DEF PlatformNext

LEMMA AllAlways == PlatformSpec => []AllInv
  BY AllStart, AllStep, PTL DEF PlatformSpec

\* The types of the tables and of all that is in flight.
THEOREM TypeCorrect == PlatformSpec => [](AccountsTypeOK /\ SettingsTypeOK /\ PlatformTypeOK)
  BY AllAlways, PTL DEF AllInv, AccountsInv, SettingsInv, PlatformInv

\* Profiles are those of the user's role, however the edits of a user interleave.
THEOREM ProfilesCorrect == PlatformSpec => []ProfilesFollowUser
  BY AllAlways, PTL DEF AllInv, AccountsInv

\* What was checked before a write stands after it, unless the write was overtaken.
THEOREM ChecksCorrect == PlatformSpec => []StandsUnlessRaced
  BY AllAlways, PTL DEF AllInv, SettingsInv, PlatformInv, StandsUnlessRaced

-----------------------------------------------------------------------------
(* What a step may do.                                                     *)

LEMMA ListsTrue == ListsOwn
  <1>1. ASSUME NEW c, NEW model \in {"User", "Courier", "Dispatcher"}, NEW u \in Users,
               Reaches(runWithTenant(c), model, "findMany", users[u].company)
        PROVE  users[u].company = c
    BY <1>1, ReachesOwn, Queries
  <1> QED
    BY <1>1 DEF ListsOwn, listUsers, listCouriers, listDispatchers

\* The steps of users that write a row write one of their company.
LEMMA UserStepOwn ==
  ASSUME AllInv, NEW t \in Threads, UserStep(t)
  PROVE  WritesOwn
  <1>1. ASSUME NEW u \in Users, Row(u)' # Row(u)
        PROVE  /\ Exists(u) => users'[u].company = users[u].company
               /\ call[t].scope = users'[u].company \/ call[t].op = "register"
               /\ \A x \in Threads \ {t} : call[x].pc = call'[x].pc
    <2>1. AccountsTypeOK /\ CallsFit
      BY DEF AllInv, AccountsInv
    <2>2. ASSUME NEW written, Done(t, written)
          PROVE  \A x \in Threads \ {t} : call[x].pc = call'[x].pc
      BY <2>1, <2>2 DEF Done, AccountsTypeOK, Call
    <2>3. ASSUME \/ \E who \in Who : Asks(t, who)
                 \/ \E email \in Emails : Register(t, email)
                 \/ Fail(t)
          PROVE  FALSE
      BY <1>1, <2>3 DEF Asks, CreateUser, UpdateUser, UpdateCourierStatus, UpdateCourierLocation,
                        Register, Begin, Fail, data, Row
    <2>4. ASSUME NEW v \in Users, CreateUserWrite(t, v)
          PROVE  /\ Exists(u) => users'[u].company = users[u].company
                 /\ call[t].scope = users'[u].company
      <3>1. u = v
        BY <1>1, <2>1, <2>4 DEF CreateUserWrite, syncRoleProfiles, AccountsTypeOK, Row
      <3>2. users'[v].company = call[t].scope /\ ~Exists(v)
        BY <2>1, <2>4, NewIsOwn, Queries DEF CreateUserWrite, AccountsTypeOK
      <3> QED
        BY <3>1, <3>2
    <2>5. ASSUME UpdateUserWrite(t)
          PROVE  users'[u].company = users[u].company /\ call[t].scope = users'[u].company
      <3>1. u = call[t].target
        BY <1>1, <2>1, <2>5 DEF UpdateUserWrite, syncRoleProfiles, AccountsTypeOK, Row
      <3>2. users'[u].company = users[u].company
        BY <2>1, <2>5, <3>1 DEF UpdateUserWrite, AccountsTypeOK, Person
      <3>3. Reaches(runWithTenant(call[t].scope), "User", "update", users[u].company)
        BY <2>5, <3>1 DEF UpdateUserWrite
      <3> QED
        BY <3>2, <3>3, ReachesOwn, Queries
    <2>6. ASSUME UpdateCourierStatusWrite(t)
          PROVE  users'[u].company = users[u].company /\ call[t].scope = users'[u].company
      <3>1. u = call[t].target /\ users' = users
        BY <1>1, <2>1, <2>6 DEF UpdateCourierStatusWrite, AccountsTypeOK, Row
      <3>2. Reaches(runWithTenant(call[t].scope), "Courier", "update", users[u].company)
        BY <2>6, <3>1 DEF UpdateCourierStatusWrite
      <3> QED
        BY <3>1, <3>2, ReachesOwn, Queries
    <2>7. ASSUME UpdateCourierLocationWrite(t)
          PROVE  users'[u].company = users[u].company /\ call[t].scope = users'[u].company
      <3>1. u = call[t].target /\ users' = users
        BY <1>1, <2>1, <2>7 DEF UpdateCourierLocationWrite, AccountsTypeOK, Row
      <3>2. Reaches(runWithTenant(call[t].scope), "Courier", "update", users[u].company)
        BY <2>7, <3>1 DEF UpdateCourierLocationWrite
      <3> QED
        BY <3>1, <3>2, ReachesOwn, Queries
    <2>8. ASSUME NEW c \in Companies, NEW v \in Users, RegisterWrite(t, c, v)
          PROVE  /\ Exists(u) => users'[u].company = users[u].company
                 /\ call[t].op = "register"
      <3>1. u = v
        BY <1>1, <2>1, <2>8 DEF RegisterWrite, AccountsTypeOK, Row
      <3> QED
        BY <2>8, <3>1 DEF RegisterWrite
    <2>9. \A x \in Threads \ {t} : call[x].pc = call'[x].pc
      BY <2>2, <2>3 DEF UserStep, Writes, CreateUserWrite, UpdateUserWrite, UpdateCourierStatusWrite,
                        UpdateCourierLocationWrite, RegisterWrite
    <2> QED
      BY <2>3, <2>4, <2>5, <2>6, <2>7, <2>8, <2>9 DEF UserStep, Writes
  <1> QED
    BY <1>1 DEF WritesOwn

\* Steps of others write no call and, if any, the row of somebody new.
LEMMA OthersLeaveRows ==
  ASSUME AllInv, PlatformNext, ~Tenants
  PROVE  /\ UNCHANGED << courier, dispatcher, located, call >>
         /\ \A u \in Users : Exists(u) => users'[u] = users[u]
  <1>1. CASE Settings
    <2>1. UNCHANGED data /\ UNCHANGED call
      BY <1>1, ConfiguresLeaves, ChoreWritesLeave DEF Settings, ChoreStep
    <2> QED
      BY <2>1 DEF data
  <1>2. ASSUME NEW d \in Clerks, NEW a \in Admins, Deeds(d, a)
        PROVE  UNCHANGED data /\ UNCHANGED call
    BY <1>2 DEF Deeds, ChangeCompanyStatus, SeedOwner, StartImpersonation, CreateAdmin, UpdateAdmin,
                EndImpersonation, BeginDeed
  <1>3. ASSUME NEW d \in Clerks, NEW u \in Users, SeedOwnerWrite(d, u)
        PROVE  /\ UNCHANGED << courier, dispatcher, located, call >>
               /\ \A v \in Users : Exists(v) => users'[v] = users[v]
    BY <1>3 DEF SeedOwnerWrite
  <1>4. ASSUME NEW d \in Clerks, DeedWrites(d), \A u \in Users : ~SeedOwnerWrite(d, u)
        PROVE  UNCHANGED << users, courier, dispatcher, located, call >>
    BY <1>4 DEF DeedWrites, ChangeCompanyStatusWrite, AdminWrite, StartImpersonationWrite,
                EndImpersonationWrite, AppendPlatformAudit, FailDeed, vars, data
  <1>5. ASSUME NEW a \in Admins, NEW c \in Companies, NEW u \in Users, NEW email \in Emails,
               ProvisionCompany(a, c, u, email)
        PROVE  /\ UNCHANGED << courier, dispatcher, located, call >>
               /\ \A v \in Users : Exists(v) => users'[v] = users[v]
    BY <1>5 DEF ProvisionCompany
  <1>6. ASSUME NEW a \in Admins, NEW action, PlatformSignIn(a, action)
        PROVE  UNCHANGED << users, courier, dispatcher, located, call >>
    BY <1>6 DEF PlatformSignIn, data
  <1> QED
    BY <1>1, <1>2, <1>3, <1>4, <1>5, <1>6 DEF PlatformNext, data

\* A call writes rows of its company only, and lists show a company its own rows.
THEOREM IsolationCorrect == PlatformSpec => TenantIsolation
  <1>1. ASSUME AllInv, PlatformNext PROVE WritesOwn
    <2>1. CASE Tenants
      BY <1>1, <2>1, TenantsStep, UserStepOwn
    <2>2. CASE ~Tenants
      BY <1>1, <2>2, OthersLeaveRows DEF WritesOwn, Row, Exists
    <2> QED
      BY <2>1, <2>2
  <1>2. AllInv /\ [PlatformNext]_all => [WritesOwn /\ ListsOwn]_vars
    BY <1>1, ListsTrue DEF all
  <1> QED
    BY <1>2, AllAlways, PTL DEF PlatformSpec, TenantIsolation

\* An edit that was not overtaken writes back the status that is there.
LEMMA EditKeeps ==
  ASSUME AllInv, PlatformNext
  PROVE  EditKeepsAvailability
  <1> SUFFICES ASSUME NEW t \in Threads, call[t].op = "update", call'[t].pc = "idle", ~call[t].stale,
                      call[t].target \notin raced,
                      users'[call[t].target].role = users[call[t].target].role,
                      users'[call[t].target].active = users[call[t].target].active
               PROVE  courier'[call[t].target] = courier[call[t].target]
    BY DEF EditKeepsAvailability
  <1> DEFINE u == call[t].target
  <1>1. AccountsTypeOK /\ CallsFit /\ ReadsStand /\ CouriersHaveProfiles /\ ProfilesFollowUser
    BY DEF AllInv, AccountsInv
  <1>2. /\ call[t].pc = "write" /\ u \in Users /\ Exists(u)
        /\ call[t].role = users[u].role /\ call[t].courier = courier[u]
    BY <1>1 DEF CallsFit, FitsCall, ReadsStand, ReadStands
  <1>3. CASE ~Tenants
    BY <1>2, <1>3, OthersLeaveRows
  <1>4. CASE Tenants
    <2>1. PICK x \in Threads : UserStep(x)
      BY <1>4, TenantsStep
    <2>2. CASE ~Writes(x)
      BY <1>2, <2>1, <2>2 DEF UserStep, Asks, CreateUser, UpdateUser, UpdateCourierStatus,
                              UpdateCourierLocation, Register, Begin, Fail, data
    <2>3. CASE Writes(x)
      <3>1. x = t
        <4>1. \A written : Done(x, written) /\ x # t => call'[t].pc = call[t].pc
          BY <1>1 DEF Done, AccountsTypeOK, Call
        <4> QED
          BY <1>2, <2>3, <4>1 DEF Writes, CreateUserWrite, UpdateUserWrite, UpdateCourierStatusWrite,
                                  UpdateCourierLocationWrite, RegisterWrite
      <3>2. UpdateUserWrite(t)
        BY <2>3, <3>1 DEF Writes, CreateUserWrite, UpdateCourierStatusWrite,
                          UpdateCourierLocationWrite, RegisterWrite
      <3>3. /\ users'[u].role \in Role /\ users'[u].active \in BOOLEAN
            /\ syncRoleProfiles(t, u, users'[u].role, users'[u].active)
        <4> DEFINE row == [users[u] EXCEPT !.role = Given(call[t].dto.role, @),
                                           !.active = Given(call[t].dto.active, @),
                                           !.email = Given(call[t].dto.email, @)]
        <4>1. users' = [users EXCEPT ![u] = row] /\ syncRoleProfiles(t, u, row.role, row.active)
          BY <3>2 DEF UpdateUserWrite
        <4>2. users'[u] = row
          BY <1>1, <1>2, <4>1 DEF AccountsTypeOK
        <4>3. users[u].role \in Role /\ users[u].active \in BOOLEAN
          BY <1>1, <1>2, RowTyped DEF Person
        <4> HIDE DEF row
        <4> QED
          BY <4>1, <4>2, <4>3
      <3>4. CASE users[u].role = "courier"
        <4>1. courier[u] # "none" /\ CourierProfile(t, u) = courier[u]
          BY <1>1, <1>2, <3>4 DEF CouriersHaveProfiles, IsCourier, CourierProfile
        <4>2. users[u].active => courier[u] # "inactive"
          BY <1>1, <1>2, <3>4 DEF ProfilesFollowUser, CourierFollowsUser
        <4>3. ~users[u].active => courier[u] = "inactive"
          BY <1>1, <1>2, <4>1 DEF ProfilesFollowUser, CourierFollowsUser
        <4>4. courier'[u] = resolveCourierStatus(users[u].active, "courier", courier[u])
          BY <1>1, <1>2, <3>3, <3>4, <4>1 DEF syncRoleProfiles, AccountsTypeOK
        <4> QED
          BY <4>1, <4>2, <4>3, <4>4 DEF resolveCourierStatus
      <3>5. CASE users[u].role # "courier"
        <4>1. courier[u] \in {"none", "inactive"}
          BY <1>1, <1>2, <3>5 DEF ProfilesFollowUser, CourierFollowsUser
        <4> QED
          BY <1>1, <1>2, <3>3, <3>5, <4>1 DEF syncRoleProfiles, CourierProfile, AccountsTypeOK
      <3> QED
        BY <3>4, <3>5
    <2> QED
      BY <2>2, <2>3
  <1> QED
    BY <1>3, <1>4

\* Only an overtaken edit writes an archived zone.
LEMMA ArchivedKeeps ==
  ASSUME AllInv, PlatformNext
  PROVE  [OvertakenWakesOnly]_settings
  <1> SUFFICES ASSUME NEW z \in Zones, zone[z].company # Unset, ~zone[z].active, zone'[z] # zone[z]
               PROVE  \E t \in Threads : chore[t].zone = z /\ chore[t].stale /\ chore'[t] = NoChore
    BY DEF OvertakenWakesOnly
  <1>1. Settings
    <2>1. ASSUME NEW d \in Clerks, DeedWrites(d) PROVE UNCHANGED zone
      BY <2>1 DEF DeedWrites, ChangeCompanyStatusWrite, SeedOwnerWrite, AdminWrite,
                  StartImpersonationWrite, EndImpersonationWrite, AppendPlatformAudit, FailDeed,
                  settings
    <2>2. ASSUME NEW d \in Clerks, NEW a \in Admins, Deeds(d, a) PROVE UNCHANGED zone
      BY <2>2 DEF Deeds, ChangeCompanyStatus, SeedOwner, StartImpersonation, CreateAdmin,
                  UpdateAdmin, EndImpersonation, BeginDeed, settings
    <2>3. Tenants => UNCHANGED zone
      BY DEF Tenants, settings
    <2> QED
      BY <2>1, <2>2, <2>3 DEF PlatformNext, ProvisionCompany, PlatformSignIn, settings
  <1>2. PICK t \in Threads : ChoreWrites(t)
    BY <1>1, ConfiguresLeaves, ChoreWritesLeave DEF Settings, ChoreStep
  <1>3. ChoreFits(chore[t]) /\ ChoreStands(chore[t]) /\ zone \in [Zones -> Zone] /\ chore[t] \in Chore
    BY DEF AllInv, SettingsInv, SettingsTypeOK, ChoresFit, ChoresStand
  <1>4. UpdateZoneWrite(t) \/ DeleteZoneWrite(t)
    BY <1>2, <1>3 DEF ChoreWrites, CreateZoneWrite, UpsertFeatureFlagWrite
  <1>5. chore[t].op \in {"update", "archive"} /\ ChoreDone(t) /\ chore[t].zone = z
    BY <1>3, <1>4 DEF UpdateZoneWrite, DeleteZoneWrite
  <1>6. chore[t].stale
    BY <1>3, <1>5 DEF ChoreStands
  <1>7. chore'[t] = NoChore
    BY <1>5 DEF ChoreDone
  <1> QED
    BY <1>5, <1>6, <1>7

\* What a call has no business to change it keeps unless it was overtaken.
THEOREM KeepsCorrect == PlatformSpec => KeepsUnlessRaced
  <1>1. AllInv /\ [PlatformNext]_all => [EditKeepsAvailability]_vars
    BY EditKeeps DEF all
  <1>2. AllInv /\ [PlatformNext]_all => [OvertakenWakesOnly]_settings
    BY ArchivedKeeps DEF all
  <1>3. AllInv => SeedsEmpty
    BY DEF AllInv, PlatformInv, DeedsFit, DeedFits, DeedsStand, DeedHolds, PlatformTypeOK, Deed,
           SeedsEmpty
  <1> QED
    BY <1>1, <1>2, <1>3, AllAlways, PTL
       DEF PlatformSpec, KeepsUnlessRaced, AvailabilityKept, ArchivedStays, SeedsOnlyEmpty

==============================================================================
