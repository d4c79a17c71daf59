------------------------------ MODULE Platform ------------------------------
(***************************************************************************)
(* Platform administration beside the companies' own users                 *)
(* (PlatformService, TenantProvisioningService, impersonation in           *)
(* AuthService).                                                           *)
(*                                                                         *)
(* Administrators of the platform make companies with their first owner,   *)
(* change the status of companies and of each other, and act inside a      *)
(* company through an impersonation session.  Except for provisioning, a   *)
(* deed is a row read, a row written and an audit entry appended, in       *)
(* statements of their own.                                                *)
(*                                                                         *)
(* History: the field stale of a deed says that what it has read was       *)
(* written since; unseated says that an administrator was suspended by     *)
(* such a deed, doubled holds the pairs whose session was started by one.  *)
(***************************************************************************)
EXTENDS CompanySettings

CONSTANTS
  Admins,   \* platform administrators
  Sessions, \* the rows impersonation sessions can have
  Clerks,   \* deeds that can be in flight at the same time
  First     \* the administrators there are at first

ASSUME PlatformAssumption ==
  /\ First \subseteq Admins /\ First # {}
  /\ Unset \notin Admins \cup Sessions

VARIABLES
  admin,    \* platform_super_admins.status
  session,  \* platform_impersonation_sessions
  trail,    \* platform_audit_events, as a set
  deed,     \* what each deed is doing
  unseated, \* an administrator was suspended by an overtaken deed
  doubled   \* administrator and company whose session an overtaken deed started

platform == << admin, session, trail, deed, unseated, doubled >>

all == << vars, settings, platform >>

AdminStatus == { "none", "active", "suspended" }

Session == [admin : Admins \cup {Unset}, company : Companies \cup {Unset}, ended : BOOLEAN]

NoSession == [admin |-> Unset, company |-> Unset, ended |-> FALSE]

Entry == [action : {"company", "admin", "started", "ended", "owner", "login", "logout"},
          actor : Admins, target : Companies \cup Admins \cup Users]

Deed == [pc : {"idle", "write", "audit"},
         op : {"none", "company", "create", "admin", "start", "end", "seed"},
         actor : Admins \cup {Unset},
         target : Companies \cup Admins \cup Sessions \cup {Unset},
         value : CompanyStatus \cup AdminStatus \cup Emails \cup {Unset}, stale : BOOLEAN]

NoDeed == [pc |-> "idle", op |-> "none", actor |-> Unset, target |-> Unset, value |-> Unset,
           stale |-> FALSE]

PlatformInit ==
  /\ Init /\ SettingsInit
  /\ admin    = [a \in Admins |-> IF a \in First THEN "active" ELSE "none"]
  /\ session  = [s \in Sessions |-> NoSession]
  /\ trail    = {}
  /\ deed     = [d \in Clerks |-> NoDeed]
  /\ unseated = FALSE
  /\ doubled  = {}

-----------------------------------------------------------------------------
(* Who acts.                                                               *)

\* validatePlatformAdmin, at the start of every request.
AdminIdentity(a) == IF admin[a] = "active" THEN PlatformAdmin(a) ELSE Nobody

\* validateImpersonationSession: the session is open, its administrator and its
\* company are active, and some active administrator of the company stands in.
SessionIdentity(s) ==
  LET c == session[s].company IN
  IF /\ session[s].admin # Unset /\ ~session[s].ended
     /\ admin[session[s].admin] = "active"
     /\ company[c] = "active"
     /\ \E u \in Users : users[u].company = c /\ users[u].role = "admin" /\ users[u].active
  THEN Impersonator(Unset, c) ELSE Nobody

ActiveUsers(c) == { u \in Users : users[u].company = c /\ users[u].active }

MayBeginDeed(d) == deed[d].pc = "idle" /\ made < MaxCalls

BeginDeed(d, a, next) ==
  /\ Admitted(PlatformRoute, AdminIdentity(a))
  /\ MayBeginDeed(d)
  /\ made' = made + 1
  /\ deed' = [deed EXCEPT ![d] = next]
  /\ UNCHANGED << data, call, raced, settings, admin, session, trail, unseated, doubled >>

\* What the write of deed d takes from under another deed x: the administrators it
\* counted, the session it looked for or has read.
Overtakes(d, x) ==
  \/ deed[x].op = "admin" /\ deed[d].op \in {"admin", "create"}
  \/ deed[x].op = "start" /\ deed[d].op = "start" /\ deed[x].actor = deed[d].actor
       /\ deed[x].target = deed[d].target
  \/ deed[x].op = "end" /\ deed[d].op = "end" /\ deed[x].target = deed[d].target
  \/ deed[x].op = "seed" /\ deed[d].op = "seed" /\ deed[x].target = deed[d].target

\* Deed d has written and goes on to pc.
DeedWritten(d, pc) ==
  deed' = [x \in Clerks |->
             IF x = d THEN IF pc = "idle" THEN NoDeed ELSE [deed[d] EXCEPT !.pc = pc]
             ELSE IF deed[x].pc = "write" /\ Overtakes(d, x) THEN [deed[x] EXCEPT !.stale = TRUE]
             ELSE deed[x]]

FailDeed(d) ==
  /\ deed[d].pc # "idle"
  /\ deed' = [deed EXCEPT ![d] = NoDeed]
  /\ UNCHANGED << vars, settings, admin, session, trail, unseated, doubled >>

\* appendPlatformAudit, the last statement of a deed.
AppendPlatformAudit(d) ==
  /\ deed[d].pc = "audit"
  /\ trail' = trail \cup
       {[action |-> CASE deed[d].op = "company" -> "company"
                      [] deed[d].op \in {"create", "admin"} -> "admin"
                      [] deed[d].op = "start" -> "started"
                      [] deed[d].op = "end" -> "ended",
         actor |-> deed[d].actor,
         target |-> IF deed[d].op = "end" THEN session[deed[d].target].company
                    ELSE deed[d].target]}
  /\ deed' = [deed EXCEPT ![d] = NoDeed]
  /\ UNCHANGED << vars, settings, admin, session, unseated, doubled >>

-----------------------------------------------------------------------------
(* Companies.                                                              *)

\* createCompany: one transaction makes company, owner, features and entry; the
\* unique index on the slug is left out, ids are fresh.
ProvisionCompany(a, c, u, email) ==
  /\ Admitted(PlatformRoute, AdminIdentity(a)) /\ made < MaxCalls
  /\ company[c] = "none" /\ ~Exists(u)
  /\ company' = [company EXCEPT ![c] = "active"]
  /\ users' = [users EXCEPT ![u] = [company |-> c, role |-> "admin", active |-> TRUE,
                                    email |-> email]]
  /\ seedDefaultFeatures(c)
  /\ trail' = trail \cup {[action |-> "company", actor |-> a, target |-> c]}
  /\ made' = made + 1
  /\ UNCHANGED << courier, dispatcher, located, call, raced, zone, chore, blurred,
                  admin, session, deed, unseated, doubled >>

\* changeCompanyStatus, archiveCompany and, without a status, updateCompany.
ChangeCompanyStatus(d, a, c, status) ==
  /\ company[c] # "none"
  /\ BeginDeed(d, a, [NoDeed EXCEPT !.pc = "write", !.op = "company", !.actor = a,
                                    !.target = c, !.value = status])

ChangeCompanyStatusWrite(d) ==
  LET c == deed[d].target IN
  /\ deed[d].pc = "write" /\ deed[d].op = "company"
  /\ company' = [company EXCEPT ![c] = Given(deed[d].value, @)]
  /\ DeedWritten(d, "audit")
  /\ UNCHANGED << users, courier, dispatcher, located, call, raced, made, settings,
                  admin, session, trail, unseated, doubled >>

\* seedOwner: the company is there and has no active user.
SeedOwner(d, a, c, email) ==
  /\ company[c] # "none" /\ ActiveUsers(c) = {}
  /\ BeginDeed(d, a, [NoDeed EXCEPT !.pc = "write", !.op = "seed", !.actor = a,
                                    !.target = c, !.value = email])

\* The writes of its transaction; u is the new row.
SeedOwnerWrite(d, u) ==
  LET c == deed[d].target IN
  /\ deed[d].pc = "write" /\ deed[d].op = "seed"
  /\ ~Exists(u) /\ ~EmailTaken(c, deed[d].value, u)
  /\ users' = [users EXCEPT ![u] = [company |-> c, role |-> "admin", active |-> TRUE,
                                    email |-> deed[d].value]]
  /\ seedDefaultFeatures(c)
  /\ trail' = trail \cup {[action |-> "owner", actor |-> deed[d].actor, target |-> u]}
  /\ DeedWritten(d, "idle")
  /\ UNCHANGED << company, courier, dispatcher, located, call, raced, made, zone, chore,
                  blurred, admin, session, unseated, doubled >>

-----------------------------------------------------------------------------
(* Administrators.                                                         *)

CreateAdmin(d, a, b) ==
  /\ admin[b] = "none"
  /\ BeginDeed(d, a, [NoDeed EXCEPT !.pc = "write", !.op = "create", !.actor = a,
                                    !.target = b, !.value = "active"])

\* Mutant: a suspension is not checked.
SuspendAnyone(d, a, b, status) ==
  /\ admin[b] # "none"
  /\ BeginDeed(d, a, [NoDeed EXCEPT !.pc = "write", !.op = "admin", !.actor = a,
                                    !.target = b, !.value = status])

\* updateAdmin: not oneself, and not the last active one.
UpdateAdmin(d, a, b, status) ==
  /\ admin[b] # "none"
  /\ status = "suspended" => b # a /\ \E x \in Admins \ {b} : admin[x] = "active"
  /\ BeginDeed(d, a, [NoDeed EXCEPT !.pc = "write", !.op = "admin", !.actor = a,
                                    !.target = b, !.value = status])

\* The insert of createAdmin (its email is unique) or the update of updateAdmin.
AdminWrite(d) ==
  LET b == deed[d].target IN
  /\ deed[d].pc = "write" /\ deed[d].op \in {"create", "admin"}
  /\ deed[d].op = "create" => admin[b] = "none"
  /\ admin' = [admin EXCEPT ![b] = deed[d].value]
  /\ unseated' = (unseated \/ (deed[d].stale /\ deed[d].value = "suspended"))
  /\ DeedWritten(d, "audit")
  /\ UNCHANGED << vars, settings, session, trail, doubled >>

\* loginPlatform and logoutPlatform: an entry each.
PlatformSignIn(a, action) ==
  /\ admin[a] = "active" /\ made < MaxCalls
  /\ trail' = trail \cup {[action |-> action, actor |-> a, target |-> a]}
  /\ made' = made + 1
  /\ UNCHANGED << data, call, raced, settings, admin, session, deed, unseated, doubled >>

-----------------------------------------------------------------------------
(* Impersonation.                                                          *)

Open(s, a, c) == session[s] = [admin |-> a, company |-> c, ended |-> FALSE]

\* startImpersonation: the company is active and no session of a is open there.
StartImpersonation(d, a, c) ==
  /\ company[c] = "active"
  /\ \A s \in Sessions : ~Open(s, a, c)
  /\ BeginDeed(d, a, [NoDeed EXCEPT !.pc = "write", !.op = "start", !.actor = a,
                                    !.target = c])

StartImpersonationWrite(d, s) ==
  LET a == deed[d].actor
      c == deed[d].target IN
  /\ deed[d].pc = "write" /\ deed[d].op = "start"
  /\ session[s] = NoSession
  /\ session' = [session EXCEPT ![s] = [admin |-> a, company |-> c, ended |-> FALSE]]
  /\ doubled' = IF deed[d].stale THEN doubled \cup {<< a, c >>} ELSE doubled
  /\ DeedWritten(d, "audit")
  /\ UNCHANGED << vars, settings, admin, trail, unseated >>

\* endImpersonation: by any administrator; a session that has ended is refused.
EndImpersonation(d, a, s) ==
  /\ session[s] # NoSession /\ ~session[s].ended
  /\ BeginDeed(d, a, [NoDeed EXCEPT !.pc = "write", !.op = "end", !.actor = a,
                                    !.target = s])

EndImpersonationWrite(d) ==
  /\ deed[d].pc = "write" /\ deed[d].op = "end"
  /\ session' = [session EXCEPT ![deed[d].target].ended = TRUE]
  /\ DeedWritten(d, "audit")
  /\ UNCHANGED << vars, settings, admin, trail, unseated, doubled >>

-----------------------------------------------------------------------------
(* The companies' own users, who overtake a seeding when an active user    *)
(* appears; and what an administrator does inside a company.               *)

Appears(u, c) == users'[u].company = c /\ users'[u].active /\ u \notin ActiveUsers(c)

SeedingsOvertaken ==
  deed' = [d \in Clerks |->
             IF deed[d].op = "seed" /\ \E u \in Users : Appears(u, deed[d].target)
             THEN [deed[d] EXCEPT !.stale = TRUE] ELSE deed[d]]

Tenants ==
  /\ \/ \E t \in Threads : Step(t) \/ \E s \in Sessions : Asks(t, SessionIdentity(s))
  /\ SeedingsOvertaken
  /\ UNCHANGED << settings, admin, session, trail, unseated, doubled >>

Settings ==
  /\ \E t \in Threads : ChoreStep(t) \/ \E s \in Sessions : Configures(t, SessionIdentity(s))
  /\ UNCHANGED platform

Deeds(d, a) ==
  \/ \E c \in Companies :
       \/ \E status \in (CompanyStatus \ {"none"}) \cup {Unset} : ChangeCompanyStatus(d, a, c, status)
       \/ \E email \in Emails : SeedOwner(d, a, c, email)
       \/ StartImpersonation(d, a, c)
  \/ \E b \in Admins :
       \/ CreateAdmin(d, a, b)
       \/ \E status \in {"active", "suspended"} : UpdateAdmin(d, a, b, status)
  \/ \E s \in Sessions : EndImpersonation(d, a, s)

DeedWrites(d) ==
  \/ ChangeCompanyStatusWrite(d)
  \/ \E u \in Users : SeedOwnerWrite(d, u)
  \/ AdminWrite(d)
  \/ \E s \in Sessions : StartImpersonationWrite(d, s)
  \/ EndImpersonationWrite(d)
  \/ AppendPlatformAudit(d)
  \/ FailDeed(d)

PlatformNext ==
  \/ Tenants
  \/ Settings
  \/ \E d \in Clerks : DeedWrites(d) \/ (MayBeginDeed(d) /\ \E a \in Admins : Deeds(d, a))
  \/ \E a \in Admins :
       \/ \E c \in Companies, u \in Users, email \in Emails : ProvisionCompany(a, c, u, email)
       \/ \E action \in {"login", "logout"} : PlatformSignIn(a, action)

PlatformSpec == PlatformInit /\ [][PlatformNext]_all

-----------------------------------------------------------------------------
(* Properties.                                                             *)

\* Types of the platform's tables and of its deeds.
PlatformTypeOK ==
  /\ admin    \in [Admins -> AdminStatus]
  /\ session  \in [Sessions -> Session]
  /\ trail    \subseteq Entry
  /\ deed     \in [Clerks -> Deed]
  /\ unseated \in BOOLEAN
  /\ doubled  \subseteq Admins \X Companies

\* Some administrator stays active, unless two suspensions that counted each
\* other's administrators were written one after the other
\* (PlatformService.updateAdmin counts first and updates later).
AdminRemains == unseated \/ \E a \in Admins : admin[a] = "active"

\* An administrator has one open session in a company at most, unless two starts
\* both looked before either had written (PlatformService.startImpersonation; no
\* index stands behind the check).
OneSessionEach ==
  \A s1, s2 \in Sessions :
    s1 # s2 /\ session[s1] # NoSession /\ session[s1] = session[s2] /\ ~session[s1].ended =>
      << session[s1].admin, session[s1].company >> \in doubled

SeedsEmpty ==
  \A d \in Clerks :
    deed[d].op = "seed" /\ deed[d].pc # deed'[d].pc /\ users' # users /\ ~deed[d].stale =>
      ActiveUsers(deed[d].target) = {}

\* seedOwner is for companies without anybody: when the owner is written nobody
\* there is active, unless somebody appeared since the count
\* (TenantProvisioningService.seedOwner, a transaction that locks nothing it counts).
SeedsOnlyEmpty == [][SeedsEmpty]_all

\* What a call has checked, or stamped, before it writes stands unless two of them raced.
StandsUnlessRaced == AdminRemains /\ OneSessionEach /\ StampsFit

\* What a call has no business to change it keeps unless it was overtaken: the
\* availability of a courier, an archived zone, a company that has somebody.
KeepsUnlessRaced == AvailabilityKept /\ ArchivedStays /\ SeedsOnlyEmpty

=============================================================================
