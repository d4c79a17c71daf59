---------------------------- MODULE RequestScope ----------------------------
(***************************************************************************)
(* What a request may do and which rows its queries reach.                 *)
(*                                                                         *)
(* A request passes the guards of its route (JwtAuthGuard, TenantGuard,    *)
(* RolesGuard, PermissionsGuard, on platform routes PlatformGuard).  Its   *)
(* queries run in an asynchronous context that names a company or bypasses *)
(* the isolation, and every query is rewritten for that context            *)
(* (applyTenantIsolation).  Everything here is without state.              *)
(***************************************************************************)

CONSTANTS
  Companies, \* tenants
  Unset      \* no value: no company, no user, a field that was not given

-----------------------------------------------------------------------------
(* Identities.  kind is authType; a request without a token is Nobody.     *)

Role == { "admin", "dispatcher", "courier" }

Nobody == [kind |-> "none", id |-> Unset, company |-> Unset, role |-> Unset]

TenantUser(id, company, role) ==
  [kind |-> "tenant", id |-> id, company |-> company, role |-> role]

Impersonator(id, company) ==
  [kind |-> "impersonation", id |-> id, company |-> company, role |-> "admin"]

PlatformAdmin(id) == [kind |-> "platform", id |-> id, company |-> Unset, role |-> Unset]

isTenantAuthenticatedUser(who) ==
  who.kind \in {"tenant", "impersonation"} /\ who.company # Unset

isPlatformAdminUser(who) == who.kind = "platform"

-----------------------------------------------------------------------------
(* Guards.  A route is public, platform or guarded; roles and permission   *)
(* are empty sets where the route asks for none.                           *)

PermissionName ==
  { "view:orders", "edit:orders", "edit:routes", "edit:zones", "edit:payment-rules",
    "approve:motivation-rules", "view:financial-analytics", "view:operational-analytics",
    "view:own-earnings", "manage:couriers", "manage:shifts", "connect:integrations",
    "manage:users" }

ROLE_PERMISSION_MATRIX ==
  [ r \in Role |->
      CASE r = "admin"      -> PermissionName
        [] r = "dispatcher" -> { "view:orders", "edit:orders", "edit:routes",
                                 "view:operational-analytics", "manage:couriers",
                                 "manage:shifts" }
        [] r = "courier"    -> { "view:orders", "view:own-earnings" } ]

Route(public, platform, roles, permissions) ==
  [public |-> public, platform |-> platform, roles |-> roles, permissions |-> permissions]

TenantRoute(roles, permissions) == Route(FALSE, FALSE, roles, permissions)

PlatformRoute == Route(FALSE, TRUE, {}, {})

JwtAuthGuard(route, who) == route.public \/ who.kind # "none"

TenantGuard(route, who) == route.public \/ route.platform \/ isTenantAuthenticatedUser(who)

RolesGuard(route, who) ==
  \/ route.public \/ route.platform \/ route.roles = {}
  \/ isTenantAuthenticatedUser(who) /\ who.role \in route.roles

PermissionsGuard(route, who) ==
  \/ route.public \/ route.platform \/ route.permissions = {}
  \/ isTenantAuthenticatedUser(who) /\ route.permissions \subseteq ROLE_PERMISSION_MATRIX[who.role]

PlatformGuard(route, who) == route.platform => isPlatformAdminUser(who)

\* The guards in the order the application registers them.
Admitted(route, who) ==
  /\ JwtAuthGuard(route, who)
  /\ TenantGuard(route, who)
  /\ RolesGuard(route, who)
  /\ PermissionsGuard(route, who)
  /\ PlatformGuard(route, who)

-----------------------------------------------------------------------------
(* The asynchronous context of a query and the rewriting of its arguments. *)

Context == [bypassTenant : BOOLEAN, companyId : Companies \cup {Unset}]

runWithTenant(company) == [bypassTenant |-> FALSE, companyId |-> company]

runWithoutTenant == [bypassTenant |-> TRUE, companyId |-> Unset]

TENANT_SCOPED_MODELS ==
  { "User", "Courier", "Dispatcher", "Zone", "Order", "OrderStatusHistory", "Route",
    "RoutePoint", "PaymentRuleVersion", "Payment", "PaymentRecalculation", "AuditLog",
    "Integration", "IntegrationEvent", "CompanyFeature" }

CREATE_ACTIONS == { "create", "createMany", "createManyAndReturn" }

UPDATE_ACTIONS == { "update", "updateMany", "upsert" }

READ_ACTIONS ==
  { "findUnique", "findUniqueOrThrow", "findFirst", "findFirstOrThrow", "findMany", "count",
    "aggregate", "groupBy", "delete", "deleteMany" } \cup UPDATE_ACTIONS

\* The company a where clause, or the data of a write, names: Unset for none.
Arguments == [where : Companies \cup {Unset}, data : Companies \cup {Unset}]

\* The data of a write names another company than the context.
Violates(ctx, args) == args.data \notin {Unset, ctx.companyId}

\* MissingTenantContextError or TenantWriteViolationError.
Refused(ctx, model, action, args) ==
  /\ model \in TENANT_SCOPED_MODELS /\ ~ctx.bypassTenant
  /\ \/ ctx.companyId = Unset
     \/ action \in CREATE_ACTIONS \cup UPDATE_ACTIONS /\ Violates(ctx, args)

\* Mutant: the where clause of a query is left as the caller wrote it.
WhereAsGiven(ctx, model, action, args) ==
  IF model \notin TENANT_SCOPED_MODELS \/ ctx.bypassTenant THEN args
  ELSE [ where |-> args.where,
         data  |-> IF action \in CREATE_ACTIONS \cup {"upsert"} THEN ctx.companyId ELSE args.data ]

applyTenantIsolation(ctx, model, action, args) ==
  IF model \notin TENANT_SCOPED_MODELS \/ ctx.bypassTenant THEN args
  ELSE [ where |-> IF action \in READ_ACTIONS THEN ctx.companyId ELSE args.where,
         data  |-> IF action \in CREATE_ACTIONS \cup {"upsert"} THEN ctx.companyId ELSE args.data ]

\* Whether a query by id reaches a row of that company.
Reaches(ctx, model, action, company) ==
  LET args == [where |-> Unset, data |-> Unset]
      sent == applyTenantIsolation(ctx, model, action, args) IN
  ~Refused(ctx, model, action, args) /\ sent.where \in {Unset, company}

\* The company of a row that is created for the company given, Unset if refused.
CompanyOfNew(ctx, model, company) ==
  LET args == [where |-> Unset, data |-> company] IN
  IF Refused(ctx, model, "create", args) THEN Unset
  ELSE applyTenantIsolation(ctx, model, "create", args).data

=============================================================================
