----------------------------- MODULE ApiRoutes -----------------------------
(***************************************************************************)
(* The HTTP interface of the API as index.ts mounts it: every route of     *)
(* every router, with the guard its declaration puts before the handler.   *)
(* A path is a tuple <<verb, segment, ...>>; a segment such as ":id" is a   *)
(* parameter.  The same routers are mounted under /api/v1 and under the     *)
(* legacy /api, so the prefix is left out.                                  *)
(*                                                                         *)
(* A router's table stands for its declarations; what its handlers have in  *)
(* common, admission by the guard, at most one change and an answer, is     *)
(* Gateway's Handle, which knows a handler by its entry here.               *)
(*                                                                         *)
(* Guards, from the weakest:                                               *)
(*   open                 nothing                                          *)
(*   user                 requireAuth                                      *)
(*   member, writer,      requireAuth, requireOrg and no role, or          *)
(*   manager, owner       requireRole with the roles of GuardRoles         *)
(*   project_...          the same with projects.ts' requireProjectOrg     *)
(*   manage_..., view_... requireAuth, requireOrg, requireCapability       *)
(*   admin                requireAdmin                                     *)
(***************************************************************************)
EXTENDS Sequences, Functions

Everyone == {"owner", "admin", "member", "viewer"}
Managers == {"owner", "admin"}

(* The roles each guard lets through: requireRole's arguments, and for a   *)
(* capability the roles ROLE_CAPABILITIES gives it to.                      *)
GuardRoles ==
    [member |-> Everyone, project_member |-> Everyone,
     writer |-> Everyone \ {"viewer"},
     manager |-> Managers, project_manager |-> Managers,
     owner |-> {"owner"}]

ROLE_CAPABILITIES ==
    [manage_policies |-> Everyone \ {"viewer"},
     manage_budgets |-> Everyone \ {"viewer"},
     manage_wallets |-> Everyone \ {"viewer"},
     manage_alerts |-> Managers,
     manage_webhooks |-> Managers,
     manage_api_keys |-> Managers,
     view_audit_log |-> Everyone \ {"member"}]

Guarded(guard, paths) == {[path |-> p, guard |-> guard] : p \in paths}

VaultsRoutes ==
    Guarded("member", {<<"POST", "vaults">>,
        <<"GET", "vaults", ":walletAddress">>,
        <<"POST", "vaults", ":vaultId", "deposit">>,
        <<"POST", "vaults", ":vaultId", "policy">>,
        <<"POST", "vaults", ":vaultId", "withdraw">>,
        <<"POST", "vaults", ":vaultId", "reclaim">>,
        <<"GET", "vaults", ":vaultId", "history">>})

AuthRoutes ==
    Guarded("open", {<<"POST", "auth", "register">>,
        <<"POST", "auth", "login">>})
    \cup Guarded("user", {<<"GET", "auth", "me">>,
        <<"POST", "auth", "logout">>})

OrgsRoutes ==
    Guarded("user", {<<"POST", "orgs">>, <<"GET", "orgs">>})
    \cup Guarded("member", {<<"GET", "orgs", ":id">>})
    \cup Guarded("manager", {<<"PATCH", "orgs", ":id">>,
        <<"POST", "orgs", ":id", "members">>,
        <<"PATCH", "orgs", ":id", "members", ":userId">>,
        <<"DELETE", "orgs", ":id", "members", ":userId">>,
        <<"GET", "orgs", ":id", "audit-logs">>})
    \cup Guarded("owner", {<<"DELETE", "orgs", ":id">>,
        <<"POST", "orgs", ":id", "restore">>,
        <<"POST", "orgs", ":id", "suspend">>,
        <<"POST", "orgs", ":id", "unsuspend">>})
    \cup Guarded("writer", {<<"GET", "orgs", ":id", "members">>})

ProjectsRoutes ==
    Guarded("manager", {<<"POST", "projects">>})
    \cup Guarded("member", {<<"GET", "projects">>})
    \cup Guarded("project_member", {<<"GET", "projects", ":id">>,
        <<"GET", "projects", ":id", "blobs">>})
    \cup Guarded("project_manager", {<<"PATCH", "projects", ":id">>,
        <<"POST", "projects", ":id", "archive">>,
        <<"POST", "projects", ":id", "unarchive">>,
        <<"DELETE", "projects", ":id">>,
        <<"POST", "projects", ":id", "restore">>})

BlobsRoutes ==
    Guarded("writer", {<<"POST", "blobs">>, <<"PATCH", "blobs", ":id">>})
    \cup Guarded("member", {<<"GET", "blobs">>, <<"GET", "blobs", ":id">>,
        <<"GET", "blobs", ":id", "transitions">>})
    \cup Guarded("manager", {<<"GET", "blobs", "export">>,
        <<"DELETE", "blobs", ":id">>, <<"POST", "blobs", "bulk">>})

PoliciesRoutes ==
    Guarded("manage_policies", {<<"POST", "policies">>,
        <<"PATCH", "policies", ":id">>,
        <<"POST", "policies", ":id", "pause">>,
        <<"POST", "policies", ":id", "activate">>,
        <<"POST", "policies", ":id", "archive">>,
        <<"DELETE", "policies", ":id">>,
        <<"POST", "policies", ":id", "assign">>,
        <<"POST", "policies", ":id", "unassign">>,
        <<"POST", "policies", "resolve">>})
    \cup Guarded("member", {<<"GET", "policies">>,
        <<"GET", "policies", ":id">>,
        <<"GET", "policies", "resolve", ":blobId">>})

WalletsRoutes ==
    Guarded("manage_wallets", {<<"POST", "wallets">>,
        <<"PATCH", "wallets", ":id">>, <<"DELETE", "wallets", ":id">>,
        <<"POST", "wallets", ":id", "restore">>,
        <<"POST", "wallets", ":id", "revoke-delegation">>,
        <<"POST", "wallets", ":id", "reconnect">>,
        <<"POST", "wallets", ":id", "refresh-balance">>,
        <<"POST", "wallets", ":id", "delegate">>,
        <<"POST", "wallets", ":id", "delegations", ":delegationId", "revoke">>})
    \cup Guarded("member", {<<"GET", "wallets">>, <<"GET", "wallets", ":id">>,
        <<"GET", "wallets", ":id", "delegations">>})

AlertsRoutes ==
    Guarded("manage_alerts", {<<"POST", "alerts", "channels">>,
        <<"PATCH", "alerts", "channels", ":id">>,
        <<"DELETE", "alerts", "channels", ":id">>,
        <<"POST", "alerts", "rules">>, <<"PATCH", "alerts", "rules", ":id">>,
        <<"POST", "alerts", "rules", ":id", "pause">>,
        <<"POST", "alerts", "rules", ":id", "activate">>,
        <<"DELETE", "alerts", "rules", ":id">>,
        <<"POST", "alerts", "alert-events", ":id", "escalate">>})
    \cup Guarded("member", {<<"GET", "alerts", "channels">>,
        <<"GET", "alerts", "channels", ":id">>, <<"GET", "alerts", "rules">>,
        <<"GET", "alerts", "rules", ":id">>})

AnalyticsRoutes ==
    Guarded("member", {<<"GET", "analytics", "overview">>,
        <<"GET", "analytics", "storage">>, <<"GET", "analytics", "renewals">>,
        <<"GET", "analytics", "costs">>, <<"GET", "analytics", "forecasts">>})

AuditLogsRoutes ==
    Guarded("view_audit_log", {<<"GET", "audit-logs">>})

ActivityFeedRoutes ==
    Guarded("member", {<<"GET", "activity-feed">>})

BillingRoutes ==
    Guarded("member", {<<"GET", "billing", "subscription">>,
        <<"GET", "billing", "usage">>})
    \cup Guarded("manager", {<<"POST", "billing", "subscription">>,
        <<"GET", "billing", "invoices">>})

ApiKeysRoutes ==
    Guarded("manage_api_keys", {<<"POST", "api-keys">>,
        <<"POST", "api-keys", ":id", "rotate">>,
        <<"DELETE", "api-keys", ":id">>})
    \cup Guarded("member", {<<"GET", "api-keys">>})

PublishersRoutes ==
    Guarded("manager", {<<"POST", "publishers">>,
        <<"PATCH", "publishers", ":id">>, <<"DELETE", "publishers", ":id">>})
    \cup Guarded("member", {<<"GET", "publishers">>,
        <<"GET", "publishers", ":id">>,
        <<"POST", "publishers", ":id", "heartbeat">>})

AggregatorsRoutes ==
    Guarded("manager", {<<"POST", "aggregators">>,
        <<"PATCH", "aggregators", ":id">>, <<"DELETE", "aggregators", ":id">>})
    \cup Guarded("member", {<<"GET", "aggregators">>,
        <<"GET", "aggregators", ":id">>,
        <<"POST", "aggregators", ":id", "heartbeat">>})

BudgetsRoutes ==
    Guarded("manage_budgets", {<<"POST", "budgets">>,
        <<"PATCH", "budgets", ":id">>, <<"DELETE", "budgets", ":id">>,
        <<"POST", "budgets", ":id", "close-window">>,
        <<"POST", "budgets", ":id", "activate">>,
        <<"POST", "budgets", ":id", "archive">>})
    \cup Guarded("member", {<<"GET", "budgets">>, <<"GET", "budgets", ":id">>})

SpendingLimitsRoutes ==
    Guarded("manager", {<<"POST", "spending-limits">>,
        <<"PATCH", "spending-limits", ":id">>,
        <<"DELETE", "spending-limits", ":id">>,
        <<"POST", "spending-limits", ":id", "activate">>,
        <<"POST", "spending-limits", ":id", "pause">>})
    \cup Guarded("member", {<<"GET", "spending-limits">>,
        <<"GET", "spending-limits", ":id">>})

TeamsRoutes ==
    Guarded("manager", {<<"POST", "teams">>, <<"PATCH", "teams", ":id">>,
        <<"DELETE", "teams", ":id">>, <<"POST", "teams", ":id", "members">>,
        <<"DELETE", "teams", ":id", "members", ":userId">>})
    \cup Guarded("member", {<<"GET", "teams">>, <<"GET", "teams", ":id">>})

RenewalJobsRoutes ==
    Guarded("member", {<<"GET", "renewal-jobs">>,
        <<"GET", "renewal-jobs", ":id">>,
        <<"GET", "renewal-jobs", ":id", "transitions">>})
    \cup Guarded("manager", {<<"POST", "renewal-jobs">>,
        <<"POST", "renewal-jobs", ":id", "retry">>,
        <<"POST", "renewal-jobs", ":id", "cancel">>,
        <<"POST", "renewal-jobs", ":id", "override">>})

CostEngineRoutes ==
    Guarded("member", {<<"POST", "cost-engine", "simulate">>})

InvitationsRoutes ==
    Guarded("manager", {<<"POST", "invitations">>,
        <<"DELETE", "invitations", ":id">>})
    \cup Guarded("member", {<<"GET", "invitations">>})
    \cup Guarded("user", {<<"POST", "invitations", "accept">>})

WebhooksRoutes ==
    Guarded("manage_webhooks", {<<"POST", "webhooks">>,
        <<"PATCH", "webhooks", ":id">>, <<"DELETE", "webhooks", ":id">>})
    \cup Guarded("member", {<<"GET", "webhooks">>,
        <<"GET", "webhooks", ":id">>,
        <<"GET", "webhooks", ":id", "transitions">>})

AlertEventsRoutes ==
    Guarded("member", {<<"GET", "alert-events">>,
        <<"GET", "alert-events", ":id">>,
        <<"GET", "alert-events", ":id", "transitions">>})
    \cup Guarded("writer", {<<"POST", "alert-events", ":id", "acknowledge">>})

SchedulesRoutes ==
    Guarded("manager", {<<"POST", "schedules">>,
        <<"PATCH", "schedules", ":id">>,
        <<"POST", "schedules", ":id", "pause">>,
        <<"POST", "schedules", ":id", "activate">>,
        <<"DELETE", "schedules", ":id">>})
    \cup Guarded("member", {<<"GET", "schedules">>,
        <<"GET", "schedules", ":id">>, <<"GET", "schedules", ":id", "runs">>})

DashboardRoutes ==
    Guarded("member", {<<"GET", "dashboard", "summary">>})

AdminRoutes ==
    Guarded("admin", {<<"GET", "admin", "health">>,
        <<"POST", "admin", "trigger-scan">>, <<"GET", "admin", "queues">>,
        <<"GET", "admin", "metrics">>,
        <<"POST", "admin", "retry-job", ":id">>,
        <<"GET", "admin", "tenants", ":orgId">>,
        <<"POST", "admin", "encryption", "rotate-key">>})

FeatureFlagsRoutes ==
    Guarded("admin", {<<"GET", "admin", "flags">>,
        <<"POST", "admin", "flags">>, <<"PATCH", "admin", "flags", ":id">>,
        <<"DELETE", "admin", "flags", ":id">>,
        <<"GET", "admin", "flags", ":id", "check">>})

ExperimentsRoutes ==
    Guarded("admin", {<<"POST", "experiments">>,
        <<"PATCH", "experiments", ":name">>,
        <<"DELETE", "experiments", ":name">>,
        <<"PATCH", "experiments", ":name", "assign">>,
        <<"GET", "experiments">>, <<"GET", "experiments", ":name">>,
        <<"POST", "experiments", ":name", "assign">>})
    \cup Guarded("member", {<<"GET", "experiments", ":name", "variant">>})

(* Every router, where index.ts mounts it.                                 *)
Routes ==
    UNION {VaultsRoutes, AuthRoutes, OrgsRoutes, ProjectsRoutes, BlobsRoutes,
           PoliciesRoutes, WalletsRoutes, AlertsRoutes, AnalyticsRoutes,
           AuditLogsRoutes, ActivityFeedRoutes, BillingRoutes, ApiKeysRoutes,
           PublishersRoutes, AggregatorsRoutes, BudgetsRoutes,
           SpendingLimitsRoutes, TeamsRoutes, RenewalJobsRoutes,
           CostEngineRoutes, InvitationsRoutes, WebhooksRoutes,
           AlertEventsRoutes, SchedulesRoutes, DashboardRoutes, AdminRoutes,
           FeatureFlagsRoutes, ExperimentsRoutes}

(* Routers that put no requireAuth before all of their paths, so that an   *)
(* unknown path below them is answered without looking at the token.       *)
UnguardedRouters == {"auth", "api-keys", "experiments"}
Routers == {r.path[2] : r \in Routes}

Parameters == {":id", ":userId", ":delegationId", ":blobId", ":vaultId",
               ":walletAddress", ":orgId", ":name"}

(* A request path, whose "*" segments are values, against a declared one.  *)
Matches(declared, path) ==
    /\ Len(declared) = Len(path)
    /\ \A i \in DOMAIN path :
          \/ declared[i] = path[i]
          \/ declared[i] \in Parameters /\ path[i] = "*"

RoutesOf(path) == {r \in Routes : Matches(r.path, path)}

(* requireOrg takes the parameter :id, when the route has one, for the     *)
(* organization, and the X-Org-Id header only otherwise; requireProjectOrg *)
(* reads the header alone.                                                 *)
OrgFromPath(route) ==
    /\ route.guard \notin {"project_member", "project_manager"}
    /\ ":id" \in Range(route.path)
=============================================================================
