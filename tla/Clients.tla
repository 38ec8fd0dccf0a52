------------------------------ MODULE Clients ------------------------------
(***************************************************************************)
(* What the three clients of the API can ask of it: the methods of the SDK *)
(* (sdk/src/client.ts), the commands of the CLI (cli/src/index.ts), which   *)
(* call the SDK, and the methods of the web user interface's own client     *)
(* (ui/lib/api-client.ts).  A method is the path it requests, with "*" for  *)
(* a value put into it; bodies, query strings and answers are left out.     *)
(***************************************************************************)
EXTENDS Sequences, TLC

-----------------------------------------------------------------------------
(* The SDK's methods, section by section.                                  *)

SdkAuth ==
    [register |-> <<"POST", "auth", "register">>,
     login |-> <<"POST", "auth", "login">>,
     logout |-> <<"POST", "auth", "logout">>, me |-> <<"GET", "auth", "me">>]

SdkOrganizations ==
    [listOrganizations |-> <<"GET", "orgs">>,
     getOrganization |-> <<"GET", "orgs", "*">>,
     createOrganization |-> <<"POST", "orgs">>,
     updateOrganization |-> <<"PATCH", "orgs", "*">>,
     deleteOrganization |-> <<"DELETE", "orgs", "*">>]

SdkMembers ==
    [listMembers |-> <<"GET", "members">>,
     addMember |-> <<"POST", "members">>,
     updateMemberRole |-> <<"PATCH", "members", "*">>,
     removeMember |-> <<"DELETE", "members", "*">>]

SdkProjects ==
    [listProjects |-> <<"GET", "projects">>,
     getProject |-> <<"GET", "projects", "*">>,
     createProject |-> <<"POST", "projects">>,
     updateProject |-> <<"PATCH", "projects", "*">>,
     deleteProject |-> <<"DELETE", "projects", "*">>]

SdkBlobs ==
    [listBlobs |-> <<"GET", "blobs">>, getBlob |-> <<"GET", "blobs", "*">>,
     createBlob |-> <<"POST", "blobs">>,
     updateBlob |-> <<"PATCH", "blobs", "*">>,
     deleteBlob |-> <<"DELETE", "blobs", "*">>,
     bulkBlobAction |-> <<"POST", "blobs", "bulk">>,
     exportBlobs |-> <<"GET", "blobs", "export">>]

SdkProjectBlobs ==
    [getProjectBlobs |-> <<"GET", "projects", "*", "blobs">>]

SdkPolicies ==
    [listPolicies |-> <<"GET", "policies">>,
     getPolicy |-> <<"GET", "policies", "*">>,
     createPolicy |-> <<"POST", "policies">>,
     updatePolicy |-> <<"PATCH", "policies", "*">>,
     deletePolicy |-> <<"DELETE", "policies", "*">>,
     assignPolicy |-> <<"POST", "policies", "*", "assign">>,
     unassignPolicy |-> <<"POST", "policies", "*", "unassign">>]

SdkWallets ==
    [listWallets |-> <<"GET", "wallets">>,
     getWallet |-> <<"GET", "wallets", "*">>,
     createWallet |-> <<"POST", "wallets">>,
     updateWallet |-> <<"PATCH", "wallets", "*">>,
     deleteWallet |-> <<"DELETE", "wallets", "*">>,
     refreshWalletBalance |-> <<"POST", "wallets", "*", "refresh-balance">>]

SdkChannels ==
    [listChannels |-> <<"GET", "alerts", "channels">>,
     getChannel |-> <<"GET", "alerts", "channels", "*">>,
     createChannel |-> <<"POST", "alerts", "channels">>,
     updateChannel |-> <<"PATCH", "alerts", "channels", "*">>,
     deleteChannel |-> <<"DELETE", "alerts", "channels", "*">>]

SdkAlertRules ==
    [listAlertRules |-> <<"GET", "alerts", "rules">>,
     getAlertRule |-> <<"GET", "alerts", "rules", "*">>,
     createAlertRule |-> <<"POST", "alerts", "rules">>,
     updateAlertRule |-> <<"PATCH", "alerts", "rules", "*">>,
     deleteAlertRule |-> <<"DELETE", "alerts", "rules", "*">>]

SdkAnalytics ==
    [getAnalyticsOverview |-> <<"GET", "analytics", "overview">>,
     getAnalyticsStorage |-> <<"GET", "analytics", "storage">>,
     getAnalyticsRenewals |-> <<"GET", "analytics", "renewals">>,
     getAnalyticsCosts |-> <<"GET", "analytics", "costs">>,
     getAnalyticsForecasts |-> <<"GET", "analytics", "forecasts">>]

SdkAuditLogs ==
    [getAuditLogs |-> <<"GET", "audit-logs">>]

SdkBilling ==
    [getSubscription |-> <<"GET", "billing", "subscription">>,
     createOrUpdateSubscription |-> <<"POST", "billing", "subscription">>,
     listInvoices |-> <<"GET", "billing", "invoices">>,
     getUsage |-> <<"GET", "billing", "usage">>]

SdkApiKeys ==
    [listApiKeys |-> <<"GET", "api-keys">>,
     createApiKey |-> <<"POST", "api-keys">>,
     deleteApiKey |-> <<"DELETE", "api-keys", "*">>]

SdkVaults ==
    [createVault |-> <<"POST", "vaults">>,
     getVaults |-> <<"GET", "vaults", "*">>,
     depositToVault |-> <<"POST", "vaults", "*", "deposit">>,
     updateVaultPolicy |-> <<"POST", "vaults", "*", "policy">>,
     withdrawFromVault |-> <<"POST", "vaults", "*", "withdraw">>,
     reclaimFromVault |-> <<"POST", "vaults", "*", "reclaim">>,
     getVaultHistory |-> <<"GET", "vaults", "*", "history">>]

SdkTrack ==
    [track |-> <<"GET", "blobs", "*">>]

SdkPublishers ==
    [listPublishers |-> <<"GET", "publishers">>,
     getPublisher |-> <<"GET", "publishers", "*">>,
     createPublisher |-> <<"POST", "publishers">>,
     updatePublisher |-> <<"PATCH", "publishers", "*">>,
     deletePublisher |-> <<"DELETE", "publishers", "*">>,
     publisherHeartbeat |-> <<"POST", "publishers", "*", "heartbeat">>]

SdkAggregators ==
    [listAggregators |-> <<"GET", "aggregators">>,
     getAggregator |-> <<"GET", "aggregators", "*">>,
     createAggregator |-> <<"POST", "aggregators">>,
     updateAggregator |-> <<"PATCH", "aggregators", "*">>,
     deleteAggregator |-> <<"DELETE", "aggregators", "*">>,
     aggregatorHeartbeat |-> <<"POST", "aggregators", "*", "heartbeat">>]

SdkBudgets ==
    [listBudgets |-> <<"GET", "budgets">>,
     getBudget |-> <<"GET", "budgets", "*">>,
     createBudget |-> <<"POST", "budgets">>,
     updateBudget |-> <<"PATCH", "budgets", "*">>,
     deleteBudget |-> <<"DELETE", "budgets", "*">>,
     pauseBudget |-> <<"POST", "budgets", "*", "pause">>,
     activateBudget |-> <<"POST", "budgets", "*", "activate">>,
     archiveBudget |-> <<"POST", "budgets", "*", "archive">>]

SdkSpendingLimits ==
    [listSpendingLimits |-> <<"GET", "spending-limits">>,
     getSpendingLimit |-> <<"GET", "spending-limits", "*">>,
     createSpendingLimit |-> <<"POST", "spending-limits">>,
     updateSpendingLimit |-> <<"PATCH", "spending-limits", "*">>,
     deleteSpendingLimit |-> <<"DELETE", "spending-limits", "*">>,
     pauseSpendingLimit |-> <<"POST", "spending-limits", "*", "pause">>,
     activateSpendingLimit |-> <<"POST", "spending-limits", "*", "activate">>,
     archiveSpendingLimit |-> <<"POST", "spending-limits", "*", "archive">>]

SdkTeams ==
    [listTeams |-> <<"GET", "teams">>, getTeam |-> <<"GET", "teams", "*">>,
     createTeam |-> <<"POST", "teams">>,
     updateTeam |-> <<"PATCH", "teams", "*">>,
     deleteTeam |-> <<"DELETE", "teams", "*">>,
     addTeamMember |-> <<"POST", "teams", "*", "members">>,
     removeTeamMember |-> <<"DELETE", "teams", "*", "members", "*">>]

SdkInvitations ==
    [listInvitations |-> <<"GET", "invitations">>,
     createInvitation |-> <<"POST", "invitations">>,
     cancelInvitation |-> <<"DELETE", "invitations", "*">>,
     acceptInvitation |-> <<"POST", "invitations", "accept">>]

SdkRenewalJobs ==
    [listRenewalJobs |-> <<"GET", "renewal-jobs">>,
     getRenewalJob |-> <<"GET", "renewal-jobs", "*">>,
     retryRenewalJob |-> <<"POST", "renewal-jobs", "*", "retry">>,
     cancelRenewalJob |-> <<"POST", "renewal-jobs", "*", "cancel">>,
     createRenewalJob |-> <<"POST", "renewal-jobs">>]

SdkPolicyMoves ==
    [pausePolicy |-> <<"POST", "policies", "*", "pause">>,
     activatePolicy |-> <<"POST", "policies", "*", "activate">>,
     archivePolicy |-> <<"POST", "policies", "*", "archive">>]

SdkWalletMoves ==
    [suspendWallet |-> <<"POST", "wallets", "*", "suspend">>,
     unsuspendWallet |-> <<"POST", "wallets", "*", "unsuspend">>,
     restoreWallet |-> <<"POST", "wallets", "*", "restore">>,
     revokeWalletDelegation |-> <<"POST", "wallets", "*", "revoke-delegation">>,
     reconnectWallet |-> <<"POST", "wallets", "*", "reconnect">>]

SdkSchedules ==
    [listSchedules |-> <<"GET", "schedules">>,
     createSchedule |-> <<"POST", "schedules">>,
     updateSchedule |-> <<"PATCH", "schedules", "*">>,
     deleteSchedule |-> <<"DELETE", "schedules", "*">>]

SdkDashboard ==
    [getDashboardSummary |-> <<"GET", "dashboard", "summary">>]

SdkWebhooks ==
    [listWebhooks |-> <<"GET", "webhooks">>,
     createWebhook |-> <<"POST", "webhooks">>,
     updateWebhook |-> <<"PATCH", "webhooks", "*">>,
     deleteWebhook |-> <<"DELETE", "webhooks", "*">>,
     testWebhook |-> <<"POST", "webhooks", "*", "test">>]

SdkAlertEvents ==
    [listAlertEvents |-> <<"GET", "alert-events">>,
     acknowledgeAlertEvent |-> <<"POST", "alert-events", "*", "acknowledge">>]

SdkAdmin ==
    [adminGetHealth |-> <<"GET", "admin", "health">>,
     adminGetQueues |-> <<"GET", "admin", "queues">>,
     adminTriggerScan |-> <<"POST", "admin", "trigger-scan">>]

SdkFeatureFlags ==
    [adminListFlags |-> <<"GET", "admin", "flags">>,
     adminCreateFlag |-> <<"POST", "admin", "flags">>,
     adminUpdateFlag |-> <<"PATCH", "admin", "flags", "*">>,
     adminDeleteFlag |-> <<"DELETE", "admin", "flags", "*">>,
     adminCheckFlag |-> <<"GET", "admin", "flags", "*", "check">>,
     adminGetMetrics |-> <<"GET", "admin", "metrics">>,
     adminGetTenant |-> <<"GET", "admin", "tenants", "*">>,
     adminRetryJob |-> <<"POST", "admin", "retry-job", "*">>,
     adminListTenants |-> <<"GET", "admin", "tenants", "*">>,
     adminRetryRenewalJob |-> <<"POST", "admin", "retry-job", "*">>]

SdkActivityFeed ==
    [getActivityFeed |-> <<"GET", "activity-feed">>,
     listActivityFeed |-> <<"GET", "activity-feed">>]

SdkExperiments ==
    [adminListExperiments |-> <<"GET", "experiments">>,
     adminGetExperiment |-> <<"GET", "experiments", "*">>,
     adminCreateExperiment |-> <<"POST", "experiments">>,
     adminDeleteExperiment |-> <<"DELETE", "experiments", "*">>,
     adminAssignExperiment |-> <<"POST", "experiments", "*", "assign">>,
     adminGetVariant |-> <<"GET", "experiments", "*", "variant">>,
     listExperiments |-> <<"GET", "experiments">>,
     getExperiment |-> <<"GET", "experiments", "*">>,
     assignExperiment |-> <<"POST", "experiments", "*", "assign">>,
     getExperimentVariant |-> <<"GET", "experiments", "*", "variant">>]


(* manage(action): the vault method each of its four actions delegates to. *)
SdkManage ==
    [withdraw |-> "withdrawFromVault", reclaim |-> "reclaimFromVault",
     pause |-> "updateVaultPolicy", resume |-> "updateVaultPolicy"]

Sdk ==
    SdkAuth @@ SdkOrganizations @@ SdkMembers @@ SdkProjects @@ SdkBlobs
    @@ SdkProjectBlobs @@ SdkPolicies @@ SdkWallets @@ SdkChannels
    @@ SdkAlertRules @@ SdkAnalytics @@ SdkAuditLogs @@ SdkBilling
    @@ SdkApiKeys @@ SdkVaults @@ SdkTrack @@ SdkPublishers
    @@ SdkAggregators @@ SdkBudgets @@ SdkSpendingLimits @@ SdkTeams
    @@ SdkInvitations @@ SdkRenewalJobs @@ SdkPolicyMoves @@ SdkWalletMoves
    @@ SdkSchedules @@ SdkDashboard @@ SdkWebhooks @@ SdkAlertEvents
    @@ SdkAdmin @@ SdkFeatureFlags @@ SdkActivityFeed @@ SdkExperiments

(* getHeaders: X-Org-Id is the method's orgId argument, the configured     *)
(* organization for a method that has none, and never sent by track.       *)
ConfiguredOrg ==
    UNION {DOMAIN SdkAuth, DOMAIN SdkOrganizations, DOMAIN SdkProjectBlobs,
           DOMAIN SdkVaults, DOMAIN SdkAdmin, DOMAIN SdkFeatureFlags,
           DOMAIN SdkExperiments}
    \cup {"acceptInvitation", "updateSchedule", "deleteSchedule",
          "updateWebhook", "deleteWebhook", "testWebhook",
          "acknowledgeAlertEvent"}

OrgHeader(method, configured) ==
    /\ method # "track"
    /\ method \in ConfiguredOrg => configured

-----------------------------------------------------------------------------
(* The CLI's commands that call the API: whether the command asks the user *)
(* to confirm (confirmDestructive), whether it then demands a configured   *)
(* organization (requireOrg), and the SDK methods it calls in turn.        *)

Command(asks, scoped, methods) ==
    {[asks |-> asks, scoped |-> scoped, calls |-> <<m>>] : m \in methods}
Plain(methods)       == Command(FALSE, FALSE, methods)
Scoped(methods)      == Command(FALSE, TRUE, methods)
AskedPlain(methods)  == Command(TRUE, FALSE, methods)
AskedScoped(methods) == Command(TRUE, TRUE, methods)

CliAccount == Plain({"login", "register", "me"})

CliBlobActions ==
    Scoped({"createVault", "createRenewalJob", "getBlob"})
    \cup {[asks |-> FALSE, scoped |-> TRUE,
           calls |-> <<"listBlobs", "listPolicies">>]}

CliProjects ==
    Scoped({"listProjects", "createProject"})
    \cup AskedScoped({"deleteProject"})

CliBlobs ==
    Scoped({"listBlobs", "getBlob"})
    \cup AskedScoped({"deleteBlob"})

CliWallets ==
    Scoped({"listWallets", "createWallet"})

CliOrgs ==
    Plain({"listOrganizations", "createOrganization"})
    \cup AskedPlain({"deleteOrganization"})

CliPolicies ==
    Scoped({"listPolicies", "createPolicy", "assignPolicy", "unassignPolicy",
        "updatePolicy", "pausePolicy", "activatePolicy"})
    \cup AskedScoped({"deletePolicy", "archivePolicy"})

CliAnalytics ==
    Scoped({"getAnalyticsOverview", "getAnalyticsStorage",
        "getAnalyticsRenewals", "getAnalyticsCosts", "getAnalyticsForecasts"})

CliChannels ==
    Scoped({"listChannels", "createChannel", "updateChannel"})
    \cup AskedScoped({"deleteChannel"})

CliAlertRules ==
    Scoped({"listAlertRules", "createAlertRule", "updateAlertRule"})
    \cup AskedScoped({"deleteAlertRule"})

CliBilling ==
    Scoped({"getSubscription", "listInvoices", "getUsage"})

CliApiKeys ==
    Scoped({"listApiKeys", "createApiKey"})
    \cup AskedScoped({"deleteApiKey"})

CliMembers ==
    Scoped({"listMembers", "addMember", "updateMemberRole"})
    \cup AskedScoped({"removeMember"})

CliVaults ==
    Plain({"depositToVault", "withdrawFromVault", "reclaimFromVault",
        "getVaultHistory"})

CliSchedules ==
    Scoped({"listSchedules", "createSchedule"})
    \cup Plain({"updateSchedule"})
    \cup AskedPlain({"deleteSchedule"})

CliDashboard ==
    Scoped({"getDashboardSummary"})

CliWebhooks ==
    Scoped({"listWebhooks", "createWebhook"})
    \cup Plain({"updateWebhook", "testWebhook"})
    \cup AskedPlain({"deleteWebhook"})

CliAlerts ==
    Scoped({"listAlertEvents"})
    \cup Plain({"acknowledgeAlertEvent"})

CliBudgets ==
    Scoped({"listBudgets", "createBudget", "updateBudget", "pauseBudget",
        "activateBudget"})
    \cup AskedScoped({"archiveBudget"})

CliSpendingLimits ==
    Scoped({"listSpendingLimits", "createSpendingLimit",
        "updateSpendingLimit", "pauseSpendingLimit", "activateSpendingLimit"})
    \cup AskedScoped({"archiveSpendingLimit"})

CliAdmin ==
    Plain({"adminGetHealth", "adminGetQueues", "adminTriggerScan",
        "adminGetMetrics", "adminGetTenant", "adminRetryJob"})

CliAdminFlags ==
    Plain({"adminListFlags", "adminCreateFlag", "adminUpdateFlag",
        "adminDeleteFlag", "adminCheckFlag"})

CliPublishers ==
    Scoped({"listPublishers", "createPublisher", "updatePublisher",
        "publisherHeartbeat"})
    \cup AskedScoped({"deletePublisher"})

CliAggregators ==
    Scoped({"listAggregators", "createAggregator"})
    \cup AskedScoped({"deleteAggregator"})

CliRenewalJobs ==
    Scoped({"listRenewalJobs", "getRenewalJob"})
    \cup AskedScoped({"retryRenewalJob", "cancelRenewalJob"})

CliTeams ==
    Scoped({"listTeams", "createTeam", "addTeamMember"})
    \cup AskedScoped({"deleteTeam", "removeTeamMember"})

CliInvitations ==
    Scoped({"listInvitations", "createInvitation"})
    \cup AskedScoped({"cancelInvitation"})

CliActivityFeed ==
    Scoped({"listActivityFeed"})

CliExperiments ==
    Plain({"listExperiments", "assignExperiment", "getExperiment",
        "getExperimentVariant"})
    \cup AskedPlain({"adminDeleteExperiment"})


Cli ==
    UNION {CliAccount, CliBlobActions, CliProjects, CliBlobs, CliWallets,
           CliOrgs, CliPolicies, CliAnalytics, CliChannels, CliAlertRules,
           CliBilling, CliApiKeys, CliMembers, CliVaults, CliSchedules,
           CliDashboard, CliWebhooks, CliAlerts, CliBudgets,
           CliSpendingLimits, CliAdmin, CliAdminFlags, CliPublishers,
           CliAggregators, CliRenewalJobs, CliTeams, CliInvitations,
           CliActivityFeed, CliExperiments}

-----------------------------------------------------------------------------
(* The user interface's client: all but its account, health and dashboard  *)
(* calls go below /organizations/<id>.                                      *)

Below(verb, resource) ==
    {<<verb, "organizations", "*", resource>>}
BelowOne(verb, resource) ==
    {<<verb, "organizations", "*", resource, "*">>}

UiAccount ==
    {<<"POST", "auth", "register">>, <<"POST", "auth", "login">>,
     <<"POST", "auth", "logout">>, <<"GET", "auth", "me">>,
     <<"GET", "organizations">>, <<"POST", "organizations">>}
    \cup {<<verb, "organizations", "*">> : verb \in {"GET", "PATCH", "DELETE"}}

UiMembers ==
    Below("GET", "members") \cup Below("POST", "members")
    \cup BelowOne("PATCH", "members") \cup BelowOne("DELETE", "members")

UiResources ==
    UNION {Below("GET", resource) \cup Below("POST", resource) : resource \in
             {"projects", "blobs", "policies", "wallets", "channels",
              "alert-rules", "subscription", "api-keys"}}
    \cup UNION {BelowOne("PATCH", resource) :
                  resource \in {"projects", "policies"}}
    \cup UNION {BelowOne("DELETE", resource) :
                  resource \in {"projects", "blobs", "policies", "channels",
                                "alert-rules", "api-keys"}}
    \cup BelowOne("GET", "blobs")
    \cup UNION {Below("GET", resource) :
                  resource \in {"invoices", "audit-logs", "analytics"}}
    \cup Below("POST", "vaults") \cup {<<"GET", "dashboard", "summary">>}

Ui == UiAccount \cup UiMembers \cup UiResources
=============================================================================
