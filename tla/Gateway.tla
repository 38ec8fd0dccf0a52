------------------------------ MODULE Gateway ------------------------------
(***************************************************************************)
(* A call's way from a client to a handler and back.  The client (CLI,     *)
(* SDK, user interface, or a caller of its own that sends Idempotency-Key) *)
(* runs its calls one after the other; the SDK retries an attempt that      *)
(* failed, and its 30 s timer abandons an attempt whose request goes on in  *)
(* the server.  The server passes each request through the idempotency      *)
(* lookup, the rate limiter, authentication, organization and privilege     *)
(* checks and the handler.  Answers may be lost and the server may crash.   *)
(*                                                                         *)
(* Abstractions: a handler is what a caller can tell of it - it applies its *)
(* change or refuses, and may fail before or after the change (the handlers *)
(* themselves are the subject of the other modules); a client's next call   *)
(* waits until the server is done with its abandoned requests; the stricter *)
(* limiters of three routes have windows and keys of their own and may      *)
(* refuse at any time; one organization, which the configuration names; no  *)
(* API key, since every route wants a bearer token (requireAuthOrApiKey has  *)
(* no caller) and a key alone is refused like no credential; one address,    *)
(* hence one entry of the limiter.                                          *)
(***************************************************************************)
EXTENDS ApiRoutes, Clients, Integers, FiniteSets

CONSTANTS Limit,        \* requests per window
          Passes,       \* limiters a request meets: 1 under /api, 2 under /api/v1
          MaxRetries,   \* the SDK's maxRetries
          Standings,    \* what the caller may be in the organization
          KeyedPaths    \* what a caller sends with an Idempotency-Key

ASSUME GatewayAssumption ==
    /\ Limit \in Nat \ {0} /\ Passes \in {1, 2}
    /\ MaxRetries \in Nat
    /\ Standings \subseteq [role : Everyone \cup {"none"}, granted : BOOLEAN,
                            suspended : BOOLEAN]
    /\ KeyedPaths \subseteq {Sdk[m] : m \in DOMAIN Sdk} \cup Ui

VARIABLES config,     \* ~/.walwatch/config.json or the client's settings
          standing,   \* the caller's role, capability grant, and the org row
          job,        \* who calls, and the calls left, the current one first
          phase,      \* where the client is
          attempt,    \* the current attempt of the current call
          request,    \* the request of each attempt, in the server
          count,      \* the limiter's entry
          admitted,   \* requests let through in the window
          cached,     \* the idempotency row of the call exists
          inserting,  \* attempts whose row is being inserted
          late,       \* fireAndPoll's timeout has passed
          applied,    \* times the current call's change was made
          unclear,    \* attempts that ended without telling what happened
          raced,      \* a lookup missed while another attempt was under way
          uncached,   \* a change whose row was never inserted
          outcome     \* how the last job ended

serverVars == <<request, count, admitted, cached, inserting, raced>>
clientVars == <<config, standing, job, phase, attempt, late, outcome>>
ghosts     == <<applied, unclear, uncached>>
vars == <<serverVars, clientVars, ghosts>>

Attempts == 1 .. MaxRetries + 1
Call == job.calls[1]
Live(a) == request[a].stage \notin {"none", "gone"}
Drained == inserting = {} /\ \A a \in Attempts : ~Live(a)
Asked == {Sdk[m] : m \in DOMAIN Sdk} \cup Ui \cup KeyedPaths
RoutesByPath == [path \in Asked |-> RoutesOf(path)]
Routed(path) == RoutesByPath[path]
Mutating(path) == path[1] # "GET"

(* What anybody, or any member, may change, and the roles a guard lets      *)
(* through.                                                                *)
AskForNothing == {Sdk[m] : m \in {"createVault", "depositToVault",
    "updateVaultPolicy", "withdrawFromVault", "reclaimFromVault", "register",
    "login", "logout", "createOrganization", "acceptInvitation"}}
RolesOf(guard) ==
    IF guard \in DOMAIN GuardRoles THEN GuardRoles[guard]
    ELSE ROLE_CAPABILITIES[guard]

(* Two facts about the tables alone, which no constant can change: every    *)
(* call of a command, of manage and of fireAndPoll is a method of the SDK,  *)
(* one or two to a command, and fireAndPoll's check reads; and a path is    *)
(* declared once, by a route that either asks a writer's role of whoever    *)
(* changes something, or is one of AskForNothing, or names another thing    *)
(* than an organization by the :id that requireOrg takes for one.          *)
ASSUME CallsAssumption ==
    /\ \A command \in Cli :
          command.calls \in Seq(DOMAIN Sdk) /\ Len(command.calls) \in 1 .. 2
    /\ \A action \in DOMAIN SdkManage : SdkManage[action] \in DOMAIN Sdk
    /\ {"createRenewalJob", "listRenewalJobs"} \subseteq DOMAIN Sdk
    /\ ~Mutating(Sdk["listRenewalJobs"])

ASSUME RoutesAssumption ==
    \A path \in Asked : \A route \in Routed(path) :
        /\ Routed(path) = {route}
        /\ Mutating(path) /\ route.guard \in {"open", "user"} =>
              path \in AskForNothing /\ ~OrgFromPath(route)
        /\ Mutating(path) /\ route.guard \notin {"open", "user", "admin"} =>
              \/ path \in AskForNothing
              \/ OrgFromPath(route) /\ route.path[2] # "orgs"
              \/ RolesOf(route.guard) \subseteq Everyone \ {"viewer"}

-----------------------------------------------------------------------------
(* The client                                                              *)

(* A request enters the server; only a keyed one looks for a cached answer. *)
FirstStage(client) == IF client = "keyed" THEN "lookup" ELSE "limit"
Sent(client, a) ==
    [b \in Attempts |->
       IF b = a THEN [stage |-> FirstStage(client), answer |-> "none"]
       ELSE IF a = 1 THEN [stage |-> "none", answer |-> "none"]
       ELSE request[b]]

NoJob == [client |-> "none", calls |-> <<>>, polls |-> FALSE]
NoRequest == [a \in Attempts |-> [stage |-> "none", answer |-> "none"]]

Fresh ==
    /\ job' = NoJob /\ attempt' = 1 /\ late' = FALSE /\ request' = NoRequest
    /\ cached' = FALSE /\ raced' = FALSE /\ uncached' = FALSE
    /\ applied' = 0 /\ unclear' = 0

Begin(client, calls, polls) ==
    /\ job' = [client |-> client, calls |-> calls, polls |-> polls]
    /\ phase' = "waiting" /\ attempt' = 1 /\ late' = FALSE
    /\ request' = Sent(client, 1)
    /\ cached' = FALSE /\ raced' = FALSE /\ uncached' = FALSE
    /\ applied' = 0 /\ unclear' = 0 /\ outcome' = "none"
    /\ UNCHANGED <<config, standing, count, admitted, inserting>>

SdkCall(method) ==
    [path |-> Sdk[method], org |-> OrgHeader(method, config.org)]

(* A command confirms, demands an organization, then calls the SDK; the     *)
(* commands that save what they are answered are told apart.               *)
Saves(command) ==
    command.calls[1] \in {"login", "register", "createOrganization"}
RunCommand ==
    /\ phase = "idle"
    /\ \E command \in Cli :
          /\ command.scoped => config.org
          /\ Begin(IF Saves(command) THEN "cli" ELSE "sdk",
                   [i \in DOMAIN command.calls |-> SdkCall(command.calls[i])],
                   FALSE)

StopCommand(how) ==
    /\ phase = "idle" /\ phase' = "ended" /\ outcome' = how
    /\ UNCHANGED <<serverVars, config, standing, job, attempt, late, ghosts>>
DeclineCommand == (\E command \in Cli : command.asks) /\ StopCommand("declined")
CommandWithoutOrg ==
    /\ \E command \in Cli : command.scoped
    /\ ~config.org
    /\ StopCommand("failed")

CallSdk ==
    /\ phase = "idle"
    /\ \E method \in DOMAIN Sdk \cup {SdkManage[a] : a \in DOMAIN SdkManage} :
          Begin("sdk", <<SdkCall(method)>>, FALSE)

(* fireAndPoll with a renewal job as what is fired and what is polled.     *)
FireAndPoll ==
    /\ phase = "idle"
    /\ Begin("sdk", <<SdkCall("createRenewalJob"), SdkCall("listRenewalJobs")>>,
             TRUE)

CallUi ==
    /\ phase = "idle"
    /\ \E path \in Ui : Begin("ui", <<[path |-> path, org |-> config.org]>>, FALSE)

CallKeyed ==
    /\ phase = "idle"
    /\ \E path \in KeyedPaths :
          Begin("keyed", <<[path |-> path, org |-> config.org]>>, FALSE)

(* config set org_id, logout, and the token's expiry.                      *)
Configure ==
    /\ phase = "idle"
    /\ config' \in {[config EXCEPT !.org = TRUE], [config EXCEPT !.token = FALSE]}
    /\ UNCHANGED <<serverVars, standing, job, phase, attempt, late, outcome,
                   ghosts>>

(* isRetryable: everything but a 401 and a 400 or 422.  The user            *)
(* interface's client never repeats a request.                             *)
Retryable(client, answer) ==
    CASE client \in {"cli", "sdk"} -> answer \notin {"unauthorized", "bad"}
      [] client = "keyed"          -> answer \in {"lost", "failed"}
      [] OTHER                     -> FALSE

(* login and register save the token, orgs create a first organization, of *)
(* which the caller is the owner.                                          *)
Saved ==
    IF job.client = "cli" /\ Call.path \in {SdkAuth.login, SdkAuth.register}
    THEN [config EXCEPT !.token = TRUE]
    ELSE IF job.client = "cli" /\ Call.path = SdkOrganizations.createOrganization
    THEN [config EXCEPT !.org = TRUE] ELSE config
Became ==
    IF Saved.org # config.org
    THEN [role |-> "owner", granted |-> FALSE, suspended |-> FALSE]
    ELSE standing

(* What the client does with the answer of its current attempt: go on to    *)
(* its next call or report; poll, when a check found nothing yet.           *)
Succeed ==
    /\ config' = Saved /\ standing' = Became
    /\ \/ job.polls /\ Len(job.calls) = 1 /\ phase' = "polling"
          /\ outcome' = outcome
       \/ Len(job.calls) = 1 /\ phase' = "ended" /\ outcome' = "done"
       \/ Len(job.calls) > 1 /\ phase' = "next" /\ outcome' = outcome
    /\ UNCHANGED <<job, attempt, late, unclear>>

(* Variant for JobEnds: the last error is caught and not thrown again.     *)
FailQuietly(answer) ==
    /\ IF attempt <= MaxRetries /\ Retryable(job.client, answer)
       THEN phase' = "backoff" /\ unclear' = unclear + 1
       ELSE phase' = "waiting" /\ unclear' = unclear
    /\ UNCHANGED <<config, standing, job, attempt, late, outcome>>

(* Or retry or report a failure; "lost" is a network error or an abandoned  *)
(* request.                                                                *)
Fail(answer) ==
    /\ unclear' = IF answer \in {"lost", "failed"} THEN unclear + 1 ELSE unclear
    /\ IF attempt <= MaxRetries /\ Retryable(job.client, answer)
       THEN phase' = "backoff" /\ outcome' = outcome
       ELSE phase' = "ended" /\ outcome' = "failed"
    /\ UNCHANGED <<config, standing, job, attempt, late>>

Resend ==
    /\ phase = "backoff"
    /\ attempt' = attempt + 1 /\ phase' = "waiting"
    /\ request' = Sent(job.client, attempt + 1)
    /\ UNCHANGED <<config, standing, job, late, outcome, count, admitted, cached,
                   inserting, raced, ghosts>>

NextCall ==
    /\ phase = "next" /\ Drained
    /\ Begin(job.client, Tail(job.calls), job.polls)

(* fireAndPoll: the check found nothing yet, and is repeated after a delay  *)
(* unless the timeout has passed.                                          *)
PollAgain ==
    /\ phase = "polling" /\ ~late /\ Drained
    /\ phase' = "waiting" /\ attempt' = 1 /\ request' = Sent(job.client, 1)
    /\ applied' = 0 /\ unclear' = 0
    /\ UNCHANGED <<config, standing, job, late, outcome, count, admitted, cached,
                   inserting, raced, uncached>>
PollDeadline ==
    /\ job.polls /\ Len(job.calls) = 1 /\ phase # "ended" /\ ~late
    /\ late' = TRUE
    /\ UNCHANGED <<serverVars, config, standing, job, phase, attempt, outcome,
                   ghosts>>
PollTimeout ==
    /\ phase = "polling" /\ late
    /\ phase' = "ended" /\ outcome' = "failed"
    /\ UNCHANGED <<serverVars, config, standing, job, attempt, late, ghosts>>

(* The client has reported and exits; what it abandoned in the server is   *)
(* done before the next one starts.                                        *)
Exit ==
    /\ phase = "ended" /\ Drained
    /\ phase' = "idle" /\ outcome' = "none" /\ Fresh
    /\ UNCHANGED <<config, standing, count, admitted, inserting>>

(* request()'s 30 s timer aborts the fetch; the user interface has none.   *)
Timeout ==
    /\ phase = "waiting" /\ job.client # "ui"
    /\ Fail("lost")
    /\ UNCHANGED <<serverVars, applied, uncached>>

-----------------------------------------------------------------------------
(* The server                                                              *)

Answer(a, answer) == request' = [request EXCEPT ![a] = [stage |-> "reply",
                                                        answer |-> answer]]
Proceed(a, stage) == request' = [request EXCEPT ![a].stage = stage]

(* idempotencyMiddleware's SELECT.                                         *)
(* Variant for KeyedOnce: the lookup's key never matches the stored one.   *)
LookupMissing(a) ==
    /\ request[a].stage = "lookup"
    /\ Proceed(a, "limit")
    /\ UNCHANGED <<count, admitted, cached, inserting, raced, clientVars, ghosts>>

Lookup(a) ==
    /\ request[a].stage = "lookup"
    /\ IF cached THEN Answer(a, "ok") ELSE Proceed(a, "limit")
    /\ raced' = (raced \/ (~cached /\ (inserting # {} \/ \E b \in Attempts \ {a} :
                    Live(b) /\ request[b].stage # "lookup")))
    /\ UNCHANGED <<count, admitted, cached, inserting, clientVars, ghosts>>

(* The limiter under /api and, under /api/v1, a second with the same store  *)
(* and key: each adds one and refuses above the limit.                     *)
Refused(n) == n + 1 > Limit \/ (Passes = 2 /\ n + 2 > Limit)
Counted(n) == IF n + 1 > Limit THEN Limit + 1
              ELSE IF Passes = 2 THEN n + 2 ELSE n + 1

(* Routing and the guards that read no row: requireAuth knows bearer tokens *)
(* only, requireAdmin a header no client sends, and an unknown path is      *)
(* answered 404 after its router's requireAuth.                            *)
Gate(path) ==
    IF Routed(path) = {}
    THEN IF path[2] \in Routers \ UnguardedRouters /\ ~config.token
         THEN "unauthorized" ELSE "refused"
    ELSE LET guard == (CHOOSE r \in Routed(path) : TRUE).guard
         IN IF guard = "open" THEN "handler"
            ELSE IF guard = "admin" \/ ~config.token THEN "unauthorized"
            ELSE IF guard = "user" THEN "handler" ELSE "org"

StricterLimit == {<<"POST", "auth", "register">>, <<"POST", "auth", "login">>,
                  <<"POST", "orgs">>}

Admit(a) ==
    /\ request[a].stage = "limit"
    /\ count' = Counted(count)
    /\ IF Refused(count)
       THEN Answer(a, "limited") /\ admitted' = admitted
       ELSE /\ admitted' = admitted + 1
            /\ LET gate == Gate(Call.path)
               IN \/ gate \in {"handler", "org"} /\ Proceed(a, gate)
                  \/ gate \notin {"handler", "org"} /\ Answer(a, gate)
                  \/ gate = "handler" /\ Call.path \in StricterLimit
                     /\ Answer(a, "limited")
    /\ UNCHANGED <<cached, inserting, raced, clientVars, ghosts>>

(* requireOrg, requireRole and requireCapability: the organization is the   *)
(* one the path's :id or the header names.                                 *)
(* Variant for ChangesNeedPrivilege: any member will do.                   *)
AnyMember(guard) == standing.role \in Everyone
Privileged(guard) ==
    \/ standing.role \in RolesOf(guard)
    \/ guard \notin DOMAIN GuardRoles /\ standing.granted
Authorization(route, header) ==
    IF ~OrgFromPath(route) /\ ~header THEN "bad"
    ELSE IF \/ OrgFromPath(route) /\ route.path[2] # "orgs"
            \/ standing.suspended \/ standing.role = "none"
            \/ ~Privileged(route.guard)
         THEN "refused" ELSE "handler"
Authorize(a) ==
    /\ request[a].stage = "org"
    /\ LET verdict == Authorization(CHOOSE r \in Routed(Call.path) : TRUE,
                                    Call.org)
       IN IF verdict = "handler" THEN Proceed(a, verdict) ELSE Answer(a, verdict)
    /\ UNCHANGED <<count, admitted, cached, inserting, raced, clientVars, ghosts>>

(* The handler: its change is made once it answers 2xx, never when it       *)
(* refuses, and a failure may come before or after it.  The idempotency row *)
(* of a 2xx answer is inserted without being awaited.                      *)
(* Variant for ReportsTruthfully: the change is made before the input is   *)
(* looked at.                                                              *)
HandleFirst(a) ==
    /\ request[a].stage = "handler"
    /\ \E answer \in {"ok", "bad", "refused"} : Answer(a, answer)
    /\ applied' = IF Mutating(Call.path) THEN applied + 1 ELSE applied
    /\ UNCHANGED <<count, admitted, cached, inserting, raced, clientVars, unclear,
                   uncached>>

Handle(a) ==
    /\ request[a].stage = "handler"
    /\ \E answer \in {"ok", "bad", "refused", "failed"}, changed \in BOOLEAN :
          /\ changed => Mutating(Call.path) /\ answer \in {"ok", "failed"}
          /\ answer = "ok" /\ Mutating(Call.path) => changed
          /\ Answer(a, answer)
          /\ applied' = IF changed THEN applied + 1 ELSE applied
          /\ inserting' = IF job.client = "keyed" /\ answer = "ok"
                          THEN inserting \cup {a} ELSE inserting
          /\ uncached' = (uncached \/ (changed /\ answer = "failed"))
    /\ UNCHANGED <<count, admitted, cached, raced, clientVars, unclear>>

InsertRow(a) ==
    /\ a \in inserting
    /\ inserting' = inserting \ {a}
    /\ \/ cached' = TRUE /\ uncached' = uncached
       \/ cached' = cached /\ uncached' = TRUE
    /\ UNCHANGED <<request, count, admitted, raced, clientVars, applied, unclear>>

(* The answer reaches the client that still waits for it, or is lost on the *)
(* way; an answer to an abandoned attempt is dropped.                      *)
Gone(a) == request' = [request EXCEPT ![a].stage = "gone"]
Deliver(a) ==
    /\ request[a].stage = "reply" /\ Gone(a)
    /\ IF a = attempt /\ phase = "waiting"
       THEN \/ request[a].answer = "ok" /\ Succeed
            \/ request[a].answer # "ok" /\ Fail(request[a].answer)
            \/ Fail("lost")
       ELSE UNCHANGED <<clientVars, unclear>>
    /\ UNCHANGED <<count, admitted, cached, inserting, raced, applied, uncached>>

(* The process dies with its requests, its pending inserts and its limiter. *)
Crash ==
    /\ request' = [a \in Attempts |->
                     IF Live(a) THEN [request[a] EXCEPT !.stage = "gone"]
                     ELSE request[a]]
    /\ uncached' = (uncached \/ inserting # {})
    /\ inserting' = {}
    /\ count' = 0 /\ admitted' = 0
    /\ IF phase = "waiting" THEN Fail("lost")
       ELSE UNCHANGED <<clientVars, unclear>>
    /\ UNCHANGED <<cached, raced, applied>>

NewWindow ==
    /\ count > 0
    /\ count' = 0 /\ admitted' = 0
    /\ UNCHANGED <<request, cached, inserting, raced, clientVars, ghosts>>

-----------------------------------------------------------------------------
Init ==
    /\ config \in [token : BOOLEAN, org : BOOLEAN]
    /\ standing \in Standings
    /\ job = NoJob
    /\ phase = "idle" /\ attempt = 1 /\ late = FALSE /\ outcome = "none"
    /\ request = NoRequest
    /\ count = 0 /\ admitted = 0
    /\ cached = FALSE /\ inserting = {} /\ raced = FALSE
    /\ applied = 0 /\ unclear = 0 /\ uncached = FALSE

Server(a) == Lookup(a) \/ Admit(a) \/ Authorize(a) \/ Handle(a) \/ Deliver(a)

Next ==
    \/ RunCommand \/ DeclineCommand \/ CommandWithoutOrg \/ CallSdk \/ FireAndPoll
    \/ CallUi \/ CallKeyed \/ Configure
    \/ Resend \/ NextCall \/ Exit \/ PollAgain \/ PollDeadline \/ PollTimeout \/ Timeout
    \/ \E a \in Attempts :
          Lookup(a) \/ Admit(a) \/ Authorize(a) \/ Handle(a) \/ InsertRow(a)
          \/ Deliver(a)
    \/ Crash \/ NewWindow

Spec == Init /\ [][Next]_vars

(* The client's timers run, and the server works on what it has received.  *)
FairSpec ==
    /\ Spec
    /\ WF_vars(Resend) /\ WF_vars(NextCall) /\ WF_vars(PollAgain)
    /\ WF_vars(PollDeadline) /\ WF_vars(PollTimeout)
    /\ \A a \in Attempts : WF_vars(Server(a)) /\ WF_vars(InsertRow(a))

-----------------------------------------------------------------------------
TypeOK ==
    /\ config \in [token : BOOLEAN, org : BOOLEAN]
    /\ phase \in {"idle", "waiting", "backoff", "next", "polling", "ended"}
    /\ attempt \in Attempts
    /\ \A a \in Attempts :
          request[a] \in [stage : {"none", "lookup", "limit", "org", "handler",
                                   "reply", "gone"},
                          answer : {"none", "ok", "bad", "unauthorized",
                                    "refused", "limited", "failed"}]
    /\ phase \notin {"idle", "ended"} => Len(job.calls) \in 1 .. 2
    /\ inserting \subseteq Attempts
    /\ applied \in 0 .. MaxRetries + 1 /\ unclear \in 0 .. MaxRetries + 1
    /\ count \in 0 .. Limit + 1 /\ admitted \in 0 .. (Limit \div Passes)
    /\ outcome \in {"none", "done", "failed", "declined"}

(* A change is repeated, or made by a call reported as failed, only when an *)
(* attempt ended without telling: client.ts retries a POST like a GET, so   *)
(* what it reports is the truth only while every attempt was answered.      *)
(* (With the types, the window's count included.)                          *)
ReportsTruthfully ==
    /\ TypeOK
    /\ applied <= unclear + 1
    /\ outcome = "failed" /\ unclear = 0 => applied = 0
    /\ outcome = "done" /\ Mutating(Call.path) => applied >= 1

(* idempotency.ts: with a key a change is repeated only if two attempts     *)
(* overlapped or the row of the first was never inserted.                   *)
KeyedOnce ==
    job.client = "keyed" /\ applied > 1 => raced \/ uncached

(* The guards and org-scope.ts end to end: a change needs a role, a grant   *)
(* or one of the calls that ask for none, and never goes through a route    *)
(* that names another thing than an organization by :id.                   *)
ChangesNeedPrivilege ==
    applied > 0 =>
       /\ \/ Call.path \in AskForNothing
          \/ standing.role \in Everyone \ {"viewer"} \/ standing.granted
       /\ \A r \in Routed(Call.path) :
             OrgFromPath(r) => r.path[2] = "orgs"

(* requestWithRetry and fireAndPoll: a job that was begun ends.            *)
JobEnds == phase = "waiting" ~> phase = "ended"
=============================================================================
