---------------------------- MODULE GatewayProofs ----------------------------
(***************************************************************************)
(* A call's way through the server, for any limit, number of retries and   *)
(* standing of the caller: what the client reports is the truth as long as  *)
(* every attempt was answered, a keyed change is made once unless two       *)
(* attempts overlapped or a row was lost, and a change needs a privilege.   *)
(***************************************************************************)
EXTENDS Gateway, FiniteSetTheorems, SequenceTheorems, TLAPS

Stage == {"none", "lookup", "limit", "org", "handler", "reply", "gone"}
AnswerOf == {"none", "ok", "bad", "unauthorized", "refused", "limited", "failed"}
Request == [stage : Stage, answer : AnswerOf]
CallType == [path : Asked, org : BOOLEAN]
Client == {"none", "cli", "sdk", "ui", "keyed"}

GatewayTypes ==
    /\ config \in [token : BOOLEAN, org : BOOLEAN]
    /\ standing \in [role : Everyone \cup {"none"}, granted : BOOLEAN,
                     suspended : BOOLEAN]
    /\ job \in [client : Client, calls : Seq(CallType), polls : BOOLEAN]
    /\ phase \in {"idle", "waiting", "backoff", "next", "polling", "ended"}
    /\ outcome \in {"none", "done", "failed", "declined"}
    /\ attempt \in Attempts /\ inserting \subseteq Attempts
    /\ request \in [Attempts -> Request]
    /\ applied \in Nat /\ unclear \in Nat
    /\ cached \in BOOLEAN /\ raced \in BOOLEAN /\ uncached \in BOOLEAN

(* Every request let through has passed all of its limiters.               *)
WindowInv ==
    /\ count \in 0 .. Limit + 1 /\ admitted \in Nat
    /\ Passes * admitted <= count /\ Passes * admitted <= Limit

(* Where a client may be with its job; without one nothing is under way.    *)
JobInv ==
    /\ Len(job.calls) <= 2
    /\ job.calls = <<>> =>
          /\ phase \in {"idle", "ended"} /\ outcome # "done"
          /\ applied = 0 /\ unclear = 0 /\ attempt = 1 /\ Drained
    /\ phase = "idle" => job.calls = <<>>
    /\ outcome # "none" <=> phase = "ended"
    /\ phase = "next" => Len(job.calls) = 2
    /\ phase = "backoff" => attempt <= MaxRetries
    /\ phase = "polling" => job.polls /\ Len(job.calls) = 1
    /\ job.polls => /\ job.client = "sdk" /\ job.calls # <<>>
                    /\ ~Mutating(job.calls[Len(job.calls)].path)
    /\ \A a \in Attempts : a > attempt => request[a].stage = "none"

(* Requests that may still reach their handler.                            *)
Unhandled ==
    {a \in Attempts : request[a].stage \in {"lookup", "limit", "org", "handler"}}

(* One change is allowed beyond the unclear attempts: by the attempt the    *)
(* client waits for, unless it is refused, and by the one that succeeded.   *)
Allowance ==
    IF phase = "waiting"
    THEN IF request[attempt].stage = "reply"
            /\ request[attempt].answer \notin {"ok", "failed"} THEN 0 ELSE 1
    ELSE IF phase \in {"next", "polling"} \/ outcome = "done" THEN 1 ELSE 0

(* Attempts and changes: each unclear attempt, and the one allowed, makes   *)
(* at most one, and an answer of success has one behind it.                *)
ChangesInv ==
    /\ unclear <= attempt
    /\ phase \in {"waiting", "next", "polling"} \/ outcome = "done" =>
          unclear <= attempt - 1
    /\ job.calls # <<>> =>
          IF Mutating(Call.path)
          THEN /\ applied + Cardinality(Unhandled) <= unclear + Allowance
               /\ outcome = "done" \/ cached \/ inserting # {} => applied >= 1
               /\ \A a \in Attempts :
                     request[a].stage = "reply" /\ request[a].answer = "ok" =>
                        applied >= 1
          ELSE applied = 0

(* With a key, one request at a time is past the lookup, and none once the  *)
(* change is made: its row is there or under way.                          *)
Past(a) == request[a].stage \in {"limit", "org", "handler"}
KeyInv ==
    job.client = "keyed" /\ ~raced =>
       /\ \A a, b \in Attempts : Past(a) /\ Past(b) => a = b
       /\ applied >= 1 /\ ~uncached =>
             /\ applied = 1
             /\ cached \/ inserting # {}
             /\ \A a \in Attempts : ~Past(a)

(* Whoever is in the handler of a change, or has made it, was entitled.     *)
Entitled ==
    /\ \/ Call.path \in AskForNothing
       \/ standing.role \in Everyone \ {"viewer"} \/ standing.granted
    /\ \A r \in Routed(Call.path) : OrgFromPath(r) => r.path[2] = "orgs"
RowGuarded(path) ==
    /\ Routed(path) # {}
    /\ \A r \in Routed(path) : r.guard \notin {"open", "user", "admin"}
PrivilegeInv ==
    job.calls # <<>> /\ Mutating(Call.path) =>
       /\ applied > 0 => Entitled
       /\ \A a \in Attempts :
             /\ request[a].stage = "handler" => Entitled
             /\ request[a].stage = "org" => RowGuarded(Call.path)

GatewayInv ==
    /\ GatewayTypes /\ WindowInv /\ JobInv /\ ChangesInv /\ KeyInv /\ PrivilegeInv

-----------------------------------------------------------------------------
(* Facts about sets of attempts.                                           *)

LEMMA Fewer ==
  ASSUME NEW S, IsFiniteSet(S), NEW T \in SUBSET S
  PROVE  /\ Cardinality(T) \in Nat /\ Cardinality(S) \in Nat
         /\ Cardinality(T) <= Cardinality(S)
         /\ \A x \in S : x \notin T => Cardinality(T) + 1 <= Cardinality(S)
<1>1. IsFiniteSet(T) /\ Cardinality(T) <= Cardinality(S)
  BY FS_Subset
<1>2. Cardinality(T) \in Nat /\ Cardinality(S) \in Nat
  BY <1>1, FS_CardinalityType
<1>3. ASSUME NEW x \in S, x \notin T PROVE Cardinality(T) + 1 <= Cardinality(S)
  <2>1. IsFiniteSet(S \ {x}) /\ Cardinality(S \ {x}) = Cardinality(S) - 1
    BY FS_RemoveElement
  <2>2. T \in SUBSET (S \ {x})
    BY <1>3
  <2>3. Cardinality(T) <= Cardinality(S \ {x})
    BY <2>1, <2>2, FS_Subset
  <2> QED
    BY <1>2, <2>1, <2>3
<1> QED
  BY <1>1, <1>2, <1>3

LEMMA UnhandledFinite == IsFiniteSet(Attempts) /\ IsFiniteSet(Unhandled)
<1>1. IsFiniteSet(1 .. MaxRetries + 1)
  BY GatewayAssumption, FS_Interval
<1>2. Unhandled \in SUBSET Attempts
  BY DEF Unhandled
<1> QED
  BY <1>1, <1>2, FS_Subset DEF Attempts

(* Requests that are handled, refused or gone make fewer unhandled ones.    *)
LEMMA UnhandledShrinks ==
  ASSUME Unhandled' \subseteq Unhandled
  PROVE  /\ Cardinality(Unhandled) \in Nat /\ Cardinality(Unhandled') \in Nat
         /\ Cardinality(Unhandled') <= Cardinality(Unhandled)
         /\ \A a \in Unhandled : a \notin Unhandled' =>
               Cardinality(Unhandled') + 1 <= Cardinality(Unhandled)
  BY Fewer, UnhandledFinite

-----------------------------------------------------------------------------
(* A client starts with nothing under way.                                 *)
LEMMA InitGateway == Init => GatewayInv
<1> SUFFICES ASSUME Init PROVE GatewayInv
  OBVIOUS
<1>1. GatewayTypes
  <2>1. job \in [client : Client, calls : Seq(CallType), polls : BOOLEAN]
    BY DEF Init, NoJob, Client
  <2>2. request \in [Attempts -> Request]
    BY DEF Init, NoRequest, Request, Stage, AnswerOf
  <2>3. standing \in [role : Everyone \cup {"none"}, granted : BOOLEAN,
                     suspended : BOOLEAN]
    BY GatewayAssumption DEF Init
  <2>4. 1 \in Attempts
    BY GatewayAssumption DEF Attempts
  <2> QED
    BY <2>1, <2>2, <2>3, <2>4 DEF Init, GatewayTypes
<1>2. WindowInv
  BY GatewayAssumption DEF Init, WindowInv
<1>3. JobInv
  BY GatewayAssumption
  DEF Init, JobInv, NoJob, NoRequest, Attempts, Drained, Live
<1>4. ChangesInv
  BY GatewayAssumption DEF Init, ChangesInv, NoJob
<1>5. KeyInv /\ PrivilegeInv
  BY DEF Init, KeyInv, PrivilegeInv, NoJob
<1> QED
  BY <1>1, <1>2, <1>3, <1>4, <1>5 DEF GatewayInv

(* A new call starts with its first attempt alone in the server.           *)
LEMMA BeginKeeps ==
  ASSUME GatewayInv, inserting = {},
         NEW client \in Client, NEW calls \in Seq(CallType), NEW polls \in BOOLEAN,
         Len(calls) \in 1 .. 2,
         polls => client = "sdk" /\ ~Mutating(calls[Len(calls)].path),
         Begin(client, calls, polls)
  PROVE  GatewayInv'
<1> DEFINE first == [stage |-> FirstStage(client), answer |-> "none"]
           none == [stage |-> "none", answer |-> "none"]
<1>0. /\ job' = [client |-> client, calls |-> calls, polls |-> polls]
      /\ request' = [b \in Attempts |-> IF b = 1 THEN first ELSE none]
      /\ first \in Request /\ none \in Request /\ 1 \in Attempts
      /\ first.stage \in {"lookup", "limit"} /\ none.stage = "none"
  BY GatewayAssumption
  DEF Begin, Sent, FirstStage, Request, Stage, AnswerOf, Attempts
<1> HIDE DEF first, none
<1>1. GatewayTypes'
  <2>1. job' \in [client : Client, calls : Seq(CallType), polls : BOOLEAN]
    BY <1>0
  <2>2. request' \in [Attempts -> Request]
    BY <1>0
  <2> QED
    BY <1>0, <2>1, <2>2 DEF Begin, GatewayInv, GatewayTypes
<1>2. WindowInv'
  BY DEF Begin, GatewayInv, WindowInv
<1>3. JobInv'
  <2>1. job'.calls = calls /\ job'.polls = polls /\ job'.client = client
    BY <1>0
  <2>2. Len(calls) <= 2 /\ calls # <<>>
    OBVIOUS
  <2>3. \A a \in Attempts : a > 1 => request'[a].stage = "none"
    BY <1>0
  <2> QED
    BY <2>1, <2>2, <2>3 DEF Begin, JobInv
<1>4. ChangesInv'
  <2>1. Unhandled' = {1}
    BY <1>0 DEF Unhandled
  <2>2. Cardinality(Unhandled') = 1
    BY <2>1, FS_Singleton
  <2>3. Allowance' = 1
    BY <1>0 DEF Begin, Allowance
  <2> QED
    BY <1>0, <2>2, <2>3 DEF Begin, ChangesInv, Call
<1>5. KeyInv'
  BY <1>0 DEF Begin, KeyInv, Past
<1>6. PrivilegeInv'
  BY <1>0 DEF Begin, PrivilegeInv
<1> QED
  BY <1>1, <1>2, <1>3, <1>4, <1>5, <1>6 DEF GatewayInv

LEMMA SdkCallType ==
  ASSUME GatewayTypes, NEW m \in DOMAIN Sdk
  PROVE  SdkCall(m) \in CallType /\ SdkCall(m).path = Sdk[m]
<1>1. Sdk[m] \in Asked
  BY DEF Asked
<1>2. config.org \in BOOLEAN
  BY DEF GatewayTypes
<1>3. OrgHeader(m, config.org) \in BOOLEAN
  BY <1>2 DEF OrgHeader
<1> QED
  BY <1>1, <1>3 DEF SdkCall, CallType

(* A client that is idle left nothing in the server.                       *)
LEMMA IdleDrained == GatewayInv /\ phase = "idle" => inserting = {}
  BY DEF GatewayInv, JobInv, Drained

(* Whatever a client starts with is one or two calls the tables list.       *)
LEMMA StartsKeep ==
  ASSUME GatewayInv,
         RunCommand \/ CallSdk \/ FireAndPoll \/ CallUi \/ CallKeyed
  PROVE  GatewayInv'
<1> USE DEF Client
<1>1. CASE RunCommand
  <2> PICK command \in Cli :
         /\ phase = "idle"
         /\ Begin(IF Saves(command) THEN "cli" ELSE "sdk",
                  [i \in DOMAIN command.calls |-> SdkCall(command.calls[i])], FALSE)
    BY <1>1 DEF RunCommand
  <2> DEFINE calls == [i \in DOMAIN command.calls |-> SdkCall(command.calls[i])]
  <2>1. command.calls \in Seq(DOMAIN Sdk) /\ Len(command.calls) \in 1 .. 2
    BY CallsAssumption
  <2>2. \A i \in DOMAIN command.calls : SdkCall(command.calls[i]) \in CallType
    BY <2>1, SdkCallType DEF GatewayInv
  <2>3. DOMAIN command.calls = 1 .. Len(command.calls)
    BY <2>1
  <2>4. calls \in Seq(CallType) /\ Len(calls) = Len(command.calls)
    BY <2>1, <2>2, <2>3
  <2> HIDE DEF calls
  <2>5. CASE Saves(command)
    BY <2>1, <2>4, <2>5, IdleDrained, BeginKeeps DEF calls
  <2>6. CASE ~Saves(command)
    BY <2>1, <2>4, <2>6, IdleDrained, BeginKeeps DEF calls
  <2> QED
    BY <2>5, <2>6
<1>2. CASE CallSdk
  <2> PICK method \in DOMAIN Sdk \cup {SdkManage[a] : a \in DOMAIN SdkManage} :
         phase = "idle" /\ Begin("sdk", <<SdkCall(method)>>, FALSE)
    BY <1>2 DEF CallSdk
  <2>1. SdkCall(method) \in CallType
    BY CallsAssumption, SdkCallType DEF GatewayInv
  <2>2. <<SdkCall(method)>> \in Seq(CallType) /\ Len(<<SdkCall(method)>>) \in 1 .. 2
    BY <2>1
  <2> QED
    BY <2>2, IdleDrained, BeginKeeps
<1>3. CASE FireAndPoll
  <2> DEFINE calls == <<SdkCall("createRenewalJob"), SdkCall("listRenewalJobs")>>
  <2>1. /\ SdkCall("createRenewalJob") \in CallType
        /\ SdkCall("listRenewalJobs") \in CallType
        /\ ~Mutating(SdkCall("listRenewalJobs").path)
    BY CallsAssumption, SdkCallType DEF GatewayInv
  <2>2. /\ calls \in Seq(CallType) /\ Len(calls) \in 1 .. 2
        /\ calls[Len(calls)] = SdkCall("listRenewalJobs")
    BY <2>1
  <2>3. phase = "idle" /\ Begin("sdk", calls, TRUE)
    BY <1>3 DEF FireAndPoll
  <2> HIDE DEF calls
  <2> QED
    BY <2>1, <2>2, <2>3, IdleDrained, BeginKeeps
<1>4. CASE CallUi
  <2> PICK path \in Ui :
         phase = "idle" /\ Begin("ui", <<[path |-> path, org |-> config.org]>>, FALSE)
    BY <1>4 DEF CallUi
  <2>1. [path |-> path, org |-> config.org] \in CallType
    BY DEF CallType, Asked, GatewayInv, GatewayTypes
  <2>2. /\ <<[path |-> path, org |-> config.org]>> \in Seq(CallType)
        /\ Len(<<[path |-> path, org |-> config.org]>>) \in 1 .. 2
    BY <2>1
  <2> QED
    BY <2>2, IdleDrained, BeginKeeps
<1>5. CASE CallKeyed
  <2> PICK path \in KeyedPaths :
         phase = "idle" /\ Begin("keyed", <<[path |-> path, org |-> config.org]>>, FALSE)
    BY <1>5 DEF CallKeyed
  <2>1. [path |-> path, org |-> config.org] \in CallType
    BY DEF CallType, Asked, GatewayInv, GatewayTypes
  <2>2. /\ <<[path |-> path, org |-> config.org]>> \in Seq(CallType)
        /\ Len(<<[path |-> path, org |-> config.org]>>) \in 1 .. 2
    BY <2>1
  <2> QED
    BY <2>2, IdleDrained, BeginKeeps
<1> QED
  BY <1>1, <1>2, <1>3, <1>4, <1>5

(* The next call of a job starts when the server is done with the last one. *)
LEMMA NextCallKeeps ==
  ASSUME GatewayInv, NextCall
  PROVE  GatewayInv'
<1> DEFINE calls == Tail(job.calls)
<1>1. /\ Len(job.calls) = 2 /\ job.calls \in Seq(CallType)
      /\ job.client \in Client /\ job.polls \in BOOLEAN /\ inserting = {}
  BY DEF NextCall, GatewayInv, GatewayTypes, JobInv, Drained
<1>2. job.polls => job.client = "sdk" /\ ~Mutating(job.calls[2].path)
  BY <1>1 DEF GatewayInv, JobInv
<1>3. Begin(job.client, calls, job.polls)
  BY DEF NextCall
<1>4. /\ calls \in Seq(CallType) /\ Len(calls) \in 1 .. 2
      /\ calls[Len(calls)] = job.calls[2]
  <2> SUFFICES ASSUME NEW s \in Seq(CallType), Len(s) = 2
               PROVE  /\ Tail(s) \in Seq(CallType) /\ Len(Tail(s)) \in 1 .. 2
                      /\ Tail(s)[Len(Tail(s))] = s[2]
    BY <1>1
  <2>1. Len(<<>>) = 0
    OBVIOUS
  <2>2. s # <<>>
    BY <2>1
  <2>3. Tail(s) \in Seq(CallType) /\ Len(Tail(s)) = 1
    BY <2>2
  <2>4. Tail(s)[1] = s[2]
    BY <2>2
  <2> DEFINE t == Tail(s)
  <2> HIDE DEF t
  <2>5. t \in Seq(CallType) /\ Len(t) = 1 /\ t[1] = s[2]
    BY <2>3, <2>4 DEF t
  <2>6. t \in Seq(CallType) /\ Len(t) \in 1 .. 2 /\ t[Len(t)] = s[2]
    BY <2>5
  <2> QED
    BY <2>6 DEF t
<1> HIDE DEF calls
<1> QED
  BY <1>1, <1>2, <1>3, <1>4, BeginKeeps

-----------------------------------------------------------------------------
(* The client's own steps.                                                 *)

(* Between jobs: an answer to a prompt, a changed configuration, the exit.  *)
LEMMA BetweenJobsKeep ==
  ASSUME GatewayInv, Configure \/ StopCommand("declined") \/ StopCommand("failed")
  PROVE  GatewayInv'
<1>1. /\ UNCHANGED <<serverVars, standing, job, attempt, ghosts>>
      /\ phase = "idle" /\ phase' \in {"idle", "ended"}
      /\ config' \in [token : BOOLEAN, org : BOOLEAN]
      /\ \/ phase' = phase /\ outcome' = outcome
         \/ phase' = "ended" /\ outcome' \in {"declined", "failed"}
  BY DEF Configure, StopCommand, GatewayInv, GatewayTypes
<1> USE DEF serverVars, ghosts
<1>2. job.calls = <<>>
  BY <1>1 DEF GatewayInv, JobInv
<1>3. GatewayTypes'
  BY <1>1 DEF GatewayInv, GatewayTypes
<1>4. WindowInv'
  BY <1>1 DEF GatewayInv, WindowInv
<1>5. JobInv'
  BY <1>1, <1>2 DEF GatewayInv, JobInv, Drained, Live
<1>6. ChangesInv'
  BY <1>1, <1>2, <1>5 DEF GatewayInv, JobInv, ChangesInv
<1>7. KeyInv' /\ PrivilegeInv'
  BY <1>1, <1>2 DEF GatewayInv, KeyInv, PrivilegeInv, Past
<1> QED
  BY <1>3, <1>4, <1>5, <1>6, <1>7 DEF GatewayInv

LEMMA ExitKeeps ==
  ASSUME GatewayInv, Exit
  PROVE  GatewayInv'
<1>1. /\ job' = NoJob /\ request' = NoRequest /\ 1 \in Attempts
      /\ NoRequest \in [Attempts -> Request] /\ inserting = {}
      /\ NoJob \in [client : Client, calls : Seq(CallType), polls : BOOLEAN]
  BY GatewayAssumption
  DEF Exit, Fresh, Attempts, NoRequest, Request, Stage, AnswerOf, Drained, NoJob, Client
<1>2. GatewayTypes'
  BY <1>1 DEF Exit, Fresh, GatewayInv, GatewayTypes
<1>3. WindowInv'
  BY DEF Exit, GatewayInv, WindowInv
<1>4. JobInv'
  BY <1>1 DEF Exit, Fresh, JobInv, NoJob, NoRequest, Drained, Live
<1>5. ChangesInv'
  BY <1>1 DEF Exit, Fresh, ChangesInv, NoJob
<1>6. KeyInv' /\ PrivilegeInv'
  BY <1>1 DEF Exit, KeyInv, PrivilegeInv, NoJob
<1> QED
  BY <1>2, <1>3, <1>4, <1>5, <1>6 DEF GatewayInv

(* A retry adds one request to the unhandled ones, for the unclear attempt  *)
(* before it.                                                              *)
LEMMA ResendKeeps ==
  ASSUME GatewayInv, Resend
  PROVE  GatewayInv'
<1> DEFINE n == attempt + 1
           first == [stage |-> FirstStage(job.client), answer |-> "none"]
<1>1. n \in Attempts /\ n # 1 /\ attempt \in Attempts /\ attempt <= MaxRetries
  BY GatewayAssumption
  DEF Resend, GatewayInv, GatewayTypes, JobInv, Attempts
<1>2. /\ request' = [b \in Attempts |-> IF b = n THEN first ELSE request[b]]
      /\ attempt' = n /\ phase' = "waiting" /\ phase = "backoff"
      /\ UNCHANGED <<config, standing, job, late, outcome, count, admitted, cached,
                     inserting, raced, ghosts>>
  BY <1>1 DEF Resend, Sent
<1>3. /\ first \in Request /\ first.stage \in {"lookup", "limit"}
      /\ job.client = "keyed" => first.stage = "lookup"
  BY DEF FirstStage, Request, Stage, AnswerOf
<1> HIDE DEF first
<1> USE DEF ghosts
<1>4. request[n].stage = "none"
  BY <1>1 DEF GatewayInv, JobInv, GatewayTypes, Attempts
<1>5. GatewayTypes'
  <2>1. request' \in [Attempts -> Request]
    BY <1>2, <1>3 DEF GatewayInv, GatewayTypes
  <2> QED
    BY <1>1, <1>2, <2>1 DEF GatewayInv, GatewayTypes
<1>6. WindowInv'
  BY <1>2 DEF GatewayInv, WindowInv
<1>7. job.calls # <<>>
  BY <1>2 DEF GatewayInv, JobInv
<1>8. JobInv'
  <2>1. \A a \in Attempts : a > n => request'[a].stage = "none"
    BY <1>1, <1>2 DEF GatewayInv, JobInv, Attempts
  <2> QED
    BY <1>2, <1>7, <2>1 DEF GatewayInv, JobInv
<1>9. ChangesInv'
  <2>1. Unhandled' = Unhandled \cup {n} /\ n \notin Unhandled
    BY <1>1, <1>2, <1>3, <1>4 DEF Unhandled
  <2>2. /\ Cardinality(Unhandled) \in Nat
        /\ Cardinality(Unhandled') = Cardinality(Unhandled) + 1
    BY <2>1, UnhandledFinite, FS_AddElement, FS_CardinalityType
  <2>3. outcome = "none" /\ Allowance = 0
    BY <1>2 DEF GatewayInv, JobInv, Allowance
  <2>4. Allowance' = 1
    BY <1>1, <1>2, <1>3 DEF Allowance
  <2>5. unclear <= attempt /\ unclear \in Nat /\ applied \in Nat
    BY DEF GatewayInv, ChangesInv, GatewayTypes
  <2>6. unclear' <= attempt' - 1 /\ unclear' <= attempt'
    BY <1>1, <1>2, <2>5 DEF Attempts
  <2>7. \A a \in Attempts : request'[a].stage = "reply" /\ request'[a].answer = "ok" =>
           request[a].stage = "reply" /\ request[a].answer = "ok"
    BY <1>2, <1>3
  <2>8. UNCHANGED <<job, Call, Mutating(Call.path), applied, unclear, cached,
                    inserting, outcome>>
    BY <1>2 DEF Call, Mutating
  <2> HIDE DEF n
  <2> QED
    BY <1>7, <2>2, <2>3, <2>4, <2>5, <2>6, <2>7, <2>8 DEF GatewayInv, ChangesInv
<1>10. KeyInv'
  <2>1. job.client = "keyed" => \A a \in Attempts : Past(a)' => Past(a)
    BY <1>2, <1>3 DEF Past
  <2> QED
    BY <1>2, <2>1 DEF GatewayInv, KeyInv
<1>11. PrivilegeInv'
  <2>1. \A a \in Attempts : request'[a].stage \in {"handler", "org"} =>
           request'[a].stage = request[a].stage
    BY <1>2, <1>3
  <2>2. UNCHANGED <<job, Call, Mutating(Call.path), RowGuarded(Call.path),
                    applied, standing>> /\ Entitled' = Entitled
    BY <1>2 DEF Call, Mutating, Entitled, RowGuarded, Routed
  <2> QED
    BY <2>1, <2>2 DEF GatewayInv, PrivilegeInv
<1> QED
  BY <1>5, <1>6, <1>8, <1>9, <1>10, <1>11 DEF GatewayInv

(* fireAndPoll's check is repeated only when the server is done, and reads. *)
LEMMA PollAgainKeeps ==
  ASSUME GatewayInv, PollAgain
  PROVE  GatewayInv'
<1> DEFINE first == [stage |-> FirstStage(job.client), answer |-> "none"]
           none == [stage |-> "none", answer |-> "none"]
<1>1. /\ request' = [b \in Attempts |-> IF b = 1 THEN first ELSE none]
      /\ first \in Request /\ none \in Request /\ 1 \in Attempts
      /\ first.stage \in {"lookup", "limit"} /\ none.stage = "none"
  BY GatewayAssumption
  DEF PollAgain, Sent, FirstStage, Request, Stage, AnswerOf, Attempts
<1> HIDE DEF first, none
<1>2. /\ job.polls /\ Len(job.calls) = 1 /\ job.client = "sdk"
      /\ job.calls # <<>> /\ ~Mutating(Call.path)
  BY DEF PollAgain, GatewayInv, JobInv, Call
<1>3. GatewayTypes'
  <2>1. request' \in [Attempts -> Request]
    BY <1>1
  <2> QED
    BY <1>1, <2>1 DEF PollAgain, GatewayInv, GatewayTypes
<1>4. WindowInv'
  BY DEF PollAgain, GatewayInv, WindowInv
<1>5. JobInv'
  <2>1. \A a \in Attempts : a > 1 => request'[a].stage = "none"
    BY <1>1
  <2> QED
    BY <1>2, <2>1 DEF PollAgain, GatewayInv, JobInv
<1>6. ChangesInv'
  BY <1>2 DEF PollAgain, ChangesInv, Call, Mutating
<1>7. KeyInv' /\ PrivilegeInv'
  BY <1>2 DEF PollAgain, KeyInv, PrivilegeInv, Call, Mutating
<1> QED
  BY <1>3, <1>4, <1>5, <1>6, <1>7 DEF GatewayInv

LEMMA DeadlineKeeps ==
  ASSUME GatewayInv, PollDeadline
  PROVE  GatewayInv'
<1> USE DEF PollDeadline, serverVars, ghosts
<1>1. GatewayTypes' /\ WindowInv'
  BY DEF GatewayInv, GatewayTypes, WindowInv
<1>4. JobInv'
  BY DEF GatewayInv, JobInv, Drained, Live
<1>2. ChangesInv'
  BY DEF GatewayInv, ChangesInv, Unhandled, Allowance, Call
<1>3. KeyInv' /\ PrivilegeInv'
  BY DEF GatewayInv, KeyInv, PrivilegeInv, Past, Entitled, Call, RowGuarded, Routed
<1> QED
  BY <1>1, <1>2, <1>3, <1>4 DEF GatewayInv

LEMMA PollTimeoutKeeps ==
  ASSUME GatewayInv, PollTimeout
  PROVE  GatewayInv'
<1> USE DEF PollTimeout, serverVars, ghosts
<1>1. GatewayTypes' /\ WindowInv' /\ JobInv'
  BY DEF GatewayInv, GatewayTypes, WindowInv, JobInv, Drained, Live
<1>2. ChangesInv'
  <2>1. ~Mutating(Call.path) /\ job.calls # <<>>
    BY DEF GatewayInv, JobInv, Call
  <2> QED
    BY <2>1 DEF GatewayInv, ChangesInv, Call, Mutating
<1>3. KeyInv' /\ PrivilegeInv'
  BY DEF GatewayInv, KeyInv, PrivilegeInv, Past, Entitled, Call, RowGuarded, Routed
<1> QED
  BY <1>1, <1>2, <1>3 DEF GatewayInv

LEMMA NewWindowKeeps ==
  ASSUME GatewayInv, NewWindow
  PROVE  GatewayInv'
<1> USE DEF NewWindow, clientVars, ghosts
<1>1. GatewayTypes' /\ JobInv'
  BY DEF GatewayInv, GatewayTypes, JobInv, Drained, Live
<1>2. WindowInv'
  BY GatewayAssumption DEF GatewayInv, WindowInv
<1>3. ChangesInv'
  BY DEF GatewayInv, ChangesInv, Unhandled, Allowance, Call
<1>4. KeyInv' /\ PrivilegeInv'
  BY DEF GatewayInv, KeyInv, PrivilegeInv, Past, Entitled, Call, RowGuarded, Routed
<1> QED
  BY <1>1, <1>2, <1>3, <1>4 DEF GatewayInv

-----------------------------------------------------------------------------
(* Requests that go: an answer delivered or lost, a crash.                 *)

Faded ==
    /\ request' \in [Attempts -> Request]
    /\ \A a \in Attempts :
          \/ request'[a] = request[a]
          \/ request[a].stage # "none" /\ request'[a].stage = "gone"

LEMMA FadedUnhandled ==
  ASSUME Faded
  PROVE  /\ Unhandled' \subseteq Unhandled
         /\ \A a \in Attempts :
               request'[a].stage # "gone" => request'[a] = request[a]
  BY DEF Faded, Unhandled

(* The client gives an attempt up, or is told it failed.                   *)
LEMMA FailKeeps ==
  ASSUME GatewayInv, phase = "waiting", Faded, NEW answer, Fail(answer),
         answer \notin {"lost", "failed", "ok"} =>
            request[attempt].stage = "reply" /\ request[attempt].answer = answer,
         answer # "ok", inserting' \subseteq inserting, UNCHANGED <<applied, cached>>
  PROVE  JobInv' /\ ChangesInv' /\ unclear' \in Nat
<1>1. /\ job.calls # <<>> /\ outcome = "none" /\ unclear \in Nat /\ applied \in Nat
      /\ attempt \in Nat /\ unclear <= attempt - 1 /\ MaxRetries \in Nat
  BY GatewayAssumption
  DEF GatewayInv, JobInv, ChangesInv, GatewayTypes, Attempts
<1>2. /\ UNCHANGED <<job, attempt>>
      /\ \/ phase' = "backoff" /\ outcome' = "none" /\ attempt <= MaxRetries
         \/ phase' = "ended" /\ outcome' = "failed"
      /\ unclear' = IF answer \in {"lost", "failed"} THEN unclear + 1 ELSE unclear
  BY <1>1 DEF Fail
<1>3. unclear' \in Nat /\ unclear' <= attempt
  BY <1>1, <1>2
<1>4. JobInv'
  <2>1. \A a \in Attempts : a > attempt => request'[a].stage = "none"
    BY DEF GatewayInv, JobInv, Faded
  <2> QED
    BY <1>1, <1>2, <2>1 DEF GatewayInv, JobInv
<1>5. ChangesInv'
  <2>1. Allowance' = 0
    BY <1>2 DEF Allowance
  <2>2. unclear + Allowance <= unclear'
    BY <1>1, <1>2 DEF Allowance
  <2>3. /\ Cardinality(Unhandled) \in Nat /\ Cardinality(Unhandled') \in Nat
        /\ Cardinality(Unhandled') <= Cardinality(Unhandled)
    BY FadedUnhandled, UnhandledShrinks
  <2>4. Allowance \in {0, 1}
    BY DEF Allowance
  <2>5. \A a \in Attempts : request'[a].stage = "reply" => request'[a] = request[a]
    BY FadedUnhandled
  <2>6. UNCHANGED <<job, Call, Mutating(Call.path)>>
    BY <1>2 DEF Call, Mutating
  <2>7. CASE Mutating(Call.path)
    <3>1. applied' + Cardinality(Unhandled') <= unclear' + Allowance'
      <4>1. applied + Cardinality(Unhandled) <= unclear + Allowance
        BY <1>1, <2>7 DEF GatewayInv, ChangesInv
      <4> QED
        BY <1>1, <1>3, <2>1, <2>2, <2>3, <2>4, <4>1
    <3>2. cached' \/ inserting' # {} => applied' >= 1
      BY <1>1, <2>7 DEF GatewayInv, ChangesInv
    <3>3. \A a \in Attempts :
             request'[a].stage = "reply" /\ request'[a].answer = "ok" => applied' >= 1
      BY <1>1, <2>5, <2>7 DEF GatewayInv, ChangesInv
    <3> QED
      BY <1>2, <1>3, <2>6, <2>7, <3>1, <3>2, <3>3 DEF ChangesInv
  <2>8. CASE ~Mutating(Call.path)
    <3>1. applied' = 0
      BY <1>1, <2>8 DEF GatewayInv, ChangesInv
    <3> QED
      BY <1>2, <1>3, <2>6, <2>8, <3>1 DEF ChangesInv
  <2> QED
    BY <2>7, <2>8
<1> QED
  BY <1>3, <1>4, <1>5

(* What goes takes no key and no privilege with it.                        *)
LEMMA FadedKeeps ==
  ASSUME GatewayInv, Faded, UNCHANGED <<job, applied, cached, raced>>,
         uncached => uncached', inserting' = inserting \/ uncached',
         standing' = standing \/ standing'.role = "owner"
  PROVE  KeyInv' /\ PrivilegeInv'
<1>1. \A a \in Attempts : request'[a].stage # "gone" => request'[a] = request[a]
  BY FadedUnhandled
<1>2. KeyInv'
  <2>1. \A a \in Attempts : Past(a)' => Past(a)
    BY <1>1 DEF Past
  <2> QED
    BY <2>1 DEF GatewayInv, KeyInv
<1>3. PrivilegeInv'
  <2>1. UNCHANGED <<job, Call, Mutating(Call.path), Routed(Call.path),
                    RowGuarded(Call.path), applied>>
    BY DEF Call, Mutating, RowGuarded, Routed
  <2>2. Entitled => Entitled'
    BY <2>1 DEF Entitled, Everyone
  <2>3. \A a \in Attempts : request'[a].stage \in {"handler", "org"} =>
           request'[a].stage = request[a].stage
    BY <1>1
  <2> QED
    BY <2>1, <2>2, <2>3 DEF GatewayInv, PrivilegeInv
<1> QED
  BY <1>2, <1>3

LEMMA TimeoutKeeps ==
  ASSUME GatewayInv, Timeout
  PROVE  GatewayInv'
<1>1. /\ phase = "waiting" /\ Fail("lost")
      /\ UNCHANGED <<request, count, admitted, cached, inserting, raced, applied,
                     uncached>>
  BY DEF Timeout, serverVars
<1>2. Faded
  BY <1>1 DEF Faded, GatewayInv, GatewayTypes
<1>3. JobInv' /\ ChangesInv' /\ unclear' \in Nat
  BY <1>1, <1>2, FailKeeps
<1>4. UNCHANGED <<config, standing, job, attempt>>
  BY <1>1 DEF Fail
<1>5. KeyInv' /\ PrivilegeInv'
  BY <1>1, <1>2, <1>4, FadedKeeps
<1>6. GatewayTypes'
  BY <1>1, <1>3, <1>4 DEF Fail, GatewayInv, GatewayTypes
<1>7. WindowInv'
  BY <1>1 DEF GatewayInv, WindowInv
<1> QED
  BY <1>3, <1>5, <1>6, <1>7 DEF GatewayInv

(* What died with the process was unclear to whoever waited for it.        *)
LEMMA CrashKeeps ==
  ASSUME GatewayInv, Crash
  PROVE  GatewayInv'
<1>1. Faded
  <2>1. \A a \in Attempts : request[a] \in Request
    BY DEF GatewayInv, GatewayTypes
  <2>2. \A a \in Attempts : [request[a] EXCEPT !.stage = "gone"] \in Request
    BY <2>1 DEF Request, Stage
  <2>3. \A a \in Attempts : [request[a] EXCEPT !.stage = "gone"].stage = "gone"
    BY <2>1 DEF Request
  <2>4. request' = [a \in Attempts |->
                      IF Live(a) THEN [request[a] EXCEPT !.stage = "gone"]
                      ELSE request[a]]
    BY DEF Crash
  <2>5. request' \in [Attempts -> Request]
    BY <2>1, <2>2, <2>4
  <2>6. \A a \in Attempts :
           \/ request'[a] = request[a]
           \/ request[a].stage # "none" /\ request'[a].stage = "gone"
    BY <2>3, <2>4 DEF Live
  <2> QED
    BY <2>5, <2>6 DEF Faded
<1>2. /\ UNCHANGED <<config, standing, job, attempt, late, cached, raced, applied>>
      /\ inserting' = {} /\ inserting' \subseteq inserting
      /\ uncached' \in BOOLEAN
      /\ uncached => uncached'
      /\ inserting' = inserting \/ uncached'
  BY DEF Crash, Fail, clientVars, GatewayInv, GatewayTypes
<1>3. KeyInv' /\ PrivilegeInv'
  <2>1. UNCHANGED <<job, applied, cached, raced>>
    BY <1>2
  <2>2. standing' = standing \/ standing'.role = "owner"
    BY <1>2
  <2>3. /\ uncached => uncached'
        /\ inserting' = inserting \/ uncached'
    BY <1>2
  <2> QED
    BY <1>1, <2>1, <2>2, <2>3, FadedKeeps, Zenon
<1>4. WindowInv'
  BY GatewayAssumption DEF Crash, WindowInv
<1>5. CASE phase = "waiting"
  <2>1. Fail("lost")
    BY <1>5 DEF Crash
  <2>2. JobInv' /\ ChangesInv' /\ unclear' \in Nat
    BY <1>1, <1>2, <1>5, <2>1, FailKeeps
  <2>3. phase' \in {"backoff", "ended"} /\ outcome' \in {outcome, "failed"}
    BY <2>1 DEF Fail
  <2>4. GatewayTypes'
    <3>1. request' \in [Attempts -> Request] /\ inserting' \subseteq Attempts
      BY <1>1, <1>2 DEF Faded
    <3> QED
      BY <1>2, <2>2, <2>3, <3>1 DEF GatewayInv, GatewayTypes
  <2> QED
    BY <1>3, <1>4, <2>2, <2>4 DEF GatewayInv
<1>6. CASE phase # "waiting"
  <2>1. UNCHANGED <<clientVars, unclear>>
    BY <1>6 DEF Crash
  <2> USE DEF clientVars
  <2>2. GatewayTypes'
    <3>1. request' \in [Attempts -> Request] /\ inserting' \subseteq Attempts
      BY <1>1, <1>2 DEF Faded
    <3> QED
      BY <1>2, <2>1, <3>1 DEF GatewayInv, GatewayTypes
  <2>3. JobInv'
    <3>1. \A a \in Attempts : a > attempt => request'[a].stage = "none"
      BY <1>1 DEF Faded, GatewayInv, JobInv
    <3>2. Drained => Drained'
      BY <1>1, <1>2 DEF Drained, Live, Faded
    <3> QED
      BY <1>2, <2>1, <3>1, <3>2 DEF GatewayInv, JobInv
  <2>4. ChangesInv'
    <3>1. Allowance' = Allowance /\ Allowance \in {0, 1}
      BY <1>6, <2>1 DEF Allowance
    <3>2. /\ Cardinality(Unhandled) \in Nat /\ Cardinality(Unhandled') \in Nat
          /\ Cardinality(Unhandled') <= Cardinality(Unhandled)
      BY <1>1, FadedUnhandled, UnhandledShrinks
    <3>3. \A a \in Attempts : request'[a].stage = "reply" => request'[a] = request[a]
      BY <1>1, FadedUnhandled
    <3>4. UNCHANGED <<job, Call, Mutating(Call.path), outcome, phase, attempt, unclear>>
      BY <2>1 DEF Call, Mutating
    <3>5. applied + Cardinality(Unhandled) <= unclear + Allowance =>
             applied' + Cardinality(Unhandled') <= unclear' + Allowance'
      BY <1>2, <3>1, <3>2, <3>4 DEF GatewayInv, GatewayTypes
    <3> QED
      BY <1>2, <3>3, <3>4, <3>5 DEF GatewayInv, ChangesInv
  <2> QED
    BY <1>3, <1>4, <2>2, <2>3, <2>4 DEF GatewayInv
<1> QED
  BY <1>5, <1>6

(* An answer reaches the client that waits for it, or is lost, or comes too *)
(* late.                                                                   *)
LEMMA DeliverKeeps ==
  ASSUME GatewayInv, NEW a \in Attempts, Deliver(a)
  PROVE  GatewayInv'
<1>1. /\ request[a] \in Request /\ request[a].stage = "reply"
      /\ request' = [request EXCEPT ![a].stage = "gone"]
      /\ UNCHANGED <<count, admitted, cached, inserting, raced, applied, uncached>>
  BY DEF Deliver, Gone, GatewayInv, GatewayTypes
<1>2. Faded
  <2>1. request' \in [Attempts -> Request]
    BY <1>1 DEF GatewayInv, GatewayTypes, Request, Stage
  <2>2. \A b \in Attempts : b # a => request'[b] = request[b]
    BY <1>1 DEF GatewayInv, GatewayTypes
  <2>3. request'[a].stage = "gone"
    BY <1>1 DEF GatewayInv, GatewayTypes, Request
  <2> QED
    BY <1>1, <2>1, <2>2, <2>3 DEF Faded
<1>3. WindowInv'
  BY <1>1 DEF GatewayInv, WindowInv
<1>4. CASE /\ a = attempt /\ phase = "waiting"
           /\ \/ request[a].answer # "ok" /\ Fail(request[a].answer)
              \/ Fail("lost")
  <2> PICK answer : /\ answer # "ok" /\ Fail(answer)
                    /\ answer \notin {"lost", "failed", "ok"} => answer = request[a].answer
    BY <1>4
  <2>1. JobInv' /\ ChangesInv' /\ unclear' \in Nat
    BY <1>1, <1>2, <1>4, FailKeeps
  <2>2. UNCHANGED <<config, standing, job, attempt, late>>
    BY DEF Fail
  <2>3. KeyInv' /\ PrivilegeInv'
    BY <1>1, <1>2, <2>2, FadedKeeps
  <2>4. phase' \in {"backoff", "ended"} /\ outcome' \in {outcome, "failed"}
    BY DEF Fail
  <2>5. GatewayTypes'
    BY <1>1, <1>2, <2>1, <2>2, <2>4 DEF Faded, GatewayInv, GatewayTypes
  <2> QED
    BY <1>3, <2>1, <2>3, <2>5 DEF GatewayInv
<1>5. CASE a = attempt /\ phase = "waiting" /\ request[a].answer = "ok" /\ Succeed
  <2>1. /\ UNCHANGED <<job, attempt, late, unclear>> /\ job.calls # <<>>
        /\ config' = Saved /\ standing' = Became /\ outcome = "none"
        /\ \/ job.polls /\ Len(job.calls) = 1 /\ phase' = "polling" /\ outcome' = outcome
           \/ Len(job.calls) = 1 /\ phase' = "ended" /\ outcome' = "done"
           \/ Len(job.calls) > 1 /\ phase' = "next" /\ outcome' = outcome
    BY <1>5 DEF Succeed, GatewayInv, JobInv
  <2>2. Saved \in [token : BOOLEAN, org : BOOLEAN]
    BY DEF Saved, GatewayInv, GatewayTypes
  <2>3. /\ Became \in [role : Everyone \cup {"none"}, granted : BOOLEAN,
                       suspended : BOOLEAN]
        /\ Became = standing \/ Became.role = "owner"
    BY DEF Became, Everyone, GatewayInv, GatewayTypes
  <2>4. KeyInv' /\ PrivilegeInv'
    BY <1>1, <1>2, <2>1, <2>3, FadedKeeps
  <2>5. GatewayTypes'
    BY <1>1, <1>2, <2>1, <2>2, <2>3 DEF Faded, GatewayInv, GatewayTypes
  <2>6. JobInv'
    <3>1. \A b \in Attempts : b > attempt => request'[b].stage = "none"
      BY <1>2 DEF Faded, GatewayInv, JobInv
    <3>2. Len(job.calls) <= 2 /\ Len(job.calls) \in Nat
      BY DEF GatewayInv, JobInv, GatewayTypes
    <3>3. /\ phase' \in {"polling", "ended", "next"}
          /\ outcome' # "none" <=> phase' = "ended"
      BY <2>1
    <3>4. phase' = "polling" => job.polls /\ Len(job.calls) = 1
      BY <2>1
    <3>5. phase' = "next" => Len(job.calls) = 2
      <4>1. phase' = "next" => Len(job.calls) > 1
        BY <2>1
      <4>2. \A n \in Nat : n > 1 /\ n <= 2 => n = 2
        OBVIOUS
      <4> QED
        BY <3>2, <4>1, <4>2, Zenon
    <3>6. job.polls => /\ job.client = "sdk" /\ job.calls # <<>>
                       /\ ~Mutating(job.calls[Len(job.calls)].path)
      BY DEF GatewayInv, JobInv
    <3>7. job' = job /\ attempt' = attempt /\ job.calls # <<>>
      BY <2>1
    <3> QED
      BY <3>1, <3>2, <3>3, <3>4, <3>5, <3>6, <3>7 DEF JobInv
  <2>7. ChangesInv'
    <3>1. Allowance' = 1 /\ Allowance = 1
      BY <1>5, <2>1 DEF Allowance
    <3>2. /\ Cardinality(Unhandled) \in Nat /\ Cardinality(Unhandled') \in Nat
          /\ Cardinality(Unhandled') <= Cardinality(Unhandled)
      BY <1>2, FadedUnhandled, UnhandledShrinks
    <3>3. \A b \in Attempts : request'[b].stage = "reply" => request'[b] = request[b]
      BY <1>2, FadedUnhandled
    <3>4. UNCHANGED <<job, Call, Mutating(Call.path), attempt, unclear>>
      BY <2>1 DEF Call, Mutating
    <3>5. applied + Cardinality(Unhandled) <= unclear + Allowance =>
             applied' + Cardinality(Unhandled') <= unclear' + Allowance'
      BY <1>1, <3>1, <3>2, <3>4 DEF GatewayInv, GatewayTypes
    <3>6. unclear <= attempt /\ unclear <= attempt - 1
      BY <1>5 DEF GatewayInv, ChangesInv
    <3>7. Mutating(Call.path) => applied >= 1
      BY <1>1, <1>5, <2>1 DEF GatewayInv, ChangesInv
    <3> QED
      BY <1>1, <2>1, <3>3, <3>4, <3>5, <3>6, <3>7 DEF GatewayInv, ChangesInv
  <2> QED
    BY <1>3, <2>4, <2>5, <2>6, <2>7 DEF GatewayInv
<1>6. CASE ~(a = attempt /\ phase = "waiting")
  <2>1. UNCHANGED <<clientVars, unclear>>
    BY <1>6 DEF Deliver
  <2> USE DEF clientVars
  <2>2. GatewayTypes'
    BY <1>1, <1>2, <2>1 DEF Faded, GatewayInv, GatewayTypes
  <2>3. JobInv'
    <3>1. \A b \in Attempts : b > attempt => request'[b].stage = "none"
      BY <1>2 DEF Faded, GatewayInv, JobInv
    <3>2. Drained => Drained'
      BY <1>1, <1>2 DEF Drained, Live, Faded
    <3> QED
      BY <1>1, <2>1, <3>1, <3>2 DEF GatewayInv, JobInv
  <2>4. KeyInv' /\ PrivilegeInv'
    BY <1>1, <1>2, <2>1, FadedKeeps
  <2>5. ChangesInv'
    <3>1. Allowance' = Allowance /\ Allowance \in {0, 1}
      BY <1>1, <1>6, <2>1 DEF Allowance, GatewayInv, GatewayTypes
    <3>2. /\ Cardinality(Unhandled) \in Nat /\ Cardinality(Unhandled') \in Nat
          /\ Cardinality(Unhandled') <= Cardinality(Unhandled)
      BY <1>2, FadedUnhandled, UnhandledShrinks
    <3>3. \A b \in Attempts : request'[b].stage = "reply" => request'[b] = request[b]
      BY <1>2, FadedUnhandled
    <3>4. UNCHANGED <<job, Call, Mutating(Call.path), outcome, phase, attempt, unclear>>
      BY <2>1 DEF Call, Mutating
    <3>5. applied + Cardinality(Unhandled) <= unclear + Allowance =>
             applied' + Cardinality(Unhandled') <= unclear' + Allowance'
      BY <1>1, <3>1, <3>2, <3>4 DEF GatewayInv, GatewayTypes
    <3> QED
      BY <1>1, <3>3, <3>4, <3>5 DEF GatewayInv, ChangesInv
  <2> QED
    BY <1>3, <2>2, <2>3, <2>4, <2>5 DEF GatewayInv
<1> QED
  BY <1>4, <1>5, <1>6 DEF Deliver

-----------------------------------------------------------------------------
(* The server's steps.                                                     *)

(* A request that moves belongs to a call of the tables.                   *)
LEMMA LiveCall ==
  ASSUME GatewayInv, NEW a \in Attempts, Live(a)
  PROVE  /\ job.calls # <<>> /\ Call \in CallType /\ Call.path \in Asked
         /\ request[a] \in Request /\ a <= attempt
         /\ phase # "idle"
<1>1. job.calls # <<>>
  BY DEF GatewayInv, JobInv, Drained
<1>2. Call \in CallType
  BY <1>1 DEF GatewayInv, GatewayTypes, Call
<1> QED
  BY <1>1, <1>2 DEF GatewayInv, GatewayTypes, JobInv, Live, CallType, Attempts

(* One request moves on, or is answered, and its handler's change counts    *)
(* only with an answer that may stand for one.                             *)
LEMMA MoveKeeps ==
  ASSUME GatewayInv, NEW a \in Unhandled, NEW r \in Request,
         request' = [request EXCEPT ![a] = r],
         r.stage \in {"limit", "org", "handler", "reply"},
         UNCHANGED <<clientVars, unclear, cached>>, inserting' \subseteq Attempts,
         \/ applied' = applied
         \/ /\ applied' = applied + 1 /\ Mutating(Call.path)
            /\ r.stage = "reply" /\ r.answer \in {"ok", "failed"},
         \/ inserting' \subseteq inserting
         \/ r.stage = "reply" /\ r.answer = "ok",
         r.stage = "reply" /\ r.answer = "ok" /\ Mutating(Call.path) => applied' >= 1
  PROVE  /\ JobInv' /\ ChangesInv'
         /\ request' \in [Attempts -> Request] /\ applied' \in Nat
<1> USE DEF clientVars
<1>1. a \in Attempts /\ request[a].stage \in {"lookup", "limit", "org", "handler"}
  BY DEF Unhandled
<1>2. job.calls # <<>> /\ phase # "idle" /\ a <= attempt
  BY <1>1, LiveCall DEF Live
<1>3. /\ request' \in [Attempts -> Request] /\ request'[a] = r
      /\ \A b \in Attempts : b # a => request'[b] = request[b]
  BY <1>1 DEF GatewayInv, GatewayTypes
<1>4. applied \in Nat /\ applied' \in Nat /\ applied <= applied'
  BY DEF GatewayInv, GatewayTypes
<1>5. JobInv'
  <2>1. attempt \in Nat /\ a \in Nat
    BY <1>1, GatewayAssumption DEF GatewayInv, GatewayTypes, Attempts
  <2>2. \A b \in Attempts : b > attempt => request'[b].stage = "none"
    BY <1>2, <1>3, <2>1 DEF GatewayInv, JobInv
  <2> QED
    BY <1>2, <2>2 DEF GatewayInv, JobInv
<1>6. ChangesInv'
  <2>1. UNCHANGED <<job, Call, Mutating(Call.path), outcome, phase, attempt, unclear>>
    BY DEF Call, Mutating
  <2>2. /\ unclear <= attempt
        /\ phase \in {"waiting", "next", "polling"} \/ outcome = "done" =>
              unclear <= attempt - 1
    BY DEF GatewayInv, ChangesInv
  <2>3. CASE ~Mutating(Call.path)
    <3>1. applied' = 0
      BY <1>2, <2>3 DEF GatewayInv, ChangesInv
    <3> QED
      BY <2>1, <2>2, <2>3, <3>1 DEF ChangesInv
  <2>4. CASE Mutating(Call.path)
    <3>1. Unhandled' \subseteq Unhandled
      BY <1>1, <1>3 DEF Unhandled
    <3>2. /\ Cardinality(Unhandled) \in Nat /\ Cardinality(Unhandled') \in Nat
          /\ Cardinality(Unhandled') <= Cardinality(Unhandled)
          /\ a \notin Unhandled' => Cardinality(Unhandled') + 1 <= Cardinality(Unhandled)
      BY <3>1, UnhandledShrinks
    <3>3. r.stage = "reply" => a \notin Unhandled'
      BY <1>3 DEF Unhandled
    <3>4. Allowance \in {0, 1} /\ Allowance' \in {0, 1}
      BY DEF Allowance
    <3>5. \/ Allowance' = Allowance
          \/ r.stage = "reply" /\ r.answer \notin {"ok", "failed"}
      BY <1>1, <1>3, <2>1 DEF Allowance
    <3>6. applied + Cardinality(Unhandled) <= unclear + Allowance
      BY <1>2, <2>4 DEF GatewayInv, ChangesInv
    <3>7. unclear \in Nat
      BY DEF GatewayInv, GatewayTypes
    <3>8. applied' + Cardinality(Unhandled') <= unclear' + Allowance'
      <4>1. CASE r.stage # "reply"
        BY <1>4, <2>1, <3>2, <3>4, <3>5, <3>6, <3>7, <4>1
      <4>2. CASE r.stage = "reply" /\ r.answer \notin {"ok", "failed"}
        BY <1>4, <2>1, <3>2, <3>3, <3>4, <3>6, <3>7, <4>2
      <4>3. CASE r.stage = "reply" /\ r.answer \in {"ok", "failed"}
        BY <1>4, <2>1, <3>2, <3>3, <3>4, <3>5, <3>6, <3>7, <4>3
      <4> QED
        BY <4>1, <4>2, <4>3
    <3>9. outcome = "done" \/ cached' \/ inserting' # {} => applied' >= 1
      <4>1. outcome = "done" \/ cached \/ inserting # {} => applied >= 1
        BY <1>2, <2>4 DEF GatewayInv, ChangesInv
      <4>2. cached' = cached
        OBVIOUS
      <4> QED
        BY <1>4, <2>4, <4>1, <4>2
    <3>10. \A b \in Attempts :
              request'[b].stage = "reply" /\ request'[b].answer = "ok" => applied' >= 1
      <4>1. \A b \in Attempts :
               request[b].stage = "reply" /\ request[b].answer = "ok" => applied >= 1
        BY <1>2, <2>4 DEF GatewayInv, ChangesInv
      <4> QED
        BY <1>3, <1>4, <2>4, <4>1
    <3> QED
      BY <2>1, <2>2, <2>4, <3>8, <3>9, <3>10 DEF ChangesInv
  <2> QED
    BY <2>3, <2>4
<1> QED
  BY <1>3, <1>4, <1>5, <1>6

LEMMA ProceedMoves ==
  ASSUME GatewayInv, NEW a \in Attempts, NEW stage \in Stage, Proceed(a, stage)
  PROVE  \E r \in Request : r.stage = stage /\ request' = [request EXCEPT ![a] = r]
<1> DEFINE r == [stage |-> stage, answer |-> request[a].answer]
<1>1. request[a] \in Request
  BY DEF GatewayInv, GatewayTypes
<1>2. r \in Request /\ r.stage = stage
  BY <1>1 DEF Request
<1>3. [request[a] EXCEPT !.stage = stage] = r
  BY <1>1 DEF Request
<1>4. request' = [request EXCEPT ![a] = r]
  BY <1>3 DEF Proceed
<1> QED
  BY <1>2, <1>4

LEMMA AnswerMoves ==
  ASSUME NEW a \in Attempts, NEW answer \in AnswerOf, Answer(a, answer)
  PROVE  \E r \in Request : /\ r.stage = "reply" /\ r.answer = answer
                            /\ request' = [request EXCEPT ![a] = r]
  BY DEF Answer, Request, Stage

(* Where a request moves to, the others stay.                              *)
LEMMA Moved ==
  ASSUME GatewayInv, NEW a \in Attempts, NEW r \in Request,
         request' = [request EXCEPT ![a] = r]
  PROVE  request'[a] = r /\ \A b \in Attempts : b # a => request'[b] = request[b]
  BY DEF GatewayInv, GatewayTypes

(* The types and the window do not depend on which request moves.          *)
LEMMA TypesKept ==
  ASSUME GatewayInv, UNCHANGED <<clientVars, unclear, cached>>,
         request' \in [Attempts -> Request], applied' \in Nat,
         inserting' \subseteq Attempts, raced' \in BOOLEAN, uncached' \in BOOLEAN
  PROVE  GatewayTypes'
  BY DEF GatewayInv, GatewayTypes, clientVars

(* A second request that misses the lookup is an overlap.                  *)
LEMMA LookupKeeps ==
  ASSUME GatewayInv, NEW a \in Attempts, Lookup(a)
  PROVE  GatewayInv'
<1>1. a \in Unhandled /\ request[a].stage = "lookup" /\ Live(a)
  BY DEF Lookup, Unhandled, Live
<1>2. PICK r \in Request :
         /\ request' = [request EXCEPT ![a] = r]
         /\ \/ cached /\ r.stage = "reply" /\ r.answer = "ok"
            \/ ~cached /\ r.stage = "limit"
  BY ProceedMoves, AnswerMoves DEF Lookup, Stage, AnswerOf
<1>3. /\ UNCHANGED <<count, admitted, cached, inserting, clientVars, ghosts>>
      /\ raced' = (raced \/ (~cached /\ (inserting # {} \/ \E b \in Attempts \ {a} :
                      Live(b) /\ request[b].stage # "lookup")))
  BY DEF Lookup
<1> USE DEF ghosts
<1>4. job.calls # <<>>
  BY <1>1, LiveCall
<1>5. cached /\ Mutating(Call.path) => applied >= 1
  BY <1>4 DEF GatewayInv, ChangesInv
<1>6. JobInv' /\ ChangesInv' /\ request' \in [Attempts -> Request] /\ applied' \in Nat
  <2>1. inserting' \subseteq Attempts /\ inserting' \subseteq inserting
    BY <1>3 DEF GatewayInv, GatewayTypes
  <2>2. r.stage = "reply" /\ r.answer = "ok" /\ Mutating(Call.path) => applied' >= 1
    BY <1>2, <1>3, <1>5
  <2>3. r.stage \in {"limit", "org", "handler", "reply"}
    BY <1>2
  <2>4. applied' = applied /\ UNCHANGED <<clientVars, unclear, cached>>
    BY <1>3
  <2> QED
    BY <1>1, <1>2, <2>1, <2>2, <2>3, <2>4, MoveKeeps
<1>7. GatewayTypes'
  <2>1. raced' \in BOOLEAN /\ uncached' \in BOOLEAN /\ inserting' \subseteq Attempts
    BY <1>3 DEF GatewayInv, GatewayTypes
  <2> QED
    BY <1>3, <1>6, <2>1, TypesKept
<1>8. WindowInv'
  BY <1>3 DEF GatewayInv, WindowInv
<1>9. request'[a] = r /\ \A b \in Attempts : b # a => request'[b] = request[b]
  BY <1>2, Moved
<1>10. KeyInv'
  <2> SUFFICES ASSUME job.client = "keyed", ~raced'
               PROVE  /\ \A b, c \in Attempts : Past(b)' /\ Past(c)' => b = c
                      /\ applied >= 1 /\ ~uncached =>
                            /\ applied = 1
                            /\ cached \/ inserting # {}
                            /\ \A b \in Attempts : ~Past(b)'
    BY <1>3 DEF KeyInv, clientVars
  <2>1. ~raced
    BY <1>3
  <2>2. /\ \A b, c \in Attempts : Past(b) /\ Past(c) => b = c
        /\ applied >= 1 /\ ~uncached =>
              /\ applied = 1
              /\ cached \/ inserting # {}
              /\ \A b \in Attempts : ~Past(b)
    BY <2>1 DEF GatewayInv, KeyInv
  <2>3. CASE cached
    <3>1. \A b \in Attempts : Past(b)' => Past(b)
      BY <1>2, <1>9, <2>3 DEF Past
    <3> QED
      BY <2>2, <3>1
  <2>4. CASE ~cached
    <3>1. inserting = {} /\ \A b \in Attempts : b # a => ~Past(b)
      BY <1>3, <2>4 DEF Past, Live
    <3>2. \A b \in Attempts : b # a => ~Past(b)'
      BY <1>9, <3>1 DEF Past
    <3> QED
      BY <2>2, <2>4, <3>1, <3>2
  <2> QED
    BY <2>3, <2>4
<1>11. PrivilegeInv'
  <2>1. /\ UNCHANGED <<job, Call, Mutating(Call.path), RowGuarded(Call.path), applied>>
        /\ Entitled' = Entitled
    BY <1>3 DEF Call, Mutating, Entitled, RowGuarded, Routed, clientVars
  <2>2. \A b \in Attempts : request'[b].stage \in {"handler", "org"} =>
           request'[b].stage = request[b].stage
    BY <1>2, <1>9
  <2> QED
    BY <2>1, <2>2 DEF GatewayInv, PrivilegeInv
<1> QED
  BY <1>6, <1>7, <1>8, <1>10, <1>11 DEF GatewayInv

(* The row of a 2xx answer is inserted, or is known not to be.              *)
LEMMA InsertRowKeeps ==
  ASSUME GatewayInv, NEW a \in Attempts, InsertRow(a)
  PROVE  GatewayInv'
<1> USE DEF InsertRow, clientVars
<1>1. GatewayTypes'
  <2>1. request' \in [Attempts -> Request] /\ applied' \in Nat
    BY DEF GatewayInv, GatewayTypes
  <2>2. cached' \in BOOLEAN /\ raced' \in BOOLEAN /\ uncached' \in BOOLEAN
    BY DEF GatewayInv, GatewayTypes
  <2>3. inserting' \subseteq Attempts
    BY DEF GatewayInv, GatewayTypes
  <2> QED
    BY <2>1, <2>2, <2>3 DEF GatewayInv, GatewayTypes
<1>2. WindowInv'
  BY DEF GatewayInv, WindowInv
<1>3. job.calls # <<>>
  BY DEF GatewayInv, JobInv, Drained
<1>4. JobInv'
  BY <1>3 DEF GatewayInv, JobInv
<1>5. ChangesInv'
  BY <1>3 DEF GatewayInv, ChangesInv, Unhandled, Allowance, Call, Mutating
<1>6. KeyInv'
  BY DEF GatewayInv, KeyInv, Past
<1>7. PrivilegeInv'
  BY DEF GatewayInv, PrivilegeInv, Entitled, Call, Mutating, RowGuarded, Routed
<1> QED
  BY <1>1, <1>2, <1>4, <1>5, <1>6, <1>7 DEF GatewayInv

-----------------------------------------------------------------------------
(* The guards.                                                             *)

(* Whoever passes the guards that read no row may change what anybody may,  *)
(* or goes on to the guards that read one.                                 *)
LEMMA GateFacts ==
  ASSUME NEW path \in Asked
  PROVE  /\ Gate(path) \in {"unauthorized", "refused", "handler", "org"}
         /\ Gate(path) = "handler" /\ Mutating(path) =>
               /\ path \in AskForNothing
               /\ \A r \in Routed(path) : ~OrgFromPath(r)
         /\ Gate(path) = "org" => RowGuarded(path)
<1>1. CASE Routed(path) = {}
  BY <1>1 DEF Gate
<1>2. CASE Routed(path) # {}
  <2> PICK route \in Routed(path) : Routed(path) = {route}
    BY <1>2, RoutesAssumption
  <2>1. (CHOOSE r \in Routed(path) : TRUE) = route
    OBVIOUS
  <2>2. Gate(path) = IF route.guard = "open" THEN "handler"
                     ELSE IF route.guard = "admin" \/ ~config.token THEN "unauthorized"
                     ELSE IF route.guard = "user" THEN "handler" ELSE "org"
    BY <1>2, <2>1 DEF Gate
  <2>3. Mutating(path) /\ route.guard \in {"open", "user"} =>
           path \in AskForNothing /\ ~OrgFromPath(route)
    BY RoutesAssumption
  <2>4. CASE route.guard = "open"
    <3>1. Gate(path) = "handler"
      BY <2>2, <2>4
    <3> QED
      BY <2>3, <2>4, <3>1
  <2>5. CASE route.guard # "open" /\ (route.guard = "admin" \/ ~config.token)
    <3>1. Gate(path) = "unauthorized"
      BY <2>2, <2>5
    <3> QED
      BY <3>1
  <2>6. CASE route.guard = "user" /\ config.token
    <3>1. Gate(path) = "handler"
      BY <2>2, <2>6
    <3> QED
      BY <2>3, <2>6, <3>1
  <2>7. CASE route.guard \notin {"open", "user", "admin"} /\ config.token
    <3>1. Gate(path) = "org"
      BY <2>2, <2>7
    <3>2. RowGuarded(path)
      BY <2>7 DEF RowGuarded
    <3> QED
      BY <3>1, <3>2
  <2> QED
    BY <2>4, <2>5, <2>6, <2>7
<1> QED
  BY <1>1, <1>2

(* Whoever passes the guards that read rows is entitled to the change.      *)
LEMMA AuthorizationFacts ==
  ASSUME GatewayInv, Call.path \in Asked, Mutating(Call.path),
         NEW route \in Routed(Call.path), NEW header,
         route.guard \notin {"open", "user", "admin"},
         Authorization(route, header) = "handler"
  PROVE  Entitled
<1>1. /\ Routed(Call.path) = {route}
      /\ \/ Call.path \in AskForNothing
         \/ OrgFromPath(route) /\ route.path[2] # "orgs"
         \/ RolesOf(route.guard) \subseteq Everyone \ {"viewer"}
  BY RoutesAssumption
<1>2. /\ OrgFromPath(route) => route.path[2] = "orgs"
      /\ Privileged(route.guard)
  BY DEF Authorization
<1>3. standing.role \in RolesOf(route.guard) \/ standing.granted
  BY <1>2 DEF Privileged
<1> QED
  BY <1>1, <1>2, <1>3 DEF Entitled

(* A request past the lookup moves on or is answered, with no change made.  *)
LEMMA PassOnKeeps ==
  ASSUME GatewayInv, NEW a \in Attempts, Past(a), NEW r \in Request,
         request' = [request EXCEPT ![a] = r],
         r.stage \in {"org", "handler"} \/ (r.stage = "reply" /\ r.answer # "ok"),
         UNCHANGED <<cached, inserting, raced, clientVars, ghosts>>,
         Mutating(Call.path) /\ r.stage = "handler" => Entitled,
         Mutating(Call.path) /\ r.stage = "org" => RowGuarded(Call.path)
  PROVE  GatewayTypes' /\ JobInv' /\ ChangesInv' /\ KeyInv' /\ PrivilegeInv'
<1> USE DEF ghosts
<1>1. a \in Unhandled
  BY DEF Past, Unhandled
<1>2. JobInv' /\ ChangesInv' /\ request' \in [Attempts -> Request] /\ applied' \in Nat
  <2>1. inserting' \subseteq Attempts /\ inserting' \subseteq inserting
    BY DEF GatewayInv, GatewayTypes
  <2>2. r.stage = "reply" => r.answer # "ok"
    OBVIOUS
  <2>3. r.stage \in {"limit", "org", "handler", "reply"}
    OBVIOUS
  <2>4. applied' = applied /\ UNCHANGED <<clientVars, unclear, cached>>
    OBVIOUS
  <2> QED
    BY <1>1, <2>1, <2>2, <2>3, <2>4, MoveKeeps
<1>3. GatewayTypes'
  <2>1. raced' \in BOOLEAN /\ uncached' \in BOOLEAN /\ inserting' \subseteq Attempts
    BY DEF GatewayInv, GatewayTypes
  <2> QED
    BY <1>2, <2>1, TypesKept
<1>4. request'[a] = r /\ \A b \in Attempts : b # a => request'[b] = request[b]
  BY Moved
<1>5. KeyInv'
  <2>1. \A b \in Attempts : Past(b)' => Past(b)
    BY <1>4 DEF Past
  <2>2. UNCHANGED <<job, raced, uncached, cached, inserting, applied>>
    BY DEF clientVars
  <2> QED
    BY <2>1, <2>2 DEF GatewayInv, KeyInv
<1>6. PrivilegeInv'
  <2>1. /\ UNCHANGED <<job, Call, Mutating(Call.path), RowGuarded(Call.path), applied>>
        /\ Entitled' = Entitled
    BY DEF Call, Mutating, Entitled, RowGuarded, Routed, clientVars
  <2>2. ASSUME job.calls # <<>>, Mutating(Call.path), NEW b \in Attempts
        PROVE  /\ request'[b].stage = "handler" => Entitled
               /\ request'[b].stage = "org" => RowGuarded(Call.path)
    <3>1. CASE b = a
      BY <1>4, <2>2, <3>1
    <3>2. CASE b # a
      BY <1>4, <2>2, <3>2 DEF GatewayInv, PrivilegeInv
    <3> QED
      BY <3>1, <3>2
  <2> QED
    BY <2>1, <2>2 DEF GatewayInv, PrivilegeInv
<1> QED
  BY <1>2, <1>3, <1>5, <1>6

(* The limiters count every request and let through what the window holds.  *)
LEMMA AdmitKeeps ==
  ASSUME GatewayInv, NEW a \in Attempts, Admit(a)
  PROVE  GatewayInv'
<1>1. /\ request[a].stage = "limit" /\ Past(a) /\ Live(a)
      /\ UNCHANGED <<cached, inserting, raced, clientVars, ghosts>>
  BY DEF Admit, Past, Live
<1>2. Call.path \in Asked
  BY <1>1, LiveCall
<1>3. WindowInv'
  <2>1. /\ count' = Counted(count)
        /\ admitted' = IF Refused(count) THEN admitted ELSE admitted + 1
    BY DEF Admit
  <2>2. CASE Passes = 1
    BY <2>1, <2>2, GatewayAssumption DEF GatewayInv, WindowInv, Counted, Refused
  <2>3. CASE Passes = 2
    BY <2>1, <2>3, GatewayAssumption DEF GatewayInv, WindowInv, Counted, Refused
  <2> QED
    BY <2>2, <2>3, GatewayAssumption
<1>4. \/ \E answer \in {"limited", "unauthorized", "refused"} : Answer(a, answer)
      \/ /\ Gate(Call.path) \in {"handler", "org"}
         /\ Proceed(a, Gate(Call.path))
  BY <1>2, GateFacts DEF Admit
<1>5. PICK r \in Request :
         /\ request' = [request EXCEPT ![a] = r]
         /\ \/ r.stage = "reply" /\ r.answer # "ok"
            \/ r.stage \in {"handler", "org"} /\ r.stage = Gate(Call.path)
  <2>1. CASE \E answer \in {"limited", "unauthorized", "refused"} : Answer(a, answer)
    BY <2>1, AnswerMoves DEF AnswerOf
  <2>2. CASE Gate(Call.path) \in {"handler", "org"} /\ Proceed(a, Gate(Call.path))
    BY <2>2, ProceedMoves DEF Stage
  <2> QED
    BY <1>4, <2>1, <2>2
<1>6. Mutating(Call.path) /\ r.stage = "handler" => Entitled
  BY <1>2, <1>5, GateFacts DEF Entitled
<1>7. Mutating(Call.path) /\ r.stage = "org" => RowGuarded(Call.path)
  BY <1>2, <1>5, GateFacts
<1>8. r.stage \in {"org", "handler"} \/ (r.stage = "reply" /\ r.answer # "ok")
  BY <1>5
<1>9. GatewayTypes' /\ JobInv' /\ ChangesInv' /\ KeyInv' /\ PrivilegeInv'
  BY <1>1, <1>5, <1>6, <1>7, <1>8, PassOnKeeps
<1> QED
  BY <1>3, <1>9 DEF GatewayInv

LEMMA AuthorizeKeeps ==
  ASSUME GatewayInv, NEW a \in Attempts, Authorize(a)
  PROVE  GatewayInv'
<1> DEFINE route == CHOOSE r \in Routed(Call.path) : TRUE
           verdict == Authorization(route, Call.org)
<1>1. /\ request[a].stage = "org" /\ Past(a) /\ Live(a)
      /\ UNCHANGED <<count, admitted, cached, inserting, raced, clientVars, ghosts>>
      /\ IF verdict = "handler" THEN Proceed(a, verdict) ELSE Answer(a, verdict)
  BY DEF Authorize, Past, Live
<1>2. Call.path \in Asked /\ job.calls # <<>>
  BY <1>1, LiveCall
<1>3. verdict \in {"handler", "refused", "bad"}
  BY DEF Authorization
<1>4. verdict = "handler" /\ Mutating(Call.path) => Entitled
  <2> SUFFICES ASSUME verdict = "handler", Mutating(Call.path) PROVE Entitled
    OBVIOUS
  <2>1. RowGuarded(Call.path)
    BY <1>1, <1>2 DEF GatewayInv, PrivilegeInv
  <2>2. route \in Routed(Call.path)
    BY <2>1 DEF RowGuarded
  <2>3. route.guard \notin {"open", "user", "admin"}
    BY <2>1, <2>2 DEF RowGuarded
  <2> HIDE DEF route
  <2> QED
    BY <1>2, <2>2, <2>3, AuthorizationFacts
<1> HIDE DEF verdict
<1>5. PICK r \in Request :
         /\ request' = [request EXCEPT ![a] = r]
         /\ \/ r.stage = "reply" /\ r.answer # "ok"
            \/ r.stage = "handler" /\ verdict = "handler"
  BY <1>1, <1>3, AnswerMoves, ProceedMoves DEF AnswerOf, Stage
<1>6. Mutating(Call.path) /\ r.stage = "handler" => Entitled
  BY <1>4, <1>5
<1>7. r.stage \in {"org", "handler"} \/ (r.stage = "reply" /\ r.answer # "ok")
  BY <1>5
<1>8. r.stage # "org"
  BY <1>5
<1>9. GatewayTypes' /\ JobInv' /\ ChangesInv' /\ KeyInv' /\ PrivilegeInv'
  BY <1>1, <1>5, <1>6, <1>7, <1>8, PassOnKeeps
<1>10. WindowInv'
  BY <1>1 DEF GatewayInv, WindowInv
<1> QED
  BY <1>9, <1>10 DEF GatewayInv

(* The handler makes its change at most once and answers what it did, or    *)
(* fails without telling.                                                  *)
LEMMA HandleKeeps ==
  ASSUME GatewayInv, NEW a \in Attempts, Handle(a)
  PROVE  GatewayInv'
<1> PICK answer \in {"ok", "bad", "refused", "failed"}, changed \in BOOLEAN :
       /\ changed => Mutating(Call.path) /\ answer \in {"ok", "failed"}
       /\ answer = "ok" /\ Mutating(Call.path) => changed
       /\ Answer(a, answer)
       /\ applied' = IF changed THEN applied + 1 ELSE applied
       /\ inserting' = IF job.client = "keyed" /\ answer = "ok"
                       THEN inserting \cup {a} ELSE inserting
       /\ uncached' = (uncached \/ (changed /\ answer = "failed"))
  BY DEF Handle
<1>1. /\ request[a].stage = "handler" /\ Past(a) /\ Live(a) /\ a \in Unhandled
      /\ UNCHANGED <<count, admitted, cached, raced, clientVars, unclear>>
  BY DEF Handle, Past, Live, Unhandled
<1>2. job.calls # <<>> /\ applied \in Nat
  BY <1>1, LiveCall DEF GatewayInv, GatewayTypes
<1>3. PICK r \in Request : /\ r.stage = "reply" /\ r.answer = answer
                           /\ request' = [request EXCEPT ![a] = r]
  BY AnswerMoves DEF AnswerOf
<1>4. request'[a] = r /\ \A b \in Attempts : b # a => request'[b] = request[b]
  BY <1>3, Moved
<1>5. JobInv' /\ ChangesInv' /\ request' \in [Attempts -> Request] /\ applied' \in Nat
  <2>1. inserting' \subseteq Attempts
    BY DEF GatewayInv, GatewayTypes
  <2>2. inserting' \subseteq inserting \/ (r.stage = "reply" /\ r.answer = "ok")
    BY <1>3
  <2>3. \/ applied' = applied
        \/ /\ applied' = applied + 1 /\ Mutating(Call.path)
           /\ r.stage = "reply" /\ r.answer \in {"ok", "failed"}
    BY <1>3
  <2>4. r.stage = "reply" /\ r.answer = "ok" /\ Mutating(Call.path) => applied' >= 1
    BY <1>2, <1>3
  <2>5. r.stage \in {"limit", "org", "handler", "reply"}
    BY <1>3
  <2>6. UNCHANGED <<clientVars, unclear, cached>>
    BY <1>1
  <2> QED
    BY <1>1, <1>3, <2>1, <2>2, <2>3, <2>4, <2>5, <2>6, MoveKeeps
<1>6. GatewayTypes'
  <2>1. raced' \in BOOLEAN /\ uncached' \in BOOLEAN /\ inserting' \subseteq Attempts
    BY <1>1 DEF GatewayInv, GatewayTypes
  <2> QED
    BY <1>1, <1>5, <2>1, TypesKept
<1>7. WindowInv'
  BY <1>1 DEF GatewayInv, WindowInv
<1>8. KeyInv'
  <2> SUFFICES ASSUME job.client = "keyed", ~raced
               PROVE  /\ \A b, c \in Attempts : Past(b)' /\ Past(c)' => b = c
                      /\ applied' >= 1 /\ ~uncached' =>
                            /\ applied' = 1
                            /\ cached \/ inserting' # {}
                            /\ \A b \in Attempts : ~Past(b)'
    BY <1>1 DEF KeyInv, clientVars
  <2>1. /\ \A b, c \in Attempts : Past(b) /\ Past(c) => b = c
        /\ applied >= 1 /\ ~uncached => \A b \in Attempts : ~Past(b)
    BY DEF GatewayInv, KeyInv
  <2>2. \A b \in Attempts : ~Past(b)'
    <3>1. ~Past(a)'
      BY <1>3, <1>4 DEF Past
    <3>2. \A b \in Attempts : b # a => ~Past(b)
      BY <1>1, <2>1
    <3>3. \A b \in Attempts : b # a => ~Past(b)'
      BY <1>4, <3>2 DEF Past
    <3> QED
      BY <3>1, <3>3
  <2>3. ASSUME applied' >= 1, ~uncached'
        PROVE  applied' = 1 /\ (cached \/ inserting' # {})
    <3>1. ~uncached /\ (changed => answer = "ok")
      BY <2>3
    <3>2. applied = 0
      BY <1>1, <1>2, <2>1, <3>1
    <3>3. changed /\ applied' = 1
      BY <2>3, <3>2
    <3>4. inserting' = inserting \cup {a}
      BY <3>1, <3>3
    <3> QED
      BY <3>3, <3>4
  <2> QED
    BY <2>2, <2>3
<1>9. PrivilegeInv'
  <2>1. /\ UNCHANGED <<job, Call, Mutating(Call.path), RowGuarded(Call.path)>>
        /\ Entitled' = Entitled
    BY <1>1 DEF Call, Mutating, Entitled, RowGuarded, Routed, clientVars
  <2>2. \A b \in Attempts : request'[b].stage \in {"handler", "org"} =>
           request'[b].stage = request[b].stage
    BY <1>3, <1>4
  <2>3. Mutating(Call.path) => Entitled
    BY <1>1, <1>2 DEF GatewayInv, PrivilegeInv
  <2> QED
    BY <2>1, <2>2, <2>3 DEF GatewayInv, PrivilegeInv
<1> QED
  BY <1>5, <1>6, <1>7, <1>8, <1>9 DEF GatewayInv

-----------------------------------------------------------------------------
(* Every step of client and server keeps the invariant.                    *)
LEMMA NextGateway == GatewayInv /\ [Next]_vars => GatewayInv'
<1> SUFFICES ASSUME GatewayInv, [Next]_vars PROVE GatewayInv'
  OBVIOUS
<1>1. CASE \/ RunCommand \/ CallSdk \/ FireAndPoll \/ CallUi \/ CallKeyed
  BY <1>1, StartsKeep
<1>2. CASE DeclineCommand \/ CommandWithoutOrg \/ Configure
  BY <1>2, BetweenJobsKeep DEF DeclineCommand, CommandWithoutOrg
<1>3. CASE Resend
  BY <1>3, ResendKeeps
<1>4. CASE NextCall
  BY <1>4, NextCallKeeps
<1>5. CASE Exit
  BY <1>5, ExitKeeps
<1>6. CASE PollAgain
  BY <1>6, PollAgainKeeps
<1>7. CASE PollDeadline
  BY <1>7, DeadlineKeeps
<1>8. CASE PollTimeout
  BY <1>8, PollTimeoutKeeps
<1>9. CASE Timeout
  BY <1>9, TimeoutKeeps
<1>10. ASSUME NEW a \in Attempts, Lookup(a) PROVE GatewayInv'
  BY <1>10, LookupKeeps
<1>11. ASSUME NEW a \in Attempts, Admit(a) PROVE GatewayInv'
  BY <1>11, AdmitKeeps
<1>12. ASSUME NEW a \in Attempts, Authorize(a) PROVE GatewayInv'
  BY <1>12, AuthorizeKeeps
<1>13. ASSUME NEW a \in Attempts, Handle(a) PROVE GatewayInv'
  BY <1>13, HandleKeeps
<1>14. ASSUME NEW a \in Attempts, InsertRow(a) PROVE GatewayInv'
  BY <1>14, InsertRowKeeps
<1>15. ASSUME NEW a \in Attempts, Deliver(a) PROVE GatewayInv'
  BY <1>15, DeliverKeeps
<1>16. CASE Crash
  BY <1>16, CrashKeeps
<1>17. CASE NewWindow
  BY <1>17, NewWindowKeeps
<1>18. CASE UNCHANGED vars
  <2> USE <1>18 DEF vars, serverVars, clientVars, ghosts
  <2>1. GatewayTypes'
    BY DEF GatewayInv, GatewayTypes
  <2>2. WindowInv'
    BY DEF GatewayInv, WindowInv
  <2>3. JobInv'
    BY DEF GatewayInv, JobInv, Drained, Live
  <2>4. ChangesInv'
    BY DEF GatewayInv, ChangesInv, Unhandled, Allowance, Call, Mutating
  <2>5. KeyInv' /\ PrivilegeInv'
    BY DEF GatewayInv, KeyInv, PrivilegeInv, Past, Entitled, Call, Mutating,
           RowGuarded, Routed
  <2> QED
    BY <2>1, <2>2, <2>3, <2>4, <2>5 DEF GatewayInv
<1> QED
  BY <1>1, <1>2, <1>3, <1>4, <1>5, <1>6, <1>7, <1>8, <1>9, <1>10, <1>11, <1>12,
     <1>13, <1>14, <1>15, <1>16, <1>17, <1>18 DEF Next

LEMMA GatewayInvariant == Spec => []GatewayInv
  BY InitGateway, NextGateway, PTL DEF Spec

(* client.ts: what the client reports is the truth while every attempt was  *)
(* answered, and a change is repeated only for an attempt that was not; the *)
(* types and the window's count are part of it.                            *)
THEOREM TruthfulReports == Spec => []ReportsTruthfully
<1>1. GatewayInv => ReportsTruthfully
  <2> SUFFICES ASSUME GatewayInv PROVE ReportsTruthfully
    OBVIOUS
  <2>1. Cardinality(Unhandled) \in Nat
    BY UnhandledFinite, FS_CardinalityType
  <2>2. /\ unclear \in Nat /\ applied \in Nat /\ attempt \in Nat
        /\ attempt <= MaxRetries + 1 /\ MaxRetries \in Nat /\ unclear <= attempt
    BY GatewayAssumption DEF GatewayInv, GatewayTypes, ChangesInv, Attempts
  <2>3. applied <= unclear + Allowance
    <3>1. CASE job.calls = <<>>
      BY <2>2, <3>1 DEF GatewayInv, JobInv, Allowance
    <3>2. CASE job.calls # <<>> /\ Mutating(Call.path)
      <4>1. applied + Cardinality(Unhandled) <= unclear + Allowance
        BY <3>2 DEF GatewayInv, ChangesInv
      <4>2. Allowance \in Nat
        BY DEF Allowance
      <4> QED
        BY <2>1, <2>2, <4>1, <4>2
    <3>3. CASE job.calls # <<>> /\ ~Mutating(Call.path)
      <4>1. applied = 0
        BY <3>3 DEF GatewayInv, ChangesInv
      <4>2. Allowance \in Nat
        BY DEF Allowance
      <4> QED
        BY <2>2, <4>1, <4>2
    <3> QED
      BY <3>1, <3>2, <3>3
  <2>4. Allowance \in {0, 1}
    BY DEF Allowance
  <2>5. Allowance = 1 => unclear <= attempt - 1
    BY DEF Allowance, GatewayInv, ChangesInv
  <2>6. applied <= attempt /\ applied <= unclear + 1
    BY <2>2, <2>3, <2>4, <2>5
  <2>7. admitted \in 0 .. (Limit \div Passes)
    <3>1. CASE Passes = 1
      BY <3>1, GatewayAssumption DEF GatewayInv, WindowInv
    <3>2. CASE Passes = 2
      BY <3>2, GatewayAssumption DEF GatewayInv, WindowInv
    <3> QED
      BY <3>1, <3>2, GatewayAssumption
  <2>8. TypeOK
    <3>1. phase \notin {"idle", "ended"} => Len(job.calls) \in 1 .. 2
      <4>1. phase \notin {"idle", "ended"} => job.calls # <<>>
        BY DEF GatewayInv, JobInv
      <4>2. job.calls \in Seq(CallType) /\ Len(job.calls) <= 2
        BY DEF GatewayInv, GatewayTypes, JobInv
      <4>3. job.calls # <<>> => Len(job.calls) # 0 /\ Len(job.calls) \in Nat
        BY <4>2, EmptySeq
      <4>4. \A n \in Nat : n # 0 /\ n <= 2 => n \in 1 .. 2
        OBVIOUS
      <4> QED
        BY <4>1, <4>2, <4>3, <4>4, Zenon
    <3>2. \A a \in Attempts :
             request[a] \in [stage : {"none", "lookup", "limit", "org", "handler",
                                      "reply", "gone"},
                             answer : {"none", "ok", "bad", "unauthorized",
                                       "refused", "limited", "failed"}]
      BY DEF GatewayInv, GatewayTypes, Request, Stage, AnswerOf
    <3>3. applied \in 0 .. MaxRetries + 1 /\ unclear \in 0 .. MaxRetries + 1
      BY <2>2, <2>6
    <3>4. count \in 0 .. Limit + 1
      BY DEF GatewayInv, WindowInv
    <3> QED
      BY <2>7, <3>1, <3>2, <3>3, <3>4 DEF GatewayInv, GatewayTypes, TypeOK
  <2>9. outcome = "failed" /\ unclear = 0 => applied = 0
    <3> SUFFICES ASSUME outcome = "failed", unclear = 0 PROVE applied = 0
      OBVIOUS
    <3>1. phase = "ended"
      BY DEF GatewayInv, JobInv
    <3>2. Allowance = 0
      BY <3>1 DEF Allowance
    <3> QED
      BY <2>2, <2>3, <3>2
  <2>10. outcome = "done" /\ Mutating(Call.path) => applied >= 1
    BY DEF GatewayInv, JobInv, ChangesInv
  <2> QED
    BY <2>6, <2>8, <2>9, <2>10 DEF ReportsTruthfully
<1> QED
  BY GatewayInvariant, <1>1, PTL

(* idempotency.ts: with a key a change is made twice only if two attempts   *)
(* overlapped or the row of the first was never inserted.                   *)
THEOREM KeyedChangesOnce == Spec => []KeyedOnce
<1>1. GatewayInv => KeyedOnce
  BY DEF GatewayInv, GatewayTypes, KeyInv, KeyedOnce
<1> QED
  BY GatewayInvariant, <1>1, PTL

(* The guards end to end: nothing is changed without a role, a grant or a   *)
(* call that asks for none, whatever else the caller's standing becomes.    *)
THEOREM PrivilegedChanges == Spec => []ChangesNeedPrivilege
<1>1. GatewayInv => ChangesNeedPrivilege
  <2> SUFFICES ASSUME GatewayInv, applied > 0 PROVE Entitled
    BY DEF Entitled, ChangesNeedPrivilege
  <2>1. job.calls # <<>>
    BY DEF GatewayInv, JobInv
  <2>2. Mutating(Call.path)
    BY <2>1 DEF GatewayInv, ChangesInv
  <2> QED
    BY <2>1, <2>2 DEF GatewayInv, PrivilegeInv
<1> QED
  BY GatewayInvariant, <1>1, PTL
=============================================================================
