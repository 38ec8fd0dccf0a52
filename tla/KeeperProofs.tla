----------------------------- MODULE KeeperProofs -----------------------------
(***************************************************************************)
(* The circuit breaker for any number of breakers and callers and every    *)
(* threshold: the probe flag is never left behind and a CLOSED breaker is  *)
(* below its threshold.  Both invariants are inductive together with the   *)
(* type invariant.                                                         *)
(*                                                                         *)
(* Then the keeper's use of it, KeeperRpc, for any number of endpoints: it *)
(* implements the breaker's and the pool's specification, and the pool has *)
(* tried what was CLOSED and never recovers from an outage of everything.  *)
(* That rests on one fact about the endpoints' breakers, EndpointInv: they *)
(* are never HALF_OPEN, because call() skips them while they are OPEN.     *)
(*                                                                         *)
(* Then the leader election: whoever leads without a lapse holds the lock. *)
(*                                                                         *)
(* Last what the cycle asks before it renews, Spending, for any tables,    *)
(* blobs, renewals and edits: the policy a resolution returns was in       *)
(* force, and archived rows come back only by stale writes.  Its central   *)
(* notion is Rest, what a resolution that has come to a level would find   *)
(* if nobody interfered.  And the costs recorded under a limit exceed it   *)
(* by what may be under way: SpendBound, with what it needs of sums over   *)
(* finite sets.                                                            *)
(***************************************************************************)
EXTENDS KeeperRpc, Leader, Spending, FiniteSetTheorems, TLAPS

BreakerInv == BreakerTypeOK /\ ProbeHasCaller /\ ClosedBelowThreshold

(* Every breaker starts CLOSED, with no failure counted and nobody inside. *)
LEMMA BreakerInitOK == BreakerInit => BreakerInv
  BY BreakerAssumption
  DEF BreakerInit, BreakerInv, BreakerTypeOK, ProbeHasCaller, ClosedBelowThreshold

(* The count after a failure stays within 0..Threshold. *)
LEMMA AfterFailureType ==
  ASSUME BreakerTypeOK, NEW b \in Breaker
  PROVE  AfterFailure(b) \in 0..Threshold
  BY BreakerAssumption DEF BreakerTypeOK, AfterFailure

(* call() up to the await keeps the invariant: a probe starts only where   *)
(* no probe is under way, and its caller is inside from then on.           *)
LEMMA AdmitKeeps ==
  ASSUME BreakerInv, NEW b \in Breaker, NEW c \in Caller, Admit(c, b)
  PROVE  BreakerInv'
<1>1. BreakerTypeOK'
  BY BreakerAssumption DEF BreakerInv, BreakerTypeOK, Admit, CurrentState
<1>2. ProbeHasCaller'
  <2> SUFFICES ASSUME NEW x \in Breaker, probing'[x]
               PROVE  state'[x] = "HALF_OPEN" /\ \E d \in Caller : inside'[d] = x
    BY DEF ProbeHasCaller
  <2>1. CASE x = b
    <3>1. inside'[c] = b
      BY <1>1 DEF BreakerInv, BreakerTypeOK, Admit
    <3>2. probing[b] => state[b] = "HALF_OPEN"
      BY DEF BreakerInv, ProbeHasCaller
    <3>3. state'[b] = "HALF_OPEN"
      BY <2>1, <3>2 DEF BreakerInv, BreakerTypeOK, Admit, CurrentState
    <3> QED BY <2>1, <3>1, <3>3
  <2>2. CASE x # b
    <3>1. probing[x] /\ state'[x] = state[x]
      BY <2>2 DEF BreakerInv, BreakerTypeOK, Admit
    <3>2. PICK d \in Caller : inside[d] = x
      BY <3>1 DEF BreakerInv, ProbeHasCaller
    <3>3. d # c
      BY <3>2, BreakerAssumption DEF Admit
    <3>4. inside'[d] = x
      BY <3>2, <3>3 DEF BreakerInv, BreakerTypeOK, Admit
    <3> QED BY <3>1, <3>4 DEF BreakerInv, ProbeHasCaller
  <2> QED BY <2>1, <2>2
<1>3. ClosedBelowThreshold'
  BY DEF BreakerInv, BreakerTypeOK, ClosedBelowThreshold, Admit, CurrentState
<1> QED BY <1>1, <1>2, <1>3 DEF BreakerInv

(* A call that leaves breaker b does not empty another breaker. *)
LEMMA LeavesOthers ==
  ASSUME BreakerInv, NEW b \in Breaker, NEW c \in Caller, inside[c] = b,
         inside' = [inside EXCEPT ![c] = NoBreaker],
         NEW x \in Breaker, x # b, probing[x]
  PROVE  state[x] = "HALF_OPEN" /\ \E d \in Caller : inside'[d] = x
<1>1. PICK d \in Caller : inside[d] = x
  BY DEF BreakerInv, ProbeHasCaller
<1>2. inside'[d] = x
  BY <1>1 DEF BreakerInv, BreakerTypeOK
<1> QED BY <1>2 DEF BreakerInv, ProbeHasCaller

(* An answer, in time or late, keeps the invariant: it clears the count    *)
(* and the probe flag.                                                     *)
LEMMA ReturnsKeeps ==
  ASSUME BreakerInv, NEW b \in Breaker, NEW c \in Caller, Returns(c, b)
  PROVE  BreakerInv'
<1>1. BreakerTypeOK'
  BY BreakerAssumption DEF BreakerInv, BreakerTypeOK, Returns
<1>2. ProbeHasCaller'
  <2> SUFFICES ASSUME NEW x \in Breaker, probing'[x]
               PROVE  state'[x] = "HALF_OPEN" /\ \E d \in Caller : inside'[d] = x
    BY DEF ProbeHasCaller
  <2>1. x # b /\ probing[x] /\ state'[x] = state[x]
    BY DEF BreakerInv, BreakerTypeOK, Returns
  <2> QED BY <2>1, LeavesOthers DEF Returns
<1>3. ClosedBelowThreshold'
  BY BreakerAssumption DEF BreakerInv, BreakerTypeOK, ClosedBelowThreshold, Returns
<1> QED BY <1>1, <1>2, <1>3 DEF BreakerInv

(* An error, in time or late, keeps the invariant: the breaker opens when  *)
(* the count reaches the threshold, and the probe flag is cleared.         *)
LEMMA ThrowsKeeps ==
  ASSUME BreakerInv, NEW b \in Breaker, NEW c \in Caller, Throws(c, b)
  PROVE  BreakerInv'
<1>0. AfterFailure(b) \in 0..Threshold
  BY AfterFailureType DEF BreakerInv
<1>1. BreakerTypeOK'
  BY <1>0 DEF BreakerInv, BreakerTypeOK, Throws, ProbingAfterThrow
<1>2. ProbeHasCaller'
  <2> SUFFICES ASSUME NEW x \in Breaker, probing'[x]
               PROVE  state'[x] = "HALF_OPEN" /\ \E d \in Caller : inside'[d] = x
    BY DEF ProbeHasCaller
  <2>1. x # b /\ probing[x] /\ state'[x] = state[x]
    BY DEF BreakerInv, BreakerTypeOK, Throws, ProbingAfterThrow
  <2> QED BY <2>1, LeavesOthers DEF Throws
<1>3. ClosedBelowThreshold'
  BY <1>0, BreakerAssumption
  DEF BreakerInv, BreakerTypeOK, ClosedBelowThreshold, Throws, Trips
<1> QED BY <1>1, <1>2, <1>3 DEF BreakerInv

(* Each step of a breaker keeps the invariant. *)
LEMMA BreakerStep == BreakerInv /\ [BreakerNext]_breakerVars => BreakerInv'
<1> SUFFICES ASSUME BreakerInv, [BreakerNext]_breakerVars PROVE BreakerInv'
  OBVIOUS
<1>1. ASSUME NEW b \in Breaker, TimeoutElapses(b) PROVE BreakerInv'
  BY <1>1 DEF BreakerInv, BreakerTypeOK, ProbeHasCaller, ClosedBelowThreshold, TimeoutElapses
<1>2. CASE UNCHANGED breakerVars
  BY <1>2 DEF BreakerInv, BreakerTypeOK, ProbeHasCaller, ClosedBelowThreshold, breakerVars
<1> QED BY <1>1, <1>2, AdmitKeeps, ReturnsKeeps, ThrowsKeeps DEF BreakerNext

(* The probe flag of circuit-breaker.ts is set only while the breaker is   *)
(* HALF_OPEN and a caller is inside, however calls overlap.                *)
THEOREM ProbesEnd == BreakerSpec => []ProbeHasCaller
<1>1. BreakerInv => ProbeHasCaller
  BY DEF BreakerInv
<1> QED BY BreakerInitOK, BreakerStep, <1>1, PTL DEF BreakerSpec

(* A CLOSED breaker has counted fewer failures than its threshold, however *)
(* late answers and errors arrive.                                         *)
THEOREM ClosedCounts == BreakerSpec => []ClosedBelowThreshold
<1>1. BreakerInv => ClosedBelowThreshold
  BY DEF BreakerInv
<1> QED BY BreakerInitOK, BreakerStep, <1>1, PTL DEF BreakerSpec

-----------------------------------------------------------------------------
(* The keeper's calls to the chain.                                        *)

LEMMA CycleExists == Cycle \in Breaker
  BY RpcAssumption DEF Cycle

(* The scan and the direct renewals of the cycles (index.ts) do to their   *)
(* circuit breaker what CircuitBreaker allows, and nothing else does.      *)
THEOREM CycleIsBreaker == Spec => BreakerSpec
<1>1. Init => BreakerInit
  BY DEF Init
<1>2. [Next]_vars => [BreakerNext]_breakerVars
  <2> SUFFICES ASSUME [Next]_vars PROVE [BreakerNext]_breakerVars
    OBVIOUS
  <2>1. ASSUME NEW c \in Caller, Enter(c) \/ PoolStep(c) \/ Leave(c)
        PROVE  [BreakerNext]_breakerVars
    BY <2>1, CycleExists DEF Enter, PoolStep, Leave, BreakerNext
  <2>2. CASE CycleTimeout
    BY <2>2, CycleExists DEF CycleTimeout, BreakerNext
  <2>3. CASE EndpointTimeout \/ UNCHANGED vars
    BY <2>3 DEF EndpointTimeout, vars
  <2> QED BY <2>1, <2>2, <2>3 DEF Next
<1> QED BY <1>1, <1>2, PTL DEF Spec, BreakerSpec

(* So the cycles' breaker never keeps a probe flag nobody will clear, and  *)
(* is OPEN once it has counted its threshold.                              *)
THEOREM CycleBreaker == Spec => [](ProbeHasCaller /\ ClosedBelowThreshold)
<1> QED BY CycleIsBreaker, ProbesEnd, ClosedCounts, PTL

(* The calls of the keeper are calls of the pool (sui-pool.ts).            *)
THEOREM PoolImplemented == Spec => Pool!Spec
<1>1. Init => Pool!Init
  BY DEF Init
<1>2. [Next]_vars => [Pool!Next]_(Pool!vars)
  <2> SUFFICES ASSUME [Next]_vars PROVE [Pool!Next]_(Pool!vars)
    OBVIOUS
  <2>1. ASSUME UNCHANGED poolVars PROVE UNCHANGED Pool!vars
    BY <2>1 DEF poolVars, Pool!vars
  <2>2. ASSUME NEW c \in Caller, PoolStep(c) PROVE Pool!Next
    BY <2>2 DEF PoolStep, Pool!Next
  <2>3. CASE EndpointTimeout
    BY <2>3 DEF EndpointTimeout, Pool!Next, Pool!poolVars
  <2>4. CASE CycleTimeout \/ UNCHANGED vars \/ \E c \in Caller : Enter(c) \/ Leave(c)
    BY <2>4, <2>1 DEF CycleTimeout, vars, Enter, Leave
  <2> QED BY <2>2, <2>3, <2>4 DEF Next
<1> QED BY <1>1, <1>2, PTL DEF Spec, Pool!Spec

-----------------------------------------------------------------------------
(* What every state of the pool satisfies.                                 *)

Endpoint == 0 .. Size - 1

Call == [pc : {"idle", "loop", "waiting", "failed"}, start : Endpoint, offset : Nat,
         seen : SUBSET Endpoint, tried : SUBSET Endpoint]

EndpointInv ==
    /\ estate \in [Endpoint -> {"CLOSED", "OPEN"}]
    /\ cursor \in Endpoint
    /\ calls \in [Caller -> Call]
    /\ ClosedIsTried

(* An index taken modulo the number of endpoints is an endpoint. *)
LEMMA IsEndpoint == ASSUME NEW i \in Nat PROVE i % Size \in Endpoint
  BY RpcAssumption DEF Endpoint

LEMMA IndexIsEndpoint ==
    ASSUME EndpointInv, NEW c \in Caller
    PROVE  Pool!Index(c) \in Endpoint
<1>1. calls[c].start \in Nat /\ calls[c].offset \in Nat
  <2>1. calls[c] \in Call
    BY DEF EndpointInv
  <2> QED BY <2>1, RpcAssumption DEF Call, Endpoint
<1>2. calls[c].start + calls[c].offset \in Nat
  BY <1>1
<1> QED BY <1>2, IsEndpoint DEF Pool!Index

(* An endpoint that is OPEN stays so, and one that is not is CLOSED. *)
OpenStays == \A b \in Endpoint : estate[b] = "OPEN" => estate'[b] = "OPEN"

(* Leaving an endpoint behind that was tried, or is OPEN, keeps the call   *)
(* typed and everything it has left behind accounted for.                  *)
LEMMA OnwardKeeps ==
    ASSUME EndpointInv, NEW c \in Caller, NEW tried \in SUBSET Endpoint,
           calls' = Pool!Onward(c, tried), cursor' = cursor,
           estate' \in [Endpoint -> {"CLOSED", "OPEN"}], OpenStays,
           calls[c].tried \subseteq tried,
           Pool!Index(c) \in tried \/ estate[Pool!Index(c)] = "OPEN"
    PROVE  EndpointInv'
<1>a. calls \in [Caller -> Call] /\ ClosedIsTried /\ cursor \in Endpoint
  BY DEF EndpointInv
<1> DEFINE pc == IF calls[c].offset + 1 < Size THEN "loop" ELSE "failed"
           seen == calls[c].seen \cup {Pool!Index(c)}
           new == [pc |-> pc, start |-> calls[c].start, offset |-> calls[c].offset + 1,
                   seen |-> seen, tried |-> tried]
<1>1. calls[c] \in Call
  BY <1>a
<1>2. seen \in SUBSET Endpoint
  BY <1>1, IndexIsEndpoint DEF Call
<1>3. calls' = [calls EXCEPT ![c] = new]
  <2>1. calls'[c] = new
    BY <1>a, <1>1 DEF Pool!Onward, Call
  <2> QED BY <2>1, <1>a DEF Pool!Onward
<1>4. new \in Call
  BY <1>1, <1>2 DEF Call
<1> HIDE DEF pc
<1>5. calls' \in [Caller -> Call]
  BY <1>3, <1>4, <1>a
<1>6. ASSUME NEW d \in Caller, NEW b \in calls'[d].seen
      PROVE  b \in calls'[d].tried \/ estate'[b] = "OPEN"
  <2>1. CASE d = c
    <3>1. calls'[d].seen = seen /\ calls'[d].tried = tried
      BY <2>1, <1>3, <1>a
    <3>2. b \in Endpoint
      BY <3>1, <1>2
    <3>3. b \in tried \/ estate[b] = "OPEN"
      <4>1. CASE b \in calls[c].seen
        BY <4>1, <1>a DEF ClosedIsTried, Pool!ClosedIsTried
      <4>2. CASE b = Pool!Index(c)
        BY <4>2
      <4> QED BY <3>1, <4>1, <4>2
    <3> QED BY <3>1, <3>2, <3>3 DEF OpenStays
  <2>2. CASE d # c
    <3>1. calls'[d] = calls[d] /\ calls[d] \in Call
      BY <2>2, <1>3, <1>a
    <3>2. b \in Endpoint
      BY <3>1 DEF Call
    <3> QED BY <3>1, <3>2, <1>a DEF ClosedIsTried, Pool!ClosedIsTried, OpenStays
  <2> QED BY <2>1, <2>2
<1> QED BY <1>5, <1>6, <1>a DEF EndpointInv, ClosedIsTried, Pool!ClosedIsTried

(* A call that begins, waits or ends, and has left nothing new behind. *)
LEMMA CallKeeps ==
    ASSUME EndpointInv, NEW c \in Caller, NEW new \in Call,
           calls' = [calls EXCEPT ![c] = new], cursor' \in Endpoint,
           estate' = estate, new.seen \subseteq calls[c].seen,
           new.seen # {} => new.tried = calls[c].tried
    PROVE  EndpointInv'
<1>a. calls \in [Caller -> Call] /\ ClosedIsTried
  BY DEF EndpointInv
<1>1. calls' \in [Caller -> Call]
  BY <1>a
<1>2. ASSUME NEW d \in Caller, NEW b \in calls'[d].seen
      PROVE  b \in calls'[d].tried \/ estate[b] = "OPEN"
  <2>1. CASE d = c
    <3>1. calls'[d] = new
      BY <2>1, <1>a
    <3> QED BY <2>1, <3>1, <1>a DEF ClosedIsTried, Pool!ClosedIsTried
  <2>2. CASE d # c
    BY <2>2, <1>a DEF ClosedIsTried, Pool!ClosedIsTried
  <2> QED BY <2>1, <2>2
<1> QED BY <1>1, <1>2 DEF EndpointInv, ClosedIsTried, Pool!ClosedIsTried

LEMMA NoCallTyped == Pool!NoCall \in Call /\ Pool!NoCall.seen = {}
<1>1. 0 \in Endpoint
  BY RpcAssumption DEF Endpoint
<1> QED BY <1>1 DEF Pool!NoCall, Call

LEMMA EndpointInit == Pool!Init => EndpointInv
<1> SUFFICES ASSUME Pool!Init PROVE EndpointInv
  OBVIOUS
<1>1. 0 \in Endpoint
  BY RpcAssumption DEF Endpoint
<1>2. estate \in [Endpoint -> {"CLOSED", "OPEN"}] /\ cursor = 0
      /\ calls = [c \in Caller |-> Pool!NoCall]
  BY DEF Pool!Init, Pool!BreakerInit, Endpoint
<1> QED BY <1>1, <1>2, NoCallTyped DEF EndpointInv, ClosedIsTried, Pool!ClosedIsTried

(* Each step of the pool. *)
LEMMA EndpointStep ==
    EndpointInv /\ [Pool!Next]_(Pool!vars) => EndpointInv' /\ OpenStays
<1> SUFFICES ASSUME EndpointInv, [Pool!Next]_(Pool!vars) PROVE EndpointInv' /\ OpenStays
  OBVIOUS
<1>a. /\ estate \in [Endpoint -> {"CLOSED", "OPEN"}] /\ cursor \in Endpoint
      /\ calls \in [Caller -> Call] /\ ClosedIsTried
  BY DEF EndpointInv
<1>1. ASSUME NEW c \in Caller, Pool!Begin(c) PROVE EndpointInv' /\ OpenStays
  <2> DEFINE new == [Pool!NoCall EXCEPT !.pc = "loop", !.start = cursor]
  <2>1. new \in Call /\ new.seen = {}
    BY NoCallTyped, <1>a DEF Pool!NoCall, Call
  <2>2. calls' = [calls EXCEPT ![c] = new] /\ cursor' = cursor /\ estate' = estate
    BY <1>1 DEF Pool!Begin
  <2> HIDE DEF new
  <2> QED BY <2>1, <2>2, <1>a, CallKeeps DEF OpenStays
<1>2. ASSUME NEW c \in Caller, Pool!Skip(c) PROVE EndpointInv' /\ OpenStays
  <2>1. Pool!Index(c) \in Endpoint /\ calls[c] \in Call
    BY <1>a, IndexIsEndpoint
  <2>2. estate[Pool!Index(c)] = "OPEN"
    BY <1>2, <2>1, <1>a DEF Pool!Skip, Pool!PassedOver, Pool!Rejects, Pool!CurrentState
  <2>3. calls' = Pool!Onward(c, calls[c].tried) /\ cursor' = cursor /\ estate' = estate
    BY <1>2 DEF Pool!Skip
  <2>4. calls[c].tried \in SUBSET Endpoint
    BY <2>1 DEF Call
  <2> QED BY <2>2, <2>3, <2>4, <1>a, OnwardKeeps DEF OpenStays
<1>3. ASSUME NEW c \in Caller, Pool!Attempt(c) PROVE EndpointInv' /\ OpenStays
  <2>1. Pool!Index(c) \in Endpoint /\ calls[c] \in Call
    BY <1>a, IndexIsEndpoint
  <2>2. estate[Pool!Index(c)] = "CLOSED"
    BY <1>3, <2>1, <1>a DEF Pool!Attempt, Pool!PassedOver
  <2>3. estate' = estate
    BY <1>3, <2>1, <2>2, <1>a DEF Pool!Attempt, Pool!Admit, Pool!CurrentState
  <2> DEFINE new == [calls[c] EXCEPT !.pc = "waiting"]
  <2>4. calls' = [calls EXCEPT ![c] = new] /\ cursor' = cursor
    BY <1>3 DEF Pool!Attempt
  <2>5. new \in Call /\ new.seen = calls[c].seen /\ new.tried = calls[c].tried
    BY <2>1 DEF Call
  <2> HIDE DEF new
  <2> QED BY <2>3, <2>4, <2>5, <1>a, CallKeeps DEF OpenStays
<1>4. ASSUME NEW c \in Caller, Pool!AttemptSucceeds(c) PROVE EndpointInv' /\ OpenStays
  <2>1. Pool!Index(c) \in Endpoint
    BY IndexIsEndpoint
  <2>2. estate' = estate
    BY <1>4, <2>1, <1>a DEF Pool!AttemptSucceeds, Pool!Returns
  <2>3. cursor' \in Endpoint
    <3>1. Pool!Index(c) + 1 \in Nat
      BY <2>1, RpcAssumption DEF Endpoint
    <3> QED BY <1>4, <3>1, IsEndpoint DEF Pool!AttemptSucceeds
  <2>4. calls' = [calls EXCEPT ![c] = Pool!NoCall]
    BY <1>4 DEF Pool!AttemptSucceeds
  <2> QED BY <2>2, <2>3, <2>4, NoCallTyped, CallKeeps DEF OpenStays
<1>5. ASSUME NEW c \in Caller, Pool!AttemptFails(c) PROVE EndpointInv' /\ OpenStays
  <2>1. Pool!Index(c) \in Endpoint /\ calls[c] \in Call
    BY <1>a, IndexIsEndpoint
  <2>2. estate' = [estate EXCEPT ![Pool!Index(c)] =
                      IF Pool!Trips(Pool!Index(c)) THEN "OPEN" ELSE @]
    BY <1>5 DEF Pool!AttemptFails, Pool!Throws
  <2>3. estate' \in [Endpoint -> {"CLOSED", "OPEN"}] /\ OpenStays
    BY <2>1, <2>2, <1>a DEF OpenStays
  <2> DEFINE tried == calls[c].tried \cup {Pool!Index(c)}
  <2>4. calls' = Pool!Onward(c, tried) /\ cursor' = cursor
    BY <1>5 DEF Pool!AttemptFails
  <2>5. tried \in SUBSET Endpoint /\ calls[c].tried \subseteq tried /\ Pool!Index(c) \in tried
    BY <2>1 DEF Call
  <2> HIDE DEF tried
  <2> QED BY <2>3, <2>4, <2>5, OnwardKeeps
<1>6. ASSUME NEW c \in Caller, Pool!Fail(c) PROVE EndpointInv' /\ OpenStays
  <2>1. calls' = [calls EXCEPT ![c] = Pool!NoCall] /\ cursor' = cursor /\ estate' = estate
    BY <1>6 DEF Pool!Fail
  <2> QED BY <2>1, NoCallTyped, <1>a, CallKeeps DEF OpenStays
<1>7. CASE UNCHANGED <<estate, cursor, calls>>
  BY <1>7, <1>a DEF EndpointInv, ClosedIsTried, Pool!ClosedIsTried, OpenStays
<1>8. ASSUME NEW b \in Endpoint, Pool!TimeoutElapses(b) /\ UNCHANGED Pool!poolVars
      PROVE  UNCHANGED <<estate, cursor, calls>>
  BY <1>8 DEF Pool!TimeoutElapses, Pool!poolVars
<1>9. CASE UNCHANGED Pool!vars
  BY <1>9, <1>7 DEF Pool!vars
<1> QED
  BY <1>1, <1>2, <1>3, <1>4, <1>5, <1>6, <1>7, <1>8, <1>9
  DEF Pool!Next, Pool!CallStep, Endpoint

(* A call that gives up has tried every endpoint that was not OPEN         *)
(* (SuiClientPool.call), whatever other callers do to the shared cursor.   *)
THEOREM GivesUpLast == Spec => []ClosedIsTried
<1>1. EndpointInv /\ [Pool!Next]_(Pool!vars) => EndpointInv'
  BY EndpointStep
<1>2. EndpointInv => ClosedIsTried
  BY DEF EndpointInv
<1>3. Pool!Spec => []ClosedIsTried
  BY EndpointInit, <1>1, <1>2, PTL DEF Pool!Spec
<1> QED BY PoolImplemented, <1>3, PTL

(* Once every endpoint is OPEN the pool sends nothing any more, whatever   *)
(* time passes: call() looks at the raw state of its breakers.             *)
THEOREM OutageStays == Spec => OutageIsFinal
<1>1. EndpointInv /\ [Pool!Next]_(Pool!vars) => EndpointInv'
  BY EndpointStep
<1>2. ASSUME EndpointInv, [Pool!Next]_(Pool!vars)
      PROVE  [Pool!AllOpen => Pool!AllOpen']_(Pool!vars)
  BY <1>2, EndpointStep DEF Pool!AllOpen, OpenStays, Endpoint
<1>3. Pool!Spec => Pool!OutageIsFinal
  BY EndpointInit, <1>1, <1>2, PTL DEF Pool!Spec, Pool!OutageIsFinal
<1> QED BY PoolImplemented, <1>3, PTL DEF OutageIsFinal

-----------------------------------------------------------------------------
(* The election, for any number of keepers, connections, dropped sessions, *)
(* crashes and shutdowns.                                                  *)


(* The inductive invariant: the types, and that whoever leads, or is about *)
(* to, without a lapse, holds the lock.                                    *)
LeaderInv == LeaderTypeOK /\ LeadsByLock

(* Every state starts with nobody leading. *)
LEMMA InitLeader == LeaderInit => LeaderInv
  BY LeaderAssumption DEF LeaderInit, LeaderInv, LeaderTypeOK, LeadsByLock

(* Every step of the elector, the pool and the process keeps the types. *)
LEMMA NextLeaderType == LeaderTypeOK /\ [LeaderNext]_leaderVars => LeaderTypeOK'
<1> SUFFICES ASSUME LeaderTypeOK, [LeaderNext]_leaderVars PROVE LeaderTypeOK'
  OBVIOUS
<1>1. ASSUME NEW i \in Instance, Start(i) PROVE LeaderTypeOK'
  BY <1>1 DEF Start, LeaderTypeOK
<1>2. ASSUME NEW i \in Instance, SetLeader(i) PROVE LeaderTypeOK'
  BY <1>2 DEF SetLeader, Running, FlagAtStart, LeaderTypeOK
<1>3. ASSUME NEW i \in Instance, Refused(i) PROVE LeaderTypeOK'
  BY <1>3 DEF Refused, Running, FlagAtStart, LeaderTypeOK
<1>4. ASSUME NEW i \in Instance, ConnectionDrops(i) PROVE LeaderTypeOK'
  BY <1>4 DEF ConnectionDrops, Released, LeaderTypeOK
<1>5. ASSUME NEW i \in Instance, Crash(i) PROVE LeaderTypeOK'
  BY <1>5 DEF Crash, Released, LeaderTypeOK
<1>6. ASSUME NEW i \in Instance, Shutdown(i) PROVE LeaderTypeOK'
  BY <1>6 DEF Shutdown, Released, LeaderTypeOK
<1>7. ASSUME NEW i \in Instance, DrainingTick(i) PROVE LeaderTypeOK'
  BY <1>7 DEF DrainingTick, LeaderTypeOK
<1>8. ASSUME NEW i \in Instance, Exit(i) PROVE LeaderTypeOK'
  BY <1>8 DEF Exit, LeaderTypeOK
<1>9. ASSUME NEW i \in Instance, NEW c \in Conn, Acquire(i, c) PROVE LeaderTypeOK'
  BY <1>9 DEF Acquire, LeaderTypeOK
<1>10. CASE UNCHANGED leaderVars
  BY <1>10 DEF leaderVars, LeaderTypeOK
<1> QED
  BY <1>1, <1>2, <1>3, <1>4, <1>5, <1>6, <1>7, <1>8, <1>9, <1>10
     DEF LeaderNext, NotAcquired, QueryFails

(* Every step keeps the leader on its lock: the lock passes to another     *)
(* session only when it is free, and a session that ends marks its elector *)
(* as lapsed.                                                              *)
LEMMA NextLeader == LeaderInv /\ [LeaderNext]_leaderVars => LeadsByLock'
<1> SUFFICES ASSUME LeaderTypeOK, LeadsByLock, [LeaderNext]_leaderVars PROVE LeadsByLock'
  BY DEF LeaderInv
<1> USE DEF LeadsByLock, Mine
<1>1. ASSUME NEW i \in Instance, Start(i) PROVE LeadsByLock'
  BY <1>1 DEF Start, LeaderTypeOK
<1>2. ASSUME NEW i \in Instance, SetLeader(i) PROVE LeadsByLock'
  BY <1>2 DEF SetLeader, LeaderTypeOK
<1>3. ASSUME NEW i \in Instance, Refused(i) PROVE LeadsByLock'
  BY <1>3 DEF Refused, LeaderTypeOK
<1>4. ASSUME NEW i \in Instance, ConnectionDrops(i) PROVE LeadsByLock'
  <2> SUFFICES ASSUME NEW j \in Instance, (elector'[j] \/ pending'[j]) /\ ~lapsed'[j]
               PROVE lock' \in {j} \X Conn
    OBVIOUS
  <2>1. j # i /\ lock \in {i} \X Conn
    BY <1>4 DEF ConnectionDrops, LeaderTypeOK
  <2>2. lock \in {j} \X Conn
    BY <1>4, <2>1 DEF ConnectionDrops, LeaderTypeOK
  <2> QED
    BY <2>1, <2>2
<1>5. ASSUME NEW i \in Instance, Crash(i) PROVE LeadsByLock'
  BY <1>5, LeaderAssumption DEF Crash, Released, LeaderTypeOK
<1>6. ASSUME NEW i \in Instance, Shutdown(i) PROVE LeadsByLock'
  BY <1>6, LeaderAssumption DEF Shutdown, Released, LeaderTypeOK
<1>7. ASSUME NEW i \in Instance, DrainingTick(i) PROVE LeadsByLock'
  BY <1>7 DEF DrainingTick, LeaderTypeOK
<1>8. ASSUME NEW i \in Instance, Exit(i) PROVE LeadsByLock'
  BY <1>8 DEF Exit, LeaderTypeOK
<1>9. ASSUME NEW i \in Instance, NEW c \in Conn, Acquire(i, c) PROVE LeadsByLock'
  <2> SUFFICES ASSUME NEW j \in Instance, (elector'[j] \/ pending'[j]) /\ ~lapsed'[j]
               PROVE lock' \in {j} \X Conn
    OBVIOUS
  <2>1. CASE j = i
    BY <1>9, <2>1 DEF Acquire, LeaderTypeOK
  <2>2. CASE j # i
    <3>1. lock \in {j} \X Conn
      BY <1>9, <2>2 DEF Acquire, LeaderTypeOK
    <3>2. FALSE
      BY <1>9, <2>2, <3>1, LeaderAssumption DEF Acquire, Granted
    <3> QED
      BY <3>2
  <2> QED
    BY <2>1, <2>2
<1>10. CASE UNCHANGED leaderVars
  BY <1>10 DEF leaderVars
<1> QED
  BY <1>1, <1>2, <1>3, <1>4, <1>5, <1>6, <1>7, <1>8, <1>9, <1>10
     DEF LeaderNext, NotAcquired, QueryFails

(* Whoever leads without a lapse holds the advisory lock. *)
THEOREM LeadershipByLock == LeaderSpec => []LeadsByLock
<1>1. LeaderInv /\ [LeaderNext]_leaderVars => LeaderInv'
  BY NextLeaderType, NextLeader DEF LeaderInv
<1>2. LeaderInv => LeadsByLock
  BY DEF LeaderInv
<1> QED
  BY InitLeader, <1>1, <1>2, PTL DEF LeaderSpec

(* Two keepers believe they lead only while one of them has lost its       *)
(* session since the lock was granted to it.                               *)
THEOREM NoSplitBrainWithoutLapse == LeaderSpec => []SplitBrainNeedsLapse
<1>1. LeadsByLock => SplitBrainNeedsLapse
  <2> SUFFICES ASSUME LeadsByLock, NEW i \in Instance, NEW j \in Instance,
                      i # j, elector[i], elector[j], ~lapsed[i], ~lapsed[j]
               PROVE FALSE
    BY DEF SplitBrainNeedsLapse
  <2>1. lock \in {i} \X Conn /\ lock \in {j} \X Conn
    BY DEF LeadsByLock, Mine
  <2> QED
    BY <2>1
<1> QED
  BY LeadershipByLock, <1>1, PTL

-----------------------------------------------------------------------------
(* A finite set that a strict order ranks has a greatest member.            *)

Ranks(R, S) ==
  /\ \A x, y \in S : x = y \/ <<x, y>> \in R \/ <<y, x>> \in R
  /\ \A x \in S : <<x, x>> \notin R
  /\ \A x, y, z \in S : <<x, y>> \in R /\ <<y, z>> \in R => <<x, z>> \in R

LEMMA HasGreatest ==
  ASSUME NEW S, IsFiniteSet(S), S # {}, NEW R, Ranks(R, S)
  PROVE  \E x \in S : \A y \in S \ {x} : <<y, x>> \in R
PROOF
  <1> DEFINE Above(x) == {y \in S : <<x, y>> \in R}
             T == {Above(x) : x \in S}
  <1> USE DEF Ranks
  <1>1. T \subseteq FiniteSubsetsOf(S) /\ T # {}
    <2>1. FiniteSubsetsOf(S) = SUBSET S
      BY FS_FiniteSubsetsOfFinite
    <2>2. \A x \in S : Above(x) \in SUBSET S
      OBVIOUS
    <2>3. \A B \in T : B \in SUBSET S
      BY <2>2
    <2>4. PICK x \in S : TRUE
      OBVIOUS
    <2>5. Above(x) \in T
      OBVIOUS
    <2> HIDE DEF T, Above
    <2> QED BY <2>1, <2>3, <2>5
  <1>2. PICK A \in T : \A B \in T : <<B, A>> \notin StrictSubsetOrdering(S)
    <2> HIDE DEF T
    <2> QED BY <1>1, FS_StrictSubsetOrderingWellFounded, WFMin
  <1>3. PICK x \in S : A = Above(x)
    OBVIOUS
  <1>4. ASSUME NEW y \in S \ {x}, <<y, x>> \notin R
        PROVE  FALSE
    <2>1. <<x, y>> \in R
      BY <1>4
    <2>2. Above(y) \subseteq Above(x) /\ y \in Above(x) /\ y \notin Above(y)
      BY <1>4, <2>1
    <2>3. Above(y) \in T /\ Above(y) \in SUBSET S /\ Above(x) \in SUBSET S
      BY <1>4
    <2>4. <<Above(y), Above(x)>> \in StrictSubsetOrdering(S)
      BY <2>2, <2>3 DEF StrictSubsetOrdering
    <2> QED BY <1>2, <1>3, <2>3, <2>4
  <1> QED BY <1>4

LEMMA LeastLevel ==
  ASSUME NEW n \in Nat, NEW L \in SUBSET (n .. 6), L # {}
  PROVE  \E m \in L : \A k \in L : m <= k
PROOF
  <1>1. L \subseteq Nat
    OBVIOUS
  <1>2. PICK m \in L : \A k \in L : <<k, m>> \notin OpToRel(<, Nat)
    BY <1>1, NatLessThanWellFounded, WFMin
  <1>3. \A k \in L : ~(k < m)
    BY <1>1, <1>2 DEF OpToRel
  <1> QED BY <1>1, <1>3

(* The largest of finitely many creation times.                             *)
LEMMA LatestIsNat ==
  ASSUME NEW Stamps, Stamps \subseteq Nat, IsFiniteSet(Stamps), Stamps # {}
  PROVE  (CHOOSE t \in Stamps : \A u \in Stamps : u <= t) \in Nat
PROOF
  <1> DEFINE Earlier == {pair \in Stamps \X Stamps : pair[1] < pair[2]}
  <1>1. ASSUME NEW x \in Stamps, NEW y \in Stamps
        PROVE  <<x, y>> \in Earlier <=> x < y
    OBVIOUS
  <1> HIDE DEF Earlier
  <1>2. \A x, y \in Stamps : x = y \/ <<x, y>> \in Earlier \/ <<y, x>> \in Earlier
    <2>1. SUFFICES ASSUME NEW x \in Stamps, NEW y \in Stamps, x # y, <<x, y>> \notin Earlier
                   PROVE  <<y, x>> \in Earlier
      OBVIOUS
    <2>2. ~(x < y) /\ x \in Nat /\ y \in Nat
      BY <1>1, <2>1
    <2>3. y < x
      BY <2>1, <2>2
    <2> QED BY <1>1, <2>3
  <1>3. \A x \in Stamps : <<x, x>> \notin Earlier
    <2>1. SUFFICES ASSUME NEW x \in Stamps PROVE <<x, x>> \notin Earlier
      OBVIOUS
    <2> QED BY <1>1
  <1>4. \A x, y, z \in Stamps : <<x, y>> \in Earlier /\ <<y, z>> \in Earlier => <<x, z>> \in Earlier
    <2>1. SUFFICES ASSUME NEW x \in Stamps, NEW y \in Stamps, NEW z \in Stamps,
                          <<x, y>> \in Earlier, <<y, z>> \in Earlier
                   PROVE  <<x, z>> \in Earlier
      OBVIOUS
    <2>2. x < y /\ y < z
      BY <1>1, <2>1
    <2> QED BY <1>1, <2>2
  <1>7. Ranks(Earlier, Stamps)
    BY <1>2, <1>3, <1>4, Zenon DEF Ranks
  <1>5. PICK m \in Stamps : \A k \in Stamps \ {m} : <<k, m>> \in Earlier
    BY <1>7, HasGreatest
  <1>6. ASSUME NEW u \in Stamps
        PROVE  u <= m
    <2>1. CASE u = m
      BY <2>1
    <2>2. CASE u # m
      <3>1. <<u, m>> \in Earlier
        BY <1>5, <2>2
      <3> QED BY <1>1, <3>1
    <2> QED BY <2>1, <2>2
  <1> QED BY <1>6

-----------------------------------------------------------------------------
(* Reading a table from a level on.                                         *)

Tables == [PolicyId -> PolicyRow]

Candidate(table, b, m) ==
  {p \in PolicyId : table[p].status = "active" /\ Found(table[p], b, Chain[m])}

(* The comparator of a level, on a table.                                   *)
Prior(table, m, p, q) ==
  IF m = 3 /\ table[p].tags # table[q].tags THEN table[p].tags > table[q].tags
  ELSE \/ table[p].created > table[q].created
       \/ table[p].created = table[q].created /\ p > q

IsBest(table, b, m, p) ==
  /\ p \in Candidate(table, b, m)
  /\ \A q \in Candidate(table, b, m) \ {p} : Prior(table, m, p, q)

IsFirst(table, b, n, m) ==
  /\ m \in n .. 6 /\ Candidate(table, b, m) # {}
  /\ \A k \in n .. (m - 1) : Candidate(table, b, k) = {}

(* What a resolution that has come to level n finds if nobody interferes.   *)
Rest(table, b, n) ==
  IF \A m \in n .. 6 : Candidate(table, b, m) = {} THEN Default
  ELSE Resolved(table, CHOOSE p \in PolicyId :
                         \E m \in n .. 6 : IsFirst(table, b, n, m) /\ IsBest(table, b, m, p))

LEMMA PriorOrders ==
  ASSUME NEW table \in Tables, NEW m, NEW p \in PolicyId, NEW q \in PolicyId
  PROVE  /\ p = q \/ Prior(table, m, p, q) \/ Prior(table, m, q, p)
         /\ ~(Prior(table, m, p, q) /\ Prior(table, m, q, p))
         /\ \A r \in PolicyId :
               Prior(table, m, p, q) /\ Prior(table, m, q, r) => Prior(table, m, p, r)
PROOF
  <1>1. /\ \A r \in PolicyId : r \in Nat
        /\ \A r \in PolicyId : table[r].tags \in Int /\ table[r].created \in Int
    BY PolicyIdAssumption, BoundAssumption DEF Tables, PolicyRow
  <1> QED BY <1>1 DEF Prior

LEMMA OneBest ==
  ASSUME NEW table \in Tables, NEW b, NEW m, Candidate(table, b, m) # {}
  PROVE  \E p \in PolicyId : /\ IsBest(table, b, m, p)
                             /\ \A q : IsBest(table, b, m, q) => q = p
PROOF
  <1> DEFINE S == Candidate(table, b, m)
             R == {pair \in S \X S : Prior(table, m, pair[2], pair[1])}
  <1>1. IsFiniteSet(S) /\ S \subseteq PolicyId
    BY PolicyIdAssumption, FS_Subset DEF Candidate
  <1>2. \A x, y \in S : <<x, y>> \in R <=> Prior(table, m, y, x)
    OBVIOUS
  <1> HIDE DEF S, R
  <1>3. Ranks(R, S)
    BY <1>1, <1>2, PriorOrders DEF Ranks
  <1>4. PICK p \in S : \A q \in S \ {p} : <<q, p>> \in R
    BY <1>1, <1>3, HasGreatest DEF S
  <1>5. IsBest(table, b, m, p)
    BY <1>2, <1>4 DEF IsBest, S
  <1>6. ASSUME NEW q, IsBest(table, b, m, q), q # p
        PROVE  FALSE
    <2>1. Prior(table, m, p, q) /\ Prior(table, m, q, p) /\ q \in PolicyId
      BY <1>1, <1>5, <1>6 DEF IsBest, S
    <2> QED BY <1>1, <2>1, PriorOrders
  <1> QED BY <1>1, <1>5, <1>6

LEMMA OneFirst ==
  ASSUME NEW table, NEW b, NEW n \in 1 .. 7,
         \E m \in n .. 6 : Candidate(table, b, m) # {}
  PROVE  \E m \in n .. 6 : /\ IsFirst(table, b, n, m)
                           /\ \A k : IsFirst(table, b, n, k) => k = m
PROOF
  <1> DEFINE L == {m \in n .. 6 : Candidate(table, b, m) # {}}
  <1>1. PICK m \in L : \A k \in L : m <= k
    BY LeastLevel
  <1>2. IsFirst(table, b, n, m)
    BY <1>1 DEF IsFirst
  <1>3. ASSUME NEW k, IsFirst(table, b, n, k)
        PROVE  k = m
    BY <1>1, <1>2, <1>3 DEF IsFirst
  <1> QED BY <1>1, <1>2, <1>3

(* What Rest is, when a level has candidates and when none has.             *)
LEMMA RestIs ==
  ASSUME NEW table \in Tables, NEW b, NEW n \in 1 .. 7, NEW m, NEW p,
         IsFirst(table, b, n, m), IsBest(table, b, m, p)
  PROVE  Rest(table, b, n) = Resolved(table, p)
PROOF
  <1>1. /\ \E k \in n .. 6 : Candidate(table, b, k) # {}
        /\ m \in n .. 6 /\ Candidate(table, b, m) # {} /\ p \in PolicyId
    BY DEF IsFirst, IsBest, Candidate
  <1>2. \A k : IsFirst(table, b, n, k) => k = m
    BY <1>1, OneFirst
  <1>3. \A q : IsBest(table, b, m, q) => q = p
    BY <1>1, OneBest
  <1> DEFINE Is(q) == \E k \in n .. 6 : IsFirst(table, b, n, k) /\ IsBest(table, b, k, q)
  <1>4. Is(p) /\ \A q : Is(q) => q = p
    BY <1>1, <1>2, <1>3
  <1>5. (CHOOSE q \in PolicyId : Is(q)) = p
    <2> HIDE DEF Is
    <2> QED BY <1>1, <1>4
  <1> QED BY <1>1, <1>5 DEF Rest

LEMMA RestTyped ==
  ASSUME NEW table \in Tables, NEW b, NEW n \in 1 .. 7
  PROVE  /\ Rest(table, b, n) \in [policy : PolicyId \cup {Nobody}, auto : BOOLEAN]
         /\ \/ Rest(table, b, n) = Default /\ \A m \in n .. 6 : Candidate(table, b, m) = {}
            \/ \E m \in n .. 6, p \in PolicyId :
                  /\ IsFirst(table, b, n, m) /\ IsBest(table, b, m, p)
                  /\ Rest(table, b, n) = Resolved(table, p)
PROOF
  <1>1. CASE \A m \in n .. 6 : Candidate(table, b, m) = {}
    BY <1>1 DEF Rest, Default
  <1>2. CASE \E m \in n .. 6 : Candidate(table, b, m) # {}
    <2>1. PICK m \in n .. 6 : IsFirst(table, b, n, m)
      BY <1>2, OneFirst
    <2>2. PICK p \in PolicyId : IsBest(table, b, m, p)
      BY <2>1, OneBest DEF IsFirst
    <2>3. Rest(table, b, n) = Resolved(table, p)
      BY <2>1, <2>2, RestIs
    <2> QED BY <2>1, <2>2, <2>3 DEF Resolved, Tables, PolicyRow
  <1> QED BY <1>1, <1>2

(* A query of the engine is a level of the table.                           *)
LEMMA QueryReads ==
  ASSUME NEW b, NEW m \in 1 .. 6
  PROVE  /\ Levels[m] = Chain[m]
         /\ Candidates(b, Levels[m]) = Candidate(policy, b, m)
         /\ \A p, q : Before(Levels[m], p, q) <=> Prior(policy, m, p, q)
PROOF
  <1>1. Levels[m] = Chain[m] /\ (Levels[m] = "tag" <=> m = 3)
    BY DEF Levels, Chain
  <1> QED BY <1>1 DEF Candidates, Candidate, Before, Prior

-----------------------------------------------------------------------------
(* The documented order picks what reading the table from level 1 finds.    *)

IsLevel(row, b, m) ==
  /\ m \in 1 .. 6 /\ Found(row, b, Chain[m])
  /\ \A k \in 1 .. (m - 1) : ~Found(row, b, Chain[k])

LEMMA LevelOf ==
  ASSUME NEW row, NEW b, NEW n \in 1 .. 6, Found(row, b, Chain[n])
  PROVE  \E m \in 1 .. 6 : IsLevel(row, b, m)
PROOF
  <1> DEFINE L == {m \in 1 .. 6 : Found(row, b, Chain[m])}
  <1>1. PICK m \in L : \A k \in L : m <= k
    <2> n \in L
      OBVIOUS
    <2> L \in SUBSET (1 .. 6)
      OBVIOUS
    <2> HIDE DEF L
    <2> QED BY LeastLevel
  <1> QED BY <1>1 DEF IsLevel

LEMMA StrengthIs ==
  ASSUME NEW row, NEW b, NEW p, NEW m, IsLevel(row, b, m)
  PROVE  Strength(row, b, p) = <<-m, IF m = 3 THEN row.tags ELSE 0, row.created, p>>
PROOF
  <1>1. \A n : n \in DOMAIN Chain <=> n \in 1 .. 6
    BY DEF Chain
  <1>2. Chain[m] = "tag" <=> m = 3
    BY DEF Chain, IsLevel
  <1> DEFINE Is(n) == Found(row, b, Chain[n]) /\ \A k \in 1 .. (n - 1) : ~Found(row, b, Chain[k])
  <1>3. /\ m \in DOMAIN Chain /\ Is(m)
        /\ \A n \in DOMAIN Chain : Is(n) => n = m
    BY <1>1 DEF IsLevel
  <1>4. (CHOOSE n \in DOMAIN Chain : Is(n)) = m
    <2> HIDE DEF Is
    <2> QED BY <1>3
  <1> QED BY <1>2, <1>4 DEF Strength

LEMMA WeakerIs ==
  ASSUME NEW s, NEW t,
         s[1] \in Int /\ s[2] \in Int /\ s[3] \in Int /\ s[4] \in Int,
         t[1] \in Int /\ t[2] \in Int /\ t[3] \in Int /\ t[4] \in Int
  PROVE  Weaker(s, t) <=>
           \/ s[1] < t[1]
           \/ s[1] = t[1] /\ s[2] < t[2]
           \/ s[1] = t[1] /\ s[2] = t[2] /\ s[3] < t[3]
           \/ s[1] = t[1] /\ s[2] = t[2] /\ s[3] = t[3] /\ s[4] < t[4]
PROOF
  BY DEF Weaker

LEMMA Compared ==
  ASSUME NEW table \in Tables, NEW b, NEW p \in PolicyId, NEW q \in PolicyId,
         NEW m, NEW n, IsLevel(table[p], b, m), IsLevel(table[q], b, n)
  PROVE  Weaker(Strength(table[q], b, q), Strength(table[p], b, p)) <=>
            m < n \/ (m = n /\ Prior(table, m, p, q))
PROOF
  <1>1. /\ p \in Int /\ q \in Int /\ m \in Int /\ n \in Int
        /\ table[p].tags \in Int /\ table[p].created \in Int
        /\ table[q].tags \in Int /\ table[q].created \in Int
    BY PolicyIdAssumption, BoundAssumption DEF Tables, PolicyRow, IsLevel
  <1>2. /\ Strength(table[p], b, p) =
             <<-m, IF m = 3 THEN table[p].tags ELSE 0, table[p].created, p>>
        /\ Strength(table[q], b, q) =
             <<-n, IF n = 3 THEN table[q].tags ELSE 0, table[q].created, q>>
    BY StrengthIs
  <1> DEFINE s == Strength(table[q], b, q)
             t == Strength(table[p], b, p)
  <1>3. /\ t[1] = -m /\ t[2] = (IF m = 3 THEN table[p].tags ELSE 0)
        /\ t[3] = table[p].created /\ t[4] = p
        /\ s[1] = -n /\ s[2] = (IF n = 3 THEN table[q].tags ELSE 0)
        /\ s[3] = table[q].created /\ s[4] = q
    BY <1>2
  <1> HIDE DEF s, t
  <1>4. Weaker(s, t) <=>
           \/ s[1] < t[1]
           \/ s[1] = t[1] /\ s[2] < t[2]
           \/ s[1] = t[1] /\ s[2] = t[2] /\ s[3] < t[3]
           \/ s[1] = t[1] /\ s[2] = t[2] /\ s[3] = t[3] /\ s[4] < t[4]
    <2>1. s[1] \in Int /\ s[2] \in Int /\ s[3] \in Int /\ s[4] \in Int
      BY <1>1, <1>3
    <2>2. t[1] \in Int /\ t[2] \in Int /\ t[3] \in Int /\ t[4] \in Int
      BY <1>1, <1>3
    <2> QED BY <2>1, <2>2, WeakerIs
  <1>5. Weaker(s, t) <=> m < n \/ (m = n /\ Prior(table, m, p, q))
    BY <1>1, <1>3, <1>4 DEF Prior
  <1> QED BY <1>5 DEF s, t

LEMMA Whole ==
  ASSUME NEW table \in Tables, NEW b
  PROVE  Effective(table, b) = Rest(table, b, 1)
PROOF
  <1> DEFINE G == {p \in PolicyId : /\ table[p].status = "active"
                                    /\ \E n \in DOMAIN Chain : Found(table[p], b, Chain[n])}
             Is(p) == \A q \in G \ {p} :
                         Weaker(Strength(table[q], b, q), Strength(table[p], b, p))
  <1>1. Effective(table, b) =
          IF G = {} THEN Default ELSE Resolved(table, CHOOSE p \in G : Is(p))
    BY DEF Effective
  <1>2. \A p : p \in G <=> \E n \in 1 .. 6 : p \in Candidate(table, b, n)
    BY DEF Candidate, Chain
  <1>3. ASSUME NEW p \in G
        PROVE  /\ p \in PolicyId
               /\ \E n \in 1 .. 6 : IsLevel(table[p], b, n) /\ p \in Candidate(table, b, n)
    BY <1>2, LevelOf DEF Candidate, IsLevel
  <1> HIDE DEF G
  <1>4. CASE \A m \in 1 .. 6 : Candidate(table, b, m) = {}
    BY <1>1, <1>2, <1>4 DEF Rest
  <1>5. CASE \E m \in 1 .. 6 : Candidate(table, b, m) # {}
    <2>1. PICK m \in 1 .. 6 : IsFirst(table, b, 1, m)
      BY <1>5, OneFirst
    <2>2. PICK p \in PolicyId : IsBest(table, b, m, p)
      BY <2>1, OneBest DEF IsFirst
    <2>3. p \in G /\ IsLevel(table[p], b, m)
      BY <1>2, <2>1, <2>2 DEF IsBest, IsFirst, Candidate, IsLevel
    <2>4. ASSUME NEW q \in G \ {p}
          PROVE  Weaker(Strength(table[q], b, q), Strength(table[p], b, p))
      <3>1. PICK n \in 1 .. 6 : IsLevel(table[q], b, n) /\ q \in Candidate(table, b, n)
        BY <1>3
      <3>2. m < n \/ (m = n /\ Prior(table, m, p, q))
        BY <2>1, <2>2, <3>1 DEF IsFirst, IsBest
      <3> QED BY <1>3, <2>3, <3>1, <3>2, Compared
    <2>5. ASSUME NEW q \in G, Is(q), q # p
          PROVE  FALSE
      <3>1. /\ Weaker(Strength(table[q], b, q), Strength(table[p], b, p))
            /\ Weaker(Strength(table[p], b, p), Strength(table[q], b, q))
        BY <2>3, <2>4, <2>5
      <3>2. PICK n \in 1 .. 6 : IsLevel(table[q], b, n)
        BY <1>3
      <3>3. /\ m < n \/ (m = n /\ Prior(table, m, p, q))
            /\ n < m \/ (n = m /\ Prior(table, n, q, p))
        BY <1>3, <2>3, <3>1, <3>2, Compared
      <3> QED BY <1>3, <2>3, <3>3, PriorOrders
    <2>6. (CHOOSE q \in G : Is(q)) = p
      <3>1. Is(p) /\ \A q \in G : Is(q) => q = p
        BY <2>4, <2>5
      <3> HIDE DEF Is
      <3> QED BY <2>3, <3>1
    <2>7. Rest(table, b, 1) = Resolved(table, p)
      BY <2>1, <2>2, RestIs
    <2> QED BY <1>1, <2>3, <2>6, <2>7
  <1> QED BY <1>4, <1>5

-----------------------------------------------------------------------------
(* One query, and one edit while a resolution is at level n.                *)

LEMMA EmptyLevel ==
  ASSUME NEW table \in Tables, NEW b, NEW n \in 1 .. 6, Candidate(table, b, n) = {}
  PROVE  Rest(table, b, n) = Rest(table, b, n + 1)
PROOF
  <1>1. CASE \A m \in n .. 6 : Candidate(table, b, m) = {}
    BY <1>1 DEF Rest
  <1>2. CASE \E m \in n .. 6 : Candidate(table, b, m) # {}
    <2>1. PICK m \in n .. 6 : IsFirst(table, b, n, m)
      BY <1>2, OneFirst
    <2>2. PICK p \in PolicyId : IsBest(table, b, m, p)
      BY <2>1, OneBest DEF IsFirst
    <2>3. IsFirst(table, b, n + 1, m)
      BY <2>1 DEF IsFirst
    <2> QED BY <2>1, <2>2, <2>3, RestIs
  <1> QED BY <1>1, <1>2

LEMMA EmptyLevels ==
  ASSUME NEW table \in Tables, NEW b, NEW n \in 1 .. 7,
         \A k \in 1 .. (n - 1) : Candidate(table, b, k) = {}
  PROVE  Rest(table, b, n) = Rest(table, b, 1)
PROOF
  <1>1. CASE \A m \in n .. 6 : Candidate(table, b, m) = {}
    BY <1>1 DEF Rest
  <1>2. CASE \E m \in n .. 6 : Candidate(table, b, m) # {}
    <2>1. PICK m \in n .. 6 : IsFirst(table, b, n, m)
      BY <1>2, OneFirst
    <2>2. PICK p \in PolicyId : IsBest(table, b, m, p)
      BY <2>1, OneBest DEF IsFirst
    <2>3. IsFirst(table, b, 1, m)
      BY <2>1 DEF IsFirst
    <2> QED BY <2>1, <2>2, <2>3, RestIs
  <1> QED BY <1>1, <1>2

(* What no route does to an active row: move it to another level, or change *)
(* its assignments together with anything else.                             *)
RowEdit(old, new) ==
  old.status = "active" =>
    /\ new.scope = old.scope
    /\ new.assigned = old.assigned \/ new = [old EXCEPT !.assigned = new.assigned]

(* The edit decides by itself what is found below level n, or the rest of   *)
(* the resolution does not see it.                                          *)
LEMMA OneEdit ==
  ASSUME NEW table \in Tables, NEW p \in PolicyId, NEW row \in PolicyRow, NEW b,
         NEW new \in Tables, new[p] = row, \A q \in PolicyId \ {p} : new[q] = table[q],
         RowEdit(table[p], row), NEW n \in 1 .. 6,
         \A k \in 1 .. (n - 1) : Candidate(table, b, k) = {}
  PROVE  Rest(new, b, n) \in {Rest(table, b, 1), Rest(new, b, 1)}
PROOF
  <1>1. n \in 1 .. 7 /\ n \in Int
    OBVIOUS
  <1>2. \A m, q : q # p => (q \in Candidate(new, b, m) <=> q \in Candidate(table, b, m))
    BY DEF Candidate
  <1>3. \A m : \A q, r \in PolicyId \ {p} : Prior(new, m, q, r) <=> Prior(table, m, q, r)
    BY <1>1 DEF Prior
  <1>4. CASE \A k \in 1 .. (n - 1) : Candidate(new, b, k) = {}
    BY <1>1, <1>4, EmptyLevels
  <1>5. CASE \E k \in 1 .. (n - 1) : Candidate(new, b, k) # {}
    <2>1. \A k \in 1 .. (n - 1) : Candidate(new, b, k) \subseteq {p}
      BY <1>2
    <2>2. PICK l \in 1 .. 6 : IsFirst(new, b, 1, l)
      <3>1. \E k \in 1 .. 6 : Candidate(new, b, k) # {}
        BY <1>1, <1>5
      <3> QED BY <3>1, OneFirst
    <2>3. l < n /\ Candidate(new, b, l) = {p}
      <3>1. l < n
        BY <1>1, <1>5, <2>2 DEF IsFirst
      <3> QED BY <1>1, <2>1, <2>2, <3>1 DEF IsFirst
    <2>4. Rest(new, b, 1) = Resolved(new, p)
      <3>1. IsBest(new, b, l, p)
        BY <2>3 DEF IsBest
      <3> QED BY <1>1, <2>2, <3>1, RestIs
    <2>5. Rest(table, b, n) = Rest(table, b, 1)
      BY <1>1, EmptyLevels
    <2>6. CASE \A m \in n .. 6 : p \notin Candidate(table, b, m)
      <3>1. CASE \A m \in n .. 6 : Candidate(new, b, m) = {}
        <4>1. \A m \in n .. 6 : Candidate(table, b, m) = {}
          BY <1>2, <2>6, <3>1
        <4> QED BY <2>5, <3>1, <4>1 DEF Rest
      <3>2. ASSUME NEW m \in n .. 6, NEW q \in PolicyId,
                   IsFirst(new, b, n, m), IsBest(new, b, m, q),
                   Rest(new, b, n) = Resolved(new, q)
            PROVE  Rest(new, b, n) \in {Rest(table, b, 1), Rest(new, b, 1)}
        <4>1. CASE q = p
          BY <2>4, <3>2, <4>1
        <4>2. CASE q # p
          <5>1. q \in Candidate(table, b, m) /\ Candidate(table, b, m) \subseteq PolicyId \ {p}
            BY <1>2, <2>6, <3>2, <4>2 DEF IsBest, Candidate
          <5>2. IsFirst(table, b, n, m)
            <6>1. \A k \in n .. (m - 1) : Candidate(table, b, k) = {}
              BY <1>2, <2>6, <3>2 DEF IsFirst
            <6> QED BY <5>1, <6>1 DEF IsFirst
          <5>3. IsBest(table, b, m, q)
            BY <1>2, <1>3, <3>2, <4>2, <5>1 DEF IsBest
          <5>4. Rest(table, b, n) = Resolved(table, q)
            BY <5>2, <5>3, RestIs
          <5> QED BY <1>1, <2>5, <3>2, <4>2, <5>4 DEF Resolved
        <4> QED BY <4>1, <4>2
      <3> QED BY <1>1, <3>1, <3>2, RestTyped
    <2>7. ASSUME NEW m \in n .. 6, p \in Candidate(table, b, m)
          PROVE  Rest(new, b, n) = Rest(table, b, n)
      <3>1. /\ \A k \in 1 .. 6 : Chain[k] = "explicit" <=> k = 1
            /\ \A k, j \in 1 .. 6 : Chain[k] = Chain[j] => k = j
        BY DEF Chain
      <3>2. table[p].status = "active" /\ row.scope = table[p].scope
        BY <2>7 DEF Candidate, RowEdit
      <3>3. Chain[m] = row.scope
        BY <2>3, <2>7, <3>1, <3>2 DEF Candidate, Found
      <3>4. l = 1
        BY <1>1, <2>3, <2>7, <3>1, <3>3 DEF Candidate, Found
      <3>5. b \in row.assigned /\ b \notin table[p].assigned
        BY <1>1, <2>3, <3>1, <3>2, <3>4 DEF Candidate, Found
      <3>6. row = [table[p] EXCEPT !.assigned = row.assigned]
        BY <3>2, <3>5 DEF RowEdit
      <3>7. /\ row.status = table[p].status /\ row.target = table[p].target
            /\ row.tags = table[p].tags /\ row.created = table[p].created
            /\ row.auto = table[p].auto
        BY <3>6 DEF Tables, PolicyRow
      <3>8. \A k \in n .. 6 : Candidate(new, b, k) = Candidate(table, b, k)
        <4> SUFFICES ASSUME NEW k \in n .. 6
                     PROVE  p \in Candidate(new, b, k) <=> p \in Candidate(table, b, k)
          BY <1>2
        <4>1. Chain[k] # "explicit"
          BY <2>3, <3>1
        <4> QED BY <1>1, <3>2, <3>7, <4>1 DEF Candidate, Found
      <3>9. \A k, q, r : q \in PolicyId /\ r \in PolicyId =>
               (Prior(new, k, q, r) <=> Prior(table, k, q, r))
        BY <1>1, <3>7 DEF Prior
      <3>10. \A k \in n .. 6 : IsFirst(new, b, n, k) <=> IsFirst(table, b, n, k)
        BY <3>8 DEF IsFirst
      <3>11. \A k \in n .. 6, q \in PolicyId :
                IsBest(new, b, k, q) <=> IsBest(table, b, k, q)
        BY <3>8, <3>9 DEF IsBest, Candidate
      <3>12. \A q \in PolicyId : Resolved(new, q) = Resolved(table, q)
        BY <1>1, <3>7 DEF Resolved
      <3>13. CASE \A k \in n .. 6 : Candidate(new, b, k) = {}
        BY <3>8, <3>13 DEF Rest
      <3>14. ASSUME NEW k \in n .. 6, NEW q \in PolicyId,
                    IsFirst(new, b, n, k), IsBest(new, b, k, q),
                    Rest(new, b, n) = Resolved(new, q)
             PROVE  Rest(new, b, n) = Rest(table, b, n)
        BY <3>10, <3>11, <3>12, <3>14, RestIs
      <3> QED BY <1>1, <3>13, <3>14, RestTyped
    <2> QED BY <2>5, <2>6, <2>7
  <1> QED BY <1>4, <1>5

-----------------------------------------------------------------------------
(* The inductive invariant.                                                 *)

Results == [policy : PolicyId \cup {Nobody}, auto : BOOLEAN]

Resolution == [level : 0 .. 7, blob : Blob \cup {"null"}, result : Results,
               seen : SUBSET Results, edits : 0 .. 2]

PolicyTypes ==
  /\ policy \in Tables
  /\ resolution \in [Resolver -> Resolution]
  /\ edits \in 0 .. MaxEdits

(* What a resolution under way will find, should nobody interfere, has been *)
(* in force since it began; before the first edit, nothing was passed over. *)
Sound(table, r) ==
  /\ r.level \in 1 .. 6 =>
        /\ r.result = Default
        /\ r.edits <= 1 => Rest(table, r.blob, r.level) \in r.seen
        /\ r.edits = 0 => \A k \in 1 .. (r.level - 1) : Candidate(table, r.blob, k) = {}
  /\ r.level = 7 /\ r.edits <= 1 => r.result \in r.seen

ResolutionInv == \A j \in Resolver : Sound(policy, resolution[j])

Renewal == [stage : Stages, policy : PolicyId \cup {Nobody}, estimate : Estimates \cup {0},
            limits : SUBSET (LimitId \X LimitRow), overridden : BOOLEAN, soft : BOOLEAN]

RenewalTypes ==
  /\ cost \in [Blob -> Nat]
  /\ renewal \in [Blob -> Renewal]
  /\ \A b \in Blob : renewal[b].stage = "resolving" <=> resolution[b].level # 0

LimitTypes ==
  /\ limit \in [LimitId -> LimitRow] /\ budget \in BudgetRow
  /\ rollover \in {"none", "active"}

(* A request about to write has found its move in the table.               *)
PolicyRequests ==
  /\ policyReq \in [PolicyRequest ->
        [to : {"none"}] \cup [to : PolicyStatus, row : PolicyId, saw : PolicyStatus]]
  /\ \A q \in PolicyRequest :
        policyReq[q].to # "none" => <<policyReq[q].saw, policyReq[q].to>> \in PolicyTransition

LimitRequests ==
  /\ limitReq \in {NoLimitRequest}
        \cup [kind : {"limit"}, row : LimitId, to : LimitStatus, saw : LimitStatus]
        \cup [kind : {"budget"}, to : BudgetStatus, saw : BudgetStatus]
  /\ limitReq.kind = "limit" => <<limitReq.saw, limitReq.to>> \in LimitTransition
  /\ limitReq.kind = "budget" => <<limitReq.saw, limitReq.to>> \in BudgetTransition

SpendingInv ==
  /\ PolicyTypes /\ ResolutionInv /\ PolicyRequests
  /\ LimitTypes /\ LimitRequests /\ RenewalTypes

LEMMA InitSpending == SpendingInit => SpendingInv
PROOF
  <1> SUFFICES ASSUME SpendingInit PROVE SpendingInv
    OBVIOUS
  <1> USE DEF SpendingInit, PolicyInit
  <1>1. NoResolution \in Resolution /\ NoResolution.level = 0
    BY DEF NoResolution, Resolution, Results, Default
  <1>2. PolicyTypes
    <2>1. policy \in Tables
      BY TableAssumption DEF Tables
    <2>2. resolution \in [Resolver -> Resolution]
      BY <1>1
    <2>3. edits \in 0 .. MaxEdits
      BY BoundAssumption, SpendingAssumption
    <2> QED BY <2>1, <2>2, <2>3 DEF PolicyTypes
  <1>3. ResolutionInv
    BY <1>1 DEF ResolutionInv, Sound
  <1>4. LimitTypes /\ RenewalTypes
    <2>1. limit \in [LimitId -> LimitRow] /\ budget \in BudgetRow /\ cost \in [Blob -> Nat]
      BY SpendingAssumption
    <2>2. NoRenewal \in Renewal /\ NoRenewal.stage = "none"
      BY DEF NoRenewal, Renewal, Stages, Nobody
    <2>3. \A b \in Blob : renewal[b].stage = "resolving" <=> resolution[b].level # 0
      BY <1>1, <2>2, ResolverAssumption
    <2> QED BY <2>1, <2>2, <2>3 DEF LimitTypes, RenewalTypes
  <1>5. PolicyRequests /\ LimitRequests
    BY DEF PolicyRequests, LimitRequests, NoLimitRequest
  <1> QED BY <1>2, <1>3, <1>4, <1>5 DEF SpendingInv

-----------------------------------------------------------------------------
(* What a step does to the policies and the resolutions.                    *)

Puts(p, row) ==
  /\ Put(p, row) /\ row \in PolicyRow
  /\ \/ RowEdit(policy[p], row)
     \/ row.scope # policy[p].scope /\ policy[p].status # "absent"

RouteStep ==
  (\E p \in PolicyId, row \in PolicyRow : Puts(p, row)) \/ UNCHANGED <<policy, resolution>>

PolicyStep ==
  \/ RouteStep
  \/ /\ UNCHANGED policy
     /\ \/ UNCHANGED resolution
        \/ \E j \in Resolver : \/ \E b \in Blob : BeginResolution(j, b)
                               \/ ResolveLevel(j)
                               \/ resolution' = [resolution EXCEPT ![j] = NoResolution]

LEMMA RoutesPut ==
  ASSUME PolicyTypes, PolicyRequests, PolicyRoutes
  PROVE  RouteStep
PROOF
  <1>1. ASSUME NEW p \in PolicyId, NEW row \in NewPolicies, CreatePolicy(p, row)
        PROVE  RouteStep
    <2> DEFINE times == {policy[q].created : q \in PolicyId}
               latest == CHOOSE t \in times : \A u \in times : u <= t
    <2>1. PICK t \in {latest, latest + 1} :
             Put(p, [row EXCEPT !.status = "draft", !.created = t, !.assigned = {}])
      BY <1>1 DEF CreatePolicy
    <2>2. latest \in Nat
      <3>1. times \subseteq Nat /\ times # {}
        BY DEF PolicyTypes, Tables, PolicyRow
      <3>2. IsFiniteSet(times)
        <4> DEFINE created == [q \in PolicyId |-> policy[q].created]
        <4>1. created \in Surjection(PolicyId, times)
          BY DEF Surjection
        <4> QED BY <4>1, PolicyIdAssumption, FS_Surjection
      <3> HIDE DEF times
      <3> QED BY <3>1, <3>2, LatestIsNat
    <2> HIDE DEF latest
    <2> DEFINE new == [row EXCEPT !.status = "draft", !.created = t, !.assigned = {}]
    <2>3. row \in PolicyRow
      BY TableAssumption
    <2>4. t \in Nat
      BY <2>1, <2>2
    <2>6. new \in PolicyRow
      BY <2>3, <2>4 DEF PolicyRow, PolicyStatus
    <2>5. RowEdit(policy[p], new)
      BY <1>1 DEF CreatePolicy, RowEdit
    <2> QED BY <2>1, <2>5, <2>6 DEF RouteStep, Puts
  <1>2. ASSUME NEW p \in PolicyId, NEW row \in NewPolicies, PatchPolicy(p, row)
        PROVE  RouteStep
    <2> DEFINE new == [policy[p] EXCEPT !.scope = row.scope, !.target = row.target,
                                        !.tags = row.tags, !.auto = row.auto]
    <2>1. row \in PolicyRow /\ policy[p] \in PolicyRow
      BY TableAssumption DEF PolicyTypes, Tables
    <2>2. new \in PolicyRow /\ new.scope = row.scope /\ new.assigned = policy[p].assigned
      BY <2>1 DEF PolicyRow
    <2>3. Put(p, new) /\ policy[p].status # "absent"
      BY <1>2 DEF PatchPolicy
    <2> HIDE DEF new
    <2>4. Puts(p, new)
      BY <2>2, <2>3 DEF Puts, RowEdit
    <2> QED BY <2>2, <2>4 DEF RouteStep
  <1>3. ASSUME NEW p \in PolicyId, NEW A \in SUBSET Blob,
               Put(p, [policy[p] EXCEPT !.assigned = A])
        PROVE  RouteStep
    <2> DEFINE new == [policy[p] EXCEPT !.assigned = A]
    <2>1. policy[p] \in PolicyRow
      BY DEF PolicyTypes, Tables
    <2>2. new \in PolicyRow /\ new.scope = policy[p].scope /\ new.assigned = A
      BY <2>1 DEF PolicyRow
    <2>3. RowEdit(policy[p], new)
      BY <2>2 DEF RowEdit
    <2> QED BY <1>3, <2>2, <2>3 DEF RouteStep, Puts
  <1>4. ASSUME NEW p \in PolicyId, NEW b \in Blob, AssignPolicy(p, b) \/ UnassignPolicy(p, b)
        PROVE  RouteStep
    <2>1. policy[p].assigned \in SUBSET Blob
      BY DEF PolicyTypes, Tables, PolicyRow
    <2>2. \E A \in SUBSET Blob : Put(p, [policy[p] EXCEPT !.assigned = A])
      BY <1>4, <2>1 DEF AssignPolicy, UnassignPolicy
    <2> QED BY <1>3, <2>2
  <1>5. ASSUME NEW q \in PolicyRequest, NEW p \in PolicyId, NEW to \in PolicyStatus,
               PolicyMoveRead(q, p, to)
        PROVE  RouteStep
    BY <1>5 DEF PolicyMoveRead, RouteStep
  <1>6. ASSUME NEW q \in PolicyRequest, PolicyMoveWrite(q)
        PROVE  RouteStep
    <2> DEFINE p == policyReq[q].row
               new == [policy[p] EXCEPT !.status = policyReq[q].to]
    <2>1. p \in PolicyId /\ policyReq[q].to \in PolicyStatus
      BY <1>6 DEF PolicyMoveWrite, PolicyRequests
    <2>2. policy[p] \in PolicyRow
      BY <2>1 DEF PolicyTypes, Tables
    <2>3. /\ new \in PolicyRow /\ new.scope = policy[p].scope
          /\ new.assigned = policy[p].assigned
      BY <2>1, <2>2 DEF PolicyRow
    <2>4. Put(p, new)
      BY <1>6 DEF PolicyMoveWrite
    <2> HIDE DEF new, p
    <2>5. Puts(p, new)
      BY <2>3, <2>4 DEF Puts, RowEdit
    <2> QED BY <2>1, <2>3, <2>5 DEF RouteStep
  <1> QED BY <1>1, <1>2, <1>4, <1>5, <1>6 DEF PolicyRoutes

(* The steps of a renewal, but for the queries of its resolution.           *)
RenewalSteps ==
  \E b \in Blob :
    \/ StartCycleRenewal(b)
    \/ \E estimate \in Estimates :
         PolicyResolved(b, estimate) \/ StartQueuedRenewal(b, estimate, FALSE)
    \/ StartQueuedRenewal(b, 0, TRUE)
    \/ SelectLimits(b) \/ CheckBudgets(b)
    \/ \E l \in LimitId : CheckLimit(b, l)
    \/ \E ok \in BOOLEAN : Execute(b, ok)
    \/ \E actual \in 1 .. MaxCost : RecordActualCost(b, actual)

LEMMA StepsOfNext ==
  ASSUME [SpendingNext]_allVars
  PROVE  \/ RenewalSteps
         \/ \E b \in Blob : ResolveLevel(b) /\ UNCHANGED spendVars
         \/ \E b \in Blob : PeriodLapses(b)
         \/ PolicyRoutes /\ UNCHANGED spendVars
         \/ LimitRoutes
         \/ UNCHANGED allVars
PROOF
  BY Zenon DEF SpendingNext, RenewalSteps

LEMMA NextPolicyStep ==
  ASSUME PolicyTypes, PolicyRequests, [SpendingNext]_allVars
  PROVE  PolicyStep
PROOF
  <1>1. CASE RenewalSteps
    <2>1. PICK b \in Blob :
            \/ StartCycleRenewal(b)
            \/ \E estimate \in Estimates :
                 PolicyResolved(b, estimate) \/ StartQueuedRenewal(b, estimate, FALSE)
            \/ StartQueuedRenewal(b, 0, TRUE)
            \/ SelectLimits(b) \/ CheckBudgets(b)
            \/ \E l \in LimitId : CheckLimit(b, l)
            \/ \E ok \in BOOLEAN : Execute(b, ok)
            \/ \E actual \in 1 .. MaxCost : RecordActualCost(b, actual)
      BY <1>1 DEF RenewalSteps
    <2>2. UNCHANGED policy
      BY <2>1 DEF StartCycleRenewal, PolicyResolved, StartQueuedRenewal, SelectLimits,
                  CheckBudgets, CheckLimit, Execute, RecordActualCost, renewalRest
    <2>3. CASE StartCycleRenewal(b)
      BY <2>2, <2>3, ResolverAssumption DEF StartCycleRenewal, PolicyStep
    <2>4. CASE \E estimate \in Estimates : PolicyResolved(b, estimate)
      BY <2>2, <2>4, ResolverAssumption DEF PolicyResolved, PolicyStep
    <2>5. CASE UNCHANGED resolution
      BY <2>2, <2>5 DEF PolicyStep
    <2> QED BY <2>1, <2>3, <2>4, <2>5
            DEF StartQueuedRenewal, SelectLimits, CheckBudgets, CheckLimit, Execute,
                RecordActualCost
  <1>2. CASE \E b \in Blob : ResolveLevel(b)
    BY <1>2, ResolverAssumption DEF ResolveLevel, PolicyStep
  <1>3. CASE \E b \in Blob : PeriodLapses(b)
    BY <1>3 DEF PeriodLapses, PolicyStep
  <1>4. CASE PolicyRoutes
    BY <1>4, RoutesPut DEF PolicyStep
  <1>5. CASE LimitRoutes
    BY <1>5 DEF LimitRoutes, CreateLimit, PatchLimit, LimitMoveRead, LimitMoveWrite,
                CreateBudget, BudgetMoveRead, BudgetMoveWrite, RolloverSelect,
                RolloverWrite, apiRest, PolicyStep
  <1>6. CASE UNCHANGED allVars
    BY <1>6 DEF allVars, policyVars, PolicyStep
  <1> QED BY <1>1, <1>2, <1>3, <1>4, <1>5, <1>6, StepsOfNext

-----------------------------------------------------------------------------
(* The resolutions, step by step.                                           *)

LEMMA Begun ==
  ASSUME NEW b, NEW e
  PROVE  [NoResolution EXCEPT !.level = 1, !.blob = b, !.seen = {e}] =
           [level |-> 1, blob |-> b, result |-> Default, seen |-> {e}, edits |-> 0]
PROOF
  <1> DEFINE one == [NoResolution EXCEPT !.level = 1]
             two == [one EXCEPT !.blob = b]
             three == [two EXCEPT !.seen = {e}]
  <1>1. one = [level |-> 1, blob |-> "null", result |-> Default, seen |-> {}, edits |-> 0]
    BY DEF NoResolution
  <1> HIDE DEF one
  <1>2. two = [level |-> 1, blob |-> b, result |-> Default, seen |-> {}, edits |-> 0]
    BY <1>1
  <1> HIDE DEF two
  <1>3. three = [level |-> 1, blob |-> b, result |-> Default, seen |-> {e}, edits |-> 0]
    BY <1>2
  <1> QED BY <1>3 DEF two, one

LEMMA BeginKeeps ==
  ASSUME PolicyTypes, ResolutionInv, NEW j \in Resolver, NEW b \in Blob,
         BeginResolution(j, b), UNCHANGED policy
  PROVE  resolution' \in [Resolver -> Resolution] /\ ResolutionInv'
PROOF
  <1>1. policy \in Tables /\ policy' = policy
    BY DEF PolicyTypes
  <1> DEFINE r == [NoResolution EXCEPT !.level = 1, !.blob = b, !.seen = {Effective(policy, b)}]
  <1>2. Effective(policy, b) = Rest(policy, b, 1) /\ Effective(policy, b) \in Results
    BY <1>1, Whole, RestTyped DEF Results
  <1>3. /\ r = [level |-> 1, blob |-> b, result |-> Default, seen |-> {Rest(policy, b, 1)},
               edits |-> 0]
        /\ Default \in Results
    <2>1. Default \in Results
      BY DEF Results, Default
    <2>2. r = [level |-> 1, blob |-> b, result |-> Default,
               seen |-> {Effective(policy, b)}, edits |-> 0]
      BY Begun
    <2> QED BY <1>2, <2>1, <2>2
  <1>4. resolution' = [resolution EXCEPT ![j] = r]
    BY DEF BeginResolution
  <1> HIDE DEF r
  <1>5. r \in Resolution /\ Sound(policy, r)
    <2> DEFINE rest == Rest(policy, b, 1)
    <2>1. rest \in Results
      BY <1>2
    <2> HIDE DEF rest
    <2>2. r = [level |-> 1, blob |-> b, result |-> Default, seen |-> {rest}, edits |-> 0]
      BY <1>3 DEF rest
    <2>3. r \in Resolution
      BY <1>3, <2>1, <2>2 DEF Resolution
    <2>4. Sound(policy, r)
      BY <2>2 DEF Sound, rest
    <2> QED BY <2>3, <2>4
  <1> QED BY <1>1, <1>4, <1>5 DEF PolicyTypes, ResolutionInv

LEMMA EndKeeps ==
  ASSUME PolicyTypes, ResolutionInv, NEW j \in Resolver, UNCHANGED policy,
         resolution' = [resolution EXCEPT ![j] = NoResolution]
  PROVE  resolution' \in [Resolver -> Resolution] /\ ResolutionInv'
PROOF
  <1>1. NoResolution \in Resolution /\ NoResolution.level = 0
    BY DEF NoResolution, Resolution, Results, Default
  <1>2. /\ resolution' \in [Resolver -> Resolution] /\ policy' = policy
        /\ resolution'[j] = NoResolution
        /\ \A i \in Resolver \ {j} : resolution'[i] = resolution[i]
    BY <1>1 DEF PolicyTypes
  <1>3. ResolutionInv'
    BY <1>1, <1>2 DEF ResolutionInv, Sound
  <1> QED BY <1>2, <1>3

LEMMA LevelKeeps ==
  ASSUME PolicyTypes, ResolutionInv, NEW j \in Resolver, ResolveLevel(j)
  PROVE  /\ resolution' \in [Resolver -> Resolution] /\ ResolutionInv'
         /\ \A i \in Resolver : resolution'[i].level # 0 <=> resolution[i].level # 0
PROOF
  <1> DEFINE r == resolution[j]
             n == r.level
             b == r.blob
             found == Candidates(b, Levels[n])
             best == CHOOSE p \in found : \A q \in found \ {p} : Before(Levels[n], p, q)
             s == IF found = {} THEN [r EXCEPT !.level = n + 1]
                  ELSE [r EXCEPT !.level = Done, !.result = Resolved(policy, best)]
  <1>1. n \in 1 .. 6 /\ Done = 7
    BY DEF ResolveLevel, Levels, Done
  <1>2. policy \in Tables /\ policy' = policy /\ r \in Resolution
    BY DEF PolicyTypes, ResolveLevel
  <1>3. resolution' = [resolution EXCEPT ![j] = s]
    BY DEF ResolveLevel
  <1>4. /\ found = Candidate(policy, b, n)
        /\ \A p, q : Before(Levels[n], p, q) <=> Prior(policy, n, p, q)
    BY <1>1, QueryReads
  <1>5. s \in Resolution /\ Sound(policy, s) /\ s.level # 0
    <2>1. r.edits <= 1 => Rest(policy, b, n) \in r.seen
      BY <1>1 DEF ResolutionInv, Sound
    <2>2. CASE found = {}
      <3>1. /\ s = [r EXCEPT !.level = n + 1]
            /\ s \in Resolution /\ s.level = n + 1 /\ s.seen = r.seen
            /\ s.edits = r.edits /\ s.blob = b /\ s.result = r.result
        BY <1>1, <1>2, <2>2 DEF Resolution
      <3>2. Rest(policy, b, n) = Rest(policy, b, n + 1)
        BY <1>1, <1>2, <1>4, <2>2, EmptyLevel
      <3>3. n = 6 => Rest(policy, b, n + 1) = Default
        BY DEF Rest
      <3>4. /\ r.result = Default
            /\ r.edits = 0 => \A k \in 1 .. (n - 1) : Candidate(policy, b, k) = {}
        BY <1>1 DEF ResolutionInv, Sound
      <3>5. r.edits = 0 => \A k \in 1 .. n : Candidate(policy, b, k) = {}
        <4> SUFFICES ASSUME r.edits = 0, NEW k \in 1 .. n
                     PROVE  Candidate(policy, b, k) = {}
          OBVIOUS
        <4>1. k = n \/ k \in 1 .. (n - 1)
          BY <1>1
        <4> QED BY <1>4, <2>2, <3>4, <4>1
      <3> HIDE DEF s, found
      <3> QED BY <1>1, <2>1, <3>1, <3>2, <3>3, <3>4, <3>5 DEF Sound
    <2>3. CASE found # {}
      <3>1. PICK p \in PolicyId : /\ IsBest(policy, b, n, p)
                                  /\ \A q : IsBest(policy, b, n, q) => q = p
        BY <1>1, <1>2, <1>4, <2>3, OneBest
      <3>2. best = p
        BY <1>4, <3>1, Zenon DEF IsBest
      <3>3. IsFirst(policy, b, n, n)
        BY <1>1, <1>4, <2>3 DEF IsFirst
      <3>4. Rest(policy, b, n) = Resolved(policy, p)
        BY <1>1, <1>2, <3>1, <3>3, RestIs
      <3>5. Resolved(policy, p) \in Results
        BY <1>2, <3>1 DEF Resolved, Results, Tables, PolicyRow
      <3>6. s = [r EXCEPT !.level = 7, !.result = Resolved(policy, p)]
        BY <1>1, <2>3, <3>2
      <3>7. /\ s \in Resolution /\ s.level = 7 /\ s.seen = r.seen
            /\ s.edits = r.edits /\ s.blob = b /\ s.result = Resolved(policy, p)
        <4> DEFINE x == Resolved(policy, p)
        <4>1. x \in Results /\ s = [r EXCEPT !.level = 7, !.result = x] /\ b = r.blob
          BY <3>5, <3>6
        <4> HIDE DEF s, r, b, x
        <4>2. r \in Resolution
          BY <1>2
        <4> DEFINE u == [r EXCEPT !.level = 7]
        <4>3. /\ u \in Resolution /\ u.level = 7 /\ u.seen = r.seen
              /\ u.edits = r.edits /\ u.blob = r.blob
          BY <4>2 DEF Resolution
        <4>4. s = [u EXCEPT !.result = x]
          BY <4>1
        <4> HIDE DEF u
        <4>5. s \in Resolution
          BY <4>1, <4>3, <4>4 DEF Resolution
        <4>6. /\ s.level = u.level /\ s.seen = u.seen /\ s.edits = u.edits
              /\ s.blob = u.blob /\ s.result = x
          BY <4>3, <4>4 DEF Resolution
        <4> QED BY <4>1, <4>3, <4>5, <4>6 DEF x
      <3> HIDE DEF s
      <3> QED BY <2>1, <3>4, <3>7 DEF Sound
    <2> QED BY <2>2, <2>3
  <1> HIDE DEF s
  <1>6. /\ resolution' \in [Resolver -> Resolution]
        /\ resolution'[j] = s /\ \A i \in Resolver \ {j} : resolution'[i] = resolution[i]
    BY <1>3, <1>5 DEF PolicyTypes
  <1>7. ResolutionInv'
    BY <1>2, <1>5, <1>6 DEF ResolutionInv
  <1> QED BY <1>1, <1>5, <1>6, <1>7

LEMMA PutKeeps ==
  ASSUME PolicyTypes, ResolutionInv, NEW p \in PolicyId, NEW row \in PolicyRow, Puts(p, row)
  PROVE  /\ policy' \in Tables
         /\ resolution' \in [Resolver -> Resolution]
         /\ \A j \in Resolver : resolution'[j].level = resolution[j].level
         /\ ResolutionInv'
PROOF
  <1> DEFINE moved == row.scope # policy[p].scope /\ policy[p].status # "absent"
             new == [policy EXCEPT ![p] = row]
             after(r) == IF r.level \notin DOMAIN Levels THEN r
                         ELSE IF moved \/ r.edits >= 1 THEN [r EXCEPT !.edits = 2, !.seen = {}]
                         ELSE [r EXCEPT !.edits = 1,
                                        !.seen = r.seen \cup {Effective(new, r.blob)}]
  <1>1. policy' = new /\ resolution' = [j \in Resolver |-> after(resolution[j])]
    BY DEF Puts, Put
  <1>2. /\ policy \in Tables /\ new \in Tables /\ new[p] = row
        /\ \A q \in PolicyId \ {p} : new[q] = policy[q]
    BY DEF PolicyTypes, Tables
  <1>3. moved \/ RowEdit(policy[p], row)
    BY DEF Puts
  <1> HIDE DEF new, moved
  <1>4. ASSUME NEW r \in Resolution, Sound(policy, r)
        PROVE  /\ after(r) \in Resolution /\ after(r).level = r.level
               /\ Sound(new, after(r))
    <2> DEFINE n == r.level
               b == r.blob
    <2>1. \A k : k \in DOMAIN Levels <=> k \in 1 .. 6
      BY DEF Levels
    <2>2. CASE n \notin 1 .. 6
      <3>1. after(r) = r
        BY <2>1, <2>2
      <3> QED BY <1>4, <2>2, <3>1 DEF Sound
    <2>3. CASE n \in 1 .. 6 /\ (moved \/ r.edits >= 1)
      <3> DEFINE s == [r EXCEPT !.edits = 2, !.seen = {}]
      <3>1. after(r) = s
        BY <2>1, <2>3
      <3>2. /\ s \in Resolution /\ s.level = n /\ s.edits = 2 /\ s.result = r.result
        <4> DEFINE u == [r EXCEPT !.edits = 2]
        <4>1. u \in Resolution /\ u.level = n /\ u.edits = 2 /\ u.result = r.result
          BY DEF Resolution
        <4> HIDE DEF u
        <4> DEFINE v == [u EXCEPT !.seen = {}]
        <4>2. v \in Resolution /\ v.level = u.level /\ v.edits = u.edits /\ v.result = u.result
          BY <4>1 DEF Resolution
        <4>3. v = s
          BY DEF u
        <4> HIDE DEF v
        <4> QED BY <4>1, <4>2, <4>3
      <3>3. r.result = Default
        BY <1>4, <2>3 DEF Sound
      <3> HIDE DEF s
      <3>4. Sound(new, s)
        BY <2>3, <3>2, <3>3 DEF Sound
      <3> HIDE DEF after
      <3> QED BY <3>1, <3>2, <3>4
    <2>4. CASE n \in 1 .. 6 /\ ~moved /\ ~(r.edits >= 1)
      <3> DEFINE x == Effective(new, b)
                 seen == r.seen \cup {x}
                 s == [r EXCEPT !.edits = 1, !.seen = seen]
      <3>1. after(r) = s
        BY <2>1, <2>4
      <3>2. r.edits = 0
        BY <2>4 DEF Resolution
      <3>3. /\ Rest(policy, b, n) \in r.seen /\ r.result = Default
            /\ \A k \in 1 .. (n - 1) : Candidate(policy, b, k) = {}
        BY <1>4, <2>4, <3>2 DEF Sound
      <3>4. Rest(policy, b, 1) \in r.seen
        <4>1. n \in 1 .. 7
          BY <2>4
        <4>2. Rest(policy, b, n) = Rest(policy, b, 1)
          BY <1>2, <3>3, <4>1, EmptyLevels
        <4> QED BY <3>3, <4>2
      <3>5. x = Rest(new, b, 1) /\ x \in Results
        BY <1>2, Whole, RestTyped DEF Results
      <3>6. RowEdit(policy[p], row)
        BY <1>3, <2>4
      <3>7. Rest(new, b, n) \in {Rest(policy, b, 1), Rest(new, b, 1)}
        BY <1>2, <2>4, <3>3, <3>6, OneEdit
      <3> HIDE DEF x
      <3>8. seen \in SUBSET Results /\ Rest(new, b, n) \in seen
        BY <3>4, <3>5, <3>7 DEF Resolution
      <3> HIDE DEF seen
      <3>9. /\ s \in Resolution /\ s.level = n /\ s.blob = b /\ s.edits = 1
            /\ s.result = r.result /\ s.seen = seen
        <4> DEFINE u == [r EXCEPT !.edits = 1]
        <4>1. /\ u \in Resolution /\ u.level = n /\ u.blob = b /\ u.edits = 1
              /\ u.result = r.result
          BY DEF Resolution
        <4> HIDE DEF u
        <4> DEFINE v == [u EXCEPT !.seen = seen]
        <4>2. /\ v \in Resolution /\ v.level = u.level /\ v.blob = u.blob
              /\ v.edits = u.edits /\ v.result = u.result /\ v.seen = seen
          BY <3>8, <4>1 DEF Resolution
        <4>3. v = s
          BY DEF u
        <4> HIDE DEF v
        <4> QED BY <4>1, <4>2, <4>3
      <3> HIDE DEF s
      <3>10. Sound(new, s)
        BY <2>4, <3>3, <3>8, <3>9 DEF Sound
      <3> HIDE DEF after
      <3> QED BY <3>1, <3>9, <3>10
    <2> QED BY <2>2, <2>3, <2>4
  <1> HIDE DEF after
  <1>5. \A j \in Resolver : resolution[j] \in Resolution /\ Sound(policy, resolution[j])
    BY DEF PolicyTypes, ResolutionInv
  <1> QED BY <1>1, <1>2, <1>4, <1>5 DEF ResolutionInv

LEMMA PolicyStepKeeps ==
  ASSUME PolicyTypes, ResolutionInv, PolicyStep
  PROVE  /\ policy' \in Tables /\ resolution' \in [Resolver -> Resolution]
         /\ ResolutionInv'
PROOF
  <1>1. CASE \E p \in PolicyId, row \in PolicyRow : Puts(p, row)
    BY <1>1, PutKeeps
  <1>2. CASE UNCHANGED <<policy, resolution>>
    BY <1>2 DEF PolicyTypes, ResolutionInv
  <1>3. ASSUME NEW j \in Resolver, NEW b \in Blob, BeginResolution(j, b), UNCHANGED policy
        PROVE  /\ policy' \in Tables /\ resolution' \in [Resolver -> Resolution]
               /\ ResolutionInv'
    BY <1>3, BeginKeeps DEF PolicyTypes
  <1>4. ASSUME NEW j \in Resolver, ResolveLevel(j), UNCHANGED policy
        PROVE  /\ policy' \in Tables /\ resolution' \in [Resolver -> Resolution]
               /\ ResolutionInv'
    BY <1>4, LevelKeeps DEF PolicyTypes
  <1>5. ASSUME NEW j \in Resolver, resolution' = [resolution EXCEPT ![j] = NoResolution],
               UNCHANGED policy
        PROVE  /\ policy' \in Tables /\ resolution' \in [Resolver -> Resolution]
               /\ ResolutionInv'
    BY <1>5, EndKeeps DEF PolicyTypes
  <1> QED BY <1>1, <1>2, <1>3, <1>4, <1>5 DEF PolicyStep, RouteStep

-----------------------------------------------------------------------------
(* The requests, the edits and the spending's own variables.                *)

LEMMA RequestsKept ==
  ASSUME PolicyRequests, PolicyTypes, [SpendingNext]_allVars
  PROVE  PolicyRequests' /\ edits' \in 0 .. MaxEdits
PROOF
  <1>1. edits \in 0 .. MaxEdits /\ MaxEdits \in Nat
    BY BoundAssumption DEF PolicyTypes
  <1>2. Edit => edits' \in 0 .. MaxEdits
    BY <1>1 DEF Edit
  <1>3. CASE UNCHANGED policyReq /\ (Edit \/ UNCHANGED edits)
    BY <1>1, <1>2, <1>3 DEF PolicyRequests
  <1>4. CASE RenewalSteps
    BY <1>3, <1>4 DEF RenewalSteps, StartCycleRenewal, PolicyResolved, StartQueuedRenewal,
          SelectLimits, CheckBudgets, CheckLimit, Execute, RecordActualCost, renewalRest
  <1>5. CASE \E b \in Blob : ResolveLevel(b)
    BY <1>3, <1>5 DEF ResolveLevel
  <1>6. CASE \E b \in Blob : PeriodLapses(b)
    BY <1>3, <1>6 DEF PeriodLapses
  <1>7. CASE LimitRoutes
    BY <1>3, <1>7 DEF LimitRoutes, CreateLimit, PatchLimit, LimitMoveRead, LimitMoveWrite,
                CreateBudget, BudgetMoveRead, BudgetMoveWrite, RolloverSelect,
                RolloverWrite, apiRest
  <1>8. CASE UNCHANGED allVars
    BY <1>3, <1>8 DEF allVars, policyVars
  <1>9. ASSUME NEW q \in PolicyRequest, NEW p \in PolicyId, NEW to \in PolicyStatus,
               PolicyMoveRead(q, p, to)
        PROVE  PolicyRequests' /\ edits' \in 0 .. MaxEdits
    <2> DEFINE x == [to |-> to, row |-> p, saw |-> policy[p].status]
    <2>1. <<policy[p].status, to>> \in PolicyTransition
      BY <1>9 DEF PolicyMoveRead, MayMove
    <2>2. policy[p].status \in PolicyStatus
      BY <2>1 DEF PolicyTransition, PolicyStatus
    <2>3. x \in [to : PolicyStatus, row : PolicyId, saw : PolicyStatus]
      BY <2>2
    <2>4. policyReq' = [policyReq EXCEPT ![q] = x]
      BY <1>9 DEF PolicyMoveRead
    <2>5. x.saw = policy[p].status /\ x.to = to
      OBVIOUS
    <2> HIDE DEF x
    <2> QED BY <1>2, <1>9, <2>1, <2>3, <2>4, <2>5 DEF PolicyRequests, PolicyMoveRead
  <1>10. ASSUME NEW q \in PolicyRequest, PolicyMoveWrite(q)
         PROVE  PolicyRequests' /\ edits' \in 0 .. MaxEdits
    BY <1>1, <1>10 DEF PolicyMoveWrite, PolicyRequests
  <1>11. CASE PolicyRoutes
    BY <1>3, <1>9, <1>10, <1>11
       DEF PolicyRoutes, CreatePolicy, PatchPolicy, AssignPolicy, UnassignPolicy
  <1> QED BY <1>4, <1>5, <1>6, <1>7, <1>8, <1>11, StepsOfNext

LEMMA LimitsKept ==
  ASSUME LimitTypes, LimitRequests, [SpendingNext]_allVars
  PROVE  LimitTypes' /\ LimitRequests'
PROOF
  <1>1. CASE UNCHANGED <<limit, budget, limitReq, rollover>>
    BY <1>1 DEF LimitTypes, LimitRequests
  <1>2. CASE RenewalSteps
    BY <1>1, <1>2 DEF RenewalSteps, StartCycleRenewal, PolicyResolved, StartQueuedRenewal,
          SelectLimits, CheckBudgets, CheckLimit, Execute, RecordActualCost, renewalRest
  <1>3. CASE (\E b \in Blob : PeriodLapses(b)) \/ UNCHANGED spendVars
    BY <1>1, <1>3 DEF PeriodLapses, spendVars
  <1>4. ASSUME NEW l \in LimitId, NEW row \in NewLimits, CreateLimit(l, row)
        PROVE  LimitTypes' /\ LimitRequests'
    <2>1. [row EXCEPT !.status = "defined"] \in LimitRow
      BY SpendingAssumption DEF LimitRow, LimitStatus
    <2> QED BY <1>4, <2>1 DEF CreateLimit, PutLimit, LimitTypes, LimitRequests
  <1>5. ASSUME NEW l \in LimitId, NEW row \in NewLimits, PatchLimit(l, row)
        PROVE  LimitTypes' /\ LimitRequests'
    <2>1. row \in LimitRow /\ limit[l] \in LimitRow
      BY SpendingAssumption DEF LimitTypes
    <2>2. [row EXCEPT !.status = limit[l].status] \in LimitRow
      BY <2>1 DEF LimitRow
    <2> QED BY <1>5, <2>2 DEF PatchLimit, PutLimit, LimitTypes, LimitRequests
  <1>6. ASSUME NEW l \in LimitId, NEW to \in LimitStatus, LimitMoveRead(l, to)
        PROVE  LimitTypes' /\ LimitRequests'
    <2>1. limit[l].status \in LimitStatus
      BY DEF LimitTypes, LimitRow
    <2> QED BY <1>6, <2>1 DEF LimitMoveRead, LimitTypes, LimitRequests
  <1>7. CASE LimitMoveWrite
    <2> DEFINE l == limitReq.row
    <2>1. l \in LimitId /\ limitReq.to \in LimitStatus
      BY <1>7 DEF LimitMoveWrite, LimitRequests, NoLimitRequest
    <2>2. [limit[l] EXCEPT !.status = limitReq.to] \in LimitRow
      BY <2>1 DEF LimitTypes, LimitRow
    <2> QED BY <1>7, <2>1, <2>2
            DEF LimitMoveWrite, PutLimit, LimitTypes, LimitRequests, NoLimitRequest
  <1>8. ASSUME NEW project \in BOOLEAN, CreateBudget(project)
        PROVE  LimitTypes' /\ LimitRequests'
    BY <1>8 DEF CreateBudget, LimitTypes, LimitRequests, BudgetRow, BudgetStatus
  <1>9. ASSUME NEW to \in BudgetStatus, BudgetMoveRead(to)
        PROVE  LimitTypes' /\ LimitRequests'
    <2>1. budget.status \in BudgetStatus
      BY DEF LimitTypes, BudgetRow
    <2> QED BY <1>9, <2>1 DEF BudgetMoveRead, LimitTypes, LimitRequests
  <1>10. CASE BudgetMoveWrite
    <2>1. limitReq.to \in BudgetStatus
      BY <1>10 DEF BudgetMoveWrite, LimitRequests, NoLimitRequest
    <2> QED BY <1>10, <2>1
            DEF BudgetMoveWrite, LimitTypes, LimitRequests, BudgetRow, NoLimitRequest
  <1>11. CASE RolloverSelect
    BY <1>11 DEF RolloverSelect, LimitTypes, LimitRequests
  <1>12. CASE RolloverWrite
    BY <1>12 DEF RolloverWrite, Reopened, LimitTypes, LimitRequests, BudgetRow, BudgetStatus
  <1>13. CASE LimitRoutes
    BY <1>4, <1>5, <1>6, <1>7, <1>8, <1>9, <1>10, <1>11, <1>12, <1>13 DEF LimitRoutes
  <1> QED BY <1>1, <1>2, <1>3, <1>13, StepsOfNext DEF allVars

LEMMA RenewalSet ==
  ASSUME RenewalTypes, NEW b \in Blob, NEW r \in Renewal, Now(b, r),
         cost' \in [Blob -> Nat],
         \A i \in Blob \ {b} : resolution'[i] = resolution[i],
         r.stage = "resolving" <=> resolution'[b].level # 0
  PROVE  RenewalTypes'
PROOF
  <1>1. /\ renewal' \in [Blob -> Renewal] /\ renewal'[b] = r
        /\ \A i \in Blob \ {b} : renewal'[i] = renewal[i]
    BY DEF RenewalTypes, Now
  <1> QED BY <1>1 DEF RenewalTypes

LEMMA RenewalsKept ==
  ASSUME PolicyTypes, ResolutionInv, PolicyRequests, LimitTypes, RenewalTypes,
         [SpendingNext]_allVars
  PROVE  RenewalTypes'
PROOF
  <1>1. CASE /\ UNCHANGED <<cost, renewal>>
             /\ \A b \in Blob : resolution'[b].level # 0 <=> resolution[b].level # 0
    BY <1>1 DEF RenewalTypes
  <1>2. NoRenewal \in Renewal /\ NoRenewal.stage = "none"
    BY DEF NoRenewal, Renewal, Stages, Nobody
  <1>3. ASSUME NEW b \in Blob
        PROVE  /\ renewal[b] \in Renewal /\ cost \in [Blob -> Nat]
               /\ renewal[b].stage = "resolving" <=> resolution[b].level # 0
               /\ resolution \in [Blob -> Resolution]
    BY ResolverAssumption DEF RenewalTypes, PolicyTypes
  <1>4. ASSUME NEW b \in Blob, NEW r \in Renewal, Now(b, r), UNCHANGED resolution,
               cost' \in [Blob -> Nat],
               r.stage # "resolving", renewal[b].stage # "resolving"
        PROVE  RenewalTypes'
    BY <1>3, <1>4, RenewalSet
  <1>5. ASSUME NEW b \in Blob, StartCycleRenewal(b)
        PROVE  RenewalTypes'
    <2> DEFINE r == [NoRenewal EXCEPT !.stage = "resolving"]
    <2>1. r \in Renewal /\ r.stage = "resolving"
      BY <1>2 DEF Renewal, Stages
    <2>2. Now(b, r) /\ UNCHANGED cost
      BY <1>5 DEF StartCycleRenewal
    <2>3. /\ \A i \in Blob \ {b} : resolution'[i] = resolution[i]
          /\ resolution'[b].level = 1
      BY <1>3, <1>5 DEF StartCycleRenewal, BeginResolution, NoResolution
    <2> HIDE DEF r
    <2> QED BY <1>3, <2>1, <2>2, <2>3, RenewalSet
  <1>6. ASSUME NEW b \in Blob, NEW estimate \in Estimates, PolicyResolved(b, estimate)
        PROVE  RenewalTypes'
    <2> DEFINE result == resolution[b].result
               r == IF ~result.auto THEN NoRenewal
                    ELSE [NoRenewal EXCEPT !.stage = "select", !.policy = result.policy,
                                           !.estimate = estimate]
    <2>1. result.policy \in PolicyId \cup {Nobody}
      BY <1>3 DEF Resolution, Results
    <2>2. r \in Renewal /\ r.stage # "resolving"
      BY <1>2, <2>1 DEF Renewal, Stages
    <2>3. Now(b, r) /\ UNCHANGED cost
      BY <1>6 DEF PolicyResolved
    <2>4. /\ \A i \in Blob \ {b} : resolution'[i] = resolution[i]
          /\ resolution'[b].level = 0
      BY <1>3, <1>6 DEF PolicyResolved, NoResolution
    <2> HIDE DEF r
    <2> QED BY <1>3, <2>2, <2>3, <2>4, RenewalSet
  <1>7. ASSUME NEW b \in Blob, NEW estimate \in Estimates \cup {0}, NEW overridden \in BOOLEAN,
               StartQueuedRenewal(b, estimate, overridden)
        PROVE  RenewalTypes'
    <2> DEFINE r == [NoRenewal EXCEPT !.stage = IF overridden THEN "execute" ELSE "select",
                                      !.estimate = estimate, !.overridden = overridden]
    <2>1. r \in Renewal /\ r.stage # "resolving"
      BY <1>2 DEF Renewal, Stages
    <2>2. Now(b, r) /\ UNCHANGED <<cost, resolution>> /\ renewal[b].stage = "none"
      BY <1>7 DEF StartQueuedRenewal, StartRenewal
    <2> HIDE DEF r
    <2> QED BY <1>3, <1>4, <2>1, <2>2
  <1>8. ASSUME NEW b \in Blob, SelectLimits(b)
        PROVE  RenewalTypes'
    <2> DEFINE chosen == {<<l, limit[l]>> : l \in EffectiveLimits(b, renewal[b].policy)}
               r == [renewal[b] EXCEPT !.stage = "limits", !.limits = chosen]
    <2>1. chosen \in SUBSET (LimitId \X LimitRow)
      BY DEF EffectiveLimits, LimitTypes
    <2>2. Now(b, r) /\ UNCHANGED <<cost, resolution>> /\ renewal[b].stage = "select"
      BY <1>8 DEF SelectLimits
    <2> HIDE DEF chosen
    <2>3. r \in Renewal /\ r.stage = "limits"
      BY <1>3, <2>1 DEF Renewal, Stages
    <2> HIDE DEF r
    <2> QED BY <1>3, <1>4, <2>2, <2>3
  <1>9. ASSUME NEW b \in Blob, NEW l \in LimitId, CheckLimit(b, l)
        PROVE  RenewalTypes'
    <2>1. PICK x \in renewal[b].limits :
             Now(b, IF ~sums \/ WouldExceed(Spent(x[2], cost), renewal[b].estimate, x[2].amount)
                    THEN NoRenewal ELSE [renewal[b] EXCEPT !.limits = renewal[b].limits \ {x}])
      BY <1>9 DEF CheckLimit
    <2> DEFINE left == renewal[b].limits \ {x}
               fewer == [renewal[b] EXCEPT !.limits = left]
    <2>2. UNCHANGED <<cost, resolution>> /\ renewal[b].stage = "limits"
      BY <1>9 DEF CheckLimit
    <2>3. left \in SUBSET (LimitId \X LimitRow)
      BY <1>3 DEF Renewal
    <2>4. Now(b, NoRenewal) \/ Now(b, fewer)
      BY <2>1
    <2> HIDE DEF left
    <2>5. fewer \in Renewal /\ fewer.stage = "limits"
      BY <1>3, <2>2, <2>3 DEF Renewal
    <2> HIDE DEF fewer
    <2> QED BY <1>2, <1>3, <1>4, <2>2, <2>4, <2>5
  <1>10. ASSUME NEW b \in Blob, CheckBudgets(b)
         PROVE  RenewalTypes'
    <2> DEFINE soft == SoftThresholdCrossed(renewal[b].estimate)
               r == [renewal[b] EXCEPT !.stage = "execute", !.soft = soft]
    <2>1. Now(b, r) /\ UNCHANGED <<cost, resolution>> /\ renewal[b].stage = "limits"
      BY <1>10 DEF CheckBudgets
    <2>2. soft \in BOOLEAN
      BY DEF SoftThresholdCrossed
    <2> HIDE DEF soft
    <2>3. r \in Renewal /\ r.stage = "execute"
      BY <1>3, <2>2 DEF Renewal, Stages
    <2> HIDE DEF r
    <2> QED BY <1>3, <1>4, <2>1, <2>3
  <1>11. ASSUME NEW b \in Blob, NEW ok \in BOOLEAN, Execute(b, ok)
         PROVE  RenewalTypes'
    <2> DEFINE r == [renewal[b] EXCEPT !.stage = "record"]
    <2>1. /\ Now(b, NoRenewal) \/ Now(b, r)
          /\ UNCHANGED <<cost, resolution>> /\ renewal[b].stage = "execute"
      BY <1>11 DEF Execute
    <2>2. r \in Renewal /\ r.stage = "record"
      BY <1>3 DEF Renewal, Stages
    <2> HIDE DEF r
    <2> QED BY <1>2, <1>3, <1>4, <2>1, <2>2
  <1>12. ASSUME NEW b \in Blob, NEW actual \in 1 .. MaxCost, RecordActualCost(b, actual)
         PROVE  RenewalTypes'
    <2>1. /\ Now(b, NoRenewal) /\ UNCHANGED resolution /\ renewal[b].stage = "record"
          /\ cost' = [cost EXCEPT ![b] = cost[b] + actual]
      BY <1>12 DEF RecordActualCost
    <2>2. cost' \in [Blob -> Nat]
      BY <1>3, <2>1, SpendingAssumption
    <2> QED BY <1>2, <1>4, <2>1, <2>2
  <1>13. CASE RenewalSteps
    BY <1>5, <1>6, <1>7, <1>8, <1>9, <1>10, <1>11, <1>12, <1>13 DEF RenewalSteps
  <1>14. ASSUME NEW b \in Blob, ResolveLevel(b), UNCHANGED spendVars
         PROVE  RenewalTypes'
    <2>1. \A i \in Blob : resolution'[i].level # 0 <=> resolution[i].level # 0
      BY <1>14, LevelKeeps, ResolverAssumption
    <2> QED BY <1>1, <1>14, <2>1 DEF spendVars
  <1>15. ASSUME NEW b \in Blob, PeriodLapses(b)
         PROVE  RenewalTypes'
    BY <1>3, <1>15 DEF PeriodLapses, RenewalTypes
  <1>16. CASE PolicyRoutes /\ UNCHANGED spendVars
    <2>1. UNCHANGED <<policy, resolution>> => RenewalTypes'
      BY <1>1, <1>16 DEF spendVars
    <2>2. ASSUME NEW p \in PolicyId, NEW row \in PolicyRow, Puts(p, row)
          PROVE  RenewalTypes'
      <3>1. \A j \in Blob : resolution'[j].level = resolution[j].level
        BY <2>2, PutKeeps, ResolverAssumption
      <3> QED BY <1>1, <1>16, <3>1 DEF spendVars
    <2> QED BY <1>16, <2>1, <2>2, RoutesPut DEF RouteStep
  <1>17. CASE LimitRoutes
    BY <1>1, <1>17 DEF LimitRoutes, CreateLimit, PatchLimit, LimitMoveRead, LimitMoveWrite,
                CreateBudget, BudgetMoveRead, BudgetMoveWrite, RolloverSelect,
                RolloverWrite, apiRest
  <1>18. CASE UNCHANGED allVars
    BY <1>1, <1>18 DEF allVars, policyVars, spendVars
  <1> QED BY <1>13, <1>14, <1>15, <1>16, <1>17, <1>18, StepsOfNext

LEMMA StepSpending == SpendingInv /\ [SpendingNext]_allVars => SpendingInv'
PROOF
  <1> SUFFICES ASSUME SpendingInv, [SpendingNext]_allVars
               PROVE  SpendingInv'
    OBVIOUS
  <1> USE DEF SpendingInv
  <1>1. /\ policy' \in Tables /\ resolution' \in [Resolver -> Resolution]
        /\ ResolutionInv'
    BY NextPolicyStep, PolicyStepKeeps
  <1>2. PolicyRequests' /\ edits' \in 0 .. MaxEdits
    BY RequestsKept
  <1>3. PolicyTypes'
    BY <1>1, <1>2 DEF PolicyTypes, Tables
  <1>4. LimitTypes' /\ LimitRequests'
    BY LimitsKept
  <1>5. RenewalTypes'
    BY RenewalsKept
  <1> QED BY <1>1, <1>2, <1>3, <1>4, <1>5

LEMMA SpendingIsInvariant == SpendingSpec => []SpendingInv
PROOF
  BY InitSpending, StepSpending, PTL DEF SpendingSpec

-----------------------------------------------------------------------------
(* The theorems.                                                            *)

(* Types: the rows of policies, limits, budgets and cost_records keep the   *)
(* shape the schema gives them, and a renewal is in the stage that awaits   *)
(* its policy exactly while its resolution is under way.                    *)
THEOREM SpendingTypes == SpendingSpec => []SpendingTypeOK
PROOF
  <1>1. SpendingInv => SpendingTypeOK
    <2> SUFFICES ASSUME SpendingInv PROVE SpendingTypeOK
      OBVIOUS
    <2> USE DEF SpendingInv
    <2>1. PolicyTypeOK
      BY DEF PolicyTypes, Tables, PolicyTypeOK, Resolution, Results, Done, Levels
    <2>2. \A b \in Blob : /\ renewal[b].stage \in Stages
                          /\ renewal[b].estimate \in Estimates \cup {0}
      BY DEF RenewalTypes, Renewal
    <2> QED BY <2>1, <2>2 DEF SpendingTypeOK, LimitTypes, RenewalTypes
  <1> QED BY <1>1, SpendingIsInvariant, PTL

(* Although resolveEffectivePolicy asks for one level of the chain after    *)
(* the other, while the routes edit the same rows, the policy a renewal is  *)
(* given governed its blob at some instant of the resolution, whenever at   *)
(* most one edit (that left its row on its level) fell into it.             *)
THEOREM ResolutionsAdmissible == SpendingSpec => []AdmissibleResolution
PROOF
  <1>1. SpendingInv => AdmissibleResolution
    BY DEF SpendingInv, ResolutionInv, Sound, AdmissibleResolution, Done, Levels
  <1> QED BY <1>1, SpendingIsInvariant, PTL

LEMMA PolicyRevival ==
  ASSUME SpendingInv, [SpendingNext]_allVars, NEW p \in PolicyId,
         policy[p].status = "archived", policy'[p].status # "archived"
  PROVE  \E q \in PolicyRequest : /\ policyReq[q].to = policy'[p].status
                                  /\ policyReq[q].saw # "archived"
                                  /\ policyReq'[q] # policyReq[q]
PROOF
  <1> USE DEF SpendingInv
  <1>1. policy \in Tables
    BY DEF PolicyTypes
  <1>2. ASSUME UNCHANGED policy
        PROVE  FALSE
    BY <1>2
  <1>3. ASSUME NEW o \in PolicyId, NEW row, Put(o, row), row.status = policy[o].status
        PROVE  FALSE
    <2>1. policy' = [policy EXCEPT ![o] = row]
      BY <1>3 DEF Put
    <2> QED BY <1>1, <1>3, <2>1 DEF Tables
  <1>4. ASSUME NEW o \in PolicyId, NEW row, Put(o, row), policy[o].status = "absent"
        PROVE  FALSE
    <2>1. policy' = [policy EXCEPT ![o] = row]
      BY <1>4 DEF Put
    <2> QED BY <1>1, <1>4, <2>1 DEF Tables
  <1>5. ASSUME NEW o \in PolicyId, NEW row \in NewPolicies, PatchPolicy(o, row)
        PROVE  FALSE
    <2> DEFINE new == [policy[o] EXCEPT !.scope = row.scope, !.target = row.target,
                                        !.tags = row.tags, !.auto = row.auto]
    <2>1. policy[o] \in PolicyRow /\ row \in PolicyRow
      BY <1>1, TableAssumption DEF Tables
    <2>2. new.status = policy[o].status
      BY <2>1 DEF PolicyRow
    <2>3. Put(o, new)
      BY <1>5 DEF PatchPolicy
    <2> HIDE DEF new
    <2> QED BY <1>3, <2>2, <2>3
  <1>6. ASSUME NEW o \in PolicyId, NEW b \in Blob, AssignPolicy(o, b) \/ UnassignPolicy(o, b)
        PROVE  FALSE
    <2>1. PICK A : Put(o, [policy[o] EXCEPT !.assigned = A])
      BY <1>6 DEF AssignPolicy, UnassignPolicy
    <2>2. policy[o] \in PolicyRow
      BY <1>1 DEF Tables
    <2>3. [policy[o] EXCEPT !.assigned = A].status = policy[o].status
      BY <2>2 DEF PolicyRow
    <2> QED BY <1>3, <2>1, <2>3
  <1>7. CASE \E q \in PolicyRequest : PolicyMoveWrite(q)
    <2>1. PICK q \in PolicyRequest : PolicyMoveWrite(q)
      BY <1>7
    <2> DEFINE o == policyReq[q].row
               new == [policy[o] EXCEPT !.status = policyReq[q].to]
    <2>2. /\ policyReq[q].to # "none" /\ o \in PolicyId /\ Put(o, new)
          /\ policyReq' = [policyReq EXCEPT ![q] = [to |-> "none"]]
      BY <2>1 DEF PolicyMoveWrite, PolicyRequests
    <2>3. policy[o] \in PolicyRow
      BY <1>1, <2>2 DEF Tables
    <2>4. new.status = policyReq[q].to
      BY <2>3 DEF PolicyRow
    <2>5. <<policyReq[q].saw, policyReq[q].to>> \in PolicyTransition
      BY <2>2 DEF PolicyRequests
    <2>6. policyReq[q].saw # "archived"
      BY <2>5 DEF PolicyTransition
    <2>7. policyReq'[q] # policyReq[q]
      <3>1. policyReq'[q].to = "none"
        BY <2>2 DEF PolicyRequests
      <3> QED BY <2>2, <3>1
    <2>8. policy' = [policy EXCEPT ![o] = new]
      BY <2>2 DEF Put
    <2> HIDE DEF new, o
    <2>9. o = p
      BY <1>1, <2>2, <2>8 DEF Tables
    <2>10. policy'[p] = new
      BY <1>1, <2>8, <2>9 DEF Tables
    <2> QED BY <2>4, <2>6, <2>7, <2>10
  <1>8. CASE PolicyRoutes
    <2>1. ASSUME NEW o \in PolicyId, NEW row \in NewPolicies, CreatePolicy(o, row)
          PROVE  FALSE
      BY <1>4, <2>1 DEF CreatePolicy
    <2>2. ASSUME NEW q \in PolicyRequest, NEW o \in PolicyId, NEW to \in PolicyStatus,
                 PolicyMoveRead(q, o, to)
          PROVE  FALSE
      BY <1>2, <2>2 DEF PolicyMoveRead
    <2> QED BY <1>5, <1>6, <1>7, <1>8, <2>1, <2>2 DEF PolicyRoutes
  <1>9. CASE RenewalSteps
    BY <1>2, <1>9 DEF RenewalSteps, StartCycleRenewal, PolicyResolved, StartQueuedRenewal,
          SelectLimits, CheckBudgets, CheckLimit, Execute, RecordActualCost, renewalRest
  <1>10. CASE \E b \in Blob : ResolveLevel(b)
    BY <1>2, <1>10 DEF ResolveLevel
  <1>11. CASE \E b \in Blob : PeriodLapses(b)
    BY <1>2, <1>11 DEF PeriodLapses
  <1>12. CASE LimitRoutes
    BY <1>2, <1>12 DEF LimitRoutes, CreateLimit, PatchLimit, LimitMoveRead, LimitMoveWrite,
                CreateBudget, BudgetMoveRead, BudgetMoveWrite, RolloverSelect,
                RolloverWrite, apiRest
  <1>13. CASE UNCHANGED allVars
    BY <1>2, <1>13 DEF allVars, policyVars
  <1> QED BY <1>8, <1>9, <1>10, <1>11, <1>12, <1>13, StepsOfNext

LEMMA LimitRevival ==
  ASSUME SpendingInv, [SpendingNext]_allVars
  PROVE  /\ \A l \in LimitId :
              limit[l].status = "archived" /\ limit'[l].status # "archived" =>
                limitReq.kind = "limit" /\ limitReq.saw # "archived" /\ limitReq' # limitReq
         /\ budget.status = "archived" /\ budget'.status # "archived" =>
              \/ limitReq.kind = "budget" /\ limitReq.saw # "archived" /\ limitReq' # limitReq
              \/ rollover = "active" /\ rollover' = "none"
PROOF
  <1> USE DEF SpendingInv
  <1> DEFINE Revived ==
       /\ \A l \in LimitId :
            limit[l].status = "archived" /\ limit'[l].status # "archived" =>
              limitReq.kind = "limit" /\ limitReq.saw # "archived" /\ limitReq' # limitReq
       /\ budget.status = "archived" /\ budget'.status # "archived" =>
            \/ limitReq.kind = "budget" /\ limitReq.saw # "archived" /\ limitReq' # limitReq
            \/ rollover = "active" /\ rollover' = "none"
  <1> SUFFICES Revived
    OBVIOUS
  <1>1. limit \in [LimitId -> LimitRow]
    BY DEF LimitTypes
  <1>2. CASE UNCHANGED <<limit, budget>>
    BY <1>2
  <1>3. ASSUME NEW l \in LimitId, NEW row, PutLimit(l, row), UNCHANGED budget,
               limit[l].status = "archived" => row.status = "archived"
        PROVE  Revived
    <2>1. limit'[l] = row /\ \A k \in LimitId \ {l} : limit'[k] = limit[k]
      BY <1>1, <1>3 DEF PutLimit
    <2> QED BY <1>3, <2>1
  <1>4. ASSUME NEW l \in LimitId, NEW row \in NewLimits, CreateLimit(l, row)
        PROVE  Revived
    <2> DEFINE new == [row EXCEPT !.status = "defined"]
    <2>1. PutLimit(l, new) /\ UNCHANGED budget /\ limit[l].status = "absent"
      BY <1>4 DEF CreateLimit
    <2> HIDE DEF new, Revived
    <2> QED BY <1>3, <2>1
  <1>5. ASSUME NEW l \in LimitId, NEW row \in NewLimits, PatchLimit(l, row)
        PROVE  Revived
    <2> DEFINE new == [row EXCEPT !.status = limit[l].status]
    <2>1. PutLimit(l, new) /\ UNCHANGED budget
      BY <1>5 DEF PatchLimit
    <2>2. new.status = limit[l].status
      BY SpendingAssumption DEF LimitRow
    <2> HIDE DEF new, Revived
    <2> QED BY <1>3, <2>1, <2>2
  <1>6. CASE LimitMoveWrite
    <2>1. /\ limitReq.kind = "limit" /\ limitReq' = NoLimitRequest /\ UNCHANGED budget
      BY <1>6 DEF LimitMoveWrite
    <2>2. <<limitReq.saw, limitReq.to>> \in LimitTransition
      BY <2>1 DEF LimitRequests
    <2>3. limitReq.saw # "archived"
      BY <2>2 DEF LimitTransition
    <2>4. limitReq' # limitReq
      BY <2>1 DEF NoLimitRequest
    <2> QED BY <2>1, <2>3, <2>4
  <1>7. CASE BudgetMoveWrite
    <2>1. /\ limitReq.kind = "budget" /\ limitReq' = NoLimitRequest /\ UNCHANGED limit
      BY <1>7 DEF BudgetMoveWrite
    <2>2. <<limitReq.saw, limitReq.to>> \in BudgetTransition
      BY <2>1 DEF LimitRequests
    <2>3. limitReq.saw # "archived"
      BY <2>2 DEF BudgetTransition
    <2>4. limitReq' # limitReq
      BY <2>1 DEF NoLimitRequest
    <2> QED BY <2>1, <2>3, <2>4
  <1>8. CASE RolloverWrite
    <2>1. rollover = "active" /\ rollover' = "none" /\ UNCHANGED limit
      BY <1>8 DEF RolloverWrite, LimitTypes
    <2> QED BY <2>1
  <1>9. CASE \E project \in BOOLEAN : CreateBudget(project)
    <2>1. budget.status = "absent" /\ UNCHANGED limit
      BY <1>9 DEF CreateBudget
    <2> QED BY <2>1
  <1>10. CASE \/ \E l \in LimitId, to \in LimitStatus : LimitMoveRead(l, to)
              \/ \E to \in BudgetStatus : BudgetMoveRead(to)
              \/ RolloverSelect
    BY <1>2, <1>10 DEF LimitMoveRead, BudgetMoveRead, RolloverSelect
  <1>11. CASE LimitRoutes
    <2> HIDE DEF Revived, SpendingInv
    <2> QED BY <1>4, <1>5, <1>6, <1>7, <1>8, <1>9, <1>10, <1>11 DEF LimitRoutes
  <1>12. CASE RenewalSteps
    BY <1>2, <1>12 DEF RenewalSteps, StartCycleRenewal, PolicyResolved, StartQueuedRenewal,
          SelectLimits, CheckBudgets, CheckLimit, Execute, RecordActualCost, renewalRest
  <1>13. CASE (\E b \in Blob : PeriodLapses(b)) \/ UNCHANGED spendVars \/ UNCHANGED allVars
    BY <1>2, <1>13 DEF PeriodLapses, spendVars, allVars
  <1> QED BY <1>11, <1>12, <1>13, StepsOfNext

(* An archived policy, limit or budget is left only by a write whose read   *)
(* preceded the archiving: each route and the rollover check the status     *)
(* they read, and none repeats the check in its UPDATE.                     *)
THEOREM RevivalsAreStale == SpendingSpec => RevivedByStaleWrite
PROOF
  <1>1. SpendingInv /\ [SpendingNext]_allVars =>
          [/\ \A p \in PolicyId :
                policy[p].status = "archived" /\ policy'[p].status # "archived" =>
                  \E q \in PolicyRequest : /\ policyReq[q].to = policy'[p].status
                                           /\ policyReq[q].saw # "archived"
                                           /\ policyReq'[q] # policyReq[q]
           /\ \A l \in LimitId :
                limit[l].status = "archived" /\ limit'[l].status # "archived" =>
                  limitReq.kind = "limit" /\ limitReq.saw # "archived" /\ limitReq' # limitReq
           /\ budget.status = "archived" /\ budget'.status # "archived" =>
                \/ limitReq.kind = "budget" /\ limitReq.saw # "archived" /\ limitReq' # limitReq
                \/ rollover = "active" /\ rollover' = "none"]_allVars
    BY PolicyRevival, LimitRevival
  <1> QED BY <1>1, SpendingIsInvariant, PTL DEF SpendingSpec, RevivedByStaleWrite

-----------------------------------------------------------------------------
(* Sums over a finite set, by the smallest set on which a claim fails.      *)
(* A recursive function is the CHOOSE of its equation: one that satisfies   *)
(* the equation is built subset by subset, and any two agree.               *)

Sum(f, S) == FoldFunctionOnSet(+, 0, f, S)

Pick(s) == CHOOSE x \in s : TRUE

(* g adds f up over every subset of D, in the order the fold picks.         *)
Unfolds(g, D, f) ==
  /\ g[{}] = 0
  /\ \A s \in SUBSET D : s # {} => g[s] = f[Pick(s)] + g[s \ {Pick(s)}]

Adds(g, D, f) == g \in [SUBSET D -> Nat] /\ Unfolds(g, D, f)

LEMMA Picked ==
  ASSUME NEW s, s # {}
  PROVE  Pick(s) \in s
PROOF
  BY DEF Pick

(* A set of subsets of a finite set has one that includes no other.         *)
LEMMA HasSmallest ==
  ASSUME NEW S, IsFiniteSet(S), NEW T \in SUBSET (SUBSET S), T # {}
  PROVE  \E s \in T : \A x \in s : s \ {x} \notin T
PROOF
  <1>1. T \subseteq FiniteSubsetsOf(S)
    BY FS_FiniteSubsetsOfFinite
  <1>2. PICK s \in T : \A r \in T : <<r, s>> \notin StrictSubsetOrdering(S)
    BY <1>1, FS_StrictSubsetOrderingWellFounded, WFMin
  <1>3. ASSUME NEW x \in s, s \ {x} \in T
        PROVE  FALSE
    <2>1. <<s \ {x}, s>> \in StrictSubsetOrdering(S)
      BY <1>3 DEF StrictSubsetOrdering
    <2> QED BY <1>2, <1>3, <2>1
  <1> QED BY <1>3

LEMMA SumsAgree ==
  ASSUME NEW S, IsFiniteSet(S), NEW f, NEW g, NEW h,
         NEW D \in SUBSET S, NEW E \in SUBSET S, Unfolds(g, D, f), Unfolds(h, E, f)
  PROVE  \A s \in SUBSET (D \cap E) : g[s] = h[s]
PROOF
  <1> DEFINE T == {s \in SUBSET (D \cap E) : g[s] # h[s]}
  <1> SUFFICES ASSUME T # {} PROVE FALSE
    OBVIOUS
  <1>1. T \in SUBSET (SUBSET S)
    OBVIOUS
  <1>2. PICK s \in T : \A x \in s : s \ {x} \notin T
    <2> HIDE DEF T
    <2> QED BY <1>1, HasSmallest
  <1>3. s # {}
    BY <1>2 DEF Unfolds
  <1>4. Pick(s) \in s
    BY <1>3, Picked
  <1>5. g[s \ {Pick(s)}] = h[s \ {Pick(s)}]
    BY <1>2, <1>4
  <1>6. g[s] = f[Pick(s)] + g[s \ {Pick(s)}] /\ h[s] = f[Pick(s)] + h[s \ {Pick(s)}]
    BY <1>3 DEF Unfolds
  <1> QED BY <1>5, <1>6

(* The total over E, read off any function that adds up over it.            *)
Total(E, f) == (CHOOSE g : Adds(g, E, f))[E]

LEMMA TotalIs ==
  ASSUME NEW S, IsFiniteSet(S), NEW f, NEW D \in SUBSET S, NEW E \in SUBSET D,
         NEW g, Adds(g, D, f), \E h : Adds(h, E, f)
  PROVE  Total(E, f) = g[E] 
PROOF
  <1> DEFINE h == CHOOSE h : Adds(h, E, f)
  <1>1. Adds(h, E, f)
    OBVIOUS
  <1> HIDE DEF h
  <1>2. h[E] = g[E]
    BY <1>1, SumsAgree DEF Adds
  <1> QED BY <1>2 DEF Total, h

LEMMA SumExists ==
  ASSUME NEW S, IsFiniteSet(S), NEW f, \A x \in S : f[x] \in Nat
  PROVE  \E g : Adds(g, S, f)
PROOF
  <1> DEFINE T == {D \in SUBSET S : ~\E g : Adds(g, D, f)}
  <1> SUFFICES ASSUME T # {} PROVE FALSE
    OBVIOUS
  <1>1. T \in SUBSET (SUBSET S)
    OBVIOUS
  <1>2. T \subseteq FiniteSubsetsOf(S)
    BY FS_FiniteSubsetsOfFinite
  <1>3. PICK D \in T : \A E \in T : <<E, D>> \notin StrictSubsetOrdering(S)
    <2> HIDE DEF T
    <2> QED BY <1>2, FS_StrictSubsetOrderingWellFounded, WFMin
  <1>4. ASSUME NEW E \in SUBSET D, E # D
        PROVE  \E g : Adds(g, E, f)
    <2>1. <<E, D>> \in StrictSubsetOrdering(S)
      BY <1>3, <1>4 DEF StrictSubsetOrdering
    <2> QED BY <1>3, <1>4, <2>1
  <1>5. D \in SUBSET S /\ \A g : ~Adds(g, D, f)
    BY <1>3
  <1> HIDE DEF T
  <1>6. D # {}
    <2> DEFINE g == [s \in SUBSET {} |-> 0]
    <2>1. Adds(g, {}, f)
      BY DEF Adds, Unfolds
    <2> QED BY <1>5, <2>1
  <1>7. ASSUME NEW E \in SUBSET D, E # D
        PROVE  /\ Total(E, f) \in Nat
               /\ E = {} => Total(E, f) = 0
               /\ E # {} => Total(E, f) = f[Pick(E)] + Total(E \ {Pick(E)}, f)
    <2>1. PICK g : Adds(g, E, f)
      BY <1>4, <1>7
    <2>2. Total(E, f) = g[E]
      BY <1>4, <1>5, <1>7, <2>1, TotalIs
    <2>3. ASSUME E # {}
          PROVE  Total(E, f) = f[Pick(E)] + Total(E \ {Pick(E)}, f)
      <3>1. g[E] = f[Pick(E)] + g[E \ {Pick(E)}]
        BY <2>1, <2>3 DEF Adds, Unfolds
      <3>2. \E h : Adds(h, E \ {Pick(E)}, f)
        BY <1>4, <1>7
      <3>3. Total(E \ {Pick(E)}, f) = g[E \ {Pick(E)}]
        BY <1>5, <2>1, <3>2, TotalIs
      <3> QED BY <2>2, <3>1, <3>3
    <2> QED BY <2>1, <2>2, <2>3 DEF Adds, Unfolds
  <1> DEFINE d == Pick(D)
             last == f[d] + Total(D \ {d}, f)
             sum == [s \in SUBSET D |-> IF s = D THEN last ELSE Total(s, f)]
  <1>8. d \in D /\ D \ {d} \in SUBSET D /\ D \ {d} # D
    BY <1>6, Picked
  <1>9. last \in Nat
    <2>1. f[d] \in Nat /\ Total(D \ {d}, f) \in Nat
      <3> HIDE DEF d
      <3> QED BY <1>5, <1>7, <1>8
    <2> QED BY <2>1
  <1>10. \A s \in SUBSET D : sum[s] = IF s = D THEN last ELSE Total(s, f)
    OBVIOUS
  <1>11. sum \in [SUBSET D -> Nat]
    <2> HIDE DEF last
    <2> QED BY <1>7, <1>9
  <1> HIDE DEF sum
  <1>12. sum[{}] = 0
    BY <1>6, <1>7, <1>10
  <1>13. ASSUME NEW s \in SUBSET D, s # {}
         PROVE  sum[s] = f[Pick(s)] + sum[s \ {Pick(s)}]
    <2>1. Pick(s) \in s
      BY <1>13, Picked
    <2>2. sum[s \ {Pick(s)}] = Total(s \ {Pick(s)}, f)
      BY <1>10, <2>1
    <2> QED BY <1>7, <1>10, <1>13, <2>2
  <1>14. Adds(sum, D, f)
    BY <1>11, <1>12, <1>13 DEF Adds, Unfolds
  <1> QED BY <1>5, <1>14

(* The fold over a finite set of blobs is what any such function gives.     *)
LEMMA SumIs ==
  ASSUME NEW S, IsFiniteSet(S), NEW f, NEW g, Adds(g, S, f)
  PROVE  Sum(f, S) = g[S]
PROOF
  <1> DEFINE Eq(h) == h = [s \in SUBSET S |->
                            IF s = {} THEN 0 ELSE f[Pick(s)] + h[s \ {Pick(s)}]]
             sum == CHOOSE h : Eq(h)
  <1>1. Sum(f, S) = sum[S]
    BY DEF Sum, Pick, FoldFunctionOnSet, MapThenFoldSet
  <1>2. Eq(g)
    BY Picked DEF Adds, Unfolds
  <1>3. Eq(sum)
    <2> HIDE DEF Eq
    <2> QED BY <1>2
  <1> HIDE DEF sum
  <1>4. Unfolds(sum, S, f)
    BY <1>3 DEF Unfolds
  <1>5. S \in SUBSET S /\ Unfolds(g, S, f)
    BY DEF Adds
  <1> QED BY <1>1, <1>4, <1>5, SumsAgree

LEMMA SumType ==
  ASSUME NEW S, IsFiniteSet(S), NEW f, \A x \in S : f[x] \in Nat
  PROVE  Sum(f, S) \in Nat
PROOF
  <1>1. PICK g : Adds(g, S, f)
    BY SumExists
  <1> QED BY <1>1, SumIs DEF Adds

(* One entry changed, the sum changes by as much.                           *)
LEMMA SumChanges ==
  ASSUME NEW S, IsFiniteSet(S), NEW f, NEW h, NEW b,
         \A x \in S : f[x] \in Nat /\ h[x] \in Nat,
         \A x \in S \ {b} : h[x] = f[x]
  PROVE  /\ b \in S => Sum(h, S) + f[b] = Sum(f, S) + h[b]
         /\ b \notin S => Sum(h, S) = Sum(f, S)
PROOF
  <1>1. PICK g : Adds(g, S, f)
    BY SumExists
  <1>2. PICK k : Adds(k, S, h)
    BY SumExists
  <1> DEFINE Right(s) == /\ b \in s => k[s] + f[b] = g[s] + h[b]
                         /\ b \notin s => k[s] = g[s]
             T == {s \in SUBSET S : ~Right(s)}
  <1>3. T = {}
    <2> SUFFICES ASSUME T # {} PROVE FALSE
      OBVIOUS
    <2>1. PICK s \in T : \A x \in s : s \ {x} \notin T
      <3>1. T \in SUBSET (SUBSET S)
        OBVIOUS
      <3> HIDE DEF T
      <3> QED BY <3>1, HasSmallest
    <2>2. s \in SUBSET S /\ ~Right(s) /\ \A x \in s : Right(s \ {x})
      BY <2>1
    <2>3. s # {}
      BY <1>1, <1>2, <2>2 DEF Adds, Unfolds
    <2> DEFINE x == Pick(s)
               r == s \ {x}
    <2>4. x \in s /\ Right(r) /\ r \in SUBSET S
      BY <2>2, <2>3, Picked
    <2>5. /\ g[s] = f[x] + g[r] /\ k[s] = h[x] + k[r]
          /\ g[r] \in Nat /\ k[r] \in Nat
      BY <1>1, <1>2, <2>2, <2>3, <2>4 DEF Adds, Unfolds
    <2>6. /\ f[x] \in Nat /\ h[x] \in Nat /\ x # b => h[x] = f[x]
          /\ b \in s => f[b] \in Nat /\ h[b] \in Nat
      BY <2>2, <2>4
    <2>7. x \notin r /\ (x # b => (b \in r <=> b \in s))
      OBVIOUS
    <2> HIDE DEF x, r
    <2>8. CASE x = b
      BY <2>2, <2>4, <2>5, <2>6, <2>7, <2>8
    <2>9. CASE x # b
      BY <2>2, <2>4, <2>5, <2>6, <2>7, <2>9
    <2> QED BY <2>8, <2>9
  <1>4. Right(S)
    BY <1>3
  <1>5. Sum(f, S) = g[S] /\ Sum(h, S) = k[S]
    BY <1>1, <1>2, SumIs
  <1> QED BY <1>4, <1>5

-----------------------------------------------------------------------------
(* What is recorded under a limit.                                          *)

\* The blobs a limit governs, but for a limit on a policy.
Reach(row) == IF row.scope = "wallet" THEN Blob \ Walletless ELSE Blob

Governs(l) == limit[l].status = "active" /\ limit[l].scope # "policy"

\* A renewal that has passed limit l, as it now stands, and may yet be recorded.
Passed(r, l) ==
  /\ ~r.overridden
  /\ \/ r.stage \in {"execute", "record"}
     \/ r.stage = "limits" /\ <<l, limit[l]>> \notin r.limits

Unchecked(l) == {b \in Reach(limit[l]) : ~Passed(renewal[b], l)}

\* Within(total, cap, n): what n renewals yet to be checked leave room for.
Within(total, cap, n) == total <= cap + n * MaxCost

WithinBound(l) ==
  Within(Sum(cost, Reach(limit[l])), Larger(limit[l].amount, excused[l]),
         Cardinality(Unchecked(l)))

SpendBound == \A l \in LimitId : Governs(l) => WithinBound(l)

ExcusedTypes == excused \in [LimitId -> Nat]

OvershootInv == SpendingInv /\ ExcusedTypes /\ SpendBound

LEMMA ReachFinite ==
  ASSUME NEW row
  PROVE  /\ Reach(row) \subseteq Blob /\ IsFiniteSet(Reach(row))
         /\ Charged(row) \subseteq Blob /\ IsFiniteSet(Charged(row))
PROOF
  <1>1. Reach(row) \subseteq Blob /\ Charged(row) \subseteq Blob
    BY DEF Reach, Charged
  <1> QED BY <1>1, BlobAssumption, FS_Subset

LEMMA SpentIs ==
  ASSUME NEW row, row.scope # "policy", NEW costs
  PROVE  Spent(row, costs) = Sum(costs, Reach(row))
PROOF
  <1>1. Charged(row) = Reach(row)
    BY DEF Charged, Reach
  <1> QED BY <1>1 DEF Spent, Sum

LEMMA SpentType ==
  ASSUME NEW row, NEW costs \in [Blob -> Nat]
  PROVE  Spent(row, costs) \in Nat
PROOF
  <1>1. Spent(row, costs) = Sum(costs, Charged(row))
    BY DEF Spent, Sum
  <1> QED BY <1>1, ReachFinite, SumType

LEMMA TimesGrows ==
  ASSUME NEW m \in Nat, NEW n \in Nat, NEW k \in Nat, m <= n
  PROVE  m * k \in Nat /\ m * k <= n * k /\ (m + 1) * k = m * k + k
PROOF
  OBVIOUS

LEMMA WithinGrows ==
  ASSUME NEW total \in Nat, NEW fewer \in Nat, fewer <= total, NEW cap \in Nat,
         NEW m \in Nat, NEW n \in Nat, m <= n, Within(total, cap, m)
  PROVE  Within(fewer, cap, n)
PROOF
  <1>1. m * MaxCost \in Nat /\ n * MaxCost \in Nat /\ m * MaxCost <= n * MaxCost
    BY SpendingAssumption, TimesGrows
  <1> QED BY <1>1 DEF Within

LEMMA WithinOnce ==
  ASSUME NEW total \in Nat, NEW more \in Nat, more <= total + MaxCost, NEW cap \in Nat,
         NEW m \in Nat, Within(total, cap, m)
  PROVE  Within(more, cap, m + 1)
PROOF
  <1>1. m * MaxCost \in Nat /\ (m + 1) * MaxCost = m * MaxCost + MaxCost /\ MaxCost \in Nat
    BY SpendingAssumption, TimesGrows
  <1> QED BY <1>1 DEF Within

LEMMA WithinCap ==
  ASSUME NEW total \in Nat, NEW cap \in Nat, total <= cap, NEW m \in Nat
  PROVE  Within(total, cap, m)
PROOF
  <1>1. m * MaxCost \in Nat
    BY SpendingAssumption, TimesGrows
  <1> QED BY <1>1 DEF Within

LEMMA Counted ==
  ASSUME NEW l \in LimitId
  PROVE  /\ Unchecked(l) \subseteq Reach(limit[l])
         /\ IsFiniteSet(Unchecked(l)) /\ Cardinality(Unchecked(l)) \in Nat
PROOF
  <1>1. Unchecked(l) \subseteq Reach(limit[l])
    BY DEF Unchecked
  <1> QED BY <1>1, ReachFinite, FS_Subset, FS_CardinalityType

LEMMA CapType ==
  ASSUME LimitTypes, ExcusedTypes, NEW l \in LimitId
  PROVE  /\ Larger(limit[l].amount, excused[l]) \in Nat
         /\ limit[l].amount <= Larger(limit[l].amount, excused[l])
         /\ excused[l] <= Larger(limit[l].amount, excused[l])
PROOF
  <1>1. limit[l].amount \in Nat /\ excused[l] \in Nat
    BY DEF LimitTypes, LimitRow, ExcusedTypes
  <1> QED BY <1>1 DEF Larger

LEMMA Summed ==
  ASSUME RenewalTypes, NEW row
  PROVE  Sum(cost, Reach(row)) \in Nat
PROOF
  <1>1. \A b \in Reach(row) : cost[b] \in Nat
    BY ReachFinite DEF RenewalTypes
  <1> QED BY <1>1, ReachFinite, SumType

\* A renewal that passes no limit, unless it found the limit respected.
Advances(b, r) ==
  \A l \in LimitId : Governs(l) /\ b \in Reach(limit[l]) /\ Passed(r, l) =>
    Passed(renewal[b], l) \/ Sum(cost, Reach(limit[l])) <= limit[l].amount

\* The cases a step falls into, for the limits.
Quietly == UNCHANGED <<limit, excused, cost, renewal>>

Goes == \E b \in Blob, r \in Renewal :
          Now(b, r) /\ Advances(b, r) /\ UNCHANGED <<limit, excused, cost>>

Rewritten ==
  \E l \in LimitId, row \in LimitRow : PutLimit(l, row) /\ UNCHANGED <<cost, renewal>>

Lapsed == \E b \in Blob : /\ cost' = [cost EXCEPT ![b] = 0]
                          /\ UNCHANGED <<limit, excused, renewal>>

Recorded == \E b \in Blob, actual \in 1 .. MaxCost : RecordActualCost(b, actual)

LEMMA Goings ==
  ASSUME SpendingInv, RenewalSteps
  PROVE  Goes \/ Recorded
PROOF
  <1> USE DEF SpendingInv
  <1>2. NoRenewal \in Renewal /\ NoRenewal.stage = "none"
    BY DEF NoRenewal, Renewal, Stages, Nobody
  <1>3. ASSUME NEW b \in Blob
        PROVE  renewal[b] \in Renewal
    BY DEF RenewalTypes
  <1>4. ASSUME NEW b \in Blob, NEW r \in Renewal, Now(b, r), UNCHANGED <<limit, excused, cost>>,
               r.stage \in {"none", "resolving", "select"} \/ r.overridden
        PROVE  Goes
    BY <1>4 DEF Goes, Advances, Passed
  <1>5. ASSUME NEW b \in Blob, StartCycleRenewal(b)
        PROVE  Goes
    <2> DEFINE r == [NoRenewal EXCEPT !.stage = "resolving"]
    <2>1. r \in Renewal /\ r.stage = "resolving"
      BY <1>2 DEF Renewal, Stages
    <2>2. Now(b, r) /\ UNCHANGED <<limit, excused, cost>>
      BY <1>5 DEF StartCycleRenewal, renewalRest
    <2> HIDE DEF r
    <2> QED BY <1>4, <2>1, <2>2
  <1>6. ASSUME NEW b \in Blob, NEW estimate \in Estimates, PolicyResolved(b, estimate)
        PROVE  Goes
    <2> DEFINE result == resolution[b].result
               r == IF ~result.auto THEN NoRenewal
                    ELSE [NoRenewal EXCEPT !.stage = "select", !.policy = result.policy,
                                           !.estimate = estimate]
    <2>1. result.policy \in PolicyId \cup {Nobody}
      BY ResolverAssumption DEF PolicyTypes, Resolution, Results
    <2>2. r \in Renewal /\ r.stage \in {"none", "select"}
      BY <1>2, <2>1 DEF Renewal, Stages
    <2>3. Now(b, r) /\ UNCHANGED <<limit, excused, cost>>
      BY <1>6 DEF PolicyResolved, renewalRest
    <2> HIDE DEF r
    <2> QED BY <1>4, <2>2, <2>3
  <1>7. ASSUME NEW b \in Blob, NEW estimate \in Estimates \cup {0}, NEW overridden \in BOOLEAN,
               StartQueuedRenewal(b, estimate, overridden)
        PROVE  Goes
    <2> DEFINE r == [NoRenewal EXCEPT !.stage = IF overridden THEN "execute" ELSE "select",
                                      !.estimate = estimate, !.overridden = overridden]
    <2>1. r \in Renewal /\ (r.stage = "select" \/ r.overridden)
      BY <1>2 DEF Renewal, Stages
    <2>2. Now(b, r) /\ UNCHANGED <<limit, excused, cost>>
      BY <1>7 DEF StartQueuedRenewal, renewalRest
    <2> HIDE DEF r
    <2> QED BY <1>4, <2>1, <2>2
  <1>8. ASSUME NEW b \in Blob, SelectLimits(b)
        PROVE  Goes
    <2> DEFINE chosen == {<<l, limit[l]>> : l \in EffectiveLimits(b, renewal[b].policy)}
               r == [renewal[b] EXCEPT !.stage = "limits", !.limits = chosen]
    <2>1. chosen \in SUBSET (LimitId \X LimitRow)
      BY DEF EffectiveLimits, LimitTypes
    <2>2. Now(b, r) /\ UNCHANGED <<limit, excused, cost>>
      BY <1>8 DEF SelectLimits, renewalRest
    <2>3. ASSUME NEW l \in LimitId, Governs(l), b \in Reach(limit[l])
          PROVE  <<l, limit[l]>> \in chosen
      <3>1. limit[l].scope \in {"wallet", "project", "organization", "policy"}
        BY DEF LimitTypes, LimitRow
      <3>2. l \in EffectiveLimits(b, renewal[b].policy)
        BY <2>3, <3>1 DEF Governs, Reach, EffectiveLimits
      <3> QED BY <3>2
    <2> HIDE DEF chosen
    <2>4. r \in Renewal /\ r.stage = "limits" /\ r.limits = chosen
      BY <1>3, <2>1 DEF Renewal, Stages
    <2> HIDE DEF r
    <2>5. Advances(b, r)
      BY <2>3, <2>4 DEF Advances, Passed
    <2> QED BY <2>2, <2>4, <2>5 DEF Goes
  <1>9. ASSUME NEW b \in Blob, NEW k \in LimitId, CheckLimit(b, k)
        PROVE  Goes
    <2> DEFINE Left(x) == renewal[b].limits \ {x}
               fewer(x) == [renewal[b] EXCEPT !.limits = Left(x)]
               Over(x) == WouldExceed(Spent(x[2], cost), renewal[b].estimate, x[2].amount)
    <2>1. PICK x \in renewal[b].limits :
             Now(b, IF ~sums \/ Over(x) THEN NoRenewal ELSE fewer(x))
      BY <1>9 DEF CheckLimit
    <2>2. renewal[b].stage = "limits" /\ UNCHANGED <<limit, excused, cost>>
      BY <1>9 DEF CheckLimit, renewalRest
    <2>3. Left(x) \in SUBSET (LimitId \X LimitRow) /\ x \in LimitId \X LimitRow
      BY <1>3, <2>1 DEF Renewal
    <2>4. CASE Now(b, NoRenewal)
      BY <1>2, <1>4, <2>2, <2>4
    <2>5. CASE Now(b, fewer(x)) /\ ~Over(x)
      <3> DEFINE left == Left(x)
                 r == [renewal[b] EXCEPT !.limits = left]
      <3>1. Now(b, r)
        BY <2>5
      <3>2. Spent(x[2], cost) <= x[2].amount
        <4>1. x[2].amount \in Nat /\ renewal[b].estimate \in Nat
          <5>1. x[2] \in LimitRow
            BY <2>3
          <5>2. renewal[b].estimate \in Estimates \cup {0}
            BY <1>3 DEF Renewal
          <5>3. Estimates \cup {0} \subseteq Nat
            BY SpendingAssumption
          <5>4. x[2].amount \in Nat
            BY <5>1 DEF LimitRow
          <5> QED BY <5>2, <5>3, <5>4
        <4>2. Spent(x[2], cost) \in Nat
          BY SpentType DEF RenewalTypes
        <4> QED BY <2>5, <4>1, <4>2 DEF WouldExceed
      <3>3. left \in SUBSET (LimitId \X LimitRow) /\ left = renewal[b].limits \ {x}
        BY <2>3
      <3> HIDE DEF left
      <3>4. /\ r \in Renewal /\ r.stage = "limits" /\ r.limits = left
            /\ r.overridden = renewal[b].overridden
        BY <1>3, <2>2, <3>3 DEF Renewal
      <3> HIDE DEF r
      <3>5. ASSUME NEW l \in LimitId, Governs(l), Passed(r, l), ~Passed(renewal[b], l)
            PROVE  Sum(cost, Reach(limit[l])) <= limit[l].amount
        <4>1. x = <<l, limit[l]>>
          BY <2>2, <3>3, <3>4, <3>5 DEF Passed
        <4> QED BY <3>2, <3>5, <4>1, SpentIs DEF Governs
      <3>6. Advances(b, r)
        BY <3>5 DEF Advances
      <3> QED BY <2>2, <3>1, <3>4, <3>6 DEF Goes
    <2> QED BY <2>1, <2>4, <2>5
  <1>10. ASSUME NEW b \in Blob, CheckBudgets(b)
         PROVE  Goes
    <2> DEFINE soft == SoftThresholdCrossed(renewal[b].estimate)
               r == [renewal[b] EXCEPT !.stage = "execute", !.soft = soft]
    <2>1. /\ Now(b, r) /\ UNCHANGED <<limit, excused, cost>>
          /\ renewal[b].stage = "limits" /\ renewal[b].limits = {}
      BY <1>10 DEF CheckBudgets, renewalRest
    <2>2. soft \in BOOLEAN
      BY DEF SoftThresholdCrossed
    <2> HIDE DEF soft
    <2>3. r \in Renewal /\ r.overridden = renewal[b].overridden
      BY <1>3, <2>2 DEF Renewal, Stages
    <2> HIDE DEF r
    <2>4. Advances(b, r)
      BY <2>1, <2>3 DEF Advances, Passed
    <2> QED BY <2>1, <2>3, <2>4 DEF Goes
  <1>11. ASSUME NEW b \in Blob, NEW ok \in BOOLEAN, Execute(b, ok)
         PROVE  Goes
    <2> DEFINE r == [renewal[b] EXCEPT !.stage = "record"]
    <2>1. /\ Now(b, NoRenewal) \/ Now(b, r)
          /\ UNCHANGED <<limit, excused, cost>> /\ renewal[b].stage = "execute"
      BY <1>11 DEF Execute, renewalRest
    <2>2. r \in Renewal /\ r.overridden = renewal[b].overridden
      BY <1>3 DEF Renewal, Stages
    <2> HIDE DEF r
    <2>3. Advances(b, r)
      BY <2>1, <2>2 DEF Advances, Passed
    <2> QED BY <1>2, <1>4, <2>1, <2>2, <2>3 DEF Goes
  <1> QED BY <1>5, <1>6, <1>7, <1>8, <1>9, <1>10, <1>11 DEF RenewalSteps, Recorded

LEMMA StepCases ==
  ASSUME SpendingInv, [SpendingNext]_allVars
  PROVE  Quietly \/ Goes \/ Rewritten \/ Lapsed \/ Recorded
PROOF
  <1> USE DEF SpendingInv
  <1>1. CASE RenewalSteps
    BY <1>1, Goings
  <1>2. CASE UNCHANGED spendVars \/ UNCHANGED allVars
    BY <1>2 DEF spendVars, allVars, Quietly
  <1>3. ASSUME NEW b \in Blob, PeriodLapses(b)
        PROVE  Lapsed
    BY <1>3 DEF PeriodLapses, Lapsed
  <1>4. ASSUME NEW l \in LimitId, NEW row \in NewLimits, CreateLimit(l, row)
        PROVE  Rewritten
    <2>1. [row EXCEPT !.status = "defined"] \in LimitRow
      BY SpendingAssumption DEF LimitRow, LimitStatus
    <2> QED BY <1>4, <2>1 DEF CreateLimit, apiRest, Rewritten
  <1>5. ASSUME NEW l \in LimitId, NEW row \in NewLimits, PatchLimit(l, row)
        PROVE  Rewritten
    <2>1. row \in LimitRow /\ limit[l] \in LimitRow
      BY SpendingAssumption DEF LimitTypes
    <2>2. [row EXCEPT !.status = limit[l].status] \in LimitRow
      BY <2>1 DEF LimitRow
    <2> QED BY <1>5, <2>2 DEF PatchLimit, apiRest, Rewritten
  <1>6. CASE LimitMoveWrite
    <2> DEFINE l == limitReq.row
    <2>1. l \in LimitId /\ limitReq.to \in LimitStatus
      BY <1>6 DEF LimitMoveWrite, LimitRequests, NoLimitRequest
    <2>2. [limit[l] EXCEPT !.status = limitReq.to] \in LimitRow
      BY <2>1 DEF LimitTypes, LimitRow
    <2> QED BY <1>6, <2>1, <2>2 DEF LimitMoveWrite, apiRest, Rewritten
  <1>7. CASE \/ \E l \in LimitId, to \in LimitStatus : LimitMoveRead(l, to)
             \/ \E project \in BOOLEAN : CreateBudget(project)
             \/ \E to \in BudgetStatus : BudgetMoveRead(to)
             \/ BudgetMoveWrite \/ RolloverSelect \/ RolloverWrite
    BY <1>7 DEF LimitMoveRead, CreateBudget, BudgetMoveRead, BudgetMoveWrite,
                RolloverSelect, RolloverWrite, apiRest, Quietly
  <1>8. CASE LimitRoutes
    BY <1>4, <1>5, <1>6, <1>7, <1>8 DEF LimitRoutes
  <1> QED BY <1>1, <1>2, <1>3, <1>8, StepsOfNext

\* Where the limit and what it excuses stay, less spent and more renewals yet to
\* pass it keep its bound.
LEMMA BoundKept ==
  ASSUME SpendingInv, ExcusedTypes, ExcusedTypes', LimitTypes', RenewalTypes',
         NEW l \in LimitId, WithinBound(l),
         limit'[l] = limit[l], excused'[l] = excused[l],
         Sum(cost, Reach(limit[l]))' <= Sum(cost, Reach(limit[l])),
         Unchecked(l) \subseteq Unchecked(l)'
  PROVE  WithinBound(l)'
PROOF
  <1> DEFINE cap == Larger(limit[l].amount, excused[l])
             few == Unchecked(l)
             many == Unchecked(l)'
  <1>1. cap \in Nat /\ cap' = cap
    BY CapType DEF SpendingInv
  <1>2. Sum(cost, Reach(limit[l])) \in Nat
    BY Summed DEF SpendingInv
  <1>3. Sum(cost, Reach(limit[l]))' \in Nat
    <2>1. \A b \in Reach(limit'[l]) : cost'[b] \in Nat
      BY ReachFinite DEF RenewalTypes
    <2>2. Sum(cost', Reach(limit'[l])) \in Nat
      BY <2>1, ReachFinite, SumType
    <2> QED BY <2>2
  <1>4. IsFiniteSet(many)
    <2>1. many \subseteq Blob
      BY DEF Unchecked, Reach
    <2> QED BY <2>1, BlobAssumption, FS_Subset
  <1>5. /\ Cardinality(few) \in Nat /\ Cardinality(many) \in Nat
        /\ Cardinality(few) <= Cardinality(many)
    BY <1>4, FS_Subset, FS_CardinalityType
  <1>6. Within(Sum(cost, Reach(limit[l])), cap, Cardinality(few))
    BY DEF WithinBound
  <1>7. Within(Sum(cost, Reach(limit[l]))', cap, Cardinality(many))
    <2> HIDE DEF cap, few, many
    <2> QED BY <1>1, <1>2, <1>3, <1>5, <1>6, WithinGrows
  <1> QED BY <1>1, <1>7 DEF WithinBound

\* Where no more is spent than the limit allows or excuses.
LEMMA BoundMet ==
  ASSUME LimitTypes', RenewalTypes', ExcusedTypes', NEW l \in LimitId,
         \/ Sum(cost, Reach(limit[l]))' <= limit'[l].amount
         \/ Sum(cost, Reach(limit[l]))' <= excused'[l]
  PROVE  WithinBound(l)'
PROOF
  <1> DEFINE cap == Larger(limit'[l].amount, excused'[l])
             many == Unchecked(l)'
             total == Sum(cost', Reach(limit'[l]))
  <1>1. limit'[l].amount \in Nat /\ excused'[l] \in Nat
    BY DEF LimitTypes, LimitRow, ExcusedTypes
  <1>2. \A b \in Reach(limit'[l]) : cost'[b] \in Nat
    BY ReachFinite DEF RenewalTypes
  <1>3. total \in Nat
    BY <1>2, ReachFinite, SumType
  <1>4. cap \in Nat /\ total <= cap
    BY <1>1, <1>3 DEF Larger
  <1>5. many \subseteq Blob
    BY DEF Unchecked, Reach
  <1>6. Cardinality(many) \in Nat
    BY <1>5, BlobAssumption, FS_Subset, FS_CardinalityType
  <1>7. Within(total, cap, Cardinality(many))
    <2> HIDE DEF total, cap, many
    <2> QED BY <1>3, <1>4, <1>6, WithinCap
  <1> QED BY <1>7 DEF WithinBound, Larger

LEMMA ExcusedKept ==
  ASSUME SpendingInv, SpendingInv', ExcusedTypes, [SpendingNext]_allVars
  PROVE  ExcusedTypes'
PROOF
  <1>1. cost \in [Blob -> Nat] /\ cost' \in [Blob -> Nat]
    BY DEF SpendingInv, RenewalTypes
  <1>2. CASE UNCHANGED excused
    BY <1>2 DEF ExcusedTypes
  <1>3. CASE Rewritten
    <2>1. PICK l \in LimitId, row \in LimitRow :
             excused' = [excused EXCEPT ![l] = Spent(row, cost)]
      BY <1>3 DEF Rewritten, PutLimit
    <2>2. Spent(row, cost) \in Nat
      BY <1>1, SpentType
    <2> QED BY <2>1, <2>2 DEF ExcusedTypes
  <1>4. CASE Recorded
    <2>1. PICK b \in Blob, actual \in 1 .. MaxCost : RecordActualCost(b, actual)
      BY <1>4 DEF Recorded
    <2>2. excused' = [l \in LimitId |-> Spent(limit[l], cost')] \/ UNCHANGED excused
      BY <2>1 DEF RecordActualCost
    <2>3. \A l \in LimitId : Spent(limit[l], cost') \in Nat
      BY <1>1, SpentType
    <2> QED BY <2>2, <2>3 DEF ExcusedTypes
  <1> QED BY <1>2, <1>3, <1>4, StepCases DEF Quietly, Goes, Lapsed

\* A renewal's step: it alone may have passed the limit, which then held.
LEMMA GoesKeeps ==
  ASSUME OvershootInv, SpendingInv', ExcusedTypes', Goes, NEW l \in LimitId, Governs(l)
  PROVE  WithinBound(l)'
PROOF
  <1> USE DEF OvershootInv
  <1>1. PICK b \in Blob, r \in Renewal :
          Now(b, r) /\ Advances(b, r) /\ UNCHANGED <<limit, excused, cost>>
    BY DEF Goes
  <1>2. renewal'[b] = r /\ \A i \in Blob \ {b} : renewal'[i] = renewal[i]
    BY <1>1 DEF Now, SpendingInv, RenewalTypes
  <1>3. WithinBound(l) /\ LimitTypes' /\ RenewalTypes'
    BY DEF SpendBound, SpendingInv
  <1>4. Sum(cost, Reach(limit[l]))' = Sum(cost, Reach(limit[l]))
    BY <1>1
  <1>5. Sum(cost, Reach(limit[l])) \in Nat
    BY Summed DEF SpendingInv
  <1>6. CASE Sum(cost, Reach(limit[l])) <= limit[l].amount
    BY <1>1, <1>3, <1>4, <1>6, BoundMet
  <1>7. CASE ~(Sum(cost, Reach(limit[l])) <= limit[l].amount)
    <2>1. b \in Reach(limit[l]) /\ Passed(r, l) => Passed(renewal[b], l)
      BY <1>1, <1>7 DEF Advances
    <2>2. \A i : Passed(renewal[i], l)' <=> Passed(renewal'[i], l)
      BY <1>1 DEF Passed
    <2>3. Unchecked(l) \subseteq Unchecked(l)'
      <3>1. Unchecked(l)' = {i \in Reach(limit[l]) : ~Passed(renewal'[i], l)}
        BY <1>1, <2>2 DEF Unchecked
      <3>2. Reach(limit[l]) \subseteq Blob
        BY ReachFinite
      <3> QED BY <1>2, <2>1, <3>1, <3>2 DEF Unchecked
    <2> QED BY <1>1, <1>3, <1>4, <1>5, <2>3, BoundKept
  <1> QED BY <1>6, <1>7

\* A limit that is written excuses what is spent under it; the others stand.
LEMMA RewrittenKeeps ==
  ASSUME OvershootInv, SpendingInv', ExcusedTypes', Rewritten, NEW l \in LimitId, Governs(l)'
  PROVE  WithinBound(l)'
PROOF
  <1> USE DEF OvershootInv
  <1>1. PICK k \in LimitId, row \in LimitRow : PutLimit(k, row) /\ UNCHANGED <<cost, renewal>>
    BY DEF Rewritten
  <1>2. limit \in [LimitId -> LimitRow] /\ excused \in [LimitId -> Nat]
    BY DEF SpendingInv, LimitTypes, ExcusedTypes
  <1>3. LimitTypes' /\ RenewalTypes'
    BY DEF SpendingInv
  <1>4. CASE l = k
    <2>1. limit'[l] = row /\ excused'[l] = Spent(row, cost)
      BY <1>1, <1>2, <1>4 DEF PutLimit
    <2>2. excused'[l] = Sum(cost, Reach(row))
      BY <2>1, SpentIs DEF Governs
    <2>3. Sum(cost, Reach(limit[l]))' = excused'[l]
      BY <1>1, <2>1, <2>2
    <2>4. excused'[l] \in Nat
      BY DEF ExcusedTypes
    <2> QED BY <1>3, <2>3, <2>4, BoundMet
  <1>5. CASE l # k
    <2>1. limit'[l] = limit[l] /\ excused'[l] = excused[l]
      BY <1>1, <1>2, <1>5 DEF PutLimit
    <2>2. WithinBound(l)
      BY <2>1 DEF SpendBound, Governs
    <2>3. Sum(cost, Reach(limit[l]))' = Sum(cost, Reach(limit[l]))
      BY <1>1, <2>1
    <2>4. Sum(cost, Reach(limit[l])) \in Nat
      BY Summed DEF SpendingInv
    <2>5. Unchecked(l)' = Unchecked(l)
      BY <1>1, <2>1 DEF Unchecked, Passed
    <2> QED BY <1>3, <2>1, <2>2, <2>3, <2>4, <2>5, BoundKept
  <1> QED BY <1>4, <1>5

LEMMA LapsedKeeps ==
  ASSUME OvershootInv, SpendingInv', ExcusedTypes', Lapsed, NEW l \in LimitId, Governs(l)
  PROVE  WithinBound(l)'
PROOF
  <1> USE DEF OvershootInv
  <1> DEFINE S == Reach(limit[l])
  <1>1. PICK b \in Blob : /\ cost' = [cost EXCEPT ![b] = 0]
                          /\ UNCHANGED <<limit, excused, renewal>>
    BY DEF Lapsed
  <1>2. cost \in [Blob -> Nat] /\ LimitTypes' /\ RenewalTypes' /\ WithinBound(l)
    BY DEF SpendingInv, RenewalTypes, SpendBound
  <1>3. /\ \A x \in S : cost[x] \in Nat /\ cost'[x] \in Nat
        /\ \A x \in S \ {b} : cost'[x] = cost[x]
        /\ cost'[b] = 0 /\ cost[b] \in Nat
    BY <1>1, <1>2, ReachFinite
  <1>4. IsFiniteSet(S)
    BY ReachFinite
  <1>5. Sum(cost', S) \in Nat /\ Sum(cost, S) \in Nat
    <2> HIDE DEF S
    <2> QED BY <1>3, <1>4, SumType
  <1>6. /\ b \in S => Sum(cost', S) + cost[b] = Sum(cost, S) + cost'[b]
        /\ b \notin S => Sum(cost', S) = Sum(cost, S)
    <2> HIDE DEF S
    <2> QED BY <1>3, <1>4, SumChanges
  <1>7. Sum(cost', S) <= Sum(cost, S)
    <2> HIDE DEF S
    <2> QED BY <1>3, <1>5, <1>6
  <1>8. Sum(cost, Reach(limit[l]))' = Sum(cost', S)
    BY <1>1
  <1>9. Unchecked(l)' = Unchecked(l)
    BY <1>1 DEF Unchecked, Passed
  <1> QED BY <1>1, <1>2, <1>7, <1>8, <1>9, BoundKept

\* The cost of a renewal that passed the limit is recorded: the renewal is one
\* more that has yet to pass it.  An overridden renewal's cost is excused.
LEMMA RecordedKeeps ==
  ASSUME OvershootInv, SpendingInv', ExcusedTypes', NEW b \in Blob, NEW actual \in 1 .. MaxCost,
         RecordActualCost(b, actual), NEW l \in LimitId, Governs(l)
  PROVE  WithinBound(l)'
PROOF
  <1> USE DEF OvershootInv
  <1> DEFINE S == Reach(limit[l])
             cap == Larger(limit[l].amount, excused[l])
  <1>1. /\ renewal[b].stage = "record" /\ Now(b, NoRenewal) /\ UNCHANGED limit
        /\ cost' = [cost EXCEPT ![b] = cost[b] + actual]
        /\ IF renewal[b].overridden
           THEN excused' = [k \in LimitId |-> Spent(limit[k], cost')] ELSE UNCHANGED excused
    BY DEF RecordActualCost, renewalRest
  <1>2. /\ cost \in [Blob -> Nat] /\ renewal \in [Blob -> Renewal]
        /\ LimitTypes /\ LimitTypes' /\ RenewalTypes /\ RenewalTypes' /\ WithinBound(l)
    BY DEF SpendingInv, RenewalTypes, SpendBound
  <1>3. /\ \A x \in S : cost[x] \in Nat /\ cost'[x] \in Nat
        /\ \A x \in S \ {b} : cost'[x] = cost[x]
        /\ cost'[b] = cost[b] + actual /\ cost[b] \in Nat
        /\ actual \in Nat /\ actual <= MaxCost /\ MaxCost \in Nat
    <2>1. actual \in Nat /\ actual <= MaxCost /\ MaxCost \in Nat
      BY SpendingAssumption
    <2> QED BY <1>1, <1>2, <2>1, ReachFinite
  <1>4. IsFiniteSet(S) /\ S \subseteq Blob
    BY ReachFinite
  <1>5. Sum(cost', S) \in Nat /\ Sum(cost, S) \in Nat
    <2> HIDE DEF S
    <2> QED BY <1>3, <1>4, SumType
  <1>6. /\ b \in S => Sum(cost', S) + cost[b] = Sum(cost, S) + cost'[b]
        /\ b \notin S => Sum(cost', S) = Sum(cost, S)
    <2> HIDE DEF S
    <2> QED BY <1>3, <1>4, SumChanges
  <1>7. Sum(cost, Reach(limit[l]))' = Sum(cost', S)
    BY <1>1
  <1>8. CASE renewal[b].overridden
    <2>1. excused'[l] = Spent(limit[l], cost')
      BY <1>1, <1>8
    <2>2. excused'[l] = Sum(cost', S)
      BY <2>1, SpentIs DEF Governs
    <2> QED BY <1>2, <1>5, <1>7, <2>2, BoundMet
  <1>9. CASE ~renewal[b].overridden
    <2>1. Passed(renewal[b], l)
      BY <1>1, <1>9 DEF Passed
    <2>2. /\ renewal'[b] = NoRenewal /\ ~Passed(NoRenewal, l)
          /\ \A i \in Blob \ {b} : renewal'[i] = renewal[i]
      BY <1>1, <1>2 DEF Now, NoRenewal, Passed
    <2>3. Unchecked(l)' = {i \in S : ~Passed(renewal'[i], l)}
      BY <1>1 DEF Unchecked, Passed
    <2>4. Unchecked(l)' = IF b \in S THEN Unchecked(l) \cup {b} ELSE Unchecked(l)
      <3> HIDE DEF S
      <3>1. Unchecked(l) = {i \in S : ~Passed(renewal[i], l)}
        BY DEF Unchecked, S
      <3> QED BY <1>4, <2>2, <2>3, <3>1
    <2>5. CASE b \notin S
      <3>1. limit'[l] = limit[l] /\ excused'[l] = excused[l]
        BY <1>1, <1>9
      <3>2. Sum(cost, Reach(limit[l]))' <= Sum(cost, Reach(limit[l]))
        <4>1. Sum(cost, Reach(limit[l]))' = Sum(cost, S) /\ Sum(cost, S) \in Nat
          BY <1>5, <1>6, <1>7, <2>5
        <4> QED BY <4>1
      <3>3. Unchecked(l) \subseteq Unchecked(l)'
        BY <2>4, <2>5
      <3> QED BY <1>2, <3>1, <3>2, <3>3, BoundKept
    <2>6. CASE b \in S
      <3>1. /\ b \notin Unchecked(l) /\ IsFiniteSet(Unchecked(l))
            /\ Cardinality(Unchecked(l)) \in Nat
        BY <2>1, Counted DEF Unchecked
      <3>2. Cardinality(Unchecked(l)') = Cardinality(Unchecked(l)) + 1
        BY <2>4, <2>6, <3>1, FS_AddElement
      <3>3. Sum(cost', S) <= Sum(cost, S) + MaxCost
        <4> HIDE DEF S
        <4> QED BY <1>3, <1>5, <1>6, <2>6
      <3>4. cap \in Nat /\ cap' = cap
        <4>1. cap \in Nat
          BY <1>2, CapType
        <4> QED BY <1>1, <1>9, <4>1
      <3>5. Within(Sum(cost, S), cap, Cardinality(Unchecked(l)))
        BY <1>2 DEF WithinBound
      <3>6. Within(Sum(cost', S), cap, Cardinality(Unchecked(l)) + 1)
        <4> HIDE DEF S, cap
        <4> QED BY <1>5, <3>1, <3>3, <3>4, <3>5, WithinOnce
      <3> QED BY <1>1, <1>7, <3>2, <3>4, <3>6 DEF WithinBound
    <2> QED BY <2>5, <2>6
  <1> QED BY <1>8, <1>9

LEMMA InitOvershoot == SpendingInit => OvershootInv
PROOF
  <1> SUFFICES ASSUME SpendingInit PROVE OvershootInv
    OBVIOUS
  <1>1. SpendingInv
    BY InitSpending
  <1>2. excused = [l \in LimitId |-> Spent(limit[l], cost)]
    BY DEF SpendingInit
  <1>3. ExcusedTypes
    BY <1>1, <1>2, SpentType DEF ExcusedTypes, SpendingInv, RenewalTypes
  <1>4. ASSUME NEW l \in LimitId, Governs(l)
        PROVE  WithinBound(l)
    <2>1. excused[l] = Sum(cost, Reach(limit[l])) /\ excused[l] \in Nat
      BY <1>2, <1>3, <1>4, SpentIs DEF Governs, ExcusedTypes
    <2>2. /\ Larger(limit[l].amount, excused[l]) \in Nat
          /\ excused[l] <= Larger(limit[l].amount, excused[l])
      BY <1>1, <1>3, CapType DEF SpendingInv
    <2>3. Cardinality(Unchecked(l)) \in Nat
      BY Counted
    <2> QED BY <2>1, <2>2, <2>3, WithinCap DEF WithinBound
  <1> QED BY <1>1, <1>3, <1>4 DEF OvershootInv, SpendBound

LEMMA StepOvershoot == OvershootInv /\ [SpendingNext]_allVars => OvershootInv'
PROOF
  <1> SUFFICES ASSUME OvershootInv, [SpendingNext]_allVars
               PROVE  OvershootInv'
    OBVIOUS
  <1>1. SpendingInv /\ SpendingInv'
    BY StepSpending DEF OvershootInv
  <1>2. ExcusedTypes'
    BY <1>1, ExcusedKept DEF OvershootInv
  <1>3. ASSUME NEW l \in LimitId, Governs(l)'
        PROVE  WithinBound(l)'
    <2>1. CASE Rewritten
      BY <1>1, <1>2, <1>3, <2>1, RewrittenKeeps
    <2>2. CASE ~Rewritten
      <3>1. UNCHANGED limit
        BY <1>1, <2>2, StepCases DEF Quietly, Goes, Lapsed, Recorded, RecordActualCost,
                                     renewalRest
      <3>2. Governs(l)
        BY <1>3, <3>1 DEF Governs
      <3>3. CASE Quietly
        BY <3>2, <3>3 DEF Quietly, OvershootInv, SpendBound, WithinBound, Unchecked, Passed
      <3>4. CASE Goes
        BY <1>1, <1>2, <3>2, <3>4, GoesKeeps
      <3>5. CASE Lapsed
        BY <1>1, <1>2, <3>2, <3>5, LapsedKeeps
      <3>6. CASE Recorded
        BY <1>1, <1>2, <3>2, <3>6, RecordedKeeps DEF Recorded
      <3> QED BY <1>1, <2>2, <3>3, <3>4, <3>5, <3>6, StepCases
    <2> QED BY <2>1, <2>2
  <1> QED BY <1>1, <1>2, <1>3 DEF OvershootInv, SpendBound

(* checkBudgetBeforeExecution reads what is recorded, and the cost is       *)
(* recorded after the execution: the costs under a wallet, project or       *)
(* organization limit exceed its amount, or what it excuses, by no more     *)
(* than one renewal of each blob.  Every blob whose renewal has not passed  *)
(* the limit leaves the costs that much below (SpendBound).                 *)
THEOREM OvershootIsBounded == SpendingSpec => []OvershootBounded
PROOF
  <1>1. OvershootInv /\ SpendingTypeOK => OvershootBounded
    <2> SUFFICES ASSUME OvershootInv, SpendingTypeOK, NEW l \in LimitId, Governs(l)
                 PROVE  Spent(limit[l], cost) <=
                          Larger(limit[l].amount, excused[l])
                            + Cardinality(Charged(limit[l])) * MaxCost
      BY DEF OvershootBounded, Governs
    <2> DEFINE cap == Larger(limit[l].amount, excused[l])
    <2>1. WithinBound(l) /\ cap \in Nat
      BY CapType DEF OvershootInv, SpendBound, SpendingInv
    <2>2. Charged(limit[l]) = Reach(limit[l])
      BY DEF Governs, Charged, Reach
    <2>3. /\ Spent(limit[l], cost) = Sum(cost, Reach(limit[l]))
          /\ Sum(cost, Reach(limit[l])) \in Nat
      BY SpentIs, Summed DEF Governs, OvershootInv, SpendingInv
    <2>4. /\ Cardinality(Unchecked(l)) \in Nat /\ Cardinality(Reach(limit[l])) \in Nat
          /\ Cardinality(Unchecked(l)) <= Cardinality(Reach(limit[l]))
      BY Counted, ReachFinite, FS_Subset, FS_CardinalityType
    <2>5. Within(Sum(cost, Reach(limit[l])), cap, Cardinality(Reach(limit[l])))
      <3> DEFINE total == Sum(cost, Reach(limit[l]))
                 m == Cardinality(Unchecked(l))
                 n == Cardinality(Reach(limit[l]))
      <3>1. Within(total, cap, m)
        BY <2>1 DEF WithinBound
      <3>2. total \in Nat /\ cap \in Nat /\ m \in Nat /\ n \in Nat /\ m <= n /\ total <= total
        BY <2>1, <2>3, <2>4
      <3> HIDE DEF total, cap, m, n
      <3>3. Within(total, cap, n)
        BY <3>1, <3>2, WithinGrows
      <3> QED BY <3>3 DEF total, cap, n
    <2> QED BY <2>2, <2>3, <2>5 DEF Within
  <1>2. SpendingSpec => []OvershootInv
    BY InitOvershoot, StepOvershoot, PTL DEF SpendingSpec
  <1> QED BY <1>1, <1>2, SpendingTypes, PTL
===============================================================================
