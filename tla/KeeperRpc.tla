------------------------------ MODULE KeeperRpc ------------------------------
(***************************************************************************)
(* How the keeper reaches the chain (keeper/src/index.ts): the scan of a   *)
(* cycle and each direct renewal go through the cycle's own circuit        *)
(* breaker and, inside it, make calls through the pool of endpoints, each  *)
(* behind a breaker of its own; the queue's executions use the pool        *)
(* without the cycle's breaker.  The renewals of a cycle run concurrently. *)
(*                                                                         *)
(* CircuitBreaker's variables are the cycle's breaker; the endpoints'      *)
(* breakers are a second instance, inside the pool.                        *)
(***************************************************************************)
EXTENDS CircuitBreaker

CONSTANTS Size,              \* endpoints of the pool
          EndpointThreshold

ASSUME RpcAssumption ==
    Breaker # {} /\ Size \in Nat \ {0} /\ EndpointThreshold \in Nat \ {0}

VARIABLES cursor, calls,                             \* the pool
          estate, efailures, eelapsed, eprobing, einside  \* its breakers

poolVars == <<cursor, calls, estate, efailures, eelapsed, eprobing, einside>>
vars == <<breakerVars, poolVars>>

Pool == INSTANCE RpcPool WITH
          Breaker <- 0 .. Size - 1, NoBreaker <- Size,
          Threshold <- EndpointThreshold, state <- estate,
          failures <- efailures, elapsed <- eelapsed, probing <- eprobing,
          inside <- einside

Cycle == CHOOSE b \in Breaker : TRUE

Init == BreakerInit /\ Pool!Init

(* suiCircuitBreaker.call(...) starts the scan or a renewal.               *)
Enter(c) ==
    /\ calls[c] = Pool!NoCall
    /\ Admit(c, Cycle)
    /\ UNCHANGED poolVars

(* A step of a pool call, of what was entered or of the queue's execution. *)
PoolStep(c) == Pool!CallStep(c) /\ UNCHANGED breakerVars

(* The wrapped function ends between two calls of the pool: the retries of *)
(* withRetry and of the executor decide which.                             *)
Leave(c) ==
    /\ calls[c] = Pool!NoCall
    /\ Returns(c, Cycle) \/ Throws(c, Cycle)
    /\ UNCHANGED poolVars

CycleTimeout == TimeoutElapses(Cycle) /\ UNCHANGED poolVars
EndpointTimeout ==
    /\ \E b \in 0 .. Size - 1 : Pool!TimeoutElapses(b)
    /\ UNCHANGED <<breakerVars, cursor, calls>>

Next ==
    \/ \E c \in Caller : Enter(c) \/ PoolStep(c) \/ Leave(c)
    \/ CycleTimeout \/ EndpointTimeout

Spec == Init /\ [][Next]_vars

-----------------------------------------------------------------------------
(* sui-pool.ts: a call that gives up has tried every endpoint that was not *)
(* OPEN, whatever other callers do to the shared cursor.                   *)
ClosedIsTried == Pool!ClosedIsTried

(* sui-pool.ts: an outage of all endpoints is never noticed to be over,    *)
(* although the cycle's breaker goes on probing.                           *)
OutageIsFinal == Pool!OutageIsFinal
=============================================================================
