------------------------------- MODULE RpcPool -------------------------------
(***************************************************************************)
(* SuiClientPool.call, keeper/src/sui-pool.ts: round-robin failover over   *)
(* RPC endpoints, each behind a circuit breaker of its own.  Scanner and   *)
(* executor make every RPC call through it, concurrently.                  *)
(***************************************************************************)
EXTENDS CircuitBreaker

CONSTANTS Size  \* number of endpoints, whose breakers are 0 .. Size - 1

VARIABLES
    cursor,  \* currentIndex
    calls    \* of each caller: the loop's start index, offset, and history

poolVars == <<cursor, calls>>

vars == <<state, failures, elapsed, probing, inside, cursor, calls>>

NoCall == [pc |-> "idle", start |-> 0, offset |-> 0, seen |-> {}, tried |-> {}]

Init == BreakerInit /\ cursor = 0 /\ calls = [c \in Caller |-> NoCall]

(* call() captures the shared cursor. *)
Begin(c) ==
    /\ calls[c].pc = "idle"
    /\ calls' = [calls EXCEPT ![c] = [NoCall EXCEPT !.pc = "loop", !.start = cursor]]
    /\ UNCHANGED <<cursor, state, failures, elapsed, probing, inside>>

Index(c) == (calls[c].start + calls[c].offset) % Size

(* The loop leaves an endpoint behind and goes on, or gives up. *)
Onward(c, tried) ==
    [calls EXCEPT ![c].pc = IF calls[c].offset + 1 < Size THEN "loop" ELSE "failed",
                  ![c].offset = @ + 1,
                  ![c].seen = @ \cup {Index(c)},
                  ![c].tried = tried]

(* An endpoint is skipped while its breaker's state is OPEN, whether or    *)
(* not the timeout has passed; or the breaker throws at once.              *)
AvoidsFailing(b) == failures[b] > 0 \/ Rejects(b)  \* mutant: one failure is enough

(* Variant for OutageIsFinal: an elapsed timeout ends the skipping. *)
PassedOverWhileOpen(b) == Rejects(b)

PassedOver(b) == state[b] = "OPEN" \/ Rejects(b)

Skip(c) ==
    /\ calls[c].pc = "loop"
    /\ PassedOver(Index(c))
    /\ calls' = Onward(c, calls[c].tried)
    /\ UNCHANGED <<cursor, state, failures, elapsed, probing, inside>>

Attempt(c) ==
    /\ calls[c].pc = "loop"
    /\ ~PassedOver(Index(c))
    /\ Admit(c, Index(c))
    /\ calls' = [calls EXCEPT ![c].pc = "waiting"]
    /\ UNCHANGED cursor

AttemptSucceeds(c) ==
    /\ calls[c].pc = "waiting"
    /\ Returns(c, Index(c))
    /\ cursor' = (Index(c) + 1) % Size
    /\ calls' = [calls EXCEPT ![c] = NoCall]

AttemptFails(c) ==
    /\ calls[c].pc = "waiting"
    /\ Throws(c, Index(c))
    /\ calls' = Onward(c, calls[c].tried \cup {Index(c)})
    /\ UNCHANGED cursor

(* All endpoints failed: the last error is thrown to the caller. *)
Fail(c) ==
    /\ calls[c].pc = "failed"
    /\ calls' = [calls EXCEPT ![c] = NoCall]
    /\ UNCHANGED <<cursor, state, failures, elapsed, probing, inside>>

CallStep(c) ==
    \/ Begin(c) \/ Skip(c) \/ Attempt(c) \/ AttemptSucceeds(c) \/ AttemptFails(c) \/ Fail(c)

Next ==
    \/ \E c \in Caller : CallStep(c)
    \/ \E b \in Breaker : TimeoutElapses(b) /\ UNCHANGED poolVars

Spec == Init /\ [][Next]_vars

-----------------------------------------------------------------------------
(* Properties.                                                             *)

(* An endpoint with its breaker CLOSED is never passed over: a call that   *)
(* gives up has really tried every endpoint that was CLOSED throughout.    *)
ClosedIsTried ==
    \A c \in Caller : \A b \in calls[c].seen :
        b \in calls[c].tried \/ state[b] = "OPEN"

(* Once every endpoint's breaker is OPEN the pool sends nothing any more:  *)
(* call() looks at the raw state, and only a call through the breaker      *)
(* would notice that the timeout has passed.  The comment in call() says   *)
(* "unless all are open"; the code has no such exception.                  *)
AllOpen == \A b \in Breaker : state[b] = "OPEN"
OutageIsFinal == [][AllOpen => AllOpen']_vars
=============================================================================
