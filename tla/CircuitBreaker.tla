--------------------------- MODULE CircuitBreaker ---------------------------
(***************************************************************************)
(* The keeper's circuit breaker, keeper/src/circuit-breaker.ts.  call() is *)
(* synchronous up to the await of the wrapped function and again from its  *)
(* return or throw on, so it is two steps; any number of callers may be    *)
(* inside at the same time, and a call admitted while the breaker was      *)
(* CLOSED may end long after it opened.                                    *)
(***************************************************************************)
EXTENDS Integers

CONSTANTS
    Breaker,    \* circuit breakers
    Caller,     \* concurrent callers
    NoBreaker,
    Threshold   \* failures that trip a breaker

ASSUME BreakerAssumption == Threshold \in Nat \ {0} /\ NoBreaker \notin Breaker

VARIABLES
    state,     \* _state
    failures,  \* failureCount, counted up to Threshold
    elapsed,   \* has timeout passed since lastFailureTime?
    probing,
    inside     \* the breaker whose wrapped function each caller awaits

breakerVars == <<state, failures, elapsed, probing, inside>>

BreakerInit ==
    /\ state = [b \in Breaker |-> "CLOSED"]
    /\ failures = [b \in Breaker |-> 0]
    /\ elapsed = [b \in Breaker |-> FALSE]
    /\ probing = [b \in Breaker |-> FALSE]
    /\ inside = [c \in Caller |-> NoBreaker]

(* The state call() acts on: OPEN gives way to HALF_OPEN after the timeout. *)
CurrentState(b) == IF state[b] = "OPEN" /\ elapsed[b] THEN "HALF_OPEN" ELSE state[b]

(* The first half of call(): the wrapped function is started. *)
Admit(c, b) ==
    /\ inside[c] = NoBreaker
    /\ CurrentState(b) # "OPEN"
    /\ CurrentState(b) = "HALF_OPEN" => ~probing[b]
    /\ state' = [state EXCEPT ![b] = CurrentState(b)]
    /\ probing' = [probing EXCEPT ![b] = @ \/ CurrentState(b) = "HALF_OPEN"]
    /\ inside' = [inside EXCEPT ![c] = b]
    /\ UNCHANGED <<failures, elapsed>>

(* It throws at once: OPEN, or HALF_OPEN with a probe under way. *)
Rejects(b) == CurrentState(b) = "OPEN" \/ (CurrentState(b) = "HALF_OPEN" /\ probing[b])

(* The wrapped function returned. *)
Returns(c, b) ==
    /\ inside[c] = b
    /\ state' = [state EXCEPT ![b] = IF @ = "HALF_OPEN" THEN "CLOSED" ELSE @]
    /\ failures' = [failures EXCEPT ![b] = 0]
    /\ probing' = [probing EXCEPT ![b] = FALSE]
    /\ inside' = [inside EXCEPT ![c] = NoBreaker]
    /\ UNCHANGED elapsed

AfterFailure(b) == IF failures[b] < Threshold THEN failures[b] + 1 ELSE Threshold

TripsLate(b) == failures[b] >= Threshold /\ state[b] # "OPEN"  \* mutant: compares before counting

Trips(b) == AfterFailure(b) >= Threshold /\ state[b] # "OPEN"

FreshOnly(c, b) == probing[b]  \* mutant: only a success clears the flag

ProbingAfterThrow(c, b) == FALSE

(* The wrapped function threw.  finally clears probing whoever set it. *)
Throws(c, b) ==
    /\ inside[c] = b
    /\ failures' = [failures EXCEPT ![b] = AfterFailure(b)]
    /\ state' = [state EXCEPT ![b] = IF Trips(b) THEN "OPEN" ELSE @]
    /\ elapsed' = [elapsed EXCEPT ![b] = IF Trips(b) THEN FALSE ELSE @]
    /\ probing' = [probing EXCEPT ![b] = ProbingAfterThrow(c, b)]
    /\ inside' = [inside EXCEPT ![c] = NoBreaker]

TimeoutElapses(b) ==
    /\ state[b] = "OPEN" /\ ~elapsed[b]
    /\ elapsed' = [elapsed EXCEPT ![b] = TRUE]
    /\ UNCHANGED <<state, failures, probing, inside>>

BreakerNext ==
    \E b \in Breaker :
        \/ TimeoutElapses(b)
        \/ \E c \in Caller : Admit(c, b) \/ Returns(c, b) \/ Throws(c, b)

BreakerSpec == BreakerInit /\ [][BreakerNext]_breakerVars

-----------------------------------------------------------------------------
(* Properties.                                                             *)

(* The flags are flags and the count never passes the threshold.           *)
BreakerTypeOK ==
    /\ state \in [Breaker -> {"CLOSED", "HALF_OPEN", "OPEN"}]
    /\ failures \in [Breaker -> 0..Threshold]
    /\ elapsed \in [Breaker -> BOOLEAN]
    /\ probing \in [Breaker -> BOOLEAN]
    /\ inside \in [Caller -> Breaker \cup {NoBreaker}]

(* The probe flag is never left behind: it is set only in HALF_OPEN and    *)
(* while some caller is inside, so a failed or late call cannot block the  *)
(* breaker in "currently probing" for ever.                                *)
ProbeHasCaller ==
    \A b \in Breaker :
        probing[b] => state[b] = "HALF_OPEN" /\ \E c \in Caller : inside[c] = b

(* A CLOSED breaker has seen fewer than Threshold consecutive failures,    *)
(* whatever late answers arrive in between.                                *)
ClosedBelowThreshold ==
    \A b \in Breaker : state[b] = "CLOSED" => failures[b] < Threshold
=============================================================================
