------------------------- MODULE IntegrationBreaker -------------------------
(***************************************************************************)
(* The circuit breaker wrapped around every connector of the integration   *)
(* service (internal/connector/circuit_breaker.go for the SIEM connectors, *)
(* repeated line by line in internal/iam/circuit_breaker.go).  Unlike the  *)
(* SDK's it keeps no probe slot.  The mutex is held while a call is let    *)
(* through and again while its result is recorded, not in between.  The    *)
(* module gives the breaker's actions to the modules of its callers.       *)
(***************************************************************************)
EXTENDS Naturals

CONSTANTS Calls,             \* the goroutines that call the connector
          FailureThreshold,  \* consecutive failures that open the circuit
          RecoveryTimeout,   \* ticks spent open before a probe is let through
          MaxFails           \* the failure counter stops here

VARIABLES state,             \* the circuit's state
          consecutiveFails,  \* failures since the last success
          waited,            \* ticks since openedAt, up to RecoveryTimeout
          call               \* call[c]: "idle", or in the connector since the
                             \* circuit was "closed" or "half_open"

vars == <<state, consecutiveFails, waited, call>>

States == {"closed", "open", "half_open"}

Init == /\ state = "closed"
        /\ consecutiveFails = 0
        /\ waited = 0
        /\ call = [c \in Calls |-> "idle"]

\* The state after maybeTransitionToHalfOpen.
Advanced == IF state = "open" /\ waited >= RecoveryTimeout THEN "half_open" ELSE state

\* FetchLogs up to the call of the inner connector.
Enter(c) ==
  /\ call[c] = "idle"
  /\ Advanced # "open"
  /\ state' = Advanced
  /\ call' = [call EXCEPT ![c] = Advanced]
  /\ UNCHANGED <<consecutiveFails, waited>>

\* ErrCircuitOpen.
ShortCircuit(c) ==
  /\ call[c] = "idle"
  /\ Advanced = "open"
  /\ UNCHANGED vars

\* CircuitState and Health move the circuit to half-open as well.
Observe ==
  /\ state' = Advanced
  /\ UNCHANGED <<consecutiveFails, waited, call>>

Leave(c) == /\ call[c] # "idle"
            /\ call' = [call EXCEPT ![c] = "idle"]

\* Mutant: a success resets the counter only.
RecordSuccess_CounterOnly(c) ==
  /\ Leave(c)
  /\ consecutiveFails' = 0
  /\ UNCHANGED <<state, waited>>

\* record(nil).
RecordSuccess(c) ==
  /\ Leave(c)
  /\ state' = "closed"
  /\ consecutiveFails' = 0
  /\ UNCHANGED waited

\* One more failure.  Nothing tells counts above the threshold apart, so the
\* counter saturates at MaxFails.
Counted == IF consecutiveFails < MaxFails THEN consecutiveFails + 1 ELSE MaxFails

\* record(err).
RecordFailure(c) ==
  /\ Leave(c)
  /\ consecutiveFails' = Counted
  /\ IF Counted >= FailureThreshold /\ state # "open"
     THEN state' = "open" /\ waited' = 0
     ELSE UNCHANGED <<state, waited>>

Tick ==
  /\ state = "open" /\ waited < RecoveryTimeout
  /\ waited' = waited + 1
  /\ UNCHANGED <<state, consecutiveFails, call>>

(***************************************************************************)
(* Properties                                                              *)
(***************************************************************************)

\* The breaker's fields and the calls keep their types.
TypeOK == /\ state \in States
          /\ consecutiveFails \in Nat
          /\ waited \in 0..RecoveryTimeout
          /\ call \in [Calls -> {"idle", "closed", "half_open"}]

\* Whatever order results arrive in, the circuit is closed exactly while fewer
\* than FailureThreshold consecutive failures are on record (record,
\* circuit_breaker.go:121-136).
ClosedIffBelowThreshold == (state = "closed") <=> (consecutiveFails < FailureThreshold)
=============================================================================
