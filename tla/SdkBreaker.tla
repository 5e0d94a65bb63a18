----------------------------- MODULE SdkBreaker -----------------------------
(***************************************************************************)
(* The circuit breaker of the connector SDK (sdk/connector/circuit).       *)
(*                                                                         *)
(* Allow and Record each run under the breaker's mutex; the guarded        *)
(* operation runs between them with no lock held, so a call admitted in    *)
(* one state may be recorded in another.  A call is "normal" when the      *)
(* circuit was closed as it was admitted and "probe" when it was half-open.*)
(* A goroutine whose operation panics ends there: net/http recovers the    *)
(* panic and drops the connection.                                         *)
(* Real time is the number of ticks waited since the circuit opened.       *)
(***************************************************************************)
EXTENDS Naturals

CONSTANTS Calls,             \* the goroutines that use the breaker
          FailureThreshold,  \* consecutive failures that open the circuit
          RecoveryTimeout,   \* ticks spent open before a probe is let through
          MaxFails           \* the failure counter stops here

ASSUME BreakerAssumption ==
  /\ FailureThreshold \in Nat \ {0}
  /\ RecoveryTimeout \in Nat \ {0}
  /\ MaxFails \in Nat /\ MaxFails >= FailureThreshold

VARIABLES state,             \* the circuit's state
          consecutiveFails,  \* failures since the last success
          waited,            \* ticks since openedAt, up to RecoveryTimeout
          halfOpenInFlight,  \* the probe slot is taken
          call               \* call[c]: what goroutine c is doing

vars == <<state, consecutiveFails, waited, halfOpenInFlight, call>>

States == {"closed", "open", "half_open"}
Phases == {"idle", "normal", "probe", "gone", "lost_probe"}

Init == /\ state = "closed"
        /\ consecutiveFails = 0
        /\ waited = 0
        /\ halfOpenInFlight = FALSE
        /\ call = [c \in Calls |-> "idle"]

\* The state after maybeTransitionToHalfOpen.
Advanced == IF state = "open" /\ waited >= RecoveryTimeout THEN "half_open" ELSE state

AllowClosed(c) ==
  /\ call[c] = "idle"
  /\ Advanced = "closed"
  /\ call' = [call EXCEPT ![c] = "normal"]
  /\ UNCHANGED <<state, consecutiveFails, waited, halfOpenInFlight>>

\* Mutant: the first call after the timeout closes the circuit.
AllowProbe_Closes(c) ==
  /\ call[c] = "idle"
  /\ Advanced = "half_open"
  /\ ~halfOpenInFlight
  /\ state' = "closed"
  /\ halfOpenInFlight' = TRUE
  /\ call' = [call EXCEPT ![c] = "probe"]
  /\ UNCHANGED <<consecutiveFails, waited>>

AllowProbe(c) ==
  /\ call[c] = "idle"
  /\ Advanced = "half_open"
  /\ ~halfOpenInFlight
  /\ state' = "half_open"
  /\ halfOpenInFlight' = TRUE
  /\ call' = [call EXCEPT ![c] = "probe"]
  /\ UNCHANGED <<consecutiveFails, waited>>

\* Mutant: a rejected call restarts the time the circuit stays open.
AllowRejected_Restarts(c) ==
  /\ call[c] = "idle"
  /\ \/ Advanced = "open"
     \/ Advanced = "half_open" /\ halfOpenInFlight
  /\ state' = Advanced
  /\ waited' = 0
  /\ UNCHANGED <<consecutiveFails, halfOpenInFlight, call>>

\* ErrOpen: the circuit is open, or half-open with its probe in flight.
AllowRejected(c) ==
  /\ call[c] = "idle"
  /\ \/ Advanced = "open"
     \/ Advanced = "half_open" /\ halfOpenInFlight
  /\ state' = Advanced
  /\ UNCHANGED <<consecutiveFails, waited, halfOpenInFlight, call>>

\* State() also moves an open circuit whose time has come to half-open.
Observe ==
  /\ state' = Advanced
  /\ UNCHANGED <<consecutiveFails, waited, halfOpenInFlight, call>>

\* Mutant: a failure counts down.
Counted_Down == consecutiveFails - 1

\* One more failure.  Nothing tells counts above the threshold apart, so the
\* counter saturates at MaxFails.
Counted == IF consecutiveFails < MaxFails THEN consecutiveFails + 1 ELSE MaxFails

Finish(c) == /\ call[c] \in {"normal", "probe"}
             /\ call' = [call EXCEPT ![c] = "idle"]

\* Mutant: a success closes the circuit and leaves the counter as it was.
RecordSuccess_KeepsCount(c) ==
  /\ Finish(c)
  /\ state' = "closed"
  /\ halfOpenInFlight' = FALSE
  /\ UNCHANGED <<consecutiveFails, waited>>

\* Mutant: a success closes the circuit and leaves the probe slot taken.
RecordSuccess_KeepsSlot(c) ==
  /\ Finish(c)
  /\ state' = "closed"
  /\ consecutiveFails' = 0
  /\ UNCHANGED <<waited, halfOpenInFlight>>

\* Record(nil): whatever the state, the circuit closes.
RecordSuccess(c) ==
  /\ Finish(c)
  /\ state' = "closed"
  /\ consecutiveFails' = 0
  /\ halfOpenInFlight' = FALSE
  /\ UNCHANGED waited

\* A failure in half-open, or the threshold-th one in closed, opens the circuit.
Trips(fails) == \/ state = "half_open"
                \/ state = "closed" /\ fails >= FailureThreshold

\* Mutant: a failure in half-open does not give the probe slot back.
RecordFailure_KeepsSlot(c) ==
  /\ Finish(c)
  /\ consecutiveFails' = Counted
  /\ UNCHANGED halfOpenInFlight
  /\ IF Trips(Counted)
     THEN state' = "open" /\ waited' = 0
     ELSE UNCHANGED <<state, waited>>

\* Record(err).
RecordFailure(c) ==
  /\ Finish(c)
  /\ consecutiveFails' = Counted
  /\ halfOpenInFlight' = FALSE
  /\ IF Trips(Counted)
     THEN state' = "open" /\ waited' = 0
     ELSE UNCHANGED <<state, waited>>

\* Do does not defer Record: a panic of the operation leaves the call unrecorded.
Panic(c) ==
  /\ call[c] \in {"normal", "probe"}
  /\ call' = [call EXCEPT ![c] = IF @ = "probe" THEN "lost_probe" ELSE "gone"]
  /\ UNCHANGED <<state, consecutiveFails, waited, halfOpenInFlight>>

Tick ==
  /\ state = "open" /\ waited < RecoveryTimeout
  /\ waited' = waited + 1
  /\ UNCHANGED <<state, consecutiveFails, halfOpenInFlight, call>>

Allow(c)  == AllowClosed(c) \/ AllowProbe(c) \/ AllowRejected(c)
Record(c) == RecordSuccess(c) \/ RecordFailure(c)

Next == \/ \E c \in Calls : Allow(c) \/ Record(c) \/ Panic(c)
        \/ Observe
        \/ Tick

Spec == Init /\ [][Next]_vars

\* Operations return (the connector's HTTP client has a timeout), time passes,
\* and callers keep asking.
Fairness == /\ WF_vars(Tick)
            /\ \A c \in Calls : WF_vars(Record(c)) /\ WF_vars(Allow(c))

LiveSpec == Spec /\ Fairness

(***************************************************************************)
(* Properties                                                              *)
(***************************************************************************)

\* The breaker's fields and the phases of the calls keep their types.
TypeOK == /\ state \in States
          /\ consecutiveFails \in Nat
          /\ waited \in 0..RecoveryTimeout
          /\ halfOpenInFlight \in BOOLEAN
          /\ call \in [Calls -> Phases]

Probes == {c \in Calls : call[c] = "probe"}

\* The counter and the state agree however late results are recorded: the
\* circuit is closed exactly while fewer than FailureThreshold consecutive
\* failures are on record (Record, breaker.go:121-143).
ClosedIffBelowThreshold == (state = "closed") <=> (consecutiveFails < FailureThreshold)

Lost == {c \in Calls : call[c] = "lost_probe"}

\* The probe slot is taken only in half-open and only on behalf of a probe that
\* is in flight or panicked: no stale result and no observer leaves a circuit
\* waiting for nobody (Allow, breaker.go:108-115; Record, breaker.go:121-143).
SlotHasProbe == halfOpenInFlight => state = "half_open" /\ Probes \cup Lost # {}

\* An open circuit is tried again while there are callers: late failures do not
\* keep it open (breaker.go:136-142 restarts openedAt only when it opens it).
OpenIsLeft ==
  state = "open" ~> (state # "open" \/ \A c \in Calls : call[c] \in {"gone", "lost_probe"})

\* A taken probe slot is given back, except by a probe that panicked: "Call
\* Record when the operation completes" (breaker.go:99).
SlotIsFreed == halfOpenInFlight ~> (~halfOpenInFlight \/ Lost # {})

\* While there are callers the breaker always comes to a decision: it leaves open,
\* and it gives a probe slot back (breaker.go:96-143).
CircuitIsNeverStuck == OpenIsLeft /\ SlotIsFreed
=============================================================================
