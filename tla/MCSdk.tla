-------------------------------- MODULE MCSdk --------------------------------
(***************************************************************************)
(* What holds calls back, for TLC: the SDK's circuit breaker, the breaker  *)
(* and the token bucket of a connector whose syncs share them, and the     *)
(* rate limiters of the gateway and the shared cache.  The three share no  *)
(* state at run time, so a behaviour belongs to one of them.               *)
(***************************************************************************)
EXTENDS ConnectorSync, RateWindow

CONSTANTS c1, c2, c3    \* model values

VARIABLE part

TwoCalls   == {c1, c2}
ThreeCalls == {c1, c2, c3}

syncVars == <<sync, tokens, bearer, started>>

MCInit == /\ part \in {"breaker", "connector", "window"}
          /\ ConnectorInit /\ WindowInit
          /\ part # "window" => limiter = "cache"

\* A connector with no sync left to start is at rest.
Rest == /\ started = MaxSyncs /\ \A c \in Syncs : At(c, "closed")
        /\ UNCHANGED connectorVars

mcVars == <<part, connectorVars, windowVars>>

InBreaker   == part = "breaker" /\ UNCHANGED <<part, syncVars, windowVars>>
InConnector == part = "connector" /\ UNCHANGED <<part, windowVars>>
InLimiter   == part = "window" /\ UNCHANGED <<part, connectorVars>>

MCNext == \/ InBreaker /\ Next
          \/ InConnector /\ (ConnectorNext \/ Rest)
          \/ InLimiter /\ WindowNext

\* Each part under its own fairness: Fairness, ConnectorFairness and WindowFairness.
MCSpec ==
  /\ MCInit /\ [][MCNext]_mcVars
  /\ WF_mcVars(Tick /\ InBreaker)
  /\ \A c \in Calls : WF_mcVars(Record(c) /\ InBreaker) /\ WF_mcVars(Allow(c) /\ InBreaker)
  /\ WF_mcVars(Refill /\ InConnector)
  /\ \A c \in Syncs : WF_mcVars(Step(c) /\ InConnector)
  /\ WF_mcVars(WindowTick /\ InLimiter)
  /\ \A c \in Clients : WF_mcVars(Ask(c) /\ InLimiter) /\ WF_mcVars(LimiterScript(c) /\ InLimiter)

\* While there are callers the circuit comes to a decision (breaker.go:96-143); those
\* of a connector may stop asking for pages.
CallersAreNotStuck == part = "breaker" => CircuitIsNeverStuck
===============================================================================
