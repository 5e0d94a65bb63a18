------------------------------- MODULE IamSync -------------------------------
(***************************************************************************)
(* One IAM connector of the integration service (internal/iam and          *)
(* internal/handler/iam_handler.go): its circuit breaker, the scheduler's  *)
(* loop that syncs it on every tick and keeps the last result, the         *)
(* endpoint that forces a sync and the endpoint that serves the evidence   *)
(* of the last result.                                                     *)
(*                                                                         *)
(* The IAM breaker repeats the SIEM breaker line by line, so its actions   *)
(* are those of IntegrationBreaker; the loop and the POST requests share   *)
(* it.  A piece of evidence is its type and its position in what the sync  *)
(* mapped.  Evidence requests are served one at a time: two filtered ones  *)
(* at once would be a data race on the stored slice.                       *)
(*                                                                         *)
(* Abstracted: snapshots, scores, the OnSync callback (it logs), the       *)
(* registry (a connector is never removed), the other connectors.          *)
(***************************************************************************)
EXTENDS Naturals, Sequences, SequencesExt, Filters

CONSTANTS Loop,              \* the scheduler's goroutine for this connector
          Posts,             \* POST .../sync requests being served
          FailureThreshold, RecoveryTimeout, MaxFails,
          Mapped             \* the types of the evidence a sync maps, in order

\* main.go builds every breaker with DefaultConfig: 5 failures, 30 seconds.
ASSUME ConfigAssumption ==
  /\ FailureThreshold \in Nat \ {0}
  /\ RecoveryTimeout \in Nat \ {0}
  /\ MaxFails \in Nat /\ MaxFails >= FailureThreshold

VARIABLES state, consecutiveFails, waited, call,  \* the breaker
          up,          \* the provider answers
          scheduled,   \* the scheduler's context has not been cancelled
          outcome,     \* what the loop's sync returned and has not stored yet
          result,      \* the scheduler's results[name]
          filtered,    \* the types it was filtered for since it was stored
          reply        \* the last answer of GET .../evidence

breaker == <<state, consecutiveFails, waited, call>>
vars    == <<breaker, up, scheduled, outcome, result, filtered, reply>>

Breaker == INSTANCE IntegrationBreaker WITH Calls <- {Loop} \cup Posts

Types == ToSet(Mapped)

ASSUME MappedAssumption == Mapped \in Seq(Types)

Items == {[type |-> Mapped[i], pos |-> i] : i \in 1..Len(Mapped)}

Nothing     == [kind |-> "nothing"]
CircuitOpen == [kind |-> "circuit_open"]
SyncError   == [kind |-> "error"]

\* Mutant: the last record of the snapshot is not mapped.
MapSnapshotToEvidence_Short ==
  [i \in 1..(Len(Mapped) - 1) |-> [type |-> Mapped[i], pos |-> i]]

\* MapSnapshotToEvidence: one item per mapped record, in order.
MapSnapshotToEvidence == [i \in 1..Len(Mapped) |-> [type |-> Mapped[i], pos |-> i]]

Synced == [kind |-> "ok", evidence |-> MapSnapshotToEvidence]

Init == /\ Breaker!Init
        /\ up \in BOOLEAN
        /\ scheduled = TRUE
        /\ outcome = Nothing
        /\ result = Nothing /\ filtered = {}
        /\ reply = [kind |-> "none"]

\* The provider goes down and comes back.
Provider == /\ up' = ~up
            /\ UNCHANGED <<breaker, scheduled, outcome, result, filtered, reply>>

(***************************************************************************)
(* scheduler.go                                                            *)
(***************************************************************************)

\* runLoop: a tick starts a sync of this connector.
LoopSync == /\ scheduled /\ outcome = Nothing
            /\ Breaker!Enter(Loop)
            /\ UNCHANGED <<up, scheduled, outcome, result, filtered, reply>>

LoopShortCircuited ==
  /\ scheduled /\ outcome = Nothing
  /\ Breaker!ShortCircuit(Loop)
  /\ outcome' = CircuitOpen
  /\ UNCHANGED <<up, scheduled, result, filtered, reply>>

\* The provider answers the loop's sync, or the sync fails; cancelling the
\* scheduler's context makes it fail too.
LoopAnswered ==
  /\ \/ up /\ scheduled /\ Breaker!RecordSuccess(Loop) /\ outcome' = Synced
     \/ (~up \/ ~scheduled) /\ Breaker!RecordFailure(Loop) /\ outcome' = SyncError
  /\ UNCHANGED <<up, scheduled, result, filtered, reply>>

\* Mutant: the first error is kept until the process restarts.
StoreResult_KeepsError ==
  /\ outcome # Nothing
  /\ result' = IF result = SyncError THEN result ELSE outcome
  /\ outcome' = Nothing /\ filtered' = {}
  /\ UNCHANGED <<breaker, up, scheduled, reply>>

\* sync's last step: results[name] = result, success or failure.
StoreResult ==
  /\ outcome # Nothing
  /\ result' = outcome
  /\ outcome' = Nothing /\ filtered' = {}
  /\ UNCHANGED <<breaker, up, scheduled, reply>>

\* Stop cancels the context; it does not wait for a sync under way.
Stop == /\ scheduled
        /\ scheduled' = FALSE
        /\ UNCHANGED <<breaker, up, outcome, result, filtered, reply>>

(***************************************************************************)
(* iam_handler.go                                                          *)
(***************************************************************************)

\* TriggerSync: the result goes to the client, not to the scheduler's results.
Post(p) == /\ Breaker!Enter(p) \/ Breaker!ShortCircuit(p)
           /\ UNCHANGED <<up, scheduled, outcome, result, filtered, reply>>

\* The provider answers a forced sync, or is down.
PostAnswered(p) ==
  /\ IF up THEN Breaker!RecordSuccess(p) ELSE Breaker!RecordFailure(p)
  /\ UNCHANGED <<up, scheduled, outcome, result, filtered, reply>>

\* The client hangs up: its context is cancelled and the sync fails, which the
\* breaker counts like a failure of the provider.
PostAbandoned(p) ==
  /\ Breaker!RecordFailure(p)
  /\ UNCHANGED <<up, scheduled, outcome, result, filtered, reply>>

Matching(evidence, type) ==
  Filtered(evidence, {i \in DOMAIN evidence : evidence[i].type = type})

\* filtered := evidence[:0] appends into the array it reads from: the matching
\* items overwrite the front of the stored slice and the rest stays.
FilterInPlace(evidence, type) ==
  LET kept == Matching(evidence, type)
  IN  [i \in 1..Len(evidence) |-> IF i <= Len(kept) THEN kept[i] ELSE evidence[i]]

Replied(kind, type, items) ==
  [kind |-> kind, type |-> type, items |-> items, before |-> filtered]

\* Mutant: the whole overwritten slice is served instead of the matching prefix.
GetEvidence_ServesAll(type) ==
  /\ result.kind = "ok"
  /\ result' = [result EXCEPT !.evidence = FilterInPlace(result.evidence, type)]
  /\ filtered' = filtered \cup {type}
  /\ reply' = Replied("filtered", type, result'.evidence)
  /\ UNCHANGED <<breaker, up, scheduled, outcome>>

\* GET .../evidence?type=...
GetEvidence(type) ==
  /\ result.kind = "ok"
  /\ result' = [result EXCEPT !.evidence = FilterInPlace(result.evidence, type)]
  /\ filtered' = filtered \cup {type}
  /\ reply' = Replied("filtered", type, Matching(result.evidence, type))
  /\ UNCHANGED <<breaker, up, scheduled, outcome>>

\* GET .../evidence: the evidence, or why there is none.
GetAllEvidence ==
  /\ reply' = IF result.kind = "ok" THEN Replied("all", "any", result.evidence) ELSE result
  /\ UNCHANGED <<breaker, up, scheduled, outcome, result, filtered>>

\* Time passes, and health checks look at the circuit.
BreakerTime == /\ Breaker!Tick \/ Breaker!Observe
               /\ UNCHANGED <<up, scheduled, outcome, result, filtered, reply>>

Next == \/ Provider \/ Stop
        \/ LoopSync \/ LoopShortCircuited \/ LoopAnswered \/ StoreResult
        \/ \E p \in Posts : Post(p) \/ PostAnswered(p) \/ PostAbandoned(p)
        \/ \E type \in Types : GetEvidence(type)
        \/ GetAllEvidence
        \/ BreakerTime

Spec == Init /\ [][Next]_vars

\* The ticker fires, syncs return (60 s and 30 s timeouts) and time passes.
Fairness == /\ WF_vars(LoopSync) /\ WF_vars(LoopAnswered) /\ WF_vars(StoreResult)
            /\ \A p \in Posts : WF_vars(PostAnswered(p))
            /\ WF_vars(Breaker!Tick /\ UNCHANGED <<up, scheduled, outcome, result, filtered, reply>>)

LiveSpec == Spec /\ Fairness

(***************************************************************************)
(* Properties                                                              *)
(***************************************************************************)

\* The breaker, the scheduler's result and the loop's outcome keep their types.
Results == {Nothing, CircuitOpen, SyncError}
           \cup [kind : {"ok"}, evidence : [1..Len(Mapped) -> Items]]
TypeOK == /\ Breaker!TypeOK
          /\ up \in BOOLEAN /\ scheduled \in BOOLEAN
          /\ outcome \in Results /\ result \in Results /\ filtered \in SUBSET Types
          /\ reply.kind \in {"none", "filtered", "all", "nothing", "circuit_open", "error"}

OfType(type) == {item \in Items : item.type = type}

\* Filtering in place destroys what other requests were to get, but not at random:
\* every item answered is one of the sync, a filtered answer has items of its type
\* only, and all of them as long as no other type was asked for since the result was
\* stored; an unfiltered answer is the whole sync as long as no type was
\* (GetEvidence, iam_handler.go:124-132).
FiltersSpareTheirType ==
  /\ reply.kind \in {"all", "filtered"} => ToSet(reply.items) \subseteq Items
  /\ reply.kind = "filtered" => ToSet(reply.items) \subseteq OfType(reply.type)
  /\ reply.kind = "filtered" /\ reply.before \subseteq {reply.type} =>
       OfType(reply.type) \subseteq ToSet(reply.items)
  /\ reply.kind = "all" /\ reply.before = {} => reply.items = MapSnapshotToEvidence

\* A result keeps its length and answers stay within the sync, whatever was filtered;
\* what is lost is of types not asked for first (iam_handler.go:124-132).
FilteringIsBounded == TypeOK /\ FiltersSpareTheirType

\* However forced and scheduled syncs interleave, and whoever gives up, the
\* shared circuit is closed exactly while fewer than FailureThreshold failures
\* in a row are on record (circuit_breaker.go:71-102).
CircuitAgrees == Breaker!ClosedIffBelowThreshold

\* Once the provider stays up and clients wait for their answers, the
\* scheduler's result becomes and stays good: a circuit that opened in the
\* outage is probed by the loop or by a POST and closes, and no stale failure
\* opens it again (circuit_breaker.go, scheduler.go).
Recovers ==
  (<>[]up /\ []scheduled /\ <>[][\A p \in Posts : ~PostAbandoned(p)]_vars)
     => <>[](result.kind = "ok")
=============================================================================
