-------------------------- MODULE IntegrationProofs --------------------------
(***************************************************************************)
(* The integration service: the circuit of an IAM connector, shared by the *)
(* scheduler's loop and by any number of forced syncs, for every threshold *)
(* and timeout; the evidence it serves, filtered in place; the export of   *)
(* any findings to ServiceNow, by any number of requests at once; what a   *)
(* request makes of the remote calls to a vulnerability scanner; the       *)
(* readings of a page of Security Hub findings; and what a sync makes of a *)
(* directory read in several calls.                                        *)
(***************************************************************************)
EXTENDS IamSync, ServiceNowExport, VulnConnectors, SecurityHub, IamSnapshot,
        SumTheorems, SequenceTheorems, TLAPS

(***************************************************************************)
(* The circuit (IamSync)                                                   *)
(***************************************************************************)

\* The types are needed with the agreement: a failure counts from a number, and
\* whether the circuit opens depends on the state it is recorded in.
CircuitInv == Breaker!TypeOK /\ CircuitAgrees

\* A failure adds to the count until it is at the threshold, and never takes it back
\* below (record, circuit_breaker.go:121-136).
LEMMA CountedGrows ==
  ASSUME Breaker!TypeOK
  PROVE  /\ Breaker!Counted \in Nat
         /\ consecutiveFails >= FailureThreshold => Breaker!Counted >= FailureThreshold
  BY ConfigAssumption DEF Breaker!TypeOK, Breaker!Counted

\* Time moves an open circuit to half-open and leaves a closed one closed
\* (maybeTransitionToHalfOpen).
LEMMA AdvancedState ==
  ASSUME Breaker!TypeOK
  PROVE  /\ Breaker!Advanced \in Breaker!States
         /\ Breaker!Advanced = "closed" <=> state = "closed"
  BY DEF Breaker!TypeOK, Breaker!States, Breaker!Advanced

LEMMA InitCircuit == Init => CircuitInv
<1> SUFFICES ASSUME Breaker!Init PROVE CircuitInv
  BY DEF Init
<1>1. /\ state = "closed" /\ consecutiveFails = 0 /\ waited = 0
      /\ call = [c \in {Loop} \cup Posts |-> "idle"]
  BY DEF Breaker!Init
<1>2. Breaker!TypeOK
  <2>1. waited \in 0..RecoveryTimeout
    BY <1>1, ConfigAssumption
  <2>2. QED
    BY <1>1, <2>1 DEF Breaker!TypeOK, Breaker!States
<1>3. CircuitAgrees
  BY <1>1, ConfigAssumption DEF CircuitAgrees, Breaker!ClosedIffBelowThreshold
<1>4. QED
  BY <1>2, <1>3 DEF CircuitInv

\* Letting a call through, or looking at the circuit, counts nothing.
LEMMA EnterInv ==
  ASSUME CircuitInv, NEW c \in {Loop} \cup Posts, Breaker!Enter(c)
  PROVE  CircuitInv'
<1>1. /\ state' = Breaker!Advanced /\ Breaker!Advanced # "open"
      /\ call' = [call EXCEPT ![c] = Breaker!Advanced]
      /\ UNCHANGED <<consecutiveFails, waited>>
  BY DEF Breaker!Enter
<1>2. /\ Breaker!Advanced \in Breaker!States
      /\ Breaker!Advanced = "closed" <=> state = "closed"
  BY AdvancedState DEF CircuitInv
<1>3. Breaker!TypeOK'
  BY <1>1, <1>2 DEF CircuitInv, Breaker!TypeOK, Breaker!States
<1>4. CircuitAgrees'
  BY <1>1, <1>2 DEF CircuitInv, CircuitAgrees, Breaker!ClosedIffBelowThreshold
<1>5. QED
  BY <1>3, <1>4 DEF CircuitInv

LEMMA ObserveInv ==
  ASSUME CircuitInv, Breaker!Observe
  PROVE  CircuitInv'
<1>1. state' = Breaker!Advanced /\ UNCHANGED <<consecutiveFails, waited, call>>
  BY DEF Breaker!Observe
<1>2. /\ Breaker!Advanced \in Breaker!States
      /\ Breaker!Advanced = "closed" <=> state = "closed"
  BY AdvancedState DEF CircuitInv
<1>3. Breaker!TypeOK'
  BY <1>1, <1>2 DEF CircuitInv, Breaker!TypeOK, Breaker!States
<1>4. CircuitAgrees'
  BY <1>1, <1>2 DEF CircuitInv, CircuitAgrees, Breaker!ClosedIffBelowThreshold
<1>5. QED
  BY <1>3, <1>4 DEF CircuitInv

LEMMA SuccessInv ==
  ASSUME CircuitInv, NEW c \in {Loop} \cup Posts, Breaker!RecordSuccess(c)
  PROVE  CircuitInv'
<1>1. /\ state' = "closed" /\ consecutiveFails' = 0 /\ waited' = waited
      /\ call' = [call EXCEPT ![c] = "idle"]
  BY DEF Breaker!RecordSuccess, Breaker!Leave
<1>2. Breaker!TypeOK'
  BY <1>1 DEF CircuitInv, Breaker!TypeOK, Breaker!States
<1>3. CircuitAgrees'
  BY <1>1, ConfigAssumption DEF CircuitAgrees, Breaker!ClosedIffBelowThreshold
<1>4. QED
  BY <1>2, <1>3 DEF CircuitInv

\* The failure may be one of a call let through long before: in an open circuit it
\* is counted, and in any other it opens the circuit as soon as there are enough.
LEMMA FailureInv ==
  ASSUME CircuitInv, NEW c \in {Loop} \cup Posts, Breaker!RecordFailure(c)
  PROVE  CircuitInv'
<1> DEFINE fails == Breaker!Counted
<1>1. /\ consecutiveFails' = fails
      /\ call' = [call EXCEPT ![c] = "idle"]
      /\ IF fails >= FailureThreshold /\ state # "open"
         THEN state' = "open" /\ waited' = 0
         ELSE UNCHANGED <<state, waited>>
  BY DEF Breaker!RecordFailure, Breaker!Leave
<1>2. /\ fails \in Nat
      /\ consecutiveFails >= FailureThreshold => fails >= FailureThreshold
  BY CountedGrows DEF CircuitInv
<1>3. /\ state \in Breaker!States /\ waited \in 0..RecoveryTimeout /\ consecutiveFails \in Nat
      /\ state = "closed" <=> consecutiveFails < FailureThreshold
  BY DEF CircuitInv, Breaker!TypeOK, CircuitAgrees, Breaker!ClosedIffBelowThreshold
<1> HIDE DEF fails
<1>4. Breaker!TypeOK'
  <2>1. state' \in Breaker!States /\ waited' \in 0..RecoveryTimeout
    BY <1>1, <1>3, ConfigAssumption DEF Breaker!States
  <2>2. call' \in [{Loop} \cup Posts -> {"idle", "closed", "half_open"}]
    BY <1>1 DEF CircuitInv, Breaker!TypeOK
  <2>3. QED
    BY <1>1, <1>2, <2>1, <2>2 DEF Breaker!TypeOK, Breaker!States
<1>5. CircuitAgrees'
  BY <1>1, <1>2, <1>3, ConfigAssumption DEF CircuitAgrees, Breaker!ClosedIffBelowThreshold
<1>6. QED
  BY <1>4, <1>5 DEF CircuitInv

LEMMA TickInv ==
  ASSUME CircuitInv, Breaker!Tick
  PROVE  CircuitInv'
<1>1. /\ state = "open" /\ waited < RecoveryTimeout /\ waited' = waited + 1
      /\ UNCHANGED <<state, consecutiveFails, call>>
  BY DEF Breaker!Tick
<1>2. Breaker!TypeOK'
  BY <1>1, ConfigAssumption DEF CircuitInv, Breaker!TypeOK, Breaker!States
<1>3. CircuitAgrees'
  BY <1>1 DEF CircuitInv, CircuitAgrees, Breaker!ClosedIffBelowThreshold
<1>4. QED
  BY <1>2, <1>3 DEF CircuitInv

LEMMA QuietInv ==
  ASSUME CircuitInv, UNCHANGED breaker
  PROVE  CircuitInv'
  BY DEF breaker, CircuitInv, CircuitAgrees, Breaker!TypeOK, Breaker!States,
         Breaker!ClosedIffBelowThreshold

LEMMA NextCircuit == CircuitInv /\ [Next]_vars => CircuitInv'
<1> SUFFICES ASSUME CircuitInv, [Next]_vars PROVE CircuitInv'
  OBVIOUS
<1>1. CASE Provider \/ Stop \/ StoreResult \/ GetAllEvidence
  BY <1>1, QuietInv DEF Provider, Stop, StoreResult, GetAllEvidence
<1>2. CASE LoopSync
  BY <1>2, EnterInv DEF LoopSync
<1>3. CASE LoopShortCircuited
  BY <1>3, QuietInv DEF LoopShortCircuited, Breaker!ShortCircuit, Breaker!vars, breaker
<1>4. CASE LoopAnswered
  BY <1>4, SuccessInv, FailureInv DEF LoopAnswered
<1>5. ASSUME NEW p \in Posts, Post(p) PROVE CircuitInv'
  <2>1. CASE Breaker!Enter(p)
    BY <2>1, EnterInv
  <2>2. CASE Breaker!ShortCircuit(p)
    BY <2>2, QuietInv DEF Breaker!ShortCircuit, Breaker!vars, breaker
  <2>3. QED
    BY <1>5, <2>1, <2>2 DEF Post
<1>6. ASSUME NEW p \in Posts, PostAnswered(p) PROVE CircuitInv'
  BY <1>6, SuccessInv, FailureInv DEF PostAnswered
<1>7. ASSUME NEW p \in Posts, PostAbandoned(p) PROVE CircuitInv'
  BY <1>7, FailureInv DEF PostAbandoned
<1>8. ASSUME NEW type \in Types, GetEvidence(type) PROVE CircuitInv'
  BY <1>8, QuietInv DEF GetEvidence
<1>9. CASE BreakerTime
  BY <1>9, TickInv, ObserveInv DEF BreakerTime
<1>10. CASE UNCHANGED vars
  BY <1>10, QuietInv DEF vars
<1>11. QED
  BY <1>1, <1>2, <1>3, <1>4, <1>5, <1>6, <1>7, <1>8, <1>9, <1>10 DEF Next

\* The breaker of an IAM connector keeps its types and agrees with its counter,
\* whoever shares it (internal/iam/circuit_breaker.go:71-136).
THEOREM SpecCircuitInvariant == Spec => []CircuitInv
  BY InitCircuit, NextCircuit, PTL DEF Spec

\* However the loop's and the forced syncs interleave, and whoever gives up, the
\* circuit is closed exactly while fewer than FailureThreshold failures in a row are
\* on record (record, circuit_breaker.go:121-136).
THEOREM SpecCircuitAgrees == Spec => []CircuitAgrees
<1>1. CircuitInv => CircuitAgrees
  BY DEF CircuitInv
<1>2. QED
  BY <1>1, SpecCircuitInvariant, PTL

(***************************************************************************)
(* The evidence of the last sync (IamSync)                                 *)
(*                                                                         *)
(* Filtering in place puts items of the slice where others were, so every  *)
(* position keeps an item of the sync, and those of the type asked for are *)
(* all in front.  A second type overwrites them: what the invariant keeps  *)
(* is the whole sync until a first filter, and one type until a second.    *)
(***************************************************************************)

Evidence == [1..Len(Mapped) -> Items]

\* What is left of the last sync in the slice the scheduler keeps.
SyncIsSpared ==
  result.kind = "ok" =>
    /\ filtered = {} => result.evidence = MapSnapshotToEvidence
    /\ \A type \in Types : filtered \subseteq {type} => OfType(type) \subseteq ToSet(result.evidence)

EvidenceInv ==
  /\ up \in BOOLEAN /\ scheduled \in BOOLEAN
  /\ outcome \in Results /\ result \in Results /\ filtered \in SUBSET Types
  /\ outcome.kind = "ok" => outcome = Synced
  /\ SyncIsSpared
  /\ reply.kind \in {"none", "filtered", "all", "nothing", "circuit_open", "error"}
  /\ FiltersSpareTheirType

\* MapSnapshotToEvidence maps every record, and the sync is nothing else.
LEMMA SyncedIsResult ==
  /\ Synced \in Results /\ MapSnapshotToEvidence \in Evidence
  /\ ToSet(MapSnapshotToEvidence) = Items /\ \A item \in Items : item.type \in Types
<1>1. Len(Mapped) \in Nat /\ \A i \in 1..Len(Mapped) : Mapped[i] \in Types
  BY MappedAssumption
<1>2. MapSnapshotToEvidence \in Evidence
  BY <1>1 DEF MapSnapshotToEvidence, Evidence, Items
<1>3. ToSet(MapSnapshotToEvidence) = Items
  BY <1>1 DEF MapSnapshotToEvidence, ToSet, Items
<1>4. \A item \in Items : item.type \in Types
  BY <1>1 DEF Items
<1> QED  BY <1>2, <1>3, <1>4 DEF Synced, Results, Evidence

LEMMA GoodResult ==
  ASSUME result \in Results, result.kind = "ok"
  PROVE  /\ result \in [kind : {"ok"}, evidence : Evidence]
         /\ result.evidence \in Evidence
  BY DEF Results, Evidence, Nothing, CircuitOpen, SyncError

\* What matches is what the slice has of the type; the slice keeps its length, holds
\* items only and loses none of the type.
LEMMA FilterFacts ==
  ASSUME NEW evidence \in Evidence, NEW type
  PROVE  /\ FilterInPlace(evidence, type) \in Evidence
         /\ ToSet(Matching(evidence, type)) = {item \in ToSet(evidence) : item.type = type}
         /\ ToSet(Matching(evidence, type)) \subseteq ToSet(FilterInPlace(evidence, type))
<1> DEFINE P == {i \in DOMAIN evidence : evidence[i].type = type}
           Fit == {it \in Items : it.type = type}
           kept == Matching(evidence, type)
           left == FilterInPlace(evidence, type)
<1>1. Len(Mapped) \in Nat
  BY MappedAssumption
<1>2. DOMAIN evidence = 1..Len(Mapped) /\ Len(evidence) = Len(Mapped)
  BY <1>1 DEF Evidence
<1>3. P \in SUBSET Nat /\ IsFiniteSet(P) /\ Cardinality(P) \in Nat /\ Cardinality(P) <= Len(Mapped)
  <2>1. P \in SUBSET (1..Len(Mapped))
    BY <1>2
  <2>2. IsFiniteSet(1..Len(Mapped)) /\ Cardinality(1..Len(Mapped)) = Len(Mapped)
    <3>1. PICK n \in Nat : n = Len(Mapped)
      BY <1>1
    <3>2. IsFiniteSet(1..n) /\ Cardinality(1..n) = n
      BY FS_Interval
    <3> QED  BY <3>1, <3>2
  <2> HIDE DEF P
  <2>3. IsFiniteSet(P) /\ Cardinality(P) <= Len(Mapped)
    BY <2>1, <2>2, FS_Subset
  <2> QED  BY <2>1, <2>3, FS_CardinalityType
<1>4. \A i \in P : evidence[i] \in Fit
  BY <1>2 DEF Evidence
<1>5. \A i : i \in P <=> i \in 1..Len(Mapped) /\ evidence[i].type = type
  BY <1>2
<1>6. kept = Filtered(evidence, P)
  BY DEF Matching
<1> HIDE DEF P
<1>7. kept \in Seq(Fit) /\ Len(kept) = Cardinality(P)
  BY <1>3, <1>4, <1>6, FilteredInType
<1>8. \A k \in 1..Cardinality(P) : Nth(P, k) \in P /\ kept[k] = evidence[Nth(P, k)]
  BY <1>3, <1>6, NthIsRanked DEF Filtered
<1>9. \A i \in P : \E k \in 1..Cardinality(P) : Nth(P, k) = i
  BY <1>3, NthIs
<1>10. left = [i \in 1..Len(Mapped) |-> IF i <= Len(kept) THEN kept[i] ELSE evidence[i]]
  BY <1>2 DEF FilterInPlace
<1> HIDE DEF kept, left
<1>11. \A i \in 1..Len(kept) : kept[i] \in Items /\ kept[i].type = type
  BY <1>7
<1>12. left \in Evidence
  <2>1. \A i \in 1..Len(Mapped) : (IF i <= Len(kept) THEN kept[i] ELSE evidence[i]) \in Items
    BY <1>7, <1>11 DEF Evidence
  <2> QED  BY <1>10, <2>1 DEF Evidence
<1>13. ToSet(kept) = {item \in ToSet(evidence) : item.type = type}
  <2>1. ToSet(kept) = {kept[k] : k \in 1..Cardinality(P)}
    BY <1>3, <1>7 DEF ToSet
  <2>2. ToSet(evidence) = {evidence[i] : i \in 1..Len(Mapped)}
    BY <1>2 DEF ToSet
  <2>3. ASSUME NEW k \in 1..Cardinality(P)
        PROVE  kept[k] \in ToSet(evidence) /\ kept[k].type = type
    BY <1>5, <1>8, <2>2
  <2>4. ASSUME NEW i \in 1..Len(Mapped), evidence[i].type = type
        PROVE  evidence[i] \in ToSet(kept)
    BY <1>5, <1>8, <1>9, <2>1, <2>4
  <2> QED  BY <2>1, <2>2, <2>3, <2>4
<1>14. ToSet(kept) \subseteq ToSet(left)
  <2>1. ToSet(left) = {left[i] : i \in 1..Len(Mapped)}
    BY <1>10 DEF ToSet
  <2>2. ToSet(kept) = {kept[k] : k \in 1..Cardinality(P)}
    BY <1>3, <1>7 DEF ToSet
  <2>3. \A k \in 1..Cardinality(P) : k \in 1..Len(Mapped) /\ left[k] = kept[k]
    BY <1>1, <1>3, <1>7, <1>10
  <2> QED  BY <2>1, <2>2, <2>3
<1> QED  BY <1>12, <1>13, <1>14 DEF kept, left

LEMMA InitEvidence == Init => EvidenceInv
  BY DEF Init, EvidenceInv, SyncIsSpared, FiltersSpareTheirType, Results, Nothing

LEMMA GetEvidenceFits ==
  ASSUME EvidenceInv, NEW type \in Types, GetEvidence(type)
  PROVE  EvidenceInv'
<1> USE DEF EvidenceInv
<1>1. /\ result \in [kind : {"ok"}, evidence : Evidence] /\ result.evidence \in Evidence
      /\ result.kind = "ok"
  BY GoodResult DEF GetEvidence
<1>2. PICK had \in Evidence : had = result.evidence
  BY <1>1
<1>3. PICK left \in Evidence : left = FilterInPlace(had, type)
  BY FilterFacts
<1>4. PICK kept : kept = Matching(had, type)
  OBVIOUS
<1>5. /\ ToSet(kept) = {item \in ToSet(had) : item.type = type}
      /\ ToSet(kept) \subseteq ToSet(left)
  BY <1>3, <1>4, FilterFacts
<1>6. ToSet(had) \subseteq Items
  BY DEF Evidence, ToSet
<1>7. result' = [result EXCEPT !.evidence = left] /\ filtered' = filtered \cup {type}
  BY <1>2, <1>3 DEF GetEvidence
<1>8. result' \in Results /\ result'.evidence = left /\ filtered' \in SUBSET Types
  BY <1>1, <1>7 DEF Results, Evidence
<1>9. filtered \subseteq {type} => OfType(type) \subseteq ToSet(kept)
  BY <1>1, <1>2, <1>5 DEF SyncIsSpared, OfType
<1>10. SyncIsSpared'
  <2>1. filtered' # {}
    BY <1>7
  <2>2. ASSUME NEW u \in Types, filtered' \subseteq {u} PROVE OfType(u) \subseteq ToSet(left)
    <3>1. u = type /\ filtered \subseteq {type}
      BY <1>7, <2>2
    <3> QED  BY <1>5, <1>9, <3>1
  <2> QED  BY <1>8, <2>1, <2>2 DEF SyncIsSpared, OfType
<1>11. reply' = [kind |-> "filtered", type |-> type, items |-> kept, before |-> filtered]
  BY <1>2, <1>4 DEF GetEvidence, Replied
<1>12. FiltersSpareTheirType'
  <2>1. ToSet(kept) \subseteq OfType(type)
    BY <1>5, <1>6 DEF OfType
  <2>2. ToSet(kept) \subseteq Items
    BY <1>5, <1>6
  <2>3. /\ reply'.kind = "filtered" /\ reply'.type = type /\ reply'.items = kept
        /\ reply'.before = filtered
    BY <1>11
  <2> QED  BY <1>9, <2>1, <2>2, <2>3 DEF FiltersSpareTheirType, OfType
<1> QED  BY <1>8, <1>10, <1>11, <1>12 DEF GetEvidence

LEMMA GetAllEvidenceFits ==
  ASSUME EvidenceInv, GetAllEvidence
  PROVE  EvidenceInv'
<1> USE DEF EvidenceInv
<1>1. UNCHANGED <<up, scheduled, outcome, result, filtered>>
  BY DEF GetAllEvidence
<1>2. SyncIsSpared'
  BY <1>1 DEF SyncIsSpared, OfType
<1>3. CASE result.kind = "ok"
  <2>1. result.evidence \in Evidence
    BY <1>3, GoodResult
  <2>2. ToSet(result.evidence) \subseteq Items
    BY <2>1 DEF Evidence, ToSet
  <2>3. reply' = [kind |-> "all", type |-> "any", items |-> result.evidence, before |-> filtered]
    BY <1>3 DEF GetAllEvidence, Replied
  <2>4. FiltersSpareTheirType'
    BY <1>3, <2>2, <2>3 DEF SyncIsSpared, FiltersSpareTheirType
  <2> QED  BY <1>1, <1>2, <2>3, <2>4
<1>4. CASE result.kind # "ok"
  <2>1. reply' = result /\ reply'.kind \in {"nothing", "circuit_open", "error"}
    BY <1>4 DEF GetAllEvidence, Results, Nothing, CircuitOpen, SyncError
  <2>2. FiltersSpareTheirType'
    BY <2>1 DEF FiltersSpareTheirType
  <2> QED  BY <1>1, <1>2, <2>1, <2>2
<1> QED  BY <1>3, <1>4

LEMMA NextEvidence == EvidenceInv /\ [Next]_vars => EvidenceInv'
<1> SUFFICES ASSUME EvidenceInv, [Next]_vars PROVE EvidenceInv'
  OBVIOUS
<1> USE DEF EvidenceInv
<1>1. ASSUME UNCHANGED <<result, filtered, reply>>, up' \in BOOLEAN, scheduled' \in BOOLEAN,
             outcome' \in Results, outcome'.kind = "ok" => outcome' = Synced
      PROVE  EvidenceInv'
  <2>1. SyncIsSpared' /\ FiltersSpareTheirType'
    BY <1>1 DEF SyncIsSpared, FiltersSpareTheirType, OfType
  <2> QED  BY <1>1, <2>1
<1>2. CASE Provider \/ Stop \/ LoopSync \/ BreakerTime \/ UNCHANGED vars
  BY <1>1, <1>2 DEF Provider, Stop, LoopSync, BreakerTime, vars
<1>3. CASE LoopShortCircuited \/ LoopAnswered
  <2>1. /\ CircuitOpen \in Results /\ SyncError \in Results
        /\ CircuitOpen.kind # "ok" /\ SyncError.kind # "ok"
    BY DEF Results, CircuitOpen, SyncError
  <2> QED  BY <1>1, <1>3, <2>1, SyncedIsResult DEF LoopShortCircuited, LoopAnswered
<1>4. CASE StoreResult
  <2>1. Nothing \in Results /\ Nothing.kind # "ok"
    BY DEF Results, Nothing
  <2>2. /\ result' = outcome /\ outcome' = Nothing /\ filtered' = {} /\ reply' = reply
        /\ UNCHANGED <<up, scheduled>>
    BY <1>4 DEF StoreResult
  <2>3. SyncIsSpared'
    <3>1. ASSUME outcome.kind = "ok" PROVE outcome.evidence = MapSnapshotToEvidence
      BY <3>1 DEF Synced
    <3> QED  BY <2>2, <3>1, SyncedIsResult DEF SyncIsSpared, OfType
  <2>4. FiltersSpareTheirType'
    BY <2>2 DEF FiltersSpareTheirType, OfType
  <2> QED  BY <2>1, <2>2, <2>3, <2>4
<1>5. ASSUME NEW p \in Posts, Post(p) \/ PostAnswered(p) \/ PostAbandoned(p)
      PROVE  EvidenceInv'
  BY <1>1, <1>5 DEF Post, PostAnswered, PostAbandoned
<1>6. ASSUME NEW type \in Types, GetEvidence(type)
      PROVE  EvidenceInv'
  BY <1>6, GetEvidenceFits
<1>7. CASE GetAllEvidence
  BY <1>7, GetAllEvidenceFits
<1> QED  BY <1>2, <1>3, <1>4, <1>5, <1>6, <1>7 DEF Next

\* Filtering in place loses evidence, of any sync and however many filters came before:
\* never of the type asked for until another one was asked for, and never anything
\* before the first filter; and what is answered is always of the sync
\* (GetEvidence, iam_handler.go:124-132).
THEOREM SpecFilteringIsBounded == Spec => []FilteringIsBounded
<1>1. Spec => []EvidenceInv
  BY InitEvidence, NextEvidence, PTL DEF Spec
<1>2. CircuitInv /\ EvidenceInv => FilteringIsBounded
  BY DEF CircuitInv, EvidenceInv, FilteringIsBounded, TypeOK
<1> QED  BY <1>1, <1>2, SpecCircuitInvariant, PTL

(***************************************************************************)
(* The export to ServiceNow (ServiceNowExport)                             *)
(*                                                                         *)
(* An export that is about to create a risk or a task holds the id of an   *)
(* item of the finding in hand; items only get more, so it stays one.  An  *)
(* item that needs a risk has one, or is the one an export is about to     *)
(* create it for, or an export broke off there.                            *)
(***************************************************************************)

GRCItems    == {GRCItem(f, n) : f \in Findings, n \in Nat}
RiskEntries == {RiskEntry(f) : f \in Findings}
Tasks       == {RemediationTask(f, n) : f \in Findings, n \in Nat}
Tables      == [items : Seq(GRCItems), risks : Seq(RiskEntries), tasks : Seq(Tasks)]
Exports     == [step : {"idle", "item", "risk", "task"}, findings : Seq(Findings), pos : Nat,
                item : Nat, result : Tables, status : {0, 200, 502}]

ExportTypeOK == tables \in Tables /\ export \in [Exporters -> Exports]

AtFinding(r) == r.step # "idle" => r.pos \in 1..Len(r.findings)

HoldsItem(r, items) ==
  r.step \in {"risk", "task"} =>
    /\ r.item \in 1..Len(items)
    /\ items[r.item].source = r.findings[r.pos].id

ExportsFit == \A e \in Exporters : AtFinding(export[e]) /\ HoldsItem(export[e], tables.items)

\* A risk that an export is about to create.
RiskDue(id) == \E e \in Exporters : export[e].step = "risk" /\ InHand(e).id = id

HasRisk(id) == \E k \in 1..Len(tables.risks) : tables.risks[k].source = id

RiskIsKnown(i) ==
  tables.items[i].priority <= 2 =>
    \E id \in {tables.items[i].source} : HasRisk(id) \/ RiskDue(id) \/ id \in broken

RisksAreCreated == \A i \in 1..Len(tables.items) : RiskIsKnown(i)

TasksHaveItems ==
  \A k \in 1..Len(tables.tasks) :
    /\ tables.tasks[k].item \in 1..Len(tables.items)
    /\ tables.items[tables.tasks[k].item].source = tables.tasks[k].source

ExportInv == ExportTypeOK /\ ExportsFit /\ RisksAreCreated /\ TasksHaveItems

LEMMA RecordFacts ==
  ASSUME NEW f \in Findings, NEW n \in Nat
  PROVE  /\ GRCItem(f, n) \in GRCItems /\ GRCItem(f, n).source = f.id
         /\ GRCItem(f, n).priority <= 2 => NeedsRisk(f)
         /\ RiskEntry(f) \in RiskEntries /\ RiskEntry(f).source = f.id
         /\ RemediationTask(f, n) \in Tasks /\ RemediationTask(f, n).source = f.id
         /\ RemediationTask(f, n).item = n
<1>1. GRCItem(f, n).priority = SeverityToSNPriority(f.severity) /\ GRCItem(f, n).source = f.id
  BY DEF GRCItem
<1>2. SeverityToSNPriority(f.severity) <= 2 => NeedsRisk(f)
  BY DEF SeverityToSNPriority, NeedsRisk
<1>3. RiskEntry(f).source = f.id
  BY DEF RiskEntry
<1>4. RemediationTask(f, n).source = f.id /\ RemediationTask(f, n).item = n
  BY DEF RemediationTask
<1>5. GRCItem(f, n) \in GRCItems /\ RiskEntry(f) \in RiskEntries /\ RemediationTask(f, n) \in Tasks
  BY DEF GRCItems, RiskEntries, Tasks
<1>6. QED
  BY <1>1, <1>2, <1>3, <1>4, <1>5

LEMMA NoExportFacts ==
  ASSUME NEW status \in {0, 200, 502}
  PROVE  /\ [NoExport EXCEPT !.status = status] \in Exports
         /\ [NoExport EXCEPT !.status = status].step = "idle"
<1>1. <<>> \in Seq(GRCItems) /\ <<>> \in Seq(RiskEntries) /\ <<>> \in Seq(Tasks) /\ <<>> \in Seq(Findings)
  BY EmptySeq
<1>2. NoResult \in Tables
  BY <1>1 DEF NoResult, Tables
<1>3. QED
  BY <1>1, <1>2 DEF NoExport, Exports

\* What comes after a record that was created.
LEMMA NextStepFacts ==
  ASSUME NEW r \in Exports, r.step # "idle", r.pos \in 1..Len(r.findings), NEW q, q = NextStep(r)
  PROVE  /\ q \in Exports /\ AtFinding(q) /\ q.findings = r.findings /\ q.item = r.item
         /\ q.step \in {"risk", "task"} => q.pos = r.pos
         /\ q.step = "risk" => r.step = "item"
         /\ r.step = "item" /\ NeedsRisk(r.findings[r.pos]) => q.step = "risk"
<1>1. Len(r.findings) \in Nat /\ r.pos \in Nat
  BY LenProperties DEF Exports
<1> DEFINE f == r.findings[r.pos]
<1>2. CASE r.step = "item" /\ NeedsRisk(f)
  <2>1. q = [r EXCEPT !.step = "risk"]
    BY <1>2 DEF NextStep
  <2>2. QED
    BY <1>2, <2>1 DEF Exports, AtFinding
<1>3. CASE ~(r.step = "item" /\ NeedsRisk(f)) /\ r.step \in {"item", "risk"} /\ f.recommended
  <2>1. q = [r EXCEPT !.step = "task"]
    BY <1>3 DEF NextStep
  <2>2. QED
    BY <1>3, <2>1 DEF Exports, AtFinding
<1>4. CASE ~(r.step = "item" /\ NeedsRisk(f)) /\ ~(r.step \in {"item", "risk"} /\ f.recommended)
  <2>1. CASE r.pos < Len(r.findings)
    <3>1. q = [r EXCEPT !.step = "item", !.pos = r.pos + 1]
      BY <1>4, <2>1 DEF NextStep
    <3>2. r.pos + 1 \in 1..Len(r.findings) /\ r.pos + 1 \in Nat
      BY <1>1, <2>1
    <3>3. q \in Exports
      <4>1. PICK p \in Exports : p = [r EXCEPT !.step = "item"]
        BY DEF Exports
      <4>2. q = [p EXCEPT !.pos = r.pos + 1]
        BY <3>1, <4>1
      <4>3. QED
        BY <3>2, <4>2, SMTT(30) DEF Exports
    <3>4. /\ q.step = "item" /\ q.findings = r.findings /\ q.item = r.item
          /\ q.pos = r.pos + 1
      BY <3>1 DEF Exports
    <3>5. AtFinding(q)
      BY <3>2, <3>4 DEF AtFinding
    <3>6. QED
      BY <1>4, <3>3, <3>4, <3>5
  <2>2. CASE ~(r.pos < Len(r.findings))
    <3>1. q = [r EXCEPT !.step = "idle", !.status = 200]
      BY <1>4, <2>2 DEF NextStep
    <3>2. q \in Exports
      <4>1. PICK p \in Exports : p = [r EXCEPT !.step = "idle"]
        BY DEF Exports
      <4>2. q = [p EXCEPT !.status = 200]
        BY <3>1, <4>1
      <4>3. QED
        BY <4>2, SMTT(30) DEF Exports
    <3>3. q.step = "idle" /\ q.findings = r.findings /\ q.item = r.item
      BY <3>1 DEF Exports
    <3>4. QED
      BY <1>4, <3>2, <3>3 DEF AtFinding
  <2>3. QED
    BY <2>1, <2>2
<1>5. QED
  BY <1>2, <1>3, <1>4

\* ServiceNow keeps what it has.
TablesGrow ==
  /\ tables' \in Tables
  /\ Len(tables.items) <= Len(tables'.items) /\ Len(tables.risks) <= Len(tables'.risks)
  /\ \A i \in 1..Len(tables.items) : tables'.items[i] = tables.items[i]
  /\ \A k \in 1..Len(tables.risks) : tables'.risks[k] = tables.risks[k]

LEMMA TableLengths ==
  ASSUME NEW t \in Tables
  PROVE  /\ t.items \in Seq(GRCItems) /\ t.risks \in Seq(RiskEntries) /\ t.tasks \in Seq(Tasks)
         /\ Len(t.items) \in Nat /\ Len(t.risks) \in Nat /\ Len(t.tasks) \in Nat
         /\ DOMAIN t.items = 1..Len(t.items)
  BY LenProperties DEF Tables

LEMMA ItemPosted ==
  ASSUME tables \in Tables, NEW f \in Findings, NEW n, n = Len(tables.items) + 1,
         tables' = [tables EXCEPT !.items = Append(@, GRCItem(f, n))]
  PROVE  /\ TablesGrow /\ tables'.tasks = tables.tasks
         /\ n \in Nat /\ Len(tables'.items) = n /\ tables'.items[n] = GRCItem(f, n)
         /\ tables'.items = Append(tables.items, GRCItem(f, n))
<1>1. n \in Nat /\ tables.items \in Seq(GRCItems) /\ Len(tables.items) \in Nat /\ Len(tables.risks) \in Nat
  BY TableLengths
<1>2. GRCItem(f, n) \in GRCItems
  BY <1>1, RecordFacts
<1>3. /\ tables'.items = Append(tables.items, GRCItem(f, n))
      /\ tables'.risks = tables.risks /\ tables'.tasks = tables.tasks
  BY DEF Tables
<1>4. /\ Append(tables.items, GRCItem(f, n)) \in Seq(GRCItems)
      /\ Len(Append(tables.items, GRCItem(f, n))) = n
      /\ \A i \in 1..Len(tables.items) : Append(tables.items, GRCItem(f, n))[i] = tables.items[i]
      /\ Append(tables.items, GRCItem(f, n))[n] = GRCItem(f, n)
  BY <1>1, <1>2, AppendProperties
<1>5. tables' \in Tables
  BY <1>4 DEF Tables
<1>6. QED
  BY <1>1, <1>3, <1>4, <1>5 DEF TablesGrow

LEMMA RiskPosted ==
  ASSUME tables \in Tables, NEW f \in Findings,
         tables' = [tables EXCEPT !.risks = Append(@, RiskEntry(f))]
  PROVE  TablesGrow /\ tables'.tasks = tables.tasks /\ tables'.items = tables.items /\ HasRisk(f.id)'
<1> DEFINE s == Append(tables.risks, RiskEntry(f))
<1>1. tables.risks \in Seq(RiskEntries) /\ Len(tables.risks) \in Nat /\ Len(tables.items) \in Nat
  BY TableLengths
<1>2. RiskEntry(f) \in RiskEntries /\ RiskEntry(f).source = f.id
  BY RecordFacts
<1>3. tables'.risks = s /\ tables'.items = tables.items /\ tables'.tasks = tables.tasks
  BY DEF Tables
<1>4. /\ s \in Seq(RiskEntries) /\ Len(s) = Len(tables.risks) + 1
      /\ \A i \in 1..Len(tables.risks) : s[i] = tables.risks[i]
      /\ s[Len(tables.risks) + 1] = RiskEntry(f)
  BY <1>1, <1>2, AppendProperties
<1>5. tables' \in Tables
  BY <1>4 DEF Tables
<1> HIDE DEF s
<1>6. HasRisk(f.id)'
  <2>1. Len(tables.risks) + 1 \in 1..Len(s)
    BY <1>1, <1>4
  <2>2. QED
    BY <1>2, <1>3, <1>4, <2>1 DEF HasRisk
<1>7. QED
  BY <1>1, <1>3, <1>4, <1>5, <1>6 DEF TablesGrow

LEMMA TaskPosted ==
  ASSUME tables \in Tables, NEW f \in Findings, NEW n \in Nat,
         tables' = [tables EXCEPT !.tasks = Append(@, RemediationTask(f, n))]
  PROVE  /\ TablesGrow /\ tables'.items = tables.items /\ tables'.risks = tables.risks
         /\ \A k \in 1..Len(tables'.tasks) : \/ tables'.tasks[k] = RemediationTask(f, n)
                                             \/ k \in 1..Len(tables.tasks) /\ tables'.tasks[k] = tables.tasks[k]
<1> DEFINE s == Append(tables.tasks, RemediationTask(f, n))
<1>1. /\ tables.tasks \in Seq(Tasks) /\ Len(tables.tasks) \in Nat
      /\ Len(tables.risks) \in Nat /\ Len(tables.items) \in Nat
  BY TableLengths
<1>2. RemediationTask(f, n) \in Tasks
  BY RecordFacts
<1>3. tables'.tasks = s /\ tables'.items = tables.items /\ tables'.risks = tables.risks
  BY DEF Tables
<1>4. /\ s \in Seq(Tasks) /\ Len(s) = Len(tables.tasks) + 1
      /\ \A i \in 1..Len(tables.tasks) : s[i] = tables.tasks[i]
      /\ s[Len(tables.tasks) + 1] = RemediationTask(f, n)
  BY <1>1, <1>2, AppendProperties
<1>5. tables' \in Tables
  BY <1>4 DEF Tables
<1> HIDE DEF s
<1>6. \A k \in 1..Len(s) : k = Len(tables.tasks) + 1 \/ k \in 1..Len(tables.tasks)
  BY <1>1, <1>4
<1>7. QED
  BY <1>1, <1>3, <1>4, <1>5, <1>6 DEF TablesGrow

\* A request moves on, while what ServiceNow has only grows: if it leaves the step of a
\* risk, the risk is there or the export broke off.
LEMMA ExportMoved ==
  ASSUME ExportInv, TablesGrow, NEW e \in Exporters, NEW q \in Exports,
         export' = [export EXCEPT ![e] = q], AtFinding(q), HoldsItem(q, tables'.items),
         broken \subseteq broken',
         NEW src, src = InHand(e).id, export[e].step = "risk" => HasRisk(src)' \/ src \in broken'
  PROVE  /\ ExportTypeOK' /\ ExportsFit'
         /\ \A i \in 1..Len(tables.items) : RiskIsKnown(i)'
<1>1. /\ tables \in Tables /\ tables' \in Tables
      /\ export \in [Exporters -> Exports] /\ export' \in [Exporters -> Exports]
      /\ export'[e] = q /\ \A d \in Exporters : d # e => export'[d] = export[d]
  BY DEF ExportInv, ExportTypeOK, TablesGrow
<1>2. /\ Len(tables.items) \in Nat /\ Len(tables'.items) \in Nat
      /\ Len(tables.risks) \in Nat /\ Len(tables'.risks) \in Nat
      /\ Len(tables.items) <= Len(tables'.items) /\ Len(tables.risks) <= Len(tables'.risks)
  BY <1>1, TableLengths DEF TablesGrow
<1>3. ExportsFit'
  <2> SUFFICES ASSUME NEW d \in Exporters
               PROVE  AtFinding(export'[d]) /\ HoldsItem(export'[d], tables'.items)
    BY DEF ExportsFit
  <2>1. CASE d = e
    BY <1>1, <2>1
  <2>2. CASE d # e
    <3>1. AtFinding(export[d]) /\ HoldsItem(export[d], tables.items)
      BY DEF ExportInv, ExportsFit
    <3>2. HoldsItem(export[d], tables'.items)
      <4> SUFFICES ASSUME export[d].step \in {"risk", "task"}
                   PROVE  /\ export[d].item \in 1..Len(tables'.items)
                          /\ tables'.items[export[d].item].source
                               = export[d].findings[export[d].pos].id
        BY DEF HoldsItem
      <4>1. export[d].item \in 1..Len(tables.items)
            /\ tables.items[export[d].item].source = export[d].findings[export[d].pos].id
        BY <3>1 DEF HoldsItem
      <4>2. QED
        BY <1>2, <4>1 DEF TablesGrow
    <3>3. QED
      BY <1>1, <2>2, <3>1, <3>2
  <2>3. QED
    BY <2>1, <2>2
<1>4. ASSUME NEW i \in 1..Len(tables.items), tables'.items[i].priority <= 2,
             NEW id, id = tables'.items[i].source
      PROVE  HasRisk(id)' \/ RiskDue(id)' \/ id \in broken'
  <2>1. tables'.items[i] = tables.items[i]
    BY DEF TablesGrow
  <2>2. HasRisk(id) \/ RiskDue(id) \/ id \in broken
    BY <1>4, <2>1 DEF ExportInv, RisksAreCreated, RiskIsKnown
  <2>3. ASSUME HasRisk(id) PROVE HasRisk(id)'
    <3>1. PICK k \in 1..Len(tables.risks) : tables.risks[k].source = id
      BY <2>3 DEF HasRisk
    <3>2. k \in 1..Len(tables'.risks) /\ tables'.risks[k] = tables.risks[k]
      BY <1>2 DEF TablesGrow
    <3>3. QED
      BY <3>1, <3>2 DEF HasRisk
  <2>4. ASSUME RiskDue(id) PROVE HasRisk(id)' \/ RiskDue(id)' \/ id \in broken'
    <3>1. PICK d \in Exporters : export[d].step = "risk" /\ InHand(d).id = id
      BY <2>4 DEF RiskDue
    <3>2. CASE d = e
      BY <3>1, <3>2
    <3>3. CASE d # e
      BY <1>1, <3>1, <3>3 DEF RiskDue, InHand
    <3>4. QED
      BY <3>2, <3>3
  <2>5. QED
    BY <2>2, <2>3, <2>4
<1>5. \A i \in 1..Len(tables.items) : RiskIsKnown(i)'
  BY <1>4 DEF RiskIsKnown
<1>6. QED
  BY <1>1, <1>3, <1>5 DEF ExportTypeOK

LEMMA TasksStay ==
  ASSUME ExportInv, TablesGrow,
         \A k \in 1..Len(tables'.tasks) :
           \/ k \in 1..Len(tables.tasks) /\ tables'.tasks[k] = tables.tasks[k]
           \/ /\ tables'.tasks[k].item \in 1..Len(tables'.items)
              /\ tables'.items[tables'.tasks[k].item].source = tables'.tasks[k].source
  PROVE  TasksHaveItems'
<1>1. /\ Len(tables.items) \in Nat /\ Len(tables'.items) \in Nat
      /\ Len(tables.items) <= Len(tables'.items)
  BY TableLengths DEF ExportInv, ExportTypeOK, TablesGrow
<1>2. ASSUME NEW k \in 1..Len(tables.tasks)
      PROVE  /\ tables.tasks[k].item \in 1..Len(tables'.items)
             /\ tables'.items[tables.tasks[k].item].source = tables.tasks[k].source
  <2>1. /\ tables.tasks[k].item \in 1..Len(tables.items)
        /\ tables.items[tables.tasks[k].item].source = tables.tasks[k].source
    BY DEF ExportInv, TasksHaveItems
  <2>2. QED
    BY <1>1, <2>1, SMTT(30) DEF TablesGrow
<1>3. QED
  BY <1>2 DEF TasksHaveItems

\* The finding in hand of an export at work, and the item of it.
LEMMA InHandFacts ==
  ASSUME ExportInv, NEW e \in Exporters, export[e].step # "idle"
  PROVE  /\ export[e] \in Exports /\ InHand(e) \in Findings
         /\ export[e].pos \in 1..Len(export[e].findings)
         /\ InHand(e) = export[e].findings[export[e].pos]
         /\ export[e].step \in {"risk", "task"} =>
              /\ export[e].item \in Nat /\ export[e].item \in 1..Len(tables.items)
              /\ tables.items[export[e].item].source = InHand(e).id
<1>1. export[e] \in Exports
  BY DEF ExportInv, ExportTypeOK
<1>2. export[e].pos \in 1..Len(export[e].findings) /\ HoldsItem(export[e], tables.items)
  BY DEF ExportInv, ExportsFit, AtFinding
<1>3. InHand(e) \in Findings
  BY <1>1, <1>2, ElementOfSeq DEF InHand, Exports
<1>4. export[e].item \in Nat
  BY <1>1 DEF Exports
<1>5. QED
  BY <1>1, <1>2, <1>3, <1>4 DEF HoldsItem, InHand

\* Items, and with them what needs a risk, stay the same.
LEMMA SameItems ==
  ASSUME ExportInv, tables'.items = tables.items,
         \A i \in 1..Len(tables.items) : RiskIsKnown(i)'
  PROVE  RisksAreCreated'
  BY DEF RisksAreCreated

LEMMA TablesUnchanged ==
  ASSUME ExportInv, tables' = tables
  PROVE  TablesGrow /\ TasksHaveItems'
<1>1. tables \in Tables
  BY DEF ExportInv, ExportTypeOK
<1>2. Len(tables.items) \in Nat /\ Len(tables.risks) \in Nat
  BY <1>1, TableLengths
<1>3. TablesGrow
  BY <1>1, <1>2 DEF TablesGrow
<1>4. QED
  BY <1>3 DEF ExportInv, TasksHaveItems

LEMMA ExportInvStart ==
  ASSUME ExportInv, NEW e \in Exporters, NEW body \in Requests, ExportToServiceNow(e, body)
  PROVE  ExportInv'
<1> DEFINE q == IF body = <<>> THEN [NoExport EXCEPT !.status = 200]
                ELSE [NoExport EXCEPT !.findings = body, !.step = "item", !.pos = 1]
<1>1. /\ export[e].step = "idle" /\ export' = [export EXCEPT ![e] = q]
      /\ tables' = tables /\ broken' = broken
  BY DEF ExportToServiceNow
<1>2. q \in Exports /\ q.step \in {"idle", "item"} /\ AtFinding(q)
  <2>1. CASE body = <<>>
    BY <2>1, NoExportFacts DEF AtFinding
  <2>2. CASE body # <<>>
    <3>1. body \in Seq(Findings)
      BY BodiesAssumption
    <3>2. 1 \in 1..Len(body)
      <4>1. Len(body) \in Nat /\ Len(body) # 0
        BY <2>2, <3>1, EmptySeq, LenProperties
      <4>2. QED
        BY <4>1
    <3>3. PICK b \in Seq(Findings) : b = body
      BY <3>1
    <3>4. q = [step |-> "item", findings |-> b, pos |-> 1, item |-> 0, result |-> NoResult,
               status |-> 0]
      BY <2>2, <3>3 DEF NoExport
    <3>5. NoResult \in Tables
      <4>1. <<>> \in Seq(GRCItems) /\ <<>> \in Seq(RiskEntries) /\ <<>> \in Seq(Tasks)
        BY EmptySeq
      <4>2. QED
        BY <4>1 DEF NoResult, Tables
    <3> HIDE DEF q
    <3>6. q \in Exports
      BY <3>4, <3>5 DEF Exports
    <3>7. QED
      BY <3>2, <3>3, <3>4, <3>6 DEF AtFinding
  <2>3. QED
    BY <2>1, <2>2
<1> HIDE DEF q
<1>3. HoldsItem(q, tables'.items)
  BY <1>2 DEF HoldsItem
<1>4. TablesGrow /\ TasksHaveItems'
  BY <1>1, TablesUnchanged
<1>5. /\ ExportTypeOK' /\ ExportsFit'
      /\ \A i \in 1..Len(tables.items) : RiskIsKnown(i)'
  BY <1>1, <1>2, <1>3, <1>4, ExportMoved
<1>6. QED
  BY <1>1, <1>4, <1>5, SameItems DEF ExportInv

LEMMA ExportInvItem ==
  ASSUME ExportInv, NEW e \in Exporters, CreateGRCItem(e)
  PROVE  ExportInv'
<1>1. export[e].step = "item"
  BY DEF CreateGRCItem
<1>2. PICK f \in Findings : f = InHand(e)
  BY <1>1, InHandFacts
<1>3. PICK n \in Nat : n = Len(tables.items) + 1
  BY TableLengths DEF ExportInv, ExportTypeOK
<1>4. PICK r \in Exports : r = export[e]
  BY <1>1, InHandFacts
<1> DEFINE item == GRCItem(f, n)
           s == [r EXCEPT !.item = n, !.result.items = Append(@, item)]
<1>5. /\ tables' = [tables EXCEPT !.items = Append(@, item)]
      /\ export' = [export EXCEPT ![e] = NextStep(s)] /\ broken' = broken
  <2>1. /\ tables' = [tables EXCEPT !.items = Append(@, GRCItem(InHand(e), Len(tables.items) + 1))]
        /\ export' = [export EXCEPT ![e] =
             NextStep([export[e] EXCEPT !.item = Len(tables.items) + 1,
                        !.result.items = Append(@, GRCItem(InHand(e), Len(tables.items) + 1))])]
        /\ broken' = broken
    BY Zenon DEF CreateGRCItem
  <2>2. QED
    BY <1>2, <1>3, <1>4, <2>1, Zenon
<1>6. item \in GRCItems /\ item.source = f.id /\ (item.priority <= 2 => NeedsRisk(f))
  BY RecordFacts
<1>7. s \in Exports /\ s.item = n /\ s.step = "item" /\ s.findings = r.findings /\ s.pos = r.pos
  <2>1. r.result \in Tables /\ r.result.items \in Seq(GRCItems)
    BY DEF Exports, Tables
  <2>2. Append(r.result.items, item) \in Seq(GRCItems)
    BY <1>6, <2>1, AppendProperties
  <2> HIDE DEF item
  <2>3. PICK t \in Tables : t = [r.result EXCEPT !.items = Append(@, item)]
    BY <2>1, <2>2 DEF Tables
  <2>4. PICK q \in Exports : q = [r EXCEPT !.item = n]
    BY DEF Exports
  <2>5. s = [q EXCEPT !.result = t]
    BY <2>3, <2>4 DEF Exports
  <2> HIDE DEF s
  <2>6. q.item = n /\ q.step = "item" /\ q.findings = r.findings /\ q.pos = r.pos
    BY <1>1, <1>4, <2>4 DEF Exports
  <2>7. s \in Exports
    BY <2>5 DEF Exports
  <2>8. s.item = q.item /\ s.step = q.step /\ s.findings = q.findings /\ s.pos = q.pos
    BY <2>5 DEF Exports
  <2>9. QED
    BY <2>6, <2>7, <2>8
<1> HIDE DEF item, s
<1>8. PICK q : q = NextStep(s)
  OBVIOUS
<1>9. /\ q \in Exports /\ AtFinding(q) /\ q.findings = r.findings /\ q.item = n
      /\ q.step \in {"risk", "task"} => q.pos = r.pos
      /\ NeedsRisk(f) => q.step = "risk"
  <2>1. r.pos \in 1..Len(r.findings) /\ f = r.findings[r.pos]
    BY <1>1, <1>2, <1>4, InHandFacts
  <2>2. QED
    BY <1>7, <1>8, <2>1, NextStepFacts
<1>10. /\ TablesGrow /\ tables'.tasks = tables.tasks
       /\ Len(tables'.items) = n /\ tables'.items[n] = item
  BY <1>3, <1>5, ItemPosted DEF ExportInv, ExportTypeOK, item
<1>11. TasksHaveItems'
  BY <1>10, TasksStay
<1>12. f = r.findings[r.pos]
  BY <1>1, <1>2, <1>4, InHandFacts
<1>13. HoldsItem(q, tables'.items)
  <2>1. n \in 1..Len(tables'.items)
    BY <1>3, <1>10, TableLengths DEF ExportInv, ExportTypeOK
  <2>2. QED
    BY <1>6, <1>9, <1>10, <1>12, <2>1 DEF HoldsItem
<1>14. /\ ExportTypeOK' /\ ExportsFit' /\ \A i \in 1..Len(tables.items) : RiskIsKnown(i)'
  BY <1>1, <1>5, <1>8, <1>9, <1>10, <1>13, ExportMoved
<1>15. RiskIsKnown(n)'
  <2> SUFFICES ASSUME item.priority <= 2 PROVE RiskDue(f.id)'
    BY <1>6, <1>10 DEF RiskIsKnown
  <2>1. q.step = "risk"
    BY <1>6, <1>9
  <2>2. export'[e] = q
    BY <1>5, <1>8 DEF ExportInv, ExportTypeOK
  <2>3. q.findings[q.pos] = f
    BY <1>9, <1>12, <2>1
  <2>4. QED
    BY <2>1, <2>2, <2>3 DEF RiskDue, InHand
<1>16. RisksAreCreated'
  <2>1. Len(tables.items) \in Nat
    BY TableLengths DEF ExportInv, ExportTypeOK
  <2>2. \A i \in 1..Len(tables'.items) : i = n \/ i \in 1..Len(tables.items)
    BY <1>3, <1>10, <2>1
  <2>3. QED
    BY <1>14, <1>15, <2>2 DEF RisksAreCreated
<1>17. QED
  BY <1>11, <1>14, <1>16 DEF ExportInv

LEMMA ExportInvRisk ==
  ASSUME ExportInv, NEW e \in Exporters, CreateRiskEntry(e)
  PROVE  ExportInv'
<1>1. export[e].step = "risk"
  BY DEF CreateRiskEntry
<1>2. PICK f \in Findings : f = InHand(e)
  BY <1>1, InHandFacts
<1>3. PICK r \in Exports : r = export[e]
  BY <1>1, InHandFacts
<1> DEFINE risk == RiskEntry(f)
           s == [r EXCEPT !.result.risks = Append(@, risk)]
<1>4. /\ tables' = [tables EXCEPT !.risks = Append(@, risk)]
      /\ export' = [export EXCEPT ![e] = NextStep(s)] /\ broken' = broken
  <2>1. /\ tables' = [tables EXCEPT !.risks = Append(@, RiskEntry(InHand(e)))]
        /\ export' = [export EXCEPT ![e] =
             NextStep([export[e] EXCEPT !.result.risks = Append(@, RiskEntry(InHand(e)))])]
        /\ broken' = broken
    BY Zenon DEF CreateRiskEntry
  <2>2. QED
    BY <1>2, <1>3, <2>1, Zenon
<1>5. s \in Exports /\ s.item = r.item /\ s.step = "risk" /\ s.findings = r.findings /\ s.pos = r.pos
  <2>1. r.result \in Tables /\ r.result.risks \in Seq(RiskEntries)
    BY DEF Exports, Tables
  <2>2. Append(r.result.risks, risk) \in Seq(RiskEntries)
    BY <2>1, RecordFacts, AppendProperties
  <2> HIDE DEF risk
  <2>3. PICK t \in Tables : t = [r.result EXCEPT !.risks = Append(@, risk)]
    BY <2>1, <2>2 DEF Tables
  <2>4. s = [r EXCEPT !.result = t]
    BY <2>3 DEF Exports
  <2> HIDE DEF s
  <2>5. QED
    BY <1>1, <1>3, <2>4 DEF Exports
<1>6. /\ TablesGrow /\ tables'.tasks = tables.tasks /\ tables'.items = tables.items
      /\ HasRisk(f.id)'
  BY <1>4, RiskPosted DEF ExportInv, ExportTypeOK
<1> HIDE DEF risk, s
<1>7. PICK q : q = NextStep(s)
  OBVIOUS
<1>8. f = r.findings[r.pos] /\ r.pos \in 1..Len(r.findings)
  BY <1>1, <1>2, <1>3, InHandFacts
<1>9. /\ q \in Exports /\ AtFinding(q) /\ q.findings = r.findings /\ q.item = r.item
      /\ q.step \in {"risk", "task"} => q.pos = r.pos
  BY <1>5, <1>7, <1>8, NextStepFacts
<1>10. HoldsItem(q, tables'.items)
  <2>1. r.item \in 1..Len(tables.items) /\ tables.items[r.item].source = f.id
    BY <1>1, <1>2, <1>3, InHandFacts
  <2>2. QED
    BY <1>6, <1>8, <1>9, <2>1 DEF HoldsItem
<1>11. /\ ExportTypeOK' /\ ExportsFit' /\ \A i \in 1..Len(tables.items) : RiskIsKnown(i)'
  BY <1>2, <1>4, <1>6, <1>7, <1>9, <1>10, ExportMoved
<1>12. TasksHaveItems'
  BY <1>6, TasksStay
<1>13. QED
  BY <1>6, <1>11, <1>12, SameItems DEF ExportInv

LEMMA ExportInvTask ==
  ASSUME ExportInv, NEW e \in Exporters, CreateRemediationTask(e)
  PROVE  ExportInv'
<1>1. export[e].step = "task"
  BY DEF CreateRemediationTask
<1>2. PICK f \in Findings : f = InHand(e)
  BY <1>1, InHandFacts
<1>3. PICK r \in Exports : r = export[e]
  BY <1>1, InHandFacts
<1>4. PICK n \in Nat : n = r.item /\ n \in 1..Len(tables.items) /\ tables.items[n].source = f.id
  BY <1>1, <1>2, <1>3, InHandFacts
<1> DEFINE task == RemediationTask(f, n)
           s == [r EXCEPT !.result.tasks = Append(@, task)]
<1>5. /\ tables' = [tables EXCEPT !.tasks = Append(@, task)]
      /\ export' = [export EXCEPT ![e] = NextStep(s)] /\ broken' = broken
  <2>1. /\ tables' = [tables EXCEPT !.tasks = Append(@, RemediationTask(InHand(e), export[e].item))]
        /\ export' = [export EXCEPT ![e] = NextStep([export[e] EXCEPT
              !.result.tasks = Append(@, RemediationTask(InHand(e), export[e].item))])]
        /\ broken' = broken
    BY Zenon DEF CreateRemediationTask
  <2>2. QED
    BY <1>2, <1>3, <1>4, <2>1, Zenon
<1>6. s \in Exports /\ s.item = n /\ s.step = "task" /\ s.findings = r.findings /\ s.pos = r.pos
  <2>1. r.result \in Tables /\ r.result.tasks \in Seq(Tasks)
    BY DEF Exports, Tables
  <2>2. Append(r.result.tasks, task) \in Seq(Tasks)
    BY <2>1, RecordFacts, AppendProperties
  <2> HIDE DEF task
  <2>3. PICK t \in Tables : t = [r.result EXCEPT !.tasks = Append(@, task)]
    BY <2>1, <2>2 DEF Tables
  <2>4. s = [r EXCEPT !.result = t]
    BY <2>3 DEF Exports
  <2> HIDE DEF s
  <2>5. QED
    BY <1>1, <1>3, <1>4, <2>4 DEF Exports
<1>7. /\ TablesGrow /\ tables'.items = tables.items
      /\ \A k \in 1..Len(tables'.tasks) :
           \/ tables'.tasks[k] = task
           \/ k \in 1..Len(tables.tasks) /\ tables'.tasks[k] = tables.tasks[k]
  BY <1>5, TaskPosted DEF ExportInv, ExportTypeOK
<1>8. task.item = n /\ task.source = f.id
  BY RecordFacts
<1> HIDE DEF task, s
<1>9. PICK q : q = NextStep(s)
  OBVIOUS
<1>10. f = r.findings[r.pos] /\ r.pos \in 1..Len(r.findings)
  BY <1>1, <1>2, <1>3, InHandFacts
<1>11. /\ q \in Exports /\ AtFinding(q) /\ q.findings = r.findings /\ q.item = n
       /\ q.step \in {"risk", "task"} => q.pos = r.pos
  BY <1>6, <1>9, <1>10, NextStepFacts
<1>12. HoldsItem(q, tables'.items)
  BY <1>4, <1>7, <1>10, <1>11 DEF HoldsItem
<1>13. /\ ExportTypeOK' /\ ExportsFit' /\ \A i \in 1..Len(tables.items) : RiskIsKnown(i)'
  BY <1>1, <1>5, <1>7, <1>9, <1>11, <1>12, ExportMoved
<1>14. TasksHaveItems'
  BY <1>4, <1>7, <1>8, TasksStay
<1>15. QED
  BY <1>7, <1>13, <1>14, SameItems DEF ExportInv

\* An export breaks off: what it posted last, if anything, is there.
LEMMA ExportInvStopped ==
  ASSUME ExportInv, NEW e \in Exporters, export[e].step # "idle", Stopped(e), TablesGrow, TasksHaveItems'
  PROVE  /\ ExportTypeOK' /\ ExportsFit' /\ \A i \in 1..Len(tables.items) : RiskIsKnown(i)'
         /\ \A id : id = InHand(e).id => id \in broken'
<1>1. PICK src : src = InHand(e).id
  OBVIOUS
<1>2. PICK q \in Exports : q = [NoExport EXCEPT !.status = 502] /\ q.step = "idle"
  <2>1. 502 \in {0, 200, 502}
    OBVIOUS
  <2>2. /\ [NoExport EXCEPT !.status = 502] \in Exports
        /\ [NoExport EXCEPT !.status = 502].step = "idle"
    BY <2>1, NoExportFacts
  <2>3. QED
    BY <2>2
<1>3. export' = [export EXCEPT ![e] = q] /\ broken' = broken \cup {src}
  BY <1>1, <1>2 DEF Stopped
<1>4. AtFinding(q) /\ HoldsItem(q, tables'.items)
  BY <1>2 DEF AtFinding, HoldsItem
<1>5. /\ ExportTypeOK' /\ ExportsFit' /\ \A i \in 1..Len(tables.items) : RiskIsKnown(i)'
  BY <1>1, <1>3, <1>4, ExportMoved
<1>6. QED
  BY <1>1, <1>3, <1>5

LEMMA ExportInvRefused ==
  ASSUME ExportInv, NEW e \in Exporters, PostRefused(e)
  PROVE  ExportInv'
<1>1. export[e].step # "idle" /\ Stopped(e) /\ tables' = tables
  BY DEF PostRefused
<1>2. TablesGrow /\ TasksHaveItems'
  BY <1>1, TablesUnchanged
<1>3. /\ ExportTypeOK' /\ ExportsFit' /\ \A i \in 1..Len(tables.items) : RiskIsKnown(i)'
  BY <1>1, <1>2, ExportInvStopped
<1>4. QED
  BY <1>1, <1>2, <1>3, SameItems DEF ExportInv

LEMMA ExportInvLost ==
  ASSUME ExportInv, NEW e \in Exporters, AnswerLost(e)
  PROVE  ExportInv'
<1>1. PICK r \in Exports : r = export[e]
  BY DEF ExportInv, ExportTypeOK
<1>2. r.step \in {"idle", "item", "risk", "task"} /\ Stopped(e)
  BY DEF Exports, AnswerLost
<1>3. ASSUME r.step # "idle" PROVE InHand(e) \in Findings
  BY <1>1, <1>3, InHandFacts
<1>4. CASE r.step = "item"
  <2>1. PICK f \in Findings : f = InHand(e)
    BY <1>3, <1>4
  <2>2. PICK n \in Nat : n = Len(tables.items) + 1
    BY TableLengths DEF ExportInv, ExportTypeOK
  <2>3. tables' = [tables EXCEPT !.items = Append(@, GRCItem(f, n))]
    BY <1>1, <1>4, <2>1, <2>2 DEF AnswerLost
  <2>4. /\ TablesGrow /\ tables'.tasks = tables.tasks
        /\ Len(tables'.items) = n /\ tables'.items[n] = GRCItem(f, n)
    BY <2>2, <2>3, ItemPosted DEF ExportInv, ExportTypeOK
  <2>5. TasksHaveItems'
    BY <2>4, TasksStay
  <2>6. /\ ExportTypeOK' /\ ExportsFit' /\ \A i \in 1..Len(tables.items) : RiskIsKnown(i)'
        /\ f.id \in broken'
    BY <1>1, <1>2, <1>4, <2>1, <2>4, <2>5, ExportInvStopped
  <2>7. RiskIsKnown(n)'
    BY <2>4, <2>6, RecordFacts DEF RiskIsKnown
  <2>8. Len(tables.items) \in Nat
    BY TableLengths DEF ExportInv, ExportTypeOK
  <2>9. \A i \in 1..Len(tables'.items) : i = n \/ i \in 1..Len(tables.items)
    BY <2>2, <2>4, <2>8
  <2>10. QED
    BY <2>5, <2>6, <2>7, <2>9 DEF ExportInv, RisksAreCreated
<1>5. CASE r.step = "risk"
  <2>1. PICK f \in Findings : f = InHand(e)
    BY <1>3, <1>5
  <2>2. tables' = [tables EXCEPT !.risks = Append(@, RiskEntry(f))]
    BY <1>1, <1>5, <2>1 DEF AnswerLost
  <2>3. TablesGrow /\ tables'.tasks = tables.tasks /\ tables'.items = tables.items
    BY <2>2, RiskPosted DEF ExportInv, ExportTypeOK
  <2>4. TasksHaveItems'
    BY <2>3, TasksStay
  <2>5. QED
    BY <1>1, <1>2, <1>5, <2>3, <2>4, ExportInvStopped, SameItems DEF ExportInv
<1>6. CASE r.step = "task"
  <2>1. PICK f \in Findings : f = InHand(e)
    BY <1>3, <1>6
  <2>2. PICK n \in Nat : n = r.item /\ n \in 1..Len(tables.items) /\ tables.items[n].source = f.id
    BY <1>1, <1>6, <2>1, InHandFacts
  <2>3. tables' = [tables EXCEPT !.tasks = Append(@, RemediationTask(f, n))]
    BY <1>1, <1>6, <2>1, <2>2 DEF AnswerLost
  <2>4. /\ TablesGrow /\ tables'.items = tables.items
        /\ \A k \in 1..Len(tables'.tasks) :
             \/ tables'.tasks[k] = RemediationTask(f, n)
             \/ k \in 1..Len(tables.tasks) /\ tables'.tasks[k] = tables.tasks[k]
    BY <2>3, TaskPosted DEF ExportInv, ExportTypeOK
  <2>5. RemediationTask(f, n).item = n /\ RemediationTask(f, n).source = f.id
    BY RecordFacts
  <2>6. TasksHaveItems'
    BY <2>2, <2>4, <2>5, TasksStay
  <2>7. QED
    BY <1>1, <1>2, <1>6, <2>4, <2>6, ExportInvStopped, SameItems DEF ExportInv
<1>7. CASE r.step = "idle"
  BY <1>1, <1>7 DEF AnswerLost
<1>8. QED
  BY <1>2, <1>4, <1>5, <1>6, <1>7

LEMMA ExportInvHolds == ExportSpec => []ExportInv
<1>1. ASSUME ExportInit PROVE ExportInv
  <2>1. tables = NoResult /\ export = [e \in Exporters |-> NoExport]
    BY <1>1 DEF ExportInit
  <2>2. NoExport \in Exports /\ NoExport.step = "idle" /\ NoResult \in Tables
    <3>1. /\ <<>> \in Seq(GRCItems) /\ <<>> \in Seq(RiskEntries) /\ <<>> \in Seq(Tasks)
          /\ <<>> \in Seq(Findings)
      BY EmptySeq
    <3>2. NoResult \in Tables
      BY <3>1 DEF NoResult, Tables
    <3>3. QED
      BY <3>1, <3>2 DEF NoExport, Exports
  <2>3. Len(tables.items) = 0 /\ Len(tables.tasks) = 0
    BY <2>1 DEF NoResult
  <2>4. ExportTypeOK
    BY <2>1, <2>2 DEF ExportTypeOK
  <2>5. ExportsFit
    BY <2>1, <2>2 DEF ExportsFit, AtFinding, HoldsItem
  <2>6. RisksAreCreated /\ TasksHaveItems
    BY <2>3 DEF RisksAreCreated, TasksHaveItems
  <2>7. QED
    BY <2>4, <2>5, <2>6 DEF ExportInv
<1>2. ASSUME ExportInv, [ExportNext]_exportVars PROVE ExportInv'
  <2>1. ASSUME NEW e \in Exporters, NEW body \in Requests, ExportToServiceNow(e, body)
        PROVE  ExportInv'
    BY <1>2, <2>1, ExportInvStart
  <2>2. ASSUME NEW e \in Exporters, CreateGRCItem(e) PROVE ExportInv'
    BY <1>2, <2>2, ExportInvItem
  <2>3. ASSUME NEW e \in Exporters, CreateRiskEntry(e) PROVE ExportInv'
    BY <1>2, <2>3, ExportInvRisk
  <2>4. ASSUME NEW e \in Exporters, CreateRemediationTask(e) PROVE ExportInv'
    BY <1>2, <2>4, ExportInvTask
  <2>5. ASSUME NEW e \in Exporters, PostRefused(e) PROVE ExportInv'
    BY <1>2, <2>5, ExportInvRefused
  <2>6. ASSUME NEW e \in Exporters, AnswerLost(e) PROVE ExportInv'
    BY <1>2, <2>6, ExportInvLost
  <2>7. CASE UNCHANGED exportVars
    <3>1. tables' = tables /\ export' = export /\ broken' = broken
      BY <2>7 DEF exportVars
    <3>2. ExportTypeOK' /\ ExportsFit' /\ TasksHaveItems'
      BY <1>2, <3>1 DEF ExportInv, ExportTypeOK, ExportsFit, TasksHaveItems
    <3>3. RisksAreCreated'
      BY <1>2, <3>1 DEF ExportInv, RisksAreCreated, RiskIsKnown, HasRisk, RiskDue, InHand
    <3>4. QED
      BY <3>2, <3>3 DEF ExportInv
  <2>8. QED
    BY <1>2, <2>1, <2>2, <2>3, <2>4, <2>5, <2>6, <2>7 DEF ExportNext
<1>3. QED
  BY <1>1, <1>2, PTL DEF ExportSpec

\* A remediation task in ServiceNow points at a compliance item of its own finding,
\* whatever failed and however many exports run (liveExport, servicenow.go:93-129).
THEOREM SpecTasksPointAtTheirItem == ExportSpec => []TasksPointAtTheirItem
<1>1. ExportInv => TasksPointAtTheirItem
  <2> SUFFICES ASSUME ExportInv, NEW t \in ToSet(tables.tasks)
               PROVE  t.item \in DOMAIN tables.items /\ tables.items[t.item].source = t.source
    BY DEF TasksPointAtTheirItem
  <2>1. tables \in Tables
    BY DEF ExportInv, ExportTypeOK
  <2>2. DOMAIN tables.items = 1..Len(tables.items) /\ DOMAIN tables.tasks = 1..Len(tables.tasks)
    BY <2>1, TableLengths, LenProperties
  <2>3. PICK k \in 1..Len(tables.tasks) : t = tables.tasks[k]
    BY <2>2 DEF ToSet
  <2>4. QED
    BY <2>2, <2>3 DEF ExportInv, TasksHaveItems
<1>2. QED
  BY <1>1, ExportInvHolds, PTL

\* The item of a critical or high finding has a risk entry, or an export is at work on
\* the finding, or one broke off there (liveExport, servicenow.go:93-129).
THEOREM SpecMissingRiskIsExplained == ExportSpec => []MissingRiskIsExplained
<1>1. ExportInv => MissingRiskIsExplained
  <2> SUFFICES ASSUME ExportInv, NEW i \in DOMAIN tables.items, tables.items[i].priority <= 2,
                      NEW id, id = tables.items[i].source
               PROVE  \/ \E r \in ToSet(tables.risks) : r.source = id
                      \/ InProgress(id) \/ id \in broken
    BY DEF MissingRiskIsExplained
  <2>1. tables \in Tables
    BY DEF ExportInv, ExportTypeOK
  <2>2. DOMAIN tables.items = 1..Len(tables.items) /\ DOMAIN tables.risks = 1..Len(tables.risks)
    BY <2>1, TableLengths, LenProperties
  <2>3. HasRisk(id) \/ RiskDue(id) \/ id \in broken
    BY <2>2 DEF ExportInv, RisksAreCreated, RiskIsKnown
  <2>4. ASSUME HasRisk(id) PROVE \E r \in ToSet(tables.risks) : r.source = id
    BY <2>2, <2>4 DEF HasRisk, ToSet
  <2>5. ASSUME RiskDue(id) PROVE InProgress(id)
    <3>1. PICK e \in Exporters : export[e].step = "risk" /\ InHand(e).id = id
      BY <2>5 DEF RiskDue
    <3>2. export[e].pos \in 1..Len(export[e].findings) /\ Len(export[e].findings) \in Nat
      BY <3>1, InHandFacts, LenProperties DEF Exports
    <3>3. export[e].pos \in 1..export[e].pos
      BY <3>2
    <3>4. QED
      BY <3>1, <3>3 DEF InProgress, InHand
  <2>6. QED
    BY <2>3, <2>4, <2>5
<1>2. QED
  BY <1>1, ExportInvHolds, PTL

(***************************************************************************)
(* What a live export collects is, up to the finding in hand, what mock    *)
(* mode collects for the findings so far, with the ids that ServiceNow     *)
(* gave in the place of positions.                                         *)
(***************************************************************************)

RiskOf(fs)        == [i \in 1..Len(fs) |-> RiskEntry(fs[i])]
TaskOf(fs, items) == [i \in 1..Len(fs) |-> RemediationTask(fs[i], items[i].sysID)]

ItemsUpTo(fs, items, n) ==
  Len(items) = n /\ \A i \in 1..n : items[i] = GRCItem(fs[i], items[i].sysID)
RisksUpTo(fs, risks, n) == risks = Filtered(RiskOf(fs), Risky(fs) \cap (1..n))
TasksUpTo(fs, items, tasks, n) ==
  tasks = Filtered(TaskOf(fs, items), Advised(fs) \cap (1..n))

\* The findings whose item, risk entry and task, if they get one, are created.
ItemsDone(r) == IF r.step = "item" THEN r.pos - 1 ELSE r.pos
RisksDone(r) == IF r.step \in {"item", "risk"} THEN r.pos - 1 ELSE r.pos
TasksDone(r) == IF r.step = "idle" THEN r.pos ELSE r.pos - 1

Answered(r) ==
  /\ ItemsUpTo(r.findings, r.result.items, ItemsDone(r))
  /\ RisksUpTo(r.findings, r.result.risks, RisksDone(r))
  /\ TasksUpTo(r.findings, r.result.items, r.result.tasks, TasksDone(r))
  /\ r.step = "risk" => r.pos \in Risky(r.findings)
  /\ r.step = "task" => r.pos \in Advised(r.findings)
  /\ r.step \in {"risk", "task"} => r.item = r.result.items[r.pos].sysID
  /\ r.status = 200 => r.step = "idle" /\ r.pos = Len(r.findings)

AnswersInv == ExportInv /\ \A e \in Exporters : Answered(export[e])

LEMMA FinitePositions ==
  ASSUME NEW len \in Nat, NEW P \in SUBSET (1..len)
  PROVE  IsFiniteSet(P) /\ P \in SUBSET Nat
<1>1. IsFiniteSet(1..len)
  BY FS_Interval
<1>2. PICK S : S = 1..len
  OBVIOUS
<1>3. IsFiniteSet(P)
  BY <1>1, <1>2, FS_Subset
<1>4. QED
  BY <1>3

\* One position more of a filter.
LEMMA FilteredTakes ==
  \A s : \A len \in Nat : \A n \in 1..len : \A R \in SUBSET (1..len) :
    n \in R => Filtered(s, R \cap (1..n)) = Append(Filtered(s, R \cap (1..n - 1)), s[n])
<1> SUFFICES ASSUME NEW s, NEW len \in Nat, NEW n \in 1..len, NEW R \in SUBSET (1..len), n \in R
             PROVE  Filtered(s, R \cap (1..n)) = Append(Filtered(s, R \cap (1..n - 1)), s[n])
  OBVIOUS
<1>1. PICK P : P = R \cap (1..n - 1)
  OBVIOUS
<1>2. PICK Q : Q = R \cap (1..n)
  OBVIOUS
<1>3. P \in SUBSET (1..len) /\ n \in Nat /\ \A i \in P : i < n
  BY <1>1
<1>4. \A i : i \in Q <=> i \in P \/ i = n
  BY <1>1, <1>2
<1>5. IsFiniteSet(P) /\ P \in SUBSET Nat
  BY <1>3, FinitePositions
<1>6. Filtered(s, Q) = Append(Filtered(s, P), s[n])
  BY <1>3, <1>4, <1>5, FilteredGrows
<1>7. QED
  BY <1>1, <1>2, <1>6

LEMMA PositionFacts ==
  ASSUME NEW fs \in Seq(Findings)
  PROVE  /\ Len(fs) \in Nat /\ DOMAIN fs = 1..Len(fs)
         /\ Risky(fs) \in SUBSET (1..Len(fs)) /\ Advised(fs) \in SUBSET (1..Len(fs))
         /\ \A i \in 1..Len(fs) : /\ i \in Risky(fs) <=> NeedsRisk(fs[i])
                                  /\ i \in Advised(fs) <=> fs[i].recommended
  BY LenProperties DEF Risky, Advised

LEMMA RiskCollected ==
  ASSUME NEW fs \in Seq(Findings), NEW n \in 1..Len(fs), NEW risks,
         RisksUpTo(fs, risks, n - 1)
  PROVE  /\ n \in Risky(fs) => RisksUpTo(fs, Append(risks, RiskEntry(fs[n])), n)
         /\ n \notin Risky(fs) => RisksUpTo(fs, risks, n)
<1>1. PICK s : s = RiskOf(fs)
  OBVIOUS
<1>2. PICK len \in Nat : len = Len(fs)
  BY PositionFacts
<1>3. n \in 1..len /\ s[n] = RiskEntry(fs[n])
  BY <1>1, <1>2 DEF RiskOf
<1>4. PICK R \in SUBSET (1..len) : R = Risky(fs)
  BY <1>2, PositionFacts
<1>5. ASSUME n \in R
      PROVE  Filtered(s, R \cap (1..n)) = Append(Filtered(s, R \cap (1..n - 1)), s[n])
  BY <1>3, <1>5, FilteredTakes
<1>6. ASSUME n \notin R
      PROVE  R \cap (1..n) = R \cap (1..n - 1)
  BY <1>3, <1>6
<1>7. QED
  BY <1>1, <1>3, <1>4, <1>5, <1>6 DEF RisksUpTo

LEMMA TaskCollected ==
  ASSUME NEW fs \in Seq(Findings), NEW n \in 1..Len(fs), NEW items, NEW tasks,
         TasksUpTo(fs, items, tasks, n - 1)
  PROVE  /\ n \in Advised(fs) =>
              TasksUpTo(fs, items, Append(tasks, RemediationTask(fs[n], items[n].sysID)), n)
         /\ n \notin Advised(fs) => TasksUpTo(fs, items, tasks, n)
<1>1. PICK s : s = TaskOf(fs, items)
  OBVIOUS
<1>2. PICK len \in Nat : len = Len(fs)
  BY PositionFacts
<1>3. n \in 1..len /\ s[n] = RemediationTask(fs[n], items[n].sysID)
  BY <1>1, <1>2 DEF TaskOf
<1>4. PICK R \in SUBSET (1..len) : R = Advised(fs)
  BY <1>2, PositionFacts
<1>5. ASSUME n \in R
      PROVE  Filtered(s, R \cap (1..n)) = Append(Filtered(s, R \cap (1..n - 1)), s[n])
  BY <1>3, <1>5, FilteredTakes
<1>6. ASSUME n \notin R
      PROVE  R \cap (1..n) = R \cap (1..n - 1)
  BY <1>3, <1>6
<1>7. QED
  BY <1>1, <1>3, <1>4, <1>5, <1>6 DEF TasksUpTo

\* An item more moves no task that was collected before it.
LEMMA ItemCollected ==
  ASSUME NEW fs \in Seq(Findings), NEW n \in 1..Len(fs), NEW items \in Seq(GRCItems), NEW tasks,
         NEW given \in Nat, ItemsUpTo(fs, items, n - 1), TasksUpTo(fs, items, tasks, n - 1),
         NEW more, more = Append(items, GRCItem(fs[n], given))
  PROVE  /\ ItemsUpTo(fs, more, n) /\ TasksUpTo(fs, more, tasks, n - 1)
<1>1. PICK item : item = GRCItem(fs[n], given)
  OBVIOUS
<1>2. item.sysID = given
  BY <1>1 DEF GRCItem
<1>3. Len(items) = n - 1 /\ n \in Nat /\ Len(fs) \in Nat
  BY PositionFacts DEF ItemsUpTo
<1>4. item \in GRCItems
  <2>1. fs[n] \in Findings
    BY ElementOfSeq
  <2>2. QED
    BY <1>1, <2>1 DEF GRCItems
<1>5. Len(more) = n /\ more[n] = item /\ \A i \in 1..n - 1 : more[i] = items[i]
  BY <1>1, <1>3, <1>4, AppendProperties
<1>6. ItemsUpTo(fs, more, n)
  <2> SUFFICES ASSUME NEW i \in 1..n PROVE more[i] = GRCItem(fs[i], more[i].sysID)
    BY <1>5 DEF ItemsUpTo
  <2>1. CASE i = n
    BY <1>1, <1>2, <1>5, <2>1
  <2>2. CASE i # n
    <3>1. i \in 1..n - 1
      BY <1>3, <2>2
    <3>2. QED
      BY <1>5, <3>1 DEF ItemsUpTo
  <2>3. QED
    BY <2>1, <2>2
<1>7. TasksUpTo(fs, more, tasks, n - 1)
  <2>1. PICK P \in SUBSET (1..Len(fs)) : P = Advised(fs) \cap (1..n - 1)
    <3>1. Advised(fs) \in SUBSET (1..Len(fs))
      BY PositionFacts
    <3>2. QED
      BY <3>1
  <2>2. PICK s : s = TaskOf(fs, items)
    OBVIOUS
  <2>3. PICK t : t = TaskOf(fs, more)
    OBVIOUS
  <2>4. IsFiniteSet(P) /\ P \in SUBSET Nat
    BY <1>3, FinitePositions
  <2>5. \A i \in P : s[i] = t[i]
    BY <1>5, <2>1, <2>2, <2>3 DEF TaskOf
  <2>6. Filtered(s, P) = Filtered(t, P)
    BY <2>4, <2>5, FilteredAgrees
  <2>7. QED
    BY <2>1, <2>2, <2>3, <2>6 DEF TasksUpTo
<1>8. QED
  BY <1>6, <1>7

\* The record in hand is created: the next step starts from all that is due so far.
LEMMA NextStepAnswers ==
  ASSUME NEW r \in Exports, r.step # "idle", r.pos \in 1..Len(r.findings), r.status # 200,
         ItemsUpTo(r.findings, r.result.items, r.pos),
         RisksUpTo(r.findings, r.result.risks, IF r.step = "item" THEN r.pos - 1 ELSE r.pos),
         TasksUpTo(r.findings, r.result.items, r.result.tasks,
                   IF r.step = "task" THEN r.pos ELSE r.pos - 1),
         r.item = r.result.items[r.pos].sysID, NEW q, q = NextStep(r)
  PROVE  Answered(q)
<1>1. PICK fs \in Seq(Findings) : fs = r.findings
  BY DEF Exports
<1>2. PICK n \in 1..Len(fs) : n = r.pos
  BY <1>1
<1>3. n \in Nat /\ Len(fs) \in Nat
  BY PositionFacts
<1>4. /\ NeedsRisk(fs[n]) <=> n \in Risky(fs)
      /\ fs[n].recommended <=> n \in Advised(fs)
  BY PositionFacts
<1>5. /\ r.step = "item" => RisksUpTo(fs, r.result.risks, n - 1)
      /\ r.step # "item" => RisksUpTo(fs, r.result.risks, n)
      /\ r.step # "task" => TasksUpTo(fs, r.result.items, r.result.tasks, n - 1)
      /\ r.step = "task" => TasksUpTo(fs, r.result.items, r.result.tasks, n)
      /\ ItemsUpTo(fs, r.result.items, n) /\ r.item = r.result.items[n].sysID
  BY <1>1, <1>2
<1>6. CASE r.step = "item" /\ NeedsRisk(fs[n])
  <2>1. q = [r EXCEPT !.step = "risk"]
    BY <1>1, <1>2, <1>6, Zenon DEF NextStep
  <2>2. /\ q.step = "risk" /\ q.findings = fs /\ q.pos = n /\ q.item = r.item
        /\ q.result = r.result /\ q.status # 200
    BY <1>1, <1>2, <2>1 DEF Exports
  <2>3. ItemsDone(q) = n /\ RisksDone(q) = n - 1 /\ TasksDone(q) = n - 1
    BY <2>2 DEF ItemsDone, RisksDone, TasksDone
  <2>4. QED
    BY <1>4, <1>5, <1>6, <2>2, <2>3 DEF Answered
<1>7. CASE ~ (r.step = "item" /\ NeedsRisk(fs[n]))
  <2>1. RisksUpTo(fs, r.result.risks, n)
    BY <1>4, <1>5, <1>7, RiskCollected
  <2>2. CASE r.step \in {"item", "risk"} /\ fs[n].recommended
    <3>1. q = [r EXCEPT !.step = "task"]
      BY <1>1, <1>2, <1>7, <2>2, Zenon DEF NextStep
    <3>2. /\ q.step = "task" /\ q.findings = fs /\ q.pos = n /\ q.item = r.item
          /\ q.result = r.result /\ q.status # 200
      BY <1>1, <1>2, <3>1 DEF Exports
    <3>3. ItemsDone(q) = n /\ RisksDone(q) = n /\ TasksDone(q) = n - 1
      BY <3>2 DEF ItemsDone, RisksDone, TasksDone
    <3>4. QED
      BY <1>4, <1>5, <2>1, <2>2, <3>2, <3>3 DEF Answered
  <2>3. CASE ~ (r.step \in {"item", "risk"} /\ fs[n].recommended)
    <3>1. TasksUpTo(fs, r.result.items, r.result.tasks, n)
      <4>1. CASE r.step = "task"
        BY <1>5, <4>1
      <4>2. CASE r.step # "task"
        <5>1. n \notin Advised(fs)
          BY <1>4, <2>3, <4>2 DEF Exports
        <5>2. QED
          BY <1>5, <4>2, <5>1, TaskCollected
      <4>3. QED
        BY <4>1, <4>2
    <3>2. CASE n < Len(fs)
      <4>1. q = [r EXCEPT !.step = "item", !.pos = @ + 1]
        BY <1>1, <1>2, <1>7, <2>3, <3>2, Zenon DEF NextStep
      <4>2. /\ q.step = "item" /\ q.findings = fs /\ q.pos = n + 1
            /\ q.result = r.result /\ q.status # 200
        BY <1>1, <1>2, <4>1 DEF Exports
      <4>3. ItemsDone(q) = n /\ RisksDone(q) = n /\ TasksDone(q) = n
        BY <1>3, <4>2 DEF ItemsDone, RisksDone, TasksDone
      <4>4. QED
        BY <1>5, <2>1, <3>1, <4>2, <4>3 DEF Answered
    <3>3. CASE n = Len(fs)
      <4>1. q = [r EXCEPT !.step = "idle", !.status = 200]
        BY <1>1, <1>2, <1>3, <1>7, <2>3, <3>3 DEF NextStep
      <4>2. /\ q.step = "idle" /\ q.findings = fs /\ q.pos = n /\ q.result = r.result
        BY <1>1, <1>2, <4>1 DEF Exports
      <4>3. ItemsDone(q) = n /\ RisksDone(q) = n /\ TasksDone(q) = n
        BY <4>2 DEF ItemsDone, RisksDone, TasksDone
      <4>4. QED
        BY <1>5, <2>1, <3>1, <3>3, <4>2, <4>3 DEF Answered
    <3>4. QED
      BY <1>3, <3>2, <3>3
  <2>4. QED
    BY <2>2, <2>3
<1>8. QED
  BY <1>6, <1>7

\* What an answer gets of each POST, and nothing else changes in it.
LEMMA ItemRecorded ==
  ASSUME NEW r \in Exports, NEW item \in GRCItems
  PROVE  \A s : s = [r EXCEPT !.result.items = Append(@, item)] =>
           /\ s \in Exports /\ s.step = r.step /\ s.findings = r.findings /\ s.pos = r.pos
           /\ s.item = r.item /\ s.status = r.status
           /\ s.result.items = Append(r.result.items, item)
           /\ s.result.risks = r.result.risks /\ s.result.tasks = r.result.tasks
<1>1. r.result \in Tables /\ r.result.items \in Seq(GRCItems)
  BY DEF Exports, Tables
<1>2. Append(r.result.items, item) \in Seq(GRCItems)
  BY <1>1, AppendProperties
<1>3. PICK t \in Tables : t = [r.result EXCEPT !.items = Append(@, item)]
  BY <1>1, <1>2 DEF Tables
<1>4. /\ t.items = Append(r.result.items, item)
      /\ t.risks = r.result.risks /\ t.tasks = r.result.tasks
  BY <1>1, <1>3 DEF Tables
<1>5. PICK q \in Exports : q = r
  OBVIOUS
<1>6. /\ q.item = r.item /\ q.step = r.step /\ q.findings = r.findings /\ q.pos = r.pos
      /\ q.status = r.status
  BY <1>5
<1>7. PICK u : u = [q EXCEPT !.result = t]
  OBVIOUS
<1>8. u \in Exports /\ u.result = t
  BY <1>7, SMTT(30) DEF Exports
<1>9. /\ u.item = q.item /\ u.step = q.step /\ u.findings = q.findings
      /\ u.pos = q.pos /\ u.status = q.status
  BY <1>7 DEF Exports
<1>10. u = [r EXCEPT !.result.items = Append(@, item)]
  BY <1>3, <1>5, <1>7 DEF Exports
<1>11. QED
  BY <1>4, <1>6, <1>8, <1>9, <1>10

LEMMA RiskRecorded ==
  ASSUME NEW r \in Exports, NEW risk \in RiskEntries
  PROVE  \A s : s = [r EXCEPT !.result.risks = Append(@, risk)] =>
           /\ s \in Exports /\ s.step = r.step /\ s.findings = r.findings /\ s.pos = r.pos
           /\ s.item = r.item /\ s.status = r.status
           /\ s.result.risks = Append(r.result.risks, risk)
           /\ s.result.items = r.result.items /\ s.result.tasks = r.result.tasks
<1>1. r.result \in Tables /\ r.result.risks \in Seq(RiskEntries)
  BY DEF Exports, Tables
<1>2. Append(r.result.risks, risk) \in Seq(RiskEntries)
  BY <1>1, AppendProperties
<1>3. PICK t \in Tables : t = [r.result EXCEPT !.risks = Append(@, risk)]
  BY <1>1, <1>2 DEF Tables
<1>4. /\ t.risks = Append(r.result.risks, risk)
      /\ t.items = r.result.items /\ t.tasks = r.result.tasks
  BY <1>1, <1>3 DEF Tables
<1>5. PICK q \in Exports : q = r
  OBVIOUS
<1>6. /\ q.item = r.item /\ q.step = r.step /\ q.findings = r.findings /\ q.pos = r.pos
      /\ q.status = r.status
  BY <1>5
<1>7. PICK u : u = [q EXCEPT !.result = t]
  OBVIOUS
<1>8. u \in Exports /\ u.result = t
  BY <1>7, SMTT(30) DEF Exports
<1>9. /\ u.item = q.item /\ u.step = q.step /\ u.findings = q.findings
      /\ u.pos = q.pos /\ u.status = q.status
  BY <1>7 DEF Exports
<1>10. u = [r EXCEPT !.result.risks = Append(@, risk)]
  BY <1>3, <1>5, <1>7 DEF Exports
<1>11. QED
  BY <1>4, <1>6, <1>8, <1>9, <1>10

LEMMA TaskRecorded ==
  ASSUME NEW r \in Exports, NEW task \in Tasks
  PROVE  \A s : s = [r EXCEPT !.result.tasks = Append(@, task)] =>
           /\ s \in Exports /\ s.step = r.step /\ s.findings = r.findings /\ s.pos = r.pos
           /\ s.item = r.item /\ s.status = r.status
           /\ s.result.tasks = Append(r.result.tasks, task)
           /\ s.result.items = r.result.items /\ s.result.risks = r.result.risks
<1>1. r.result \in Tables /\ r.result.tasks \in Seq(Tasks)
  BY DEF Exports, Tables
<1>2. Append(r.result.tasks, task) \in Seq(Tasks)
  BY <1>1, AppendProperties
<1>3. PICK t \in Tables : t = [r.result EXCEPT !.tasks = Append(@, task)]
  BY <1>1, <1>2 DEF Tables
<1>4. /\ t.tasks = Append(r.result.tasks, task)
      /\ t.items = r.result.items /\ t.risks = r.result.risks
  BY <1>1, <1>3 DEF Tables
<1>5. PICK q \in Exports : q = r
  OBVIOUS
<1>6. /\ q.item = r.item /\ q.step = r.step /\ q.findings = r.findings /\ q.pos = r.pos
      /\ q.status = r.status
  BY <1>5
<1>7. PICK u : u = [q EXCEPT !.result = t]
  OBVIOUS
<1>8. u \in Exports /\ u.result = t
  BY <1>7, SMTT(30) DEF Exports
<1>9. /\ u.item = q.item /\ u.step = q.step /\ u.findings = q.findings
      /\ u.pos = q.pos /\ u.status = q.status
  BY <1>7 DEF Exports
<1>10. u = [r EXCEPT !.result.tasks = Append(@, task)]
  BY <1>3, <1>5, <1>7 DEF Exports
<1>11. QED
  BY <1>4, <1>6, <1>8, <1>9, <1>10

LEMMA NothingCollected ==
  ASSUME NEW fs
  PROVE  /\ ItemsUpTo(fs, <<>>, 0) /\ RisksUpTo(fs, <<>>, 0) /\ TasksUpTo(fs, <<>>, <<>>, 0)
<1>1. Risky(fs) \cap (1..0) = {} /\ Advised(fs) \cap (1..0) = {}
  OBVIOUS
<1>2. RisksUpTo(fs, <<>>, 0)
  <2>1. \A s : Filtered(s, Risky(fs) \cap (1..0)) = <<>>
    BY <1>1, FilteredNone
  <2>2. QED
    BY <2>1 DEF RisksUpTo
<1>3. TasksUpTo(fs, <<>>, <<>>, 0)
  <2>1. \A s : Filtered(s, Advised(fs) \cap (1..0)) = <<>>
    BY <1>1, FilteredNone
  <2>2. QED
    BY <2>1 DEF TasksUpTo
<1>4. ItemsUpTo(fs, <<>>, 0)
  BY DEF ItemsUpTo
<1>5. QED
  BY <1>2, <1>3, <1>4

\* An export that is over, or was refused, has an empty record; one that starts too.
LEMMA IdleIsAnswered ==
  ASSUME NEW status, NEW q, q = [NoExport EXCEPT !.status = status]
  PROVE  Answered(q)
<1>1. /\ q.step = "idle" /\ q.findings = <<>> /\ q.pos = 0
      /\ q.result.items = <<>> /\ q.result.risks = <<>> /\ q.result.tasks = <<>>
  BY DEF NoExport, NoResult
<1>2. ItemsDone(q) = 0 /\ RisksDone(q) = 0 /\ TasksDone(q) = 0 /\ Len(q.findings) = 0
  BY <1>1 DEF ItemsDone, RisksDone, TasksDone
<1>3. /\ ItemsUpTo(q.findings, q.result.items, 0) /\ RisksUpTo(q.findings, q.result.risks, 0)
      /\ TasksUpTo(q.findings, q.result.items, q.result.tasks, 0)
  BY <1>1, NothingCollected
<1>4. QED
  BY <1>1, <1>2, <1>3 DEF Answered

LEMMA StartIsAnswered ==
  ASSUME NEW fs, NEW q, q = [NoExport EXCEPT !.findings = fs, !.step = "item", !.pos = 1]
  PROVE  Answered(q)
<1>1. /\ q.step = "item" /\ q.findings = fs /\ q.pos = 1 /\ q.status = 0
      /\ q.result.items = <<>> /\ q.result.risks = <<>> /\ q.result.tasks = <<>>
  BY DEF NoExport, NoResult
<1>2. ItemsDone(q) = 0 /\ RisksDone(q) = 0 /\ TasksDone(q) = 0
  BY <1>1 DEF ItemsDone, RisksDone, TasksDone
<1>3. /\ ItemsUpTo(q.findings, q.result.items, 0) /\ RisksUpTo(q.findings, q.result.risks, 0)
      /\ TasksUpTo(q.findings, q.result.items, q.result.tasks, 0)
  BY <1>1, NothingCollected
<1>4. QED
  BY <1>1, <1>2, <1>3 DEF Answered

\* What one export did, and the others keep what they have.
LEMMA AnswersMove ==
  ASSUME AnswersInv, NEW e \in Exporters, NEW q, export' = [export EXCEPT ![e] = q], Answered(q)
  PROVE  \A d \in Exporters : Answered(export'[d])
<1>1. export \in [Exporters -> Exports]
  BY DEF AnswersInv, ExportInv, ExportTypeOK
<1>2. \A d \in Exporters : export'[d] = IF d = e THEN q ELSE export[d]
  BY <1>1
<1>3. \A d \in Exporters : Answered(export[d])
  BY DEF AnswersInv
<1>4. QED
  BY <1>2, <1>3

LEMMA AtWork ==
  ASSUME AnswersInv, NEW e \in Exporters, export[e].step # "idle",
         NEW r, r = export[e], NEW f, f = InHand(e)
  PROVE  /\ r \in Exports /\ f \in Findings /\ r.findings \in Seq(Findings)
         /\ r.pos \in 1..Len(r.findings) /\ f = r.findings[r.pos]
         /\ r.status # 200 /\ Answered(r)
<1>1. Answered(r)
  BY DEF AnswersInv
<1>2. r.status # 200
  BY <1>1 DEF Answered
<1>3. /\ r \in Exports /\ f \in Findings /\ r.pos \in 1..Len(r.findings)
      /\ f = r.findings[r.pos]
  BY InHandFacts DEF AnswersInv
<1>4. QED
  BY <1>1, <1>2, <1>3 DEF Exports

LEMMA ItemIsAnswered ==
  ASSUME AnswersInv, NEW e \in Exporters, CreateGRCItem(e)
  PROVE  \A d \in Exporters : Answered(export'[d])
<1>1. export[e].step = "item"
  BY DEF CreateGRCItem
<1>2. PICK f : f = InHand(e)
  OBVIOUS
<1>3. PICK given \in Nat : given = Len(tables.items) + 1
  BY TableLengths DEF AnswersInv, ExportInv, ExportTypeOK
<1>4. PICK r : r = export[e]
  OBVIOUS
<1>5. /\ r \in Exports /\ f \in Findings /\ r.findings \in Seq(Findings) /\ r.step = "item"
      /\ r.pos \in 1..Len(r.findings) /\ f = r.findings[r.pos] /\ r.status # 200 /\ Answered(r)
  BY <1>1, <1>2, <1>4, AtWork
<1>6. PICK item \in GRCItems : item = GRCItem(f, given)
  BY <1>5, RecordFacts
<1>7. PICK s : s = [r EXCEPT !.item = given, !.result.items = Append(@, item)]
  OBVIOUS
<1>8. export' = [export EXCEPT ![e] = NextStep(s)]
  <2>1. export' = [export EXCEPT ![e] =
             NextStep([export[e] EXCEPT !.item = Len(tables.items) + 1,
                        !.result.items = Append(@, GRCItem(InHand(e), Len(tables.items) + 1))])]
    BY Zenon DEF CreateGRCItem
  <2>2. QED
    BY <1>2, <1>3, <1>4, <1>6, <1>7, <2>1, Zenon
<1>9. /\ s \in Exports /\ s.step = r.step /\ s.findings = r.findings /\ s.pos = r.pos
      /\ s.item = given /\ s.status = r.status
      /\ s.result.items = Append(r.result.items, item)
      /\ s.result.risks = r.result.risks /\ s.result.tasks = r.result.tasks
  <2>1. PICK q \in Exports : q = [r EXCEPT !.item = given]
    <3>1. r \in Exports
      BY <1>5
    <3>2. QED
      BY <3>1 DEF Exports
  <2>2. /\ q.item = given /\ q.step = r.step /\ q.findings = r.findings /\ q.pos = r.pos
        /\ q.status = r.status /\ q.result = r.result
    BY <1>5, <2>1 DEF Exports
  <2>3. s = [q EXCEPT !.result.items = Append(@, item)]
    BY <1>5, <1>7, <2>1 DEF Exports
  <2>4. s \in Exports /\ s.step = q.step
    BY <2>3, ItemRecorded
  <2>5. s.findings = q.findings /\ s.pos = q.pos
    BY <2>3, ItemRecorded
  <2>6. s.item = q.item /\ s.status = q.status
    BY <2>3, ItemRecorded
  <2>7. s.result.items = Append(q.result.items, item)
    BY <2>3, ItemRecorded
  <2>8. s.result.risks = q.result.risks /\ s.result.tasks = q.result.tasks
    BY <2>3, ItemRecorded
  <2>9. QED
    BY <2>2, <2>4, <2>5, <2>6, <2>7, <2>8
<1>10. PICK fs \in Seq(Findings) : fs = r.findings
  BY <1>5
<1>11. PICK n \in 1..Len(fs) : n = r.pos
  BY <1>5, <1>10
<1>12. /\ ItemsUpTo(fs, r.result.items, n - 1) /\ RisksUpTo(fs, r.result.risks, n - 1)
       /\ TasksUpTo(fs, r.result.items, r.result.tasks, n - 1)
  <2>1. ItemsDone(r) = n - 1 /\ RisksDone(r) = n - 1 /\ TasksDone(r) = n - 1
    BY <1>5, <1>11 DEF ItemsDone, RisksDone, TasksDone
  <2>2. QED
    BY <1>5, <1>10, <2>1 DEF Answered
<1>13. r.result.items \in Seq(GRCItems)
  BY <1>5 DEF Exports, Tables
<1>14. PICK more : more = Append(r.result.items, item)
  OBVIOUS
<1>15. /\ ItemsUpTo(fs, more, n) /\ TasksUpTo(fs, more, r.result.tasks, n - 1)
       /\ more[n].sysID = given
  <2>1. more = Append(r.result.items, GRCItem(fs[n], given))
    BY <1>5, <1>6, <1>10, <1>11, <1>14
  <2>2. PICK items \in Seq(GRCItems) : items = r.result.items
    BY <1>13
  <2>3. PICK tasks : tasks = r.result.tasks
    OBVIOUS
  <2>4. /\ ItemsUpTo(fs, items, n - 1) /\ TasksUpTo(fs, items, tasks, n - 1)
        /\ more = Append(items, GRCItem(fs[n], given))
    BY <1>12, <2>1, <2>2, <2>3
  <2>5. ItemsUpTo(fs, more, n)
    BY <2>4, ItemCollected
  <2>6. TasksUpTo(fs, more, tasks, n - 1)
    BY <2>4, ItemCollected
  <2>7. more[n] = item
    <3>1. Len(items) = n - 1 /\ n \in Nat
      BY <2>4, PositionFacts DEF ItemsUpTo
    <3>2. more = Append(items, item)
      BY <1>14, <2>2
    <3>3. QED
      BY <3>1, <3>2, AppendProperties
  <2>8. QED
    BY <1>6, <2>3, <2>5, <2>6, <2>7 DEF GRCItem
<1>16. PICK q : q = NextStep(s)
  OBVIOUS
<1>17. Answered(q)
  <2>1. /\ s.step = "item" /\ s.pos = n /\ s.findings = fs /\ s.result.items = more
        /\ s.item = given /\ s.status # 200
    BY <1>5, <1>9, <1>10, <1>11, <1>14
  <2>2. /\ ItemsUpTo(s.findings, s.result.items, s.pos)
        /\ RisksUpTo(s.findings, s.result.risks, IF s.step = "item" THEN s.pos - 1 ELSE s.pos)
        /\ TasksUpTo(s.findings, s.result.items, s.result.tasks,
                     IF s.step = "task" THEN s.pos ELSE s.pos - 1)
        /\ s.item = s.result.items[s.pos].sysID
    BY <1>9, <1>12, <1>15, <2>1
  <2>3. s.pos \in 1..Len(s.findings)
    BY <2>1
  <2>4. QED
    BY <1>9, <1>16, <2>1, <2>2, <2>3, NextStepAnswers
<1>18. QED
  BY <1>8, <1>16, <1>17, AnswersMove

LEMMA RiskIsAnswered ==
  ASSUME AnswersInv, NEW e \in Exporters, CreateRiskEntry(e)
  PROVE  \A d \in Exporters : Answered(export'[d])
<1>1. export[e].step = "risk"
  BY DEF CreateRiskEntry
<1>2. PICK f : f = InHand(e)
  OBVIOUS
<1>3. PICK r : r = export[e]
  OBVIOUS
<1>4. /\ r \in Exports /\ f \in Findings /\ r.findings \in Seq(Findings) /\ r.step = "risk"
      /\ r.pos \in 1..Len(r.findings) /\ f = r.findings[r.pos] /\ r.status # 200 /\ Answered(r)
  BY <1>1, <1>2, <1>3, AtWork
<1>5. PICK risk \in RiskEntries : risk = RiskEntry(f)
  BY <1>4 DEF RiskEntries
<1>6. PICK s : s = [r EXCEPT !.result.risks = Append(@, risk)]
  OBVIOUS
<1>7. export' = [export EXCEPT ![e] = NextStep(s)]
  <2>1. export' = [export EXCEPT ![e] =
             NextStep([export[e] EXCEPT !.result.risks = Append(@, RiskEntry(InHand(e)))])]
    BY Zenon DEF CreateRiskEntry
  <2>2. QED
    BY <1>2, <1>3, <1>5, <1>6, <2>1, Zenon
<1>8. /\ s \in Exports /\ s.step = r.step /\ s.findings = r.findings /\ s.pos = r.pos
      /\ s.item = r.item /\ s.status = r.status
      /\ s.result.risks = Append(r.result.risks, risk)
      /\ s.result.items = r.result.items /\ s.result.tasks = r.result.tasks
  <2>1. r \in Exports
    BY <1>4
  <2>2. s \in Exports /\ s.step = r.step
    BY <1>6, <2>1, RiskRecorded
  <2>3. s.findings = r.findings /\ s.pos = r.pos
    BY <1>6, <2>1, RiskRecorded
  <2>4. s.item = r.item /\ s.status = r.status
    BY <1>6, <2>1, RiskRecorded
  <2>5. s.result.risks = Append(r.result.risks, risk)
    BY <1>6, <2>1, RiskRecorded
  <2>6. s.result.items = r.result.items /\ s.result.tasks = r.result.tasks
    BY <1>6, <2>1, RiskRecorded
  <2>7. QED
    BY <2>2, <2>3, <2>4, <2>5, <2>6
<1>9. PICK fs \in Seq(Findings) : fs = r.findings
  BY <1>4
<1>10. PICK n \in 1..Len(fs) : n = r.pos
  BY <1>4, <1>9
<1>11. /\ ItemsUpTo(fs, r.result.items, n) /\ RisksUpTo(fs, r.result.risks, n - 1)
       /\ TasksUpTo(fs, r.result.items, r.result.tasks, n - 1)
       /\ n \in Risky(fs) /\ r.item = r.result.items[n].sysID
  <2>1. ItemsDone(r) = n /\ RisksDone(r) = n - 1 /\ TasksDone(r) = n - 1
    BY <1>4, <1>10 DEF ItemsDone, RisksDone, TasksDone
  <2>2. QED
    BY <1>4, <1>9, <1>10, <2>1 DEF Answered
<1>12. RisksUpTo(fs, s.result.risks, n)
  <2>1. PICK risks : risks = r.result.risks
    OBVIOUS
  <2>2. RisksUpTo(fs, Append(risks, RiskEntry(fs[n])), n)
    BY <1>11, <2>1, RiskCollected
  <2>3. s.result.risks = Append(risks, RiskEntry(fs[n]))
    BY <1>4, <1>5, <1>8, <1>9, <1>10, <2>1
  <2>4. QED
    BY <2>2, <2>3
<1>13. PICK q : q = NextStep(s)
  OBVIOUS
<1>14. Answered(q)
  <2>1. /\ s.step = "risk" /\ s.pos = n /\ s.findings = fs /\ s.result.items = r.result.items
        /\ s.item = r.item /\ s.status # 200
    BY <1>4, <1>8, <1>9, <1>10
  <2>2. /\ ItemsUpTo(s.findings, s.result.items, s.pos)
        /\ RisksUpTo(s.findings, s.result.risks, IF s.step = "item" THEN s.pos - 1 ELSE s.pos)
        /\ TasksUpTo(s.findings, s.result.items, s.result.tasks,
                     IF s.step = "task" THEN s.pos ELSE s.pos - 1)
        /\ s.item = s.result.items[s.pos].sysID
    BY <1>8, <1>11, <1>12, <2>1
  <2>3. s.pos \in 1..Len(s.findings)
    BY <2>1
  <2>4. QED
    BY <1>8, <1>13, <2>1, <2>2, <2>3, NextStepAnswers
<1>15. QED
  BY <1>7, <1>13, <1>14, AnswersMove

LEMMA TaskIsAnswered ==
  ASSUME AnswersInv, NEW e \in Exporters, CreateRemediationTask(e)
  PROVE  \A d \in Exporters : Answered(export'[d])
<1>1. export[e].step = "task"
  BY DEF CreateRemediationTask
<1>2. PICK f : f = InHand(e)
  OBVIOUS
<1>3. PICK r : r = export[e]
  OBVIOUS
<1>4. /\ r \in Exports /\ f \in Findings /\ r.findings \in Seq(Findings) /\ r.step = "task"
      /\ r.pos \in 1..Len(r.findings) /\ f = r.findings[r.pos] /\ r.status # 200 /\ Answered(r)
  BY <1>1, <1>2, <1>3, AtWork
<1>5. PICK task \in Tasks : task = RemediationTask(f, r.item)
  BY <1>4 DEF Tasks, Exports
<1>6. PICK s : s = [r EXCEPT !.result.tasks = Append(@, task)]
  OBVIOUS
<1>7. export' = [export EXCEPT ![e] = NextStep(s)]
  <2>1. export' = [export EXCEPT ![e] =
             NextStep([export[e] EXCEPT
               !.result.tasks = Append(@, RemediationTask(InHand(e), export[e].item))])]
    BY Zenon DEF CreateRemediationTask
  <2>2. QED
    BY <1>2, <1>3, <1>5, <1>6, <2>1, Zenon
<1>8. /\ s \in Exports /\ s.step = r.step /\ s.findings = r.findings /\ s.pos = r.pos
      /\ s.item = r.item /\ s.status = r.status
      /\ s.result.tasks = Append(r.result.tasks, task)
      /\ s.result.items = r.result.items /\ s.result.risks = r.result.risks
  <2>1. r \in Exports
    BY <1>4
  <2>2. s \in Exports /\ s.step = r.step
    BY <1>6, <2>1, TaskRecorded
  <2>3. s.findings = r.findings /\ s.pos = r.pos
    BY <1>6, <2>1, TaskRecorded
  <2>4. s.item = r.item /\ s.status = r.status
    BY <1>6, <2>1, TaskRecorded
  <2>5. s.result.tasks = Append(r.result.tasks, task)
    BY <1>6, <2>1, TaskRecorded
  <2>6. s.result.items = r.result.items /\ s.result.risks = r.result.risks
    BY <1>6, <2>1, TaskRecorded
  <2>7. QED
    BY <2>2, <2>3, <2>4, <2>5, <2>6
<1>9. PICK fs \in Seq(Findings) : fs = r.findings
  BY <1>4
<1>10. PICK n \in 1..Len(fs) : n = r.pos
  BY <1>4, <1>9
<1>11. /\ ItemsUpTo(fs, r.result.items, n) /\ RisksUpTo(fs, r.result.risks, n)
       /\ TasksUpTo(fs, r.result.items, r.result.tasks, n - 1)
       /\ n \in Advised(fs) /\ r.item = r.result.items[n].sysID
  <2>1. ItemsDone(r) = n /\ RisksDone(r) = n /\ TasksDone(r) = n - 1
    BY <1>4, <1>10 DEF ItemsDone, RisksDone, TasksDone
  <2>2. QED
    BY <1>4, <1>9, <1>10, <2>1 DEF Answered
<1>12. TasksUpTo(fs, r.result.items, s.result.tasks, n)
  <2>1. PICK tasks : tasks = r.result.tasks
    OBVIOUS
  <2>2. PICK items : items = r.result.items
    OBVIOUS
  <2>3. TasksUpTo(fs, items, Append(tasks, RemediationTask(fs[n], items[n].sysID)), n)
    BY <1>11, <2>1, <2>2, TaskCollected
  <2>4. s.result.tasks = Append(tasks, RemediationTask(fs[n], items[n].sysID))
    BY <1>4, <1>5, <1>8, <1>9, <1>10, <1>11, <2>1, <2>2
  <2>5. QED
    BY <2>2, <2>3, <2>4
<1>13. PICK q : q = NextStep(s)
  OBVIOUS
<1>14. Answered(q)
  <2>1. /\ s.step = "task" /\ s.pos = n /\ s.findings = fs /\ s.result.items = r.result.items
        /\ s.item = r.item /\ s.status # 200
    BY <1>4, <1>8, <1>9, <1>10
  <2>2. /\ ItemsUpTo(s.findings, s.result.items, s.pos)
        /\ RisksUpTo(s.findings, s.result.risks, IF s.step = "item" THEN s.pos - 1 ELSE s.pos)
        /\ TasksUpTo(s.findings, s.result.items, s.result.tasks,
                     IF s.step = "task" THEN s.pos ELSE s.pos - 1)
        /\ s.item = s.result.items[s.pos].sysID
    BY <1>8, <1>11, <1>12, <2>1
  <2>3. s.pos \in 1..Len(s.findings)
    BY <2>1
  <2>4. QED
    BY <1>8, <1>13, <2>1, <2>2, <2>3, NextStepAnswers
<1>15. QED
  BY <1>7, <1>13, <1>14, AnswersMove

LEMMA AnswersInvHolds == ExportSpec => []AnswersInv
<1>1. ASSUME ExportInit PROVE \A e \in Exporters : Answered(export[e])
  <2>1. NoExport = [NoExport EXCEPT !.status = 0]
    BY DEF NoExport
  <2>2. Answered(NoExport)
    BY <2>1, IdleIsAnswered
  <2>3. QED
    BY <1>1, <2>2 DEF ExportInit
<1>2. ASSUME AnswersInv, ExportInv', [ExportNext]_exportVars PROVE AnswersInv'
  <2>1. ASSUME NEW e \in Exporters, NEW body \in Requests, ExportToServiceNow(e, body)
        PROVE  \A d \in Exporters : Answered(export'[d])
    <3>1. PICK q : q = IF body = <<>> THEN [NoExport EXCEPT !.status = 200]
                       ELSE [NoExport EXCEPT !.findings = body, !.step = "item", !.pos = 1]
      OBVIOUS
    <3>2. export' = [export EXCEPT ![e] = q]
      BY <2>1, <3>1, Zenon DEF ExportToServiceNow
    <3>3. Answered(q)
      <4>1. CASE body = <<>>
        BY <3>1, <4>1, IdleIsAnswered
      <4>2. CASE body # <<>>
        BY <3>1, <4>2, StartIsAnswered
      <4>3. QED
        BY <4>1, <4>2
    <3>4. QED
      BY <1>2, <3>2, <3>3, AnswersMove
  <2>2. ASSUME NEW e \in Exporters, Stopped(e)
        PROVE  \A d \in Exporters : Answered(export'[d])
    <3>1. PICK q : q = [NoExport EXCEPT !.status = 502]
      OBVIOUS
    <3>2. export' = [export EXCEPT ![e] = q]
      BY <2>2, <3>1, Zenon DEF Stopped
    <3>3. Answered(q)
      BY <3>1, IdleIsAnswered
    <3>4. QED
      BY <1>2, <3>2, <3>3, AnswersMove
  <2>3. ASSUME NEW e \in Exporters, CreateGRCItem(e)
        PROVE  \A d \in Exporters : Answered(export'[d])
    BY <1>2, <2>3, ItemIsAnswered
  <2>4. ASSUME NEW e \in Exporters, CreateRiskEntry(e)
        PROVE  \A d \in Exporters : Answered(export'[d])
    BY <1>2, <2>4, RiskIsAnswered
  <2>5. ASSUME NEW e \in Exporters, CreateRemediationTask(e)
        PROVE  \A d \in Exporters : Answered(export'[d])
    BY <1>2, <2>5, TaskIsAnswered
  <2>6. ASSUME NEW e \in Exporters, PostRefused(e) \/ AnswerLost(e)
        PROVE  \A d \in Exporters : Answered(export'[d])
    BY <2>2, <2>6 DEF PostRefused, AnswerLost
  <2>7. CASE UNCHANGED exportVars
    <3>1. export' = export
      BY <2>7 DEF exportVars
    <3>2. \A d \in Exporters : Answered(export[d])
      BY <1>2 DEF AnswersInv
    <3>3. \A d \in Exporters : Answered(export'[d])
      BY <3>1, <3>2
    <3>4. QED
      BY <1>2, <3>3 DEF AnswersInv
  <2>8. ASSUME \A d \in Exporters : Answered(export'[d]) PROVE AnswersInv'
    BY <1>2, <2>8 DEF AnswersInv
  <2>9. QED
    BY <1>2, <2>1, <2>3, <2>4, <2>5, <2>6, <2>7, <2>8 DEF ExportNext
<1>3. ExportInit /\ ExportInv => AnswersInv
  BY <1>1 DEF AnswersInv
<1>4. AnswersInv /\ ExportInv' /\ [ExportNext]_exportVars => AnswersInv'
  BY <1>2
<1>5. QED
  BY <1>3, <1>4, ExportInvHolds, PTL DEF ExportSpec

\* A task of mock mode, by the id that ServiceNow gave its item, is the live one.
LEMMA TasksLikeMock ==
  ASSUME NEW fs \in Seq(Findings), NEW items, NEW mock, NEW live,
         NEW m, m = [i \in DOMAIN fs |-> RemediationTask(fs[i], i)],
         mock = Filtered(m, Advised(fs)),
         live = Filtered(TaskOf(fs, items), Advised(fs))
  PROVE  live = [i \in DOMAIN mock |-> [mock[i] EXCEPT !.item = items[mock[i].item].sysID]]
<1>1. PICK A \in SUBSET (1..Len(fs)) : A = Advised(fs)
  BY PositionFacts
<1>2. IsFiniteSet(A) /\ A \in SUBSET Nat
  BY PositionFacts, FinitePositions
<1>3. \A i \in DOMAIN fs : m[i] = RemediationTask(fs[i], i)
  OBVIOUS
<1>4. PICK t : t = TaskOf(fs, items)
  OBVIOUS
<1>5. /\ mock = [k \in 1..Cardinality(A) |-> m[Nth(A, k)]]
      /\ live = [k \in 1..Cardinality(A) |-> t[Nth(A, k)]]
  BY <1>1, <1>4 DEF Filtered
<1>6. ASSUME NEW k \in 1..Cardinality(A)
      PROVE  live[k] = [mock[k] EXCEPT !.item = items[mock[k].item].sysID]
  <2>1. PICK i \in A : i = Nth(A, k)
    BY <1>2, <1>6, NthIsRanked
  <2>2. i \in 1..Len(fs) /\ i \in DOMAIN fs
    BY PositionFacts
  <2>3. mock[k] = RemediationTask(fs[i], i) /\ live[k] = RemediationTask(fs[i], items[i].sysID)
    BY <1>3, <1>4, <1>5, <2>1, <2>2 DEF TaskOf
  <2>4. PICK n : n = items[i].sysID
    OBVIOUS
  <2>5. mock[k].item = i
    BY <2>3 DEF RemediationTask
  <2>6. [RemediationTask(fs[i], i) EXCEPT !.item = n] = RemediationTask(fs[i], n)
    BY DEF RemediationTask
  <2>7. QED
    BY <2>3, <2>4, <2>5, <2>6
<1>7. QED
  BY <1>5, <1>6

\* A risk entry of mock mode, without its owner, is the live one.
LEMMA RisksLikeMock ==
  ASSUME NEW fs \in Seq(Findings), NEW mock, NEW live,
         NEW m, m = [i \in DOMAIN fs |-> MockRiskEntry(fs[i])],
         mock = Filtered(m, Risky(fs)), live = Filtered(RiskOf(fs), Risky(fs))
  PROVE  live = [i \in DOMAIN mock |-> [mock[i] EXCEPT !.owner = "none"]]
<1>1. PICK A \in SUBSET (1..Len(fs)) : A = Risky(fs)
  BY PositionFacts
<1>2. IsFiniteSet(A) /\ A \in SUBSET Nat
  BY PositionFacts, FinitePositions
<1>3. \A i \in DOMAIN fs : m[i] = MockRiskEntry(fs[i])
  OBVIOUS
<1>4. PICK t : t = RiskOf(fs)
  OBVIOUS
<1>5. /\ mock = [k \in 1..Cardinality(A) |-> m[Nth(A, k)]]
      /\ live = [k \in 1..Cardinality(A) |-> t[Nth(A, k)]]
  BY <1>1, <1>4 DEF Filtered
<1>6. ASSUME NEW k \in 1..Cardinality(A)
      PROVE  live[k] = [mock[k] EXCEPT !.owner = "none"]
  <2>1. PICK i \in A : i = Nth(A, k)
    BY <1>2, <1>6, NthIsRanked
  <2>2. i \in 1..Len(fs) /\ i \in DOMAIN fs
    BY PositionFacts
  <2>3. mock[k] = MockRiskEntry(fs[i]) /\ live[k] = RiskEntry(fs[i])
    BY <1>3, <1>4, <1>5, <2>1, <2>2 DEF RiskOf
  <2>4. [MockRiskEntry(fs[i]) EXCEPT !.owner = "none"] = RiskEntry(fs[i])
    <3>1. PICK score, ci : score = SeverityToRiskScore(fs[i].severity) /\ ci = ResolveCMDBCI(fs[i].asset)
      OBVIOUS
    <3>2. /\ RiskEntry(fs[i]) = [source |-> fs[i].id, score |-> score, cmdbCI |-> ci, owner |-> "none"]
          /\ MockRiskEntry(fs[i]) = [source |-> fs[i].id, score |-> score, cmdbCI |-> ci,
                                     owner |-> "aiauditor_integration"]
      BY <3>1 DEF MockRiskEntry, RiskEntry
    <3>3. QED
      BY <3>2
  <2>5. QED
    BY <2>3, <2>4
<1>7. QED
  BY <1>5, <1>6

\* What an export leaves and answers is what it reports or a known part of it, and a
\* live answer is mock mode's up to the ids ServiceNow gives and the owner of a risk
\* (liveExport against mockExport, servicenow.go:57-129, 235-244 and 335-346).
THEOREM SpecExportIsExplained == ExportSpec => []ExportIsExplained
<1>1. AnswersInv => LiveAnswersLikeMock
  <2> SUFFICES ASSUME AnswersInv, NEW e \in Exporters, export[e].status = 200
               PROVE  LET live == export[e].result
                          mock == MockExport(export[e].findings)
                      IN /\ [i \in DOMAIN live.items |-> [live.items[i] EXCEPT !.sysID = i]] = mock.items
                         /\ live.risks = [i \in DOMAIN mock.risks |->
                              [mock.risks[i] EXCEPT !.owner = "none"]]
                         /\ live.tasks = [i \in DOMAIN mock.tasks |->
                              [mock.tasks[i] EXCEPT !.item = live.items[mock.tasks[i].item].sysID]]
    BY DEF LiveAnswersLikeMock
  <2>1. PICK live : live = export[e].result
    OBVIOUS
  <2>2. PICK mock : mock = MockExport(export[e].findings)
    OBVIOUS
  <2>3. PICK r \in Exports : r = export[e]
    BY DEF AnswersInv, ExportInv, ExportTypeOK
  <2>4. Answered(r) /\ r.status = 200
    BY <2>3 DEF AnswersInv
  <2>5. PICK fs \in Seq(Findings) : fs = r.findings
    BY <2>3 DEF Exports
  <2>6. r.step = "idle" /\ r.pos = Len(fs)
    BY <2>4, <2>5 DEF Answered
  <2>7. /\ ItemsUpTo(fs, live.items, Len(fs)) /\ RisksUpTo(fs, live.risks, Len(fs))
        /\ TasksUpTo(fs, live.items, live.tasks, Len(fs))
    <3>1. ItemsDone(r) = Len(fs) /\ RisksDone(r) = Len(fs) /\ TasksDone(r) = Len(fs)
      BY <2>6 DEF ItemsDone, RisksDone, TasksDone
    <3>2. QED
      BY <2>1, <2>3, <2>4, <2>5, <3>1 DEF Answered
  <2>8. /\ Risky(fs) \cap (1..Len(fs)) = Risky(fs) /\ Advised(fs) \cap (1..Len(fs)) = Advised(fs)
        /\ DOMAIN fs = 1..Len(fs)
    BY PositionFacts
  <2>9. /\ mock.items = [i \in DOMAIN fs |-> GRCItem(fs[i], i)]
        /\ mock.risks = Filtered([i \in DOMAIN fs |-> MockRiskEntry(fs[i])], Risky(fs))
        /\ mock.tasks = Filtered([i \in DOMAIN fs |-> RemediationTask(fs[i], i)], Advised(fs))
    BY <2>2, <2>3, <2>5 DEF MockExport
  <2>10. [i \in DOMAIN live.items |-> [live.items[i] EXCEPT !.sysID = i]] = mock.items
    <3>1. DOMAIN live.items = 1..Len(fs)
      <4>1. live.items \in Seq(GRCItems)
        BY <2>1, <2>3 DEF Exports, Tables
      <4>2. QED
        BY <2>7, <4>1 DEF ItemsUpTo
    <3>2. ASSUME NEW i \in 1..Len(fs)
          PROVE  [live.items[i] EXCEPT !.sysID = i] = GRCItem(fs[i], i)
      <4>1. PICK n : n = live.items[i].sysID
        OBVIOUS
      <4>2. live.items[i] = GRCItem(fs[i], n)
        BY <2>7, <4>1 DEF ItemsUpTo
      <4>3. QED
        BY <4>2 DEF GRCItem
    <3>3. QED
      BY <2>8, <2>9, <3>1, <3>2
  <2>11. live.risks = [i \in DOMAIN mock.risks |-> [mock.risks[i] EXCEPT !.owner = "none"]]
    <3>1. PICK m : m = [i \in DOMAIN fs |-> MockRiskEntry(fs[i])]
      OBVIOUS
    <3>2. mock.risks = Filtered(m, Risky(fs)) /\ live.risks = Filtered(RiskOf(fs), Risky(fs))
      BY <2>7, <2>8, <2>9, <3>1 DEF RisksUpTo
    <3>3. QED
      BY <3>1, <3>2, RisksLikeMock
  <2>12. live.tasks = [i \in DOMAIN mock.tasks |->
            [mock.tasks[i] EXCEPT !.item = live.items[mock.tasks[i].item].sysID]]
    <3>1. live.tasks = Filtered(TaskOf(fs, live.items), Advised(fs))
      BY <2>7, <2>8 DEF TasksUpTo
    <3>2. PICK items : items = live.items
      OBVIOUS
    <3>3. PICK tasks : tasks = live.tasks
      OBVIOUS
    <3>4. PICK due : due = mock.tasks
      OBVIOUS
    <3>5. tasks = [i \in DOMAIN due |-> [due[i] EXCEPT !.item = items[due[i].item].sysID]]
      <4>1. PICK m : m = [i \in DOMAIN fs |-> RemediationTask(fs[i], i)]
        OBVIOUS
      <4>2. due = Filtered(m, Advised(fs)) /\ tasks = Filtered(TaskOf(fs, items), Advised(fs))
        BY <2>9, <3>1, <3>2, <3>3, <3>4, <4>1
      <4>3. QED
        BY <4>1, <4>2, TasksLikeMock
    <3>6. QED
      BY <3>2, <3>3, <3>4, <3>5
  <2>13. QED
    BY <2>1, <2>2, <2>10, <2>11, <2>12
<1>2. TasksPointAtTheirItem /\ MissingRiskIsExplained /\ LiveAnswersLikeMock => ExportIsExplained
  BY DEF ExportIsExplained
<1>3. QED
  BY <1>1, <1>2, AnswersInvHolds, SpecTasksPointAtTheirItem, SpecMissingRiskIsExplained, PTL

(***************************************************************************)
(* Lists: what a filter keeps, what a removal leaves, how many differ      *)
(***************************************************************************)

\* The positions kept are as many as the elements, each of its own.
LEMMA KeptFacts ==
  ASSUME NEW T, NEW s \in Seq(T), NEW P \in SUBSET (1..Len(s))
  PROVE  /\ IsFiniteSet(P) /\ Cardinality(P) \in 0..Len(s)
         /\ Filtered(s, P) \in Seq(T) /\ Len(Filtered(s, P)) = Cardinality(P)
         /\ \A k \in 1..Cardinality(P) : Nth(P, k) \in P /\ Filtered(s, P)[k] = s[Nth(P, k)]
         /\ \A j, k \in 1..Cardinality(P) : Nth(P, j) = Nth(P, k) => j = k
         /\ \A i \in P : \E k \in 1..Cardinality(P) : Nth(P, k) = i
<1>1. PICK len \in Nat : len = Len(s)
  BY LenProperties
<1>2. IsFiniteSet(1..len) /\ Cardinality(1..len) = len
  BY FS_Interval
<1>3. P \in SUBSET (1..len) /\ P \in SUBSET Nat
  BY <1>1
<1>4. IsFiniteSet(P) /\ Cardinality(P) <= len
  <2>1. PICK S : S = 1..len
    OBVIOUS
  <2> QED  BY <1>2, <1>3, <2>1, FS_Subset
<1>5. Cardinality(P) \in Nat
  BY <1>4, FS_CardinalityType
<1>6. \A i \in P : s[i] \in T
  BY <1>1, <1>3, ElementOfSeq
<1>7. Filtered(s, P) \in Seq(T) /\ Len(Filtered(s, P)) = Cardinality(P)
  BY <1>3, <1>4, <1>6, FilteredInType
<1>8. \A k \in 1..Cardinality(P) : Nth(P, k) \in P /\ Cardinality({j \in P : j <= Nth(P, k)}) = k
  BY <1>3, <1>4, NthIsRanked
<1>9. \A j, k \in 1..Cardinality(P) : Nth(P, j) = Nth(P, k) => j = k
  <2> SUFFICES ASSUME NEW j \in 1..Cardinality(P), NEW k \in 1..Cardinality(P),
                      Nth(P, j) = Nth(P, k)
               PROVE  j = k
    OBVIOUS
  <2> QED  BY <1>8
<1>10. \A i \in P : \E k \in 1..Cardinality(P) : Nth(P, k) = i
  <2> SUFFICES ASSUME NEW i \in P PROVE \E k \in 1..Cardinality(P) : Nth(P, k) = i
    OBVIOUS
  <2> QED  BY <1>3, <1>4, NthIs
<1>11. \A k \in 1..Cardinality(P) : Filtered(s, P)[k] = s[Nth(P, k)]
  BY DEF Filtered
<1>12. Cardinality(P) \in 0..Len(s)
  BY <1>1, <1>4, <1>5
<1>13. \A k \in 1..Cardinality(P) : Nth(P, k) \in P /\ Filtered(s, P)[k] = s[Nth(P, k)]
  BY <1>8, <1>11
<1>14. QED
  BY <1>4, <1>7, <1>9, <1>10, <1>12, <1>13, Zenon

\* A filter that tests nothing away.
LEMMA KeptAll ==
  ASSUME NEW T, NEW s \in Seq(T), NEW P \in SUBSET (1..Len(s)), NEW n \in 0..Len(s), P = 1..n
  PROVE  Len(Filtered(s, P)) = n /\ Filtered(s, P) = SubSeq(s, 1, n)
<1>1. Cardinality(P) = n
  BY FS_Interval
<1>2. IsFiniteSet(P) /\ P \in SUBSET Nat
  BY KeptFacts
<1>3. ASSUME NEW k \in 1..n PROVE Nth(P, k) = k
  <2>1. PICK R \in SUBSET Nat : R = {j \in P : j <= k}
    BY <1>2
  <2>2. R = 1..k
    BY <1>3, <2>1
  <2>3. Cardinality(R) = k
    BY <2>2, FS_Interval
  <2>4. k \in P /\ k = Cardinality({j \in P : j <= k})
    BY <1>3, <2>1, <2>3
  <2> QED  BY <1>2, <2>4, NthIs
<1>4. Filtered(s, P) = [k \in 1..n |-> s[k]]
  BY <1>1, <1>3 DEF Filtered
<1>5. SubSeq(s, 1, n) = [k \in 1..n |-> s[k]]
  <2>1. Len(s) \in Nat
    BY LenProperties
  <2>2. \A i \in 1..n : s[i] \in T
    BY <2>1, ElementOfSeq
  <2>3. /\ SubSeq(s, 1, n) \in Seq(T) /\ Len(SubSeq(s, 1, n)) = n
        /\ \A i \in 1..n : SubSeq(s, 1, n)[i] = s[i]
    BY <2>1, <2>2, SubSeqProperties
  <2>4. [k \in 1..n |-> s[k]] \in Seq(T) /\ Len([k \in 1..n |-> s[k]]) = n
    BY <2>1, <2>2
  <2> QED  BY <2>3, <2>4, SeqEqual
<1>6. QED
  BY <1>1, <1>4, <1>5, KeptFacts

LEMMA RemoveAtFacts ==
  ASSUME NEW T, NEW s \in Seq(T), NEW i \in 1..Len(s)
  PROVE  /\ RemoveAt(s, i) \in Seq(T) /\ Len(RemoveAt(s, i)) = Len(s) - 1
         /\ \A j \in 1..Len(s) - 1 : RemoveAt(s, i)[j] = s[IF j < i THEN j ELSE j + 1]
<1>1. PICK n \in Nat : n = Len(s)
  BY LenProperties
<1>2. \A j \in 1..n : s[j] \in T
  BY <1>1, ElementOfSeq
<1>3. /\ SubSeq(s, 1, i - 1) \in Seq(T) /\ Len(SubSeq(s, 1, i - 1)) = i - 1
      /\ \A j \in 1..i - 1 : SubSeq(s, 1, i - 1)[j] = s[j]
  BY <1>1, <1>2, SubSeqProperties
<1>4. /\ SubSeq(s, i + 1, n) \in Seq(T) /\ Len(SubSeq(s, i + 1, n)) = n - i
      /\ \A j \in 1..n - i : SubSeq(s, i + 1, n)[j] = s[i + j]
  <2>1. i + 1 \in Int /\ n \in Int /\ \A j \in i + 1..n : s[j] \in T
    BY <1>1, <1>2
  <2>2. /\ SubSeq(s, i + 1, n) \in Seq(T)
        /\ Len(SubSeq(s, i + 1, n)) = IF i + 1 <= n THEN n - (i + 1) + 1 ELSE 0
        /\ \A j \in 1..n - (i + 1) + 1 : SubSeq(s, i + 1, n)[j] = s[(i + 1) + j - 1]
    BY <2>1, SubSeqProperties
  <2> QED  BY <1>1, <2>2
<1>5. PICK a \in Seq(T), b \in Seq(T) : a = SubSeq(s, 1, i - 1) /\ b = SubSeq(s, i + 1, n)
  BY <1>3, <1>4
<1>6. RemoveAt(s, i) = a \o b
  BY <1>1, <1>5 DEF RemoveAt
<1>7. /\ a \o b \in Seq(T) /\ Len(a \o b) = Len(a) + Len(b)
      /\ \A j \in 1..Len(a) + Len(b) : (a \o b)[j] = IF j <= Len(a) THEN a[j] ELSE b[j - Len(a)]
  BY ConcatProperties
<1>8. Len(a) = i - 1 /\ Len(b) = n - i
  BY <1>3, <1>4, <1>5
<1>9. ASSUME NEW j \in 1..n - 1 PROVE (a \o b)[j] = s[IF j < i THEN j ELSE j + 1]
  <2>1. CASE j < i
    <3>1. j \in 1..i - 1 /\ j <= Len(a) /\ j \in 1..Len(a) + Len(b)
      BY <1>1, <1>8, <2>1
    <3>2. (a \o b)[j] = a[j] /\ a[j] = s[j]
      BY <1>3, <1>5, <1>7, <3>1
    <3> QED  BY <2>1, <3>2
  <2>2. CASE i <= j
    <3>1. j - (i - 1) \in 1..n - i
      BY <1>1, <2>2
    <3>2. b[j - (i - 1)] = s[i + (j - (i - 1))]
      BY <1>4, <1>5, <3>1
    <3>3. i + (j - (i - 1)) = j + 1 /\ ~(j < i)
      BY <1>1, <2>2
    <3>4. j \in 1..Len(a) + Len(b) /\ ~(j <= Len(a)) /\ j - Len(a) = j - (i - 1)
      BY <1>1, <1>8, <2>2
    <3>5. (a \o b)[j] = b[j - (i - 1)]
      BY <1>7, <3>4
    <3> QED  BY <3>2, <3>3, <3>5
  <2>3. j < i \/ i <= j
    BY <1>1
  <2> QED  BY <2>1, <2>2, <2>3
<1>10. QED
  BY <1>1, <1>6, <1>7, <1>8, <1>9

\* A function on 1..n is a list of length n.
LEMMA ListIs ==
  ASSUME NEW T, NEW n \in Nat, NEW c \in [1..n -> T]
  PROVE  c \in Seq(T) /\ Len(c) = n
<1>1. c \in Seq(T)
  BY SeqDef
<1>2. Len(c) \in Nat /\ 1..Len(c) = 1..n
  BY <1>1, LenProperties
<1>3. Len(c) = n
  <2>1. Len(c) <= n
    <3>1. Len(c) > 0 => Len(c) \in 1..n
      BY <1>2
    <3> QED  BY <1>2, <3>1
  <2>2. n <= Len(c)
    <3>1. n > 0 => n \in 1..Len(c)
      BY <1>2
    <3> QED  BY <1>2, <3>1
  <2> QED  BY <1>2, <2>1, <2>2
<1> QED  BY <1>1, <1>3

(***************************************************************************)
(* The scanners (VulnConnectors)                                           *)
(***************************************************************************)

VulnCodes == {0, 200, 404, 502}

VulnPhases == {"idle", "findings", "token", "ids", "summaries"} \cup
              {"devices", "device_token", "device_ids", "details", "done"}

\* The ids and hosts of answers: what scanners report, and what the mock lists hold.
AnswerIds   == {f.id : f \in Reports} \cup ((0..9) \X (0..2)) \cup (1..8)
AnswerHosts == Hosts \cup {f.host : f \in Reports} \cup (1..5)
Found       == [id : AnswerIds, host : AnswerHosts, severity : -1..4]
ToldOf      == {VulnFindingToEvidence(f) : f \in Found}
                 \cup {EndpointDeviceToEvidence(d) : d \in AnswerHosts}

Scanners == [devices : Seq(Hosts), findings : Seq(Reports), moves : Nat]
VulnRequests ==
  [provider : Providers \cup Registered, route : Routes, mock : BOOLEAN, phase : VulnPhases,
   ids : Seq(AnswerIds \cup AnswerHosts), findings : Seq(Found), devices : Seq(AnswerHosts),
   evidence : Seq(ToldOf), status : VulnCodes, calm : BOOLEAN]

IdsDiffer(s) == \A i, j \in 1..Len(s) : s[i].id = s[j].id => i = j
AllDiffer(s) == \A i, j \in 1..Len(s) : s[i] = s[j] => i = j

\* A scanner lists no device twice.
ScannerOK(sc) == AllDiffer(sc.devices)

\* What a request holds, whatever the scanner did meanwhile.
RequestOK(r) ==
  /\ AllDiffer(r.devices)
  /\ r.evidence = IF r.status = 200 /\ r.route = "evidence"
                  THEN VulnEvidence(r.findings, r.devices) ELSE <<>>
  /\ r.phase # "done" => r.status = 0 /\ r.devices = <<>>
  /\ (r.status = 200 /\ r.mock /\ r.route = "evidence") =>
       r.findings = MockFindings(r.provider) /\ r.devices = MockEndpoints(r.provider)

\* What it holds of a scanner that has not moved, phase by phase: the findings are
\* as many as a page and repeat no id of their own, the ids and devices are the page.
WholeOf(fs, sc) == /\ IdsDiffer(sc.findings) => IdsDiffer(fs)
                   /\ Len(fs) >= Len(FirstOf(sc.findings))
IdsOf(fs) == [i \in DOMAIN fs |-> fs[i].id]

Fetched(r, sc) ==
  (r.route = "evidence" /\ r.calm /\ ~r.mock) =>
    /\ r.phase = "summaries" => r.ids = IdsOf(FirstOf(sc.findings))
    /\ r.phase \in {"devices", "device_token", "device_ids", "details"} => WholeOf(r.findings, sc)
    /\ r.phase = "details" => r.ids = FirstOf(sc.devices)
    /\ r.status = 200 => WholeOf(r.findings, sc) /\ r.devices = FirstOf(sc.devices)

VulnInv == /\ scanner \in Scanners /\ vreq \in VulnRequests
           /\ ScannerOK(scanner) /\ RequestOK(vreq) /\ Fetched(vreq, scanner)

LEMMA MinOfTwo ==
  ASSUME NEW a \in Int, NEW b \in Int
  PROVE  Min({a, b}) = IF a <= b THEN a ELSE b
<1> DEFINE m == IF a <= b THEN a ELSE b
<1>1. m \in {a, b} /\ \A y \in {a, b} : m <= y
  OBVIOUS
<1>2. ASSUME NEW x \in {a, b}, \A y \in {a, b} : x <= y PROVE x = m
  BY <1>2
<1> HIDE DEF m
<1>3. Min({a, b}) = m
  BY <1>1, <1>2 DEF Min
<1> QED  BY <1>3 DEF m

\* A page is the list itself or its first DefaultPage elements.
LEMMA PageFacts ==
  ASSUME NEW T, NEW s \in Seq(T)
  PROVE  /\ FirstOf(s) \in Seq(T)
         /\ Len(FirstOf(s)) = IF Len(s) <= DefaultPage THEN Len(s) ELSE DefaultPage
         /\ Len(FirstOf(s)) \in 0..Len(s)
         /\ FirstOf(s) = SubSeq(s, 1, Len(FirstOf(s)))
         /\ \A i \in 1..Len(FirstOf(s)) : FirstOf(s)[i] = s[i]
         /\ Len(s) <= DefaultPage => FirstOf(s) = s
<1>1. PICK len \in Nat : len = Len(s)
  BY LenProperties
<1>2. EffectiveLimit(0) = DefaultPage /\ DefaultPage \in Nat
  BY ScannerAssumption DEF EffectiveLimit
<1>3. PICK n : n = IF len <= DefaultPage THEN len ELSE DefaultPage
  OBVIOUS
<1>4. n \in 0..len
  BY <1>2, <1>3
<1>5. Min({Len(s), EffectiveLimit(0)}) = n
  BY <1>1, <1>2, <1>3, MinOfTwo
<1>6. FirstOf(s) = SubSeq(s, 1, n)
  BY <1>5 DEF FirstOf
<1>7. \A i \in 1..n : s[i] \in T
  BY <1>1, <1>4, ElementOfSeq
<1>8. /\ SubSeq(s, 1, n) \in Seq(T) /\ Len(SubSeq(s, 1, n)) = n
      /\ \A i \in 1..n : SubSeq(s, 1, n)[i] = s[i]
  BY <1>4, <1>7, SubSeqProperties
<1>9. Len(s) <= DefaultPage => FirstOf(s) = s
  BY <1>1, <1>3, <1>6, SubSeqFull
<1>10. QED
  BY <1>1, <1>3, <1>4, <1>6, <1>8, <1>9

\* The items of an answer: one for each finding, then one for each device.
LEMMA EvidenceItems ==
  ASSUME NEW fs \in Seq(Found), NEW ds \in Seq(AnswerHosts)
  PROVE  /\ VulnEvidence(fs, ds) \in Seq(ToldOf)
         /\ Len(VulnEvidence(fs, ds)) = Len(fs) + Len(ds)
         /\ \A i \in 1..Len(fs) : VulnEvidence(fs, ds)[i] = VulnFindingToEvidence(fs[i])
         /\ \A i \in 1..Len(ds) :
              VulnEvidence(fs, ds)[Len(fs) + i] = EndpointDeviceToEvidence(ds[i])
<1>1. PICK n \in Nat, m \in Nat : n = Len(fs) /\ m = Len(ds) /\ DOMAIN fs = 1..n /\ DOMAIN ds = 1..m
  BY LenProperties
<1>2. PICK a : a = [i \in DOMAIN fs |-> VulnFindingToEvidence(fs[i])]
  OBVIOUS
<1>3. PICK b : b = [i \in DOMAIN ds |-> EndpointDeviceToEvidence(ds[i])]
  OBVIOUS
<1>4. a \in Seq(ToldOf) /\ Len(a) = n
  <2>1. \A i \in 1..n : VulnFindingToEvidence(fs[i]) \in ToldOf
    BY <1>1, ElementOfSeq DEF ToldOf
  <2> QED  BY <1>1, <1>2, <2>1
<1>5. b \in Seq(ToldOf) /\ Len(b) = m
  <2>1. \A i \in 1..m : EndpointDeviceToEvidence(ds[i]) \in ToldOf
    BY <1>1, ElementOfSeq DEF ToldOf
  <2> QED  BY <1>1, <1>3, <2>1
<1>6. /\ a \o b \in Seq(ToldOf) /\ Len(a \o b) = n + m
      /\ \A i \in 1..n + m : (a \o b)[i] = IF i <= n THEN a[i] ELSE b[i - n]
  BY <1>4, <1>5, ConcatProperties
<1>7. VulnEvidence(fs, ds) = a \o b
  BY <1>2, <1>3 DEF VulnEvidence
<1>8. ASSUME NEW i \in 1..n PROVE (a \o b)[i] = VulnFindingToEvidence(fs[i])
  BY <1>1, <1>2, <1>6
<1>9. ASSUME NEW i \in 1..m PROVE (a \o b)[n + i] = EndpointDeviceToEvidence(ds[i])
  <2>1. n + i \in 1..n + m /\ ~(n + i <= n) /\ (n + i) - n = i
    OBVIOUS
  <2> QED  BY <1>1, <1>3, <1>6, <2>1
<1>10. QED
  BY <1>1, <1>6, <1>7, <1>8, <1>9

\* What is collected by position lists nothing twice if the list does not.
LEMMA KeptDiffer ==
  ASSUME NEW T, NEW s \in Seq(T), NEW P \in SUBSET (1..Len(s))
  PROVE  /\ AllDiffer(s) => AllDiffer(Filtered(s, P))
         /\ IdsDiffer(s) => IdsDiffer(Filtered(s, P))
<1>1. /\ Len(Filtered(s, P)) = Cardinality(P)
      /\ \A k \in 1..Cardinality(P) : Nth(P, k) \in P /\ Filtered(s, P)[k] = s[Nth(P, k)]
      /\ \A j, k \in 1..Cardinality(P) : Nth(P, j) = Nth(P, k) => j = k
  BY KeptFacts
<1>2. \A k \in 1..Cardinality(P) : Nth(P, k) \in 1..Len(s)
  BY <1>1
<1>3. AllDiffer(s) => AllDiffer(Filtered(s, P))
  BY <1>1, <1>2 DEF AllDiffer
<1>4. IdsDiffer(s) => IdsDiffer(Filtered(s, P))
  BY <1>1, <1>2 DEF IdsDiffer
<1> QED  BY <1>3, <1>4

LEMMA PageDiffer ==
  ASSUME NEW T, NEW s \in Seq(T)
  PROVE  /\ AllDiffer(s) => AllDiffer(FirstOf(s))
         /\ IdsDiffer(s) => IdsDiffer(FirstOf(s))
<1>1. PICK n \in 0..Len(s) : n = Len(FirstOf(s)) /\ \A i \in 1..n : FirstOf(s)[i] = s[i]
  BY PageFacts
<1>2. Len(s) \in Nat
  BY LenProperties
<1>3. \A i \in 1..n : i \in 1..Len(s)
  BY <1>2
<1> QED  BY <1>1, <1>3 DEF AllDiffer, IdsDiffer

(* Severities and what the mock lists hold. *)

LEMMA CVSS3Rates ==
  ASSUME NEW x \in Int, NEW y \in Int
  PROVE  /\ NormalizeCVSS3(x) \in 0..4
         /\ NormalizeCVSS3(x) = 0 <=> x <= 0
         /\ x <= y => NormalizeCVSS3(x) <= NormalizeCVSS3(y)
  BY DEF NormalizeCVSS3

LEMMA SeverityTypes ==
  ASSUME NEW f
  PROVE  /\ NormalizeSeverityLabel(f.label) \in -1..4
         /\ f.cvss3 \in Int => QualysSeverity(f) \in -1..4 /\ TenableSeverity(f) \in -1..4
<1>1. NormalizeSeverityLabel(f.label) \in -1..4
  BY DEF NormalizeSeverityLabel
<1>2. ASSUME f.cvss3 \in Int PROVE QualysSeverity(f) \in -1..4
  <2>1. NormalizeCVSS3(f.cvss3) \in -1..4
    BY <1>2, CVSS3Rates
  <2>2. NormalizeCVSS2(f.cvss2) \in -1..4
    BY DEF NormalizeCVSS2
  <2> QED  BY <1>1, <2>1, <2>2 DEF QualysSeverity
<1>3. ASSUME f.cvss3 \in Int PROVE TenableSeverity(f) \in -1..4
  <2>1. NormalizeCVSS3(f.cvss3) \in -1..4
    BY <1>3, CVSS3Rates
  <2>2. TenableSeverityFromInt(f.label) \in -1..4
    BY DEF TenableSeverityFromInt
  <2> QED  BY <2>1, <2>2 DEF TenableSeverity
<1> QED  BY <1>1, <1>2, <1>3

LEMMA CrossedIs ==
  ASSUME NEW scores \in Seq(Int), Len(scores) = 10
  PROVE  /\ Crossed(scores, 3) \in Seq(Found) /\ Len(Crossed(scores, 3)) = 10
         /\ \A i \in 1..10 : /\ Crossed(scores, 3)[i].id = <<i - 1, (i - 1) % 3>>
                             /\ Crossed(scores, 3)[i].host \in 1..3
<1>1. Min({MockPage, Len(scores) * 3}) = 10
  BY MinOfTwo DEF MockPage
<1>2. PICK n : n = 10
  OBVIOUS
<1>3. ASSUME NEW i \in 1..n
      PROVE  (i - 1) % n = i - 1 /\ (i - 1) % 3 \in 0..2 /\ i - 1 \in 0..9 /\ (i - 1) + 1 = i
  BY <1>2
<1>4. PICK c : c = Crossed(scores, 3)
  OBVIOUS
<1>5. c = [i \in 1..n |->
         [id |-> <<(i - 1) % n, (i - 1) % 3>>, host |-> ((i - 1) % 3) + 1,
          severity |-> NormalizeCVSS3(scores[((i - 1) % n) + 1])]]
  BY <1>1, <1>2, <1>4 DEF Crossed
<1>6. ASSUME NEW i \in 1..n
      PROVE  c[i].id = <<i - 1, (i - 1) % 3>> /\ c[i].host \in 1..3 /\ c[i] \in Found
  <2>1. scores[((i - 1) % n) + 1] \in Int
    BY <1>2, <1>3, ElementOfSeq
  <2>2. PICK h \in 0..2, v \in -1..4 : h = (i - 1) % 3 /\ v = NormalizeCVSS3(scores[((i - 1) % n) + 1])
    BY <1>3, <2>1, CVSS3Rates
  <2>3. PICK d : d = <<i - 1, h>>
    OBVIOUS
  <2>4. c[i] = [id |-> d, host |-> h + 1, severity |-> v]
    BY <1>3, <1>5, <2>2, <2>3
  <2>5. d \in AnswerIds
    BY <1>3, <2>3 DEF AnswerIds
  <2>6. h + 1 \in AnswerHosts
    BY DEF AnswerHosts
  <2> QED  BY <2>2, <2>3, <2>4, <2>5, <2>6 DEF Found
<1>7. c \in Seq(Found) /\ Len(c) = n
  <2>1. n \in Nat
    BY <1>2
  <2>2. c \in [1..n -> Found]
    BY <1>5, <1>6
  <2> QED  BY <2>1, <2>2, ListIs
<1>8. QED
  BY <1>2, <1>4, <1>6, <1>7

\* The lists of the mock name no id twice and no host that is not listed, though
\* their findings walk two lists at once (fetchVulnsMock of the three connectors).
LEMMA MockFacts ==
  ASSUME NEW p
  PROVE  /\ MockFindings(p) \in Seq(Found) /\ IdsDiffer(MockFindings(p))
         /\ MockEndpoints(p) \in Seq(AnswerHosts) /\ AllDiffer(MockEndpoints(p))
         /\ \A i \in 1..Len(MockFindings(p)) : \E k \in 1..Len(MockEndpoints(p)) :
              MockEndpoints(p)[k] = MockFindings(p)[i].host
<1>1. ASSUME NEW scores \in Seq(Int), Len(scores) = 10, NEW fs, fs = Crossed(scores, 3)
      PROVE  /\ fs \in Seq(Found) /\ IdsDiffer(fs)
             /\ \A i \in 1..Len(fs) : fs[i].host \in 1..4
  <2>1. /\ fs \in Seq(Found) /\ Len(fs) = 10
        /\ \A i \in 1..10 : fs[i].id = <<i - 1, (i - 1) % 3>> /\ fs[i].host \in 1..3
    BY <1>1, CrossedIs
  <2>2. ASSUME NEW i \in 1..10, NEW j \in 1..10, fs[i].id = fs[j].id PROVE i = j
    <3>1. <<i - 1, (i - 1) % 3>> = <<j - 1, (j - 1) % 3>>
      BY <2>1, <2>2
    <3>2. i - 1 = j - 1
      BY <3>1
    <3> QED  BY <3>2
  <2>3. IdsDiffer(fs)
    BY <2>1, <2>2 DEF IdsDiffer
  <2> QED  BY <2>1, <2>3
<1>2. ASSUME NEW n \in 4..5, NEW ds, ds = [i \in 1..n |-> i]
      PROVE  /\ ds \in Seq(AnswerHosts) /\ AllDiffer(ds)
             /\ \A h \in 1..n : \E k \in 1..Len(ds) : ds[k] = h
  <2>1. \A i \in 1..n : i \in AnswerHosts
    BY DEF AnswerHosts
  <2>2. ds \in Seq(AnswerHosts) /\ Len(ds) = n
    BY <1>2, <2>1
  <2> QED  BY <1>2, <2>2 DEF AllDiffer
<1>3. CASE p = "qualys"
  <2>1. PICK scores : scores = <<98, 100, 53, 81, 40, 75, 91, 78, 50, 37>>
    OBVIOUS
  <2>2. scores \in Seq(Int) /\ Len(scores) = 10
    BY <2>1
  <2>3. MockFindings(p) = Crossed(scores, 3)
    BY <1>3, <2>1 DEF MockFindings, QualysMock
  <2>4. MockEndpoints(p) = [i \in 1..4 |-> i]
    BY <1>3 DEF MockEndpoints, QualysHostsMock
  <2>5. /\ MockFindings(p) \in Seq(Found) /\ IdsDiffer(MockFindings(p))
        /\ \A i \in 1..Len(MockFindings(p)) : MockFindings(p)[i].host \in 1..4
    BY <1>1, <2>2, <2>3
  <2>6. /\ MockEndpoints(p) \in Seq(AnswerHosts) /\ AllDiffer(MockEndpoints(p))
        /\ \A h \in 1..4 : \E k \in 1..Len(MockEndpoints(p)) : MockEndpoints(p)[k] = h
    BY <1>2, <2>4, 4 \in 4..5
  <2> QED  BY <2>5, <2>6
<1>4. CASE p = "tenable"
  <2>1. PICK scores : scores = <<98, 91, 0, 58, 53, 53, 88, 53, 98, 67>>
    OBVIOUS
  <2>2. scores \in Seq(Int) /\ Len(scores) = 10
    BY <2>1
  <2>3. MockFindings(p) = Crossed(scores, 3)
    BY <1>4, <2>1 DEF MockFindings, TenableMock
  <2>4. MockEndpoints(p) = [i \in 1..4 |-> i]
    BY <1>4 DEF MockEndpoints, TenableAssetsMock
  <2>5. /\ MockFindings(p) \in Seq(Found) /\ IdsDiffer(MockFindings(p))
        /\ \A i \in 1..Len(MockFindings(p)) : MockFindings(p)[i].host \in 1..4
    BY <1>1, <2>2, <2>3
  <2>6. /\ MockEndpoints(p) \in Seq(AnswerHosts) /\ AllDiffer(MockEndpoints(p))
        /\ \A h \in 1..4 : \E k \in 1..Len(MockEndpoints(p)) : MockEndpoints(p)[k] = h
    BY <1>2, <2>4, 4 \in 4..5
  <2> QED  BY <2>5, <2>6
<1>5. CASE p # "qualys" /\ p # "tenable"
  <2>1. PICK hosts : hosts = <<1, 2, 1, 4, 2, 3, 5, 1>>
    OBVIOUS
  <2>2. PICK levels : levels = <<4, 3, 3, 2, 2, 1, 4, 3>>
    OBVIOUS
  <2>3. PICK n \in Nat : n = 8
    OBVIOUS
  <2>4. DOMAIN hosts = 1..n /\ \A i \in 1..n : hosts[i] \in 1..5 /\ levels[i] \in -1..4
    BY <2>1, <2>2, <2>3
  <2>5. PICK events : events = CrowdStrikeDetections
    OBVIOUS
  <2>6. events = [i \in 1..n |-> [id |-> i, hosts |-> <<hosts[i]>>, severity |-> levels[i]]]
    BY <2>1, <2>2, <2>4, <2>5 DEF CrowdStrikeDetections
  <2>7. PICK fs : fs = EventsToFindings(events)
    OBVIOUS
  <2>8. fs = [i \in 1..n |-> [id |-> i, host |-> hosts[i], severity |-> levels[i]]]
    BY <2>6, <2>7 DEF EventsToFindings
  <2>9. MockFindings(p) = fs
    BY <1>5, <2>5, <2>7 DEF MockFindings
  <2>10. ASSUME NEW i \in 1..n PROVE fs[i] \in Found
    BY <2>3, <2>4, <2>8 DEF Found, AnswerIds, AnswerHosts
  <2>11. fs \in Seq(Found) /\ Len(fs) = n
    BY <2>8, <2>10
  <2>12. IdsDiffer(fs)
    BY <2>8, <2>11 DEF IdsDiffer
  <2>13. \A i \in 1..Len(fs) : fs[i].host \in 1..5
    BY <2>4, <2>8, <2>11
  <2>14. MockEndpoints(p) = [i \in 1..5 |-> i]
    BY <1>5 DEF MockEndpoints, CrowdStrikeDevicesMock
  <2>15. /\ MockEndpoints(p) \in Seq(AnswerHosts) /\ AllDiffer(MockEndpoints(p))
         /\ \A h \in 1..5 : \E k \in 1..Len(MockEndpoints(p)) : MockEndpoints(p)[k] = h
    BY <1>2, <2>14, 5 \in 4..5
  <2> QED  BY <2>9, <2>11, <2>12, <2>13, <2>15
<1>6. QED
  BY <1>3, <1>4, <1>5

\* A request stays one whatever its fields are set to, each of its own kind.
LEMMA ChangedRequest ==
  ASSUME NEW r \in VulnRequests
  PROVE  /\ \A ph \in VulnPhases : [r EXCEPT !.phase = ph] \in VulnRequests
         /\ \A ph \in VulnPhases, ids \in Seq(AnswerIds \cup AnswerHosts) :
              [r EXCEPT !.phase = ph, !.ids = ids] \in VulnRequests
         /\ \A fs \in Seq(Found), ids \in Seq(AnswerIds \cup AnswerHosts) :
              [r EXCEPT !.findings = fs, !.ids = ids] \in VulnRequests
         /\ \A fs \in Seq(Found), ds \in Seq(AnswerHosts) :
              [r EXCEPT !.findings = fs, !.devices = ds] \in VulnRequests
         /\ \A ds \in Seq(AnswerHosts) : [r EXCEPT !.devices = ds] \in VulnRequests
         /\ \A ids \in Seq(AnswerIds \cup AnswerHosts), es \in Seq(ToldOf) :
              [r EXCEPT !.phase = "done", !.status = 200, !.ids = ids, !.evidence = es] \in VulnRequests
         /\ \A c \in BOOLEAN : [r EXCEPT !.calm = c] \in VulnRequests
<1> DEFINE P == Providers \cup Registered
           H == VulnPhases
           I == Seq(AnswerIds \cup AnswerHosts)
           F == Seq(Found)
           D == Seq(AnswerHosts)
           E == Seq(ToldOf)
           S == VulnCodes
<1>2. VulnRequests = [provider : P, route : Routes, mock : BOOLEAN, phase : H, ids : I,
                      findings : F, devices : D, evidence : E, status : S, calm : BOOLEAN]
  BY DEF VulnRequests
<1>3. "done" \in H /\ 200 \in S
  BY DEF VulnPhases, VulnCodes
<1> HIDE DEF P, H, I, F, D, E, S
<1>4. \A ph \in H : [r EXCEPT !.phase = ph] \in VulnRequests
  BY <1>2
<1>5. ASSUME NEW ph \in H, NEW ids \in I
      PROVE  [r EXCEPT !.phase = ph, !.ids = ids] \in VulnRequests
  BY <1>2
<1>6. ASSUME NEW fs \in F, NEW ids \in I
      PROVE  [r EXCEPT !.findings = fs, !.ids = ids] \in VulnRequests
  BY <1>2
<1>7. ASSUME NEW fs \in F, NEW ds \in D
      PROVE  [r EXCEPT !.findings = fs, !.devices = ds] \in VulnRequests
  BY <1>2
<1>8. \A ds \in D : [r EXCEPT !.devices = ds] \in VulnRequests
  BY <1>2
<1>9. ASSUME NEW ids \in I, NEW es \in E
      PROVE  [r EXCEPT !.phase = "done", !.status = 200, !.ids = ids, !.evidence = es] \in VulnRequests
  BY <1>2, <1>3
<1>10. \A c \in BOOLEAN : [r EXCEPT !.calm = c] \in VulnRequests
  BY <1>2
<1>11. QED
  BY <1>4, <1>5, <1>6, <1>7, <1>8, <1>9, <1>10, Zenon DEF P, H, I, F, D, E, S

\* Setting a field to what it is changes nothing.
LEMMA UnchangedRequest ==
  ASSUME NEW r \in VulnRequests, NEW ph
  PROVE  /\ [r EXCEPT !.devices = r.devices] = r
         /\ [r EXCEPT !.phase = ph, !.ids = r.ids] = [r EXCEPT !.phase = ph]
<1> DEFINE P == Providers \cup Registered
           H == VulnPhases
           I == Seq(AnswerIds \cup AnswerHosts)
           F == Seq(Found)
           D == Seq(AnswerHosts)
           E == Seq(ToldOf)
           S == VulnCodes
<1>1. r \in [provider : P, route : Routes, mock : BOOLEAN, phase : H, ids : I,
             findings : F, devices : D, evidence : E, status : S, calm : BOOLEAN]
  BY DEF VulnRequests
<1> HIDE DEF P, H, I, F, D, E, S
<1> QED  BY <1>1

LEMMA FailedRequest ==
  ASSUME NEW r \in VulnRequests, NEW e,
         e \in Seq(AnswerIds \cup AnswerHosts) /\ e \in Seq(Found) /\ e \in Seq(AnswerHosts)
  PROVE  [r EXCEPT !.phase = "done", !.status = 502, !.ids = e,
                   !.findings = e, !.devices = e] \in VulnRequests
<1> DEFINE P == Providers \cup Registered
           H == VulnPhases
           I == Seq(AnswerIds \cup AnswerHosts)
           F == Seq(Found)
           D == Seq(AnswerHosts)
           E == Seq(ToldOf)
           S == VulnCodes
<1>1. VulnRequests = [provider : P, route : Routes, mock : BOOLEAN, phase : H, ids : I,
                      findings : F, devices : D, evidence : E, status : S, calm : BOOLEAN]
  BY DEF VulnRequests
<1>2. PICK h \in H, s \in S : h = "done" /\ s = 502
  BY DEF VulnPhases, VulnCodes
<1>3. e \in I /\ e \in F /\ e \in D
  OBVIOUS
<1> HIDE DEF P, H, I, F, D, E, S
<1>4. [r EXCEPT !.phase = h, !.status = s, !.ids = e, !.findings = e, !.devices = e]
        \in VulnRequests
  BY <1>1, <1>3
<1> QED  BY <1>2, <1>4

\* A request that ends with what it has: its answer is made of it.
LEMMA DoneFits ==
  ASSUME NEW r \in VulnRequests, NEW sc,
         AllDiffer(r.devices),
         (r.mock /\ r.route = "evidence") =>
           r.findings = MockFindings(r.provider) /\ r.devices = MockEndpoints(r.provider),
         (r.route = "evidence" /\ r.calm /\ ~r.mock) =>
           WholeOf(r.findings, sc) /\ r.devices = FirstOf(sc.devices)
  PROVE  Done(r) \in VulnRequests /\ RequestOK(Done(r)) /\ Fetched(Done(r), sc)
<1>1. PICK es : es = IF r.route = "evidence" THEN VulnEvidence(r.findings, r.devices) ELSE <<>>
  OBVIOUS
<1>2. es \in Seq(ToldOf)
  <2>1. r.findings \in Seq(Found) /\ r.devices \in Seq(AnswerHosts)
    BY DEF VulnRequests
  <2>2. VulnEvidence(r.findings, r.devices) \in Seq(ToldOf)
    BY <2>1, EvidenceItems
  <2> QED  BY <1>1, <2>2
<1>3. PICK d : d = Done(r)
  OBVIOUS
<1>4. d = [r EXCEPT !.phase = "done", !.status = 200, !.ids = <<>>, !.evidence = es]
  BY <1>1, <1>3 DEF Done
<1>5. /\ d.phase = "done" /\ d.status = 200 /\ d.ids = <<>> /\ d.evidence = es
      /\ d.provider = r.provider /\ d.route = r.route /\ d.mock = r.mock /\ d.calm = r.calm
      /\ d.findings = r.findings /\ d.devices = r.devices
  BY <1>4 DEF VulnRequests
<1>6. d \in VulnRequests
  <2>1. "done" \in VulnPhases /\ <<>> \in Seq(AnswerIds \cup AnswerHosts)
    BY DEF VulnPhases
  <2> QED  BY <1>2, <1>4, <2>1, ChangedRequest
<1>7. RequestOK(d)
  BY <1>1, <1>5 DEF RequestOK
<1>8. Fetched(d, sc)
  BY <1>5 DEF Fetched
<1> QED  BY <1>3, <1>6, <1>7, <1>8

\* The findings are in: the request ends, or goes on to the devices.
LEMMA FindingsFit ==
  ASSUME VulnInv, vreq.phase \notin {"idle", "done"}, ~vreq.mock,
         NEW fs \in Seq(Found),
         (vreq.route = "evidence" /\ vreq.calm) => WholeOf(fs, scanner),
         UNCHANGED scanner, vreq' = AfterFindings(fs)
  PROVE  VulnInv'
<1>1. PICK r \in VulnRequests, sc \in Scanners : r = vreq /\ sc = scanner
  BY DEF VulnInv
<1>2. /\ ScannerOK(sc) /\ RequestOK(r) /\ ~r.mock /\ r.phase # "done"
      /\ (r.route = "evidence" /\ r.calm) => WholeOf(fs, sc)
  BY <1>1 DEF VulnInv
<1>3. r.devices = <<>> /\ r.status = 0 /\ AllDiffer(<<>>) /\ r.evidence = <<>>
  BY <1>2 DEF RequestOK, AllDiffer
<1>4. PICK q : q = [r EXCEPT !.findings = fs, !.ids = <<>>]
  OBVIOUS
<1>5. q \in VulnRequests
  <2>1. <<>> \in Seq(AnswerIds \cup AnswerHosts)
    OBVIOUS
  <2> QED  BY <1>4, <2>1, ChangedRequest
<1>6. /\ q.findings = fs /\ q.ids = <<>> /\ q.devices = r.devices /\ q.status = r.status
      /\ q.provider = r.provider /\ q.route = r.route /\ q.mock = r.mock /\ q.calm = r.calm
      /\ q.evidence = r.evidence
  BY <1>4 DEF VulnRequests
<1>7. vreq' = IF q.route = "vulnerabilities" THEN Done(q)
              ELSE [q EXCEPT !.phase = FirstPhase(q.provider, "endpoints")]
  BY <1>1, <1>4, <1>6 DEF AfterFindings
<1>8. CASE q.route = "vulnerabilities"
  <2>1. q.mock = FALSE /\ AllDiffer(q.devices) /\ q.route # "evidence"
    BY <1>2, <1>3, <1>6, <1>8 DEF VulnRequests
  <2>2. Done(q) \in VulnRequests /\ RequestOK(Done(q)) /\ Fetched(Done(q), sc)
    BY <1>5, <2>1, DoneFits
  <2> QED  BY <1>1, <1>2, <1>7, <1>8, <2>2 DEF VulnInv
<1>9. CASE q.route # "vulnerabilities"
  <2>1. PICK ph : ph = FirstPhase(q.provider, "endpoints")
    OBVIOUS
  <2>2. ph \in {"devices", "device_token"}
    BY <2>1 DEF FirstPhase
  <2>3. PICK d : d = [q EXCEPT !.phase = ph]
    OBVIOUS
  <2>4. /\ d.phase = ph /\ d.ids = <<>> /\ d.evidence = <<>> /\ d.findings = fs
        /\ d.devices = <<>> /\ d.status = 0 /\ d.route = r.route /\ d.mock = r.mock
        /\ d.calm = r.calm
    BY <1>3, <1>5, <1>6, <2>3 DEF VulnRequests
  <2>5. d \in VulnRequests
    <3>1. ph \in VulnPhases
      BY <2>2 DEF VulnPhases
    <3> QED  BY <1>5, <2>3, <3>1, ChangedRequest
  <2>6. RequestOK(d)
    BY <1>3, <2>2, <2>4 DEF RequestOK
  <2>7. Fetched(d, sc)
    BY <1>2, <2>2, <2>4 DEF Fetched
  <2> QED  BY <1>1, <1>2, <1>7, <1>9, <2>1, <2>3, <2>5, <2>6, <2>7 DEF VulnInv
<1> QED  BY <1>8, <1>9

\* The devices are in: the request ends.
LEMMA DevicesFit ==
  ASSUME VulnInv, vreq.phase \in {"devices", "device_ids", "details"}, ~vreq.mock,
         NEW ds \in Seq(AnswerHosts), AllDiffer(ds),
         (vreq.route = "evidence" /\ vreq.calm) => ds = FirstOf(scanner.devices),
         UNCHANGED scanner, vreq' = Done([vreq EXCEPT !.devices = ds])
  PROVE  VulnInv'
<1>1. PICK r \in VulnRequests, sc \in Scanners : r = vreq /\ sc = scanner
  BY DEF VulnInv
<1>2. /\ ScannerOK(sc) /\ RequestOK(r) /\ Fetched(r, sc) /\ ~r.mock
      /\ r.phase \in {"devices", "device_ids", "details"}
      /\ (r.route = "evidence" /\ r.calm) => ds = FirstOf(sc.devices)
  BY <1>1 DEF VulnInv
<1>3. PICK q : q = [r EXCEPT !.devices = ds]
  OBVIOUS
<1>4. q \in VulnRequests
  BY <1>3, ChangedRequest
<1>5. /\ q.findings = r.findings /\ q.devices = ds
      /\ q.route = r.route /\ q.mock = r.mock /\ q.calm = r.calm
  BY <1>3 DEF VulnRequests
<1>6. (q.route = "evidence" /\ q.calm /\ ~q.mock) =>
        WholeOf(q.findings, sc) /\ q.devices = FirstOf(sc.devices)
  BY <1>2, <1>5 DEF Fetched
<1>7. AllDiffer(q.devices) /\ ~q.mock
  BY <1>2, <1>5 DEF RequestOK
<1>8. Done(q) \in VulnRequests /\ RequestOK(Done(q)) /\ Fetched(Done(q), sc)
  BY <1>4, <1>6, <1>7, DoneFits
<1> QED  BY <1>1, <1>2, <1>3, <1>8 DEF VulnInv

\* A call that only brings the ids of a page, or a token.
LEMMA IdsFit ==
  ASSUME VulnInv, vreq.phase \notin {"idle", "done"}, ~vreq.mock,
         NEW ph \in {"ids", "device_ids", "summaries", "details"},
         NEW ids \in Seq(AnswerIds \cup AnswerHosts),
         ph \in {"device_ids", "details"} => vreq.phase \in {"device_token", "device_ids"},
         ph = "summaries" => ids = IdsOf(FirstOf(scanner.findings)),
         ph = "details" => ids = FirstOf(scanner.devices),
         UNCHANGED scanner, vreq' = [vreq EXCEPT !.phase = ph, !.ids = ids]
  PROVE  VulnInv'
<1>1. PICK r \in VulnRequests, sc \in Scanners : r = vreq /\ sc = scanner
  BY DEF VulnInv
<1>2. /\ ScannerOK(sc) /\ RequestOK(r) /\ Fetched(r, sc) /\ ~r.mock /\ r.phase # "done"
      /\ ph \in {"device_ids", "details"} => r.phase \in {"device_token", "device_ids"}
      /\ ph = "summaries" => ids = IdsOf(FirstOf(sc.findings))
      /\ ph = "details" => ids = FirstOf(sc.devices)
  BY <1>1 DEF VulnInv
<1>3. PICK q : q = [r EXCEPT !.phase = ph, !.ids = ids]
  OBVIOUS
<1>4. /\ q.phase = ph /\ q.ids = ids /\ q.findings = r.findings /\ q.devices = r.devices
      /\ q.route = r.route /\ q.mock = r.mock /\ q.calm = r.calm
      /\ q.evidence = r.evidence /\ q.status = r.status
  BY <1>3 DEF VulnRequests
<1>5. q \in VulnRequests
  <2>1. ph \in VulnPhases
    BY DEF VulnPhases
  <2> QED  BY <1>3, <2>1, ChangedRequest
<1>6. RequestOK(q)
  BY <1>2, <1>4 DEF RequestOK
<1>7. Fetched(q, sc)
  BY <1>2, <1>4 DEF Fetched, RequestOK
<1> QED  BY <1>1, <1>2, <1>3, <1>5, <1>6, <1>7 DEF VulnInv

\* A fetch changes neither the id nor the host of a finding.
LEMMA NormalizedFacts ==
  ASSUME NEW p, NEW page \in Seq(Reports), NEW fs, fs = Normalized(p, page)
  PROVE  /\ fs \in Seq(Found) /\ Len(fs) = Len(page)
         /\ \A i \in 1..Len(page) : fs[i].id = page[i].id /\ fs[i].host = page[i].host
<1>1. PICK n \in Nat : n = Len(page) /\ DOMAIN page = 1..n
  BY LenProperties
<1>2. ASSUME NEW i \in 1..n
      PROVE  fs[i].id = page[i].id /\ fs[i].host = page[i].host /\ fs[i] \in Found
  <2>1. PICK f \in Reports : f = page[i]
    BY <1>1, ElementOfSeq
  <2>2. f.cvss3 \in Int
    BY ScannerAssumption
  <2>3. PICK v \in -1..4 : v = IF p = "qualys" THEN QualysSeverity(f) ELSE TenableSeverity(f)
    BY <2>2, SeverityTypes
  <2>4. fs[i] = [id |-> f.id, host |-> f.host, severity |-> v]
    BY <1>1, <2>1, <2>3 DEF Normalized
  <2>5. f.id \in AnswerIds /\ f.host \in AnswerHosts
    BY DEF AnswerIds, AnswerHosts
  <2> QED  BY <2>1, <2>4, <2>5 DEF Found
<1>3. fs \in [1..n -> Found]
  <2>1. fs = [i \in 1..n |-> fs[i]]
    BY <1>1 DEF Normalized
  <2> QED  BY <1>2, <2>1
<1>4. fs \in Seq(Found) /\ Len(fs) = n
  BY <1>3, ListIs
<1> QED  BY <1>1, <1>2, <1>4

LEMMA SameIds ==
  ASSUME NEW fs, NEW page, Len(fs) = Len(page),
         \A i \in 1..Len(page) : fs[i].id = page[i].id
  PROVE  IdsDiffer(page) => IdsDiffer(fs)
  BY DEF IdsDiffer

\* Qualys pages by hosts, so a page of it holds at least as many findings: one for
\* each of its hosts, or every finding there is (fetchVulnsFromAPI of qualys.go).
LEMMA QualysPageIsWhole ==
  ASSUME NEW sc \in Scanners, scanner = sc
  PROVE  /\ QualysPage \in Seq(Reports)
         /\ IdsDiffer(sc.findings) => IdsDiffer(QualysPage)
         /\ Len(QualysPage) >= Len(FirstOf(sc.findings))
<1>1. PICK F \in Seq(Reports) : F = sc.findings
  BY DEF Scanners
<1>2. PICK n \in Nat : n = Len(F) /\ DOMAIN F = 1..n
  BY LenProperties
<1>3. PICK D : D = [i \in 1..n |-> F[i].host]
  OBVIOUS
<1>3a. D \in Seq(AnswerHosts) /\ Len(D) = n /\ DOMAIN D = 1..n
  <2>1. \A i \in 1..n : F[i].host \in AnswerHosts
    BY <1>2, ElementOfSeq DEF AnswerHosts
  <2>2. D \in [1..n -> AnswerHosts]
    BY <1>3, <2>1
  <2> QED  BY <2>2, ListIs
<1>4. PICK A : A = {i \in 1..n : \A j \in 1..(i - 1) : D[j] # D[i]}
  OBVIOUS
<1>5. AffectedHosts = Filtered(D, A)
  <2>1. AffectedHosts = Filtered(D, {i \in DOMAIN D : \A j \in 1..(i - 1) : D[j] # D[i]})
    BY <1>1, <1>2, <1>3 DEF AffectedHosts
  <2> QED  BY <1>3a, <1>4, <2>1
<1>6. A \in SUBSET (1..Len(D))
  BY <1>3a, <1>4
<1>7. PICK hs : hs = Filtered(D, A)
  OBVIOUS
<1>8. /\ hs \in Seq(AnswerHosts) /\ Len(hs) = Cardinality(A) /\ AllDiffer(hs) /\ Cardinality(A) \in Nat
      /\ \A k \in 1..Cardinality(A) : Nth(A, k) \in A /\ hs[k] = D[Nth(A, k)]
      /\ \A k \in A : \E j \in 1..Cardinality(A) : Nth(A, j) = k
  <2>1. /\ Cardinality(A) \in 0..Len(D) /\ hs \in Seq(AnswerHosts) /\ Len(hs) = Cardinality(A)
        /\ \A k \in 1..Cardinality(A) : Nth(A, k) \in A /\ hs[k] = D[Nth(A, k)]
        /\ \A j, k \in 1..Cardinality(A) : Nth(A, j) = Nth(A, k) => j = k
        /\ \A i \in A : \E k \in 1..Cardinality(A) : Nth(A, k) = i
    BY <1>3a, <1>6, <1>7, KeptFacts
  <2>2. ASSUME NEW i \in A, NEW j \in A, D[i] = D[j] PROVE i = j
    <3>1. i \in 1..n /\ j \in 1..n
      BY <1>4
    <3>2. ~(i < j)
      <4>1. i < j => i \in 1..(j - 1)
        BY <3>1
      <4> QED  BY <1>4, <2>2, <4>1
    <3>3. ~(j < i)
      <4>1. j < i => j \in 1..(i - 1)
        BY <3>1
      <4> QED  BY <1>4, <2>2, <4>1
    <3> QED  BY <3>1, <3>2, <3>3
  <2>3. AllDiffer(hs)
    <3>1. ASSUME NEW j \in 1..Cardinality(A), NEW k \in 1..Cardinality(A), hs[j] = hs[k] PROVE j = k
      <4>1. Nth(A, j) \in A /\ Nth(A, k) \in A /\ D[Nth(A, j)] = D[Nth(A, k)]
        BY <2>1, <3>1
      <4>2. Nth(A, j) = Nth(A, k)
        BY <2>2, <4>1
      <4> QED  BY <2>1, <4>2
    <3> QED  BY <2>1, <3>1 DEF AllDiffer
  <2>4. Cardinality(A) \in Nat
    BY <1>3a, <2>1
  <2> QED  BY <2>1, <2>3, <2>4
<1>9. PICK top \in Seq(AnswerHosts), l \in 0..Len(hs) :
        /\ top = FirstOf(hs) /\ l = Len(top) /\ DOMAIN top = 1..l
        /\ \A k \in 1..l : top[k] = hs[k]
        /\ l = IF Len(hs) <= DefaultPage THEN Len(hs) ELSE DefaultPage
  <2>1. PICK top \in Seq(AnswerHosts), len \in Nat :
          /\ top = FirstOf(hs) /\ len = Len(hs)
          /\ \A k \in 1..Len(top) : top[k] = hs[k]
          /\ Len(top) \in 0..len
          /\ Len(top) = IF len <= DefaultPage THEN len ELSE DefaultPage
    BY <1>8, PageFacts
  <2>2. PICK l : l = Len(top)
    OBVIOUS
  <2>3. DOMAIN top = 1..l
    BY <2>2, LenProperties
  <2> QED  BY <2>1, <2>2, <2>3
<1>10. PICK P : P = {i \in 1..n : \E k \in 1..l : F[i].host = top[k]}
  OBVIOUS
<1>11. QualysPage = Filtered(F, P)
  <2>1. \A i \in 1..n : F[i].host \in ToSet(top) <=> \E k \in 1..l : F[i].host = top[k]
    BY <1>9 DEF ToSet
  <2>2. P = {i \in 1..n : F[i].host \in ToSet(top)}
    BY <1>10, <2>1
  <2>3. QualysPage = Filtered(F, {i \in 1..n : F[i].host \in ToSet(top)})
    BY <1>1, <1>2, <1>5, <1>7, <1>9 DEF QualysPage
  <2> QED  BY <2>2, <2>3
<1>12. P \in SUBSET (1..Len(F))
  BY <1>2, <1>10
<1>13. /\ QualysPage \in Seq(Reports) /\ Len(QualysPage) = Cardinality(P) /\ IsFiniteSet(P)
       /\ IdsDiffer(F) => IdsDiffer(QualysPage)
  BY <1>11, <1>12, KeptFacts, KeptDiffer
<1>14. PICK c \in Nat : c = Len(FirstOf(F)) /\ c <= n /\ c <= DefaultPage
  <2>1. DefaultPage \in Nat
    BY ScannerAssumption
  <2>2. Len(FirstOf(F)) = (IF n <= DefaultPage THEN n ELSE DefaultPage)
    BY <1>2, PageFacts
  <2> QED  BY <1>2, <2>1, <2>2
<1>15. CASE Len(hs) <= DefaultPage
  <2>1. ASSUME NEW i \in 1..n PROVE \E k \in 1..l : F[i].host = top[k]
    <3>1. PICK T \in SUBSET Nat : T = {k \in 1..n : D[k] = D[i]}
      <4>1. {k \in 1..n : D[k] = D[i]} \in SUBSET Nat
        OBVIOUS
      <4> QED  BY <4>1
    <3>1a. PICK k \in T : \A j \in T : k <= j
      BY <2>1, <3>1, NatLeast
    <3>1b. k \in 1..n /\ D[k] = D[i] /\ D[k] = F[i].host
      BY <1>3, <2>1, <3>1
    <3>2. k \in A
      <4>1. ASSUME NEW j \in 1..(k - 1), D[j] = D[k] PROVE FALSE
        <5>1. j \in 1..n /\ j < k
          BY <3>1b
        <5>2. j \in T
          BY <3>1, <3>1b, <4>1, <5>1
        <5> QED  BY <3>1a, <3>1b, <5>1, <5>2
      <4> QED  BY <1>4, <3>1b, <4>1
    <3>3. PICK j \in 1..Cardinality(A) : Nth(A, j) = k
      BY <1>8, <3>2
    <3>4. hs[j] = F[i].host
      BY <1>8, <3>1b, <3>3
    <3>5. l = Cardinality(A)
      BY <1>8, <1>9, <1>15
    <3> QED  BY <1>9, <3>3, <3>4, <3>5
  <2>2. P = 1..n
    BY <1>10, <2>1
  <2>3. Cardinality(P) = n
    BY <2>2, FS_Interval
  <2> QED  BY <1>1, <1>13, <1>14, <2>3
<1>16. CASE ~(Len(hs) <= DefaultPage)
  <2>1. l = DefaultPage
    BY <1>9, <1>16
  <2>2. \A k \in 1..l : \E i \in 1..n : F[i].host = top[k]
    <3>1. ASSUME NEW k \in 1..l PROVE \E i \in 1..n : F[i].host = top[k]
      <4>1. k \in 1..Cardinality(A) /\ top[k] = hs[k]
        BY <1>8, <1>9
      <4>2. Nth(A, k) \in A /\ hs[k] = D[Nth(A, k)]
        BY <1>8, <4>1
      <4>3. Nth(A, k) \in 1..n
        BY <1>4, <4>2
      <4>4. F[Nth(A, k)].host = top[k]
        BY <1>3, <4>1, <4>2, <4>3
      <4> QED  BY <4>3, <4>4
    <3> QED  BY <3>1
  <2>3. PICK g : g = [k \in 1..l |-> CHOOSE i \in 1..n : F[i].host = top[k]]
    OBVIOUS
  <2>4. \A k \in 1..l : g[k] \in 1..n /\ F[g[k]].host = top[k]
    BY <2>2, <2>3
  <2>5. \A k \in 1..l : g[k] \in P
    BY <1>10, <2>4
  <2>6. \A j, k \in 1..l : g[j] = g[k] => j = k
    <3>1. ASSUME NEW j \in 1..l, NEW k \in 1..l, g[j] = g[k] PROVE j = k
      <4>1. top[j] = top[k]
        BY <2>4, <3>1
      <4>2. hs[j] = hs[k] /\ j \in 1..Len(hs) /\ k \in 1..Len(hs)
        BY <1>8, <1>9, <4>1
      <4>3. AllDiffer(hs)
        BY <1>8
      <4> QED  BY <4>2, <4>3 DEF AllDiffer
    <3> QED  BY <3>1
  <2>7. g \in Injection(1..l, P)
    BY <2>3, <2>5, <2>6 DEF Injection, IsInjective
  <2>8. Cardinality(1..l) <= Cardinality(P)
    BY <1>13, <2>7, FS_Injection
  <2>9. Cardinality(1..l) = l /\ l \in Nat
    <3>1. l \in Nat /\ 1 \in Int
      BY <1>8, <1>9
    <3>2. Cardinality(1..l) = IF 1 > l THEN 0 ELSE l - 1 + 1
      BY <3>1, FS_Interval
    <3> QED  BY <3>1, <3>2
  <2>10. Cardinality(P) \in Nat
    BY <1>13, FS_CardinalityType
  <2> QED  BY <1>1, <1>13, <1>14, <2>1, <2>8, <2>9, <2>10
<1>17. QED
  BY <1>1, <1>13, <1>15, <1>16

(* The steps of a request. *)

LEMMA ListsOfHosts ==
  /\ Seq(Hosts) \in SUBSET Seq(AnswerHosts)
  /\ Seq(AnswerHosts) \in SUBSET Seq(AnswerIds \cup AnswerHosts)
  /\ Seq(AnswerIds) \in SUBSET Seq(AnswerIds \cup AnswerHosts)
<1>1. ASSUME NEW S, NEW T, S \in SUBSET T, NEW s \in Seq(S) PROVE s \in Seq(T)
  <2>1. PICK n \in Nat : n = Len(s) /\ DOMAIN s = 1..n
    BY LenProperties
  <2>2. \A i \in 1..n : s[i] \in T
    BY <1>1, <2>1, ElementOfSeq
  <2>3. s = [i \in 1..n |-> s[i]]
    BY <2>1, LenProperties
  <2> QED  BY <2>2, <2>3, ListIs
<1>2. \A S : \A T : S \in SUBSET T => Seq(S) \in SUBSET Seq(T)
  BY <1>1
<1>3. Hosts \in SUBSET AnswerHosts
  BY DEF AnswerHosts
<1>4. QED
  BY <1>2, <1>3

RequestOf(p, route, m, ph, e, st, c) ==
  [provider |-> p, route |-> route, mock |-> m, phase |-> ph, ids |-> e, findings |-> e,
   devices |-> e, evidence |-> e, status |-> st, calm |-> c]

LEMMA RequestTyped ==
  ASSUME NEW p \in Providers \cup Registered, NEW route \in Routes, NEW m \in BOOLEAN,
         NEW ph \in VulnPhases, NEW st \in VulnCodes
  PROVE  RequestOf(p, route, m, ph, <<>>, st, TRUE) \in VulnRequests
<1> PICK e : e = <<>>
  OBVIOUS
<1>1. TRUE \in BOOLEAN /\ e \in Seq(AnswerIds \cup AnswerHosts) /\ e \in Seq(Found)
      /\ e \in Seq(AnswerHosts) /\ e \in Seq(ToldOf)
  OBVIOUS
<1> QED  BY <1>1, Zenon DEF VulnRequests, RequestOf

LEMMA VulnInitOK == VulnInit => VulnInv
<1> SUFFICES ASSUME VulnInit PROVE VulnInv
  OBVIOUS
<1>1. scanner \in Scanners
  BY DEF VulnInit, Scanners
<1>2. ScannerOK(scanner)
  <2>1. scanner.devices = <<>> /\ scanner.findings = <<>>
    BY DEF VulnInit
  <2> QED  BY <2>1 DEF ScannerOK, AllDiffer
<1>3. vreq \in VulnRequests
  <2>1. /\ "qualys" \in Providers \cup Registered /\ "evidence" \in Routes /\ "idle" \in VulnPhases
        /\ 0 \in VulnCodes /\ FALSE \in BOOLEAN
    BY DEF Registered, Routes, VulnPhases, VulnCodes
  <2>2. vreq = RequestOf("qualys", "evidence", FALSE, "idle", <<>>, 0, TRUE)
    BY DEF VulnInit, NoRequest, RequestOf
  <2>3. PICK p \in Providers \cup Registered, route \in Routes, ph \in VulnPhases,
             st \in VulnCodes, m \in BOOLEAN :
          p = "qualys" /\ route = "evidence" /\ ph = "idle" /\ st = 0 /\ m = FALSE
    BY <2>1, Zenon
  <2>4. RequestOf(p, route, m, ph, <<>>, st, TRUE) \in VulnRequests
    BY RequestTyped
  <2> QED  BY <2>2, <2>3, <2>4, Zenon
<1>4. RequestOK(vreq) /\ Fetched(vreq, scanner)
  <2>1. /\ vreq.findings = <<>> /\ vreq.devices = <<>> /\ vreq.evidence = <<>>
        /\ vreq.phase = "idle" /\ vreq.status = 0
    BY DEF VulnInit, NoRequest
  <2> QED  BY <2>1 DEF RequestOK, Fetched, AllDiffer
<1>5. QED
  BY <1>1, <1>2, <1>3, <1>4 DEF VulnInv

LEMMA RequestStarts ==
  ASSUME VulnInv, NEW p \in Providers, NEW route \in Routes, NEW mock \in BOOLEAN,
         StartRequest(p, route, mock)
  PROVE  VulnInv'
<1> PICK e : e = <<>>
  OBVIOUS
<1>1. ASSUME NEW m \in BOOLEAN, NEW ph \in VulnPhases, NEW st \in {0, 404},
             vreq' = RequestOf(p, route, m, ph, e, st, TRUE), ph # "done" => st = 0,
             ph \notin {"summaries", "device_ids", "details"},
             ph \in {"device_token", "devices"} => route = "endpoints"
      PROVE  VulnInv'
  <2>1. PICK q : q = RequestOf(p, route, m, ph, e, st, TRUE)
    OBVIOUS
  <2>2. q \in VulnRequests
    <3>1. /\ p \in Providers \cup Registered /\ st \in VulnCodes /\ TRUE \in BOOLEAN
          /\ e \in Seq(AnswerIds \cup AnswerHosts) /\ e \in Seq(Found)
          /\ e \in Seq(AnswerHosts) /\ e \in Seq(ToldOf)
      BY <1>1 DEF VulnCodes
    <3> QED  BY <1>1, <2>1, <3>1, Zenon DEF VulnRequests, RequestOf
  <2>3. /\ q.findings = e /\ q.devices = e /\ q.evidence = e /\ q.phase = ph /\ q.status = st
        /\ q.route = route
    BY <2>1 DEF RequestOf
  <2>4. RequestOK(q)
    <3>1. AllDiffer(<<>>) /\ st # 200
      BY <1>1 DEF AllDiffer
    <3> QED  BY <1>1, <2>3, <3>1 DEF RequestOK
  <2>5. Fetched(q, scanner)
    <3>1. ph \in {"devices", "device_token"} => route # "evidence"
      BY <1>1
    <3> QED  BY <1>1, <2>3, <3>1 DEF Fetched
  <2>6. UNCHANGED scanner
    BY DEF StartRequest
  <2> QED  BY <1>1, <2>1, <2>2, <2>4, <2>5, <2>6 DEF VulnInv
<1>2. NoRequest = RequestOf("qualys", "evidence", FALSE, "idle", e, 0, TRUE)
  BY DEF NoRequest, RequestOf
<1>3. CASE p \in Registered
  <2>1. PICK ph : ph = FirstPhase(p, route)
    OBVIOUS
  <2>2. /\ ph \in {"token", "device_token", "devices", "findings"} /\ ph \in VulnPhases
        /\ ph \in {"device_token", "devices"} => route = "endpoints"
    BY <2>1 DEF FirstPhase, VulnPhases
  <2>3. vreq' = [NoRequest EXCEPT !.provider = p, !.route = route, !.mock = mock, !.phase = ph]
    BY <1>3, <2>1 DEF StartRequest
  <2>4. vreq' = RequestOf(p, route, mock, ph, e, 0, TRUE)
    BY <1>2, <2>3 DEF RequestOf
  <2>5. mock \in BOOLEAN /\ 0 \in {0, 404} /\ (ph # "done" => 0 = 0)
        /\ ph \notin {"summaries", "device_ids", "details"}
    BY <2>2
  <2> QED  BY <1>1, <2>2, <2>4, <2>5, ZenonT(60)
<1>4. CASE p \notin Registered
  <2>1. vreq' = [NoRequest EXCEPT !.provider = p, !.route = route,
                                  !.phase = "done", !.status = 404]
    BY <1>4 DEF StartRequest
  <2>2. PICK st, ph, no : st = 404 /\ ph = "done" /\ no = FALSE
    OBVIOUS
  <2>3. vreq' = [RequestOf("qualys", "evidence", no, "idle", e, 0, TRUE)
                   EXCEPT !.provider = p, !.route = route, !.phase = ph, !.status = st]
    BY <1>2, <2>1, <2>2
  <2>4. vreq' = RequestOf(p, route, no, ph, e, st, TRUE)
    BY <2>3 DEF RequestOf
  <2>5. /\ no \in BOOLEAN /\ st \in {0, 404} /\ (ph # "done" => st = 0) /\ ph \in VulnPhases
        /\ ph \notin {"summaries", "device_ids", "details"}
        /\ (ph \in {"device_token", "devices"} => route = "endpoints")
    BY <2>2 DEF VulnPhases
  <2> QED  BY <1>1, <2>4, <2>5, ZenonT(60)
<1> QED  BY <1>3, <1>4

LEMMA MockAnswers ==
  ASSUME VulnInv, AnswerMock
  PROVE  VulnInv'
<1>1. PICK r \in VulnRequests, sc \in Scanners : r = vreq /\ sc = scanner
  BY DEF VulnInv
<1>2. PICK fs : fs = IF r.route = "endpoints" THEN <<>> ELSE MockFindings(r.provider)
  OBVIOUS
<1>3. PICK ds : ds = IF r.route = "vulnerabilities" THEN <<>> ELSE MockEndpoints(r.provider)
  OBVIOUS
<1>4. fs \in Seq(Found)
  <2>1. <<>> \in Seq(Found)
    OBVIOUS
  <2> QED  BY <1>2, <2>1, MockFacts
<1>5. ds \in Seq(AnswerHosts) /\ AllDiffer(ds)
  <2>1. AllDiffer(<<>>) /\ <<>> \in Seq(AnswerHosts)
    BY DEF AllDiffer
  <2> QED  BY <1>3, <2>1, MockFacts
<1>6. PICK q : q = [r EXCEPT !.findings = fs, !.devices = ds]
  OBVIOUS
<1>7. q \in VulnRequests
  BY <1>4, <1>5, <1>6, ChangedRequest
<1>8. /\ q.findings = fs /\ q.devices = ds
      /\ q.provider = r.provider /\ q.route = r.route /\ q.mock = r.mock /\ q.calm = r.calm
  BY <1>6 DEF VulnRequests
<1>9. r.mock
  BY <1>1 DEF AnswerMock
<1>10. q.route = "evidence" => q.findings = MockFindings(q.provider) /\ q.devices = MockEndpoints(q.provider)
  BY <1>2, <1>3, <1>8
<1>11. AllDiffer(q.devices) /\ q.mock
  BY <1>5, <1>8, <1>9
<1>12. Done(q) \in VulnRequests /\ RequestOK(Done(q)) /\ Fetched(Done(q), sc)
  BY <1>7, <1>10, <1>11, DoneFits
<1>13. vreq' = Done(q) /\ scanner' = sc
  BY <1>1, <1>2, <1>3, <1>6 DEF AnswerMock
<1> QED  BY <1>1, <1>12, <1>13 DEF VulnInv

LEMMA FindingsFetched ==
  ASSUME VulnInv, QualysVulns \/ TenableVulns
  PROVE  VulnInv'
<1>1. PICK sc \in Scanners : sc = scanner
  BY DEF VulnInv
<1>2. vreq.phase = "findings" /\ ~vreq.mock /\ UNCHANGED scanner
  BY DEF QualysVulns, TenableVulns, LiveOf, Live
<1>3. ASSUME NEW p, NEW page \in Seq(Reports), IdsDiffer(sc.findings) => IdsDiffer(page),
             Len(page) >= Len(FirstOf(sc.findings)), vreq' = AfterFindings(Normalized(p, page))
      PROVE  VulnInv'
  <2>1. PICK fs : fs = Normalized(p, page)
    OBVIOUS
  <2>2. /\ fs \in Seq(Found) /\ Len(fs) = Len(page)
        /\ \A i \in 1..Len(page) : fs[i].id = page[i].id /\ fs[i].host = page[i].host
    BY <2>1, NormalizedFacts
  <2>3. IdsDiffer(sc.findings) => IdsDiffer(fs)
    BY <1>3, <2>2, SameIds
  <2>4. WholeOf(fs, scanner)
    BY <1>1, <1>3, <2>2, <2>3 DEF WholeOf
  <2>5. vreq' = AfterFindings(fs)
    BY <1>3, <2>1
  <2> QED  BY <1>2, <2>2, <2>4, <2>5, FindingsFit
<1>4. CASE QualysVulns
  <2>1. vreq' = AfterFindings(Normalized("qualys", QualysPage))
    BY <1>4 DEF QualysVulns
  <2>2. /\ QualysPage \in Seq(Reports)
        /\ IdsDiffer(sc.findings) => IdsDiffer(QualysPage)
        /\ Len(QualysPage) >= Len(FirstOf(sc.findings))
    BY <1>1, QualysPageIsWhole
  <2> QED  BY <1>3, <2>1, <2>2
<1>5. CASE TenableVulns
  <2>1. vreq' = AfterFindings(Normalized("tenable", FirstOf(sc.findings)))
    BY <1>1, <1>5 DEF TenableVulns
  <2>2. PICK F \in Seq(Reports) : F = sc.findings
    BY DEF Scanners
  <2>3. PICK page \in Seq(Reports), n \in 0..Len(F) :
          page = FirstOf(F) /\ n = Len(page) /\ \A i \in 1..n : page[i] = F[i]
    BY PageFacts
  <2>4. IdsDiffer(F) => IdsDiffer(page)
    BY <2>3, PageDiffer
  <2>5. Len(page) >= Len(FirstOf(sc.findings))
    <3>1. Len(page) \in Nat
      BY LenProperties
    <3> QED  BY <2>2, <2>3, <3>1
  <2> QED  BY <1>3, <2>1, <2>2, <2>3, <2>4, <2>5
<1> QED  BY <1>4, <1>5

LEMMA DevicesFetched ==
  ASSUME VulnInv, QualysHosts \/ TenableAssets
  PROVE  VulnInv'
<1>1. PICK D \in Seq(Hosts) : D = scanner.devices /\ AllDiffer(D)
  BY DEF VulnInv, Scanners, ScannerOK
<1>2. PICK ds : ds = FirstOf(D)
  OBVIOUS
<1>3. ds \in Seq(AnswerHosts) /\ AllDiffer(ds)
  BY <1>1, <1>2, PageFacts, PageDiffer, ListsOfHosts
<1>4. /\ vreq.phase = "devices" /\ ~vreq.mock /\ UNCHANGED scanner
      /\ vreq' = Done([vreq EXCEPT !.devices = ds]) /\ ds = FirstOf(scanner.devices)
  BY <1>1, <1>2 DEF QualysHosts, TenableAssets, LiveOf, Live
<1> QED  BY <1>3, <1>4, DevicesFit

LEMMA TokensCome ==
  ASSUME VulnInv, BearerToken
  PROVE  VulnInv'
<1>1. PICK r \in VulnRequests : r = vreq
  BY DEF VulnInv
<1>2. PICK ph : ph = IF r.phase = "token" THEN "ids" ELSE "device_ids"
  OBVIOUS
<1>3. /\ r.phase \in {"token", "device_token"} /\ ~r.mock /\ UNCHANGED scanner
      /\ vreq' = [r EXCEPT !.phase = ph]
  BY <1>1, <1>2 DEF BearerToken, Live
<1>4. r.ids \in Seq(AnswerIds \cup AnswerHosts)
  BY DEF VulnRequests
<1>5. [r EXCEPT !.phase = ph] = [r EXCEPT !.phase = ph, !.ids = r.ids]
  BY UnchangedRequest
<1>6. ph \in {"ids", "device_ids"} /\ (ph = "device_ids" => r.phase = "device_token")
  BY <1>2, <1>3
<1>7. vreq' = [vreq EXCEPT !.phase = ph, !.ids = r.ids]
  BY <1>1, <1>3, <1>5
<1> QED  BY <1>1, <1>3, <1>4, <1>6, <1>7, IdsFit

LEMMA DetectionIdsCome ==
  ASSUME VulnInv, QueryDetectionIds
  PROVE  VulnInv'
<1>1. PICK F \in Seq(Reports), page \in Seq(Reports) :
        F = scanner.findings /\ page = FirstOf(F)
  <2>1. PICK F \in Seq(Reports) : F = scanner.findings
    BY DEF VulnInv, Scanners
  <2>2. FirstOf(F) \in Seq(Reports)
    BY PageFacts
  <2> QED  BY <2>1, <2>2
<1>2. vreq.phase = "ids" /\ ~vreq.mock /\ UNCHANGED scanner
  BY DEF QueryDetectionIds, Live
<1>3. page \in Seq(Reports)
  BY <1>1, PageFacts
<1>4. vreq' = IF page = <<>> THEN AfterFindings(<<>>)
              ELSE [vreq EXCEPT !.phase = "summaries", !.ids = IdsOf(page)]
  BY <1>1 DEF QueryDetectionIds, IdsOf
<1>5. CASE page = <<>>
  <2>1. <<>> \in Seq(Found)
    OBVIOUS
  <2>2. WholeOf(<<>>, scanner)
    BY <1>1, <1>5 DEF WholeOf, IdsDiffer
  <2>3. vreq' = AfterFindings(<<>>)
    BY <1>4, <1>5
  <2> QED  BY <1>2, <2>1, <2>2, <2>3, FindingsFit
<1>6. CASE page # <<>>
  <2>1. PICK n \in Nat : n = Len(page) /\ DOMAIN page = 1..n
    BY <1>3, LenProperties
  <2>2. IdsOf(page) \in [1..n -> AnswerIds]
    <3>1. \A i \in 1..n : page[i].id \in AnswerIds
      BY <1>3, <2>1, ElementOfSeq DEF AnswerIds
    <3> QED  BY <2>1, <3>1 DEF IdsOf
  <2>3. IdsOf(page) \in Seq(AnswerIds \cup AnswerHosts)
    BY <2>2, ListIs, ListsOfHosts
  <2>4. vreq' = [vreq EXCEPT !.phase = "summaries", !.ids = IdsOf(page)]
    BY <1>4, <1>6
  <2>5. IdsOf(page) = IdsOf(FirstOf(scanner.findings))
    BY <1>1
  <2> QED  BY <1>2, <2>3, <2>4, <2>5, IdsFit
<1> QED  BY <1>5, <1>6

\* The details of the ids queried before: all of them, if none went meanwhile.
LEMMA DetectionsSummarized ==
  ASSUME VulnInv, SummarizeDetections
  PROVE  VulnInv'
<1>1. PICK r \in VulnRequests, sc \in Scanners :
        r = vreq /\ sc = scanner /\ Fetched(r, sc)
  BY DEF VulnInv
<1>2. PICK F \in Seq(Reports) : F = sc.findings
  BY DEF Scanners
<1>3. PICK n \in Nat : n = Len(F) /\ DOMAIN F = 1..n
  BY LenProperties
<1>4. PICK P : P = {i \in 1..n : F[i].id \in ToSet(r.ids)}
  OBVIOUS
<1>5. P \in SUBSET (1..Len(F))
  BY <1>3, <1>4
<1>6. PICK found : found = Filtered(F, P)
  OBVIOUS
<1>7. /\ found \in Seq(Reports)
      /\ IdsDiffer(F) => IdsDiffer(found)
      /\ IsFiniteSet(P) /\ Len(found) = Cardinality(P)
  BY <1>5, <1>6, KeptFacts, KeptDiffer
<1>8. PICK m \in Nat : m = Len(found) /\ DOMAIN found = 1..m
  BY <1>7, LenProperties
<1>9. PICK fs : fs = [i \in 1..m |-> [id |-> found[i].id, host |-> found[i].host,
                                      severity |-> NormalizeSeverityLabel(found[i].label)]]
  OBVIOUS
<1>10. vreq' = AfterFindings(fs)
  <2>1. PICK events : events = [i \in 1..m |-> [id |-> found[i].id, hosts |-> <<found[i].host>>,
                                               severity |-> NormalizeSeverityLabel(found[i].label)]]
    OBVIOUS
  <2>2. EventsToFindings(events) = fs
    <3>1. DOMAIN events = 1..m
      BY <2>1
    <3>2. \A i \in 1..m : /\ events[i].id = found[i].id /\ events[i].hosts[1] = found[i].host
                          /\ events[i].severity = NormalizeSeverityLabel(found[i].label)
      BY <2>1
    <3> QED  BY <1>9, <3>1, <3>2 DEF EventsToFindings
  <2>3. vreq' = AfterFindings(EventsToFindings(events))
    BY <1>1, <1>2, <1>3, <1>4, <1>6, <1>8, <2>1 DEF SummarizeDetections
  <2> QED  BY <2>2, <2>3
<1>11. ASSUME NEW i \in 1..m
       PROVE  fs[i].id = found[i].id /\ fs[i].host = found[i].host /\ fs[i] \in Found
  <2>1. PICK f \in Reports : f = found[i]
    BY <1>7, <1>8, ElementOfSeq
  <2>2. PICK v \in -1..4 : v = NormalizeSeverityLabel(f.label)
    BY SeverityTypes
  <2>3. fs[i] = [id |-> f.id, host |-> f.host, severity |-> v]
    BY <1>9, <2>1, <2>2
  <2>4. f.id \in AnswerIds /\ f.host \in AnswerHosts
    BY DEF AnswerIds, AnswerHosts
  <2> QED  BY <2>1, <2>3, <2>4 DEF Found
<1>12. fs \in Seq(Found) /\ Len(fs) = m
  <2>1. fs \in [1..m -> Found]
    BY <1>9, <1>11
  <2> QED  BY <2>1, ListIs
<1>13. IdsDiffer(sc.findings) => IdsDiffer(fs)
  BY <1>2, <1>7, <1>8, <1>11, <1>12, SameIds
<1>14. vreq.phase = "summaries" /\ ~vreq.mock /\ UNCHANGED scanner
  BY DEF SummarizeDetections, Live
<1>15. (r.route = "evidence" /\ r.calm) => WholeOf(fs, sc)
  <2> SUFFICES ASSUME r.route = "evidence", r.calm PROVE WholeOf(fs, sc)
    OBVIOUS
  <2>1. PICK page \in Seq(Reports), l \in 0..n :
          page = FirstOf(F) /\ l = Len(page) /\ \A i \in 1..l : page[i] = F[i]
    BY <1>3, PageFacts
  <2>2. DOMAIN page = 1..l
    BY <2>1, LenProperties
  <2>3. r.ids = IdsOf(page)
    BY <1>1, <1>2, <1>14, <2>1 DEF Fetched
  <2>4. ASSUME NEW i \in 1..l PROVE i \in P
    <3>1. r.ids[i] = F[i].id /\ i \in DOMAIN r.ids
      BY <2>1, <2>2, <2>3, <2>4 DEF IdsOf
    <3>2. F[i].id \in ToSet(r.ids)
      BY <3>1 DEF ToSet
    <3> QED  BY <1>3, <1>4, <3>2
  <2>5. Cardinality(1..l) <= Cardinality(P)
    <3>1. 1..l \in SUBSET P
      BY <2>4
    <3> QED  BY <1>7, <3>1, FS_Subset
  <2>6. Cardinality(1..l) = l
    <3>1. l \in Int /\ 1 \in Int /\ l >= 0
      OBVIOUS
    <3> QED  BY <3>1, FS_Interval
  <2>7. Len(fs) >= Len(FirstOf(sc.findings))
    BY <1>2, <1>7, <1>8, <1>12, <2>1, <2>5, <2>6
  <2> QED  BY <1>13, <2>7 DEF WholeOf
<1> QED  BY <1>1, <1>10, <1>12, <1>14, <1>15, FindingsFit

LEMMA DeviceIdsCome ==
  ASSUME VulnInv, QueryDeviceIds
  PROVE  VulnInv'
<1>1. PICK D \in Seq(Hosts), page \in Seq(Hosts) :
        D = scanner.devices /\ page = FirstOf(D)
  <2>1. PICK D \in Seq(Hosts) : D = scanner.devices
    BY DEF VulnInv, Scanners
  <2>2. FirstOf(D) \in Seq(Hosts)
    BY PageFacts
  <2> QED  BY <2>1, <2>2
<1>2. vreq.phase = "device_ids" /\ ~vreq.mock /\ UNCHANGED scanner
  BY DEF QueryDeviceIds, Live
<1>3. page \in Seq(AnswerHosts) /\ page \in Seq(AnswerIds \cup AnswerHosts)
  BY <1>1, PageFacts, ListsOfHosts
<1>4. vreq' = IF page = <<>> THEN Done(vreq)
              ELSE [vreq EXCEPT !.phase = "details", !.ids = page]
  BY <1>1 DEF QueryDeviceIds
<1>5. CASE page = <<>>
  <2>1. PICK r \in VulnRequests : r = vreq /\ r.devices = <<>>
    BY <1>2 DEF VulnInv, RequestOK
  <2>2. AllDiffer(page)
    BY <1>5 DEF AllDiffer
  <2>3. r = [r EXCEPT !.devices = page]
    BY <1>5, <2>1, UnchangedRequest
  <2>4. vreq' = Done([vreq EXCEPT !.devices = page]) /\ page = FirstOf(scanner.devices)
    BY <1>1, <1>4, <1>5, <2>1, <2>3
  <2> QED  BY <1>2, <1>3, <2>2, <2>4, DevicesFit
<1>6. CASE page # <<>>
  <2>1. vreq' = [vreq EXCEPT !.phase = "details", !.ids = page] /\ page = FirstOf(scanner.devices)
    BY <1>1, <1>4, <1>6
  <2> QED  BY <1>2, <1>3, <2>1, IdsFit
<1> QED  BY <1>5, <1>6

LEMMA DevicesDetailed ==
  ASSUME VulnInv, DeviceDetails
  PROVE  VulnInv'
<1>1. PICK r \in VulnRequests, sc \in Scanners :
        r = vreq /\ sc = scanner /\ ScannerOK(sc) /\ Fetched(r, sc)
  BY DEF VulnInv
<1>2. PICK D \in Seq(Hosts) : D = sc.devices /\ AllDiffer(D)
  BY <1>1 DEF Scanners, ScannerOK
<1>3. PICK n \in Nat : n = Len(D) /\ DOMAIN D = 1..n
  BY LenProperties
<1>4. PICK P : P = {i \in 1..n : D[i] \in ToSet(r.ids)}
  OBVIOUS
<1>5. P \in SUBSET (1..Len(D))
  BY <1>3, <1>4
<1>6. PICK ds : ds = Filtered(D, P)
  OBVIOUS
<1>7. ds \in Seq(AnswerHosts) /\ AllDiffer(ds)
  BY <1>2, <1>5, <1>6, KeptFacts, KeptDiffer, ListsOfHosts
<1>8. vreq' = Done([vreq EXCEPT !.devices = ds])
  BY <1>1, <1>2, <1>3, <1>4, <1>6 DEF DeviceDetails
<1>9. vreq.phase = "details" /\ ~vreq.mock /\ UNCHANGED scanner
  BY DEF DeviceDetails, Live
<1>10. (r.route = "evidence" /\ r.calm) => ds = FirstOf(sc.devices)
  <2> SUFFICES ASSUME r.route = "evidence", r.calm PROVE ds = FirstOf(sc.devices)
    OBVIOUS
  <2>1. PICK page \in Seq(Hosts), l \in 0..n :
          /\ page = FirstOf(D) /\ l = Len(page) /\ page = SubSeq(D, 1, l)
          /\ \A i \in 1..l : page[i] = D[i]
    BY <1>3, PageFacts
  <2>2. DOMAIN page = 1..l
    BY <2>1, LenProperties
  <2>3. r.ids = page
    BY <1>1, <1>2, <1>9, <2>1 DEF Fetched
  <2>4. ToSet(r.ids) = {D[i] : i \in 1..l}
    BY <2>1, <2>2, <2>3 DEF ToSet
  <2>5. ASSUME NEW i \in 1..n PROVE i \in P <=> i \in 1..l
    <3>1. i \in P <=> \E k \in 1..l : D[i] = D[k]
      BY <1>4, <2>4, <2>5
    <3>2. \A k \in 1..l : k \in 1..n
      OBVIOUS
    <3>3. \A k \in 1..l : D[i] = D[k] => i = k
      BY <1>2, <1>3, <2>5, <3>2 DEF AllDiffer
    <3> QED  BY <3>1, <3>3
  <2>6. P = 1..l
    <3>1. 1..l \in SUBSET (1..n) /\ P \in SUBSET (1..n)
      BY <1>4
    <3> QED  BY <2>5, <3>1
  <2>7. l \in 0..Len(D)
    BY <1>3
  <2> QED  BY <1>2, <1>5, <1>6, <2>1, <2>6, <2>7, KeptAll
<1> QED  BY <1>1, <1>7, <1>8, <1>9, <1>10, DevicesFit

LEMMA CallsFail ==
  ASSUME VulnInv, CallFails
  PROVE  VulnInv'
<1>1. PICK r \in VulnRequests : r = vreq /\ RequestOK(r)
  BY DEF VulnInv
<1>2. PICK q : q = [r EXCEPT !.phase = "done", !.status = 502, !.ids = <<>>,
                             !.findings = <<>>, !.devices = <<>>]
  OBVIOUS
<1>3. vreq' = q /\ UNCHANGED scanner /\ r.phase # "done"
  BY <1>1, <1>2 DEF CallFails, FailedCall
<1>4. q \in VulnRequests
  <2>1. PICK e : e = <<>>
    OBVIOUS
  <2>2. /\ e \in Seq(AnswerIds \cup AnswerHosts) /\ e \in Seq(Found) /\ e \in Seq(AnswerHosts)
        /\ q = [r EXCEPT !.phase = "done", !.status = 502, !.ids = e, !.findings = e, !.devices = e]
    BY <1>2, <2>1
  <2>3. [r EXCEPT !.phase = "done", !.status = 502, !.ids = e, !.findings = e, !.devices = e]
          \in VulnRequests
    BY <2>2, FailedRequest
  <2> QED  BY <2>2, <2>3
<1>5. /\ q.phase = "done" /\ q.status = 502 /\ q.findings = <<>> /\ q.devices = <<>>
      /\ q.evidence = r.evidence
  BY <1>2 DEF VulnRequests
<1>6. RequestOK(q)
  <2>1. r.evidence = <<>>
    BY <1>1, <1>3 DEF RequestOK
  <2> QED  BY <1>5, <2>1 DEF RequestOK, AllDiffer
<1>7. Fetched(q, scanner)
  BY <1>5 DEF Fetched
<1> QED  BY <1>3, <1>4, <1>6, <1>7 DEF VulnInv

(* The scanner's own steps.  A request under way only learns that it is no longer calm. *)

LEMMA ScannerMoves ==
  ASSUME VulnInv, NEW s \in Scanners, ScannerOK(s), Moved(s)
  PROVE  VulnInv'
<1>1. PICK r \in VulnRequests : r = vreq /\ RequestOK(r)
  BY DEF VulnInv
<1>2. PICK c \in BOOLEAN : c = (r.phase = "idle")
  OBVIOUS
<1>3. PICK q, sc : q = [r EXCEPT !.calm = c] /\ sc = [s EXCEPT !.moves = @ + 1]
  OBVIOUS
<1>4. vreq' = q /\ scanner' = sc
  BY <1>1, <1>2, <1>3 DEF Moved
<1>5. q \in VulnRequests
  BY <1>3, ChangedRequest
<1>6. /\ q.findings = r.findings /\ q.devices = r.devices /\ q.evidence = r.evidence
      /\ q.phase = r.phase /\ q.status = r.status /\ q.provider = r.provider
      /\ q.route = r.route /\ q.mock = r.mock /\ q.calm = c
  BY <1>3 DEF VulnRequests
<1>7. RequestOK(q)
  BY <1>1, <1>6 DEF RequestOK
<1>8. Fetched(q, sc)
  <2>1. c => q.phase = "idle" /\ q.status = 0
    BY <1>1, <1>2, <1>6 DEF RequestOK
  <2> QED  BY <1>6, <2>1 DEF Fetched
<1>9. sc \in Scanners
  <2>1. PICK D, F : Scanners = [devices : D, findings : F, moves : Nat]
    <3> DEFINE D == Seq(Hosts)
               F == Seq(Reports)
    <3>1. Scanners = [devices : D, findings : F, moves : Nat]
      BY DEF Scanners
    <3> HIDE DEF D, F
    <3> QED  BY <3>1
  <2> QED  BY <1>3, <2>1
<1>10. ScannerOK(sc)
  <2>1. sc.devices = s.devices /\ sc.findings = s.findings
    BY <1>3 DEF Scanners
  <2> QED  BY <2>1 DEF ScannerOK
<1> QED  BY <1>4, <1>5, <1>7, <1>8, <1>9, <1>10 DEF VulnInv

LEMMA ChangedFindings ==
  ASSUME NEW sc \in Scanners, NEW F \in Seq(Reports), NEW s, s = [sc EXCEPT !.findings = F]
  PROVE  s \in Scanners /\ s.devices = sc.devices /\ s.findings = F
<1> DEFINE A == Seq(Hosts)
           B == Seq(Reports)
<1>1. Scanners = [devices : A, findings : B, moves : Nat] /\ F \in B
  BY DEF Scanners
<1> HIDE DEF A, B
<1> QED  BY <1>1

LEMMA ChangedDevices ==
  ASSUME NEW sc \in Scanners, NEW D \in Seq(Hosts), NEW s, s = [sc EXCEPT !.devices = D]
  PROVE  s \in Scanners /\ s.devices = D /\ s.findings = sc.findings
<1> DEFINE A == Seq(Hosts)
           B == Seq(Reports)
<1>1. Scanners = [devices : A, findings : B, moves : Nat] /\ D \in A
  BY DEF Scanners
<1> HIDE DEF A, B
<1> QED  BY <1>1

LEMMA AppendFacts ==
  ASSUME NEW T, NEW s \in Seq(T), NEW e \in T
  PROVE  /\ Append(s, e) \in Seq(T)
         /\ (\A i \in 1..Len(s) : s[i] # e) /\ AllDiffer(s) => AllDiffer(Append(s, e))
<1>1. PICK n \in Nat : n = Len(s)
  BY LenProperties
<1>2. /\ Append(s, e) \in Seq(T) /\ Len(Append(s, e)) = n + 1
      /\ \A i \in 1..n : Append(s, e)[i] = s[i]
      /\ Append(s, e)[n + 1] = e
  BY <1>1, AppendProperties
<1>3. \A i \in 1..n + 1 : i \in 1..n \/ i = n + 1
  OBVIOUS
<1>4. (\A i \in 1..n : s[i] # e) /\ AllDiffer(s) => AllDiffer(Append(s, e))
  BY <1>1, <1>2, <1>3 DEF AllDiffer
<1> QED  BY <1>1, <1>2, <1>4

LEMMA ReportsMove ==
  ASSUME VulnInv, NEW F \in Seq(Reports), Moved([scanner EXCEPT !.findings = F])
  PROVE  VulnInv'
<1>1. PICK sc \in Scanners : sc = scanner /\ ScannerOK(sc)
  BY DEF VulnInv
<1>2. PICK s : s = [sc EXCEPT !.findings = F]
  OBVIOUS
<1>3. s \in Scanners /\ s.devices = sc.devices
  BY <1>2, ChangedFindings
<1>4. ScannerOK(s) /\ Moved(s)
  BY <1>1, <1>2, <1>3 DEF ScannerOK
<1> QED  BY <1>3, <1>4, ScannerMoves

LEMMA FindingReported ==
  ASSUME VulnInv, NEW f \in Reports, ScannerReports(f)
  PROVE  VulnInv'
<1>1. scanner.findings \in Seq(Reports)
  BY DEF VulnInv, Scanners
<1>2. Append(scanner.findings, f) \in Seq(Reports)
  BY <1>1, AppendFacts
<1> QED  BY <1>2, ReportsMove DEF ScannerReports

LEMMA FindingClosed ==
  ASSUME VulnInv, NEW i \in DOMAIN scanner.findings, CloseFinding(i)
  PROVE  VulnInv'
<1>1. PICK F \in Seq(Reports) : F = scanner.findings
  BY DEF VulnInv, Scanners
<1>2. PICK k \in 1..Len(F) : k = i
  BY <1>1, LenProperties
<1>3. RemoveAt(F, k) \in Seq(Reports)
  BY RemoveAtFacts
<1> QED  BY <1>1, <1>2, <1>3, ReportsMove DEF CloseFinding

LEMMA DevicesMove ==
  ASSUME VulnInv, NEW D \in Seq(Hosts), AllDiffer(D), Moved([scanner EXCEPT !.devices = D])
  PROVE  VulnInv'
<1>1. PICK sc \in Scanners : sc = scanner
  BY DEF VulnInv
<1>2. PICK s : s = [sc EXCEPT !.devices = D]
  OBVIOUS
<1>3. s \in Scanners /\ s.devices = D
  BY <1>2, ChangedDevices
<1>4. ScannerOK(s) /\ Moved(s)
  BY <1>1, <1>2, <1>3 DEF ScannerOK
<1> QED  BY <1>3, <1>4, ScannerMoves

LEMMA DeviceEnrolled ==
  ASSUME VulnInv, NEW h \in Hosts, EnrolDevice(h)
  PROVE  VulnInv'
<1>1. PICK D \in Seq(Hosts) : D = scanner.devices /\ AllDiffer(D)
  BY DEF VulnInv, Scanners, ScannerOK
<1>2. PICK n \in Nat : n = Len(D) /\ DOMAIN D = 1..n
  BY LenProperties
<1>3. \A i \in 1..n : D[i] # h
  BY <1>1, <1>2 DEF EnrolDevice, ToSet
<1>4. Append(D, h) \in Seq(Hosts) /\ AllDiffer(Append(D, h))
  BY <1>1, <1>2, <1>3, AppendFacts
<1> QED  BY <1>1, <1>4, DevicesMove DEF EnrolDevice

LEMMA DeviceRetired ==
  ASSUME VulnInv, NEW h \in Hosts, RetireDevice(h)
  PROVE  VulnInv'
<1>1. PICK D \in Seq(Hosts) : D = scanner.devices /\ AllDiffer(D)
  BY DEF VulnInv, Scanners, ScannerOK
<1>2. PICK Q : Q = {i \in DOMAIN D : D[i] # h}
  OBVIOUS
<1>3. Q \in SUBSET (1..Len(D))
  BY <1>2, LenProperties
<1>4. Filtered(D, Q) \in Seq(Hosts) /\ AllDiffer(Filtered(D, Q))
  BY <1>1, <1>3, KeptFacts, KeptDiffer
<1>5. Moved([scanner EXCEPT !.devices = Filtered(D, Q)])
  BY <1>1, <1>2 DEF RetireDevice
<1> QED  BY <1>4, <1>5, DevicesMove

LEMMA VulnStep == VulnInv /\ [VulnNext]_vulnVars => VulnInv'
<1> SUFFICES ASSUME VulnInv, [VulnNext]_vulnVars PROVE VulnInv'
  OBVIOUS
<1>1. ASSUME NEW p \in Providers, NEW r \in Routes, NEW m \in BOOLEAN, StartRequest(p, r, m)
      PROVE  VulnInv'
  BY <1>1, RequestStarts
<1>2. CASE AnswerMock
  BY <1>2, MockAnswers
<1>3. CASE QualysVulns \/ TenableVulns
  BY <1>3, FindingsFetched
<1>4. CASE QualysHosts \/ TenableAssets
  BY <1>4, DevicesFetched
<1>5. CASE BearerToken
  BY <1>5, TokensCome
<1>6. CASE QueryDetectionIds
  BY <1>6, DetectionIdsCome
<1>7. CASE SummarizeDetections
  BY <1>7, DetectionsSummarized
<1>8. CASE QueryDeviceIds
  BY <1>8, DeviceIdsCome
<1>9. CASE DeviceDetails
  BY <1>9, DevicesDetailed
<1>10. CASE CallFails
  BY <1>10, CallsFail
<1>11. ASSUME NEW f \in Reports, ScannerReports(f) PROVE VulnInv'
  BY <1>11, FindingReported
<1>12. ASSUME NEW i \in DOMAIN scanner.findings, CloseFinding(i) PROVE VulnInv'
  BY <1>12, FindingClosed
<1>13. ASSUME NEW h \in Hosts, EnrolDevice(h) \/ RetireDevice(h) PROVE VulnInv'
  BY <1>13, DeviceEnrolled, DeviceRetired
<1>14. CASE UNCHANGED vulnVars
  BY <1>14 DEF vulnVars, VulnInv
<1>15. QED
  BY <1>1, <1>2, <1>3, <1>4, <1>5, <1>6, <1>7, <1>8, <1>9, <1>10, <1>11, <1>12, <1>13, <1>14
     DEF VulnNext

(* What the invariant says of an answer. *)

AnswerIs(fs, ds) ==
  /\ DOMAIN vreq.evidence = 1..Len(fs) + Len(ds)
  /\ \A i \in 1..Len(fs) : vreq.evidence[i] = VulnFindingToEvidence(fs[i])
  /\ \A i \in 1..Len(ds) : vreq.evidence[Len(fs) + i] = EndpointDeviceToEvidence(ds[i])
  /\ \A e : e \in ItemsOf("vulnerability") <=> \E i \in 1..Len(fs) : e = VulnFindingToEvidence(fs[i])
  /\ \A e : e \in ItemsOf("endpoint") <=> \E i \in 1..Len(ds) : e = EndpointDeviceToEvidence(ds[i])

LEMMA AnswerHolds ==
  ASSUME VulnInv, vreq.route = "evidence", vreq.status = 200
  PROVE  AnswerIs(vreq.findings, vreq.devices)
<1>1. PICK fs \in Seq(Found), ds \in Seq(AnswerHosts) :
        fs = vreq.findings /\ ds = vreq.devices /\ vreq.evidence = VulnEvidence(fs, ds)
  BY DEF VulnInv, VulnRequests, RequestOK
<1>2. PICK n \in Nat, m \in Nat : n = Len(fs) /\ m = Len(ds)
  BY LenProperties
<1>3. PICK ev \in Seq(ToldOf) :
        /\ ev = vreq.evidence /\ Len(ev) = n + m
        /\ \A i \in 1..n : ev[i] = VulnFindingToEvidence(fs[i])
        /\ \A i \in 1..m : ev[n + i] = EndpointDeviceToEvidence(ds[i])
  <2>1. PICK ev : ev = VulnEvidence(fs, ds)
    OBVIOUS
  <2>2. /\ ev \in Seq(ToldOf) /\ Len(ev) = Len(fs) + Len(ds)
        /\ \A i \in 1..Len(fs) : ev[i] = VulnFindingToEvidence(fs[i])
        /\ \A i \in 1..Len(ds) : ev[Len(fs) + i] = EndpointDeviceToEvidence(ds[i])
    BY <2>1, EvidenceItems
  <2>3. /\ ev = vreq.evidence /\ Len(ev) = n + m
        /\ \A i \in 1..n : ev[i] = VulnFindingToEvidence(fs[i])
        /\ \A i \in 1..m : ev[n + i] = EndpointDeviceToEvidence(ds[i])
    BY <1>1, <1>2, <2>1, <2>2
  <2> QED  BY <2>2, <2>3
<1>4. DOMAIN ev = 1..n + m
  BY <1>3, LenProperties
<1>5. \A i \in 1..n + m : i \in 1..n \/ \E k \in 1..m : i = n + k
  <2>1. ASSUME NEW i \in 1..n + m, ~(i \in 1..n) PROVE i - n \in 1..m /\ i = n + (i - n)
    BY <2>1
  <2> QED  BY <2>1
<1>6. ASSUME NEW i \in 1..n
      PROVE  /\ i \in 1..n + m /\ ev[i] = VulnFindingToEvidence(fs[i])
             /\ ev[i].category = "vulnerability"
  <2>1. i \in 1..n + m
    OBVIOUS
  <2>2. ev[i] = VulnFindingToEvidence(fs[i])
    BY <1>3
  <2> QED  BY <2>1, <2>2 DEF VulnFindingToEvidence
<1>7. ASSUME NEW k \in 1..m
      PROVE  /\ n + k \in 1..n + m /\ ev[n + k] = EndpointDeviceToEvidence(ds[k])
             /\ ev[n + k].category = "endpoint"
  <2>1. n + k \in 1..n + m
    OBVIOUS
  <2>2. ev[n + k] = EndpointDeviceToEvidence(ds[k])
    BY <1>3
  <2> QED  BY <2>1, <2>2 DEF EndpointDeviceToEvidence
<1>8. ASSUME NEW c, NEW e
      PROVE  e \in ItemsOf(c) <=> e.category = c /\ \E i \in 1..n + m : e = ev[i]
  BY <1>3, <1>4 DEF ItemsOf, ToSet
<1>9. ASSUME NEW e
      PROVE  e \in ItemsOf("vulnerability") <=> \E i \in 1..n : e = VulnFindingToEvidence(fs[i])
  <2>1. ASSUME e \in ItemsOf("vulnerability")
        PROVE  \E i \in 1..n : e = VulnFindingToEvidence(fs[i])
    <3>1. e.category = "vulnerability" /\ \E i \in 1..n + m : e = ev[i]
      BY <1>8, <2>1
    <3>2. PICK i \in 1..n + m : e = ev[i]
      BY <3>1
    <3>3. ~(\E k \in 1..m : i = n + k)
      BY <1>7, <3>1, <3>2
    <3> QED  BY <1>5, <1>6, <3>2, <3>3
  <2>2. ASSUME NEW i \in 1..n, e = VulnFindingToEvidence(fs[i])
        PROVE  e \in ItemsOf("vulnerability")
    <3>1. e.category = "vulnerability" /\ e = ev[i] /\ i \in 1..n + m
      BY <1>6, <2>2
    <3> QED  BY <1>8, <3>1
  <2> QED  BY <2>1, <2>2
<1>10. ASSUME NEW e
       PROVE  e \in ItemsOf("endpoint") <=> \E i \in 1..m : e = EndpointDeviceToEvidence(ds[i])
  <2>1. ASSUME e \in ItemsOf("endpoint")
        PROVE  \E i \in 1..m : e = EndpointDeviceToEvidence(ds[i])
    <3>1. e.category = "endpoint" /\ \E i \in 1..n + m : e = ev[i]
      BY <1>8, <2>1
    <3>2. PICK i \in 1..n + m : e = ev[i]
      BY <3>1
    <3>3. ~(i \in 1..n)
      BY <1>6, <3>1, <3>2
    <3>4. PICK k \in 1..m : i = n + k
      BY <1>5, <3>3
    <3> QED  BY <1>7, <3>2, <3>4
  <2>2. ASSUME NEW i \in 1..m, e = EndpointDeviceToEvidence(ds[i])
        PROVE  e \in ItemsOf("endpoint")
    <3>1. e.category = "endpoint" /\ e = ev[n + i] /\ n + i \in 1..n + m
      BY <1>7, <2>2
    <3> QED  BY <1>8, <3>1
  <2> QED  BY <2>1, <2>2
<1>11. AnswerIs(fs, ds)
  BY <1>2, <1>3, <1>4, <1>9, <1>10 DEF AnswerIs
<1>12. QED
  BY <1>1, <1>11

LEMMA UnknownHostsExplained == VulnInv => UnknownHostIsExplained
<1> SUFFICES ASSUME VulnInv, vreq.route = "evidence", vreq.status = 200,
                    NEW e \in ItemsOf("vulnerability"),
                    \/ vreq.mock
                    \/ /\ vreq.calm /\ ~(Len(scanner.devices) > DefaultPage)
                       /\ e.host \in ToSet(scanner.devices)
             PROVE  \E d \in ItemsOf("endpoint") : d.host = e.host
  BY DEF UnknownHostIsExplained
<1>0. PICK fs \in Seq(Found), ds \in Seq(AnswerHosts) : fs = vreq.findings /\ ds = vreq.devices
  BY DEF VulnInv, VulnRequests
<1>1. PICK n \in Nat, m \in Nat : n = Len(fs) /\ m = Len(ds)
  BY LenProperties
<1>2. /\ \A x : x \in ItemsOf("vulnerability") <=> \E i \in 1..n : x = VulnFindingToEvidence(fs[i])
      /\ \A x : x \in ItemsOf("endpoint") <=> \E i \in 1..m : x = EndpointDeviceToEvidence(ds[i])
  BY <1>0, <1>1, AnswerHolds DEF AnswerIs
<1>3. PICK i \in 1..n : e = VulnFindingToEvidence(fs[i])
  BY <1>2
<1>4. e.host = fs[i].host
  BY <1>3 DEF VulnFindingToEvidence
<1>5. \E k \in 1..m : ds[k] = e.host
  <2>1. CASE vreq.mock
    <3>1. fs = MockFindings(vreq.provider) /\ ds = MockEndpoints(vreq.provider)
      BY <1>0, <2>1 DEF VulnInv, RequestOK
    <3> QED  BY <1>1, <1>4, <3>1, MockFacts
  <2>2. CASE ~vreq.mock
    <3>1. PICK D \in Seq(Hosts) : D = scanner.devices
      BY DEF VulnInv, Scanners
    <3>2. ds = FirstOf(D)
      BY <1>0, <2>2, <3>1 DEF VulnInv, Fetched
    <3>3. ds = D
      <4>1. Len(D) \in Nat /\ DefaultPage \in Nat
        BY LenProperties, ScannerAssumption
      <4>2. Len(D) <= DefaultPage
        BY <2>2, <3>1, <4>1
      <4> QED  BY <3>2, <4>2, PageFacts
    <3>4. DOMAIN D = 1..m
      BY <1>1, <3>3, LenProperties
    <3> QED  BY <2>2, <3>1, <3>3, <3>4 DEF ToSet
  <2> QED  BY <2>1, <2>2
<1>6. PICK k \in 1..m : ds[k] = e.host
  BY <1>5
<1>7. EndpointDeviceToEvidence(ds[k]) \in ItemsOf("endpoint")
  BY <1>2
<1>8. EndpointDeviceToEvidence(ds[k]).host = ds[k]
  BY DEF EndpointDeviceToEvidence
<1> QED  BY <1>6, <1>7, <1>8

\* Positions of a list of n and a list of m after it.
LEMMA TwoParts ==
  ASSUME NEW n \in Nat, NEW m \in Nat
  PROVE  /\ \A i \in 1..n + m : i \in 1..n \/ i \in n + 1..n + m
         /\ \A i \in 1..n : i \in 1..n + m
         /\ \A k \in n + 1..n + m : k \in 1..n + m /\ \E x \in 1..m : k = n + x
<1>1. ASSUME NEW k \in n + 1..n + m PROVE k - n \in 1..m /\ k = n + (k - n)
  OBVIOUS
<1> QED  BY <1>1

\* Findings come first and devices after them.
LEMMA PositionsAre ==
  ASSUME VulnInv, vreq.route = "evidence", vreq.status = 200
  PROVE  /\ PositionsOf("vulnerability") = 1..Len(vreq.findings)
         /\ PositionsOf("endpoint")
              = Len(vreq.findings) + 1..Len(vreq.findings) + Len(vreq.devices)
<1>1. PICK fs \in Seq(Found), ds \in Seq(AnswerHosts) : fs = vreq.findings /\ ds = vreq.devices
  BY DEF VulnInv, VulnRequests
<1>2. PICK n \in Nat, m \in Nat : n = Len(fs) /\ m = Len(ds)
  BY LenProperties
<1>3. PICK ev : ev = vreq.evidence
  OBVIOUS
<1>4. /\ DOMAIN ev = 1..n + m
      /\ \A i \in 1..n : ev[i] = VulnFindingToEvidence(fs[i])
      /\ \A i \in 1..m : ev[n + i] = EndpointDeviceToEvidence(ds[i])
  BY <1>1, <1>2, <1>3, AnswerHolds DEF AnswerIs
<1>5. \A i \in 1..n : ev[i].category = "vulnerability"
  <2>1. \A i \in 1..n : VulnFindingToEvidence(fs[i]).category = "vulnerability"
    BY DEF VulnFindingToEvidence
  <2> QED  BY <1>4, <2>1
<1>6. \A k \in n + 1..n + m : ev[k].category = "endpoint"
  <2>1. \A i \in 1..m : EndpointDeviceToEvidence(ds[i]).category = "endpoint"
    BY DEF EndpointDeviceToEvidence
  <2>2. ASSUME NEW k \in n + 1..n + m PROVE ev[k].category = "endpoint"
    <3>1. PICK x \in 1..m : k = n + x
      BY TwoParts
    <3>2. ev[n + x] = EndpointDeviceToEvidence(ds[x])
      BY <1>4
    <3> QED  BY <2>1, <3>1, <3>2
  <2> QED  BY <2>2
<1>7. /\ PositionsOf("vulnerability") = {i \in 1..n + m : ev[i].category = "vulnerability"}
      /\ PositionsOf("endpoint") = {i \in 1..n + m : ev[i].category = "endpoint"}
  BY <1>3, <1>4 DEF PositionsOf
<1>8. "vulnerability" # "endpoint"
  OBVIOUS
<1>9. {i \in 1..n + m : ev[i].category = "vulnerability"} = 1..n
  BY <1>5, <1>6, <1>8, TwoParts
<1>10. {i \in 1..n + m : ev[i].category = "endpoint"} = n + 1..n + m
  BY <1>5, <1>6, <1>8, TwoParts
<1> QED  BY <1>1, <1>2, <1>7, <1>9, <1>10

LEMMA CalmAnswersWhole == VulnInv => CalmAnswerIsWhole
<1> SUFFICES ASSUME VulnInv, vreq.route = "evidence", vreq.status = 200, vreq.calm, ~vreq.mock
             PROVE  /\ Cardinality(PositionsOf("endpoint")) = Len(FirstOf(scanner.devices))
                    /\ Cardinality(PositionsOf("vulnerability")) >= Len(FirstOf(scanner.findings))
  BY DEF CalmAnswerIsWhole
<1>1. PICK fs \in Seq(Found), ds \in Seq(AnswerHosts) : fs = vreq.findings /\ ds = vreq.devices
  BY DEF VulnInv, VulnRequests
<1>2. PICK n \in Nat, m \in Nat : n = Len(fs) /\ m = Len(ds)
  BY LenProperties
<1>3. n >= Len(FirstOf(scanner.findings)) /\ m = Len(FirstOf(scanner.devices))
  BY <1>1, <1>2 DEF VulnInv, Fetched, WholeOf
<1>4. PositionsOf("vulnerability") = 1..n /\ PositionsOf("endpoint") = n + 1..n + m
  BY <1>1, <1>2, PositionsAre
<1>5. Cardinality(1..n) = n /\ Cardinality(n + 1..n + m) = m
  <2>1. Cardinality(1..n) = n
    BY FS_Interval
  <2>2. Cardinality(n + 1..n + m) = IF n + 1 > n + m THEN 0 ELSE (n + m) - (n + 1) + 1
    BY FS_Interval
  <2> QED  BY <2>1, <2>2
<1> QED  BY <1>3, <1>4, <1>5

LEMMA RepeatedIdsReported == VulnInv => RepeatedIdIsReported
<1> SUFFICES ASSUME VulnInv, vreq.status = 200,
                    vreq.mock \/ (vreq.calm /\ ~ReportedTwice),
                    NEW i \in DOMAIN vreq.evidence, NEW j \in DOMAIN vreq.evidence,
                    vreq.evidence[i].id = vreq.evidence[j].id
             PROVE  i = j
  BY DEF RepeatedIdIsReported
<1>1. CASE vreq.route # "evidence"
  <2>1. vreq.evidence = <<>>
    BY <1>1 DEF VulnInv, RequestOK
  <2> QED  BY <2>1
<1>2. CASE vreq.route = "evidence"
  <2>0. PICK fs \in Seq(Found), ds \in Seq(AnswerHosts) : fs = vreq.findings /\ ds = vreq.devices
    BY DEF VulnInv, VulnRequests
  <2>a. PICK n \in Nat, m \in Nat : n = Len(fs) /\ m = Len(ds)
    BY LenProperties
  <2>b. IdsDiffer(fs)
    <3>1. CASE vreq.mock
      <4>1. fs = MockFindings(vreq.provider)
        BY <1>2, <2>0, <3>1 DEF VulnInv, RequestOK
      <4> QED  BY <4>1, MockFacts
    <3>2. CASE ~vreq.mock
      <4>1. PICK F \in Seq(Reports) : F = scanner.findings
        BY DEF VulnInv, Scanners
      <4>2. IdsDiffer(F) => IdsDiffer(fs)
        BY <1>2, <2>0, <3>2, <4>1 DEF VulnInv, Fetched, WholeOf
      <4>3. DOMAIN F = 1..Len(F)
        BY LenProperties
      <4>4. IdsDiffer(F)
        BY <3>2, <4>1, <4>3 DEF ReportedTwice, IdsDiffer
      <4> QED  BY <4>2, <4>4
    <3> QED  BY <3>1, <3>2
  <2>1. /\ n = Len(fs) /\ m = Len(ds) /\ IdsDiffer(fs) /\ AllDiffer(ds)
        /\ DOMAIN vreq.evidence = 1..n + m
        /\ \A k \in 1..n : vreq.evidence[k] = VulnFindingToEvidence(fs[k])
        /\ \A k \in 1..m : vreq.evidence[n + k] = EndpointDeviceToEvidence(ds[k])
    BY <1>2, <2>0, <2>a, <2>b, AnswerHolds DEF AnswerIs, VulnInv, RequestOK
  <2>2. PICK id : id = [k \in 1..n + m |-> vreq.evidence[k].id]
    OBVIOUS
  <2>3. ASSUME NEW k \in 1..n PROVE id[k] = <<"vuln", fs[k].id>>
    <3>1. k \in 1..n + m
      OBVIOUS
    <3>2. vreq.evidence[k] = VulnFindingToEvidence(fs[k])
      BY <2>1
    <3> QED  BY <2>2, <3>1, <3>2 DEF VulnFindingToEvidence
  <2>4. ASSUME NEW k \in 1..n + m, ~(k <= n)
        PROVE  k - n \in 1..m /\ id[k] = <<"host", ds[k - n]>>
    <3>1. k - n \in 1..m /\ n + (k - n) = k
      BY <2>4
    <3>2. vreq.evidence[k] = EndpointDeviceToEvidence(ds[k - n])
      <4>1. PICK x \in 1..m : x = k - n /\ n + x = k
        BY <3>1
      <4>2. vreq.evidence[n + x] = EndpointDeviceToEvidence(ds[x])
        BY <2>1
      <4> QED  BY <4>1, <4>2
    <3> QED  BY <2>2, <3>1, <3>2 DEF EndpointDeviceToEvidence
  <2>5. i \in 1..n + m /\ j \in 1..n + m /\ id[i] = id[j]
    BY <2>1, <2>2
  <2>6. CASE i <= n /\ j <= n
    <3>1. i \in 1..n /\ j \in 1..n
      BY <2>5, <2>6
    <3>2. <<"vuln", fs[i].id>> = <<"vuln", fs[j].id>>
      BY <2>3, <2>5, <3>1
    <3>3. fs[i].id = fs[j].id
      BY <3>2
    <3> QED  BY <2>1, <3>1, <3>3 DEF IdsDiffer
  <2>7. CASE ~(i <= n) /\ ~(j <= n)
    <3>1. /\ i - n \in 1..m /\ j - n \in 1..m
          /\ <<"host", ds[i - n]>> = <<"host", ds[j - n]>>
      BY <2>4, <2>5, <2>7
    <3>2. ds[i - n] = ds[j - n]
      BY <3>1
    <3>3. i - n = j - n
      BY <2>1, <3>1, <3>2 DEF AllDiffer
    <3> QED  BY <2>5, <3>3
  <2>8. ASSUME NEW k \in 1..n, NEW l \in 1..n + m, ~(l <= n) PROVE id[k] # id[l]
    <3>1. id[k] = <<"vuln", fs[k].id>> /\ id[l] = <<"host", ds[l - n]>>
      BY <2>3, <2>4, <2>8
    <3>2. \A x, y : <<"vuln", x>> # <<"host", y>>
      OBVIOUS
    <3> QED  BY <3>1, <3>2
  <2>9. \A k \in 1..n + m : k <= n => k \in 1..n
    OBVIOUS
  <2> QED  BY <2>5, <2>6, <2>7, <2>8, <2>9
<1> QED  BY <1>1, <1>2

LEMMA ScoresRatedAlike == VulnInv => ScoresRateAlike
<1> SUFFICES ASSUME VulnInv, NEW f \in ToSet(scanner.findings), NEW g \in ToSet(scanner.findings),
                    f.cvss3 > 0, g.cvss3 > 0
             PROVE  /\ QualysSeverity(f) = TenableSeverity(f)
                    /\ QualysSeverity(f) > 0
                    /\ f.cvss3 <= g.cvss3 => QualysSeverity(f) <= TenableSeverity(g)
  BY DEF ScoresRateAlike
<1>1. PICK F \in Seq(Reports) : F = scanner.findings
  BY DEF VulnInv, Scanners
<1>2. \A i \in DOMAIN F : F[i] \in Reports
  BY LenProperties, ElementOfSeq
<1>3. f \in Reports /\ g \in Reports
  BY <1>1, <1>2 DEF ToSet
<1>4. PICK x \in Int, y \in Int : x = f.cvss3 /\ y = g.cvss3 /\ x > 0 /\ y > 0
  BY <1>3, ScannerAssumption
<1>5. /\ NormalizeCVSS3(x) \in 0..4 /\ NormalizeCVSS3(x) # 0
      /\ x <= y => NormalizeCVSS3(x) <= NormalizeCVSS3(y)
  BY <1>4, CVSS3Rates
<1>6. QualysSeverity(f) = NormalizeCVSS3(x)
  BY <1>4, <1>5 DEF QualysSeverity
<1>7. TenableSeverity(f) = NormalizeCVSS3(x) /\ TenableSeverity(g) = NormalizeCVSS3(y)
  BY <1>4 DEF TenableSeverity
<1> QED  BY <1>4, <1>5, <1>6, <1>7

\* The evidence answered of a scanner is whole; it repeats an id or names a host it does
\* not list only when the scanner itself reports that, moves between the calls or has
\* more devices than a page; its severities are comparable.  However requests, calls and
\* the scanner's changes interleave (the vulnerability handlers, the connectors' fetches).
THEOREM SpecScanIsExplained == VulnSpec => []ScanIsExplained
<1>1. VulnInit => VulnInv
  BY VulnInitOK
<1>2. VulnInv /\ [VulnNext]_vulnVars => VulnInv'
  BY VulnStep
<1>3. VulnInv => ScanIsExplained
  BY UnknownHostsExplained, CalmAnswersWhole, RepeatedIdsReported, ScoresRatedAlike
     DEF ScanIsExplained
<1> QED  BY <1>1, <1>2, <1>3, PTL DEF VulnSpec

(***************************************************************************)
(* Security Hub: shares, and the finite sets a page is summed over          *)
(***************************************************************************)

\* What a product keeps of an order.
LEMMA TimesGrows ==
  ASSUME NEW a \in Nat, NEW b \in Nat, NEW c \in Nat, a <= b
  PROVE  c * a <= c * b
OBVIOUS

LEMMA TimesCancels ==
  ASSUME NEW a \in Nat, NEW b \in Nat, NEW c \in Nat, c * a < c * b
  PROVE  a < b
<1>1. b <= a => c * b <= c * a
  BY TimesGrows
<1>2. c * a \in Nat /\ c * b \in Nat
  OBVIOUS
<1> QED  BY <1>1, <1>2

LEMMA ShareFacts ==
  ASSUME NEW a \in Nat, NEW t \in Nat, t > 0
  PROVE  /\ a \div t \in Nat /\ t * (a \div t) <= a
         /\ a < t * ((a \div t) + 1)
OBVIOUS

\* A share of c parts is all of them only when nothing is left out.
LEMMA ShareIsFull ==
  ASSUME NEW c \in Nat, c > 0, NEW n \in Nat, NEW t \in Nat, t > 0, n <= t
  PROVE  /\ (c * n) \div t \in 0..c
         /\ (c * n) \div t = c <=> n = t
<1>1. PICK a \in Nat : a = c * n
  OBVIOUS
<1>2. PICK q \in Nat : q = a \div t /\ t * q <= a /\ a < t * (q + 1)
  BY <1>1, ShareFacts
<1>3. a <= c * t /\ c * t = t * c /\ c * t \in Nat
  BY <1>1, TimesGrows
<1>4. q <= c
  <2>1. t * q < t * (c + 1)
    <3>1. t * (c + 1) = t * c + t
      OBVIOUS
    <3>2. t * q \in Nat
      OBVIOUS
    <3> QED  BY <1>2, <1>3, <3>1, <3>2
  <2>2. q < c + 1
    BY <2>1, TimesCancels
  <2> QED  BY <2>2
<1>5. ASSUME q = c PROVE n = t
  <2>1. c * t <= c * n
    BY <1>1, <1>2, <1>3, <1>5
  <2>2. n < t => c * n < c * t
    <3> SUFFICES ASSUME n < t PROVE c * n < c * t
      OBVIOUS
    <3>1. c * (n + 1) <= c * t
      BY TimesGrows
    <3>2. c * (n + 1) = c * n + c
      OBVIOUS
    <3>3. c * n \in Nat /\ c * t \in Nat
      OBVIOUS
    <3> QED  BY <3>1, <3>2, <3>3
  <2>3. c * n \in Nat /\ c * t \in Nat
    OBVIOUS
  <2> QED  BY <2>1, <2>2, <2>3
<1>6. ASSUME n = t PROVE q = c
  <2>1. t * c < t * (q + 1)
    BY <1>1, <1>2, <1>3, <1>6
  <2>2. c < q + 1
    BY <2>1, TimesCancels
  <2> QED  BY <2>2, <1>4
<1> QED  BY <1>1, <1>2, <1>4, <1>5, <1>6

\* A share grows with what it counts and shrinks with what it is counted in.
LEMMA ShareGrows ==
  ASSUME NEW a \in Nat, NEW b \in Nat, NEW t \in Nat, NEW u \in Nat,
         a <= b, 0 < u, u <= t
  PROVE  a \div t <= b \div u
<1>1. PICK p \in Nat : p = a \div t /\ t * p <= a /\ a < t * (p + 1)
  BY ShareFacts
<1>2. PICK q \in Nat : q = b \div u /\ u * q <= b /\ b < u * (q + 1)
  BY ShareFacts
<1>3. u * p <= t * p
  <2>1. p * u <= p * t
    BY TimesGrows
  <2> QED  BY <2>1
<1>4. u * p < u * (q + 1)
  <2>1. u * p \in Nat /\ t * p \in Nat /\ u * (q + 1) \in Nat
    OBVIOUS
  <2> QED  BY <1>1, <1>2, <1>3, <2>1
<1>5. p < q + 1
  BY <1>4, TimesCancels
<1> QED  BY <1>1, <1>2, <1>5

\* What is left of t once w of it is lost, in c parts; nothing to lose is all.
Left(c, t, w) == IF t = 0 THEN c ELSE (c * (t - w)) \div t

LEMMA LeftFacts ==
  ASSUME NEW c \in Nat, c > 0, NEW t \in Nat, NEW w \in Nat, w <= t
  PROVE  Left(c, t, w) \in 0..c /\ (Left(c, t, w) < c <=> w > 0)
<1>1. CASE t = 0
  BY <1>1 DEF Left
<1>2. CASE t # 0
  <2>1. PICK m \in Nat : m = t - w /\ m <= t /\ (m = t <=> w = 0)
    OBVIOUS
  <2>2. PICK q : q = (c * m) \div t
    OBVIOUS
  <2>3. q \in 0..c /\ (q = c <=> m = t)
    BY <1>2, <2>1, <2>2, ShareIsFull
  <2>4. Left(c, t, w) = q
    BY <1>2, <2>1, <2>2 DEF Left
  <2> QED  BY <2>1, <2>3, <2>4
<1> QED  BY <1>1, <1>2

LEMMA LeftGrows ==
  ASSUME NEW c \in Nat, c > 0, NEW t \in Nat, NEW w \in Nat, w <= t,
         NEW u \in Nat, NEW v \in Nat, v <= u, u <= t, t - w <= u - v
  PROVE  Left(c, t, w) <= Left(c, u, v)
<1>1. CASE u = 0
  <2>1. Left(c, u, v) = c
    BY <1>1 DEF Left
  <2>2. Left(c, t, w) \in 0..c
    BY LeftFacts
  <2> QED  BY <2>1, <2>2
<1>2. CASE u # 0
  <2>1. PICK m \in Nat : m = t - w
    OBVIOUS
  <2>2. PICK n \in Nat : n = u - v /\ m <= n
    BY <2>1
  <2>3. PICK a \in Nat : a = c * m
    OBVIOUS
  <2>4. PICK b \in Nat : b = c * n
    OBVIOUS
  <2>5. a <= b
    BY <2>2, <2>3, <2>4, TimesGrows
  <2>6. a \div t <= b \div u
    BY <1>2, <2>5, ShareGrows
  <2>7. Left(c, t, w) = a \div t
    <3>1. t # 0
      BY <1>2
    <3> QED  BY <2>1, <2>3, <3>1 DEF Left
  <2>8. Left(c, u, v) = b \div u
    BY <1>2, <2>2, <2>4 DEF Left
  <2> QED  BY <2>6, <2>7, <2>8
<1> QED  BY <1>1, <1>2

LEMMA SetOfList ==
  ASSUME NEW T, NEW s \in Seq(T)
  PROVE  IsFiniteSet(ToSet(s)) /\ ToSet(s) \subseteq T
<1>1. PICK n \in Nat : n = Len(s) /\ DOMAIN s = 1..n
  BY LenProperties
<1>2. IsFiniteSet(1..n)
  BY FS_Interval
<1>3. ToSet(s) = {s[i] : i \in 1..n}
  BY <1>1 DEF ToSet
<1>4. PICK g : g = [i \in 1..n |-> s[i]]
  OBVIOUS
<1>5. g \in Surjection(1..n, ToSet(s))
  BY <1>3, <1>4 DEF Surjection
<1>6. IsFiniteSet(ToSet(s))
  BY <1>2, <1>5, FS_Surjection
<1>7. \A i \in 1..n : s[i] \in T
  BY <1>1, ElementOfSeq
<1> QED  BY <1>3, <1>6, <1>7

LEMMA WeightIsNat == \A f : Weight(f) \in Nat
BY DEF Weight

LEMMA WeightsAreFinite ==
  ASSUME NEW page, NEW n \in Nat, NEW P \in SUBSET (1..n),
         NEW w, w = [i \in P |-> Weight(page[i])]
  PROVE  IsFiniteSet(P) /\ \A i \in P : w[i] \in Nat /\ w[i] = Weight(page[i])
<1>1. IsFiniteSet(1..n)
  BY FS_Interval
<1>2. IsFiniteSet(P)
  BY <1>1, FS_Subset
<1> QED  BY <1>2, WeightIsNat

LEMMA TotalIsNat ==
  ASSUME NEW page, NEW n \in Nat, NEW P \in SUBSET (1..n)
  PROVE  /\ TotalWeight(page, P) \in Nat
         /\ TotalWeight(page, P) > 0 <=> \E i \in P : Weight(page[i]) > 0
<1>1. PICK w : w = [i \in P |-> Weight(page[i])]
  OBVIOUS
<1>2. IsFiniteSet(P) /\ \A i \in P : w[i] \in Nat /\ w[i] = Weight(page[i])
  BY <1>1, WeightsAreFinite
<1>3. TotalWeight(page, P) = SumFunctionOnSet(w, P)
  BY <1>1 DEF TotalWeight
<1>4. SumFunctionOnSet(w, P) \in Nat /\ \A x \in P : w[x] <= SumFunctionOnSet(w, P)
  BY <1>2, SumOfNats
<1>5. (\A x \in P : w[x] = 0) => SumFunctionOnSet(w, P) = 0
  BY <1>2, SumOfZeros
<1> QED  BY <1>2, <1>3, <1>4, <1>5

LEMMA TotalAgrees ==
  ASSUME NEW page, NEW other, NEW n \in Nat, NEW P \in SUBSET (1..n),
         \A i \in P : Weight(page[i]) = Weight(other[i])
  PROVE  TotalWeight(page, P) = TotalWeight(other, P)
<1>1. [i \in P |-> Weight(page[i])] = [i \in P |-> Weight(other[i])]
  OBVIOUS
<1> QED  BY <1>1, Zenon DEF TotalWeight

LEMMA TotalOfPart ==
  ASSUME NEW page, NEW n \in Nat, NEW P \in SUBSET (1..n), NEW Q \in SUBSET P
  PROVE  TotalWeight(page, Q) <= TotalWeight(page, P)
<1>1. PICK w : w = [i \in P |-> Weight(page[i])]
  OBVIOUS
<1>2. PICK v : v = [i \in Q |-> Weight(page[i])]
  OBVIOUS
<1>3. IsFiniteSet(P) /\ \A i \in P : w[i] \in Nat /\ w[i] = Weight(page[i])
  BY <1>1, WeightsAreFinite
<1>4. IsFiniteSet(Q) /\ \A i \in Q : v[i] = w[i]
  <2>1. IsFiniteSet(Q)
    BY <1>3, FS_Subset
  <2> QED  BY <1>1, <1>2, <2>1
<1>5. SumFunctionOnSet(v, Q) = SumFunctionOnSet(w, Q)
  BY <1>4, SumOfEqual
<1>6. SumFunctionOnSet(w, Q) <= SumFunctionOnSet(w, P)
  BY <1>3, SumOfPart
<1>7. TotalWeight(page, Q) = SumFunctionOnSet(v, Q)
  BY <1>2, Zenon DEF TotalWeight
<1>8. TotalWeight(page, P) = SumFunctionOnSet(w, P)
  BY <1>1, Zenon DEF TotalWeight
<1> QED  BY <1>5, <1>6, <1>7, <1>8

Without(R, P, e) == R = P \ {e}

LEMMA TotalWithout ==
  ASSUME NEW page, NEW n \in Nat, NEW P \in SUBSET (1..n), NEW e \in P,
         NEW R, Without(R, P, e)
  PROVE  TotalWeight(page, P) = Weight(page[e]) + TotalWeight(page, R)
<1>1. PICK w : w = [i \in P |-> Weight(page[i])]
  OBVIOUS
<1>2. PICK v : v = [i \in P \ {e} |-> Weight(page[i])]
  OBVIOUS
<1>3. IsFiniteSet(P) /\ \A i \in P : w[i] \in Nat /\ w[i] = Weight(page[i])
  BY <1>1, WeightsAreFinite
<1>4. IsFiniteSet(P \ {e}) /\ \A i \in P \ {e} : v[i] = w[i]
  <2>1. IsFiniteSet(P \ {e})
    BY <1>3, FS_RemoveElement
  <2> QED  BY <1>1, <1>2, <2>1
<1>5. SumFunctionOnSet(v, P \ {e}) = SumFunctionOnSet(w, P \ {e})
  BY <1>4, SumOfEqual
<1>6. IsFiniteSet(P) /\ \A i \in P : w[i] \in Int
  BY <1>3
<1>7. SumFunctionOnSet(w, P) = w[e] + SumFunctionOnSet(w, P \ {e})
  BY <1>6, SumOfRest, Zenon
<1>8. TotalWeight(page, P \ {e}) = SumFunctionOnSet(v, P \ {e})
  BY <1>2, Zenon DEF TotalWeight
<1>9. TotalWeight(page, P) = SumFunctionOnSet(w, P)
  BY <1>1, Zenon DEF TotalWeight
<1>10. TotalWeight(page, P) = Weight(page[e]) + TotalWeight(page, P \ {e})
  BY <1>3, <1>5, <1>7, <1>8, <1>9
<1> QED  BY <1>10 DEF Without

LEMMA FullScoreIs == FullScore \in Nat /\ FullScore > 0
BY SMT DEF FullScore

\* The score is the share of the priced weight that has not failed.
LEMMA ScoreIs ==
  ASSUME NEW page, NEW n \in Nat, DOMAIN page = 1..n,
         NEW t, t = TotalWeight(page, Priced(page)),
         NEW w, w = TotalWeight(page, FailedPriced(page))
  PROVE  /\ t \in Nat /\ w \in Nat /\ w <= t
         /\ CalculateSecurityScore(page) = Left(FullScore, t, w)
         /\ CalculateSecurityScore(page) \in 0..FullScore
         /\ CalculateSecurityScore(page) < FullScore <=>
              \E i \in FailedPriced(page) : Weight(page[i]) > 0
<1>1. Priced(page) \in SUBSET (1..n) /\ FailedPriced(page) \in SUBSET Priced(page)
  BY DEF Priced, FailedPriced
<1>2. FailedPriced(page) \in SUBSET (1..n)
  BY <1>1
<1>3. t \in Nat
  BY <1>1, TotalIsNat
<1>4. w \in Nat /\ (w > 0 <=> \E i \in FailedPriced(page) : Weight(page[i]) > 0)
  BY <1>2, TotalIsNat
<1>5. w <= t
  BY <1>1, TotalOfPart
<1>6. CalculateSecurityScore(page) = Left(FullScore, t, w)
  BY Zenon DEF CalculateSecurityScore, Left
<1>7. /\ Left(FullScore, t, w) \in 0..FullScore
      /\ Left(FullScore, t, w) < FullScore <=> w > 0
  BY <1>3, <1>4, <1>5, FullScoreIs, LeftFacts
<1> QED  BY <1>3, <1>4, <1>5, <1>6, <1>7

\* One finding of a page, checked again or archived.
LEMMA FindingRechecked ==
  ASSUME NEW f \in HubFindings, NEW st \in Statuses
  PROVE  LET g == [f EXCEPT !.compliance.status = st]
         IN  /\ g \in HubFindings /\ g.label = f.label /\ g.active = f.active
             /\ g.compliance.status = st
<1> DEFINE Rated == [status : Statuses, control : HubIds \cup {""}, standards : Seq(HubIds)]
<1>1. f.compliance \in Rated
  BY DEF HubFindings
<1> DEFINE Listed == Seq(HubIds)
           Ids == HubIds \cup {""}
<1>2. PICK c \in Rated : c = [f.compliance EXCEPT !.status = st] /\ c.status = st
  <2>1. PICK d : d = [f.compliance EXCEPT !.status = st]
    OBVIOUS
  <2>2. Rated = [status : Statuses, control : Ids, standards : Listed]
    OBVIOUS
  <2> HIDE DEF Rated, Listed, Ids
  <2>3. d \in Rated /\ d.status = st
    BY <1>1, <2>1, <2>2
  <2> QED  BY <2>1, <2>3
<1> DEFINE Missed == SUBSET DOMAIN Penalty
<1>3. HubFindings = [label : Labels, active : BOOLEAN, generator : HubIds,
                     compliance : Rated, missing : Missed, age : Int,
                     remedied : BOOLEAN, typed : BOOLEAN, hits : Nat]
  BY DEF HubFindings
<1> HIDE DEF Rated, Missed
<1>4. [f EXCEPT !.compliance.status = st] = [f EXCEPT !.compliance = c]
  BY <1>2
<1>5. PICK g : g = [f EXCEPT !.compliance = c]
  OBVIOUS
<1>6. g \in HubFindings /\ g.label = f.label /\ g.active = f.active /\ g.compliance = c
  BY <1>2, <1>3, <1>5
<1> QED  BY <1>2, <1>4, <1>5, <1>6

LEMMA FindingArchived ==
  ASSUME NEW f \in HubFindings
  PROVE  LET g == [f EXCEPT !.active = FALSE]
         IN  /\ g \in HubFindings /\ g.label = f.label /\ ~g.active
             /\ g.compliance = f.compliance
<1> DEFINE Rated == [status : Statuses, control : HubIds \cup {""}, standards : Seq(HubIds)]
           Missed == SUBSET DOMAIN Penalty
<1>1. HubFindings = [label : Labels, active : BOOLEAN, generator : HubIds,
                     compliance : Rated, missing : Missed, age : Int,
                     remedied : BOOLEAN, typed : BOOLEAN, hits : Nat]
  BY DEF HubFindings
<1> HIDE DEF Rated, Missed
<1>2. PICK g : g = [f EXCEPT !.active = FALSE]
  OBVIOUS
<1>3. /\ g \in HubFindings /\ g.label = f.label /\ ~g.active
      /\ g.compliance = f.compliance
  BY <1>1, <1>2
<1> QED  BY <1>2, <1>3

LEMMA PageChanged ==
  ASSUME NEW T, NEW s \in Seq(T), NEW i \in DOMAIN s, NEW g \in T
  PROVE  LET r == [s EXCEPT ![i] = g]
         IN  /\ r \in Seq(T) /\ DOMAIN r = DOMAIN s /\ r[i] = g
             /\ \A j \in DOMAIN s : j # i => r[j] = s[j]
<1>1. PICK n \in Nat : n = Len(s) /\ DOMAIN s = 1..n
  BY LenProperties
<1>2. \A j \in 1..n : s[j] \in T
  BY <1>1, ElementOfSeq
<1>3. PICK r : r = [s EXCEPT ![i] = g]
  OBVIOUS
<1>4. DOMAIN r = 1..n /\ r[i] = g /\ \A j \in 1..n : j # i => r[j] = s[j]
  BY <1>1, <1>3
<1>5. r = [j \in 1..n |-> r[j]] /\ \A j \in 1..n : r[j] \in T
  BY <1>1, <1>2, <1>3, <1>4
<1>6. r \in Seq(T)
  BY <1>5
<1> QED  BY <1>1, <1>3, <1>4, <1>6

\* Its weight no longer counts as failed: the rest does.
LEMMA RecheckRaises ==
  ASSUME NEW page \in Seq(HubFindings), NEW i \in DOMAIN page, Fails(page[i])
  PROVE  CalculateSecurityScore([page EXCEPT ![i].compliance.status = "PASSED"])
           >= CalculateSecurityScore(page)
<1>1. PICK n \in Nat : n = Len(page) /\ DOMAIN page = 1..n
  BY LenProperties
<1>2. page[i] \in HubFindings
  BY <1>1, ElementOfSeq
<1>3. PICK g \in HubFindings : /\ g = [page[i] EXCEPT !.compliance.status = "PASSED"]
                               /\ g.label = page[i].label /\ g.active = page[i].active
                               /\ g.compliance.status = "PASSED"
  <2>1. PICK st : st = "PASSED"
    OBVIOUS
  <2>5. st \in Statuses
    BY <2>1 DEF Statuses
  <2>2. PICK f \in HubFindings : f = page[i]
    BY <1>2
  <2>3. PICK g : g = [f EXCEPT !.compliance.status = st]
    OBVIOUS
  <2>4. /\ g \in HubFindings /\ g.label = f.label /\ g.active = f.active
        /\ g.compliance.status = st
    BY <2>2, <2>3, <2>5, FindingRechecked
  <2> QED  BY <2>1, <2>2, <2>3, <2>4
<1>4. PICK q : q = [page EXCEPT ![i].compliance.status = "PASSED"]
  OBVIOUS
<1>5. q = [page EXCEPT ![i] = g]
  BY <1>3, <1>4
<1>6. /\ DOMAIN q = 1..n /\ q[i] = g
      /\ \A j \in 1..n : j # i => q[j] = page[j]
  BY <1>1, <1>5, PageChanged
<1>7. \A j \in 1..n : Weight(page[j]) = Weight(q[j])
  <2>1. Weight(g) = Weight(page[i])
    BY <1>3 DEF Weight
  <2> QED  BY <1>6, <2>1
<1>8. Priced(q) = Priced(page) /\ Priced(page) \in SUBSET (1..n)
  BY <1>1, <1>3, <1>6 DEF Priced
<1>9. FailedPriced(q) \in SUBSET FailedPriced(page) /\ FailedPriced(page) \in SUBSET (1..n)
  BY <1>1, <1>3, <1>6 DEF FailedPriced, Fails
<1>10. TotalWeight(page, Priced(page)) = TotalWeight(q, Priced(q))
  <2>1. \A j \in Priced(page) : Weight(page[j]) = Weight(q[j])
    BY <1>7, <1>8
  <2>2. TotalWeight(page, Priced(page)) = TotalWeight(q, Priced(page))
    BY <1>8, <2>1, TotalAgrees
  <2> QED  BY <1>8, <2>2
<1>11. PICK t : t = TotalWeight(page, Priced(page))
  OBVIOUS
<1>12. PICK w : w = TotalWeight(page, FailedPriced(page))
  OBVIOUS
<1>13. PICK v : v = TotalWeight(q, FailedPriced(q))
  OBVIOUS
<1>14. v <= w
  <2>1. FailedPriced(q) \in SUBSET (1..n)
    BY <1>9
  <2>2. TotalWeight(page, FailedPriced(q)) = v
    BY <1>7, <1>13, <2>1, TotalAgrees
  <2>3. TotalWeight(page, FailedPriced(q)) <= TotalWeight(page, FailedPriced(page))
    BY <1>9, TotalOfPart
  <2> QED  BY <1>12, <2>2, <2>3
<1>15. /\ t \in Nat /\ w \in Nat /\ w <= t
       /\ CalculateSecurityScore(page) = Left(FullScore, t, w)
       /\ CalculateSecurityScore(page) \in 0..FullScore
  BY <1>1, <1>11, <1>12, ScoreIs
<1>16. /\ v \in Nat /\ v <= t
       /\ CalculateSecurityScore(q) = Left(FullScore, t, v)
       /\ CalculateSecurityScore(q) \in 0..FullScore
  BY <1>6, <1>10, <1>11, <1>13, ScoreIs
<1>17. Left(FullScore, t, w) <= Left(FullScore, t, v)
  <2>1. t - w <= t - v /\ t <= t
    BY <1>14, <1>15, <1>16
  <2> QED  BY <1>15, <1>16, <2>1, FullScoreIs, LeftGrows
<1>18. CalculateSecurityScore(q) >= CalculateSecurityScore(page)
  BY <1>15, <1>16, <1>17, FullScoreIs
<1> QED  BY <1>4, <1>18

\* It leaves both weights, if it was in them: the share is of less.
LEMMA ArchiveRaises ==
  ASSUME NEW page \in Seq(HubFindings), NEW i \in DOMAIN page, Fails(page[i])
  PROVE  CalculateSecurityScore([page EXCEPT ![i].active = FALSE])
           >= CalculateSecurityScore(page)
<1>1. PICK n \in Nat : n = Len(page) /\ DOMAIN page = 1..n
  BY LenProperties
<1>2. page[i] \in HubFindings
  BY <1>1, ElementOfSeq
<1>3. PICK g \in HubFindings : /\ g = [page[i] EXCEPT !.active = FALSE]
                               /\ g.label = page[i].label /\ ~g.active
                               /\ g.compliance = page[i].compliance
  BY <1>2, FindingArchived
<1>4. PICK q : q = [page EXCEPT ![i].active = FALSE]
  OBVIOUS
<1>5. q = [page EXCEPT ![i] = g]
  BY <1>3, <1>4
<1>6. /\ DOMAIN q = 1..n /\ q[i] = g
      /\ \A j \in 1..n : j # i => q[j] = page[j]
  BY <1>1, <1>5, PageChanged
<1>7. \A j \in 1..n : Weight(page[j]) = Weight(q[j])
  <2>1. Weight(g) = Weight(page[i])
    BY <1>3 DEF Weight
  <2> QED  BY <1>6, <2>1
<1>8. Priced(q) = Priced(page) \ {i} /\ Priced(page) \in SUBSET (1..n)
  BY <1>1, <1>3, <1>6 DEF Priced
<1>9. FailedPriced(q) = FailedPriced(page) \ {i} /\ FailedPriced(page) \in SUBSET (1..n)
  BY <1>1, <1>3, <1>6 DEF FailedPriced
<1>10. i \in Priced(page) <=> i \in FailedPriced(page)
  BY DEF Priced, FailedPriced
<1>11. PICK t : t = TotalWeight(page, Priced(page))
  OBVIOUS
<1>12. PICK w : w = TotalWeight(page, FailedPriced(page))
  OBVIOUS
<1>13. PICK u : u = TotalWeight(q, Priced(q))
  OBVIOUS
<1>14. PICK v : v = TotalWeight(q, FailedPriced(q))
  OBVIOUS
<1>15. /\ t \in Nat /\ w \in Nat /\ w <= t
       /\ CalculateSecurityScore(page) = Left(FullScore, t, w)
       /\ CalculateSecurityScore(page) \in 0..FullScore
  BY <1>1, <1>11, <1>12, ScoreIs
<1>16. /\ u \in Nat /\ v \in Nat /\ v <= u
       /\ CalculateSecurityScore(q) = Left(FullScore, u, v)
       /\ CalculateSecurityScore(q) \in 0..FullScore
  BY <1>6, <1>13, <1>14, ScoreIs
<1>17. TotalWeight(page, Priced(q)) = u /\ TotalWeight(page, FailedPriced(q)) = v
  <2>1. Priced(q) \in SUBSET (1..n) /\ FailedPriced(q) \in SUBSET (1..n)
    BY <1>8, <1>9
  <2>2. TotalWeight(page, Priced(q)) = TotalWeight(q, Priced(q))
    BY <1>7, <2>1, TotalAgrees
  <2>3. TotalWeight(page, FailedPriced(q)) = TotalWeight(q, FailedPriced(q))
    BY <1>7, <2>1, TotalAgrees
  <2> QED  BY <1>13, <1>14, <2>2, <2>3
<1>18. u <= t /\ u - v = t - w
  <2>1. CASE i \in Priced(page)
    <3>1. t = Weight(page[i]) + u
      <4>1. PICK A \in SUBSET (1..n) : A = Priced(page)
        BY <1>8
      <4>2. PICK R : R = Priced(q)
        OBVIOUS
      <4>3. i \in A /\ Without(R, A, i)
        BY <1>8, <2>1, <4>1, <4>2 DEF Without
      <4>4. TotalWeight(page, A) = Weight(page[i]) + TotalWeight(page, R)
        BY <1>1, <4>1, <4>3, TotalWithout, Zenon
      <4> QED  BY <1>11, <1>17, <4>1, <4>2, <4>4
    <3>2. w = Weight(page[i]) + v
      <4>1. PICK A \in SUBSET (1..n) : A = FailedPriced(page)
        BY <1>9
      <4>2. PICK R : R = FailedPriced(q)
        OBVIOUS
      <4>3. i \in A /\ Without(R, A, i)
        BY <1>9, <1>10, <2>1, <4>1, <4>2 DEF Without
      <4>4. TotalWeight(page, A) = Weight(page[i]) + TotalWeight(page, R)
        BY <1>1, <4>1, <4>3, TotalWithout, Zenon
      <4> QED  BY <1>12, <1>17, <4>1, <4>2, <4>4
    <3>3. Weight(page[i]) \in Nat
      BY WeightIsNat
    <3> QED  BY <1>15, <1>16, <3>1, <3>2, <3>3
  <2>2. CASE i \notin Priced(page)
    <3>1. Priced(q) = Priced(page) /\ FailedPriced(q) = FailedPriced(page)
      BY <1>8, <1>9, <1>10, <2>2
    <3> QED  BY <1>11, <1>12, <1>15, <1>17, <3>1
  <2> QED  BY <2>1, <2>2
<1>19. Left(FullScore, t, w) <= Left(FullScore, u, v)
  <2>1. t - w <= u - v
    BY <1>15, <1>16, <1>18
  <2> QED  BY <1>15, <1>16, <1>18, <2>1, FullScoreIs, LeftGrows
<1>20. CalculateSecurityScore(q) >= CalculateSecurityScore(page)
  BY <1>15, <1>16, <1>19, FullScoreIs
<1> QED  BY <1>4, <1>20

(***************************************************************************)
(* Security Hub: the summaries                                              *)
(***************************************************************************)

LEMMA FunctionOfFinite ==
  ASSUME NEW S, IsFiniteSet(S), NEW g, g = [x \in S |-> g[x]],
         NEW R, R = {g[x] : x \in S}
  PROVE  IsFiniteSet(R)
<1>1. g \in Surjection(S, R)
  BY DEF Surjection
<1> QED  BY <1>1, FS_Surjection

\* The controls a finding counts under, one for each standard it names.
KeysOf(f) == {<<FriendlyStandardName(s), ControlOf(f)>> : s \in ToSet(f.compliance.standards)}

LEMMA StandardsFacts ==
  ASSUME NEW f \in HubFindings
  PROVE  /\ f.compliance.standards \in Seq(HubIds)
         /\ IsFiniteSet(ToSet(f.compliance.standards))
         /\ f.compliance.standards # <<>> <=> \E s : s \in ToSet(f.compliance.standards)
<1>1. PICK l : l = f.compliance.standards
  OBVIOUS
<1>2. l \in Seq(HubIds)
  <2> DEFINE Rated == [status : Statuses, control : HubIds \cup {""}, standards : Seq(HubIds)]
  <2>1. f.compliance \in Rated
    BY DEF HubFindings
  <2> QED  BY <1>1, <2>1
<1>3. IsFiniteSet(ToSet(l))
  BY <1>2, SetOfList
<1>4. l # <<>> <=> \E s : s \in ToSet(l)
  <2>1. PICK n \in Nat : n = Len(l) /\ DOMAIN l = 1..n
    BY <1>2, LenProperties
  <2>2. (l = <<>>) <=> (n = 0)
    BY <1>2, <2>1, EmptySeq
  <2>3. n # 0 <=> \E i : i \in 1..n
    <3>1. n # 0 => 1 \in 1..n
      OBVIOUS
    <3> QED  BY <3>1
  <2>4. ToSet(l) = {l[i] : i \in 1..n}
    BY <2>1 DEF ToSet
  <2> QED  BY <2>2, <2>3, <2>4
<1> QED  BY <1>1, <1>2, <1>3, <1>4

LEMMA KeysAre ==
  ASSUME NEW page \in Seq(HubFindings)
  PROVE  /\ IsFiniteSet(ControlKeys(page))
         /\ \A key : key \in ControlKeys(page) <=> \E f \in ToSet(page) : Names(f, key)
         /\ \A f, key : Names(f, key) <=> key \in KeysOf(f)
<1>1. PICK F : F = ToSet(page)
  OBVIOUS
<1>2. IsFiniteSet(F) /\ F \subseteq HubFindings
  BY <1>1, SetOfList
<1>3. \A f, key : Names(f, key) <=> key \in KeysOf(f)
  BY DEF Names, KeysOf
<1>4. PICK K : K = {KeysOf(f) : f \in F}
  OBVIOUS
<1>5. ControlKeys(page) = UNION K
  BY <1>1, <1>4 DEF ControlKeys, KeysOf
<1>6. ASSUME NEW f \in F PROVE IsFiniteSet(KeysOf(f))
  <2>1. PICK S : S = ToSet(f.compliance.standards)
    OBVIOUS
  <2>2. IsFiniteSet(S)
    BY <1>2, <2>1, StandardsFacts
  <2>3. PICK g : g = [s \in S |-> <<FriendlyStandardName(s), ControlOf(f)>>]
    OBVIOUS
  <2>4. g = [s \in S |-> g[s]] /\ KeysOf(f) = {g[s] : s \in S}
    BY <2>1, <2>3 DEF KeysOf
  <2> QED  BY <2>2, <2>4, FunctionOfFinite
<1>7. IsFiniteSet(K)
  <2>1. PICK g : g = [f \in F |-> KeysOf(f)]
    OBVIOUS
  <2>2. g = [f \in F |-> g[f]] /\ K = {g[f] : f \in F}
    BY <1>4, <2>1
  <2> QED  BY <1>2, <2>2, FunctionOfFinite
<1>8. \A T \in K : IsFiniteSet(T)
  BY <1>4, <1>6
<1>9. IsFiniteSet(UNION K)
  BY <1>7, <1>8, FS_UNION
<1>10. \A key : key \in UNION K <=> \E f \in F : key \in KeysOf(f)
  BY <1>4
<1> QED  BY <1>1, <1>3, <1>5, <1>9, <1>10

\* The statuses under a control are those of the findings that name it.
LEMMA StatusesAre ==
  ASSUME NEW page \in Seq(HubFindings), NEW key, NEW st
  PROVE  st \in ToSet(StatusesFor(page, key)) <=>
           \E f \in ToSet(page) : Names(f, key) /\ f.compliance.status = st
<1>1. PICK n \in Nat : n = Len(page) /\ DOMAIN page = 1..n
  BY LenProperties
<1>2. PICK P \in SUBSET (1..n) : P = {i \in DOMAIN page : Names(page[i], key)}
  BY <1>1
<1>3. PICK l : l = Filtered(page, P)
  OBVIOUS
<1>4. PICK m : m = Cardinality(P)
  OBVIOUS
<1>5. P \in SUBSET (1..Len(page))
  BY <1>1
<1>6. /\ l \in Seq(HubFindings) /\ Len(l) = m
      /\ \A k \in 1..m : Nth(P, k) \in P /\ l[k] = page[Nth(P, k)]
      /\ \A i \in P : \E k \in 1..m : Nth(P, k) = i
  BY <1>3, <1>4, <1>5, KeptFacts
<1>7. DOMAIN l = 1..m
  BY <1>6, LenProperties
<1>8. PICK r : r = [k \in 1..m |-> l[k].compliance.status]
  OBVIOUS
<1>9. StatusesFor(page, key) = r
  BY <1>2, <1>3, <1>7, <1>8 DEF StatusesFor
<1>10. st \in ToSet(r) <=> \E k \in 1..m : l[k].compliance.status = st
  BY <1>8 DEF ToSet
<1>11. (\E k \in 1..m : l[k].compliance.status = st)
         <=> \E i \in P : page[i].compliance.status = st
  <2>1. ASSUME NEW k \in 1..m, l[k].compliance.status = st
        PROVE  \E i \in P : page[i].compliance.status = st
    <3>1. Nth(P, k) \in P /\ l[k] = page[Nth(P, k)]
      BY <1>6
    <3> QED  BY <2>1, <3>1, Zenon
  <2>2. ASSUME NEW i \in P, page[i].compliance.status = st
        PROVE  \E k \in 1..m : l[k].compliance.status = st
    <3>1. PICK k \in 1..m : Nth(P, k) = i
      BY <1>6
    <3>2. l[k] = page[i]
      BY <1>6, <3>1
    <3> QED  BY <2>2, <3>2, Zenon
  <2> QED  BY <2>1, <2>2
<1>12. (\E i \in P : page[i].compliance.status = st)
         <=> \E f \in ToSet(page) : Names(f, key) /\ f.compliance.status = st
  BY <1>2 DEF ToSet
<1> QED  BY <1>9, <1>10, <1>11, <1>12

\* The worst status decides, whatever the order.
LEMMA AggregateFacts ==
  ASSUME NEW l
  PROVE  /\ AggregateControlStatus(l) = "FAILED" <=> "FAILED" \in ToSet(l)
         /\ AggregateControlStatus(l) = "PASSED" =>
              "FAILED" \notin ToSet(l) /\ "WARNING" \notin ToSet(l)
BY DEF AggregateControlStatus

LEMMA SummaryIs ==
  ASSUME NEW page, NEW std, NEW s, s = Summary(page, std)
  PROVE  /\ s.total = Cardinality(KeysUnder(page, std))
         /\ s.passed = Cardinality(KeysWith(page, std, "PASSED"))
         /\ s.failed = Cardinality(KeysWith(page, std, "FAILED"))
         /\ s.warning = s.total - s.passed - s.failed
         /\ s.score = (10000 * s.passed) \div s.total
<1>1. PICK t : t = Cardinality(KeysUnder(page, std))
  OBVIOUS
<1>2. PICK p : p = Cardinality(KeysWith(page, std, "PASSED"))
  OBVIOUS
<1>3. PICK b : b = Cardinality(KeysWith(page, std, "FAILED"))
  OBVIOUS
<1>4. Summary(page, std) = [total |-> t, passed |-> p, failed |-> b, warning |-> t - p - b,
                            score |-> (10000 * p) \div t]
  BY <1>1, <1>2, <1>3, SMT DEF Summary
<1>5. PICK m : m = (10000 * p) \div t
  OBVIOUS
<1>6. PICK w : w = t - p - b
  OBVIOUS
<1>7. s = [total |-> t, passed |-> p, failed |-> b, warning |-> w, score |-> m]
  BY <1>4, <1>5, <1>6
<1>8. s.total = t /\ s.passed = p /\ s.failed = b /\ s.warning = w /\ s.score = m
  BY <1>7
<1> QED  BY <1>1, <1>2, <1>3, <1>5, <1>6, <1>8

LEMMA SummaryFacts ==
  ASSUME NEW page \in Seq(HubFindings), NEW std, KeysUnder(page, std) # {},
         NEW s, s = Summary(page, std)
  PROVE  /\ s.passed + s.failed + s.warning = s.total
         /\ s.score = 10000 => KeysWith(page, std, "PASSED") = KeysUnder(page, std)
         /\ s.failed > 0 <=> KeysWith(page, std, "FAILED") # {}
<1>1. PICK K : K = KeysUnder(page, std)
  OBVIOUS
<1>2. PICK A : A = KeysWith(page, std, "PASSED")
  OBVIOUS
<1>3. PICK B : B = KeysWith(page, std, "FAILED")
  OBVIOUS
<1>4. IsFiniteSet(K)
  <2>1. PICK C : C = ControlKeys(page)
    OBVIOUS
  <2>2. IsFiniteSet(C)
    BY <2>1, KeysAre
  <2>3. K \in SUBSET C
    BY <1>1, <2>1 DEF KeysUnder
  <2> QED  BY <2>2, <2>3, FS_Subset
<1>5. A \in SUBSET K /\ B \in SUBSET K
  BY <1>1, <1>2, <1>3 DEF KeysWith
<1>6. PICK t \in Nat : t = Cardinality(K) /\ t > 0
  BY <1>1, <1>4, FS_CardinalityType, FS_EmptySet
<1>7. PICK p \in Nat : p = Cardinality(A) /\ p <= t /\ (p = t => A = K)
  <2>1. IsFiniteSet(A) /\ Cardinality(A) <= Cardinality(K)
        /\ (Cardinality(K) = Cardinality(A) => K = A)
    BY <1>4, <1>5, FS_Subset
  <2> QED  BY <1>6, <2>1, FS_CardinalityType
<1>8. PICK b \in Nat : b = Cardinality(B) /\ (b > 0 <=> B # {})
  <2>1. IsFiniteSet(B)
    BY <1>4, <1>5, FS_Subset
  <2> QED  BY <2>1, FS_CardinalityType, FS_EmptySet
<1>9. /\ s.total = t /\ s.passed = p /\ s.failed = b
      /\ s.warning = t - p - b /\ s.score = (10000 * p) \div t
  <2>1. s.total = t /\ s.passed = p /\ s.failed = b
    BY <1>1, <1>2, <1>3, <1>6, <1>7, <1>8, SummaryIs
  <2>2. s.warning = s.total - s.passed - s.failed /\ s.score = (10000 * s.passed) \div s.total
    BY SummaryIs
  <2> QED  BY <2>1, <2>2
<1>10. (10000 * p) \div t = 10000 => p = t
  <2>1. PICK c \in Nat : c = 10000 /\ c > 0
    OBVIOUS
  <2>2. c \in Nat /\ c > 0 /\ t \in Nat /\ t > 0 /\ p \in Nat /\ p <= t
    BY <1>6, <1>7, <2>1
  <2> HIDE <1>6
  <2>3. (c * p) \div t = c <=> p = t
    BY <2>2, ShareIsFull
  <2> QED  BY <2>1, <2>3
<1>11. s.passed + s.failed + s.warning = s.total
  BY <1>6, <1>7, <1>8, <1>9
<1>12. s.score = 10000 => A = K
  BY <1>7, <1>9, <1>10
<1>13. s.failed > 0 <=> B # {}
  BY <1>8, <1>9
<1> QED  BY <1>1, <1>2, <1>3, <1>11, <1>12, <1>13

\* A finding counts, with its status, under every standard it names.
LEMMA NamedCounts ==
  ASSUME NEW page \in Seq(HubFindings), NEW f \in ToSet(page),
         NEW x \in ToSet(f.compliance.standards), NEW key,
         key = <<FriendlyStandardName(x), ControlOf(f)>>
  PROVE  /\ key \in ControlKeys(page) /\ key[1] = FriendlyStandardName(x)
         /\ f.compliance.status \in ToSet(StatusesFor(page, key))
<1>1. Names(f, key)
  BY DEF Names
<1>2. key \in ControlKeys(page)
  BY <1>1, KeysAre
<1>3. f.compliance.status \in ToSet(StatusesFor(page, key))
  BY <1>1, StatusesAre
<1> QED  BY <1>2, <1>3

LEMMA SummariesAre ==
  ASSUME NEW page
  PROVE  /\ \A std : std \in DOMAIN BuildComplianceSummaries(page)
                       <=> KeysUnder(page, std) # {}
         /\ \A std \in DOMAIN BuildComplianceSummaries(page) :
              BuildComplianceSummaries(page)[std] = Summary(page, std)
BY DEF BuildComplianceSummaries, KeysUnder

\* A standard with full marks is named by nothing that failed or warned.
LEMMA FullMarksFit ==
  ASSUME NEW page \in Seq(HubFindings), NEW std, KeysUnder(page, std) # {},
         KeysWith(page, std, "PASSED") = KeysUnder(page, std),
         NEW f \in ToSet(page), NEW x \in ToSet(f.compliance.standards),
         FriendlyStandardName(x) = std
  PROVE  f.compliance.status \notin {"FAILED", "WARNING"}
<1>1. PICK key : key = <<FriendlyStandardName(x), ControlOf(f)>>
  OBVIOUS
<1>2. /\ key \in ControlKeys(page) /\ key[1] = std
      /\ f.compliance.status \in ToSet(StatusesFor(page, key))
  BY <1>1, NamedCounts
<1>3. key \in KeysUnder(page, std)
  BY <1>2 DEF KeysUnder
<1>5. AggregateControlStatus(StatusesFor(page, key)) = "PASSED"
  BY <1>3 DEF KeysWith
<1>6. "FAILED" \notin ToSet(StatusesFor(page, key)) /\ "WARNING" \notin ToSet(StatusesFor(page, key))
  BY <1>5, AggregateFacts
<1> QED  BY <1>2, <1>6

\* A standard has failed controls exactly when a failed finding names it.
LEMMA FailedFit ==
  ASSUME NEW page \in Seq(HubFindings)
  PROVE  (\E std \in DOMAIN BuildComplianceSummaries(page) :
            BuildComplianceSummaries(page)[std].failed > 0)
         <=> \E f \in ToSet(page) : Fails(f) /\ f.compliance.standards # <<>>
<1>1. PICK S : S = BuildComplianceSummaries(page)
  OBVIOUS
<1>2. ToSet(page) \subseteq HubFindings
  BY SetOfList
<1>3. ASSUME NEW std \in DOMAIN S, S[std].failed > 0
      PROVE  \E f \in ToSet(page) : Fails(f) /\ f.compliance.standards # <<>>
  <2>1. KeysUnder(page, std) # {} /\ S[std] = Summary(page, std)
    BY <1>1, SummariesAre
  <2>2. KeysWith(page, std, "FAILED") # {}
    BY <1>3, <2>1, SummaryFacts
  <2>3. PICK key : AggregateControlStatus(StatusesFor(page, key)) = "FAILED"
    BY <2>2 DEF KeysWith
  <2>4. "FAILED" \in ToSet(StatusesFor(page, key))
    BY <2>3, AggregateFacts
  <2>5. PICK st : st = "FAILED"
    OBVIOUS
  <2>6. PICK f \in ToSet(page) : Names(f, key) /\ f.compliance.status = st
    BY <2>4, <2>5, StatusesAre
  <2>7. f.compliance.standards # <<>>
    <3>1. \E s : s \in ToSet(f.compliance.standards)
      BY <2>6 DEF Names
    <3> QED  BY <1>2, <3>1, StandardsFacts
  <2> QED  BY <2>5, <2>6, <2>7 DEF Fails
<1>4. ASSUME NEW f \in ToSet(page), Fails(f), f.compliance.standards # <<>>
      PROVE  \E std \in DOMAIN S : S[std].failed > 0
  <2>1. PICK x : x \in ToSet(f.compliance.standards)
    BY <1>2, <1>4, StandardsFacts
  <2>2. PICK key : key = <<FriendlyStandardName(x), ControlOf(f)>>
    OBVIOUS
  <2>3. PICK std : std = key[1]
    OBVIOUS
  <2>4. key \in ControlKeys(page) /\ f.compliance.status \in ToSet(StatusesFor(page, key))
    BY <2>1, <2>2, NamedCounts
  <2>5. AggregateControlStatus(StatusesFor(page, key)) = "FAILED"
    BY <1>4, <2>4, AggregateFacts DEF Fails
  <2>6. key \in KeysWith(page, std, "FAILED") /\ key \in KeysUnder(page, std)
    BY <2>3, <2>4, <2>5 DEF KeysWith, KeysUnder
  <2>7. std \in DOMAIN S /\ S[std] = Summary(page, std)
    BY <1>1, <2>6, SummariesAre
  <2>8. Summary(page, std).failed > 0
    BY <2>6, SummaryFacts
  <2> QED  BY <2>7, <2>8
<1> QED  BY <1>1, <1>3, <1>4

(***************************************************************************)
(* Security Hub: the evidence items                                         *)
(***************************************************************************)

LEMMA OneMore ==
  ASSUME NEW w, NEW S, IsFiniteSet(S), \A y \in S : w[y] \in Int,
         NEW x, x \notin S, NEW k \in Int, w[x] = k, NEW R, R = S \cup {x}
  PROVE  /\ IsFiniteSet(R) /\ \A y \in R : w[y] \in Int
         /\ SumFunctionOnSet(w, R) = k + SumFunctionOnSet(w, S)
<1>1. IsFiniteSet(R)
  BY FS_AddElement
<1>2. \A y \in R : w[y] \in Int
  OBVIOUS
<1>3. SumFunctionOnSet(w, R) = w[x] + SumFunctionOnSet(w, R \ {x})
  <2>1. x \in R
    OBVIOUS
  <2> QED  BY <1>1, <1>2, <2>1, SumOfRest
<1>4. R \ {x} = S
  OBVIOUS
<1> QED  BY <1>1, <1>2, <1>3, <1>4

\* The penalties add up to the whole, and none is negative.
LEMMA PenaltiesAre ==
  /\ IsFiniteSet(DOMAIN Penalty) /\ \A m \in DOMAIN Penalty : Penalty[m] \in Nat
  /\ SumFunctionOnSet(Penalty, DOMAIN Penalty) = 100
<1>1. PICK w : w = Penalty
  OBVIOUS
<1>2. /\ DOMAIN w = {"title", "description", "id", "account", "resources", "observed"}
      /\ w["title"] = 25 /\ w["description"] = 15 /\ w["id"] = 20
      /\ w["account"] = 10 /\ w["resources"] = 20 /\ w["observed"] = 10
  BY <1>1 DEF Penalty
<1>3. PICK D0 : D0 = {}
  OBVIOUS
<1>4. PICK D1 : D1 = D0 \cup {"title"}
  OBVIOUS
<1>5. PICK D2 : D2 = D1 \cup {"description"}
  OBVIOUS
<1>6. PICK D3 : D3 = D2 \cup {"id"}
  OBVIOUS
<1>7. PICK D4 : D4 = D3 \cup {"account"}
  OBVIOUS
<1>8. PICK D5 : D5 = D4 \cup {"resources"}
  OBVIOUS
<1>9. PICK D6 : D6 = D5 \cup {"observed"}
  OBVIOUS
<1>10. IsFiniteSet(D0) /\ (\A y \in D0 : w[y] \in Int) /\ SumFunctionOnSet(w, D0) = 0
  BY <1>3, FS_EmptySet, SumOfNone
<1>11. IsFiniteSet(D1) /\ (\A y \in D1 : w[y] \in Int) /\ SumFunctionOnSet(w, D1) = 25
  <2>1. "title" \notin D0
    BY <1>3
  <2>2. SumFunctionOnSet(w, D1) = 25 + SumFunctionOnSet(w, D0)
    BY <1>2, <1>4, <1>10, <2>1, OneMore
  <2>3. IsFiniteSet(D1) /\ \A y \in D1 : w[y] \in Int
    BY <1>2, <1>4, <1>10, FS_AddElement
  <2> QED  BY <1>10, <2>2, <2>3
<1>12. IsFiniteSet(D2) /\ (\A y \in D2 : w[y] \in Int) /\ SumFunctionOnSet(w, D2) = 40
  <2>1. "description" \notin D1
    BY <1>3, <1>4
  <2>2. SumFunctionOnSet(w, D2) = 15 + SumFunctionOnSet(w, D1)
    BY <1>2, <1>5, <1>11, <2>1, OneMore
  <2>3. IsFiniteSet(D2) /\ \A y \in D2 : w[y] \in Int
    BY <1>2, <1>5, <1>11, FS_AddElement
  <2> QED  BY <1>11, <2>2, <2>3
<1>13. IsFiniteSet(D3) /\ (\A y \in D3 : w[y] \in Int) /\ SumFunctionOnSet(w, D3) = 60
  <2>1. "id" \notin D2
    BY <1>3, <1>4, <1>5
  <2>2. SumFunctionOnSet(w, D3) = 20 + SumFunctionOnSet(w, D2)
    BY <1>2, <1>6, <1>12, <2>1, OneMore
  <2>3. IsFiniteSet(D3) /\ \A y \in D3 : w[y] \in Int
    BY <1>2, <1>6, <1>12, FS_AddElement
  <2> QED  BY <1>12, <2>2, <2>3
<1>14. IsFiniteSet(D4) /\ (\A y \in D4 : w[y] \in Int) /\ SumFunctionOnSet(w, D4) = 70
  <2>1. "account" \notin D3
    BY <1>3, <1>4, <1>5, <1>6
  <2>2. SumFunctionOnSet(w, D4) = 10 + SumFunctionOnSet(w, D3)
    BY <1>2, <1>7, <1>13, <2>1, OneMore
  <2>3. IsFiniteSet(D4) /\ \A y \in D4 : w[y] \in Int
    BY <1>2, <1>7, <1>13, FS_AddElement
  <2> QED  BY <1>13, <2>2, <2>3
<1>15. IsFiniteSet(D5) /\ (\A y \in D5 : w[y] \in Int) /\ SumFunctionOnSet(w, D5) = 90
  <2>1. "resources" \notin D4
    BY <1>3, <1>4, <1>5, <1>6, <1>7
  <2>2. SumFunctionOnSet(w, D5) = 20 + SumFunctionOnSet(w, D4)
    BY <1>2, <1>8, <1>14, <2>1, OneMore
  <2>3. IsFiniteSet(D5) /\ \A y \in D5 : w[y] \in Int
    BY <1>2, <1>8, <1>14, FS_AddElement
  <2> QED  BY <1>14, <2>2, <2>3
<1>16. IsFiniteSet(D6) /\ SumFunctionOnSet(w, D6) = 100
  <2>1. "observed" \notin D5
    BY <1>3, <1>4, <1>5, <1>6, <1>7, <1>8
  <2>2. SumFunctionOnSet(w, D6) = 10 + SumFunctionOnSet(w, D5)
    BY <1>2, <1>9, <1>15, <2>1, OneMore
  <2>3. IsFiniteSet(D6)
    BY <1>9, <1>15, FS_AddElement
  <2> QED  BY <1>15, <2>2, <2>3
<1>17. D6 = DOMAIN w
  BY <1>2, <1>3, <1>4, <1>5, <1>6, <1>7, <1>8, <1>9
<1>18. \A m \in DOMAIN w : w[m] \in Nat
  BY <1>2
<1> QED  BY <1>1, <1>16, <1>17, <1>18

LEMMA CompletenessFacts ==
  ASSUME NEW f \in HubFindings
  PROVE  /\ ScoreCompleteness(f) \in 0..100
         /\ f.missing = {} => ScoreCompleteness(f) = 100
<1>1. PICK M : M = f.missing
  OBVIOUS
<1>2. M \subseteq DOMAIN Penalty
  BY <1>1 DEF HubFindings
<1>3. PICK D : D = DOMAIN Penalty
  OBVIOUS
<1>4. IsFiniteSet(D) /\ (\A m \in D : Penalty[m] \in Nat) /\ SumFunctionOnSet(Penalty, D) = 100
  BY <1>3, PenaltiesAre
<1>5. IsFiniteSet(M) /\ \A m \in M : Penalty[m] \in Nat
  <2>1. M \in SUBSET D
    BY <1>2, <1>3
  <2>2. IsFiniteSet(M)
    BY <1>4, <2>1, FS_Subset
  <2> QED  BY <1>4, <2>1, <2>2
<1>6. PICK p \in Nat : p = SumFunctionOnSet(Penalty, M)
  BY <1>5, SumOfNats
<1>7. p <= 100
  <2>1. M \subseteq D
    BY <1>2, <1>3
  <2>2. SumFunctionOnSet(Penalty, M) <= SumFunctionOnSet(Penalty, D)
    BY <1>4, <2>1, SumOfPart
  <2> QED  BY <1>4, <1>6, <2>2
<1>8. M = {} => p = 0
  BY <1>6, SumOfNone
<1>9. ScoreCompleteness(f) = 100 - p
  BY <1>1, <1>6 DEF ScoreCompleteness
<1> QED  BY <1>1, <1>6, <1>7, <1>8, <1>9

\* The other scores, and what makes each of them poor.
LEMMA ScoresAre ==
  ASSUME NEW f \in HubFindings
  PROVE  /\ ScoreCurrency(f) \in 0..100 /\ ScoreReliability(f) \in 90..100
         /\ ScoreCorroboration(f) \in 0..100 /\ ScoreRelevance(f) \in 0..100
         /\ f.age >= 0 /\ f.age <= 90 => ScoreCurrency(f) >= 75
         /\ f.hits # 0 => ScoreRelevance(f) >= 60
<1>1. PICK age \in Int : age = f.age
  BY DEF HubFindings
<1>2. PICK hits \in Nat : hits = f.hits
  BY DEF HubFindings
<1>3. ScoreCurrency(f) \in 0..100 /\ (age >= 0 /\ age <= 90 => ScoreCurrency(f) >= 75)
  BY <1>1 DEF ScoreCurrency
<1>4. ScoreReliability(f) \in 90..100
  BY DEF ScoreReliability
<1>5. ScoreRelevance(f) \in 0..100 /\ (hits # 0 => ScoreRelevance(f) >= 60)
  BY <1>2 DEF ScoreRelevance
<1>6. ScoreCorroboration(f) \in 0..100
  BY DEF ScoreCorroboration
<1> QED  BY <1>1, <1>2, <1>3, <1>4, <1>5, <1>6

LEMMA DeficienciesAre ==
  ASSUME NEW f \in HubFindings, Deficiencies(f) = {}
  PROVE  /\ f.missing = {} /\ f.age >= 0 /\ f.age <= 90
         /\ ScoreCorroboration(f) >= 50 /\ f.hits # 0
<1>1. /\ f.missing = {} /\ ~(f.age < 0 \/ f.age > 90)
      /\ ~(ScoreCorroboration(f) < 50) /\ f.hits # 0
  BY DEF Deficiencies
<1>2. f.age \in Int
  BY DEF HubFindings
<1>3. ScoreCorroboration(f) \in 0..100
  BY ScoresAre
<1> QED  BY <1>1, <1>2, <1>3

LEMMA ItemSaysWhy ==
  ASSUME NEW f \in HubFindings
  PROVE  SaysWhy(NormalizeFinding(f))
<1>1. NormalizeFinding(f).quality = ScoreEvidence(f)
      /\ NormalizeFinding(f).deficiencies = Deficiencies(f)
  BY DEF NormalizeFinding
<1>2. PICK c \in 0..100 : c = ScoreCompleteness(f) /\ (f.missing = {} => c = 100)
  BY CompletenessFacts
<1>3. PICK u \in 0..100 : u = ScoreCurrency(f) /\ (f.age >= 0 /\ f.age <= 90 => u >= 75)
  BY ScoresAre
<1>4. PICK r \in 90..100 : r = ScoreReliability(f)
  BY ScoresAre
<1>5. PICK k \in 0..100 : k = ScoreCorroboration(f)
  BY ScoresAre
<1>6. PICK l \in 0..100 : l = ScoreRelevance(f) /\ (f.hits # 0 => l >= 60)
  BY ScoresAre
<1>7. ScoreEvidence(f) = 25 * c + 20 * u + 25 * r + 15 * k + 15 * l
  BY <1>2, <1>3, <1>4, <1>5, <1>6 DEF ScoreEvidence
<1>8. PICK e : e = 25 * c + 20 * u + 25 * r + 15 * k + 15 * l
  OBVIOUS
<1>9. e \in 0..10000
  <2>1. PICK v, w, x, y, z : v = 25 * c /\ w = 20 * u /\ x = 25 * r /\ y = 15 * k /\ z = 15 * l
    OBVIOUS
  <2>2. v \in 0..2500 /\ w \in 0..2000 /\ x \in 0..2500 /\ y \in 0..1500 /\ z \in 0..1500
    BY <2>1, SMT
  <2>3. e = v + w + x + y + z
    BY <1>8, <2>1
  <2> QED  BY <2>2, <2>3, SMT
<1>10. ASSUME Deficiencies(f) = {} PROVE ~(e < 7500)
  <2>1. c = 100 /\ u >= 75 /\ k >= 50 /\ l >= 60
    BY <1>2, <1>3, <1>5, <1>6, <1>10, DeficienciesAre
  <2> QED  BY <1>8, <2>1, SMT
<1>11. NormalizeFinding(f).quality = e
  BY <1>1, <1>7, <1>8
<1>12. NormalizeFinding(f).quality < 7500 => NormalizeFinding(f).deficiencies # {}
  BY <1>1, <1>10, <1>11
<1> QED  BY <1>9, <1>11, <1>12 DEF SaysWhy

(***************************************************************************)
(* Security Hub: the calls                                                  *)
(***************************************************************************)

\* An answer is computed from the page it stands beside, and both lists hold
\* findings.
HubInv ==
  /\ hub \in Seq(HubFindings) /\ hubRead.page \in Seq(HubFindings)
  /\ hubRead.call = "compliance" => hubRead.value = BuildComplianceSummaries(hubRead.page)
  /\ hubRead.call = "score" => hubRead.value = CalculateSecurityScore(hubRead.page)
  /\ hubRead.call = "evidence" =>
       hubRead.value = [i \in DOMAIN hubRead.page |-> NormalizeFinding(hubRead.page[i])]

LEMMA HubLimits == \A l \in Int : HubEffectiveLimit(l) \in Nat
BY HubAssumption DEF HubEffectiveLimit

LEMMA TemplatesAre ==
  /\ Len(MockTemplates) = 10 /\ \A k \in 1..10 : MockTemplates[k] \in HubFindings
<1>1. Len(MockTemplates) = 10 /\ DOMAIN MockTemplates = 1..10
  BY DEF MockTemplates
<1>2. \A k \in 1..10 : MockTemplates[k] \in ToSet(MockTemplates)
  BY <1>1 DEF ToSet
<1>3. ToSet(MockTemplates) \subseteq HubFindings
  BY HubAssumption
<1> QED  BY <1>1, <1>2, <1>3

LEMMA MockPageTyped ==
  ASSUME NEW l \in Int
  PROVE  MockFindingsPage(l) \in Seq(HubFindings)
<1>1. PICK n \in Nat : n = HubEffectiveLimit(l)
  BY HubLimits
<1>2. ASSUME NEW i \in 1..n
      PROVE  MockTemplates[((i - 1) % Len(MockTemplates)) + 1] \in HubFindings
  <2>1. PICK k \in 1..10 : k = ((i - 1) % 10) + 1
    OBVIOUS
  <2> QED  BY <2>1, TemplatesAre
<1>3. PICK r : r = MockFindingsPage(l)
  OBVIOUS
<1>4. r = [i \in 1..n |-> MockTemplates[((i - 1) % Len(MockTemplates)) + 1]]
  BY <1>1, <1>3 DEF MockFindingsPage
<1>5. r = [i \in 1..n |-> r[i]] /\ \A i \in 1..n : r[i] \in HubFindings
  BY <1>2, <1>4
<1>6. r \in Seq(HubFindings)
  BY <1>5
<1> QED  BY <1>3, <1>6

LEMMA PageTyped ==
  ASSUME hub \in Seq(HubFindings), NEW l \in Int, NEW mock \in BOOLEAN
  PROVE  PageOf(mock, l) \in Seq(HubFindings)
<1>1. PICK n \in Nat : n = Len(hub)
  BY LenProperties
<1>2. PICK b \in Nat : b = HubEffectiveLimit(l)
  BY HubLimits
<1>3. PICK m : m = IF n <= b THEN n ELSE b
  OBVIOUS
<1>4. m \in 0..n
  BY <1>3
<1>5. FetchFindings(l) = SubSeq(hub, 1, m)
  BY <1>1, <1>2, <1>3, MinOfTwo DEF FetchFindings
<1>6. \A i \in 1..m : hub[i] \in HubFindings
  BY <1>1, <1>4, ElementOfSeq
<1>7. FetchFindings(l) \in Seq(HubFindings)
  BY <1>4, <1>5, <1>6, SubSeqProperties
<1> QED  BY <1>7, MockPageTyped DEF PageOf

LEMMA HubInitInv == HubInit => HubInv
<1> SUFFICES ASSUME HubInit PROVE HubInv
  OBVIOUS
<1>1. PICK e : e = <<>>
  OBVIOUS
<1>2. e \in Seq(HubFindings)
  BY <1>1
<1>3. hub = e /\ hubRead = Answer("none", e, e)
  BY <1>1 DEF HubInit
<1>4. hubRead.page = e /\ hubRead.call = "none"
  BY <1>3 DEF Answer
<1> QED  BY <1>2, <1>3, <1>4 DEF HubInv

\* Only the findings change.
LEMMA FindingsMove ==
  ASSUME HubInv, UNCHANGED hubRead, hub' \in Seq(HubFindings)
  PROVE  HubInv'
BY DEF HubInv

LEMMA Reported ==
  ASSUME HubInv, NEW f \in Shapes, HubReports(f)
  PROVE  HubInv'
<1>1. f \in HubFindings
  BY HubAssumption
<1>2. hub' = Append(hub, f) /\ UNCHANGED hubRead
  BY DEF HubReports
<1>3. hub' \in Seq(HubFindings)
  BY <1>1, <1>2, AppendProperties DEF HubInv
<1> QED  BY <1>2, <1>3, FindingsMove

LEMMA Rechecked ==
  ASSUME HubInv, NEW i \in DOMAIN hub, RecheckFinding(i)
  PROVE  HubInv'
<1>1. PICK st \in {"PASSED", "FAILED"} : hub' = [hub EXCEPT ![i].compliance.status = st]
  BY DEF RecheckFinding
<1>2. st \in Statuses
  BY <1>1 DEF Statuses
<1>3. PICK s \in Seq(HubFindings) : s = hub
  BY DEF HubInv
<1>4. PICK n \in Nat : n = Len(s) /\ DOMAIN s = 1..n
  BY LenProperties
<1>5. PICK f \in HubFindings : f = s[i]
  BY <1>3, <1>4, ElementOfSeq
<1>6. PICK g : g = [f EXCEPT !.compliance.status = st]
  OBVIOUS
<1>7. g \in HubFindings
  BY <1>2, <1>5, <1>6, FindingRechecked
<1>8. hub' = [s EXCEPT ![i] = g]
  BY <1>1, <1>3, <1>5, <1>6
<1>9. hub' \in Seq(HubFindings)
  BY <1>3, <1>7, <1>8, PageChanged
<1>10. UNCHANGED hubRead
  BY DEF RecheckFinding
<1> QED  BY <1>9, <1>10, FindingsMove

LEMMA Archived ==
  ASSUME HubInv, NEW i \in DOMAIN hub, ArchiveFinding(i)
  PROVE  HubInv'
<1>1. hub' = [hub EXCEPT ![i].active = FALSE] /\ UNCHANGED hubRead
  BY DEF ArchiveFinding
<1>2. PICK s \in Seq(HubFindings) : s = hub
  BY DEF HubInv
<1>3. PICK n \in Nat : n = Len(s) /\ DOMAIN s = 1..n
  BY LenProperties
<1>4. PICK f \in HubFindings : f = s[i]
  BY <1>2, <1>3, ElementOfSeq
<1>5. PICK g : g = [f EXCEPT !.active = FALSE]
  OBVIOUS
<1>6. g \in HubFindings
  BY <1>4, <1>5, FindingArchived
<1>7. hub' = [s EXCEPT ![i] = g]
  BY <1>1, <1>2, <1>4, <1>5
<1>8. hub' \in Seq(HubFindings)
  BY <1>2, <1>6, <1>7, PageChanged
<1> QED  BY <1>1, <1>8, FindingsMove

\* A call answers from the page it fetched.
LEMMA HubAnswers ==
  ASSUME HubInv, UNCHANGED hub, NEW page \in Seq(HubFindings), NEW c, NEW v,
         hubRead' = Answer(c, page, v),
         c = "compliance" => v = BuildComplianceSummaries(page),
         c = "score" => v = CalculateSecurityScore(page),
         c = "evidence" => v = [i \in DOMAIN page |-> NormalizeFinding(page[i])]
  PROVE  HubInv'
<1>1. hubRead'.call = c /\ hubRead'.page = page /\ hubRead'.value = v
  BY DEF Answer
<1> QED  BY <1>1 DEF HubInv

LEMMA HubStep == HubInv /\ [HubNext]_hubVars => HubInv'
<1> SUFFICES ASSUME HubInv, [HubNext]_hubVars PROVE HubInv'
  OBVIOUS
<1>1. ASSUME NEW f \in Shapes, HubReports(f) PROVE HubInv'
  BY <1>1, Reported
<1>2. ASSUME NEW i \in DOMAIN hub, RecheckFinding(i) PROVE HubInv'
  BY <1>2, Rechecked
<1>3. ASSUME NEW i \in DOMAIN hub, ArchiveFinding(i) PROVE HubInv'
  BY <1>3, Archived
<1>4. HubMaxPage \in Int /\ Limits \subseteq Int
  BY HubAssumption
<1>5. ASSUME NEW mock \in BOOLEAN, FetchComplianceResults(mock) PROVE HubInv'
  <2>1. PICK page : page = PageOf(mock, HubMaxPage)
    OBVIOUS
  <2>2. page \in Seq(HubFindings)
    BY <1>4, <2>1, PageTyped DEF HubInv
  <2>3. UNCHANGED hub /\ hubRead' = Answer("compliance", page, BuildComplianceSummaries(page))
    BY <1>5, <2>1 DEF FetchComplianceResults
  <2> QED  BY <2>2, <2>3, HubAnswers
<1>6. ASSUME NEW mock \in BOOLEAN, FetchSecurityScore(mock) PROVE HubInv'
  <2>1. PICK page : page = PageOf(mock, HubMaxPage)
    OBVIOUS
  <2>2. page \in Seq(HubFindings)
    BY <1>4, <2>1, PageTyped DEF HubInv
  <2>3. UNCHANGED hub /\ hubRead' = Answer("score", page, CalculateSecurityScore(page))
    BY <1>6, <2>1 DEF FetchSecurityScore
  <2> QED  BY <2>2, <2>3, HubAnswers
<1>7. ASSUME NEW mock \in BOOLEAN, NEW l \in Limits, FetchEvidenceItems(mock, l) PROVE HubInv'
  <2>1. PICK page : page = PageOf(mock, l)
    OBVIOUS
  <2>2. page \in Seq(HubFindings)
    BY <1>4, <2>1, PageTyped DEF HubInv
  <2>3. UNCHANGED hub
        /\ hubRead' = Answer("evidence", page, [i \in DOMAIN page |-> NormalizeFinding(page[i])])
    BY <1>7, <2>1 DEF FetchEvidenceItems
  <2> QED  BY <2>2, <2>3, HubAnswers
<1>8. CASE UNCHANGED hubVars
  BY <1>8 DEF hubVars, HubInv
<1> QED  BY <1>1, <1>2, <1>3, <1>5, <1>6, <1>7, <1>8, Zenon DEF HubNext

LEMMA FullMarksHold == HubInv => FullMarksMeanClean
<1> SUFFICES ASSUME HubInv, hubRead.call = "compliance",
                    NEW std \in DOMAIN hubRead.value
             PROVE  LET s == hubRead.value[std]
                        named(f) == std \in {FriendlyStandardName(x) :
                                               x \in ToSet(f.compliance.standards)}
                    IN /\ s.passed + s.failed + s.warning = s.total
                       /\ s.score = 10000 => \A f \in ToSet(hubRead.page) :
                            named(f) => f.compliance.status \notin {"FAILED", "WARNING"}
  BY DEF FullMarksMeanClean
<1>1. PICK page \in Seq(HubFindings) : page = hubRead.page
  BY DEF HubInv
<1>2. hubRead.value = BuildComplianceSummaries(page)
  BY <1>1 DEF HubInv
<1>3. PICK s : s = hubRead.value[std]
  OBVIOUS
<1>4. KeysUnder(page, std) # {} /\ s = Summary(page, std)
  BY <1>2, <1>3, SummariesAre
<1>5. s.passed + s.failed + s.warning = s.total
  BY <1>1, <1>4, SummaryFacts
<1>6. ASSUME s.score = 10000, NEW f \in ToSet(page),
             NEW x \in ToSet(f.compliance.standards), FriendlyStandardName(x) = std
      PROVE  f.compliance.status \notin {"FAILED", "WARNING"}
  <2>1. KeysWith(page, std, "PASSED") = KeysUnder(page, std)
    BY <1>1, <1>4, <1>6, SummaryFacts
  <2> QED  BY <1>1, <1>4, <1>6, <2>1, FullMarksFit
<1> QED  BY <1>1, <1>3, <1>5, <1>6

LEMMA ScoresAgree == HubInv => ScoreAgreesWithSummaries
<1> SUFFICES ASSUME HubInv, hubRead.call = "score"
             PROVE  LET failing == {f \in ToSet(hubRead.page) : Fails(f)}
                        summaries == BuildComplianceSummaries(hubRead.page)
                    IN /\ hubRead.value < FullScore <=> \E f \in failing : f.active /\ Weight(f) > 0
                       /\ (\E std \in DOMAIN summaries : summaries[std].failed > 0)
                            <=> \E f \in failing : f.compliance.standards # <<>>
  BY DEF ScoreAgreesWithSummaries
<1>1. PICK page \in Seq(HubFindings) : page = hubRead.page
  BY DEF HubInv
<1>2. hubRead.value = CalculateSecurityScore(page)
  BY <1>1 DEF HubInv
<1>3. PICK n \in Nat : n = Len(page) /\ DOMAIN page = 1..n
  BY <1>1, LenProperties
<1>4. hubRead.value < FullScore <=> \E i \in FailedPriced(page) : Weight(page[i]) > 0
  BY <1>2, <1>3, ScoreIs
<1>5. (\E i \in FailedPriced(page) : Weight(page[i]) > 0)
        <=> \E f \in ToSet(page) : Fails(f) /\ f.active /\ Weight(f) > 0
  BY DEF FailedPriced, ToSet
<1>6. (\E std \in DOMAIN BuildComplianceSummaries(page) :
         BuildComplianceSummaries(page)[std].failed > 0)
        <=> \E f \in ToSet(page) : Fails(f) /\ f.compliance.standards # <<>>
  BY <1>1, FailedFit
<1> QED  BY <1>1, <1>4, <1>5, <1>6

LEMMA FixingRaises == HubInv => FixingNeverHurts
BY RecheckRaises, ArchiveRaises DEF HubInv, FixingNeverHurts

LEMMA ItemsSayWhy == HubInv => PoorEvidenceSaysWhy
<1> SUFFICES ASSUME HubInv, hubRead.call = "evidence", NEW i \in DOMAIN hubRead.value
             PROVE  SaysWhy(hubRead.value[i])
  BY DEF PoorEvidenceSaysWhy
<1>1. PICK page \in Seq(HubFindings) : page = hubRead.page
  BY DEF HubInv
<1>2. hubRead.value = [j \in DOMAIN page |-> NormalizeFinding(page[j])]
  BY <1>1 DEF HubInv
<1>3. i \in DOMAIN page /\ hubRead.value[i] = NormalizeFinding(page[i])
  BY <1>2
<1>4. page[i] \in HubFindings
  <2>1. PICK n \in Nat : n = Len(page) /\ DOMAIN page = 1..n
    BY <1>1, LenProperties
  <2> QED  BY <1>1, <1>3, <2>1, ElementOfSeq
<1> QED  BY <1>3, <1>4, ItemSaysWhy

\* The readings of a page agree, for every finding AWS may report and any page
\* size (aws_security_hub.go, asff_normalizer.go).
THEOREM SpecReadingsAgree == HubSpec => []ReadingsAgree
<1>1. HubInv => ReadingsAgree
  BY FullMarksHold, ScoresAgree, FixingRaises, ItemsSayWhy DEF ReadingsAgree
<1> QED  BY <1>1, HubInitInv, HubStep, PTL DEF HubSpec

(***************************************************************************)
(* Lists of items, and their concatenation                                 *)
(***************************************************************************)

IsList(s) == s \in Seq({s[i] : i \in 1..Len(s)})

\* Two items of one list differ in type or subject.
KeysDiffer(s) == \A i, j \in 1..Len(s) :
                   (s[i].type = s[j].type /\ s[i].subject = s[j].subject) => i = j
OfTypes(s, S) == \A i \in 1..Len(s) : s[i].type \in S
Within(it, s) == \E i \in 1..Len(s) : it = s[i]

\* The running concatenations that FlattenSeq chooses, up to the n-th list.
Joins(g, seqs, n) == g = [i \in 1..n |-> IF i = 1 THEN seqs[i] ELSE g[i - 1] \o seqs[i]]

LEMMA JoinsGrow ==
  ASSUME NEW seqs, NEW n \in Nat, NEW g, Joins(g, seqs, n)
  PROVE  \E h : Joins(h, seqs, n + 1)
<1> DEFINE h == [i \in 1..n + 1 |-> IF i <= n THEN g[i]
                                    ELSE IF i = 1 THEN seqs[i] ELSE g[n] \o seqs[i]]
<1>1. \A i \in 1..n : g[i] = IF i = 1 THEN seqs[i] ELSE g[i - 1] \o seqs[i]
  BY DEF Joins
<1>2. ASSUME NEW i \in 1..n + 1 PROVE h[i] = IF i = 1 THEN seqs[i] ELSE h[i - 1] \o seqs[i]
  <2>1. CASE i <= n
    <3>1. i \in 1..n /\ (i # 1 => i - 1 \in 1..n + 1 /\ i - 1 <= n)
      BY <2>1
    <3> QED  BY <1>1, <3>1
  <2>2. CASE ~(i <= n)
    <3>1. i = n + 1 /\ (i # 1 => i - 1 = n /\ n \in 1..n + 1)
      BY <2>2
    <3> QED  BY <2>2, <3>1
  <2> QED  BY <2>1, <2>2
<1>3. h = [i \in 1..n + 1 |-> IF i = 1 THEN seqs[i] ELSE h[i - 1] \o seqs[i]]
  <2> HIDE DEF h
  <2>1. \A i \in 1..n + 1 : h[i] = IF i = 1 THEN seqs[i] ELSE h[i - 1] \o seqs[i]
    BY <1>2
  <2>2. h = [i \in 1..n + 1 |-> h[i]]
    BY DEF h
  <2> QED  BY <2>1, <2>2
<1> HIDE DEF h
<1> QED  BY <1>3 DEF Joins

LEMMA JoinsExist ==
  ASSUME NEW seqs, NEW n \in Nat
  PROVE  \E g : Joins(g, seqs, n)
<1> DEFINE S == {m \in Nat : \E g : Joins(g, seqs, m)}
<1>1. 0 \in S
  <2>1. Joins(<<>>, seqs, 0)
    BY DEF Joins
  <2> QED  BY <2>1
<1>2. \A m \in S : m + 1 \in S
  BY JoinsGrow
<1>3. S \in SUBSET Nat
  OBVIOUS
<1> HIDE DEF S
<1>4. S = Nat
  BY <1>1, <1>2, <1>3, NatSetInduction
<1> QED  BY <1>4 DEF S

LEMMA FlattenIs ==
  ASSUME NEW seqs, Len(seqs) \in Nat, Len(seqs) # 0
  PROVE  \E g : Joins(g, seqs, Len(seqs)) /\ FlattenSeq(seqs) = g[Len(seqs)]
<1> DEFINE c == CHOOSE g : Joins(g, seqs, Len(seqs))
<1>1. Joins(c, seqs, Len(seqs))
  BY JoinsExist
<1>2. FlattenSeq(seqs) = c[Len(seqs)]
  BY DEF FlattenSeq, Joins
<1> QED  BY <1>1, <1>2

Apart(s, t) == \A i \in 1..Len(s), j \in 1..Len(t) :
                 ~(s[i].type = t[j].type /\ s[i].subject = t[j].subject)

LEMMA ConcatDiffer ==
  ASSUME NEW T, NEW a \in Seq(T), NEW b \in Seq(T)
  PROVE  /\ a \o b \in Seq(T)
         /\ \A k \in 1..Len(a \o b) : Within((a \o b)[k], a) \/ Within((a \o b)[k], b)
         /\ (KeysDiffer(a) /\ KeysDiffer(b) /\ Apart(a, b)) => KeysDiffer(a \o b)
<1>1. PICK n \in Nat, m \in Nat : n = Len(a) /\ m = Len(b)
  BY LenProperties
<1>2. PICK c : c = a \o b
  OBVIOUS
<1>3. /\ c \in Seq(T) /\ Len(c) = n + m
      /\ \A i \in 1..n + m : c[i] = IF i <= n THEN a[i] ELSE b[i - n]
  BY <1>1, <1>2, ConcatProperties
<1>4. \A i \in 1..n + m : \/ i \in 1..n /\ c[i] = a[i]
                          \/ i \notin 1..n /\ i - n \in 1..m /\ c[i] = b[i - n]
  BY <1>1, <1>3
<1>5. \A k \in 1..Len(c) : Within(c[k], a) \/ Within(c[k], b)
  BY <1>1, <1>3, <1>4 DEF Within
<1>6. ASSUME KeysDiffer(a), KeysDiffer(b), Apart(a, b) PROVE KeysDiffer(c)
  <2>1. SUFFICES ASSUME NEW i \in 1..n + m, NEW j \in 1..n + m,
                        c[i].type = c[j].type, c[i].subject = c[j].subject
                 PROVE  i = j
    BY <1>1, <1>3 DEF KeysDiffer
  <2>2. CASE i \in 1..n /\ j \in 1..n
    BY <1>1, <1>4, <1>6, <2>1, <2>2 DEF KeysDiffer
  <2>3. CASE i \notin 1..n /\ j \notin 1..n
    <3>1. i - n \in 1..m /\ j - n \in 1..m /\ c[i] = b[i - n] /\ c[j] = b[j - n]
      BY <1>4, <2>3
    <3>2. i - n = j - n
      BY <1>1, <1>6, <2>1, <3>1 DEF KeysDiffer
    <3> QED  BY <1>1, <3>2
  <2>4. CASE i \in 1..n /\ j \notin 1..n
    BY <1>1, <1>4, <1>6, <2>1, <2>4 DEF Apart
  <2>5. CASE i \notin 1..n /\ j \in 1..n
    BY <1>1, <1>4, <1>6, <2>1, <2>5 DEF Apart
  <2> QED  BY <2>2, <2>3, <2>4, <2>5
<1> QED  BY <1>2, <1>3, <1>5, <1>6

\* Lists of items of other types have nothing in common.
LEMMA TypedConcat ==
  ASSUME NEW T, NEW a \in Seq(T), NEW b \in Seq(T), NEW R, NEW S,
         OfTypes(a, R), OfTypes(b, S), R \cap S = {}
  PROVE  /\ a \o b \in Seq(T) /\ OfTypes(a \o b, R \cup S)
         /\ \A k \in 1..Len(a \o b) : (a \o b)[k].type \in R => Within((a \o b)[k], a)
         /\ (KeysDiffer(a) /\ KeysDiffer(b)) => KeysDiffer(a \o b)
<1>1. Apart(a, b)
  BY DEF Apart, OfTypes
<1>2. /\ a \o b \in Seq(T)
      /\ \A k \in 1..Len(a \o b) : Within((a \o b)[k], a) \/ Within((a \o b)[k], b)
      /\ (KeysDiffer(a) /\ KeysDiffer(b)) => KeysDiffer(a \o b)
  BY <1>1, ConcatDiffer
<1>3. \A it : Within(it, a) => it.type \in R
  BY DEF Within, OfTypes
<1>4. \A it : Within(it, b) => it.type \in S
  BY DEF Within, OfTypes
<1>5. OfTypes(a \o b, R \cup S)
  BY <1>2, <1>3, <1>4 DEF OfTypes
<1> QED  BY <1>2, <1>4, <1>5

Joined(s, seqs, T, m) ==
  /\ s \in Seq(T) /\ KeysDiffer(s)
  /\ \A k \in 1..Len(s) : \E i \in 1..m : Within(s[k], seqs[i])

LEMMA FlattenDiffers ==
  ASSUME NEW T, NEW seqs, NEW n \in Nat, Len(seqs) = n, n # 0,
         \A i \in 1..n : seqs[i] \in Seq(T) /\ KeysDiffer(seqs[i]),
         \A i, j \in 1..n : i # j => Apart(seqs[i], seqs[j])
  PROVE  Joined(FlattenSeq(seqs), seqs, T, n)
<1>1. PICK g : Joins(g, seqs, n) /\ FlattenSeq(seqs) = g[n]
  BY FlattenIs
<1>2. \A i \in 1..n : g[i] = IF i = 1 THEN seqs[i] ELSE g[i - 1] \o seqs[i]
  BY <1>1 DEF Joins
<1> DEFINE P == {m \in Nat : m + 1 \in 1..n => Joined(g[m + 1], seqs, T, m + 1)}
<1>3. 0 \in P
  <2>1. SUFFICES ASSUME 1 \in 1..n PROVE Joined(g[1], seqs, T, 1)
    OBVIOUS
  <2>2. g[1] = seqs[1]
    BY <1>2, <2>1
  <2>3. \A k \in 1..Len(seqs[1]) : Within(seqs[1][k], seqs[1])
    BY DEF Within
  <2> QED  BY <2>1, <2>2, <2>3 DEF Joined
<1>4. ASSUME NEW m \in P PROVE m + 1 \in P
  <2>1. PICK k \in Nat : k = m + 1
    OBVIOUS
  <2>2. SUFFICES ASSUME k + 1 \in 1..n PROVE Joined(g[k + 1], seqs, T, k + 1)
    BY <2>1
  <2>3. k \in 1..n /\ k + 1 # 1 /\ (k + 1) - 1 = k /\ k # 0
    BY <2>1, <2>2
  <2>4. Joined(g[k], seqs, T, k)
    BY <2>1, <2>3
  <2>5. PICK b \in Seq(T) : b = seqs[k + 1] /\ KeysDiffer(b) /\ g[k + 1] = g[k] \o b
    BY <1>2, <2>2, <2>3
  <2>6. PICK a \in Seq(T) : /\ a = g[k] /\ KeysDiffer(a)
                            /\ \A l \in 1..Len(a) : \E i \in 1..k : Within(a[l], seqs[i])
    BY <2>4 DEF Joined
  <2>7. \A i \in 1..k : Apart(seqs[i], b)
    BY <2>2, <2>5
  <2>8. Apart(a, b)
    <3>1. SUFFICES ASSUME NEW l \in 1..Len(a), NEW r \in 1..Len(b)
                   PROVE  ~(a[l].type = b[r].type /\ a[l].subject = b[r].subject)
      BY DEF Apart
    <3>2. PICK i \in 1..k : Within(a[l], seqs[i])
      BY <2>6, <3>1
    <3>3. PICK t : t = seqs[i] /\ Apart(t, b)
      BY <2>7
    <3>4. PICK x \in 1..Len(t) : a[l] = t[x]
      BY <3>2, <3>3 DEF Within
    <3> QED  BY <3>1, <3>3, <3>4 DEF Apart
  <2>9. /\ a \o b \in Seq(T) /\ KeysDiffer(a \o b)
        /\ \A l \in 1..Len(a \o b) : Within((a \o b)[l], a) \/ Within((a \o b)[l], b)
    BY <2>5, <2>6, <2>8, ConcatDiffer
  <2>10. \A it : Within(it, a) => \E i \in 1..k + 1 : Within(it, seqs[i])
    <3>1. \A i \in 1..k : i \in 1..k + 1
      OBVIOUS
    <3> QED  BY <2>6, <3>1 DEF Within
  <2>11. \A it : Within(it, b) => \E i \in 1..k + 1 : Within(it, seqs[i])
    BY <2>5, <2>1
  <2> QED  BY <2>5, <2>6, <2>9, <2>10, <2>11 DEF Joined
<1>5. P \in SUBSET Nat
  OBVIOUS
<1> HIDE DEF P
<1>6. P = Nat
  BY <1>3, <1>4, <1>5, NatSetInduction
<1>7. n - 1 \in P /\ (n - 1) + 1 = n /\ n \in 1..n
  BY <1>6
<1>8. Joined(g[n], seqs, T, n)
  BY <1>7 DEF P
<1> QED  BY <1>1, <1>8

LEMMA ListFacts ==
  ASSUME NEW c, NEW n \in Nat, c = [i \in 1..n |-> c[i]]
  PROVE  IsList(c) /\ Len(c) = n
<1>1. PICK T : T = {c[i] : i \in 1..n}
  OBVIOUS
<1>2. c \in [1..n -> T]
  BY <1>1
<1>3. c \in Seq(T) /\ Len(c) = n
  BY <1>2, ListIs
<1> QED  BY <1>1, <1>3 DEF IsList

LEMMA ListOf ==
  ASSUME NEW T, NEW s \in Seq(T)
  PROVE  IsList(s) /\ Len(s) \in Nat /\ DOMAIN s = 1..Len(s)
<1>1. Len(s) \in Nat /\ s \in [1..Len(s) -> T] /\ DOMAIN s = 1..Len(s)
  BY LenProperties
<1>2. s = [i \in 1..Len(s) |-> s[i]]
  BY <1>1
<1> QED  BY <1>1, <1>2, ListFacts

LEMMA ListIn ==
  ASSUME NEW s, IsList(s), NEW T, \A i \in 1..Len(s) : s[i] \in T
  PROVE  s \in Seq(T)
<1>1. {s[i] : i \in 1..Len(s)} \subseteq T
  OBVIOUS
<1> QED  BY <1>1, SeqMonotonic DEF IsList

LEMMA ListRange ==
  ASSUME NEW s, IsList(s)
  PROVE  Len(s) \in Nat /\ DOMAIN s = 1..Len(s)
BY LenProperties DEF IsList

(***************************************************************************)
(* The items of a user                                                     *)
(***************************************************************************)

FactorsDiffer(u) == \A i, j \in 1..Len(u.factors) : u.factors[i][1] = u.factors[j][1] => i = j
OfUser(s, id) == \A k \in 1..Len(s) : s[k].type \in {"mfa", "user"} /\ s[k].subject[1] = id

UserItem(u) == Item("user", <<u.id, 0>>, UserProvisioningScore(u))
NoFactor(u) == Item("mfa", <<u.id, 0>>, 0)
Factor(u, k) == Item("mfa", <<u.id, u.factors[k][1]>>, MfaFactorScore(u.factors[k][2]))

LEMMA MfaItems ==
  ASSUME NEW u, IsList(u.factors)
  PROVE  \E n \in Nat :
           /\ IsList(MfaEvidence(u)) /\ Len(MfaEvidence(u)) = n
           /\ u.factors = <<>> => n = 1 /\ MfaEvidence(u)[1] = NoFactor(u)
           /\ u.factors # <<>> =>
                n = Len(u.factors) /\ \A k \in 1..n : MfaEvidence(u)[k] = Factor(u, k)
<1>1. CASE u.factors = <<>>
  <2>1. MfaEvidence(u) = <<NoFactor(u)>>
    BY <1>1 DEF MfaEvidence, NoFactor
  <2>2. PICK x : x = NoFactor(u)
    OBVIOUS
  <2>3. <<x>> \in Seq({x}) /\ Len(<<x>>) = 1 /\ <<x>>[1] = x
    OBVIOUS
  <2>4. IsList(<<x>>)
    BY <2>3, ListOf
  <2> QED  BY <1>1, <2>1, <2>2, <2>3, <2>4
<1>2. CASE u.factors # <<>>
  <2>1. PICK n \in Nat : n = Len(u.factors) /\ DOMAIN u.factors = 1..n
    BY ListRange
  <2>2. MfaEvidence(u) = [k \in 1..n |-> Factor(u, k)]
    BY <1>2, <2>1 DEF MfaEvidence, Factor
  <2>3. PICK c : c = [k \in 1..n |-> Factor(u, k)]
    OBVIOUS
  <2>4. \A k \in 1..n : c[k] = Factor(u, k)
    BY <2>3
  <2>5. c = [k \in 1..n |-> c[k]]
    BY <2>3
  <2>6. IsList(c) /\ Len(c) = n
    BY <2>5, ListFacts
  <2> QED  BY <1>2, <2>1, <2>2, <2>3, <2>4, <2>6
<1> QED  BY <1>1, <1>2

LEMMA UserItems ==
  ASSUME NEW u, IsList(u.factors)
  PROVE  \E n \in Nat :
           /\ IsList(UserEvidence(u)) /\ Len(UserEvidence(u)) = n + 1
           /\ UserEvidence(u)[n + 1] = UserItem(u)
           /\ u.factors = <<>> => n = 1 /\ UserEvidence(u)[1] = NoFactor(u)
           /\ u.factors # <<>> =>
                n = Len(u.factors) /\ \A k \in 1..n : UserEvidence(u)[k] = Factor(u, k)
<1>1. PICK n \in Nat :
           /\ IsList(MfaEvidence(u)) /\ Len(MfaEvidence(u)) = n
           /\ u.factors = <<>> => n = 1 /\ MfaEvidence(u)[1] = NoFactor(u)
           /\ u.factors # <<>> =>
                n = Len(u.factors) /\ \A k \in 1..n : MfaEvidence(u)[k] = Factor(u, k)
  BY MfaItems
<1>2. PICK m : m = MfaEvidence(u)
  OBVIOUS
<1>3. PICK x : x = UserItem(u)
  OBVIOUS
<1>4. PICK T : T = {m[i] : i \in 1..Len(m)} \cup {x}
  OBVIOUS
<1>5. m \in Seq(T) /\ x \in T
  BY <1>1, <1>2, <1>4, SeqMonotonic DEF IsList
<1>6. UserEvidence(u) = Append(m, x)
  BY <1>2, <1>3 DEF UserEvidence, UserItem
<1>7. /\ Append(m, x) \in Seq(T) /\ Len(Append(m, x)) = n + 1 /\ Append(m, x)[n + 1] = x
      /\ \A i \in 1..n : Append(m, x)[i] = m[i]
  BY <1>1, <1>2, <1>5, AppendProperties
<1>8. IsList(Append(m, x))
  BY <1>7, ListOf
<1>9. n = 1 => 1 \in 1..n
  OBVIOUS
<1> QED  BY <1>1, <1>2, <1>3, <1>6, <1>7, <1>8, <1>9

LEMMA ItemsOfUser ==
  ASSUME NEW u, IsList(u.factors)
  PROVE  /\ IsList(UserEvidence(u)) /\ OfUser(UserEvidence(u), u.id)
         /\ FactorsDiffer(u) => KeysDiffer(UserEvidence(u))
<1>1. PICK n \in Nat :
           /\ IsList(UserEvidence(u)) /\ Len(UserEvidence(u)) = n + 1
           /\ UserEvidence(u)[n + 1] = UserItem(u)
           /\ u.factors = <<>> => n = 1 /\ UserEvidence(u)[1] = NoFactor(u)
           /\ u.factors # <<>> =>
                n = Len(u.factors) /\ \A k \in 1..n : UserEvidence(u)[k] = Factor(u, k)
  BY UserItems
<1>2. PICK e : e = UserEvidence(u)
  OBVIOUS
<1>3. UserItem(u).type = "user" /\ UserItem(u).subject[1] = u.id
  BY DEF UserItem, Item
<1>4. NoFactor(u).type = "mfa" /\ NoFactor(u).subject[1] = u.id
  BY DEF NoFactor, Item
<1>5. ASSUME NEW k PROVE /\ Factor(u, k).type = "mfa" /\ Factor(u, k).subject[1] = u.id
                         /\ Factor(u, k).subject[2] = u.factors[k][1]
  BY DEF Factor, Item
<1>6. ASSUME NEW k \in 1..n PROVE e[k].type = "mfa" /\ e[k].subject[1] = u.id
  <2>1. CASE u.factors = <<>>
    <3>1. k = 1
      BY <1>1, <2>1
    <3> QED  BY <1>1, <1>2, <1>4, <2>1, <3>1
  <2>2. CASE u.factors # <<>>
    BY <1>1, <1>2, <1>5, <2>2
  <2> QED  BY <2>1, <2>2
<1>7. \A k \in 1..n + 1 : k \in 1..n \/ k = n + 1
  OBVIOUS
<1>8. OfUser(e, u.id)
  BY <1>1, <1>2, <1>3, <1>6, <1>7 DEF OfUser
<1>9. ASSUME FactorsDiffer(u) PROVE KeysDiffer(e)
  <2>1. SUFFICES ASSUME NEW i \in 1..n + 1, NEW j \in 1..n + 1,
                        e[i].type = e[j].type, e[i].subject = e[j].subject
                 PROVE  i = j
    BY <1>1, <1>2 DEF KeysDiffer
  <2>2. CASE i \in 1..n /\ j \in 1..n
    <3>1. CASE u.factors = <<>>
      BY <1>1, <2>2, <3>1
    <3>2. CASE u.factors # <<>>
      <4>1. e[i].subject[2] = u.factors[i][1] /\ e[j].subject[2] = u.factors[j][1]
        BY <1>1, <1>2, <1>5, <2>2, <3>2
      <4> QED  BY <1>1, <1>9, <2>1, <2>2, <3>2, <4>1 DEF FactorsDiffer
    <3> QED  BY <3>1, <3>2
  <2>3. CASE i = n + 1 /\ j = n + 1
    BY <2>3
  <2>4. e[n + 1].type = "user" /\ "user" # "mfa"
    BY <1>1, <1>2, <1>3
  <2> QED  BY <1>6, <1>7, <2>1, <2>2, <2>3, <2>4
<1> QED  BY <1>1, <1>2, <1>8, <1>9

(***************************************************************************)
(* The items of a snapshot                                                 *)
(***************************************************************************)

\* Users as the adapters hand them on: listed once, each with a list of factors.
UsersOK(us) ==
  /\ IsList(us) /\ IdsDiffer(us)
  /\ \A i \in 1..Len(us) : IsList(us[i].factors) /\ FactorsDiffer(us[i])

UsersPart(us) == FlattenSeq([i \in DOMAIN us |-> UserEvidence(us[i])])
OfUsers(s, us) == \A k \in 1..Len(s) : \E i \in 1..Len(us) : Within(s[k], UserEvidence(us[i]))

LEMMA UsersPartFacts ==
  ASSUME NEW us, UsersOK(us)
  PROVE  /\ IsList(UsersPart(us)) /\ KeysDiffer(UsersPart(us))
         /\ OfTypes(UsersPart(us), {"mfa", "user"}) /\ OfUsers(UsersPart(us), us)
<1>1. PICK n \in Nat : n = Len(us) /\ DOMAIN us = 1..n
  BY ListRange DEF UsersOK
<1>2. PICK c : c = [i \in 1..n |-> UserEvidence(us[i])]
  OBVIOUS
<1>3. c = [i \in 1..n |-> c[i]] /\ \A i \in 1..n : c[i] = UserEvidence(us[i])
  BY <1>2
<1>4. IsList(c) /\ Len(c) = n
  BY <1>3, ListFacts
<1>5. UsersPart(us) = FlattenSeq(c)
  BY <1>1, <1>2 DEF UsersPart
<1>6. \A i \in 1..n : IsList(c[i]) /\ OfUser(c[i], us[i].id) /\ KeysDiffer(c[i])
  BY <1>1, <1>3, ItemsOfUser DEF UsersOK
<1>7. CASE n = 0
  <2>1. FlattenSeq(c) = c
    BY <1>4, <1>7 DEF FlattenSeq
  <2>2. KeysDiffer(c) /\ OfTypes(c, {"mfa", "user"}) /\ OfUsers(c, us)
    BY <1>4, <1>7 DEF KeysDiffer, OfTypes, OfUsers
  <2> QED  BY <1>4, <1>5, <2>1, <2>2
<1>8. CASE n # 0
  <2>1. PICK T : T = UNION {{c[i][k] : k \in 1..Len(c[i])} : i \in 1..n}
    OBVIOUS
  <2>2. ASSUME NEW i \in 1..n PROVE c[i] \in Seq(T)
    <3>1. \A k \in 1..Len(c[i]) : c[i][k] \in T
      BY <2>1
    <3>2. PICK s : s = c[i]
      OBVIOUS
    <3> QED  BY <1>6, <3>1, <3>2, ListIn
  <2>3. ASSUME NEW i \in 1..n, NEW j \in 1..n, i # j PROVE Apart(c[i], c[j])
    <3>1. us[i].id # us[j].id
      BY <1>1, <2>3 DEF UsersOK, IdsDiffer
    <3> QED  BY <1>6, <3>1 DEF OfUser, Apart
  <2>4. Joined(FlattenSeq(c), c, T, n)
    BY <1>4, <1>6, <1>8, <2>2, <2>3, FlattenDiffers
  <2>5. PICK f : f = FlattenSeq(c)
    OBVIOUS
  <2>6. /\ f \in Seq(T) /\ KeysDiffer(f)
        /\ \A k \in 1..Len(f) : \E i \in 1..n : Within(f[k], c[i])
    BY <2>4, <2>5 DEF Joined
  <2>7. OfUsers(f, us)
    BY <1>1, <1>3, <2>6 DEF OfUsers
  <2>8. OfTypes(f, {"mfa", "user"})
    <3>1. ASSUME NEW i \in 1..n, NEW it, Within(it, c[i]) PROVE it.type \in {"mfa", "user"}
      BY <1>6, <3>1 DEF Within, OfUser
    <3> QED  BY <2>6, <3>1 DEF OfTypes
  <2> QED  BY <1>5, <2>5, <2>6, <2>7, <2>8, ListOf
<1> QED  BY <1>7, <1>8

\* What one call of a sync reads, item by item: items of one type, one for each
\* element, told apart by what tells the elements apart.
LEMMA MappedFacts ==
  ASSUME NEW s, IsList(s), NEW c, c = [i \in DOMAIN s |-> c[i]], NEW t,
         \A i \in 1..Len(s) : c[i].type = t,
         \A i, j \in 1..Len(s) : c[i].subject = c[j].subject => i = j
  PROVE  IsList(c) /\ KeysDiffer(c) /\ OfTypes(c, {t})
<1>1. PICK n \in Nat : n = Len(s) /\ DOMAIN s = 1..n
  BY ListRange
<1>2. IsList(c) /\ Len(c) = n
  BY <1>1, ListFacts
<1> QED  BY <1>1, <1>2 DEF KeysDiffer, OfTypes

PartsOK(p) == /\ UsersOK(p.users)
              /\ IsList(p.reviews) /\ IdsDiffer(p.reviews)
              /\ IsList(p.groups) /\ AllDiffer(p.groups)
              /\ IsList(p.policies) /\ IdsDiffer(p.policies)
              /\ IsList(p.logs) /\ IdsDiffer(p.logs)

\* Putting a list of items of a new type behind another.
LEMMA TypedLists ==
  ASSUME NEW a, IsList(a), KeysDiffer(a), NEW R, OfTypes(a, R),
         NEW b, IsList(b), KeysDiffer(b), NEW t, OfTypes(b, {t}), t \notin R
  PROVE  /\ IsList(a \o b) /\ KeysDiffer(a \o b) /\ OfTypes(a \o b, R \cup {t})
         /\ \A k \in 1..Len(a \o b) : (a \o b)[k].type \in R => Within((a \o b)[k], a)
<1>1. PICK T : T = {a[i] : i \in 1..Len(a)} \cup {b[i] : i \in 1..Len(b)}
  OBVIOUS
<1>2. a \in Seq(T) /\ b \in Seq(T)
  <2>1. \A i \in 1..Len(a) : a[i] \in T
    BY <1>1
  <2>2. \A i \in 1..Len(b) : b[i] \in T
    BY <1>1
  <2> QED  BY <2>1, <2>2, ListIn
<1>3. R \cap {t} = {}
  OBVIOUS
<1>4. /\ a \o b \in Seq(T) /\ OfTypes(a \o b, R \cup {t})
      /\ \A k \in 1..Len(a \o b) : (a \o b)[k].type \in R => Within((a \o b)[k], a)
      /\ KeysDiffer(a \o b)
  BY <1>2, <1>3, TypedConcat
<1> QED  BY <1>4, ListOf

LEMMA SnapshotItems ==
  ASSUME NEW p, PartsOK(p)
  PROVE  /\ IsList(MapSnapshot(p)) /\ KeysDiffer(MapSnapshot(p))
         /\ \A k \in 1..Len(MapSnapshot(p)) : MapSnapshot(p)[k].type \in {"mfa", "user"} =>
              \E i \in 1..Len(p.users) : Within(MapSnapshot(p)[k], UserEvidence(p.users[i]))
<1>1. PICK us : us = UsersPart(p.users)
  OBVIOUS
<1>2. IsList(us) /\ KeysDiffer(us) /\ OfTypes(us, {"mfa", "user"}) /\ OfUsers(us, p.users)
  BY <1>1, UsersPartFacts DEF PartsOK
<1>3. PICK rs : rs = [i \in DOMAIN p.reviews |-> ReviewEvidence(p.reviews[i])]
  OBVIOUS
<1>4. IsList(rs) /\ KeysDiffer(rs) /\ OfTypes(rs, {"review"})
  <2>1. PICK n \in Nat : n = Len(p.reviews) /\ DOMAIN p.reviews = 1..n
    BY ListRange DEF PartsOK
  <2>2. \A i \in 1..n : rs[i].type = "review" /\ rs[i].subject = <<p.reviews[i].id, 0>>
    BY <1>3, <2>1 DEF ReviewEvidence, Item
  <2>3. \A i, j \in 1..n : rs[i].subject = rs[j].subject => i = j
    BY <2>1, <2>2 DEF PartsOK, IdsDiffer
  <2>4. rs = [i \in DOMAIN p.reviews |-> rs[i]]
    BY <1>3
  <2> QED  BY <2>1, <2>2, <2>3, <2>4, MappedFacts DEF PartsOK
<1>5. PICK gs : gs = [i \in DOMAIN p.groups |-> GroupEvidence(p.groups[i])]
  OBVIOUS
<1>6. IsList(gs) /\ KeysDiffer(gs) /\ OfTypes(gs, {"group"})
  <2>1. PICK n \in Nat : n = Len(p.groups) /\ DOMAIN p.groups = 1..n
    BY ListRange DEF PartsOK
  <2>2. \A i \in 1..n : gs[i].type = "group" /\ gs[i].subject = <<p.groups[i], 0>>
    BY <1>5, <2>1 DEF GroupEvidence, Item
  <2>3. \A i, j \in 1..n : gs[i].subject = gs[j].subject => i = j
    BY <2>1, <2>2 DEF PartsOK, AllDiffer
  <2>4. gs = [i \in DOMAIN p.groups |-> gs[i]]
    BY <1>5
  <2> QED  BY <2>1, <2>2, <2>3, <2>4, MappedFacts DEF PartsOK
<1>7. PICK ps : ps = [i \in DOMAIN p.policies |-> PolicyEvidence(p.policies[i])]
  OBVIOUS
<1>8. IsList(ps) /\ KeysDiffer(ps) /\ OfTypes(ps, {"policy"})
  <2>1. PICK n \in Nat : n = Len(p.policies) /\ DOMAIN p.policies = 1..n
    BY ListRange DEF PartsOK
  <2>2. \A i \in 1..n : ps[i].type = "policy" /\ ps[i].subject = <<p.policies[i].id, 0>>
    BY <1>7, <2>1 DEF PolicyEvidence, Item
  <2>3. \A i, j \in 1..n : ps[i].subject = ps[j].subject => i = j
    BY <2>1, <2>2 DEF PartsOK, IdsDiffer
  <2>4. ps = [i \in DOMAIN p.policies |-> ps[i]]
    BY <1>7
  <2> QED  BY <2>1, <2>2, <2>3, <2>4, MappedFacts DEF PartsOK
<1>9. PICK ls : ls = [i \in DOMAIN p.logs |-> LogEvidence(p.logs[i])]
  OBVIOUS
<1>10. IsList(ls) /\ KeysDiffer(ls) /\ OfTypes(ls, {"log"})
  <2>1. PICK n \in Nat : n = Len(p.logs) /\ DOMAIN p.logs = 1..n
    BY ListRange DEF PartsOK
  <2>2. \A i \in 1..n : ls[i].type = "log" /\ ls[i].subject = <<p.logs[i].id, 0>>
    BY <1>9, <2>1 DEF LogEvidence, Item
  <2>3. \A i, j \in 1..n : ls[i].subject = ls[j].subject => i = j
    BY <2>1, <2>2 DEF PartsOK, IdsDiffer
  <2>4. ls = [i \in DOMAIN p.logs |-> ls[i]]
    BY <1>9
  <2> QED  BY <2>1, <2>2, <2>3, <2>4, MappedFacts DEF PartsOK
<1>11. PICK A, B, C : A = {"mfa", "user"} /\ B = A \cup {"review"} /\ C = B \cup {"group"}
  OBVIOUS
<1>12. PICK a : a = us \o rs /\ IsList(a) /\ KeysDiffer(a) /\ OfTypes(a, B)
                /\ \A k \in 1..Len(a) : a[k].type \in A => Within(a[k], us)
  <2>1. "review" \notin A
    BY <1>11
  <2> QED  BY <1>2, <1>4, <1>11, <2>1, TypedLists
<1>13. PICK b : b = a \o gs /\ IsList(b) /\ KeysDiffer(b) /\ OfTypes(b, C)
                /\ \A k \in 1..Len(b) : b[k].type \in B => Within(b[k], a)
  <2>1. "group" \notin B
    BY <1>11
  <2> QED  BY <1>6, <1>11, <1>12, <2>1, TypedLists
<1>14. PICK c : c = b \o ps /\ IsList(c) /\ KeysDiffer(c) /\ OfTypes(c, C \cup {"policy"})
                /\ \A k \in 1..Len(c) : c[k].type \in C => Within(c[k], b)
  <2>1. "policy" \notin C
    BY <1>11
  <2> QED  BY <1>8, <1>13, <2>1, TypedLists
<1>15. PICK d : d = c \o ls /\ IsList(d) /\ KeysDiffer(d)
                /\ \A k \in 1..Len(d) : d[k].type \in C \cup {"policy"} => Within(d[k], c)
  <2>1. "log" \notin C \cup {"policy"}
    BY <1>11
  <2> QED  BY <1>10, <1>14, <2>1, TypedLists
<1>16. MapSnapshot(p) = d
  BY <1>1, <1>3, <1>5, <1>7, <1>9, <1>12, <1>13, <1>14, <1>15 DEF MapSnapshot, UsersPart
<1>17. ASSUME NEW k \in 1..Len(d), d[k].type \in A
       PROVE  \E i \in 1..Len(p.users) : Within(d[k], UserEvidence(p.users[i]))
  <2>1. A \subseteq B /\ B \subseteq C
    BY <1>11
  <2>2. Within(d[k], c)
    BY <1>15, <1>17, <2>1
  <2>3. Within(d[k], b)
    BY <1>14, <1>17, <2>1, <2>2 DEF Within
  <2>4. Within(d[k], a)
    BY <1>13, <1>17, <2>1, <2>3 DEF Within
  <2>5. Within(d[k], us)
    BY <1>12, <1>17, <2>4 DEF Within
  <2> QED  BY <1>2, <2>5 DEF Within, OfUsers
<1> QED  BY <1>11, <1>15, <1>16, <1>17

(***************************************************************************)
(* What the calls of a sync read                                           *)
(***************************************************************************)

LEMMA FirstPageFacts ==
  ASSUME NEW T, NEW s \in Seq(T), NEW size \in Nat
  PROVE  \E n \in 0..Len(s) : /\ n = IF Len(s) <= size THEN Len(s) ELSE size
                              /\ FirstPage(s, size) \in Seq(T) /\ Len(FirstPage(s, size)) = n
                              /\ \A i \in 1..n : FirstPage(s, size)[i] = s[i]
<1>1. PICK len \in Nat : len = Len(s)
  BY LenProperties
<1>2. PICK n : n = IF len <= size THEN len ELSE size
  OBVIOUS
<1>3. n \in 0..len
  BY <1>2
<1>4. Min({Len(s), size}) = n
  BY <1>1, <1>2, MinOfTwo
<1>5. FirstPage(s, size) = SubSeq(s, 1, n)
  BY <1>4 DEF FirstPage
<1>6. \A i \in 1..n : s[i] \in T
  BY <1>1, <1>3, ElementOfSeq
<1>7. /\ SubSeq(s, 1, n) \in Seq(T) /\ Len(SubSeq(s, 1, n)) = n
      /\ \A i \in 1..n : SubSeq(s, 1, n)[i] = s[i]
  BY <1>3, <1>6, SubSeqProperties
<1> QED  BY <1>1, <1>2, <1>3, <1>5, <1>7

LEMMA FirstPageDiffers ==
  ASSUME NEW T, NEW s \in Seq(T), NEW size \in Nat, IdsDiffer(s)
  PROVE  IdsDiffer(FirstPage(s, size)) /\ \A i \in 1..Len(FirstPage(s, size)) :
                                             Within(FirstPage(s, size)[i], s)
<1>1. PICK n \in 0..Len(s) : /\ Len(FirstPage(s, size)) = n
                             /\ \A i \in 1..n : FirstPage(s, size)[i] = s[i]
  BY FirstPageFacts
<1>2. Len(s) \in Nat
  BY LenProperties
<1>3. \A i \in 1..n : i \in 1..Len(s)
  BY <1>2
<1> QED  BY <1>1, <1>3 DEF IdsDiffer, Within

LEMMA ReverseFacts ==
  ASSUME NEW T, NEW s \in Seq(T)
  PROVE  Reverse(s) \in Seq(T) /\ (IdsDiffer(s) => IdsDiffer(Reverse(s)))
<1>1. PICK n \in Nat : n = Len(s)
  BY LenProperties
<1>2. PICK r : r = [i \in 1..n |-> s[(n - i) + 1]]
  OBVIOUS
<1>3. \A i \in 1..n : (n - i) + 1 \in 1..n /\ r[i] = s[(n - i) + 1]
  BY <1>2
<1>4. r \in [1..n -> T]
  BY <1>1, <1>2, <1>3, ElementOfSeq
<1>5. r \in Seq(T) /\ Len(r) = n
  BY <1>4, ListIs
<1>6. ASSUME IdsDiffer(s) PROVE IdsDiffer(r)
  <2>1. SUFFICES ASSUME NEW i \in 1..n, NEW j \in 1..n, r[i].id = r[j].id PROVE i = j
    BY <1>5 DEF IdsDiffer
  <2>2. (n - i) + 1 = (n - j) + 1
    BY <1>1, <1>3, <1>6, <2>1 DEF IdsDiffer
  <2> QED  BY <2>2
<1> QED  BY <1>1, <1>2, <1>5, <1>6 DEF Reverse

AsRead(p, u) == IF p = "okta" THEN OktaUser(u) ELSE EntraUser(u)

\* A call reads a page of the users, Okta's only of the active ones, and leaves out
\* an active user only if the list is longer than a page.
ReadsPage(p, users, page) ==
  /\ page \in Seq(Accounts) /\ IdsDiffer(page)
  /\ UsersOf(p, users) = [i \in 1..Len(page) |-> AsRead(p, page[i])]
  /\ \A i \in 1..Len(page) : Within(page[i], users)
  /\ Len(users) <= UserPage =>
       \A k \in 1..Len(users) : users[k].status = "active" => Within(users[k], page)

LEMMA EntraPage ==
  ASSUME NEW p, p # "okta", NEW users \in Seq(Accounts), IdsDiffer(users)
  PROVE  \E page : ReadsPage(p, users, page)
<1>1. UserPage \in Nat
  BY AccountsAssumption
<1>2. PICK page \in Seq(Accounts) : page = FirstPage(users, UserPage)
  BY <1>1, FirstPageFacts
<1>3. PICK n \in 0..Len(users) :
        /\ n = IF Len(users) <= UserPage THEN Len(users) ELSE UserPage
        /\ Len(page) = n /\ \A i \in 1..n : page[i] = users[i]
  <2>1. \E n \in 0..Len(users) :
          /\ n = IF Len(users) <= UserPage THEN Len(users) ELSE UserPage
          /\ FirstPage(users, UserPage) \in Seq(Accounts) /\ Len(FirstPage(users, UserPage)) = n
          /\ \A i \in 1..n : FirstPage(users, UserPage)[i] = users[i]
    BY <1>1, FirstPageFacts
  <2> QED  BY <1>2, <2>1
<1>4. IdsDiffer(page) /\ \A i \in 1..Len(page) : Within(page[i], users)
  BY <1>1, <1>2, FirstPageDiffers
<1>5. UsersOf(p, users) = [i \in 1..Len(page) |-> AsRead(p, page[i])]
  <2>1. DOMAIN page = 1..Len(page)
    BY LenProperties
  <2> QED  BY <1>2, <2>1 DEF UsersOf, EntraUsers, AsRead
<1>6. ASSUME Len(users) <= UserPage, NEW k \in 1..Len(users) PROVE Within(users[k], page)
  BY <1>3, <1>6 DEF Within
<1> QED  BY <1>4, <1>5, <1>6 DEF ReadsPage

LEMMA OktaPage ==
  ASSUME NEW users \in Seq(Accounts), IdsDiffer(users)
  PROVE  \E page : ReadsPage("okta", users, page)
<1>1. UserPage \in Nat
  BY AccountsAssumption
<1>2. PICK len \in Nat : len = Len(users) /\ DOMAIN users = 1..len
  BY LenProperties
<1>3. PICK P \in SUBSET (1..Len(users)) : P = {i \in DOMAIN users : users[i].status = "active"}
  BY <1>2
<1>4. PICK active : active = Filtered(users, P)
  OBVIOUS
<1>5. ActiveUsers(users) = active
  BY <1>3, <1>4 DEF ActiveUsers
<1>6. PICK m \in 0..len :
        /\ active \in Seq(Accounts) /\ Len(active) = m
        /\ \A k \in 1..m : Nth(P, k) \in P /\ active[k] = users[Nth(P, k)]
        /\ \A i \in P : \E k \in 1..m : Nth(P, k) = i
  <2>1. /\ Cardinality(P) \in 0..Len(users)
        /\ Filtered(users, P) \in Seq(Accounts) /\ Len(Filtered(users, P)) = Cardinality(P)
        /\ \A k \in 1..Cardinality(P) : Nth(P, k) \in P /\ Filtered(users, P)[k] = users[Nth(P, k)]
        /\ \A i \in P : \E k \in 1..Cardinality(P) : Nth(P, k) = i
    BY KeptFacts
  <2> QED  BY <1>2, <1>4, <2>1
<1>7. IdsDiffer(active)
  BY <1>4, KeptDiffer
<1>8. PICK page \in Seq(Accounts) : page = FirstPage(active, UserPage)
  BY <1>1, <1>6, FirstPageFacts
<1>9. PICK n \in 0..Len(active) :
        /\ n = IF Len(active) <= UserPage THEN Len(active) ELSE UserPage
        /\ Len(page) = n /\ \A i \in 1..n : page[i] = active[i]
  <2>1. \E n \in 0..Len(active) :
          /\ n = IF Len(active) <= UserPage THEN Len(active) ELSE UserPage
          /\ FirstPage(active, UserPage) \in Seq(Accounts)
          /\ Len(FirstPage(active, UserPage)) = n
          /\ \A i \in 1..n : FirstPage(active, UserPage)[i] = active[i]
    BY <1>1, <1>6, FirstPageFacts
  <2> QED  BY <1>8, <2>1
<1>10. IdsDiffer(page)
  BY <1>1, <1>6, <1>7, <1>8, FirstPageDiffers
<1>11. \A k \in 1..m : Within(active[k], users)
  BY <1>2, <1>6 DEF Within
<1>12. \A i \in 1..Len(page) : Within(page[i], users)
  BY <1>6, <1>9, <1>11
<1>13. UsersOf("okta", users) = [i \in 1..Len(page) |-> AsRead("okta", page[i])]
  <2>1. DOMAIN page = 1..Len(page)
    BY LenProperties
  <2> QED  BY <1>5, <1>8, <2>1 DEF UsersOf, OktaUsers, AsRead
<1>14. ASSUME Len(users) <= UserPage, NEW k \in 1..Len(users), users[k].status = "active"
       PROVE  Within(users[k], page)
  <2>1. n = m
    BY <1>1, <1>2, <1>6, <1>9, <1>14
  <2>2. k \in P
    BY <1>2, <1>3, <1>14
  <2>3. PICK l \in 1..m : active[l] = users[k]
    BY <1>6, <2>2
  <2> QED  BY <1>9, <2>1, <2>3 DEF Within
<1> QED  BY <1>10, <1>12, <1>13, <1>14 DEF ReadsPage

LEMMA UsersPage ==
  ASSUME NEW p, NEW users \in Seq(Accounts), IdsDiffer(users)
  PROVE  \E page : ReadsPage(p, users, page)
<1>1. CASE p = "okta"
  BY <1>1, OktaPage
<1>2. CASE p # "okta"
  BY <1>2, EntraPage
<1> QED  BY <1>1, <1>2

LEMMA AsReadFacts ==
  ASSUME NEW p, NEW u \in Accounts
  PROVE  /\ AsRead(p, u).id = u.id /\ AsRead(p, u).factors = <<>>
         /\ p = "okta" => AsRead(p, u).status = u.status /\ AsRead(p, u).login = u.login
         /\ (p # "okta" /\ u.status = "active") =>
              AsRead(p, u).status = "active" /\ AsRead(p, u).login = -1
<1>1. u = Person(u.id, u.status, u.factors, u.login, u.apps)
  BY AccountsAssumption
<1>2. PICK id, status, factors, login, apps :
        u = [id |-> id, status |-> status, factors |-> factors, login |-> login, apps |-> apps]
  BY <1>1 DEF Person
<1>3. /\ OktaUser(u).id = u.id /\ OktaUser(u).factors = <<>>
      /\ OktaUser(u).status = u.status /\ OktaUser(u).login = u.login
  BY <1>2 DEF OktaUser
<1>4. /\ EntraUser(u).id = u.id /\ EntraUser(u).factors = <<>>
      /\ u.status = "active" => EntraUser(u).status = "active"
      /\ EntraUser(u).login = -1
  BY <1>2 DEF EntraUser
<1> QED  BY <1>3, <1>4 DEF AsRead

\* The users a call hands on are in order, and come from the directory.
LEMMA UsersReadOK ==
  ASSUME NEW p, NEW users \in Seq(Accounts), IdsDiffer(users)
  PROVE  /\ UsersOK(UsersOf(p, users))
         /\ \A i \in 1..Len(UsersOf(p, users)) : \E u \in Accounts :
              Within(u, users) /\ UsersOf(p, users)[i] = AsRead(p, u)
         /\ Len(users) <= UserPage =>
              \A k \in 1..Len(users) : users[k].status = "active" =>
                \E i \in 1..Len(UsersOf(p, users)) : UsersOf(p, users)[i].id = users[k].id
<1>1. PICK page : ReadsPage(p, users, page)
  BY UsersPage
<1>2. PICK n \in Nat : n = Len(page)
  BY <1>1, LenProperties DEF ReadsPage
<1>3. PICK c : c = [i \in 1..n |-> AsRead(p, page[i])] /\ UsersOf(p, users) = c
  BY <1>1, <1>2 DEF ReadsPage
<1>4. c = [i \in 1..n |-> c[i]] /\ \A i \in 1..n : c[i] = AsRead(p, page[i])
  BY <1>3
<1>5. IsList(c) /\ Len(c) = n
  BY <1>4, ListFacts
<1>6. \A i \in 1..n : page[i] \in Accounts /\ Within(page[i], users)
  BY <1>1, <1>2, ElementOfSeq DEF ReadsPage
<1>7. \A i \in 1..n : c[i].id = page[i].id /\ c[i].factors = <<>>
  BY <1>4, <1>6, AsReadFacts
<1>8. IdsDiffer(c)
  BY <1>1, <1>2, <1>5, <1>7 DEF IdsDiffer, ReadsPage
<1>9. IsList(<<>>) /\ Len(<<>>) = 0
  BY EmptySeq, ListOf
<1>10. UsersOK(c)
  BY <1>5, <1>7, <1>8, <1>9 DEF UsersOK, FactorsDiffer
<1>11. ASSUME Len(users) <= UserPage, NEW k \in 1..Len(users), users[k].status = "active"
       PROVE  \E i \in 1..n : c[i].id = users[k].id
  <2>1. PICK i \in 1..n : users[k] = page[i]
    BY <1>1, <1>2, <1>11 DEF ReadsPage, Within
  <2> QED  BY <1>7, <2>1
<1> QED  BY <1>3, <1>4, <1>5, <1>6, <1>10, <1>11

\* An item made of what is read of an active user is no better than one of the same
\* type made of the user.
LEMMA ReadIsNoBetter ==
  ASSUME NEW p, NEW u \in Accounts, u.status = "active",
         NEW it, Within(it, UserEvidence(AsRead(p, u)))
  PROVE  \E truth \in ToSet(UserEvidence(u)) : truth.type = it.type /\ it.score <= truth.score
<1>1. PICK v : v = AsRead(p, u)
  OBVIOUS
<1>2. /\ v.id = u.id /\ v.factors = <<>> /\ v.status = "active"
      /\ v.login = u.login \/ v.login = -1
  BY <1>1, AsReadFacts
<1>3. u.login \in Int /\ IsList(u.factors)
  BY AccountsAssumption, ListOf
<1>4. UserProvisioningScore(v) <= UserProvisioningScore(u)
  <2>1. PICK d \in Int : d = u.login
    BY <1>3
  <2>2. PICK a, b, x, y, z : /\ a = UserProvisioningScore(u) /\ b = UserProvisioningScore(v)
                             /\ x = 0..30 /\ y = 31..90 /\ z = v.login
    OBVIOUS
  <2>3. a = CASE d < 0 -> 40 [] d \in x -> 100 [] d \in y -> 80 [] OTHER -> 50
    BY <2>1, <2>2 DEF UserProvisioningScore
  <2>4. b = CASE z < 0 -> 40 [] z \in x -> 100 [] z \in y -> 80 [] OTHER -> 50
    BY <1>2, <2>2 DEF UserProvisioningScore
  <2>5. a \in {40, 50, 80, 100} /\ (d < 0 => a = 40)
    <3>1. CASE d < 0
      BY <2>1, <2>2, <2>3, <3>1
    <3>2. CASE ~(d < 0)
      BY <2>1, <2>2, <2>3, <3>2
    <3> QED  BY <3>1, <3>2
  <2>6. CASE z = d
    BY <2>2, <2>3, <2>4, <2>5, <2>6
  <2>7. CASE z = -1
    <3>1. b = 40
      BY <2>2, <2>4, <2>7
    <3> QED  BY <2>2, <2>5, <3>1
  <2> QED  BY <1>2, <2>1, <2>2, <2>6, <2>7
<1>5. \A k : MfaFactorScore(k) >= 0
  BY DEF MfaFactorScore
<1>6. IsList(<<>>)
  BY EmptySeq, ListOf
<1>7. /\ Len(UserEvidence(v)) = 2 /\ UserEvidence(v)[1] = NoFactor(v)
      /\ UserEvidence(v)[2] = UserItem(v)
  <2>1. IsList(v.factors)
    BY <1>2, <1>6
  <2>2. PICK n \in Nat :
          /\ Len(UserEvidence(v)) = n + 1 /\ UserEvidence(v)[n + 1] = UserItem(v)
          /\ n = 1 /\ UserEvidence(v)[1] = NoFactor(v)
    BY <1>2, <2>1, UserItems
  <2> QED  BY <2>2
<1>8. it = NoFactor(v) \/ it = UserItem(v)
  BY <1>1, <1>7 DEF Within
<1>9. PICK n \in Nat :
        /\ IsList(UserEvidence(u)) /\ Len(UserEvidence(u)) = n + 1
        /\ UserEvidence(u)[n + 1] = UserItem(u)
        /\ u.factors = <<>> => n = 1 /\ UserEvidence(u)[1] = NoFactor(u)
        /\ u.factors # <<>> =>
             n = Len(u.factors) /\ \A k \in 1..n : UserEvidence(u)[k] = Factor(u, k)
  BY <1>3, UserItems
<1>10. \A k \in 1..n + 1 : UserEvidence(u)[k] \in ToSet(UserEvidence(u))
  <2>1. DOMAIN UserEvidence(u) = 1..n + 1
    BY <1>9, ListRange
  <2> QED  BY <2>1 DEF ToSet
<1>11. CASE it = UserItem(v)
  <2>1. n + 1 \in 1..n + 1
    OBVIOUS
  <2>2. /\ UserItem(v).type = UserItem(u).type
        /\ UserItem(v).score = UserProvisioningScore(v)
        /\ UserItem(u).score = UserProvisioningScore(u)
    BY DEF UserItem, Item
  <2> QED  BY <1>4, <1>9, <1>10, <1>11, <2>1, <2>2
<1>12. CASE it = NoFactor(v)
  <2>1. it.type = "mfa" /\ it.score = 0
    BY <1>12 DEF NoFactor, Item
  <2>2. 1 \in 1..n + 1
    OBVIOUS
  <2>3. CASE u.factors = <<>>
    <3>1. NoFactor(u).type = "mfa" /\ NoFactor(u).score = 0
      BY DEF NoFactor, Item
    <3> QED  BY <1>9, <1>10, <2>1, <2>2, <2>3, <3>1
  <2>4. CASE u.factors # <<>>
    <3>1. n = Len(u.factors) /\ n # 0
      <4>1. u.factors \in Seq({u.factors[i] : i \in 1..Len(u.factors)})
        BY <1>3 DEF IsList
      <4> QED  BY <1>9, <2>4, <4>1, EmptySeq
    <3>2. 1 \in 1..n /\ UserEvidence(u)[1] = Factor(u, 1)
      BY <1>9, <2>4, <3>1
    <3>3. Factor(u, 1).type = "mfa" /\ Factor(u, 1).score >= 0
      BY <1>5 DEF Factor, Item
    <3> QED  BY <1>10, <2>1, <2>2, <3>2, <3>3
  <2> QED  BY <2>3, <2>4
<1> QED  BY <1>8, <1>11, <1>12

(***************************************************************************)
(* A sync of a directory (IamSnapshot)                                     *)
(***************************************************************************)

Parts(us, rs, gs, ps, ls) ==
  [users |-> us, reviews |-> rs, groups |-> gs, policies |-> ps, logs |-> ls]
Syncing(p, phase, parts, evidence, seen, live) ==
  [provider |-> p, phase |-> phase, parts |-> parts, evidence |-> evidence,
   seen |-> seen, live |-> live]

\* The directory gives an id once, and keeps its one policy.
DirectoryOK(d) ==
  /\ d = [users |-> d.users, logs |-> d.logs, groups |-> d.groups,
          policies |-> d.policies, changes |-> d.changes]
  /\ d.users \in Seq(Accounts) /\ IdsDiffer(d.users)
  /\ d.logs \in Seq(Events) /\ IdsDiffer(d.logs)
  /\ IsList(d.groups) /\ AllDiffer(d.groups)
  /\ IsList(d.policies) /\ Len(d.policies) = 1

\* The parts read so far are in order, the items are made of them, and a live sync
\* past its first call has the users of the directory it saw.
FetchOK(f) ==
  /\ f = Syncing(f.provider, f.phase, f.parts, f.evidence, f.seen, f.live)
  /\ f.parts = Parts(f.parts.users, f.parts.reviews, f.parts.groups, f.parts.policies, f.parts.logs)
  /\ PartsOK(f.parts)
  /\ f.evidence = IF f.phase = "done" THEN MapSnapshot(f.parts) ELSE <<>>
  /\ f.seen \in Seq(Accounts) /\ IdsDiffer(f.seen)
  /\ f.live \in BOOLEAN /\ (~f.live => f.seen = <<>> /\ f.phase = "done")
  /\ (f.live /\ f.phase \in {"reviews", "groups", "policies", "logs", "done"}) =>
       f.parts.users = UsersOf(f.provider, f.seen)

SnapInv == DirectoryOK(directory) /\ FetchOK(fetch)

LEMMA EmptyLists ==
  /\ IsList(<<>>) /\ IdsDiffer(<<>>) /\ AllDiffer(<<>>) /\ KeysDiffer(<<>>) /\ Len(<<>>) = 0
  /\ UsersOK(<<>>) /\ \A T : <<>> \in Seq(T)
<1>1. Len(<<>>) = 0 /\ \A T : <<>> \in Seq(T)
  BY EmptySeq
<1>2. IsList(<<>>)
  BY <1>1, ListOf
<1> QED  BY <1>1, <1>2 DEF IdsDiffer, AllDiffer, KeysDiffer, UsersOK

LEMMA EmptyIsOK == PartsOK(EmptySnapshot) /\ EmptySnapshot = Parts(<<>>, <<>>, <<>>, <<>>, <<>>)
BY EmptyLists DEF PartsOK, EmptySnapshot, Parts

\* Users numbered in order, each with an ordered list of factors.
LEMMA NumberedUsers ==
  ASSUME NEW us, IsList(us), \A i \in 1..Len(us) : us[i].id = i,
         \A i \in 1..Len(us) : IsList(us[i].factors) /\ FactorsDiffer(us[i])
  PROVE  UsersOK(us)
BY DEF UsersOK, IdsDiffer

LEMMA ListOfOne == \A a : IsList(<<a>>) /\ Len(<<a>>) = 1 /\ <<a>>[1] = a
<1> SUFFICES ASSUME NEW a PROVE IsList(<<a>>) /\ Len(<<a>>) = 1 /\ <<a>>[1] = a
  OBVIOUS
<1>1. <<a>> \in Seq({a}) /\ Len(<<a>>) = 1 /\ <<a>>[1] = a
  OBVIOUS
<1> QED  BY <1>1, ListOf

LEMMA ListOfTwo == \A a, b : /\ IsList(<<a, b>>) /\ Len(<<a, b>>) = 2
                             /\ <<a, b>>[1] = a /\ <<a, b>>[2] = b
<1> SUFFICES ASSUME NEW a, NEW b
             PROVE  /\ IsList(<<a, b>>) /\ Len(<<a, b>>) = 2
                    /\ <<a, b>>[1] = a /\ <<a, b>>[2] = b
  OBVIOUS
<1>1. /\ <<a, b>> \in Seq({a, b}) /\ Len(<<a, b>>) = 2
      /\ <<a, b>>[1] = a /\ <<a, b>>[2] = b
  OBVIOUS
<1> QED  BY <1>1, ListOf

LEMMA ListOfThree == \A a, b, c : /\ IsList(<<a, b, c>>) /\ Len(<<a, b, c>>) = 3
                                  /\ <<a, b, c>>[1] = a /\ <<a, b, c>>[2] = b
                                  /\ <<a, b, c>>[3] = c
<1> SUFFICES ASSUME NEW a, NEW b, NEW c
             PROVE  /\ IsList(<<a, b, c>>) /\ Len(<<a, b, c>>) = 3
                    /\ <<a, b, c>>[1] = a /\ <<a, b, c>>[2] = b /\ <<a, b, c>>[3] = c
  OBVIOUS
<1>1. /\ <<a, b, c>> \in Seq({a, b, c}) /\ Len(<<a, b, c>>) = 3
      /\ <<a, b, c>>[1] = a /\ <<a, b, c>>[2] = b /\ <<a, b, c>>[3] = c
  OBVIOUS
<1> QED  BY <1>1, ListOf

LEMMA ListOfFour == \A a, b, c, d : /\ IsList(<<a, b, c, d>>) /\ Len(<<a, b, c, d>>) = 4
                                    /\ <<a, b, c, d>>[1] = a /\ <<a, b, c, d>>[2] = b
                                    /\ <<a, b, c, d>>[3] = c /\ <<a, b, c, d>>[4] = d
<1> SUFFICES ASSUME NEW a, NEW b, NEW c, NEW d
             PROVE  /\ IsList(<<a, b, c, d>>) /\ Len(<<a, b, c, d>>) = 4
                    /\ <<a, b, c, d>>[1] = a /\ <<a, b, c, d>>[2] = b
                    /\ <<a, b, c, d>>[3] = c /\ <<a, b, c, d>>[4] = d
  OBVIOUS
<1>1. /\ <<a, b, c, d>> \in Seq({a, b, c, d}) /\ Len(<<a, b, c, d>>) = 4
      /\ <<a, b, c, d>>[1] = a /\ <<a, b, c, d>>[2] = b
      /\ <<a, b, c, d>>[3] = c /\ <<a, b, c, d>>[4] = d
  OBVIOUS
<1> QED  BY <1>1, ListOf

\* Four users with ids of their own: the first has two factors, the second one.
LEMMA FourUsers ==
  ASSUME NEW a, NEW b, NEW c, NEW d,
         a.id = 1, b.id = 2, c.id = 3, d.id = 4,
         NEW x, NEW y, NEW z, a.factors = <<x, y>>, x[1] # y[1], b.factors = <<z>>,
         c.factors = <<>>, d.factors = <<>>
  PROVE  UsersOK(<<a, b, c, d>>)
<1>1. IsList(a.factors) /\ FactorsDiffer(a)
  BY ListOfTwo DEF FactorsDiffer
<1>2. IsList(b.factors) /\ FactorsDiffer(b)
  BY ListOfOne DEF FactorsDiffer
<1>3. IsList(c.factors) /\ FactorsDiffer(c) /\ IsList(d.factors) /\ FactorsDiffer(d)
  BY EmptyLists DEF FactorsDiffer
<1>4. PICK us : us = <<a, b, c, d>>
  OBVIOUS
<1>5. IsList(us) /\ Len(us) = 4 /\ us[1] = a /\ us[2] = b /\ us[3] = c /\ us[4] = d
  BY <1>4, ListOfFour
<1>6. \A i \in 1..4 : us[i].id = i
  BY <1>5
<1>7. \A i \in 1..4 : IsList(us[i].factors) /\ FactorsDiffer(us[i])
  BY <1>1, <1>2, <1>3, <1>5
<1>8. UsersOK(us)
  BY <1>5, <1>6, <1>7, NumberedUsers
<1> QED  BY <1>4, <1>8

LEMMA OktaMockOK ==
  /\ PartsOK(OktaMock)
  /\ OktaMock = Parts(OktaMock.users, OktaMock.reviews, OktaMock.groups,
                      OktaMock.policies, OktaMock.logs)
<1>1. PICK us : us = <<Person(1, "active", <<<<1, "push">>, <<2, "totp">>>>, 1, TRUE),
                       Person(2, "active", <<<<3, "sms">>>>, 45, TRUE),
                       Person(3, "suspended", <<>>, 45, TRUE),
                       Person(4, "active", <<>>, -1, TRUE)>>
  OBVIOUS
<1>2. PICK ls : ls = <<Logged(1, 1, "SUCCESS", "INFO"), Logged(2, 2, "SUCCESS", "INFO"),
                       Logged(3, 3, "FAILURE", "WARN"), Logged(4, 0, "SUCCESS", "ERROR"),
                       Logged(5, 1, "ALLOW", "INFO")>>
  OBVIOUS
<1>3. OktaMock = Parts(us, <<>>, <<>>, <<>>, ls)
  <2>1. OktaMock = [EmptySnapshot EXCEPT !.users = us, !.logs = ls]
    BY <1>1, <1>2, Zenon DEF OktaMock
  <2> QED  BY <2>1, EmptyIsOK DEF Parts
<1>4. UsersOK(us)
  BY <1>1, FourUsers DEF Person
<1>5. IsList(ls) /\ IdsDiffer(ls)
  <2>1. PICK a, b, c, d, e : /\ ls = <<a, b, c, d, e>> /\ a.id = 1 /\ b.id = 2 /\ c.id = 3
                             /\ d.id = 4 /\ e.id = 5
    BY <1>2 DEF Logged
  <2>2. /\ <<a, b, c, d, e>> \in Seq({a, b, c, d, e}) /\ Len(<<a, b, c, d, e>>) = 5
        /\ <<a, b, c, d, e>>[1] = a /\ <<a, b, c, d, e>>[2] = b
        /\ <<a, b, c, d, e>>[3] = c /\ <<a, b, c, d, e>>[4] = d
        /\ <<a, b, c, d, e>>[5] = e
    OBVIOUS
  <2>3. IsList(ls)
    BY <2>1, <2>2, ListOf
  <2>4. \A i \in 1..5 : ls[i].id = i
    BY <2>1, <2>2
  <2> QED  BY <2>1, <2>2, <2>3, <2>4 DEF IdsDiffer
<1>6. /\ OktaMock.users = us /\ OktaMock.reviews = <<>> /\ OktaMock.groups = <<>>
      /\ OktaMock.policies = <<>> /\ OktaMock.logs = ls
  BY <1>3 DEF Parts
<1> QED  BY <1>3, <1>4, <1>5, <1>6, EmptyLists DEF PartsOK

LEMMA EntraMockOK ==
  /\ PartsOK(EntraMock)
  /\ EntraMock = Parts(EntraMock.users, EntraMock.reviews, EntraMock.groups,
                       EntraMock.policies, EntraMock.logs)
<1>1. PICK us : us = <<Person(1, "active", <<<<1, "fido2">>, <<2, "totp">>>>, 7, FALSE),
                       Person(2, "active", <<<<3, "sms">>>>, 7, FALSE),
                       Person(3, "inactive", <<>>, 400, TRUE),
                       Person(4, "active", <<>>, -1, FALSE)>>
  OBVIOUS
<1>2. PICK rs, gs, ps :
        /\ rs = <<[id |-> 1, decision |-> "deny"], [id |-> 2, decision |-> "approve"]>>
        /\ gs = <<"engineering", "admins", "finance">>
        /\ ps = <<[id |-> "mfa", state |-> "enabled"], [id |-> "legacy", state |-> "enabled"],
                  [id |-> "device", state |-> "enabledForReportingButNotEnforced"]>>
  OBVIOUS
<1>3. EntraMock = Parts(us, rs, gs, ps, <<>>)
  <2>1. EntraMock = [EmptySnapshot EXCEPT !.users = us, !.reviews = rs, !.groups = gs,
                                          !.policies = ps]
    BY <1>1, <1>2, Zenon DEF EntraMock
  <2> QED  BY <2>1, EmptyIsOK DEF Parts
<1>4. UsersOK(us)
  BY <1>1, FourUsers DEF Person
<1>5. IsList(rs) /\ IdsDiffer(rs)
  <2>1. PICK a, b : rs = <<a, b>> /\ a.id = 1 /\ b.id = 2
    BY <1>2
  <2>2. IsList(rs) /\ Len(rs) = 2 /\ rs[1] = a /\ rs[2] = b
    BY <2>1, ListOfTwo
  <2> QED  BY <2>1, <2>2 DEF IdsDiffer
<1>6. IsList(gs) /\ AllDiffer(gs)
  <2>1. PICK a, b, c : gs = <<a, b, c>> /\ a # b /\ a # c /\ b # c
    BY <1>2
  <2>2. IsList(gs) /\ Len(gs) = 3 /\ gs[1] = a /\ gs[2] = b /\ gs[3] = c
    BY <2>1, ListOfThree
  <2> QED  BY <2>1, <2>2 DEF AllDiffer
<1>7. IsList(ps) /\ IdsDiffer(ps)
  <2>1. PICK a, b, c : ps = <<a, b, c>> /\ a.id # b.id /\ a.id # c.id /\ b.id # c.id
    BY <1>2
  <2>2. IsList(ps) /\ Len(ps) = 3 /\ ps[1] = a /\ ps[2] = b /\ ps[3] = c
    BY <2>1, ListOfThree
  <2> QED  BY <2>1, <2>2 DEF IdsDiffer
<1>8. /\ EntraMock.users = us /\ EntraMock.reviews = rs /\ EntraMock.groups = gs
      /\ EntraMock.policies = ps /\ EntraMock.logs = <<>>
  BY <1>3 DEF Parts
<1> QED  BY <1>3, <1>4, <1>5, <1>6, <1>7, <1>8, EmptyLists DEF PartsOK

LEMMA SyncingFields ==
  ASSUME NEW p, NEW ph, NEW s, NEW e, NEW v, NEW l, NEW f, f = Syncing(p, ph, s, e, v, l)
  PROVE  /\ f.provider = p /\ f.phase = ph /\ f.parts = s /\ f.evidence = e /\ f.seen = v
         /\ f.live = l
BY DEF Syncing

BlankParts(s, e, l) == s = EmptySnapshot /\ e = <<>> /\ l = TRUE

\* A sync that has read nothing.
LEMMA NothingRead ==
  ASSUME NEW s, NEW e, NEW l, BlankParts(s, e, l), NEW p, NEW ph \in {"idle", "users", "failed"},
         NEW f, f = Syncing(p, ph, s, e, e, l)
  PROVE  FetchOK(f)
<1>1. /\ f.provider = p /\ f.phase = ph /\ f.parts = s /\ f.evidence = e /\ f.seen = e
      /\ f.live = l
  BY DEF Syncing
<1>2. f = Syncing(f.provider, f.phase, f.parts, f.evidence, f.seen, f.live)
  BY <1>1, Zenon
<1>3. /\ s = Parts(s.users, s.reviews, s.groups, s.policies, s.logs) /\ PartsOK(s)
  BY EmptyIsOK DEF Parts, BlankParts
<1>4. e = <<>> /\ l = TRUE /\ e \in Seq(Accounts) /\ IdsDiffer(e)
  BY EmptyLists DEF BlankParts
<1> QED  BY <1>1, <1>2, <1>3, <1>4 DEF FetchOK

LEMMA NoFetchOK ==
  ASSUME NEW p, NEW ph \in {"idle", "users", "failed"}
  PROVE  FetchOK(NoFetch) /\ FetchOK([NoFetch EXCEPT !.provider = p, !.phase = ph])
<1>1. PICK s, e, l, q, h : /\ BlankParts(s, e, l) /\ h \in {"idle", "users", "failed"}
                           /\ NoFetch = Syncing(q, h, s, e, e, l)
  <2>1. PICK s, e, l, q, h : /\ s = EmptySnapshot /\ e = <<>> /\ l = TRUE
                             /\ q = "okta" /\ h = "idle"
    OBVIOUS
  <2>2. NoFetch = Syncing(q, h, s, e, e, l)
    BY <2>1 DEF NoFetch, Syncing
  <2>3. BlankParts(s, e, l)
    BY <2>1 DEF BlankParts
  <2> QED  BY <2>1, <2>2, <2>3
<1>2. PICK n : n = NoFetch
  OBVIOUS
<1>3. n = Syncing(q, h, s, e, e, l)
  BY <1>1, <1>2, Zenon
<1>4. PICK f : f = [n EXCEPT !.provider = p, !.phase = ph]
  OBVIOUS
<1>5. f = Syncing(p, ph, s, e, e, l)
  BY <1>3, <1>4 DEF Syncing
<1>6. FetchOK(f)
  BY <1>1, <1>5, NothingRead
<1>7. FetchOK(n)
  BY <1>1, <1>3, NothingRead
<1> QED  BY <1>2, <1>6, <1>7, <1>4, Zenon

LEMMA InitSnap == SnapshotInit => SnapInv
<1> SUFFICES ASSUME SnapshotInit PROVE SnapInv
  OBVIOUS
<1>1. DirectoryOK(directory)
  <2>1. PICK g, m : g = <<"engineering">> /\ m = <<[id |-> "mfa", state |-> "enabled"]>>
    OBVIOUS
  <2>2. directory = [users |-> <<>>, logs |-> <<>>, groups |-> g, policies |-> m, changes |-> 0]
    BY <2>1 DEF SnapshotInit
  <2>3. IsList(g) /\ AllDiffer(g) /\ IsList(m) /\ Len(m) = 1
    BY <2>1, ListOfOne DEF AllDiffer
  <2> QED  BY <2>2, <2>3, EmptyLists DEF DirectoryOK
<1>2. FetchOK(fetch)
  <2>1. PICK ph \in {"idle", "users", "failed"} : ph = "idle"
    OBVIOUS
  <2>2. FetchOK(NoFetch)
    BY NoFetchOK
  <2> QED  BY <2>2 DEF SnapshotInit
<1> QED  BY <1>1, <1>2 DEF SnapInv

LEMMA MockSyncOK ==
  ASSUME SnapInv, NEW p, MockSync(p)
  PROVE  SnapInv'
<1>1. PICK parts : parts = IF p = "okta" THEN OktaMock ELSE EntraMock
  OBVIOUS
<1>2. /\ PartsOK(parts)
      /\ parts = Parts(parts.users, parts.reviews, parts.groups, parts.policies, parts.logs)
  BY <1>1, OktaMockOK, EntraMockOK
<1>3. PICK ev : ev = MapSnapshot(parts)
  OBVIOUS
<1>4. fetch' = Syncing(p, "done", parts, ev, <<>>, FALSE)
  <2>1. NoFetch = Syncing("okta", "idle", EmptySnapshot, <<>>, <<>>, TRUE)
    BY DEF NoFetch, Syncing
  <2>2. fetch' = [NoFetch EXCEPT !.provider = p, !.phase = "done", !.live = FALSE,
                                 !.parts = parts, !.evidence = ev]
    BY <1>1, <1>3, Zenon DEF MockSync
  <2> QED  BY <2>1, <2>2 DEF Syncing
<1>5. /\ fetch'.provider = p /\ fetch'.phase = "done" /\ fetch'.parts = parts
      /\ fetch'.evidence = ev /\ fetch'.seen = <<>> /\ fetch'.live = FALSE
  BY <1>4 DEF Syncing
<1>6. FetchOK(fetch)'
  BY <1>2, <1>3, <1>4, <1>5, EmptyLists DEF FetchOK
<1>7. directory' = directory
  BY DEF MockSync
<1> QED  BY <1>6, <1>7 DEF SnapInv

\* A call that reads one more part into the snapshot.
LEMMA OneMorePart ==
  ASSUME SnapInv, fetch.phase # "done",
         NEW parts, NEW ph \in {"groups", "policies", "done"},
         parts.users = fetch.parts.users, PartsOK(parts),
         parts = Parts(parts.users, parts.reviews, parts.groups, parts.policies, parts.logs),
         fetch.phase \in {"reviews", "groups", "policies", "logs"},
         NEW ev, ev = IF ph = "done" THEN MapSnapshot(parts) ELSE <<>>,
         fetch' = Syncing(fetch.provider, ph, parts, ev, fetch.seen, fetch.live),
         directory' = directory
  PROVE  SnapInv'
<1>1. FetchOK(fetch)
  BY DEF SnapInv
<1>2. fetch.live = TRUE /\ fetch.parts.users = UsersOf(fetch.provider, fetch.seen)
  BY <1>1 DEF FetchOK
<1>3. /\ fetch'.provider = fetch.provider /\ fetch'.phase = ph /\ fetch'.parts = parts
      /\ fetch'.evidence = ev /\ fetch'.seen = fetch.seen /\ fetch'.live = fetch.live
  BY DEF Syncing
<1>4. fetch' = Syncing(fetch'.provider, fetch'.phase, fetch'.parts, fetch'.evidence,
                       fetch'.seen, fetch'.live)
  BY <1>3
<1>5. FetchOK(fetch)'
  BY <1>1, <1>2, <1>3, <1>4 DEF FetchOK
<1> QED  BY <1>5 DEF SnapInv

LEMMA FetchUsersOK ==
  ASSUME SnapInv, FetchUsers
  PROVE  SnapInv'
<1>1. FetchOK(fetch) /\ DirectoryOK(directory)
  BY DEF SnapInv
<1>2. PICK us : us = UsersOf(fetch.provider, directory.users)
  OBVIOUS
<1>3. UsersOK(us)
  BY <1>1, <1>2, UsersReadOK DEF DirectoryOK
<1>4. PICK parts : parts = [fetch.parts EXCEPT !.users = us]
  OBVIOUS
<1>5. /\ parts.users = us /\ parts.reviews = fetch.parts.reviews
      /\ parts.groups = fetch.parts.groups /\ parts.policies = fetch.parts.policies
      /\ parts.logs = fetch.parts.logs
      /\ parts = Parts(parts.users, parts.reviews, parts.groups, parts.policies, parts.logs)
  BY <1>1, <1>4 DEF FetchOK, Parts
<1>6. PartsOK(parts)
  BY <1>1, <1>3, <1>5 DEF FetchOK, PartsOK
<1>7. PICK ph : ph = IF fetch.provider = "okta" THEN "logs" ELSE "reviews"
  OBVIOUS
<1>8. PICK p, ev, seen, live, parts0 :
        fetch = Syncing(p, "users", parts0, ev, seen, live) /\ p = fetch.provider
          /\ ev = fetch.evidence /\ live = fetch.live /\ parts0 = fetch.parts
  BY <1>1 DEF FetchUsers, FetchOK
<1>9. ev = <<>> /\ live = TRUE
  BY <1>1, <1>8 DEF FetchUsers, FetchOK
<1>10. fetch' = Syncing(p, ph, parts, ev, directory.users, live)
  <2>1. fetch' = [fetch EXCEPT !.parts.users = us, !.phase = ph, !.seen = directory.users]
    BY <1>2, <1>7, Zenon DEF FetchUsers
  <2>2. fetch' = [fetch EXCEPT !.parts = parts, !.phase = ph, !.seen = directory.users]
    BY <1>4, <1>8, <2>1 DEF Syncing
  <2> QED  BY <1>8, <2>2 DEF Syncing
<1>11. /\ fetch'.provider = p /\ fetch'.phase = ph /\ fetch'.parts = parts
       /\ fetch'.evidence = ev /\ fetch'.seen = directory.users /\ fetch'.live = live
  BY <1>10 DEF Syncing
<1>12. fetch' = Syncing(fetch'.provider, fetch'.phase, fetch'.parts, fetch'.evidence,
                        fetch'.seen, fetch'.live)
  BY <1>10, <1>11
<1>13. FetchOK(fetch)'
  <2>1. directory.users \in Seq(Accounts) /\ IdsDiffer(directory.users)
    BY <1>1 DEF DirectoryOK
  <2>2. ph # "done" /\ us = UsersOf(p, directory.users)
    BY <1>2, <1>7, <1>8
  <2> QED  BY <1>5, <1>6, <1>9, <1>11, <1>12, <2>1, <2>2 DEF FetchOK
<1> QED  BY <1>1, <1>13 DEF SnapInv, FetchUsers

LEMMA FetchRestOK ==
  ASSUME SnapInv, FetchAccessReviews \/ FetchGroups \/ FetchPolicies \/ FetchSystemLogs
  PROVE  SnapInv'
<1>1. FetchOK(fetch) /\ DirectoryOK(directory)
  BY DEF SnapInv
<1>2. PICK p, ph, parts, ev, seen, live :
        /\ fetch = Syncing(p, ph, parts, ev, seen, live)
        /\ p = fetch.provider /\ ph = fetch.phase /\ parts = fetch.parts
        /\ ev = fetch.evidence /\ seen = fetch.seen /\ live = fetch.live
  BY <1>1 DEF FetchOK
<1>3. PartsOK(parts) /\ parts = Parts(parts.users, parts.reviews, parts.groups,
                                      parts.policies, parts.logs)
  BY <1>1, <1>2 DEF FetchOK
<1>4. ph # "done" => ev = <<>>
  BY <1>1, <1>2 DEF FetchOK
<1>5. ASSUME NEW q, PartsOK(q), q.users = parts.users, directory' = directory,
             q = Parts(q.users, q.reviews, q.groups, q.policies, q.logs),
             ph \in {"reviews", "groups", "policies", "logs"},
             NEW x \in {"groups", "policies", "done"},
             NEW m, m = IF x = "done" THEN MapSnapshot(q) ELSE <<>>,
             fetch' = Syncing(p, x, q, m, seen, live)
      PROVE  SnapInv'
  <2>1. fetch' = Syncing(fetch.provider, x, q, m, fetch.seen, fetch.live)
    BY <1>2, <1>5, Zenon
  <2>2. fetch.phase # "done" /\ fetch.phase \in {"reviews", "groups", "policies", "logs"}
        /\ q.users = fetch.parts.users
    BY <1>2, <1>5
  <2> QED  BY <1>5, <2>1, <2>2, OneMorePart
<1>6. CASE FetchAccessReviews
  <2>1. PICK x \in {"groups", "policies", "done"} : x = "groups"
    OBVIOUS
  <2>2. fetch' = Syncing(p, x, parts, ev, seen, live) /\ ph = "reviews" /\ directory' = directory
    BY <1>2, <1>6, <2>1 DEF FetchAccessReviews, Syncing
  <2>3. ev = IF x = "done" THEN MapSnapshot(parts) ELSE <<>>
    BY <1>4, <2>1, <2>2
  <2>4. ph # "done" /\ ph \in {"reviews", "groups", "policies", "logs"}
    BY <2>2
  <2> QED  BY <1>5, <1>3, <2>2, <2>3, <2>4
<1>7. CASE FetchGroups
  <2>1. PICK q : q = [parts EXCEPT !.groups = directory.groups]
    OBVIOUS
  <2>2. /\ q.users = parts.users /\ q.reviews = parts.reviews /\ q.groups = directory.groups
        /\ q.policies = parts.policies /\ q.logs = parts.logs
        /\ q = Parts(q.users, q.reviews, q.groups, q.policies, q.logs)
    BY <1>3, <2>1 DEF Parts
  <2>3. PartsOK(q)
    BY <1>1, <1>3, <2>2 DEF PartsOK, DirectoryOK
  <2>4. PICK x \in {"groups", "policies", "done"} : x = "policies"
    OBVIOUS
  <2>5. fetch' = Syncing(p, x, q, ev, seen, live) /\ ph = "groups" /\ directory' = directory
    BY <1>2, <1>7, <2>1, <2>4 DEF FetchGroups, Syncing
  <2>6. ev = IF x = "done" THEN MapSnapshot(q) ELSE <<>>
    BY <1>4, <2>4, <2>5
  <2>7. ph # "done" /\ ph \in {"reviews", "groups", "policies", "logs"}
    BY <2>5
  <2> QED  BY <1>5, <2>2, <2>3, <2>5, <2>6, <2>7
<1>8. ASSUME NEW q, PartsOK(q), q.users = parts.users, directory' = directory,
             q = Parts(q.users, q.reviews, q.groups, q.policies, q.logs),
             ph \in {"policies", "logs"}, fetch' = Finished(q)
      PROVE  SnapInv'
  <2>1. PICK m : m = MapSnapshot(q)
    OBVIOUS
  <2>2. fetch' = [fetch EXCEPT !.phase = "done", !.parts = q, !.evidence = m]
    BY <1>8, <2>1 DEF Finished
  <2>3. fetch' = Syncing(p, "done", q, m, seen, live)
    BY <1>2, <2>2 DEF Syncing
  <2>4. PICK x \in {"groups", "policies", "done"} : x = "done"
    OBVIOUS
  <2>5. m = IF x = "done" THEN MapSnapshot(q) ELSE <<>>
    BY <2>1, <2>4
  <2>6. fetch' = Syncing(p, x, q, m, seen, live) /\ ph \in {"reviews", "groups", "policies", "logs"}
    BY <1>8, <2>3, <2>4
  <2> QED  BY <1>8, <1>5, <2>5, <2>6
<1>9. CASE FetchPolicies
  <2>1. PICK q : q = [parts EXCEPT !.policies = directory.policies]
    OBVIOUS
  <2>2. /\ q.users = parts.users /\ q.reviews = parts.reviews /\ q.groups = parts.groups
        /\ q.policies = directory.policies /\ q.logs = parts.logs
        /\ q = Parts(q.users, q.reviews, q.groups, q.policies, q.logs)
    BY <1>3, <2>1 DEF Parts
  <2>3. IdsDiffer(directory.policies) /\ IsList(directory.policies)
    BY <1>1 DEF DirectoryOK, IdsDiffer
  <2>4. PartsOK(q)
    BY <1>3, <2>2, <2>3 DEF PartsOK
  <2>5. fetch' = Finished(q) /\ ph = "policies" /\ directory' = directory
    BY <1>2, <1>9, <2>1, Zenon DEF FetchPolicies
  <2> QED  BY <1>8, <2>2, <2>4, <2>5
<1>10. CASE FetchSystemLogs
  <2>1. PICK ls : ls = OktaLogs(directory.logs)
    OBVIOUS
  <2>2. IsList(ls) /\ IdsDiffer(ls)
    <3>1. directory.logs \in Seq(Events) /\ IdsDiffer(directory.logs) /\ LogPage \in Nat
      BY <1>1, AccountsAssumption DEF DirectoryOK
    <3>2. PICK r \in Seq(Events) : r = Reverse(directory.logs) /\ IdsDiffer(r)
      BY <3>1, ReverseFacts
    <3>3. FirstPage(r, LogPage) \in Seq(Events) /\ IdsDiffer(FirstPage(r, LogPage))
      BY <3>1, <3>2, FirstPageFacts, FirstPageDiffers
    <3> QED  BY <2>1, <3>2, <3>3, ListOf DEF OktaLogs
  <2>3. PICK q : q = [parts EXCEPT !.logs = ls]
    OBVIOUS
  <2>4. /\ q.users = parts.users /\ q.reviews = parts.reviews /\ q.groups = parts.groups
        /\ q.policies = parts.policies /\ q.logs = ls
        /\ q = Parts(q.users, q.reviews, q.groups, q.policies, q.logs)
    BY <1>3, <2>3 DEF Parts
  <2>5. PartsOK(q)
    BY <1>3, <2>2, <2>4 DEF PartsOK
  <2>6. fetch' = Finished(q) /\ ph = "logs" /\ directory' = directory
    BY <1>2, <1>10, <2>1, <2>3, Zenon DEF FetchSystemLogs
  <2> QED  BY <1>8, <2>4, <2>5, <2>6
<1> QED  BY <1>6, <1>7, <1>10, <1>9

LEMMA FetchStartsOK ==
  ASSUME SnapInv, NEW p, StartFetch(p) \/ FetchFails
  PROVE  SnapInv'
<1>1. CASE StartFetch(p)
  <2>1. fetch' = [NoFetch EXCEPT !.provider = p, !.phase = "users"] /\ directory' = directory
    BY <1>1 DEF StartFetch
  <2>2. PICK f : f = fetch' /\ FetchOK(f)
    BY <2>1, NoFetchOK
  <2> QED  BY <2>1, <2>2 DEF SnapInv, FetchOK
<1>2. CASE FetchFails
  <2>1. /\ fetch' = [NoFetch EXCEPT !.provider = fetch.provider, !.phase = "failed"]
        /\ directory' = directory
    BY <1>2 DEF FetchFails
  <2>2. PICK f : f = fetch' /\ FetchOK(f)
    BY <2>1, NoFetchOK
  <2> QED  BY <2>1, <2>2 DEF SnapInv, FetchOK
<1> QED  BY <1>1, <1>2

(* The directory *)

LEMMA DirectoryFields ==
  ASSUME NEW us \in Seq(Accounts), IdsDiffer(us), NEW ls \in Seq(Events), IdsDiffer(ls),
         NEW gs, IsList(gs), AllDiffer(gs), NEW ps, IsList(ps), Len(ps) = 1, NEW n,
         NEW d, d = [users |-> us, logs |-> ls, groups |-> gs, policies |-> ps, changes |-> n]
  PROVE  DirectoryOK(d)
<1>1. d.users = us /\ d.logs = ls /\ d.groups = gs /\ d.policies = ps /\ d.changes = n
  OBVIOUS
<1>2. d = [users |-> d.users, logs |-> d.logs, groups |-> d.groups,
           policies |-> d.policies, changes |-> d.changes]
  BY <1>1
<1> QED  BY <1>1, <1>2 DEF DirectoryOK

LEMMA DirectoryChanges ==
  ASSUME SnapInv, NEW d, DirectoryOK(d), DirectoryChange(d)
  PROVE  SnapInv'
<1>1. PICK us, ls, gs, ps, n :
        /\ d = [users |-> us, logs |-> ls, groups |-> gs, policies |-> ps, changes |-> n]
        /\ us = d.users /\ ls = d.logs /\ gs = d.groups /\ ps = d.policies
  BY DEF DirectoryOK
<1>2. /\ us \in Seq(Accounts) /\ IdsDiffer(us) /\ ls \in Seq(Events) /\ IdsDiffer(ls)
      /\ IsList(gs) /\ AllDiffer(gs) /\ IsList(ps) /\ Len(ps) = 1
  BY <1>1 DEF DirectoryOK
<1>3. PICK g : g = [d EXCEPT !.changes = @ + 1]
  OBVIOUS
<1>4. PICK m : g = [users |-> us, logs |-> ls, groups |-> gs, policies |-> ps, changes |-> m]
  BY <1>1, <1>3
<1>5. DirectoryOK(g)
  BY <1>2, <1>4, DirectoryFields
<1>6. directory' = g /\ fetch' = fetch
  BY <1>3 DEF DirectoryChange
<1> QED  BY <1>5, <1>6 DEF SnapInv

LEMMA AddAccountOK ==
  ASSUME SnapInv, NEW u \in Accounts, AddAccount(u)
  PROVE  SnapInv'
<1>1. PICK us, ls, gs, ps, n :
        /\ directory = [users |-> us, logs |-> ls, groups |-> gs, policies |-> ps, changes |-> n]
        /\ us \in Seq(Accounts) /\ IdsDiffer(us) /\ ls \in Seq(Events) /\ IdsDiffer(ls)
        /\ IsList(gs) /\ AllDiffer(gs) /\ IsList(ps) /\ Len(ps) = 1
  BY DEF SnapInv, DirectoryOK
<1>2. directory.users = us
  BY <1>1
<1>3. PICK vs : vs = Append(us, u)
  OBVIOUS
<1>4. vs \in Seq(Accounts) /\ IdsDiffer(vs)
  <2>1. \A i \in 1..Len(us) : us[i].id # u.id
    BY <1>1, <1>2, LenProperties DEF AddAccount, ToSet
  <2>2. PICK k \in Nat : k = Len(us)
    BY <1>1, LenProperties
  <2>3. /\ vs \in Seq(Accounts) /\ Len(vs) = k + 1 /\ vs[k + 1] = u
        /\ \A i \in 1..k : vs[i] = us[i]
    BY <1>1, <1>3, <2>2, AppendProperties
  <2> QED  BY <1>1, <2>1, <2>2, <2>3 DEF IdsDiffer
<1>5. PICK d : d = [directory EXCEPT !.users = vs]
  OBVIOUS
<1>6. d = [users |-> vs, logs |-> ls, groups |-> gs, policies |-> ps, changes |-> n]
  BY <1>1, <1>5
<1>7. DirectoryOK(d)
  BY <1>1, <1>4, <1>6, DirectoryFields
<1>8. DirectoryChange(d)
  BY <1>2, <1>3, <1>5 DEF AddAccount
<1> QED  BY <1>7, <1>8, DirectoryChanges

LEMMA RemoveAccountOK ==
  ASSUME SnapInv, NEW i \in DOMAIN directory.users, RemoveAccount(i)
  PROVE  SnapInv'
<1>1. PICK us, ls, gs, ps, n :
        /\ directory = [users |-> us, logs |-> ls, groups |-> gs, policies |-> ps, changes |-> n]
        /\ us \in Seq(Accounts) /\ IdsDiffer(us) /\ ls \in Seq(Events) /\ IdsDiffer(ls)
        /\ IsList(gs) /\ AllDiffer(gs) /\ IsList(ps) /\ Len(ps) = 1
  BY DEF SnapInv, DirectoryOK
<1>2. directory.users = us
  BY <1>1
<1>3. PICK vs : vs = RemoveAt(us, i)
  OBVIOUS
<1>4. vs \in Seq(Accounts) /\ IdsDiffer(vs)
  <2>1. PICK k \in Nat : k = Len(us) /\ i \in 1..k
    BY <1>1, <1>2, LenProperties
  <2>2. /\ vs \in Seq(Accounts) /\ Len(vs) = k - 1
        /\ \A j \in 1..k - 1 : vs[j] = us[IF j < i THEN j ELSE j + 1]
    BY <1>1, <1>3, <2>1, RemoveAtFacts
  <2>3. ASSUME NEW a \in 1..k - 1, NEW b \in 1..k - 1, vs[a].id = vs[b].id
        PROVE  a = b
    <3>1. PICK x, y : x = (IF a < i THEN a ELSE a + 1) /\ y = (IF b < i THEN b ELSE b + 1)
      OBVIOUS
    <3>2. x \in 1..k /\ y \in 1..k /\ (x = y => a = b)
      BY <2>1, <3>1
    <3>3. us[x].id = us[y].id
      BY <2>2, <2>3, <3>1
    <3> QED  BY <1>1, <2>1, <3>2, <3>3 DEF IdsDiffer
  <2> QED  BY <2>2, <2>3 DEF IdsDiffer
<1>5. PICK d : d = [directory EXCEPT !.users = vs]
  OBVIOUS
<1>6. d = [users |-> vs, logs |-> ls, groups |-> gs, policies |-> ps, changes |-> n]
  BY <1>1, <1>5
<1>7. DirectoryOK(d)
  BY <1>1, <1>4, <1>6, DirectoryFields
<1>8. DirectoryChange(d)
  BY <1>2, <1>3, <1>5 DEF RemoveAccount
<1> QED  BY <1>7, <1>8, DirectoryChanges

LEMMA LogEventOK ==
  ASSUME SnapInv, NEW e \in Events, LogEvent(e)
  PROVE  SnapInv'
<1>1. PICK us, ls, gs, ps, n :
        /\ directory = [users |-> us, logs |-> ls, groups |-> gs, policies |-> ps, changes |-> n]
        /\ us \in Seq(Accounts) /\ IdsDiffer(us) /\ ls \in Seq(Events) /\ IdsDiffer(ls)
        /\ IsList(gs) /\ AllDiffer(gs) /\ IsList(ps) /\ Len(ps) = 1
  BY DEF SnapInv, DirectoryOK
<1>2. directory.logs = ls
  BY <1>1
<1>3. PICK ms : ms = Append(ls, e)
  OBVIOUS
<1>4. ms \in Seq(Events) /\ IdsDiffer(ms)
  <2>1. \A i \in 1..Len(ls) : ls[i].id # e.id
    BY <1>1, <1>2, LenProperties DEF LogEvent, ToSet
  <2>2. PICK k \in Nat : k = Len(ls)
    BY <1>1, LenProperties
  <2>3. /\ ms \in Seq(Events) /\ Len(ms) = k + 1 /\ ms[k + 1] = e
        /\ \A i \in 1..k : ms[i] = ls[i]
    BY <1>1, <1>3, <2>2, AppendProperties
  <2> QED  BY <1>1, <2>1, <2>2, <2>3 DEF IdsDiffer
<1>5. PICK d : d = [directory EXCEPT !.logs = ms]
  OBVIOUS
<1>6. d = [users |-> us, logs |-> ms, groups |-> gs, policies |-> ps, changes |-> n]
  BY <1>1, <1>5
<1>7. DirectoryOK(d)
  BY <1>1, <1>4, <1>6, DirectoryFields
<1>8. DirectoryChange(d)
  BY <1>2, <1>3, <1>5 DEF LogEvent
<1> QED  BY <1>7, <1>8, DirectoryChanges

LEMMA SetPolicyOK ==
  ASSUME SnapInv, NEW setting, SetPolicy(setting)
  PROVE  SnapInv'
<1>1. PICK us, ls, gs, ps, n :
        /\ directory = [users |-> us, logs |-> ls, groups |-> gs, policies |-> ps, changes |-> n]
        /\ us \in Seq(Accounts) /\ IdsDiffer(us) /\ ls \in Seq(Events) /\ IdsDiffer(ls)
        /\ IsList(gs) /\ AllDiffer(gs) /\ IsList(ps) /\ Len(ps) = 1
  BY DEF SnapInv, DirectoryOK
<1>2. PICK one : one = [ps[1] EXCEPT !.state = setting]
  OBVIOUS
<1>3. PICK qs : qs = [ps EXCEPT ![1] = one]
  OBVIOUS
<1>4. IsList(qs) /\ Len(qs) = 1
  <2>1. DOMAIN ps = 1..1 /\ 1 \in Nat
    BY <1>1, ListRange
  <2>2. qs = [i \in 1..1 |-> qs[i]]
    BY <1>1, <1>3, <2>1 DEF IsList
  <2> QED  BY <2>1, <2>2, ListFacts
<1>5. PICK d : d = [directory EXCEPT !.policies = qs]
  OBVIOUS
<1>6. d = [users |-> us, logs |-> ls, groups |-> gs, policies |-> qs, changes |-> n]
  BY <1>1, <1>5
<1>7. DirectoryOK(d)
  BY <1>1, <1>4, <1>6, DirectoryFields
<1>8. DirectoryChange(d)
  <2>1. directory.policies = ps
    BY <1>1
  <2>2. d = [directory EXCEPT !.policies[1].state = setting]
    BY <1>2, <1>3, <1>5, <2>1
  <2> QED  BY <2>2 DEF SetPolicy
<1> QED  BY <1>7, <1>8, DirectoryChanges

LEMMA SnapStep == SnapInv /\ [SnapshotNext]_snapshotVars => SnapInv'
<1> SUFFICES ASSUME SnapInv, [SnapshotNext]_snapshotVars PROVE SnapInv'
  OBVIOUS
<1>1. CASE \E p \in {"okta", "entraid"} : StartFetch(p) \/ MockSync(p)
  BY <1>1, FetchStartsOK, MockSyncOK
<1>2. CASE FetchUsers
  BY <1>2, FetchUsersOK
<1>3. CASE FetchAccessReviews \/ FetchGroups \/ FetchPolicies \/ FetchSystemLogs
  BY <1>3, FetchRestOK
<1>4. CASE FetchFails
  BY <1>4, FetchStartsOK
<1>5. CASE \E u \in Accounts : AddAccount(u)
  BY <1>5, AddAccountOK
<1>6. CASE \E i \in DOMAIN directory.users : RemoveAccount(i)
  BY <1>6, RemoveAccountOK
<1>7. CASE \E e \in Events : LogEvent(e)
  BY <1>7, LogEventOK
<1>8. CASE \E setting \in {"disabled", "enabledForReportingButNotEnforced"} : SetPolicy(setting)
  BY <1>8, SetPolicyOK
<1>9. CASE UNCHANGED snapshotVars
  BY <1>9 DEF SnapInv, snapshotVars
<1> QED  BY <1>1, <1>2, <1>3, <1>4, <1>5, <1>6, <1>7, <1>8, <1>9 DEF SnapshotNext

LEMMA ActorsExplained == SnapInv => UnknownActorIsExplained
<1> SUFFICES ASSUME SnapInv, fetch.phase = "done", fetch.live,
                    NEW e \in ToSet(fetch.parts.logs), Len(fetch.seen) <= UserPage,
                    NEW u \in ToSet(fetch.seen), u.id = e.actor, u.status = "active"
             PROVE  e.actor \in Snapped
  <2>1. Len(fetch.seen) \in Nat /\ UserPage \in Nat
    BY LenProperties, AccountsAssumption DEF SnapInv, FetchOK
  <2> QED  BY <2>1 DEF UnknownActorIsExplained
<1>1. /\ fetch.seen \in Seq(Accounts) /\ IdsDiffer(fetch.seen)
      /\ fetch.parts.users = UsersOf(fetch.provider, fetch.seen)
  BY DEF SnapInv, FetchOK
<1>2. PICK k \in 1..Len(fetch.seen) : u = fetch.seen[k]
  BY <1>1, LenProperties DEF ToSet
<1>3. PICK i \in 1..Len(fetch.parts.users) : fetch.parts.users[i].id = u.id
  BY <1>1, <1>2, UsersReadOK
<1>4. DOMAIN fetch.parts.users = 1..Len(fetch.parts.users)
  BY ListRange DEF SnapInv, FetchOK, PartsOK, UsersOK
<1> QED  BY <1>3, <1>4 DEF Snapped, ToSet

LEMMA ItemsDiffer == SnapInv => SnapshotIdsDiffer
<1> SUFFICES ASSUME SnapInv, NEW i \in DOMAIN fetch.evidence, NEW j \in DOMAIN fetch.evidence,
                    fetch.evidence[i].type = fetch.evidence[j].type,
                    fetch.evidence[i].subject = fetch.evidence[j].subject
             PROVE  i = j
  BY DEF SnapshotIdsDiffer
<1>1. IsList(fetch.evidence) /\ KeysDiffer(fetch.evidence)
  BY SnapshotItems, EmptyLists DEF SnapInv, FetchOK
<1> QED  BY <1>1, ListRange DEF KeysDiffer

LEMMA NotFlattered == SnapInv => ActiveUsersAreNotFlattered
<1> SUFFICES ASSUME SnapInv, fetch.phase = "done", NEW u \in ToSet(fetch.seen),
                    u.status = "active",
                    NEW it \in ToSet(fetch.evidence),
                    it.type \in {"mfa", "user"}, it.subject[1] = u.id
             PROVE  \E truth \in ToSet(UserEvidence(u)) :
                      truth.type = it.type /\ it.score <= truth.score
  BY DEF ActiveUsersAreNotFlattered
<1>1. PICK p : p = fetch.provider
  OBVIOUS
<1>2. /\ fetch.evidence = MapSnapshot(fetch.parts) /\ PartsOK(fetch.parts)
      /\ fetch.seen \in Seq(Accounts) /\ IdsDiffer(fetch.seen)
  BY DEF SnapInv, FetchOK
<1>3. PICK us : us = fetch.parts.users
  OBVIOUS
<1>4. fetch.live
  <2>1. ASSUME ~fetch.live PROVE FALSE
    <3>1. fetch.seen = <<>>
      BY <2>1 DEF SnapInv, FetchOK
    <3> QED  BY <3>1 DEF ToSet
  <2> QED  BY <2>1
<1>5. us = UsersOf(p, fetch.seen)
  BY <1>1, <1>3, <1>4 DEF SnapInv, FetchOK
<1>6. PICK n : n \in 1..Len(MapSnapshot(fetch.parts)) /\ it = MapSnapshot(fetch.parts)[n]
  BY <1>2, SnapshotItems, ListRange DEF ToSet
<1>7. PICK i \in 1..Len(us) : Within(it, UserEvidence(us[i]))
  BY <1>2, <1>3, <1>6, SnapshotItems
<1>8. us[i].id = u.id
  <2>1. IsList(us[i].factors)
    BY <1>2, <1>3, <1>7 DEF PartsOK, UsersOK
  <2>2. OfUser(UserEvidence(us[i]), us[i].id)
    BY <2>1, ItemsOfUser
  <2> QED  BY <1>7, <2>2 DEF OfUser, Within
<1>9. PICK v \in Accounts : Within(v, fetch.seen) /\ us[i] = AsRead(p, v)
  BY <1>2, <1>5, <1>7, UsersReadOK
<1>10. v = u
  <2>1. v.id = u.id
    BY <1>8, <1>9, AsReadFacts
  <2>2. PICK k \in 1..Len(fetch.seen) : u = fetch.seen[k]
    BY <1>2, LenProperties DEF ToSet
  <2> QED  BY <1>2, <1>9, <2>1, <2>2 DEF Within, IdsDiffer
<1> QED  BY <1>7, <1>9, <1>10, ReadIsNoBetter

\* What a sync makes of a directory read in several calls: an event of the log names
\* a user of the snapshot unless the user was not active, not there, or past the
\* page; what is said of an active user is no better than the directory; and no two
\* items have one id (Sync of the Okta and Entra ID adapters).
THEOREM SpecSnapshotIsExplained == SnapshotSpec => []SnapshotIsExplained
<1>1. SnapInv => SnapshotIsExplained
  BY ActorsExplained, NotFlattered, ItemsDiffer DEF SnapshotIsExplained
<1> QED  BY InitSnap, SnapStep, <1>1, PTL DEF SnapshotSpec

=============================================================================
