------------------------------ MODULE SdkProofs ------------------------------
(***************************************************************************)
(* Proofs about SdkBreaker for any set of callers, any threshold and any   *)
(* recovery timeout, about the syncs of ConnectorSync, which share the     *)
(* breaker, for pages of any sizes and any number of attempts, and about   *)
(* the sliding windows of RateWindow.                                      *)
(***************************************************************************)
EXTENDS ConnectorSync, RateWindow, SumTheorems, FiniteSetTheorems, TLAPS

(***************************************************************************)
(* The breaker                                                             *)
(***************************************************************************)

\* TypeOK /\ ClosedIffBelowThreshold is inductive: the counter only grows by
\* Counted, which stays at the threshold once there, and only a success, which
\* also closes the circuit, resets it.
IInv == TypeOK /\ ClosedIffBelowThreshold

LEMMA CountedGrows ==
  ASSUME TypeOK
  PROVE  /\ Counted \in Nat
         /\ consecutiveFails >= FailureThreshold => Counted >= FailureThreshold
         /\ Counted < FailureThreshold => consecutiveFails < FailureThreshold
         /\ Counted >= consecutiveFails \/ Counted >= FailureThreshold
  BY BreakerAssumption DEF TypeOK, Counted

LEMMA InitIInv == Init => IInv
<1>1. Init => TypeOK
  <2> SUFFICES ASSUME Init PROVE TypeOK
    OBVIOUS
  <2>1. waited \in 0..RecoveryTimeout
    BY BreakerAssumption DEF Init
  <2>2. consecutiveFails \in Nat
    BY DEF Init
  <2>3. QED
    BY <2>1, <2>2, Zenon DEF Init, TypeOK, States, Phases
<1>2. Init => ClosedIffBelowThreshold
  BY BreakerAssumption DEF Init, ClosedIffBelowThreshold
<1>3. QED
  BY <1>1, <1>2 DEF IInv

LEMMA NextTypeOK == TypeOK /\ [Next]_vars => TypeOK'
<1> SUFFICES ASSUME TypeOK, [Next]_vars PROVE TypeOK'
  OBVIOUS
<1> USE BreakerAssumption DEF TypeOK, States, Phases
<1>1. ASSUME NEW c \in Calls, AllowClosed(c) PROVE TypeOK'
  BY <1>1 DEF AllowClosed
<1>2. ASSUME NEW c \in Calls, AllowProbe(c) PROVE TypeOK'
  BY <1>2 DEF AllowProbe
<1>3. ASSUME NEW c \in Calls, AllowRejected(c) PROVE TypeOK'
  BY <1>3 DEF AllowRejected, Advanced
<1>4. ASSUME NEW c \in Calls, RecordSuccess(c) PROVE TypeOK'
  <2>1. consecutiveFails' \in Nat
    BY <1>4 DEF RecordSuccess
  <2>2. call' \in [Calls -> Phases]
    BY <1>4 DEF RecordSuccess, Finish
  <2>3. QED
    BY <1>4, <2>1, <2>2, Zenon DEF RecordSuccess
<1>5. ASSUME NEW c \in Calls, RecordFailure(c) PROVE TypeOK'
  <2>1. consecutiveFails' \in Nat
    BY <1>5, CountedGrows DEF RecordFailure
  <2>2. call' \in [Calls -> Phases]
    BY <1>5 DEF RecordFailure, Finish
  <2>3. waited' \in 0..RecoveryTimeout /\ state' \in States
    BY <1>5 DEF RecordFailure
  <2>4. QED
    BY <1>5, <2>1, <2>2, <2>3, Zenon DEF RecordFailure
<1>6. ASSUME NEW c \in Calls, Panic(c) PROVE TypeOK'
  BY <1>6 DEF Panic, Finish
<1>7. CASE Observe
  BY <1>7 DEF Observe, Advanced
<1>8. CASE Tick
  BY <1>8 DEF Tick
<1>9. CASE UNCHANGED vars
  BY <1>9 DEF vars
<1>10. QED
  BY <1>1, <1>2, <1>3, <1>4, <1>5, <1>6, <1>7, <1>8, <1>9 DEF Next, Allow, Record

LEMMA NextClosed == IInv /\ [Next]_vars => ClosedIffBelowThreshold'
<1> SUFFICES ASSUME TypeOK, ClosedIffBelowThreshold, [Next]_vars
             PROVE  ClosedIffBelowThreshold'
  BY DEF IInv
<1> USE DEF ClosedIffBelowThreshold
<1>1. ASSUME state' = state, consecutiveFails' = consecutiveFails
      PROVE  ClosedIffBelowThreshold'
  BY <1>1
<1>2. ASSUME state' \in {Advanced, "half_open"}, Advanced # "closed",
             consecutiveFails' = consecutiveFails
      PROVE  ClosedIffBelowThreshold'
  BY <1>2 DEF Advanced
<1>3. ASSUME NEW c \in Calls, AllowProbe(c) PROVE ClosedIffBelowThreshold'
  BY <1>3, <1>2 DEF AllowProbe
<1>4. ASSUME NEW c \in Calls, AllowRejected(c) PROVE ClosedIffBelowThreshold'
  BY <1>4, <1>2 DEF AllowRejected
<1>5. ASSUME NEW c \in Calls, RecordSuccess(c) PROVE ClosedIffBelowThreshold'
  BY <1>5, BreakerAssumption DEF RecordSuccess
<1>6. ASSUME NEW c \in Calls, RecordFailure(c) PROVE ClosedIffBelowThreshold'
  <2>1. consecutiveFails' = Counted /\ Counted \in Nat /\ consecutiveFails \in Nat
    BY <1>6, CountedGrows DEF RecordFailure, TypeOK
  <2>2. CASE Trips(Counted)
    \* The circuit was not closed, or this failure reaches the threshold.
    BY <1>6, <2>1, <2>2, CountedGrows, BreakerAssumption DEF RecordFailure, Trips
  <2>3. CASE ~Trips(Counted)
    \* It was closed and stays below, or open and stays open.
    BY <1>6, <2>1, <2>3, CountedGrows, BreakerAssumption DEF RecordFailure, Trips
  <2>4. QED
    BY <2>2, <2>3
<1>7. CASE Observe
  BY <1>7, <1>1, <1>2 DEF Observe, Advanced
<1>8. ASSUME NEW c \in Calls, AllowClosed(c) \/ Panic(c) PROVE ClosedIffBelowThreshold'
  BY <1>8, <1>1 DEF AllowClosed, Panic
<1>9. CASE Tick \/ UNCHANGED vars
  BY <1>9, <1>1 DEF Tick, vars
<1>10. QED
  BY <1>3, <1>4, <1>5, <1>6, <1>7, <1>8, <1>9 DEF Next, Allow, Record

LEMMA NextIInv == IInv /\ [Next]_vars => IInv'
  BY NextTypeOK, NextClosed DEF IInv

LEMMA AlwaysIInv == Spec => []IInv
  BY InitIInv, NextIInv, PTL DEF Spec

\* Type correctness of the breaker for any number of callers.
THEOREM TypeCorrect == Spec => []TypeOK
  BY AlwaysIInv, PTL DEF IInv

\* However late and in whatever order results are recorded, the circuit is
\* closed exactly while the failure counter is below the threshold.
THEOREM StateMatchesCounter == Spec => []ClosedIffBelowThreshold
  BY AlwaysIInv, PTL DEF IInv

LEMMA NextSlot == TypeOK /\ SlotHasProbe /\ [Next]_vars => SlotHasProbe'
<1> DEFINE Owner == {"probe", "lost_probe"}
<1> SUFFICES ASSUME TypeOK, SlotHasProbe, [Next]_vars, halfOpenInFlight'
             PROVE  state' = "half_open" /\ \E c \in Calls : call'[c] \in Owner
  BY DEF SlotHasProbe, Probes, Lost
<1> USE DEF TypeOK
<1>1. ASSUME NEW c \in Calls, AllowClosed(c)
      PROVE  state' = "half_open" /\ \E d \in Calls : call'[d] \in Owner
  \* With the slot taken the circuit is half-open, where no call is admitted as normal.
  BY <1>1 DEF AllowClosed, Advanced, SlotHasProbe
<1>2. ASSUME NEW c \in Calls, AllowProbe(c)
      PROVE  state' = "half_open" /\ \E d \in Calls : call'[d] \in Owner
  BY <1>2 DEF AllowProbe
<1>3. ASSUME state' = Advanced, UNCHANGED <<halfOpenInFlight, call>>
      PROVE  state' = "half_open" /\ \E d \in Calls : call'[d] \in Owner
  BY <1>3 DEF Advanced, SlotHasProbe, Probes, Lost
<1>4. ASSUME NEW c \in Calls, Record(c) PROVE FALSE
  \* Every result, also a stale one, gives the slot back.
  BY <1>4 DEF Record, RecordSuccess, RecordFailure
<1>5. ASSUME NEW c \in Calls, Panic(c)
      PROVE  state' = "half_open" /\ \E d \in Calls : call'[d] \in Owner
  \* The slot's owner stays where it is, or panics and stays its owner.
  <2>1. PICK d \in Calls : call[d] \in Owner
    BY <1>5 DEF Panic, SlotHasProbe, Probes, Lost
  <2>2. call'[d] \in Owner
    BY <1>5, <2>1 DEF Panic
  <2>3. QED
    BY <1>5, <2>2 DEF Panic, SlotHasProbe
<1>6. ASSUME UNCHANGED <<state, halfOpenInFlight, call>>
      PROVE  state' = "half_open" /\ \E d \in Calls : call'[d] \in Owner
  BY <1>6 DEF SlotHasProbe, Probes, Lost
<1>7. CASE Tick
  BY <1>7, <1>6 DEF Tick
<1>8. CASE UNCHANGED vars
  BY <1>8, <1>6 DEF vars
<1>9. ASSUME NEW c \in Calls, AllowRejected(c)
      PROVE  state' = "half_open" /\ \E d \in Calls : call'[d] \in Owner
  BY <1>9, <1>3 DEF AllowRejected
<1>10. CASE Observe
  BY <1>10, <1>3 DEF Observe
<1>11. QED
  BY <1>1, <1>2, <1>4, <1>5, <1>7, <1>8, <1>9, <1>10 DEF Next, Allow

\* A taken probe slot always belongs to a probe that is in flight or that
\* panicked, whatever stale results are recorded in between.
THEOREM SlotOwned == Spec => []SlotHasProbe
<1>1. Init => SlotHasProbe
  BY DEF Init, SlotHasProbe
<1>2. TypeOK /\ SlotHasProbe /\ [Next]_vars => SlotHasProbe'
  BY NextSlot
<1>3. QED
  BY <1>1, <1>2, TypeCorrect, PTL DEF Spec

(***************************************************************************)
(* A sync uses the breaker as any goroutine does                           *)
(***************************************************************************)

\* Every step of a sync that touches the breaker is Allow or Record of its goroutine,
\* or leaves it alone (Do, breaker.go:146-153).
LEMMA FailUsesBreaker ==
  ASSUME NEW c \in Syncs, Fail(c)
  PROVE  RecordFailure(c) \/ UNCHANGED vars
  BY DEF Fail

LEMMA StepUsesBreaker ==
  ASSUME NEW c \in Syncs, Step(c)
  PROVE  Allow(c) \/ Record(c) \/ UNCHANGED vars
<1>1. CASE Acquire(c) \/ LockToken(c) \/ SendRecord(c)
  BY <1>1 DEF Acquire, LockToken, SendRecord
<1>2. CASE EnterBreaker(c)
  BY <1>2 DEF EnterBreaker, Allow
<1>3. CASE StartAttempt(c) \/ BackOff(c)
  BY <1>3 DEF StartAttempt, BackOff, EndInError, Record
<1>4. CASE FetchToken(c) \/ AttemptFails(c)
  BY <1>4, FailUsesBreaker DEF FetchToken, AttemptFails, Record
<1>5. CASE ReceivePage(c) \/ Refused(c)
  BY <1>5 DEF ReceivePage, Refused, Record
<1>6. QED
  BY <1>1, <1>2, <1>3, <1>4, <1>5 DEF Step

LEMMA ConnectorUsesBreaker == [ConnectorNext]_connectorVars => [Next]_vars
<1> SUFFICES ASSUME [ConnectorNext]_connectorVars PROVE [Next]_vars
  OBVIOUS
<1>1. ASSUME NEW c \in Syncs, Step(c) PROVE [Next]_vars
  BY <1>1, StepUsesBreaker, ConnectorAssumption DEF Next
<1>2. ASSUME NEW c \in Syncs, Cancel(c) \/ \E limit \in Limits : StartSync(c, limit)
      PROVE  [Next]_vars
  BY <1>2 DEF Cancel, StartSync
<1>3. CASE Refill \/ ExpireToken \/ UNCHANGED connectorVars
  BY <1>3 DEF Refill, ExpireToken, connectorVars
<1>4. CASE BreakerStep
  BY <1>4 DEF BreakerStep, Next
<1>5. QED
  BY <1>1, <1>2, <1>3, <1>4 DEF ConnectorNext

\* The syncs of a connector implement the breaker's specification: what holds of any
\* goroutines around the breaker holds of them (rest/connector.go, Sync).
THEOREM SyncsImplementBreaker == ConnectorSpec => Spec
<1>1. ConnectorInit => Init
  BY DEF ConnectorInit
<1>2. QED
  BY <1>1, ConnectorUsesBreaker, PTL DEF ConnectorSpec, Spec

(***************************************************************************)
(* What a sync remembers.  A failed attempt is on record while the context *)
(* is live, and the pages so far are as many as the cursor says as long as *)
(* they are of one size.                                                   *)
(***************************************************************************)

Attempts   == {"attempt", "auth", "fetching", "request"}
SyncPhases == {"closed", "acquire", "allow", "backoff", "send"} \cup Attempts
SyncRecord ==
  [phase : SyncPhases, done : BOOLEAN, limit : Int, cursor : Nat, left : Nat,
   size : Nat, pages : Nat, attempt : Nat, sizes : SUBSET Nat, faults : Nat,
   refused : BOOLEAN]

\* Only a page being sent has records left.
LeftFits(s) ==
  /\ s.left <= s.cursor
  /\ IF s.phase = "send" THEN s.left >= 1 ELSE s.left = 0

\* Every attempt at the page before the present one failed.
FaultsFit(s) ==
  ~s.done => /\ s.phase \in Attempts => s.faults + 1 = s.attempt
             /\ s.phase = "backoff" => s.faults = s.attempt
             /\ s.phase \in {"acquire", "allow", "send"} => s.faults = 0

\* The pages received: the one being sent is not counted in `pages` yet.
Received(s) == IF s.phase = "send" THEN s.pages + 1 ELSE s.pages

\* The pages sent are short of the limit.
PagesFit(s) ==
  s.phase # "closed" =>
    /\ IsFiniteSet(s.sizes)
    /\ s.sizes = {} => s.pages = 0 /\ s.cursor = 0 /\ s.phase # "send"
    /\ s.sizes # {} => s.size \in s.sizes
    /\ s.sizes = {s.size} => /\ s.cursor = Received(s) * s.size
                             /\ s.limit > 0 => s.pages * s.size < s.limit

Fits(s) == LeftFits(s) /\ FaultsFit(s) /\ PagesFit(s)

SyncsFit == /\ sync \in [Syncs -> SyncRecord]
            /\ \A c \in Syncs : Fits(sync[c])

\* What a sync goes to has to fit, and nothing else does.
LEMMA GoesFits ==
  ASSUME SyncsFit, NEW c \in Syncs, NEW new \in SyncRecord, Fits(new), Goes(c, new)
  PROVE  SyncsFit'
<1>1. sync' = [sync EXCEPT ![c] = new]
  BY DEF Goes
<1>2. sync' \in [Syncs -> SyncRecord]
  BY <1>1 DEF SyncsFit
<1>3. ASSUME NEW d \in Syncs PROVE Fits(sync'[d])
  BY <1>1 DEF SyncsFit
<1>4. QED
  BY <1>2, <1>3 DEF SyncsFit

LEMMA SyncFacts ==
  ASSUME SyncsFit, NEW c \in Syncs
  PROVE  sync[c] \in SyncRecord /\ Fits(sync[c])
  BY DEF SyncsFit

\* A sync that is over keeps how far it came and what it ended on.
LEMMA OverFits ==
  ASSUME NEW s \in SyncRecord, s.left <= s.cursor
  PROVE  /\ Over(s) \in SyncRecord /\ Fits(Over(s))
         /\ Over(s).phase = "closed" /\ Sent(Over(s)) = s.cursor - s.left
         /\ Over(s).faults = s.faults /\ Over(s).refused = s.refused
<1> DEFINE sent == s.cursor - s.left
           over == Over(s)
<1>1. sent \in Nat
  BY DEF SyncRecord
<1>2. over = [NotSyncing EXCEPT !.cursor = sent, !.faults = s.faults, !.refused = s.refused]
  BY DEF Over, Sent
<1> HIDE DEF over, sent
<1>3. over \in SyncRecord
  <2>1. s.faults \in Nat /\ s.refused \in BOOLEAN
    BY DEF SyncRecord
  <2>2. NotSyncing \in SyncRecord
    BY DEF SyncRecord, SyncPhases, NotSyncing
  <2>3. QED
    BY <1>1, <1>2, <2>1, <2>2, Zenon DEF SyncRecord
<1>4. /\ over.phase = "closed" /\ over.cursor = sent /\ over.left = 0
      /\ over.faults = s.faults
  BY <1>1, <1>2 DEF NotSyncing
<1>8. over.refused = s.refused
  BY <1>2 DEF NotSyncing
<1>5. Fits(over)
  BY <1>1, <1>4 DEF Fits, LeftFits, FaultsFit, PagesFit, Attempts
<1>6. Sent(over) = sent
  BY <1>1, <1>4 DEF Sent
<1>7. QED
  BY <1>3, <1>4, <1>8, <1>5, <1>6 DEF over, sent

\* A sync that moves on and keeps everything else.
LEMMA PhaseMoves ==
  ASSUME NEW s \in SyncRecord, Fits(s), NEW phase \in SyncPhases,
         \/ s.phase = "acquire" /\ phase = "allow"
         \/ s.phase \in Attempts /\ phase \in Attempts
  PROVE  [s EXCEPT !.phase = phase] \in SyncRecord /\ Fits([s EXCEPT !.phase = phase])
<1> DEFINE new == [s EXCEPT !.phase = phase]
<1>1. new \in SyncRecord
  BY DEF SyncRecord
<1>2. /\ new.phase = phase /\ new.done = s.done /\ new.limit = s.limit
      /\ new.cursor = s.cursor /\ new.left = s.left /\ new.size = s.size
      /\ new.pages = s.pages /\ new.attempt = s.attempt /\ new.sizes = s.sizes
      /\ new.faults = s.faults
  BY DEF SyncRecord
<1>3. phase \notin {"send", "closed", "backoff"} /\ s.phase \notin {"send", "closed", "backoff"}
  BY DEF Attempts
<1>4. (phase \in Attempts <=> s.phase \in Attempts) \/ (s.phase = "acquire" /\ phase = "allow")
  OBVIOUS
<1> HIDE DEF new
<1>5. LeftFits(new)
  BY <1>2, <1>3 DEF Fits, LeftFits
<1>6. FaultsFit(new)
  BY <1>2, <1>3, <1>4 DEF Fits, FaultsFit, Attempts
<1>7. PagesFit(new)
  BY <1>2, <1>3 DEF Fits, PagesFit, Received
<1>8. QED
  BY <1>1, <1>5, <1>6, <1>7 DEF Fits, new

(***************************************************************************)
(* Every step of a sync keeps what it remembers, and ends for a reason     *)
(***************************************************************************)

Reason(c) ==
  \/ Sent(sync'[c]) = Records
  \/ sync[c].done
  \/ /\ sync[c].limit > 0
     /\ Sent(sync'[c]) >= sync[c].limit \/ Cardinality(sync[c].sizes) > 1
  \/ sync'[c].refused \/ sync'[c].faults = MaxAttempts
  \/ At(c, "allow") /\ consecutiveFails >= FailureThreshold

\* Less than a page beyond the limit.
Within(c) ==
  (sync[c].limit > 0 /\ Cardinality(sync[c].sizes) = 1) =>
    Sent(sync'[c]) < sync[c].limit + sync[c].size

\* A step that is what the two action properties ask of it.
EndsWell(c) == Ends(c) => Reason(c) /\ Within(c)

\* No page after one that reached the limit is received: what was sent is at most the
\* pages before, short of the limit, and one more.
LEMMA EndWithin ==
  ASSUME SyncsFit, NEW c \in Syncs, ~At(c, "closed"), Sent(sync'[c]) \in Int,
         Sent(sync'[c]) <= sync[c].cursor
  PROVE  Within(c)
<1> DEFINE sent == Sent(sync'[c])
<1> SUFFICES ASSUME sync[c].limit > 0, Cardinality(sync[c].sizes) = 1
             PROVE  sent < sync[c].limit + sync[c].size
  BY DEF Within
<1>1. PICK s \in SyncRecord : s = sync[c] /\ Fits(s) /\ s.phase # "closed"
  BY SyncFacts DEF At
<1>2. s.sizes = {s.size}
  <2>1. IsFiniteSet(s.sizes) /\ Cardinality(s.sizes) = 1 /\ s.sizes # {} /\ s.size \in s.sizes
    BY <1>1, FS_EmptySet DEF Fits, PagesFit
  <2>2. \E x : s.sizes = {x}
    BY <2>1, FS_Singleton
  <2>3. QED
    BY <2>1, <2>2
<1>3. s.cursor = Received(s) * s.size /\ s.pages * s.size < s.limit
  BY <1>1, <1>2 DEF Fits, PagesFit
<1>4. s.pages \in Nat /\ s.size \in Nat /\ s.limit \in Int /\ s.cursor \in Nat
  BY DEF SyncRecord
<1>5. s.cursor <= s.pages * s.size + s.size
  <2>1. CASE Received(s) = s.pages
    BY <2>1, <1>3, <1>4
  <2>2. CASE Received(s) = s.pages + 1
    BY <2>2, <1>3, <1>4
  <2>3. QED
    BY <2>1, <2>2 DEF Received
<1>6. s.pages * s.size \in Nat
  BY <1>4
<1>7. sent \in Int /\ sent <= s.cursor
  BY <1>1
<1> HIDE DEF sent
<1>8. sent < s.limit + s.size
  BY <1>3, <1>4, <1>5, <1>6, <1>7
<1>9. QED
  BY <1>1, <1>8

LEMMA GoesTo ==
  ASSUME SyncsFit, NEW c \in Syncs, NEW new, Goes(c, new)
  PROVE  sync'[c] = new
  BY DEF SyncsFit, Goes

\* A sync that closes keeps what it sent.
LEMMA CloseFits ==
  ASSUME SyncsFit, NEW c \in Syncs, Close(c)
  PROVE  /\ SyncsFit' /\ Sent(sync'[c]) = Sent(sync[c])
         /\ sync'[c].faults = sync[c].faults /\ sync'[c].refused = sync[c].refused
         /\ ~At(c, "closed") => Within(c)
<1>1. PICK s \in SyncRecord : s = sync[c] /\ Fits(s)
  BY SyncFacts
<1>2. Goes(c, Over(s))
  BY <1>1 DEF Close
<1>3. s.left <= s.cursor /\ s.left \in Nat /\ s.cursor \in Nat
  BY <1>1 DEF Fits, LeftFits, SyncRecord
<1>4. /\ Over(s) \in SyncRecord /\ Fits(Over(s)) /\ Sent(Over(s)) = s.cursor - s.left
      /\ Over(s).faults = s.faults /\ Over(s).refused = s.refused
  BY <1>3, OverFits
<1>5. SyncsFit' /\ sync'[c] = Over(s)
  BY <1>2, <1>4, GoesFits, GoesTo
<1>6. Sent(sync'[c]) \in Int /\ Sent(sync'[c]) <= sync[c].cursor
  BY <1>1, <1>3, <1>4, <1>5
<1>7. ~At(c, "closed") => Within(c)
  BY <1>6, EndWithin
<1>8. Sent(sync'[c]) = Sent(sync[c])
  BY <1>1, <1>4, <1>5 DEF Sent
<1>9. QED
  BY <1>1, <1>4, <1>5, <1>7, <1>8

\* The context was cancelled: a reason to close.
LEMMA CancelledFits ==
  ASSUME SyncsFit, NEW c \in Syncs, sync[c].done, ~At(c, "closed"), Close(c)
  PROVE  SyncsFit' /\ EndsWell(c)
  BY CloseFits DEF EndsWell, Reason

LEMMA ToFits ==
  ASSUME SyncsFit, NEW c \in Syncs, NEW phase \in SyncPhases, To(c, phase),
         \/ At(c, "acquire") /\ phase = "allow"
         \/ sync[c].phase \in Attempts /\ phase \in Attempts
  PROVE  SyncsFit' /\ ~Ends(c)
<1>1. PICK s \in SyncRecord : s = sync[c] /\ Fits(s)
  BY SyncFacts
<1> DEFINE new == [s EXCEPT !.phase = phase]
<1>2. new \in SyncRecord /\ Fits(new)
  BY <1>1, PhaseMoves DEF At
<1>3. new.phase = phase /\ phase # "closed"
  BY DEF SyncRecord, Attempts
<1>4. Goes(c, new)
  BY <1>1 DEF To
<1> HIDE DEF new
<1>5. SyncsFit' /\ sync'[c] = new
  BY <1>2, <1>4, GoesFits, GoesTo
<1>6. QED
  BY <1>3, <1>5 DEF Ends

LEMMA StartSyncFits ==
  ASSUME SyncsFit, NEW c \in Syncs, NEW limit \in Limits, StartSync(c, limit)
  PROVE  SyncsFit' /\ EndsWell(c)
<1> DEFINE new == [NotSyncing EXCEPT !.phase = "acquire", !.limit = limit]
<1>1. new \in SyncRecord
  BY ConnectorAssumption DEF NotSyncing, SyncRecord, SyncPhases
<1>2. /\ new.phase = "acquire" /\ new.left = 0 /\ new.cursor = 0 /\ new.sizes = {}
      /\ new.pages = 0 /\ new.faults = 0
  BY DEF NotSyncing
<1> HIDE DEF new
<1>3. Fits(new)
  BY <1>2, FS_EmptySet DEF Fits, LeftFits, FaultsFit, PagesFit, Attempts
<1>4. Goes(c, new) /\ At(c, "closed")
  BY DEF StartSync, new
<1>5. QED
  BY <1>1, <1>3, <1>4, GoesFits DEF EndsWell, Ends

LEMMA CancelFits ==
  ASSUME SyncsFit, NEW c \in Syncs, Cancel(c)
  PROVE  SyncsFit' /\ EndsWell(c)
<1>1. PICK s \in SyncRecord : s = sync[c] /\ Fits(s) /\ s.phase # "closed"
  BY SyncFacts DEF Cancel, At
<1> DEFINE new == [s EXCEPT !.done = TRUE]
<1>2. new \in SyncRecord
  BY DEF SyncRecord
<1>3. /\ new.phase = s.phase /\ new.limit = s.limit
      /\ new.cursor = s.cursor /\ new.left = s.left /\ new.size = s.size
      /\ new.pages = s.pages /\ new.sizes = s.sizes
  BY DEF SyncRecord
<1>4. new.done
  BY DEF SyncRecord
<1>5. Goes(c, new)
  BY <1>1 DEF Cancel
<1> HIDE DEF new
<1>6. Fits(new)
  BY <1>1, <1>3, <1>4 DEF Fits, LeftFits, FaultsFit, PagesFit, Received
<1>7. SyncsFit' /\ sync'[c] = new
  BY <1>2, <1>5, <1>6, GoesFits, GoesTo
<1>8. QED
  BY <1>1, <1>3, <1>7 DEF EndsWell, Ends

LEMMA AcquireFits ==
  ASSUME SyncsFit, NEW c \in Syncs, Acquire(c)
  PROVE  SyncsFit' /\ EndsWell(c)
<1>1. At(c, "acquire") /\ ~At(c, "closed")
  BY DEF Acquire, At
<1>2. CASE To(c, "allow")
  BY <1>1, <1>2, ToFits DEF SyncPhases, EndsWell
<1>3. CASE sync[c].done /\ Close(c)
  BY <1>1, <1>3, CancelledFits
<1>4. QED
  BY <1>2, <1>3 DEF Acquire

\* A sync that the circuit turns away ends for the failures that opened it.
LEMMA EnterBreakerFits ==
  ASSUME SyncsFit, IInv, NEW c \in Syncs, EnterBreaker(c)
  PROVE  SyncsFit' /\ EndsWell(c)
<1>1. PICK s \in SyncRecord : s = sync[c] /\ Fits(s) /\ s.phase = "allow"
  BY SyncFacts DEF EnterBreaker, At
<1>2. CASE Goes(c, [s EXCEPT !.phase = "attempt", !.attempt = 1])
  <2> DEFINE new == [s EXCEPT !.phase = "attempt", !.attempt = 1]
  <2>1. new \in SyncRecord
    BY DEF SyncRecord, SyncPhases, Attempts
  <2>2. /\ new.phase = "attempt" /\ new.attempt = 1 /\ new.done = s.done
        /\ new.limit = s.limit /\ new.cursor = s.cursor /\ new.left = s.left
        /\ new.size = s.size /\ new.pages = s.pages /\ new.sizes = s.sizes
        /\ new.faults = s.faults
    BY DEF SyncRecord
  <2>3. Goes(c, new)
    BY <1>2
  <2> HIDE DEF new
  <2>4. Fits(new)
    BY <1>1, <2>2 DEF Fits, LeftFits, FaultsFit, PagesFit, Received, Attempts
  <2>5. SyncsFit' /\ sync'[c] = new
    BY <2>1, <2>3, <2>4, GoesFits, GoesTo
  <2>6. QED
    BY <2>2, <2>5 DEF EndsWell, Ends
<1>3. CASE AllowRejected(c) /\ Close(c)
  <2>1. state # "closed" /\ consecutiveFails \in Nat
    BY <1>3 DEF AllowRejected, Advanced, IInv, TypeOK
  <2>2. consecutiveFails >= FailureThreshold
    BY <2>1, BreakerAssumption DEF IInv, ClosedIffBelowThreshold
  <2>3. At(c, "allow") /\ ~At(c, "closed")
    BY <1>1 DEF At
  <2>4. SyncsFit' /\ Within(c)
    BY <1>3, <2>3, CloseFits
  <2>5. Reason(c)
    BY <2>2, <2>3 DEF Reason
  <2>6. QED
    BY <2>4, <2>5 DEF EndsWell
<1>4. QED
  BY <1>1, <1>2, <1>3 DEF EnterBreaker

LEMMA StartAttemptFits ==
  ASSUME SyncsFit, NEW c \in Syncs, StartAttempt(c)
  PROVE  SyncsFit' /\ EndsWell(c)
<1>1. At(c, "attempt") /\ ~At(c, "closed")
  BY DEF StartAttempt, At
<1>2. CASE sync[c].done /\ Close(c)
  BY <1>1, <1>2, CancelledFits
<1>3. CASE To(c, "auth")
  BY <1>1, <1>3, ToFits DEF SyncPhases, Attempts, EndsWell, At
<1>4. QED
  BY <1>2, <1>3 DEF StartAttempt, EndInError

LEMMA BackOffFits ==
  ASSUME SyncsFit, NEW c \in Syncs, BackOff(c)
  PROVE  SyncsFit' /\ EndsWell(c)
<1>1. PICK s \in SyncRecord : s = sync[c] /\ Fits(s) /\ s.phase = "backoff"
  BY SyncFacts DEF BackOff, At
<1>2. CASE sync[c].done /\ Close(c)
  BY <1>1, <1>2, CancelledFits DEF At
<1>3. CASE Goes(c, [s EXCEPT !.phase = "attempt", !.attempt = s.attempt + 1])
  <2> DEFINE new == [s EXCEPT !.phase = "attempt", !.attempt = s.attempt + 1]
  <2>1. new \in SyncRecord
    <3>1. s.attempt + 1 \in Nat /\ "attempt" \in SyncPhases
      BY DEF SyncRecord, SyncPhases, Attempts
    <3>2. QED
      BY <3>1, Zenon DEF SyncRecord
  <2>2. /\ new.phase = "attempt" /\ new.attempt = s.attempt + 1 /\ new.done = s.done
        /\ new.limit = s.limit /\ new.cursor = s.cursor /\ new.left = s.left
        /\ new.size = s.size /\ new.pages = s.pages /\ new.sizes = s.sizes
        /\ new.faults = s.faults
    BY DEF SyncRecord
  <2>3. Goes(c, new)
    BY <1>3
  <2> HIDE DEF new
  <2>4. Fits(new)
    BY <1>1, <2>2 DEF Fits, LeftFits, FaultsFit, PagesFit, Received, Attempts
  <2>5. SyncsFit' /\ sync'[c] = new
    BY <2>1, <2>3, <2>4, GoesFits, GoesTo
  <2>6. QED
    BY <2>2, <2>5 DEF EndsWell, Ends
<1>4. QED
  BY <1>1, <1>2, <1>3 DEF BackOff, EndInError

\* The last attempt that fails ends the sync, with as many faults on record as there
\* were attempts.
LEMMA FailFits ==
  ASSUME SyncsFit, NEW c \in Syncs, sync[c].phase \in Attempts, Fail(c)
  PROVE  SyncsFit' /\ EndsWell(c)
<1>1. PICK s \in SyncRecord : s = sync[c] /\ Fits(s) /\ s.phase \in Attempts
  BY SyncFacts
<1> DEFINE faults == IF s.done THEN s.faults ELSE s.faults + 1
           failed == [s EXCEPT !.faults = faults]
<1>2. /\ s.left = 0 /\ s.phase \notin {"send", "closed", "backoff"}
      /\ ~s.done => faults = s.attempt
  BY <1>1 DEF Fits, LeftFits, FaultsFit, Attempts
<1>3. faults \in Nat
  BY DEF SyncRecord
<1>4. IF failed.attempt = MaxAttempts
      THEN Goes(c, Over(failed)) ELSE Goes(c, [failed EXCEPT !.phase = "backoff"])
  BY <1>1 DEF Fail
<1> HIDE DEF faults
<1>5. failed \in SyncRecord
  BY <1>3 DEF SyncRecord
<1>6. /\ failed.phase = s.phase /\ failed.done = s.done /\ failed.limit = s.limit
      /\ failed.cursor = s.cursor /\ failed.left = s.left /\ failed.size = s.size
      /\ failed.pages = s.pages /\ failed.attempt = s.attempt /\ failed.sizes = s.sizes
      /\ failed.faults = faults
  BY DEF SyncRecord
<1> HIDE DEF failed
<1>7. CASE failed.attempt = MaxAttempts
  <2>1. /\ Over(failed) \in SyncRecord /\ Fits(Over(failed))
        /\ Sent(Over(failed)) = s.cursor - s.left /\ Over(failed).faults = faults
    <3>1. failed.left <= failed.cursor
      BY <1>1, <1>6 DEF Fits, LeftFits
    <3>2. QED
      BY <1>5, <1>6, <3>1, OverFits
  <2>2. SyncsFit' /\ sync'[c] = Over(failed)
    BY <1>4, <1>7, <2>1, GoesFits, GoesTo
  <2>3. Sent(sync'[c]) \in Int /\ Sent(sync'[c]) <= sync[c].cursor
    BY <1>1, <1>2, <2>1, <2>2 DEF SyncRecord
  <2>4. Within(c)
    BY <1>1, <1>2, <2>3, EndWithin DEF At
  <2>5. sync[c].done \/ sync'[c].faults = MaxAttempts
    BY <1>1, <1>2, <1>6, <1>7, <2>1, <2>2
  <2>6. QED
    BY <2>2, <2>4, <2>5 DEF EndsWell, Reason
<1>8. CASE failed.attempt # MaxAttempts
  <2> DEFINE new == [failed EXCEPT !.phase = "backoff"]
  <2>1. new \in SyncRecord
    BY <1>5 DEF SyncRecord, SyncPhases
  <2>2. /\ new.phase = "backoff" /\ new.done = s.done /\ new.limit = s.limit
        /\ new.cursor = s.cursor /\ new.left = s.left /\ new.size = s.size
        /\ new.pages = s.pages /\ new.attempt = s.attempt /\ new.sizes = s.sizes
        /\ new.faults = faults
    BY <1>5, <1>6 DEF SyncRecord
  <2>3. Goes(c, new)
    BY <1>4, <1>8
  <2> HIDE DEF new
  <2>4. Fits(new)
    BY <1>1, <1>2, <2>2 DEF Fits, LeftFits, FaultsFit, PagesFit, Received, Attempts
  <2>5. SyncsFit' /\ sync'[c] = new
    BY <2>1, <2>3, <2>4, GoesFits, GoesTo
  <2>6. QED
    BY <2>2, <2>5 DEF EndsWell, Ends
<1>9. QED
  BY <1>7, <1>8

LEMMA LockTokenFits ==
  ASSUME SyncsFit, NEW c \in Syncs, LockToken(c)
  PROVE  SyncsFit' /\ EndsWell(c)
<1>1. sync[c].phase = "auth" /\ (To(c, "request") \/ To(c, "fetching"))
  BY DEF LockToken, At
<1>2. QED
  BY <1>1, ToFits DEF SyncPhases, Attempts, EndsWell

LEMMA FetchTokenFits ==
  ASSUME SyncsFit, NEW c \in Syncs, FetchToken(c)
  PROVE  SyncsFit' /\ EndsWell(c)
<1>1. sync[c].phase = "fetching" /\ (To(c, "request") \/ Fail(c))
  BY DEF FetchToken, At
<1>2. CASE To(c, "request")
  BY <1>1, <1>2, ToFits DEF SyncPhases, Attempts, EndsWell
<1>3. CASE Fail(c)
  BY <1>1, <1>3, FailFits DEF Attempts
<1>4. QED
  BY <1>1, <1>2, <1>3

\* A page of the size of those before it keeps the cursor a multiple of that size.
LEMMA ReceivePageFits ==
  ASSUME SyncsFit, NEW c \in Syncs, ReceivePage(c)
  PROVE  SyncsFit' /\ EndsWell(c)
<1>1. PICK s \in SyncRecord : s = sync[c] /\ Fits(s) /\ s.phase = "request"
  BY SyncFacts DEF ReceivePage, At
<1>2. PICK size \in PageSizes :
        Goes(c, [s EXCEPT !.phase = "send", !.cursor = s.cursor + size, !.left = size,
                          !.attempt = 0, !.faults = 0, !.size = size,
                          !.sizes = s.sizes \cup {size}])
  BY <1>1 DEF ReceivePage
<1> DEFINE new == [s EXCEPT !.phase = "send", !.cursor = s.cursor + size, !.left = size,
                            !.attempt = 0, !.faults = 0, !.size = size,
                            !.sizes = s.sizes \cup {size}]
<1>3. size \in Nat /\ size >= 1
  BY ConnectorAssumption
<1>4. /\ s.cursor \in Nat /\ s.pages \in Nat /\ s.size \in Nat /\ s.limit \in Int
      /\ s.sizes \in SUBSET Nat
  BY DEF SyncRecord
<1>5. new \in SyncRecord
  <2>1. /\ "send" \in SyncPhases /\ s.cursor + size \in Nat /\ 0 \in Nat
        /\ s.sizes \cup {size} \in SUBSET Nat
    BY <1>3, <1>4 DEF SyncPhases
  <2>2. QED
    BY <1>3, <2>1, Zenon DEF SyncRecord
<1>6. /\ new.phase = "send" /\ new.limit = s.limit /\ new.cursor = s.cursor + size
      /\ new.left = size /\ new.size = size /\ new.pages = s.pages /\ new.faults = 0
      /\ new.sizes = s.sizes \cup {size}
  BY DEF SyncRecord
<1>7. Goes(c, new)
  BY <1>2
<1> HIDE DEF new
<1>8. PagesFit(new)
  <2>1. IsFiniteSet(new.sizes) /\ new.size \in new.sizes /\ new.sizes # {}
    BY <1>1, <1>6, FS_AddElement DEF Fits, PagesFit
  <2>2. ASSUME new.sizes = {new.size}
        PROVE  /\ new.cursor = (new.pages + 1) * new.size
               /\ new.limit > 0 => new.pages * new.size < new.limit
    <3>1. s.sizes = {} \/ (s.sizes = {s.size} /\ s.size = size)
      BY <1>1, <1>6, <2>2 DEF Fits, PagesFit
    <3>2. s.cursor = s.pages * size /\ (s.limit > 0 => s.pages * size < s.limit)
      BY <1>1, <1>3, <1>4, <3>1 DEF Fits, PagesFit, Received
    <3>3. (s.pages + 1) * size = s.pages * size + size
      BY <1>3, <1>4
    <3>4. QED
      BY <1>6, <3>2, <3>3
  <2>3. QED
    BY <1>6, <2>1, <2>2 DEF PagesFit, Received
<1>9. LeftFits(new) /\ FaultsFit(new)
  BY <1>3, <1>4, <1>6 DEF LeftFits, FaultsFit, Attempts
<1>10. SyncsFit' /\ sync'[c] = new
  BY <1>5, <1>7, <1>8, <1>9, GoesFits, GoesTo DEF Fits
<1>11. QED
  BY <1>6, <1>10 DEF EndsWell, Ends

LEMMA RefusedFits ==
  ASSUME SyncsFit, NEW c \in Syncs, Refused(c)
  PROVE  SyncsFit' /\ EndsWell(c)
<1>1. PICK s \in SyncRecord : s = sync[c] /\ Fits(s) /\ s.phase = "request"
  BY SyncFacts DEF Refused, At
<1> DEFINE refused == [s EXCEPT !.refused = TRUE]
<1>2. refused \in SyncRecord
  BY DEF SyncRecord
<1>3. refused.left = s.left /\ refused.cursor = s.cursor
  BY DEF SyncRecord
<1>4. refused.refused
  BY DEF SyncRecord
<1>5. Goes(c, Over(refused))
  BY <1>1 DEF Refused
<1> HIDE DEF refused
<1>6. s.left <= s.cursor /\ s.left \in Nat /\ s.cursor \in Nat
  BY <1>1 DEF Fits, LeftFits, SyncRecord
<1>7. refused.left <= refused.cursor
  BY <1>3, <1>6
<1>8. /\ Over(refused) \in SyncRecord /\ Fits(Over(refused))
      /\ Sent(Over(refused)) = s.cursor - s.left /\ Over(refused).refused
  BY <1>2, <1>3, <1>4, <1>7, OverFits
<1>9. SyncsFit' /\ sync'[c] = Over(refused)
  BY <1>5, <1>8, GoesFits, GoesTo
<1>10. Sent(sync'[c]) \in Int /\ Sent(sync'[c]) <= sync[c].cursor
  BY <1>1, <1>6, <1>8, <1>9
<1>11. Within(c)
  BY <1>1, <1>10, EndWithin DEF At
<1>12. QED
  BY <1>8, <1>9, <1>11 DEF EndsWell, Reason

\* The limit is reached by the pages counted at the length of the last one; if they
\* were all as long, that is what was sent.
LEMMA SendRecordFits ==
  ASSUME SyncsFit, NEW c \in Syncs, SendRecord(c)
  PROVE  SyncsFit' /\ EndsWell(c)
<1>1. PICK s \in SyncRecord : s = sync[c] /\ Fits(s) /\ s.phase = "send"
  BY SyncFacts DEF SendRecord, At
<1>2. ~At(c, "closed")
  BY <1>1 DEF At
<1>3. /\ s.cursor \in Nat /\ s.pages \in Nat /\ s.size \in Nat /\ s.limit \in Int
      /\ s.left \in Nat /\ s.left >= 1 /\ s.left <= s.cursor
  BY <1>1 DEF SyncRecord, Fits, LeftFits
<1>4. CASE sync[c].done /\ Close(c)
  BY <1>2, <1>4, CancelledFits
<1>5. CASE s.left # 1 /\ Goes(c, [s EXCEPT !.left = s.left - 1])
  <2> DEFINE new == [s EXCEPT !.left = s.left - 1]
  <2>1. new \in SyncRecord
    BY <1>3 DEF SyncRecord
  <2>2. /\ new.phase = "send" /\ new.done = s.done /\ new.limit = s.limit
        /\ new.cursor = s.cursor /\ new.left = s.left - 1 /\ new.size = s.size
        /\ new.pages = s.pages /\ new.sizes = s.sizes /\ new.faults = s.faults
    BY <1>1 DEF SyncRecord
  <2>3. Goes(c, new)
    BY <1>5
  <2> HIDE DEF new
  <2>4. LeftFits(new) /\ FaultsFit(new)
    BY <1>1, <1>3, <1>5, <2>2 DEF Fits, LeftFits, FaultsFit, Attempts
  <2>5. PagesFit(new)
    BY <1>1, <2>2 DEF Fits, PagesFit, Received
  <2>6. SyncsFit' /\ sync'[c] = new
    BY <2>1, <2>3, <2>4, <2>5, GoesFits, GoesTo DEF Fits
  <2>7. QED
    BY <2>2, <2>6 DEF EndsWell, Ends
<1>6. CASE Goes(c, AfterPage(s))
  <2>1. s.size \in s.sizes /\ IsFiniteSet(s.sizes)
    BY <1>1 DEF Fits, PagesFit
  <2>2. s.sizes = {s.size} => /\ s.cursor = (s.pages + 1) * s.size
                              /\ s.limit > 0 => s.pages * s.size < s.limit
    BY <1>1 DEF Fits, PagesFit, Received
  <2>3. CASE LimitReached(s) \/ s.cursor = Records
    <3> DEFINE sent == [s EXCEPT !.left = 0]
    <3>1. sent \in SyncRecord
      BY DEF SyncRecord
    <3>2. sent.left = 0 /\ sent.cursor = s.cursor
      BY DEF SyncRecord
    <3>3. Goes(c, Over(sent))
      BY <1>6, <2>3 DEF AfterPage
    <3> HIDE DEF sent
    <3>4. sent.left <= sent.cursor
      BY <1>3, <3>2
    <3>5. /\ Over(sent) \in SyncRecord /\ Fits(Over(sent)) /\ Sent(Over(sent)) = s.cursor
      <4>1. s.cursor - 0 = s.cursor
        BY <1>3
      <4>2. QED
        BY <3>1, <3>2, <3>4, <4>1, OverFits
    <3>6. SyncsFit' /\ sync'[c] = Over(sent)
      BY <3>3, <3>5, GoesFits, GoesTo
    <3>7. Sent(sync'[c]) = s.cursor
      BY <3>5, <3>6
    <3>8. Within(c)
      BY <1>1, <1>2, <1>3, <3>7, EndWithin
    <3>9. Reason(c)
      <4>1. CASE s.cursor = Records
        BY <3>7, <4>1 DEF Reason
      <4>2. CASE LimitReached(s) /\ s.sizes = {s.size}
        BY <1>1, <2>2, <3>7, <4>2 DEF Reason, LimitReached
      <4>3. CASE LimitReached(s) /\ s.sizes # {s.size}
        <5>1. Cardinality(s.sizes) \in Nat /\ Cardinality(s.sizes) # 0
          BY <2>1, FS_CardinalityType, FS_EmptySet
        <5>2. Cardinality(s.sizes) # 1
          BY <2>1, <4>3, FS_Singleton
        <5>3. Cardinality(s.sizes) > 1
          BY <5>1, <5>2
        <5>4. QED
          BY <1>1, <4>3, <5>3 DEF Reason, LimitReached
      <4>4. QED
        BY <2>3, <4>1, <4>2, <4>3
    <3>10. QED
      BY <3>6, <3>8, <3>9 DEF EndsWell
  <2>4. CASE ~LimitReached(s) /\ s.cursor # Records
    <3> DEFINE new == [s EXCEPT !.left = 0, !.pages = s.pages + 1, !.phase = "acquire"]
    <3>1. new \in SyncRecord
      <4>1. s.pages + 1 \in Nat /\ 0 \in Nat /\ "acquire" \in SyncPhases
        BY <1>3 DEF SyncPhases
      <4>2. QED
        BY <4>1, Zenon DEF SyncRecord
    <3>2. /\ new.phase = "acquire" /\ new.done = s.done /\ new.limit = s.limit
          /\ new.cursor = s.cursor /\ new.left = 0 /\ new.size = s.size
          /\ new.pages = s.pages + 1 /\ new.sizes = s.sizes /\ new.faults = s.faults
      BY DEF SyncRecord
    <3>3. Goes(c, new)
      BY <1>6, <2>4 DEF AfterPage
    <3> HIDE DEF new
    <3>4. LeftFits(new) /\ FaultsFit(new)
      BY <1>1, <1>3, <3>2 DEF Fits, LeftFits, FaultsFit, Attempts
    <3>5. s.limit > 0 => (s.pages + 1) * s.size < s.limit
      <4>1. (s.pages + 1) * s.size \in Int
        BY <1>3
      <4>2. QED
        BY <1>3, <2>4, <4>1 DEF LimitReached
    <3>6. PagesFit(new)
      BY <2>1, <2>2, <3>2, <3>5 DEF PagesFit, Received
    <3>7. SyncsFit' /\ sync'[c] = new
      BY <3>1, <3>3, <3>4, <3>6, GoesFits, GoesTo DEF Fits
    <3>8. QED
      BY <3>2, <3>7 DEF EndsWell, Ends
  <2>5. QED
    BY <2>3, <2>4
<1>7. QED
  BY <1>1, <1>4, <1>5, <1>6 DEF SendRecord

(***************************************************************************)
(* The OAuth2 token                                                        *)
(***************************************************************************)

\* Who fetches holds the mutex, and nobody else does.
TokenInv ==
  /\ bearer \in [cached : {"none", "fresh", "expired"}, holder : SUBSET Syncs]
  /\ \A c \in Syncs : At(c, "fetching") <=> bearer.holder = {c}
  /\ bearer.holder = {} \/ \E c \in Syncs : bearer.holder = {c}
  /\ NoNeedlessFetch

LEMMA OverIsClosed ==
  ASSUME NEW s
  PROVE  Over(s).phase = "closed"
  BY DEF Over, NotSyncing

\* Where a failed attempt leaves its sync.
LEMMA FailLeaves ==
  ASSUME SyncsFit, NEW c \in Syncs, Fail(c)
  PROVE  \E new : Goes(c, new) /\ new.phase \in {"closed", "backoff"}
<1>1. PICK s \in SyncRecord : s = sync[c]
  BY SyncFacts
<1> DEFINE failed == [s EXCEPT !.faults = IF s.done THEN s.faults ELSE s.faults + 1]
<1>2. [failed EXCEPT !.phase = "backoff"].phase = "backoff"
  BY DEF SyncRecord
<1>3. Goes(c, Over(failed)) \/ Goes(c, [failed EXCEPT !.phase = "backoff"])
  BY <1>1 DEF Fail
<1> HIDE DEF failed
<1>4. QED
  BY <1>2, <1>3, OverIsClosed

\* The steps of a sync outside of the token's mutex.
LEMMA OutsideMutex ==
  ASSUME SyncsFit, NEW c \in Syncs,
         \/ Acquire(c) \/ EnterBreaker(c) \/ StartAttempt(c) \/ BackOff(c)
         \/ ReceivePage(c) \/ AttemptFails(c) \/ Refused(c) \/ SendRecord(c)
         \/ \E limit \in Limits : StartSync(c, limit)
  PROVE  /\ bearer' = bearer /\ ~At(c, "fetching")
         /\ \E new : Goes(c, new) /\ new.phase # "fetching"
<1>1. sync[c] \in SyncRecord
  BY SyncFacts
<1> DEFINE Leaves == \E new : Goes(c, new) /\ new.phase # "fetching"
<1>2. ASSUME Close(c) PROVE Leaves
  BY <1>2, OverIsClosed DEF Close
<1>3. ASSUME NEW phase \in SyncPhases \ {"fetching"}, To(c, phase) PROVE Leaves
  <2>1. [sync[c] EXCEPT !.phase = phase].phase = phase
    BY <1>1 DEF SyncRecord
  <2>2. QED
    BY <1>3, <2>1 DEF To
<1>4. CASE Acquire(c)
  BY <1>2, <1>3, <1>4 DEF Acquire, At, SyncPhases
<1>5. CASE EnterBreaker(c)
  <2>1. [sync[c] EXCEPT !.phase = "attempt", !.attempt = 1].phase = "attempt"
    BY <1>1 DEF SyncRecord
  <2>2. QED
    BY <1>2, <1>5, <2>1 DEF EnterBreaker, At
<1>6. CASE StartAttempt(c)
  BY <1>2, <1>3, <1>6 DEF StartAttempt, EndInError, At, SyncPhases, Attempts
<1>7. CASE BackOff(c)
  <2>1. [sync[c] EXCEPT !.phase = "attempt", !.attempt = sync[c].attempt + 1].phase = "attempt"
    BY <1>1 DEF SyncRecord
  <2>2. QED
    BY <1>2, <1>7, <2>1 DEF BackOff, EndInError, At
<1>8. CASE ReceivePage(c)
  <2>1. PICK size \in PageSizes :
          Goes(c, [sync[c] EXCEPT !.phase = "send", !.cursor = sync[c].cursor + size,
                                  !.left = size, !.attempt = 0, !.faults = 0, !.size = size,
                                  !.sizes = sync[c].sizes \cup {size}])
    BY <1>8 DEF ReceivePage
  <2>2. [sync[c] EXCEPT !.phase = "send", !.cursor = sync[c].cursor + size,
                        !.left = size, !.attempt = 0, !.faults = 0, !.size = size,
                        !.sizes = sync[c].sizes \cup {size}].phase = "send"
    BY <1>1 DEF SyncRecord
  <2>3. QED
    BY <1>8, <2>1, <2>2 DEF ReceivePage, At
<1>9. CASE AttemptFails(c)
  BY <1>9, FailLeaves DEF AttemptFails, At
<1>10. CASE Refused(c)
  BY <1>10, OverIsClosed DEF Refused, At
<1>11. CASE SendRecord(c)
  <2>1. CASE Close(c)
    BY <1>2, <1>11, <2>1 DEF SendRecord, At
  <2>2. CASE Goes(c, AfterPage(sync[c]))
    <3>1. [sync[c] EXCEPT !.left = 0, !.pages = sync[c].pages + 1,
                          !.phase = "acquire"].phase = "acquire"
      BY <1>1 DEF SyncRecord
    <3>2. AfterPage(sync[c]).phase \in {"closed", "acquire"}
      BY <3>1, OverIsClosed DEF AfterPage
    <3>3. QED
      BY <1>11, <2>2, <3>2 DEF SendRecord, At
  <2>3. CASE Goes(c, [sync[c] EXCEPT !.left = sync[c].left - 1])
    <3>1. [sync[c] EXCEPT !.left = sync[c].left - 1].phase = sync[c].phase
      BY <1>1 DEF SyncRecord
    <3>2. QED
      BY <1>11, <2>3, <3>1 DEF SendRecord, At
  <2>4. QED
    BY <1>11, <2>1, <2>2, <2>3 DEF SendRecord
<1>12. CASE \E limit \in Limits : StartSync(c, limit)
  <2>1. PICK limit \in Limits : StartSync(c, limit)
    BY <1>12
  <2>2. [NotSyncing EXCEPT !.phase = "acquire", !.limit = limit].phase = "acquire"
    BY DEF NotSyncing
  <2>3. QED
    BY <2>1, <2>2 DEF StartSync, At
<1>13. QED
  BY <1>4, <1>5, <1>6, <1>7, <1>8, <1>9, <1>10, <1>11, <1>12

LEMMA NextTokenInv ==
  ASSUME SyncsFit, TokenInv, [ConnectorNext]_connectorVars
  PROVE  TokenInv'
<1> USE DEF At, Goes
<1>1. ASSUME NEW c \in Syncs, NEW new, Goes(c, new), bearer' = bearer,
             new.phase = "fetching" <=> sync[c].phase = "fetching"
      PROVE  TokenInv'
  <2>1. \A d \in Syncs : sync'[d].phase = "fetching" <=> sync[d].phase = "fetching"
    BY <1>1 DEF SyncsFit
  <2>2. QED
    BY <1>1, <2>1 DEF TokenInv, NoNeedlessFetch
<1>2. ASSUME NEW c \in Syncs, Cancel(c) PROVE TokenInv'
  <2>1. [sync[c] EXCEPT !.done = TRUE].phase = sync[c].phase
    BY SyncFacts DEF SyncRecord
  <2>2. QED
    BY <1>1, <1>2, <2>1 DEF Cancel
<1>3. ASSUME NEW c \in Syncs, LockToken(c) PROVE TokenInv'
  <2>1. bearer.holder = {} /\ sync[c].phase = "auth" /\ sync[c] \in SyncRecord
    BY <1>3, SyncFacts DEF LockToken
  <2>2. CASE To(c, "request") /\ bearer' = bearer
    <3>1. [sync[c] EXCEPT !.phase = "request"].phase = "request"
      BY <2>1 DEF SyncRecord
    <3>2. QED
      BY <1>1, <2>1, <2>2, <3>1 DEF To
  <2>3. CASE /\ bearer.cached # "fresh" /\ To(c, "fetching")
             /\ bearer' = [bearer EXCEPT !.holder = {c}]
    <3>1. bearer'.holder = {c} /\ bearer'.cached = bearer.cached
      BY <2>3 DEF TokenInv
    <3>2. bearer' \in [cached : {"none", "fresh", "expired"}, holder : SUBSET Syncs]
      BY <2>3 DEF TokenInv
    <3>3. \A d \in Syncs : sync'[d].phase = "fetching" <=> d = c
      <4>1. [sync[c] EXCEPT !.phase = "fetching"].phase = "fetching"
        BY <2>1 DEF SyncRecord
      <4>2. \A d \in Syncs : sync[d].phase # "fetching"
        BY <2>1 DEF TokenInv
      <4>3. QED
        BY <2>3, <4>1, <4>2 DEF To, SyncsFit
    <3>4. QED
      BY <2>3, <3>1, <3>2, <3>3 DEF TokenInv, NoNeedlessFetch
  <2>4. QED
    BY <1>3, <2>2, <2>3 DEF LockToken
<1>4. ASSUME NEW c \in Syncs, FetchToken(c) PROVE TokenInv'
  <2>1. bearer.holder = {c} /\ sync[c] \in SyncRecord
    BY <1>4, SyncFacts DEF FetchToken, TokenInv
  <2>2. \A d \in Syncs : d # c => sync[d].phase # "fetching"
    BY <2>1 DEF TokenInv
  <2>3. bearer' \in [cached : {"none", "fresh", "expired"}, holder : {{}}]
    BY <1>4 DEF FetchToken, TokenInv
  <2>4. \E new : Goes(c, new) /\ new.phase # "fetching"
    <3>1. CASE To(c, "request")
      <4>1. [sync[c] EXCEPT !.phase = "request"].phase = "request"
        BY <2>1 DEF SyncRecord
      <4>2. QED
        BY <3>1, <4>1 DEF To
    <3>2. CASE Fail(c)
      BY <3>2, FailLeaves
    <3>3. QED
      BY <1>4, <3>1, <3>2 DEF FetchToken
  <2>5. \A d \in Syncs : sync'[d].phase # "fetching"
    BY <2>2, <2>4 DEF SyncsFit
  <2>6. bearer'.holder = {}
    BY <2>3
  <2>7. QED
    BY <2>3, <2>5, <2>6 DEF TokenInv, NoNeedlessFetch
<1>5. ASSUME NEW c \in Syncs,
             \/ Acquire(c) \/ EnterBreaker(c) \/ StartAttempt(c) \/ BackOff(c)
             \/ ReceivePage(c) \/ AttemptFails(c) \/ Refused(c) \/ SendRecord(c)
             \/ \E limit \in Limits : StartSync(c, limit)
      PROVE  TokenInv'
  <2>1. /\ bearer' = bearer /\ sync[c].phase # "fetching"
        /\ \E new : Goes(c, new) /\ new.phase # "fetching"
    BY <1>5, OutsideMutex
  <2>2. QED
    BY <1>1, <2>1
<1>6. CASE ExpireToken
  BY <1>6 DEF ExpireToken, TokenInv, NoNeedlessFetch
<1>7. CASE Refill \/ BreakerStep \/ UNCHANGED connectorVars
  <2>1. UNCHANGED <<sync, bearer>>
    BY <1>7 DEF Refill, BreakerStep, connectorVars
  <2>2. QED
    BY <2>1 DEF TokenInv, NoNeedlessFetch
<1>8. QED
  BY <1>2, <1>3, <1>4, <1>5, <1>6, <1>7 DEF ConnectorNext, Step

(***************************************************************************)
(* The theorems about a connector                                          *)
(***************************************************************************)

LEMMA NextSyncsFit ==
  ASSUME SyncsFit, IInv, [ConnectorNext]_connectorVars
  PROVE  SyncsFit' /\ \A c \in Syncs : EndsWell(c)
<1>1. ASSUME NEW c \in Syncs, NEW new, Goes(c, new), EndsWell(c)
      PROVE  \A d \in Syncs : EndsWell(d)
  <2>1. ASSUME NEW d \in Syncs, d # c PROVE EndsWell(d)
    BY <1>1, <2>1 DEF SyncsFit, Goes, EndsWell, Ends, At
  <2>2. QED
    BY <1>1, <2>1
<1>2. ASSUME NEW c \in Syncs,
             \/ Acquire(c) \/ EnterBreaker(c) \/ StartAttempt(c) \/ BackOff(c)
             \/ ReceivePage(c) \/ AttemptFails(c) \/ Refused(c) \/ SendRecord(c)
             \/ \E limit \in Limits : StartSync(c, limit)
      PROVE  SyncsFit' /\ \A d \in Syncs : EndsWell(d)
  <2>1. \E new : Goes(c, new)
    BY <1>2, OutsideMutex
  <2>2. SyncsFit' /\ EndsWell(c)
    <3>1. CASE AttemptFails(c)
      BY <3>1, FailFits DEF AttemptFails, At, Attempts
    <3>2. QED
      BY <1>2, <3>1, AcquireFits, EnterBreakerFits, StartAttemptFits, BackOffFits,
         ReceivePageFits, RefusedFits, SendRecordFits, StartSyncFits
  <2>3. QED
    BY <1>1, <2>1, <2>2
<1>3. ASSUME NEW c \in Syncs, Cancel(c) PROVE SyncsFit' /\ \A d \in Syncs : EndsWell(d)
  BY <1>1, <1>3, CancelFits DEF Cancel
<1>4. ASSUME NEW c \in Syncs, LockToken(c) PROVE SyncsFit' /\ \A d \in Syncs : EndsWell(d)
  BY <1>1, <1>4, LockTokenFits DEF LockToken, To
<1>5. ASSUME NEW c \in Syncs, FetchToken(c) PROVE SyncsFit' /\ \A d \in Syncs : EndsWell(d)
  <2>1. \E new : Goes(c, new)
    BY <1>5, FailLeaves DEF FetchToken, To
  <2>2. QED
    BY <1>1, <1>5, <2>1, FetchTokenFits
<1>6. CASE Refill \/ ExpireToken \/ BreakerStep \/ UNCHANGED connectorVars
  <2>1. sync' = sync
    BY <1>6 DEF Refill, ExpireToken, BreakerStep, connectorVars
  <2>2. QED
    BY <2>1 DEF SyncsFit, EndsWell, Ends, At
<1>7. QED
  BY <1>2, <1>3, <1>4, <1>5, <1>6 DEF ConnectorNext, Step

\* The breaker's invariant is needed with those of the syncs: a sync turned away by
\* the circuit ends for failures of others.
ConnectorInv == IInv /\ SyncsFit /\ TokenInv

LEMMA InitConnectorInv == ConnectorInit => ConnectorInv
<1> SUFFICES ASSUME ConnectorInit PROVE ConnectorInv
  OBVIOUS
<1>1. IInv
  BY InitIInv DEF ConnectorInit
<1>2. SyncsFit
  <2>1. NotSyncing \in SyncRecord
    BY DEF NotSyncing, SyncRecord, SyncPhases
  <2>2. Fits(NotSyncing)
    BY DEF Fits, LeftFits, FaultsFit, PagesFit, NotSyncing, Attempts
  <2>3. QED
    BY <2>1, <2>2 DEF ConnectorInit, SyncsFit
<1>3. TokenInv
  <2>1. bearer.holder = {} /\ bearer.cached = "none"
    BY DEF ConnectorInit
  <2>2. bearer \in [cached : {"none", "fresh", "expired"}, holder : SUBSET Syncs]
    BY DEF ConnectorInit
  <2>3. \A c \in Syncs : sync[c].phase # "fetching"
    BY DEF ConnectorInit, NotSyncing
  <2>4. QED
    BY <2>1, <2>2, <2>3 DEF TokenInv, NoNeedlessFetch, At
<1>4. QED
  BY <1>1, <1>2, <1>3 DEF ConnectorInv

\* The inductive invariant of a connector's syncs, its breaker and its token.
THEOREM ConnectorInvariant == ConnectorSpec => []ConnectorInv
<1>1. ConnectorInv /\ [ConnectorNext]_connectorVars => ConnectorInv'
  BY NextSyncsFit, NextTokenInv, NextIInv, ConnectorUsesBreaker DEF ConnectorInv
<1>2. QED
  BY <1>1, InitConnectorInv, PTL DEF ConnectorSpec

\* Syncs that wait for an OAuth2 token together fetch one: one of them holds the
\* mutex, and no token that has not expired is cached meanwhile (token,
\* auth.go:184-199).
THEOREM OneFetchesTheToken ==
  ConnectorSpec => [](/\ NoNeedlessFetch
                      /\ \A c, d \in Syncs :
                           At(c, "fetching") /\ At(d, "fetching") => c = d)
<1>1. ConnectorInv => /\ NoNeedlessFetch
                      /\ \A c, d \in Syncs :
                           At(c, "fetching") /\ At(d, "fetching") => c = d
  BY DEF ConnectorInv, TokenInv
<1>2. QED
  BY <1>1, ConnectorInvariant, PTL

\* A sync ends because it sent everything or as much as it may, was cancelled, was
\* refused, or because attempts failed, its own or those that opened the circuit
\* (Sync, rest/connector.go:141-199).
THEOREM SpecEndIsExplained == ConnectorSpec => EndIsExplained
<1>1. ConnectorInv /\ [ConnectorNext]_connectorVars =>
        [\A c \in Syncs : Ends(c) => Reason(c)]_connectorVars
  BY NextSyncsFit DEF ConnectorInv, EndsWell
<1>2. ConnectorSpec => [][\A c \in Syncs : Ends(c) => Reason(c)]_connectorVars
  BY <1>1, ConnectorInvariant, PTL DEF ConnectorSpec
<1>3. QED
  BY <1>2 DEF EndIsExplained, Reason

\* A sync whose pages are of one size stops less than a page beyond its limit
\* (rest/connector.go:189-192).
THEOREM SpecEvenPagesKeepLimit == ConnectorSpec => EvenPagesKeepLimit
<1>1. ConnectorInv /\ [ConnectorNext]_connectorVars =>
        [\A c \in Syncs :
           (Ends(c) /\ sync[c].limit > 0 /\ Cardinality(sync[c].sizes) = 1) =>
              Sent(sync'[c]) < sync[c].limit + sync[c].size]_connectorVars
  BY NextSyncsFit DEF ConnectorInv, EndsWell, Within
<1>2. QED
  BY <1>1, ConnectorInvariant, PTL DEF ConnectorSpec, EvenPagesKeepLimit

(***************************************************************************)
(* The sliding windows (RateWindow)                                        *)
(*                                                                         *)
(* That a window admits its limit follows from one step: the request that  *)
(* is admitted is the latest so far, so all that were admitted before are  *)
(* older than it, and those in its window are among the members counted.   *)
(* The invariant says so: a request admitted, or about to be, has a member *)
(* of the sorted set for as long as it is inside of the latest window,     *)
(* because the key lives for a window after the last one.                  *)
(***************************************************************************)

Busy == [phase : {"stamped", "pruned", "added", "shared"}, age : 0..MaxDelay, alone : BOOLEAN]

WindowTypeOK ==
  /\ limiter \in {"gateway", "cache"}
  /\ entries \in [Ages -> Nat] /\ regular \in [Ages -> Nat]
  /\ ttl \in Nat /\ newest \in Ages /\ lastSeen \in Ages
  /\ request \in [Clients -> Busy \cup {Idle}]

\* The requests with a member of their own of age a and no answer yet.
Pending(a) == {c \in Clients : request[c].phase = "added" /\ request[c].age = a}
Members(a) == regular[a] + Cardinality(Pending(a))

RegularIsRecorded ==
  \A a \in Ages : a < newest + Window /\ a < Oldest => Capped(Members(a)) <= entries[a]

RegularIsOld == \A a \in Ages : regular[a] > 0 => newest <= a

PipelineIsOld ==
  \A c \in Clients : request[c].phase \in {"pruned", "added", "shared"} => newest <= request[c].age

KeyLives ==
  \A a \in Ages : a < Oldest /\ Members(a) > 0 =>
    (ttl > 0 /\ a + ttl >= Window) \/ a >= newest + Window

WindowInv == /\ WindowTypeOK /\ RegularIsRecorded /\ RegularIsOld /\ PipelineIsOld /\ KeyLives
             /\ AdmittedWithinLimit

\* A request that was alone when it asked, and a window after the latest answer,
\* finds nothing in the window but its own member.
AloneIsAlone ==
  \A c, d \in Clients : request[c].alone /\ c # d => request[d].phase = "idle"

AnsweredIsOld ==
  (\A c \in Clients : request[c].phase \notin {"added", "shared"})
    => \A a \in Ages : entries[a] > 0 => lastSeen <= a

AloneHasWaited ==
  \A c \in Clients : request[c].alone =>
    /\ request[c].phase = "stamped" => lastSeen >= Window + request[c].age
    /\ request[c].phase = "pruned" => \A a \in Ages : entries[a] = 0
    /\ request[c].phase \in {"added", "shared"} =>
         \A a \in Ages : entries[a] <= IF a = request[c].age THEN 1 ELSE 0

PatientInv == AloneIsAlone /\ AnsweredIsOld /\ AloneHasWaited /\ PatientIsAdmitted

(***************************************************************************)
(* Facts about ages, requests and the sorted set                           *)
(***************************************************************************)

LEMMA AgeFacts ==
  /\ Oldest \in Nat /\ Window \in Nat /\ Window >= 1 /\ MaxDelay \in Nat
  /\ Oldest = Window + MaxDelay /\ Limit \in Nat
  /\ \A a : a \in Ages <=> a \in Nat /\ a <= Oldest
  /\ \A a : a \in 0..MaxDelay <=> a \in Nat /\ a <= MaxDelay
  /\ IsFiniteSet(Ages)
<1>1. Oldest \in Nat /\ Window \in Nat /\ Window >= 1 /\ MaxDelay \in Nat /\ Limit \in Nat
  BY WindowAssumption DEF Oldest
<1>2. IsFiniteSet(Ages)
  BY <1>1, FS_Interval DEF Ages
<1>3. QED
  BY <1>1, <1>2 DEF Oldest, Ages

LEMMA AgeCases ==
  \A a \in Ages : a = 0 \/ (0 < a /\ a < Oldest) \/ a = Oldest
  BY AgeFacts

LEMMA WindowOfAges ==
  ASSUME NEW a \in 0..MaxDelay
  PROVE  /\ a .. (a + Window - 1) \subseteq Ages
         /\ IsFiniteSet(a .. (a + Window - 1))
         /\ \A x : x \in a .. (a + Window - 1) <=> x \in Nat /\ a <= x /\ x < a + Window
<1>1. a \in Nat /\ a <= MaxDelay
  BY AgeFacts
<1>2. IsFiniteSet(a .. (a + Window - 1))
  BY <1>1, AgeFacts, FS_Interval
<1>3. \A x : x \in a .. (a + Window - 1) <=> x \in Nat /\ a <= x /\ x < a + Window
  BY <1>1, AgeFacts
<1>4. QED
  BY <1>1, <1>2, <1>3, AgeFacts

LEMMA CappedFacts ==
  /\ \A n \in Nat : Capped(n) \in Nat /\ Capped(n) <= n /\ (Capped(n) <= Limit => Capped(n) = n)
  /\ \A m, n \in Nat : m <= n => Capped(m) <= Capped(n)
  /\ \A m, n \in Nat : Capped(m) <= n => Capped(m + 1) <= Capped(n + 1)
  /\ Capped(0) = 0 /\ Capped(1) = 1
  BY WindowAssumption DEF Capped

LEMMA RequestFacts ==
  ASSUME WindowTypeOK, NEW c \in Clients
  PROVE  /\ request[c].phase \in {"idle", "stamped", "pruned", "added", "shared"}
         /\ request[c].age \in 0..MaxDelay /\ request[c].alone \in BOOLEAN
         /\ request[c].phase = "idle" <=> request[c] = Idle
         /\ request[c] # Idle <=> request[c] \in Busy
<1>1. request[c] \in Busy \/ request[c] = Idle
  BY DEF WindowTypeOK
<1>2. CASE request[c] \in Busy
  BY <1>2 DEF Busy, Idle
<1>3. CASE request[c] = Idle
  BY <1>3, AgeFacts DEF Busy, Idle
<1>4. QED
  BY <1>1, <1>2, <1>3

LEMMA IdleFacts == Idle.phase = "idle" /\ Idle.age = 0 /\ Idle.alone = FALSE
  BY DEF Idle

LEMMA RequestsStay ==
  ASSUME WindowTypeOK, NEW c \in Clients, NEW r \in Busy \cup {Idle},
         request' = [request EXCEPT ![c] = r]
  PROVE  /\ request' \in [Clients -> Busy \cup {Idle}] /\ request'[c] = r
         /\ \A d \in Clients : d # c => request'[d] = request[d]
  BY DEF WindowTypeOK

LEMMA PendingFacts ==
  ASSUME NEW a
  PROVE  IsFiniteSet(Pending(a)) /\ Cardinality(Pending(a)) \in Nat
<1>1. Pending(a) \subseteq Clients
  BY DEF Pending
<1>2. IsFiniteSet(Pending(a))
  BY <1>1, WindowAssumption, FS_Subset
<1>3. QED
  BY <1>2, FS_CardinalityType

LEMMA MembersFacts ==
  ASSUME WindowTypeOK, NEW a \in Ages
  PROVE  /\ Members(a) \in Nat /\ regular[a] \in Nat /\ regular[a] <= Members(a)
         /\ Members(a) = regular[a] + Cardinality(Pending(a))
<1>1. regular[a] \in Nat /\ Cardinality(Pending(a)) \in Nat
  BY PendingFacts DEF WindowTypeOK
<1>2. QED
  BY <1>1 DEF Members

LEMMA PruneFacts ==
  ASSUME WindowTypeOK, NEW s \in 0..MaxDelay
  PROVE  /\ Prune(s) \in [Ages -> Nat]
         /\ \A a \in Ages : Prune(s)[a] = IF a < s + Window THEN entries[a] ELSE 0
         /\ Newest(s) \in Ages /\ Newest(s) <= newest /\ Newest(s) <= s
         /\ s <= newest => Newest(s) = s
<1>1. s \in Nat /\ s <= MaxDelay /\ s \in Ages /\ newest \in Nat /\ newest \in Ages
  BY AgeFacts DEF WindowTypeOK
<1>2. /\ Newest(s) \in Ages /\ Newest(s) <= newest /\ Newest(s) <= s
      /\ s <= newest => Newest(s) = s
  BY <1>1 DEF Newest
<1>3. /\ Prune(s) \in [Ages -> Nat]
      /\ \A a \in Ages : Prune(s)[a] = IF a < s + Window THEN entries[a] ELSE 0
  BY DEF Prune, InWindow, WindowTypeOK
<1>4. QED
  BY <1>2, <1>3

LEMMA AddFacts ==
  ASSUME NEW f \in [Ages -> Nat], NEW s \in Ages, NEW g \in Add(f, s)
  PROVE  /\ g \in [Ages -> Nat]
         /\ \A a \in Ages : a # s => g[a] = f[a]
         /\ g # f => g[s] = Capped(f[s] + 1)
         /\ g = f \/ g = [f EXCEPT ![s] = Capped(f[s] + 1)]
         /\ g = f => f[s] > 0 \/ f[s] = Capped(f[s] + 1)
<1>1. f[s] \in Nat /\ Capped(f[s] + 1) \in Nat
  BY CappedFacts
<1>2. g = [f EXCEPT ![s] = Capped(f[s] + 1)] \/ (g = f /\ f[s] > 0)
  BY DEF Add
<1>3. CASE g = [f EXCEPT ![s] = Capped(f[s] + 1)]
  BY <1>1, <1>3
<1>4. CASE g = f /\ f[s] > 0
  BY <1>4
<1>5. QED
  BY <1>2, <1>3, <1>4

LEMMA ShiftFacts ==
  ASSUME NEW f \in [Ages -> Nat]
  PROVE  /\ Shift(f) \in [Ages -> Nat] /\ Shift(f)[0] = 0
         /\ \A a \in Ages : 0 < a /\ a < Oldest => a - 1 \in Ages /\ Shift(f)[a] = f[a - 1]
         /\ Shift(f)[Oldest] > 0 => f[Oldest - 1] > 0 \/ f[Oldest] > 0
<1>1. \A a \in Ages : a \in Nat /\ a <= Oldest
  BY AgeFacts
<1>2. \A a \in Ages : 0 < a => a - 1 \in Ages
  BY <1>1, AgeFacts
<1>3. 0 \in Ages /\ Oldest \in Ages /\ Oldest - 1 \in Ages /\ Oldest # 0
  BY AgeFacts
<1>4. Capped(f[Oldest - 1] + f[Oldest]) \in Nat
      /\ Capped(f[Oldest - 1] + f[Oldest]) <= f[Oldest - 1] + f[Oldest]
  BY <1>3, CappedFacts
<1>5. \A a \in Ages : Shift(f)[a] =
        IF a = 0 THEN 0 ELSE IF a < Oldest THEN f[a - 1] ELSE Capped(f[Oldest - 1] + f[Oldest])
  BY DEF Shift
<1>6. \A a \in Ages : Shift(f)[a] \in Nat
  BY <1>1, <1>2, <1>4, <1>5
<1>7. Shift(f) \in [Ages -> Nat]
  BY <1>6 DEF Shift
<1>8. QED
  BY <1>2, <1>3, <1>4, <1>5, <1>7

(***************************************************************************)
(* Types                                                                   *)
(***************************************************************************)

LEMMA AnswerTypes ==
  ASSUME WindowTypeOK, NEW c \in Clients, NEW answer, NEW own, Answer(c, answer, own)
  PROVE  /\ request' = [request EXCEPT ![c] = Idle] /\ request'[c] = Idle
         /\ request' \in [Clients -> Busy \cup {Idle}]
         /\ \A d \in Clients : d # c => request'[d] = request[d]
         /\ lastSeen' = 0 /\ lastSeen' \in Ages /\ regular' \in [Ages -> Nat]
         /\ \/ regular' = regular
            \/ /\ own /\ answer = "admitted" /\ request[c].age <= newest
               /\ regular' = [regular EXCEPT ![request[c].age] = @ + 1]
<1>1. lastSeen' = 0 /\ lastSeen' \in Ages /\ request' = [request EXCEPT ![c] = Idle]
  BY AgeFacts DEF Answer
<1>2. \/ regular' = regular
      \/ /\ own /\ answer = "admitted" /\ request[c].age <= newest
         /\ regular' = [regular EXCEPT ![request[c].age] = @ + 1]
  BY DEF Answer
<1>3. request[c].age \in Ages
  BY RequestFacts, AgeFacts
<1>4. regular' \in [Ages -> Nat]
  BY <1>2, <1>3 DEF WindowTypeOK
<1>5. /\ request'[c] = Idle /\ request' \in [Clients -> Busy \cup {Idle}]
      /\ \A d \in Clients : d # c => request'[d] = request[d]
  BY <1>1, RequestsStay
<1>6. QED
  BY <1>1, <1>2, <1>4, <1>5

\* What the script of a request does.
LEMMA ScriptFacts ==
  ASSUME WindowTypeOK, NEW c \in Clients, LimiterScript(c), NEW s, s = request[c].age
  PROVE  /\ request[c].phase = "stamped" /\ newest' = Newest(s) /\ limiter' = limiter
         /\ \/ /\ HasRoom(SumFunction(Prune(s))) /\ ttl' = Window
               /\ entries' \in Add(Prune(s), s)
               /\ Answer(c, "admitted", entries' # Prune(s))
            \/ /\ ~HasRoom(SumFunction(Prune(s))) /\ ttl' = ttl /\ entries' = Prune(s)
               /\ Answer(c, "refused", FALSE)
  BY DEF LimiterScript

LEMMA PipelineRequest ==
  ASSUME WindowTypeOK, NEW c \in Clients, request[c].phase # "idle",
         NEW p \in {"stamped", "pruned", "added", "shared"}, request' = [request EXCEPT ![c].phase = p]
  PROVE  /\ request' \in [Clients -> Busy \cup {Idle}]
         /\ request'[c].phase = p /\ request'[c].age = request[c].age
         /\ request'[c].alone = request[c].alone
         /\ \A d \in Clients : d # c => request'[d] = request[d]
<1>1. request[c] \in Busy
  BY RequestFacts
<1> DEFINE r == [request[c] EXCEPT !.phase = p]
<1>2. r \in Busy /\ r.phase = p /\ r.age = request[c].age /\ r.alone = request[c].alone
  BY <1>1 DEF Busy
<1>3. request' = [request EXCEPT ![c] = r]
  OBVIOUS
<1> HIDE DEF r
<1>4. QED
  BY <1>2, <1>3, RequestsStay

LEMMA AskFacts ==
  ASSUME WindowTypeOK, NEW c \in Clients, Ask(c)
  PROVE  /\ request' \in [Clients -> Busy \cup {Idle}]
         /\ request'[c].phase = "stamped" /\ request'[c].age = 0
         /\ request'[c].alone => lastSeen >= Window /\ \A e \in Clients : request[e].phase = "idle"
         /\ \A d \in Clients : d # c => /\ request'[d].phase = request[d].phase
                                        /\ request'[d].age = request[d].age
                                        /\ request'[d].alone = FALSE
<1> DEFINE lone == lastSeen >= Window /\ \A e \in Clients : request[e] = Idle
           new == [phase |-> "stamped", age |-> 0, alone |-> lone]
           other(d) == [request[d] EXCEPT !.alone = FALSE]
<1>1. request' = [d \in Clients |-> IF d = c THEN new ELSE other(d)]
  BY DEF Ask
<1>2. new \in Busy /\ new.phase = "stamped" /\ new.age = 0 /\ new.alone = lone
  <2>1. lone \in BOOLEAN
    OBVIOUS
  <2> HIDE DEF lone
  <2>2. 0 \in 0..MaxDelay
    BY AgeFacts
  <2>3. QED
    BY <2>1, <2>2 DEF Busy
<1>3. ASSUME NEW d \in Clients
      PROVE  /\ other(d) \in Busy \cup {Idle} /\ other(d).phase = request[d].phase
             /\ other(d).age = request[d].age /\ other(d).alone = FALSE
  <2>1. CASE request[d] \in Busy
    <3>1. other(d).phase = request[d].phase /\ other(d).age = request[d].age
      BY <2>1 DEF Busy
    <3>2. other(d).alone = FALSE
      BY <2>1, Zenon DEF Busy
    <3>3. other(d) \in Busy
      BY <2>1, Zenon DEF Busy
    <3>4. QED
      BY <3>1, <3>2, <3>3
  <2>2. CASE request[d] = Idle
    <3>1. ASSUME NEW q, q = [Idle EXCEPT !.alone = FALSE] PROVE q = Idle
      BY <3>1, Zenon DEF Idle
    <3>2. QED
      BY <2>2, <3>1, IdleFacts
  <2>3. QED
    BY <2>1, <2>2 DEF WindowTypeOK
<1>4. lone => lastSeen >= Window /\ \A e \in Clients : request[e].phase = "idle"
  BY IdleFacts
<1> HIDE DEF lone, new, other
<1>5. request'[c] = new /\ \A d \in Clients : d # c => request'[d] = other(d)
  BY <1>1
<1>6. request' \in [Clients -> Busy \cup {Idle}]
  BY <1>1, <1>2, <1>3
<1>7. QED
  BY <1>2, <1>3, <1>4, <1>5, <1>6

\* A tick makes every stamp one older.
LEMMA TickFacts ==
  ASSUME WindowTypeOK, WindowTick
  PROVE  /\ request' \in [Clients -> Busy \cup {Idle}]
         /\ \A c \in Clients :
              /\ request'[c].phase = request[c].phase /\ request'[c].alone = request[c].alone
              /\ request[c].phase # "idle" =>
                   request'[c].age = request[c].age + 1 /\ request[c].age < MaxDelay
<1> DEFINE older(c) == IF request[c] = Idle THEN Idle ELSE [request[c] EXCEPT !.age = @ + 1]
<1>1. request' = [c \in Clients |-> older(c)]
  BY DEF WindowTick
<1>2. ASSUME NEW c \in Clients
      PROVE  /\ older(c) \in Busy \cup {Idle}
             /\ older(c).phase = request[c].phase /\ older(c).alone = request[c].alone
             /\ request[c].phase # "idle" =>
                  older(c).age = request[c].age + 1 /\ request[c].age < MaxDelay
  <2>1. CASE request[c] = Idle
    BY <2>1, IdleFacts
  <2>2. CASE request[c] # Idle
    <3>1. request[c] \in Busy /\ request[c].age < MaxDelay
      BY <2>2, RequestFacts DEF WindowTick
    <3>2. request[c].age + 1 \in 0..MaxDelay
      BY <3>1, AgeFacts DEF Busy
    <3>3. QED
      BY <2>2, <3>1, <3>2 DEF Busy
  <2>3. QED
    BY <2>1, <2>2
<1> HIDE DEF older
<1>3. QED
  BY <1>1, <1>2

LEMMA ResetFacts ==
  ASSUME WindowTypeOK, Reset
  PROVE  /\ request' \in [Clients -> Busy \cup {Idle}]
         /\ \A c \in Clients :
              /\ request'[c].age = request[c].age /\ request'[c].alone = request[c].alone
              /\ request'[c].phase = IF request[c].phase = "added" THEN "shared" ELSE request[c].phase
<1> DEFINE new(c) == IF request[c].phase = "added" THEN [request[c] EXCEPT !.phase = "shared"]
                     ELSE request[c]
<1>1. request' = [c \in Clients |-> new(c)]
  BY DEF Reset
<1>2. ASSUME NEW c \in Clients
      PROVE  /\ new(c) \in Busy \cup {Idle}
             /\ new(c).age = request[c].age /\ new(c).alone = request[c].alone
             /\ new(c).phase = IF request[c].phase = "added" THEN "shared" ELSE request[c].phase
  <2>1. CASE request[c].phase = "added"
    <3>1. request[c] \in Busy
      BY <2>1, RequestFacts
    <3>2. QED
      BY <2>1, <3>1 DEF Busy
  <2>2. CASE request[c].phase # "added"
    BY <2>2 DEF WindowTypeOK
  <2>3. QED
    BY <2>1, <2>2
<1> HIDE DEF new
<1>3. QED
  BY <1>1, <1>2

(***************************************************************************)
(* At most Limit in every window                                           *)
(***************************************************************************)

\* The request admitted at age s is the latest, and f bounds those in its window.
LEMMA AdmittedIsCounted ==
  ASSUME WindowTypeOK, AdmittedWithinLimit, NEW s \in 0..MaxDelay, NEW f \in [Ages -> Nat],
         \A x \in Ages : regular[x] > 0 => s <= x,
         \A x \in Ages : x < s + Window /\ x # s => regular[x] <= f[x],
         regular[s] + 1 <= f[s], SumFunctionOnSet(f, Ages) <= Limit,
         regular' = [regular EXCEPT ![s] = @ + 1]
  PROVE  AdmittedWithinLimit'
<1>1. /\ s \in Ages /\ regular'[s] = regular[s] + 1 /\ regular' \in [Ages -> Nat]
      /\ \A x \in Ages : x # s => regular'[x] = regular[x]
      /\ \A x \in Ages : x \in Nat /\ regular[x] \in Nat
  BY AgeFacts DEF WindowTypeOK
<1> SUFFICES ASSUME NEW a \in 0..MaxDelay
             PROVE  SumFunctionOnSet(regular', a..(a + Window - 1)) <= Limit
  BY DEF AdmittedWithinLimit
<1> DEFINE D == a..(a + Window - 1)
<1>2. /\ D \subseteq Ages /\ IsFiniteSet(D) /\ a \in Nat /\ s \in Nat /\ Window \in Nat
      /\ \A x : x \in D <=> x \in Nat /\ a <= x /\ x < a + Window
  BY WindowOfAges, AgeFacts
<1> HIDE DEF D
<1>3. CASE s \notin D
  <2>1. \A x \in D : regular'[x] = regular[x]
    BY <1>1, <1>2, <1>3
  <2>2. SumFunctionOnSet(regular', D) = SumFunctionOnSet(regular, D)
    <3>1. PICK v : v = regular'
      OBVIOUS
    <3>2. PICK w : w = regular
      OBVIOUS
    <3>3. IsFiniteSet(D) /\ \A x \in D : v[x] = w[x]
      BY <1>2, <2>1, <3>1, <3>2
    <3>4. SumFunctionOnSet(v, D) = SumFunctionOnSet(w, D)
      BY <3>3, SumOfEqual
    <3>5. QED
      BY <3>1, <3>2, <3>4
  <2>3. SumFunctionOnSet(regular, D) <= Limit
    BY DEF AdmittedWithinLimit, D
  <2>4. QED
    BY <2>2, <2>3 DEF D
<1>4. CASE s \in D
  <2>1. ASSUME NEW x \in D PROVE regular'[x] <= f[x]
    <3>1. x \in Ages /\ x \in Nat /\ x < s + Window /\ f[x] \in Nat /\ regular[x] \in Nat
      BY <1>1, <1>2, <1>4
    <3>2. CASE x = s
      BY <1>1, <3>2
    <3>3. CASE x # s
      BY <1>1, <3>1, <3>3
    <3>4. QED
      BY <3>2, <3>3
  <2>2. \A x \in D : regular'[x] \in Int /\ f[x] \in Int /\ regular'[x] <= f[x]
    BY <1>1, <1>2, <2>1
  <2>3. SumFunctionOnSet(regular', D) <= SumFunctionOnSet(f, D)
    BY <1>2, <2>2, SumMonotone
  <2>4. SumFunctionOnSet(f, D) <= SumFunctionOnSet(f, Ages)
    BY <1>2, AgeFacts, SumOfPart
  <2>5. /\ SumFunctionOnSet(regular', D) \in Int /\ SumFunctionOnSet(f, D) \in Int
    BY <1>2, <2>2, SumIsInt
  <2>6. SumFunctionOnSet(f, Ages) \in Int
    BY AgeFacts, SumIsInt
  <2>7. QED
    BY <2>3, <2>4, <2>5, <2>6, AgeFacts DEF D
<1>5. QED
  BY <1>3, <1>4

\* A step that admits no regular request and takes no member out of the window.
LEMMA NoneAdmitted ==
  ASSUME WindowInv, WindowTypeOK', regular' = regular, newest' <= newest,
         ttl' = ttl \/ ttl' >= Window,
         \A a \in Ages : a < newest' + Window => entries'[a] >= entries[a],
         \A a \in Ages : Pending(a)' \subseteq Pending(a),
         PipelineIsOld'
  PROVE  WindowInv'
<1>1. /\ newest \in Nat /\ newest' \in Nat /\ ttl \in Nat /\ ttl' \in Nat /\ Window \in Nat
      /\ \A a \in Ages : /\ a \in Nat /\ entries[a] \in Nat /\ entries'[a] \in Nat
                         /\ regular[a] \in Nat
  BY AgeFacts DEF WindowInv, WindowTypeOK
<1>2. ASSUME NEW a \in Ages PROVE Members(a)' \in Nat /\ Members(a) \in Nat /\ Members(a)' <= Members(a)
  <2>1. Cardinality(Pending(a)') <= Cardinality(Pending(a)) /\ Cardinality(Pending(a)') \in Nat
    <3>1. IsFiniteSet(Pending(a)) /\ Pending(a)' \subseteq Pending(a)
      BY PendingFacts
    <3>2. QED
      BY <3>1, FS_Subset, FS_CardinalityType
  <2>2. Cardinality(Pending(a)) \in Nat
    BY PendingFacts
  <2>3. QED
    BY <1>1, <2>1, <2>2 DEF Members
<1>3. RegularIsRecorded'
  <2> SUFFICES ASSUME NEW a \in Ages, a < newest' + Window, a < Oldest
               PROVE  Capped(Members(a)') <= entries'[a]
    BY DEF RegularIsRecorded
  <2>1. Capped(Members(a)) <= entries[a]
    BY <1>1 DEF WindowInv, RegularIsRecorded
  <2>2. /\ Capped(Members(a)') <= Capped(Members(a))
        /\ Capped(Members(a)') \in Nat /\ Capped(Members(a)) \in Nat
    BY <1>2, CappedFacts
  <2>3. QED
    BY <1>1, <2>1, <2>2
<1>4. RegularIsOld'
  BY <1>1 DEF WindowInv, RegularIsOld
<1>5. KeyLives'
  <2> SUFFICES ASSUME NEW a \in Ages, a < Oldest, Members(a)' > 0
               PROVE  (ttl' > 0 /\ a + ttl' >= Window) \/ a >= newest' + Window
    BY DEF KeyLives
  <2>1. Members(a) > 0
    BY <1>2
  <2>2. (ttl > 0 /\ a + ttl >= Window) \/ a >= newest + Window
    BY <2>1 DEF WindowInv, KeyLives
  <2>3. CASE ttl' = ttl
    BY <1>1, <2>2, <2>3
  <2>4. CASE ttl' >= Window
    BY <1>1, <2>4, AgeFacts
  <2>5. QED
    BY <2>3, <2>4
<1>6. AdmittedWithinLimit'
  BY DEF WindowInv, AdmittedWithinLimit
<1>7. QED
  BY <1>3, <1>4, <1>5, <1>6 DEF WindowInv

LEMMA AskInv ==
  ASSUME WindowInv, NEW c \in Clients, Ask(c)
  PROVE  WindowInv'
<1>1. WindowTypeOK /\ UNCHANGED <<limiter, entries, ttl, newest, lastSeen, regular>>
  BY DEF WindowInv, Ask
<1>2. WindowTypeOK'
  BY <1>1, AskFacts DEF WindowTypeOK
<1>3. \A d \in Clients : request'[d].phase \in {"pruned", "added", "shared"} =>
        request'[d].phase = request[d].phase /\ request'[d].age = request[d].age
  BY <1>1, AskFacts
<1>4. PipelineIsOld'
  BY <1>1, <1>3 DEF WindowInv, PipelineIsOld
<1>5. \A a \in Ages : Pending(a)' \subseteq Pending(a)
  BY <1>3 DEF Pending
<1>6. \A a \in Ages : entries[a] \in Nat
  BY <1>1 DEF WindowTypeOK
<1>7. newest \in Nat
  BY <1>1, AgeFacts DEF WindowTypeOK
<1>8. QED
  BY <1>1, <1>2, <1>4, <1>5, <1>6, <1>7, NoneAdmitted

\* The answer to a request that is not a regular one.
LEMMA AnswerInv ==
  ASSUME WindowInv, NEW c \in Clients, NEW answer, NEW own, Answer(c, answer, own),
         regular' = regular, limiter' \in {"gateway", "cache"}, entries' \in [Ages -> Nat], ttl' \in Nat,
         newest' \in Ages, newest' <= newest, ttl' = ttl \/ ttl' >= Window,
         \A a \in Ages : a < newest' + Window => entries'[a] >= entries[a]
  PROVE  WindowInv'
<1>1. /\ WindowTypeOK /\ PipelineIsOld
      /\ request'[c] = Idle /\ request' \in [Clients -> Busy \cup {Idle}]
      /\ \A d \in Clients : d # c => request'[d] = request[d]
      /\ lastSeen' \in Ages /\ regular' \in [Ages -> Nat]
  BY AnswerTypes DEF WindowInv
<1>2. WindowTypeOK'
  BY <1>1 DEF WindowTypeOK
<1>3. newest \in Nat /\ newest' \in Nat /\ \A d \in Clients : request[d].age \in Nat
  BY <1>1, RequestFacts, AgeFacts DEF WindowTypeOK
<1>4. PipelineIsOld'
  BY <1>1, <1>3, IdleFacts DEF PipelineIsOld
<1>5. \A a \in Ages : Pending(a)' \subseteq Pending(a)
  BY <1>1, IdleFacts DEF Pending
<1>6. QED
  BY <1>2, <1>4, <1>5, NoneAdmitted

LEMMA FailOpenInv ==
  ASSUME WindowInv, NEW c \in Clients, FailOpen(c)
  PROVE  WindowInv'
<1>1. WindowTypeOK /\ Answer(c, "open", FALSE) /\ UNCHANGED <<limiter, entries, ttl, newest>>
  BY DEF WindowInv, FailOpen
<1>2. regular' = regular
  BY <1>1, AnswerTypes
<1>3. newest \in Nat /\ \A a \in Ages : entries[a] \in Nat
  BY <1>1, AgeFacts DEF WindowTypeOK
<1>4. /\ limiter' \in {"gateway", "cache"} /\ entries' \in [Ages -> Nat] /\ ttl' \in Nat
      /\ newest' \in Ages /\ newest' <= newest /\ ttl' = ttl
      /\ \A a \in Ages : a < newest' + Window => entries'[a] >= entries[a]
  BY <1>1, <1>3 DEF WindowTypeOK
<1>5. QED
  BY <1>1, <1>2, <1>4, AnswerInv

LEMMA StillBelow ==
  /\ \A a, m, n, w \in Nat : a < m + w /\ m <= n => a < n + w
  /\ \A a, m, w \in Nat : a < m + w => ~(a >= m + w)
  OBVIOUS

LEMMA OneOlder ==
  /\ \A a, m, n, w \in Nat : a - 1 >= m + w /\ n <= m + 1 => a >= n + w
  /\ \A a, m, w \in Nat : 0 < a /\ a < (m + 1) + w => a - 1 < m + w
  OBVIOUS

\* A sum of the sorted set bounds each of its counts.
LEMMA CountIsBounded ==
  ASSUME NEW f \in [Ages -> Nat]
  PROVE  SumFunction(f) = SumFunctionOnSet(f, Ages) /\ SumFunction(f) \in Nat
         /\ \A a \in Ages : f[a] <= SumFunction(f)
<1>1. SumFunction(f) = SumFunctionOnSet(f, Ages)
  BY DEF SumFunction
<1>2. QED
  BY <1>1, AgeFacts, SumOfNats

LEMMA LimiterScriptInv ==
  ASSUME WindowInv, NEW c \in Clients, LimiterScript(c)
  PROVE  WindowInv'
<1>1. WindowTypeOK
  BY DEF WindowInv
<1>2. PICK s \in 0..MaxDelay : s = request[c].age
  BY <1>1, RequestFacts
<1>3. PICK kept \in [Ages -> Nat] : kept = Prune(s)
  BY <1>1, PruneFacts
<1>4. /\ newest' = Newest(s) /\ newest' \in Ages /\ newest' <= newest /\ newest' <= s
      /\ s <= newest => newest' = s
      /\ limiter' = limiter /\ limiter' \in {"gateway", "cache"}
  <2>1. newest' = Newest(s) /\ limiter' = limiter
    BY <1>1, <1>2, ScriptFacts
  <2>2. /\ Newest(s) \in Ages /\ Newest(s) <= newest /\ Newest(s) <= s
        /\ s <= newest => Newest(s) = s
    BY <1>1, PruneFacts
  <2>3. limiter \in {"gateway", "cache"}
    BY <1>1 DEF WindowTypeOK
  <2>4. QED
    BY <2>1, <2>2, <2>3
<1>5. /\ \A a \in Ages : /\ a \in Nat /\ entries[a] \in Nat /\ kept[a] \in Nat
                         /\ a < s + Window => kept[a] = entries[a]
      /\ s \in Ages /\ s \in Nat /\ s < Oldest /\ newest \in Nat /\ newest' \in Nat /\ Window \in Nat
      /\ Oldest \in Nat /\ s + Window <= Oldest
  <2>1. Oldest \in Nat /\ Window \in Nat /\ s \in Nat /\ s < Oldest /\ s + Window <= Oldest
    BY AgeFacts
  <2>2. s \in Ages /\ \A a \in Ages : a \in Nat
    BY <2>1, AgeFacts
  <2>3. newest \in Nat /\ newest' \in Nat
    BY <1>1, <1>4, <2>2 DEF WindowTypeOK
  <2>4. \A a \in Ages : entries[a] \in Nat /\ kept[a] \in Nat
    BY <1>1 DEF WindowTypeOK
  <2>5. \A a \in Ages : a < s + Window => kept[a] = entries[a]
    BY <1>1, <1>3, PruneFacts
  <2>6. QED
    BY <2>1, <2>2, <2>3, <2>4, <2>5
<1>6. ASSUME ~HasRoom(SumFunction(kept)), ttl' = ttl, entries' = kept, Answer(c, "refused", FALSE)
      PROVE  WindowInv'
  <2>1. regular' = regular
    BY <1>1, <1>6, AnswerTypes
  <2>2. \A a \in Ages : a < newest' + Window => entries'[a] >= entries[a]
    BY <1>4, <1>5, <1>6
  <2>3. entries' \in [Ages -> Nat] /\ ttl' \in Nat
    BY <1>1, <1>6 DEF WindowTypeOK
  <2>4. QED
    BY <1>4, <1>6, <2>1, <2>2, <2>3, AnswerInv
<1>7. ASSUME HasRoom(SumFunction(kept)), ttl' = Window, entries' \in Add(kept, s),
             Answer(c, "admitted", entries' # kept)
      PROVE  WindowInv'
  <2>1. /\ entries' \in [Ages -> Nat]
        /\ \A a \in Ages : a # s => entries'[a] = kept[a]
        /\ entries' # kept => entries'[s] = Capped(kept[s] + 1)
    BY <1>5, <1>7, AddFacts
  <2>2. SumFunction(kept) \in Nat /\ SumFunction(kept) < Limit /\ Limit \in Nat
        /\ \A a \in Ages : kept[a] < Limit
    BY <1>7, CountIsBounded, AgeFacts DEF HasRoom
  <2>3. entries' # kept => entries'[s] = kept[s] + 1
    <3>1. kept[s] + 1 <= Limit + 1 /\ kept[s] \in Nat
      BY <1>5, <2>2
    <3>2. Capped(kept[s] + 1) = kept[s] + 1
      BY <2>2, <3>1 DEF Capped
    <3>3. QED
      BY <2>1, <3>2
  <2>4. \A a \in Ages : entries'[a] >= kept[a]
    BY <1>5, <2>1, <2>3
  <2>5. \A a \in Ages : a < newest' + Window => entries'[a] >= entries[a]
    BY <1>4, <1>5, <2>1, <2>4
  <2>6. CASE regular' = regular
    <3>1. ttl' \in Nat /\ ttl' >= Window
      BY <1>5, <1>7
    <3>2. QED
      BY <1>4, <1>7, <2>1, <2>5, <2>6, <3>1, AnswerInv
  <2>7. CASE entries' # kept /\ s <= newest /\ regular' = [regular EXCEPT ![s] = @ + 1]
    <3>1. newest' = s /\ entries'[s] = kept[s] + 1
      BY <1>4, <2>3, <2>7
    <3>2. /\ request'[c] = Idle /\ request' \in [Clients -> Busy \cup {Idle}]
          /\ \A d \in Clients : d # c => request'[d] = request[d]
          /\ lastSeen' \in Ages /\ regular' \in [Ages -> Nat]
      BY <1>1, <1>7, AnswerTypes
    <3>3. WindowTypeOK'
      BY <1>4, <1>5, <1>7, <2>1, <3>2 DEF WindowTypeOK
    <3>4. request[c].phase = "stamped" /\ Idle.phase = "idle"
      BY <1>1, <1>2, ScriptFacts, IdleFacts
    <3>5. \A a : Pending(a)' = Pending(a)
      BY <3>2, <3>4 DEF Pending
    <3>6. PipelineIsOld'
      <4>1. \A d \in Clients : request[d].age \in Nat
        BY <1>1, RequestFacts, AgeFacts
      <4>2. QED
        BY <1>4, <1>5, <3>2, <3>4, <4>1 DEF WindowInv, PipelineIsOld
    <3>7. \A a \in Ages : a # s => Members(a)' = Members(a)
      BY <1>1, <2>7, <3>5 DEF Members, WindowTypeOK
    <3>8. Members(s)' = Members(s) + 1 /\ regular'[s] = regular[s] + 1 /\ regular[s] \in Nat
      <4>1. regular[s] \in Nat /\ regular'[s] = regular[s] + 1
        BY <1>1, <1>5, <2>7 DEF WindowTypeOK
      <4>2. Cardinality(Pending(s)) \in Nat /\ Pending(s)' = Pending(s)
        BY <3>5, PendingFacts
      <4>3. QED
        BY <4>1, <4>2 DEF Members
    <3>9. ASSUME NEW a \in Ages, a < s + Window
          PROVE  Members(a) \in Nat /\ Members(a) <= kept[a] /\ regular[a] <= kept[a]
      <4>1. a < newest + Window /\ a < Oldest
        BY <1>5, <2>7, <3>9
      <4>2. Capped(Members(a)) <= kept[a]
        BY <1>5, <3>9, <4>1 DEF WindowInv, RegularIsRecorded
      <4>3. Members(a) \in Nat /\ regular[a] \in Nat /\ regular[a] <= Members(a)
        BY <1>1, MembersFacts
      <4>4. Capped(Members(a)) <= Limit /\ kept[a] \in Nat /\ Capped(Members(a)) \in Nat
        BY <1>5, <2>2, <4>2, <4>3, CappedFacts
      <4>5. Capped(Members(a)) = Members(a)
        BY <4>3, <4>4, CappedFacts
      <4>6. QED
        BY <4>2, <4>3, <4>4, <4>5
    <3>10. RegularIsRecorded'
      <4> SUFFICES ASSUME NEW a \in Ages, a < s + Window, a < Oldest
                   PROVE  Capped(Members(a)') <= entries'[a]
        BY <3>1 DEF RegularIsRecorded
      <4>1. Members(a)' \in Nat /\ Members(a)' <= entries'[a] /\ entries'[a] \in Nat
        BY <1>5, <2>1, <3>1, <3>7, <3>8, <3>9
      <4>2. Capped(Members(a)') \in Nat /\ Capped(Members(a)') <= Members(a)'
        BY <4>1, CappedFacts
      <4>3. QED
        BY <4>1, <4>2
    <3>11. RegularIsOld'
      <4>1. \A a \in Ages : a # s => regular'[a] = regular[a]
        BY <1>1, <2>7 DEF WindowTypeOK
      <4>2. QED
        BY <1>5, <2>7, <3>1, <4>1 DEF WindowInv, RegularIsOld
    <3>12. KeyLives'
      <4>1. \A a \in Ages : ttl' > 0 /\ a + ttl' >= Window
        BY <1>5, <1>7, AgeFacts
      <4>2. QED
        BY <4>1 DEF KeyLives
    <3>13. AdmittedWithinLimit'
      <4> DEFINE g == [kept EXCEPT ![s] = kept[s] + 1]
      <4>1. g \in [Ages -> Nat] /\ g[s] = kept[s] + 1 /\ \A x \in Ages : x # s => g[x] = kept[x]
        BY <1>5
      <4> HIDE DEF g
      <4>2. SumFunctionOnSet(g, Ages) = SumFunctionOnSet(kept, Ages) + g[s] - kept[s]
        <5>1. \A y \in Ages : g[y] \in Int /\ kept[y] \in Int /\ (y # s => g[y] = kept[y])
          BY <1>5, <4>1
        <5>2. QED
          BY <1>5, <5>1, AgeFacts, SumOfChanged
      <4>3. SumFunctionOnSet(g, Ages) <= Limit
        <5>1. SumFunctionOnSet(kept, Ages) = SumFunction(kept)
          BY CountIsBounded
        <5>2. QED
          BY <1>5, <2>2, <4>1, <4>2, <5>1
      <4>4. \A x \in Ages : regular[x] > 0 => s <= x
        BY <1>5, <2>7 DEF WindowInv, WindowTypeOK, RegularIsOld
      <4>5. \A x \in Ages : x < s + Window /\ x # s => regular[x] <= g[x]
        BY <3>9, <4>1
      <4>6. regular[s] + 1 <= g[s]
        <5>1. s < s + Window
          BY <1>5, AgeFacts
        <5>2. regular[s] <= kept[s]
          BY <1>5, <3>9, <5>1
        <5>3. QED
          BY <1>5, <3>8, <4>1, <5>2
      <4>7. QED
        BY <1>1, <2>7, <4>1, <4>3, <4>4, <4>5, <4>6, AdmittedIsCounted DEF WindowInv
    <3>14. QED
      BY <3>3, <3>6, <3>10, <3>11, <3>12, <3>13 DEF WindowInv
  <2>8. regular' = regular \/ (entries' # kept /\ s <= newest /\ regular' = [regular EXCEPT ![s] = @ + 1])
    BY <1>1, <1>2, <1>7, AnswerTypes
  <2>9. QED
    BY <2>6, <2>7, <2>8
<1>8. QED
  BY <1>1, <1>2, <1>3, <1>6, <1>7, ScriptFacts

LEMMA PipelinePruneInv ==
  ASSUME WindowInv, NEW c \in Clients, PipelinePrune(c)
  PROVE  WindowInv'
<1>1. WindowTypeOK
  BY DEF WindowInv
<1>2. PICK s \in 0..MaxDelay : s = request[c].age
  BY <1>1, RequestFacts
<1>3. /\ request[c].phase = "stamped" /\ request' = [request EXCEPT ![c].phase = "pruned"]
      /\ entries' = Prune(s) /\ newest' = Newest(s)
      /\ UNCHANGED <<limiter, ttl, lastSeen, regular, outcome>>
  BY <1>2 DEF PipelinePrune
<1>4. /\ request' \in [Clients -> Busy \cup {Idle}]
      /\ request'[c].phase = "pruned" /\ request'[c].age = s
      /\ \A d \in Clients : d # c => request'[d] = request[d]
  BY <1>1, <1>2, <1>3, PipelineRequest
<1>5. /\ newest' \in Ages /\ newest' <= newest /\ newest' <= s
      /\ newest \in Nat /\ newest' \in Nat /\ s \in Nat
      /\ entries' \in [Ages -> Nat] /\ \A d \in Clients : request[d].age \in Nat
  BY <1>1, <1>3, PruneFacts, RequestFacts, AgeFacts DEF WindowTypeOK
<1>6. WindowTypeOK'
  BY <1>1, <1>3, <1>4, <1>5 DEF WindowTypeOK
<1>7. PipelineIsOld'
  BY <1>4, <1>5 DEF WindowInv, PipelineIsOld
<1>8. \A a \in Ages : Pending(a)' \subseteq Pending(a)
  BY <1>4 DEF Pending
<1>9. \A a \in Ages : a < newest' + Window => entries'[a] >= entries[a]
  <2>1. \A a \in Ages : entries'[a] = (IF a < s + Window THEN entries[a] ELSE 0) /\ entries[a] \in Nat /\ a \in Nat
    BY <1>1, <1>3, PruneFacts, AgeFacts DEF WindowTypeOK
  <2>2. ASSUME NEW a \in Ages, a < newest' + Window PROVE a < s + Window
    <3>1. a \in Nat /\ Window \in Nat /\ newest' \in Nat /\ s \in Nat /\ newest' <= s
      BY <1>5, AgeFacts
    <3>2. QED
      BY <2>2, <3>1, StillBelow
  <2>3. QED
    BY <2>1, <2>2
<1>10. QED
  BY <1>3, <1>5, <1>6, <1>7, <1>8, <1>9, NoneAdmitted

LEMMA PipelineAddInv ==
  ASSUME WindowInv, NEW c \in Clients, PipelineAdd(c)
  PROVE  WindowInv'
<1>1. WindowTypeOK
  BY DEF WindowInv
<1>2. PICK s \in 0..MaxDelay : s = request[c].age
  BY <1>1, RequestFacts
<1>3. PICK p \in {"shared", "added"} :
        /\ p = "added" <=> entries' # entries
        /\ request' = [request EXCEPT ![c].phase = p]
  BY DEF PipelineAdd
<1>4. /\ request[c].phase = "pruned" /\ entries' \in Add(entries, s) /\ ttl' = Window + 1
      /\ UNCHANGED <<limiter, newest, lastSeen, regular, outcome>>
  BY <1>2 DEF PipelineAdd
<1>5. /\ request' \in [Clients -> Busy \cup {Idle}]
      /\ request'[c].phase = p /\ request'[c].age = s
      /\ \A d \in Clients : d # c => request'[d] = request[d]
  BY <1>1, <1>2, <1>3, <1>4, PipelineRequest
<1>6. /\ s \in Ages /\ entries \in [Ages -> Nat] /\ newest \in Nat /\ Window \in Nat
      /\ \A a \in Ages : a \in Nat /\ entries[a] \in Nat
  BY <1>1, AgeFacts DEF WindowTypeOK
<1>7. /\ entries' \in [Ages -> Nat]
      /\ \A a \in Ages : a # s => entries'[a] = entries[a]
      /\ entries' # entries => entries'[s] = Capped(entries[s] + 1)
  BY <1>4, <1>6, AddFacts
<1>8. WindowTypeOK'
  BY <1>1, <1>4, <1>5, <1>6, <1>7 DEF WindowTypeOK
<1>9. PipelineIsOld'
  BY <1>2, <1>4, <1>5 DEF WindowInv, PipelineIsOld
<1>10. CASE p = "shared"
  <2>1. entries' = entries
    BY <1>3, <1>10
  <2>2. \A a \in Ages : Pending(a)' \subseteq Pending(a)
    BY <1>5, <1>10 DEF Pending
  <2>3. ttl' >= Window /\ newest' <= newest
        /\ \A a \in Ages : a < newest' + Window => entries'[a] >= entries[a]
    BY <1>4, <1>6, <2>1
  <2>4. QED
    BY <1>4, <1>8, <1>9, <2>2, <2>3, NoneAdmitted
<1>11. CASE p = "added"
  <2>1. Pending(s)' = Pending(s) \cup {c} /\ c \notin Pending(s)
        /\ \A a : a # s => Pending(a)' = Pending(a)
    BY <1>2, <1>4, <1>5, <1>11 DEF Pending
  <2>2. Cardinality(Pending(s)') = Cardinality(Pending(s)) + 1
    BY <2>1, PendingFacts, FS_AddElement
  <2>3. Members(s)' = Members(s) + 1 /\ Members(s) \in Nat
    <3>1. regular[s] \in Nat /\ Cardinality(Pending(s)) \in Nat /\ regular' = regular
      BY <1>1, <1>4, <1>6, PendingFacts DEF WindowTypeOK
    <3>2. QED
      BY <2>2, <3>1 DEF Members
  <2>4. \A a \in Ages : a # s => Members(a)' = Members(a)
    BY <1>4, <2>1 DEF Members
  <2>5. RegularIsRecorded'
    <3> SUFFICES ASSUME NEW a \in Ages, a < newest + Window, a < Oldest
                 PROVE  Capped(Members(a)') <= entries'[a]
      BY <1>4 DEF RegularIsRecorded
    <3>1. Capped(Members(a)) <= entries[a]
      BY DEF WindowInv, RegularIsRecorded
    <3>2. CASE a = s
      BY <1>3, <1>6, <1>7, <1>11, <2>3, <3>1, <3>2, CappedFacts
    <3>3. CASE a # s
      BY <1>7, <2>4, <3>1, <3>3
    <3>4. QED
      BY <3>2, <3>3
  <2>6. RegularIsOld'
    BY <1>4 DEF WindowInv, RegularIsOld
  <2>7. KeyLives'
    <3>1. \A a \in Ages : ttl' > 0 /\ a + ttl' >= Window
      BY <1>4, <1>6
    <3>2. QED
      BY <3>1 DEF KeyLives
  <2>8. AdmittedWithinLimit'
    BY <1>4 DEF WindowInv, AdmittedWithinLimit
  <2>9. QED
    BY <1>8, <1>9, <2>5, <2>6, <2>7, <2>8 DEF WindowInv
<1>12. QED
  BY <1>10, <1>11

LEMMA PipelineCountInv ==
  ASSUME WindowInv, NEW c \in Clients, PipelineCount(c)
  PROVE  WindowInv'
<1>1. WindowTypeOK
  BY DEF WindowInv
<1>2. PICK s \in 0..MaxDelay : s = request[c].age
  BY <1>1, RequestFacts
<1> DEFINE answer == IF SumFunction(entries) <= Limit THEN "admitted" ELSE "refused"
           own == request[c].phase = "added"
<1>3. /\ request[c].phase \in {"added", "shared"} /\ Answer(c, answer, own)
      /\ UNCHANGED <<limiter, entries, ttl, newest>>
  BY DEF PipelineCount
<1>4. answer = "admitted" => SumFunction(entries) <= Limit
  OBVIOUS
<1> HIDE DEF answer
<1>5. /\ request'[c] = Idle /\ request' \in [Clients -> Busy \cup {Idle}]
      /\ \A d \in Clients : d # c => request'[d] = request[d]
      /\ lastSeen' \in Ages /\ regular' \in [Ages -> Nat]
      /\ \/ regular' = regular
         \/ own /\ answer = "admitted" /\ s <= newest /\ regular' = [regular EXCEPT ![s] = @ + 1]
  BY <1>1, <1>2, <1>3, AnswerTypes
<1>6. /\ s \in Ages /\ s \in Nat /\ entries \in [Ages -> Nat] /\ newest \in Nat /\ Window \in Nat
      /\ \A a \in Ages : a \in Nat /\ entries[a] \in Nat
      /\ Limit \in Nat /\ newest \in Ages /\ Window >= 1 /\ s + Window <= Oldest /\ Oldest \in Nat
  BY <1>1, AgeFacts DEF WindowTypeOK
<1>7. CASE regular' = regular
  <2>1. /\ limiter' \in {"gateway", "cache"} /\ entries' \in [Ages -> Nat] /\ ttl' \in Nat
        /\ newest' \in Ages /\ newest' <= newest /\ ttl' = ttl
        /\ \A a \in Ages : a < newest' + Window => entries'[a] >= entries[a]
    BY <1>1, <1>3, <1>6 DEF WindowTypeOK
  <2>2. QED
    BY <1>3, <1>7, <2>1, AnswerInv
<1>8. CASE own /\ answer = "admitted" /\ s <= newest /\ regular' = [regular EXCEPT ![s] = @ + 1]
  <2>1. newest = s
    BY <1>2, <1>3, <1>6, <1>8 DEF WindowInv, PipelineIsOld
  <2>2. WindowTypeOK'
    BY <1>1, <1>3, <1>5, <1>6 DEF WindowTypeOK
  <2>3. PipelineIsOld'
    BY <1>3, <1>5, IdleFacts DEF WindowInv, PipelineIsOld
  <2>4. /\ Pending(s)' = Pending(s) \ {c} /\ c \in Pending(s)
        /\ \A a : a # s => Pending(a)' = Pending(a)
    BY <1>2, <1>5, <1>8, IdleFacts DEF Pending
  <2>5. /\ Cardinality(Pending(s)') = Cardinality(Pending(s)) - 1
        /\ Cardinality(Pending(s)) \in Nat /\ Cardinality(Pending(s)) # 0
    <3>1. IsFiniteSet(Pending(s)) /\ Cardinality(Pending(s)) \in Nat
      BY PendingFacts
    <3>2. QED
      BY <2>4, <3>1, FS_RemoveElement, FS_EmptySet
  <2>6. regular[s] \in Nat /\ regular'[s] = regular[s] + 1
        /\ \A a \in Ages : a # s => regular'[a] = regular[a]
    BY <1>1, <1>6, <1>8 DEF WindowTypeOK
  <2>7. Members(s)' = Members(s) /\ regular[s] + 1 <= Members(s)
    BY <2>5, <2>6 DEF Members
  <2>8. \A a \in Ages : Members(a)' = Members(a)
    BY <2>4, <2>6, <2>7 DEF Members
  <2>9. RegularIsRecorded' /\ KeyLives'
    BY <1>3, <2>8 DEF WindowInv, RegularIsRecorded, KeyLives
  <2>10. RegularIsOld'
    BY <1>3, <1>6, <2>1, <2>6 DEF WindowInv, RegularIsOld
  <2>11. SumFunctionOnSet(entries, Ages) <= Limit /\ \A a \in Ages : entries[a] <= Limit
    <3>1. /\ SumFunction(entries) = SumFunctionOnSet(entries, Ages) /\ SumFunction(entries) \in Nat
          /\ \A a \in Ages : entries[a] <= SumFunction(entries)
      BY <1>6, CountIsBounded
    <3>2. QED
      BY <1>4, <1>6, <1>8, <3>1
  <2>12. ASSUME NEW a \in Ages, a < s + Window
         PROVE  Members(a) <= entries[a] /\ regular[a] <= entries[a]
    <3>1. a < newest + Window /\ a < Oldest
      BY <1>6, <2>1, <2>12
    <3>2. Capped(Members(a)) <= entries[a]
      BY <3>1 DEF WindowInv, RegularIsRecorded
    <3>3. Members(a) \in Nat /\ regular[a] \in Nat /\ regular[a] <= Members(a)
      BY <1>1, MembersFacts
    <3>4. Capped(Members(a)) <= Limit /\ Capped(Members(a)) \in Nat
      BY <1>6, <2>11, <3>2, <3>3, CappedFacts
    <3>5. Capped(Members(a)) = Members(a)
      BY <3>3, <3>4, CappedFacts
    <3>6. QED
      BY <1>6, <3>2, <3>3, <3>5
  <2>13. AdmittedWithinLimit'
    <3>1. \A x \in Ages : regular[x] > 0 => s <= x
      BY <2>1 DEF WindowInv, RegularIsOld
    <3>2. \A x \in Ages : x < s + Window /\ x # s => regular[x] <= entries[x]
      BY <2>12
    <3>3. regular[s] + 1 <= entries[s]
      <4>1. s < s + Window
        BY <1>6
      <4>2. Members(s) <= entries[s] /\ Members(s) \in Nat
        BY <1>1, <1>6, <2>12, <4>1, MembersFacts
      <4>3. QED
        BY <1>6, <2>6, <2>7, <4>2
    <3>4. QED
      BY <1>1, <1>6, <1>8, <2>11, <3>1, <3>2, <3>3, AdmittedIsCounted DEF WindowInv
  <2>14. QED
    BY <2>2, <2>3, <2>9, <2>10, <2>13 DEF WindowInv
<1>9. QED
  BY <1>5, <1>7, <1>8

LEMMA ResetInv ==
  ASSUME WindowInv, Reset
  PROVE  WindowInv'
<1>1. /\ WindowTypeOK /\ limiter' = limiter /\ newest' = newest /\ lastSeen' = lastSeen
      /\ entries' = Empty /\ regular' = Empty /\ ttl' = 0
  BY DEF WindowInv, Reset
<1>2. /\ request' \in [Clients -> Busy \cup {Idle}]
      /\ \A c \in Clients :
           /\ request'[c].age = request[c].age
           /\ request'[c].phase = IF request[c].phase = "added" THEN "shared" ELSE request[c].phase
  BY <1>1, ResetFacts
<1>3. Empty \in [Ages -> Nat] /\ \A a \in Ages : Empty[a] = 0
  BY DEF Empty
<1>4. WindowTypeOK'
  BY <1>1, <1>2, <1>3 DEF WindowTypeOK
<1>5. PipelineIsOld'
  BY <1>1, <1>2 DEF WindowInv, PipelineIsOld
<1>6. ASSUME NEW a \in Ages PROVE Members(a)' = 0
  <2>1. Pending(a)' = {}
    BY <1>2 DEF Pending
  <2>2. Cardinality(Pending(a)') = 0
    BY <2>1, FS_EmptySet
  <2>3. QED
    BY <1>1, <1>3, <2>2 DEF Members
<1>7. RegularIsRecorded' /\ KeyLives'
  BY <1>1, <1>3, <1>6, CappedFacts DEF RegularIsRecorded, KeyLives
<1>8. RegularIsOld'
  BY <1>1, <1>3 DEF RegularIsOld
<1>9. AdmittedWithinLimit'
  <2> SUFFICES ASSUME NEW a \in 0..MaxDelay
               PROVE  SumFunctionOnSet(regular', a..(a + Window - 1)) <= Limit
    BY DEF AdmittedWithinLimit
  <2>1. \A x \in a..(a + Window - 1) : regular'[x] = 0
    BY <1>1, <1>3, WindowOfAges
  <2>2. SumFunctionOnSet(regular', a..(a + Window - 1)) = 0
    BY <2>1, WindowOfAges, SumOfZeros
  <2>3. QED
    BY <2>2, AgeFacts
<1>10. QED
  BY <1>4, <1>5, <1>7, <1>8, <1>9 DEF WindowInv

\* A tick moves every window, and what it holds, by one.
LEMMA ShiftedWithinLimit ==
  ASSUME WindowTypeOK, AdmittedWithinLimit, regular' = Shift(regular)
  PROVE  AdmittedWithinLimit'
<1> SUFFICES ASSUME NEW a \in 0..MaxDelay
             PROVE  SumFunctionOnSet(regular', a..(a + Window - 1)) <= Limit
  BY DEF AdmittedWithinLimit
<1> DEFINE D == a..(a + Window - 1)
<1>1. /\ D \subseteq Ages /\ IsFiniteSet(D) /\ a \in Nat /\ a <= MaxDelay
      /\ Window \in Nat /\ Window >= 1 /\ MaxDelay \in Nat /\ Limit \in Nat
      /\ Oldest \in Nat /\ Oldest = Window + MaxDelay
      /\ \A x : x \in D <=> x \in Nat /\ a <= x /\ x < a + Window
  BY WindowOfAges, AgeFacts
<1> HIDE DEF D
<1>2. /\ regular \in [Ages -> Nat] /\ regular' \in [Ages -> Nat] /\ regular'[0] = 0
      /\ \A x \in Ages : 0 < x /\ x < Oldest => x - 1 \in Ages /\ regular'[x] = regular[x - 1]
  BY ShiftFacts DEF WindowTypeOK
<1> DEFINE E == {x \in Ages : x + 1 \in D}
           b == IF a = 0 THEN 0 ELSE a - 1
           B == b..(b + Window - 1)
<1>3. b \in 0..MaxDelay
  BY <1>1
<1>4. /\ B \subseteq Ages /\ IsFiniteSet(B) /\ b \in Nat
      /\ \A x : x \in B <=> x \in Nat /\ b <= x /\ x < b + Window
      /\ SumFunctionOnSet(regular, B) <= Limit
  BY <1>3, WindowOfAges DEF AdmittedWithinLimit
<1>5. (a = 0 => b = 0) /\ (a # 0 => a = b + 1)
  BY <1>1
<1>6. \A x : x \in E <=> x \in Ages /\ x + 1 \in D
  OBVIOUS
<1>7. \A x \in Ages : x \in Nat
  BY AgeFacts
<1> HIDE DEF b, B, E
<1>8. E \subseteq B
  <2> SUFFICES ASSUME NEW x \in E PROVE x \in B
    OBVIOUS
  <2>1. x \in Nat /\ a <= x + 1 /\ x + 1 < a + Window
    BY <1>1, <1>6, <1>7
  <2>2. b <= x /\ x < b + Window
    BY <1>1, <1>4, <1>5, <2>1
  <2>3. QED
    BY <1>4, <2>1, <2>2
<1>9. SumFunctionOnSet(regular, E) <= SumFunctionOnSet(regular, B)
  <2>1. \A x \in B : regular[x] \in Nat
    BY <1>2, <1>4
  <2>2. QED
    BY <1>4, <1>8, <2>1, SumOfPart
<1>10. IsFiniteSet(E) /\ E \in SUBSET Int /\ \A x \in E : regular[x] \in Int
  <2>1. IsFiniteSet(E)
    BY <1>4, <1>8, FS_Subset
  <2>2. QED
    BY <1>2, <1>6, <1>7, <2>1
<1>11. MovedUp(regular', regular, E)
  <2> SUFFICES ASSUME NEW x \in E PROVE regular'[x + 1] = regular[x]
    BY DEF MovedUp
  <2>1. x \in Nat /\ x + 1 \in Ages /\ 0 < x + 1 /\ x + 1 < Oldest
    BY <1>1, <1>6, <1>7
  <2>2. (x + 1) - 1 = x
    BY <2>1
  <2>3. QED
    BY <1>2, <2>1, <2>2
<1>12. {x + 1 : x \in E} = D \ {0}
  <2>1. ASSUME NEW y \in D, y # 0 PROVE \E x \in E : y = x + 1
    <3>1. y \in Nat /\ y - 1 \in Nat /\ y - 1 \in Ages /\ (y - 1) + 1 = y
      BY <1>1, <2>1, AgeFacts
    <3>2. y - 1 \in E
      BY <1>6, <2>1, <3>1
    <3>3. QED
      BY <3>1, <3>2
  <2>2. \A x \in E : x + 1 \in D /\ x + 1 # 0
    BY <1>6, <1>7
  <2>3. QED
    BY <2>1, <2>2
<1>13. SumFunctionOnSet(regular', D \ {0}) = SumFunctionOnSet(regular, E)
  BY <1>10, <1>11, <1>12, SumOfShifted
<1>14. SumFunctionOnSet(regular', D) = SumFunctionOnSet(regular, E)
  <2>1. SumFunctionOnSet(regular, E) \in Int
    BY <1>10, SumIsInt
  <2>2. CASE 0 \in D
    <3>1. SumFunctionOnSet(regular', D) = regular'[0] + SumFunctionOnSet(regular', D \ {0})
      <4>1. \A x \in D : regular'[x] \in Int
        BY <1>1, <1>2
      <4>2. QED
        BY <1>1, <2>2, <4>1, SumOfRest
    <3>2. QED
      BY <1>2, <1>13, <2>1, <3>1
  <2>3. CASE 0 \notin D
    <3>1. D \ {0} = D
      BY <2>3
    <3>2. QED
      BY <1>13, <3>1
  <2>4. QED
    BY <2>2, <2>3
<1>15. SumFunctionOnSet(regular, E) \in Int /\ SumFunctionOnSet(regular, B) \in Int
  <2>1. \A x \in B : regular[x] \in Int
    BY <1>2, <1>4
  <2>2. QED
    BY <1>4, <1>10, <2>1, SumIsInt
<1>16. SumFunctionOnSet(regular', D) <= Limit
  BY <1>1, <1>4, <1>9, <1>14, <1>15
<1>17. QED
  BY <1>16 DEF D

LEMMA WindowTickInv ==
  ASSUME WindowInv, WindowTick
  PROVE  WindowInv'
<1>1. /\ WindowTypeOK /\ limiter' = limiter /\ regular' = Shift(regular)
      /\ entries' = (IF ttl <= 1 THEN Empty ELSE Shift(entries))
      /\ ttl' = (IF ttl = 0 THEN 0 ELSE ttl - 1)
      /\ newest' = (IF ttl = 1 THEN 0 ELSE Older(newest)) /\ lastSeen' = Older(lastSeen)
  BY DEF WindowInv, WindowTick
<1>2. /\ request' \in [Clients -> Busy \cup {Idle}]
      /\ \A c \in Clients :
           /\ request'[c].phase = request[c].phase
           /\ request[c].phase # "idle" => request'[c].age = request[c].age + 1
  BY <1>1, TickFacts DEF WindowInv
<1>3. /\ newest \in Ages /\ newest \in Nat /\ newest <= Oldest /\ ttl \in Nat
      /\ Window \in Nat /\ Window >= 1 /\ Oldest \in Nat
      /\ \A a \in Ages : a \in Nat /\ a <= Oldest
      /\ \A c \in Clients : request[c].age \in Nat
  BY <1>1, RequestFacts, AgeFacts DEF WindowTypeOK
<1>4. /\ regular' \in [Ages -> Nat] /\ regular'[0] = 0
      /\ \A a \in Ages : 0 < a /\ a < Oldest => a - 1 \in Ages /\ regular'[a] = regular[a - 1]
      /\ regular'[Oldest] > 0 => regular[Oldest - 1] > 0 \/ regular[Oldest] > 0
  BY <1>1, ShiftFacts DEF WindowTypeOK
<1>5. /\ newest' \in Ages /\ newest' \in Nat
      /\ newest' = 0 \/ newest' = newest + 1 \/ (newest = Oldest /\ newest' = Oldest)
      /\ newest' <= newest + 1
  <2>1. Older(newest) \in Ages
    BY <1>3, AgeFacts DEF Older
  <2>2. 0 \in Ages
    BY AgeFacts
  <2>3. QED
    BY <1>1, <1>3, <2>1, <2>2 DEF Older
<1>6. lastSeen' \in Ages
  BY <1>1, AgeFacts DEF Older, WindowTypeOK
<1>7. ttl' \in Nat /\ (ttl <= 1 => ttl' = 0) /\ (ttl > 1 => ttl' = ttl - 1)
  BY <1>1, <1>3
<1>8. entries' \in [Ages -> Nat]
  BY <1>1, ShiftFacts DEF WindowTypeOK, Empty
<1>9. WindowTypeOK'
  BY <1>1, <1>2, <1>4, <1>5, <1>6, <1>7, <1>8 DEF WindowTypeOK
<1>10. PipelineIsOld'
  BY <1>2, <1>3, <1>5 DEF WindowInv, PipelineIsOld
<1>11. ASSUME NEW a \in Ages, 0 < a, a < Oldest
       PROVE  a - 1 \in Ages /\ a - 1 < Oldest /\ Members(a)' = Members(a - 1)
  <2>1. Pending(a)' = Pending(a - 1)
    BY <1>2, <1>3, <1>11 DEF Pending
  <2>2. a - 1 \in Ages /\ regular'[a] = regular[a - 1]
    BY <1>4, <1>11
  <2>3. a - 1 < Oldest
    BY <1>3, <1>11
  <2>4. QED
    BY <2>1, <2>2, <2>3 DEF Members
<1>12. Members(0)' = 0
  <2>1. Pending(0)' = {}
    BY <1>2, <1>3 DEF Pending
  <2>2. Cardinality(Pending(0)') = 0
    BY <2>1, FS_EmptySet
  <2>3. QED
    BY <1>4, <2>2 DEF Members
<1>13. KeyLives'
  <2> SUFFICES ASSUME NEW a \in Ages, a < Oldest, Members(a)' > 0
               PROVE  (ttl' > 0 /\ a + ttl' >= Window) \/ a >= newest' + Window
    BY DEF KeyLives
  <2>1. 0 < a
    BY <1>3, <1>12
  <2>2. a - 1 \in Ages /\ a - 1 < Oldest /\ Members(a - 1) > 0
    BY <1>11, <2>1
  <2>3. (ttl > 0 /\ (a - 1) + ttl >= Window) \/ a - 1 >= newest + Window
    BY <2>2 DEF WindowInv, KeyLives
  <2>4. CASE a - 1 >= newest + Window
    <3>1. a \in Nat
      BY <1>3
    <3>2. a >= newest' + Window
      BY <1>3, <1>5, <2>4, <3>1, OneOlder
    <3>3. QED
      BY <3>2
  <2>5. CASE ttl > 1 /\ (a - 1) + ttl >= Window
    BY <1>3, <1>7, <2>5
  <2>6. CASE ttl = 1 /\ (a - 1) + ttl >= Window
    <3>1. newest' = 0
      BY <1>1, <2>6
    <3>2. a \in Nat /\ Window \in Nat /\ (a - 1) + 1 >= Window
      BY <1>3, <2>6
    <3>3. a >= 0 + Window
      BY <3>2
    <3>4. QED
      BY <3>1, <3>3
  <2>7. QED
    BY <1>3, <2>3, <2>4, <2>5, <2>6
<1>14. RegularIsRecorded'
  <2> SUFFICES ASSUME NEW a \in Ages, a < newest' + Window, a < Oldest
               PROVE  Capped(Members(a)') <= entries'[a]
    BY DEF RegularIsRecorded
  <2>1. entries'[a] \in Nat
    BY <1>8
  <2>2. Members(a)' \in Nat
    <3>1. CASE a = 0
      BY <1>12, <3>1
    <3>2. CASE 0 < a
      BY <1>1, <1>11, <3>2, MembersFacts
    <3>3. QED
      BY <1>3, <3>1, <3>2
  <2>3. CASE Members(a)' = 0
    BY <2>1, <2>3, CappedFacts
  <2>4. CASE Members(a)' # 0
    <3>1. 0 < a
      BY <1>3, <1>12, <2>4
    <3>2. a - 1 \in Ages /\ a - 1 < Oldest /\ Members(a)' = Members(a - 1)
      BY <1>11, <3>1
    <3>3. ttl' > 0
      <4>1. Members(a)' > 0
        BY <2>2, <2>4
      <4>2. ttl' > 0 \/ a >= newest' + Window
        BY <1>13, <4>1 DEF KeyLives
      <4>3. ~(a >= newest' + Window)
        <5>1. a \in Nat /\ newest' \in Nat /\ Window \in Nat
          BY <1>3, <1>5
        <5>2. QED
          BY <5>1, StillBelow
      <4>4. QED
        BY <4>2, <4>3
    <3>4. entries'[a] = entries[a - 1]
      <4>1. entries' = Shift(entries)
        BY <1>1, <1>3, <1>7, <3>3
      <4>2. QED
        BY <1>1, <3>1, <4>1, ShiftFacts DEF WindowTypeOK
    <3>5. a - 1 < newest + Window
      <4>1. a \in Nat /\ a < (newest + 1) + Window
        <5>1. /\ a \in Nat /\ newest' \in Nat /\ newest + 1 \in Nat /\ Window \in Nat
              /\ newest' <= newest + 1
          BY <1>3, <1>5
        <5>2. QED
          BY <5>1, StillBelow
      <4>2. QED
        BY <1>3, <3>1, <4>1, OneOlder
    <3>6. QED
      BY <3>2, <3>4, <3>5 DEF WindowInv, RegularIsRecorded
  <2>5. QED
    BY <2>3, <2>4
<1>15. RegularIsOld'
  <2> SUFFICES ASSUME NEW a \in Ages, regular'[a] > 0 PROVE newest' <= a
    BY DEF RegularIsOld
  <2>1. a # 0
    BY <1>4
  <2>2. CASE a < Oldest
    <3>1. a - 1 \in Ages /\ regular[a - 1] > 0
      <4>1. 0 < a
        BY <1>3, <2>1
      <4>2. a - 1 \in Ages /\ regular'[a] = regular[a - 1]
        BY <1>4, <2>2, <4>1
      <4>3. QED
        BY <4>2
    <3>2. newest <= a - 1
      BY <3>1 DEF WindowInv, RegularIsOld
    <3>3. QED
      BY <1>3, <1>5, <3>2
  <2>3. CASE a = Oldest
    <3>1. newest' <= Oldest
      BY <1>3, <1>5
    <3>2. QED
      BY <2>3, <3>1
  <2>4. QED
    BY <1>3, <2>2, <2>3
<1>16. AdmittedWithinLimit'
  BY <1>1, ShiftedWithinLimit DEF WindowInv
<1>17. QED
  BY <1>9, <1>10, <1>13, <1>14, <1>15, <1>16 DEF WindowInv

(***************************************************************************)
(* The theorem                                                             *)
(***************************************************************************)

LEMMA WindowInitInv ==
  ASSUME WindowInit
  PROVE  WindowInv
<1>1. /\ entries = Empty /\ regular = Empty /\ ttl = 0 /\ newest = Oldest /\ lastSeen = Oldest
      /\ limiter \in {"gateway", "cache"} /\ request = [c \in Clients |-> Idle]
  BY DEF WindowInit
<1>2. Empty \in [Ages -> Nat] /\ \A a \in Ages : Empty[a] = 0
  BY DEF Empty
<1>3. WindowTypeOK
  BY <1>1, <1>2, AgeFacts DEF WindowTypeOK
<1>4. ASSUME NEW a \in Ages PROVE Members(a) = 0
  <2>1. Pending(a) = {}
    BY <1>1, IdleFacts DEF Pending
  <2>2. Cardinality(Pending(a)) = 0
    BY <2>1, FS_EmptySet
  <2>3. QED
    BY <1>1, <1>2, <2>2 DEF Members
<1>5. RegularIsRecorded /\ KeyLives
  BY <1>1, <1>2, <1>4, CappedFacts DEF RegularIsRecorded, KeyLives
<1>6. RegularIsOld /\ PipelineIsOld
  BY <1>1, <1>2, IdleFacts DEF RegularIsOld, PipelineIsOld
<1>7. AdmittedWithinLimit
  <2> SUFFICES ASSUME NEW a \in 0..MaxDelay
               PROVE  SumFunctionOnSet(regular, a..(a + Window - 1)) <= Limit
    BY DEF AdmittedWithinLimit
  <2>1. \A x \in a..(a + Window - 1) : regular[x] = 0
    BY <1>1, <1>2, WindowOfAges
  <2>2. SumFunctionOnSet(regular, a..(a + Window - 1)) = 0
    BY <2>1, WindowOfAges, SumOfZeros
  <2>3. QED
    BY <2>2, AgeFacts
<1>8. QED
  BY <1>3, <1>5, <1>6, <1>7 DEF WindowInv

LEMMA WindowUnchanged ==
  ASSUME WindowInv, UNCHANGED windowVars
  PROVE  WindowInv'
<1>1. UNCHANGED <<limiter, entries, ttl, request, newest, lastSeen, regular>>
  BY DEF windowVars
<1>2. \A a : Pending(a)' = Pending(a)
  BY <1>1 DEF Pending
<1>3. \A a : Members(a)' = Members(a)
  BY <1>1, <1>2 DEF Members
<1>4. WindowTypeOK'
  BY <1>1 DEF WindowInv, WindowTypeOK
<1>5. RegularIsRecorded' /\ KeyLives'
  BY <1>1, <1>3 DEF WindowInv, RegularIsRecorded, KeyLives
<1>6. RegularIsOld' /\ PipelineIsOld' /\ AdmittedWithinLimit'
  BY <1>1 DEF WindowInv, RegularIsOld, PipelineIsOld, AdmittedWithinLimit
<1>7. QED
  BY <1>4, <1>5, <1>6 DEF WindowInv

LEMMA WindowStep ==
  ASSUME WindowInv, [WindowNext]_windowVars
  PROVE  WindowInv'
<1>1. ASSUME NEW c \in Clients, Ask(c) PROVE WindowInv'
  BY <1>1, AskInv
<1>2. ASSUME NEW c \in Clients, LimiterScript(c) PROVE WindowInv'
  BY <1>2, LimiterScriptInv
<1>3. ASSUME NEW c \in Clients, FailOpen(c) PROVE WindowInv'
  BY <1>3, FailOpenInv
<1>4. ASSUME NEW c \in Clients, PipelinePrune(c) PROVE WindowInv'
  BY <1>4, PipelinePruneInv
<1>5. ASSUME NEW c \in Clients, PipelineAdd(c) PROVE WindowInv'
  BY <1>5, PipelineAddInv
<1>6. ASSUME NEW c \in Clients, PipelineCount(c) PROVE WindowInv'
  BY <1>6, PipelineCountInv
<1>7. CASE Reset
  BY <1>7, ResetInv
<1>8. CASE WindowTick
  BY <1>8, WindowTickInv
<1>9. CASE UNCHANGED windowVars
  BY <1>9, WindowUnchanged
<1>10. QED
  BY <1>1, <1>2, <1>3, <1>4, <1>5, <1>6, <1>7, <1>8, <1>9 DEF WindowNext

\* In every window of the stamps both limiters admit at most Limit requests, those that
\* came late or shared a member aside (limiterScript of the gateway, Increment of the
\* shared cache), whatever the window, the limit, the clients and the delays.
THEOREM SpecAdmittedWithinLimit == WindowSpec => []AdmittedWithinLimit
<1>1. WindowInit => WindowInv
  BY WindowInitInv
<1>2. WindowInv /\ [WindowNext]_windowVars => WindowInv'
  BY WindowStep
<1>3. WindowInv => AdmittedWithinLimit
  BY DEF WindowInv
<1>4. QED
  BY <1>1, <1>2, <1>3, PTL DEF WindowSpec

(***************************************************************************)
(* Who waited for a window is admitted                                     *)
(***************************************************************************)

LEMMA OthersAreNotAlone ==
  ASSUME PatientInv, NEW c \in Clients, request[c].phase # "idle"
  PROVE  \A d \in Clients : d # c => ~request[d].alone
  BY DEF PatientInv, AloneIsAlone

\* A request that is alone, with no member yet, finds members of its window only if
\* they are younger than the latest answer: none.
LEMMA NothingInWindow ==
  ASSUME WindowTypeOK, PatientInv, NEW c \in Clients, request[c].phase = "stamped",
         request[c].alone, NEW s \in 0..MaxDelay, s = request[c].age
  PROVE  \A a \in Ages : Prune(s)[a] = 0
<1> SUFFICES ASSUME NEW a \in Ages PROVE Prune(s)[a] = 0
  OBVIOUS
<1>1. /\ Prune(s)[a] = (IF a < s + Window THEN entries[a] ELSE 0)
      /\ a \in Nat /\ s \in Nat /\ Window \in Nat /\ lastSeen \in Nat /\ entries[a] \in Nat
  BY PruneFacts, AgeFacts DEF WindowTypeOK
<1>2. \A d \in Clients : request[d].phase \notin {"added", "shared"}
  BY DEF PatientInv, AloneIsAlone
<1>3. entries[a] > 0 => lastSeen <= a
  BY <1>2 DEF PatientInv, AnsweredIsOld
<1>4. lastSeen >= Window + s
  BY DEF PatientInv, AloneHasWaited
<1>5. QED
  BY <1>1, <1>3, <1>4

LEMMA AskPatient ==
  ASSUME WindowTypeOK, PatientInv, NEW c \in Clients, Ask(c)
  PROVE  PatientInv'
<1>1. /\ request'[c].phase = "stamped" /\ request'[c].age = 0
      /\ request'[c].alone => lastSeen >= Window /\ \A e \in Clients : request[e].phase = "idle"
      /\ \A d \in Clients : d # c => /\ request'[d].phase = request[d].phase
                                     /\ request'[d].alone = FALSE
  BY AskFacts
<1>2. UNCHANGED <<entries, lastSeen, outcome>> /\ request[c].phase = "idle"
  BY IdleFacts DEF Ask
<1>3. AloneIsAlone'
  BY <1>1 DEF AloneIsAlone
<1>4. AnsweredIsOld'
  BY <1>1, <1>2 DEF PatientInv, AnsweredIsOld
<1>5. AloneHasWaited'
  <2>1. Window + 0 = Window
    BY AgeFacts
  <2>2. QED
    BY <1>1, <1>2, <2>1 DEF AloneHasWaited
<1>6. QED
  BY <1>2, <1>3, <1>4, <1>5 DEF PatientInv, PatientIsAdmitted

LEMMA AnswerPatient ==
  ASSUME WindowTypeOK, WindowTypeOK', PatientInv, NEW c \in Clients, request[c].phase # "idle",
         NEW answer, NEW own, Answer(c, answer, own), answer = "refused" => ~request[c].alone
  PROVE  PatientInv'
<1>1. request'[c] = Idle /\ lastSeen' = 0 /\ \A d \in Clients : d # c => request'[d] = request[d]
  BY AnswerTypes
<1>2. outcome'.answer = answer /\ outcome'.alone = request[c].alone
  BY DEF Answer
<1>3. \A d \in Clients : ~request'[d].alone
  BY <1>1, IdleFacts, OthersAreNotAlone
<1>4. AloneIsAlone' /\ AloneHasWaited'
  BY <1>3 DEF AloneIsAlone, AloneHasWaited
<1>5. AnsweredIsOld'
  <2>1. \A a \in Ages : 0 <= a
    BY AgeFacts
  <2>2. QED
    BY <1>1, <2>1 DEF AnsweredIsOld
<1>6. QED
  BY <1>2, <1>4, <1>5 DEF PatientInv, PatientIsAdmitted

LEMMA LimiterScriptPatient ==
  ASSUME Limit > 0, WindowTypeOK, WindowTypeOK', PatientInv, NEW c \in Clients, LimiterScript(c)
  PROVE  PatientInv'
<1>1. PICK s \in 0..MaxDelay : s = request[c].age
  BY RequestFacts
<1>2. /\ request[c].phase = "stamped"
      /\ \/ Answer(c, "admitted", entries' # Prune(s))
         \/ ~HasRoom(SumFunction(Prune(s))) /\ Answer(c, "refused", FALSE)
  BY <1>1, ScriptFacts
<1>3. ASSUME ~HasRoom(SumFunction(Prune(s))) PROVE ~request[c].alone
  <2> SUFFICES ASSUME request[c].alone PROVE FALSE
    OBVIOUS
  <2>1. \A a \in Ages : Prune(s)[a] = 0
    BY <1>1, <1>2, NothingInWindow
  <2>2. SumFunctionOnSet(Prune(s), Ages) = 0
    BY <2>1, AgeFacts, SumOfZeros
  <2>3. SumFunction(Prune(s)) = 0
    BY <2>2, PruneFacts, CountIsBounded
  <2>4. QED
    BY <1>3, <2>3, AgeFacts DEF HasRoom
<1>4. QED
  BY <1>2, <1>3, AnswerPatient

LEMMA PipelinePrunePatient ==
  ASSUME WindowTypeOK, PatientInv, NEW c \in Clients, PipelinePrune(c)
  PROVE  PatientInv'
<1>1. PICK s \in 0..MaxDelay : s = request[c].age
  BY RequestFacts
<1>2. /\ request[c].phase = "stamped" /\ request' = [request EXCEPT ![c].phase = "pruned"]
      /\ entries' = Prune(s) /\ UNCHANGED <<lastSeen, outcome>>
  BY <1>1 DEF PipelinePrune
<1>3. /\ request'[c].phase = "pruned" /\ request'[c].alone = request[c].alone
      /\ \A d \in Clients : d # c => request'[d] = request[d]
  BY <1>2, PipelineRequest
<1>4. \A d \in Clients : d # c => ~request'[d].alone
  BY <1>2, <1>3, OthersAreNotAlone
<1>5. AloneIsAlone'
  BY <1>3, <1>4 DEF PatientInv, AloneIsAlone
<1>6. AnsweredIsOld'
  <2>1. \A a \in Ages : Prune(s)[a] > 0 => entries[a] > 0
    BY PruneFacts
  <2>2. QED
    BY <1>2, <1>3, <2>1 DEF PatientInv, AnsweredIsOld
<1>7. AloneHasWaited'
  <2>1. request[c].alone => \A a \in Ages : entries'[a] = 0
    BY <1>1, <1>2, NothingInWindow
  <2>2. QED
    BY <1>3, <1>4, <2>1 DEF AloneHasWaited
<1>8. QED
  BY <1>2, <1>5, <1>6, <1>7 DEF PatientInv, PatientIsAdmitted

LEMMA PipelineAddPatient ==
  ASSUME WindowTypeOK, PatientInv, NEW c \in Clients, PipelineAdd(c)
  PROVE  PatientInv'
<1>1. PICK s \in 0..MaxDelay : s = request[c].age
  BY RequestFacts
<1>2. PICK p \in {"shared", "added"} : request' = [request EXCEPT ![c].phase = p]
  BY DEF PipelineAdd
<1>3. /\ request[c].phase = "pruned" /\ entries' \in Add(entries, s)
      /\ UNCHANGED <<lastSeen, outcome>>
  BY <1>1 DEF PipelineAdd
<1>4. /\ request'[c].phase = p /\ request'[c].alone = request[c].alone
      /\ request'[c].age = s /\ \A d \in Clients : d # c => request'[d] = request[d]
  BY <1>1, <1>2, <1>3, PipelineRequest
<1>5. \A d \in Clients : d # c => ~request'[d].alone
  BY <1>3, <1>4, OthersAreNotAlone
<1>6. AloneIsAlone'
  BY <1>3, <1>4, <1>5 DEF PatientInv, AloneIsAlone
<1>7. AnsweredIsOld'
  BY <1>4 DEF AnsweredIsOld
<1>8. AloneHasWaited'
  <2>1. /\ s \in Ages /\ entries \in [Ages -> Nat]
    BY AgeFacts DEF WindowTypeOK
  <2>2. /\ \A a \in Ages : a # s => entries'[a] = entries[a]
        /\ entries' = entries \/ entries'[s] = Capped(entries[s] + 1)
    BY <1>3, <2>1, AddFacts
  <2>3. request[c].alone => \A a \in Ages : entries[a] = 0
    BY <1>3 DEF PatientInv, AloneHasWaited
  <2>4. request[c].alone => \A a \in Ages : entries'[a] <= IF a = s THEN 1 ELSE 0
    BY <2>1, <2>2, <2>3, CappedFacts
  <2>5. QED
    BY <1>4, <1>5, <2>4 DEF AloneHasWaited
<1>9. QED
  BY <1>3, <1>6, <1>7, <1>8 DEF PatientInv, PatientIsAdmitted

LEMMA PipelineCountPatient ==
  ASSUME Limit > 0, WindowTypeOK, WindowTypeOK', PatientInv, NEW c \in Clients, PipelineCount(c)
  PROVE  PatientInv'
<1> DEFINE answer == IF SumFunction(entries) <= Limit THEN "admitted" ELSE "refused"
           own == request[c].phase = "added"
<1>1. request[c].phase \in {"added", "shared"} /\ Answer(c, answer, own)
  BY DEF PipelineCount
<1>2. answer = "refused" => ~(SumFunction(entries) <= Limit)
  OBVIOUS
<1> HIDE DEF answer, own
<1>3. PICK s \in Ages : s = request[c].age
  BY RequestFacts, AgeFacts
<1>4. ASSUME request[c].alone PROVE SumFunction(entries) <= Limit
  <2>1. entries \in [Ages -> Nat] /\ \A a \in Ages : entries[a] <= IF a = s THEN 1 ELSE 0
    BY <1>1, <1>3, <1>4 DEF WindowTypeOK, PatientInv, AloneHasWaited
  <2>2. \A a \in Ages \ {s} : entries[a] = 0
    BY <2>1
  <2>3. IsFiniteSet(Ages \ {s})
    BY AgeFacts, FS_Subset
  <2>4. SumFunctionOnSet(entries, Ages \ {s}) = 0
    BY <2>2, <2>3, SumOfZeros
  <2>5. SumFunctionOnSet(entries, Ages) = entries[s] + SumFunctionOnSet(entries, Ages \ {s})
    <3>1. \A a \in Ages : entries[a] \in Int
      BY <2>1
    <3>2. QED
      BY <3>1, AgeFacts, SumOfRest
  <2>6. SumFunction(entries) = entries[s] /\ entries[s] \in Nat /\ entries[s] <= 1
    BY <2>1, <2>4, <2>5, CountIsBounded
  <2>7. QED
    BY <2>6, AgeFacts
<1>5. QED
  BY <1>1, <1>2, <1>4, AnswerPatient

LEMMA ResetPatient ==
  ASSUME WindowTypeOK, PatientInv, Reset
  PROVE  PatientInv'
<1>1. entries' = Empty /\ UNCHANGED <<lastSeen, outcome>>
  BY DEF Reset
<1>2. \A c \in Clients :
        /\ request'[c].age = request[c].age /\ request'[c].alone = request[c].alone
        /\ request'[c].phase = IF request[c].phase = "added" THEN "shared" ELSE request[c].phase
  BY ResetFacts
<1>3. \A a \in Ages : Empty[a] = 0
  BY DEF Empty
<1>4. AloneIsAlone'
  BY <1>2 DEF PatientInv, AloneIsAlone
<1>5. AnsweredIsOld'
  BY <1>1, <1>3 DEF AnsweredIsOld
<1>6. AloneHasWaited'
  BY <1>1, <1>2, <1>3 DEF PatientInv, AloneHasWaited
<1>7. QED
  BY <1>1, <1>4, <1>5, <1>6 DEF PatientInv, PatientIsAdmitted

LEMMA WindowTickPatient ==
  ASSUME WindowTypeOK, PatientInv, WindowTick
  PROVE  PatientInv'
<1>1. /\ entries' = (IF ttl <= 1 THEN Empty ELSE Shift(entries))
      /\ lastSeen' = Older(lastSeen) /\ outcome' = outcome
  BY DEF WindowTick
<1>2. \A c \in Clients :
        /\ request'[c].phase = request[c].phase /\ request'[c].alone = request[c].alone
        /\ request[c].phase # "idle" =>
             request'[c].age = request[c].age + 1 /\ request[c].age < MaxDelay
  BY TickFacts
<1>3. /\ entries \in [Ages -> Nat] /\ lastSeen \in Nat /\ lastSeen <= Oldest
      /\ Oldest \in Nat /\ Window \in Nat /\ Window >= 1 /\ Oldest = Window + MaxDelay
      /\ MaxDelay \in Nat
      /\ Oldest \in Ages /\ Oldest - 1 \in Ages /\ \A a \in Ages : a \in Nat /\ a <= Oldest
      /\ \A c \in Clients : request[c].age \in Nat
  BY AgeFacts, RequestFacts DEF WindowTypeOK
<1>4. lastSeen' = IF lastSeen = Oldest THEN Oldest ELSE lastSeen + 1
  BY <1>1 DEF Older
<1>5. \A a \in Ages : Empty[a] = 0
  BY DEF Empty
<1>6. /\ Shift(entries) \in [Ages -> Nat] /\ Shift(entries)[0] = 0
      /\ \A a \in Ages : 0 < a /\ a < Oldest =>
           a - 1 \in Ages /\ Shift(entries)[a] = entries[a - 1]
      /\ Shift(entries)[Oldest] > 0 => entries[Oldest - 1] > 0 \/ entries[Oldest] > 0
  BY <1>3, ShiftFacts
<1>7. /\ entries' \in [Ages -> Nat] /\ entries'[0] = 0
      /\ \A a \in Ages : 0 < a /\ a < Oldest =>
           a - 1 \in Ages /\ (entries'[a] = entries[a - 1] \/ entries'[a] = 0)
      /\ entries'[Oldest] > 0 => entries[Oldest - 1] > 0 \/ entries[Oldest] > 0
  <2>1. CASE ttl <= 1
    <3>1. entries' = Empty /\ Empty \in [Ages -> Nat] /\ 0 \in Ages
      BY <1>1, <2>1, AgeFacts DEF Empty
    <3>2. QED
      BY <1>3, <1>5, <1>6, <3>1
  <2>2. CASE ~(ttl <= 1)
    BY <1>1, <1>6, <2>2
  <2>3. QED
    BY <2>1, <2>2
<1>8. AloneIsAlone'
  BY <1>2 DEF PatientInv, AloneIsAlone
<1>9. AnsweredIsOld'
  <2> SUFFICES ASSUME \A c \in Clients : request'[c].phase \notin {"added", "shared"},
                      NEW a \in Ages, entries'[a] > 0
               PROVE  lastSeen' <= a
    BY DEF AnsweredIsOld
  <2>1. \A b \in Ages : entries[b] > 0 => lastSeen <= b
    BY <1>2 DEF PatientInv, AnsweredIsOld
  <2>2. CASE a = Oldest
    BY <1>3, <1>4, <2>2
  <2>3. CASE a # Oldest
    <3>1. 0 < a /\ a < Oldest
      BY <1>3, <1>7, <2>3
    <3>2. a - 1 \in Ages /\ entries[a - 1] > 0
      BY <1>7, <3>1
    <3>3. lastSeen <= a - 1
      BY <2>1, <3>2
    <3>4. QED
      BY <1>3, <1>4, <3>1, <3>3
  <2>4. QED
    BY <2>2, <2>3
<1>10. ASSUME NEW c \in Clients, request'[c].alone, request[c].phase # "idle"
       PROVE  /\ request'[c].phase = "stamped" => lastSeen' >= Window + request'[c].age
              /\ request'[c].phase = "pruned" => \A a \in Ages : entries'[a] = 0
              /\ request'[c].phase \in {"added", "shared"} =>
                   \A a \in Ages : entries'[a] <= IF a = request'[c].age THEN 1 ELSE 0
  <2>1. PICK s \in Nat : s = request[c].age
    BY <1>3
  <2>2. request'[c].age = s + 1 /\ s < MaxDelay /\ request[c].alone
        /\ request'[c].phase = request[c].phase
    BY <1>2, <1>10, <2>1
  <2>3. ASSUME request'[c].phase = "stamped" PROVE lastSeen' >= Window + (s + 1)
    <3>1. lastSeen >= Window + s
      BY <2>1, <2>2, <2>3 DEF PatientInv, AloneHasWaited
    <3>2. QED
      BY <1>3, <1>4, <2>2, <3>1
  <2>4. ASSUME request'[c].phase = "pruned", NEW a \in Ages PROVE entries'[a] = 0
    <3>1. \A b \in Ages : entries[b] = 0
      BY <2>2, <2>4 DEF PatientInv, AloneHasWaited
    <3>2. CASE a = 0
      BY <1>7, <3>2
    <3>3. CASE 0 < a /\ a < Oldest
      BY <1>7, <3>1, <3>3
    <3>4. CASE a = Oldest
      <4>1. ~(entries'[Oldest] > 0) /\ entries'[Oldest] \in Nat
        BY <1>3, <1>7, <3>1
      <4>2. QED
        BY <3>4, <4>1
    <3>5. QED
      BY AgeCases, <3>2, <3>3, <3>4
  <2>5. ASSUME request'[c].phase \in {"added", "shared"}, NEW a \in Ages
        PROVE  entries'[a] <= IF a = s + 1 THEN 1 ELSE 0
    <3>1. \A b \in Ages : entries[b] <= IF b = s THEN 1 ELSE 0
      BY <2>1, <2>2, <2>5 DEF PatientInv, AloneHasWaited
    <3>2. CASE a = Oldest
      <4>1. s # Oldest /\ s # Oldest - 1
        BY <1>3, <2>2
      <4>2. entries[Oldest] = 0 /\ entries[Oldest - 1] = 0
        BY <1>3, <3>1, <4>1
      <4>3. QED
        BY <1>7, <3>2, <4>2
    <3>3. CASE a = 0
      BY <1>7, <3>3
    <3>4. CASE 0 < a /\ a < Oldest
      <4>1. a - 1 \in Ages /\ (entries'[a] = entries[a - 1] \/ entries'[a] = 0)
        BY <1>7, <3>4
      <4>2. entries[a - 1] <= IF a - 1 = s THEN 1 ELSE 0
        BY <3>1, <4>1
      <4>3. a \in Nat /\ (a - 1 = s <=> a = s + 1)
        BY <1>3
      <4>4. QED
        BY <4>1, <4>2, <4>3
    <3>5. QED
      BY AgeCases, <3>2, <3>3, <3>4
  <2>6. QED
    BY <2>2, <2>3, <2>4, <2>5
<1>11. AloneHasWaited'
  BY <1>2, <1>10 DEF AloneHasWaited
<1>12. QED
  BY <1>1, <1>8, <1>9, <1>11 DEF PatientInv, PatientIsAdmitted

\* A request that nobody shares the key with, a window after the latest answer, is not
\* refused, by either limiter, unless the limit is zero: what stands in its window was
\* answered in it (limiterScript of the gateway, Increment of the shared cache).
THEOREM SpecPatientIsAdmitted ==
  ASSUME Limit > 0
  PROVE  WindowSpec => []PatientIsAdmitted
<1>1. WindowInit => WindowInv /\ PatientInv
  <2> SUFFICES ASSUME WindowInit PROVE WindowInv /\ PatientInv
    OBVIOUS
  <2>1. /\ \A c \in Clients : request[c] = Idle
        /\ entries = Empty /\ outcome.answer = "none"
    BY DEF WindowInit
  <2>2. \A a \in Ages : Empty[a] = 0
    BY DEF Empty
  <2>3. AloneIsAlone /\ AloneHasWaited
    BY <2>1, IdleFacts DEF AloneIsAlone, AloneHasWaited
  <2>4. AnsweredIsOld /\ PatientIsAdmitted
    BY <2>1, <2>2 DEF AnsweredIsOld, PatientIsAdmitted
  <2>5. QED
    BY <2>3, <2>4, WindowInitInv DEF PatientInv
<1>2. WindowInv /\ PatientInv /\ [WindowNext]_windowVars => WindowInv' /\ PatientInv'
  <2> SUFFICES ASSUME WindowInv, PatientInv, [WindowNext]_windowVars
               PROVE  WindowInv' /\ PatientInv'
    OBVIOUS
  <2>1. WindowInv' /\ WindowTypeOK /\ WindowTypeOK'
    BY WindowStep DEF WindowInv
  <2>2. ASSUME NEW c \in Clients, Ask(c) PROVE PatientInv'
    BY <2>1, <2>2, AskPatient
  <2>3. ASSUME NEW c \in Clients, LimiterScript(c) PROVE PatientInv'
    BY <2>1, <2>3, LimiterScriptPatient
  <2>4. ASSUME NEW c \in Clients, FailOpen(c) PROVE PatientInv'
    <3>1. request[c].phase = "stamped" /\ Answer(c, "open", FALSE)
      BY <2>4 DEF FailOpen
    <3>2. QED
      BY <2>1, <3>1, AnswerPatient
  <2>5. ASSUME NEW c \in Clients, PipelinePrune(c) PROVE PatientInv'
    BY <2>1, <2>5, PipelinePrunePatient
  <2>6. ASSUME NEW c \in Clients, PipelineAdd(c) PROVE PatientInv'
    BY <2>1, <2>6, PipelineAddPatient
  <2>7. ASSUME NEW c \in Clients, PipelineCount(c) PROVE PatientInv'
    BY <2>1, <2>7, PipelineCountPatient
  <2>8. CASE Reset
    BY <2>1, <2>8, ResetPatient
  <2>9. CASE WindowTick
    BY <2>1, <2>9, WindowTickPatient
  <2>10. CASE UNCHANGED windowVars
    <3>1. UNCHANGED <<entries, request, lastSeen, outcome>>
      BY <2>10 DEF windowVars
    <3>2. AloneIsAlone' /\ PatientIsAdmitted'
      BY <3>1 DEF PatientInv, AloneIsAlone, PatientIsAdmitted
    <3>3. AnsweredIsOld'
      BY <3>1 DEF PatientInv, AnsweredIsOld
    <3>4. AloneHasWaited'
      BY <3>1 DEF PatientInv, AloneHasWaited
    <3>5. QED
      BY <2>1, <3>2, <3>3, <3>4 DEF PatientInv
  <2>11. QED
    BY <2>1, <2>2, <2>3, <2>4, <2>5, <2>6, <2>7, <2>8, <2>9, <2>10 DEF WindowNext
<1>3. PatientInv => PatientIsAdmitted
  BY DEF PatientInv
<1>4. QED
  BY <1>1, <1>2, <1>3, PTL DEF WindowSpec
==============================================================================
