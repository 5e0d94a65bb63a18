--------------------------- MODULE RecordsProofs ---------------------------
(***************************************************************************)
(* Proofs about the services that keep their records behind a handler: the *)
(* planning service for any plans, periods, approvers, maps and calendars, *)
(* the engagement service for any engagements and arrays, and the evidence *)
(* service for any evidence and batches, each with any number of           *)
(* concurrent requests.                                                    *)
(***************************************************************************)
EXTENDS Planning, PlanningRecords, Engagement, Evidence, SumTheorems, SequenceTheorems, TLAPS

(***************************************************************************)
(* Strategic and annual plans (Planning)                                   *)
(***************************************************************************)

\* What every stored plan and every copy of a plan satisfies, with the answers
\* given so far as parameters.
Sound(id, p, pt, ap, ar) ==
  /\ p.status \in {"approved", "active"} =>
       /\ <<id, p.by>> \in ap
       /\ id \in Strategic => p.by # Nobody
  /\ p.status = "draft" => p.by = Nobody
  /\ p.version <= pt[id] + 1
  /\ p.status = "archived" => id \in ar

StoredIsSound ==
  \A id \in Plans : store[id] # NoPlan => Sound(id, store[id], patched, approved, archived)

CopiesAreSound ==
  \A r \in Requests : req[r].step = "loaded" =>
    LET id == req[r].id
    IN  /\ store[id] # NoPlan
        /\ req[r].copy.period = store[id].period
        /\ Sound(id, req[r].copy, patched, approved, archived)

\* Of two plans of one period one has been archived: the second was created
\* when the first was.  Unlike the absence of live plans this survives updates.
YearsWereFreed ==
  \A a, b \in Annual :
    a # b /\ store[a] # NoPlan /\ store[b] # NoPlan /\ store[a].period = store[b].period
    => {a, b} \cap archived # {}

IInv == TypeOK /\ StoredIsSound /\ CopiesAreSound /\ YearsWereFreed

LEMMA InitIInv == Init => IInv
  BY MaxPatchesAssumption, SMT
  DEF Init, IInv, TypeOK, StoredIsSound, CopiesAreSound, YearsWereFreed, Idle, Plans, NoPlan

LEMMA PlanType ==
  ASSUME TypeOK, NEW id \in Plans, store[id] # NoPlan
  PROVE  store[id] \in Plan
  BY DEF TypeOK

LoadedRequest == [step : {"loaded"}, id : Plans, copy : Plan]

LEMMA LoadedType ==
  ASSUME TypeOK, NEW r \in Requests, req[r].step = "loaded"
  PROVE  req[r] \in LoadedRequest
  BY DEF TypeOK, Idle, LoadedRequest

\* Answers only add up.
LEMMA SoundStays ==
  ASSUME NEW id \in Plans, NEW p \in Plan, NEW pt \in [Plans -> Nat],
         NEW qt \in [Plans -> Nat], pt[id] <= qt[id],
         NEW ap, NEW aq, ap \subseteq aq, NEW ar, NEW as, ar \subseteq as,
         Sound(id, p, pt, ap, ar)
  PROVE  Sound(id, p, qt, aq, as)
<1>1. p.version \in Int /\ pt[id] \in Int /\ qt[id] \in Int
  BY MaxPatchesAssumption DEF Plan
<1>2. p.version <= pt[id] + 1
  BY DEF Sound
<1>3. p.version <= qt[id] + 1
  BY <1>1, <1>2
<1>4. QED
  BY <1>3 DEF Sound

\* A new plan.
LEMMA NewPlanIsSound ==
  ASSUME NEW id, NEW p \in Periods, TypeOK, id \in Plans
  PROVE  /\ NewPlan(p) \in Plan /\ NewPlan(p) # NoPlan /\ NewPlan(p).period = p
         /\ Sound(id, NewPlan(p), patched, approved, archived)
<1>1. NewPlan(p) \in Plan
  BY MaxPatchesAssumption, SMT DEF NewPlan, Plan, Statuses
<1>2. NewPlan(p) # NoPlan
  BY <1>1 DEF NoPlan, Plan, Statuses
<1>3. patched[id] \in Nat
  BY MaxPatchesAssumption DEF TypeOK
<1>4. QED
  BY <1>1, <1>2, <1>3, SMT DEF Sound, NewPlan

LEMMA CreateStep ==
  ASSUME IInv, NEW id \in Plans, NEW p \in Periods, CreateStrategic(id, p) \/ CreateAnnual(id, p)
  PROVE  IInv'
<1>1. /\ store[id] = NoPlan
      /\ store' = [store EXCEPT ![id] = NewPlan(p)]
      /\ UNCHANGED <<req, patched, approved, archived>>
  BY DEF CreateStrategic, CreateAnnual
<1>2. TypeOK /\ StoredIsSound /\ CopiesAreSound /\ YearsWereFreed
  BY DEF IInv
<1>3. /\ NewPlan(p) \in Plan /\ NewPlan(p) # NoPlan /\ NewPlan(p).period = p
      /\ Sound(id, NewPlan(p), patched, approved, archived)
  BY <1>2, NewPlanIsSound
<1>4. /\ store'[id] = NewPlan(p)
      /\ \A i \in Plans : i # id => store'[i] = store[i]
  BY <1>1, <1>2 DEF TypeOK
<1>5. TypeOK'
  BY <1>1, <1>2, <1>3 DEF TypeOK
<1>6. StoredIsSound'
  BY <1>1, <1>2, <1>3, <1>4 DEF StoredIsSound
<1>7. CopiesAreSound'
  <2> SUFFICES ASSUME NEW r \in Requests, req[r].step = "loaded"
               PROVE  /\ store'[req[r].id] # NoPlan
                      /\ req[r].copy.period = store'[req[r].id].period
                      /\ Sound(req[r].id, req[r].copy, patched, approved, archived)
    BY <1>1 DEF CopiesAreSound
  <2>1. req[r].id \in Plans /\ req[r].id # id
    BY <1>1, <1>2, LoadedType DEF CopiesAreSound, LoadedRequest
  <2>2. QED
    BY <1>2, <1>4, <2>1 DEF CopiesAreSound
<1>8. YearsWereFreed'
  <2> SUFFICES ASSUME NEW a \in Annual, NEW b \in Annual, a # b,
                      store'[a] # NoPlan, store'[b] # NoPlan,
                      store'[a].period = store'[b].period
               PROVE  {a, b} \cap archived # {}
    BY <1>1 DEF YearsWereFreed
  <2>0. a \in Plans /\ b \in Plans
    BY DEF Plans
  <2>1. CASE a # id /\ b # id
    BY <1>2, <1>4, <2>0, <2>1 DEF YearsWereFreed
  <2>2. CASE a = id \/ b = id
    <3>1. PICK c \in {a, b} : c # id
      BY <2>2
    <3>2. id \in Annual /\ c \in Annual /\ c \in Plans /\ id \in {a, b}
      BY <2>0, <2>2
    <3>3. ~PeriodTaken(p)
      BY <3>2, DisjointAssumption DEF CreateStrategic, CreateAnnual
    <3>4. store[c] # NoPlan /\ store[c].period = p
      BY <1>3, <1>4, <2>2, <3>1, <3>2
    <3>5. store[c].status = "archived"
      BY <3>2, <3>3, <3>4 DEF PeriodTaken
    <3>6. c \in archived
      BY <1>2, <3>2, <3>4, <3>5 DEF StoredIsSound, Sound
    <3>7. QED
      BY <3>6
  <2>3. QED
    BY <2>1, <2>2
<1>9. QED
  BY <1>5, <1>6, <1>7, <1>8 DEF IInv

LEMMA LoadStep ==
  ASSUME IInv, NEW r \in Requests, NEW id \in Plans, Load(r, id)
  PROVE  IInv'
<1>1. /\ store[id] # NoPlan /\ store[id] \in Plan
      /\ Sound(id, store[id], patched, approved, archived)
  BY PlanType DEF IInv, Load, StoredIsSound
<1>2. TypeOK'
  BY <1>1 DEF IInv, TypeOK, Load
<1>3. StoredIsSound' /\ YearsWereFreed'
  BY DEF IInv, Load, StoredIsSound, YearsWereFreed
<1>4. CopiesAreSound'
  <2> SUFFICES ASSUME NEW q \in Requests, req'[q].step = "loaded"
               PROVE  /\ store[req'[q].id] # NoPlan
                      /\ req'[q].copy.period = store[req'[q].id].period
                      /\ Sound(req'[q].id, req'[q].copy, patched, approved, archived)
    BY DEF Load, CopiesAreSound
  <2>1. CASE q = r
    <3>1. req'[q] = [step |-> "loaded", id |-> id, copy |-> store[id]]
      BY <2>1 DEF IInv, TypeOK, Load
    <3>2. QED
      BY <1>1, <3>1
  <2>2. CASE q # r
    <3>1. req'[q] = req[q]
      BY <2>2 DEF IInv, TypeOK, Load
    <3>2. QED
      BY <3>1 DEF IInv, CopiesAreSound
  <2>3. QED
    BY <2>1, <2>2
<1>5. QED
  BY <1>2, <1>3, <1>4 DEF IInv

\* Every handler that writes: the copy replaces the record, whatever happened to
\* the record in between.
LEMMA SaveStep ==
  ASSUME IInv, NEW r \in Requests, req[r].step = "loaded",
         NEW plan \in Plan, plan.period = req[r].copy.period,
         SaveAndRespond(r, plan),
         patched' \in [Plans -> 0..MaxPatches], \A i \in Plans : patched[i] <= patched'[i],
         approved \subseteq approved', approved' \subseteq Plans \X (Approvers \cup {Nobody}),
         archived \subseteq archived', archived' \subseteq Plans,
         Sound(req[r].id, plan, patched', approved', archived')
  PROVE  IInv'
<1> DEFINE id == req[r].id
<1>1. id \in Plans /\ store[id] # NoPlan /\ store[id].period = plan.period
  BY LoadedType DEF IInv, CopiesAreSound, LoadedRequest
<1>2. /\ store' = [store EXCEPT ![id] = plan]
      /\ req' = [req EXCEPT ![r] = Idle]
  BY DEF SaveAndRespond, Update
<1>3. /\ store'[id] = plan /\ plan # NoPlan
      /\ \A i \in Plans : i # id => store'[i] = store[i]
  BY <1>1, <1>2 DEF IInv, TypeOK, NoPlan, Plan, Statuses
<1>4. /\ patched \in [Plans -> Nat] /\ patched' \in [Plans -> Nat]
  BY MaxPatchesAssumption, SMT DEF IInv, TypeOK
<1>5. TypeOK'
  BY <1>1, <1>2 DEF IInv, TypeOK
<1>6. StoredIsSound'
  <2> SUFFICES ASSUME NEW i \in Plans, store'[i] # NoPlan
               PROVE  Sound(i, store'[i], patched', approved', archived')
    BY DEF StoredIsSound
  <2>1. CASE i = id
    BY <1>3, <2>1
  <2>2. CASE i # id
    <3>1. store'[i] = store[i] /\ store[i] \in Plan
          /\ Sound(i, store[i], patched, approved, archived)
      BY <1>3, <2>2, PlanType DEF IInv, StoredIsSound
    <3>2. QED
      BY <1>4, <3>1, SoundStays
  <2>3. QED
    BY <2>1, <2>2
<1>7. CopiesAreSound'
  <2> SUFFICES ASSUME NEW q \in Requests, req'[q].step = "loaded"
               PROVE  /\ store'[req'[q].id] # NoPlan
                      /\ req'[q].copy.period = store'[req'[q].id].period
                      /\ Sound(req'[q].id, req'[q].copy, patched', approved', archived')
    BY DEF CopiesAreSound
  <2>1. q # r
    BY <1>2 DEF IInv, TypeOK, Idle
  <2>2. req'[q] = req[q]
    BY <1>2, <2>1 DEF IInv, TypeOK
  <2>3. req[q].id \in Plans /\ req[q].copy \in Plan
    BY <2>2, LoadedType DEF IInv, LoadedRequest
  <2>4. /\ store[req[q].id] # NoPlan
        /\ req[q].copy.period = store[req[q].id].period
        /\ Sound(req[q].id, req[q].copy, patched, approved, archived)
    BY <2>2 DEF IInv, CopiesAreSound
  <2>5. Sound(req[q].id, req[q].copy, patched', approved', archived')
    BY <1>4, <2>3, <2>4, SoundStays
  <2>6. QED
    BY <1>1, <1>3, <2>2, <2>3, <2>4, <2>5
<1>8. YearsWereFreed'
  <2>1. \A i \in Plans : store'[i] # NoPlan => store[i] # NoPlan /\ store'[i].period = store[i].period
    BY <1>1, <1>3
  <2>2. QED
    BY <2>1 DEF IInv, YearsWereFreed, Plans
<1>9. QED
  BY <1>5, <1>6, <1>7, <1>8 DEF IInv

\* What a handler knows of its copy.
LEMMA CopyFacts ==
  ASSUME IInv, NEW r \in Requests, req[r].step = "loaded"
  PROVE  /\ req[r].id \in Plans /\ req[r].copy \in Plan
         /\ Sound(req[r].id, req[r].copy, patched, approved, archived)
         /\ patched \in [Plans -> 0..MaxPatches]
         /\ approved \subseteq Plans \X (Approvers \cup {Nobody}) /\ archived \subseteq Plans
  BY LoadedType DEF IInv, TypeOK, CopiesAreSound, LoadedRequest

LEMMA UpdateStep ==
  ASSUME IInv, NEW r \in Requests, UpdatePlan(r)
  PROVE  IInv'
<1> DEFINE id == req[r].id
           plan == Apply(req[r].copy)
<1>1. /\ req[r].step = "loaded" /\ patched[id] < MaxPatches
      /\ SaveAndRespond(r, plan)
      /\ patched' = [patched EXCEPT ![id] = @ + 1]
      /\ UNCHANGED <<approved, archived>>
  BY DEF UpdatePlan
<1>2. /\ id \in Plans /\ req[r].copy \in Plan
      /\ Sound(id, req[r].copy, patched, approved, archived)
      /\ patched \in [Plans -> 0..MaxPatches]
      /\ approved \subseteq Plans \X (Approvers \cup {Nobody}) /\ archived \subseteq Plans
  BY <1>1, CopyFacts
<1>3. /\ patched' \in [Plans -> 0..MaxPatches]
      /\ patched'[id] = patched[id] + 1 /\ \A i \in Plans : patched[i] <= patched'[i]
  BY <1>1, <1>2, MaxPatchesAssumption, SMT
<1>4. req[r].copy.version + 1 \in 1..MaxPatches+1 /\ req[r].copy.version + 1 <= patched'[id] + 1
  BY <1>1, <1>2, <1>3, MaxPatchesAssumption, SMT DEF Sound, Plan
<1>5. plan \in Plan /\ plan.period = req[r].copy.period
  BY <1>2, <1>4 DEF Apply, Plan
<1>6. Sound(id, plan, patched', approved', archived')
  BY <1>1, <1>2, <1>4 DEF Apply, Plan, Sound
<1>7. QED
  BY <1>1, <1>2, <1>3, <1>5, <1>6, SaveStep

LEMMA ApproveStep ==
  ASSUME IInv, NEW r \in Requests, NEW by \in Approvers \cup {Nobody}, ApprovePlan(r, by)
  PROVE  IInv'
<1> DEFINE id == req[r].id
           plan == Approved(req[r].copy, by)
<1>1. /\ req[r].step = "loaded" /\ (by = Nobody => id \in Annual)
      /\ SaveAndRespond(r, plan)
      /\ approved' = approved \cup {<<id, by>>}
      /\ UNCHANGED <<patched, archived>>
  BY DEF ApprovePlan
<1>2. /\ id \in Plans /\ req[r].copy \in Plan
      /\ Sound(id, req[r].copy, patched, approved, archived)
      /\ patched \in [Plans -> 0..MaxPatches]
      /\ approved \subseteq Plans \X (Approvers \cup {Nobody}) /\ archived \subseteq Plans
  BY <1>1, CopyFacts
<1>3. plan \in Plan /\ plan.period = req[r].copy.period
  BY <1>2 DEF Approved, Plan, Statuses
<1>4. id \in Strategic => by # Nobody
  BY <1>1, DisjointAssumption
<1>5. Sound(id, plan, patched', approved', archived')
  BY <1>1, <1>2, <1>4 DEF Approved, Plan, Sound
<1>6. \A i \in Plans : patched[i] <= patched'[i]
  BY <1>1, <1>2, MaxPatchesAssumption, SMT
<1>7. /\ patched' \in [Plans -> 0..MaxPatches]
      /\ approved \subseteq approved' /\ approved' \subseteq Plans \X (Approvers \cup {Nobody})
      /\ archived \subseteq archived' /\ archived' \subseteq Plans
  BY <1>1, <1>2
<1>8. QED
  BY <1>1, <1>3, <1>5, <1>6, <1>7, SaveStep

LEMMA ActivateStep ==
  ASSUME IInv, NEW r \in Requests, ActivatePlan(r)
  PROVE  IInv'
<1> DEFINE id == req[r].id
           plan == [req[r].copy EXCEPT !.status = "active"]
<1>1. /\ req[r].step = "loaded" /\ req[r].copy.status = "approved"
      /\ SaveAndRespond(r, plan)
      /\ UNCHANGED <<patched, approved, archived>>
  BY DEF ActivatePlan
<1>2. /\ id \in Plans /\ req[r].copy \in Plan
      /\ Sound(id, req[r].copy, patched, approved, archived)
      /\ patched \in [Plans -> 0..MaxPatches]
      /\ approved \subseteq Plans \X (Approvers \cup {Nobody}) /\ archived \subseteq Plans
  BY <1>1, CopyFacts
<1>3. plan \in Plan /\ plan.period = req[r].copy.period
  BY <1>2 DEF Plan, Statuses
<1>4. Sound(id, plan, patched', approved', archived')
  BY <1>1, <1>2 DEF Plan, Sound
<1>5. \A i \in Plans : patched[i] <= patched'[i]
  BY <1>1, <1>2, MaxPatchesAssumption, SMT
<1>6. QED
  BY <1>1, <1>2, <1>3, <1>4, <1>5, SaveStep

LEMMA ArchiveStep ==
  ASSUME IInv, NEW r \in Requests, ArchivePlan(r)
  PROVE  IInv'
<1> DEFINE id == req[r].id
           plan == [req[r].copy EXCEPT !.status = "archived"]
<1>1. /\ req[r].step = "loaded"
      /\ SaveAndRespond(r, plan)
      /\ archived' = archived \cup {id}
      /\ UNCHANGED <<patched, approved>>
  BY DEF ArchivePlan
<1>2. /\ id \in Plans /\ req[r].copy \in Plan
      /\ Sound(id, req[r].copy, patched, approved, archived)
      /\ patched \in [Plans -> 0..MaxPatches]
      /\ approved \subseteq Plans \X (Approvers \cup {Nobody}) /\ archived \subseteq Plans
  BY <1>1, CopyFacts
<1>3. plan \in Plan /\ plan.period = req[r].copy.period
  BY <1>2 DEF Plan, Statuses
<1>4. Sound(id, plan, patched', approved', archived')
  BY <1>1, <1>2 DEF Plan, Sound
<1>5. \A i \in Plans : patched[i] <= patched'[i]
  BY <1>1, <1>2, MaxPatchesAssumption, SMT
<1>6. archived \subseteq archived' /\ archived' \subseteq Plans
  BY <1>1, <1>2
<1>7. QED
  BY <1>1, <1>2, <1>3, <1>4, <1>5, <1>6, SaveStep

LEMMA RefuseStep ==
  ASSUME IInv, NEW r \in Requests, Refuse(r)
  PROVE  IInv'
<1>1. TypeOK' /\ StoredIsSound' /\ YearsWereFreed'
  BY DEF IInv, Refuse, TypeOK, StoredIsSound, YearsWereFreed
<1>2. \A q \in Requests : req'[q].step = "loaded" => q # r /\ req'[q] = req[q]
  BY DEF IInv, Refuse, TypeOK, Idle
<1>3. CopiesAreSound'
  BY <1>2 DEF IInv, Refuse, CopiesAreSound
<1>4. QED
  BY <1>1, <1>3 DEF IInv

LEMMA NextIInv == IInv /\ [Next]_vars => IInv'
<1> SUFFICES ASSUME IInv, [Next]_vars
             PROVE  IInv'
  OBVIOUS
<1>1. CASE \E id \in Plans, p \in Periods : CreateStrategic(id, p) \/ CreateAnnual(id, p)
  BY <1>1, CreateStep
<1>2. CASE \E r \in Requests, id \in Plans : Load(r, id)
  BY <1>2, LoadStep
<1>3. CASE \E r \in Requests : UpdatePlan(r)
  BY <1>3, UpdateStep
<1>4. CASE \E r \in Requests : ActivatePlan(r)
  BY <1>4, ActivateStep
<1>5. CASE \E r \in Requests : ArchivePlan(r)
  BY <1>5, ArchiveStep
<1>6. CASE \E r \in Requests : Refuse(r)
  BY <1>6, RefuseStep
<1>7. CASE \E r \in Requests, by \in Approvers \cup {Nobody} : ApprovePlan(r, by)
  BY <1>7, ApproveStep
<1>8. CASE UNCHANGED vars
  BY <1>8 DEF IInv, TypeOK, StoredIsSound, CopiesAreSound, YearsWereFreed, vars
<1>9. QED
  BY <1>1, <1>2, <1>3, <1>4, <1>5, <1>6, <1>7, <1>8 DEF Next

LEMMA Invariance == Spec => []IInv
  BY InitIInv, NextIInv, PTL DEF Spec

\* Plans, copies and answers keep their types (plan.go, store.go).
THEOREM TypeCorrect == Spec => []TypeOK
  BY Invariance, PTL DEF IInv

\* An approved or active plan carries an approval that was answered, however the
\* handlers' Get and Update interleave (plan.go:154-165, store.go:64).
THEOREM ApprovalsWereAnswered == Spec => []StoredWasSignedOff
<1>1. IInv => StoredWasSignedOff
  BY DEF IInv, StoredIsSound, Sound, StoredWasSignedOff
<1>2. QED
  BY <1>1, Invariance, PTL

\* A lost update loses a version, and none is invented (plan.go:196-213).
THEOREM VersionsCountAnswers == Spec => []VersionsWereAnswered
<1>1. IInv => VersionsWereAnswered
  BY DEF IInv, StoredIsSound, Sound, VersionsWereAnswered
<1>2. QED
  BY <1>1, Invariance, PTL

\* The check on the year (store.go:94) is defeated only by a write that brings an
\* archived plan back.
THEOREM YearsAreSharedByRevival == Spec => []YearSharedOnlyAfterRevival
<1>1. IInv => YearSharedOnlyAfterRevival
  BY DEF IInv, YearsWereFreed, YearSharedOnlyAfterRevival
<1>2. QED
  BY <1>1, Invariance, PTL

(***************************************************************************)
(* Assurance maps and resource calendars (PlanningRecords)                 *)
(*                                                                         *)
(* A PATCH that nobody overlaps writes the stored record back with its     *)
(* changes, because its copy is the stored record until it saves.  That    *)
(* there is one such PATCH at most ends, for good, with an overlap.        *)
(***************************************************************************)

\* The record of kind k that a creation without a body makes.
Fresh(k) == IF k = "assurance_map" THEN EmptyMatrix ELSE {}

\* The records of kind k: a name and a body of the clients, or the fresh one.
RecordOf(k) == [name : Names, body : Bodies(k) \cup {Fresh(k)}]

\* What a PATCH of kind k holds.
Loaded(k) == [phase : {"loaded"}, kind : {k}, copy : RecordOf(k)]

RecordsTypeOK ==
  /\ record \in [Kinds -> RecordOf("assurance_map") \cup RecordOf("resource_calendar") \cup {NoRecord}]
  /\ answered \in [Kinds -> RecordOf("assurance_map") \cup RecordOf("resource_calendar") \cup {NoRecord}]
  /\ \A k \in Kinds : record[k] \in RecordOf(k) \cup {NoRecord}
  /\ \A k \in Kinds : answered[k] \in RecordOf(k) \cup {NoRecord}
  /\ patch \in [Patches -> {NoPatch} \cup Loaded("assurance_map") \cup Loaded("resource_calendar")]
  /\ overlapped \subseteq Kinds

Patching(p, k) == patch[p] # NoPatch /\ patch[p].kind = k

\* Unless two PATCHes of a kind overlapped, there is one at most, and its copy is
\* what is stored.
CopiesAreCurrent ==
  \A k \in Kinds \ overlapped : \A p \in Patches : Patching(p, k) =>
    /\ patch[p].copy = record[k]
    /\ \A q \in Patches : Patching(q, k) => q = p

\* Only what was created is answered for or patched.
CreatedFirst == /\ \A k \in Kinds : record[k] = NoRecord <=> answered[k] = NoRecord
                /\ \A k \in Kinds : \A p \in Patches : Patching(p, k) => record[k] # NoRecord

RecordsInv == RecordsTypeOK /\ ChangesAreKept /\ CopiesAreCurrent /\ CreatedFirst

LEMMA NoRecordIsNone == \A k \in Kinds : NoRecord \notin RecordOf(k)
BY DEF NoRecord, RecordOf

LEMMA NoPatchIsNone == \A k \in Kinds : NoPatch \notin Loaded(k)
BY DEF NoPatch, Loaded

LEMMA RecordsInitInv == RecordsInit => RecordsInv
BY DEF RecordsInit, RecordsInv, RecordsTypeOK, ChangesAreKept, CopiesAreCurrent,
       CreatedFirst, Patching

LEMMA CreateRecordInv ==
  ASSUME RecordsInv, NEW k \in Kinds, NEW new \in RecordOf(k), CreateRecord(k, new)
  PROVE  RecordsInv'
<1>1. /\ record[k] = NoRecord /\ record' = [record EXCEPT ![k] = new]
      /\ answered' = [answered EXCEPT ![k] = new]
      /\ patch' = patch /\ overlapped' = overlapped
  BY DEF CreateRecord
<1>2. RecordsTypeOK'
  BY <1>1 DEF RecordsInv, RecordsTypeOK, Kinds
<1>3. ChangesAreKept'
  BY <1>1 DEF RecordsInv, RecordsTypeOK, ChangesAreKept
<1>4. CopiesAreCurrent'
  <2>1. \A p \in Patches : ~Patching(p, k)
    BY <1>1 DEF RecordsInv, CreatedFirst
  <2> QED  BY <2>1, <1>1 DEF RecordsInv, RecordsTypeOK, CopiesAreCurrent, Patching
<1>5. CreatedFirst'
  BY <1>1, NoRecordIsNone DEF RecordsInv, RecordsTypeOK, CreatedFirst, Patching
<1> QED  BY <1>2, <1>3, <1>4, <1>5 DEF RecordsInv

LEMMA GetCopyInv ==
  ASSUME RecordsInv, NEW p \in Patches, NEW k \in Kinds, GetCopy(p, k)
  PROVE  RecordsInv'
<1> DEFINE loaded == [phase |-> "loaded", kind |-> k, copy |-> record[k]]
<1>1. /\ patch[p] = NoPatch /\ record[k] # NoRecord
      /\ patch' = [patch EXCEPT ![p] = loaded]
      /\ overlapped' = IF \E q \in Patches : Patching(q, k)
                       THEN overlapped \cup {k} ELSE overlapped
      /\ record' = record /\ answered' = answered
  BY DEF GetCopy, Patching
<1>2. loaded \in Loaded(k)
  BY <1>1 DEF RecordsInv, RecordsTypeOK, Loaded
<1>3. RecordsTypeOK'
  BY <1>1, <1>2 DEF RecordsInv, RecordsTypeOK, Kinds
<1>4. ChangesAreKept'
  BY <1>1 DEF RecordsInv, ChangesAreKept
<1>5. CopiesAreCurrent'
  <2>1. loaded # NoPatch /\ loaded.kind = k /\ loaded.copy = record[k]
    BY <1>2, NoPatchIsNone
  <2>2. patch'[p] = loaded /\ \A q \in Patches \ {p} : patch'[q] = patch[q]
    BY <1>1 DEF RecordsInv, RecordsTypeOK
  <2> HIDE DEF loaded
  <2> QED  BY <2>1, <2>2, <1>1 DEF RecordsInv, CopiesAreCurrent, Patching
<1>6. CreatedFirst'
  <2>1. loaded.kind = k
    OBVIOUS
  <2>2. patch'[p] = loaded /\ \A q \in Patches \ {p} : patch'[q] = patch[q]
    BY <1>1 DEF RecordsInv, RecordsTypeOK
  <2> HIDE DEF loaded
  <2> QED  BY <2>1, <2>2, <1>1 DEF RecordsInv, CreatedFirst, Patching
<1> QED  BY <1>3, <1>4, <1>5, <1>6 DEF RecordsInv

\* What a change makes of a record is a record of its kind.
LEMMA OverFits ==
  ASSUME NEW k \in Kinds, NEW fields \in RecordOf(k), NEW change,
         "name" \in DOMAIN change => change["name"] \in Names,
         "body" \in DOMAIN change => change["body"] \in Bodies(k)
  PROVE  Over(change, fields) \in RecordOf(k)
<1> DEFINE new == Over(change, fields)
<1>1. /\ DOMAIN fields = {"name", "body"}
      /\ fields["name"] \in Names /\ fields["body"] \in Bodies(k) \cup {Fresh(k)}
  BY DEF RecordOf
<1>2. /\ new = [f \in {"name", "body"} |-> new[f]]
      /\ new["name"] \in Names /\ new["body"] \in Bodies(k) \cup {Fresh(k)}
  BY <1>1 DEF Over
<1> HIDE DEF new
<1>3. new = [name |-> new["name"], body |-> new["body"]]
  BY <1>2
<1>4. new \in RecordOf(k)
  BY <1>2, <1>3 DEF RecordOf
<1> QED  BY <1>4 DEF new

LEMMA UpdateRecordInv ==
  ASSUME RecordsInv, NEW p \in Patches, patch[p] # NoPatch, NEW change,
         UpdateRecord(p, change),
         "name" \in DOMAIN change => change["name"] \in Names,
         "body" \in DOMAIN change => change["body"] \in Bodies(patch[p].kind)
  PROVE  RecordsInv'
<1> DEFINE k    == patch[p].kind
           copy == patch[p].copy
<1>1. k \in Kinds /\ copy \in RecordOf(k)
  BY DEF RecordsInv, RecordsTypeOK, Loaded, Kinds
<1>2. /\ record' = [record EXCEPT ![k] = Over(change, copy)]
      /\ answered' = [answered EXCEPT ![k] = Over(change, answered[k])]
      /\ patch' = [patch EXCEPT ![p] = NoPatch] /\ overlapped' = overlapped
  BY DEF UpdateRecord, ApplyFields
<1>3. answered[k] \in RecordOf(k)
  BY <1>1 DEF RecordsInv, RecordsTypeOK, CreatedFirst, Patching
<1>4. Over(change, copy) \in RecordOf(k) /\ Over(change, answered[k]) \in RecordOf(k)
  BY <1>1, <1>3, OverFits
<1> HIDE DEF k, copy
<1>5. RecordsTypeOK'
  BY <1>1, <1>2, <1>4 DEF RecordsInv, RecordsTypeOK, Kinds
<1>6. ChangesAreKept'
  <2>1. k \notin overlapped => copy = answered[k]
    BY <1>1 DEF k, copy, RecordsInv, ChangesAreKept, CopiesAreCurrent, Patching
  <2> QED  BY <2>1, <1>1, <1>2 DEF RecordsInv, RecordsTypeOK, ChangesAreKept
<1>7. CopiesAreCurrent'
  <2>1. ASSUME NEW q \in Patches \ {p}, Patching(q, k) PROVE k \in overlapped
    BY <2>1, <1>1 DEF k, RecordsInv, CopiesAreCurrent, Patching
  <2>2. patch'[p] = NoPatch /\ \A q \in Patches \ {p} : patch'[q] = patch[q]
    BY <1>2 DEF RecordsInv, RecordsTypeOK
  <2> QED  BY <2>1, <2>2, <1>2 DEF RecordsInv, RecordsTypeOK, CopiesAreCurrent, Patching
<1>8. CreatedFirst'
  <2>1. /\ record'[k] # NoRecord /\ answered'[k] # NoRecord
        /\ \A l \in Kinds \ {k} : record'[l] = record[l] /\ answered'[l] = answered[l]
    BY <1>1, <1>2, <1>4, NoRecordIsNone DEF RecordsInv, RecordsTypeOK
  <2>2. patch'[p] = NoPatch /\ \A q \in Patches \ {p} : patch'[q] = patch[q]
    BY <1>2 DEF RecordsInv, RecordsTypeOK
  <2> QED  BY <2>1, <2>2 DEF RecordsInv, CreatedFirst, Patching
<1> QED  BY <1>5, <1>6, <1>7, <1>8 DEF RecordsInv

LEMMA RefusePatchInv ==
  ASSUME RecordsInv, NEW p \in Patches, RefusePatch(p)
  PROVE  RecordsInv'
<1>1. /\ patch' = [patch EXCEPT ![p] = NoPatch]
      /\ record' = record /\ answered' = answered /\ overlapped' = overlapped
  BY DEF RefusePatch
<1>2. patch'[p] = NoPatch /\ \A q \in Patches \ {p} : patch'[q] = patch[q]
  BY <1>1 DEF RecordsInv, RecordsTypeOK
<1>3. RecordsTypeOK'
  BY <1>1 DEF RecordsInv, RecordsTypeOK
<1>4. ChangesAreKept'
  BY <1>1 DEF RecordsInv, ChangesAreKept
<1>5. CopiesAreCurrent' /\ CreatedFirst'
  BY <1>1, <1>2 DEF RecordsInv, CopiesAreCurrent, CreatedFirst, Patching
<1> QED  BY <1>3, <1>4, <1>5 DEF RecordsInv

LEMMA RecordsNextInv == RecordsInv /\ [RecordsNext]_recordVars => RecordsInv'
<1> SUFFICES ASSUME RecordsInv, [RecordsNext]_recordVars PROVE RecordsInv'
  OBVIOUS
<1>1. ASSUME NEW n \in Names, CreateAssuranceMap(n) PROVE RecordsInv'
  <2>1. PICK new \in NewAssuranceMap(n) : CreateRecord("assurance_map", new)
    BY <1>1 DEF CreateAssuranceMap
  <2>2. new \in RecordOf("assurance_map")
    BY <2>1 DEF NewAssuranceMap, RecordOf, Bodies, Fresh
  <2> QED  BY <2>1, <2>2, CreateRecordInv DEF Kinds
<1>2. ASSUME NEW n \in Names, CreateResourceCalendar(n) PROVE RecordsInv'
  <2>1. PICK new \in NewResourceCalendar(n) : CreateRecord("resource_calendar", new)
    BY <1>2 DEF CreateResourceCalendar
  <2>2. new \in RecordOf("resource_calendar")
    BY <2>1 DEF NewResourceCalendar, RecordOf, Bodies, Fresh
  <2> QED  BY <2>1, <2>2, CreateRecordInv DEF Kinds
<1>3. ASSUME NEW p \in Patches, NEW k \in Kinds, GetCopy(p, k) PROVE RecordsInv'
  BY <1>3, GetCopyInv
<1>4. ASSUME NEW p \in Patches, RefusePatch(p) PROVE RecordsInv'
  BY <1>4, RefusePatchInv
<1>5. ASSUME NEW p \in Patches, Patched(p) PROVE RecordsInv'
  <2>1. PICK change : /\ UpdateRecord(p, change)
                      /\ "name" \in DOMAIN change => change["name"] \in Names
                      /\ "body" \in DOMAIN change => change["body"] \in Bodies(patch[p].kind)
    <3>1. CASE UpdateRecord(p, [f \in {} |-> f])
      BY <3>1
    <3>2. ASSUME NEW n \in Names, UpdateRecord(p, [name |-> n])
          PROVE  \E change : /\ UpdateRecord(p, change)
                             /\ "name" \in DOMAIN change => change["name"] \in Names
                             /\ "body" \in DOMAIN change => change["body"] \in Bodies(patch[p].kind)
      BY <3>2
    <3>3. ASSUME NEW b \in Bodies(patch[p].kind), UpdateRecord(p, [body |-> b])
          PROVE  \E change : /\ UpdateRecord(p, change)
                             /\ "name" \in DOMAIN change => change["name"] \in Names
                             /\ "body" \in DOMAIN change => change["body"] \in Bodies(patch[p].kind)
      BY <3>3
    <3>4. ASSUME NEW b \in Bodies(patch[p].kind), NEW n \in Names,
                 UpdateRecord(p, [name |-> n, body |-> b])
          PROVE  \E change : /\ UpdateRecord(p, change)
                             /\ "name" \in DOMAIN change => change["name"] \in Names
                             /\ "body" \in DOMAIN change => change["body"] \in Bodies(patch[p].kind)
      BY <3>4
    <3> QED  BY <1>5, <3>1, <3>2, <3>3, <3>4 DEF Patched
  <2> QED  BY <1>5, <2>1, UpdateRecordInv DEF Patched
<1>6. CASE UNCHANGED recordVars
  BY <1>6 DEF recordVars, RecordsInv, RecordsTypeOK, ChangesAreKept, CopiesAreCurrent,
              CreatedFirst, Patching
<1> QED  BY <1>1, <1>2, <1>3, <1>4, <1>5, <1>6 DEF RecordsNext

LEMMA SpecRecordsInv == RecordsSpec => []RecordsInv
<1> QED  BY RecordsInitInv, RecordsNextInv, PTL DEF RecordsSpec

\* A share of days, cut off to a whole percentage, reaches 100 only with the whole.
LEMMA PercentageIsFull ==
  ASSUME NEW part \in Int, NEW whole \in Nat, whole > 0
  PROVE  Percentage(part, whole) \in Int /\ (Percentage(part, whole) >= 100 <=> part >= whole)
BY DEF Percentage

LEMMA FullIsBooked ==
  ASSUME NEW auditor, auditor.available \in Nat, AllocatedDays(auditor) \in Int
  PROVE  (UtilisationPct(auditor) = 100) <=>
           (auditor.available > 0 /\ AllocatedDays(auditor) >= auditor.available)
<1>1. CASE auditor.available = 0
  BY <1>1 DEF UtilisationPct
<1>2. CASE auditor.available > 0
  <2> DEFINE pct == Percentage(AllocatedDays(auditor), auditor.available)
  <2>1. pct \in Int /\ (pct >= 100 <=> AllocatedDays(auditor) >= auditor.available)
    BY <1>2, PercentageIsFull
  <2>2. UtilisationPct(auditor) = IF pct > 100 THEN 100 ELSE pct
    BY <1>2 DEF UtilisationPct
  <2> HIDE DEF pct
  <2> QED  BY <1>2, <2>1, <2>2
<1> QED  BY <1>1, <1>2

\* A map or calendar is what its creation and its answered PATCHes made of it, and
\* its figures follow from it (handler.go:523-638, plan.go:398-495), for any
\* number of PATCHes and for calendars whose days are whole and not negative.
THEOREM SpecRecordsAreKept == RecordsSpec => []RecordsAreKept
<1>1. RecordsInv => RecordsAreKept
  <2> SUFFICES ASSUME RecordsInv PROVE RecordsAreKept
    OBVIOUS
  <2>1. \A k \in Kinds : record[k] # NoRecord => record[k].body \in Bodies(k) \cup {Fresh(k)}
    BY DEF RecordsInv, RecordsTypeOK, RecordOf
  <2>2. MatrixIsWhole
    <3>1. record["assurance_map"] # NoRecord =>
            \/ record["assurance_map"].body \in Matrices
            \/ record["assurance_map"].body = EmptyMatrix
      BY <2>1 DEF Kinds, Bodies, Fresh
    <3>2. ASSUME NEW u \in BusinessUnits, NEW d \in ControlDomains
          PROVE  \E c \in EmptyMatrix : c.unit = u /\ c.domain = d
      <4>1. [unit |-> u, domain |-> d, coverage |-> "none"] \in EmptyMatrix
        BY DEF EmptyMatrix
      <4> QED  BY <4>1
    <3> QED  BY <3>1, <3>2 DEF MatrixIsWhole
  <2>3. FullMeansBooked
    <3>1. record["resource_calendar"] # NoRecord =>
            record["resource_calendar"].body \in Calendars \cup {{}}
      BY <2>1 DEF Kinds, Bodies, Fresh
    <3> QED  BY <3>1, CalendarsAssumption, FullIsBooked DEF FullMeansBooked
  <2> QED  BY <2>2, <2>3 DEF RecordsInv, RecordsAreKept
<1> QED  BY <1>1, SpecRecordsInv, PTL

(***************************************************************************)
(* Engagements (Engagement)                                                *)
(*                                                                         *)
(* Copies share arrays with the store, so a request that appends to its    *)
(* copy may change a history that is stored.  What makes this harmless, up *)
(* to the way a run ends, is that only the fourth event is shared: three   *)
(* legal steps that have not ended are in monitoring, whatever requests    *)
(* did before, and each of the two events that can follow is an end.       *)
(***************************************************************************)

\* The dates of e tell whether it has ended and whether it went through fieldwork.
Dated(e) == /\ e.ended <=> IsTerminal(e)
            /\ e.started <=> (Len(e.events) > 0 /\ e.events[1].to = "fieldwork")

\* What is claimed of stored engagements, claimed of copies too: Update writes one.
SoundWalk(e) == e \in Record /\ Walked(e) /\ Dated(e)

\* The engagements in the store and in the hands of requests.
Held == ({engagements[id] : id \in Ids} \ {NoEngagement})
          \cup {serving[r].copy : r \in {q \in EngagementRequests : serving[q] # NotServed}}

EngagementInv == EngagementTypeOK /\ \A e \in Held : SoundWalk(e)

\* Where the first three events of e end.
Reached(e) == IF Len(e.events) = 0 THEN "planning" ELSE e.events[Len(e.events)].to

\* An event that ends an engagement after monitoring.
EndEvent(event) == event.from = "monitoring" /\ event.to \in {"completed", "cancelled"}

LEMMA WalkedParts ==
  ASSUME NEW e
  PROVE  Walked(e) <=>
           /\ Len(e.events) <= 3
           /\ e.array # 0 <=> Len(e.events) = 3
           /\ \A i \in 1..Len(e.events) :
                /\ e.events[i].from = IF i = 1 THEN "planning" ELSE e.events[i-1].to
                /\ e.events[i].to \in ValidTransitions[e.events[i].from]
           /\ e.full => /\ Len(e.events) = 3 /\ Reached(e) = "monitoring"
                        /\ e.phase \in {"completed", "cancelled"}
                        /\ EndEvent(spare[e.array])
           /\ ~e.full => e.phase = Reached(e)
BY DEF Walked, Reached, EndEvent

LEMMA Successors ==
  /\ \A from \in Phases : \A to \in ValidTransitions[from] : to \in Phases /\ to # "planning"
  /\ \A from \in Phases : "fieldwork" \in ValidTransitions[from] => from = "planning"
  /\ \A from \in {"completed", "cancelled"} : ValidTransitions[from] = {}
  /\ ValidTransitions["planning"] = {"fieldwork", "cancelled"}
  /\ ValidTransitions["fieldwork"] = {"reporting", "cancelled"}
  /\ ValidTransitions["reporting"] = {"monitoring", "cancelled"}
  /\ ValidTransitions["monitoring"] = {"completed", "cancelled"}
BY DEF ValidTransitions, Phases

\* A legal walk has left planning for good, and one of three steps that has not
\* ended is in monitoring.
LEMMA WhereWalksLead ==
  ASSUME NEW e \in Record, Walked(e)
  PROVE  /\ Reached(e) \in Phases
         /\ Len(e.events) > 0 => Reached(e) # "planning"
         /\ Len(e.events) = 3 /\ ~IsTerminal(e) => ~e.full /\ e.phase = "monitoring"
         /\ ~IsTerminal(e) => ~e.full /\ e.phase = Reached(e)
<1>1. /\ e.events \in Seq(Event) /\ e.full \in BOOLEAN
      /\ \A i \in 1..Len(e.events) : e.events[i].from \in Phases /\ e.events[i].to \in Phases
      /\ Len(e.events) \in Nat
  <2>1. e.events \in Seq(Event) /\ e.full \in BOOLEAN
    BY DEF Record
  <2>2. Len(e.events) \in Nat /\ \A i \in 1..Len(e.events) : e.events[i] \in Event
    BY <2>1, ElementOfSeq, LenProperties
  <2>3. \A event \in Event : event.from \in Phases /\ event.to \in Phases
    BY DEF Event
  <2> QED  BY <2>1, <2>2, <2>3
<1>2. \A i \in 1..Len(e.events) :
        /\ e.events[i].from = IF i = 1 THEN "planning" ELSE e.events[i-1].to
        /\ e.events[i].to \in ValidTransitions[e.events[i].from]
        /\ e.events[i].to # "planning"
  BY <1>1, WalkedParts, Successors
<1>3. ~IsTerminal(e) => ~e.full /\ e.phase = Reached(e)
  BY <1>1, WalkedParts DEF IsTerminal
<1>4. Reached(e) \in Phases /\ (Len(e.events) > 0 => Reached(e) # "planning")
  BY <1>1, <1>2 DEF Reached, Phases
<1>5. ASSUME Len(e.events) = 3, ~IsTerminal(e) PROVE e.phase = "monitoring"
  <2>1. e.phase = e.events[3].to /\ e.phase \notin {"completed", "cancelled"}
    BY <1>3, <1>5 DEF Reached, IsTerminal
  <2>2. /\ e.events[1].to \in {"fieldwork", "cancelled"}
        /\ e.events[2].to \in ValidTransitions[e.events[1].to]
        /\ e.events[3].to \in ValidTransitions[e.events[2].to]
    BY <1>2, <1>5, Successors
  <2> QED  BY <2>1, <2>2, Successors
<1> QED  BY <1>3, <1>4, <1>5

\* Slots are added, and those there were hold what they held or an end.
SparesGrow == /\ spare' \in Seq(Event \cup {Unset}) /\ Len(spare) <= Len(spare')
              /\ \A k \in 1..Len(spare) : spare'[k] = spare[k] \/ EndEvent(spare'[k])

LEMMA WalkStays ==
  ASSUME spare \in Seq(Event \cup {Unset}), SparesGrow, NEW e, SoundWalk(e)
  PROVE  SoundWalk(e)'
<1>1. Len(spare) \in Nat /\ Len(spare') \in Nat
  BY DEF SparesGrow
<1>2. e \in Record'
  <2>1. 0..Len(spare) \subseteq 0..Len(spare')
    BY <1>1 DEF SparesGrow
  <2> QED  BY <2>1 DEF Record, SoundWalk
<1>3. e.full => e.array \in 1..Len(spare)
  BY <1>1, WalkedParts DEF SoundWalk, Record
<1>4. Walked(e)'
  BY <1>3, WalkedParts DEF SoundWalk, SparesGrow, Walked, EndEvent, Reached
<1>5. Dated(e)'
  BY DEF SoundWalk, Dated, IsTerminal
<1> QED  BY <1>2, <1>4, <1>5 DEF SoundWalk

LEMMA HeldStays ==
  ASSUME EngagementInv, SparesGrow, \A e \in Held' : e \in Held \/ SoundWalk(e)'
  PROVE  \A e \in Held' : SoundWalk(e)'
BY WalkStays DEF EngagementInv, EngagementTypeOK

\* What a request at work holds.
Served == [step : {"loaded", "changed"}, id : Ids, copy : Record]

\* What is stored and held still has its type once slots are added.
LEMMA TypesStay ==
  ASSUME EngagementTypeOK, SparesGrow
  PROVE  /\ engagements \in [Ids -> Record' \cup {NoEngagement}]
         /\ serving \in [EngagementRequests -> {NotServed} \cup Served']
<1>1. Record \subseteq Record'
  <2>1. Len(spare) \in Nat /\ Len(spare') \in Nat /\ Len(spare) <= Len(spare')
    BY DEF SparesGrow, EngagementTypeOK
  <2> QED  BY <2>1 DEF Record
<1>2. Served \subseteq Served'
  BY <1>1 DEF Served
<1> QED  BY <1>1, <1>2 DEF EngagementTypeOK, Served

LEMMA EngagementInitInv == EngagementInit => EngagementInv
<1> SUFFICES ASSUME EngagementInit PROVE EngagementInv
  OBVIOUS
<1>1. Held = {}
  BY DEF EngagementInit, Held
<1> QED  BY <1>1 DEF EngagementInit, EngagementInv, EngagementTypeOK

LEMMA NewIsSound ==
  ASSUME spare' \in Seq(Event \cup {Unset}), NEW e, e = NewEngagement
  PROVE  SoundWalk(e)'
<1>1. e \in Record'
  BY DEF NewEngagement, Record, Phases
<1>2. Walked(e)'
  BY DEF NewEngagement, Walked
<1>3. Dated(e)'
  BY DEF NewEngagement, Dated, IsTerminal
<1> QED  BY <1>1, <1>2, <1>3 DEF SoundWalk

LEMMA CreateEngagementInv ==
  ASSUME EngagementInv, NEW id \in Ids, CreateEngagement(id)
  PROVE  EngagementInv'
<1>1. /\ engagements' = [engagements EXCEPT ![id] = NewEngagement]
      /\ UNCHANGED <<spare, serving>>
  BY DEF CreateEngagement
<1>2. SparesGrow
  BY <1>1 DEF SparesGrow, EngagementInv, EngagementTypeOK
<1>3. \A e \in Held' : e \in Held \/ e = NewEngagement
  BY <1>1 DEF Held, EngagementInv, EngagementTypeOK
<1>4. \A e \in Held' : e \in Held \/ SoundWalk(e)'
  BY <1>2, <1>3, NewIsSound DEF SparesGrow
<1>5. \A e \in Held' : SoundWalk(e)'
  BY <1>2, <1>4, HeldStays
<1>6. NewEngagement \in Record'
  BY <1>2, NewIsSound DEF SparesGrow, SoundWalk
<1>7. EngagementTypeOK'
  BY <1>1, <1>2, <1>6, TypesStay DEF EngagementInv, EngagementTypeOK, Served, SparesGrow
<1> QED  BY <1>5, <1>7 DEF EngagementInv

\* A request that is at work holds a copy that is sound.
LEMMA ServingHolds ==
  ASSUME EngagementInv, NEW r \in EngagementRequests, serving[r] # NotServed
  PROVE  /\ serving[r] \in Served
         /\ serving[r].copy \in Held /\ SoundWalk(serving[r].copy)
BY DEF EngagementInv, EngagementTypeOK, Served, Held

LEMMA LoadEngagementInv ==
  ASSUME EngagementInv, NEW id \in Ids, NEW r \in EngagementRequests, LoadEngagement(r, id)
  PROVE  EngagementInv'
<1>1. /\ engagements[id] # NoEngagement
      /\ serving' = [serving EXCEPT ![r] = [step |-> "loaded", id |-> id, copy |-> engagements[id]]]
      /\ UNCHANGED <<engagements, spare>>
  BY DEF LoadEngagement
<1>2. SparesGrow
  BY <1>1 DEF SparesGrow, EngagementInv, EngagementTypeOK
<1>3. \A e \in Held' : e \in Held
  BY <1>1 DEF Held, EngagementInv, EngagementTypeOK
<1>4. \A e \in Held' : SoundWalk(e)'
  BY <1>2, <1>3, WalkStays DEF EngagementInv, EngagementTypeOK
<1>5. engagements[id] \in Record'
  BY <1>1, <1>2, TypesStay DEF EngagementInv
<1>6. EngagementTypeOK'
  BY <1>1, <1>2, <1>5, TypesStay DEF EngagementInv, EngagementTypeOK, Served, SparesGrow
<1> QED  BY <1>4, <1>6 DEF EngagementInv

\* Patch and SaveTransition write the copy back; RefuseRequest drops it.
LEMMA CopyIsSavedOrDropped ==
  ASSUME EngagementInv, NEW r \in EngagementRequests, serving[r] # NotServed,
         \/ UpdateEngagement(serving[r].id, serving[r].copy)
         \/ engagements' = engagements,
         serving' = [serving EXCEPT ![r] = NotServed], spare' = spare
  PROVE  EngagementInv'
<1>1. serving[r] \in Served /\ serving[r].copy \in Held /\ serving[r].copy \in Record
  BY ServingHolds DEF SoundWalk
<1>2. SparesGrow
  BY DEF SparesGrow, EngagementInv, EngagementTypeOK
<1>3. serving[r].id \in Ids
  BY <1>1 DEF Served
<1>4. \A e \in Held' : e \in Held
  BY <1>1, <1>3 DEF Held, EngagementInv, EngagementTypeOK, UpdateEngagement
<1>5. \A e \in Held' : SoundWalk(e)'
  BY <1>2, <1>4, WalkStays DEF EngagementInv, EngagementTypeOK
<1>6. serving[r].copy \in Record'
  BY <1>1 DEF Record
<1>7. engagements' \in [Ids -> Record' \cup {NoEngagement}]
  BY <1>2, <1>3, <1>6, TypesStay DEF EngagementInv, UpdateEngagement
<1>8. EngagementTypeOK'
  BY <1>2, <1>7, TypesStay DEF EngagementInv, EngagementTypeOK, Served, SparesGrow
<1> QED  BY <1>5, <1>8 DEF EngagementInv

\* What a transition makes of e, field by field.
LEMMA MovedFields ==
  ASSUME NEW e \in Record, NEW to \in Phases
  PROVE  /\ Moved(e, to) \in Record
         /\ Moved(e, to).phase = to
         /\ Moved(e, to).started <=> (e.started \/ to = "fieldwork")
         /\ Moved(e, to).ended <=> (e.ended \/ to \in {"completed", "cancelled"})
         /\ Moved(e, to).events = e.events
         /\ Moved(e, to).array = e.array
         /\ Moved(e, to).full = e.full
<1> DEFINE started == e.started \/ to = "fieldwork"
           ended   == e.ended \/ to \in {"completed", "cancelled"}
           moved   == [e EXCEPT !.phase = to, !.started = started, !.ended = ended]
<1>1. started \in BOOLEAN /\ ended \in BOOLEAN
  OBVIOUS
<1>2. Moved(e, to) = moved
  BY DEF Moved
<1> HIDE DEF started, ended
<1>3. /\ moved \in Record /\ moved.phase = to /\ moved.started = started
      /\ moved.ended = ended /\ moved.events = e.events /\ moved.array = e.array
      /\ moved.full = e.full
  BY <1>1 DEF Record
<1> HIDE DEF moved
<1> USE DEF started, ended
<1> QED  BY <1>2, <1>3

\* A walk goes on by one legal step, in the first three events.
LEMMA LongerIsSound ==
  ASSUME spare \in Seq(Event \cup {Unset}), SparesGrow,
         NEW e \in Held, SoundWalk(e), NEW to \in Phases,
         Len(e.events) < 3, ~IsTerminal(e), CanTransition(e, to),
         NEW new \in Record', new.phase = to,
         new.started <=> (e.started \/ to = "fieldwork"),
         new.ended <=> (e.ended \/ to \in {"completed", "cancelled"}),
         new.events = Append(e.events, [from |-> e.phase, to |-> to]),
         new.array # 0 <=> Len(e.events) = 2, new.full = e.full
  PROVE  SoundWalk(new)'
<1> DEFINE n == Len(e.events)
           event == [from |-> e.phase, to |-> to]
<1>1. /\ e \in Record /\ Walked(e) /\ Dated(e) /\ e.events \in Seq(Event)
      /\ e.phase \in Phases /\ e.started \in BOOLEAN /\ e.ended \in BOOLEAN
      /\ e.full \in BOOLEAN
  BY DEF SoundWalk, Record
<1>2. /\ ~e.full /\ e.phase = Reached(e) /\ (n > 0 => e.phase # "planning")
  BY <1>1, WhereWalksLead
<1>3. event \in Event /\ n \in Nat
  BY <1>1 DEF Event
<1>4. /\ new.events \in Seq(Event) /\ Len(new.events) = n + 1
      /\ new.events[n + 1] = event
      /\ \A i \in 1..n : new.events[i] = e.events[i]
  BY <1>1, <1>3
<1>5. to \in ValidTransitions[e.phase]
  BY DEF CanTransition
<1>6. Walked(new)'
  <2>1. /\ Len(new.events) <= 3
        /\ new.array # 0 <=> Len(new.events) = 3
        /\ ~new.full
    <3>1. ~new.full
      BY <1>2
    <3>2. n < 3 /\ (new.array # 0 <=> n = 2)
      OBVIOUS
    <3> HIDE DEF n
    <3> QED  BY <3>1, <3>2, <1>3, <1>4
  <2>2. \A i \in 1..n :
          /\ e.events[i].from = IF i = 1 THEN "planning" ELSE e.events[i-1].to
          /\ e.events[i].to \in ValidTransitions[e.events[i].from]
    BY <1>1, WalkedParts
  <2>3. ASSUME NEW i \in 1..n
        PROVE  /\ new.events[i].from = IF i = 1 THEN "planning" ELSE new.events[i-1].to
               /\ new.events[i].to \in ValidTransitions[new.events[i].from]
    <3>1. i # 1 => i - 1 \in 1..n
      BY <1>3
    <3> QED  BY <2>2, <3>1, <1>4
  <2>4. /\ new.events[n + 1].from = IF n + 1 = 1 THEN "planning" ELSE new.events[n].to
        /\ new.events[n + 1].to \in ValidTransitions[new.events[n + 1].from]
    <3>1. new.events[n + 1].from = e.phase /\ new.events[n + 1].to = to
      BY <1>4
    <3>2. e.phase = IF n = 0 THEN "planning" ELSE new.events[n].to
      BY <1>2, <1>3, <1>4 DEF Reached
    <3> QED  BY <3>1, <3>2, <1>3, <1>5
  <2>5. ~new.full => new.phase = IF Len(new.events) = 0 THEN "planning"
                                 ELSE new.events[Len(new.events)].to
    BY <1>3, <1>4
  <2>6. \A i \in 1..Len(new.events) :
          /\ new.events[i].from = IF i = 1 THEN "planning" ELSE new.events[i-1].to
          /\ new.events[i].to \in ValidTransitions[new.events[i].from]
    <3>1. \A i \in 1..Len(new.events) : i \in 1..n \/ i = n + 1
      BY <1>3, <1>4
    <3>2. n + 1 - 1 = n
      BY <1>3
    <3> QED  BY <2>3, <2>4, <3>1, <3>2
  <2> HIDE DEF n, event
  <2> QED  BY <2>1, <2>5, <2>6 DEF Walked
<1>7. Dated(new)'
  <2>1. ~e.ended /\ (e.started <=> (n > 0 /\ e.events[1].to = "fieldwork"))
    BY <1>1 DEF Dated
  <2>2. new.ended <=> IsTerminal(new)
    BY <2>1 DEF IsTerminal
  <2>3. n > 0 => to # "fieldwork"
    BY <1>1, <1>2, <1>5, Successors
  <2>4. new.started <=> (Len(new.events) > 0 /\ new.events[1].to = "fieldwork")
    <3>1. CASE n = 0
      BY <3>1, <2>1, <1>4
    <3>2. CASE n > 0
      <4>1. new.events[1] = e.events[1]
        BY <3>2, <1>3, <1>4
      <4> QED  BY <3>2, <4>1, <2>1, <2>3, <1>3, <1>4
    <3> QED  BY <3>1, <3>2, <1>3
  <2> QED  BY <2>2, <2>4 DEF Dated, IsTerminal
<1> QED  BY <1>6, <1>7 DEF SoundWalk

LEMMA EndedWalk ==
  ASSUME NEW e \in Record', Len(e.events) = 3, e.array # 0, e.full,
         \A i \in 1..Len(e.events) :
           /\ e.events[i].from = IF i = 1 THEN "planning" ELSE e.events[i-1].to
           /\ e.events[i].to \in ValidTransitions[e.events[i].from],
         e.events[Len(e.events)].to = "monitoring", e.phase \in {"completed", "cancelled"},
         spare'[e.array].from = "monitoring", spare'[e.array].to \in {"completed", "cancelled"}
  PROVE  Walked(e)'
BY DEF Walked

\* And ends in the spare slot.
LEMMA EndedIsSound ==
  ASSUME spare \in Seq(Event \cup {Unset}), NEW e \in Held, SoundWalk(e), NEW to \in Phases,
         Len(e.events) = 3, ~IsTerminal(e), CanTransition(e, to),
         spare' = [spare EXCEPT ![e.array] = [from |-> e.phase, to |-> to]],
         NEW new, new = [Moved(e, to) EXCEPT !.full = TRUE]
  PROVE  SparesGrow /\ SoundWalk(new)'
<1> DEFINE event == [from |-> e.phase, to |-> to]
<1>1. /\ e \in Record /\ Walked(e) /\ Dated(e) /\ e.events \in Seq(Event)
      /\ e.phase \in Phases /\ e.started \in BOOLEAN /\ e.ended \in BOOLEAN
      /\ e.array \in 0..Len(spare) /\ Len(spare) \in Nat
  BY DEF SoundWalk, Record
<1>2. ~e.full /\ e.phase = "monitoring" /\ Reached(e) = "monitoring"
  BY <1>1, WhereWalksLead
<1>3. e.array \in 1..Len(spare)
  BY <1>1, WalkedParts
<1>4. event \in Event /\ EndEvent(event) /\ to \in {"completed", "cancelled"}
  BY <1>1, <1>2, Successors DEF Event, EndEvent, CanTransition
<1>5. /\ spare' \in Seq(Event \cup {Unset}) /\ Len(spare') = Len(spare)
      /\ spare'[e.array] = event
      /\ \A k \in 1..Len(spare) : spare'[k] = spare[k] \/ spare'[k] = event
  BY <1>3, <1>4
<1>6. SparesGrow
  BY <1>1, <1>4, <1>5 DEF SparesGrow
<1>7. /\ new \in Record /\ new.phase = to /\ new.events = e.events
      /\ new.started <=> (e.started \/ to = "fieldwork")
      /\ new.ended <=> (e.ended \/ to \in {"completed", "cancelled"})
      /\ new.array = e.array /\ new.full = TRUE
  <2>1. Moved(e, to) \in Record
    BY <1>1, MovedFields
  <2>2. /\ new \in Record /\ new.full = TRUE /\ new.phase = Moved(e, to).phase
        /\ new.events = Moved(e, to).events /\ new.array = Moved(e, to).array
        /\ new.started = Moved(e, to).started /\ new.ended = Moved(e, to).ended
    BY <2>1 DEF Record
  <2> QED  BY <2>2, <1>1, MovedFields
<1>8. new \in Record'
  BY <1>1, <1>5, <1>7 DEF Record
<1>9. Walked(new)'
  <2>1. /\ new.phase \in {"completed", "cancelled"} /\ new.events = e.events
        /\ new.array = e.array /\ new.full
    BY <1>4, <1>7
  <2>2. /\ e.array # 0
        /\ \A i \in 1..Len(e.events) :
             /\ e.events[i].from = IF i = 1 THEN "planning" ELSE e.events[i-1].to
             /\ e.events[i].to \in ValidTransitions[e.events[i].from]
    BY <1>1, WalkedParts
  <2>3. e.events[Len(e.events)].to = "monitoring"
    BY <1>2 DEF Reached
  <2>4. spare'[e.array].from = "monitoring" /\ spare'[e.array].to \in {"completed", "cancelled"}
    BY <1>4, <1>5 DEF EndEvent
  <2>5. /\ Len(new.events) = 3 /\ new.array # 0 /\ new.events[Len(new.events)].to = "monitoring"
        /\ \A i \in 1..Len(new.events) :
             /\ new.events[i].from = IF i = 1 THEN "planning" ELSE new.events[i-1].to
             /\ new.events[i].to \in ValidTransitions[new.events[i].from]
        /\ EndEvent(spare'[new.array])
    BY <2>1, <2>2, <2>3, <2>4 DEF EndEvent
  <2> HIDE DEF event
  <2> QED  BY <1>8, <2>1, <2>5, EndedWalk DEF EndEvent
<1>10. Dated(new)'
  <2>1. new.ended /\ new.phase = to /\ new.events = e.events /\ (new.started <=> e.started)
    BY <1>4, <1>7
  <2> QED  BY <2>1, <1>1, <1>4 DEF Dated, IsTerminal
<1> QED  BY <1>6, <1>8, <1>9, <1>10 DEF SoundWalk

LEMMA TwoFields ==
  ASSUME NEW S, NEW x \in [step : {"loaded", "changed"}, id : Ids, copy : S], NEW c
  PROVE  [[x EXCEPT !.step = "changed"] EXCEPT !.copy = c]
           = [step |-> "changed", id |-> x.id, copy |-> c]
<1> DEFINE y == [[x EXCEPT !.step = "changed"] EXCEPT !.copy = c]
<1>1. /\ DOMAIN y = {"step", "id", "copy"}
      /\ y = [f \in {"step", "id", "copy"} |-> y[f]]
      /\ y.step = "changed" /\ y.id = x.id /\ y.copy = c
  OBVIOUS
<1> HIDE DEF y
<1> QED  BY <1>1

\* A request keeps its changed copy to itself until it saves it.
LEMMA ChangedInv ==
  ASSUME EngagementInv, SparesGrow, NEW r \in EngagementRequests, NEW new \in Record',
         serving[r] # NotServed, SoundWalk(new)', engagements' = engagements,
         serving' = [serving EXCEPT ![r].step = "changed", ![r].copy = new]
  PROVE  EngagementInv'
<1>1. serving[r] \in Served
  BY ServingHolds
<1>2. serving' = [serving EXCEPT ![r] = [step |-> "changed", id |-> serving[r].id, copy |-> new]]
  <2>1. serving \in [EngagementRequests -> {NotServed} \cup Served]
    BY DEF EngagementInv, EngagementTypeOK, Served
  <2>2. serving' = [serving EXCEPT ![r] = [[serving[r] EXCEPT !.step = "changed"] EXCEPT !.copy = new]]
    BY <2>1
  <2>3. [[serving[r] EXCEPT !.step = "changed"] EXCEPT !.copy = new]
          = [step |-> "changed", id |-> serving[r].id, copy |-> new]
    BY <1>1, TwoFields DEF Served
  <2> QED  BY <2>2, <2>3
<1>3. \A e \in Held' : e \in Held \/ e = new
  BY <1>2 DEF Held, EngagementInv, EngagementTypeOK
<1>4. \A e \in Held' : e \in Held \/ SoundWalk(e)'
  BY <1>3
<1>5. \A e \in Held' : SoundWalk(e)'
  BY <1>4, HeldStays
<1>6. EngagementTypeOK'
  <2>1. [step |-> "changed", id |-> serving[r].id, copy |-> new] \in Served'
    BY <1>1 DEF Served
  <2>2. /\ engagements' \in [Ids -> Record' \cup {NoEngagement}]
        /\ serving' \in [EngagementRequests -> {NotServed} \cup Served']
    BY <1>2, <2>1, TypesStay DEF EngagementInv
  <2> QED  BY <2>2 DEF EngagementTypeOK, Served, SparesGrow
<1> QED  BY <1>5, <1>6 DEF EngagementInv

\* The fields of the copy once the event is appended.
LEMMA LongerFields ==
  ASSUME NEW m \in Record, NEW event \in Event
  PROVE  LET moved == [m EXCEPT !.events = Append(@, event)]
         IN  /\ moved \in Record /\ moved.phase = m.phase
             /\ moved.started = m.started /\ moved.ended = m.ended
             /\ moved.events = Append(m.events, event)
             /\ moved.array = m.array /\ moved.full = m.full
<1>1. Append(m.events, event) \in Seq(Event)
  BY DEF Record
<1> QED  BY <1>1 DEF Record

\* And once it points to an array that was allocated for it.
LEMMA AllocatedFields ==
  ASSUME spare \in Seq(Event \cup {Unset}), spare' = Append(spare, Unset),
         NEW moved \in Record, NEW new, new = [moved EXCEPT !.array = Len(spare) + 1]
  PROVE  /\ new \in Record' /\ new.phase = moved.phase /\ new.started = moved.started
         /\ new.ended = moved.ended /\ new.events = moved.events
         /\ new.array = Len(spare) + 1 /\ new.full = moved.full
<1>1. Len(spare') = Len(spare) + 1 /\ Len(spare) \in Nat
  OBVIOUS
<1>2. PICK k : k = Len(spare) + 1
  OBVIOUS
<1>3. k \in 0..Len(spare') /\ 0..Len(spare) \subseteq 0..Len(spare')
  BY <1>1, <1>2
<1>4. new = [moved EXCEPT !.array = k]
  BY <1>2
<1>5. moved \in Record'
  BY <1>3 DEF Record
<1>6. /\ new \in Record' /\ new.phase = moved.phase /\ new.started = moved.started
      /\ new.ended = moved.ended /\ new.events = moved.events
      /\ new.array = k /\ new.full = moved.full
  BY <1>3, <1>4, <1>5 DEF Record
<1> QED  BY <1>2, <1>6

LEMMA TransitionAllocatesInv ==
  ASSUME EngagementInv, NEW r \in EngagementRequests, NEW to \in Phases,
         TransitionAllocates(r, to)
  PROVE  EngagementInv'
<1>1. serving[r] # NotServed
  BY DEF TransitionAllocates, NotServed
<1>2. PICK e \in Held : e = serving[r].copy
  BY <1>1, ServingHolds
<1>3. PICK event : event = [from |-> e.phase, to |-> to]
  OBVIOUS
<1>4. PICK moved : moved = [Moved(e, to) EXCEPT !.events = Append(@, event)]
  OBVIOUS
<1>5. /\ Len(e.events) < 3 /\ ~IsTerminal(e) /\ CanTransition(e, to)
      /\ engagements' = engagements
  BY <1>2 DEF TransitionAllocates
<1>6. \/ /\ Len(moved.events) < 3 /\ spare' = spare
         /\ serving' = [serving EXCEPT ![r].step = "changed", ![r].copy = moved]
      \/ /\ ~(Len(moved.events) < 3) /\ spare' = Append(spare, Unset)
         /\ serving' = [serving EXCEPT ![r].step = "changed",
                                       ![r].copy = [moved EXCEPT !.array = Len(spare) + 1]]
  BY <1>2, <1>3, <1>4 DEF TransitionAllocates, Changed
<1>7. /\ SoundWalk(e) /\ e \in Record /\ e.events \in Seq(Event) /\ Len(e.events) \in Nat
      /\ spare \in Seq(Event \cup {Unset}) /\ Len(spare) \in Nat
  BY DEF SoundWalk, Record, EngagementInv, EngagementTypeOK
<1>8. event \in Event
  BY <1>3, <1>7 DEF Record, Event
<1>9. /\ moved \in Record /\ moved.phase = to
      /\ moved.started <=> (e.started \/ to = "fieldwork")
      /\ moved.ended <=> (e.ended \/ to \in {"completed", "cancelled"})
      /\ moved.events = Append(e.events, event)
      /\ moved.array = e.array /\ moved.full = e.full
  <2>1. PICK m \in Record : m = Moved(e, to)
    BY <1>7, MovedFields
  <2>2. moved = [m EXCEPT !.events = Append(@, event)]
    BY <1>4, <2>1
  <2>3. /\ moved \in Record /\ moved.phase = m.phase
        /\ moved.started = m.started /\ moved.ended = m.ended
        /\ moved.events = Append(m.events, event)
        /\ moved.array = m.array /\ moved.full = m.full
    BY <1>8, <2>2, LongerFields
  <2> QED  BY <1>7, <2>1, <2>3, MovedFields
<1>10. Len(moved.events) = Len(e.events) + 1
  BY <1>7, <1>8, <1>9
<1>11. e.array # 0 <=> Len(e.events) = 3
  BY <1>7, WalkedParts DEF SoundWalk
<1>12. ASSUME SparesGrow, NEW new \in Record', new.phase = moved.phase,
              new.started = moved.started, new.ended = moved.ended,
              new.events = moved.events, new.full = moved.full,
              new.array # 0 <=> Len(e.events) = 2
       PROVE  SoundWalk(new)'
  <2>1. /\ new.started <=> (e.started \/ to = "fieldwork")
        /\ new.ended <=> (e.ended \/ to \in {"completed", "cancelled"})
    BY <1>9, <1>12
  <2>2. /\ new.events = Append(e.events, [from |-> e.phase, to |-> to])
        /\ new.full = e.full /\ new.phase = to
    BY <1>3, <1>9, <1>12
  <2> QED  BY <1>5, <1>7, <1>12, <2>1, <2>2, LongerIsSound
<1>13. CASE /\ Len(moved.events) < 3 /\ spare' = spare
            /\ serving' = [serving EXCEPT ![r].step = "changed", ![r].copy = moved]
  <2>1. SparesGrow
    BY <1>7, <1>13 DEF SparesGrow
  <2>2. moved \in Record'
    BY <1>9, <1>13 DEF Record
  <2>3. moved.array # 0 <=> Len(e.events) = 2
    <3>1. Len(e.events) < 2
      BY <1>7, <1>10, <1>13
    <3> QED  BY <3>1, <1>7, <1>9, <1>11
  <2>4. SoundWalk(moved)'
    BY <1>12, <2>1, <2>2, <2>3
  <2> QED  BY <2>1, <2>2, <2>4, <1>1, <1>5, <1>13, ChangedInv
<1>14. CASE /\ ~(Len(moved.events) < 3) /\ spare' = Append(spare, Unset)
            /\ serving' = [serving EXCEPT ![r].step = "changed",
                                          ![r].copy = [moved EXCEPT !.array = Len(spare) + 1]]
  <2>1. SparesGrow
    BY <1>7, <1>14 DEF SparesGrow
  <2>2. PICK new : new = [moved EXCEPT !.array = Len(spare) + 1]
    OBVIOUS
  <2>3. /\ new \in Record' /\ new.phase = moved.phase /\ new.started = moved.started
        /\ new.ended = moved.ended /\ new.events = moved.events
        /\ new.array = Len(spare) + 1 /\ new.full = moved.full
    BY <1>7, <1>9, <1>14, <2>2, AllocatedFields
  <2>4. Len(e.events) = 2 /\ new.array # 0
    <3>1. Len(e.events) < 3 /\ ~(Len(moved.events) < 3)
      BY <1>5, <1>14
    <3>2. new.array = Len(spare) + 1
      BY <2>3
    <3>3. Len(e.events) \in Nat /\ Len(spare) \in Nat
      BY <1>7
    <3>4. PICK n \in Nat : n = Len(e.events)
      BY <3>3
    <3>5. n = 2
      <4>1. PICK k \in Nat : k = Len(moved.events)
        BY <3>4, <1>10
      <4>2. k = n + 1
        BY <3>4, <4>1, <1>10
      <4>3. n < 3 /\ ~(k < 3)
        BY <3>1, <3>4, <4>1
      <4> QED  BY <4>2, <4>3
    <3>6. new.array # 0
      BY <3>2, <3>3
    <3> QED  BY <3>4, <3>5, <3>6
  <2>5. SoundWalk(new)'
    BY <1>12, <2>1, <2>3, <2>4
  <2> QED  BY <2>1, <2>2, <2>3, <2>5, <1>1, <1>5, <1>14, ChangedInv
<1> QED  BY <1>6, <1>13, <1>14

LEMMA TransitionInPlaceInv ==
  ASSUME EngagementInv, NEW r \in EngagementRequests, NEW to \in Phases,
         TransitionInPlace(r, to)
  PROVE  EngagementInv'
<1> DEFINE e   == serving[r].copy
           end == [Moved(e, to) EXCEPT !.full = TRUE]
<1>1. /\ serving[r].step = "loaded" /\ Len(e.events) = 3 /\ ~IsTerminal(e)
      /\ CanTransition(e, to) /\ engagements' = engagements
      /\ spare' = [spare EXCEPT ![e.array] = [from |-> e.phase, to |-> to]]
      /\ serving' = [serving EXCEPT ![r].step = "changed", ![r].copy = end]
  BY DEF TransitionInPlace, Changed
<1>2. serving[r] # NotServed
  BY <1>1 DEF NotServed
<1>3. e \in Held /\ SoundWalk(e) /\ spare \in Seq(Event \cup {Unset})
  BY <1>2, ServingHolds DEF EngagementInv, EngagementTypeOK
<1> HIDE DEF e
<1>4. PICK old \in Held : old = e
  BY <1>3
<1>5. PICK new : new = end
  OBVIOUS
<1>6. SparesGrow /\ SoundWalk(new)'
  BY <1>1, <1>3, <1>4, <1>5, EndedIsSound
<1>7. new \in Record'
  BY <1>6 DEF SoundWalk
<1> QED  BY <1>1, <1>2, <1>5, <1>6, <1>7, ChangedInv

LEMMA EngagementNextInv == EngagementInv /\ [EngagementNext]_engagementVars => EngagementInv'
<1> SUFFICES ASSUME EngagementInv, [EngagementNext]_engagementVars PROVE EngagementInv'
  OBVIOUS
<1>1. ASSUME NEW id \in Ids, CreateEngagement(id) PROVE EngagementInv'
  BY <1>1, CreateEngagementInv
<1>2. ASSUME NEW id \in Ids, NEW r \in EngagementRequests, LoadEngagement(r, id)
      PROVE  EngagementInv'
  BY <1>2, LoadEngagementInv
<1>3. ASSUME NEW r \in EngagementRequests, Patch(r) \/ SaveTransition(r) \/ RefuseRequest(r)
      PROVE  EngagementInv'
  <2>1. /\ serving[r] # NotServed /\ serving' = [serving EXCEPT ![r] = NotServed]
        /\ spare' = spare
        /\ \/ UpdateEngagement(serving[r].id, serving[r].copy)
           \/ engagements' = engagements
    BY <1>3 DEF Patch, SaveTransition, RefuseRequest, NotServed
  <2> QED  BY <2>1, CopyIsSavedOrDropped
<1>4. ASSUME NEW r \in EngagementRequests, NEW to \in Phases,
             TransitionAllocates(r, to) \/ TransitionInPlace(r, to)
      PROVE  EngagementInv'
  BY <1>4, TransitionAllocatesInv, TransitionInPlaceInv
<1>5. CASE UNCHANGED engagementVars
  <2>1. UNCHANGED <<engagements, spare, serving>>
    BY <1>5 DEF engagementVars
  <2>2. SparesGrow
    BY <2>1 DEF SparesGrow, EngagementInv, EngagementTypeOK
  <2>3. \A e \in Held' : e \in Held
    BY <2>1 DEF Held
  <2>4. \A e \in Held' : SoundWalk(e)'
    BY <2>2, <2>3, WalkStays DEF EngagementInv, EngagementTypeOK
  <2>5. EngagementTypeOK'
    BY <2>1 DEF EngagementInv, EngagementTypeOK, Record
  <2> QED  BY <2>4, <2>5 DEF EngagementInv
<1> QED  BY <1>1, <1>2, <1>3, <1>4, <1>5 DEF EngagementNext

LEMMA SpecEngagementInv == EngagementSpec => []EngagementInv
<1> QED  BY EngagementInitInv, EngagementNextInv, PTL DEF EngagementSpec

\* What the store keeps of an engagement is one run of ValidTransitions: its
\* phase, its history and its dates (engagement.go:124-155, store.go:39-72), for
\* any number of engagements and requests, whichever arrays they share.
THEOREM SpecStoredIsOneRun == EngagementSpec => []StoredIsOneRun
<1>1. EngagementInv => StoredIsOneRun
  <2> SUFFICES ASSUME EngagementInv PROVE StoredIsOneRun
    OBVIOUS
  <2>1. \A id \in Ids : engagements[id] # NoEngagement => SoundWalk(engagements[id])
    BY DEF EngagementInv, Held
  <2> QED  BY <2>1 DEF EngagementInv, StoredIsOneRun, StoredWasWalked, DatesMatchRun, SoundWalk, Dated
<1> QED  BY <1>1, SpecEngagementInv, PTL

(***************************************************************************)
(* Evidence (Evidence)                                                     *)
(*                                                                         *)
(* What one request counts is stored by others, so no single score says    *)
(* anything of the order.  The invariant speaks of sets instead: of some   *)
(* evidence of a control, one item is still to count, or counted all the   *)
(* rest.  A new item is still to count, and one that counts sees them all. *)
(***************************************************************************)

Request == ValidRequest \cup OtherRequest
Batch   == Seq(Request) \ {<<>>}

\* What a request being served does.
Job == {NoIngest}
         \cup [phase : {"next"}, rest : Batch]
         \cup [phase : {"saved", "classified"}, rest : Batch, id : EvidenceIds]
         \cup [phase : {"counted"}, rest : Batch, id : EvidenceIds, peers : Nat]

EvidenceTypeOK ==
  /\ evidence \in [EvidenceIds -> ValidRequest \cup {NoItem}]
  /\ DOMAIN tiers = EvidenceIds
  /\ scores \in [EvidenceIds -> [peers : Nat, aggregate : Int]]
  /\ ingest \in [Ingests -> Job]

Holds(h, e) == ingest[h].phase \in {"saved", "classified", "counted"} /\ ingest[h].id = e

\* Evidence is held by one request until it is scored.
HeldUntilScored ==
  /\ \A h \in Ingests, e \in EvidenceIds : Holds(h, e) => evidence[e] # NoItem /\ scores[e] = NoScore
  /\ \A g, h \in Ingests, e \in EvidenceIds : Holds(g, e) /\ Holds(h, e) => g = h
  /\ \A e \in EvidenceIds : scores[e] # NoScore => evidence[e] # NoItem
  /\ \A e \in Stored : scores[e] # NoScore \/ \E h \in Ingests : Holds(h, e)

\* e counted n peers.
Counted(e, n) ==
  \/ scores[e] # NoScore /\ n = scores[e].peers
  \/ \E h \in Ingests : Holds(h, e) /\ ingest[h].phase = "counted" /\ n = ingest[h].peers

\* The evidence of e's control.
Fellows(e) == {d \in Stored : evidence[d].control = evidence[e].control}

CountsFit ==
  \A e \in Stored : \A n \in Nat : Counted(e, n) => n < Cardinality(Fellows(e))

SomeSawTheRest ==
  \A s \in SUBSET Stored :
    (s # {} /\ \A d, e \in s : evidence[d].control = evidence[e].control)
      => \E e \in s : \A n \in Nat : Counted(e, n) => Cardinality(s) <= n + 1

TiersFit ==
  \A e \in EvidenceIds : tiers[e] # NoTier => e \in Stored /\ tiers[e] = Classify(evidence[e])

\* What was stored when the reader counted is still stored.
ReaderItems == {e \in Stored : evidence[e].control = reader.control}
ReaderFits ==
  reader.phase = "read" =>
    /\ reader.rating \in Ratings
    /\ reader.count \in Nat /\ reader.count <= Cardinality(ReaderItems)

ScoresInv   == EvidenceTypeOK /\ HeldUntilScored /\ CountsFit /\ SomeSawTheRest
EvidenceInv == ScoresInv /\ TiersFit /\ ReaderFits

(***************************************************************************)
(* Types                                                                   *)
(***************************************************************************)

LEMMA ItemIsStored == \A item \in ValidRequest : item # NoItem
<1> SUFFICES ASSUME NEW item \in ValidRequest, item = NoItem PROVE FALSE
  OBVIOUS
<1>1. "valid" \in DOMAIN item
  BY DEF ValidRequest
<1>2. "valid" \notin DOMAIN NoItem
  BY DEF NoItem
<1>3. QED
  BY <1>1, <1>2

LEMMA JobFacts ==
  ASSUME EvidenceTypeOK, NEW h \in Ingests
  PROVE  /\ ingest[h].phase \in {"idle", "next", "saved", "classified", "counted"}
         /\ ingest[h] = NoIngest => ingest[h].phase = "idle"
         /\ ingest[h].phase # "idle" => ingest[h].rest \in Batch
         /\ ingest[h].phase \in {"saved", "classified", "counted"} => ingest[h].id \in EvidenceIds
         /\ ingest[h].phase = "counted" => ingest[h].peers \in Nat
<1>1. ingest[h] \in Job
  BY DEF EvidenceTypeOK
<1>2. CASE ingest[h] = NoIngest
  BY <1>2 DEF NoIngest
<1>3. CASE ingest[h] \in [phase : {"next"}, rest : Batch]
  BY <1>3 DEF NoIngest
<1>4. CASE ingest[h] \in [phase : {"saved", "classified"}, rest : Batch, id : EvidenceIds]
  BY <1>4 DEF NoIngest
<1>5. CASE ingest[h] \in [phase : {"counted"}, rest : Batch, id : EvidenceIds, peers : Nat]
  BY <1>5 DEF NoIngest
<1>6. QED
  BY <1>1, <1>2, <1>3, <1>4, <1>5 DEF Job

LEMMA HeadOfBatch ==
  ASSUME NEW b \in Batch
  PROVE  Head(b) \in Request /\ (Tail(b) = <<>> \/ Tail(b) \in Batch)
<1>1. b \in Seq(Request) /\ b # <<>>
  BY DEF Batch
<1>2. Head(b) \in Request /\ Tail(b) \in Seq(Request)
  BY <1>1, HeadTailProperties
<1>3. QED
  BY <1>2 DEF Batch

LEMMA ValidHead ==
  ASSUME NEW r \in Request, r.valid
  PROVE  r \in ValidRequest
<1>1. CASE r \in OtherRequest
  <2>1. r.valid = FALSE
    BY <1>1 DEF OtherRequest
  <2>2. QED
    BY <2>1
<1>2. QED
  BY <1>1 DEF Request

LEMMA FollowingIsJob ==
  ASSUME EvidenceTypeOK, NEW h \in Ingests, ingest[h].phase # "idle"
  PROVE  Following(h) \in Job /\ Following(h).phase \in {"idle", "next"}
<1> DEFINE rest == Tail(ingest[h].rest)
<1>1. rest = <<>> \/ rest \in Batch
  BY JobFacts, HeadOfBatch
<1>2. Following(h) = IF rest = <<>> THEN NoIngest ELSE [phase |-> "next", rest |-> rest]
  BY DEF Following
<1> HIDE DEF rest
<1>3. CASE rest = <<>>
  BY <1>2, <1>3 DEF Job, NoIngest
<1>4. CASE rest # <<>>
  BY <1>1, <1>2, <1>4 DEF Job
<1>5. QED
  BY <1>3, <1>4

\* A request that goes on to job j.
LEMMA JobsStay ==
  ASSUME EvidenceTypeOK, NEW h \in Ingests, NEW j \in Job, ingest' = [ingest EXCEPT ![h] = j]
  PROVE  /\ ingest' \in [Ingests -> Job] /\ ingest'[h] = j
         /\ \A g \in Ingests : g # h => ingest'[g] = ingest[g]
  BY DEF EvidenceTypeOK

LEMMA AggregateIsPositive ==
  ASSUME NEW item \in ValidRequest, NEW n \in Nat
  PROVE  Aggregate(item, n) \in Int /\ Aggregate(item, n) > 0
<1>1. /\ item.described \in BOOLEAN /\ item.content \in BOOLEAN /\ item.tags \in Nat
      /\ item.age \in Int /\ item.terms \in Nat /\ item.source \in Sources
  BY DEF ValidRequest
<1>2. Completeness(item) \in Int /\ Completeness(item) >= 40
  BY <1>1 DEF Completeness, Points
<1>3. Currency(item) \in Nat
  BY <1>1 DEF Currency
<1>4. Reliability(item) \in Nat
  BY <1>1 DEF Reliability, ReliabilityBase, Sources
<1>5. Corroboration(n) \in Nat
  BY DEF Corroboration
<1>6. Relevance(item) \in Nat
  BY <1>1 DEF Relevance, Points
<1>7. QED
  BY <1>2, <1>3, <1>4, <1>5, <1>6 DEF Aggregate

LEMMA StoredIsFinite ==
  /\ \A s \in SUBSET Stored : IsFiniteSet(s) /\ Cardinality(s) \in Nat
  /\ \A s \in SUBSET Stored, t \in SUBSET Stored :
       s \subseteq t => Cardinality(s) <= Cardinality(t)
<1>1. \A s \in SUBSET Stored : IsFiniteSet(s)
  <2>1. \A s \in SUBSET Stored : s \subseteq EvidenceIds
    BY DEF Stored
  <2>2. IsFiniteSet(EvidenceIds)
    BY EvidenceAssumption
  <2>3. QED
    BY <2>1, <2>2, FS_Subset
<1>2. \A s \in SUBSET Stored : Cardinality(s) \in Nat
  BY <1>1, FS_CardinalityType
<1>3. QED
  BY <1>1, <1>2, FS_Subset

(***************************************************************************)
(* Steps of requests                                                       *)
(***************************************************************************)

LEMMA EvidenceInitInv == EvidenceInit => EvidenceInv
<1> SUFFICES ASSUME EvidenceInit PROVE EvidenceInv
  OBVIOUS
<1>1. Stored = {}
  BY DEF EvidenceInit, Stored
<1>2. EvidenceTypeOK
  <2>1. NoScore \in [peers : Nat, aggregate : Int] /\ NoIngest \in Job
    BY DEF NoScore, Job
  <2>2. QED
    BY <2>1 DEF EvidenceInit, EvidenceTypeOK
<1>3. \A h \in Ingests, e \in EvidenceIds : ~Holds(h, e) /\ scores[e] = NoScore
  BY DEF EvidenceInit, Holds, NoIngest
<1>4. HeldUntilScored
  <2>1. \A h \in Ingests, e \in EvidenceIds : Holds(h, e) => evidence[e] # NoItem /\ scores[e] = NoScore
    BY <1>3
  <2>2. \A g, h \in Ingests, e \in EvidenceIds : Holds(g, e) /\ Holds(h, e) => g = h
    BY <1>3
  <2>3. \A e \in EvidenceIds : scores[e] # NoScore => evidence[e] # NoItem
    BY DEF EvidenceInit
  <2>4. \A e \in Stored : scores[e] # NoScore \/ \E h \in Ingests : Holds(h, e)
    BY <1>1
  <2>5. QED
    BY <2>1, <2>2, <2>3, <2>4 DEF HeldUntilScored
<1>5. CountsFit /\ SomeSawTheRest
  BY <1>1 DEF CountsFit, SomeSawTheRest
<1>6. TiersFit /\ ReaderFits
  BY DEF EvidenceInit, TiersFit, ReaderFits, NoReader
<1>7. QED
  BY <1>2, <1>4, <1>5, <1>6 DEF EvidenceInv, ScoresInv

\* A step that stores no evidence, and after which the same is held and counted.
LEMMA QuietStep ==
  ASSUME ScoresInv, EvidenceTypeOK', evidence' = evidence, scores' = scores,
         \A g \in Ingests, e \in EvidenceIds :
           /\ Holds(g, e)' <=> Holds(g, e)
           /\ Holds(g, e) => /\ ingest'[g].phase = "counted" <=> ingest[g].phase = "counted"
                             /\ ingest'[g].phase = "counted" => ingest'[g].peers = ingest[g].peers
  PROVE  ScoresInv'
<1>1. Stored' = Stored /\ Stored \subseteq EvidenceIds
  BY DEF Stored
<1>2. HeldUntilScored'
  BY <1>1 DEF ScoresInv, HeldUntilScored
<1>3. \A e \in Stored : Fellows(e)' = Fellows(e)
  BY <1>1 DEF Fellows
<1>4. ASSUME NEW e \in Stored, NEW n, Counted(e, n)' PROVE Counted(e, n)
  BY <1>1, <1>4 DEF Counted
<1>5. CountsFit'
  BY <1>1, <1>3, <1>4 DEF ScoresInv, CountsFit
<1>6. SomeSawTheRest'
  <2> SUFFICES ASSUME NEW s \in SUBSET Stored, s # {},
                      \A d, e \in s : evidence[d].control = evidence[e].control
               PROVE  \E e \in s : \A n \in Nat : Counted(e, n)' => Cardinality(s) <= n + 1
    BY <1>1 DEF SomeSawTheRest
  <2>1. PICK e \in s : \A n \in Nat : Counted(e, n) => Cardinality(s) <= n + 1
    BY DEF ScoresInv, SomeSawTheRest
  <2>2. QED
    BY <1>4, <2>1
<1>7. QED
  BY <1>2, <1>5, <1>6 DEF ScoresInv

LEMMA QuietIngest ==
  ASSUME ScoresInv, NEW h \in Ingests, NEW j \in Job, ingest' = [ingest EXCEPT ![h] = j],
         UNCHANGED <<evidence, scores>>, DOMAIN tiers' = EvidenceIds,
         \/ ingest[h].phase \in {"idle", "next"} /\ j.phase \in {"idle", "next"}
         \/ ingest[h].phase = "saved" /\ j.phase = "classified" /\ j.id = ingest[h].id
  PROVE  ScoresInv'
<1>1. /\ ingest' \in [Ingests -> Job] /\ ingest'[h] = j
      /\ \A g \in Ingests : g # h => ingest'[g] = ingest[g]
  BY JobsStay DEF ScoresInv
<1>2. EvidenceTypeOK'
  BY <1>1 DEF ScoresInv, EvidenceTypeOK
<1>3. \A g \in Ingests, e \in EvidenceIds :
        /\ Holds(g, e)' <=> Holds(g, e)
        /\ Holds(g, e) => /\ ingest'[g].phase = "counted" <=> ingest[g].phase = "counted"
                          /\ ingest'[g].phase = "counted" => ingest'[g].peers = ingest[g].peers
  BY <1>1 DEF Holds
<1>4. QED
  BY <1>2, <1>3, QuietStep

LEMMA IngestEvidenceInv ==
  ASSUME ScoresInv, NEW h \in Ingests, NEW b \in Batches, IngestEvidence(h, b)
  PROVE  ScoresInv'
<1> DEFINE j == [phase |-> "next", rest |-> b]
<1>1. j \in Job /\ j.phase = "next"
  <2>1. b \in Batch
    BY EvidenceAssumption DEF Batch, Request
  <2>2. QED
    BY <2>1 DEF Job
<1>2. ingest[h].phase = "idle"
  BY JobFacts DEF ScoresInv, IngestEvidence
<1>3. ingest' = [ingest EXCEPT ![h] = j] /\ UNCHANGED <<evidence, tiers, scores>>
  BY DEF IngestEvidence
<1> HIDE DEF j
<1>4. DOMAIN tiers' = EvidenceIds
  BY <1>3 DEF ScoresInv, EvidenceTypeOK
<1>5. QED
  BY <1>1, <1>2, <1>3, <1>4, QuietIngest

LEMMA RefuseItemInv ==
  ASSUME ScoresInv, NEW h \in Ingests, RefuseItem(h)
  PROVE  ScoresInv'
<1>1. /\ ingest[h].phase = "next" /\ ingest' = [ingest EXCEPT ![h] = Following(h)]
      /\ UNCHANGED <<evidence, tiers, scores>>
  BY DEF RefuseItem
<1>2. Following(h) \in Job /\ Following(h).phase \in {"idle", "next"}
  BY <1>1, FollowingIsJob DEF ScoresInv
<1>3. DOMAIN tiers' = EvidenceIds
  BY <1>1 DEF ScoresInv, EvidenceTypeOK
<1>4. QED
  BY <1>1, <1>2, <1>3, QuietIngest

LEMMA SaveClassificationInv ==
  ASSUME ScoresInv, NEW h \in Ingests, SaveClassification(h)
  PROVE  ScoresInv'
<1> DEFINE j == [ingest[h] EXCEPT !.phase = "classified"]
<1>1. /\ ingest[h].phase = "saved" /\ ingest' = [ingest EXCEPT ![h] = j]
      /\ UNCHANGED <<evidence, scores>> /\ DOMAIN tiers' = DOMAIN tiers
  BY DEF SaveClassification
<1>2. ingest[h] \in [phase : {"saved", "classified"}, rest : Batch, id : EvidenceIds]
  BY <1>1 DEF ScoresInv, EvidenceTypeOK, Job, NoIngest
<1>3. j \in Job /\ j.phase = "classified" /\ j.id = ingest[h].id
  BY <1>2 DEF Job
<1> HIDE DEF j
<1>4. DOMAIN tiers' = EvidenceIds
  BY <1>1 DEF ScoresInv, EvidenceTypeOK
<1>5. QED
  BY <1>1, <1>3, <1>4, QuietIngest

LEMMA ClassifyEvidenceInv ==
  ASSUME ScoresInv, NEW e \in EvidenceIds, ClassifyEvidence(e)
  PROVE  ScoresInv'
<1>1. UNCHANGED <<evidence, scores, ingest>> /\ DOMAIN tiers' = DOMAIN tiers
  BY DEF ClassifyEvidence
<1>2. EvidenceTypeOK'
  BY <1>1 DEF ScoresInv, EvidenceTypeOK
<1>3. \A g \in Ingests, d \in EvidenceIds : Holds(g, d)' <=> Holds(g, d)
  BY <1>1 DEF Holds
<1>4. QED
  BY <1>1, <1>2, <1>3, QuietStep

LEMMA SaveEvidenceInv ==
  ASSUME ScoresInv, NEW h \in Ingests, SaveEvidence(h)
  PROVE  ScoresInv'
<1> DEFINE item == Head(ingest[h].rest)
<1>1. ingest[h].phase = "next" /\ item.valid
  BY DEF SaveEvidence
<1>2. PICK e \in EvidenceIds \ Stored :
        /\ evidence' = [evidence EXCEPT ![e] = item]
        /\ ingest' = [ingest EXCEPT ![h] = [phase |-> "saved", rest |-> ingest[h].rest, id |-> e]]
  BY DEF SaveEvidence
<1> DEFINE j == [phase |-> "saved", rest |-> ingest[h].rest, id |-> e]
<1>3. item \in ValidRequest /\ item # NoItem
  <2>1. ingest[h].rest \in Batch
    BY <1>1, JobFacts DEF ScoresInv
  <2>2. item \in Request
    BY <2>1, HeadOfBatch
  <2> HIDE DEF item
  <2>3. item \in ValidRequest
    BY <1>1, <2>2, ValidHead
  <2>4. QED
    BY <2>3, ItemIsStored
<1>4. j \in Job /\ j.phase = "saved" /\ j.id = e
  <2>1. ingest[h].rest \in Batch
    BY <1>1, JobFacts DEF ScoresInv
  <2>2. QED
    BY <2>1 DEF Job
<1>5. ingest' = [ingest EXCEPT ![h] = j]
  BY <1>2
<1> HIDE DEF j, item
<1>6. /\ ingest' \in [Ingests -> Job] /\ ingest'[h] = j
      /\ \A g \in Ingests : g # h => ingest'[g] = ingest[g]
  BY <1>4, <1>5, JobsStay DEF ScoresInv
<1>7. /\ evidence' \in [EvidenceIds -> ValidRequest \cup {NoItem}] /\ evidence'[e] = item
      /\ \A d \in EvidenceIds : d # e => evidence'[d] = evidence[d]
  BY <1>2, <1>3 DEF ScoresInv, EvidenceTypeOK
<1>8. tiers' = tiers /\ scores' = scores
  BY DEF SaveEvidence
<1>9. Stored' = Stored \cup {e} /\ e \notin Stored /\ Stored \subseteq EvidenceIds
  BY <1>3, <1>7 DEF Stored
<1>10. EvidenceTypeOK'
  BY <1>6, <1>7, <1>8 DEF ScoresInv, EvidenceTypeOK
<1>11. scores[e] = NoScore /\ \A g \in Ingests : ~Holds(g, e)
  BY <1>9 DEF ScoresInv, HeldUntilScored, Stored
<1>12. \A g \in Ingests, d \in EvidenceIds : Holds(g, d)' <=> Holds(g, d) \/ (g = h /\ d = e)
  BY <1>1, <1>4, <1>6 DEF Holds
<1>13. HeldUntilScored'
  <2>1. \A g \in Ingests, d \in EvidenceIds :
          Holds(g, d)' => evidence'[d] # NoItem /\ scores'[d] = NoScore
    BY <1>3, <1>7, <1>8, <1>11, <1>12 DEF ScoresInv, HeldUntilScored
  <2>2. \A f, g \in Ingests, d \in EvidenceIds : Holds(f, d)' /\ Holds(g, d)' => f = g
    BY <1>11, <1>12 DEF ScoresInv, HeldUntilScored
  <2>3. \A d \in EvidenceIds : scores'[d] # NoScore => evidence'[d] # NoItem
    BY <1>3, <1>7, <1>8 DEF ScoresInv, HeldUntilScored
  <2>4. \A d \in Stored' : scores'[d] # NoScore \/ \E g \in Ingests : Holds(g, d)'
    BY <1>8, <1>9, <1>12 DEF ScoresInv, HeldUntilScored
  <2>5. QED
    BY <2>1, <2>2, <2>3, <2>4 DEF HeldUntilScored
<1>14. ASSUME NEW d \in EvidenceIds, NEW n, Counted(d, n)' PROVE d # e /\ Counted(d, n)
  <2>1. CASE scores'[d] # NoScore /\ n = scores'[d].peers
    BY <1>8, <1>11, <2>1 DEF Counted
  <2>2. ASSUME NEW g \in Ingests, Holds(g, d)', ingest'[g].phase = "counted",
               n = ingest'[g].peers
        PROVE  d # e /\ Counted(d, n)
    <3>1. g # h /\ ingest'[g] = ingest[g]
      BY <1>4, <1>6, <2>2
    <3>2. Holds(g, d)
      BY <1>12, <2>2, <3>1
    <3>3. QED
      BY <1>11, <2>2, <3>1, <3>2 DEF Counted
  <2>3. QED
    BY <1>14, <2>1, <2>2 DEF Counted
<1>15. CountsFit'
  <2> SUFFICES ASSUME NEW d \in Stored', NEW n \in Nat, Counted(d, n)'
               PROVE  n < Cardinality(Fellows(d)')
    BY DEF CountsFit
  <2>1. d \in Stored /\ Counted(d, n)
    BY <1>9, <1>14
  <2>2. n < Cardinality(Fellows(d))
    BY <2>1 DEF ScoresInv, CountsFit
  <2>3. Fellows(d) \subseteq Fellows(d)'
    BY <1>7, <1>9, <2>1 DEF Fellows
  <2>4. Cardinality(Fellows(d)) <= Cardinality(Fellows(d)')
        /\ Cardinality(Fellows(d)) \in Nat /\ Cardinality(Fellows(d)') \in Nat
    <3>1. Fellows(d) \subseteq EvidenceIds /\ Fellows(d)' \subseteq EvidenceIds
      BY DEF Fellows, Stored
    <3>2. IsFiniteSet(Fellows(d)) /\ IsFiniteSet(Fellows(d)')
      BY <3>1, EvidenceAssumption, FS_Subset
    <3>3. QED
      BY <2>3, <3>2, FS_Subset, FS_CardinalityType
  <2>5. QED
    BY <2>2, <2>4
<1>16. SomeSawTheRest'
  <2> SUFFICES ASSUME NEW s \in SUBSET Stored', s # {},
                      \A c, d \in s : evidence'[c].control = evidence'[d].control
               PROVE  \E d \in s : \A n \in Nat : Counted(d, n)' => Cardinality(s) <= n + 1
    BY DEF SomeSawTheRest
  <2>1. CASE e \in s
    BY <1>9, <1>14, <2>1
  <2>2. CASE e \notin s
    <3>1. s \in SUBSET Stored /\ \A c, d \in s : evidence[c].control = evidence[d].control
      BY <1>7, <1>9, <2>2
    <3>2. PICK d \in s : \A n \in Nat : Counted(d, n) => Cardinality(s) <= n + 1
      BY <3>1 DEF ScoresInv, SomeSawTheRest
    <3>3. QED
      BY <1>9, <1>14, <3>1, <3>2
  <2>3. QED
    BY <2>1, <2>2
<1>17. QED
  BY <1>10, <1>13, <1>15, <1>16 DEF ScoresInv

LEMMA FindPeersInv ==
  ASSUME ScoresInv, NEW h \in Ingests, FindPeers(h)
  PROVE  ScoresInv'
<1>1. ingest[h].phase = "classified" /\ UNCHANGED <<evidence, tiers, scores>>
  BY DEF FindPeers
<1>2. PICK e \in EvidenceIds : e = ingest[h].id
  BY <1>1, JobFacts DEF ScoresInv
<1>3. e \in Stored /\ Stored \subseteq EvidenceIds /\ scores[e] = NoScore /\ Holds(h, e)
  BY <1>1, <1>2 DEF ScoresInv, HeldUntilScored, Holds, Stored
<1>4. PICK peers \in Nat : peers = Cardinality(Fellows(e) \ {e})
                            /\ peers = Cardinality(Fellows(e)) - 1
                            /\ Cardinality(Fellows(e)) \in Nat
  <2>1. e \in Fellows(e) /\ Fellows(e) \in SUBSET Stored
    BY <1>3 DEF Fellows
  <2>2. IsFiniteSet(Fellows(e)) /\ Cardinality(Fellows(e)) \in Nat
    BY <2>1, StoredIsFinite
  <2>3. Cardinality(Fellows(e) \ {e}) = Cardinality(Fellows(e)) - 1
    BY <2>1, <2>2, FS_RemoveElement
  <2>4. Fellows(e) \ {e} \in SUBSET Stored
    BY <2>1
  <2>5. Cardinality(Fellows(e) \ {e}) \in Nat
    BY <2>4, StoredIsFinite
  <2>6. QED
    BY <2>2, <2>3, <2>5
<1> DEFINE j == [phase |-> "counted", rest |-> ingest[h].rest, id |-> e, peers |-> peers]
<1>5. ingest' = [ingest EXCEPT ![h] = j]
  <2>1. Peers(e) = Fellows(e) \ {e}
    BY <1>3 DEF Peers, OfControl, Fellows
  <2>2. ingest' = [ingest EXCEPT ![h] = [phase |-> "counted", rest |-> ingest[h].rest,
                     id |-> ingest[h].id, peers |-> Cardinality(Peers(ingest[h].id))]]
    BY DEF FindPeers
  <2>3. Cardinality(Peers(ingest[h].id)) = peers
    BY <1>2, <1>4, <2>1
  <2>4. QED
    BY <1>2, <2>2, <2>3
<1>6. j \in Job /\ j.phase = "counted" /\ j.id = e /\ j.peers = peers
  <2>1. ingest[h].rest \in Batch
    BY <1>1, JobFacts DEF ScoresInv
  <2>2. QED
    BY <2>1 DEF Job
<1> HIDE DEF j
<1>7. /\ ingest' \in [Ingests -> Job] /\ ingest'[h] = j
      /\ \A g \in Ingests : g # h => ingest'[g] = ingest[g]
  BY <1>5, <1>6, JobsStay DEF ScoresInv
<1>8. EvidenceTypeOK' /\ Stored' = Stored
  BY <1>1, <1>7 DEF ScoresInv, EvidenceTypeOK, Stored
<1>9. \A g \in Ingests, d \in EvidenceIds : Holds(g, d)' <=> Holds(g, d)
  BY <1>1, <1>2, <1>6, <1>7 DEF Holds
<1>10. HeldUntilScored'
  <2>1. \A g \in Ingests, d \in EvidenceIds :
          Holds(g, d)' => evidence'[d] # NoItem /\ scores'[d] = NoScore
    BY <1>1, <1>9 DEF ScoresInv, HeldUntilScored
  <2>2. \A f, g \in Ingests, d \in EvidenceIds : Holds(f, d)' /\ Holds(g, d)' => f = g
    BY <1>9 DEF ScoresInv, HeldUntilScored
  <2>3. \A d \in EvidenceIds : scores'[d] # NoScore => evidence'[d] # NoItem
    BY <1>1 DEF ScoresInv, HeldUntilScored
  <2>4. \A d \in Stored' : scores'[d] # NoScore \/ \E g \in Ingests : Holds(g, d)'
    BY <1>1, <1>3, <1>8, <1>9 DEF ScoresInv, HeldUntilScored
  <2>5. QED
    BY <2>1, <2>2, <2>3, <2>4 DEF HeldUntilScored
<1>11. ASSUME NEW d \in EvidenceIds, NEW n, Counted(d, n)'
       PROVE  Counted(d, n) \/ (d = e /\ n = peers)
  <2>1. CASE scores'[d] # NoScore /\ n = scores'[d].peers
    BY <1>1, <2>1 DEF Counted
  <2>2. ASSUME NEW g \in Ingests, Holds(g, d)', ingest'[g].phase = "counted",
               n = ingest'[g].peers
        PROVE  Counted(d, n) \/ (d = e /\ n = peers)
    <3>1. CASE g = h
      BY <1>6, <1>7, <2>2, <3>1 DEF Holds
    <3>2. CASE g # h
      BY <1>7, <1>9, <2>2, <3>2 DEF Counted
    <3>3. QED
      BY <3>1, <3>2
  <2>3. QED
    BY <1>11, <2>1, <2>2 DEF Counted
<1>12. \A n \in Nat : ~Counted(e, n)
  BY <1>1, <1>3 DEF ScoresInv, HeldUntilScored, Counted
<1>13. \A d \in Stored : Fellows(d)' = Fellows(d)
  BY <1>1, <1>8 DEF Fellows
<1>14. CountsFit'
  <2> SUFFICES ASSUME NEW d \in Stored, NEW n \in Nat, Counted(d, n)'
               PROVE  n < Cardinality(Fellows(d))
    BY <1>8, <1>13 DEF CountsFit
  <2>1. CASE Counted(d, n)
    BY <2>1 DEF ScoresInv, CountsFit
  <2>2. CASE d = e /\ n = peers
    BY <1>4, <2>2
  <2>3. QED
    BY <1>3, <1>11, <2>1, <2>2
<1>15. SomeSawTheRest'
  <2> SUFFICES ASSUME NEW s \in SUBSET Stored, s # {},
                      \A c, d \in s : evidence[c].control = evidence[d].control
               PROVE  \E d \in s : \A n \in Nat : Counted(d, n)' => Cardinality(s) <= n + 1
    BY <1>1, <1>8 DEF SomeSawTheRest
  <2>1. CASE e \in s
    <3>1. s \subseteq Fellows(e) /\ Fellows(e) \in SUBSET Stored
      BY <2>1 DEF Fellows
    <3>2. Cardinality(s) <= Cardinality(Fellows(e)) /\ Cardinality(s) \in Nat
      BY <3>1, StoredIsFinite
    <3>3. Cardinality(s) <= peers + 1
      BY <1>4, <3>2
    <3>4. \A n \in Nat : Counted(e, n)' => n = peers
      BY <1>11, <1>12
    <3>5. QED
      BY <2>1, <3>3, <3>4
  <2>2. CASE e \notin s
    <3>1. PICK d \in s : \A n \in Nat : Counted(d, n) => Cardinality(s) <= n + 1
      BY DEF ScoresInv, SomeSawTheRest
    <3>2. QED
      BY <1>3, <1>11, <2>2, <3>1
  <2>3. QED
    BY <2>1, <2>2
<1>16. QED
  BY <1>8, <1>10, <1>14, <1>15 DEF ScoresInv

LEMMA SaveQualityScoreInv ==
  ASSUME ScoresInv, NEW h \in Ingests, SaveQualityScore(h)
  PROVE  ScoresInv'
<1>1. ingest[h].phase = "counted" /\ UNCHANGED <<evidence, tiers>>
  BY DEF SaveQualityScore
<1>2. PICK e \in EvidenceIds : e = ingest[h].id
  BY <1>1, JobFacts DEF ScoresInv
<1>3. PICK peers \in Nat : peers = ingest[h].peers
  BY <1>1, JobFacts DEF ScoresInv
<1>4. e \in Stored /\ Stored \subseteq EvidenceIds /\ scores[e] = NoScore /\ Holds(h, e)
  BY <1>1, <1>2 DEF ScoresInv, HeldUntilScored, Holds, Stored
<1>5. PICK a \in Int : a = Aggregate(evidence[e], peers) /\ a > 0
  <2>1. evidence[e] \in ValidRequest
    BY <1>4 DEF ScoresInv, EvidenceTypeOK, Stored
  <2>2. QED
    BY <2>1, AggregateIsPositive
<1> DEFINE score == [peers |-> peers, aggregate |-> a]
<1>6. scores' = [scores EXCEPT ![e] = score]
  BY <1>2, <1>3, <1>5 DEF SaveQualityScore
<1>7. score \in [peers : Nat, aggregate : Int] /\ score # NoScore /\ score.peers = peers
  <2>1. score.aggregate # NoScore.aggregate
    BY <1>5 DEF NoScore
  <2>2. QED
    BY <2>1
<1> HIDE DEF score
<1>8. /\ scores' \in [EvidenceIds -> [peers : Nat, aggregate : Int]] /\ scores'[e] = score
      /\ \A d \in EvidenceIds : d # e => scores'[d] = scores[d]
  BY <1>6, <1>7 DEF ScoresInv, EvidenceTypeOK
<1>9. PICK j \in Job : j = Following(h) /\ j.phase \in {"idle", "next"}
  BY <1>1, FollowingIsJob DEF ScoresInv
<1>10. ingest' = [ingest EXCEPT ![h] = j]
  BY <1>9 DEF SaveQualityScore
<1>11. /\ ingest' \in [Ingests -> Job] /\ ingest'[h] = j
       /\ \A g \in Ingests : g # h => ingest'[g] = ingest[g]
  BY <1>10, JobsStay DEF ScoresInv
<1>12. EvidenceTypeOK' /\ Stored' = Stored
  BY <1>1, <1>8, <1>11 DEF ScoresInv, EvidenceTypeOK, Stored
<1>13. \A g \in Ingests, d \in EvidenceIds : Holds(g, d)' <=> Holds(g, d) /\ g # h
  BY <1>9, <1>11 DEF Holds
<1>14. \A g \in Ingests, d \in EvidenceIds : (Holds(g, d) /\ (g = h \/ d = e)) => g = h /\ d = e
  <2>1. \A d \in EvidenceIds : Holds(h, d) => d = e
    BY <1>2 DEF Holds
  <2>2. \A g \in Ingests : Holds(g, e) => g = h
    BY <1>4 DEF ScoresInv, HeldUntilScored
  <2>3. QED
    BY <2>1, <2>2
<1>15. HeldUntilScored'
  <2>1. \A g \in Ingests, d \in EvidenceIds :
          Holds(g, d)' => evidence'[d] # NoItem /\ scores'[d] = NoScore
    BY <1>1, <1>8, <1>13, <1>14 DEF ScoresInv, HeldUntilScored
  <2>2. \A f, g \in Ingests, d \in EvidenceIds : Holds(f, d)' /\ Holds(g, d)' => f = g
    BY <1>13 DEF ScoresInv, HeldUntilScored
  <2>3. \A d \in EvidenceIds : scores'[d] # NoScore => evidence'[d] # NoItem
    BY <1>1, <1>4, <1>8 DEF ScoresInv, HeldUntilScored, Stored
  <2>4. ASSUME NEW d \in Stored PROVE scores'[d] # NoScore \/ \E g \in Ingests : Holds(g, d)'
    <3>1. CASE d = e
      BY <1>7, <1>8, <3>1
    <3>2. CASE d # e
      BY <1>4, <1>8, <1>13, <1>14, <3>2 DEF ScoresInv, HeldUntilScored
    <3>3. QED
      BY <3>1, <3>2
  <2>5. QED
    BY <1>12, <2>1, <2>2, <2>3, <2>4 DEF HeldUntilScored
<1>16. ASSUME NEW d \in EvidenceIds, NEW n, Counted(d, n)' PROVE Counted(d, n)
  <2>1. CASE scores'[d] # NoScore /\ n = scores'[d].peers
    <3>1. CASE d = e
      BY <1>1, <1>3, <1>4, <1>7, <1>8, <2>1, <3>1 DEF Counted
    <3>2. CASE d # e
      BY <1>8, <2>1, <3>2 DEF Counted
    <3>3. QED
      BY <3>1, <3>2
  <2>2. ASSUME NEW g \in Ingests, Holds(g, d)', ingest'[g].phase = "counted",
               n = ingest'[g].peers
        PROVE  Counted(d, n)
    BY <1>11, <1>13, <2>2 DEF Counted
  <2>3. QED
    BY <1>16, <2>1, <2>2 DEF Counted
<1>17. \A d \in Stored : Fellows(d)' = Fellows(d)
  BY <1>1, <1>12 DEF Fellows
<1>18. CountsFit'
  BY <1>4, <1>12, <1>16, <1>17 DEF ScoresInv, CountsFit
<1>19. SomeSawTheRest'
  <2> SUFFICES ASSUME NEW s \in SUBSET Stored, s # {},
                      \A c, d \in s : evidence[c].control = evidence[d].control
               PROVE  \E d \in s : \A n \in Nat : Counted(d, n)' => Cardinality(s) <= n + 1
    BY <1>1, <1>12 DEF SomeSawTheRest
  <2>1. PICK d \in s : \A n \in Nat : Counted(d, n) => Cardinality(s) <= n + 1
    BY DEF ScoresInv, SomeSawTheRest
  <2>2. QED
    BY <1>4, <1>16, <2>1
<1>20. QED
  BY <1>12, <1>15, <1>18, <1>19 DEF ScoresInv

(***************************************************************************)
(* Steps of the reader, and of the tiers                                   *)
(***************************************************************************)

\* What every step leaves of the evidence.
LEMMA EvidenceStays ==
  ASSUME ScoresInv, EvidenceNext
  PROVE  \A e \in Stored : e \in Stored' /\ evidence'[e] = evidence[e]
<1>1. CASE \E h \in Ingests : SaveEvidence(h)
  <2>1. PICK h \in Ingests : SaveEvidence(h)
    BY <1>1
  <2>2. PICK e \in EvidenceIds \ Stored : evidence' = [evidence EXCEPT ![e] = Head(ingest[h].rest)]
    BY <2>1 DEF SaveEvidence
  <2>3. QED
    BY <2>2 DEF ScoresInv, EvidenceTypeOK, Stored
<1>2. CASE evidence' = evidence
  BY <1>2 DEF Stored
<1>3. QED
  BY <1>1, <1>2 DEF EvidenceNext, IngestEvidence, RefuseItem, SaveClassification, FindPeers,
                    SaveQualityScore, ClassifyEvidence, ReadEvidence, AnswerSufficiency

LEMMA TiersStep ==
  ASSUME EvidenceInv, EvidenceNext
  PROVE  TiersFit'
<1> SUFFICES ASSUME NEW e \in EvidenceIds, tiers'[e] # NoTier
             PROVE  e \in Stored' /\ tiers'[e] = Classify(evidence'[e])
  BY DEF TiersFit, Classify, Consider, Beats, ScoreRule, ExactScore, Rounding, FromSource, InFormat
<1>1. ScoresInv /\ TiersFit
  BY DEF EvidenceInv
<1>2. CASE tiers'[e] = tiers[e]
  <2>1. e \in Stored /\ tiers[e] = Classify(evidence[e])
    BY <1>1, <1>2 DEF TiersFit
  <2>2. e \in Stored' /\ evidence'[e] = evidence[e]
    BY <1>1, <2>1, EvidenceStays
  <2>3. QED
    BY <1>2, <2>1, <2>2
<1>3. ASSUME NEW h \in Ingests, SaveClassification(h), tiers'[e] # tiers[e]
      PROVE  e \in Stored' /\ tiers'[e] = Classify(evidence'[e])
  <2>1. /\ ingest[h].phase = "saved" /\ evidence' = evidence
        /\ tiers' = [tiers EXCEPT ![ingest[h].id] = Classify(evidence[ingest[h].id])]
    BY <1>3 DEF SaveClassification
  <2>2. e = ingest[h].id /\ tiers'[e] = Classify(evidence[e])
    BY <1>1, <1>3, <2>1 DEF ScoresInv, EvidenceTypeOK
  <2>3. e \in Stored
    BY <1>1, <2>1, <2>2 DEF ScoresInv, HeldUntilScored, Holds, Stored
  <2>4. QED
    BY <2>1, <2>2, <2>3 DEF Stored
<1>4. ASSUME NEW d \in EvidenceIds, ClassifyEvidence(d), tiers'[e] # tiers[e]
      PROVE  e \in Stored' /\ tiers'[e] = Classify(evidence'[e])
  <2>1. /\ d \in Stored /\ evidence' = evidence
        /\ tiers' = [tiers EXCEPT ![d] = Classify(evidence[d])]
    BY <1>4 DEF ClassifyEvidence
  <2>2. e = d /\ tiers'[e] = Classify(evidence[e])
    BY <1>1, <1>4, <2>1 DEF ScoresInv, EvidenceTypeOK
  <2>3. QED
    BY <2>1, <2>2 DEF Stored
<1>5. \/ tiers' = tiers
      \/ \E h \in Ingests : SaveClassification(h)
      \/ \E d \in EvidenceIds : ClassifyEvidence(d)
  BY DEF EvidenceNext, IngestEvidence, RefuseItem, SaveEvidence, FindPeers, SaveQualityScore,
         ReadEvidence, AnswerSufficiency
<1>6. QED
  BY <1>2, <1>3, <1>4, <1>5

LEMMA ItemsAreFinite ==
  \A c : /\ OfControl(c) \in SUBSET Stored /\ IsFiniteSet(OfControl(c))
         /\ Cardinality(OfControl(c)) \in Nat
<1>1. \A c : OfControl(c) \in SUBSET Stored
  BY DEF OfControl
<1>2. QED
  BY <1>1, StoredIsFinite

LEMMA ReaderStep ==
  ASSUME EvidenceInv, EvidenceNext
  PROVE  ReaderFits'
<1>1. ScoresInv /\ ReaderFits
  BY DEF EvidenceInv
<1>2. CASE reader' = reader
  <2> SUFFICES ASSUME reader.phase = "read"
               PROVE  /\ reader.rating \in Ratings
                      /\ reader.count \in Nat /\ reader.count <= Cardinality(ReaderItems')
    BY <1>2 DEF ReaderFits
  <2>1. ReaderItems \subseteq ReaderItems'
    BY <1>1, <1>2, EvidenceStays DEF ReaderItems
  <2>2. IsFiniteSet(ReaderItems') /\ IsFiniteSet(ReaderItems)
    <3>1. ReaderItems' \subseteq EvidenceIds /\ ReaderItems \subseteq EvidenceIds
      BY DEF ReaderItems, Stored
    <3>2. QED
      BY <3>1, EvidenceAssumption, FS_Subset
  <2>3. /\ Cardinality(ReaderItems) <= Cardinality(ReaderItems')
        /\ Cardinality(ReaderItems) \in Nat /\ Cardinality(ReaderItems') \in Nat
    BY <2>1, <2>2, FS_Subset, FS_CardinalityType
  <2>4. QED
    BY <1>1, <2>3 DEF ReaderFits
<1>3. ASSUME NEW c, NEW rating \in Ratings, ReadEvidence(c, rating) PROVE ReaderFits'
  <2>1. /\ reader' = [phase |-> "read", control |-> c, rating |-> rating,
                      count |-> Cardinality(OfControl(c))]
        /\ evidence' = evidence
    BY <1>3 DEF ReadEvidence
  <2>2. ReaderItems' = OfControl(c)
    BY <2>1 DEF ReaderItems, OfControl, Stored
  <2>3. Cardinality(OfControl(c)) \in Nat
    BY ItemsAreFinite
  <2>4. QED
    BY <2>1, <2>2, <2>3 DEF ReaderFits
<1>4. CASE AnswerSufficiency
  BY <1>4 DEF AnswerSufficiency, ReaderFits
<1>5. QED
  BY <1>2, <1>3, <1>4 DEF EvidenceNext, IngestEvidence, RefuseItem, SaveEvidence,
                          SaveClassification, FindPeers, SaveQualityScore, ClassifyEvidence

LEMMA EvidenceStep == EvidenceInv /\ [EvidenceNext]_evidenceVars => EvidenceInv'
<1> SUFFICES ASSUME EvidenceInv, [EvidenceNext]_evidenceVars PROVE EvidenceInv'
  OBVIOUS
<1>1. CASE EvidenceNext
  <2>1. ScoresInv
    BY DEF EvidenceInv
  <2>2. ASSUME UNCHANGED <<evidence, tiers, scores, ingest>> PROVE ScoresInv'
    BY <2>1, <2>2, SMTT(30) DEF ScoresInv, EvidenceTypeOK, HeldUntilScored, CountsFit, SomeSawTheRest,
                      Holds, Counted, Fellows, Stored
  <2>3. ScoresInv'
    BY <1>1, <2>1, <2>2, IngestEvidenceInv, RefuseItemInv, SaveEvidenceInv,
       SaveClassificationInv, FindPeersInv, SaveQualityScoreInv, ClassifyEvidenceInv
       DEF EvidenceNext, ReadEvidence, AnswerSufficiency
  <2>4. QED
    BY <1>1, <2>3, TiersStep, ReaderStep DEF EvidenceInv
<1>2. CASE UNCHANGED evidenceVars
  BY <1>2 DEF evidenceVars, EvidenceInv, ScoresInv, EvidenceTypeOK, HeldUntilScored, CountsFit,
              SomeSawTheRest, TiersFit, ReaderFits, ReaderItems, Holds, Counted, Fellows, Stored
<1>3. QED
  BY <1>1, <1>2

THEOREM SpecEvidenceInv == EvidenceSpec => []EvidenceInv
<1>1. EvidenceInv /\ [EvidenceNext]_evidenceVars => EvidenceInv'
  BY EvidenceStep
<1>2. QED
  BY EvidenceInitInv, <1>1, PTL DEF EvidenceSpec

(***************************************************************************)
(* What the invariant gives                                                *)
(***************************************************************************)

LEMMA InvCorroboration == EvidenceInv => CorroborationSeesEarlier
<1> SUFFICES ASSUME EvidenceInv, NEW c \in Controls, ScoredOf(c) = OfControl(c),
                    NEW n \in 0..Cardinality(EvidenceIds)
             PROVE  /\ Cardinality({e \in OfControl(c) : scores[e].peers < n}) <= n
                    /\ \A e \in OfControl(c) : scores[e].peers < Cardinality(OfControl(c))
  BY DEF CorroborationSeesEarlier
<1>1. ScoresInv
  BY DEF EvidenceInv
<1>2. /\ OfControl(c) \in SUBSET Stored /\ Cardinality(OfControl(c)) \in Nat
      /\ Stored \subseteq EvidenceIds
  BY ItemsAreFinite DEF Stored
<1>3. \A e \in OfControl(c) : scores[e].peers \in Nat /\ Counted(e, scores[e].peers)
  BY <1>1, <1>2 DEF ScoresInv, EvidenceTypeOK, Counted, ScoredOf
<1>4. n \in Nat
  <2>1. Cardinality(EvidenceIds) \in Nat
    BY EvidenceAssumption, FS_CardinalityType
  <2>2. QED
    BY <2>1
<1> DEFINE s == {e \in OfControl(c) : scores[e].peers < n}
<1>5. Cardinality(s) <= n
  <2>1. CASE s = {}
    <3>1. Cardinality(s) = 0
      BY <2>1, FS_EmptySet
    <3>2. QED
      BY <1>4, <3>1
  <2>2. CASE s # {}
    <3>1. s \in SUBSET Stored /\ \A d, e \in s : evidence[d].control = evidence[e].control
      BY <1>2 DEF OfControl
    <3>2. \A e \in s : e \in OfControl(c) /\ scores[e].peers < n
      OBVIOUS
    <3> HIDE DEF s
    <3>3. PICK e \in s : \A m \in Nat : Counted(e, m) => Cardinality(s) <= m + 1
      BY <1>1, <2>2, <3>1 DEF ScoresInv, SomeSawTheRest
    <3>4. Cardinality(s) <= scores[e].peers + 1
      BY <1>3, <3>2, <3>3
    <3>5. Cardinality(s) \in Nat
      BY <3>1, StoredIsFinite
    <3>6. QED
      BY <1>3, <1>4, <3>2, <3>4, <3>5
  <2>3. QED
    BY <2>1, <2>2
<1>6. ASSUME NEW e \in OfControl(c) PROVE scores[e].peers < Cardinality(OfControl(c))
  <2>1. Fellows(e) = OfControl(c)
    BY DEF Fellows, OfControl
  <2>2. QED
    BY <1>1, <1>2, <1>3, <2>1 DEF ScoresInv, CountsFit
<1>7. QED
  BY <1>5, <1>6

\* A rule without keywords scores nothing, one with some beats the default, and a
\* computed score is within one unit of ten times the exact one.
LEMMA RuleScores ==
  ASSUME NEW item \in ValidRequest, NEW u \in 1..6
  PROVE  /\ ScoreRule(item, u) \in Int /\ ExactScore(item, u) \in Int
         /\ ScoreRule(item, u) - 10 * ExactScore(item, u) \in -1..1
         /\ item.hits[u] = 0 => ScoreRule(item, u) = 0
         /\ item.hits[u] # 0 => ScoreRule(item, u) > 400
<1> DEFINE s == FromSource(item, u)
           f == InFormat(item, u)
           k == item.hits[u]
           x == ExactScore(item, u)
           r == Rounding(item, u)
<1>1. k \in Nat /\ ScoreRule(item, u) = 10 * x + r
  BY DEF ValidRequest, ScoreRule
<1>2. x = IF k = 0 THEN 0 ELSE Lesser(80, 50 + 5 * k) + Points(s, 10) + Points(f, 5)
  BY DEF ExactScore
<1>3. r \in {-1, 0, 1} /\ (k = 0 => r = 0)
  <2>1. r = CASE f /\ (k = 1 \/ k >= 6 \/ (k = 3 /\ ~s)) -> 1
              [] ~f /\ s /\ k = 4 -> -1
              [] OTHER -> 0
    BY DEF Rounding
  <2> HIDE DEF r, s, f, k
  <2>2. QED
    BY <1>1, <2>1
<1>4. Points(s, 10) \in {0, 10} /\ Points(f, 5) \in {0, 5}
  BY DEF Points
<1> HIDE DEF s, f, k, x, r
<1>5. x \in Int /\ (k = 0 => x = 0) /\ (k # 0 => x >= 55)
  BY <1>1, <1>2, <1>4 DEF Lesser
<1>6. /\ 10 * x + r \in Int /\ (10 * x + r) - 10 * x \in -1..1
      /\ (k = 0 => 10 * x + r = 0) /\ (k # 0 => 10 * x + r > 400)
  BY <1>3, <1>5
<1>7. QED
  BY <1>1, <1>5, <1>6 DEF k, x

\* What the loop has kept when it has looked at the rules of the first n tiers.
BestOf(item, best, n) ==
  \/ /\ best.tier = 5 /\ best.confidence = 400
     /\ \A u \in 1..n : item.hits[u] = 0
  \/ /\ best.tier \in 1..n /\ best.confidence = ScoreRule(item, best.tier) /\ best.confidence > 400
     /\ \A u \in 1..n : /\ u < best.tier => ScoreRule(item, u) < best.confidence
                        /\ ScoreRule(item, u) <= best.confidence

LEMMA ConsiderKeepsBest ==
  ASSUME NEW item \in ValidRequest, NEW best, NEW n \in 0..5, NEW m, m = n + 1, BestOf(item, best, n)
  PROVE  BestOf(item, Consider(item, best, m), m)
<1> DEFINE new == Consider(item, best, m)
<1>1. m \in 1..6 /\ \A u \in 1..m : u \in 1..6 /\ (u \in 1..n \/ u = m)
  OBVIOUS
<1>2. \A u \in 1..m : /\ ScoreRule(item, u) \in Int
                      /\ item.hits[u] = 0 => ScoreRule(item, u) = 0
                      /\ item.hits[u] # 0 => ScoreRule(item, u) > 400
  BY <1>1, RuleScores
<1>3. CASE ScoreRule(item, m) > best.confidence
  <2>1. new.tier = m /\ new.confidence = ScoreRule(item, m)
    BY <1>3 DEF Consider, Beats
  <2> HIDE DEF new
  <2>2. new.confidence > 400 /\ \A u \in 1..n : ScoreRule(item, u) < new.confidence
    BY <1>1, <1>2, <1>3, <2>1 DEF BestOf
  <2>3. QED
    BY <1>1, <1>2, <2>1, <2>2 DEF BestOf, new
<1>4. CASE ~(ScoreRule(item, m) > best.confidence)
  <2>1. new = best
    BY <1>4 DEF Consider, Beats
  <2> HIDE DEF new
  <2>2. CASE best.tier = 5 /\ best.confidence = 400 /\ \A u \in 1..n : item.hits[u] = 0
    BY <1>1, <1>2, <1>4, <2>1, <2>2 DEF BestOf, new
  <2>3. CASE /\ best.tier \in 1..n /\ best.confidence = ScoreRule(item, best.tier)
             /\ best.confidence > 400
             /\ \A u \in 1..n : /\ u < best.tier => ScoreRule(item, u) < best.confidence
                                /\ ScoreRule(item, u) <= best.confidence
    <3>1. best.tier \in 1..m /\ ~(m < best.tier) /\ best.confidence \in Int
      BY <1>1, <1>2, <2>3
    <3>2. ScoreRule(item, m) <= best.confidence
      BY <1>1, <1>2, <1>4, <3>1
    <3>3. QED
      BY <1>1, <2>1, <2>3, <3>1, <3>2 DEF BestOf, new
  <2>4. QED
    BY <2>2, <2>3 DEF BestOf
<1>5. QED
  BY <1>3, <1>4

LEMMA ClassifyIsBest ==
  ASSUME NEW item \in ValidRequest
  PROVE  BestOf(item, Classify(item), 6)
<1> DEFINE zero  == [tier |-> 5, confidence |-> 400]
           one   == Consider(item, zero, 1)
           two   == Consider(item, one, 2)
           three == Consider(item, two, 3)
           four  == Consider(item, three, 4)
           five  == Consider(item, four, 5)
<1>1. BestOf(item, zero, 0)
  BY DEF BestOf
<1>2. Classify(item) = Consider(item, five, 6)
  BY DEF Classify
<1> HIDE DEF zero
<1>3. BestOf(item, one, 1)
  BY <1>1, ConsiderKeepsBest
<1> HIDE DEF one
<1>4. BestOf(item, two, 2)
  BY <1>3, ConsiderKeepsBest
<1> HIDE DEF two
<1>5. BestOf(item, three, 3)
  BY <1>4, ConsiderKeepsBest
<1> HIDE DEF three
<1>6. BestOf(item, four, 4)
  BY <1>5, ConsiderKeepsBest
<1> HIDE DEF four
<1>7. BestOf(item, five, 5)
  BY <1>6, ConsiderKeepsBest
<1> HIDE DEF five
<1>8. QED
  BY <1>2, <1>7, ConsiderKeepsBest

LEMMA InvBestTier == EvidenceInv => BestTierIsStored
<1> SUFFICES ASSUME EvidenceInv, NEW e \in EvidenceIds, tiers[e] # NoTier
             PROVE  LET item == evidence[e]
                        t == tiers[e].tier
                    IN  \/ /\ ScoreRule(item, t) > 400
                           /\ \A u \in 1..6 : /\ u < t => ScoreRule(item, u) < ScoreRule(item, t)
                                             /\ ScoreRule(item, u) <= ScoreRule(item, t)
                                             /\ ExactScore(item, u) <= ExactScore(item, t)
                        \/ t = 5 /\ \A u \in 1..6 : item.hits[u] = 0
  BY DEF BestTierIsStored
<1> DEFINE item == evidence[e]
           t == tiers[e].tier
<1>1. e \in Stored /\ tiers[e] = Classify(item)
  BY DEF EvidenceInv, TiersFit
<1>2. item \in ValidRequest
  BY <1>1 DEF EvidenceInv, ScoresInv, EvidenceTypeOK, Stored
<1>3. BestOf(item, tiers[e], 6)
  BY <1>1, <1>2, ClassifyIsBest
<1>4. ASSUME t \in 1..6, NEW u \in 1..6, ScoreRule(item, u) <= ScoreRule(item, t)
      PROVE  ExactScore(item, u) <= ExactScore(item, t)
  <2> DEFINE a == ExactScore(item, u)
             b == ExactScore(item, t)
             x == ScoreRule(item, u)
             y == ScoreRule(item, t)
  <2>1. /\ a \in Int /\ b \in Int /\ x \in Int /\ y \in Int /\ x <= y
        /\ x - 10 * a \in -1..1 /\ y - 10 * b \in -1..1
    BY <1>2, <1>4, RuleScores
  <2> HIDE DEF a, b, x, y
  <2>2. a <= b
    BY <2>1
  <2>3. QED
    BY <2>2 DEF a, b
<1>5. CASE t = 5 /\ \A u \in 1..6 : item.hits[u] = 0
  BY <1>5
<1>6. CASE /\ t \in 1..6 /\ tiers[e].confidence = ScoreRule(item, t) /\ tiers[e].confidence > 400
           /\ \A u \in 1..6 : /\ u < t => ScoreRule(item, u) < tiers[e].confidence
                             /\ ScoreRule(item, u) <= tiers[e].confidence
  <2>1. \A u \in 1..6 : /\ u < t => ScoreRule(item, u) < ScoreRule(item, t)
                        /\ ScoreRule(item, u) <= ScoreRule(item, t)
                        /\ ExactScore(item, u) <= ExactScore(item, t)
    BY <1>4, <1>6
  <2>2. ScoreRule(item, t) > 400
    BY <1>6
  <2>3. QED
    BY <2>1, <2>2
<1>7. QED
  BY <1>3, <1>5, <1>6 DEF BestOf

LEMMA AnswerIsBacked ==
  ASSUME EvidenceInv, AnswerSufficiency, reader'.sufficient
  PROVE  LET c == reader.control
             scored == ScoredOf(c)
             needed == Thresholds[reader.rating]
         IN  /\ Cardinality(scored \cup InFlight(c)) >= needed.count
             /\ Cardinality(scored) >= 1
             /\ Total(scored) >= 100 * needed.score * Cardinality(scored)
             /\ \E e \in scored : scores[e].aggregate >= 100 * needed.score
<1> DEFINE c == reader.control
           scored == ScoredOf(c)
           needed == Thresholds[reader.rating]
<1>1. /\ ScoresInv /\ reader.rating \in Ratings
      /\ reader.count \in Nat /\ reader.count <= Cardinality(OfControl(c))
  <2>1. ReaderItems = OfControl(c)
    BY DEF ReaderItems, OfControl
  <2>2. QED
    BY <2>1 DEF EvidenceInv, ReaderFits, AnswerSufficiency
<1>2. needed.count \in Nat /\ needed.score \in Nat
  <2>1. \A r \in {"critical", "high", "medium", "low", "informational"} :
          Thresholds[r].count \in Nat /\ Thresholds[r].score \in Nat
    BY DEF Thresholds
  <2>2. reader.rating \in {"critical", "high", "medium", "low", "informational"}
    BY <1>1, EvidenceAssumption
  <2>3. QED
    BY <2>1, <2>2
<1>3. /\ reader.count >= needed.count /\ scored # {}
      /\ Total(scored) >= 100 * needed.score * Cardinality(scored)
  BY DEF AnswerSufficiency, Evaluate
<1>4. /\ OfControl(c) \in SUBSET Stored /\ Cardinality(OfControl(c)) \in Nat
      /\ scored \in SUBSET Stored /\ scored \subseteq OfControl(c)
  BY ItemsAreFinite DEF ScoredOf
<1>5. IsFiniteSet(scored) /\ Cardinality(scored) \in Nat
  BY <1>4, StoredIsFinite
<1>6. scored \cup InFlight(c) = OfControl(c)
  <2>1. ASSUME NEW e \in OfControl(c), e \notin scored PROVE e \in InFlight(c)
    <3>1. scores[e] = NoScore /\ e \in Stored /\ e \in EvidenceIds
      BY <1>4, <2>1 DEF ScoredOf, Stored
    <3>2. PICK h \in Ingests : Holds(h, e)
      BY <1>1, <3>1 DEF ScoresInv, HeldUntilScored
    <3>3. "id" \in DOMAIN ingest[h]
      <4>1. ingest[h] \in Job /\ ingest[h].phase \in {"saved", "classified", "counted"}
        BY <1>1, <3>2 DEF ScoresInv, EvidenceTypeOK, Holds
      <4>2. QED
        BY <4>1 DEF Job, NoIngest
    <3>4. QED
      BY <2>1, <3>2, <3>3 DEF InFlight, Holds
  <2>2. InFlight(c) \subseteq OfControl(c)
    BY DEF InFlight
  <2>3. QED
    BY <1>4, <2>1, <2>2
<1>7. Cardinality(scored \cup InFlight(c)) >= needed.count
  <2> HIDE DEF needed, scored
  <2>1. Cardinality(OfControl(c)) >= needed.count
    BY <1>1, <1>2, <1>3, <1>4
  <2>2. QED
    BY <1>6, <2>1
<1>8. Cardinality(scored) >= 1
  <2>1. Cardinality(scored) # 0
    BY <1>3, <1>5, FS_EmptySet
  <2>2. QED
    BY <1>5, <2>1
<1>9. \E e \in scored : scores[e].aggregate >= 100 * needed.score
  <2> DEFINE w == [e \in scored |-> scores[e].aggregate]
             least == 100 * needed.score
  <2>1. Total(scored) = SumFunctionOnSet(w, scored)
    BY DEF Total, SumFunction
  <2>2. \A e \in scored : w[e] = scores[e].aggregate /\ w[e] \in Int
    BY <1>1, <1>4 DEF ScoresInv, EvidenceTypeOK, Stored
  <2>3. least \in Int /\ Total(scored) >= least * Cardinality(scored)
    BY <1>2, <1>3
  <2> HIDE DEF w, least, scored
  <2>4. SUFFICES ASSUME \A e \in scored : w[e] < least PROVE FALSE
    BY <2>2, <2>3 DEF least
  <2>5. SumFunctionOnSet(w, scored) < least * Cardinality(scored)
    BY <1>3, <1>5, <2>2, <2>3, <2>4, SumBelow
  <2>6. SumFunctionOnSet(w, scored) \in Int
    BY <1>5, <2>2, SumIsInt
  <2>7. least * Cardinality(scored) \in Int
    BY <1>5, <2>3
  <2>8. QED
    BY <2>1, <2>3, <2>5, <2>6, <2>7
<1>10. QED
  BY <1>3, <1>7, <1>8, <1>9

\* Evidence gets the tier of the rule with the best score as computed, which no
\* rule's exact sum exceeds, and a score that counted what came before it, and no
\* control is called sufficient without an average of such scores
\* (handler.go:110-134, 232-259, classifier.go:93-119).
THEOREM SpecEvidenceIsWeighed == EvidenceSpec => EvidenceIsWeighed
<1>1. EvidenceInv => CorroborationSeesEarlier /\ BestTierIsStored
  BY InvCorroboration, InvBestTier
<1>2. EvidenceInv /\ [EvidenceNext]_evidenceVars =>
        [(reader'.phase = "answered" /\ reader.phase = "read" /\ reader'.sufficient) =>
           LET c == reader.control
               scored == ScoredOf(c)
               needed == Thresholds[reader.rating]
           IN  /\ Cardinality(scored \cup InFlight(c)) >= needed.count
               /\ Cardinality(scored) >= 1
               /\ Total(scored) >= 100 * needed.score * Cardinality(scored)
               /\ \E e \in scored : scores[e].aggregate >= 100 * needed.score]_reader
  <2> SUFFICES ASSUME EvidenceInv, EvidenceNext, reader' # reader,
                      reader'.phase = "answered", reader.phase = "read", reader'.sufficient
               PROVE  LET c == reader.control
                          scored == ScoredOf(c)
                          needed == Thresholds[reader.rating]
                      IN  /\ Cardinality(scored \cup InFlight(c)) >= needed.count
                          /\ Cardinality(scored) >= 1
                          /\ Total(scored) >= 100 * needed.score * Cardinality(scored)
                          /\ \E e \in scored : scores[e].aggregate >= 100 * needed.score
    BY DEF evidenceVars
  <2>1. AnswerSufficiency
    BY DEF EvidenceNext, IngestEvidence, RefuseItem, SaveEvidence, SaveClassification,
           FindPeers, SaveQualityScore, ClassifyEvidence, ReadEvidence
  <2>2. QED
    BY <2>1, AnswerIsBacked
<1>3. QED
  BY SpecEvidenceInv, <1>1, <1>2, PTL DEF EvidenceSpec, EvidenceIsWeighed, SufficientIsBacked
=============================================================================
