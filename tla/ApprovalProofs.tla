--------------------------- MODULE ApprovalProofs ---------------------------
(***************************************************************************)
(* Proofs about Approval, for every set of workflows, organisations and    *)
(* requests and every bound on the histories.                              *)
(***************************************************************************)
EXTENDS Approval, SequenceTheorems, TLAPS

\* The records a store or a request may hold besides a workflow are none.
LEMMA Distinct == NoWorkflow \notin Workflow /\ Idle \notin Workflow
BY DEF NoWorkflow, Idle, Workflow, Statuses

\* A transition yields a workflow of the same id and type, in the status it
\* goes to, with one more entry in its history.
LEMMA TransitionType ==
  ASSUME NEW w \in Workflow, NEW action \in Actions, NEW to \in Statuses,
         NEW role \in Roles
  PROVE  LET v == ApplyTransition(w, action, to, role)
             e == [action |-> action, role |-> role, from |-> w.status, to |-> to]
         IN  /\ v \in Workflow
             /\ v.id = w.id /\ v.type = w.type /\ v.org = w.org /\ v.status = to
             /\ e \in Entry
             /\ v.history = Append(w.history, e)
<1> DEFINE e == [action |-> action, role |-> role, from |-> w.status, to |-> to]
<1>1. e \in Entry
  BY DEF Entry, Workflow
<1>2. w.history \in Seq(Entry)
  BY DEF Workflow
<1>3. Append(w.history, e) \in Seq(Entry)
  BY <1>1, <1>2
<1> HIDE DEF e
<1>4. e = [action |-> action, role |-> role, from |-> w.status, to |-> to]
  BY DEF e
<1> QED
  BY <1>1, <1>3, <1>4 DEF ApplyTransition, Workflow

-----------------------------------------------------------------------------
(* Type correctness *)

LEMMA InitType == Init => TypeOK
BY DEF Init, TypeOK

\* What a transition handler needs to be known to write well-typed state.
LEMMA SaveType ==
  ASSUME TypeOK, NEW r \in Requests, NEW w \in Workflow, SaveAndRespond(r, w)
  PROVE  TypeOK'
BY DEF TypeOK, SaveAndRespond, Update, Workflow

\* Every step of a transition handler writes the transition of a loaded copy
\* along an edge of the approval graph, walked by a role the edge admits.
Walked(r, edge, role) ==
  /\ req[r] \in Workflow
  /\ req[r].status = edge.from
  /\ role \in Abs!Walkers(req[r].type, edge)
  /\ SaveAndRespond(r, ApplyTransition(req[r], edge.action, edge.to, role))

\* CanApprove and the abstract table of deciders agree.
LEMMA ApproversAreDeciders ==
  ASSUME NEW type \in Types, NEW role \in Roles
  PROVE  CanApprove(type, role) <=> role \in Abs!Deciders(type)
BY DEF CanApprove, AllowedApprovers, Abs!Deciders, Types

LEMMA HandlersWalk ==
  ASSUME TypeOK, NEW r \in Requests, NEW role \in Roles, NEW given \in BOOLEAN,
         \/ Submit(r, role)
         \/ Approve(r, role)
         \/ Reject(r, role, given)
         \/ Lock(r, role, given)
         \/ ReturnToDraft(r, role)
  PROVE  \E edge \in Abs!Edges : Walked(r, edge, role)
<1>1. Loaded(r)
  BY DEF Submit, Approve, Reject, Lock, ReturnToDraft
<1>2. req[r] \in Workflow /\ req[r].type \in Types /\ req[r].status \in Statuses
  BY <1>1 DEF Loaded, TypeOK, Workflow
<1>3. CASE Submit(r, role)
  <2>1. CASE req[r].status = "draft"
    <3> DEFINE edge == [action |-> "submitted", from |-> "draft", to |-> "pending_approval"]
    <3>1. edge \in Abs!Edges
      BY DEF Abs!Edges
    <3>2. Walked(r, edge, role)
      BY <1>2, <1>3, <2>1 DEF Walked, Submit, Abs!Walkers
    <3> QED BY <3>1, <3>2
  <2>2. CASE req[r].status = "rejected"
    <3> DEFINE edge == [action |-> "submitted", from |-> "rejected", to |-> "pending_approval"]
    <3>1. edge \in Abs!Edges
      BY DEF Abs!Edges
    <3>2. Walked(r, edge, role)
      BY <1>2, <1>3, <2>2 DEF Walked, Submit, Abs!Walkers
    <3> QED BY <3>1, <3>2
  <2> QED BY <1>3, <2>1, <2>2 DEF Submit
<1>4. CASE Approve(r, role)
  <2> DEFINE edge == [action |-> "approved", from |-> "pending_approval", to |-> "approved"]
  <2>1. edge \in Abs!Edges
    BY DEF Abs!Edges
  <2>2. Walked(r, edge, role)
    BY <1>2, <1>4, ApproversAreDeciders DEF Walked, Approve, Abs!Walkers
  <2> QED BY <2>1, <2>2
<1>5. CASE Reject(r, role, given)
  <2> DEFINE edge == [action |-> "rejected", from |-> "pending_approval", to |-> "rejected"]
  <2>1. edge \in Abs!Edges
    BY DEF Abs!Edges
  <2>2. Walked(r, edge, role)
    BY <1>2, <1>5, ApproversAreDeciders DEF Walked, Reject, Abs!Walkers
  <2> QED BY <2>1, <2>2
<1>6. CASE Lock(r, role, given)
  <2> DEFINE edge == [action |-> "locked", from |-> "approved", to |-> "locked"]
  <2>1. edge \in Abs!Edges
    BY DEF Abs!Edges
  <2>2. Walked(r, edge, role)
    BY <1>2, <1>6, ApproversAreDeciders DEF Walked, Lock, Abs!Walkers
  <2> QED BY <2>1, <2>2
<1>7. CASE ReturnToDraft(r, role)
  <2> DEFINE edge == [action |-> "returned_to_draft", from |-> "rejected", to |-> "draft"]
  <2>1. edge \in Abs!Edges
    BY DEF Abs!Edges
  <2>2. Walked(r, edge, role)
    BY <1>2, <1>7 DEF Walked, ReturnToDraft, Abs!Walkers
  <2> QED BY <2>1, <2>2
<1> QED
  BY <1>3, <1>4, <1>5, <1>6, <1>7

LEMMA EdgeType ==
  ASSUME NEW edge \in Abs!Edges
  PROVE  edge.action \in Actions /\ edge.from \in Statuses /\ edge.to \in Statuses
BY DEF Abs!Edges, Actions, Statuses

\* A step changes the store by a creation, or by a walk along an edge.
LEMMA StepShape ==
  ASSUME TypeOK, Next
  PROVE  \/ \E id \in Ids : Create(id)
         \/ \E r \in Requests, org \in Orgs, id \in Ids : LoadWorkflow(r, org, id)
         \/ \E r \in Requests : Refuse(r)
         \/ \E r \in Requests, role \in Roles, edge \in Abs!Edges : Walked(r, edge, role)
<1>1. CASE \E r \in Requests, role \in Roles :
             \/ Submit(r, role) \/ Approve(r, role)
             \/ \E given \in BOOLEAN : Reject(r, role, given) \/ Lock(r, role, given)
             \/ ReturnToDraft(r, role)
  <2>1. PICK r \in Requests, role \in Roles :
             \/ Submit(r, role) \/ Approve(r, role)
             \/ \E given \in BOOLEAN : Reject(r, role, given) \/ Lock(r, role, given)
             \/ ReturnToDraft(r, role)
    BY <1>1
  <2>2. \E edge \in Abs!Edges : Walked(r, edge, role)
    BY <2>1, HandlersWalk
  <2> QED BY <2>2
<1> QED
  BY <1>1 DEF Next

LEMMA NextType == TypeOK /\ [Next]_vars => TypeOK'
<1> SUFFICES ASSUME TypeOK, [Next]_vars PROVE TypeOK'
  OBVIOUS
<1>1. CASE \E id \in Ids : Create(id)
  <2>1. PICK id \in Ids, org \in Orgs, type \in Types :
           /\ store' = [store EXCEPT ![id] = NewWorkflow(id, org, type)]
           /\ UNCHANGED <<req, answered>>
    BY <1>1 DEF Create
  <2>2. NewWorkflow(id, org, type) \in Workflow
    BY DEF NewWorkflow, Workflow, Statuses, Roles
  <2> QED BY <2>1, <2>2 DEF TypeOK
<1>2. CASE \E r \in Requests, org \in Orgs, id \in Ids : LoadWorkflow(r, org, id)
  BY <1>2 DEF LoadWorkflow, Get, TypeOK
<1>3. CASE \E r \in Requests : Refuse(r)
  BY <1>3 DEF Refuse, TypeOK
<1>4. CASE \E r \in Requests, role \in Roles, edge \in Abs!Edges : Walked(r, edge, role)
  <2>1. PICK r \in Requests, role \in Roles, edge \in Abs!Edges : Walked(r, edge, role)
    BY <1>4
  <2>2. ApplyTransition(req[r], edge.action, edge.to, role) \in Workflow
    BY <2>1, EdgeType, TransitionType DEF Walked
  <2> QED BY <2>1, <2>2, SaveType DEF Walked
<1>5. CASE UNCHANGED vars
  BY <1>5 DEF TypeOK, vars
<1> QED
  BY <1>1, <1>2, <1>3, <1>4, <1>5, StepShape

\* The stored workflows, the copies in flight and the answer counts keep their
\* types (store.go, handler.go).
THEOREM TypeCorrect == Spec => []TypeOK
<1> QED BY InitType, NextType, PTL DEF Spec

-----------------------------------------------------------------------------
(* The invariant: every record, stored or in flight, is coherent, bears the *)
(* decision of its last deciding entry, and has no entry nobody was told of.*)
(* Copies in flight must be included: a stale copy is what Update stores.   *)

Decided(w) ==
  w.status \in {"approved", "locked", "rejected"} =>
    /\ Len(w.history) > 0
    /\ w.decidedBy = w.history[Len(w.history)].role

Sound(w) == Coherent(w) /\ Decided(w)

IInv ==
  /\ TypeOK
  /\ \A id \in Ids : store[id] # NoWorkflow =>
       /\ store[id].id = id
       /\ Sound(store[id])
       /\ Len(store[id].history) <= answered[id]
  /\ \A r \in Requests : req[r] # Idle =>
       /\ Sound(req[r])
       /\ Len(req[r].history) <= answered[req[r].id]

LEMMA CoherentStep ==
  ASSUME NEW w \in Workflow, Coherent(w), NEW edge \in Abs!Edges,
         w.status = edge.from, NEW role \in Roles, role \in Abs!Walkers(w.type, edge)
  PROVE  LET v == ApplyTransition(w, edge.action, edge.to, role)
         IN  Coherent(v) /\ Decided(v) /\ Len(v.history) = Len(w.history) + 1
<1> DEFINE v == ApplyTransition(w, edge.action, edge.to, role)
           e == [action |-> edge.action, role |-> role, from |-> w.status, to |-> edge.to]
           h == w.history
           n == Len(h)
<1>1. /\ v \in Workflow /\ v.type = w.type /\ v.status = edge.to
      /\ e \in Entry /\ v.history = Append(h, e)
  BY EdgeType, TransitionType
<1>2. h \in Seq(Entry) /\ n \in Nat
  BY DEF Workflow
<1>3. /\ Len(Append(h, e)) = n + 1
      /\ \A i \in 1..n : Append(h, e)[i] = h[i]
      /\ Append(h, e)[n + 1] = e
  BY <1>1, <1>2
<1>4. Legal(w.type, e)
  BY DEF Legal
<1>5. e.from = IF n + 1 = 1 THEN "draft" ELSE h[n].to
  BY <1>2 DEF Coherent
<1>6. Coherent(v)
  <2>1. ASSUME NEW i \in 1..(n + 1)
        PROVE  /\ Legal(w.type, Append(h, e)[i])
               /\ Append(h, e)[i].from = IF i = 1 THEN "draft" ELSE Append(h, e)[i - 1].to
    <3>1. CASE i = n + 1
      BY <3>1, <1>2, <1>3, <1>4, <1>5
    <3>2. CASE i \in 1..n
      <4>1. i = 1 \/ i - 1 \in 1..n
        BY <3>2, <1>2
      <4> QED BY <3>2, <4>1, <1>3, <1>2 DEF Coherent
    <3> QED BY <3>1, <3>2, <1>2
  <2> HIDE DEF e
  <2>2. e.to = edge.to
    BY DEF e
  <2> QED BY <2>1, <2>2, <1>1, <1>2, <1>3 DEF Coherent
<1>7. Decided(v)
  <2>1. v.decidedBy = role \/ v.status \notin {"approved", "locked", "rejected"}
    BY <1>1 DEF ApplyTransition, Workflow
  <2>2. e.role = role
    OBVIOUS
  <2> QED BY <2>1, <2>2, <1>1, <1>2, <1>3 DEF Decided
<1> QED
  BY <1>1, <1>3, <1>6, <1>7

LEMMA StoreStep ==
  ASSUME TypeOK, NEW r \in Requests, NEW w \in Workflow, SaveAndRespond(r, w)
  PROVE  /\ store[w.id] # NoWorkflow
         /\ w.id \in Ids
         /\ \A id \in Ids : store'[id] = IF id = w.id THEN w ELSE store[id]
         /\ \A q \in Requests : req'[q] = IF q = r THEN Idle ELSE req[q]
         /\ \A id \in Ids : answered'[id] = IF id = w.id THEN answered[id] + 1 ELSE answered[id]
BY DEF TypeOK, SaveAndRespond, Update, Workflow

LEMMA InitIInv == Init => IInv
BY InitType DEF Init, IInv

LEMMA NextIInv == IInv /\ [Next]_vars => IInv'
<1> SUFFICES ASSUME IInv, [Next]_vars PROVE IInv'
  OBVIOUS
<1>0. TypeOK /\ TypeOK'
  BY NextType DEF IInv
<1>1. CASE \E id \in Ids : Create(id)
  <2>1. PICK id \in Ids, org \in Orgs, type \in Types :
           /\ store' = [store EXCEPT ![id] = NewWorkflow(id, org, type)]
           /\ UNCHANGED <<req, answered>>
    BY <1>1 DEF Create
  <2> DEFINE w == NewWorkflow(id, org, type)
  <2>2. w.id = id /\ Sound(w) /\ Len(w.history) = 0
    BY DEF NewWorkflow, Sound, Coherent, Decided
  <2> HIDE DEF w
  <2>3. \A i \in Ids : store'[i] = IF i = id THEN w ELSE store[i]
    BY <2>1, <1>0 DEF TypeOK, w
  <2>4. answered[id] \in Nat
    BY <1>0 DEF TypeOK
  <2> QED BY <2>1, <2>2, <2>3, <2>4, <1>0 DEF IInv
<1>2. CASE \E r \in Requests, org \in Orgs, id \in Ids : LoadWorkflow(r, org, id)
  <2>1. PICK r \in Requests, org \in Orgs, id \in Ids : LoadWorkflow(r, org, id)
    BY <1>2
  <2>2. /\ store[id] # NoWorkflow
        /\ UNCHANGED <<store, answered>>
        /\ \A q \in Requests : req'[q] = IF q = r THEN store[id] ELSE req[q]
    BY <2>1, <1>0 DEF LoadWorkflow, Get, TypeOK
  <2> QED BY <2>2, <1>0 DEF IInv
<1>3. CASE \E r \in Requests : Refuse(r)
  <2>1. PICK r \in Requests : Refuse(r)
    BY <1>3
  <2>2. /\ UNCHANGED <<store, answered>>
        /\ \A q \in Requests : req'[q] = IF q = r THEN Idle ELSE req[q]
    BY <2>1, <1>0 DEF Refuse, TypeOK
  <2> QED BY <2>2, <1>0 DEF IInv
<1>4. CASE \E r \in Requests, role \in Roles, edge \in Abs!Edges : Walked(r, edge, role)
  <2>1. PICK r \in Requests, role \in Roles, edge \in Abs!Edges : Walked(r, edge, role)
    BY <1>4
  <2>2. PICK w \in Workflow : w = req[r]
    BY <2>1 DEF Walked
  <2>3. w # Idle /\ w.id \in Ids /\ Sound(w) /\ Len(w.history) <= answered[w.id]
    BY <2>2, Distinct DEF IInv, Workflow
  <2>4. PICK v \in Workflow : v = ApplyTransition(w, edge.action, edge.to, role)
    BY <2>2, EdgeType, TransitionType
  <2>5. v.id = w.id
    BY <2>4, EdgeType, TransitionType
  <2>6. Sound(v) /\ Len(v.history) = Len(w.history) + 1
    BY <2>1, <2>2, <2>3, <2>4, CoherentStep DEF Walked, Sound
  <2>7. /\ store[v.id] # NoWorkflow
        /\ v.id \in Ids
        /\ \A id \in Ids : store'[id] = IF id = v.id THEN v ELSE store[id]
        /\ \A q \in Requests : req'[q] = IF q = r THEN Idle ELSE req[q]
        /\ \A id \in Ids : answered'[id] = IF id = v.id THEN answered[id] + 1 ELSE answered[id]
    BY <2>1, <2>2, <2>4, <1>0, StoreStep DEF Walked
  <2>8. \A id \in Ids : answered[id] \in Nat /\ answered'[id] \in Nat /\ answered[id] <= answered'[id]
    BY <2>7, <1>0 DEF TypeOK
  <2>9. Len(v.history) <= answered'[v.id]
    <3>1. Len(w.history) \in Nat
      BY DEF Workflow
    <3> QED BY <3>1, <2>3, <2>5, <2>6, <2>7, <2>8
  <2>10. ASSUME NEW id \in Ids, store'[id] # NoWorkflow
         PROVE  /\ store'[id].id = id
                /\ Sound(store'[id])
                /\ Len(store'[id].history) <= answered'[id]
    <3>1. CASE id = v.id
      BY <3>1, <2>6, <2>7, <2>9
    <3>2. CASE id # v.id
      BY <3>2, <2>7, <2>10 DEF IInv
    <3> QED BY <3>1, <3>2
  <2>11. ASSUME NEW q \in Requests, req'[q] # Idle
         PROVE  Sound(req'[q]) /\ Len(req'[q].history) <= answered'[req'[q].id]
    <3>1. req'[q] = req[q] /\ req[q] # Idle
      BY <2>7, <2>11
    <3>2. req[q] \in Workflow /\ req[q].id \in Ids /\ Len(req[q].history) \in Nat
      BY <3>1, <1>0 DEF TypeOK, Workflow
    <3>3. Sound(req[q]) /\ Len(req[q].history) <= answered[req[q].id]
      BY <3>1 DEF IInv
    <3> QED BY <3>1, <3>2, <3>3, <2>8
  <2> QED BY <2>10, <2>11, <1>0 DEF IInv
<1>5. CASE UNCHANGED vars
  BY <1>5, <1>0 DEF vars, IInv
<1> QED
  BY <1>0, <1>1, <1>2, <1>3, <1>4, <1>5, StepShape

LEMMA Invariance == Spec => []IInv
<1> QED BY InitIInv, NextIInv, PTL DEF Spec

\* Every stored workflow is one run of the state machine, however the requests
\* on it race between Get and Update (store.go:36-78).
THEOREM StoreCoherent == Spec => []StoredIsCoherent
<1>1. IInv => StoredIsCoherent
  BY DEF IInv, Sound, StoredIsCoherent
<1> QED BY <1>1, Invariance, PTL

\* A save never writes an entry that no client was told of (handler.go:251-257).
THEOREM NoInventedEntries == Spec => []EntriesWereAnswered
<1>1. IInv => EntriesWereAnswered
  BY DEF IInv, EntriesWereAnswered
<1> QED BY <1>1, Invariance, PTL

\* An entry of a coherent history names the edge it went along.
LEMMA LegalEdge ==
  ASSUME NEW type \in Types, NEW e \in Entry, Legal(type, e)
  PROVE  /\ e.to = "locked" => e.action = "locked" /\ e.from = "approved" /\ CanApprove(type, e.role)
         /\ e.to = "approved" => e.action = "approved" /\ e.from = "pending_approval" /\ CanApprove(type, e.role)
         /\ e.to = "pending_approval" => e.action = "submitted" /\ e.role = "engagement_lead"
<1>1. PICK edge \in Abs!Edges : /\ e.action = edge.action /\ e.from = edge.from /\ e.to = edge.to
                               /\ e.role \in Abs!Walkers(type, edge)
  BY DEF Legal
<1>2. e.role \in Roles
  BY DEF Entry
<1>3. e.to \in {"locked", "approved"} => e.role \in Abs!Deciders(type)
  BY <1>1 DEF Abs!Edges, Abs!Walkers
<1>4. e.to = "pending_approval" => e.role = "engagement_lead"
  <2>1. CASE edge.action = "submitted"
    BY <1>1, <2>1 DEF Abs!Walkers
  <2>2. CASE edge.action # "submitted"
    <3>1. edge.to # "pending_approval"
      BY <2>2 DEF Abs!Edges
    <3> QED BY <1>1, <3>1
  <2> QED BY <2>1, <2>2
<1> QED BY <1>1, <1>2, <1>3, <1>4, ApproversAreDeciders DEF Abs!Edges

\* Whatever races preceded it, a locked workflow was submitted by the engagement
\* lead and approved and locked by roles of its gate (workflow.go:182-227).
THEOREM LockedSignedOff == Spec => []LockedWasSignedOff
<1>1. ASSUME IInv, NEW id \in Ids, store[id].status = "locked"
      PROVE  LET h == store[id].history
                 n == Len(h)
             IN /\ n >= 3
                /\ h[n - 2].action = "submitted" /\ h[n - 2].role = "engagement_lead"
                /\ h[n - 1].action = "approved"  /\ CanApprove(store[id].type, h[n - 1].role)
                /\ h[n].action = "locked"        /\ CanApprove(store[id].type, h[n].role)
                /\ store[id].decidedBy = h[n].role
  <2> DEFINE w == store[id]
             h == w.history
             n == Len(h)
  <2>1. w \in Workflow /\ Coherent(w) /\ Decided(w)
    BY <1>1 DEF IInv, TypeOK, NoWorkflow, Sound
  <2>2. w.type \in Types /\ h \in Seq(Entry) /\ n \in Nat
    BY <2>1 DEF Workflow
  <2>3. \A i \in 1..n : h[i] \in Entry /\ Legal(w.type, h[i])
    BY <2>1, <2>2 DEF Coherent
  <2>4. n >= 1 /\ h[n].to = "locked"
    BY <1>1, <2>1, <2>2 DEF Coherent
  <2>5. h[n].action = "locked" /\ h[n].from = "approved" /\ CanApprove(w.type, h[n].role)
    BY <2>2, <2>3, <2>4, LegalEdge
  <2>6. n >= 2 /\ h[n - 1].to = "approved"
    BY <2>1, <2>2, <2>4, <2>5, SMTT(30) DEF Coherent
  <2>7. h[n - 1].action = "approved" /\ h[n - 1].from = "pending_approval" /\ CanApprove(w.type, h[n - 1].role)
    BY <2>2, <2>3, <2>6, LegalEdge, SMTT(30)
  <2>8. n >= 3 /\ h[n - 2].to = "pending_approval"
    BY <2>1, <2>2, <2>6, <2>7, SMTT(30) DEF Coherent
  <2>9. h[n - 2].action = "submitted" /\ h[n - 2].role = "engagement_lead"
    BY <2>2, <2>3, <2>8, LegalEdge, SMTT(30)
  <2>10. w.decidedBy = h[n].role
    BY <1>1, <2>1 DEF Decided
  <2> QED BY <2>5, <2>7, <2>8, <2>9, <2>10
<1>2. IInv => LockedWasSignedOff
  BY <1>1 DEF LockedWasSignedOff
<1> QED BY <1>2, Invariance, PTL

-----------------------------------------------------------------------------
(* One request at a time: the copy is never stale. *)

Serial == \A q, r \in Requests : q = r

\* The copy of a request is what is stored, and every answer is in a history.
Fresh == /\ \A r \in Requests : req[r] # Idle => req[r].id \in Ids /\ req[r] = store[req[r].id]
         /\ AnsweredIsKept
         /\ \A id \in Ids : store[id] = NoWorkflow => answered[id] = 0

LEMMA FreshStep ==
  ASSUME Serial, IInv, Fresh, [Next]_vars
  PROVE  Fresh'
<1>0. TypeOK /\ TypeOK'
  BY NextType DEF IInv
<1>1. CASE \E id \in Ids : Create(id)
  <2>1. PICK id \in Ids, org \in Orgs, type \in Types :
           /\ store[id] = NoWorkflow
           /\ store' = [store EXCEPT ![id] = NewWorkflow(id, org, type)]
           /\ UNCHANGED <<req, answered>>
    BY <1>1 DEF Create
  <2> DEFINE w == NewWorkflow(id, org, type)
  <2>2. Len(w.history) = 0 /\ w # NoWorkflow
    BY DEF NewWorkflow, NoWorkflow
  <2> HIDE DEF w
  <2>3. \A i \in Ids : store'[i] = IF i = id THEN w ELSE store[i]
    BY <2>1, <1>0 DEF TypeOK, w
  <2>4. ASSUME NEW r \in Requests, req[r] # Idle PROVE req[r].id # id
    BY <2>1, <2>4, <1>0, Distinct DEF Fresh, TypeOK
  <2> QED BY <2>1, <2>2, <2>3, <2>4 DEF Fresh, AnsweredIsKept
<1>2. CASE \E r \in Requests, org \in Orgs, id \in Ids : LoadWorkflow(r, org, id)
  <2>1. PICK r \in Requests, org \in Orgs, id \in Ids : LoadWorkflow(r, org, id)
    BY <1>2
  <2>2. /\ store[id] # NoWorkflow /\ store[id].id = id
        /\ UNCHANGED <<store, answered>>
        /\ \A q \in Requests : req'[q] = IF q = r THEN store[id] ELSE req[q]
    BY <2>1, <1>0 DEF LoadWorkflow, Get, TypeOK, IInv
  <2> QED BY <2>2 DEF Fresh, AnsweredIsKept
<1>3. CASE \E r \in Requests : Refuse(r)
  <2>1. PICK r \in Requests : Refuse(r)
    BY <1>3
  <2>2. /\ UNCHANGED <<store, answered>>
        /\ \A q \in Requests : req'[q] = IF q = r THEN Idle ELSE req[q]
    BY <2>1, <1>0 DEF Refuse, TypeOK
  <2> QED BY <2>2 DEF Fresh, AnsweredIsKept
<1>4. CASE \E r \in Requests, role \in Roles, edge \in Abs!Edges : Walked(r, edge, role)
  <2>1. PICK r \in Requests, role \in Roles, edge \in Abs!Edges : Walked(r, edge, role)
    BY <1>4
  <2>2. PICK w \in Workflow : w = req[r] /\ w # Idle
    BY <2>1, Distinct DEF Walked
  <2>3. PICK v \in Workflow : v = ApplyTransition(w, edge.action, edge.to, role)
    BY <2>2, EdgeType, TransitionType
  <2>4. v.id = w.id /\ Len(v.history) = Len(w.history) + 1
    <3>1. v.id = w.id
      BY <2>3, EdgeType, TransitionType
    <3>2. Coherent(w) /\ w.status = edge.from /\ role \in Abs!Walkers(w.type, edge)
      BY <2>1, <2>2 DEF Walked, IInv, Sound
    <3> QED BY <2>3, <3>1, <3>2, CoherentStep
  <2>5. w = store[w.id] /\ Len(w.history) = answered[w.id]
    BY <2>2, <1>0, Distinct DEF Fresh, AnsweredIsKept, Workflow
  <2>6. /\ v.id \in Ids
        /\ \A id \in Ids : store'[id] = IF id = v.id THEN v ELSE store[id]
        /\ \A q \in Requests : req'[q] = IF q = r THEN Idle ELSE req[q]
        /\ \A id \in Ids : answered'[id] = IF id = v.id THEN answered[id] + 1 ELSE answered[id]
    BY <2>1, <2>2, <2>3, <1>0, StoreStep DEF Walked
  <2>7. \A q \in Requests : req'[q] = Idle
    BY <2>6 DEF Serial
  <2>8. v # NoWorkflow
    BY Distinct
  <2> QED BY <2>4, <2>5, <2>6, <2>7, <2>8 DEF Fresh, AnsweredIsKept
<1>5. CASE UNCHANGED vars
  BY <1>5 DEF vars, Fresh, AnsweredIsKept
<1> QED
  BY <1>0, <1>1, <1>2, <1>3, <1>4, <1>5, StepShape

LEMMA InitFresh == Init => Fresh
BY DEF Init, Fresh, AnsweredIsKept

\* When requests are served one at a time no transition answered with 200 is
\* ever lost from a history (handler.go:251-257).
THEOREM SerialKeepsHistory ==
  ASSUME Serial PROVE Spec => []AnsweredIsKept
<1>1. IInv /\ Fresh /\ [Next]_vars => Fresh'
  BY FreshStep
<1>2. Fresh => AnsweredIsKept
  BY DEF Fresh
<1> QED BY <1>1, <1>2, InitFresh, Invariance, PTL DEF Spec

\* The abstract image of a step, when the copy written back is what is stored.
LEMMA AbstractStep ==
  ASSUME Serial, IInv, Fresh, [Next]_vars
  PROVE  [Abs!ANext]_(Abs!avars)
<1>0. TypeOK
  BY DEF IInv
<1>1. CASE \E id \in Ids : Create(id)
  <2>1. PICK id \in Ids, org \in Orgs, type \in Types :
           /\ store[id] = NoWorkflow
           /\ store' = [store EXCEPT ![id] = NewWorkflow(id, org, type)]
    BY <1>1 DEF Create
  <2> DEFINE w == NewWorkflow(id, org, type)
  <2>2. w.type = type /\ w.status = "draft" /\ w.history = <<>> /\ w # NoWorkflow
    BY DEF NewWorkflow, NoWorkflow
  <2> HIDE DEF w
  <2>3. \A i \in Ids : store'[i] = IF i = id THEN w ELSE store[i]
    BY <2>1, <1>0 DEF TypeOK, w
  <2>4. Abs!Open(id)
    BY <2>1, <2>2, <2>3, <1>0 DEF Abs!Open, Abs!GateTypes, Types, TypeOK
  <2> QED BY <2>4 DEF Abs!ANext
<1>2. CASE UNCHANGED store
  BY <1>2 DEF Abs!avars
<1>3. CASE \E r \in Requests, role \in Roles, edge \in Abs!Edges : Walked(r, edge, role)
  <2>1. PICK r \in Requests, role \in Roles, edge \in Abs!Edges : Walked(r, edge, role)
    BY <1>3
  <2>2. PICK w \in Workflow : w = req[r] /\ w # Idle
    BY <2>1, Distinct DEF Walked
  <2>3. PICK v \in Workflow : v = ApplyTransition(w, edge.action, edge.to, role)
    BY <2>2, EdgeType, TransitionType
  <2> DEFINE e == [action |-> edge.action, role |-> role, from |-> edge.from, to |-> edge.to]
  <2>4. /\ v.id = w.id /\ v.type = w.type /\ v.status = edge.to
        /\ v.history = Append(w.history, e)
    BY <2>1, <2>2, <2>3, EdgeType, TransitionType DEF Walked
  <2>5. w = store[w.id] /\ w.status = edge.from /\ role \in Abs!Walkers(w.type, edge)
    BY <2>1, <2>2 DEF Fresh, Walked
  <2> HIDE DEF e
  <2>6. /\ v.id \in Ids
        /\ \A id \in Ids : store'[id] = IF id = v.id THEN v ELSE store[id]
    BY <2>1, <2>2, <2>3, <1>0, StoreStep DEF Walked
  <2>7. v # NoWorkflow /\ w # NoWorkflow /\ w.type \in Types
    BY Distinct DEF Workflow
  <2>8. Abs!Walk(v.id, edge)
    <3> DEFINE i == v.id
               G(s) == [id \in Ids |-> IF s[id] = NoWorkflow THEN "none" ELSE s[id].type]
               S(s) == [id \in Ids |-> s[id].status]
               T(s) == [id \in Ids |-> IF s[id] = NoWorkflow THEN <<>> ELSE s[id].history]
    <3>1. G(store)[i] = w.type /\ S(store)[i] = edge.from /\ T(store)[i] = w.history
      BY <2>4, <2>5, <2>6, <2>7
    <3>2. G(store') = G(store)
      BY <2>4, <2>5, <2>6, <2>7
    <3>3. S(store') = [S(store) EXCEPT ![i] = edge.to]
      BY <2>4, <2>6
    <3>4. T(store') = [T(store) EXCEPT ![i] = Append(@, e)]
      BY <2>4, <2>5, <2>6, <2>7, <3>1
    <3>5. G(store)[i] # "none"
      BY <2>7, <3>1 DEF Types
    <3> HIDE DEF G, S, T
    <3>6. role \in Abs!Walkers(G(store)[i], edge)
      BY <2>5, <3>1
    <3> QED BY <3>1, <3>2, <3>3, <3>4, <3>5, <3>6 DEF Abs!Walk, G, S, T, e
  <2> QED BY <2>6, <2>8 DEF Abs!ANext
<1>4. CASE UNCHANGED vars
  BY <1>2, <1>4 DEF vars
<1> QED
  BY <1>0, <1>1, <1>2, <1>3, <1>4, StepShape DEF LoadWorkflow, Refuse

\* Served one request at a time, the service implements the atomic approval
\* state machine: statuses move along its edges, trails only grow, a locked
\* workflow stays as it is (handler.go, store.go, workflow.go).
THEOREM SerialRefinement ==
  ASSUME Serial PROVE Spec => Refines
<1>1. Init => Abs!AInit
  BY DEF Init, Abs!AInit, NoWorkflow
<1>2. IInv /\ Fresh /\ [Next]_vars => Fresh'
  BY FreshStep
<1>3. IInv /\ Fresh /\ [Next]_vars => [Abs!ANext]_(Abs!avars)
  BY AbstractStep
<1> QED BY <1>1, <1>2, <1>3, InitFresh, Invariance, PTL DEF Spec, Refines, Abs!ASpec
=============================================================================
