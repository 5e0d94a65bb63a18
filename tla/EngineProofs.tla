----------------------------- MODULE EngineProofs ----------------------------
(***************************************************************************)
(* Proofs about the engine, for any nodes, versions, items and evidence.   *)
(*                                                                         *)
(* The scope graph stays acyclic, whatever is added to it.  The invariant  *)
(* is inductive because a node is added after its parents and before any   *)
(* of its children: of a set of nodes with the new one in it, either the   *)
(* new one is alone, or the rest has a member without a parent in the set. *)
(*                                                                         *)
(* The second part follows the graph through its history, in which nodes   *)
(* are also assigned through references.  That reaches one of the two      *)
(* copies of the edges only, so the first part is about a graph whose      *)
(* copies agree but at some nodes R: nobody's, as long as only methods are *)
(* called, and later those whose parents were assigned.                    *)
(*                                                                         *)
(* The third part follows the audit trail of the requests to change the    *)
(* scope.  The two after it, on budgets and on verdicts, compare sums.     *)
(*                                                                         *)
(* The last two are about the greedy choices, of a work program and of     *)
(* auditors for its items: what the loop knows after k turns, for a list   *)
(* that a strict order gives.  What was left out lacked room at its turn,  *)
(* and room only shrinks.                                                  *)
(***************************************************************************)
EXTENDS ScopeHistory, ScopeReview, BudgetTracker, Verdict, WorkProgram, Allocation,
        SumTheorems, TLAPS

\* A graph whose copies of the edges agree but at the nodes R.
InvExcept(R) == TypeOK /\ EdgesAgreeExcept(R) /\ Acyclic

Inv == InvExcept({})

\* A node that no edge leads to yet closes no cycle, whatever the nodes say of
\* their parents.
LEMMA NewNodeClosesNoCycle ==
  ASSUME NEW R, InvExcept(R), NEW n \in Nodes \ InDag, NEW ps \in SUBSET InDag
  PROVE  IsDag(WithEdges(n, ps))
<1> DEFINE kids == WithEdges(n, ps)
<1>1. /\ DOMAIN kids = InDag \cup {n}
      /\ \A p \in InDag : kids[p] = children[p] \cup (IF p \in ps THEN {n} ELSE {})
      /\ kids[n] = {}
  BY DEF WithEdges
<1>2. DOMAIN children = InDag /\ \A p \in InDag : children[p] \subseteq InDag
  BY DEF InvExcept, TypeOK, EdgesAgreeExcept
<1> HIDE DEF kids
<1>3. ASSUME NEW S \in (SUBSET DOMAIN kids) \ {{}}
      PROVE  \E m \in S : \A p \in S : m \notin kids[p]
  <2>1. CASE S \ {n} = {}
    <3>1. S = {n}
      BY <2>1, <1>3
    <3> QED  BY <3>1, <1>1
  <2>2. CASE S \ {n} # {}
    <3>1. S \ {n} \in (SUBSET DOMAIN children) \ {{}}
      BY <2>2, <1>1, <1>2
    <3>2. PICK m \in S \ {n} : \A p \in S \ {n} : m \notin children[p]
      BY <3>1 DEF InvExcept, Acyclic, IsDag
    <3>3. \A p \in S : m \notin kids[p]
      BY <3>1, <3>2, <1>1, <1>2
    <3> QED  BY <3>2, <3>3
  <2> QED  BY <2>1, <2>2
<1> QED  BY <1>3 DEF IsDag, kids

LEMMA InitInv == ASSUME Init, NEW R PROVE InvExcept(R)
<1>1. InDag = {} /\ DOMAIN children = {}
  BY DEF Init, InDag
<1>2. TypeOK
  BY <1>1 DEF Init, TypeOK, InDag, ScopeStates
<1>3. EdgesAgreeExcept(R)
  BY <1>1 DEF EdgesAgreeExcept
<1>4. Acyclic
  BY <1>1 DEF Acyclic, IsDag
<1> QED  BY <1>2, <1>3, <1>4 DEF InvExcept

LEMMA AddNodeInv ==
  ASSUME NEW R, InvExcept(R), NEW n \in Nodes, NEW new \in ScopeNode, AddNode(n, new)
  PROVE  InvExcept(R)'
<1> DEFINE ps == new.parent_ids
<1>1. /\ n \in Nodes \ InDag /\ ps \in SUBSET InDag
      /\ children' = WithEdges(n, ps) /\ IsDag(WithEdges(n, ps))
      /\ node' = [m \in InDag \cup {n} |-> IF m = n THEN new ELSE node[m]]
      /\ state' = state
  BY DEF AddNode
<1>2. TypeOK /\ EdgesAgreeExcept(R)
  BY DEF InvExcept
<1>3. InDag' = InDag \cup {n}
  BY <1>1 DEF InDag
<1>4. TypeOK'
  <2>1. node' \in [InDag' -> ScopeNode]
    BY <1>1, <1>2, <1>3 DEF TypeOK
  <2>2. children' \in [InDag' -> SUBSET Nodes]
    BY <1>1, <1>2, <1>3 DEF TypeOK, WithEdges
  <2> QED  BY <2>1, <2>2, <1>1, <1>2, <1>3 DEF TypeOK
<1>5. EdgesAgreeExcept(R)'
  <2>1. /\ \A m \in InDag : node'[m] = node[m]
        /\ node'[n] = new
    BY <1>1
  <2>2. /\ \A p \in InDag : children'[p] = children[p] \cup (IF p \in ps THEN {n} ELSE {})
        /\ children'[n] = {}
    BY <1>1 DEF WithEdges
  <2>3. \A p \in InDag : children[p] \subseteq InDag
    BY <1>2 DEF EdgesAgreeExcept
  <2>4. \A p \in InDag' : children'[p] \subseteq InDag'
    BY <2>2, <2>3, <1>3
  <2>5. ASSUME NEW m \in InDag \ R
        PROVE  /\ node'[m].parent_ids \subseteq InDag'
               /\ \A p \in InDag' : m \in children'[p] <=> p \in node'[m].parent_ids
    <3>1. /\ node[m].parent_ids \subseteq InDag
          /\ \A p \in InDag : m \in children[p] <=> p \in node[m].parent_ids
      BY <1>2, <2>5 DEF EdgesAgreeExcept
    <3>2. m # n /\ node'[m] = node[m]
      BY <1>1, <2>1
    <3>3. \A p \in InDag : m \in children'[p] <=> m \in children[p]
      BY <2>2, <3>2
    <3>4. n \notin node'[m].parent_ids /\ m \notin children'[n]
      BY <3>1, <3>2, <2>2, <1>1
    <3> QED  BY <3>1, <3>2, <3>3, <3>4, <1>3
  <2>6. /\ node'[n].parent_ids \subseteq InDag'
        /\ \A p \in InDag' : n \in children'[p] <=> p \in node'[n].parent_ids
    <3>1. node'[n].parent_ids = ps
      BY <2>1
    <3>2. \A p \in InDag : n \in children'[p] <=> p \in ps
      BY <2>2, <2>3, <1>1
    <3>3. n \notin children'[n] /\ n \notin ps
      BY <2>2, <1>1
    <3> QED  BY <3>1, <3>2, <3>3, <1>1, <1>3
  <2> QED  BY <2>4, <2>5, <2>6, <1>3 DEF EdgesAgreeExcept
<1>6. Acyclic'
  BY <1>1 DEF Acyclic, IsDag
<1> QED  BY <1>4, <1>5, <1>6 DEF InvExcept

LEMMA SetBoundaryInv ==
  ASSUME NEW R, InvExcept(R), NEW n \in Nodes, NEW status \in Boundaries,
         SetBoundary(n, status)
  PROVE  InvExcept(R)'
<1>1. /\ n \in InDag /\ UNCHANGED <<children, state>>
      /\ node' = [node EXCEPT ![n].boundary_status = status]
  BY DEF SetBoundary
<1>2. TypeOK /\ EdgesAgreeExcept(R) /\ Acyclic
  BY DEF InvExcept
<1>3. InDag' = InDag
  BY <1>1 DEF InDag
<1>4. node' \in [InDag -> ScopeNode]
  BY <1>1, <1>2 DEF TypeOK, ScopeNode
<1>5. \A m \in InDag : node'[m].parent_ids = node[m].parent_ids
  BY <1>1, <1>2 DEF TypeOK, ScopeNode
<1>6. TypeOK'
  BY <1>1, <1>2, <1>3, <1>4 DEF TypeOK
<1>7. EdgesAgreeExcept(R)'
  BY <1>1, <1>2, <1>3, <1>5 DEF EdgesAgreeExcept
<1>8. Acyclic'
  BY <1>1, <1>2 DEF Acyclic, IsDag
<1> QED  BY <1>6, <1>7, <1>8 DEF InvExcept

LEMMA NextInv == ASSUME NEW R, InvExcept(R), [Next]_svars PROVE InvExcept(R)'
<1>1. ASSUME NEW new \in ScopeStates, Transition(new) PROVE InvExcept(R)'
  <2>1. new \in ScopeStates /\ state' = new /\ UNCHANGED <<node, children>>
    BY <1>1 DEF Transition
  <2> QED  BY <2>1 DEF InvExcept, TypeOK, EdgesAgreeExcept, Acyclic, IsDag, InDag
<1>2. ASSUME NEW n \in Nodes, NEW new \in ScopeNode, AddNode(n, new) PROVE InvExcept(R)'
  BY <1>2, AddNodeInv
<1>3. ASSUME NEW n \in Nodes, NEW status \in Boundaries, SetBoundary(n, status)
      PROVE  InvExcept(R)'
  BY <1>3, SetBoundaryInv
<1>4. CASE UNCHANGED svars
  BY <1>4 DEF svars, InvExcept, TypeOK, EdgesAgreeExcept, Acyclic, IsDag, InDag
<1> QED  BY <1>1, <1>2, <1>3, <1>4 DEF Next

\* The invariant holds throughout: types, agreeing edges and no cycle.
THEOREM ScopeInvariant == Spec => []Inv
<1>1. Init => Inv
  BY InitInv DEF Inv
<1>2. Inv /\ [Next]_svars => Inv'
  BY NextInv DEF Inv
<1> QED  BY <1>1, <1>2, PTL DEF Spec

\* The scope graph has no cycle, so topological_order never raises
\* (dag.py:148-149), for every set of nodes.
THEOREM ScopeIsAcyclic == Spec => []Acyclic
<1>1. Inv => Acyclic
  BY DEF Inv, InvExcept
<1> QED  BY <1>1, ScopeInvariant, PTL

\* While nodes are changed by the methods of the graph only, no parent dangles and
\* both copies of the edges agree, so get_node never raises in the validators
\* (validation.py:78, 104).
THEOREM ScopeEdgesAgree == Spec => []EdgesAgree
<1>1. Inv => EdgesAgree
  BY DEF Inv, InvExcept, EdgesAgree
<1> QED  BY <1>1, ScopeInvariant, PTL

\* The cycle check of add_node (dag.py:111-115) refuses nothing.
THEOREM ScopeCycleNeverCloses == Spec => []CycleNeverCloses
<1>1. Inv => CycleNeverCloses
  BY NewNodeClosesNoCycle DEF Inv, CycleNeverCloses
<1> QED  BY <1>1, ScopeInvariant, PTL

(***************************************************************************)
(* The history of the scope                                                *)
(***************************************************************************)

HistoryInv == InvExcept(rewired) /\ HistoryTypeOK /\ LockedOnlyThroughReferences

LEMMA HistoryInitInv == HistoryInit => HistoryInv
<1> SUFFICES ASSUME HistoryInit PROVE HistoryInv
  OBVIOUS
<1>1. InvExcept(rewired)
  BY InitInv DEF HistoryInit
<1>2. DOMAIN versions = {} /\ edits = 0 /\ touched = {} /\ rewired = {} /\ state = "draft"
  BY DEF HistoryInit, Init
<1> QED  BY <1>1, <1>2, EditsAssumption DEF HistoryInv, HistoryTypeOK,
            LockedOnlyThroughReferences, InvExcept

\* A method of the graph keeps the nodes it has and does nothing to a locked scope.
LEMMA NextKeepsNodes ==
  ASSUME Next
  PROVE  /\ InDag \subseteq InDag'
         /\ state = "locked" => UNCHANGED svars
         /\ state' # state => node' = node
<1> SUFFICES /\ InDag \subseteq InDag'
             /\ state # "locked"
             /\ state' # state => node' = node
  OBVIOUS
<1>1. ASSUME NEW new \in ScopeStates, Transition(new)
      PROVE  node' = node /\ state # "locked"
  BY <1>1 DEF Transition, SCOPE_STATE_TRANSITIONS
<1>2. ASSUME NEW n \in Nodes, NEW new \in ScopeNode, AddNode(n, new)
      PROVE  InDag \subseteq InDag' /\ state # "locked" /\ state' = state
  BY <1>2 DEF AddNode, InDag
<1>3. ASSUME NEW n \in Nodes, NEW status \in Boundaries, SetBoundary(n, status)
      PROVE  InDag' = InDag /\ state # "locked" /\ state' = state
  BY <1>3 DEF SetBoundary, InDag
<1>4. node' = node => InDag' = InDag
  BY DEF InDag
<1> QED  BY <1>1, <1>2, <1>3, <1>4 DEF Next

LEMMA EditInv == ASSUME HistoryInv, Edit PROVE HistoryInv'
<1>1. /\ Next /\ UNCHANGED <<versions, edits, touched, rewired>>
      /\ lockedAs' = IF state' = "locked" /\ state # "locked" THEN node ELSE lockedAs
  BY DEF Edit
<1>2. /\ InDag \subseteq InDag'
      /\ state = "locked" => UNCHANGED svars
      /\ state' # state => node' = node
  BY <1>1, NextKeepsNodes
<1>3. InvExcept(rewired)'
  <2>1. PICK R : R = rewired
    OBVIOUS
  <2>2. InvExcept(R)
    BY <2>1 DEF HistoryInv
  <2>3. InvExcept(R)'
    BY <2>2, <1>1, NextInv
  <2> QED  BY <2>1, <2>3, <1>1 DEF InvExcept, EdgesAgreeExcept
<1>4. HistoryTypeOK'
  BY <1>1, <1>2, <1>3 DEF HistoryInv, HistoryTypeOK, InvExcept
<1>5. LockedOnlyThroughReferences'
  <2>1. CASE state = "locked"
    BY <2>1, <1>1, <1>2 DEF HistoryInv, LockedOnlyThroughReferences, svars, InDag
  <2>2. CASE state # "locked" /\ state' = "locked"
    BY <2>2, <1>1, <1>2 DEF LockedOnlyThroughReferences, InDag
  <2> QED  BY <2>1, <2>2 DEF LockedOnlyThroughReferences
<1> QED  BY <1>3, <1>4, <1>5 DEF HistoryInv

\* Assigning one field keeps the type of a node.
LEMMA AssignedNodes == ASSUME NEW y \in ScopeNode, NEW x \in Assigned(y) PROVE x \in ScopeNode
  BY DEF Assigned, ScopeNode

LEMMA EditThroughReferenceInv ==
  ASSUME HistoryInv, NEW n \in InDag, NEW x \in Assigned(node[n]), EditThroughReference(n, x)
  PROVE  HistoryInv'
<1>1. /\ edits < MaxEdits /\ edits' = edits + 1
      /\ node' = [node EXCEPT ![n] = x]
      /\ touched' = IF state = "locked" THEN touched \cup {n} ELSE touched
      /\ rewired' = IF x.parent_ids # node[n].parent_ids THEN rewired \cup {n} ELSE rewired
      /\ UNCHANGED <<children, state, versions, lockedAs>>
  BY DEF EditThroughReference
<1>2. TypeOK /\ EdgesAgreeExcept(rewired) /\ Acyclic
  BY DEF HistoryInv, InvExcept
<1>3. InDag' = InDag
  BY <1>1 DEF InDag
<1>4. x \in ScopeNode
  BY <1>2, AssignedNodes DEF TypeOK
<1>5. node' \in [InDag -> ScopeNode]
  BY <1>1, <1>2, <1>4 DEF TypeOK
<1>6. node'[n] = x /\ \A m \in InDag \ {n} : node'[m] = node[m]
  BY <1>1, <1>2 DEF TypeOK
<1>7. InvExcept(rewired)'
  <2>1. TypeOK'
    BY <1>1, <1>2, <1>3, <1>5 DEF TypeOK
  <2>2. \A m \in InDag \ rewired' : m \in InDag \ rewired /\ node'[m].parent_ids = node[m].parent_ids
    BY <1>1, <1>6
  <2>3. EdgesAgreeExcept(rewired)'
    BY <1>1, <1>2, <1>3, <2>2 DEF EdgesAgreeExcept
  <2>4. Acyclic'
    BY <1>1, <1>2 DEF Acyclic, IsDag
  <2> QED  BY <2>1, <2>3, <2>4 DEF InvExcept
<1>8. HistoryTypeOK'
  <2>1. edits' \in 0..MaxEdits
    BY <1>1, EditsAssumption DEF HistoryInv, HistoryTypeOK
  <2> QED  BY <2>1, <1>1, <1>3, <1>7 DEF HistoryInv, HistoryTypeOK, InvExcept
<1>9. LockedOnlyThroughReferences'
  BY <1>1, <1>3, <1>6 DEF HistoryInv, LockedOnlyThroughReferences
<1> QED  BY <1>7, <1>8, <1>9 DEF HistoryInv

\* What does not touch the graph leaves the parts of the invariant about it.
LEMMA GraphStays ==
  ASSUME HistoryInv, UNCHANGED <<node, children, state, lockedAs, touched, rewired>>
  PROVE  /\ InvExcept(rewired)' /\ LockedOnlyThroughReferences'
         /\ touched' \subseteq InDag' /\ rewired' \subseteq InDag'
BY DEF HistoryInv, HistoryTypeOK, InvExcept, TypeOK, EdgesAgreeExcept, Acyclic, IsDag, InDag,
       LockedOnlyThroughReferences

LEMMA EditSnapshotInv ==
  ASSUME HistoryInv, NEW v \in DOMAIN versions, NEW s \in Rewritten(versions[v]),
         EditSnapshot(v, s)
  PROVE  HistoryInv'
<1>1. /\ edits < MaxEdits /\ edits' = edits + 1
      /\ versions' = [versions EXCEPT ![v] = s]
      /\ UNCHANGED <<node, children, state, lockedAs, touched, rewired>>
  BY DEF EditSnapshot
<1>2. PICK old : old = versions[v] /\ old \in [DOMAIN old -> ScopeNode] /\ DOMAIN old \subseteq Nodes
  BY DEF HistoryInv, HistoryTypeOK
<1>3. s \in [DOMAIN s -> ScopeNode] /\ DOMAIN s \subseteq Nodes
  <2>1. CASE \E n \in DOMAIN old : \E x \in Assigned(old[n]) : s = [old EXCEPT ![n] = x]
    BY <2>1, <1>2, AssignedNodes
  <2>2. CASE \E n \in DOMAIN old : s = [m \in DOMAIN old \ {n} |-> old[m]]
    BY <2>2, <1>2
  <2>3. \/ \E n \in DOMAIN old : \E x \in Assigned(old[n]) : s = [old EXCEPT ![n] = x]
        \/ \E n \in DOMAIN old : s = [m \in DOMAIN old \ {n} |-> old[m]]
    <3>1. s \in Rewritten(old)
      BY <1>2
    <3>2. CASE \E n \in DOMAIN old : s \in {[old EXCEPT ![n] = x] : x \in Assigned(old[n])}
      <4>1. PICK n \in DOMAIN old : s \in {[old EXCEPT ![n] = x] : x \in Assigned(old[n])}
        BY <3>2
      <4>2. \E x \in Assigned(old[n]) : s = [old EXCEPT ![n] = x]
        BY <4>1
      <4> QED  BY <4>2
    <3>3. CASE s \in {[m \in DOMAIN old \ {n} |-> old[m]] : n \in DOMAIN old}
      BY <3>3
    <3>4. \/ s \in UNION {{[old EXCEPT ![n] = x] : x \in Assigned(old[n])} : n \in DOMAIN old}
          \/ s \in {[m \in DOMAIN old \ {n} |-> old[m]] : n \in DOMAIN old}
      BY <3>1, Zenon DEF Rewritten
    <3>5. s \in UNION {{[old EXCEPT ![n] = x] : x \in Assigned(old[n])} : n \in DOMAIN old}
            => \E n \in DOMAIN old : s \in {[old EXCEPT ![n] = x] : x \in Assigned(old[n])}
      BY Zenon
    <3> QED  BY <3>2, <3>3, <3>4, <3>5
  <2> QED  BY <2>1, <2>2, <2>3
<1>4. /\ DOMAIN versions' = DOMAIN versions
      /\ \A w \in DOMAIN versions : versions'[w] = IF w = v THEN s ELSE versions[w]
  BY <1>1
<1>5. edits' \in 0..MaxEdits
  BY <1>1, EditsAssumption DEF HistoryInv, HistoryTypeOK
<1>6. HistoryTypeOK'
  BY <1>1, <1>3, <1>4, <1>5, GraphStays DEF HistoryInv, HistoryTypeOK, InvExcept
<1> QED  BY <1>1, <1>6, GraphStays DEF HistoryInv

LEMMA RecordVersionInv ==
  ASSUME HistoryInv, NEW v \in Versions, RecordVersion(v)
  PROVE  HistoryInv'
<1>1. /\ v \notin DOMAIN versions
      /\ versions' = [w \in DOMAIN versions \cup {v} |-> IF w = v THEN node ELSE versions[w]]
      /\ UNCHANGED <<node, children, state, edits, lockedAs, touched, rewired>>
  BY DEF RecordVersion
<1>2. /\ DOMAIN versions' = DOMAIN versions \cup {v} /\ versions'[v] = node
      /\ \A w \in DOMAIN versions : versions'[w] = versions[w]
  BY <1>1
<1>3. HistoryTypeOK'
  BY <1>1, <1>2, GraphStays DEF HistoryInv, HistoryTypeOK, InvExcept, TypeOK, InDag
<1> QED  BY <1>1, <1>3, GraphStays DEF HistoryInv

LEMMA HistoryNextInv == HistoryInv /\ [HistoryNext]_hvars => HistoryInv'
<1> SUFFICES ASSUME HistoryInv, [HistoryNext]_hvars PROVE HistoryInv'
  OBVIOUS
<1>1. CASE Edit
  BY <1>1, EditInv
<1>2. ASSUME NEW n \in InDag, NEW x \in Assigned(node[n]), EditThroughReference(n, x)
      PROVE  HistoryInv'
  BY <1>2, EditThroughReferenceInv
<1>3. ASSUME NEW v \in DOMAIN versions, NEW s \in Rewritten(versions[v]), EditSnapshot(v, s)
      PROVE  HistoryInv'
  BY <1>3, EditSnapshotInv
<1>4. ASSUME NEW v \in Versions, RecordVersion(v) PROVE HistoryInv'
  BY <1>4, RecordVersionInv
<1>5. CASE UNCHANGED hvars
  BY <1>5, GraphStays DEF hvars, HistoryInv, HistoryTypeOK, InvExcept
<1> QED  BY <1>1, <1>2, <1>3, <1>4, <1>5 DEF HistoryNext

\* The invariant of the history holds throughout.
THEOREM ScopeHistoryInvariant == HistorySpec => []HistoryInv
<1> QED  BY HistoryInitInv, HistoryNextInv, PTL DEF HistorySpec

\* A locked scope changes only at nodes somebody changed through a reference
\* (dag.py:86-88, 126), for every set of nodes, weights and versions.
THEOREM SpecLockedOnlyThroughReferences == HistorySpec => []LockedOnlyThroughReferences
<1>1. HistoryInv => LockedOnlyThroughReferences
  BY DEF HistoryInv
<1> QED  BY <1>1, ScopeHistoryInvariant, PTL

\* Whatever field of a node is assigned through a reference, its parents included,
\* the edges down lead to nodes of the graph and form no cycle, so topological_order
\* does not raise (dag.py:130-149); and both copies of the edges agree at every node
\* whose parents were not assigned so.
THEOREM HistoryKeepsGraph == HistorySpec => [](EdgesAgreeExcept(rewired) /\ Acyclic)
<1>1. HistoryInv => EdgesAgreeExcept(rewired) /\ Acyclic
  BY DEF HistoryInv, InvExcept
<1> QED  BY <1>1, ScopeHistoryInvariant, PTL

\* The order, the edges and the locked nodes of the graph are kept together, for any
\* nodes, controls, weights and versions and any number of edits through references
\* (dag.py:86-149).
THEOREM SpecGraphIsKept == HistorySpec => []GraphIsKept
<1>1. EdgesAgreeExcept(rewired) /\ Acyclic /\ LockedOnlyThroughReferences => GraphIsKept
  BY DEF GraphIsKept
<1> QED  BY <1>1, HistoryKeepsGraph, SpecLockedOnlyThroughReferences, PTL

(***************************************************************************)
(* What versions tell                                                      *)
(***************************************************************************)

\* What a diff of a and b consists of.
DiffTells(diff, a, b) ==
  /\ DOMAIN diff.added = DOMAIN b \ DOMAIN a
  /\ DOMAIN diff.removed = DOMAIN a \ DOMAIN b
  /\ DOMAIN diff.modified = Modified(a, b)
  /\ \A n \in DOMAIN b \ DOMAIN a :
       diff.added[n] = [control_id |-> b[n].control_id, new |-> Told(b[n])]
  /\ \A n \in DOMAIN a \ DOMAIN b :
       diff.removed[n] = [control_id |-> a[n].control_id, old |-> Told(a[n])]
  /\ \A n \in Modified(a, b) :
       diff.modified[n] =
         [control_id |-> a[n].control_id, old |-> Told(a[n]), new |-> Told(b[n])]

LEMMA DiffFacts == ASSUME NEW a, NEW b PROVE DiffTells(Diff(a, b), a, b)
  BY DEF Diff, DiffTells

\* Nothing is asked of the snapshots: what is told of a node is what is compared.
LEMMA DiffsReplay == DiffReplays
<1> SUFFICES ASSUME NEW a \in Snapshots, NEW b \in Snapshots
             PROVE  [n \in (DOMAIN a \ DOMAIN Diff(a, b).removed) \cup DOMAIN Diff(a, b).added |->
                       IF n \in DOMAIN Diff(a, b).added
                       THEN <<Diff(a, b).added[n].control_id, Diff(a, b).added[n].new>>
                       ELSE IF n \in DOMAIN Diff(a, b).modified
                       THEN <<Diff(a, b).modified[n].control_id, Diff(a, b).modified[n].new>>
                       ELSE <<a[n].control_id, Told(a[n])>>]
                    = [n \in DOMAIN b |->
                         <<IF n \in DOMAIN a THEN a[n].control_id ELSE b[n].control_id,
                           Told(b[n])>>]
  BY DEF DiffReplays
<1> DEFINE diff == Diff(a, b)
           replayed(n) == IF n \in DOMAIN diff.added
                          THEN <<diff.added[n].control_id, diff.added[n].new>>
                          ELSE IF n \in DOMAIN diff.modified
                          THEN <<diff.modified[n].control_id, diff.modified[n].new>>
                          ELSE <<a[n].control_id, Told(a[n])>>
           told(n) == <<IF n \in DOMAIN a THEN a[n].control_id ELSE b[n].control_id, Told(b[n])>>
<1>0. DiffTells(diff, a, b)
  BY DiffFacts
<1> HIDE DEF diff
<1>1. (DOMAIN a \ DOMAIN diff.removed) \cup DOMAIN diff.added = DOMAIN b
  BY <1>0 DEF DiffTells
<1>2. ASSUME NEW n \in DOMAIN b PROVE replayed(n) = told(n)
  <2>1. CASE n \notin DOMAIN a
    <3>1. n \in DOMAIN diff.added
          /\ diff.added[n] = [control_id |-> b[n].control_id, new |-> Told(b[n])]
      BY <2>1, <1>0 DEF DiffTells
    <3> QED  BY <3>1, <2>1
  <2>2. CASE n \in DOMAIN a /\ n \in Modified(a, b)
    <3>1. /\ n \notin DOMAIN diff.added /\ n \in DOMAIN diff.modified
          /\ diff.modified[n] =
               [control_id |-> a[n].control_id, old |-> Told(a[n]), new |-> Told(b[n])]
      BY <2>2, <1>0 DEF DiffTells
    <3> QED  BY <3>1, <2>2
  <2>3. CASE n \in DOMAIN a /\ n \notin Modified(a, b)
    <3>1. n \notin DOMAIN diff.added /\ n \notin DOMAIN diff.modified
      BY <2>3, <1>0 DEF DiffTells
    <3>2. Told(a[n]) = Told(b[n])
      BY <2>3 DEF Modified, Told
    <3> QED  BY <3>1, <3>2, <2>3
  <2> QED  BY <2>1, <2>2, <2>3
<1> HIDE DEF replayed, told
<1>3. [n \in (DOMAIN a \ DOMAIN diff.removed) \cup DOMAIN diff.added |-> replayed(n)]
        = [n \in DOMAIN b |-> told(n)]
  BY <1>1, <1>2
<1> QED  BY <1>3 DEF diff, replayed, told

\* What the analyzer looks up, by the snapshots compared.
LEMMA ReducedAndExpanded ==
  ASSUME NEW a, NEW b, NEW c
  PROVE  /\ c \in ScopeReduced(Diff(a, b)) <=>
              \/ \E n \in DOMAIN a \ DOMAIN b : a[n].control_id = c
              \/ \E n \in DOMAIN a \cap DOMAIN b :
                   /\ a[n].control_id = c /\ a[n].boundary_status = "in_scope"
                   /\ b[n].boundary_status = "out_of_scope"
         /\ c \in ScopeExpanded(Diff(a, b)) <=>
              \/ \E n \in DOMAIN b \ DOMAIN a : b[n].control_id = c
              \/ \E n \in DOMAIN a \cap DOMAIN b :
                   /\ a[n].control_id = c /\ a[n].boundary_status # "in_scope"
                   /\ b[n].boundary_status = "in_scope"
<1> DEFINE diff == Diff(a, b)
<1>0. DiffTells(diff, a, b)
  BY DiffFacts
<1> HIDE DEF diff
<1>1. /\ DOMAIN diff.added = DOMAIN b \ DOMAIN a
      /\ DOMAIN diff.removed = DOMAIN a \ DOMAIN b
      /\ DOMAIN diff.modified = Modified(a, b)
      /\ \A n \in DOMAIN b \ DOMAIN a : diff.added[n].control_id = b[n].control_id
      /\ \A n \in DOMAIN a \ DOMAIN b : diff.removed[n].control_id = a[n].control_id
      /\ \A n \in Modified(a, b) :
           /\ diff.modified[n].control_id = a[n].control_id
           /\ diff.modified[n].old.boundary_status = a[n].boundary_status
           /\ diff.modified[n].new.boundary_status = b[n].boundary_status
  <2>1. \A n \in Modified(a, b) :
          /\ diff.modified[n].control_id = a[n].control_id
          /\ diff.modified[n].old = Told(a[n]) /\ diff.modified[n].new = Told(b[n])
    <3> TAKE n \in Modified(a, b)
    <3>1. diff.modified[n] =
            [control_id |-> a[n].control_id, old |-> Told(a[n]), new |-> Told(b[n])]
      BY <1>0 DEF DiffTells
    <3> QED  BY <3>1
  <2>2. \A x : Told(x).boundary_status = x.boundary_status
    BY DEF Told
  <2>3. \A n \in Modified(a, b) :
          /\ diff.modified[n].control_id = a[n].control_id
          /\ diff.modified[n].old.boundary_status = a[n].boundary_status
          /\ diff.modified[n].new.boundary_status = b[n].boundary_status
    BY <2>1, <2>2
  <2>4. \A n \in DOMAIN b \ DOMAIN a : diff.added[n].control_id = b[n].control_id
    <3> TAKE n \in DOMAIN b \ DOMAIN a
    <3>1. diff.added[n] = [control_id |-> b[n].control_id, new |-> Told(b[n])]
      BY <1>0 DEF DiffTells
    <3> QED  BY <3>1
  <2>5. \A n \in DOMAIN a \ DOMAIN b : diff.removed[n].control_id = a[n].control_id
    <3> TAKE n \in DOMAIN a \ DOMAIN b
    <3>1. diff.removed[n] = [control_id |-> a[n].control_id, old |-> Told(a[n])]
      BY <1>0 DEF DiffTells
    <3> QED  BY <3>1
  <2> QED  BY <2>3, <2>4, <2>5, <1>0 DEF DiffTells
<1>2. \A n \in DOMAIN a \cap DOMAIN b :
        a[n].boundary_status # b[n].boundary_status => n \in Modified(a, b)
  BY DEF Modified
<1>3. Modified(a, b) \subseteq DOMAIN a \cap DOMAIN b
  BY DEF Modified
<1>4. c \in ScopeReduced(diff) <=>
        \/ \E n \in DOMAIN a \ DOMAIN b : a[n].control_id = c
        \/ \E n \in Modified(a, b) :
             /\ a[n].control_id = c /\ a[n].boundary_status = "in_scope"
             /\ b[n].boundary_status = "out_of_scope"
  BY <1>1 DEF ScopeReduced, ControlsOf
<1>5. c \in ScopeExpanded(diff) <=>
        \/ \E n \in DOMAIN b \ DOMAIN a : b[n].control_id = c
        \/ \E n \in Modified(a, b) :
             /\ a[n].control_id = c /\ a[n].boundary_status # "in_scope"
             /\ b[n].boundary_status = "in_scope"
  BY <1>1 DEF ScopeExpanded, ControlsOf
<1> QED  BY <1>2, <1>3, <1>4, <1>5 DEF diff

LEMMA ImpactsAreReported == ASSUME HistoryInv PROVE ImpactIsReported
<1> SUFFICES ASSUME NEW a \in Snapshots, NEW b \in Snapshots, ~Renamed(a, b)
             PROVE  /\ \A c \in InScopeControls(b) \ InScopeControls(a) :
                         \/ ImpactReason(Diff(a, b), c) = "control_added_to_scope"
                         \/ /\ ImpactReason(Diff(a, b), c) = "control_removed_from_scope"
                            /\ \E n \in DOMAIN a \ DOMAIN b : a[n].control_id = c
                    /\ \A c \in InScopeControls(a) \ InScopeControls(b) :
                         \/ ImpactReason(Diff(a, b), c) = "control_removed_from_scope"
                         \/ \A n \in DOMAIN a :
                              a[n].control_id = c /\ a[n].boundary_status = "in_scope" =>
                                n \in DOMAIN b /\ b[n].boundary_status = "conditional"
  BY DEF ImpactIsReported
<1>1. \A n \in DOMAIN a \cap DOMAIN b : a[n].control_id = b[n].control_id
  BY DEF Renamed
<1>2. ASSUME NEW c \in InScopeControls(b) \ InScopeControls(a)
      PROVE  \/ ImpactReason(Diff(a, b), c) = "control_added_to_scope"
             \/ /\ ImpactReason(Diff(a, b), c) = "control_removed_from_scope"
                /\ \E n \in DOMAIN a \ DOMAIN b : a[n].control_id = c
  <2>1. PICK n \in DOMAIN b : b[n].control_id = c /\ b[n].boundary_status = "in_scope"
    BY <1>2 DEF InScopeControls
  <2>2. \A m \in DOMAIN a : a[m].control_id = c => a[m].boundary_status # "in_scope"
    BY <1>2 DEF InScopeControls
  <2>3. c \in ScopeExpanded(Diff(a, b))
    BY <2>1, <2>2, <1>1, ReducedAndExpanded
  <2>4. c \in ScopeReduced(Diff(a, b)) => \E m \in DOMAIN a \ DOMAIN b : a[m].control_id = c
    BY <2>2, ReducedAndExpanded
  <2> QED  BY <2>3, <2>4 DEF ImpactReason
<1>3. ASSUME NEW c \in InScopeControls(a) \ InScopeControls(b), NEW n \in DOMAIN a,
             a[n].control_id = c, a[n].boundary_status = "in_scope",
             ~(n \in DOMAIN b /\ b[n].boundary_status = "conditional")
      PROVE  ImpactReason(Diff(a, b), c) = "control_removed_from_scope"
  <2>1. CASE n \notin DOMAIN b
    BY <2>1, <1>3, ReducedAndExpanded DEF ImpactReason
  <2>2. CASE n \in DOMAIN b
    <3>1. b[n].control_id = c
      BY <2>2, <1>1, <1>3
    <3>2. b[n].boundary_status # "in_scope"
      BY <2>2, <3>1, <1>3 DEF InScopeControls
    <3>3. b[n] \in ScopeNode
      BY <2>2 DEF HistoryInv, HistoryTypeOK, TypeOK, InDag, Snapshots
    <3>4. b[n].boundary_status = "out_of_scope"
      BY <3>2, <3>3, <1>3, <2>2 DEF ScopeNode, Boundaries
    <3>5. c \in ScopeReduced(Diff(a, b))
      BY <3>4, <1>3, <2>2, ReducedAndExpanded
    <3> QED  BY <3>5 DEF ImpactReason
  <2> QED  BY <2>1, <2>2
<1> QED  BY <1>2, <1>3

LEMMA ValidScopesHaveNoGap == ASSUME EdgesAgreeExcept(rewired) PROVE ValidScopeHasNoGap
<1> SUFFICES ASSUME NEW required \in SUBSET Controls, NEW evidenced \in SUBSET Controls,
                    IsValid(required, evidenced)
             PROVE  /\ required \subseteq InScopeControls(node)
                    /\ InScopeControls(node) \subseteq evidenced
                    /\ \A p \in InDag : OutOfScope(p) =>
                         \A n \in children[p] \ rewired : ~InScope(n)
  BY DEF ValidScopeHasNoGap
<1>1. required \subseteq InScopeControls(node)
  BY DEF IsValid, MissingCoverage
<1>2. InScopeControls(node) \subseteq evidenced
  BY DEF IsValid, NoEvidenceSource, InScopeControls, AuditedNodes, InScope, InDag
<1>3. ASSUME NEW p \in InDag, OutOfScope(p), NEW n \in children[p] \ rewired, InScope(n)
      PROVE  FALSE
  <2>1. n \in AuditedNodes /\ p \in {q \in node[n].parent_ids : OutOfScope(q)}
    BY <1>3 DEF EdgesAgreeExcept, AuditedNodes
  <2>2. <<n, p>> \in ParentsOutOfScope
    BY <2>1 DEF ParentsOutOfScope
  <2> QED  BY <2>2 DEF IsValid
<1> QED  BY <1>1, <1>2, <1>3

\* The graph and the versions are copies: no step changes two of them, whatever
\* reference it goes through, and a version number stays taken
\* (history.py:40-49, 232-248).
THEOREM SpecVersionsAreCopies == HistorySpec => VersionsAreCopies
<1> DEFINE OneCopy ==
             /\ DOMAIN versions \subseteq DOMAIN versions'
             /\ \A v \in DOMAIN versions : versions'[v] # versions[v] =>
                  /\ node' = node
                  /\ \A w \in DOMAIN versions \ {v} : versions'[w] = versions[w]
<1>1. ASSUME [HistoryNext]_hvars PROVE [OneCopy]_hvars
  <2>1. CASE versions' = versions
    BY <2>1
  <2>2. ASSUME NEW v \in Versions, RecordVersion(v) PROVE OneCopy
    BY <2>2 DEF RecordVersion
  <2>3. ASSUME NEW v \in DOMAIN versions, NEW s \in Rewritten(versions[v]), EditSnapshot(v, s)
        PROVE  OneCopy
    BY <2>3 DEF EditSnapshot
  <2>4. CASE Edit
    BY <2>4, <2>1 DEF Edit
  <2>5. ASSUME NEW n \in InDag, NEW x \in Assigned(node[n]), EditThroughReference(n, x)
        PROVE  OneCopy
    BY <2>5, <2>1 DEF EditThroughReference
  <2>6. CASE UNCHANGED hvars
    BY <2>6, <2>1 DEF hvars
  <2> QED  BY <1>1, <2>2, <2>3, <2>4, <2>5, <2>6 DEF HistoryNext
<1> QED  BY <1>1, PTL DEF HistorySpec, VersionsAreCopies

\* Versions tell the history of the scope: only who holds one changes it, what lies
\* between two of them is told but for renamings, with its effect on findings but
\* for controls made conditional, and a scope found valid has no gap
\* (history.py, impact.py, validation.py).
THEOREM SpecVersionsTellHistory == HistorySpec => VersionsTellHistory
<1>1. HistoryInv => HistoryTypeOK /\ DiffReplays /\ ImpactIsReported /\ ValidScopeHasNoGap
  <2> SUFFICES ASSUME HistoryInv
               PROVE  HistoryTypeOK /\ DiffReplays /\ ImpactIsReported /\ ValidScopeHasNoGap
    OBVIOUS
  <2>1. HistoryTypeOK /\ EdgesAgreeExcept(rewired)
    BY DEF HistoryInv, InvExcept
  <2> QED  BY <2>1, DiffsReplay, ImpactsAreReported, ValidScopesHaveNoGap
<1> QED  BY <1>1, ScopeHistoryInvariant, SpecVersionsAreCopies, PTL DEF VersionsTellHistory

(***************************************************************************)
(* Requests and their trail (ScopeReview)                                  *)
(*                                                                         *)
(* The invariant is inductive as it stands.  What a step does to the trail *)
(* is one fact: one position is added, to one engagement's part of it.     *)
(***************************************************************************)

ReviewInv == ReviewTypeOK /\ TrailTellsRequests

LEMMA ReviewInitially == ReviewInit => ReviewInv
  BY ReviewAssumption DEF ReviewInit, ReviewInv, ReviewTypeOK, TrailTellsRequests, AuditTrail

\* An event that is recorded is the last of the trail, and the rest stays.
LEMMA RecordedIsLast ==
  ASSUME ReviewTypeOK, NEW e \in AuditEvent, trail' = Append(trail, e)
  PROVE  /\ trail' \in Seq(AuditEvent)
         /\ Len(trail) \in Nat
         /\ Len(trail') = Len(trail) + 1
         /\ trail'[Len(trail) + 1] = e
         /\ \A i \in 1..Len(trail) : trail'[i] = trail[i]
  BY DEF ReviewTypeOK

\* It is in the trail of its own engagement, among the events of its own request.
LEMMA RecordedIsFound ==
  ASSUME ReviewTypeOK, NEW e \in AuditEvent, trail' = Append(trail, e)
  PROVE  \A eng \in Engagements :
           /\ AuditTrail(eng)' = AuditTrail(eng) \cup
                                 (IF e.engagement = eng THEN {Len(trail) + 1} ELSE {})
           /\ \A id \in Nat : EventsOf(eng, id)' =
                EventsOf(eng, id) \cup
                (IF e.engagement = eng /\ e.request = id THEN {Len(trail) + 1} ELSE {})
<1> SUFFICES ASSUME NEW eng \in Engagements
             PROVE  /\ AuditTrail(eng)' = AuditTrail(eng) \cup
                                          (IF e.engagement = eng THEN {Len(trail) + 1} ELSE {})
                    /\ \A id \in Nat : EventsOf(eng, id)' =
                         EventsOf(eng, id) \cup
                         (IF e.engagement = eng /\ e.request = id
                          THEN {Len(trail) + 1} ELSE {})
  OBVIOUS
<1>1. AuditTrail(eng)' = AuditTrail(eng) \cup
                         (IF e.engagement = eng THEN {Len(trail) + 1} ELSE {})
  BY RecordedIsLast DEF AuditTrail
<1>2. ASSUME NEW id \in Nat
      PROVE  EventsOf(eng, id)' =
               EventsOf(eng, id) \cup
               (IF e.engagement = eng /\ e.request = id THEN {Len(trail) + 1} ELSE {})
  BY <1>1, RecordedIsLast DEF EventsOf, AuditTrail
<1> QED  BY <1>1, <1>2

\* A submission: the new request has one event, and no other request gets one.
LEMMA SubmitTells ==
  ASSUME ReviewInv, NEW eng0 \in Engagements, NEW actor \in People, SubmitRequest(eng0, actor)
  PROVE  ReviewInv'
<1> USE DEF ReviewInv
<1> DEFINE n == Len(requests) + 1
           r == [engagement |-> eng0, requested_by |-> actor,
                 status |-> "pending", reviewed_by |-> "nobody"]
           e == Event(eng0, "requested", actor, n)
<1>1. /\ n \in 1..MaxRequests /\ r \in Request /\ e \in AuditEvent
      /\ e.engagement = eng0 /\ e.request = n
  BY ReviewAssumption DEF SubmitRequest, ReviewTypeOK, Request, AuditEvent, Event
<1>2. requests' = Append(requests, r) /\ trail' = Append(trail, e)
  BY DEF SubmitRequest, Recorded
<1>3. /\ requests' \in Seq(Request) /\ Len(requests') = n
      /\ requests'[n] = r
      /\ \A id \in 1..Len(requests) : requests'[id] = requests[id]
  BY <1>1, <1>2 DEF ReviewTypeOK
<1>4. /\ trail' \in Seq(AuditEvent)
      /\ Len(trail) \in Nat
      /\ Len(trail') = Len(trail) + 1
      /\ trail'[Len(trail) + 1] = e
      /\ \A i \in 1..Len(trail) : trail'[i] = trail[i]
  BY <1>1, <1>2, RecordedIsLast
<1>5. \A eng \in Engagements :
        /\ AuditTrail(eng)' = AuditTrail(eng) \cup
                              (IF eng0 = eng THEN {Len(trail) + 1} ELSE {})
        /\ \A id \in Nat : EventsOf(eng, id)' =
             EventsOf(eng, id) \cup
             (IF eng0 = eng /\ n = id THEN {Len(trail) + 1} ELSE {})
  BY <1>1, <1>2, RecordedIsFound
<1>6. r.engagement = eng0 /\ r.requested_by = actor /\ r.status = "pending"
  OBVIOUS
<1> HIDE DEF r, e
<1>7. ReviewTypeOK'
  BY <1>1, <1>3, <1>4 DEF ReviewTypeOK
<1>8. ASSUME NEW eng \in Engagements, NEW id \in 1..Len(requests'),
             requests'[id].engagement = eng
      PROVE  IF id \in PendingRequests(eng)'
             THEN \E i \in AuditTrail(eng)' : EventsOf(eng, id)' = {i} /\ Submitted(i, id)'
             ELSE \E i, j \in AuditTrail(eng)' :
                    i < j /\ EventsOf(eng, id)' = {i, j} /\ Submitted(i, id)' /\ Reviewed(j, id)'
  <2>1. CASE id = n
    <3>1. eng = eng0
      BY <2>1, <1>3, <1>6, <1>8
    <3>2. EventsOf(eng, id) = {}
      BY <2>1, <1>3 DEF EventsOf, TrailTellsRequests
    <3>3. PICK last \in Nat : last = Len(trail) + 1
      BY <1>4
    <3>4. last \in AuditTrail(eng)' /\ EventsOf(eng, id)' = {last}
      BY <2>1, <3>1, <3>2, <3>3, <1>1, <1>5
    <3>5. Submitted(last, id)'
      BY <2>1, <3>3, <1>3, <1>4, <1>6 DEF Submitted, e
    <3>6. id \in PendingRequests(eng)'
      BY <2>1, <3>1, <1>1, <1>3, <1>6, <1>8 DEF PendingRequests
    <3> QED  BY <3>4, <3>5, <3>6
  <2>2. CASE id # n
    <3>1. id \in 1..Len(requests) /\ requests'[id] = requests[id] /\ id \in Nat
      BY <2>2, <1>3
    <3>2. id \in PendingRequests(eng)' <=> id \in PendingRequests(eng)
      BY <3>1, <1>3, <1>8 DEF PendingRequests
    <3>3. EventsOf(eng, id)' = EventsOf(eng, id)
      <4>1. EventsOf(eng, id)' = EventsOf(eng, id) \cup {}
        BY <2>2, <3>1, <1>5
      <4> QED  BY <4>1
    <3>4. ASSUME NEW i \in AuditTrail(eng)
          PROVE  /\ i \in AuditTrail(eng)'
                 /\ Submitted(i, id) => Submitted(i, id)'
                 /\ Reviewed(i, id) => Reviewed(i, id)'
      <4>1. i \in 1..Len(trail) /\ trail'[i] = trail[i]
        BY <1>4, <3>4 DEF AuditTrail
      <4> QED  BY <4>1, <3>1, <3>4, <1>5 DEF Submitted, Reviewed
    <3>5. IF id \in PendingRequests(eng)
          THEN \E i \in AuditTrail(eng) : EventsOf(eng, id) = {i} /\ Submitted(i, id)
          ELSE \E i, j \in AuditTrail(eng) :
                 i < j /\ EventsOf(eng, id) = {i, j} /\ Submitted(i, id) /\ Reviewed(j, id)
      BY <3>1, <1>8 DEF TrailTellsRequests
    <3> QED  BY <3>2, <3>5, <3>3, <3>4
  <2> QED  BY <2>1, <2>2
<1>9. ASSUME NEW eng \in Engagements, NEW i \in AuditTrail(eng)'
      PROVE  trail'[i].request \in 1..Len(requests') /\
             requests'[trail'[i].request].engagement = eng
  <2>1. CASE i = Len(trail) + 1
    BY <2>1, <1>1, <1>3, <1>4, <1>6, <1>9 DEF AuditTrail
  <2>2. CASE i # Len(trail) + 1
    <3>1. i \in AuditTrail(eng) /\ trail'[i] = trail[i]
      BY <2>2, <1>4, <1>9 DEF AuditTrail
    <3> QED  BY <3>1, <1>3 DEF TrailTellsRequests
  <2> QED  BY <2>1, <2>2
<1> QED  BY <1>7, <1>8, <1>9 DEF TrailTellsRequests

\* A review: the request had one event, of its submission, and gets the second.
LEMMA ReviewTells ==
  ASSUME ReviewInv, NEW id0 \in 1..MaxRequests, NEW actor \in People,
         NEW decision \in {"approved", "rejected"}, Review(id0, decision, actor)
  PROVE  ReviewInv'
<1> USE DEF ReviewInv
<1>1. id0 \in 1..Len(requests) /\ id0 \in Nat /\ requests[id0] \in Request /\
      requests[id0].status = "pending"
  BY ReviewAssumption DEF Review, Reviewable, ReviewTypeOK
<1>2. PICK eng0 \in Engagements : eng0 = requests[id0].engagement
  BY <1>1 DEF Request
<1> DEFINE e == Event(eng0, decision, actor, id0)
<1>3. e \in AuditEvent /\ e.engagement = eng0 /\ e.request = id0
  BY DEF AuditEvent, Event
<1>4. trail' = Append(trail, e)
  BY <1>2 DEF Review, Recorded
<1>5. /\ trail' \in Seq(AuditEvent)
      /\ Len(trail) \in Nat
      /\ Len(trail') = Len(trail) + 1
      /\ trail'[Len(trail) + 1] = e
      /\ \A i \in 1..Len(trail) : trail'[i] = trail[i]
  BY <1>3, <1>4, RecordedIsLast
<1>6. \A eng \in Engagements :
        /\ AuditTrail(eng)' = AuditTrail(eng) \cup
                              (IF eng0 = eng THEN {Len(trail) + 1} ELSE {})
        /\ \A id \in Nat : EventsOf(eng, id)' =
             EventsOf(eng, id) \cup
             (IF eng0 = eng /\ id0 = id THEN {Len(trail) + 1} ELSE {})
  BY <1>3, <1>4, RecordedIsFound
<1>7. PICK r \in Request : r = [requests[id0] EXCEPT !.status = decision, !.reviewed_by = actor]
  <2>1. PICK p \in Request : p = [requests[id0] EXCEPT !.status = decision]
    BY <1>1 DEF Request
  <2>2. [p EXCEPT !.reviewed_by = actor] \in Request
    BY DEF Request
  <2>3. [requests[id0] EXCEPT !.status = decision, !.reviewed_by = actor] =
        [p EXCEPT !.reviewed_by = actor]
    BY <2>1, <1>1 DEF Request
  <2> QED  BY <2>2, <2>3
<1>8. /\ requests' \in Seq(Request) /\ Len(requests') = Len(requests)
      /\ requests'[id0] = r
      /\ \A id \in 1..Len(requests) : id # id0 => requests'[id] = requests[id]
  <2>1. requests' = [requests EXCEPT ![id0] = r]
    BY <1>1, <1>7 DEF Review, ReviewTypeOK
  <2> QED  BY <2>1, <1>1 DEF ReviewTypeOK
<1>9. /\ r.engagement = eng0 /\ r.requested_by = requests[id0].requested_by
      /\ r.status = decision /\ r.reviewed_by = actor
  BY <1>1, <1>2, <1>7 DEF Request
<1> HIDE DEF e
<1>10. ReviewTypeOK'
  BY <1>5, <1>8 DEF ReviewTypeOK
<1>11. ASSUME NEW eng \in Engagements, NEW id \in 1..Len(requests'),
              requests'[id].engagement = eng
       PROVE  IF id \in PendingRequests(eng)'
              THEN \E i \in AuditTrail(eng)' : EventsOf(eng, id)' = {i} /\ Submitted(i, id)'
              ELSE \E i, j \in AuditTrail(eng)' :
                     i < j /\ EventsOf(eng, id)' = {i, j} /\ Submitted(i, id)' /\ Reviewed(j, id)'
  <2>1. CASE id = id0
    <3>1. eng = eng0 /\ id \in PendingRequests(eng) /\ id \notin PendingRequests(eng)'
      BY <2>1, <1>1, <1>2, <1>8, <1>9, <1>11 DEF PendingRequests
    <3>2. PICK i \in AuditTrail(eng) : EventsOf(eng, id) = {i} /\ Submitted(i, id)
      BY <2>1, <3>1, <1>1, <1>2 DEF TrailTellsRequests
    <3>3. PICK last \in Nat : last = Len(trail) + 1
      BY <1>5
    <3>4. /\ i \in AuditTrail(eng)' /\ last \in AuditTrail(eng)'
          /\ EventsOf(eng, id)' = {i, last}
      BY <2>1, <3>1, <3>2, <3>3, <1>1, <1>6
    <3>5. i < last /\ trail'[i] = trail[i]
      BY <3>3, <1>5 DEF AuditTrail
    <3>6. Submitted(i, id)'
      BY <2>1, <3>2, <3>5, <1>2, <1>8, <1>9 DEF Submitted
    <3>7. Reviewed(last, id)'
      BY <2>1, <3>3, <1>5, <1>8, <1>9 DEF Reviewed, e
    <3> QED  BY <3>1, <3>4, <3>5, <3>6, <3>7
  <2>2. CASE id # id0
    <3>1. id \in 1..Len(requests) /\ requests'[id] = requests[id] /\ id \in Nat
      BY <2>2, <1>8, <1>11
    <3>2. id \in PendingRequests(eng)' <=> id \in PendingRequests(eng)
      BY <3>1, <1>8, <1>11 DEF PendingRequests
    <3>3. EventsOf(eng, id)' = EventsOf(eng, id)
      <4>1. EventsOf(eng, id)' = EventsOf(eng, id) \cup {}
        BY <2>2, <3>1, <1>6
      <4> QED  BY <4>1
    <3>4. ASSUME NEW i \in AuditTrail(eng)
          PROVE  /\ i \in AuditTrail(eng)'
                 /\ Submitted(i, id) => Submitted(i, id)'
                 /\ Reviewed(i, id) => Reviewed(i, id)'
      <4>1. i \in 1..Len(trail) /\ trail'[i] = trail[i]
        BY <1>5, <3>4 DEF AuditTrail
      <4> QED  BY <4>1, <3>1, <3>4, <1>6 DEF Submitted, Reviewed
    <3>5. IF id \in PendingRequests(eng)
          THEN \E i \in AuditTrail(eng) : EventsOf(eng, id) = {i} /\ Submitted(i, id)
          ELSE \E i, j \in AuditTrail(eng) :
                 i < j /\ EventsOf(eng, id) = {i, j} /\ Submitted(i, id) /\ Reviewed(j, id)
      BY <3>1, <1>11 DEF TrailTellsRequests
    <3> QED  BY <3>2, <3>3, <3>4, <3>5
  <2> QED  BY <2>1, <2>2
<1>12. ASSUME NEW eng \in Engagements, NEW i \in AuditTrail(eng)'
       PROVE  trail'[i].request \in 1..Len(requests') /\
              requests'[trail'[i].request].engagement = eng
  <2>1. CASE i = Len(trail) + 1
    BY <2>1, <1>1, <1>3, <1>5, <1>8, <1>9, <1>12 DEF AuditTrail
  <2>2. CASE i # Len(trail) + 1
    <3>1. i \in AuditTrail(eng) /\ trail'[i] = trail[i]
      BY <2>2, <1>5, <1>12 DEF AuditTrail
    <3> QED  BY <3>1, <1>2, <1>8, <1>9 DEF TrailTellsRequests
  <2> QED  BY <2>1, <2>2
<1> QED  BY <1>10, <1>11, <1>12 DEF TrailTellsRequests

\* The trail of an engagement tells each of its requests in full, whoever submits and
\* reviews them and in whatever order (workflow.py:144-274).
THEOREM SpecTrailTellsRequests == ReviewSpec => []TrailTellsRequests
<1>1. ReviewInv /\ [ReviewNext]_rvars => ReviewInv'
  <2> SUFFICES ASSUME ReviewInv, [ReviewNext]_rvars
               PROVE  ReviewInv'
    OBVIOUS
  <2>1. CASE \E eng \in Engagements, actor \in People : SubmitRequest(eng, actor)
    BY <2>1, SubmitTells
  <2>2. CASE \E id \in 1..MaxRequests, actor \in People :
               Review(id, "approved", actor) \/ Review(id, "rejected", actor)
    BY <2>2, ReviewTells
  <2>3. CASE UNCHANGED rvars
    BY <2>3, SMTT(30) DEF rvars, ReviewInv, ReviewTypeOK, TrailTellsRequests, PendingRequests,
                AuditTrail, EventsOf, Submitted, Reviewed
  <2> QED  BY <2>1, <2>2, <2>3 DEF ReviewNext
<1> QED  BY ReviewInitially, <1>1, PTL DEF ReviewSpec, ReviewInv

(***************************************************************************)
(* Budgets (BudgetTracker)                                                 *)
(*                                                                         *)
(* Alerts are compared through one threshold: the last that the whole      *)
(* reached, for an item that is not below it, and the first that it        *)
(* missed, for one that is not above it.  If every item missed the one, or *)
(* reached the other, so did the whole, because sums preserve both.        *)
(***************************************************************************)

\* The status of what is done says so, and that of what is in progress.
ProgressIsMarked ==
  \A i \in DOMAIN progress :
    /\ progress[i].done = 4 => progress[i].status = "complete"
    /\ progress[i].status = "in_progress" => progress[i].done \in 1..3

BudgetInv == BudgetTypeOK /\ ProgressIsMarked

LEMMA BudgetInitInv == BudgetInit => BudgetInv
  BY DEF BudgetInit, BudgetInv, BudgetTypeOK, ProgressIsMarked

LEMMA EntriesStay ==
  ASSUME NEW i \in BudgetItems, NEW hours \in HoursSet, BudgetInv,
         PlanHours(i, hours) \/ RecordActual(i, hours)
  PROVE  BudgetInv'
<1>1. UNCHANGED progress
  BY DEF PlanHours, RecordActual
<1>2. CASE PlanHours(i, hours)
  <2>1. DOMAIN entries' \subseteq BudgetItems
    BY <1>2 DEF PlanHours, BudgetInv, BudgetTypeOK
  <2>2. ASSUME NEW j \in DOMAIN entries'
        PROVE  entries'[j] \in [planned : HoursSet, actual : HoursSet \cup {0}]
    BY <1>2, <2>2 DEF PlanHours, BudgetInv, BudgetTypeOK
  <2>3. QED
    BY <1>1, <2>1, <2>2 DEF BudgetInv, BudgetTypeOK, ProgressIsMarked
<1>3. CASE RecordActual(i, hours)
  <2>1. DOMAIN entries' = DOMAIN entries
    BY <1>3 DEF RecordActual
  <2>2. ASSUME NEW j \in DOMAIN entries'
        PROVE  entries'[j] \in [planned : HoursSet, actual : HoursSet \cup {0}]
    <3>1. entries[j] \in [planned : HoursSet, actual : HoursSet \cup {0}]
      BY <2>1, <2>2 DEF BudgetInv, BudgetTypeOK
    <3>2. entries'[j] = IF j = i THEN [entries[j] EXCEPT !.actual = hours] ELSE entries[j]
      BY <1>3, <2>1, <2>2 DEF RecordActual
    <3>3. QED
      BY <3>1, <3>2
  <2>3. QED
    BY <1>1, <2>1, <2>2 DEF BudgetInv, BudgetTypeOK, ProgressIsMarked
<1>4. QED
  BY <1>2, <1>3

LEMMA RecordProgressInv ==
  ASSUME NEW i \in BudgetItems, NEW done \in 0..4, NEW status \in Statuses, BudgetInv,
         RecordProgress(i, done, status)
  PROVE  BudgetInv'
<1> DEFINE s == StatusFor(done, status)
<1>1. /\ s \in Statuses /\ (done = 4 => s = "complete")
      /\ s = "in_progress" => done \in 1..3
  BY DEF StatusFor, Statuses
<1>2. /\ DOMAIN progress' = DOMAIN progress \cup {i}
      /\ \A j \in DOMAIN progress' :
           progress'[j] = IF j = i THEN [done |-> done, status |-> s] ELSE progress[j]
  BY DEF RecordProgress
<1> HIDE DEF s
<1>3. ASSUME NEW j \in DOMAIN progress'
      PROVE  /\ progress'[j] \in [done : 0..4, status : Statuses]
             /\ progress'[j].done = 4 => progress'[j].status = "complete"
             /\ progress'[j].status = "in_progress" => progress'[j].done \in 1..3
  <2>1. CASE j = i
    BY <1>1, <1>2, <1>3, <2>1
  <2>2. CASE j # i
    BY <1>2, <1>3, <2>2 DEF BudgetInv, BudgetTypeOK, ProgressIsMarked
  <2>3. QED
    BY <2>1, <2>2
<1>4. UNCHANGED entries /\ DOMAIN progress' \subseteq BudgetItems
  BY <1>2 DEF RecordProgress, BudgetInv, BudgetTypeOK
<1>5. QED
  BY <1>3, <1>4 DEF BudgetInv, BudgetTypeOK, ProgressIsMarked

LEMMA SpecBudgetInv == BudgetSpec => []BudgetInv
<1>1. BudgetInv /\ BudgetNext => BudgetInv'
  BY EntriesStay, RecordProgressInv DEF BudgetNext
<1>2. BudgetInv /\ UNCHANGED bvars => BudgetInv'
  BY DEF bvars, BudgetInv, BudgetTypeOK, ProgressIsMarked
<1>3. QED
  BY BudgetInitInv, <1>1, <1>2, PTL DEF BudgetSpec

\* The hours of an entry, and of all of them.
LEMMA HoursFacts ==
  ASSUME BudgetInv
  PROVE  /\ IsFiniteSet(DOMAIN entries)
         /\ \A i \in DOMAIN entries : /\ entries[i].planned \in Nat /\ entries[i].actual \in Nat
                                      /\ Planned[i] = entries[i].planned
                                      /\ Actual[i] = entries[i].actual
         /\ TotalPlanned = SumFunctionOnSet(Planned, DOMAIN entries)
         /\ TotalActual = SumFunctionOnSet(Actual, DOMAIN entries)
         /\ TotalPlanned \in Nat /\ TotalActual \in Nat
<1>1. IsFiniteSet(DOMAIN entries)
  BY BudgetAssumption, FS_Subset DEF BudgetInv, BudgetTypeOK
<1>2. \A i \in DOMAIN entries : /\ entries[i].planned \in Nat /\ entries[i].actual \in Nat
                                /\ Planned[i] = entries[i].planned
                                /\ Actual[i] = entries[i].actual
  <2> SUFFICES ASSUME NEW i \in DOMAIN entries
               PROVE  /\ entries[i].planned \in Nat /\ entries[i].actual \in Nat
                      /\ Planned[i] = entries[i].planned /\ Actual[i] = entries[i].actual
    OBVIOUS
  <2>1. entries[i] \in [planned : HoursSet, actual : HoursSet \cup {0}]
    BY DEF BudgetInv, BudgetTypeOK
  <2>2. entries[i].planned \in HoursSet /\ entries[i].actual \in HoursSet \cup {0}
    BY <2>1
  <2>3. Planned[i] = entries[i].planned /\ Actual[i] = entries[i].actual
    BY DEF Planned, Actual
  <2>4. HoursSet \subseteq Nat /\ HoursSet \cup {0} \subseteq Nat
    BY BudgetAssumption
  <2>5. QED
    BY <2>2, <2>3, <2>4
<1>3. /\ TotalPlanned = SumFunctionOnSet(Planned, DOMAIN entries)
      /\ TotalActual = SumFunctionOnSet(Actual, DOMAIN entries)
  <2>1. DOMAIN Planned = DOMAIN entries /\ DOMAIN Actual = DOMAIN entries
    BY DEF Planned, Actual
  <2>2. QED
    BY <2>1 DEF TotalPlanned, TotalActual, SumFunction
<1>4. TotalPlanned \in Nat /\ TotalActual \in Nat
  BY <1>1, <1>2, <1>3, SumOfNats
<1>5. QED
  BY <1>1, <1>2, <1>3, <1>4

LEMMA OverrunsAreTraced == BudgetInv => OverrunHasItem
<1> SUFFICES ASSUME BudgetInv, OverBudgetItems = {} PROVE ~(TotalActual > TotalPlanned)
  BY DEF OverrunHasItem
<1>1. \A i \in DOMAIN entries : /\ Actual[i] \in Int /\ Planned[i] \in Int
                                /\ Actual[i] <= Planned[i]
  BY HoursFacts DEF OverBudgetItems
<1>2. TotalActual <= TotalPlanned
  BY <1>1, HoursFacts, SumMonotone
<1>3. QED
  BY <1>2, HoursFacts

(***************************************************************************)
(* Alerts                                                                  *)
(***************************************************************************)

Reached(planned, actual) == {percent \in Thresholds : 100 * actual >= percent * planned}

LEMMA ThresholdsGrow ==
  \A r, q \in Thresholds, planned \in Nat : r <= q => r * planned <= q * planned
  BY DEF Thresholds

LEMMA AlertType ==
  ASSUME NEW planned \in Nat, NEW actual \in Nat
  PROVE  /\ IsFiniteSet(Reached(planned, actual))
         /\ Cardinality(Reached(planned, actual)) \in Nat
         /\ AlertOf(planned, actual) = IF planned = 0 THEN 1
                                      ELSE 1 + Cardinality(Reached(planned, actual))
         /\ AlertOf(planned, actual) \in Nat /\ AlertOf(planned, actual) >= 1
<1>1. IsFiniteSet(Thresholds)
  <2>1. Thresholds \subseteq 0..100
    BY DEF Thresholds
  <2>2. IsFiniteSet(0..100)
    <3>1. 0 \in Int /\ 100 \in Int
      OBVIOUS
    <3>2. QED
      BY <3>1, FS_Interval, Zenon
  <2>3. QED
    BY <2>1, <2>2, FS_Subset
<1>2. Reached(planned, actual) \subseteq Thresholds
  BY DEF Reached
<1>3. AlertOf(planned, actual) = IF planned = 0 THEN 1
                                 ELSE 1 + Cardinality(Reached(planned, actual))
  BY DEF AlertOf, Reached
<1>4. IsFiniteSet(Reached(planned, actual)) /\ Cardinality(Reached(planned, actual)) \in Nat
  BY <1>1, <1>2, FS_Subset, FS_CardinalityType
<1>5. QED
  BY <1>3, <1>4

LEMMA MoreReachedMoreAlert ==
  ASSUME NEW P \in Nat, NEW A \in Nat, NEW p \in Nat, NEW a \in Nat, P # 0, p # 0,
         Reached(P, A) \subseteq Reached(p, a)
  PROVE  AlertOf(P, A) <= AlertOf(p, a)
<1>1. Cardinality(Reached(P, A)) <= Cardinality(Reached(p, a))
  BY AlertType, FS_Subset
<1>2. QED
  BY <1>1, AlertType

\* Some item is not below the whole, or had no plan.
LEMMA SomeItemIsNotBelow ==
  ASSUME BudgetInv, DOMAIN entries # {},
         \A i \in DOMAIN entries : ~(entries[i].planned = 0 /\ entries[i].actual > 0)
  PROVE  \E i \in DOMAIN entries :
           OverallAlert <= AlertOf(entries[i].planned, entries[i].actual)
<1> DEFINE P == TotalPlanned
           A == TotalActual
<1>1. P \in Nat /\ A \in Nat /\ OverallAlert = AlertOf(P, A)
  BY HoursFacts DEF OverallAlert
<1>2. \A i \in DOMAIN entries : AlertOf(entries[i].planned, entries[i].actual) >= 1
  BY HoursFacts, AlertType
<1> HIDE DEF P, A
<1>3. CASE P = 0 \/ Reached(P, A) = {}
  <2>1. OverallAlert = 1
    <3>1. AlertOf(P, A) = IF P = 0 THEN 1 ELSE 1 + Cardinality(Reached(P, A))
      BY <1>1, AlertType
    <3>2. Cardinality({}) = 0
      BY FS_EmptySet
    <3>3. QED
      BY <1>1, <1>3, <3>1, <3>2
  <2>2. QED
    BY <1>2, <2>1
<1>4. CASE P # 0 /\ Reached(P, A) # {}
  <2>1. PICK q \in Reached(P, A) : \A r \in Reached(P, A) : r <= q
    BY <1>4 DEF Reached, Thresholds
  <2>2. q \in Thresholds /\ q \in Nat /\ 100 * A >= q * P
    BY <2>1 DEF Reached, Thresholds
  <2>3. PICK i \in DOMAIN entries :
          entries[i].planned # 0 /\ 100 * entries[i].actual >= q * entries[i].planned
    <3> SUFFICES ASSUME \A i \in DOMAIN entries :
                   entries[i].planned = 0
                   \/ 100 * entries[i].actual < q * entries[i].planned
                 PROVE FALSE
      BY <2>2, HoursFacts
    <3> DEFINE spent == [i \in DOMAIN entries |-> 100 * entries[i].actual]
               share == [i \in DOMAIN entries |-> q * entries[i].planned]
    <3>1. \A i \in DOMAIN entries :
            /\ spent[i] \in Int /\ share[i] \in Int /\ spent[i] <= share[i]
            /\ spent[i] = 100 * Actual[i] /\ Actual[i] \in Int
            /\ share[i] = q * Planned[i] /\ Planned[i] \in Int
            /\ (entries[i].planned # 0 => spent[i] < share[i])
      BY <2>2, HoursFacts
    <3> HIDE DEF spent, share
    <3>2. IsFiniteSet(DOMAIN entries)
      BY HoursFacts
    <3>3. /\ SumFunctionOnSet(spent, DOMAIN entries) = 100 * A
          /\ SumFunctionOnSet(share, DOMAIN entries) = q * P
      BY <2>2, <3>1, <3>2, HoursFacts, SumScaled DEF P, A
    <3>4. PICK i \in DOMAIN entries : entries[i].planned # 0
      <4> SUFFICES ASSUME \A i \in DOMAIN entries : entries[i].planned = 0 PROVE FALSE
        OBVIOUS
      <4>1. \A i \in DOMAIN entries : Planned[i] \in Int /\ Planned[i] = 0 * Planned[i]
        BY HoursFacts
      <4>2. P = 0 * P
        BY <3>2, <4>1, HoursFacts, SumScaled DEF P
      <4>3. QED
        BY <1>1, <1>4, <4>2
    <3>5. 100 * A < q * P
      BY <3>1, <3>2, <3>3, <3>4, SumStrictlyMonotone
    <3>6. QED
      BY <1>1, <2>2, <3>5
  <2>4. Reached(P, A) \subseteq Reached(entries[i].planned, entries[i].actual)
    <3> SUFFICES ASSUME NEW r \in Reached(P, A)
                 PROVE  r \in Reached(entries[i].planned, entries[i].actual)
      OBVIOUS
    <3>1. r \in Thresholds /\ r \in Nat /\ r <= q
      BY <2>1 DEF Reached, Thresholds
    <3>2. r * entries[i].planned <= q * entries[i].planned
      BY <2>2, <3>1, HoursFacts, ThresholdsGrow
    <3>3. 100 * entries[i].actual >= r * entries[i].planned
      BY <2>2, <2>3, <3>1, <3>2, HoursFacts
    <3>4. QED
      BY <3>1, <3>3 DEF Reached
  <2>5. QED
    BY <1>1, <1>4, <2>3, <2>4, HoursFacts, MoreReachedMoreAlert
<1>5. QED
  BY <1>3, <1>4

\* Some item is not above the whole.
LEMMA SomeItemIsNotAbove ==
  ASSUME BudgetInv, DOMAIN entries # {}
  PROVE  \E i \in DOMAIN entries :
           OverallAlert >= AlertOf(entries[i].planned, entries[i].actual)
<1> DEFINE P == TotalPlanned
           A == TotalActual
<1>1. P \in Nat /\ A \in Nat /\ OverallAlert = AlertOf(P, A) /\ AlertOf(P, A) >= 1
  <2>1. P \in Nat /\ A \in Nat
    BY HoursFacts
  <2>2. OverallAlert = AlertOf(P, A)
    BY DEF OverallAlert
  <2> HIDE DEF P, A
  <2>3. QED
    BY <2>1, <2>2, AlertType
<1> HIDE DEF P, A
<1>2. CASE \E i \in DOMAIN entries : entries[i].planned = 0
  <2>1. PICK i \in DOMAIN entries : entries[i].planned = 0
    BY <1>2
  <2>2. AlertOf(entries[i].planned, entries[i].actual) = 1
    BY <2>1 DEF AlertOf
  <2>3. QED
    BY <1>1, <2>2
<1>3. CASE \A i \in DOMAIN entries : entries[i].planned # 0
  <2>1. P # 0
    <3>1. PICK i \in DOMAIN entries : TRUE
      OBVIOUS
    <3>2. \A j \in DOMAIN entries : Planned[j] \in Nat
      BY HoursFacts
    <3>3. Planned[i] <= P
      BY <3>2, HoursFacts, SumOfNats DEF P
    <3>4. QED
      BY <1>1, <1>3, <3>2, <3>3, HoursFacts
  <2>2. CASE Thresholds \subseteq Reached(P, A)
    <3>1. PICK i \in DOMAIN entries : TRUE
      OBVIOUS
    <3>2. Reached(entries[i].planned, entries[i].actual) \subseteq Reached(P, A)
      BY <2>2 DEF Reached
    <3>3. QED
      BY <1>1, <1>3, <2>1, <3>2, HoursFacts, MoreReachedMoreAlert
  <2>3. CASE ~(Thresholds \subseteq Reached(P, A))
    <3>1. PICK q \in Thresholds \ Reached(P, A) :
            \A r \in Thresholds \ Reached(P, A) : q <= r
      BY <2>3 DEF Thresholds
    <3>2. q \in Nat /\ q * P \in Int /\ 100 * A < q * P
      BY <1>1, <3>1 DEF Reached, Thresholds
    <3>3. PICK i \in DOMAIN entries : 100 * entries[i].actual < q * entries[i].planned
      <4> SUFFICES ASSUME \A i \in DOMAIN entries :
                     100 * entries[i].actual >= q * entries[i].planned
                   PROVE FALSE
        BY <3>2, HoursFacts
      <4> DEFINE spent == [i \in DOMAIN entries |-> 100 * entries[i].actual]
                 share == [i \in DOMAIN entries |-> q * entries[i].planned]
      <4>1. \A i \in DOMAIN entries :
              /\ spent[i] \in Int /\ share[i] \in Int /\ share[i] <= spent[i]
              /\ spent[i] = 100 * Actual[i] /\ Actual[i] \in Int
              /\ share[i] = q * Planned[i] /\ Planned[i] \in Int
        BY <3>2, HoursFacts
      <4> HIDE DEF spent, share
      <4>2. IsFiniteSet(DOMAIN entries)
        BY HoursFacts
      <4>3. /\ SumFunctionOnSet(spent, DOMAIN entries) = 100 * A
            /\ SumFunctionOnSet(share, DOMAIN entries) = q * P
        BY <3>2, <4>1, <4>2, HoursFacts, SumScaled DEF P, A
      <4>4. q * P <= 100 * A
        BY <4>1, <4>2, <4>3, SumMonotone
      <4>5. QED
        BY <1>1, <3>2, <4>4
    <3>4. Reached(entries[i].planned, entries[i].actual) \subseteq Reached(P, A)
      <4> SUFFICES ASSUME NEW r \in Reached(entries[i].planned, entries[i].actual),
                          r \notin Reached(P, A)
                   PROVE  FALSE
        OBVIOUS
      <4>1. r \in Thresholds /\ r \in Nat /\ q <= r
        BY <3>1 DEF Reached, Thresholds
      <4>2. q * entries[i].planned <= r * entries[i].planned
        BY <3>1, <4>1, HoursFacts, ThresholdsGrow
      <4>3. 100 * entries[i].actual >= r * entries[i].planned
        BY DEF Reached
      <4>4. QED
        BY <3>2, <3>3, <4>1, <4>2, <4>3, HoursFacts
    <3>5. QED
      BY <1>1, <1>3, <2>1, <3>4, HoursFacts, MoreReachedMoreAlert
  <2>4. QED
    BY <2>2, <2>3
<1>4. QED
  BY <1>2, <1>3

(***************************************************************************)
(* Progress                                                                *)
(***************************************************************************)

LEMMA ProgressIsShown == BudgetInv => FullProgressIsComplete
<1> SUFFICES ASSUME BudgetInv PROVE FullProgressIsComplete
  OBVIOUS
<1>1. ASSUME NEW i \in BudgetItems PROVE Done(i) \in 0..4
  BY DEF Done, BudgetInv, BudgetTypeOK
<1>2. ASSUME Completed = 4 * TotalEstimated PROVE ItemsByStatus("complete") = BudgetItems
  <2> SUFFICES ASSUME NEW i \in BudgetItems, i \notin ItemsByStatus("complete") PROVE FALSE
    BY DEF ItemsByStatus
  <2>1. Done(i) # 4
    BY DEF Done, ItemsByStatus, BudgetInv, ProgressIsMarked
  <2> DEFINE done == [j \in BudgetItems |-> Done(j) * Estimated[j]]
             all  == [j \in BudgetItems |-> 4 * Estimated[j]]
  <2>2. \A j \in BudgetItems : Estimated[j] \in Nat \ {0}
    BY BudgetAssumption
  <2>3. \A d \in 0..4, n \in Nat \ {0} : /\ d * n \in Int /\ d * n <= 4 * n
                                        /\ (d # 4 => d * n < 4 * n)
    OBVIOUS
  <2>4. \A j \in BudgetItems : /\ done[j] \in Int /\ all[j] \in Int /\ done[j] <= all[j]
                               /\ (Done(j) # 4 => done[j] < all[j])
                               /\ all[j] = 4 * Estimated[j] /\ Estimated[j] \in Int
    BY <1>1, <2>2, <2>3
  <2>5. Completed = SumFunctionOnSet(done, BudgetItems)
    BY DEF Completed, SumFunction
  <2>6. TotalEstimated = SumFunctionOnSet(Estimated, BudgetItems)
    BY BudgetAssumption DEF TotalEstimated, SumFunction
  <2> HIDE DEF done, all
  <2>7. IsFiniteSet(BudgetItems)
    BY BudgetAssumption
  <2>8. SumFunctionOnSet(all, BudgetItems) = 4 * TotalEstimated
    BY <2>4, <2>6, <2>7, SumScaled
  <2>9. SumFunctionOnSet(done, BudgetItems) < SumFunctionOnSet(all, BudgetItems)
    BY <2>1, <2>4, <2>7, SumStrictlyMonotone
  <2>10. SumFunctionOnSet(all, BudgetItems) \in Int
    BY <2>4, <2>7, SumIsInt
  <2>11. SumFunctionOnSet(done, BudgetItems) \in Int
    BY <2>4, <2>7, SumIsInt
  <2>12. QED
    BY <1>2, <2>5, <2>8, <2>9, <2>10, <2>11
<1>3. ASSUME NEW i \in ItemsByStatus("in_progress") PROVE Done(i) \in 1..3
  BY DEF ItemsByStatus, Done, BudgetInv, BudgetTypeOK, ProgressIsMarked
<1>4. QED
  BY <1>2, <1>3 DEF FullProgressIsComplete

\* The figures of the whole follow those of the items, whatever is planned and
\* recorded and in whatever order (budget_tracker.py:87-226,
\* work_program.py:88-130).
THEOREM SpecTotalsFollowItems == BudgetSpec => []TotalsFollowItems
<1>1. BudgetInv => OverallWithinItems
  BY SomeItemIsNotBelow, SomeItemIsNotAbove DEF OverallWithinItems
<1>2. BudgetInv => TotalsFollowItems
  BY <1>1, OverrunsAreTraced, ProgressIsShown DEF TotalsFollowItems, BudgetInv
<1>3. QED
  BY SpecBudgetInv, <1>2, PTL

(***************************************************************************)
(* Verdicts (Verdict)                                                      *)
(*                                                                         *)
(* Every run starts from nothing, so the invariant only says that the      *)
(* verdict is what the latest run returned.  The rest is arithmetic: how   *)
(* each sum a conclusion is made of moves with one more item, and how the  *)
(* conclusion moves with the sums.                                         *)
(***************************************************************************)

Tally(counts, worth) == SumFunction([k \in EvidenceKinds |-> counts[k] * worth[k]])
Counts == [EvidenceKinds -> Nat]

LEMMA TallyIsSum ==
  ASSUME NEW c, NEW w
  PROVE  Tally(c, w) =
           SumFunctionOnSet([k \in EvidenceKinds |-> c[k] * w[k]], EvidenceKinds)
<1> DEFINE g == [k \in EvidenceKinds |-> c[k] * w[k]]
<1>1. DOMAIN g = EvidenceKinds
  OBVIOUS
<1>2. Tally(c, w) = SumFunctionOnSet(g, DOMAIN g)
  BY DEF Tally, SumFunction
<1>3. QED
  BY <1>1, <1>2

LEMMA TallyType ==
  ASSUME NEW c \in Counts, NEW w \in Counts
  PROVE  /\ Tally(c, w) \in Nat
         /\ \A k \in EvidenceKinds : c[k] * w[k] <= Tally(c, w)
<1> DEFINE g == [k \in EvidenceKinds |-> c[k] * w[k]]
<1>1. \A k \in EvidenceKinds : g[k] = c[k] * w[k] /\ g[k] \in Nat
  <2>1. \A k \in EvidenceKinds : c[k] \in Nat /\ w[k] \in Nat
    BY DEF Counts
  <2>2. \A a, b \in Nat : a * b \in Nat
    OBVIOUS
  <2>3. QED
    BY <2>1, <2>2
<1>2. Tally(c, w) = SumFunctionOnSet(g, EvidenceKinds)
  BY TallyIsSum
<1> HIDE DEF g
<1>3. IsFiniteSet(EvidenceKinds)
  BY VerdictAssumption
<1>4. QED
  BY <1>1, <1>2, <1>3, SumOfNats

Added(c, k) == [c EXCEPT ![k] = @ + 1]

\* One more item of kind k adds the worth of k.
LEMMA TallyGrows ==
  ASSUME NEW c \in Counts, NEW w \in Counts, NEW k \in EvidenceKinds
  PROVE  Tally(Added(c, k), w) = Tally(c, w) + w[k]
<1> DEFINE d == [c EXCEPT ![k] = @ + 1]
           g == [j \in EvidenceKinds |-> c[j] * w[j]]
           h == [j \in EvidenceKinds |-> d[j] * w[j]]
<1>1. \A j \in EvidenceKinds : c[j] \in Nat /\ w[j] \in Nat /\ d[j] \in Nat
  BY DEF Counts
<1>2. d[k] = c[k] + 1 /\ \A j \in EvidenceKinds : j # k => d[j] = c[j]
  BY DEF Counts
<1>3. \A a, b \in Nat : a * b \in Nat /\ (a + 1) * b = a * b + b
  OBVIOUS
<1>4. \A j \in EvidenceKinds : /\ g[j] = c[j] * w[j] /\ g[j] \in Int
                               /\ h[j] = d[j] * w[j] /\ h[j] \in Int
  BY <1>1, <1>3
<1>5. Tally(c, w) = SumFunctionOnSet(g, EvidenceKinds)
  BY TallyIsSum
<1>6. Tally(d, w) = SumFunctionOnSet(h, EvidenceKinds)
  BY TallyIsSum
<1> HIDE DEF d, g, h
<1>7. \A j \in EvidenceKinds : j # k => h[j] = g[j]
  BY <1>2, <1>4
<1>8. h[k] = g[k] + w[k]
  <2>1. PICK a \in Nat : a = c[k]
    BY <1>1
  <2>2. PICK b \in Nat : b = w[k]
    BY <1>1
  <2>3. g[k] = a * b /\ h[k] = (a + 1) * b
    BY <1>2, <1>4, <2>1, <2>2
  <2>4. (a + 1) * b = a * b + b
    BY <1>3
  <2>5. QED
    BY <2>2, <2>3, <2>4
<1>9. IsFiniteSet(EvidenceKinds)
  BY VerdictAssumption
<1>10. Tally(d, w) = Tally(c, w) + h[k] - g[k]
  BY <1>4, <1>5, <1>6, <1>7, <1>9, SumOfChanged
<1>11. Tally(c, w) \in Nat
  BY TallyType
<1>12. Tally(d, w) = Tally(c, w) + w[k]
  <2>1. w[k] \in Nat /\ g[k] \in Int
    BY <1>1, <1>4
  <2>2. QED
    BY <2>1, <1>8, <1>10, <1>11
<1>13. QED
  BY <1>12 DEF d, Added

Ones   == [k \in EvidenceKinds |-> 1]
Gains  == [k \in EvidenceKinds |-> k.gain]
Losses == [k \in EvidenceKinds |-> k.loss]
Worths == [k \in EvidenceKinds |-> k.score]

LEMMA WorthsType ==
  /\ Ones \in Counts /\ Gains \in Counts /\ Losses \in Counts /\ Worths \in Counts
  /\ \A k \in EvidenceKinds : /\ Ones[k] = 1 /\ Gains[k] = k.gain /\ k.gain \in Nat
                              /\ Losses[k] = k.loss /\ k.loss \in Nat
                              /\ Worths[k] = k.score /\ k.score \in Nat
                              /\ k.score <= 10000
<1>1. ASSUME NEW k \in EvidenceKinds
      PROVE  k.gain \in Nat /\ k.loss \in Nat /\ k.score \in Nat /\ k.score <= 10000
  <2>1. PICK top \in Nat : top = 10000
    OBVIOUS
  <2>2. k \in [name : STRING, score : 0..top, gain : Nat, loss : Nat]
    BY <2>1, KindsAssumption, SMTT(60)
  <2>3. k.gain \in Nat /\ k.loss \in Nat /\ k.score \in 0..top
    BY <2>2
  <2>4. k.score \in Nat /\ k.score <= top
    BY <2>3
  <2>5. QED
    BY <2>1, <2>3, <2>4, SMTT(30)
<1>2. 1 \in Nat
  OBVIOUS
<1>3. \A k \in EvidenceKinds : /\ Ones[k] = 1 /\ Gains[k] = k.gain
                              /\ Losses[k] = k.loss /\ Worths[k] = k.score
  BY DEF Ones, Gains, Losses, Worths
<1>4. Ones \in Counts /\ Gains \in Counts
  BY <1>1, <1>2 DEF Ones, Gains, Counts
<1>5. Losses \in Counts /\ Worths \in Counts
  BY <1>1, <1>2 DEF Losses, Worths, Counts
<1>6. QED
  BY <1>1, <1>3, <1>4, <1>5

LEMMA SumsAreTallies ==
  ASSUME NEW c
  PROVE  /\ Sum(c, One) = Tally(c, Ones) /\ Sum(c, Gain) = Tally(c, Gains)
         /\ Sum(c, Loss) = Tally(c, Losses) /\ Sum(c, Score) = Tally(c, Worths)
<1>1. /\ [k \in EvidenceKinds |-> c[k] * 1] = [k \in EvidenceKinds |-> c[k] * Ones[k]]
      /\ [k \in EvidenceKinds |-> c[k] * k.gain] = [k \in EvidenceKinds |-> c[k] * Gains[k]]
      /\ [k \in EvidenceKinds |-> c[k] * k.loss] = [k \in EvidenceKinds |-> c[k] * Losses[k]]
      /\ [k \in EvidenceKinds |-> c[k] * k.score] = [k \in EvidenceKinds |-> c[k] * Worths[k]]
  BY WorthsType
<1>2. QED
  BY <1>1 DEF Sum, Tally, One, Gain, Loss, Score

LEMMA TimesBounded ==
  ASSUME NEW a \in Nat, NEW b \in Nat, b <= 10000
  PROVE  a * b \in Nat /\ a * b <= 10000 * a
  OBVIOUS

\* No item has a score above 10000.
LEMMA ScoresAreBounded ==
  ASSUME NEW c \in Counts
  PROVE  Tally(c, Worths) <= 10000 * Tally(c, Ones)
<1> DEFINE g == [k \in EvidenceKinds |-> c[k] * Worths[k]]
           n == [k \in EvidenceKinds |-> c[k] * Ones[k]]
           h == [k \in EvidenceKinds |-> 10000 * c[k]]
<1>1. \A k \in EvidenceKinds : /\ c[k] \in Nat /\ Worths[k] \in Nat /\ Worths[k] <= 10000
                               /\ Ones[k] = 1
  BY WorthsType DEF Counts
<1>3. \A k \in EvidenceKinds : /\ g[k] \in Int /\ h[k] \in Int /\ g[k] <= h[k]
                               /\ n[k] \in Int /\ h[k] = 10000 * n[k]
  <2> SUFFICES ASSUME NEW k \in EvidenceKinds
               PROVE  /\ g[k] \in Int /\ h[k] \in Int /\ g[k] <= h[k]
                      /\ n[k] \in Int /\ h[k] = 10000 * n[k]
    OBVIOUS
  <2>1. g[k] = c[k] * Worths[k] /\ h[k] = 10000 * c[k] /\ n[k] = c[k]
    BY <1>1
  <2>2. c[k] * Worths[k] \in Nat /\ c[k] * Worths[k] <= 10000 * c[k] /\ c[k] \in Nat
    <3>1. PICK a \in Nat : a = c[k]
      BY <1>1
    <3>2. PICK b \in Nat : b = Worths[k] /\ b <= 10000
      BY <1>1
    <3>3. a * b \in Nat /\ a * b <= 10000 * a
      BY <3>2, TimesBounded
    <3>4. QED
      BY <3>1, <3>2, <3>3
  <2> HIDE DEF g, h, n
  <2>3. QED
    BY <2>1, <2>2
<1>4. Tally(c, Worths) = SumFunctionOnSet(g, EvidenceKinds)
  BY TallyIsSum
<1>5. Tally(c, Ones) = SumFunctionOnSet(n, EvidenceKinds)
  BY TallyIsSum
<1> HIDE DEF g, h, n
<1>6. IsFiniteSet(EvidenceKinds)
  BY VerdictAssumption
<1>7. SumFunctionOnSet(g, EvidenceKinds) <= SumFunctionOnSet(h, EvidenceKinds)
  BY <1>3, <1>6, SumMonotone
<1>8. SumFunctionOnSet(h, EvidenceKinds) = 10000 * SumFunctionOnSet(n, EvidenceKinds)
  BY <1>3, <1>6, SumScaled
<1>9. QED
  BY <1>4, <1>5, <1>7, <1>8

\* What a conclusion is made of, for items of any number and kind.
LEMMA FiguresType ==
  ASSUME NEW p \in Counts, NEW f \in Counts
  PROVE  /\ Sum(f, One) \in Nat /\ Count(p, f) \in Nat /\ Scores(p, f) \in Nat
         /\ Sum(f, One) <= Count(p, f)
         /\ Scores(p, f) <= 10000 * Count(p, f)
         /\ Sum(p, Gain) \in Nat /\ Sum(f, Loss) \in Nat
         /\ \A k \in Strongest : 10000 * (p[k] + f[k]) <= Scores(p, f)
<1>1. /\ Tally(p, Ones) \in Nat /\ Tally(f, Ones) \in Nat
      /\ Tally(p, Gains) \in Nat /\ Tally(f, Losses) \in Nat
      /\ Tally(p, Worths) \in Nat /\ Tally(f, Worths) \in Nat
  BY WorthsType, TallyType
<1>2. /\ Tally(p, Worths) <= 10000 * Tally(p, Ones)
      /\ Tally(f, Worths) <= 10000 * Tally(f, Ones)
  BY ScoresAreBounded
<1>3. /\ Sum(f, One) = Tally(f, Ones)
      /\ Count(p, f) = Tally(p, Ones) + Tally(f, Ones)
      /\ Scores(p, f) = Tally(p, Worths) + Tally(f, Worths)
      /\ Sum(p, Gain) = Tally(p, Gains) /\ Sum(f, Loss) = Tally(f, Losses)
  BY SumsAreTallies DEF Count, Scores
<1>4. ASSUME NEW k \in Strongest PROVE 10000 * (p[k] + f[k]) <= Scores(p, f)
  <2>1. k \in EvidenceKinds /\ Worths[k] = 10000 /\ p[k] \in Nat /\ f[k] \in Nat
    BY WorthsType DEF Strongest, Counts
  <2>2. p[k] * Worths[k] <= Tally(p, Worths) /\ f[k] * Worths[k] <= Tally(f, Worths)
    BY <2>1, WorthsType, TallyType
  <2>3. QED
    BY <1>1, <1>3, <2>1, <2>2
<1>5. QED
  BY <1>1, <1>2, <1>3, <1>4

LEMMA SupportMoves ==
  ASSUME NEW p \in Counts, NEW f \in Counts, NEW k \in EvidenceKinds,
         NEW q, q = Added(p, k)
  PROVE  /\ q \in Counts
         /\ Count(q, f) = Count(p, f) + 1 /\ Scores(q, f) >= Scores(p, f)
         /\ Sum(q, Gain) >= Sum(p, Gain)
<1>1. q \in Counts
  BY DEF Counts, Added
<1>2. /\ Tally(p, Ones) \in Nat /\ Tally(f, Ones) \in Nat /\ Tally(p, Gains) \in Nat
      /\ Tally(p, Worths) \in Nat /\ Tally(f, Worths) \in Nat
  BY WorthsType, TallyType
<1>3. /\ Tally(q, Ones) = Tally(p, Ones) + 1
      /\ Tally(q, Gains) = Tally(p, Gains) + k.gain
      /\ Tally(q, Worths) = Tally(p, Worths) + k.score
  <2>1. \A w \in Counts : Tally(q, w) = Tally(p, w) + w[k]
    BY TallyGrows
  <2>2. Ones \in Counts /\ Gains \in Counts /\ Worths \in Counts
    BY WorthsType
  <2>3. Ones[k] = 1 /\ Gains[k] = k.gain /\ Worths[k] = k.score
    BY WorthsType
  <2>4. QED
    BY <2>1, <2>2, <2>3
<1>4. k.gain \in Nat /\ k.score \in Nat
  BY WorthsType
<1>5. /\ Count(p, f) = Tally(p, Ones) + Tally(f, Ones)
      /\ Count(q, f) = Tally(q, Ones) + Tally(f, Ones)
      /\ Scores(p, f) = Tally(p, Worths) + Tally(f, Worths)
      /\ Scores(q, f) = Tally(q, Worths) + Tally(f, Worths)
      /\ Sum(p, Gain) = Tally(p, Gains) /\ Sum(q, Gain) = Tally(q, Gains)
  BY SumsAreTallies DEF Count, Scores
<1>6. QED
  BY <1>1, <1>2, <1>3, <1>4, <1>5

LEMMA FailureMoves ==
  ASSUME NEW p \in Counts, NEW f \in Counts, NEW k \in EvidenceKinds,
         NEW g, g = Added(f, k)
  PROVE  /\ g \in Counts /\ Sum(g, One) = Sum(f, One) + 1
         /\ Count(p, g) = Count(p, f) + 1 /\ Scores(p, g) >= Scores(p, f)
         /\ Sum(g, Loss) >= Sum(f, Loss)
<1>1. g \in Counts
  BY DEF Counts, Added
<1>2. /\ Tally(p, Ones) \in Nat /\ Tally(f, Ones) \in Nat /\ Tally(f, Losses) \in Nat
      /\ Tally(p, Worths) \in Nat /\ Tally(f, Worths) \in Nat
  BY WorthsType, TallyType
<1>3. /\ Tally(g, Ones) = Tally(f, Ones) + 1
      /\ Tally(g, Losses) = Tally(f, Losses) + k.loss
      /\ Tally(g, Worths) = Tally(f, Worths) + k.score
  <2>1. \A w \in Counts : Tally(g, w) = Tally(f, w) + w[k]
    BY TallyGrows
  <2>2. Ones \in Counts /\ Losses \in Counts /\ Worths \in Counts
    BY WorthsType
  <2>3. Ones[k] = 1 /\ Losses[k] = k.loss /\ Worths[k] = k.score
    BY WorthsType
  <2>4. QED
    BY <2>1, <2>2, <2>3
<1>4. k.loss \in Nat /\ k.score \in Nat
  BY WorthsType
<1>5. /\ Count(p, f) = Tally(p, Ones) + Tally(f, Ones)
      /\ Count(p, g) = Tally(p, Ones) + Tally(g, Ones)
      /\ Scores(p, f) = Tally(p, Worths) + Tally(f, Worths)
      /\ Scores(p, g) = Tally(p, Worths) + Tally(g, Worths)
      /\ Sum(f, One) = Tally(f, Ones) /\ Sum(g, One) = Tally(g, Ones)
      /\ Sum(f, Loss) = Tally(f, Losses) /\ Sum(g, Loss) = Tally(g, Losses)
  BY SumsAreTallies DEF Count, Scores
<1>6. QED
  BY <1>1, <1>2, <1>3, <1>4, <1>5

(***************************************************************************)
(* The sample                                                              *)
(***************************************************************************)

Control == [material : BOOLEAN, prior : Priors, population : Populations,
            expected : ExpectedRates, zsquare : ZSquares]

LEMMA PriorIsInt == \A c \in Control : c.prior \in Int
<1> SUFFICES ASSUME NEW c \in Control PROVE c.prior \in Int
  OBVIOUS
<1>1. c.prior \in Priors
  BY DEF Control
<1>2. QED
  BY <1>1, VerdictAssumption

\* A quotient that is rounded up is no greater than a bound that it would reach.
LEMMA CeilDivBounds ==
  ASSUME NEW a \in Nat, NEW b \in Nat, b > 0
  PROVE  /\ CeilDiv(a, b) \in Nat
         /\ b * CeilDiv(a, b) <= a + b - 1 /\ a <= b * CeilDiv(a, b)
<1> DEFINE m == a + b - 1
           q == m \div b
<1>1. m \in Nat
  OBVIOUS
<1>2. q \in Int /\ b * q <= m /\ m < b * q + b /\ q >= 0
  <2> HIDE DEF m
  <2>1. QED
    BY <1>1
<1>3. CeilDiv(a, b) = q
  BY DEF CeilDiv
<1> HIDE DEF q
<1>4. QED
  BY <1>2, <1>3

LEMMA InfiniteType ==
  ASSUME NEW c \in Control
  PROVE  Infinite(c) \in Nat /\ Infinite(c) > 0
<1>1. PICK z \in Nat : z = c.zsquare /\ z > 0
  <2>1. c.zsquare \in ZSquares
    BY DEF Control
  <2>2. \A n \in ZSquares : n \in Nat /\ n > 0
    BY VerdictAssumption
  <2>3. QED
    BY <2>1, <2>2
<1>2. PICK e \in Nat : e = c.expected /\ e > 0 /\ 100 - e \in Nat /\ 100 - e > 0
  <2>1. c.expected \in 1..99
    BY VerdictAssumption DEF Control
  <2>2. QED
    BY <2>1
<1>3. PICK t \in {5, 10} : t = Tolerable(c)
  BY DEF Tolerable
<1>4. \A m, n \in Nat : m > 0 /\ n > 0 => m * n \in Nat /\ m * n > 0
  OBVIOUS
<1>5. z * e \in Nat /\ z * e > 0
  BY <1>1, <1>2, <1>4
<1>6. z * e * (100 - e) \in Nat /\ z * e * (100 - e) > 0
  BY <1>2, <1>4, <1>5
<1>7. 10000 * t * t \in Nat /\ 10000 * t * t > 0
  BY <1>3
<1>8. Infinite(c) = CeilDiv(z * e * (100 - e), 10000 * t * t)
  BY <1>1, <1>2, <1>3 DEF Infinite
<1> DEFINE a == z * e * (100 - e)
           b == 10000 * t * t
           q == CeilDiv(a, b)
<1>9. a \in Nat /\ a > 0 /\ b \in Nat /\ b > 0 /\ Infinite(c) = q
  BY <1>6, <1>7, <1>8
<1> HIDE DEF a, b
<1>10. q \in Nat /\ a <= b * q
  BY <1>9, CeilDivBounds
<1> HIDE DEF q
<1>11. q # 0
  BY <1>9, <1>10
<1>12. QED
  BY <1>9, <1>10, <1>11

\* No more is required than there is.
LEMMA RequiredFits ==
  ASSUME NEW c \in Control
  PROVE  /\ Required(c) \in Nat
         /\ c.population > 0 => Required(c) <= c.population
<1>1. PICK n \in Nat : n = Infinite(c) /\ n > 0
  BY InfiniteType
<1>2. PICK pop \in Nat : pop = c.population
  BY VerdictAssumption DEF Control
<1>3. CASE pop = 0
  BY <1>1, <1>2, <1>3 DEF Required
<1>4. CASE pop > 0
  <2> DEFINE a == n * pop
             b == pop + n - 1
             q == CeilDiv(a, b)
  <2>1. a \in Nat /\ b \in Nat /\ b > 0
    BY <1>1, <1>4
  <2>2. Required(c) = q
    BY <1>1, <1>2, <1>4 DEF Required
  <2>3. q \in Nat /\ b * q <= a + b - 1
    <3> HIDE DEF a, b
    <3>1. QED
      BY <2>1, CeilDivBounds
  <2>4. ASSUME q > pop PROVE FALSE
    <3>1. PICK r \in Nat : r = q /\ b * r <= a + b - 1 /\ r >= pop + 1
      BY <2>3, <2>4
    <3>2. (pop + n - 1) * r <= n * pop + (pop + n - 1) - 1
      BY <3>1
    <3> HIDE DEF a, b, q
    <3>3. \A x, y, k \in Nat : x <= y => k * x <= k * y
      OBVIOUS
    <3>4. (pop + n - 1) * (pop + 1) <= (pop + n - 1) * r
      BY <1>1, <1>4, <3>1, <3>3
    <3>5. (pop + n - 1) * (pop + 1) = n * pop + (pop + n - 1) + pop * pop - pop
      OBVIOUS
    <3>6. pop * pop >= pop
      BY <1>4
    <3>7. QED
      BY <1>1, <1>4, <3>1, <3>2, <3>4, <3>5, <3>6
  <2>5. QED
    BY <1>2, <2>2, <2>3, <2>4
<1>5. QED
  BY <1>2, <1>3, <1>4

(***************************************************************************)
(* The conclusion                                                          *)
(***************************************************************************)

VerdictTypeOK == control \in Control /\ passing \in Counts /\ failing \in Counts

VerdictInv == VerdictTypeOK /\ verdict = Run(control, passing, failing)

LEMMA VerdictInitInv == VerdictInit => VerdictInv
  BY DEF VerdictInit, VerdictInv, VerdictTypeOK, NoItems, Counts, Control

LEMMA VerdictNextInv == VerdictInv /\ [VerdictNext]_verdictVars => VerdictInv'
<1>1. ASSUME VerdictInv, NEW k \in EvidenceKinds, Submit(k) PROVE VerdictInv'
  <2>1. control' = control /\ verdict' = Run(control, passing', failing')
    BY <1>1 DEF Submit
  <2>2. passing' \in Counts /\ failing' \in Counts
    BY <1>1 DEF Submit, VerdictInv, VerdictTypeOK, Counts
  <2>3. QED
    BY <1>1, <2>1, <2>2 DEF VerdictInv, VerdictTypeOK
<1>2. VerdictInv /\ UNCHANGED verdictVars => VerdictInv'
  BY DEF verdictVars, VerdictInv, VerdictTypeOK
<1>3. QED
  BY <1>1, <1>2 DEF VerdictNext

LEMMA SpecVerdictInv == VerdictSpec => []VerdictInv
  BY VerdictInitInv, VerdictNextInv, PTL DEF VerdictSpec

\* What examined everything there is suffices.
LEMMA EverythingSuffices == VerdictInv => SampleFitsPopulation
<1> SUFFICES ASSUME VerdictInv, control.population > 0, verdict.sufficiency # "refused",
                    NEW k \in Strongest, passing[k] + failing[k] >= control.population
             PROVE  verdict.sufficiency = "sufficient"
  BY DEF SampleFitsPopulation
<1>1. control \in Control /\ passing \in Counts /\ failing \in Counts
  BY DEF VerdictInv, VerdictTypeOK
<1>2. PICK pop \in Nat : pop = control.population
  BY <1>1, VerdictAssumption DEF Control
<1>3. PICK items \in Nat : items = passing[k] + failing[k] /\ items >= pop
  BY <1>1, <1>2 DEF Strongest, Counts
<1>4. PICK req \in Nat : req = Required(control) /\ req <= pop
  BY <1>1, <1>2, RequiredFits
<1>5. PICK scores \in Nat : scores = Scores(passing, failing) /\ 10000 * items <= scores
  BY <1>1, <1>3, FiguresType
<1>6. scores >= 8000 * req
  BY <1>3, <1>4, <1>5
<1>7. Sufficiency(control, passing, failing) = "sufficient"
  BY <1>4, <1>5, <1>6 DEF Sufficiency
<1>8. QED
  BY <1>7 DEF VerdictInv, Run

LEMMA EffectiveIsBlockedByNumber == VerdictInv => GateAgrees
<1> SUFFICES ASSUME VerdictInv, verdict.tier = 1, GateBlocks(control, passing, failing) # {}
             PROVE  /\ GateBlocks(control, passing, failing) = {"floor_not_met"}
                    /\ Required(control) * 6000 <= 2 * 10000
  BY DEF GateAgrees
<1>1. control \in Control /\ passing \in Counts /\ failing \in Counts
  BY DEF VerdictInv, VerdictTypeOK
<1>2. /\ ~Refused(control)
      /\ Downgraded(Scored(control, passing, failing),
                    Sufficiency(control, passing, failing)) = 1
  BY DEF VerdictInv, Run
<1>3. Scored(control, passing, failing) \in 1..3
  BY DEF Scored
<1>4. Sufficiency(control, passing, failing) # "insufficient"
  BY <1>2, <1>3 DEF Downgraded
<1>5. GateBlocks(control, passing, failing) = {"floor_not_met"}
  BY <1>4 DEF GateBlocks
<1>6. Count(passing, failing) < 3
  BY <1>5 DEF GateBlocks
<1>7. PICK count \in Nat : count = Count(passing, failing) /\ count < 3
  BY <1>1, <1>6, FiguresType
<1>8. PICK scores \in Nat : scores = Scores(passing, failing) /\ scores <= 10000 * count
  BY <1>1, <1>7, FiguresType
<1>9. PICK req \in Nat : req = Required(control)
  BY <1>1, RequiredFits
<1>10. scores >= 6000 * req
  BY <1>4, <1>8, <1>9 DEF Sufficiency
<1>11. QED
  BY <1>5, <1>7, <1>8, <1>9, <1>10

\* More scores never make a sample insufficient.
LEMMA ScoresHelp ==
  ASSUME NEW c \in Control, NEW p \in Counts, NEW f \in Counts,
         NEW q \in Counts, NEW g \in Counts, Scores(q, g) >= Scores(p, f),
         Sufficiency(c, q, g) = "insufficient"
  PROVE  Sufficiency(c, p, f) = "insufficient"
<1>1. PICK req \in Nat : req = Required(c)
  BY RequiredFits
<1>2. PICK s \in Nat : s = Scores(p, f)
  BY FiguresType
<1>3. PICK t \in Nat : t = Scores(q, g) /\ t >= s
  BY <1>2, FiguresType
<1>4. t < 8000 * req /\ t < 6000 * req
  BY <1>1, <1>3 DEF Sufficiency
<1>5. s < 8000 * req /\ s < 6000 * req
  BY <1>3, <1>4
<1>6. QED
  BY <1>1, <1>2, <1>5 DEF Sufficiency

\* A verdict is a grade, one worse when the sample is insufficient.
LEMMA RunIsGrade ==
  ASSUME NEW c, NEW p, NEW f
  PROVE  /\ Scored(c, p, f) \in {1, 2, 3}
         /\ Refused(c) => Run(c, p, f) = [tier |-> 3, sufficiency |-> "refused"]
         /\ ~Refused(c) =>
              /\ Run(c, p, f).sufficiency = Sufficiency(c, p, f)
              /\ Run(c, p, f).tier = IF Sufficiency(c, p, f) = "insufficient"
                                        /\ Scored(c, p, f) # 3
                                     THEN Scored(c, p, f) + 1 ELSE Scored(c, p, f)
<1>1. Scored(c, p, f) \in {1, 2, 3}
  BY DEF Scored
<1>2. QED
  BY <1>1 DEF Run, Downgraded

LEMMA SupportGrades ==
  ASSUME NEW c \in Control, NEW p \in Counts, NEW f \in Counts, NEW k \in EvidenceKinds,
         NEW q, q = Added(p, k)
  PROVE  Run(c, q, f).tier <= Run(c, p, f).tier
<1>1. /\ q \in Counts /\ Count(q, f) = Count(p, f) + 1
      /\ Scores(q, f) >= Scores(p, f) /\ Sum(q, Gain) >= Sum(p, Gain)
  BY SupportMoves
<1>2. PICK n \in Nat : n = Count(p, f)
  BY FiguresType
<1>3. PICK fails \in Nat : fails = Sum(f, One)
  BY FiguresType
<1>4. PICK t \in {5, 10} : t = Tolerable(c)
  BY DEF Tolerable
<1>5. PICK o \in Int : o = Odds(c, p, f)
  <2>1. c.prior \in Int /\ Sum(p, Gain) \in Int /\ Sum(f, Loss) \in Int
    BY FiguresType, PriorIsInt
  <2>2. QED
    BY <2>1 DEF Odds
<1>6. PICK o2 \in Int : o2 = Odds(c, q, f) /\ o2 >= o
  <2>1. /\ c.prior \in Int /\ Sum(p, Gain) \in Int /\ Sum(q, Gain) \in Int
        /\ Sum(f, Loss) \in Int
    BY <1>1, FiguresType, PriorIsInt
  <2>2. QED
    BY <1>1, <1>5, <2>1 DEF Odds
<1>7. Scored(c, p, f) = IF n = 0 \/ 100 * fails > t * n THEN 3
                        ELSE IF o >= 1609 THEN 1 ELSE IF o >= 916 THEN 2 ELSE 3
  BY <1>2, <1>3, <1>4, <1>5 DEF Scored, DeviatesTooOften, Effective, Partial
<1>8. Scored(c, q, f) = IF n + 1 = 0 \/ 100 * fails > t * (n + 1) THEN 3
                        ELSE IF o2 >= 1609 THEN 1 ELSE IF o2 >= 916 THEN 2 ELSE 3
  BY <1>1, <1>2, <1>3, <1>4, <1>6 DEF Scored, DeviatesTooOften, Effective, Partial
<1>9. Scored(c, q, f) <= Scored(c, p, f)
  BY <1>4, <1>6, <1>7, <1>8
<1>10. Sufficiency(c, q, f) = "insufficient" => Sufficiency(c, p, f) = "insufficient"
  BY <1>1, ScoresHelp
<1>11. QED
  BY <1>9, <1>10, RunIsGrade

LEMMA FailureGrades ==
  ASSUME NEW c \in Control, NEW p \in Counts, NEW f \in Counts, NEW k \in EvidenceKinds,
         NEW g, g = Added(f, k), Run(c, p, g).tier < Run(c, p, f).tier
  PROVE  /\ Run(c, p, f).sufficiency = "insufficient"
         /\ Run(c, p, g).sufficiency # "insufficient"
         /\ ~DeviatesTooOften(c, p, g)
<1>1. /\ g \in Counts /\ Sum(g, One) = Sum(f, One) + 1
      /\ Count(p, g) = Count(p, f) + 1
      /\ Scores(p, g) >= Scores(p, f) /\ Sum(g, Loss) >= Sum(f, Loss)
  BY FailureMoves
<1>2. PICK n \in Nat : n = Count(p, f)
  BY FiguresType
<1>3. PICK fails \in Nat : fails = Sum(f, One) /\ fails <= n
  BY <1>2, FiguresType
<1>4. PICK t \in {5, 10} : t = Tolerable(c)
  BY DEF Tolerable
<1>5. PICK o \in Int : o = Odds(c, p, f)
  <2>1. c.prior \in Int /\ Sum(p, Gain) \in Int /\ Sum(f, Loss) \in Int
    BY FiguresType, PriorIsInt
  <2>2. QED
    BY <2>1 DEF Odds
<1>6. PICK o2 \in Int : o2 = Odds(c, p, g) /\ o2 <= o
  <2>1. /\ c.prior \in Int /\ Sum(p, Gain) \in Int /\ Sum(f, Loss) \in Int
        /\ Sum(g, Loss) \in Int
    BY <1>1, FiguresType, PriorIsInt
  <2>2. QED
    BY <1>1, <1>5, <2>1 DEF Odds
<1>7. Scored(c, p, f) = IF n = 0 \/ 100 * fails > t * n THEN 3
                        ELSE IF o >= 1609 THEN 1 ELSE IF o >= 916 THEN 2 ELSE 3
  BY <1>2, <1>3, <1>4, <1>5 DEF Scored, DeviatesTooOften, Effective, Partial
<1>8. DeviatesTooOften(c, p, g) <=> 100 * (fails + 1) > t * (n + 1)
  BY <1>1, <1>2, <1>3, <1>4 DEF DeviatesTooOften
<1>9. Scored(c, p, g) = IF n + 1 = 0 \/ 100 * (fails + 1) > t * (n + 1) THEN 3
                        ELSE IF o2 >= 1609 THEN 1 ELSE IF o2 >= 916 THEN 2 ELSE 3
  BY <1>1, <1>2, <1>6, <1>8 DEF Scored, Effective, Partial
<1>10. Scored(c, p, g) >= Scored(c, p, f)
  BY <1>3, <1>4, <1>6, <1>7, <1>9
<1>11. ~Refused(c) /\ Scored(c, p, g) # 3 /\ Sufficiency(c, p, f) = "insufficient"
       /\ Sufficiency(c, p, g) # "insufficient"
  BY <1>10, RunIsGrade
<1>12. ~DeviatesTooOften(c, p, g)
  BY <1>8, <1>9, <1>11
<1>13. QED
  BY <1>11, <1>12, RunIsGrade

\* A step submits one item, for the control or against it.
LEMMA StepSubmits ==
  ASSUME VerdictInv, [VerdictNext]_verdictVars
  PROVE  \/ UNCHANGED verdictVars
         \/ \E k \in EvidenceKinds :
              /\ control' = control /\ verdict' = Run(control, passing', failing')
              /\ \/ passing' = Added(passing, k) /\ failing' = failing
                 \/ /\ failing' = Added(failing, k) /\ passing' = passing
                    /\ failing' # failing
<1>1. ASSUME NEW k \in EvidenceKinds PROVE Added(failing, k) # failing
  <2>1. failing[k] \in Nat /\ failing \in Counts
    BY DEF VerdictInv, VerdictTypeOK, Counts
  <2>2. Added(failing, k)[k] = failing[k] + 1
    BY <2>1 DEF Counts, Added
  <2>3. QED
    BY <2>1, <2>2
<1>2. CASE VerdictNext
  BY <1>1, <1>2 DEF VerdictNext, Submit, Added
<1>3. QED
  BY <1>2

\* Conclusions follow the evidence and the sample its population, whatever is
\* submitted, in whatever order and however much of it (pipeline.py:154-228,
\* sampler.py:123-224, gate.py:99-130).
THEOREM SpecVerdictIsSound == VerdictSpec => VerdictIsSound
<1>1. VerdictInv => SampleFitsPopulation /\ GateAgrees
  BY EverythingSuffices, EffectiveIsBlockedByNumber
<1>2. VerdictInv /\ [VerdictNext]_verdictVars
        => [failing' = failing => ~Better(verdict, verdict')]_verdictVars
  <2> SUFFICES ASSUME VerdictInv, [VerdictNext]_verdictVars, failing' = failing,
                      ~UNCHANGED verdictVars
               PROVE  ~Better(verdict, verdict')
    OBVIOUS
  <2>1. PICK k \in EvidenceKinds :
          /\ verdict' = Run(control, passing', failing)
          /\ passing' = Added(passing, k)
    BY StepSubmits
  <2>2. /\ verdict = Run(control, passing, failing)
        /\ control \in Control /\ passing \in Counts /\ failing \in Counts
    BY DEF VerdictInv, VerdictTypeOK
  <2>3. Run(control, passing', failing).tier <= Run(control, passing, failing).tier
    BY <2>1, <2>2, SupportGrades
  <2>4. ASSUME NEW a \in Control, NEW b, NEW c PROVE Run(a, b, c).tier \in {1, 2, 3}
    BY RunIsGrade
  <2>5. verdict.tier \in {1, 2, 3} /\ verdict'.tier \in {1, 2, 3}
    BY <2>1, <2>2, <2>4
  <2>6. QED
    BY <2>1, <2>2, <2>3, <2>5 DEF Better
<1>3. VerdictInv /\ [VerdictNext]_verdictVars
        => [(failing' # failing /\ Better(verdict', verdict)) =>
              /\ verdict.sufficiency = "insufficient"
              /\ verdict'.sufficiency # "insufficient"
              /\ ~DeviatesTooOften(control, passing', failing')]_verdictVars
  <2> SUFFICES ASSUME VerdictInv, [VerdictNext]_verdictVars, failing' # failing,
                      Better(verdict', verdict)
               PROVE  /\ verdict.sufficiency = "insufficient"
                      /\ verdict'.sufficiency # "insufficient"
                      /\ ~DeviatesTooOften(control, passing', failing')
    OBVIOUS
  <2>1. PICK k \in EvidenceKinds :
          /\ verdict' = Run(control, passing, failing') /\ passing' = passing
          /\ failing' = Added(failing, k)
    BY StepSubmits DEF verdictVars
  <2>2. /\ verdict = Run(control, passing, failing)
        /\ control \in Control /\ passing \in Counts /\ failing \in Counts
    BY DEF VerdictInv, VerdictTypeOK
  <2>3. Run(control, passing, failing').tier < Run(control, passing, failing).tier
    BY <2>1, <2>2 DEF Better
  <2>4. /\ Run(control, passing, failing).sufficiency = "insufficient"
        /\ Run(control, passing, failing').sufficiency # "insufficient"
        /\ ~DeviatesTooOften(control, passing, failing')
    BY <2>1, <2>2, <2>3, FailureGrades
  <2>5. QED
    BY <2>1, <2>2, <2>4
<1>4. VerdictSpec => [](SampleFitsPopulation /\ GateAgrees)
  BY SpecVerdictInv, <1>1, PTL
<1>5. VerdictSpec => SupportNeverWorsens
  BY SpecVerdictInv, <1>2, PTL DEF VerdictSpec, SupportNeverWorsens
<1>6. VerdictSpec => FailureHelpsOnlyTheSample
  BY SpecVerdictInv, <1>3, PTL DEF VerdictSpec, FailureHelpsOnlyTheSample
<1>7. QED
  BY <1>4, <1>5, <1>6 DEF VerdictIsSound

(***************************************************************************)
(* The work program of a scope (WorkProgram)                               *)
(***************************************************************************)

HoursOf == [n \in InDag |-> Hours(n)]

LEMMA NodeFacts ==
  ASSUME TypeOK
  PROVE  /\ IsFiniteSet(InDag)
         /\ \A n \in InDag : /\ Weight(n) \in Nat /\ n \in Nat
                             /\ Hours(n) \in Nat \ {0} /\ HoursOf[n] = Hours(n)
<1>1. IsFiniteSet(InDag)
  BY ProgramAssumption, FS_Subset DEF TypeOK
<1>2. \A n \in InDag : node[n].risk_weight \in Weights /\ n \in Nodes
  BY DEF TypeOK, ScopeNode
<1>3. \A n \in InDag : node[n].risk_weight \in Nat /\ n \in Nat
  BY <1>2, ProgramAssumption
<1> QED  BY <1>1, <1>3 DEF Weight, Hours, HoursOf

LEMMA TimesKeepsOrder ==
  ASSUME NEW u \in Nat, NEW v \in Nat, NEW k \in Nat \ {0}
  PROVE  (u * k > v * k <=> u > v) /\ (u * k = v * k <=> u = v)
<1>1. ASSUME NEW x \in Nat, NEW y \in Nat, x > y PROVE x * k > y * k
  <2>1. PICK d \in Nat : x = y + d /\ d >= 1
    <3>1. x - y \in Nat /\ x = y + (x - y) /\ x - y >= 1
      BY <1>1
    <3> QED  BY <3>1
  <2>2. x * k = y * k + d * k
    BY <2>1
  <2>3. d * k >= 1 /\ d * k \in Nat /\ y * k \in Nat
    BY <2>1
  <2> QED  BY <2>2, <2>3
<1>2. u * k \in Nat /\ v * k \in Nat
  OBVIOUS
<1>3. u > v => u * k > v * k
  BY <1>1
<1>4. v > u => v * k > u * k
  BY <1>1
<1>5. u = v => u * k = v * k
  OBVIOUS
<1> QED  BY <1>2, <1>3, <1>4, <1>5

\* The control id, and the topological order where it is the same, order the nodes.
LEMMA ControlsAreOrdered ==
  ASSUME TypeOK
  PROVE  /\ \A a \in InDag : ~ByControl(a, a)
         /\ \A a, b \in InDag : a = b \/ ByControl(a, b) \/ ByControl(b, a)
         /\ \A a, b, c \in InDag : ByControl(a, b) /\ ByControl(b, c) => ByControl(a, c)
<1>1. \A a \in InDag : node[a].control_id \in Nat /\ a \in Nat
  <2>1. \A a \in InDag : node[a].control_id \in Controls /\ a \in Nodes
    BY DEF TypeOK, ScopeNode
  <2> QED  BY <2>1, ProgramAssumption
<1> QED  BY <1>1 DEF ByControl

\* Weight per hour orders the nodes.
LEMMA EfficiencyIsTransitive ==
  ASSUME TypeOK, NEW a \in InDag, NEW b \in InDag, NEW c \in InDag,
         MoreEfficient(a, b), MoreEfficient(b, c)
  PROVE  MoreEfficient(a, c)
<1>1. PICK x, y, z \in Nat : x = Weight(a) /\ y = Weight(b) /\ z = Weight(c)
  BY NodeFacts
<1>2. PICK h, i, j \in Nat \ {0} : h = Hours(a) /\ i = Hours(b) /\ j = Hours(c)
  BY NodeFacts
<1>3. /\ x * i > y * h \/ (x * i = y * h /\ ByControl(a, b))
      /\ y * j > z * i \/ (y * j = z * i /\ ByControl(b, c))
  BY <1>1, <1>2 DEF MoreEfficient
<1>4. /\ x * i \in Nat /\ y * h \in Nat /\ y * j \in Nat /\ z * i \in Nat
      /\ x * j \in Nat /\ z * h \in Nat
  OBVIOUS
<1>5. PICK p, q, r \in Nat :
        /\ p = (x * i) * j /\ p = (x * j) * i
        /\ q = (y * h) * j /\ q = (y * j) * h
        /\ r = (z * i) * h /\ r = (z * h) * i
  <2>1. (x * i) * j = (x * j) * i
    OBVIOUS
  <2>2. (y * h) * j = (y * j) * h
    OBVIOUS
  <2>3. (z * i) * h = (z * h) * i
    OBVIOUS
  <2>4. (x * i) * j \in Nat /\ (y * h) * j \in Nat /\ (z * i) * h \in Nat
    BY <1>4
  <2> QED  BY <2>1, <2>2, <2>3, <2>4
<1>6. (p > q <=> x * i > y * h) /\ (p = q <=> x * i = y * h)
  BY <1>4, <1>5, TimesKeepsOrder
<1>7. (q > r <=> y * j > z * i) /\ (q = r <=> y * j = z * i)
  BY <1>4, <1>5, TimesKeepsOrder
<1>8. (p > r <=> x * j > z * h) /\ (p = r <=> x * j = z * h)
  BY <1>4, <1>5, TimesKeepsOrder
<1>9. ByControl(a, b) /\ ByControl(b, c) => ByControl(a, c)
  BY ControlsAreOrdered
<1>10. p > r \/ (p = r /\ ByControl(a, c))
  BY <1>3, <1>6, <1>7, <1>9
<1>11. x * j > z * h \/ (x * j = z * h /\ ByControl(a, c))
  BY <1>8, <1>10
<1> QED  BY <1>1, <1>2, <1>11 DEF MoreEfficient

LEMMA SortedCandidates ==
  ASSUME TypeOK
  PROVE  \E n \in Nat : \E s \in [1..n -> InScopeNodes] :
            /\ s = SortedBy(InScopeNodes, MoreEfficient) /\ Len(s) = n
            /\ \A k, l \in 1..n : s[k] = s[l] => k = l
            /\ \A m \in InScopeNodes : \E k \in 1..n : s[k] = m
<1>1. InScopeNodes \in SUBSET InDag
  BY DEF InScopeNodes
<1>2. PICK S \in SUBSET InDag : S = InScopeNodes /\ IsFiniteSet(S)
  BY <1>1, NodeFacts, FS_Subset
<1>3. PICK R : R = {p \in S \X S : MoreEfficient(p[1], p[2])}
  OBVIOUS
<1>4. \A a, b \in S : <<a, b>> \in R <=> MoreEfficient(a, b)
  BY <1>3
<1>5. StrictOrder(R, S)
  <2>1. \A a \in S : <<a, a>> \notin R
    <3> SUFFICES ASSUME NEW a \in S PROVE ~MoreEfficient(a, a)
      BY <1>4
    <3>1. PICK x \in Nat, y \in Nat : x = Weight(a) /\ y = Hours(a)
      BY <1>2, NodeFacts
    <3>2. x * y \in Nat /\ ~ByControl(a, a)
      BY <1>2, ControlsAreOrdered
    <3> QED  BY <3>1, <3>2 DEF MoreEfficient
  <2>2. \A a, b \in S : a = b \/ <<a, b>> \in R \/ <<b, a>> \in R
    <3> SUFFICES ASSUME NEW a \in S, NEW b \in S, a # b
                 PROVE  MoreEfficient(a, b) \/ MoreEfficient(b, a)
      BY <1>4
    <3>1. PICK x, y \in Nat : x = Weight(a) * Hours(b) /\ y = Weight(b) * Hours(a)
      BY <1>2, NodeFacts
    <3>2. ByControl(a, b) \/ ByControl(b, a)
      BY <1>2, ControlsAreOrdered
    <3> QED  BY <3>1, <3>2 DEF MoreEfficient
  <2>3. \A a, b, c \in S : (<<a, b>> \in R /\ <<b, c>> \in R) => <<a, c>> \in R
    BY <1>2, <1>4, EfficiencyIsTransitive
  <2> QED  BY <2>1, <2>2, <2>3 DEF StrictOrder
<1>6. PICK n \in Nat : n = Cardinality(S)
  BY <1>2, FS_CardinalityType
<1>7. \E s \in [1..n -> S] : \A k, l \in DOMAIN s : k < l => MoreEfficient(s[k], s[l])
  <2>1. PICK s \in [1..n -> S] : \A k, l \in 1..n : k < l => <<s[k], s[l]>> \in R
    BY <1>2, <1>5, <1>6, CanBeListed
  <2> QED  BY <1>4, <2>1
<1>8. SortedBy(InScopeNodes, MoreEfficient)
        = CHOOSE s \in [1..n -> S] : \A k, l \in DOMAIN s : k < l => MoreEfficient(s[k], s[l])
  BY <1>2, <1>6 DEF SortedBy
<1>9. PICK s \in [1..n -> S] :
        /\ s = SortedBy(InScopeNodes, MoreEfficient)
        /\ \A k, l \in DOMAIN s : k < l => MoreEfficient(s[k], s[l])
  BY <1>7, <1>8
<1>10. \A k, l \in 1..n : k < l => <<s[k], s[l]>> \in R
  BY <1>4, <1>9
<1>11. /\ \A k, l \in 1..n : s[k] = s[l] => k = l
       /\ \A m \in S : \E k \in 1..n : s[k] = m
  BY <1>2, <1>5, <1>6, <1>9, <1>10, ListedOnce
<1>12. Len(s) = n
  BY <1>9, DOMAIN s = 1..n
<1> QED  BY <1>2, <1>9, <1>11, <1>12

\* The last sort drops nothing.
LEMMA ListingHoldsAll ==
  ASSUME TypeOK, NEW S \in SUBSET InDag
  PROVE  Range(SortedBy(S, Riskier)) = S
<1>1. IsFiniteSet(S)
  BY NodeFacts, FS_Subset
<1>2. PICK R : R = {p \in S \X S : Riskier(p[1], p[2])}
  OBVIOUS
<1>3. \A a, b \in S : <<a, b>> \in R <=> Riskier(a, b)
  BY <1>2
<1>4. StrictOrder(R, S)
  <2>1. \A a \in S : Weight(a) \in Nat
    BY NodeFacts
  <2>2. \A a \in S : ~Riskier(a, a)
    BY <2>1, ControlsAreOrdered DEF Riskier
  <2>3. \A a, b \in S : a = b \/ Riskier(a, b) \/ Riskier(b, a)
    BY <2>1, ControlsAreOrdered DEF Riskier
  <2>4. \A a, b, c \in S : Riskier(a, b) /\ Riskier(b, c) => Riskier(a, c)
    BY <2>1, ControlsAreOrdered DEF Riskier
  <2> QED  BY <1>3, <2>2, <2>3, <2>4 DEF StrictOrder
<1>5. PICK n \in Nat : n = Cardinality(S)
  BY <1>1, FS_CardinalityType
<1>6. \E s \in [1..n -> S] : \A k, l \in DOMAIN s : k < l => Riskier(s[k], s[l])
  <2>1. PICK s \in [1..n -> S] : \A k, l \in 1..n : k < l => <<s[k], s[l]>> \in R
    BY <1>1, <1>4, <1>5, CanBeListed
  <2> QED  BY <1>3, <2>1
<1>7. SortedBy(S, Riskier)
        = CHOOSE s \in [1..n -> S] : \A k, l \in DOMAIN s : k < l => Riskier(s[k], s[l])
  BY <1>5 DEF SortedBy
<1>8. PICK s \in [1..n -> S] : /\ s = SortedBy(S, Riskier)
                               /\ \A k, l \in DOMAIN s : k < l => Riskier(s[k], s[l])
  BY <1>6, <1>7
<1>9. \A k, l \in 1..n : k < l => <<s[k], s[l]>> \in R
  BY <1>3, <1>8
<1>10. \A m \in S : \E k \in 1..n : s[k] = m
  BY <1>1, <1>4, <1>5, <1>8, <1>9, ListedOnce
<1>11. DOMAIN s = 1..n /\ \A k \in 1..n : s[k] \in S
  BY <1>8
<1> QED  BY <1>8, <1>10, <1>11 DEF Range

\* After k candidates of the list s: the hours are those of what was taken, within the
\* budget, and a candidate that was not taken does not fit any more.
Taken(program, s, k) ==
  /\ program.items \subseteq InScopeNodes
  /\ \A m \in program.items : \E l \in 1..k : s[l] = m
  /\ program.hours \in Nat /\ program.hours <= Budget
  /\ program.hours = SumFunctionOnSet(HoursOf, program.items)
  /\ \A l \in 1..k : s[l] \notin program.items => program.hours + Hours(s[l]) > Budget

Empty == [hours |-> 0, items |-> {}]

LEMMA NothingTaken == \A s : Taken(Empty, s, 0)
<1>1. Empty.hours = 0 /\ Empty.items = {}
  BY DEF Empty
<1>2. SumFunctionOnSet(HoursOf, {}) = 0
  BY SumOfNone
<1> QED  BY <1>1, <1>2, ProgramAssumption DEF Taken

LEMMA OneMoreTaken ==
  ASSUME TypeOK, NEW n \in Nat, NEW s \in [1..n -> InScopeNodes],
         \A k, l \in 1..n : s[k] = s[l] => k = l,
         NEW k \in 1..n, NEW program, Taken(program, s, k - 1)
  PROVE  Taken(Take(program, s[k]), s, k)
<1>1. PICK m \in InDag : m = s[k] /\ m \in InScopeNodes
  BY DEF InScopeNodes
<1>2. PICK h \in Nat : h = Hours(m)
  BY NodeFacts
<1>3. PICK t \in Nat, D \in SUBSET InScopeNodes : t = program.hours /\ D = program.items
  BY DEF Taken
<1>4. /\ t <= Budget /\ Budget \in Nat /\ t = SumFunctionOnSet(HoursOf, D)
      /\ \A x \in D : \E l \in 1..k - 1 : s[l] = x
      /\ \A l \in 1..k - 1 : s[l] \notin D => t + Hours(s[l]) > Budget
  BY <1>3, ProgramAssumption DEF Taken
<1>5. \A l \in 1..n : Hours(s[l]) \in Nat
  BY NodeFacts DEF InScopeNodes
<1>6. CASE t + h <= Budget
  <2>0. Take(program, m) = [hours |-> t + h, items |-> D \cup {m}]
    BY <1>2, <1>3, <1>6 DEF Take
  <2>1. PICK new : new = Take(program, m) /\ new.hours = t + h /\ new.items = D \cup {m}
    BY <2>0
  <2>2. m \notin D
    <3>1. \A l \in 1..k - 1 : s[l] # s[k]
      OBVIOUS
    <3> QED  BY <1>1, <1>4, <3>1
  <2>3. SumFunctionOnSet(HoursOf, D \cup {m}) = t + h
    <3>0. (D \cup {m}) \ {m} = D
      BY <2>2
    <3>1. PICK E : E = D \cup {m} /\ E \ {m} = D
      BY <3>0
    <3>2. E \in SUBSET InDag /\ IsFiniteSet(E) /\ m \in E
      BY <1>1, <3>1, NodeFacts, FS_Subset DEF InScopeNodes
    <3>3. \A x \in E : HoursOf[x] \in Int
      BY <3>2, NodeFacts
    <3>4. SumFunctionOnSet(HoursOf, E) = HoursOf[m] + SumFunctionOnSet(HoursOf, E \ {m})
      BY <3>2, <3>3, SumOfRest
    <3>5. HoursOf[m] = h
      BY <1>2, NodeFacts
    <3>6. SumFunctionOnSet(HoursOf, E) = h + t
      BY <1>4, <3>1, <3>4, <3>5
    <3> QED  BY <3>1, <3>6
  <2>4. \A x \in D \cup {m} : \E l \in 1..k : s[l] = x
    <3>1. 1..k - 1 \subseteq 1..k /\ k \in 1..k
      OBVIOUS
    <3> QED  BY <1>1, <1>4, <3>1
  <2>5. ASSUME NEW l \in 1..k, s[l] \notin D \cup {m} PROVE t + h + Hours(s[l]) > Budget
    <3>1. l \in 1..k - 1 /\ l \in 1..n
      BY <1>1, <2>5
    <3>2. t + Hours(s[l]) > Budget
      BY <1>4, <2>5, <3>1
    <3> QED  BY <1>4, <1>5, <3>1, <3>2
  <2>6. Taken(new, s, k)
    BY <1>1, <1>3, <1>6, <2>1, <2>3, <2>4, <2>5 DEF Taken
  <2> QED  BY <1>1, <2>1, <2>6
<1>7. CASE ~(t + h <= Budget)
  <2>1. Take(program, m) = program
    BY <1>2, <1>3, <1>7 DEF Take
  <2>2. t + h > Budget
    BY <1>4, <1>7
  <2>3. ASSUME NEW l \in 1..k, s[l] \notin D PROVE t + Hours(s[l]) > Budget
    <3>1. l = k \/ l \in 1..k - 1
      OBVIOUS
    <3> QED  BY <1>1, <1>2, <1>4, <2>2, <2>3, <3>1
  <2>4. \A x \in D : \E l \in 1..k : s[l] = x
    <3>1. 1..k - 1 \subseteq 1..k
      OBVIOUS
    <3> QED  BY <1>4, <3>1
  <2>5. Taken(program, s, k)
    BY <1>3, <1>4, <2>3, <2>4 DEF Taken
  <2> QED  BY <1>1, <2>1, <2>5
<1> QED  BY <1>6, <1>7

\* The states of the loop up to its n-th turn.
Picks(g, s, n) == g = [k \in 0..n |-> IF k = 0 THEN Empty ELSE Take(g[k - 1], s[k])]

LEMMA PicksExist ==
  ASSUME NEW s, NEW n \in Nat
  PROVE  \E g : Picks(g, s, n)
<1> DEFINE S == {m \in Nat : \E g : Picks(g, s, m)}
<1>1. 0 \in S
  <2>1. PICK g : g = [k \in 0..0 |-> Empty]
    OBVIOUS
  <2>2. g = [k \in 0..0 |-> IF k = 0 THEN Empty ELSE Take(g[k - 1], s[k])]
    BY <2>1
  <2> QED  BY <2>2 DEF Picks
<1>2. ASSUME NEW m \in S PROVE m + 1 \in S
  <2>1. PICK g : Picks(g, s, m)
    OBVIOUS
  <2>2. \A k \in 0..m : g[k] = IF k = 0 THEN Empty ELSE Take(g[k - 1], s[k])
    BY <2>1 DEF Picks
  <2>3. PICK h : h = [k \in 0..m + 1 |-> IF k <= m THEN g[k] ELSE Take(g[m], s[m + 1])]
    OBVIOUS
  <2>4. ASSUME NEW k \in 0..m + 1
        PROVE  h[k] = IF k = 0 THEN Empty ELSE Take(h[k - 1], s[k])
    <3>1. CASE k = 0
      BY <2>2, <2>3, <3>1
    <3>2. CASE k # 0 /\ k <= m
      <4>1. k \in 0..m /\ k - 1 \in 0..m + 1 /\ k - 1 <= m
        BY <3>2
      <4>2. h[k] = g[k] /\ h[k - 1] = g[k - 1]
        BY <2>3, <3>2, <4>1
      <4> QED  BY <2>2, <3>2, <4>1, <4>2
    <3>3. CASE k = m + 1
      <4>1. h[k] = Take(g[m], s[m + 1]) /\ h[m] = g[m] /\ k - 1 = m /\ k # 0
        BY <2>3, <3>3
      <4> QED  BY <3>3, <4>1
    <3> QED  BY <3>1, <3>2, <3>3
  <2>5. h = [k \in 0..m + 1 |-> h[k]]
    BY <2>3
  <2>6. Picks(h, s, m + 1)
    BY <2>4, <2>5, Zenon DEF Picks
  <2> QED  BY <2>6
<1>3. S \in SUBSET Nat
  OBVIOUS
<1> HIDE DEF S
<1>4. S = Nat
  BY <1>1, <1>2, <1>3, NatSetInduction
<1> QED  BY <1>4 DEF S

LEMMA AllTaken ==
  ASSUME TypeOK, NEW n \in Nat, NEW s \in [1..n -> InScopeNodes], Len(s) = n,
         \A k, l \in 1..n : s[k] = s[l] => k = l
  PROVE  Taken(Greedy(s), s, n)
<1>1. PICK g : Picks(g, s, n) /\ Greedy(s) = g[n]
  <2>1. Greedy(s) = (CHOOSE g : Picks(g, s, n))[n]
    BY DEF Greedy, Picks, Empty
  <2>2. \E g : Picks(g, s, n)
    BY PicksExist
  <2> QED  BY <2>1, <2>2
<1>2. \A k \in 0..n : g[k] = IF k = 0 THEN Empty ELSE Take(g[k - 1], s[k])
  BY <1>1 DEF Picks
<1> DEFINE P == {k \in Nat : k <= n => Taken(g[k], s, k)}
<1>3. 0 \in P
  BY <1>2, NothingTaken
<1>4. ASSUME NEW k \in P PROVE k + 1 \in P
  <2> SUFFICES ASSUME k + 1 <= n PROVE Taken(g[k + 1], s, k + 1)
    OBVIOUS
  <2>1. PICK m \in 1..n : m = k + 1 /\ m - 1 = k
    OBVIOUS
  <2>2. Taken(g[m - 1], s, m - 1) /\ g[m] = Take(g[m - 1], s[m])
    BY <1>2, <2>1
  <2>3. Taken(Take(g[m - 1], s[m]), s, m)
    BY <2>2, OneMoreTaken
  <2> QED  BY <2>1, <2>2, <2>3
<1>5. P \in SUBSET Nat
  OBVIOUS
<1> HIDE DEF P
<1>6. P = Nat
  BY <1>3, <1>4, <1>5, NatSetInduction
<1> QED  BY <1>1, <1>6 DEF P

\* The program of any scope is within the budget, and nothing left out still fits.
LEMMA ProgramsAreMaximal == TypeOK => ProgramIsMaximal
<1> SUFFICES ASSUME TypeOK
             PROVE  LET items  == GenerateWorkProgram
                        booked == SumFunctionOnSet([n \in Range(items) |-> Hours(n)], Range(items))
                    IN  /\ booked <= Budget
                        /\ \A n \in InScopeNodes \ Range(items) : booked + Hours(n) > Budget
  BY DEF ProgramIsMaximal
<1>0. PICK n \in Nat : \E s \in [1..n -> InScopeNodes] :
        /\ s = SortedBy(InScopeNodes, MoreEfficient) /\ Len(s) = n
        /\ \A k, l \in 1..n : s[k] = s[l] => k = l
        /\ \A m \in InScopeNodes : \E k \in 1..n : s[k] = m
  BY SortedCandidates
<1>1. PICK s \in [1..n -> InScopeNodes] :
        /\ s = SortedBy(InScopeNodes, MoreEfficient) /\ Len(s) = n
        /\ \A k, l \in 1..n : s[k] = s[l] => k = l
        /\ \A m \in InScopeNodes : \E k \in 1..n : s[k] = m
  BY <1>0
<1>2. PICK program : program = Greedy(s) /\ Taken(program, s, n)
  BY <1>1, AllTaken
<1>3. PICK D \in SUBSET InScopeNodes : D = program.items /\ D \in SUBSET InDag
  BY <1>2 DEF Taken, InScopeNodes
<1>4. Range(GenerateWorkProgram) = D
  BY <1>1, <1>2, <1>3, ListingHoldsAll DEF GenerateWorkProgram
<1>5. IsFiniteSet(D) /\ \A m \in D : HoursOf[m] = Hours(m)
  BY <1>3, NodeFacts, FS_Subset
<1>6. PICK w : w = [m \in D |-> Hours(m)]
  OBVIOUS
<1>7. SumFunctionOnSet(w, D) = SumFunctionOnSet(HoursOf, D)
  <2>1. \A m \in D : w[m] = HoursOf[m]
    BY <1>5, <1>6
  <2> QED  BY <1>5, <2>1, SumOfEqual
<1>8. PICK booked : booked = SumFunctionOnSet(w, D) /\ booked = program.hours
  BY <1>2, <1>3, <1>7 DEF Taken
<1>9. booked <= Budget
  BY <1>2, <1>8 DEF Taken
<1>10. \A m \in InScopeNodes \ D : booked + Hours(m) > Budget
  BY <1>1, <1>2, <1>3, <1>8 DEF Taken
<1> QED  BY <1>4, <1>6, <1>8, <1>9, <1>10

\* The work program of a scope, whatever led to it: it stays within the hours, and no
\* audited control is left out that would still fit (generate_work_program_from_dag).
THEOREM SpecProgramIsMaximal == HistorySpec => []ProgramIsMaximal
<1>1. HistoryInv => ProgramIsMaximal
  BY ProgramsAreMaximal DEF HistoryInv, InvExcept
<1> QED  BY <1>1, ScopeHistoryInvariant, PTL

(***************************************************************************)
(* The allocation of work items (Allocation)                               *)
(***************************************************************************)

AllocationTypes ==
  /\ item \in [WorkItems -> [risk : Risks, hours : ItemHours, needs : SUBSET Kinds]]
  /\ auditor \in [Auditors -> [available : Capacities, skills : SUBSET Kinds]]

\* The assignments and hours of a loop under way.
Assignments(res) == /\ res.assigned \in [WorkItems -> Auditors \cup {NoOne}]
                    /\ res.allocated \in [Auditors -> Nat]

LEMMA TypesOfOne ==
  ASSUME AllocationTypes
  PROVE  /\ \A i \in WorkItems : item[i].risk \in Nat /\ item[i].hours \in Nat /\ i \in Nat
         /\ \A a \in Auditors : auditor[a].available \in Nat /\ a \in Nat /\ a # NoOne
BY AllocationAssumption DEF AllocationTypes

\* The items have one order, and the list of them has each once.
LEMMA SortedItems ==
  ASSUME AllocationTypes
  PROVE  \E n \in Nat :
            /\ Sorted \in [1..n -> WorkItems] /\ Len(Sorted) = n
            /\ \A k, l \in 1..n : k < l => MoreRisky(Sorted[k], Sorted[l])
            /\ \A k, l \in 1..n : Sorted[k] = Sorted[l] => k = l
            /\ \A i \in WorkItems : \E k \in 1..n : Sorted[k] = i
<1>1. IsFiniteSet(WorkItems)
  BY AllocationAssumption
<1>2. PICK R : R = {p \in WorkItems \X WorkItems : MoreRisky(p[1], p[2])}
  OBVIOUS
<1>3. \A i, j \in WorkItems : <<i, j>> \in R <=> MoreRisky(i, j)
  BY <1>2
<1>4. StrictOrder(R, WorkItems)
  BY <1>3, TypesOfOne DEF StrictOrder, MoreRisky
<1>5. PICK n \in Nat : n = Cardinality(WorkItems)
  BY <1>1, FS_CardinalityType
<1>6. \E s \in [1..n -> WorkItems] : \A k, l \in 1..n : k < l => <<s[k], s[l]>> \in R
  BY <1>1, <1>4, <1>5, CanBeListed
<1>7. /\ Sorted \in [1..n -> WorkItems]
      /\ \A k, l \in 1..n : k < l => MoreRisky(Sorted[k], Sorted[l])
  <2>1. \E s \in [1..n -> WorkItems] :
           \A k, l \in DOMAIN s : k < l => MoreRisky(s[k], s[l])
    BY <1>3, <1>6
  <2>2. Sorted = CHOOSE s \in [1..n -> WorkItems] :
                   \A k, l \in DOMAIN s : k < l => MoreRisky(s[k], s[l])
    BY <1>5 DEF Sorted, SortedBy
  <2>3. /\ Sorted \in [1..n -> WorkItems]
        /\ \A k, l \in DOMAIN Sorted : k < l => MoreRisky(Sorted[k], Sorted[l])
    BY <2>1, <2>2
  <2> QED  BY <2>3
<1>8. PICK s \in [1..n -> WorkItems] : s = Sorted
  BY <1>7
<1>9. \A k, l \in 1..n : k < l => <<s[k], s[l]>> \in R
  BY <1>3, <1>7, <1>8
<1>10. /\ \A k, l \in 1..n : s[k] = s[l] => k = l
       /\ \A i \in WorkItems : \E k \in 1..n : s[k] = i
  BY <1>1, <1>4, <1>5, <1>9, ListedOnce
<1>11. Len(s) = n
  BY DOMAIN s = 1..n
<1> QED  BY <1>7, <1>8, <1>10, <1>11

\* Of some auditors one is the roomiest.
LEMMA RoomiestIsOne ==
  ASSUME AllocationTypes, NEW res, Assignments(res), NEW some \in SUBSET Auditors, some # {}
  PROVE  Roomiest(res, some) \in some
<1>1. IsFiniteSet(some)
  BY AllocationAssumption, FS_Subset
<1>2. PICK R : R = {p \in some \X some : Roomier(res, p[1], p[2])}
  OBVIOUS
<1>3. \A a, b \in some : <<a, b>> \in R <=> Roomier(res, a, b)
  BY <1>2
<1>4. PICK left : left = [a \in some |-> Remaining(res, a)]
  OBVIOUS
<1>5. \A a \in some : a \in Nat /\ left[a] \in Int
  <2> SUFFICES ASSUME NEW a \in some PROVE a \in Nat /\ left[a] \in Int
    OBVIOUS
  <2>1. a \in Nat /\ auditor[a].available \in Nat /\ res.allocated[a] \in Nat
    BY TypesOfOne DEF Assignments
  <2> QED  BY <1>4, <2>1 DEF Remaining
<1>6. \A a, b \in some : <<a, b>> \in R <=> left[a] > left[b] \/ (left[a] = left[b] /\ a < b)
  BY <1>3, <1>4 DEF Roomier
<1>7. StrictOrder(R, some)
  BY <1>5, <1>6 DEF StrictOrder
<1>8. PICK n \in Nat : n = Cardinality(some) /\ n # 0
  BY <1>1, FS_CardinalityType, FS_EmptySet
<1>9. PICK s \in [1..n -> some] : \A k, l \in 1..n : k < l => <<s[k], s[l]>> \in R
  BY <1>1, <1>7, <1>8, CanBeListed
<1>10. \A b \in some : \E l \in 1..n : s[l] = b
  BY <1>1, <1>7, <1>8, <1>9, ListedOnce
<1>11. s[1] \in some /\ \A b \in some \ {s[1]} : Roomier(res, s[1], b)
  <2>1. s[1] \in some
    BY <1>8, <1>9
  <2>2. ASSUME NEW b \in some \ {s[1]} PROVE Roomier(res, s[1], b)
    <3>1. PICK l \in 1..n : s[l] = b
      BY <1>10
    <3>2. l # 1 /\ 1 \in 1..n /\ 1 < l
      BY <1>8, <2>2, <3>1
    <3> QED  BY <1>3, <1>9, <2>1, <3>1, <3>2
  <2> QED  BY <2>1, <2>2
<1> QED  BY <1>11 DEF Roomiest

\* Whoever is chosen has room; an item without a specialist has none with room.
LEMMA ChosenFacts ==
  ASSUME AllocationTypes, NEW res, Assignments(res), NEW i \in WorkItems
  PROVE  /\ Chosen(res, i) \in Auditors \cup {NoOne}
         /\ Chosen(res, i) # NoOne => Remaining(res, Chosen(res, i)) >= item[i].hours
         /\ Chosen(res, i) = NoOne => \A a \in Auditors : Remaining(res, a) < item[i].hours
         /\ (Chosen(res, i) # NoOne /\ ~Apt(Chosen(res, i), i)) =>
              \A a \in Auditors : Apt(a, i) => Remaining(res, a) < item[i].hours
<1> DEFINE able == {a \in Auditors : CanAbsorb(res, a, i)}
           apt  == {a \in able : Apt(a, i)}
<1>1. Chosen(res, i) = IF apt # {} THEN Roomiest(res, apt)
                       ELSE IF able # {} THEN Roomiest(res, able) ELSE NoOne
  BY DEF Chosen
<1>2. \A a \in Auditors : /\ Remaining(res, a) \in Int /\ item[i].hours \in Nat /\ a # NoOne
                          /\ a \in able <=> ~(Remaining(res, a) < item[i].hours)
  BY TypesOfOne DEF Remaining, Assignments, CanAbsorb
<1>3. able \in SUBSET Auditors /\ apt \in SUBSET able
      /\ \A a \in able : a \in apt <=> Apt(a, i)
  OBVIOUS
<1> HIDE DEF able, apt
<1>4. /\ apt # {} => Roomiest(res, apt) \in apt
      /\ able # {} => Roomiest(res, able) \in able
  BY <1>3, RoomiestIsOne
<1>5. CASE apt # {}
  BY <1>1, <1>2, <1>3, <1>4, <1>5
<1>6. CASE apt = {} /\ able # {}
  BY <1>1, <1>2, <1>3, <1>4, <1>6
<1>7. CASE apt = {} /\ able = {}
  BY <1>1, <1>2, <1>3, <1>7
<1> QED  BY <1>5, <1>6, <1>7

\* After k turns over the items in the order s: nobody has too much, and what is left
\* over, or given to somebody without the skills, was so for want of room.
Allotted(res, s, k) ==
  /\ Assignments(res)
  /\ \A a \in Auditors : res.allocated[a] <= auditor[a].available
  /\ \A l \in 1..Len(s) : l > k => res.assigned[s[l]] = NoOne
  /\ \A l \in 1..k :
       /\ res.assigned[s[l]] = NoOne =>
            \A a \in Auditors : Remaining(res, a) < item[s[l]].hours
       /\ (res.assigned[s[l]] # NoOne /\ ~Apt(res.assigned[s[l]], s[l])) =>
            \A a \in Auditors : Apt(a, s[l]) => Remaining(res, a) < item[s[l]].hours
  /\ \A l, m \in 1..k : (l < m /\ res.assigned[s[l]] = NoOne /\ res.assigned[s[m]] # NoOne)
                          => item[s[m]].hours < item[s[l]].hours

LEMMA NothingAllotted ==
  ASSUME AllocationTypes, NEW n \in Nat, NEW s \in [1..n -> WorkItems], Len(s) = n
  PROVE  Allotted(Nothing, s, 0)
<1>1. /\ Nothing.assigned = [i \in WorkItems |-> NoOne]
      /\ Nothing.allocated = [a \in Auditors |-> 0]
  BY DEF Nothing
<1> QED  BY <1>1, TypesOfOne DEF Allotted, Assignments

\* One turn: the room of nobody grows, and only the item of the turn is assigned.
LEMMA OneAssigned ==
  ASSUME AllocationTypes, NEW n \in Nat, NEW s \in [1..n -> WorkItems], Len(s) = n,
         \A k, l \in 1..n : s[k] = s[l] => k = l,
         NEW k \in 1..n, NEW res, Allotted(res, s, k - 1)
  PROVE  Allotted(Assign(res, s[k]), s, k)
<1>1. PICK i \in WorkItems : i = s[k]
  OBVIOUS
<1>2. Assignments(res)
  BY DEF Allotted
<1>3. PICK c \in Auditors \cup {NoOne} :
        /\ c = Chosen(res, i)
        /\ c # NoOne => Remaining(res, c) >= item[i].hours
        /\ c = NoOne => \A a \in Auditors : Remaining(res, a) < item[i].hours
        /\ (c # NoOne /\ ~Apt(c, i)) =>
             \A a \in Auditors : Apt(a, i) => Remaining(res, a) < item[i].hours
  BY <1>2, ChosenFacts
<1>4. PICK new : new = Assign(res, i)
  OBVIOUS
<1>5. /\ new.assigned = [res.assigned EXCEPT ![i] = c]
      /\ new.allocated = [b \in Auditors |->
                            res.allocated[b] + (IF b = c THEN item[i].hours ELSE 0)]
  BY <1>3, <1>4 DEF Assign
<1>6. /\ new.assigned[i] = c
      /\ \A l \in 1..n : l # k => new.assigned[s[l]] = res.assigned[s[l]]
  BY <1>1, <1>2, <1>5 DEF Assignments
<1>7. Assignments(new)
  BY <1>2, <1>3, <1>5, TypesOfOne DEF Assignments
<1>8. \A a \in Auditors : /\ Remaining(res, a) \in Int /\ Remaining(new, a) \in Int
                          /\ Remaining(new, a) <= Remaining(res, a)
                          /\ new.allocated[a] <= auditor[a].available
  <2> SUFFICES ASSUME NEW a \in Auditors
               PROVE  /\ Remaining(res, a) \in Int /\ Remaining(new, a) \in Int
                      /\ Remaining(new, a) <= Remaining(res, a)
                      /\ new.allocated[a] <= auditor[a].available
    OBVIOUS
  <2>1. PICK h, x, y \in Nat : h = item[i].hours /\ x = res.allocated[a] /\ y = auditor[a].available
    BY <1>2, TypesOfOne DEF Assignments
  <2>2. x <= y
    BY <2>1 DEF Allotted
  <2>3. new.allocated[a] = x + (IF a = c THEN h ELSE 0)
    BY <1>5, <2>1
  <2>4. a = c => y - x >= h
    BY <1>3, <2>1, TypesOfOne DEF Remaining
  <2>5. Remaining(res, a) = y - x /\ Remaining(new, a) = y - new.allocated[a]
    BY <2>1 DEF Remaining
  <2>6. PICK d \in Nat : d = (IF a = c THEN h ELSE 0) /\ d <= y - x
    <3>1. CASE a = c
      BY <2>4, <3>1
    <3>2. CASE a # c
      BY <2>2, <3>2
    <3> QED  BY <3>1, <3>2
  <2>7. PICK z \in Nat : z = x + d /\ x <= z /\ z <= y
    BY <2>6
  <2>8. new.allocated[a] = z
    BY <2>3, <2>6, <2>7, Zenon
  <2>9. Remaining(new, a) = y - z
    BY <2>5, <2>8
  <2>10. y - x \in Int /\ y - z \in Int /\ y - z <= y - x
    BY <2>7
  <2> QED  BY <2>1, <2>5, <2>7, <2>8, <2>9, <2>10, Zenon
<1>9. \A l \in 1..n : item[s[l]].hours \in Nat
  BY TypesOfOne
<1>10. \A l \in 1..n : l > k => new.assigned[s[l]] = NoOne
  BY <1>6 DEF Allotted
<1>11. ASSUME NEW l \in 1..k
       PROVE  /\ new.assigned[s[l]] = NoOne =>
                   \A a \in Auditors : Remaining(new, a) < item[s[l]].hours
              /\ (new.assigned[s[l]] # NoOne /\ ~Apt(new.assigned[s[l]], s[l])) =>
                   \A a \in Auditors : Apt(a, s[l]) => Remaining(new, a) < item[s[l]].hours
  <2>1. CASE l = k
    BY <1>1, <1>3, <1>6, <1>8, <1>9, <2>1
  <2>2. CASE l # k
    <3>1. l \in 1..k - 1 /\ l \in 1..n /\ new.assigned[s[l]] = res.assigned[s[l]]
      BY <1>6, <2>2
    <3>2. /\ res.assigned[s[l]] = NoOne =>
               \A a \in Auditors : Remaining(res, a) < item[s[l]].hours
          /\ (res.assigned[s[l]] # NoOne /\ ~Apt(res.assigned[s[l]], s[l])) =>
               \A a \in Auditors : Apt(a, s[l]) => Remaining(res, a) < item[s[l]].hours
      BY <3>1 DEF Allotted
    <3> QED  BY <1>8, <1>9, <3>1, <3>2
  <2> QED  BY <2>1, <2>2
<1>12. ASSUME NEW l \in 1..k, NEW m \in 1..k, l < m, new.assigned[s[l]] = NoOne,
              new.assigned[s[m]] # NoOne
       PROVE  item[s[m]].hours < item[s[l]].hours
  <2>1. l \in 1..k - 1 /\ l \in 1..n /\ m \in 1..n /\ res.assigned[s[l]] = NoOne
    BY <1>6, <1>12
  <2>2. CASE m = k
    <3>1. c \in Auditors /\ Remaining(res, c) >= item[s[m]].hours
      BY <1>1, <1>3, <1>6, <1>12, <2>2
    <3>2. Remaining(res, c) < item[s[l]].hours
      BY <2>1, <3>1 DEF Allotted
    <3> QED  BY <1>8, <1>9, <2>1, <3>1, <3>2
  <2>3. CASE m # k
    <3>1. m \in 1..k - 1 /\ res.assigned[s[m]] # NoOne
      BY <1>6, <1>12, <2>1, <2>3
    <3> QED  BY <1>12, <2>1, <3>1 DEF Allotted
  <2> QED  BY <2>2, <2>3
<1>13. Allotted(new, s, k)
  BY <1>7, <1>8, <1>10, <1>11, <1>12 DEF Allotted
<1> QED  BY <1>1, <1>4, <1>13

\* The states of the loop up to its n-th turn.
Turns(g, s, n) == g = [k \in 0..n |-> IF k = 0 THEN Nothing ELSE Assign(g[k - 1], s[k])]

LEMMA TurnsExist ==
  ASSUME NEW s, NEW n \in Nat
  PROVE  \E g : Turns(g, s, n)
<1> DEFINE S == {m \in Nat : \E g : Turns(g, s, m)}
<1>1. 0 \in S
  <2>1. PICK g : g = [k \in 0..0 |-> Nothing]
    OBVIOUS
  <2>2. g = [k \in 0..0 |-> IF k = 0 THEN Nothing ELSE Assign(g[k - 1], s[k])]
    BY <2>1
  <2> QED  BY <2>2 DEF Turns
<1>2. ASSUME NEW m \in S PROVE m + 1 \in S
  <2>1. PICK g : Turns(g, s, m)
    OBVIOUS
  <2>2. \A k \in 0..m : g[k] = IF k = 0 THEN Nothing ELSE Assign(g[k - 1], s[k])
    BY <2>1 DEF Turns
  <2>3. PICK h : h = [k \in 0..m + 1 |-> IF k <= m THEN g[k] ELSE Assign(g[m], s[m + 1])]
    OBVIOUS
  <2>4. ASSUME NEW k \in 0..m + 1
        PROVE  h[k] = IF k = 0 THEN Nothing ELSE Assign(h[k - 1], s[k])
    <3>1. CASE k = 0
      BY <2>2, <2>3, <3>1
    <3>2. CASE k # 0 /\ k <= m
      <4>1. k \in 0..m /\ k - 1 \in 0..m + 1 /\ k - 1 <= m
        BY <3>2
      <4>2. h[k] = g[k] /\ h[k - 1] = g[k - 1]
        BY <2>3, <3>2, <4>1
      <4> QED  BY <2>2, <3>2, <4>1, <4>2
    <3>3. CASE k = m + 1
      <4>1. h[k] = Assign(g[m], s[m + 1]) /\ h[m] = g[m] /\ k - 1 = m /\ k # 0
        BY <2>3, <3>3
      <4> QED  BY <3>3, <4>1
    <3> QED  BY <3>1, <3>2, <3>3
  <2>5. h = [k \in 0..m + 1 |-> h[k]]
    BY <2>3
  <2>6. Turns(h, s, m + 1)
    BY <2>4, <2>5, Zenon DEF Turns
  <2> QED  BY <2>6
<1>3. S \in SUBSET Nat
  OBVIOUS
<1> HIDE DEF S
<1>4. S = Nat
  BY <1>1, <1>2, <1>3, NatSetInduction
<1> QED  BY <1>4 DEF S

LEMMA AllAllotted ==
  ASSUME AllocationTypes, NEW n \in Nat, NEW s \in [1..n -> WorkItems], Len(s) = n,
         \A k, l \in 1..n : s[k] = s[l] => k = l
  PROVE  Allotted(Allocate(s), s, n)
<1>1. PICK g : Turns(g, s, n) /\ Allocate(s) = g[n]
  <2>1. Allocate(s) = (CHOOSE g : Turns(g, s, n))[n]
    BY DEF Allocate, Turns
  <2>2. \E g : Turns(g, s, n)
    BY TurnsExist
  <2> QED  BY <2>1, <2>2
<1>2. \A k \in 0..n : g[k] = IF k = 0 THEN Nothing ELSE Assign(g[k - 1], s[k])
  BY <1>1 DEF Turns
<1> DEFINE P == {k \in Nat : k <= n => Allotted(g[k], s, k)}
<1>3. 0 \in P
  BY <1>2, NothingAllotted
<1>4. ASSUME NEW k \in P PROVE k + 1 \in P
  <2> SUFFICES ASSUME k + 1 <= n PROVE Allotted(g[k + 1], s, k + 1)
    OBVIOUS
  <2>1. PICK m \in 1..n : m = k + 1 /\ m - 1 = k
    OBVIOUS
  <2>2. Allotted(g[m - 1], s, m - 1) /\ g[m] = Assign(g[m - 1], s[m])
    BY <1>2, <2>1
  <2>3. Allotted(Assign(g[m - 1], s[m]), s, m)
    BY <2>2, OneAssigned
  <2> QED  BY <2>1, <2>2, <2>3
<1>5. P \in SUBSET Nat
  OBVIOUS
<1> HIDE DEF P
<1>6. P = Nat
  BY <1>3, <1>4, <1>5, NatSetInduction
<1> QED  BY <1>1, <1>6 DEF P

AllocationInv == AllocationTypes /\ (result # Pending => Allotted(result, Sorted, Len(Sorted)))

\* Every item is in the list, and a less risky one behind a riskier one.
LEMMA AllottedIsGreedy == AllocationInv => AllocationIsGreedy
<1> SUFFICES ASSUME AllocationTypes, result # Pending, Allotted(result, Sorted, Len(Sorted))
             PROVE  AllocationIsMaximal /\ AllocationIsFair
  BY DEF AllocationInv, AllocationIsGreedy, AllocationIsMaximal, AllocationIsFair, Allocated
<1>1. PICK n \in Nat :
        /\ Sorted \in [1..n -> WorkItems] /\ Len(Sorted) = n
        /\ \A k, l \in 1..n : k < l => MoreRisky(Sorted[k], Sorted[l])
        /\ \A i \in WorkItems : \E k \in 1..n : Sorted[k] = i
  BY SortedItems
<1>2. AllocationIsMaximal
  BY <1>1 DEF AllocationIsMaximal, Allotted
<1>3. ASSUME NEW i \in WorkItems, NEW j \in WorkItems, item[j].risk < item[i].risk,
             result.assigned[i] = NoOne, result.assigned[j] # NoOne
      PROVE  item[j].hours < item[i].hours
  <2>1. PICK l, m \in 1..n : Sorted[l] = i /\ Sorted[m] = j
    BY <1>1
  <2>2. l < m
    <3>1. ASSUME m < l PROVE FALSE
      <4>1. item[j].risk > item[i].risk \/ item[j].risk = item[i].risk
        BY <1>1, <2>1, <3>1 DEF MoreRisky
      <4> QED  BY <1>3, <4>1, TypesOfOne
    <3>2. l # m
      BY <1>3, <2>1
    <3> QED  BY <3>1, <3>2
  <2> QED  BY <1>1, <1>3, <2>1, <2>2 DEF Allotted
<1>4. ASSUME NEW i \in WorkItems, result.assigned[i] # NoOne, ~Apt(result.assigned[i], i),
             NEW a \in Auditors, Apt(a, i)
      PROVE  Remaining(result, a) < item[i].hours
  <2>1. PICK l \in 1..n : Sorted[l] = i
    BY <1>1
  <2> QED  BY <1>1, <1>4, <2>1 DEF Allotted
<1>5. AllocationIsFair
  BY <1>3, <1>4 DEF AllocationIsFair
<1> QED  BY <1>2, <1>5

\* The greedy allocation, for any items and auditors: nobody is given more than is
\* available, an item that is left over fits nowhere at the end either, one given to
\* somebody without the skills would not have fitted those with them, and a less risky
\* item is taken in the place of a riskier one only if it is smaller.
THEOREM SpecAllocationIsGreedy == AllocationSpec => []AllocationIsGreedy
<1>1. AllocationInit => AllocationInv
  BY DEF AllocationInit, AllocationInv, AllocationTypes
<1>2. AllocationInv /\ [AllocateResources]_avars => AllocationInv'
  <2> SUFFICES ASSUME AllocationInv, [AllocateResources]_avars PROVE AllocationInv'
    OBVIOUS
  <2>1. item' = item /\ auditor' = auditor
    BY DEF AllocateResources, avars
  <2>2. Sorted' = Sorted /\ AllocationTypes'
    BY <2>1 DEF Sorted, SortedBy, MoreRisky, AllocationTypes, AllocationInv
  <2>3. CASE AllocateResources
    <3>1. result' = Allocate(Sorted)
      BY <2>3 DEF AllocateResources
    <3>2. PICK n \in Nat : /\ Sorted \in [1..n -> WorkItems] /\ Len(Sorted) = n
                           /\ \A k, l \in 1..n : Sorted[k] = Sorted[l] => k = l
      BY SortedItems DEF AllocationInv
    <3>3. PICK s : s = Sorted
      OBVIOUS
    <3>4. Allotted(Allocate(s), s, n) /\ n = Len(s)
      BY <3>2, <3>3, AllAllotted DEF AllocationInv
    <3>5. PICK res : res = Allocate(s) /\ Allotted(res, s, Len(s)) /\ result' = res
      BY <3>1, <3>3, <3>4
    <3>6. Allotted(result, Sorted, Len(Sorted))'
      BY <2>1, <2>2, <3>3, <3>5 DEF Allotted, Assignments, Remaining, Apt
    <3> QED  BY <2>2, <3>6 DEF AllocationInv
  <2>4. CASE UNCHANGED avars
    <3>1. result' = result
      BY <2>4 DEF avars
    <3> QED  BY <2>1, <2>2, <3>1 DEF AllocationInv, Allotted, Assignments, Remaining, Apt
  <2> QED  BY <2>3, <2>4
<1> QED  BY <1>1, <1>2, AllottedIsGreedy, PTL DEF AllocationSpec
=============================================================================
