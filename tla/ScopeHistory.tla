---------------------------- MODULE ScopeHistory ----------------------------
(***************************************************************************)
(* What the engine does with a scope graph over time                       *)
(* (src/engine/scope/history.py, validation.py, impact.py): versions are   *)
(* captured, compared and judged while the graph is edited, also through   *)
(* the references that get_node hands out, and while snapshots are edited  *)
(* through those that record_version and get_version hand out.             *)
(*                                                                         *)
(* Abstracted: messages, notes and the ids of findings and evidence, which *)
(* are judged by their control.  Nobody assigns node_id, a node's own key. *)
(***************************************************************************)
EXTENDS Scope

CONSTANTS Versions,    \* version numbers that callers choose
          MaxEdits     \* bound on the assignments through references

ASSUME EditsAssumption == MaxEdits \in Nat

VARIABLES versions,    \* _versions: the snapshots by version number
          edits,       \* assignments through references so far
          lockedAs,    \* the nodes when the scope was locked (a ghost)
          touched,     \* nodes changed through a reference since (a ghost)
          rewired      \* nodes whose parents were ever assigned so (a ghost)

hvars == <<node, children, state, versions, edits, lockedAs, touched, rewired>>

HistoryInit == /\ Init
               /\ versions = [v \in {} |-> node]
               /\ edits = 0
               /\ lockedAs = node
               /\ touched = {} /\ rewired = {}

(***************************************************************************)
(* Operations                                                              *)
(***************************************************************************)

\* A method of the graph.
Edit == /\ Next
        /\ lockedAs' = IF state' = "locked" /\ state # "locked" THEN node ELSE lockedAs
        /\ UNCHANGED <<versions, edits, touched, rewired>>

\* A node once one of its fields is assigned; parents need not exist.
Assigned(x) == {[x EXCEPT !.boundary_status = status] : status \in Boundaries}
               \cup {[x EXCEPT !.risk_weight = weight] : weight \in Weights}
               \cup {[x EXCEPT !.control_id = control] : control \in Controls}
               \cup {[x EXCEPT !.parent_ids = ps] : ps \in SUBSET Nodes}

\* Mutant: the versions hold the nodes of the graph, not copies of them.
EditThroughReference_Aliased(n, x) ==
  /\ edits < MaxEdits
  /\ edits' = edits + 1
  /\ node' = [node EXCEPT ![n] = x]
  /\ versions' = [v \in DOMAIN versions |->
                    [m \in DOMAIN versions[v] |-> node'[m]]]
  /\ touched' = IF state = "locked" THEN touched \cup {n} ELSE touched
  /\ rewired' = IF x.parent_ids # node[n].parent_ids THEN rewired \cup {n} ELSE rewired
  /\ UNCHANGED <<children, state, lockedAs>>

\* get_node returns the live node, and any of its fields can be assigned, locked or
\* not.  The edges down (_children) do not follow.
EditThroughReference(n, x) ==
  /\ edits < MaxEdits
  /\ edits' = edits + 1
  /\ node' = [node EXCEPT ![n] = x]
  /\ touched' = IF state = "locked" THEN touched \cup {n} ELSE touched
  /\ rewired' = IF x.parent_ids # node[n].parent_ids THEN rewired \cup {n} ELSE rewired
  /\ UNCHANGED <<children, state, versions, lockedAs>>

\* A snapshot once a field of one of its nodes is assigned, or a node is dropped.
Rewritten(s) ==
  (UNION {{[s EXCEPT ![n] = x] : x \in Assigned(s[n])} : n \in DOMAIN s})
  \cup {[m \in DOMAIN s \ {n} |-> s[m]] : n \in DOMAIN s}

\* record_version and get_version return the snapshot that is kept, and neither
\* it nor its nodes are frozen.
EditSnapshot(v, s) ==
  /\ edits < MaxEdits
  /\ edits' = edits + 1
  /\ versions' = [versions EXCEPT ![v] = s]
  /\ UNCHANGED <<node, children, state, lockedAs, touched, rewired>>

\* record_version refuses a number that is taken and copies every node.
RecordVersion(v) ==
  /\ v \notin DOMAIN versions
  /\ versions' = [w \in DOMAIN versions \cup {v} |-> IF w = v THEN node ELSE versions[w]]
  /\ UNCHANGED <<node, children, state, edits, lockedAs, touched, rewired>>

HistoryNext ==
  \/ Edit
  \/ \E n \in InDag : \E x \in Assigned(node[n]) : EditThroughReference(n, x)
  \/ \E v \in DOMAIN versions : \E s \in Rewritten(versions[v]) : EditSnapshot(v, s)
  \/ \E v \in Versions : RecordVersion(v)

HistorySpec == HistoryInit /\ [][HistoryNext]_hvars

(***************************************************************************)
(* history.py: diffs                                                       *)
(***************************************************************************)

\* Mutant: a change of the risk weight alone is not a modification.
Modified_BoundaryOnly(a, b) ==
  {n \in DOMAIN a \cap DOMAIN b : a[n].boundary_status # b[n].boundary_status}

\* Nodes of both snapshots that differ in what a diff records.
Modified(a, b) == {n \in DOMAIN a \cap DOMAIN b :
                     \/ a[n].boundary_status # b[n].boundary_status
                     \/ a[n].risk_weight # b[n].risk_weight}

\* What a diff tells of a node beside its control.
Told(x) == [boundary_status |-> x.boundary_status, risk_weight |-> x.risk_weight]

\* diff_snapshots: nodes are matched by node_id, and a node of both snapshots is
\* told under its old control id.
Diff(a, b) ==
  [added    |-> [n \in DOMAIN b \ DOMAIN a |->
                   [control_id |-> b[n].control_id, new |-> Told(b[n])]],
   removed  |-> [n \in DOMAIN a \ DOMAIN b |->
                   [control_id |-> a[n].control_id, old |-> Told(a[n])]],
   modified |-> [n \in Modified(a, b) |->
                   [control_id |-> a[n].control_id, old |-> Told(a[n]), new |-> Told(b[n])]]]

\* in_scope_controls of a snapshot, and of the graph.
InScopeControls(s) ==
  {s[n].control_id : n \in {m \in DOMAIN s : s[m].boundary_status = "in_scope"}}

(***************************************************************************)
(* impact.py: analyze                                                      *)
(***************************************************************************)

\* The control ids of the nodes N among some changes.
ControlsOf(changes, N) == {changes[n].control_id : n \in N}

\* scope_reduced
ScopeReduced(diff) ==
  ControlsOf(diff.removed, DOMAIN diff.removed) \cup
  ControlsOf(diff.modified,
             {n \in DOMAIN diff.modified :
                /\ diff.modified[n].new.boundary_status = "out_of_scope"
                /\ diff.modified[n].old.boundary_status = "in_scope"})

\* Mutant: a control that moves in from "conditional" is not newly in scope.
ScopeExpanded_FromOut(diff) ==
  ControlsOf(diff.added, DOMAIN diff.added) \cup
  ControlsOf(diff.modified,
             {n \in DOMAIN diff.modified :
                /\ diff.modified[n].new.boundary_status = "in_scope"
                /\ diff.modified[n].old.boundary_status = "out_of_scope"})

\* scope_expanded
ScopeExpanded(diff) ==
  ControlsOf(diff.added, DOMAIN diff.added) \cup
  ControlsOf(diff.modified,
             {n \in DOMAIN diff.modified :
                /\ diff.modified[n].new.boundary_status = "in_scope"
                /\ diff.modified[n].old.boundary_status # "in_scope"})

\* The reason given for a finding or a piece of evidence of control c.
ImpactReason(diff, c) ==
  IF c \in ScopeReduced(diff) THEN "control_removed_from_scope"
  ELSE IF c \in ScopeExpanded(diff) THEN "control_added_to_scope"
  ELSE "none"

(***************************************************************************)
(* validation.py                                                           *)
(***************************************************************************)

InScope(n)    == node[n].boundary_status = "in_scope"
OutOfScope(n) == node[n].boundary_status = "out_of_scope"
AuditedNodes  == {n \in InDag : InScope(n)}

\* get_node raises a KeyError for a parent that is not there.
ParentMissing == \E n \in AuditedNodes : ~(node[n].parent_ids \subseteq InDag)

\* validate_no_orphan_in_scope_nodes
OrphanNodes == {n \in AuditedNodes : /\ node[n].parent_ids # {}
                                     /\ \A p \in node[n].parent_ids : OutOfScope(p)}

\* validate_parent_scope_consistency: one violation per parent.
ParentsOutOfScope ==
  UNION {{<<n, p>> : p \in {q \in node[n].parent_ids : OutOfScope(q)}} : n \in AuditedNodes}

\* validate_coverage_completeness: absent, or there and nowhere in scope.
MissingCoverage(required) == required \ InScopeControls(node)

\* validate_control_evidence_mapping, with the controls that have a source.
NoEvidenceSource(evidenced) == {n \in AuditedNodes : node[n].control_id \notin evidenced}

\* Mutant: the violations of the optional rules replace those found before.
IsValid_OptionalOnly(required, evidenced) ==
  ~ParentMissing /\ MissingCoverage(required) = {} /\ NoEvidenceSource(evidenced) = {}

\* validate_dag_boundaries, with both optional rules asked for, returns a result
\* that is valid; ScopeEnforcer passes it on.
IsValid(required, evidenced) ==
  /\ ~ParentMissing
  /\ OrphanNodes = {} /\ ParentsOutOfScope = {}
  /\ MissingCoverage(required) = {}
  /\ NoEvidenceSource(evidenced) = {}

(***************************************************************************)
(* Properties                                                              *)
(***************************************************************************)

\* Snapshots have nodes like those of the graph.
HistoryTypeOK ==
  /\ TypeOK
  /\ DOMAIN versions \subseteq Versions
  /\ \A v \in DOMAIN versions :
       /\ DOMAIN versions[v] \subseteq Nodes
       /\ versions[v] \in [DOMAIN versions[v] -> ScopeNode]
  /\ edits \in 0..MaxEdits
  /\ touched \subseteq InDag /\ rewired \subseteq InDag

\* The graph and the versions are copies: no step changes two of them, whatever
\* reference it goes through, and a version number stays taken
\* (history.py:40-49, 232-248).
VersionsAreCopies ==
  [][/\ DOMAIN versions \subseteq DOMAIN versions'
     /\ \A v \in DOMAIN versions : versions'[v] # versions[v] =>
          /\ node' = node
          /\ \A w \in DOMAIN versions \ {v} : versions'[w] = versions[w]]_hvars

\* A locked scope changes only at nodes somebody changed through a reference
\* (dag.py:86-88, 126).
LockedOnlyThroughReferences ==
  state = "locked" =>
    /\ InDag = DOMAIN lockedAs
    /\ \A n \in InDag \ touched : node[n] = lockedAs[n]

\* Whatever field of a node is assigned through a reference, its parents included,
\* the topological order still exists (dag.py:130-149); both copies of the edges
\* agree but at nodes whose parents were assigned so; and a locked scope has
\* changed only where a reference was used since (dag.py:86-88, 123-126).
GraphIsKept == EdgesAgreeExcept(rewired) /\ Acyclic /\ LockedOnlyThroughReferences

\* What a diff compares: the versions, and the graph that is recorded next.
Snapshots == {versions[v] : v \in DOMAIN versions} \cup {node}

\* Whatever two snapshots are compared, in either order, the older one and the
\* diff give the boundaries and weights of the newer one, node by node; a node of
\* both keeps its old control id, since a diff tells no renaming (history.py:148-202).
DiffReplays ==
  \A a, b \in Snapshots :
    LET diff == Diff(a, b)
        replayed == [n \in (DOMAIN a \ DOMAIN diff.removed) \cup DOMAIN diff.added |->
                       IF n \in DOMAIN diff.added
                       THEN <<diff.added[n].control_id, diff.added[n].new>>
                       ELSE IF n \in DOMAIN diff.modified
                       THEN <<diff.modified[n].control_id, diff.modified[n].new>>
                       ELSE <<a[n].control_id, Told(a[n])>>]
        told == [n \in DOMAIN b |->
                   <<IF n \in DOMAIN a THEN a[n].control_id ELSE b[n].control_id, Told(b[n])>>]
    IN  replayed = told

\* A node of both snapshots that has another control id in each.
Renamed(a, b) == \E n \in DOMAIN a \cap DOMAIN b : a[n].control_id # b[n].control_id

\* Where nothing was renamed, a control that enters the scope is reported as added,
\* or as removed if one of its nodes also went; and one that leaves the scope is
\* reported as removed, unless all its audited nodes became conditional, which
\* the analyzer does not look for (impact.py:117-137).
ImpactIsReported ==
  \A a, b \in Snapshots : ~Renamed(a, b) =>
    /\ \A c \in InScopeControls(b) \ InScopeControls(a) :
         \/ ImpactReason(Diff(a, b), c) = "control_added_to_scope"
         \/ /\ ImpactReason(Diff(a, b), c) = "control_removed_from_scope"
            /\ \E n \in DOMAIN a \ DOMAIN b : a[n].control_id = c
    /\ \A c \in InScopeControls(a) \ InScopeControls(b) :
         \/ ImpactReason(Diff(a, b), c) = "control_removed_from_scope"
         \/ \A n \in DOMAIN a :
              a[n].control_id = c /\ a[n].boundary_status = "in_scope" =>
                n \in DOMAIN b /\ b[n].boundary_status = "conditional"

\* In a scope found valid the required controls are audited and the audited ones
\* have evidence, and no edge down leads from an excluded node to an audited one,
\* but to one whose parents were assigned through a reference
\* (validation.py:64-190).
ValidScopeHasNoGap ==
  \A required, evidenced \in SUBSET Controls :
    IsValid(required, evidenced) =>
      /\ required \subseteq InScopeControls(node) /\ InScopeControls(node) \subseteq evidenced
      /\ \A p \in InDag : OutOfScope(p) => \A n \in children[p] \ rewired : ~InScope(n)

\* Versions tell the history of the scope: only who holds one changes it, what lies
\* between two of them is told but for renamings, with its effect on findings but
\* for controls made conditional, and a scope found valid has no gap
\* (history.py, impact.py, validation.py).
VersionsTellHistory ==
  [](HistoryTypeOK /\ DiffReplays /\ ImpactIsReported /\ ValidScopeHasNoGap) /\ VersionsAreCopies
=============================================================================
