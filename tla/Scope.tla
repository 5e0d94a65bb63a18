-------------------------------- MODULE Scope --------------------------------
(***************************************************************************)
(* The audit scope of the engine (src/engine/scope/dag.py): a graph of     *)
(* controls that only grows, each with a boundary status, and the          *)
(* lifecycle of the scope document.  One caller works on a scope; each     *)
(* method is a step, and a method that raises changes nothing.             *)
(*                                                                         *)
(* Abstracted: titles, article references and metadata.  A risk weight is  *)
(* counted in quarters; several nodes may have one control id.             *)
(***************************************************************************)
EXTENDS Naturals

CONSTANTS Nodes,      \* node ids; numbers where a program is generated
          Controls,   \* control ids, likewise
          Weights     \* the risk weights given to nodes, in quarters (0..20)

VARIABLES node,       \* _nodes: the nodes added so far
          children,   \* _children[p]: the nodes that name p as a parent
          state       \* _state

svars == <<node, children, state>>

Boundaries  == {"in_scope", "out_of_scope", "conditional"}
ScopeNode   == [control_id : Controls, parent_ids : SUBSET Nodes,
                boundary_status : Boundaries, risk_weight : Weights]
ScopeStates == {"draft", "proposed", "approved", "locked"}

SCOPE_STATE_TRANSITIONS ==
  {<<"draft", "proposed">>, <<"proposed", "approved">>, <<"proposed", "draft">>,
   <<"approved", "locked">>, <<"approved", "proposed">>}

InDag == DOMAIN node

\* _is_dag: every nonempty set of nodes has one without a parent in the set.
IsDag(kids) == \A S \in (SUBSET DOMAIN kids) \ {{}} :
                 \E n \in S : \A p \in S : n \notin kids[p]

Init == /\ node     = [n \in {} |-> 0]
        /\ children = [n \in {} |-> {}]
        /\ state    = "draft"

Transition(new) ==
  /\ <<state, new>> \in SCOPE_STATE_TRANSITIONS
  /\ state' = new
  /\ UNCHANGED <<node, children>>

\* Mutant: a node gets an entry only when it becomes a parent.
WithEdges_ParentsOnly(n, ps) ==
  [p \in InDag \cup ps |-> children[p] \cup (IF p \in ps THEN {n} ELSE {})]

\* Mutant: the edges are entered upwards.
WithEdges_Upwards(n, ps) ==
  [p \in InDag \cup {n} |-> IF p = n THEN ps ELSE children[p]]

\* _children once n is entered with the parents ps.
WithEdges(n, ps) ==
  [p \in InDag \cup {n} |-> (IF p \in InDag THEN children[p] ELSE {})
                            \cup (IF p \in ps THEN {n} ELSE {})]

\* add_node: parents must exist; an edge that closes a cycle is taken back.
AddNode(n, new) ==
  /\ state # "locked"
  /\ n \notin InDag /\ new.parent_ids \subseteq InDag
  /\ LET kids == WithEdges(n, new.parent_ids)
     IN  /\ IsDag(kids)
         /\ children' = kids
         /\ node' = [m \in InDag \cup {n} |-> IF m = n THEN new ELSE node[m]]
  /\ UNCHANGED state

\* Mutant: the lock is not looked at.
SetBoundary_Unlocked(n, status) ==
  /\ n \in InDag
  /\ node' = [node EXCEPT ![n].boundary_status = status]
  /\ UNCHANGED <<children, state>>

SetBoundary(n, status) ==
  /\ state # "locked"
  /\ n \in InDag
  /\ node' = [node EXCEPT ![n].boundary_status = status]
  /\ UNCHANGED <<children, state>>

Next == \/ \E new \in ScopeStates : Transition(new)
        \/ \E n \in Nodes : \E new \in ScopeNode : AddNode(n, new)
        \/ \E n \in Nodes : \E status \in Boundaries : SetBoundary(n, status)

Spec == Init /\ [][Next]_svars

(***************************************************************************)
(* Properties                                                              *)
(***************************************************************************)

\* Nodes, edges and the state keep their types.
TypeOK == /\ InDag \subseteq Nodes /\ node \in [InDag -> ScopeNode]
          /\ children \in [InDag -> SUBSET Nodes]
          /\ state \in ScopeStates

\* The edges down stay in the graph, so in_degree of a child is there
\* (dag.py:133); and the two copies of the edges agree, and none dangles, but
\* at the nodes R.
EdgesAgreeExcept(R) ==
  /\ \A p \in InDag : children[p] \subseteq InDag
  /\ \A n \in InDag \ R :
       /\ node[n].parent_ids \subseteq InDag
       /\ \A p \in InDag : n \in children[p] <=> p \in node[n].parent_ids

\* While nodes are changed by methods only, the copies agree everywhere and get_node
\* of a parent is there (validation.py:78, 104).
EdgesAgree == EdgesAgreeExcept({})

\* The edges down have no cycle, so topological_order never raises (dag.py:148-149).
Acyclic == IsDag(children)

\* An edge never has to be taken back: a node is added after its parents and
\* before anything names it, so the cycle check of add_node (dag.py:111-115)
\* refuses nothing.
CycleNeverCloses ==
  \A n \in Nodes \ InDag : \A ps \in SUBSET InDag : IsDag(WithEdges(n, ps))
=============================================================================
