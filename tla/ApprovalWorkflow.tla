-------------------------- MODULE ApprovalWorkflow --------------------------
(***************************************************************************)
(* What the approval service promises for one organisation's gates: every  *)
(* workflow walks one edge of the approval graph at a time, the trail of   *)
(* the edges it walked only grows, a decision is taken by a role its gate  *)
(* admits, and a locked workflow has come to its end.  There are no        *)
(* requests, copies or saves here: a step is atomic.                       *)
(***************************************************************************)
EXTENDS Sequences

CONSTANT Ids            \* workflow identifiers

VARIABLES gate,         \* gate[id]: the approval gate the workflow guards, or "none"
          status,       \* status[id]: where the workflow is
          trail         \* trail[id]: the actions taken, oldest first

avars == <<gate, status, trail>>

GateTypes == {"audit_plan", "finding_signoff", "report_release", "other"}

\* The roles that decide at a gate; a gate of an unknown type has none.
Deciders(g) ==
  IF g = "audit_plan" THEN {"chief_audit_executive"}
  ELSE IF g \in {"finding_signoff", "report_release"}
       THEN {"engagement_lead", "chief_audit_executive"}
       ELSE {}

\* The edges of the approval graph.
Edges ==
  { [action |-> "submitted",         from |-> "draft",            to |-> "pending_approval"],
    [action |-> "submitted",         from |-> "rejected",         to |-> "pending_approval"],
    [action |-> "approved",          from |-> "pending_approval", to |-> "approved"],
    [action |-> "rejected",          from |-> "pending_approval", to |-> "rejected"],
    [action |-> "returned_to_draft", from |-> "rejected",         to |-> "draft"],
    [action |-> "locked",            from |-> "approved",         to |-> "locked"] }

\* The roles that may walk an edge at a gate.
Walkers(g, e) ==
  IF e.action \in {"submitted", "returned_to_draft"} THEN {"engagement_lead"}
                                                     ELSE Deciders(g)

AInit == /\ gate = [id \in Ids |-> "none"]
         /\ status = [id \in Ids |-> "none"]
         /\ trail = [id \in Ids |-> <<>>]

Open(id) == /\ gate[id] = "none"
            /\ \E g \in GateTypes : gate' = [gate EXCEPT ![id] = g]
            /\ status' = [status EXCEPT ![id] = "draft"]
            /\ UNCHANGED trail

Walk(id, e) == /\ gate[id] # "none"
               /\ status[id] = e.from
               /\ \E role \in Walkers(gate[id], e) :
                    trail' = [trail EXCEPT ![id] =
                                Append(@, [action |-> e.action, role |-> role,
                                           from |-> e.from, to |-> e.to])]
               /\ status' = [status EXCEPT ![id] = e.to]
               /\ UNCHANGED gate

ANext == \E id \in Ids : Open(id) \/ \E e \in Edges : Walk(id, e)

ASpec == AInit /\ [][ANext]_avars
=============================================================================
