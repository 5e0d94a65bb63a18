------------------------------ MODULE Approval ------------------------------
(***************************************************************************)
(* The approval service (services/approval): the workflow state machine of *)
(* internal/domain/workflow.go, the in-memory store of internal/store and  *)
(* the HTTP handlers of internal/handler that compose them.                *)
(*                                                                         *)
(* A handler takes a deep copy of the workflow out of the store, decodes   *)
(* the body, applies the transition to its copy and writes the whole copy  *)
(* back.  The store's lock covers the read and the write but not what is   *)
(* between them, so requests interleave there.  Which of the transition    *)
(* handlers a request runs is fixed by its URL, but nothing before the     *)
(* write depends on it, so the model resolves it at the write.             *)
(*                                                                         *)
(* Abstracted: actor ids and emails (the role they act in stands for them),*)
(* comments, timestamps, metadata, the resource reference.                 *)
(***************************************************************************)
EXTENDS Naturals, Sequences

CONSTANTS Ids,          \* workflow identifiers
          Orgs,         \* organisations
          Requests,     \* HTTP requests being served
          MaxHistory    \* bound on the length of a history

ASSUME MaxHistoryAssumption == MaxHistory \in Nat

VARIABLES store,        \* store[id]: the stored workflow, or NoWorkflow
          req,          \* req[r]: the copy the request works on, or Idle
          answered      \* answered[id]: transitions answered with 200

vars == <<store, req, answered>>

Types    == {"audit_plan", "finding_signoff", "report_release", "other"}
Statuses == {"draft", "pending_approval", "approved", "locked", "rejected"}
Roles    == {"engagement_lead", "chief_audit_executive", "reviewer"}
Actions  == {"submitted", "approved", "rejected", "locked", "returned_to_draft"}

Entry    == [action : Actions, role : Roles, from : Statuses, to : Statuses]
Workflow == [id : Ids, org : Orgs, type : Types, status : Statuses,
             submittedBy : Roles \cup {"nobody"}, decidedBy : Roles \cup {"nobody"},
             reason : BOOLEAN, history : Seq(Entry)]

NoWorkflow == [status |-> "none"]
Idle       == [status |-> "idle"]

(***************************************************************************)
(* internal/domain/workflow.go                                             *)
(***************************************************************************)

\* The three known gates.  Create does not validate the type it is given, so
\* a workflow may have one ("other") that this table does not list.
AllowedApprovers ==
  [audit_plan      |-> {"chief_audit_executive"},
   finding_signoff |-> {"engagement_lead", "chief_audit_executive"},
   report_release  |-> {"engagement_lead", "chief_audit_executive"}]

CanApprove(type, role) ==
  /\ type \in DOMAIN AllowedApprovers
  /\ role \in AllowedApprovers[type]

\* Mutant: the constructor forgets the status, which stays Go's zero value.
NewWorkflow_NoStatus(id, org, type) ==
  [id |-> id, org |-> org, type |-> type, status |-> "",
   submittedBy |-> "nobody", decidedBy |-> "nobody",
   reason |-> FALSE, history |-> <<>>]

NewWorkflow(id, org, type) ==
  [id |-> id, org |-> org, type |-> type, status |-> "draft",
   submittedBy |-> "nobody", decidedBy |-> "nobody",
   reason |-> FALSE, history |-> <<>>]

\* Mutant: the handler appends the entry that applyTransition already appended.
ApplyTransition_Twice(w, action, to, role) ==
  LET e == [action |-> action, role |-> role, from |-> w.status, to |-> to]
  IN  [w EXCEPT !.status = to, !.history = Append(Append(@, e), e)]

\* The common mutation.  The rejection reason is set by a rejection and
\* cleared only by the return to draft.
ApplyTransition(w, action, to, role) ==
  [w EXCEPT !.status = to,
            !.submittedBy = IF to = "pending_approval" THEN role ELSE @,
            !.decidedBy = IF to \in {"approved", "locked", "rejected"} THEN role ELSE @,
            !.reason = IF to = "rejected" THEN TRUE ELSE IF to = "draft" THEN FALSE ELSE @,
            !.history = Append(@, [action |-> action, role |-> role,
                                   from |-> w.status, to |-> to])]

(***************************************************************************)
(* internal/store/store.go                                                 *)
(***************************************************************************)

\* Get returns a deep copy of a workflow of the caller's organisation.
Get(org, id) == IF store[id] # NoWorkflow /\ store[id].org = org
                THEN store[id] ELSE NoWorkflow

\* Mutant: Update keeps the longer of the two histories.
Update_KeepsLongerHistory(w) ==
  /\ store[w.id] # NoWorkflow
  /\ LET old == store[w.id].history
     IN  store' = [store EXCEPT ![w.id] =
                     [w EXCEPT !.history = IF Len(old) > Len(@) THEN old ELSE @]]

\* Mutant: Update writes the status and not the history.
Update_StatusOnly(w) ==
  /\ store[w.id] # NoWorkflow
  /\ store' = [store EXCEPT ![w.id].status = w.status]

\* Update overwrites the whole record; it compares no version.
Update(w) == /\ store[w.id] # NoWorkflow
             /\ store' = [store EXCEPT ![w.id] = w]

(***************************************************************************)
(* internal/handler/handler.go                                             *)
(***************************************************************************)

Init == /\ store = [id \in Ids |-> NoWorkflow]
        /\ req = [r \in Requests |-> Idle]
        /\ answered = [id \in Ids |-> 0]

\* POST /approvals: a fresh id, stored in draft.
Create(id) ==
  /\ store[id] = NoWorkflow
  /\ \E org \in Orgs, type \in Types :
       store' = [store EXCEPT ![id] = NewWorkflow(id, org, type)]
  /\ UNCHANGED <<req, answered>>

\* The first half of every transition handler.  A workflow that Get does not
\* find is answered with 404 and changes nothing.
LoadWorkflow(r, org, id) ==
  /\ req[r] = Idle
  /\ Get(org, id) # NoWorkflow
  /\ req' = [req EXCEPT ![r] = Get(org, id)]
  /\ UNCHANGED <<store, answered>>

\* The second half: write the changed copy back and answer 200.
SaveAndRespond(r, w) ==
  /\ Len(w.history) <= MaxHistory
  /\ Update(w)
  /\ req' = [req EXCEPT ![r] = Idle]
  /\ answered' = [answered EXCEPT ![w.id] = @ + 1]

Loaded(r) == req[r] # Idle

Submit(r, role) ==
  /\ Loaded(r)
  /\ req[r].status \in {"draft", "rejected"}
  /\ role = "engagement_lead"
  /\ SaveAndRespond(r, ApplyTransition(req[r], "submitted", "pending_approval", role))

Approve(r, role) ==
  /\ Loaded(r)
  /\ req[r].status = "pending_approval"
  /\ CanApprove(req[r].type, role)
  /\ SaveAndRespond(r, ApplyTransition(req[r], "approved", "approved", role))

Reject(r, role, reasonGiven) ==
  /\ Loaded(r)
  /\ req[r].status = "pending_approval"
  /\ CanApprove(req[r].type, role)
  /\ reasonGiven
  /\ SaveAndRespond(r, ApplyTransition(req[r], "rejected", "rejected", role))

\* Mutant: the lock does not wait for the approval.
Lock_FromPending(r, role, passwordGiven) ==
  /\ Loaded(r)
  /\ req[r].status \in {"approved", "pending_approval"}
  /\ CanApprove(req[r].type, role)
  /\ SaveAndRespond(r, ApplyTransition(req[r], "locked", "locked", role))

Lock(r, role, passwordGiven) ==
  /\ Loaded(r)
  /\ req[r].status = "approved"
  /\ CanApprove(req[r].type, role)
  /\ req[r].type = "report_release" => passwordGiven
  /\ SaveAndRespond(r, ApplyTransition(req[r], "locked", "locked", role))

\* Mutant: any role may return a rejected workflow to draft.
ReturnToDraft_AnyRole(r, role) ==
  /\ Loaded(r)
  /\ req[r].status = "rejected"
  /\ SaveAndRespond(r, ApplyTransition(req[r], "returned_to_draft", "draft", role))

ReturnToDraft(r, role) ==
  /\ Loaded(r)
  /\ req[r].status = "rejected"
  /\ role = "engagement_lead"
  /\ SaveAndRespond(r, ApplyTransition(req[r], "returned_to_draft", "draft", role))

\* The body does not decode, or the transition returns an error: an error is
\* answered and the copy is dropped.
Refuse(r) ==
  /\ Loaded(r)
  /\ req' = [req EXCEPT ![r] = Idle]
  /\ UNCHANGED <<store, answered>>

Next ==
  \/ \E id \in Ids : Create(id)
  \/ \E r \in Requests :
       \/ \E org \in Orgs, id \in Ids : LoadWorkflow(r, org, id)
       \/ Refuse(r)
       \/ \E role \in Roles :
            \/ Submit(r, role)
            \/ Approve(r, role)
            \/ \E given \in BOOLEAN : Reject(r, role, given) \/ Lock(r, role, given)
            \/ ReturnToDraft(r, role)

Spec == Init /\ [][Next]_vars

(***************************************************************************)
(* Properties                                                              *)
(***************************************************************************)

\* A request works on a copy with the same type as what is stored.
TypeOK == /\ store \in [Ids -> Workflow \cup {NoWorkflow}]
          /\ req \in [Requests -> Workflow \cup {Idle}]
          /\ answered \in [Ids -> Nat]

Abs == INSTANCE ApprovalWorkflow WITH
         gate   <- [id \in Ids |-> IF store[id] = NoWorkflow THEN "none" ELSE store[id].type],
         status <- [id \in Ids |-> store[id].status],
         trail  <- [id \in Ids |-> IF store[id] = NoWorkflow THEN <<>> ELSE store[id].history]

\* An entry that the state machine can have written at a gate of this type.
Legal(type, e) ==
  \E edge \in Abs!Edges :
     /\ e.action = edge.action /\ e.from = edge.from /\ e.to = edge.to
     /\ e.role \in Abs!Walkers(type, edge)

\* The history of w is one walk through the approval graph, and w's status is
\* where that walk ended.
Coherent(w) ==
  LET h == w.history IN
  /\ \A i \in 1..Len(h) : /\ Legal(w.type, h[i])
                         /\ h[i].from = IF i = 1 THEN "draft" ELSE h[i - 1].to
  /\ w.status = IF Len(h) = 0 THEN "draft" ELSE h[Len(h)].to

\* However requests interleave, each stored record is one that some sequence
\* of legal transitions produces: Update replaces a record whole (store.go:69)
\* and never leaves the status of one run with the history of another.
StoredIsCoherent == \A id \in Ids : store[id] # NoWorkflow => Coherent(store[id])

\* A locked workflow was submitted by the engagement lead, then approved and
\* then locked by roles its gate admits, in three consecutive entries, and the
\* decision on record is the lock's (workflow.go:182-227).
LockedWasSignedOff ==
  \A id \in Ids : store[id].status = "locked" =>
    LET h == store[id].history
        n == Len(h)
    IN /\ n >= 3
       /\ h[n - 2].action = "submitted" /\ h[n - 2].role = "engagement_lead"
       /\ h[n - 1].action = "approved"  /\ CanApprove(store[id].type, h[n - 1].role)
       /\ h[n].action = "locked"        /\ CanApprove(store[id].type, h[n].role)
       /\ store[id].decidedBy = h[n].role

\* Every entry of a stored history was answered with 200 to some client: a save
\* can lose entries (an overwrite) but never makes one up (handler.go:251-257).
EntriesWereAnswered ==
  \A id \in Ids : store[id] # NoWorkflow => Len(store[id].history) <= answered[id]

\* A transition answered with 200 stays in the history: history is "Immutable
\* event log: one row per action on a workflow" (006_approval_workflows.sql:68).
AnsweredIsKept ==
  \A id \in Ids : store[id] # NoWorkflow => Len(store[id].history) = answered[id]

\* Requests served one at a time make the service the atomic state machine of
\* ApprovalWorkflow: no copy is stale when it is written back.
Refines == Abs!ASpec
=============================================================================
