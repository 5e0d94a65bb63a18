------------------------------ MODULE Planning ------------------------------
(***************************************************************************)
(* The planning service (services/planning): the lifecycle of strategic    *)
(* and annual plans in internal/domain, their in-memory stores and the     *)
(* handlers.  A handler gets a copy, changes it and updates the store;     *)
(* each store call holds the store's lock, and other requests run between  *)
(* them.  An annual plan is created only when its organisation has no plan *)
(* for that year that is not archived; no later write checks that again.   *)
(*                                                                         *)
(* Abstracted: the descriptive fields, entities and engagements of a plan, *)
(* and timestamps; an organisation and a year are one "period".  Assurance *)
(* maps and resource calendars have no lifecycle and are not modelled.     *)
(***************************************************************************)
EXTENDS Naturals

CONSTANTS Strategic,    \* identifiers of strategic plans
          Annual,       \* identifiers of annual plans
          Periods,      \* the organisation and year of an annual plan
          Approvers,    \* who, or which approval, a plan is approved by
          Nobody,       \* no approver recorded
          Requests,     \* requests being served
          MaxPatches    \* bound on the updates answered per plan

ASSUME DisjointAssumption == Strategic \cap Annual = {} /\ Nobody \notin Approvers
ASSUME MaxPatchesAssumption == MaxPatches \in Nat

VARIABLES store,        \* store[id]: the stored plan, or NoPlan
          req,          \* req[r]: what request r is doing
          patched,      \* patched[id]: PATCH requests answered 200
          approved,     \* <<id, approver>> of the approvals answered 200
          archived      \* plans for which an archival was answered 200

vars == <<store, req, patched, approved, archived>>

Plans    == Strategic \cup Annual
Statuses == {"draft", "approved", "active", "archived"}
Plan     == [status : Statuses, version : 1..MaxPatches+1,
             by : Approvers \cup {Nobody}, period : Periods]
NoPlan   == [status |-> "none"]
Idle     == [step |-> "idle"]

Init == /\ store = [id \in Plans |-> NoPlan]
        /\ req = [r \in Requests |-> Idle]
        /\ patched = [id \in Plans |-> 0]
        /\ approved = {}
        /\ archived = {}

(***************************************************************************)
(* internal/domain/plan.go                                                 *)
(***************************************************************************)

\* Mutant: versions are counted from zero.
NewPlan_Zero(p) == [status |-> "draft", version |-> 0, by |-> Nobody, period |-> p]

NewPlan(p) == [status |-> "draft", version |-> 1, by |-> Nobody, period |-> p]

\* A PATCH leaves the status alone, whatever it is.
Apply(plan) == [plan EXCEPT !.version = @ + 1]

Approved(plan, by) == [plan EXCEPT !.status = "approved", !.by = by]

(***************************************************************************)
(* internal/store/store.go                                                 *)
(***************************************************************************)

\* Mutant: only plans in force count against the year.
PeriodTaken_InForce(p) ==
  \E id \in Annual : /\ store[id] # NoPlan /\ store[id].period = p
                     /\ store[id].status \in {"approved", "active"}

PeriodTaken(p) ==
  \E id \in Annual : /\ store[id] # NoPlan /\ store[id].period = p
                     /\ store[id].status # "archived"

\* Mutant: Update keeps the stored status when the copy is a mere draft.
Update_KeepsStatus(id, plan) ==
  store' = [store EXCEPT ![id] =
              IF plan.status = "draft" THEN [plan EXCEPT !.status = store[id].status] ELSE plan]

\* Mutant: Update bumps the version when the copy's is not newer.
Update_BumpsVersion(id, plan) ==
  store' = [store EXCEPT ![id] =
              IF plan.version > store[id].version THEN plan
              ELSE [plan EXCEPT !.version = store[id].version + 1]]

Update(id, plan) == store' = [store EXCEPT ![id] = plan]

(***************************************************************************)
(* internal/handler/handler.go                                             *)
(***************************************************************************)

\* POST /strategic-plans and POST /annual-plans; the store checks the year and
\* inserts an annual plan under one lock.
CreateStrategic(id, p) ==
  /\ id \in Strategic /\ store[id] = NoPlan
  /\ store' = [store EXCEPT ![id] = NewPlan(p)]
  /\ UNCHANGED <<req, patched, approved, archived>>

CreateAnnual(id, p) ==
  /\ id \in Annual /\ store[id] = NoPlan
  /\ ~PeriodTaken(p)
  /\ store' = [store EXCEPT ![id] = NewPlan(p)]
  /\ UNCHANGED <<req, patched, approved, archived>>

\* The first half of every handler that changes a plan: Get.
Load(r, id) ==
  /\ req[r] = Idle /\ store[id] # NoPlan
  /\ req' = [req EXCEPT ![r] = [step |-> "loaded", id |-> id, copy |-> store[id]]]
  /\ UNCHANGED <<store, patched, approved, archived>>

\* The second half: the changed copy replaces the stored record, and 200.
SaveAndRespond(r, plan) ==
  /\ Update(req[r].id, plan)
  /\ req' = [req EXCEPT ![r] = Idle]

UpdatePlan(r) ==
  /\ req[r].step = "loaded" /\ patched[req[r].id] < MaxPatches
  /\ SaveAndRespond(r, Apply(req[r].copy))
  /\ patched' = [patched EXCEPT ![req[r].id] = @ + 1]
  /\ UNCHANGED <<approved, archived>>

\* approved_by is required for a strategic plan; the approval of an annual plan
\* may name nothing.
ApprovePlan(r, by) ==
  /\ req[r].step = "loaded" /\ req[r].copy.status = "draft"
  /\ by = Nobody => req[r].id \in Annual
  /\ SaveAndRespond(r, Approved(req[r].copy, by))
  /\ approved' = approved \cup {<<req[r].id, by>>}
  /\ UNCHANGED <<patched, archived>>

ActivatePlan(r) ==
  /\ req[r].step = "loaded" /\ req[r].copy.status = "approved"
  /\ SaveAndRespond(r, [req[r].copy EXCEPT !.status = "active"])
  /\ UNCHANGED <<patched, approved, archived>>

ArchivePlan(r) ==
  /\ req[r].step = "loaded" /\ req[r].copy.status # "archived"
  /\ SaveAndRespond(r, [req[r].copy EXCEPT !.status = "archived"])
  /\ archived' = archived \cup {req[r].id}
  /\ UNCHANGED <<patched, approved>>

\* The body does not decode, lacks its approver, or the transition is refused.
Refuse(r) ==
  /\ req[r].step = "loaded"
  /\ req' = [req EXCEPT ![r] = Idle]
  /\ UNCHANGED <<store, patched, approved, archived>>

Next == \/ \E id \in Plans, p \in Periods : CreateStrategic(id, p) \/ CreateAnnual(id, p)
        \/ \E r \in Requests :
             \/ \E id \in Plans : Load(r, id)
             \/ UpdatePlan(r) \/ ActivatePlan(r) \/ ArchivePlan(r) \/ Refuse(r)
             \/ \E by \in Approvers \cup {Nobody} : ApprovePlan(r, by)

Spec == Init /\ [][Next]_vars

(***************************************************************************)
(* Properties                                                              *)
(***************************************************************************)

\* Plans, copies and the ghosts keep their types.
TypeOK == /\ store \in [Plans -> Plan \cup {NoPlan}]
          /\ req \in [Requests -> {Idle} \cup [step : {"loaded"}, id : Plans, copy : Plan]]
          /\ patched \in [Plans -> 0..MaxPatches]
          /\ approved \subseteq Plans \X (Approvers \cup {Nobody})
          /\ archived \subseteq Plans

\* However requests interleave, a stored plan that is approved or in force names
\* an approval that was answered 200, a strategic one names who gave it, and a
\* draft names none (plan.go:154-165 and 300-308 with store.go:64 and 137).
StoredWasSignedOff ==
  \A id \in Plans : store[id] # NoPlan =>
    /\ store[id].status \in {"approved", "active"} =>
         /\ <<id, store[id].by>> \in approved
         /\ id \in Strategic => store[id].by # Nobody
    /\ store[id].status = "draft" => store[id].by = Nobody

\* However requests interleave, a stored version counts only updates that were
\* answered 200 (plan.go:196-213 and 338-355): a lost update loses a version, none
\* is invented.
VersionsWereAnswered ==
  \A id \in Plans : store[id] # NoPlan => store[id].version <= patched[id] + 1

\* "one active/draft plan per year per org" (store.go:94): two plans of one period
\* that are not archived need a plan whose archival was answered and that a write
\* of an older copy brought back.
YearSharedOnlyAfterRevival ==
  \A a, b \in Annual :
    /\ a # b /\ store[a] # NoPlan /\ store[b] # NoPlan
    /\ store[a].period = store[b].period
    /\ store[a].status # "archived" /\ store[b].status # "archived"
    => {a, b} \cap archived # {}
=============================================================================
