----------------------------- MODULE ScopeReview -----------------------------
(***************************************************************************)
(* Requests to modify a scope and their audit trail                        *)
(* (src/engine/scope/workflow.py).  Approving a request only records the   *)
(* decision: nothing in the workflow applies it to a graph.                *)
(*                                                                         *)
(* Abstracted: the proposed changes, notes, times and descriptions.        *)
(***************************************************************************)
EXTENDS Naturals, Sequences

CONSTANTS Engagements, People,
          MaxRequests      \* bound on the requests submitted

ASSUME ReviewAssumption == MaxRequests \in Nat

VARIABLES requests,        \* _requests, in the order of submission
          trail            \* _audit_trail

rvars == <<requests, trail>>

Request == [engagement : Engagements, requested_by : People,
            status : {"pending", "approved", "rejected"}, reviewed_by : People \cup {"nobody"}]

AuditEvent == [engagement : Engagements, request : 1..MaxRequests, actor : People,
               event_type : {"requested", "approved", "rejected"}]

ReviewInit == requests = <<>> /\ trail = <<>>

\* An event of the trail, and _record_event.
Event(eng, type, actor, id) ==
  [engagement |-> eng, request |-> id, actor |-> actor, event_type |-> type]
Recorded(eng, type, actor, id) == trail' = Append(trail, Event(eng, type, actor, id))

\* submit_request
SubmitRequest(eng, actor) ==
  /\ Len(requests) < MaxRequests
  /\ requests' = Append(requests, [engagement |-> eng, requested_by |-> actor,
                                   status |-> "pending", reviewed_by |-> "nobody"])
  /\ Recorded(eng, "requested", actor, Len(requests) + 1)

\* Mutant: any known request may be reviewed.
Reviewable_Known(id) == id \in 1..Len(requests)

\* _get_pending_request
Reviewable(id) == id \in 1..Len(requests) /\ requests[id].status = "pending"

\* approve_request and reject_request; a reviewer may be the requester.
Review(id, verdict, actor) ==
  /\ Reviewable(id)
  /\ requests' = [requests EXCEPT ![id].status = verdict, ![id].reviewed_by = actor]
  /\ Recorded(requests[id].engagement, verdict, actor, id)

ReviewNext == \/ \E eng \in Engagements, actor \in People : SubmitRequest(eng, actor)
              \/ \E id \in 1..MaxRequests, actor \in People :
                   \/ Review(id, "approved", actor)
                   \/ Review(id, "rejected", actor)

ReviewSpec == ReviewInit /\ [][ReviewNext]_rvars

\* pending_requests and get_audit_trail of an engagement, the trail as its positions
\* in the list: it is the list without the others.
PendingRequests(eng) ==
  {id \in 1..Len(requests) : requests[id].engagement = eng /\ requests[id].status = "pending"}
AuditTrail(eng) == {i \in 1..Len(trail) : trail[i].engagement = eng}

(***************************************************************************)
(* Properties                                                              *)
(***************************************************************************)

ReviewTypeOK == /\ requests \in Seq(Request) /\ Len(requests) <= MaxRequests
                /\ trail \in Seq(AuditEvent)

\* The events of a request in the trail of an engagement, and what they say of it.
EventsOf(eng, id) == {i \in AuditTrail(eng) : trail[i].request = id}
Submitted(i, id) ==
  trail[i] = Event(requests[id].engagement, "requested", requests[id].requested_by, id)
Reviewed(i, id) ==
  trail[i] = Event(requests[id].engagement, requests[id].status, requests[id].reviewed_by, id)

\* The trail of an engagement tells each of its requests in full: one submission,
\* then, for a request that is not pending, the one review that gave it its
\* status and reviewer, and nothing of another engagement (workflow.py:144-274).
TrailTellsRequests ==
  \A eng \in Engagements :
    /\ \A id \in 1..Len(requests) : requests[id].engagement = eng =>
         IF id \in PendingRequests(eng)
         THEN \E i \in AuditTrail(eng) : EventsOf(eng, id) = {i} /\ Submitted(i, id)
         ELSE \E i, j \in AuditTrail(eng) :
                i < j /\ EventsOf(eng, id) = {i, j} /\ Submitted(i, id) /\ Reviewed(j, id)
    /\ \A i \in AuditTrail(eng) :
         trail[i].request \in 1..Len(requests) /\ requests[trail[i].request].engagement = eng
=============================================================================
