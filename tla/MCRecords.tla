------------------------------ MODULE MCRecords ------------------------------
(***************************************************************************)
(* The services that keep their records behind a handler, for TLC: plans,  *)
(* engagements, assurance maps and calendars, evidence.  They share no     *)
(* state, so a behaviour belongs to one of them.                           *)
(***************************************************************************)
EXTENDS Planning, Engagement, PlanningRecords, Evidence

CONSTANTS s1, a1, a2, y1, u1, none,   \* model values: plans, year, approver
          i1, i2, i3,                 \* evidence
          r1, r2                      \* requests being served

VARIABLE part

StrategicPlans == {s1}
AnnualPlans    == {a1, a2}
ThreeItems     == {i1, i2, i3}
TwoRequests    == {r1, r2}
Symmetry       == Permutations(AnnualPlans) \cup Permutations(TwoRequests)

TwoUnits   == {"operations", "treasury"}
TwoDomains == {"access", "change"}
OneRelation == {[unit |-> "operations", domain |-> "access", coverage |-> "full"]}
FewMatrices == {OneRelation, {}}
\* Two auditors almost booked out, and one without any day.
FewCalendars == {{[available |-> 200, assignments |-> <<100, 99>>]},
                 {[available |-> 0, assignments |-> <<5>>],
                  [available |-> 3, assignments |-> <<2, 2>>]}}

Policy == [control |-> "a", valid |-> TRUE, hits |-> <<1, 1, 0, 0, 0, 0>>,
           source |-> "manual_upload", format |-> "text", described |-> TRUE,
           content |-> TRUE, tags |-> 2, age |-> 10, terms |-> 5]
\* Four keywords of L1 and one of L6 with its source and format: 0.7 in both, and
\* more in float64 in the second.
Scan   == [control |-> "a", valid |-> TRUE, hits |-> <<4, 0, 0, 0, 0, 1>>,
           source |-> "automated_scan", format |-> "json", described |-> FALSE,
           content |-> FALSE, tags |-> 0, age |-> 800, terms |-> 0]
Feed   == [control |-> "b", valid |-> TRUE, hits |-> <<0, 0, 0, 0, 0, 0>>,
           source |-> "api_integration", format |-> "json", described |-> TRUE,
           content |-> TRUE, tags |-> 0, age |-> 100, terms |-> 3]
Empty  == [control |-> "a", valid |-> FALSE]
FewBatches == {<<Policy>>, <<Scan>>, <<Feed, Policy>>, <<Empty, Scan>>}

\* Strategic and annual plans share no state either: a behaviour has the one or
\* the other.
MCInit == /\ part \in {"strategic", "annual", "engagements", "records", "evidence"}
          /\ Init /\ EngagementInit /\ RecordsInit /\ EvidenceInit

\* Parts that run out of what the bounds allow may stay where they are.
MCNext ==
  /\ UNCHANGED part
  /\ \/ part \in {"strategic", "annual"} /\ Next
        /\ \A id \in IF part = "annual" THEN Strategic ELSE Annual : store'[id] = NoPlan
        /\ UNCHANGED <<engagementVars, recordVars, evidenceVars>>
     \/ part = "engagements" /\ EngagementNext
        /\ UNCHANGED <<vars, recordVars, evidenceVars>>
     \/ part = "records" /\ RecordsNext
        /\ UNCHANGED <<vars, engagementVars, evidenceVars>>
     \/ part = "evidence" /\ EvidenceNext
        /\ UNCHANGED <<vars, engagementVars, recordVars>>
     \/ part # "engagements" /\ UNCHANGED <<vars, engagementVars, recordVars, evidenceVars>>

MCSpec == MCInit /\ [][MCNext]_<<part, vars, engagementVars, recordVars, evidenceVars>>
===============================================================================
