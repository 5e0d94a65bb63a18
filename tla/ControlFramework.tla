-------------------------- MODULE ControlFramework --------------------------
(***************************************************************************)
(* The control framework service (services/control-framework): controls,   *)
(* which clients read page by page, and the assessment of a control in an  *)
(* engagement, which AssessControl moves through its states with two       *)
(* statements, the upsert that reads the row and the update that writes    *)
(* it.  The store is PostgreSQL, or the maps that are used when no         *)
(* database is configured.                                                 *)
(*                                                                         *)
(* Abstracted: one framework, one engagement and one control assessed; of  *)
(* a control the number it is sorted by and whether it is active; of an    *)
(* assessment its status.                                                  *)
(***************************************************************************)
EXTENDS Naturals, Sequences, FiniteSets, SequencesExt

CONSTANTS Controls,     \* the ids controls can get
          Keys,         \* their control_id, a set of numbers
          PageSize,        \* page size of the client that lists them
          Assessors     \* AssessControl calls being served

\* 0 is the key of no control; the service makes a limit below 1 one of 50.
ASSUME FrameworkAssumption == /\ IsFiniteSet(Controls)
                              /\ Keys \subseteq Nat \ {0}
                              /\ PageSize \in Nat \ {0}

VARIABLES backend,      \* the repository main builds
          controls,     \* rows of controls: [key, active], or NoControl
          walk,         \* a client that reads the active controls page by page
          assessment,   \* the row of control_assessments, or NoRow
          assessor      \* what a call of AssessControl is doing

frameworkVars == <<backend, controls, walk, assessment, assessor>>

Statuses  == {"not_started", "in_progress", "assessed", "remediation"}
NoControl == [key |-> 0, active |-> FALSE]
NoRow     == [status |-> "none", rewound |-> FALSE]
NoWalk    == [phase |-> "idle", offset |-> 0, seen |-> {}, steady |-> {}]
NoCall    == [phase |-> "idle"]

FrameworkInit == /\ backend \in {"postgres", "memory"}
                 /\ controls = [c \in Controls |-> NoControl]
                 /\ walk = NoWalk
                 /\ assessment = NoRow
                 /\ assessor = [a \in Assessors |-> NoCall]

(***************************************************************************)
(* Controls                                                                *)
(***************************************************************************)

Rows     == {c \in Controls : controls[c] # NoControl}
Selected == {c \in Controls : controls[c].active}

\* INSERT; the pair of framework and control_id is unique, across frameworks
\* a control_id is not.
CreateControl(c, key) ==
  /\ controls[c] = NoControl
  /\ controls' = [controls EXCEPT ![c] = [key |-> key, active |-> TRUE]]
  /\ UNCHANGED <<backend, walk, assessment, assessor>>

\* The columns the request names; here is_active.  A control that leaves the
\* filter during a walk moves the later ones forward.
UpdateControl(c, active) ==
  /\ c \in Rows
  /\ controls' = [controls EXCEPT ![c].active = active]
  /\ walk' = IF active THEN walk ELSE [walk EXCEPT !.steady = {}]
  /\ UNCHANGED <<backend, assessment, assessor>>

\* Mutant: the rows come in any order.
InOrder_Any(rows) == SetToSeqs(rows)

\* ORDER BY control_id: rows with one control_id come in any order.
Sorted(rows) ==
  {s \in SetToSeqs(rows) :
     \A i, j \in 1..Len(s) : i < j => controls[s[i]].key <= controls[s[j]].key}

\* The maps of the other repository are ranged over in any order.
Ranged(rows) == SetToSeqs(rows)

InOrder(rows) == IF backend = "memory" THEN Ranged(rows) ELSE Sorted(rows)

\* LIMIT and OFFSET.
Page(s, offset) == {s[i] : i \in (offset + 1)..(IF offset + PageSize < Len(s)
                                                THEN offset + PageSize ELSE Len(s))}

\* The client asks for the first page: steady are the controls the walk is to
\* show, unless one leaves the filter meanwhile.
StartWalk ==
  /\ walk.phase # "reading"
  /\ walk' = [phase |-> "reading", offset |-> 0, seen |-> {}, steady |-> Selected]
  /\ UNCHANGED <<backend, controls, assessment, assessor>>

\* ListControls, with the offset the client has come to; a page that is not full
\* is the last.
ListControls ==
  /\ walk.phase = "reading"
  /\ \E s \in InOrder(Selected) :
       LET page == Page(s, walk.offset)
       IN  walk' = [walk EXCEPT !.seen = @ \cup page, !.offset = @ + PageSize,
                                !.phase = IF Cardinality(page) < PageSize
                                          THEN "done" ELSE "reading"]
  /\ UNCHANGED <<backend, controls, assessment, assessor>>

(***************************************************************************)
(* Assessments                                                             *)
(***************************************************************************)

\* ValidAssessmentTransitions.
CanTransitionTo(from, to) ==
  <<from, to>> \in {<<"not_started", "in_progress">>,
                    <<"in_progress", "assessed">>, <<"in_progress", "remediation">>,
                    <<"assessed", "remediation">>, <<"assessed", "in_progress">>,
                    <<"remediation", "in_progress">>, <<"remediation", "assessed">>}

\* Mutant: the upsert starts the assessment again.
GetOrCreateAssessment_Resets == [status |-> "not_started", rewound |-> FALSE]

\* INSERT .. ON CONFLICT DO UPDATE, which leaves an existing row as it is.
GetOrCreateAssessment == IF assessment = NoRow
                         THEN [status |-> "not_started", rewound |-> FALSE]
                         ELSE assessment

\* Mutant: the state machine is not asked.
Admitted_Always(current, status) == TRUE

Admitted(current, status) == current = status \/ CanTransitionTo(current, status)

\* AssessControl up to the check of the transition.
AssessControl(a, status) ==
  /\ assessor[a] = NoCall
  /\ assessment' = GetOrCreateAssessment
  /\ assessor' = IF Admitted(assessment'.status, status)
                 THEN [assessor EXCEPT ![a] = [phase |-> "checked", status |-> status]]
                 ELSE assessor
  /\ UNCHANGED <<backend, controls, walk>>

\* UpdateAssessmentStatus; the row need not be as it was read.
UpdateAssessmentStatus(a) ==
  /\ assessor[a].phase = "checked"
  /\ assessment' =
       [status  |-> assessor[a].status,
        rewound |-> \/ assessment.rewound
                    \/ assessor[a].status = "not_started" /\ assessment.status # "not_started"]
  /\ assessor' = [assessor EXCEPT ![a] = NoCall]
  /\ UNCHANGED <<backend, controls, walk>>

\* An error or an abandoned request between the two.
AbandonAssessment(a) == /\ assessor[a] # NoCall
                        /\ assessor' = [assessor EXCEPT ![a] = NoCall]
                        /\ UNCHANGED <<backend, controls, walk, assessment>>

FrameworkNext ==
  \/ \E c \in Controls : \/ \E key \in Keys : CreateControl(c, key)
                         \/ \E active \in BOOLEAN : UpdateControl(c, active)
  \/ StartWalk \/ ListControls
  \/ \E a \in Assessors : \/ \E status \in Statuses : AssessControl(a, status)
                          \/ UpdateAssessmentStatus(a) \/ AbandonAssessment(a)

FrameworkSpec == FrameworkInit /\ [][FrameworkNext]_frameworkVars

(***************************************************************************)
(* Properties                                                              *)
(***************************************************************************)

\* Over PostgreSQL, a client that reads to the end has seen every control that
\* was there from the start, whatever was created meanwhile, when no control
\* left the filter and no two have one control_id (ListControls,
\* postgres.go:88-180).
WalkMissesNothing ==
  (/\ backend = "postgres"
   /\ walk.phase = "done"
   /\ \A c, d \in Rows : controls[c].key = controls[d].key => c = d)
    => walk.steady \subseteq walk.seen

\* However calls interleave, an assessment is not assessed or remediated before
\* it was in progress and does not go back to the start, except after a call that
\* asked for not_started, while the row was there, and wrote when it had moved on
\* (service.go:136-162).
StatusFollowsMachine ==
  [][LET begun == {"in_progress", "assessed", "remediation"}
     IN  \/ assessment'.rewound
         \/ assessment.status \in begun /\ assessment'.status \in begun
         \/ assessment.status \notin begun
            /\ assessment'.status \in {"not_started", "in_progress"}]_assessment

\* What a client reads is whole, and what it writes is a step of the machine
\* (ListControls, UpdateAssessment).
ControlsAreKept == []WalkMissesNothing /\ StatusFollowsMachine
=============================================================================
