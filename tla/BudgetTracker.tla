---------------------------- MODULE BudgetTracker ----------------------------
(***************************************************************************)
(* Hours planned and spent on the items of a work program                  *)
(* (src/engine/economy/budget_tracker.py) and the progress recorded on     *)
(* them (src/engine/economy/work_program.py).                              *)
(*                                                                         *)
(* Hours are whole numbers and progress is counted in quarters; hourly     *)
(* rates are one rate, so costs are proportional to hours.                 *)
(***************************************************************************)
EXTENDS Naturals, FiniteSets, Functions

CONSTANTS BudgetItems,  \* item ids of the program
          Estimated,    \* estimated_hours of each item, positive
          HoursSet      \* hours that are planned or recorded

ASSUME BudgetAssumption == /\ IsFiniteSet(BudgetItems)
                           /\ Estimated \in [BudgetItems -> Nat \ {0}]
                           /\ HoursSet \subseteq Nat

VARIABLES entries,    \* _entries: the budget entries by item
          progress    \* _progress: share done, in quarters, and status

bvars == <<entries, progress>>

Statuses    == {"pending", "in_progress", "complete", "blocked"}

BudgetInit == /\ entries  = [i \in {} |-> 0]
              /\ progress = [i \in {} |-> 0]

(***************************************************************************)
(* Operations                                                              *)
(***************************************************************************)

\* plan_hours: planning an item again replaces its entry.
PlanHours(i, hours) ==
  /\ entries' = [j \in DOMAIN entries \cup {i} |->
                   IF j = i THEN [planned |-> hours, actual |-> 0] ELSE entries[j]]
  /\ UNCHANGED progress

\* record_actual: the hours given are the total, not an increment.
RecordActual(i, hours) ==
  /\ i \in DOMAIN entries
  /\ entries' = [entries EXCEPT ![i].actual = hours]
  /\ UNCHANGED progress

\* Mutant: an item that is done keeps the status it was given.
StatusFor_AsGiven(done, status) ==
  IF done = 0 /\ status = "in_progress" THEN "pending" ELSE status

\* The status that record_progress stores: done is done, and nothing done is
\* not in progress.
StatusFor(done, status) ==
  IF done = 4 THEN "complete"
  ELSE IF done = 0 /\ status = "in_progress" THEN "pending"
  ELSE status

RecordProgress(i, done, status) ==
  /\ progress' = [j \in DOMAIN progress \cup {i} |->
                    IF j = i THEN [done |-> done, status |-> StatusFor(done, status)]
                    ELSE progress[j]]
  /\ UNCHANGED entries

BudgetNext ==
  \E i \in BudgetItems :
    \/ \E hours \in HoursSet : PlanHours(i, hours) \/ RecordActual(i, hours)
    \/ \E done \in 0..4, status \in Statuses : RecordProgress(i, done, status)

BudgetSpec == BudgetInit /\ [][BudgetNext]_bvars

(***************************************************************************)
(* Queries                                                                 *)
(***************************************************************************)

Thresholds == {50, 75, 90, 100}

\* _alert_level of actual / planned hours; a plan of no hours has no alert.  Levels
\* are counted from "none", the first, by the thresholds reached.
AlertOf(planned, actual) ==
  IF planned = 0 THEN 1
  ELSE 1 + Cardinality({percent \in Thresholds : 100 * actual >= percent * planned})

Planned == [i \in DOMAIN entries |-> entries[i].planned]
Actual  == [i \in DOMAIN entries |-> entries[i].actual]
TotalPlanned == SumFunction(Planned)
TotalActual  == SumFunction(Actual)

\* Mutant: an item is over budget once its utilization is, so never without a plan.
OverBudgetItems_ByRatio ==
  {i \in DOMAIN entries : entries[i].planned > 0 /\ entries[i].actual > entries[i].planned}

\* is_over_budget, gathered by variance_report.
OverBudgetItems == {i \in DOMAIN entries : entries[i].actual > entries[i].planned}

\* Mutant: the plan is totalled over the entries that are within it.
OverallAlert_WithinPlan ==
  AlertOf(SumFunctionOnSet(Planned,
            {i \in DOMAIN entries : entries[i].actual < entries[i].planned}), TotalActual)

OverallAlert == AlertOf(TotalPlanned, TotalActual)

\* get_item_progress and compute_overall_progress, which is Completed out of
\* 4 * TotalEstimated.
Done(i) == IF i \in DOMAIN progress THEN progress[i].done ELSE 0
Completed      == SumFunction([i \in BudgetItems |-> Done(i) * Estimated[i]])
TotalEstimated == SumFunction(Estimated)
ItemsByStatus(status) ==
  {i \in BudgetItems :
     (IF i \in DOMAIN progress THEN progress[i].status ELSE "pending") = status}

(***************************************************************************)
(* Properties                                                              *)
(***************************************************************************)

BudgetTypeOK ==
  /\ DOMAIN entries \subseteq BudgetItems
  /\ \A i \in DOMAIN entries : entries[i] \in [planned : HoursSet, actual : HoursSet \cup {0}]
  /\ DOMAIN progress \subseteq BudgetItems
  /\ \A i \in DOMAIN progress : progress[i] \in [done : 0..4, status : Statuses]

\* An overrun of the whole is always traced to an item that overran: a plan of no
\* hours does not hide it (budget_tracker.py:107-108, 209-226).
OverrunHasItem == TotalActual > TotalPlanned => OverBudgetItems # {}

\* The alert of the engagement is never above every item's own alert, unless hours
\* were spent on an item planned with none, and never below every item's
\* (budget_tracker.py:47-52, 133-143).
OverallWithinItems ==
  DOMAIN entries # {} =>
    /\ \/ \E i \in DOMAIN entries : entries[i].planned = 0 /\ entries[i].actual > 0
       \/ \E i \in DOMAIN entries :
            OverallAlert <= AlertOf(entries[i].planned, entries[i].actual)
    /\ \E i \in DOMAIN entries :
         OverallAlert >= AlertOf(entries[i].planned, entries[i].actual)

\* The program is wholly done only when every item is complete, and an item that
\* is shown in progress has some of its hours done (work_program.py:88-130).
FullProgressIsComplete ==
  /\ Completed = 4 * TotalEstimated => ItemsByStatus("complete") = BudgetItems
  /\ \A i \in ItemsByStatus("in_progress") : Done(i) \in 1..3

\* The figures of the whole follow those of the items: overruns, alerts and
\* progress (budget_tracker.py:87-226, work_program.py:88-130).
TotalsFollowItems ==
  BudgetTypeOK /\ OverrunHasItem /\ OverallWithinItems /\ FullProgressIsComplete
=============================================================================
