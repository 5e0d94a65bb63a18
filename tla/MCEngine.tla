------------------------------- MODULE MCEngine -------------------------------
(***************************************************************************)
(* The parts of the engine for TLC.  They share no state, so a behaviour   *)
(* belongs to one of them; the variables of the others stay as they are.   *)
(***************************************************************************)
EXTENDS ScopeHistory, WorkProgram, ScopeReview, BudgetTracker, Allocation, Verdict

VARIABLE part

\* An item of the first tier and full quality, and one of the fourth and half of it.
Strong == [name |-> "strong", score |-> 10000, gain |-> 1814, loss |-> 2363]
Fair   == [name |-> "fair", score |-> 2750, gain |-> 539, loss |-> 567]
StrongAndFair == {Strong, Fair}

SomeControl == [material |-> FALSE, prior |-> 0, population |-> 0, expected |-> 1,
                zsquare |-> 38416]

TwoAndFourHours == [i \in BudgetItems |-> 2 * i]

\* The inputs of the other parts are of no account to a part.
MCInit == /\ part \in {"scope", "review", "budget", "allocation", "verdict"}
          /\ HistoryInit /\ ReviewInit /\ BudgetInit
          /\ IF part = "allocation" THEN AllocationInit
             ELSE item = <<>> /\ auditor = <<>> /\ result = Pending
          /\ VerdictInit
          /\ part # "verdict" => control = SomeControl

MCNext ==
  /\ UNCHANGED part
  /\ \/ part = "scope" /\ HistoryNext /\ UNCHANGED <<rvars, bvars, avars, verdictVars>>
     \/ part = "review" /\ ReviewNext /\ UNCHANGED <<hvars, bvars, avars, verdictVars>>
     \/ part = "budget" /\ BudgetNext /\ UNCHANGED <<hvars, rvars, avars, verdictVars>>
     \/ /\ part = "allocation" /\ AllocateResources
        /\ UNCHANGED <<hvars, rvars, bvars, verdictVars>>
     \/ part = "verdict" /\ VerdictNext /\ UNCHANGED <<hvars, rvars, bvars, avars>>

MCSpec == MCInit /\ [][MCNext]_<<part, hvars, rvars, bvars, avars, verdictVars>>
===============================================================================
