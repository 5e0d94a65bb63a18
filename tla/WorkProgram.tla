----------------------------- MODULE WorkProgram -----------------------------
(***************************************************************************)
(* The work program generated from an approved or locked scope             *)
(* (src/engine/economy/work_program.py): in-scope controls, taken greedily *)
(* into a budget of hours and listed by risk.  It is a function of the     *)
(* scope; what is recorded on it is modelled in BudgetTracker.  Where a    *)
(* sort leaves a tie, the topological order of the graph decides: the      *)
(* nodes are numbered in it.                                               *)
(***************************************************************************)
EXTENDS Scope, FiniteSets, Sequences, Functions, Filters

CONSTANT Budget       \* budget_hours

ASSUME ProgramAssumption == /\ IsFiniteSet(Nodes) /\ Nodes \subseteq Nat /\ Controls \subseteq Nat
                            /\ Weights \subseteq Nat /\ Budget \in Nat

\* _estimate_hours: four hours for a unit of weight, and two at least.
Hours(n) == LET w == node[n].risk_weight IN IF w < 2 THEN 2 ELSE w

Weight(n) == node[n].risk_weight

\* By control id, as a stable sort of the list in topological order does.
ByControl(a, b) == \/ node[a].control_id < node[b].control_id
                   \/ node[a].control_id = node[b].control_id /\ a < b

\* The key of candidates.sort: weight per hour, then the control id.
MoreEfficient(a, b) ==
  LET ab == Weight(a) * Hours(b)
      ba == Weight(b) * Hours(a)
  IN  ab > ba \/ (ab = ba /\ ByControl(a, b))

\* WorkItem.__lt__: the higher weight, then the control id.
Riskier(a, b) == Weight(a) > Weight(b) \/ (Weight(a) = Weight(b) /\ ByControl(a, b))

InScopeNodes == {n \in InDag : node[n].boundary_status = "in_scope"}

\* Mutant: the program ends with the first candidate that does not fit.
Take_StopsWhenFull(program, n) ==
  IF program.hours + Hours(n) <= Budget /\ program.items = {m \in InScopeNodes : MoreEfficient(m, n)}
  THEN [hours |-> program.hours + Hours(n), items |-> program.items \cup {n}]
  ELSE program

\* One candidate: it is taken if it still fits.
Take(program, n) ==
  IF program.hours + Hours(n) <= Budget
  THEN [hours |-> program.hours + Hours(n), items |-> program.items \cup {n}]
  ELSE program

\* The loop over the candidates.
Greedy(candidates) ==
  LET after[k \in 0..Len(candidates)] ==
        IF k = 0 THEN [hours |-> 0, items |-> {}] ELSE Take(after[k - 1], candidates[k])
  IN  after[Len(candidates)]

\* generate_work_program.  The topological order in which the nodes are read
\* from the graph is lost in the first sort.
GenerateWorkProgram ==
  SortedBy(Greedy(SortedBy(InScopeNodes, MoreEfficient)).items, Riskier)

\* generate_work_program_from_dag refuses a scope in any other state.
Generable == state \in {"approved", "locked"}

\* A program stays within the budget of hours, and no audited control is left out
\* that would still fit: skipping a long one does not end the search
\* (work_program.py:211-214).
ProgramIsMaximal ==
  Generable =>
    LET items  == GenerateWorkProgram
        booked == SumFunctionOnSet([n \in Range(items) |-> Hours(n)], Range(items))
    IN  /\ booked <= Budget
        /\ \A n \in InScopeNodes \ Range(items) : booked + Hours(n) > Budget

\* "This guarantees parent controls are always processed before their children"
\* (work_program.py:21-22): an item comes after the items of its parents.
ParentsFirst ==
  Generable =>
    LET items == GenerateWorkProgram
    IN  \A i, j \in 1..Len(items) : items[i] \in node[items[j]].parent_ids => i < j
=============================================================================
