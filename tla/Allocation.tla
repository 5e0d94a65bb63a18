----------------------------- MODULE Allocation -----------------------------
(***************************************************************************)
(* The allocation of work items to auditors                                *)
(* (src/engine/economy/resource_allocation.py): one call of                *)
(* allocate_resources on any items and auditors of small sizes.            *)
(*                                                                         *)
(* Control ids are ordered like the numbers of the items.  Costs and names *)
(* are abstracted.                                                         *)
(***************************************************************************)
EXTENDS Naturals, FiniteSets, Sequences, Filters

CONSTANTS WorkItems,   \* 1..n
          Auditors,    \* 1..m
          Risks, ItemHours, Capacities, Kinds

NoOne == 0

ASSUME AllocationAssumption ==
  /\ IsFiniteSet(WorkItems) /\ WorkItems \subseteq Nat
  /\ IsFiniteSet(Auditors) /\ Auditors \subseteq Nat \ {NoOne}
  /\ Risks \subseteq Nat /\ ItemHours \subseteq Nat /\ Capacities \subseteq Nat

VARIABLES item,        \* item[i]: risk_weight, estimated_hours, evidence_required
          auditor,     \* auditor[a]: available_hours and specializations
          result       \* assignments and allocated_hours, once computed

avars == <<item, auditor, result>>

Pending == [assigned |-> <<>>, allocated |-> <<>>]
Nothing == [assigned  |-> [i \in WorkItems |-> NoOne],
            allocated |-> [a \in Auditors |-> 0]]

AllocationInit ==
  /\ item \in [WorkItems -> [risk : Risks, hours : ItemHours, needs : SUBSET Kinds]]
  /\ auditor \in [Auditors -> [available : Capacities, skills : SUBSET Kinds]]
  /\ result = Pending

Remaining(res, a) == auditor[a].available - res.allocated[a]

\* Mutant: any hours left will do.
CanAbsorb_Started(res, a, i) == Remaining(res, a) > 0 /\ item[i].hours > 0

CanAbsorb(res, a, i) == Remaining(res, a) >= item[i].hours

\* The auditor is a specialist for evidence the item needs.
Apt(a, i) == auditor[a].skills \cap item[i].needs # {}

\* The comparison keeps the first auditor with the most remaining hours.
Roomier(res, a, b) == \/ Remaining(res, a) > Remaining(res, b)
                      \/ Remaining(res, a) = Remaining(res, b) /\ a < b

Roomiest(res, as) == CHOOSE a \in as : \A b \in as \ {a} : Roomier(res, a, b)

\* The two passes over the auditors.
Chosen(res, i) ==
  LET able  == {a \in Auditors : CanAbsorb(res, a, i)}
      apt   == {a \in able : Apt(a, i)}
  IN  IF apt # {} THEN Roomiest(res, apt)
      ELSE IF able # {} THEN Roomiest(res, able)
      ELSE NoOne

Assign(res, i) ==
  LET a == Chosen(res, i)
  IN  [assigned  |-> [res.assigned EXCEPT ![i] = a],
       allocated |-> [b \in Auditors |->
                        res.allocated[b] + (IF b = a THEN item[i].hours ELSE 0)]]

LessRisky(i, j) == item[i].risk < item[j].risk \/ (item[i].risk = item[j].risk /\ i < j)
MoreRisky(i, j) == item[i].risk > item[j].risk \/ (item[i].risk = item[j].risk /\ i < j)

\* Mutant: the least risky items come first.
Sorted_Ascending == SortedBy(WorkItems, LessRisky)

\* sorted_items: by falling risk weight, then by control id.
Sorted == SortedBy(WorkItems, MoreRisky)

\* The loop over the items in a given order.
Allocate(items) ==
  LET after[k \in 0..Len(items)] == IF k = 0 THEN Nothing ELSE Assign(after[k - 1], items[k])
  IN  after[Len(items)]

\* allocate_resources
AllocateResources ==
  /\ result = Pending
  /\ result' = Allocate(Sorted)
  /\ UNCHANGED <<item, auditor>>

AllocationSpec == AllocationInit /\ [][AllocateResources]_avars

(***************************************************************************)
(* Properties                                                              *)
(***************************************************************************)

Allocated == result # Pending

\* When all is allocated, no auditor has more than is available, and what is left over
\* fits nowhere (resource_allocation.py:101-131).
AllocationIsMaximal ==
  Allocated => /\ \A a \in Auditors : result.allocated[a] <= auditor[a].available
               /\ \A i \in WorkItems, a \in Auditors :
                    result.assigned[i] = NoOne => Remaining(result, a) < item[i].hours

\* An item goes to somebody without the skills only if no one with them has room,
\* and a less risky item is taken in the place of a riskier one only if it is
\* smaller.
AllocationIsFair ==
  Allocated =>
    \A i \in WorkItems :
      LET given == result.assigned[i]
      IN  /\ (given # NoOne /\ ~Apt(given, i)) =>
               \A a \in Auditors : Apt(a, i) => Remaining(result, a) < item[i].hours
          /\ given = NoOne =>
               \A j \in WorkItems : item[j].risk < item[i].risk /\ result.assigned[j] # NoOne
                                  => item[j].hours < item[i].hours

\* Both of the greedy allocation (allocate_resources).
AllocationIsGreedy == AllocationIsMaximal /\ AllocationIsFair
=============================================================================
