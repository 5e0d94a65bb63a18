\* The engine's scope with two controls and one version, requests of two people
\* for two engagements, budgets of two items, any allocation of three
\* items, and a control of up to twelve items of evidence.
SPECIFICATION MCSpec
CONSTANTS
  Nodes = {1, 2}
  Controls = {1, 2}
  Weights = {2, 6}
  Versions = {1}
  MaxEdits = 1
  Budget = 5
  Engagements = {e1, e2}
  People = {p, q}
  MaxRequests = 2
  BudgetItems = {1, 2}
  Estimated <- TwoAndFourHours
  HoursSet = {0, 2, 3}
  WorkItems = {1, 2, 3}
  Auditors = {1, 2}
  Risks = {1, 3}
  ItemHours = {2, 4}
  Capacities = {0, 5, 8}
  Kinds = {"doc"}
  EvidenceKinds <- StrongAndFair
  Priors = {0, 1386}
  Populations = {0, 3, 20}
  ExpectedRates = {1, 5}
  ZSquares = {38416}
  MaxItems = 12
  MaxFailing = 2
INVARIANTS GraphIsKept TrailTellsRequests TotalsFollowItems ProgramIsMaximal AllocationIsGreedy
PROPERTIES VersionsTellHistory VerdictIsSound
\* Versions, requests and the state of the scope run out.
CHECK_DEADLOCK FALSE
